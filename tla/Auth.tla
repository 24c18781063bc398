-------------------------------- MODULE Auth --------------------------------
(***************************************************************************)
(* The auth service: registration, login and the rotation of refresh       *)
(* tokens.  Every request runs in its own goroutine; the store calls it    *)
(* makes are its steps (one mutex section or one SQL statement each).      *)
(*                                                                         *)
(* Passwords and access tokens are left out: VerifyPassword and            *)
(* SignAccessToken touch no state.  A token id stands for the token's      *)
(* hash as well.                                                           *)
(***************************************************************************)
EXTENDS Integers, FiniteSets

CONSTANTS
  Emails,     \* normalized email addresses
  AccountIDs, \* ids the generator hands out to accounts
  TokenIDs,   \* ids it hands out to refresh tokens
  Workers,    \* goroutines that serve requests
  Overlap,    \* whether two requests may present the same token at a time
  NoReq,      \* a worker that serves no request
  NoToken     \* no token of that id, or a login that follows no token

VARIABLES
  accounts,  \* the accounts, a set of rows
  tokens,    \* the refresh tokens
  req        \* the request each worker is serving

vars == <<accounts, tokens, req>>

-----------------------------------------------------------------------------

Account == [id : AccountIDs, email : Emails]

(* from is a history field: the token that was rotated into this one.      *)
Token == [acct : AccountIDs, revoked : BOOLEAN, expired : BOOLEAN,
          from : TokenIDs \cup {NoToken}]

(* The steps still to come: create an account, revoke a token and look its *)
(* account up, save a new token.                                           *)
Request ==
  [step : {"create"}, email : Emails]
    \cup [step : {"revoke", "lookup"}, token : TokenIDs]
    \cup [step : {"save"}, acct : AccountIDs, from : TokenIDs \cup {NoToken}]

ASSUME AuthAssumption ==
  /\ Overlap \in BOOLEAN
  /\ NoToken \notin TokenIDs \cup Token
  /\ NoReq \notin Request

At(w, step) == req[w] # NoReq /\ req[w].step = step

Go(w, r) == req' = [req EXCEPT ![w] = r]

HasEmail(e) == \E a \in accounts : a.email = e

-----------------------------------------------------------------------------

(* Register looks for the email first, then hashes the password.           *)
RegisterCheck(w, e) ==
  /\ req[w] = NoReq
  /\ ~HasEmail(e)
  /\ Go(w, [step |-> "create", email |-> e])
  /\ UNCHANGED <<accounts, tokens>>

(* Mutants of CreateAccount: no unique index; its error is not looked at.  *)
CreateAccountNoIndex(w, id) ==
  /\ At(w, "create")
  /\ \A a \in accounts : a.id # id
  /\ accounts' = accounts \cup {[id |-> id, email |-> req[w].email]}
  /\ Go(w, [step |-> "save", acct |-> id, from |-> NoToken])
  /\ UNCHANGED tokens

CreateAccountErrorLost(w, id) ==
  /\ At(w, "create")
  /\ \A a \in accounts : a.id # id
  /\ accounts' = IF HasEmail(req[w].email) THEN accounts
                 ELSE accounts \cup {[id |-> id, email |-> req[w].email]}
  /\ Go(w, [step |-> "save", acct |-> id, from |-> NoToken])
  /\ UNCHANGED tokens

(* CreateAccount has a check of its own, the unique index on email.        *)
CreateAccount(w, id) ==
  /\ At(w, "create")
  /\ \A a \in accounts : a.id # id
  /\ IF HasEmail(req[w].email)
     THEN Go(w, NoReq) /\ UNCHANGED accounts
     ELSE /\ accounts' = accounts \cup {[id |-> id, email |-> req[w].email]}
          /\ Go(w, [step |-> "save", acct |-> id, from |-> NoToken])
  /\ UNCHANGED tokens

(* Login finds the account and verifies the password.                      *)
Login(w, a) ==
  /\ req[w] = NoReq
  /\ a \in accounts
  /\ Go(w, [step |-> "save", acct |-> a.id, from |-> NoToken])
  /\ UNCHANGED <<accounts, tokens>>

(* Requests for token t that are under way.                                *)
Presenting(t) ==
  {w \in Workers : At(w, "revoke") /\ req[w].token = t}

(* Refresh reads the token: it must exist, unrevoked and unexpired.        *)
RefreshRead(w, t) ==
  /\ req[w] = NoReq
  /\ Overlap \/ Presenting(t) = {}
  /\ tokens[t] # NoToken
  /\ ~tokens[t].revoked
  /\ ~tokens[t].expired
  /\ Go(w, [step |-> "revoke", token |-> t])
  /\ UNCHANGED <<accounts, tokens>>

(* Mutant of RevokeRefresh: the token stays usable.                        *)
RevokeForgotten(w) ==
  /\ At(w, "revoke")
  /\ Go(w, [step |-> "lookup", token |-> req[w].token])
  /\ UNCHANGED <<accounts, tokens>>

(* RevokeRefresh reports success for a token that is revoked already.      *)
RevokeRefresh(w) ==
  /\ At(w, "revoke")
  /\ tokens' = [tokens EXCEPT ![req[w].token].revoked = TRUE]
  /\ Go(w, [step |-> "lookup", token |-> req[w].token])
  /\ UNCHANGED accounts

AccountByID(w) ==
  /\ At(w, "lookup")
  /\ \E a \in accounts :
       /\ a.id = tokens[req[w].token].acct
       /\ Go(w, [step |-> "save", acct |-> a.id, from |-> req[w].token])
  /\ UNCHANGED <<accounts, tokens>>

(* issuePair saves the new refresh token; the client gets the pair.        *)
SaveRefresh(w, t) ==
  /\ At(w, "save")
  /\ tokens[t] = NoToken
  /\ tokens' = [tokens EXCEPT ![t] =
       [acct |-> req[w].acct, revoked |-> FALSE, expired |-> FALSE, from |-> req[w].from]]
  /\ Go(w, NoReq)
  /\ UNCHANGED accounts

(* A store call fails, the client goes away or the process dies: the       *)
(* request ends where it is.                                               *)
Abort(w) ==
  /\ req[w] # NoReq
  /\ Go(w, NoReq)
  /\ UNCHANGED <<accounts, tokens>>

(* The token's lifetime ends.                                              *)
Expire(t) ==
  /\ tokens[t] # NoToken
  /\ ~tokens[t].expired
  /\ tokens' = [tokens EXCEPT ![t].expired = TRUE]
  /\ UNCHANGED <<accounts, req>>

-----------------------------------------------------------------------------

Init ==
  /\ accounts = {}
  /\ tokens = [t \in TokenIDs |-> NoToken]
  /\ req = [w \in Workers |-> NoReq]

BeginRefresh == \E w \in Workers, t \in TokenIDs : RefreshRead(w, t)

OtherStep ==
  \/ \E w \in Workers :
       \/ \E e \in Emails : RegisterCheck(w, e)
       \/ \E id \in AccountIDs : CreateAccount(w, id)
       \/ \E a \in accounts : Login(w, a)
       \/ \E t \in TokenIDs : SaveRefresh(w, t)
       \/ RevokeRefresh(w)
       \/ AccountByID(w)
       \/ Abort(w)
  \/ \E t \in TokenIDs : Expire(t)

Next == BeginRefresh \/ OtherStep

Spec == Init /\ [][Next]_vars

-----------------------------------------------------------------------------
(* Properties.                                                             *)

(* Type correctness; a token always belongs to an account that exists.     *)
TypeOK ==
  /\ accounts \subseteq Account
  /\ tokens \in [TokenIDs -> Token \cup {NoToken}]
  /\ req \in [Workers -> Request \cup {NoReq}]
  /\ \A t \in TokenIDs : tokens[t] # NoToken =>
       \E a \in accounts : a.id = tokens[t].acct

(* Two registrations of one email that race past the first check do not    *)
(* both create an account.                                                 *)
EmailsUnique == \A a, b \in accounts : a.email = b.email => a = b

(* Rotation on use makes a refresh token "single-use": at most one other   *)
(* token is ever issued for it, and none while it can still be presented.  *)
SingleUse ==
  \A t \in TokenIDs :
    LET heirs == {h \in TokenIDs : tokens[h] # NoToken /\ tokens[h].from = t}
    IN  /\ Cardinality(heirs) <= 1
        /\ heirs # {} => tokens[t].revoked
=============================================================================
