----------------------------- MODULE AuthProofs -----------------------------
(***************************************************************************)
(* Theorems about Auth and Ingress, for any emails, ids and number of      *)
(* concurrent requests, and any rate and window of the gateway.            *)
(***************************************************************************)
EXTENDS Ingress, FiniteSetTheorems, TLAPS

(* The steps of Next, one fact for all the proofs that go through them.    *)
LEMMA Steps ==
  ASSUME Next
  PROVE  \/ \E w \in Workers, t \in TokenIDs : RefreshRead(w, t) \/ SaveRefresh(w, t)
         \/ \E w \in Workers, e \in Emails : RegisterCheck(w, e)
         \/ \E w \in Workers, id \in AccountIDs : CreateAccount(w, id)
         \/ \E w \in Workers, a \in accounts : Login(w, a)
         \/ \E w \in Workers : RevokeRefresh(w) \/ AccountByID(w) \/ Abort(w)
         \/ \E t \in TokenIDs : Expire(t)
BY DEF Next, BeginRefresh, OtherStep

-----------------------------------------------------------------------------
(* Types.  A request that will save a token has an account for it, and one *)
(* that revokes or looks up has a token that exists.                       *)

HasAccount(id) == \E a \in accounts : a.id = id

ReqInv ==
  \A w \in Workers :
    /\ At(w, "revoke") \/ At(w, "lookup") => tokens[req[w].token] # NoToken
    /\ At(w, "save") => HasAccount(req[w].acct)

TypeInv == TypeOK /\ ReqInv

LEMMA TypeStep == AuthAssumption /\ TypeInv /\ [Next]_vars => TypeInv'
<1> SUFFICES ASSUME AuthAssumption, TypeInv, [Next]_vars PROVE TypeInv'
  OBVIOUS
<1> USE DEF TypeInv, TypeOK, ReqInv, At, Go, HasAccount
<1>1. ASSUME NEW w \in Workers, NEW t \in TokenIDs, RefreshRead(w, t) PROVE TypeInv'
  <2>1. [step |-> "revoke", token |-> t] \in Request
    BY DEF Request
  <2> QED
    BY <1>1, <2>1 DEF RefreshRead
<1>2. ASSUME NEW w \in Workers, NEW t \in TokenIDs, SaveRefresh(w, t) PROVE TypeInv'
  <2> DEFINE new == [acct |-> req[w].acct, revoked |-> FALSE, expired |-> FALSE,
                     from |-> req[w].from]
  <2>1. req[w] \in Request /\ req[w].step = "save"
    BY <1>2 DEF SaveRefresh
  <2>2. new \in Token /\ new # NoToken
    <3>1. req[w].acct \in AccountIDs /\ req[w].from \in TokenIDs \cup {NoToken}
      BY <2>1 DEF Request
    <3>2. new \in Token
      BY <3>1 DEF Token
    <3> QED
      BY <3>2 DEF AuthAssumption
  <2>3. HasAccount(req[w].acct)
    BY <1>2 DEF SaveRefresh
  <2>4. tokens' = [tokens EXCEPT ![t] = new] /\ accounts' = accounts
    BY <1>2 DEF SaveRefresh
  <2>5. new.acct = req[w].acct
    OBVIOUS
  <2>6. req' = [req EXCEPT ![w] = NoReq]
    BY <1>2 DEF SaveRefresh
  <2> HIDE DEF new
  <2>7. TypeOK'
    BY <2>2, <2>3, <2>4, <2>5, <2>6
  <2>8. ReqInv'
    BY <2>2, <2>4, <2>6
  <2> QED
    BY <2>7, <2>8
<1>3. ASSUME NEW w \in Workers, NEW e \in Emails, RegisterCheck(w, e) PROVE TypeInv'
  <2>1. [step |-> "create", email |-> e] \in Request
    BY DEF Request
  <2> QED
    BY <1>3, <2>1 DEF RegisterCheck
<1>4. ASSUME NEW w \in Workers, NEW id \in AccountIDs, CreateAccount(w, id) PROVE TypeInv'
  <2>1. [id |-> id, email |-> req[w].email] \in Account
    BY <1>4 DEF CreateAccount, Request, Account
  <2>2. [step |-> "save", acct |-> id, from |-> NoToken] \in Request
    BY DEF Request
  <2>3. CASE HasEmail(req[w].email)
    BY <1>4, <2>3 DEF CreateAccount
  <2>4. CASE ~HasEmail(req[w].email)
    BY <1>4, <2>1, <2>2, <2>4 DEF CreateAccount
  <2> QED
    BY <2>3, <2>4
<1>5. ASSUME NEW w \in Workers, NEW a \in accounts, Login(w, a) PROVE TypeInv'
  <2>1. [step |-> "save", acct |-> a.id, from |-> NoToken] \in Request
    BY DEF Request, Account
  <2> QED
    BY <1>5, <2>1 DEF Login
<1>6. ASSUME NEW w \in Workers, RevokeRefresh(w) PROVE TypeInv'
  <2> DEFINE t == req[w].token
  <2>1. t \in TokenIDs /\ tokens[t] \in Token /\ tokens[t] # NoToken
    BY <1>6 DEF RevokeRefresh, Request
  <2>2. [tokens[t] EXCEPT !.revoked = TRUE] \in Token \ {NoToken}
    BY <2>1 DEF Token, AuthAssumption
  <2>3. [step |-> "lookup", token |-> t] \in Request
    BY <2>1 DEF Request
  <2>4. [tokens[t] EXCEPT !.revoked = TRUE].acct = tokens[t].acct
    BY <2>1 DEF Token
  <2>5. tokens' = [tokens EXCEPT ![t] = [tokens[t] EXCEPT !.revoked = TRUE]]
    BY <1>6 DEF RevokeRefresh
  <2> QED
    BY <1>6, <2>1, <2>2, <2>3, <2>4, <2>5 DEF RevokeRefresh
<1>7. ASSUME NEW w \in Workers, AccountByID(w) PROVE TypeInv'
  <2>1. PICK a \in accounts : Go(w, [step |-> "save", acct |-> a.id, from |-> req[w].token])
    BY <1>7 DEF AccountByID
  <2>2. [step |-> "save", acct |-> a.id, from |-> req[w].token] \in Request
    BY <1>7 DEF AccountByID, Request, Account
  <2> QED
    BY <1>7, <2>1, <2>2 DEF AccountByID
<1>8. ASSUME NEW w \in Workers, Abort(w) PROVE TypeInv'
  BY <1>8 DEF Abort
<1>9. ASSUME NEW t \in TokenIDs, Expire(t) PROVE TypeInv'
  <2>1. tokens[t] \in Token
    BY <1>9 DEF Expire
  <2>2. [tokens[t] EXCEPT !.expired = TRUE] \in Token \ {NoToken}
    BY <2>1 DEF Token, AuthAssumption
  <2>3. [tokens[t] EXCEPT !.expired = TRUE].acct = tokens[t].acct
    BY <2>1 DEF Token
  <2>4. tokens' = [tokens EXCEPT ![t] = [tokens[t] EXCEPT !.expired = TRUE]]
    BY <1>9 DEF Expire
  <2> QED
    BY <1>9, <2>2, <2>3, <2>4 DEF Expire
<1>10. CASE UNCHANGED vars
  BY <1>10 DEF vars
<1> QED
  BY <1>1, <1>2, <1>3, <1>4, <1>5, <1>6, <1>7, <1>8, <1>9, <1>10, Steps

(* Every token belongs to an account that exists, whatever fails and       *)
(* whatever overlaps.                                                      *)
THEOREM TypeCorrect == Spec => []TypeOK
<1>1. Init => TypeInv
  BY DEF Init, TypeInv, TypeOK, ReqInv, At
<1>2. TypeInv /\ [Next]_vars => TypeInv'
  BY TypeStep, AuthAssumption
<1>3. TypeInv => TypeOK
  BY DEF TypeInv
<1> QED
  BY <1>1, <1>2, <1>3, PTL DEF Spec

-----------------------------------------------------------------------------
(* Unique emails: the second check, in CreateAccount, is what counts.      *)

LEMMA EmailsStep == TypeOK /\ EmailsUnique /\ [Next]_vars => EmailsUnique'
<1> SUFFICES ASSUME TypeOK, EmailsUnique, [Next]_vars PROVE EmailsUnique'
  OBVIOUS
<1>1. ASSUME NEW w \in Workers, NEW id \in AccountIDs, CreateAccount(w, id)
      PROVE  EmailsUnique'
  <2>1. CASE HasEmail(req[w].email)
    BY <1>1, <2>1 DEF CreateAccount, EmailsUnique
  <2>2. CASE ~HasEmail(req[w].email)
    BY <1>1, <2>2 DEF CreateAccount, EmailsUnique, HasEmail
  <2> QED
    BY <2>1, <2>2
<1>2. ASSUME UNCHANGED accounts PROVE EmailsUnique'
  BY <1>2 DEF EmailsUnique
<1>3. CASE UNCHANGED vars
  BY <1>2, <1>3 DEF vars
<1> QED
  BY <1>1, <1>2, <1>3, Steps DEF RefreshRead, SaveRefresh, RegisterCheck, Login,
     RevokeRefresh, AccountByID, Abort, Expire

(* However many registrations of one email race past the first check, one  *)
(* account comes of them.                                                  *)
THEOREM OneAccountPerEmail == Spec => []EmailsUnique
<1>1. Init => EmailsUnique
  BY DEF Init, EmailsUnique
<1>2. TypeOK /\ EmailsUnique /\ [Next]_vars => EmailsUnique'
  BY EmailsStep
<1> QED
  BY <1>1, <1>2, TypeCorrect, PTL DEF Spec

-----------------------------------------------------------------------------
(* Single use of refresh tokens, where two requests do not present one     *)
(* token at a time.  A token is under rotation from the moment it has been *)
(* read until its heir is saved or the request ends; one request does it,  *)
(* and while it lasts there is no heir.                                    *)

Heir(h, t) == tokens[h] # NoToken /\ tokens[h].from = t

Rotates(w, t) ==
  \/ (At(w, "revoke") \/ At(w, "lookup")) /\ req[w].token = t
  \/ At(w, "save") /\ req[w].from = t

Spent(t) == tokens[t] # NoToken /\ tokens[t].revoked

RotationInv ==
  \A t \in TokenIDs :
    /\ \A w \in Workers : Rotates(w, t) /\ ~At(w, "revoke") => Spent(t)
    /\ \A v, w \in Workers : Rotates(v, t) /\ Rotates(w, t) => v = w
    /\ \A h \in TokenIDs : Heir(h, t) => Spent(t)
    /\ \A g, h \in TokenIDs : Heir(g, t) /\ Heir(h, t) => g = h
    /\ \A w \in Workers, h \in TokenIDs : ~(Rotates(w, t) /\ Heir(h, t))

(* A step that creates no token, revives none and starts no rotation keeps *)
(* the invariant.                                                          *)
LEMMA RotationKept ==
  ASSUME RotationInv,
         \A t \in TokenIDs : Spent(t) => Spent(t)',
         \A h, t \in TokenIDs : Heir(h, t)' => Heir(h, t),
         \A w \in Workers, t \in TokenIDs : Rotates(w, t)' => Rotates(w, t),
         \A w \in Workers, t \in TokenIDs :
           Rotates(w, t)' /\ ~At(w, "revoke")' => ~At(w, "revoke") \/ Spent(t)'
  PROVE  RotationInv'
<1> SUFFICES ASSUME NEW t \in TokenIDs
             PROVE  (/\ \A w \in Workers : Rotates(w, t) /\ ~At(w, "revoke") => Spent(t)
                     /\ \A v, w \in Workers : Rotates(v, t) /\ Rotates(w, t) => v = w
                     /\ \A h \in TokenIDs : Heir(h, t) => Spent(t)
                     /\ \A g, h \in TokenIDs : Heir(g, t) /\ Heir(h, t) => g = h
                     /\ \A w \in Workers, h \in TokenIDs : ~(Rotates(w, t) /\ Heir(h, t)))'
  BY DEF RotationInv
<1> QED
  BY DEF RotationInv

LEMMA RotationStep == AuthAssumption /\ ~Overlap /\ TypeInv /\ RotationInv /\ [Next]_vars => RotationInv'
<1> SUFFICES ASSUME AuthAssumption, ~Overlap, TypeInv, RotationInv, [Next]_vars
             PROVE  RotationInv'
  OBVIOUS
<1> USE DEF TypeInv, TypeOK
<1>1. ASSUME NEW w \in Workers, NEW t \in TokenIDs, RefreshRead(w, t) PROVE RotationInv'
  <2>1. tokens[t] # NoToken /\ ~Spent(t) /\ req[w] = NoReq
    BY <1>1 DEF RefreshRead, Spent
  <2>2. \A v \in Workers : ~Rotates(v, t)
    <3>1. \A v \in Workers : ~(At(v, "revoke") /\ req[v].token = t)
      BY <1>1 DEF RefreshRead, Presenting
    <3> QED
      BY <3>1, <2>1 DEF RotationInv, Rotates, At
  <2>3. \A h \in TokenIDs : ~Heir(h, t)
    BY <2>1 DEF RotationInv
  <2>4. req' = [req EXCEPT ![w] = [step |-> "revoke", token |-> t]] /\ tokens' = tokens
    BY <1>1 DEF RefreshRead, Go
  <2>5. \A v \in Workers, u \in TokenIDs :
          /\ v # w => (Rotates(v, u)' <=> Rotates(v, u)) /\ (At(v, "revoke")' <=> At(v, "revoke"))
          /\ Rotates(w, u)' => u = t
    BY <2>4 DEF Rotates, At
  <2>6. At(w, "revoke")'
    BY <2>4 DEF At, AuthAssumption, Request
  <2>7. \A h, u \in TokenIDs : (Heir(h, u)' <=> Heir(h, u)) /\ (Spent(u)' <=> Spent(u))
    BY <2>4 DEF Heir, Spent
  <2> QED
    BY <2>2, <2>3, <2>5, <2>6, <2>7 DEF RotationInv
<1>2. ASSUME NEW w \in Workers, NEW n \in TokenIDs, SaveRefresh(w, n) PROVE RotationInv'
  <2>1. At(w, "save") /\ tokens[n] = NoToken
    BY <1>2 DEF SaveRefresh
  <2> DEFINE new == [acct |-> req[w].acct, revoked |-> FALSE, expired |-> FALSE,
                     from |-> req[w].from]
  <2>2. tokens' = [tokens EXCEPT ![n] = new] /\ req' = [req EXCEPT ![w] = NoReq]
    BY <1>2 DEF SaveRefresh, Go
  <2>3. \A u \in TokenIDs : Spent(u) => u # n /\ Spent(u)'
    BY <2>1, <2>2 DEF Spent
  <2>4. \A h, u \in TokenIDs : Heir(h, u)' => Heir(h, u) \/ (h = n /\ Rotates(w, u))
    <3>1. tokens'[n] = new /\ new.from = req[w].from
      BY <2>2
    <3>2. \A h \in TokenIDs : h # n => tokens'[h] = tokens[h]
      BY <2>2
    <3>3. \A u \in TokenIDs : Heir(n, u)' => Rotates(w, u)
      BY <2>1, <3>1 DEF Heir, Rotates
    <3>4. \A h, u \in TokenIDs : h # n => (Heir(h, u)' <=> Heir(h, u))
      BY <3>2 DEF Heir
    <3> QED
      BY <3>3, <3>4
  <2>5. \A v \in Workers, u \in TokenIDs :
          Rotates(v, u)' => v # w /\ Rotates(v, u) /\ (At(v, "revoke")' <=> At(v, "revoke"))
    BY <2>2 DEF Rotates, At
  <2>6. \A u \in TokenIDs : Rotates(w, u) => Spent(u)
    BY <2>1 DEF RotationInv, At
  <2> HIDE DEF new
  <2> QED
    BY <2>3, <2>4, <2>5, <2>6 DEF RotationInv
<1>3. ASSUME NEW w \in Workers, RevokeRefresh(w) PROVE RotationInv'
  <2>0. PICK t \in TokenIDs : t = req[w].token
    BY <1>3 DEF RevokeRefresh, At, Request
  <2>1. At(w, "revoke") /\ req[w].token = t /\ tokens[t] \in Token
    BY <1>3, <2>0 DEF RevokeRefresh, At, ReqInv
  <2>2. tokens' = [tokens EXCEPT ![t] = [tokens[t] EXCEPT !.revoked = TRUE]]
    BY <1>3, <2>1 DEF RevokeRefresh
  <2>3. req' = [req EXCEPT ![w] = [step |-> "lookup", token |-> t]]
    BY <1>3, <2>1 DEF RevokeRefresh, Go
  <2>4. [tokens[t] EXCEPT !.revoked = TRUE] \in Token
    BY <2>1 DEF Token
  <2>5. Spent(t)' /\ \A u \in TokenIDs : Spent(u) => Spent(u)'
    <3>1. tokens'[t] \in Token /\ tokens'[t].revoked
      BY <2>1, <2>2, <2>4 DEF Token
    <3>2. \A u \in TokenIDs : u # t => tokens'[u] = tokens[u]
      BY <2>1, <2>2
    <3> QED
      BY <3>1, <3>2 DEF Spent, AuthAssumption
  <2>6. \A h, u \in TokenIDs : Heir(h, u)' => Heir(h, u)
    BY <2>1, <2>2 DEF Heir, Token, ReqInv
  <2>7. \A v \in Workers, u \in TokenIDs : Rotates(v, u)' => Rotates(v, u)
    BY <2>1, <2>3 DEF Rotates, At
  <2>8. \A v \in Workers, u \in TokenIDs :
          Rotates(v, u)' /\ ~At(v, "revoke")' => ~At(v, "revoke") \/ Spent(u)'
    BY <2>3, <2>5 DEF Rotates, At
  <2> QED
    BY <2>5, <2>6, <2>7, <2>8, RotationKept
<1>4. ASSUME NEW w \in Workers, AccountByID(w) PROVE RotationInv'
  <2>1. PICK a \in accounts : req' = [req EXCEPT ![w] = [step |-> "save", acct |-> a.id, from |-> req[w].token]]
    BY <1>4 DEF AccountByID, Go
  <2>2. At(w, "lookup") /\ tokens' = tokens
    BY <1>4 DEF AccountByID
  <2>3. \A u, h \in TokenIDs : (Heir(h, u)' <=> Heir(h, u)) /\ (Spent(u)' <=> Spent(u))
    BY <2>2 DEF Heir, Spent
  <2>4. \A v \in Workers, u \in TokenIDs : Rotates(v, u)' => Rotates(v, u)
    BY <2>1, <2>2 DEF Rotates, At
  <2>5. \A v \in Workers : At(v, "revoke") => At(v, "revoke")'
    BY <2>1, <2>2 DEF At
  <2> QED
    BY <2>3, <2>4, <2>5, RotationKept
<1>5. ASSUME NEW w \in Workers, NEW r, req' = [req EXCEPT ![w] = r], tokens' = tokens,
             \/ r = NoReq
             \/ r \in Request /\ (r.step = "create" \/ (r.step = "save" /\ r.from = NoToken))
      PROVE  RotationInv'
  <2>1. \A u, h \in TokenIDs : (Heir(h, u)' <=> Heir(h, u)) /\ (Spent(u)' <=> Spent(u))
    BY <1>5 DEF Heir, Spent
  <2>2. \A v \in Workers, u \in TokenIDs :
          Rotates(v, u)' => v # w /\ Rotates(v, u) /\ (At(v, "revoke")' <=> At(v, "revoke"))
    BY <1>5 DEF Rotates, At, AuthAssumption
  <2> QED
    BY <2>1, <2>2, RotationKept
<1>6. ASSUME NEW w \in Workers, NEW e \in Emails, RegisterCheck(w, e) PROVE RotationInv'
  <2> DEFINE r == [step |-> "create", email |-> e]
  <2>1. r \in Request /\ r.step = "create"
    BY DEF Request
  <2>2. req' = [req EXCEPT ![w] = r] /\ tokens' = tokens
    BY <1>6 DEF RegisterCheck, Go
  <2> QED
    BY <1>5, <2>1, <2>2
<1>7. ASSUME NEW w \in Workers, NEW id \in AccountIDs, CreateAccount(w, id) PROVE RotationInv'
  <2>1. [step |-> "save", acct |-> id, from |-> NoToken] \in Request
    BY DEF Request
  <2> QED
    BY <1>5, <1>7, <2>1 DEF CreateAccount, Go
<1>8. ASSUME NEW w \in Workers, NEW a \in accounts, Login(w, a) PROVE RotationInv'
  <2>1. [step |-> "save", acct |-> a.id, from |-> NoToken] \in Request
    BY DEF Request, Account
  <2> QED
    BY <1>5, <1>8, <2>1 DEF Login, Go
<1>9. ASSUME NEW w \in Workers, Abort(w) PROVE RotationInv'
  BY <1>5, <1>9 DEF Abort, Go
<1>10. ASSUME NEW t \in TokenIDs, Expire(t) PROVE RotationInv'
  <2>1. tokens[t] \in Token /\ tokens[t] # NoToken
    BY <1>10 DEF Expire
  <2>2. tokens' = [tokens EXCEPT ![t] = [tokens[t] EXCEPT !.expired = TRUE]] /\ req' = req
    BY <1>10 DEF Expire
  <2>3. [tokens[t] EXCEPT !.expired = TRUE] \in Token
    BY <2>1 DEF Token
  <2>4. \A u \in TokenIDs : Spent(u) => Spent(u)'
    BY <2>1, <2>2, <2>3 DEF Spent, Token, AuthAssumption
  <2>5. \A h, u \in TokenIDs : Heir(h, u)' => Heir(h, u)
    BY <2>1, <2>2 DEF Heir, Token
  <2>6. \A v \in Workers, u \in TokenIDs :
          Rotates(v, u)' => Rotates(v, u) /\ (At(v, "revoke")' <=> At(v, "revoke"))
    BY <2>2 DEF Rotates, At
  <2> QED
    BY <2>4, <2>5, <2>6, RotationKept
<1>11. CASE UNCHANGED vars
  BY <1>11 DEF vars, RotationInv, Rotates, Heir, Spent, At
<1> QED
  BY <1>1, <1>2, <1>3, <1>4, <1>6, <1>7, <1>8, <1>9, <1>10, <1>11, Steps

(* Rotation on use: where requests for one token do not overlap, a refresh *)
(* token has one heir at most, and none while it can still be presented,   *)
(* whatever fails between its revocation and the saving of its heir.       *)
THEOREM RotatedOnce == ~Overlap => (Spec => []SingleUse)
<1> SUFFICES ASSUME ~Overlap PROVE Spec => []SingleUse
  OBVIOUS
<1>1. Init => TypeInv /\ RotationInv
  BY DEF Init, TypeInv, TypeOK, ReqInv, At, RotationInv, Rotates, Heir
<1>2. TypeInv /\ [Next]_vars => TypeInv'
  BY TypeStep, AuthAssumption
<1>3. TypeInv /\ RotationInv /\ [Next]_vars => RotationInv'
  BY RotationStep, AuthAssumption
<1>4. RotationInv => SingleUse
  <2> SUFFICES ASSUME RotationInv, NEW t \in TokenIDs
               PROVE  LET heirs == {h \in TokenIDs : Heir(h, t)}
                      IN  Cardinality(heirs) <= 1 /\ (heirs # {} => tokens[t].revoked)
    BY DEF SingleUse, Heir
  <2> DEFINE heirs == {h \in TokenIDs : Heir(h, t)}
  <2>1. CASE heirs = {}
    BY <2>1, FS_EmptySet
  <2>2. CASE heirs # {}
    <3>1. PICK h \in TokenIDs : Heir(h, t)
      BY <2>2
    <3>2. heirs = {h}
      BY <3>1 DEF RotationInv
    <3>3. Cardinality({h}) = 1
      BY FS_Singleton
    <3>4. tokens[t].revoked
      BY <3>1 DEF RotationInv, Spent
    <3> QED
      BY <3>2, <3>3, <3>4
  <2> QED
    BY <2>1, <2>2
<1> QED
  BY <1>1, <1>2, <1>3, <1>4, PTL DEF Spec

-----------------------------------------------------------------------------
(* Behind the gateway the service does nothing it does not do without one, *)
(* so what is proved of Auth holds there.                                  *)

(* The limiter only ever delays or refuses requests.                       *)
THEOREM GatewayKeepsAuth == IngressSpec => Spec
<1>1. IngressInit => Init
  BY DEF IngressInit
<1>2. [IngressNext]_allVars => [Next]_vars
  BY DEF IngressNext, Refresh, RefreshDenied, Inside, TimePasses, Next, allVars
<1> QED
  BY <1>1, <1>2, PTL DEF IngressSpec, Spec

(* One bucket is enough for the limiter's step: it never counts below zero *)
(* nor above its rate, whichever request comes when.                       *)
LEMMA LimiterTypes ==
  ASSUME IngressAssumption, G!GTypeOK
  PROVE  /\ \A k \in Keys : G!Pass(k) => G!GTypeOK'
         /\ G!Tick => G!GTypeOK'
<1>1. Rate \in Nat \ {0} /\ Window \in Nat \ {0}
  BY DEF IngressAssumption
<1>2. ASSUME NEW k \in Keys, G!Pass(k)
      PROVE  G!GTypeOK'
  <2> DEFINE b == IF G!NeedsBucket(k) THEN G!Fresh ELSE G!Spend(bucket[k])
  <2>1. b \in G!Bucket
    <3>1. CASE G!NeedsBucket(k)
      BY <1>1, <3>1 DEF G!Fresh, G!Bucket
    <3>2. CASE ~G!NeedsBucket(k)
      <4>1. bucket[k] \in G!Bucket /\ bucket[k].tokens > 0
        BY <1>1, <1>2, <3>2 DEF G!GTypeOK, G!Bucket, G!NeedsBucket, G!Pass, G!Refuses
      <4> QED
        BY <1>1, <3>2, <4>1 DEF G!Bucket, G!Spend
    <3> QED
      BY <3>1, <3>2
  <2>2. bucket' = [bucket EXCEPT ![k] = b]
    BY <1>2 DEF G!Pass
  <2>3. bucket' \in [Keys -> G!Bucket \cup {NoBucket}]
    <3> HIDE DEF b
    <3> QED
      BY <2>1, <2>2 DEF G!GTypeOK
  <2>4. since[k] \in [0 .. Window -> Nat] /\ 0 \in 0 .. Window
    BY <1>1 DEF G!GTypeOK
  <2>5. since' \in [Keys -> [0 .. Window -> Nat]]
    BY <1>2, <2>4 DEF G!GTypeOK, G!Pass
  <2> QED
    BY <2>3, <2>5 DEF G!GTypeOK
<1>3. ASSUME G!Tick
      PROVE  G!GTypeOK'
  <2>1. \A k \in Keys : ~G!NeedsBucket(k) =>
          [bucket[k] EXCEPT !.left = bucket[k].left - 1] \in G!Bucket
    <3> SUFFICES ASSUME NEW k \in Keys, ~G!NeedsBucket(k)
                 PROVE  [bucket[k] EXCEPT !.left = bucket[k].left - 1] \in G!Bucket
      OBVIOUS
    <3>1. bucket[k] \in G!Bucket /\ bucket[k].left \in 0 .. Window
      BY <1>1 DEF G!GTypeOK, G!Bucket, G!NeedsBucket
    <3> QED
      BY <1>1, <3>1 DEF G!Bucket
  <2>2. bucket' \in [Keys -> G!Bucket \cup {NoBucket}]
    BY <1>3, <2>1 DEF G!Tick, G!GTypeOK
  <2>3. since' \in [Keys -> [0 .. Window -> Nat]]
    <3>1. \A k \in Keys : [age \in 0 .. Window |->
             IF age = 0 THEN 0 ELSE since[k][age - 1]] \in [0 .. Window -> Nat]
      <4> SUFFICES ASSUME NEW k \in Keys, NEW age \in 0 .. Window, age # 0
                   PROVE  since[k][age - 1] \in Nat
        OBVIOUS
      <4>1. age - 1 \in 0 .. Window
        BY <1>1
      <4> QED
        BY <4>1 DEF G!GTypeOK
    <3> QED
      BY <1>3, <3>1 DEF G!Tick
  <2> QED
    BY <2>2, <2>3 DEF G!GTypeOK
<1> QED
  BY <1>2, <1>3

(* Type correctness of the service and the limiter together.               *)
THEOREM IngressTypes == IngressSpec => []IngressTypeOK
<1>1. IngressInit => G!GTypeOK
  BY IngressAssumption DEF IngressInit, G!GInit, G!GTypeOK
<1>2. G!GTypeOK /\ [IngressNext]_allVars => G!GTypeOK'
  <2> SUFFICES ASSUME G!GTypeOK, [IngressNext]_allVars
               PROVE  G!GTypeOK'
    OBVIOUS
  <2>1. CASE \E k \in Keys : G!Pass(k)
    BY <2>1, LimiterTypes, IngressAssumption
  <2>2. CASE G!Tick
    BY <2>2, LimiterTypes, IngressAssumption
  <2>3. CASE UNCHANGED <<bucket, since>>
    BY <2>3 DEF G!GTypeOK
  <2> QED
    BY <2>1, <2>2, <2>3 DEF IngressNext, Refresh, RefreshDenied, Inside, TimePasses, allVars
<1> QED
  BY <1>1, <1>2, GatewayKeepsAuth, TypeCorrect, PTL DEF IngressSpec, IngressTypeOK

-----------------------------------------------------------------------------
(* The limiter's bounds.  A bucket that is open has let its rate through,  *)
(* less its tokens, since it was opened `age' ticks ago; the rest of the   *)
(* window before that saw less than the rate, because the bucket that was  *)
(* open then was opened, with a request, before the window began.          *)

Span == 0 .. Window

Rises(s) == \A m, n \in Span : m <= n => s[m] <= s[n]

Age(b) == Window - b.left

Open(b, s) ==
  /\ s[Age(b)] = Rate - b.tokens
  /\ \A n \in Span : n > Age(b) => s[n] - s[Age(b)] < Rate
  /\ \A n \in Span : n < Age(b) => s[n] < s[Age(b)]

Past(s) ==
  /\ s[0] = 0
  /\ \A n \in Span : s[n] < Rate

Served(b, s) ==
  /\ Rises(s)
  /\ b = NoBucket => \A n \in Span : s[n] = 0
  /\ b # NoBucket => /\ b.tokens < Rate
                     /\ b.left >= 0 => Open(b, s)
                     /\ b.left < 0 => Past(s)

LimiterInv == \A k \in Keys : Served(bucket[k], since[k])

(* One request more in every interval that ends now.                       *)
OneMore(s) == [n \in Span |-> s[n] + 1]

(* A tick later: what was the last n ticks is the last n + 1.              *)
Shifted(s) == [n \in Span |-> IF n = 0 THEN 0 ELSE s[n - 1]]

LEMMA PassServed ==
  ASSUME IngressAssumption, G!GTypeOK, LimiterInv, NEW k \in Keys, G!Pass(k)
  PROVE  LimiterInv'
<1> DEFINE b == bucket[k]
           s == since[k]
           t == OneMore(s)
<1>1. /\ Rate \in Nat \ {0} /\ Window \in Nat \ {0}
      /\ s \in [Span -> Nat] /\ Served(b, s)
      /\ b \in G!Bucket \cup {NoBucket} /\ NoBucket \notin G!Bucket
      /\ 0 \in Span /\ Window \in Span
  BY DEF IngressAssumption, G!GTypeOK, LimiterInv, Span
<1>2. \A n \in Span : t[n] = s[n] + 1
  BY DEF OneMore
<1>3. Rises(t)
  BY <1>1, <1>2 DEF Served, Rises
<1>6. /\ bucket' = [bucket EXCEPT ![k] = IF G!NeedsBucket(k) THEN G!Fresh ELSE G!Spend(b)]
      /\ since' = [since EXCEPT ![k] = t]
      /\ bucket \in [Keys -> G!Bucket \cup {NoBucket}]
      /\ since \in [Keys -> [Span -> Nat]]
  BY DEF G!Pass, G!GTypeOK, OneMore, Span
<1>7. ~G!NeedsBucket(k) => b \in G!Bucket /\ b.left >= 0 /\ b.tokens > 0
  BY <1>1 DEF G!NeedsBucket, G!Pass, G!Refuses, G!Bucket
<1>8. G!NeedsBucket(k) => \A n \in Span : s[n] < Rate /\ s[0] = 0
  BY <1>1 DEF Served, Past, G!NeedsBucket, G!Bucket
<1> HIDE DEF b, s, t
<1>4. CASE G!NeedsBucket(k)
  <2>1. \A n \in Span : s[n] < Rate /\ s[0] = 0 /\ s[n] \in Nat
    BY <1>1, <1>4, <1>8
  <2>2. /\ G!Fresh \in G!Bucket /\ G!Fresh.tokens = Rate - 1
        /\ G!Fresh.left = Window /\ Age(G!Fresh) = 0
    BY <1>1 DEF G!Fresh, G!Bucket, Age
  <2>3. Open(G!Fresh, t)
    <3>1. /\ G!Fresh.tokens = Rate - 1 /\ Age(G!Fresh) = 0
          /\ \A n \in Span : t[n] = s[n] + 1 /\ n \in Nat
      BY <1>2, <2>2 DEF Span
    <3>2. t[0] = 1 /\ Rate - (Rate - 1) = 1
      BY <1>1, <2>1, <3>1
    <3>3. \A n \in Span : t[n] - t[0] < Rate
      BY <1>1, <2>1, <3>1, <3>2
    <3> QED
      BY <3>1, <3>2, <3>3 DEF Open
  <2>4. Served(G!Fresh, t)
    BY <1>1, <1>3, <2>2, <2>3 DEF Served
  <2> QED
    BY <1>4, <1>6, <2>4 DEF LimiterInv
<1>5. CASE ~G!NeedsBucket(k)
  <2>1. b \in G!Bucket /\ b.left >= 0 /\ b.tokens > 0
    BY <1>5, <1>7
  <2>2. Open(b, s) /\ b.tokens < Rate /\ Age(b) \in Span
    BY <1>1, <2>1 DEF Served, G!Bucket, Age, Span
  <2>3. /\ G!Spend(b) \in G!Bucket /\ G!Spend(b).tokens = b.tokens - 1
        /\ G!Spend(b).left = b.left /\ Age(G!Spend(b)) = Age(b)
    BY <1>1, <2>1 DEF G!Spend, G!Bucket, Age
  <2>4. b.tokens \in Int /\ b.left \in Int /\ Age(b) \in Int
    BY <1>1, <2>1 DEF G!Bucket, Age
  <2>5. Open(G!Spend(b), t)
    BY <1>1, <1>2, <2>2, <2>3, <2>4 DEF Open
  <2>6. Served(G!Spend(b), t)
    <3>1. G!Spend(b) # NoBucket /\ G!Spend(b).tokens < Rate /\ ~(G!Spend(b).left < 0)
      BY <1>1, <2>1, <2>2, <2>3, <2>4
    <3> QED
      BY <1>3, <2>5, <3>1 DEF Served
  <2> QED
    BY <1>5, <1>6, <2>6 DEF LimiterInv
<1> QED
  BY <1>4, <1>5

LEMMA TickServed ==
  ASSUME IngressAssumption, G!GTypeOK, LimiterInv, G!Tick
  PROVE  LimiterInv'
<1> SUFFICES ASSUME NEW k \in Keys
             PROVE  Served(bucket'[k], since'[k])
  BY DEF LimiterInv
<1> DEFINE b == bucket[k]
           s == since[k]
           t == Shifted(s)
<1>1. /\ Rate \in Nat \ {0} /\ Window \in Nat \ {0}
      /\ s \in [Span -> Nat] /\ Served(b, s)
      /\ b \in G!Bucket \cup {NoBucket} /\ NoBucket \notin G!Bucket
      /\ 0 \in Span /\ Window \in Span
  BY DEF IngressAssumption, G!GTypeOK, LimiterInv, Span
<1>2. /\ t \in [Span -> Nat] /\ t[0] = 0
      /\ \A n \in Span : n # 0 => n - 1 \in Span /\ t[n] = s[n - 1]
  BY <1>1 DEF Shifted, Span
<1>3. Rises(t)
  <2> SUFFICES ASSUME NEW m \in Span, NEW n \in Span, m <= n
               PROVE  t[m] <= t[n]
    BY DEF Rises
  <2>1. CASE m = 0
    BY <1>2, <2>1
  <2>2. CASE m # 0
    BY <1>1, <1>2, <2>2 DEF Served, Rises, Span
  <2> QED
    BY <2>1, <2>2
<1>4. CASE b = NoBucket
  <2>1. \A n \in Span : t[n] = 0
    BY <1>1, <1>2, <1>4 DEF Served
  <2>2. bucket'[k] = b /\ since'[k] = t
    BY <1>4 DEF G!Tick, G!NeedsBucket, Shifted, Span
  <2> QED
    BY <1>3, <1>4, <2>1, <2>2 DEF Served
<1>5. CASE b # NoBucket /\ b.left < 0
  <2>1. Past(t)
    BY <1>1, <1>2, <1>5 DEF Served, Past
  <2>2. bucket'[k] = b /\ since'[k] = t
    BY <1>5 DEF G!Tick, G!NeedsBucket, Shifted, Span
  <2>3. b.left \in Int
    BY <1>1, <1>5 DEF G!Bucket
  <2> QED
    BY <1>1, <1>3, <1>5, <2>1, <2>2, <2>3 DEF Served
<1>6. CASE b # NoBucket /\ ~(b.left < 0)
  <2> DEFINE c == [b EXCEPT !.left = b.left - 1]
  <2>1. b \in G!Bucket /\ b.left \in 0 .. Window /\ b.tokens \in 0 .. Rate - 1
    BY <1>1, <1>6 DEF G!Bucket, Served
  <2>2. c \in G!Bucket /\ c.tokens = b.tokens /\ c.left = b.left - 1
    BY <1>1, <2>1 DEF G!Bucket
  <2>3. bucket'[k] = c /\ since'[k] = t
    BY <1>6, <2>1 DEF G!Tick, G!NeedsBucket, Shifted, Span
  <2>4. Open(b, s) /\ Age(b) \in Span /\ Age(c) = Age(b) + 1
    BY <1>1, <1>6, <2>1, <2>2 DEF Served, Age, Span
  <2> HIDE DEF c, t, s
  <2>5. CASE b.left = 0
    <3>1. Age(b) = Window /\ s[Window] = Rate - b.tokens
      BY <1>1, <2>1, <2>4, <2>5 DEF Age, Open
    <3>2. \A n \in Span : n # 0 => s[n - 1] < Rate
      BY <1>1, <1>2, <2>1, <2>4, <3>1 DEF Open, Span
    <3>3. Past(t)
      BY <1>1, <1>2, <3>2 DEF Past
    <3> QED
      BY <1>1, <1>3, <2>1, <2>2, <2>3, <2>5, <3>3 DEF Served
  <2>6. CASE b.left > 0
    <3>1. Age(b) = Window - b.left /\ Window \in Nat /\ b.left \in 1 .. Window
      BY <1>1, <2>1, <2>6 DEF Age
    <3>2. t[Age(c)] = s[Age(b)]
      <4>1. Age(c) \in Span /\ Age(c) # 0 /\ Age(c) - 1 = Age(b)
        BY <2>4, <3>1 DEF Span
      <4> QED
        BY <1>2, <4>1
    <3>3. s[Age(b)] = Rate - b.tokens /\ s[Age(b)] > 0
      BY <1>1, <2>1, <2>4 DEF Open
    <3>4. ASSUME NEW n \in Span, n > Age(c)
          PROVE  t[n] - t[Age(c)] < Rate
      <4>1. n - 1 \in Span /\ n - 1 > Age(b) /\ t[n] = s[n - 1]
        <5>1. n \in 0 .. Window /\ n > Age(b) + 1 /\ Age(b) \in Int /\ Age(b) >= 0
          BY <2>4, <3>1, <3>4 DEF Span
        <5>2. n # 0 /\ n - 1 > Age(b)
          BY <5>1
        <5> QED
          BY <1>2, <5>2
      <4> QED
        BY <2>4, <3>2, <4>1 DEF Open
    <3>5. ASSUME NEW n \in Span, n < Age(c)
          PROVE  t[n] < t[Age(c)]
      <4>1. CASE n = 0
        BY <1>2, <3>2, <3>3, <4>1
      <4>2. CASE n # 0
        <5>1. n - 1 \in Span /\ n - 1 < Age(b) /\ t[n] = s[n - 1]
          BY <1>2, <2>4, <3>1, <3>5, <4>2 DEF Span
        <5> QED
          BY <2>4, <3>2, <5>1 DEF Open
      <4> QED
        BY <4>1, <4>2
    <3>6. Open(c, t)
      BY <2>2, <3>2, <3>3, <3>4, <3>5 DEF Open
    <3> QED
      BY <1>1, <1>3, <2>1, <2>2, <2>3, <2>6, <3>6 DEF Served
  <2> QED
    BY <2>1, <2>5, <2>6
<1> QED
  BY <1>4, <1>5, <1>6

LEMMA LimiterServes == IngressSpec => []LimiterInv
<1>1. IngressInit => LimiterInv
  BY IngressAssumption
     DEF IngressAssumption, IngressInit, G!GInit, LimiterInv, Served, Rises, Span
<1>2. G!GTypeOK /\ LimiterInv /\ [IngressNext]_allVars => LimiterInv'
  <2> SUFFICES ASSUME G!GTypeOK, LimiterInv, [IngressNext]_allVars
               PROVE  LimiterInv'
    OBVIOUS
  <2>1. CASE \E k \in Keys : G!Pass(k)
    BY <2>1, PassServed, IngressAssumption
  <2>2. CASE G!Tick
    BY <2>2, TickServed, IngressAssumption
  <2>3. CASE UNCHANGED <<bucket, since>>
    BY <2>3 DEF LimiterInv
  <2> QED
    BY <2>1, <2>2, <2>3 DEF IngressNext, Refresh, RefreshDenied, Inside, TimePasses, allVars
<1>3. IngressTypeOK => G!GTypeOK
  BY DEF IngressTypeOK
<1> QED
  BY <1>1, <1>2, <1>3, IngressTypes, PTL DEF IngressSpec

(* MemoryLimiter.Allow: however requests are placed around a reset, fewer  *)
(* than twice the rate get through within any interval of a window.        *)
THEOREM BurstsAreBounded == IngressSpec => []BurstBounded
<1>1. IngressTypeOK /\ LimiterInv => BurstBounded
  <2> SUFFICES ASSUME IngressTypeOK, LimiterInv, NEW k \in Keys
               PROVE  since[k][Window] < 2 * Rate
    BY DEF BurstBounded, G!BurstBounded, G!LetThrough
  <2>1. /\ Rate \in Nat \ {0} /\ Window \in Nat \ {0} /\ Window \in Span
        /\ since[k] \in [Span -> Nat] /\ Served(bucket[k], since[k])
        /\ bucket[k] \in G!Bucket \cup {NoBucket}
    BY IngressAssumption DEF IngressAssumption, IngressTypeOK, G!GTypeOK, LimiterInv, Span
  <2>2. CASE bucket[k] = NoBucket
    BY <2>1, <2>2 DEF Served
  <2>3. CASE bucket[k] # NoBucket /\ bucket[k].left < 0
    BY <2>1, <2>3 DEF Served, Past
  <2>4. CASE bucket[k] # NoBucket /\ ~(bucket[k].left < 0)
    <3>1. /\ bucket[k].tokens \in Nat /\ bucket[k].left \in 0 .. Window
          /\ Open(bucket[k], since[k])
      BY <2>1, <2>4 DEF Served, G!Bucket
    <3>2. Age(bucket[k]) \in Span /\ Age(bucket[k]) <= Window
      BY <2>1, <3>1 DEF Age, Span
    <3>3. since[k][Age(bucket[k])] <= Rate
      BY <2>1, <3>1 DEF Open
    <3>4. CASE Age(bucket[k]) = Window
      BY <2>1, <3>3, <3>4
    <3>5. CASE Window > Age(bucket[k])
      <4>1. /\ since[k][Window] - since[k][Age(bucket[k])] < Rate
            /\ since[k][Window] \in Nat /\ since[k][Age(bucket[k])] \in Nat
        BY <2>1, <3>1, <3>2, <3>5 DEF Open
      <4> QED
        BY <2>1, <3>3, <4>1
    <3> QED
      BY <2>1, <3>2, <3>4, <3>5 DEF Span
  <2> QED
    BY <2>2, <2>3, <2>4
<1> QED
  BY <1>1, IngressTypes, LimiterServes, PTL

(* MemoryLimiter.Allow: a client that is refused has had its full rate     *)
(* within the last window.                                                 *)
THEOREM RefusedWereServed == IngressSpec => []RefusedOnlyWhenServed
<1>1. IngressTypeOK /\ LimiterInv => RefusedOnlyWhenServed
  <2> SUFFICES ASSUME IngressTypeOK, LimiterInv, NEW k \in Keys, G!Refuses(k)
               PROVE  since[k][Window] >= Rate
    BY DEF RefusedOnlyWhenServed, G!RefusedOnlyWhenServed, G!LetThrough
  <2>1. /\ Rate \in Nat \ {0} /\ Window \in Nat \ {0} /\ Window \in Span
        /\ since[k] \in [Span -> Nat] /\ Served(bucket[k], since[k])
        /\ bucket[k] \in G!Bucket \cup {NoBucket}
    BY IngressAssumption DEF IngressAssumption, IngressTypeOK, G!GTypeOK, LimiterInv, Span
  <2>2. /\ bucket[k] # NoBucket /\ bucket[k] \in G!Bucket
        /\ bucket[k].left >= 0 /\ bucket[k].tokens = 0
    BY <2>1 DEF G!Refuses, G!NeedsBucket, G!Bucket
  <2>3. Age(bucket[k]) \in Span /\ Age(bucket[k]) <= Window
    BY <2>1, <2>2 DEF Age, Span, G!Bucket
  <2>4. since[k][Age(bucket[k])] = Rate
    BY <2>1, <2>2 DEF Served, Open
  <2> QED
    BY <2>1, <2>3, <2>4 DEF Served, Rises
<1> QED
  BY <1>1, IngressTypes, LimiterServes, PTL
=============================================================================
