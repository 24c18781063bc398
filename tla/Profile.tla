------------------------------- MODULE Profile -------------------------------
(***************************************************************************)
(* The profile service: the TradeManager's escrowed trades, Collection's   *)
(* SetTeam and Evolve, and the Repo they share.                            *)
(*                                                                         *)
(* The HTTP server runs every request in its own goroutine.  Open, Lock,   *)
(* Commit and Cancel hold TradeManager.mu for their whole duration and     *)
(* make at most one repo call, so each is one action.  Stage holds mu      *)
(* too, but reads the repo once per offered creature while Collection's    *)
(* requests, which take no lock, write to it; SetTeam and Evolve check     *)
(* rows they have read and write afterwards.  Those three are processes,   *)
(* one action per repo call.                                               *)
(***************************************************************************)
EXTENDS Repo

CONSTANTS
  TradeIDs,     \* ids the trade id generator hands out
  Workers,      \* goroutines serving multi-step requests
  OfferLists,   \* the creature-id lists a stage request may carry
  TeamLists,    \* the creature-id lists a team request may carry
  TeamLimit,    \* most members of an active party
  EvolvesTo,    \* species table: next form, 0 for a final form
  EvolveLevel,  \* species table: level the evolution needs
  AbilityPool,  \* species table: abilities of the form, in order
  Level,        \* level of each creature
  AckLoss,      \* whether a committed transaction may report an error
  Free,         \* mu is not held
  NoReq         \* a worker that serves no request

ASSUME ProfileAssumption ==
  /\ OfferLists \subseteq Seq(Creatures)
  /\ TeamLists \subseteq Seq(Creatures)
  /\ TeamLimit \in Nat \ {0}
  /\ EvolvesTo \in [Forms -> Nat]
  /\ EvolveLevel \in [Forms -> Nat]
  /\ AbilityPool \in [Forms -> Seq(Abilities)]
  /\ Level \in [Creatures -> Nat]
  /\ AckLoss \in BOOLEAN
  /\ Free \notin Workers

VARIABLES
  creatures,  \* the creature table
  teams,      \* saved active party of each account
  trade,      \* TradeManager.trades
  mu,         \* holder of TradeManager.mu
  req,        \* the request each worker is serving
  agreed      \* history: the offers that were on the table when an account
              \* last locked a trade; the code keeps no such record

vars == <<creatures, teams, trade, mu, req, agreed>>

-----------------------------------------------------------------------------
(* Trades.                                                                 *)

NoTrade == [state |-> "none"]

Offers == [Accounts -> Seq(Creatures)]

(* Offers and locked are maps with the two parties as keys; the entries of *)
(* other accounts are never written and stay empty.                        *)
Trade ==
  [state : {"open", "committed", "cancelled"}, init : Accounts,
   partner : Accounts, offers : Offers, locked : [Accounts -> BOOLEAN]]

NoOffers == [a \in Accounts |-> <<>>]

Parties(t) == {trade[t].init, trade[t].partner}

(* getOpen: the trade exists, the account takes part, the trade is open.   *)
GetOpen(t, a) == trade[t].state = "open" /\ a \in Parties(t)

(* Mutant of BothLocked: one lock is enough.                               *)
EitherLocked(t) == trade[t].locked[trade[t].init] \/ trade[t].locked[trade[t].partner]

BothLocked(t) == trade[t].locked[trade[t].init] /\ trade[t].locked[trade[t].partner]

Elems(s) == {s[i] : i \in DOMAIN s}

(* The transfers Commit builds: the initiator's offer, then the partner's. *)
Transfers(t) ==
  LET a == trade[t].init
      b == trade[t].partner
      Move(from, to) ==
        [i \in DOMAIN trade[t].offers[from] |->
           [id |-> trade[t].offers[from][i], from |-> from, to |-> to]]
  IN  Move(a, b) \o Move(b, a)

Open(t, a, b) ==
  /\ mu = Free
  /\ trade[t] = NoTrade
  /\ trade' = [trade EXCEPT ![t] =
       [state |-> "open", init |-> a, partner |-> b, offers |-> NoOffers,
        locked |-> [x \in Accounts |-> FALSE]]]
  /\ UNCHANGED <<creatures, teams, mu, req, agreed>>

Lock(t, a) ==
  /\ mu = Free
  /\ GetOpen(t, a)
  /\ trade' = [trade EXCEPT ![t].locked[a] = TRUE]
  /\ agreed' = [agreed EXCEPT ![t][a] = trade[t].offers]
  /\ UNCHANGED <<creatures, teams, mu, req>>

(* Commit is open to any caller.  A batch that fails changes nothing.      *)
CanCommit(t) ==
  /\ mu = Free
  /\ trade[t].state = "open"
  /\ BothLocked(t)
  /\ BatchOK(creatures, Transfers(t))

Commit(t) ==
  /\ CanCommit(t)
  /\ creatures' = ApplyBatch(creatures, Transfers(t))
  /\ trade' = [trade EXCEPT ![t].state = "committed"]
  /\ UNCHANGED <<teams, mu, req, agreed>>

(* The SQL transaction commits, its acknowledgement is lost: TransferBatch *)
(* returns an error and Commit returns before it marks the trade.          *)
CommitAckLost(t) ==
  /\ AckLoss /\ Backend = "postgres"
  /\ CanCommit(t)
  /\ creatures' = ApplyBatch(creatures, Transfers(t))
  /\ UNCHANGED <<teams, trade, mu, req, agreed>>

(* Mutant of Cancel: it does not take mu.                                  *)
CancelUnlocked(t, a) ==
  /\ trade[t] # NoTrade
  /\ a \in Parties(t)
  /\ trade[t].state # "committed"
  /\ trade' = [trade EXCEPT ![t].state = "cancelled"]
  /\ UNCHANGED <<creatures, teams, mu, req, agreed>>

Cancel(t, a) ==
  /\ mu = Free
  /\ trade[t] # NoTrade
  /\ a \in Parties(t)
  /\ trade[t].state # "committed"
  /\ trade' = [trade EXCEPT ![t].state = "cancelled"]
  /\ UNCHANGED <<creatures, teams, mu, req, agreed>>

-----------------------------------------------------------------------------
(* Requests of several repo calls.  k is the next list entry to check.     *)

StageReq == [op : {"stage"}, acct : Accounts, trade : TradeIDs, ids : OfferLists, k : Nat \ {0}]
TeamReq == [op : {"team"}, acct : Accounts, ids : TeamLists, k : Nat \ {0}]
EvolveReq == [op : {"evolve"}, id : Creatures, oc : OwnedCreature]

Request == StageReq \cup TeamReq \cup EvolveReq

ASSUME IdleAssumption == NoReq \notin Request

Serving(w, op) == req[w] # NoReq /\ req[w].op = op

(* Mutant of StageBegin: the first entry to check is off by one.           *)
StageBeginOffByOne(w, t, a, ids) ==
  /\ req[w] = NoReq
  /\ mu = Free
  /\ GetOpen(t, a)
  /\ mu' = w
  /\ req' = [req EXCEPT ![w] =
       [op |-> "stage", acct |-> a, trade |-> t, ids |-> ids, k |-> 0]]
  /\ UNCHANGED <<creatures, teams, trade, agreed>>

(* Stage takes mu and looks the trade up before it reads the repo.         *)
StageBegin(w, t, a, ids) ==
  /\ req[w] = NoReq
  /\ mu = Free
  /\ GetOpen(t, a)
  /\ mu' = w
  /\ req' = [req EXCEPT ![w] =
       [op |-> "stage", acct |-> a, trade |-> t, ids |-> ids, k |-> 1]]
  /\ UNCHANGED <<creatures, teams, trade, agreed>>

TeamBegin(w, a, ids) ==
  /\ req[w] = NoReq
  /\ Len(ids) \in 1 .. TeamLimit
  /\ req' = [req EXCEPT ![w] = [op |-> "team", acct |-> a, ids |-> ids, k |-> 1]]
  /\ UNCHANGED <<creatures, teams, trade, mu, agreed>>

Checking(w) ==
  /\ Serving(w, "stage") \/ Serving(w, "team")
  /\ req[w].k <= Len(req[w].ids)

(* Mutant of EntryOK: a repeated id is not noticed.                        *)
EntryOwned(w) == creatures[req[w].ids[req[w].k]].owner = req[w].acct

(* The checks of one list entry: SetTeam refuses a repeated id, Stage does *)
(* not; both read the row and compare its owner.                           *)
EntryOK(w) ==
  LET id == req[w].ids[req[w].k]
  IN  /\ req[w].op = "team" => \A j \in 1 .. (req[w].k - 1) : req[w].ids[j] # id
      /\ creatures[id].owner = req[w].acct

CheckPasses(w) ==
  /\ Checking(w)
  /\ EntryOK(w)
  /\ req' = [req EXCEPT ![w].k = @ + 1]
  /\ UNCHANGED <<creatures, teams, trade, mu, agreed>>

(* Mutant of GiveUp: an error return of Stage keeps mu.                    *)
GiveUpHoldingMu(w) ==
  /\ req' = [req EXCEPT ![w] = NoReq]
  /\ UNCHANGED <<creatures, teams, trade, mu, agreed>>

(* The request ends with an error; a Stage releases mu.                    *)
GiveUp(w) ==
  /\ req' = [req EXCEPT ![w] = NoReq]
  /\ mu' = IF mu = w THEN Free ELSE mu
  /\ UNCHANGED <<creatures, teams, trade, agreed>>

CheckFails(w) ==
  /\ Checking(w)
  /\ ~EntryOK(w)
  /\ GiveUp(w)

(* A repo call of the request fails (database error, cancelled context):   *)
(* a read of one entry, SetTeam's transaction, or Evolve's UPDATE.         *)
RepoError(w) ==
  /\ Backend = "postgres"
  /\ Checking(w) \/ Serving(w, "team") \/ Serving(w, "evolve")
  /\ GiveUp(w)

Checked(w, op) == Serving(w, op) /\ req[w].k > Len(req[w].ids)

(* Mutant of StageFinish: only the caller's own lock is cleared.           *)
StageFinishOwnLock(w) ==
  /\ Checked(w, "stage")
  /\ LET t == req[w].trade
     IN  trade' = [trade EXCEPT ![t].offers[req[w].acct] = req[w].ids,
                                ![t].locked[req[w].acct] = FALSE]
  /\ mu' = Free
  /\ req' = [req EXCEPT ![w] = NoReq]
  /\ UNCHANGED <<creatures, teams, agreed>>

(* The offer is replaced and BOTH locks are cleared.                       *)
StageFinish(w) ==
  /\ Checked(w, "stage")
  /\ LET t == req[w].trade
     IN  trade' = [trade EXCEPT
           ![t].offers[req[w].acct] = req[w].ids,
           ![t].locked = [x \in Accounts |-> x \notin Parties(t) /\ trade[t].locked[x]]]
  /\ mu' = Free
  /\ req' = [req EXCEPT ![w] = NoReq]
  /\ UNCHANGED <<creatures, teams, agreed>>

TeamFinish(w) ==
  /\ Checked(w, "team")
  /\ teams' = [teams EXCEPT ![req[w].acct] = req[w].ids]
  /\ req' = [req EXCEPT ![w] = NoReq]
  /\ UNCHANGED <<creatures, trade, mu, agreed>>

(* Mutant of PickAbility: the old ability is kept in any case.             *)
KeepAbility(form, current) == current

(* pickAbility: keep the current ability if the new form can have it.      *)
PickAbility(form, current) ==
  IF current \notin Elems(AbilityPool[form]) /\ AbilityPool[form] # <<>>
  THEN AbilityPool[form][1]
  ELSE current

(* The rules Evolve applies to the row it has read.                        *)
MayEvolve(c, oc) ==
  /\ EvolvesTo[oc.form] \in Forms
  /\ Level[c] >= EvolveLevel[oc.form]

Evolved(oc) ==
  LET form == EvolvesTo[oc.form]
  IN  [oc EXCEPT !.form = form, !.ability = PickAbility(form, oc.ability)]

EvolveRead(w, a, c) ==
  /\ req[w] = NoReq
  /\ creatures[c].owner = a
  /\ MayEvolve(c, creatures[c])
  /\ req' = [req EXCEPT ![w] = [op |-> "evolve", id |-> c, oc |-> Evolved(creatures[c])]]
  /\ UNCHANGED <<creatures, teams, trade, mu, agreed>>

EvolveWrite(w) ==
  /\ Serving(w, "evolve")
  /\ creatures' = UpdateCreature(creatures, req[w].id, req[w].oc)
  /\ req' = [req EXCEPT ![w] = NoReq]
  /\ UNCHANGED <<teams, trade, mu, agreed>>

(* The process dies and is started again.  Trades live in memory only; the *)
(* tables survive in Postgres.                                             *)
Restart ==
  /\ Backend = "postgres"
  /\ trade' = [t \in TradeIDs |-> NoTrade]
  /\ mu' = Free
  /\ req' = [w \in Workers |-> NoReq]
  /\ agreed' = [t \in TradeIDs |-> [a \in Accounts |-> NoOffers]]
  /\ UNCHANGED <<creatures, teams>>

-----------------------------------------------------------------------------

(* Teams are empty until first saved; any row may be in the table.         *)
Init ==
  /\ creatures \in [Creatures -> OwnedCreature]
  /\ teams = [a \in Accounts |-> <<>>]
  /\ trade = [t \in TradeIDs |-> NoTrade]
  /\ mu = Free
  /\ req = [w \in Workers |-> NoReq]
  /\ agreed = [t \in TradeIDs |-> [a \in Accounts |-> NoOffers]]

TradeStep(t) ==
  \/ \E a, b \in Accounts : Open(t, a, b)
  \/ \E a \in Accounts : Lock(t, a) \/ Cancel(t, a)
  \/ Commit(t)
  \/ CommitAckLost(t)

WorkerBegins(w) ==
  \E a \in Accounts :
    \/ \E t \in TradeIDs, ids \in OfferLists : StageBegin(w, t, a, ids)
    \/ \E ids \in TeamLists : TeamBegin(w, a, ids)
    \/ \E c \in Creatures : EvolveRead(w, a, c)

WorkerStep(w) ==
  \/ CheckPasses(w)
  \/ CheckFails(w)
  \/ RepoError(w)
  \/ StageFinish(w)
  \/ TeamFinish(w)
  \/ EvolveWrite(w)

Next ==
  \/ \E t \in TradeIDs : TradeStep(t)
  \/ \E w \in Workers : WorkerBegins(w) \/ WorkerStep(w)
  \/ Restart

Spec == Init /\ [][Next]_vars

-----------------------------------------------------------------------------
(* Properties.                                                             *)

(* Type correctness of the tables, the trades, the mutex and the requests. *)
TypeOK ==
  /\ creatures \in [Creatures -> OwnedCreature]
  /\ teams \in [Accounts -> Seq(Creatures)]
  /\ trade \in [TradeIDs -> Trade \cup {NoTrade}]
  /\ mu \in Workers \cup {Free}
  /\ req \in [Workers -> Request \cup {NoReq}]
  /\ agreed \in [TradeIDs -> [Accounts -> Offers]]

(* No switch scam (trade.go Lock: "a lock only counts against the exact    *)
(* offer it was placed on"): while a party's lock stands, both offers are  *)
(* the ones that were on the table when that party locked.                 *)
LockCoversOffer ==
  \A t \in TradeIDs : trade[t].state \in {"open", "committed"} =>
    \A a \in Parties(t) : trade[t].locked[a] => agreed[t][a] = trade[t].offers

(* Stage holds mu from its lookup to its return, error returns included    *)
(* (nobody else holds it between requests), and the trade it looked up is  *)
(* still open when it writes the offer: no commit or cancel comes between. *)
StageHoldsTrade ==
  /\ mu # Free => Serving(mu, "stage")
  /\ \A w \in Workers : Serving(w, "stage") =>
       mu = w /\ GetOpen(req[w].trade, req[w].acct)

(* Whatever other requests do between Stage's ownership reads and its      *)
(* write, the list entries it has checked stay owned by its account.       *)
StageOwnsChecked ==
  \A w \in Workers : Serving(w, "stage") =>
    \A i \in DOMAIN req[w].ids :
      i < req[w].k => creatures[req[w].ids[i]].owner = req[w].acct

(* An offer in the making is about an open trade and owned creatures, and  *)
(* mu is given back with it.                                               *)
StageStaysValid == StageHoldsTrade /\ StageOwnsChecked

(* A settled trade: both parties had agreed to exactly these offers, each  *)
(* creature that one side alone offers goes from that party, who owned it, *)
(* to the other, and every other creature stays where it is.               *)
Settles(t) ==
  LET a == trade[t].init
      b == trade[t].partner
      gives(p, q) == Elems(trade[t].offers[p]) \ Elems(trade[t].offers[q])
  IN  /\ trade[t].state = "open" /\ trade'[t].state = "committed"
      /\ agreed[t][a] = trade[t].offers /\ agreed[t][b] = trade[t].offers
      /\ \A c \in Creatures :
           /\ c \in gives(a, b) => creatures[c].owner = a /\ creatures'[c].owner = b
           /\ c \in gives(b, a) => creatures[c].owner = b /\ creatures'[c].owner = a
           /\ c \notin gives(a, b) \cup gives(b, a) =>
                creatures'[c].owner = creatures[c].owner

OwnersChange == \E c \in Creatures : creatures'[c].owner # creatures[c].owner

(* Commit "is the only method that mutates ownership" (trade.go) and a     *)
(* failed one applies nothing: a creature changes hands only in a step     *)
(* that closes a trade and carries out all of it.                          *)
OwnershipMovesOnlyInCommit ==
  [][OwnersChange => \E t \in TradeIDs : Settles(t)]_vars

(* A saved party has no repeated member and keeps the size limit, however  *)
(* requests of the same account interleave.                                *)
TeamWellFormed ==
  \A a \in Accounts :
    /\ Len(teams[a]) <= TeamLimit
    /\ \A i, j \in DOMAIN teams[a] : i # j => teams[a][i] # teams[a][j]

(* Evolve enforces the Dex's rules even when requests read a row that      *)
(* others rewrite before they write it back: a row's form changes only to  *)
(* one that some form below the creature's level evolves to, and its       *)
(* ability is then one the form can have.                                  *)
EvolutionLawful ==
  [][\A c \in Creatures : creatures'[c].form # creatures[c].form =>
       LET new == creatures'[c].form
       IN  /\ \E f \in Forms : EvolvesTo[f] = new /\ EvolveLevel[f] <= Level[c]
           /\ AbilityPool[new] # <<>> => creatures'[c].ability \in Elems(AbilityPool[new])]_vars

-----------------------------------------------------------------------------
(* The trades the service keeps, as the deals of Escrow.                   *)
DealOf(t) ==
  IF trade[t] = NoTrade
  THEN NoTrade
  ELSE [state |-> trade[t].state,
        parties |-> <<trade[t].init, trade[t].partner>>,
        terms |-> [a \in Accounts |-> Elems(trade[t].offers[a])],
        consent |-> {a \in Accounts : trade[t].locked[a]}]

Promise == INSTANCE Escrow WITH
  Deals <- TradeIDs,
  owner <- [c \in Creatures |-> creatures[c].owner],
  deal <- [t \in TradeIDs |-> DealOf(t)]

(* Trading as implemented keeps the promises of Escrow.                    *)
ImplementsEscrow == Promise!Spec
=============================================================================
