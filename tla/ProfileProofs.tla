---------------------------- MODULE ProfileProofs ----------------------------
(***************************************************************************)
(* Theorems about the profile service, for any number of accounts,         *)
(* creatures, trades and concurrent requests.                              *)
(***************************************************************************)
EXTENDS Profile, SequenceTheorems, WellFoundedInduction, TLAPS

(* A batch that moves a creature has a last transfer of it, and LastOf     *)
(* finds it: what ApplyBatch's row is computed from.                       *)
LEMMA LastTransfer ==
  ASSUME NEW ts \in Seq(OwnershipTransfer), NEW c,
         \E i \in DOMAIN ts : ts[i].id = c
  PROVE  /\ LastOf(ts, c) \in DOMAIN ts
         /\ ts[LastOf(ts, c)].id = c
         /\ \A j \in DOMAIN ts : ts[j].id = c => j <= LastOf(ts, c)
<1> DEFINE T == {n \in Nat : \E i \in DOMAIN ts : ts[i].id = c /\ n = Len(ts) - i}
<1>1. T # {} /\ T \subseteq Nat
  <2>1. PICK i \in DOMAIN ts : ts[i].id = c
    OBVIOUS
  <2>2. DOMAIN ts = 1 .. Len(ts) /\ Len(ts) \in Nat
    OBVIOUS
  <2>3. Len(ts) - i \in T
    BY <2>1, <2>2
  <2> QED BY <2>3
<1>2. PICK n \in T : \A m \in T : ~(<<m, n>> \in OpToRel(<, Nat))
  BY <1>1, WFMin, NatLessThanWellFounded
<1>3. \A m \in T : n <= m
  <2> HIDE DEF T
  <2> SUFFICES ASSUME NEW m \in T, m < n PROVE FALSE
    BY <1>1
  <2>1. <<m, n>> \in Nat \X Nat /\ <<m, n>>[1] < <<m, n>>[2]
    BY <1>1, <1>2
  <2>2. <<m, n>> \in OpToRel(<, Nat)
    BY <2>1 DEF OpToRel
  <2> QED BY <1>2, <2>2
<1>4. PICK i \in DOMAIN ts : ts[i].id = c /\ n = Len(ts) - i
  BY <1>2
<1>5. \A j \in DOMAIN ts : ts[j].id = c => j <= i
  <2> SUFFICES ASSUME NEW j \in DOMAIN ts, ts[j].id = c PROVE j <= i
    OBVIOUS
  <2>1. DOMAIN ts = 1 .. Len(ts) /\ Len(ts) \in Nat
    OBVIOUS
  <2>2. Len(ts) - j \in T
    BY <2>1
  <2> QED BY <2>1, <2>2, <1>3, <1>4
<1> QED
  BY <1>4, <1>5 DEF LastOf

(* Commit's list of transfers is well formed.                              *)
LEMMA TransfersType ==
  ASSUME NEW t \in TradeIDs, trade[t] \in Trade
  PROVE  Transfers(t) \in Seq(OwnershipTransfer)
<1> DEFINE Move(from, to) ==
        [i \in DOMAIN trade[t].offers[from] |->
           [id |-> trade[t].offers[from][i], from |-> from, to |-> to]]
<1>1. ASSUME NEW a \in Accounts, NEW b \in Accounts
      PROVE  Move(a, b) \in Seq(OwnershipTransfer)
  <2>1. trade[t].offers[a] \in Seq(Creatures)
    BY DEF Trade, Offers
  <2>2. DOMAIN trade[t].offers[a] = 1 .. Len(trade[t].offers[a])
        /\ Len(trade[t].offers[a]) \in Nat
    BY <2>1
  <2>3. \A i \in 1 .. Len(trade[t].offers[a]) :
          [id |-> trade[t].offers[a][i], from |-> a, to |-> b] \in OwnershipTransfer
    BY <2>1 DEF OwnershipTransfer
  <2> QED
    BY <2>2, <2>3, IsASeq
<1>2. trade[t].init \in Accounts /\ trade[t].partner \in Accounts
  BY DEF Trade
<1>3. Transfers(t) = Move(trade[t].init, trade[t].partner) \o Move(trade[t].partner, trade[t].init)
  BY DEF Transfers
<1> HIDE DEF Move
<1>4. /\ Move(trade[t].init, trade[t].partner) \in Seq(OwnershipTransfer)
      /\ Move(trade[t].partner, trade[t].init) \in Seq(OwnershipTransfer)
  BY <1>1, <1>2
<1> QED
  BY <1>3, <1>4, ConcatProperties

(* Applying a batch gives a table again.                                   *)
LEMMA ApplyBatchType ==
  ASSUME NEW table \in [Creatures -> OwnedCreature],
         NEW ts \in Seq(OwnershipTransfer)
  PROVE  ApplyBatch(table, ts) \in [Creatures -> OwnedCreature]
<1> SUFFICES ASSUME NEW c \in Creatures, \E i \in DOMAIN ts : ts[i].id = c
             PROVE  [table[c] EXCEPT !.owner = ts[LastOf(ts, c)].to] \in OwnedCreature
  BY DEF ApplyBatch
<1>1. LastOf(ts, c) \in DOMAIN ts
  BY LastTransfer
<1>2. ts[LastOf(ts, c)] \in OwnershipTransfer
  BY <1>1, ElementOfSeq
<1> QED
  BY <1>2 DEF OwnershipTransfer, OwnedCreature

(* UpdateCreature gives a table again, whichever backend runs.             *)
LEMMA UpdateCreatureType ==
  ASSUME NEW table \in [Creatures -> OwnedCreature],
         NEW c \in Creatures, NEW oc \in OwnedCreature
  PROVE  UpdateCreature(table, c, oc) \in [Creatures -> OwnedCreature]
BY DEF UpdateCreature, OwnedCreature

(* The row Evolve writes back is a row: its form is in the Dex.            *)
LEMMA EvolvedType ==
  ASSUME NEW c \in Creatures, NEW oc \in OwnedCreature, MayEvolve(c, oc)
  PROVE  Evolved(oc) \in OwnedCreature
<1> DEFINE form == EvolvesTo[oc.form]
<1>1. form \in Forms
  BY DEF MayEvolve
<1>2. AbilityPool[form] \in Seq(Abilities)
  BY <1>1, ProfileAssumption
<1>3. PickAbility(form, oc.ability) \in Abilities
  <2>1. CASE AbilityPool[form] # <<>>
    <3>1. AbilityPool[form][1] \in Abilities
      BY <1>2, <2>1
    <3> QED BY <3>1 DEF PickAbility, OwnedCreature
  <2>2. CASE AbilityPool[form] = <<>>
    BY <2>2 DEF PickAbility, OwnedCreature
  <2> QED BY <2>1, <2>2
<1> QED
  BY <1>1, <1>3 DEF Evolved, OwnedCreature

(* A request being served is one of the three kinds, told apart by op.     *)
LEMMA ServingKind ==
  ASSUME TypeOK, NEW w \in Workers
  PROVE  /\ Serving(w, "stage") => req[w] \in StageReq
         /\ Serving(w, "team") => req[w] \in TeamReq
         /\ Serving(w, "evolve") => req[w] \in EvolveReq
BY DEF TypeOK, Serving, Request, StageReq, TeamReq, EvolveReq

(* What types need of the mutex: an offer is written to a trade record.    *)
TypeInv == TypeOK /\ StageHoldsTrade

LEMMA ServingKeepsKind ==
  ASSUME NEW w \in Workers, req'[w] = req[w], NEW op
  PROVE  Serving(w, op)' <=> Serving(w, op)
BY DEF Serving

(* Trade operations run only when no Stage is in flight.                   *)
LEMMA NoStageWhenFree ==
  ASSUME TypeInv, mu = Free
  PROVE  \A w \in Workers : ~Serving(w, "stage")
BY ProfileAssumption DEF TypeInv, StageHoldsTrade

(* Every step of every trade operation keeps the types.                    *)
LEMMA TradeStepType ==
  ASSUME TypeInv, NEW t \in TradeIDs, TradeStep(t)
  PROVE  TypeInv'
<1>0. mu = Free /\ req' = req /\ mu' = mu
  BY DEF TradeStep, Open, Lock, Cancel, Commit, CommitAckLost, CanCommit
<1>H. StageHoldsTrade'
  BY <1>0, NoStageWhenFree DEF StageHoldsTrade, Serving
<1> SUFFICES TypeOK'
  BY <1>H DEF TypeInv
<1> USE DEF TypeOK, TypeInv
<1>1. ASSUME NEW a \in Accounts, NEW b \in Accounts, Open(t, a, b)
      PROVE  TypeOK'
  <2> DEFINE new == [state |-> "open", init |-> a, partner |-> b, offers |-> NoOffers,
                     locked |-> [x \in Accounts |-> FALSE]]
  <2>1. NoOffers \in Offers
    BY DEF NoOffers, Offers
  <2>2. new \in Trade
    BY <2>1 DEF Trade
  <2> QED
    BY <2>2, <1>1 DEF Open
<1>2. ASSUME trade[t].state \in {"open", "cancelled", "committed"}
      PROVE  trade[t] \in Trade
  BY <1>2 DEF NoTrade
<1>3. ASSUME NEW a \in Accounts, Lock(t, a)
      PROVE  TypeOK'
  <2>1. trade[t] \in Trade
    BY <1>2, <1>3 DEF Lock, GetOpen
  <2> QED
    BY <2>1, <1>3 DEF Lock, Trade
<1>4. ASSUME NEW a \in Accounts, Cancel(t, a)
      PROVE  TypeOK'
  <2>1. trade[t] \in Trade
    BY <1>4 DEF Cancel
  <2> QED
    BY <2>1, <1>4 DEF Cancel, Trade
<1>5. ASSUME CanCommit(t)
      PROVE  /\ trade[t] \in Trade
             /\ ApplyBatch(creatures, Transfers(t)) \in [Creatures -> OwnedCreature]
  BY <1>2, <1>5, TransfersType, ApplyBatchType DEF CanCommit
<1>6. CASE Commit(t)
  BY <1>5, <1>6 DEF Commit, Trade
<1>7. CASE CommitAckLost(t)
  BY <1>5, <1>7 DEF CommitAckLost
<1> QED
  BY <1>1, <1>3, <1>4, <1>6, <1>7 DEF TradeStep

(* Every step of every request keeps the types, and a Stage keeps mu until *)
(* it ends.                                                                *)
LEMMA WorkerType ==
  ASSUME TypeInv, NEW w \in Workers, WorkerBegins(w) \/ WorkerStep(w)
  PROVE  TypeInv'
<1> USE DEF TypeInv, TypeOK
<1>1. ASSUME NEW t \in TradeIDs, NEW a \in Accounts, NEW ids \in OfferLists,
             StageBegin(w, t, a, ids)
      PROVE  TypeInv'
  <2> DEFINE r == [op |-> "stage", acct |-> a, trade |-> t, ids |-> ids, k |-> 1]
  <2>1. r \in Request
    BY DEF Request, StageReq
  <2>2. TypeOK'
    BY <2>1, <1>1 DEF StageBegin
  <2>3. StageHoldsTrade'
    BY <2>1, <1>1, NoStageWhenFree, IdleAssumption DEF StageBegin, StageHoldsTrade, Serving, GetOpen, Parties
  <2> QED BY <2>2, <2>3
<1>2. ASSUME NEW a \in Accounts, NEW ids \in TeamLists, TeamBegin(w, a, ids)
      PROVE  TypeInv'
  BY <1>2 DEF TeamBegin, Request, TeamReq, StageHoldsTrade, Serving, GetOpen, Parties
<1>3. ASSUME NEW a \in Accounts, NEW c \in Creatures, EvolveRead(w, a, c)
      PROVE  TypeInv'
  <2>1. Evolved(creatures[c]) \in OwnedCreature
    BY <1>3, EvolvedType DEF EvolveRead
  <2> QED
    BY <2>1, <1>3 DEF EvolveRead, Request, EvolveReq, StageHoldsTrade, Serving, GetOpen, Parties
<1>4. CASE CheckPasses(w)
  <2>1. req[w] \in StageReq \/ req[w] \in TeamReq
    BY <1>4, ServingKind DEF CheckPasses, Checking
  <2>2. [req[w] EXCEPT !.k = @ + 1] \in Request
    <3>1. CASE req[w] \in StageReq
      <4>1. req[w].k + 1 \in Nat \ {0}
        BY <3>1 DEF StageReq
      <4>2. [req[w] EXCEPT !.k = req[w].k + 1] \in StageReq
        BY <4>1, <3>1 DEF StageReq
      <4> QED BY <4>2 DEF Request
    <3>2. CASE req[w] \in TeamReq
      <4>1. req[w].k + 1 \in Nat \ {0}
        BY <3>2 DEF TeamReq
      <4>2. [req[w] EXCEPT !.k = req[w].k + 1] \in TeamReq
        BY <4>1, <3>2 DEF TeamReq
      <4> QED BY <4>2 DEF Request
    <3> QED BY <2>1, <3>1, <3>2
  <2>3. TypeOK'
    BY <2>2, <1>4 DEF CheckPasses
  <2>4. /\ req'[w].op = req[w].op /\ req[w] # NoReq /\ req'[w] # NoReq
        /\ req[w].op = "stage" => req'[w].trade = req[w].trade /\ req'[w].acct = req[w].acct
    BY <2>1, <2>2, <1>4, IdleAssumption DEF CheckPasses, Checking, Serving, StageReq, TeamReq
  <2>5. StageHoldsTrade'
    BY <2>4, <1>4 DEF CheckPasses, StageHoldsTrade, Serving, GetOpen, Parties
  <2> QED BY <2>3, <2>5
<1>5. CASE GiveUp(w)
  BY <1>5 DEF GiveUp, StageHoldsTrade, Serving, GetOpen, Parties
<1>6. CASE StageFinish(w)
  <2>1. req[w] \in StageReq /\ mu = w /\ trade[req[w].trade].state = "open"
    BY <1>6, ServingKind DEF StageFinish, Checked, StageHoldsTrade, GetOpen
  <2>2. req[w].ids \in Seq(Creatures) /\ trade[req[w].trade] \in Trade
    BY <2>1, ProfileAssumption DEF StageReq, NoTrade
  <2>3. TypeOK'
    BY <2>1, <2>2, <1>6 DEF StageFinish, StageReq, Trade, Offers
  <2>4. StageHoldsTrade'
    BY <2>1, <1>6 DEF StageFinish, StageHoldsTrade, Serving
  <2> QED BY <2>3, <2>4
<1>7. CASE TeamFinish(w)
  <2>1. req[w] \in TeamReq
    BY <1>7, ServingKind DEF TeamFinish, Checked
  <2> QED
    BY <2>1, <1>7, ProfileAssumption
       DEF TeamFinish, TeamReq, StageHoldsTrade, Serving, GetOpen, Parties
<1>8. CASE EvolveWrite(w)
  <2>1. req[w] \in EvolveReq
    BY <1>8, ServingKind DEF EvolveWrite
  <2>2. TypeOK'
    BY <2>1, <1>8, UpdateCreatureType DEF EvolveWrite, EvolveReq
  <2>3. StageHoldsTrade'
    BY <1>8 DEF EvolveWrite, StageHoldsTrade, Serving, GetOpen, Parties
  <2> QED BY <2>2, <2>3
<1> QED
  BY <1>1, <1>2, <1>3, <1>4, <1>5, <1>6, <1>7, <1>8
     DEF WorkerBegins, WorkerStep, CheckFails, RepoError

(* A restart forgets trades and requests together.                         *)
LEMMA RestartType == TypeInv /\ Restart => TypeInv'
BY DEF Restart, TypeInv, TypeOK, NoOffers, Offers, StageHoldsTrade, Serving

LEMMA InductiveType == Spec => []TypeInv
<1>1. Init => TypeInv
  BY DEF Init, TypeInv, TypeOK, NoOffers, Offers, StageHoldsTrade, Serving
<1>2. TypeInv /\ [Next]_vars => TypeInv'
  <2> SUFFICES ASSUME TypeInv, [Next]_vars PROVE TypeInv'
    OBVIOUS
  <2>1. CASE \E t \in TradeIDs : TradeStep(t)
    BY <2>1, TradeStepType
  <2>2. CASE \E w \in Workers : WorkerBegins(w) \/ WorkerStep(w)
    BY <2>2, WorkerType
  <2>3. CASE Restart
    BY <2>3, RestartType
  <2>4. CASE UNCHANGED vars
    BY <2>4 DEF vars, TypeInv, TypeOK, StageHoldsTrade, Serving, GetOpen, Parties
  <2> QED
    BY <2>1, <2>2, <2>3, <2>4 DEF Next
<1> QED
  BY <1>1, <1>2, PTL DEF Spec

(* The tables, the trades, the mutex and the requests keep their types     *)
(* under every interleaving of requests, on both backends.                 *)
THEOREM TypeCorrect == Spec => []TypeOK
BY InductiveType, PTL DEF TypeInv

-----------------------------------------------------------------------------
(* A lock counts only against the offers it was placed on.                 *)

LEMMA LockCoversOfferStep ==
  ASSUME TypeInv, LockCoversOffer, [Next]_vars
  PROVE  LockCoversOffer'
<1> USE DEF LockCoversOffer, Parties
<1>1. ASSUME NEW t \in TradeIDs, NEW a \in Accounts, NEW b \in Accounts, Open(t, a, b)
      PROVE  LockCoversOffer'
  BY <1>1 DEF Open, TypeInv, TypeOK
<1>2. ASSUME NEW t \in TradeIDs, NEW a \in Accounts, Lock(t, a)
      PROVE  LockCoversOffer'
  <2>1. trade[t] \in Trade
    BY <1>2 DEF Lock, GetOpen, TypeInv, TypeOK, NoTrade
  <2>2. /\ trade'[t] = [trade[t] EXCEPT !.locked[a] = TRUE]
        /\ agreed'[t] = [agreed[t] EXCEPT ![a] = trade[t].offers]
        /\ \A u \in TradeIDs \ {t} : trade'[u] = trade[u] /\ agreed'[u] = agreed[u]
    BY <1>2 DEF Lock, TypeInv, TypeOK
  <2>3. /\ trade'[t].init = trade[t].init /\ trade'[t].partner = trade[t].partner
        /\ trade'[t].offers = trade[t].offers /\ trade[t].state = "open"
        /\ \A x \in Accounts \ {a} : trade'[t].locked[x] = trade[t].locked[x]
        /\ trade[t].init \in Accounts /\ trade[t].partner \in Accounts
    BY <2>1, <2>2, <1>2 DEF Trade, Lock, GetOpen
  <2>4. /\ agreed'[t][a] = trade[t].offers
        /\ \A x \in Accounts \ {a} : agreed'[t][x] = agreed[t][x]
    BY <2>2 DEF TypeInv, TypeOK
  <2> SUFFICES ASSUME NEW u \in TradeIDs, trade'[u].state \in {"open", "committed"},
                      NEW x \in {trade'[u].init, trade'[u].partner}, trade'[u].locked[x]
               PROVE  agreed'[u][x] = trade'[u].offers
    OBVIOUS
  <2>5. CASE u # t
    BY <2>2, <2>5
  <2>6. CASE u = t /\ x = a
    BY <2>3, <2>4, <2>6
  <2>7. CASE u = t /\ x # a
    BY <2>3, <2>4, <2>7
  <2> QED
    BY <2>5, <2>6, <2>7
<1>3. ASSUME NEW t \in TradeIDs, NEW a \in Accounts, Cancel(t, a)
      PROVE  LockCoversOffer'
  <2>1. trade[t] \in Trade
    BY <1>3 DEF Cancel, TypeInv, TypeOK
  <2> QED
    BY <2>1, <1>3 DEF Cancel, TypeInv, TypeOK, Trade
<1>4. ASSUME NEW t \in TradeIDs, Commit(t)
      PROVE  LockCoversOffer'
  <2>1. trade[t] \in Trade
    BY <1>4 DEF Commit, CanCommit, TypeInv, TypeOK, NoTrade
  <2>2. /\ trade'[t].init = trade[t].init /\ trade'[t].partner = trade[t].partner
        /\ trade'[t].offers = trade[t].offers /\ trade'[t].locked = trade[t].locked
        /\ trade[t].state = "open" /\ agreed' = agreed
        /\ \A u \in TradeIDs \ {t} : trade'[u] = trade[u]
    BY <2>1, <1>4 DEF Commit, CanCommit, TypeInv, TypeOK, Trade
  <2> QED
    BY <2>2
<1>5. ASSUME NEW w \in Workers, StageFinish(w)
      PROVE  LockCoversOffer'
  <2>1. req[w] \in StageReq /\ trade[req[w].trade].state = "open"
    BY <1>5, ServingKind DEF TypeInv, StageFinish, Checked, StageHoldsTrade, GetOpen
  <2>2. req[w].trade \in TradeIDs /\ trade[req[w].trade] \in Trade
    BY <2>1 DEF StageReq, NoTrade, TypeInv, TypeOK
  <2> QED
    BY <2>1, <2>2, <1>5 DEF StageFinish, TypeInv, TypeOK, Trade
<1>6. CASE Restart
  BY <1>6 DEF Restart, NoTrade
<1>7. CASE UNCHANGED <<trade, agreed>>
  BY <1>7
<1>8. ASSUME NEW w \in Workers, WorkerStep(w), ~StageFinish(w)
      PROVE  UNCHANGED <<trade, agreed>>
  BY <1>8 DEF WorkerStep, CheckPasses, CheckFails, RepoError, GiveUp, TeamFinish, EvolveWrite
<1>9. ASSUME NEW w \in Workers, WorkerBegins(w)
      PROVE  UNCHANGED <<trade, agreed>>
  BY <1>9 DEF WorkerBegins, StageBegin, TeamBegin, EvolveRead
<1>10. ASSUME NEW t \in TradeIDs, CommitAckLost(t)
       PROVE  UNCHANGED <<trade, agreed>>
  BY <1>10 DEF CommitAckLost
<1> QED
  BY <1>1, <1>2, <1>3, <1>4, <1>5, <1>6, <1>7, <1>8, <1>9, <1>10
     DEF Next, TradeStep, vars

(* No switch scam: on both backends, and even if acknowledgements get      *)
(* lost, the trade that commits is the one each party locked.              *)
THEOREM LocksAreOnOffers == Spec => []LockCoversOffer
<1>1. Init => LockCoversOffer
  BY DEF Init, LockCoversOffer, NoTrade
<1>2. TypeInv /\ LockCoversOffer /\ [Next]_vars => LockCoversOffer'
  BY LockCoversOfferStep
<1> QED
  BY <1>1, <1>2, InductiveType, PTL DEF Spec

-----------------------------------------------------------------------------
(* Postgres: owners change in Commit alone, which no Stage overlaps.       *)

LEMMA OwnersChangeInCommit ==
  ASSUME TypeInv, [Next]_vars, Backend = "postgres"
  PROVE  \/ \E t \in TradeIDs : Commit(t) \/ CommitAckLost(t)
         \/ \A c \in Creatures : creatures'[c].owner = creatures[c].owner
<1>1. ASSUME NEW w \in Workers, EvolveWrite(w)
      PROVE  \A c \in Creatures : creatures'[c].owner = creatures[c].owner
  <2>1. req[w] \in EvolveReq
    BY <1>1, ServingKind DEF EvolveWrite, TypeInv
  <2>2. req[w].id \in Creatures /\ req[w].oc \in OwnedCreature
    BY <2>1 DEF EvolveReq
  <2> QED
    BY <2>2, <1>1 DEF EvolveWrite, UpdateCreature, TypeInv, TypeOK, OwnedCreature
<1>2. ASSUME NEW w \in Workers, WorkerStep(w), ~EvolveWrite(w)
      PROVE  UNCHANGED creatures
  BY <1>2 DEF WorkerStep, CheckPasses, CheckFails, RepoError, GiveUp, TeamFinish, StageFinish
<1>3. ASSUME NEW w \in Workers, WorkerBegins(w)
      PROVE  UNCHANGED creatures
  BY <1>3 DEF WorkerBegins, StageBegin, TeamBegin, EvolveRead
<1>4. ASSUME NEW t \in TradeIDs, TradeStep(t), ~Commit(t), ~CommitAckLost(t)
      PROVE  UNCHANGED creatures
  BY <1>4 DEF TradeStep, Open, Lock, Cancel
<1> QED
  BY <1>1, <1>2, <1>3, <1>4 DEF Next, Restart, vars

(* Every offer is made of creatures its account owns at that moment        *)
(* ("you can only stage creatures you own", trade.go), although the checks *)
(* precede the write: with Postgres nothing moves a creature in between.   *)
THEOREM StagedIsOwned == ASSUME Backend = "postgres" PROVE Spec => []StageStaysValid
<1>1. Init => StageOwnsChecked
  BY DEF Init, StageOwnsChecked, Serving
<1>2. TypeInv /\ StageOwnsChecked /\ [Next]_vars => StageOwnsChecked'
  <2> SUFFICES ASSUME TypeInv, StageOwnsChecked, [Next]_vars,
                      NEW w \in Workers, Serving(w, "stage")',
                      NEW i \in DOMAIN req'[w].ids, i < req'[w].k
               PROVE  creatures'[req'[w].ids[i]].owner = req'[w].acct
    BY DEF StageOwnsChecked
  <2>1. CASE \E t \in TradeIDs : Commit(t) \/ CommitAckLost(t)
    <3>1. mu = Free /\ req' = req
      BY <2>1 DEF Commit, CommitAckLost, CanCommit
    <3> QED
      BY <3>1, NoStageWhenFree DEF Serving
  <2>2. CASE \A c \in Creatures : creatures'[c].owner = creatures[c].owner
    <3>1. CASE req'[w] = req[w]
      <4>1. req[w] \in StageReq /\ req[w].ids[i] \in Creatures
        BY <3>1, ServingKind, ProfileAssumption DEF TypeInv, Serving, StageReq
      <4> QED
        BY <3>1, <4>1, <2>2 DEF StageOwnsChecked, Serving
    <3>2. CASE CheckPasses(w)
      <4>1. req[w] \in StageReq
        <5>1. req[w] \in StageReq \/ req[w] \in TeamReq
          BY <3>2, ServingKind DEF TypeInv, CheckPasses, Checking
        <5>2. CASE req[w] \in TeamReq
          BY <3>2, <5>2 DEF CheckPasses, Serving, TeamReq, TypeInv, TypeOK
        <5> QED BY <5>1, <5>2
      <4>2. /\ req'[w].ids = req[w].ids /\ req'[w].acct = req[w].acct
            /\ req'[w].k = req[w].k + 1 /\ Serving(w, "stage")
        BY <3>2, <4>1 DEF CheckPasses, Checking, Serving, StageReq, TypeInv, TypeOK
      <4>3. req[w].ids \in Seq(Creatures) /\ req[w].k \in Nat
        BY <4>1, ProfileAssumption DEF StageReq
      <4>4. i \in Nat /\ req[w].ids[i] \in Creatures
        BY <4>2, <4>3
      <4>5. CASE i < req[w].k
        BY <4>2, <4>4, <4>5, <2>2 DEF StageOwnsChecked
      <4>6. CASE i = req[w].k
        BY <4>2, <4>4, <4>6, <2>2, <3>2 DEF CheckPasses, EntryOK
      <4> QED BY <4>2, <4>3, <4>4, <4>5, <4>6
    <3>3. ASSUME NEW t \in TradeIDs, NEW a \in Accounts, NEW ids \in OfferLists,
                 StageBegin(w, t, a, ids)
          PROVE  FALSE
      <4>1. req'[w].k = 1 /\ req'[w].ids = ids
        BY <3>3 DEF StageBegin, TypeInv, TypeOK
      <4>2. i \in Nat \ {0}
        BY <4>1, ProfileAssumption
      <4> QED BY <4>1, <4>2
    <3>4. ~(WorkerBegins(w) /\ ~\E t \in TradeIDs, a \in Accounts, ids \in OfferLists : StageBegin(w, t, a, ids))
      BY DEF WorkerBegins, TeamBegin, EvolveRead, Serving, TypeInv, TypeOK
    <3>5. ~(WorkerStep(w) /\ ~CheckPasses(w))
      BY DEF WorkerStep, CheckFails, RepoError, GiveUp, StageFinish, TeamFinish, EvolveWrite,
             Serving, TypeInv, TypeOK
    <3>6. ~Restart
      BY DEF Restart, Serving
    <3>7. ASSUME NEW v \in Workers, v # w, WorkerBegins(v) \/ WorkerStep(v)
          PROVE  req'[w] = req[w]
      BY <3>7 DEF WorkerBegins, StageBegin, TeamBegin, EvolveRead, WorkerStep, CheckPasses,
                  CheckFails, RepoError, GiveUp, StageFinish, TeamFinish, EvolveWrite,
                  TypeInv, TypeOK
    <3>8. ASSUME NEW t \in TradeIDs, TradeStep(t)
          PROVE  req' = req
      BY <3>8 DEF TradeStep, Open, Lock, Cancel, Commit, CommitAckLost
    <3> QED
      BY <3>1, <3>2, <3>3, <3>4, <3>5, <3>6, <3>7, <3>8 DEF Next, vars
  <2> QED
    BY <2>1, <2>2, OwnersChangeInCommit
<1> QED
  BY <1>1, <1>2, InductiveType, PTL DEF Spec, StageStaysValid, TypeInv

-----------------------------------------------------------------------------
(* What a commit does to the owners.                                       *)

(* The transfers of a trade, by position.                                  *)
LEMMA TransferAt ==
  ASSUME NEW t \in TradeIDs, trade[t] \in Trade
  PROVE  LET a == trade[t].init
             b == trade[t].partner
             m == Len(trade[t].offers[a])
             n == Len(trade[t].offers[b])
             ts == Transfers(t)
         IN  /\ m \in Nat /\ n \in Nat
             /\ DOMAIN ts = 1 .. (m + n)
             /\ \A i \in 1 .. m : ts[i] = [id |-> trade[t].offers[a][i], from |-> a, to |-> b]
             /\ \A i \in (m + 1) .. (m + n) :
                  ts[i] = [id |-> trade[t].offers[b][i - m], from |-> b, to |-> a]
<1> DEFINE a == trade[t].init
           b == trade[t].partner
           Move(from, to) ==
             [i \in DOMAIN trade[t].offers[from] |->
                [id |-> trade[t].offers[from][i], from |-> from, to |-> to]]
           s1 == Move(a, b)
           s2 == Move(b, a)
           m == Len(trade[t].offers[a])
           n == Len(trade[t].offers[b])
<1>1. trade[t].offers[a] \in Seq(Creatures) /\ trade[t].offers[b] \in Seq(Creatures)
  BY DEF Trade, Offers
<1>2. /\ m \in Nat /\ n \in Nat
      /\ DOMAIN trade[t].offers[a] = 1 .. m /\ DOMAIN trade[t].offers[b] = 1 .. n
  BY <1>1
<1>3. /\ \A i \in 1 .. m : s1[i] = [id |-> trade[t].offers[a][i], from |-> a, to |-> b]
      /\ \A i \in 1 .. n : s2[i] = [id |-> trade[t].offers[b][i], from |-> b, to |-> a]
  BY <1>2
<1>4. a \in Accounts /\ b \in Accounts
  BY DEF Trade
<1>5. \A i \in 1 .. m : s1[i] \in OwnershipTransfer
  BY <1>1, <1>3, <1>4 DEF OwnershipTransfer
<1>6. \A i \in 1 .. n : s2[i] \in OwnershipTransfer
  BY <1>1, <1>3, <1>4 DEF OwnershipTransfer
<1>7. s1 \in Seq(OwnershipTransfer) /\ Len(s1) = m
  <2>1. s1 = [i \in 1 .. m |-> s1[i]]
    BY <1>2
  <2> HIDE DEF s1
  <2>2. [i \in 1 .. m |-> s1[i]] \in Seq(OwnershipTransfer)
    BY <1>2, <1>5, IsASeq
  <2>3. s1 \in Seq(OwnershipTransfer) /\ DOMAIN s1 = 1 .. m
    BY <2>1, <2>2
  <2> QED BY <2>3, <1>2, LenProperties
<1>8. s2 \in Seq(OwnershipTransfer) /\ Len(s2) = n
  <2>1. s2 = [i \in 1 .. n |-> s2[i]]
    BY <1>2
  <2> HIDE DEF s2
  <2>2. [i \in 1 .. n |-> s2[i]] \in Seq(OwnershipTransfer)
    BY <1>2, <1>6, IsASeq
  <2>3. s2 \in Seq(OwnershipTransfer) /\ DOMAIN s2 = 1 .. n
    BY <2>1, <2>2
  <2> QED BY <2>3, <1>2, LenProperties
<1>9. Transfers(t) = s1 \o s2
  BY DEF Transfers
<1> HIDE DEF s1, s2, m, n
<1>10. /\ s1 \o s2 \in Seq(OwnershipTransfer)
       /\ Len(s1 \o s2) = m + n
       /\ \A i \in 1 .. (m + n) : (s1 \o s2)[i] = IF i <= m THEN s1[i] ELSE s2[i - m]
  BY <1>7, <1>8, ConcatProperties
<1>11. DOMAIN Transfers(t) = 1 .. (m + n)
  BY <1>9, <1>10
<1>12. \A i \in 1 .. m : Transfers(t)[i] = s1[i]
  BY <1>2, <1>9, <1>10
<1>13. \A i \in (m + 1) .. (m + n) : Transfers(t)[i] = s2[i - m] /\ i - m \in 1 .. n
  BY <1>2, <1>9, <1>10
<1>14. \A i \in (m + 1) .. (m + n) :
          Transfers(t)[i] = [id |-> trade[t].offers[b][i - m], from |-> b, to |-> a]
  BY <1>3, <1>13
<1>15. \A i \in 1 .. m : Transfers(t)[i] = [id |-> trade[t].offers[a][i], from |-> a, to |-> b]
  BY <1>3, <1>12
<1> QED
  BY <1>2, <1>11, <1>14, <1>15 DEF m, n

(* A batch that Postgres accepts finds, for each creature it moves, the    *)
(* sender of its first transfer in possession of it.                       *)
LEMMA FirstSenderOwns ==
  ASSUME NEW table \in [Creatures -> OwnedCreature],
         NEW ts \in Seq(OwnershipTransfer), PGBatchOK(table, ts),
         NEW c \in Creatures, \E i \in DOMAIN ts : ts[i].id = c
  PROVE  \E i \in DOMAIN ts :
           /\ ts[i].id = c /\ table[c].owner = ts[i].from
           /\ \A j \in DOMAIN ts : ts[j].id = c => i <= j
<1> DEFINE T == {i \in DOMAIN ts : ts[i].id = c}
<1>1. T # {} /\ T \subseteq Nat
  OBVIOUS
<1>2. PICK i \in T : \A j \in T : ~(<<j, i>> \in OpToRel(<, Nat))
  <2> HIDE DEF T
  <2> QED BY <1>1, WFMin, NatLessThanWellFounded
<1>3. \A j \in T : i <= j
  <2> HIDE DEF T
  <2> SUFFICES ASSUME NEW j \in T, j < i PROVE FALSE
    BY <1>1
  <2>1. <<j, i>> \in Nat \X Nat /\ <<j, i>>[1] < <<j, i>>[2]
    BY <1>1, <1>2
  <2>2. <<j, i>> \in OpToRel(<, Nat)
    BY <2>1 DEF OpToRel
  <2> QED BY <1>2, <2>2
<1>4. DOMAIN ts = 1 .. Len(ts) /\ Len(ts) \in Nat
  OBVIOUS
<1>5. i \in DOMAIN ts /\ ts[i].id = c
  BY <1>2
<1>6. Earlier(ts, i) = {}
  <2> SUFFICES ASSUME NEW j \in 1 .. (i - 1), ts[j].id = c PROVE FALSE
    BY <1>5 DEF Earlier
  <2>1. j \in T /\ j < i
    BY <1>4, <1>5
  <2> QED BY <2>1, <1>3, <1>4, <1>5
<1> QED
  BY <1>3, <1>5, <1>6 DEF PGBatchOK

(* The owners after a batch that Postgres accepts: a creature that one     *)
(* side alone offered was that side's and is now the other's, every other  *)
(* creature, also one that both sides offered, is where it was.            *)
LEMMA SettledOwners ==
  ASSUME NEW t \in TradeIDs, trade[t] \in Trade,
         creatures \in [Creatures -> OwnedCreature],
         PGBatchOK(creatures, Transfers(t)),
         NEW c \in Creatures
  PROVE  LET a == trade[t].init
             b == trade[t].partner
             gives(p, q) == Elems(trade[t].offers[p]) \ Elems(trade[t].offers[q])
             after == ApplyBatch(creatures, Transfers(t))[c].owner
         IN  /\ c \in gives(a, b) => creatures[c].owner = a /\ after = b
             /\ c \in gives(b, a) => creatures[c].owner = b /\ after = a
             /\ c \notin gives(a, b) \cup gives(b, a) => after = creatures[c].owner
<1> DEFINE a == trade[t].init
           b == trade[t].partner
           m == Len(trade[t].offers[a])
           n == Len(trade[t].offers[b])
           ts == Transfers(t)
           A == Elems(trade[t].offers[a])
           B == Elems(trade[t].offers[b])
           after == ApplyBatch(creatures, ts)[c].owner
<1>1. ts \in Seq(OwnershipTransfer)
  BY TransfersType
<1>2. /\ m \in Nat /\ n \in Nat /\ DOMAIN ts = 1 .. (m + n)
      /\ \A i \in 1 .. m : ts[i].id = trade[t].offers[a][i] /\ ts[i].from = a /\ ts[i].to = b
      /\ \A i \in (m + 1) .. (m + n) :
           ts[i].id = trade[t].offers[b][i - m] /\ ts[i].from = b /\ ts[i].to = a
  <2>1. /\ m \in Nat /\ n \in Nat /\ DOMAIN ts = 1 .. (m + n)
        /\ \A i \in 1 .. m : ts[i] = [id |-> trade[t].offers[a][i], from |-> a, to |-> b]
        /\ \A i \in (m + 1) .. (m + n) :
             ts[i] = [id |-> trade[t].offers[b][i - m], from |-> b, to |-> a]
    BY TransferAt
  <2> HIDE DEF a, b, m, n, ts
  <2>2. ASSUME NEW i \in 1 .. m
        PROVE  ts[i].id = trade[t].offers[a][i] /\ ts[i].from = a /\ ts[i].to = b
    <3>1. ts[i] = [id |-> trade[t].offers[a][i], from |-> a, to |-> b]
      BY <2>1
    <3> QED BY <3>1
  <2>3. ASSUME NEW i \in (m + 1) .. (m + n)
        PROVE  ts[i].id = trade[t].offers[b][i - m] /\ ts[i].from = b /\ ts[i].to = a
    <3>1. ts[i] = [id |-> trade[t].offers[b][i - m], from |-> b, to |-> a]
      BY <2>1
    <3> QED BY <3>1
  <2> QED BY <2>1, <2>2, <2>3
<1>3. /\ DOMAIN trade[t].offers[a] = 1 .. m
      /\ DOMAIN trade[t].offers[b] = 1 .. n
  BY DEF Trade, Offers
<1> HIDE DEF ts, m, n
<1>4. \A i \in 1 .. m : ts[i].id \in A
  BY <1>2, <1>3 DEF Elems
<1>5. \A i \in (m + 1) .. (m + n) : ts[i].id \in B
  <2> SUFFICES ASSUME NEW i \in (m + 1) .. (m + n) PROVE ts[i].id \in B
    OBVIOUS
  <2>1. i - m \in 1 .. n
    BY <1>2
  <2> QED BY <2>1, <1>2, <1>3 DEF Elems
<1>6. c \in A => \E i \in 1 .. m : ts[i].id = c
  BY <1>2, <1>3 DEF Elems
<1>7. c \in B => \E i \in (m + 1) .. (m + n) : ts[i].id = c
  <2> SUFFICES ASSUME c \in B PROVE \E i \in (m + 1) .. (m + n) : ts[i].id = c
    OBVIOUS
  <2>1. PICK j \in 1 .. n : trade[t].offers[b][j] = c
    BY <1>3 DEF Elems
  <2>2. m + j \in (m + 1) .. (m + n) /\ (m + j) - m = j
    BY <1>2
  <2> QED BY <2>1, <2>2, <1>2
<1>8. CASE ~\E i \in DOMAIN ts : ts[i].id = c
  <2>1. c \notin A /\ c \notin B
    BY <1>2, <1>6, <1>7, <1>8
  <2>2. after = creatures[c].owner
    BY <1>8 DEF ApplyBatch
  <2> QED BY <2>1, <2>2 DEF ts
<1>9. CASE \E i \in DOMAIN ts : ts[i].id = c
  <2>1. PICK i \in DOMAIN ts : /\ ts[i].id = c /\ creatures[c].owner = ts[i].from
                               /\ \A j \in DOMAIN ts : ts[j].id = c => i <= j
    BY <1>1, <1>9, FirstSenderOwns DEF ts
  <2> DEFINE l == LastOf(ts, c)
  <2>2. /\ l \in DOMAIN ts /\ ts[l].id = c
        /\ \A j \in DOMAIN ts : ts[j].id = c => j <= l
    BY <1>1, <1>9, LastTransfer
  <2>3. after = ts[l].to
    BY <1>9, <2>2 DEF ApplyBatch, OwnedCreature
  <2> HIDE DEF l, after
  <2>4. /\ i \in 1 .. m \/ i \in (m + 1) .. (m + n)
        /\ l \in 1 .. m \/ l \in (m + 1) .. (m + n)
    BY <1>2, <2>1, <2>2
  <2>5. c \in A => i \in 1 .. m
    BY <1>2, <1>6, <2>1, <2>4
  <2>6. c \in B => l \in (m + 1) .. (m + n)
    BY <1>2, <1>7, <2>2, <2>4
  <2>7. c \notin A => i \in (m + 1) .. (m + n)
    BY <1>4, <2>1, <2>4
  <2>8. c \notin B => l \in 1 .. m
    BY <1>5, <2>2, <2>4
  <2>9. /\ c \in A => creatures[c].owner = a
        /\ c \notin A => creatures[c].owner = b
        /\ c \in B => after = a
        /\ c \notin B => after = b
    BY <1>2, <2>1, <2>3, <2>5, <2>6, <2>7, <2>8
  <2>10. c \in A \/ c \in B
    BY <1>4, <1>5, <2>1, <2>4
  <2> QED BY <2>9, <2>10 DEF after, ts
<1> QED
  BY <1>8, <1>9

(* Ownership moves only by a commit, whole, as both parties locked it:     *)
(* with Postgres, while a committed transaction reports success.           *)
THEOREM OwnershipBySettlement ==
  ASSUME Backend = "postgres", AckLoss = FALSE
  PROVE  Spec => OwnershipMovesOnlyInCommit
<1>1. TypeInv /\ LockCoversOffer /\ [Next]_vars
        => (OwnersChange => \E t \in TradeIDs : Settles(t))
  <2> SUFFICES ASSUME TypeInv, LockCoversOffer, [Next]_vars, OwnersChange
               PROVE  \E t \in TradeIDs : Settles(t)
    OBVIOUS
  <2>1. PICK t \in TradeIDs : Commit(t)
    BY OwnersChangeInCommit DEF OwnersChange, CommitAckLost
  <2>2. /\ trade[t].state = "open" /\ trade[t] \in Trade
        /\ creatures \in [Creatures -> OwnedCreature]
        /\ PGBatchOK(creatures, Transfers(t))
        /\ creatures' = ApplyBatch(creatures, Transfers(t))
    BY <2>1 DEF Commit, CanCommit, BatchOK, TypeInv, TypeOK, NoTrade
  <2>3. trade'[t].state = "committed"
    BY <2>1, <2>2 DEF Commit, Trade, TypeInv, TypeOK
  <2>4. /\ agreed[t][trade[t].init] = trade[t].offers
        /\ agreed[t][trade[t].partner] = trade[t].offers
    BY <2>1, <2>2 DEF Commit, CanCommit, BothLocked, LockCoversOffer, Parties
  <2>5. Settles(t)
    BY <2>2, <2>3, <2>4, SettledOwners DEF Settles
  <2> QED BY <2>5
<1> QED
  BY <1>1, InductiveType, LocksAreOnOffers, PTL DEF Spec, OwnershipMovesOnlyInCommit

-----------------------------------------------------------------------------
(* Requests that write what they have checked or computed before.          *)

(* What a SetTeam request has checked of its list so far has no repeats.   *)
DistinctSoFar ==
  \A w \in Workers : Serving(w, "team") =>
    /\ Len(req[w].ids) <= TeamLimit
    /\ \A i, j \in DOMAIN req[w].ids :
         i < j /\ j < req[w].k => req[w].ids[i] # req[w].ids[j]

(* The row an Evolve request is about to write follows the Dex.            *)
Lawful(c, row) ==
  /\ \E f \in Forms : EvolvesTo[f] = row.form /\ EvolveLevel[f] <= Level[c]
  /\ AbilityPool[row.form] # <<>> => row.ability \in Elems(AbilityPool[row.form])

LawfulRows == \A w \in Workers : Serving(w, "evolve") => Lawful(req[w].id, req[w].oc)

(* Steps that leave the requests alone, or end one, begin nothing.         *)
LEMMA RequestsKept ==
  ASSUME TypeInv, Next
  PROVE  \/ \A w \in Workers : req'[w] \in {req[w], NoReq}
         \/ \E w \in Workers : WorkerBegins(w) \/ CheckPasses(w)
<1>1. ASSUME NEW t \in TradeIDs, TradeStep(t) PROVE UNCHANGED req
  BY <1>1 DEF TradeStep, Open, Lock, Cancel, Commit, CommitAckLost
<1>2. ASSUME NEW w \in Workers, WorkerStep(w), ~CheckPasses(w)
      PROVE  req' = [req EXCEPT ![w] = NoReq]
  BY <1>2 DEF WorkerStep, CheckFails, RepoError, GiveUp, StageFinish, TeamFinish, EvolveWrite
<1>3. Restart => req' = [w \in Workers |-> NoReq]
  BY DEF Restart
<1> QED
  BY <1>1, <1>2, <1>3 DEF Next, TypeInv, TypeOK

LEMMA DistinctStep ==
  ASSUME TypeInv, TypeInv', DistinctSoFar, [Next]_vars
  PROVE  DistinctSoFar'
<1> USE DEF DistinctSoFar, Serving
<1>1. CASE \A w \in Workers : req'[w] \in {req[w], NoReq}
  <2> SUFFICES ASSUME NEW w \in Workers, req'[w] # NoReq, req'[w].op = "team"
               PROVE  /\ Len(req'[w].ids) <= TeamLimit
                      /\ \A i, j \in DOMAIN req'[w].ids :
                           i < j /\ j < req'[w].k => req'[w].ids[i] # req'[w].ids[j]
    OBVIOUS
  <2>1. req'[w] = req[w]
    BY <1>1
  <2> QED
    BY <2>1
<1>3. ASSUME NEW w \in Workers, NEW a \in Accounts, NEW ids \in TeamLists, TeamBegin(w, a, ids)
      PROVE  DistinctSoFar'
  <2>1. /\ req'[w] = [op |-> "team", acct |-> a, ids |-> ids, k |-> 1]
        /\ \A x \in Workers \ {w} : req'[x] = req[x]
    BY <1>3 DEF TeamBegin, TypeInv, TypeOK
  <2>2. ids \in Seq(Creatures) /\ Len(ids) <= TeamLimit
    BY <1>3, ProfileAssumption DEF TeamBegin
  <2>3. \A i, j \in DOMAIN ids : ~(i < j /\ j < 1)
    BY <2>2
  <2> QED
    BY <2>1, <2>2, <2>3
<1>4. ASSUME NEW w \in Workers, NEW t \in TradeIDs, NEW a \in Accounts, NEW ids \in OfferLists,
             StageBegin(w, t, a, ids)
      PROVE  DistinctSoFar'
  <2>1. /\ req'[w] = [op |-> "stage", acct |-> a, trade |-> t, ids |-> ids, k |-> 1]
        /\ \A x \in Workers \ {w} : req'[x] = req[x]
    BY <1>4 DEF StageBegin, TypeInv, TypeOK
  <2> QED
    BY <2>1
<1>5. ASSUME NEW w \in Workers, NEW a \in Accounts, NEW c \in Creatures, EvolveRead(w, a, c)
      PROVE  DistinctSoFar'
  <2>1. /\ req'[w].op = "evolve"
        /\ \A x \in Workers \ {w} : req'[x] = req[x]
    BY <1>5 DEF EvolveRead, TypeInv, TypeOK
  <2> QED
    BY <2>1
<1>6. ASSUME NEW w \in Workers, CheckPasses(w)
      PROVE  DistinctSoFar'
  <2>1. /\ req'[w] = [req[w] EXCEPT !.k = @ + 1]
        /\ \A x \in Workers \ {w} : req'[x] = req[x]
    BY <1>6 DEF CheckPasses, TypeInv, TypeOK
  <2>2. CASE req[w] \in TeamReq
    <3>1. req[w].ids \in Seq(Creatures) /\ req[w].k \in Nat \ {0} /\ req[w].op = "team"
      BY <2>2, ProfileAssumption DEF TeamReq
    <3>2. /\ req'[w].op = "team" /\ req'[w].ids = req[w].ids /\ req'[w].k = req[w].k + 1
          /\ req[w] # NoReq
      BY <2>1, <2>2, IdleAssumption DEF TeamReq, Request
    <3>3. \A j \in 1 .. (req[w].k - 1) : req[w].ids[j] # req[w].ids[req[w].k]
      BY <1>6, <3>1 DEF CheckPasses, EntryOK
    <3>4. ASSUME NEW i \in DOMAIN req[w].ids, NEW j \in DOMAIN req[w].ids, i < j, j < req[w].k + 1
          PROVE  req[w].ids[i] # req[w].ids[j]
      <4>1. i \in Nat \ {0} /\ j \in Nat
        BY <3>1
      <4>2. CASE j < req[w].k
        BY <3>1, <3>2, <3>4, <4>2
      <4>3. CASE j = req[w].k
        BY <3>3, <3>4, <4>1, <4>3
      <4> QED
        BY <3>1, <3>4, <4>1, <4>2, <4>3
    <3>5. /\ Len(req'[w].ids) <= TeamLimit
          /\ \A i, j \in DOMAIN req'[w].ids :
               i < j /\ j < req'[w].k => req'[w].ids[i] # req'[w].ids[j]
      BY <3>1, <3>2, <3>4
    <3>6. \A x \in Workers \ {w} : req'[x] = req[x]
      BY <2>1
    <3> QED
      BY <3>5, <3>6
  <2>3. CASE req[w] \notin TeamReq
    <3>1. req[w].op = "stage" /\ req[w] \in StageReq
      BY <1>6, <2>3, ServingKind DEF CheckPasses, Checking, TypeInv
    <3>2. req'[w].op = "stage"
      BY <2>1, <3>1 DEF StageReq
    <3>3. \A x \in Workers \ {w} : req'[x] = req[x]
      BY <2>1
    <3> QED
      BY <3>2, <3>3
  <2> QED
    BY <2>2, <2>3
<1>7. CASE UNCHANGED vars
  BY <1>7 DEF vars
<1> QED
  BY <1>1, <1>3, <1>4, <1>5, <1>6, <1>7, RequestsKept DEF WorkerBegins

LEMMA LawfulStep ==
  ASSUME TypeInv, TypeInv', LawfulRows, [Next]_vars
  PROVE  LawfulRows'
<1> USE DEF LawfulRows, Serving, Lawful
<1>1. CASE \A w \in Workers : req'[w] \in {req[w], NoReq}
  <2> SUFFICES ASSUME NEW w \in Workers, req'[w] # NoReq, req'[w].op = "evolve"
               PROVE  Lawful(req'[w].id, req'[w].oc)
    OBVIOUS
  <2>1. req'[w] = req[w]
    BY <1>1
  <2> QED
    BY <2>1
<1>2. ASSUME NEW w \in Workers, NEW a \in Accounts, NEW c \in Creatures, EvolveRead(w, a, c)
      PROVE  LawfulRows'
  <2> DEFINE oc == creatures[c]
             form == EvolvesTo[oc.form]
  <2>1. /\ req'[w] = [op |-> "evolve", id |-> c, oc |-> Evolved(oc)]
        /\ \A x \in Workers \ {w} : req'[x] = req[x]
        /\ MayEvolve(c, oc) /\ oc \in OwnedCreature
    BY <1>2 DEF EvolveRead, TypeInv, TypeOK
  <2>2. /\ Evolved(oc).form = form /\ Evolved(oc).ability = PickAbility(form, oc.ability)
        /\ oc.form \in Forms
    BY <2>1 DEF Evolved, OwnedCreature
  <2>3. form \in Forms /\ EvolveLevel[oc.form] <= Level[c]
    BY <2>1, <2>2, ProfileAssumption DEF MayEvolve
  <2>4. AbilityPool[form] # <<>> => PickAbility(form, oc.ability) \in Elems(AbilityPool[form])
    <3>1. AbilityPool[form] \in Seq(Abilities)
      BY <2>3, ProfileAssumption
    <3>2. AbilityPool[form] # <<>> => 1 \in DOMAIN AbilityPool[form]
      BY <3>1
    <3> QED
      BY <3>2 DEF PickAbility, Elems
  <2>5. Lawful(c, Evolved(oc))
    BY <2>2, <2>3, <2>4
  <2> HIDE DEF Lawful
  <2> QED
    BY <2>1, <2>5
<1>3. ASSUME NEW w \in Workers, NEW a \in Accounts,
             \/ \E t \in TradeIDs, ids \in OfferLists : StageBegin(w, t, a, ids)
             \/ \E ids \in TeamLists : TeamBegin(w, a, ids)
      PROVE  LawfulRows'
  <2>1. req'[w].op # "evolve" /\ \A x \in Workers \ {w} : req'[x] = req[x]
    BY <1>3 DEF StageBegin, TeamBegin, TypeInv, TypeOK
  <2> HIDE DEF Lawful
  <2> QED
    BY <2>1
<1>4. ASSUME NEW w \in Workers, CheckPasses(w)
      PROVE  LawfulRows'
  <2>1. /\ req'[w] = [req[w] EXCEPT !.k = @ + 1]
        /\ \A x \in Workers \ {w} : req'[x] = req[x]
    BY <1>4 DEF CheckPasses, TypeInv, TypeOK
  <2>2. req[w] \in StageReq \cup TeamReq
    BY <1>4, ServingKind DEF CheckPasses, Checking, TypeInv
  <2>3. req'[w].op # "evolve"
    BY <2>1, <2>2 DEF StageReq, TeamReq
  <2> HIDE DEF Lawful
  <2> QED
    BY <2>1, <2>3
<1>5. CASE UNCHANGED vars
  BY <1>5 DEF vars
<1> HIDE DEF Lawful, LawfulRows
<1> QED
  BY <1>1, <1>2, <1>3, <1>4, <1>5, RequestsKept DEF WorkerBegins

(* Whatever SetTeam requests interleave, and whatever fails between their  *)
(* checks and their write, a saved party is short enough, without repeats. *)
THEOREM PartiesStayWellFormed == Spec => []TeamWellFormed
<1>1. Init => DistinctSoFar /\ TeamWellFormed
  <2> SUFFICES ASSUME Init PROVE DistinctSoFar /\ TeamWellFormed
    OBVIOUS
  <2> QED
    BY ProfileAssumption DEF Init, DistinctSoFar, Serving, TeamWellFormed
<1>2. TypeInv /\ TypeInv' /\ DistinctSoFar /\ TeamWellFormed /\ [Next]_vars
        => DistinctSoFar' /\ TeamWellFormed'
  <2> SUFFICES ASSUME TypeInv, TypeInv', DistinctSoFar, TeamWellFormed, [Next]_vars
               PROVE  TeamWellFormed'
    BY DistinctStep
  <2>1. ASSUME NEW w \in Workers, TeamFinish(w) PROVE TeamWellFormed'
    <3>1. req[w] \in TeamReq /\ req[w].k > Len(req[w].ids) /\ Serving(w, "team")
      BY <2>1, ServingKind DEF TeamFinish, Checked, TypeInv
    <3>2. /\ req[w].acct \in Accounts /\ req[w].ids \in Seq(Creatures) /\ req[w].k \in Nat
      BY <3>1, ProfileAssumption DEF TeamReq
    <3>3. /\ Len(req[w].ids) <= TeamLimit
          /\ \A i, j \in DOMAIN req[w].ids : i # j => req[w].ids[i] # req[w].ids[j]
      BY <3>1, <3>2 DEF DistinctSoFar
    <3>4. \A a \in Accounts :
            teams'[a] = IF a = req[w].acct THEN req[w].ids ELSE teams[a]
      BY <2>1 DEF TeamFinish, TypeInv, TypeOK
    <3> QED
      BY <3>3, <3>4 DEF TeamWellFormed
  <2>2. CASE UNCHANGED teams
    BY <2>2 DEF TeamWellFormed
  <2>3. ASSUME NEW t \in TradeIDs, TradeStep(t) PROVE UNCHANGED teams
    BY <2>3 DEF TradeStep, Open, Lock, Cancel, Commit, CommitAckLost
  <2>4. ASSUME NEW w \in Workers, WorkerBegins(w) \/ WorkerStep(w), ~TeamFinish(w)
        PROVE  UNCHANGED teams
    BY <2>4 DEF WorkerBegins, WorkerStep, StageBegin, TeamBegin, EvolveRead, CheckPasses,
                CheckFails, RepoError, GiveUp, StageFinish, EvolveWrite
  <2>5. Restart \/ UNCHANGED vars => UNCHANGED teams
    BY DEF Restart, vars
  <2> QED
    BY <2>1, <2>2, <2>3, <2>4, <2>5 DEF Next
<1> QED
  BY <1>1, <1>2, InductiveType, PTL DEF Spec

(* On either backend, and however slow an Evolve request is, the form and  *)
(* ability it writes are ones the Dex lets some form below its level have. *)
THEOREM FormsFollowTheDex == Spec => EvolutionLawful
<1>1. Init => LawfulRows
  BY DEF Init, LawfulRows, Serving
<1>2. TypeInv /\ TypeInv' /\ LawfulRows /\ [Next]_vars => LawfulRows'
  BY LawfulStep
<1> DEFINE Follows(c) ==
      creatures'[c].form # creatures[c].form => Lawful(c, creatures'[c])
<1>3. TypeInv /\ LawfulRows /\ [Next]_vars => \A c \in Creatures : Follows(c)
  <2> SUFFICES ASSUME TypeInv, LawfulRows, [Next]_vars, NEW c \in Creatures,
                      creatures'[c].form # creatures[c].form
               PROVE  Lawful(c, creatures'[c])
    OBVIOUS
  <2>1. ASSUME NEW w \in Workers, EvolveWrite(w) PROVE Lawful(c, creatures'[c])
    <3>1. /\ req[w] \in EvolveReq /\ Lawful(req[w].id, req[w].oc)
          /\ creatures' = UpdateCreature(creatures, req[w].id, req[w].oc)
      BY <2>1, ServingKind DEF EvolveWrite, TypeInv, LawfulRows
    <3>2. req[w].oc \in OwnedCreature /\ creatures \in [Creatures -> OwnedCreature]
      BY <3>1 DEF EvolveReq, TypeInv, TypeOK
    <3>3. c = req[w].id
      BY <3>1, <3>2 DEF UpdateCreature
    <3>4. creatures'[c].form = req[w].oc.form /\ creatures'[c].ability = req[w].oc.ability
      BY <3>1, <3>2, <3>3 DEF UpdateCreature, OwnedCreature
    <3> QED
      BY <3>1, <3>3, <3>4 DEF Lawful
  <2>2. ASSUME NEW t \in TradeIDs, creatures' = ApplyBatch(creatures, Transfers(t)) PROVE FALSE
    BY <2>2 DEF ApplyBatch, TypeInv, TypeOK, OwnedCreature
  <2>3. ASSUME NEW t \in TradeIDs, TradeStep(t)
        PROVE  UNCHANGED creatures \/ creatures' = ApplyBatch(creatures, Transfers(t))
    BY <2>3 DEF TradeStep, Open, Lock, Cancel, Commit, CommitAckLost
  <2>4. ASSUME NEW w \in Workers, WorkerBegins(w) \/ WorkerStep(w), ~EvolveWrite(w)
        PROVE  UNCHANGED creatures
    BY <2>4 DEF WorkerBegins, WorkerStep, StageBegin, TeamBegin, EvolveRead, CheckPasses,
                CheckFails, RepoError, GiveUp, StageFinish, TeamFinish
  <2>5. Restart \/ UNCHANGED vars => UNCHANGED creatures
    BY DEF Restart, vars
  <2> QED
    BY <2>1, <2>2, <2>3, <2>4, <2>5 DEF Next
<1>4. (\A c \in Creatures : Follows(c)) =>
        \A c \in Creatures : creatures'[c].form # creatures[c].form =>
          LET new == creatures'[c].form
          IN  /\ \E f \in Forms : EvolvesTo[f] = new /\ EvolveLevel[f] <= Level[c]
              /\ AbilityPool[new] # <<>> => creatures'[c].ability \in Elems(AbilityPool[new])
  BY DEF Lawful
<1> HIDE DEF Follows
<1> QED
  BY <1>1, <1>2, <1>3, <1>4, InductiveType, PTL DEF Spec, EvolutionLawful

-----------------------------------------------------------------------------
(* The service implements Escrow: every step of it is a step of Escrow or  *)
(* leaves owners and deals alone.                                          *)

Owners == [c \in Creatures |-> creatures[c].owner]

Deals == [t \in TradeIDs |-> DealOf(t)]

(* Only the parties of a trade ever lock it.                               *)
ConsentOfParties ==
  \A t \in TradeIDs : trade[t] # NoTrade =>
    \A x \in Accounts : trade[t].locked[x] => x \in Parties(t)

LEMMA ConsentStep ==
  ASSUME TypeInv, ConsentOfParties, [Next]_vars
  PROVE  ConsentOfParties'
<1> USE DEF ConsentOfParties, Parties
<1>1. ASSUME NEW t \in TradeIDs, NEW a \in Accounts, NEW b \in Accounts, Open(t, a, b)
      PROVE  ConsentOfParties'
  BY <1>1 DEF Open, TypeInv, TypeOK
<1>2. ASSUME NEW t \in TradeIDs, NEW a \in Accounts, Lock(t, a)
      PROVE  ConsentOfParties'
  <2>1. trade[t] \in Trade
    BY <1>2 DEF Lock, GetOpen, TypeInv, TypeOK, NoTrade
  <2> QED
    BY <2>1, <1>2 DEF Lock, GetOpen, TypeInv, TypeOK, Trade, NoTrade
<1>3. ASSUME NEW t \in TradeIDs, NEW a \in Accounts, Cancel(t, a)
      PROVE  ConsentOfParties'
  <2>1. trade[t] \in Trade
    BY <1>3 DEF Cancel, TypeInv, TypeOK
  <2> QED
    BY <2>1, <1>3 DEF Cancel, TypeInv, TypeOK, Trade
<1>4. ASSUME NEW t \in TradeIDs, Commit(t)
      PROVE  ConsentOfParties'
  <2>1. trade[t] \in Trade
    BY <1>4 DEF Commit, CanCommit, TypeInv, TypeOK, NoTrade
  <2>2. trade' = [trade EXCEPT ![t].state = "committed"]
    BY <1>4 DEF Commit
  <2>3. /\ trade'[t].init = trade[t].init /\ trade'[t].partner = trade[t].partner
        /\ trade'[t].locked = trade[t].locked /\ trade[t] # NoTrade
        /\ \A u \in TradeIDs \ {t} : trade'[u] = trade[u]
    BY <2>1, <2>2 DEF TypeInv, TypeOK, Trade, NoTrade
  <2> QED
    BY <2>3
<1>5. ASSUME NEW w \in Workers, StageFinish(w)
      PROVE  ConsentOfParties'
  <2>1. req[w] \in StageReq /\ trade[req[w].trade].state = "open"
    BY <1>5, ServingKind DEF TypeInv, StageFinish, Checked, StageHoldsTrade, GetOpen
  <2>2. req[w].trade \in TradeIDs /\ trade[req[w].trade] \in Trade
    BY <2>1 DEF StageReq, NoTrade, TypeInv, TypeOK
  <2> DEFINE t == req[w].trade
  <2>3. /\ trade'[t].init = trade[t].init /\ trade'[t].partner = trade[t].partner
        /\ \A x \in Accounts :
             trade'[t].locked[x] <=> x \notin Parties(t) /\ trade[t].locked[x]
        /\ \A u \in TradeIDs \ {t} : trade'[u] = trade[u]
    BY <2>2, <1>5 DEF StageFinish, TypeInv, TypeOK, Trade
  <2>4. trade[t] # NoTrade
    BY <2>1 DEF NoTrade
  <2> HIDE DEF t
  <2>5. \A x \in Accounts : ~trade'[t].locked[x]
    BY <2>2, <2>3, <2>4 DEF t
  <2> QED
    BY <2>2, <2>3, <2>4, <2>5
<1>6. CASE Restart
  BY <1>6 DEF Restart
<1>7. CASE UNCHANGED trade
  BY <1>7
<1>8. ASSUME NEW w \in Workers, WorkerBegins(w) \/ WorkerStep(w), ~StageFinish(w)
      PROVE  UNCHANGED trade
  BY <1>8 DEF WorkerBegins, WorkerStep, StageBegin, TeamBegin, EvolveRead, CheckPasses,
              CheckFails, RepoError, GiveUp, TeamFinish, EvolveWrite
<1>9. ASSUME NEW t \in TradeIDs, CommitAckLost(t)
      PROVE  UNCHANGED trade
  BY <1>9 DEF CommitAckLost
<1> QED
  BY <1>1, <1>2, <1>3, <1>4, <1>5, <1>6, <1>7, <1>8, <1>9 DEF Next, TradeStep, vars

(* What the deal of a trade is.                                            *)
TermsOf(r) == [a \in Accounts |-> Elems(r.offers[a])]

ConsentOf(r) == {a \in Accounts : r.locked[a]}

AsDeal(r) ==
  [state |-> r.state, parties |-> <<r.init, r.partner>>, terms |-> TermsOf(r),
   consent |-> ConsentOf(r)]

LEMMA DealIs ==
  ASSUME NEW t \in TradeIDs
  PROVE  /\ trade[t] \in Trade => Deals[t] = AsDeal(trade[t])
         /\ trade'[t] \in Trade => Deals'[t] = AsDeal(trade'[t])
BY DEF Deals, DealOf, AsDeal, TermsOf, ConsentOf, NoTrade, Trade

LEMMA DealHas ==
  ASSUME NEW t \in TradeIDs, trade[t] \in Trade
  PROVE  /\ Deals[t].state = trade[t].state
         /\ Deals[t].parties[1] = trade[t].init
         /\ Deals[t].parties[2] = trade[t].partner
<1>1. Deals[t] = AsDeal(trade[t])
  BY DealIs
<1> QED
  BY <1>1 DEF AsDeal

(* A step that changes one trade changes one deal.                         *)
LEMMA OneDeal ==
  ASSUME NEW t \in TradeIDs, NEW d,
         \A u \in TradeIDs \ {t} : trade'[u] = trade[u],
         Deals'[t] = d
  PROVE  Deals' = [Deals EXCEPT ![t] = d]
<1>1. \A u \in TradeIDs \ {t} : Deals'[u] = Deals[u]
  BY DEF Deals, DealOf
<1> QED
  BY <1>1 DEF Deals

LEMMA OpenMaps ==
  ASSUME TypeInv, NEW t \in TradeIDs, NEW a \in Accounts, NEW b \in Accounts, Open(t, a, b)
  PROVE  Promise!Propose(t, a, b)
<1> DEFINE new == [state |-> "open", init |-> a, partner |-> b, offers |-> NoOffers,
                   locked |-> [x \in Accounts |-> FALSE]]
           d == [state |-> "open", parties |-> <<a, b>>,
                 terms |-> [x \in Accounts |-> {}], consent |-> {}]
<1>1. /\ trade[t] = NoTrade /\ trade'[t] = new /\ UNCHANGED creatures
      /\ \A u \in TradeIDs \ {t} : trade'[u] = trade[u]
  BY DEF Open, TypeInv, TypeOK
<1>2. Deals[t] = [state |-> "none"]
  BY <1>1 DEF Deals, DealOf, NoTrade
<1>3. Deals'[t] = d
  <2>1. Deals'[t] = AsDeal(trade'[t])
    <3>1. new \in Trade
      BY DEF Trade, NoOffers, Offers
    <3> QED
      BY <1>1, <3>1, DealIs
  <2>2. \A x \in Accounts : Elems(NoOffers[x]) = {}
    BY DEF NoOffers, Elems
  <2>3. AsDeal(new) = d
    BY <2>2 DEF AsDeal, TermsOf, ConsentOf
  <2> QED
    BY <1>1, <2>1, <2>3
<1>4. Deals' = [Deals EXCEPT ![t] = d]
  <2> HIDE DEF d
  <2> QED
    BY <1>1, <1>3, OneDeal
<1> QED
  BY <1>1, <1>2, <1>4 DEF Promise!Propose, Promise!NoDeal, Deals, Owners

LEMMA LockMaps ==
  ASSUME TypeInv, NEW t \in TradeIDs, NEW a \in Accounts, Lock(t, a)
  PROVE  Promise!Agree(t, a)
<1>1. trade[t] \in Trade /\ trade[t].state = "open" /\ a \in Parties(t) /\ UNCHANGED creatures
  BY DEF Lock, GetOpen, TypeInv, TypeOK, NoTrade
<1>2. /\ trade'[t] = [trade[t] EXCEPT !.locked[a] = TRUE]
      /\ \A u \in TradeIDs \ {t} : trade'[u] = trade[u]
  BY DEF Lock, TypeInv, TypeOK
<1>3. trade'[t] \in Trade
  BY <1>1, <1>2 DEF Trade
<1>4. Deals'[t] = [Deals[t] EXCEPT !.consent = @ \cup {a}]
  <2>1. Deals'[t] = AsDeal(trade'[t])
    BY <1>3, DealIs
  <2>2. /\ trade'[t].state = trade[t].state /\ trade'[t].init = trade[t].init
        /\ trade'[t].partner = trade[t].partner /\ trade'[t].offers = trade[t].offers
        /\ trade'[t].locked = [trade[t].locked EXCEPT ![a] = TRUE]
        /\ trade[t].locked \in [Accounts -> BOOLEAN]
    BY <1>1, <1>2 DEF Trade
  <2>3. ConsentOf(trade'[t]) = ConsentOf(trade[t]) \cup {a}
    BY <2>2 DEF ConsentOf
  <2>4. TermsOf(trade'[t]) = TermsOf(trade[t])
    BY <2>2 DEF TermsOf
  <2> QED
    <3>1. Deals[t] = AsDeal(trade[t])
      BY <1>1, DealIs
    <3>2. AsDeal(trade'[t]) = [AsDeal(trade[t]) EXCEPT !.consent = @ \cup {a}]
      <4>1. AsDeal(trade[t]).consent = ConsentOf(trade[t])
        BY DEF AsDeal
      <4>2. AsDeal(trade'[t]) = [AsDeal(trade[t]) EXCEPT !.consent = ConsentOf(trade'[t])]
        BY <2>2, <2>4 DEF AsDeal
      <4> QED
        BY <2>3, <4>1, <4>2
    <3> QED
      BY <2>1, <3>1, <3>2
<1>5. Deals' = [Deals EXCEPT ![t].consent = @ \cup {a}]
  BY <1>2, <1>4, OneDeal
<1>6. Deals[t].state = "open" /\ (a = Deals[t].parties[1] \/ a = Deals[t].parties[2])
  BY <1>1, DealHas DEF Parties
<1> QED
  BY <1>1, <1>5, <1>6 DEF Promise!Agree, Promise!OnTable, Promise!Party, Deals, Owners

LEMMA CancelMaps ==
  ASSUME TypeInv, NEW t \in TradeIDs, NEW a \in Accounts, Cancel(t, a)
  PROVE  Promise!Void(t)
<1>1. trade[t] \in Trade /\ trade[t].state # "committed" /\ UNCHANGED creatures
  BY DEF Cancel, TypeInv, TypeOK
<1>2. /\ trade'[t] = [trade[t] EXCEPT !.state = "cancelled"]
      /\ \A u \in TradeIDs \ {t} : trade'[u] = trade[u]
  BY DEF Cancel, TypeInv, TypeOK
<1>3. trade'[t] \in Trade
  BY <1>1, <1>2 DEF Trade
<1>4. Deals'[t] = [Deals[t] EXCEPT !.state = "cancelled"]
  <2>1. Deals'[t] = AsDeal(trade'[t])
    BY <1>3, DealIs
  <2>2. /\ trade'[t].state = "cancelled" /\ trade'[t].init = trade[t].init
        /\ trade'[t].partner = trade[t].partner /\ trade'[t].offers = trade[t].offers
        /\ trade'[t].locked = trade[t].locked
    BY <1>1, <1>2 DEF Trade
  <2> QED
    <3>1. Deals[t] = AsDeal(trade[t])
      BY <1>1, DealIs
    <3>2. AsDeal(trade'[t]) = [AsDeal(trade[t]) EXCEPT !.state = "cancelled"]
      <4>1. TermsOf(trade'[t]) = TermsOf(trade[t]) /\ ConsentOf(trade'[t]) = ConsentOf(trade[t])
        BY <2>2 DEF TermsOf, ConsentOf
      <4> QED
        BY <2>2, <4>1 DEF AsDeal
    <3> QED
      BY <2>1, <3>1, <3>2
<1>5. Deals' = [Deals EXCEPT ![t].state = "cancelled"]
  BY <1>2, <1>4, OneDeal
<1>6. Deals[t].state \in {"open", "cancelled"}
  BY <1>1, DealHas DEF Trade
<1> QED
  BY <1>1, <1>5, <1>6 DEF Promise!Void, Deals, Owners

(* The batch that Postgres accepts settles the deal.                       *)
LEMMA CommitMaps ==
  ASSUME Backend = "postgres", TypeInv, NEW t \in TradeIDs, Commit(t)
  PROVE  Promise!Settle(t)
<1> DEFINE a == trade[t].init
           b == trade[t].partner
           A == Elems(trade[t].offers[a])
           B == Elems(trade[t].offers[b])
<1>1. /\ trade[t].state = "open" /\ trade[t] \in Trade
      /\ trade[t].locked[a] /\ trade[t].locked[b]
      /\ creatures \in [Creatures -> OwnedCreature]
      /\ PGBatchOK(creatures, Transfers(t))
      /\ creatures' = ApplyBatch(creatures, Transfers(t))
  BY DEF Commit, CanCommit, BothLocked, BatchOK, TypeInv, TypeOK, NoTrade
<1>2. a \in Accounts /\ b \in Accounts /\ A \subseteq Creatures /\ B \subseteq Creatures
  <2>1. a \in Accounts /\ b \in Accounts
    BY <1>1 DEF Trade
  <2>2. trade[t].offers[a] \in Seq(Creatures) /\ trade[t].offers[b] \in Seq(Creatures)
    BY <1>1, <2>1 DEF Trade, Offers
  <2> QED
    BY <2>1, <2>2, ElementOfSeq DEF Elems
<1>3. \A c \in Creatures :
        /\ c \in A \ B => creatures[c].owner = a /\ creatures'[c].owner = b
        /\ c \in B \ A => creatures[c].owner = b /\ creatures'[c].owner = a
        /\ c \notin (A \ B) \cup (B \ A) => creatures'[c].owner = creatures[c].owner
  BY <1>1, SettledOwners
<1>4. /\ trade'[t] = [trade[t] EXCEPT !.state = "committed"]
      /\ \A u \in TradeIDs \ {t} : trade'[u] = trade[u]
  BY DEF Commit, TypeInv, TypeOK
<1>5. trade'[t] \in Trade
  BY <1>1, <1>4 DEF Trade
<1>6. Deals'[t] = [Deals[t] EXCEPT !.state = "committed"]
  <2>1. Deals'[t] = AsDeal(trade'[t])
    BY <1>5, DealIs
  <2>2. /\ trade'[t].state = "committed" /\ trade'[t].init = trade[t].init
        /\ trade'[t].partner = trade[t].partner /\ trade'[t].offers = trade[t].offers
        /\ trade'[t].locked = trade[t].locked
    BY <1>1, <1>4 DEF Trade
  <2> QED
    <3>1. Deals[t] = AsDeal(trade[t])
      BY <1>1, DealIs
    <3>2. AsDeal(trade'[t]) = [AsDeal(trade[t]) EXCEPT !.state = "committed"]
      <4>1. TermsOf(trade'[t]) = TermsOf(trade[t]) /\ ConsentOf(trade'[t]) = ConsentOf(trade[t])
        BY <2>2 DEF TermsOf, ConsentOf
      <4> QED
        BY <2>2, <4>1 DEF AsDeal
    <3> QED
      BY <2>1, <3>1, <3>2
<1>7. Deals' = [Deals EXCEPT ![t].state = "committed"]
  BY <1>4, <1>6, OneDeal
<1>8. /\ Deals[t].state = "open" /\ Deals[t].parties[1] = a /\ Deals[t].parties[2] = b
      /\ {a, b} \subseteq Deals[t].consent
      /\ Deals[t].terms[a] = A /\ Deals[t].terms[b] = B
  <2>1. Deals[t] = AsDeal(trade[t])
    BY <1>1, DealIs
  <2>2. TermsOf(trade[t])[a] = A /\ TermsOf(trade[t])[b] = B
    BY <1>2 DEF TermsOf
  <2>3. {a, b} \subseteq ConsentOf(trade[t])
    BY <1>1, <1>2 DEF ConsentOf
  <2> QED
    BY <1>1, <2>1, <2>2, <2>3 DEF AsDeal
<1> HIDE DEF a, b, A, B
<1>9. Owners' = [c \in Creatures |-> CASE c \in A \ B -> b [] c \in B \ A -> a
                                       [] OTHER -> Owners[c]]
  BY <1>3 DEF Owners
<1>10. A \ B \subseteq {c \in Creatures : Owners[c] = a}
       /\ B \ A \subseteq {c \in Creatures : Owners[c] = b}
  BY <1>2, <1>3 DEF Owners
<1> QED
  BY <1>7, <1>8, <1>9, <1>10
     DEF Promise!Settle, Promise!OnTable, Promise!Owned, Deals, Owners

(* The deals of two trades of the same parties.                            *)
LEMMA RevisedDeal ==
  ASSUME NEW r, NEW q, q.state = r.state, q.init = r.init, q.partner = r.partner
  PROVE  AsDeal(q) = [AsDeal(r) EXCEPT !.terms = TermsOf(q), !.consent = ConsentOf(q)]
<1> DEFINE d == AsDeal(r)
           e == AsDeal(q)
           f == [d EXCEPT !.terms = TermsOf(q), !.consent = ConsentOf(q)]
           Fields == {"state", "parties", "terms", "consent"}
<1>1. DOMAIN d = Fields /\ d = [x \in Fields |-> d[x]]
  BY DEF AsDeal
<1>2. e = [x \in Fields |-> e[x]]
  BY DEF AsDeal
<1>3. /\ e["state"] = d["state"] /\ e["parties"] = d["parties"]
      /\ e["terms"] = TermsOf(q) /\ e["consent"] = ConsentOf(q)
  BY DEF AsDeal
<1> HIDE DEF d, e
<1>4. f = [x \in Fields |-> IF x = "consent" THEN ConsentOf(q)
                            ELSE IF x = "terms" THEN TermsOf(q) ELSE d[x]]
  BY <1>1
<1> HIDE DEF f
<1>5. e = f
  BY <1>2, <1>3, <1>4
<1> QED
  BY <1>5 DEF d, e, f

(* The offer that Stage stores is new terms, of creatures that are owned.  *)
LEMMA StageMaps ==
  ASSUME TypeInv, TypeInv', StageStaysValid, ConsentOfParties, NEW w \in Workers, StageFinish(w)
  PROVE  \E t \in TradeIDs, x \in Accounts, S \in SUBSET Creatures : Promise!Revise(t, x, S)
<1> DEFINE t == req[w].trade
           x == req[w].acct
           ids == req[w].ids
           S == Elems(ids)
<1>1. /\ req[w] \in StageReq /\ Serving(w, "stage") /\ req[w].k > Len(ids)
      /\ GetOpen(t, x)
  BY ServingKind DEF TypeInv, StageFinish, Checked, StageHoldsTrade
<1>2. /\ t \in TradeIDs /\ x \in Accounts /\ ids \in Seq(Creatures) /\ req[w].k \in Nat
  BY <1>1, ProfileAssumption DEF StageReq
<1>3. trade[t] \in Trade /\ trade[t].state = "open" /\ x \in Parties(t)
  BY <1>1, <1>2 DEF GetOpen, NoTrade, TypeInv, TypeOK
<1>4. \A i \in DOMAIN ids : creatures[ids[i]].owner = x /\ ids[i] \in Creatures
  <2>1. \A i \in DOMAIN ids : i < req[w].k
    BY <1>1, <1>2
  <2>2. \A i \in DOMAIN ids : creatures[ids[i]].owner = x
    BY <1>1, <2>1 DEF StageStaysValid, StageOwnsChecked
  <2> QED
    BY <1>2, <2>2, ElementOfSeq
<1>5. S \in SUBSET Creatures /\ S \subseteq {c \in Creatures : Owners[c] = x}
  BY <1>4 DEF Elems, Owners
<1>6. /\ trade'[t] = [trade[t] EXCEPT !.offers[x] = ids,
                        !.locked = [y \in Accounts |-> y \notin Parties(t) /\ trade[t].locked[y]]]
      /\ \A u \in TradeIDs \ {t} : trade'[u] = trade[u]
      /\ UNCHANGED creatures
  BY <1>2 DEF StageFinish, TypeInv, TypeOK
<1> HIDE DEF t, x, ids, S
<1>7. /\ trade'[t].state = "open" /\ trade'[t].init = trade[t].init
      /\ trade'[t].partner = trade[t].partner
      /\ trade'[t].offers = [trade[t].offers EXCEPT ![x] = ids]
      /\ \A y \in Accounts : ~trade'[t].locked[y]
  <2>1. \A y \in Accounts : y \notin Parties(t) => ~trade[t].locked[y]
    BY <1>2, <1>3 DEF ConsentOfParties, NoTrade
  <2>2. trade'[t].locked = [y \in Accounts |-> y \notin Parties(t) /\ trade[t].locked[y]]
    BY <1>3, <1>6 DEF Trade
  <2>3. \A y \in Accounts : ~trade'[t].locked[y]
    BY <2>1, <2>2
  <2> QED
    BY <1>2, <1>3, <1>6, <2>3 DEF Trade
<1>8. Deals'[t] = AsDeal(trade'[t])
  <2>1. trade'[t] \in Trade
    BY <1>2, <1>7 DEF TypeInv, TypeOK, NoTrade
  <2> QED
    BY <1>2, <2>1, DealIs
<1>9. Deals'[t] = [Deals[t] EXCEPT !.terms[x] = S, !.consent = {}]
  <2>1. ConsentOf(trade'[t]) = {}
    BY <1>7 DEF ConsentOf
  <2>2. TermsOf(trade'[t]) = [TermsOf(trade[t]) EXCEPT ![x] = S]
    BY <1>2, <1>3, <1>7 DEF Trade, Offers, S, TermsOf
  <2> QED
    <3>1. Deals[t] = AsDeal(trade[t])
      BY <1>2, <1>3, DealIs
    <3>2. AsDeal(trade'[t]) = [AsDeal(trade[t]) EXCEPT !.terms[x] = S, !.consent = {}]
      <4>1. /\ AsDeal(trade[t]).terms = TermsOf(trade[t])
            /\ DOMAIN AsDeal(trade[t]) = {"state", "parties", "terms", "consent"}
        BY DEF AsDeal
      <4>2. AsDeal(trade'[t]) = [AsDeal(trade[t]) EXCEPT !.terms = TermsOf(trade'[t]),
                                                         !.consent = ConsentOf(trade'[t])]
        <5>1. /\ trade'[t].state = trade[t].state /\ trade'[t].init = trade[t].init
              /\ trade'[t].partner = trade[t].partner
          BY <1>3, <1>7
        <5> QED
          BY <5>1, RevisedDeal
      <4>3. [AsDeal(trade[t]) EXCEPT !.terms[x] = S, !.consent = {}]
              = [AsDeal(trade[t]) EXCEPT !.terms = [TermsOf(trade[t]) EXCEPT ![x] = S],
                                         !.consent = {}]
        BY <4>1
      <4> QED
        BY <2>1, <2>2, <4>2, <4>3
    <3> QED
      BY <1>8, <3>1, <3>2
<1>10. Deals' = [Deals EXCEPT ![t].terms[x] = S, ![t].consent = {}]
  <2>1. Deals' = [Deals EXCEPT ![t] = [Deals[t] EXCEPT !.terms[x] = S, !.consent = {}]]
    BY <1>2, <1>6, <1>9, OneDeal
  <2> QED
    BY <2>1
<1>11. Deals[t].state = "open" /\ (x = Deals[t].parties[1] \/ x = Deals[t].parties[2])
  BY <1>2, <1>3, DealHas DEF Parties
<1>12. Promise!Revise(t, x, S)
  BY <1>5, <1>6, <1>10, <1>11
     DEF Promise!Revise, Promise!OnTable, Promise!Party, Promise!Owned, Deals, Owners
<1> QED
  BY <1>2, <1>5, <1>12

(* Trading as implemented, with its requests, locks, id lists, failing     *)
(* calls and restarts, keeps the promises of Escrow: on Postgres, while a  *)
(* committed transaction reports success.                                  *)
THEOREM TradingImplementsEscrow ==
  ASSUME Backend = "postgres", AckLoss = FALSE
  PROVE  Spec => ImplementsEscrow
<1>1. Init => ConsentOfParties
  BY DEF Init, ConsentOfParties
<1>2. TypeInv /\ ConsentOfParties /\ [Next]_vars => ConsentOfParties'
  BY ConsentStep
<1>3. Init => Promise!Init
  BY DEF Init, Promise!Init, Promise!NoDeal, DealOf, NoTrade, OwnedCreature
<1>4. TypeInv /\ TypeInv' /\ StageStaysValid /\ ConsentOfParties /\ [Next]_vars
        => [Promise!Next]_<<Owners, Deals>>
  <2> SUFFICES ASSUME TypeInv, TypeInv', StageStaysValid, ConsentOfParties, [Next]_vars
               PROVE  Promise!Next \/ UNCHANGED <<Owners, Deals>>
    OBVIOUS
  <2>1. ASSUME NEW t \in TradeIDs, TradeStep(t) PROVE Promise!Next
    BY <2>1, OpenMaps, LockMaps, CancelMaps, CommitMaps
       DEF TradeStep, CommitAckLost, Promise!Next
  <2>2. ASSUME NEW w \in Workers, StageFinish(w) PROVE Promise!Next
    BY <2>2, StageMaps DEF Promise!Next
  <2>3. CASE UNCHANGED <<creatures, trade>>
    BY <2>3 DEF Owners, Deals, DealOf
  <2>4. ASSUME NEW w \in Workers, EvolveWrite(w) PROVE UNCHANGED <<Owners, Deals>>
    <3>1. UNCHANGED trade /\ \A c \in Creatures : creatures'[c].owner = creatures[c].owner
      <4>1. req[w] \in EvolveReq
        BY <2>4, ServingKind DEF EvolveWrite, TypeInv
      <4> QED
        BY <2>4, <4>1 DEF EvolveWrite, EvolveReq, UpdateCreature, OwnedCreature, TypeInv, TypeOK
    <3> QED
      BY <3>1 DEF Owners, Deals, DealOf
  <2>5. ASSUME NEW w \in Workers, WorkerBegins(w) \/ WorkerStep(w),
               ~StageFinish(w), ~EvolveWrite(w)
        PROVE  UNCHANGED <<creatures, trade>>
    BY <2>5 DEF WorkerBegins, WorkerStep, StageBegin, TeamBegin, EvolveRead, CheckPasses,
                CheckFails, RepoError, GiveUp, TeamFinish
  <2>6. Restart => Promise!Next
    <3>1. Restart => Deals' = [t \in TradeIDs |-> NoTrade] /\ UNCHANGED Owners
      BY DEF Restart, Deals, DealOf, Owners
    <3> QED
      BY <3>1 DEF Promise!Next, Promise!Forget, Promise!NoDeal, NoTrade, Deals, Owners
  <2> QED
    BY <2>1, <2>2, <2>3, <2>4, <2>5, <2>6 DEF Next, vars
<1> QED
  BY <1>1, <1>2, <1>3, <1>4, InductiveType, StagedIsOwned, PTL
     DEF Spec, ImplementsEscrow, Promise!Spec, Owners, Deals
=============================================================================
