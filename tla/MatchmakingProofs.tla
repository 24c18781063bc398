------------------------- MODULE MatchmakingProofs -------------------------
(***************************************************************************)
(* Theorems about Matchmaking, for any snapshot of the queue, any policy   *)
(* and any order in which tickets of equal rating and groups come.         *)
(***************************************************************************)
EXTENDS Matchmaking, FiniteSetTheorems, TLAPS

(* The group is sorted, without repetition, and the whole of its region;   *)
(* used only has tickets of it.                                            *)
GroupOf(k) ==
  /\ k \in Regions /\ k \notin keys
  /\ ToSet(group) = Members(k)
  /\ i \in 1 .. Len(group) + 1
  /\ used \subseteq ToSet(group)

GroupOK ==
  /\ \A m, n \in DOMAIN group : m # n => group[m] # group[n]
  /\ \A m, n \in DOMAIN group : m < n => pool[group[m]].mmr <= pool[group[n]].mmr
  /\ group # <<>> => \E k : GroupOf(k)

(* A pair that Pair may match.                                             *)
Fair(m) ==
  \E s, t \in Tickets :
    s # t /\ m = {s, t} /\ pool[s].region = pool[t].region /\ Acceptable(s, t)

Matched == UNION matches

(* Where a ticket is: waiting for its group, in the group, matched or left.*)
Placed(t) ==
  /\ t \in Matched => t \notin leftover /\ pool[t].region \notin keys
  /\ t \in leftover => pool[t].region \notin keys
  /\ t \in ToSet(group) => t \notin leftover /\ (t \in used <=> t \in Matched)
  /\ pool[t].region \notin keys /\ t \notin ToSet(group) => t \in leftover \cup Matched

PlacesOK ==
  /\ \A m \in matches : Fair(m)
  /\ \A m, n \in matches : m = n \/ m \cap n = {}
  /\ \A t \in Tickets : Placed(t)

(* Whoever the loop has passed without a match could not have been matched *)
(* with anyone unmatched further up, or not without passing over somebody. *)
ScanOK ==
  group # <<>> =>
    \A p, q \in DOMAIN group :
      p < i /\ p < q /\ group[p] \notin used /\ group[q] \notin used =>
        (Acceptable(group[p], group[q]) => Hidden(group[p], group[q]))

OutOfReach(s, t) ==
  /\ s # t
  /\ pool[s].region = pool[t].region /\ pool[s].mmr <= pool[t].mmr
  /\ Acceptable(s, t)
  => Hidden(s, t)

LeftOK == \A s, t \in leftover : OutOfReach(s, t)

PairInv == TypeOK /\ GroupOK /\ PlacesOK /\ ScanOK /\ LeftOK

-----------------------------------------------------------------------------
(* Numbers.                                                                *)

LEMMA Least ==
  ASSUME NEW T, T \subseteq Nat, T # {}
  PROVE  \E n \in T : \A m \in T : n <= m
<1>1. PICK n \in T : \A m \in T : ~(<<m, n>> \in OpToRel(<, Nat))
  BY WFMin, NatLessThanWellFounded
<1>2. ASSUME NEW m \in T, m < n PROVE FALSE
  <2>1. <<m, n>> \in Nat \X Nat /\ <<m, n>>[1] < <<m, n>>[2]
    BY <1>2
  <2>2. <<m, n>> \in OpToRel(<, Nat)
    BY <2>1 DEF OpToRel
  <2> QED
    BY <1>1, <2>2
<1> QED
  BY <1>2

LEMMA MinOfTwo ==
  ASSUME NEW a \in Int, NEW b \in Int
  PROVE  Min({a, b}) \in {a, b}
<1>1. \E x \in {a, b} : \A y \in {a, b} : x <= y
  BY DEF Min
<1> QED
  BY <1>1 DEF Min

LEMMA BandIsNat ==
  ASSUME MatchmakingAssumption, TypeOK, NEW t \in Tickets
  PROVE  Band(t) \in Nat
<1>1. /\ pool[t].wait \in Nat /\ pool[t].rd \in Nat
      /\ BaseBand \in Nat /\ WidenPerSec \in Nat /\ MaxBand \in Nat
  BY DEF MatchmakingAssumption, TypeOK, Ticket
<1> DEFINE w == pool[t].wait * WidenPerSec
           rd == pool[t].rd
<1>2. BaseBand + w + rd \in Nat
  <2>1. w \in Nat /\ rd \in Nat
    BY <1>1
  <2> HIDE DEF w, rd
  <2> QED
    BY <1>1, <2>1
<1> QED
  BY <1>1, <1>2, MinOfTwo DEF Band

LEMMA Gaps ==
  ASSUME MatchmakingAssumption, TypeOK, NEW s \in Tickets, NEW t \in Tickets
  PROVE  /\ pool[s].mmr \in Int
         /\ Gap(s, t) \in Nat /\ Gap(s, t) = Gap(t, s)
         /\ pool[s].mmr <= pool[t].mmr => Gap(s, t) = pool[t].mmr - pool[s].mmr
<1> DEFINE a == pool[s].mmr
           b == pool[t].mmr
<1>1. a \in Int /\ b \in Int
  BY DEF MatchmakingAssumption, TypeOK, Ticket
<1>2. /\ Gap(s, t) = IF a < b THEN b - a ELSE a - b
      /\ Gap(t, s) = IF b < a THEN a - b ELSE b - a
  BY DEF Gap
<1> HIDE DEF a, b
<1>3. /\ Gap(s, t) \in Nat /\ Gap(s, t) = Gap(t, s)
      /\ a <= b => Gap(s, t) = b - a
  BY <1>1, <1>2
<1> QED
  BY <1>1, <1>3 DEF a, b

(* Players of equal rating could be matched.                               *)
LEMMA EqualsAreAcceptable ==
  ASSUME MatchmakingAssumption, TypeOK, NEW s \in Tickets, NEW t \in Tickets,
         pool[s].mmr = pool[t].mmr
  PROVE  Acceptable(s, t)
<1>1. pool[s].mmr \in Int /\ pool[t].mmr \in Int
  BY Gaps
<1>2. Gap(s, t) = 0
  BY <1>1, Gaps
<1>3. Band(s) \in Nat
  BY BandIsNat
<1> QED
  BY <1>2, <1>3 DEF Acceptable, TooFar

LEMMA AcceptableBothWays ==
  ASSUME MatchmakingAssumption, TypeOK, NEW s \in Tickets, NEW t \in Tickets,
         Acceptable(s, t)
  PROVE  Acceptable(t, s)
BY Gaps DEF Acceptable, TooFar

-----------------------------------------------------------------------------
(* The loop.                                                               *)

LEMMA Positions ==
  ASSUME TypeOK, NEW j \in Visited, Scanning
  PROVE  /\ i \in DOMAIN group /\ j \in DOMAIN group /\ i < j /\ i \in Nat /\ j \in Nat
         /\ group[i] \in Tickets /\ group[j] \in Tickets /\ group[j] \notin used
BY DEF TypeOK, Scanning, Visited

(* There is a best candidate when there is one at all.                     *)
LEMMA BestIsCandidate ==
  ASSUME MatchmakingAssumption, TypeOK, Scanning, Candidates # {}
  PROVE  Best \in Candidates
<1> DEFINE gap(j) == Gap(group[i], group[j])
           G == {gap(j) : j \in Candidates}
<1>1. \A j \in Candidates : gap(j) \in Nat /\ j \in Nat
  BY Positions, Gaps DEF Candidates
<1>2. PICK g \in G : \A h \in G : g <= h
  <2>1. G \subseteq Nat /\ G # {}
    BY <1>1
  <2> QED
    BY <2>1, Least
<1> DEFINE J == {j \in Candidates : gap(j) = g}
<1>3. PICK j \in J : \A k \in J : j <= k
  <2>1. J \subseteq Nat /\ J # {}
    BY <1>1, <1>2
  <2> HIDE DEF J
  <2> QED
    BY <2>1, Least
<1>4. \A k \in Candidates : gap(j) < gap(k) \/ (gap(j) = gap(k) /\ j <= k)
  <2> SUFFICES ASSUME NEW k \in Candidates
               PROVE  gap(j) < gap(k) \/ (gap(j) = gap(k) /\ j <= k)
    OBVIOUS
  <2>1. gap(j) = g /\ g <= gap(k) /\ gap(k) \in Nat /\ g \in Nat
    BY <1>1, <1>2, <1>3
  <2>2. gap(k) = g => j <= k
    BY <1>3
  <2> HIDE DEF gap
  <2> QED
    BY <2>1, <2>2
<1>5. j \in Candidates
  BY <1>3
<1> QED
  BY <1>4, <1>5 DEF Best

(* When the loop finds nobody, the first unmatched one further up is not   *)
(* acceptable, and the others are hidden behind it.                        *)
LEMMA NobodyFurtherUp ==
  ASSUME MatchmakingAssumption, TypeOK, GroupOK, Scanning, Candidates = {},
         NEW q \in DOMAIN group, i < q, group[q] \notin used,
         Acceptable(group[i], group[q])
  PROVE  Hidden(group[i], group[q])
<1> DEFINE J == {j \in DOMAIN group : i < j /\ group[j] \notin used}
<1>1. /\ DOMAIN group = 1 .. Len(group) /\ Len(group) \in Nat
      /\ i \in DOMAIN group /\ i \in Nat
      /\ \A p \in DOMAIN group : group[p] \in Tickets
  BY DEF TypeOK, Scanning
<1>2. PICK j \in J : \A k \in J : j <= k
  <2>1. J \subseteq Nat /\ J # {}
    BY <1>1
  <2> HIDE DEF J
  <2> QED
    BY <2>1, Least
<1>3. j \in Visited
  <2>1. \A k \in i + 1 .. j - 1 : group[k] \in used
    <3> SUFFICES ASSUME NEW k \in i + 1 .. j - 1, group[k] \notin used
                 PROVE  FALSE
      OBVIOUS
    <3>1. k \in J /\ j \in Nat /\ k < j
      BY <1>1, <1>2
    <3> QED
      BY <1>2, <3>1
  <2>2. j \in i + 1 .. Len(group) /\ group[j] \notin used
    BY <1>1, <1>2
  <2> QED
    BY <2>1, <2>2 DEF Visited
<1>4. ~Acceptable(group[i], group[j])
  BY <1>3 DEF Candidates
<1>5. group[i] \in Tickets /\ group[j] \in Tickets /\ group[q] \in Tickets /\ j \in DOMAIN group
  BY <1>1, <1>2
<1>6. i < j /\ j < q
  <2>1. j <= q /\ i < j /\ j \in Nat /\ q \in Nat
    BY <1>1, <1>2
  <2>2. j # q
    BY <1>4
  <2> QED
    BY <2>1, <2>2
<1>7. /\ pool[group[i]].mmr <= pool[group[j]].mmr
      /\ pool[group[j]].mmr <= pool[group[q]].mmr
      /\ group[j] # group[i] /\ group[j] # group[q]
  BY <1>1, <1>5, <1>6 DEF GroupOK
<1>8. pool[group[j]].region = pool[group[i]].region
  <2>1. PICK k : ToSet(group) = Members(k)
    BY <1>1 DEF GroupOK, GroupOf
  <2>2. group[i] \in ToSet(group) /\ group[j] \in ToSet(group)
    BY <1>1, <1>5 DEF ToSet
  <2> QED
    BY <2>1, <2>2 DEF Members
<1> QED
  BY <1>4, <1>5, <1>7, <1>8 DEF Hidden, Between

-----------------------------------------------------------------------------
(* The groups.                                                             *)

(* Sorting gives every member of the region a place of its own.            *)
LEMMA SortedGroup ==
  ASSUME MatchmakingAssumption, NEW k, NEW q \in Sorted(Members(k))
  PROVE  /\ q \in Seq(Tickets) /\ ToSet(q) = Members(k)
         /\ \A m, n \in DOMAIN q : m # n => q[m] # q[n]
         /\ \A m, n \in DOMAIN q : m < n => pool[q[m]].mmr <= pool[q[n]].mmr
<1> DEFINE S == Members(k)
           c == Cardinality(S)
<1>1. IsFiniteSet(S) /\ S \subseteq Tickets
  BY FS_Subset DEF MatchmakingAssumption, Members
<1>2. c \in Nat
  BY <1>1, FS_CardinalityType
<1>3. /\ q \in [1 .. c -> S]
      /\ \A m, n \in 1 .. c : m # n => q[m] # q[n]
      /\ \A m, n \in DOMAIN q : m < n => pool[q[m]].mmr <= pool[q[n]].mmr
  BY DEF Sorted, SetToSeqs
<1> HIDE DEF c, S
<1>4. IsFiniteSet(1 .. c) /\ Cardinality(1 .. c) = c
  <2>1. 1 \in Int /\ c \in Int /\ (IF 1 > c THEN 0 ELSE c - 1 + 1) = c
    BY <1>2
  <2> QED
    BY <2>1, FS_Interval, Zenon
<1>5. q \in Injection(1 .. c, S)
  BY <1>3 DEF Injection, IsInjective
<1>6. q \in Surjection(1 .. c, S)
  BY <1>1, <1>4, <1>5, FS_Injection DEF c
<1>7. \A t \in S : \E m \in 1 .. c : q[m] = t
  BY <1>6 DEF Surjection
<1>8. q \in Seq(Tickets) /\ DOMAIN q = 1 .. c
  BY <1>1, <1>2, <1>3
<1>9. ToSet(q) = S
  BY <1>3, <1>7, <1>8 DEF ToSet
<1> QED
  BY <1>3, <1>8, <1>9 DEF S

(* What is said of tickets stays true as long as the snapshot is the same. *)
LEMMA SamePool ==
  ASSUME UNCHANGED pool, NEW s, NEW t
  PROVE  /\ Acceptable(s, t)' <=> Acceptable(s, t)
         /\ Hidden(s, t)' <=> Hidden(s, t)
         /\ OutOfReach(s, t)' <=> OutOfReach(s, t)
<1>1. \A a, b : Acceptable(a, b)' <=> Acceptable(a, b)
  BY DEF Acceptable, TooFar, TimedOut, Gap, Band
<1>2. Between(s, t)' = Between(s, t)
  BY DEF Between
<1>3. Hidden(s, t)' <=> Hidden(s, t)
  BY <1>1, <1>2 DEF Hidden
<1> QED
  BY <1>1, <1>3 DEF OutOfReach

LEMMA InitInv ==
  ASSUME MatchmakingAssumption, Init
  PROVE  PairInv
<1>1. TypeOK
  BY DEF Init, TypeOK
<1>2. GroupOK /\ ScanOK /\ LeftOK
  BY DEF Init, GroupOK, ScanOK, LeftOK
<1>3. \A t \in Tickets : pool[t].region \in keys
  BY DEF Init, Members, Ticket
<1>4. PlacesOK
  BY <1>3 DEF Init, PlacesOK, Placed, Matched, ToSet
<1> QED
  BY <1>1, <1>2, <1>4 DEF PairInv

(* What does not change is as it was.                                      *)
LEMMA StartInv ==
  ASSUME MatchmakingAssumption, PairInv, NEW k \in Regions, StartGroup(k)
  PROVE  PairInv'
<1>1. /\ group = <<>> /\ k \in keys /\ keys' = keys \ {k} /\ i' = 1 /\ used' = {}
      /\ pool' = pool /\ matches' = matches /\ leftover' = leftover
      /\ group' \in Sorted(Members(k))
  BY DEF StartGroup
<1>2. /\ group' \in Seq(Tickets) /\ ToSet(group') = Members(k)
      /\ \A m, n \in DOMAIN group' : m # n => group'[m] # group'[n]
      /\ \A m, n \in DOMAIN group' : m < n => pool[group'[m]].mmr <= pool[group'[n]].mmr
  BY <1>1, SortedGroup
<1>3. Len(group') \in Nat /\ i' \in 1 .. Len(group') + 1
  BY <1>1, <1>2
<1>4. TypeOK'
  BY <1>1, <1>2, <1>3 DEF PairInv, TypeOK
<1>5. GroupOK'
  BY <1>1, <1>2, <1>3 DEF GroupOK, GroupOf, Members, ToSet
<1>6. ScanOK'
  BY <1>1, <1>2, <1>3 DEF ScanOK
<1>7. LeftOK'
  BY <1>1, SamePool DEF PairInv, LeftOK
<1>8. PlacesOK'
  <2>1. Matched' = Matched
    BY <1>1 DEF Matched
  <2>2. ASSUME NEW t \in Tickets PROVE Placed(t)'
    <3>1. t \notin ToSet(group)
      BY <1>1 DEF ToSet
    <3>2. t \in ToSet(group') <=> pool[t].region = k
      BY <1>2 DEF Members
    <3>3. Placed(t)
      BY DEF PairInv, PlacesOK
    <3>4. ToSet(group') = ToSet(group)'
      BY DEF ToSet
    <3> QED
      BY <1>1, <2>1, <3>1, <3>2, <3>3, <3>4 DEF Placed
  <2>3. \A m \in matches : Fair(m)'
    BY <1>1 DEF PairInv, PlacesOK, Fair, Acceptable, TooFar, Gap, Band, TimedOut
  <2> QED
    BY <1>1, <2>2, <2>3 DEF PairInv, PlacesOK
<1> QED
  BY <1>4, <1>5, <1>6, <1>7, <1>8 DEF PairInv

LEMMA SkipInv ==
  ASSUME MatchmakingAssumption, PairInv, Skip
  PROVE  PairInv'
<1>1. /\ i' = i + 1 /\ Scanning /\ (group[i] \in used \/ Candidates = {})
      /\ pool' = pool /\ keys' = keys /\ group' = group /\ used' = used
      /\ matches' = matches /\ leftover' = leftover
  BY DEF Skip
<1>2. /\ group \in Seq(Tickets) /\ Len(group) \in Nat /\ i \in 1 .. Len(group)
      /\ DOMAIN group = 1 .. Len(group) /\ group # <<>>
  BY <1>1 DEF PairInv, TypeOK, Scanning
<1>3. i' \in 1 .. Len(group) + 1
  BY <1>1, <1>2
<1>4. TypeOK'
  BY <1>1, <1>3 DEF PairInv, TypeOK
<1>5. GroupOK'
  BY <1>1, <1>3 DEF PairInv, GroupOK, GroupOf, Members, ToSet
<1>6. ScanOK'
  <2> SUFFICES ASSUME NEW p \in DOMAIN group, NEW q \in DOMAIN group, p < i + 1, p < q,
                      group[p] \notin used, group[q] \notin used,
                      Acceptable(group[p], group[q])
               PROVE  Hidden(group[p], group[q])
    BY <1>1, SamePool DEF ScanOK
  <2>1. CASE p < i
    BY <1>2, <2>1 DEF PairInv, ScanOK
  <2>2. CASE p = i
    BY <1>1, <2>2, NobodyFurtherUp DEF PairInv
  <2> QED
    BY <1>2, <2>1, <2>2
<1>7. LeftOK'
  BY <1>1, SamePool DEF PairInv, LeftOK
<1>8. PlacesOK'
  <2>1. \A m \in matches : Fair(m)'
    BY <1>1 DEF PairInv, PlacesOK, Fair, Acceptable, TooFar, Gap, Band, TimedOut
  <2>2. \A t \in Tickets : Placed(t)'
    BY <1>1 DEF PairInv, PlacesOK, Placed, Matched, ToSet
  <2> QED
    BY <1>1, <2>1, <2>2 DEF PairInv, PlacesOK
<1> QED
  BY <1>4, <1>5, <1>6, <1>7, <1>8 DEF PairInv

LEMMA MatchInv ==
  ASSUME MatchmakingAssumption, PairInv, Match
  PROVE  PairInv'
<1> DEFINE s == group[i]
           o == group[Best]
<1>1. /\ i' = i + 1 /\ Scanning /\ s \notin used /\ Candidates # {}
      /\ used' = used \cup {s, o} /\ matches' = matches \cup {{s, o}}
      /\ pool' = pool /\ keys' = keys /\ group' = group /\ leftover' = leftover
  BY DEF Match
<1>2. /\ group \in Seq(Tickets) /\ Len(group) \in Nat /\ i \in 1 .. Len(group)
      /\ DOMAIN group = 1 .. Len(group) /\ group # <<>>
  BY <1>1 DEF PairInv, TypeOK, Scanning
<1>3. Best \in Candidates
  BY <1>1, BestIsCandidate DEF PairInv
<1>4. /\ Best \in DOMAIN group /\ i < Best /\ Best \in Nat
      /\ s \in Tickets /\ o \in Tickets /\ o \notin used /\ Acceptable(s, o)
  BY <1>1, <1>3, Positions DEF PairInv, Candidates
<1>5. s # o /\ s \in ToSet(group) /\ o \in ToSet(group)
  BY <1>2, <1>4 DEF PairInv, GroupOK, ToSet
<1>6. PICK k : GroupOf(k)
  BY <1>2 DEF PairInv, GroupOK
<1>7. pool[s].region = k /\ pool[o].region = k /\ k \notin keys
  BY <1>5, <1>6 DEF GroupOf, Members
<1>8. i' \in 1 .. Len(group) + 1
  BY <1>1, <1>2
<1> HIDE DEF s, o
<1>9. TypeOK'
  BY <1>1, <1>4, <1>8 DEF PairInv, TypeOK
<1>10. GroupOK'
  <2>1. GroupOf(k)'
    BY <1>1, <1>5, <1>6, <1>8 DEF GroupOf, Members, ToSet
  <2> QED
    BY <1>1, <2>1 DEF PairInv, GroupOK
<1>11. ScanOK'
  <2> SUFFICES ASSUME NEW p \in DOMAIN group, NEW q \in DOMAIN group, p < i + 1, p < q,
                      group[p] \notin used', group[q] \notin used',
                      Acceptable(group[p], group[q])
               PROVE  Hidden(group[p], group[q])
    BY <1>1, SamePool DEF ScanOK
  <2>1. p # i
    BY <1>1 DEF s
  <2>2. p < i
    BY <1>2, <2>1
  <2> QED
    BY <1>1, <1>2, <2>2 DEF PairInv, ScanOK
<1>12. LeftOK'
  BY <1>1, SamePool DEF PairInv, LeftOK
<1>13. s \notin Matched /\ o \notin Matched /\ s \notin leftover /\ o \notin leftover
  BY <1>1, <1>4, <1>5 DEF PairInv, PlacesOK, Placed
<1>14. PlacesOK'
  <2>1. Fair({s, o})
    BY <1>4, <1>5, <1>7 DEF Fair
  <2>2. \A m \in matches' : Fair(m)'
    <3>1. \A m : Fair(m) => Fair(m)'
      BY <1>1 DEF Fair, Acceptable, TooFar, Gap, Band, TimedOut
    <3>2. \A m \in matches' : Fair(m)
      BY <1>1, <2>1 DEF PairInv, PlacesOK
    <3> QED
      BY <3>1, <3>2
  <2>3. \A m \in matches : m \cap {s, o} = {}
    BY <1>13 DEF Matched
  <2>4. \A m, n \in matches' : m = n \/ m \cap n = {}
    BY <1>1, <2>3 DEF PairInv, PlacesOK
  <2>5. Matched' = Matched \cup {s, o}
    BY <1>1 DEF Matched
  <2>6. ASSUME NEW t \in Tickets PROVE Placed(t)'
    <3>1. Placed(t) /\ ToSet(group)' = ToSet(group)
      BY <1>1 DEF PairInv, PlacesOK, ToSet
    <3> QED
      BY <1>1, <1>5, <1>7, <1>13, <2>5, <3>1 DEF Placed
  <2> QED
    BY <2>2, <2>4, <2>6 DEF PlacesOK
<1> QED
  BY <1>9, <1>10, <1>11, <1>12, <1>14 DEF PairInv

LEMMA EndInv ==
  ASSUME MatchmakingAssumption, PairInv, EndGroup
  PROVE  PairInv'
<1>1. /\ group # <<>> /\ i > Len(group) /\ group' = <<>>
      /\ leftover' = leftover \cup (ToSet(group) \ used)
      /\ pool' = pool /\ keys' = keys /\ i' = i /\ used' = used /\ matches' = matches
  BY DEF EndGroup
<1>2. /\ group \in Seq(Tickets) /\ Len(group) \in Nat /\ DOMAIN group = 1 .. Len(group)
      /\ i \in Nat /\ \A p \in DOMAIN group : group[p] \in Tickets
  BY <1>1 DEF PairInv, TypeOK
<1>3. ToSet(group) \subseteq Tickets /\ ToSet(<<>>) = {}
  BY <1>2 DEF ToSet
<1>4. PICK k : GroupOf(k)
  BY <1>1 DEF PairInv, GroupOK
<1>5. TypeOK'
  BY <1>1, <1>3 DEF PairInv, TypeOK
<1>6. GroupOK' /\ ScanOK'
  BY <1>1 DEF GroupOK, ScanOK
<1>7. PlacesOK'
  <2>1. \A m \in matches' : Fair(m)'
    BY <1>1 DEF PairInv, PlacesOK, Fair, Acceptable, TooFar, Gap, Band, TimedOut
  <2>2. Matched' = Matched
    BY <1>1 DEF Matched
  <2>3. ASSUME NEW t \in Tickets PROVE Placed(t)'
    <3>1. Placed(t) /\ ToSet(group)' = {}
      BY <1>1, <1>3 DEF PairInv, PlacesOK, ToSet
    <3>2. t \in ToSet(group) => pool[t].region \notin keys
      BY <1>4 DEF GroupOf, Members
    <3> QED
      BY <1>1, <2>2, <3>1, <3>2 DEF Placed
  <2> QED
    BY <1>1, <2>1, <2>3 DEF PairInv, PlacesOK
<1>8. ASSUME NEW s \in ToSet(group), NEW t \in ToSet(group), s \notin used, t \notin used
      PROVE  OutOfReach(s, t)
  <2>1. PICK p \in DOMAIN group : group[p] = s
    BY DEF ToSet
  <2>2. PICK q \in DOMAIN group : group[q] = t
    BY DEF ToSet
  <2>3. s \in Tickets /\ t \in Tickets
    BY <1>3
  <2>4. CASE p < q
    BY <1>1, <1>2, <1>8, <2>1, <2>2, <2>4 DEF PairInv, ScanOK, OutOfReach
  <2>5. CASE q < p
    <3>1. CASE pool[s].mmr <= pool[t].mmr
      <4>1. pool[t].mmr <= pool[s].mmr
        BY <2>1, <2>2, <2>5 DEF PairInv, GroupOK
      <4>2. pool[s].mmr \in Int /\ pool[t].mmr \in Int
        BY <2>3, Gaps DEF PairInv
      <4>3. pool[s].mmr = pool[t].mmr
        BY <3>1, <4>1, <4>2
      <4>4. Acceptable(t, s)
        BY <2>3, <4>3, EqualsAreAcceptable DEF PairInv
      <4>5. Hidden(t, s)
        BY <1>1, <1>2, <1>8, <2>1, <2>2, <2>5, <4>4 DEF PairInv, ScanOK
      <4>6. PICK u \in Between(t, s) : ~Acceptable(t, u)
        BY <4>5 DEF Hidden
      <4>7. u \in Tickets /\ pool[t].mmr <= pool[u].mmr /\ pool[u].mmr <= pool[s].mmr
        BY <4>6 DEF Between
      <4>8. pool[u].mmr \in Int
        BY <4>7, Gaps DEF PairInv
      <4>9. pool[u].mmr = pool[t].mmr
        BY <4>2, <4>3, <4>7, <4>8
      <4> QED
        BY <2>3, <4>6, <4>7, <4>9, EqualsAreAcceptable DEF PairInv
    <3> QED
      BY <3>1 DEF OutOfReach
  <2>6. CASE p = q
    BY <2>1, <2>2, <2>6 DEF OutOfReach
  <2> QED
    BY <1>2, <2>4, <2>5, <2>6
<1>9. ASSUME NEW s \in leftover, NEW t \in ToSet(group)
      PROVE  pool[s].region # pool[t].region
  <2>1. s \in Tickets /\ s \notin ToSet(group)
    BY DEF PairInv, TypeOK, PlacesOK, Placed
  <2> QED
    BY <1>4, <2>1 DEF GroupOf, Members
<1>10. ASSUME NEW s \in leftover', NEW t \in leftover'
       PROVE  OutOfReach(s, t)
  <2>1. CASE s \in leftover /\ t \in leftover
    BY <2>1 DEF PairInv, LeftOK
  <2>2. CASE s \notin leftover /\ t \notin leftover
    BY <1>1, <1>8, <2>2
  <2>3. CASE ~(s \in leftover <=> t \in leftover)
    BY <1>1, <1>9, <2>3 DEF OutOfReach
  <2> QED
    BY <2>1, <2>2, <2>3
<1>11. LeftOK'
  BY <1>1, <1>10, SamePool DEF LeftOK
<1> QED
  BY <1>5, <1>6, <1>7, <1>11 DEF PairInv

(* The inductive invariant: everybody has a place, and whoever the loop    *)
(* has passed over could not be matched with those that are left further   *)
(* up, or has somebody in between whom it could not take.                  *)
THEOREM Invariant == Spec => []PairInv
<1>1. PairInv /\ UNCHANGED vars => PairInv'
  <2> SUFFICES ASSUME PairInv, UNCHANGED vars
               PROVE  PairInv'
    OBVIOUS
  <2>1. TypeOK' /\ GroupOK'
    BY DEF PairInv, TypeOK, GroupOK, GroupOf, Members, ToSet, vars
  <2>2. ScanOK' /\ LeftOK'
    BY SamePool DEF PairInv, ScanOK, LeftOK, vars
  <2>3. \A m \in matches : Fair(m)'
    BY DEF PairInv, PlacesOK, Fair, Acceptable, TooFar, Gap, Band, TimedOut, vars
  <2>4. \A t \in Tickets : Placed(t)'
    BY DEF PairInv, PlacesOK, Placed, Matched, ToSet, vars
  <2> QED
    BY <2>1, <2>2, <2>3, <2>4 DEF PairInv, PlacesOK, vars
<1>2. PairInv /\ [Next]_vars => PairInv'
  BY <1>1, StartInv, SkipInv, MatchInv, EndInv, MatchmakingAssumption DEF Next
<1>3. Init => PairInv
  BY InitInv, MatchmakingAssumption
<1> QED
  BY <1>2, <1>3, PTL DEF Spec

(* Type correctness.                                                       *)
THEOREM TypeCorrect == Spec => []TypeOK
<1>1. PairInv => TypeOK
  BY DEF PairInv
<1> QED
  BY <1>1, Invariant, PTL

LEMMA TwoInAMatch ==
  ASSUME NEW s, NEW t, s # t
  PROVE  Cardinality({s, t}) = 2
<1>1. {s, t} = {s} \cup {t} /\ t \notin {s}
  OBVIOUS
<1>2. IsFiniteSet({s}) /\ Cardinality({s}) = 1
  BY FS_Singleton
<1> QED
  BY <1>1, <1>2, FS_AddElement

(* Every player of the snapshot comes out once, in a match or in the queue.*)
THEOREM NobodyTwiceNobodyLost == Spec => []EveryoneOnce
<1>1. PairInv => EveryoneOnce
  <2> SUFFICES ASSUME PairInv
               PROVE  EveryoneOnce
    OBVIOUS
  <2>1. ASSUME NEW m \in matches PROVE Cardinality(m) = 2 /\ m \cap leftover = {}
    <3>1. PICK s \in Tickets, t \in Tickets : s # t /\ m = {s, t}
      BY DEF PairInv, PlacesOK, Fair
    <3>2. s \in Matched /\ t \in Matched
      BY <3>1 DEF Matched
    <3>3. Cardinality({s, t}) = 2
      BY <3>1, TwoInAMatch
    <3>4. s \notin leftover /\ t \notin leftover
      BY <3>2 DEF PairInv, PlacesOK, Placed
    <3> QED
      BY <3>1, <3>3, <3>4
  <2>2. ASSUME Done, NEW t \in Tickets PROVE t \in leftover \cup Matched
    BY <2>2 DEF PairInv, PlacesOK, Placed, Done, ToSet
  <2>3. Matched \subseteq Tickets /\ leftover \subseteq Tickets
    BY DEF PairInv, TypeOK, Matched
  <2> QED
    BY <2>1, <2>2, <2>3 DEF EveryoneOnce, PairInv, PlacesOK, Matched
<1> QED
  BY <1>1, Invariant, PTL

(* No match leaves its region, and none is unacceptable to both players.   *)
THEOREM OnlyFairMatches == Spec => []MatchesAreFair
<1>1. PairInv => MatchesAreFair
  <2> SUFFICES ASSUME PairInv, NEW m \in matches, NEW s \in m, NEW t \in m, s # t
               PROVE  pool[s].region = pool[t].region /\ Acceptable(s, t)
    BY DEF MatchesAreFair
  <2>1. PICK a \in Tickets, b \in Tickets :
          a # b /\ m = {a, b} /\ pool[a].region = pool[b].region /\ Acceptable(a, b)
    BY DEF PairInv, PlacesOK, Fair
  <2>2. Acceptable(b, a)
    BY <2>1, AcceptableBothWays, MatchmakingAssumption DEF PairInv
  <2> QED
    BY <2>1, <2>2
<1> QED
  BY <1>1, Invariant, PTL

(* Of two players of a region who are both left and could have been        *)
(* matched, the higher-rated one is hidden: rated between them there is    *)
(* somebody whom the lower-rated one could not take, where the scan stops  *)
(* (the break in Pair, matcher.go).                                        *)
THEOREM LeftoversAreApart == Spec => []NobodyInReachIsLeft
<1>1. PairInv => NobodyInReachIsLeft
  BY DEF PairInv, LeftOK, OutOfReach, NobodyInReachIsLeft
<1> QED
  BY <1>1, Invariant, PTL
=============================================================================
