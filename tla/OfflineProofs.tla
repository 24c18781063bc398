--------------------------- MODULE OfflineProofs ---------------------------
(***************************************************************************)
(* Theorems about OfflineGame, for any species, HP, damage and size of the *)
(* team: however the taps follow each other and wherever the process dies. *)
(***************************************************************************)
EXTENDS OfflineGame, SequenceTheorems, WellFoundedInduction, TLAPS

Agree(t, s, n) == n = Len(t) /\ \A j \in DOMAIN t : t[j].species \in s

(* The team and what is known of the collection, in memory and in the file.*)
DataOK ==
  /\ team \in Seq(Creature) /\ seen \subseteq Species /\ caught \in Nat
  /\ Agree(team, seen, caught)
  /\ file \in Saved \cup {NoFile, Torn} /\ missed \in BOOLEAN
  /\ file \notin {NoFile, Torn} =>
       file.team # <<>> /\ Agree(file.team, file.seen, file.caught)
  /\ ProgressIsSaved

(* A screen has the data its buttons use.                                  *)
ScreenOK ==
  /\ screen \in {"closed", "title", "starter", "hub", "team", "battle", "switch", "won"}
  /\ active \in 0 .. Len(team)
  /\ enemy \in Creature \cup {NoEnemy}
  /\ screen \in {"title", "starter"} => team = <<>>
  /\ screen \in {"team", "won"} => team # <<>>
  /\ screen \in {"hub", "battle", "switch"} => active \in DOMAIN team /\ team[active].hp > 0
  /\ screen \in {"battle", "switch"} => enemy \in Creature /\ enemy.hp > 0

GameInv == DataOK /\ ScreenOK

(* Two teams that differ in HP only.                                       *)
Alike(t, u) ==
  /\ DOMAIN t = DOMAIN u /\ Len(t) = Len(u)
  /\ \A j \in DOMAIN t : t[j].species = u[j].species /\ t[j].level = u[j].level

-----------------------------------------------------------------------------
(* Teams.                                                                  *)

LEMMA TeamFacts ==
  ASSUME NEW t \in Seq(Creature)
  PROVE  /\ Len(t) \in Nat /\ DOMAIN t = 1 .. Len(t)
         /\ \A j \in DOMAIN t : /\ t[j] \in Creature /\ t[j].species \in Species
                                /\ t[j].level \in Nat /\ t[j].hp \in Nat
                                /\ t[j].max \in Nat /\ t[j].max > 0
         /\ t # <<>> => 1 \in DOMAIN t
<1>1. Len(t) \in Nat /\ DOMAIN t = 1 .. Len(t)
  BY LenProperties
<1>2. \A j \in DOMAIN t : t[j] \in Creature
  BY <1>1, ElementOfSeq
<1>3. t # <<>> => Len(t) \in Nat \ {0}
  BY EmptySeq
<1>4. \A c \in Creature : /\ c.species \in Species /\ c.level \in Nat /\ c.hp \in Nat
                          /\ c.max \in Nat /\ c.max > 0
  BY DEF Creature
<1> QED
  BY <1>1, <1>2, <1>3, <1>4

LEMMA FirstAliveStands ==
  ASSUME NEW t \in Seq(Creature), Alive(t) # {}
  PROVE  FirstAlive(t) \in DOMAIN t /\ t[FirstAlive(t)].hp > 0
<1> DEFINE A == {j \in 1 .. Len(t) : t[j].hp > 0}
<1>1. Alive(t) = A /\ A \subseteq Nat /\ A # {}
  <2>1. DOMAIN t = 1 .. Len(t) /\ Len(t) \in Nat
    BY TeamFacts
  <2> QED
    BY <2>1 DEF Alive
<1>2. FirstAlive(t) = Min(A)
  BY <1>1 DEF FirstAlive, SelectInSeq
<1>3. PICK n \in A : \A m \in A : ~(<<m, n>> \in OpToRel(<, Nat))
  <2> HIDE DEF A
  <2> QED
    BY <1>1, WFMin, NatLessThanWellFounded
<1>4. \A m \in A : n <= m
  <2>1. n \in Nat /\ A \subseteq Nat
    BY <1>1, <1>3
  <2> HIDE DEF A
  <2>2. ASSUME NEW m \in A, m < n PROVE FALSE
    <3>1. <<m, n>> \in Nat \X Nat /\ <<m, n>>[1] < <<m, n>>[2]
      BY <2>1, <2>2
    <3>2. <<m, n>> \in OpToRel(<, Nat)
      BY <3>1 DEF OpToRel
    <3> QED
      BY <1>3, <3>2
  <2>3. \A m \in A : m \in Nat
    BY <2>1
  <2> QED
    BY <2>1, <2>2, <2>3
<1>5. Min(A) \in A
  <2> HIDE DEF A
  <2> QED
    BY <1>4 DEF Min
<1> QED
  BY <1>2, <1>5, TeamFacts

LEMMA HealedTeam ==
  ASSUME NEW t \in Seq(Creature)
  PROVE  /\ Healed(t) \in Seq(Creature) /\ Alike(Healed(t), t)
         /\ \A j \in DOMAIN t : Healed(t)[j].hp > 0
<1> DEFINE c(j) == [t[j] EXCEPT !.hp = t[j].max]
<1>1. ASSUME NEW j \in DOMAIN t
      PROVE  /\ c(j) \in Creature /\ c(j).hp > 0
             /\ c(j).species = t[j].species /\ c(j).level = t[j].level
  <2>1. t[j] \in Creature /\ t[j].max \in Nat /\ t[j].max > 0
    BY TeamFacts
  <2> QED
    BY <2>1 DEF Creature
<1>2. Len(t) \in Nat /\ DOMAIN t = 1 .. Len(t)
  BY TeamFacts
<1>3. Healed(t) = [j \in 1 .. Len(t) |-> c(j)]
  BY <1>2 DEF Healed
<1> HIDE DEF c
<1>4. Healed(t) \in Seq(Creature) /\ Len(Healed(t)) = Len(t) /\ DOMAIN Healed(t) = 1 .. Len(t)
  BY <1>1, <1>2, <1>3
<1>5. \A j \in 1 .. Len(t) : Healed(t)[j] = c(j)
  BY <1>3
<1> QED
  BY <1>1, <1>2, <1>4, <1>5 DEF Alike

LEMMA HurtTeam ==
  ASSUME team \in Seq(Creature), NEW j \in DOMAIN team, NEW hp \in Nat
  PROVE  /\ Hurt(j, hp) \in Seq(Creature) /\ Alike(Hurt(j, hp), team)
         /\ Hurt(j, hp)[j].hp = hp
<1> DEFINE c == [team[j] EXCEPT !.hp = hp]
<1>1. c \in Creature /\ c.hp = hp /\ c.species = team[j].species /\ c.level = team[j].level
  BY TeamFacts DEF Creature
<1>2. Hurt(j, hp) = [team EXCEPT ![j] = c]
  BY DEF Hurt
<1> HIDE DEF c
<1>3. /\ Hurt(j, hp) \in Seq(Creature) /\ Len(Hurt(j, hp)) = Len(team)
      /\ \A k \in 1 .. Len(team) : Hurt(j, hp)[k] = IF k = j THEN c ELSE team[k]
  BY <1>1, <1>2, ExceptSeq, TeamFacts
<1> QED
  BY <1>1, <1>3, TeamFacts DEF Alike

LEMMA LeadTeam ==
  ASSUME NEW t \in Seq(Creature), NEW j \in DOMAIN t
  PROVE  /\ Lead(t, j) \in Seq(Creature) /\ Len(Lead(t, j)) = Len(t)
         /\ \A k \in DOMAIN Lead(t, j) : \E m \in DOMAIN t : Lead(t, j)[k] = t[m]
<1> DEFINE S == {t[m] : m \in DOMAIN t}
           a == SubSeq(t, 1, j - 1)
           b == SubSeq(t, j + 1, Len(t))
<1>1. Len(t) \in Nat /\ DOMAIN t = 1 .. Len(t) /\ j \in 1 .. Len(t) /\ S \subseteq Creature
  BY TeamFacts
<1>2. a \in Seq(S) /\ Len(a) = j - 1
  <2>1. \A k \in 1 .. j - 1 : t[k] \in S
    BY <1>1
  <2> HIDE DEF S
  <2> QED
    BY <1>1, <2>1, SubSeqProperties
<1>3. b \in Seq(S) /\ Len(b) = Len(t) - j
  <2>1. \A k \in j + 1 .. Len(t) : t[k] \in S
    BY <1>1
  <2> HIDE DEF S
  <2> QED
    BY <1>1, <2>1, SubSeqProperties
<1>4. t[j] \in S
  BY <1>1
<1> HIDE DEF S, a, b
<1>5. a \o b \in Seq(S) /\ Len(a \o b) = Len(t) - 1
  <2>1. a \o b \in Seq(S) /\ Len(a \o b) = Len(a) + Len(b)
    BY <1>2, <1>3, ConcatProperties, Zenon
  <2> QED
    BY <1>1, <1>2, <1>3, <2>1
<1>6. <<t[j]>> \in Seq(S) /\ Len(<<t[j]>>) = 1
  BY <1>4
<1> DEFINE h == <<t[j]>>
           r == a \o b
<1>7. h \o r \in Seq(S) /\ Len(h \o r) = Len(t)
  <2>1. h \in Seq(S) /\ Len(h) = 1 /\ r \in Seq(S) /\ Len(r) = Len(t) - 1
    BY <1>5, <1>6
  <2> HIDE DEF h, r
  <2>2. h \o r \in Seq(S) /\ Len(h \o r) = Len(h) + Len(r)
    BY <2>1, ConcatProperties, Zenon
  <2> QED
    BY <1>1, <2>1, <2>2
<1>8. Lead(t, j) = <<t[j]>> \o (a \o b)
  BY DEF Lead, RemoveAt, a, b
<1>9. Lead(t, j) \in Seq(S) /\ Len(Lead(t, j)) = Len(t)
  BY <1>7, <1>8
<1>10. \A k \in DOMAIN Lead(t, j) : Lead(t, j)[k] \in S
  BY <1>9
<1>11. Lead(t, j) \in Seq(Creature)
  BY <1>1, <1>9, SeqMonotonic
<1> QED
  BY <1>9, <1>10, <1>11 DEF S

-----------------------------------------------------------------------------
(* What becomes of each creature.                                          *)

(* A creature that keeps its place.                                        *)
LEMMA KeptInPlace ==
  ASSUME NEW t \in Seq(Creature), NEW u \in Seq(Creature), Len(t) <= Len(u),
         \A k \in DOMAIN t : u[k].species = t[k].species /\ u[k].level >= t[k].level
  PROVE  KeptIn(t, u)
<1> DEFINE place == [k \in DOMAIN t |-> k]
<1>1. DOMAIN t \subseteq DOMAIN u
  BY TeamFacts
<1>2. place \in Injection(DOMAIN t, DOMAIN u)
  BY <1>1 DEF Injection, IsInjective
<1>3. \A k \in DOMAIN t : place[k] = k
  OBVIOUS
<1> HIDE DEF place
<1> QED
  BY <1>2, <1>3 DEF KeptIn

LEMMA AlikeKept ==
  ASSUME NEW t \in Seq(Creature), NEW u \in Seq(Creature), Alike(u, t)
  PROVE  KeptIn(t, u)
<1>1. \A k \in DOMAIN t : u[k].species = t[k].species /\ u[k].level >= t[k].level
  BY TeamFacts DEF Alike
<1>2. Len(t) <= Len(u)
  BY TeamFacts DEF Alike
<1> QED
  BY <1>1, <1>2, KeptInPlace

(* A creature joins.                                                       *)
LEMMA AddKept ==
  ASSUME NEW t \in Seq(Creature), NEW c \in Creature
  PROVE  KeptIn(t, Append(t, c))
<1> DEFINE u == Append(t, c)
<1>1. /\ u \in Seq(Creature) /\ Len(u) = Len(t) + 1
      /\ \A k \in 1 .. Len(t) : u[k] = t[k]
  BY AppendProperties
<1> HIDE DEF u
<1>2. \A k \in DOMAIN t : u[k].species = t[k].species /\ u[k].level >= t[k].level
  BY <1>1, TeamFacts
<1>3. Len(t) <= Len(u)
  BY <1>1, TeamFacts
<1>4. KeptIn(t, u)
  BY <1>1, <1>2, <1>3, KeptInPlace
<1> QED
  BY <1>4 DEF u

(* Where creature k goes when creature j takes the lead.                   *)
NewPlace(j, k) == IF k < j THEN k + 1 ELSE IF k = j THEN 1 ELSE k

LEMMA LeadMoves ==
  ASSUME NEW t \in Seq(Creature), NEW j \in DOMAIN t, NEW k \in DOMAIN t
  PROVE  Lead(t, j)[NewPlace(j, k)] = t[k]
<1> DEFINE a == SubSeq(t, 1, j - 1)
           b == SubSeq(t, j + 1, Len(t))
           h == <<t[j]>>
<1>1. /\ Len(t) \in Nat /\ DOMAIN t = 1 .. Len(t) /\ j \in 1 .. Len(t) /\ k \in 1 .. Len(t)
      /\ \A m \in 1 .. Len(t) : t[m] \in Creature
  BY TeamFacts
<1>2. /\ a \in Seq(Creature) /\ Len(a) = j - 1
      /\ \A m \in 1 .. j - 1 : a[m] = t[m]
  <2>1. \A m \in 1 .. j - 1 : t[m] \in Creature
    BY <1>1
  <2> QED
    BY <1>1, <2>1, SubSeqProperties
<1>3. /\ b \in Seq(Creature) /\ Len(b) = Len(t) - j
      /\ \A m \in 1 .. Len(t) - j : b[m] = t[j + m]
  <2>1. \A m \in j + 1 .. Len(t) : t[m] \in Creature
    BY <1>1
  <2>2. /\ b \in Seq(Creature)
        /\ Len(b) = IF j + 1 <= Len(t) THEN Len(t) - (j + 1) + 1 ELSE 0
        /\ \A m \in 1 .. Len(t) - (j + 1) + 1 : b[m] = t[(j + 1) + m - 1]
    BY <1>1, <2>1, SubSeqProperties
  <2>3. \A m \in 1 .. Len(t) - j : (j + 1) + m - 1 = j + m
    BY <1>1
  <2> HIDE DEF b
  <2> QED
    BY <1>1, <2>2, <2>3
<1>4. h \in Seq(Creature) /\ Len(h) = 1 /\ h[1] = t[j]
  BY <1>1
<1>5. Lead(t, j) = h \o (a \o b)
  BY DEF Lead, RemoveAt
<1> HIDE DEF a, b, h
<1>6. /\ a \o b \in Seq(Creature) /\ Len(a \o b) = Len(t) - 1
      /\ \A m \in 1 .. Len(t) - 1 :
           (a \o b)[m] = IF m <= j - 1 THEN t[m] ELSE t[m + 1]
  <2>1. /\ a \o b \in Seq(Creature) /\ Len(a \o b) = Len(a) + Len(b)
        /\ \A m \in 1 .. Len(a) + Len(b) :
             (a \o b)[m] = IF m <= Len(a) THEN a[m] ELSE b[m - Len(a)]
    BY <1>2, <1>3, ConcatProperties, Zenon
  <2>2. Len(a) + Len(b) = Len(t) - 1
    BY <1>1, <1>2, <1>3
  <2>3. ASSUME NEW m \in 1 .. Len(t) - 1
        PROVE  (a \o b)[m] = IF m <= j - 1 THEN t[m] ELSE t[m + 1]
    <3>1. CASE m <= j - 1
      BY <1>1, <1>2, <2>1, <2>2, <3>1
    <3>2. CASE ~(m <= j - 1)
      <4>1. m - (j - 1) \in 1 .. Len(t) - j /\ j + (m - (j - 1)) = m + 1
        BY <1>1, <3>2
      <4>2. (a \o b)[m] = b[m - (j - 1)]
        BY <1>2, <2>1, <2>2, <3>2
      <4> QED
        BY <1>3, <3>2, <4>1, <4>2
    <3> QED
      BY <3>1, <3>2
  <2> QED
    BY <2>1, <2>2, <2>3
<1> DEFINE r == a \o b
<1>7. /\ r \in Seq(Creature) /\ Len(r) = Len(t) - 1
      /\ \A m \in 1 .. Len(t) - 1 : r[m] = IF m <= j - 1 THEN t[m] ELSE t[m + 1]
      /\ Lead(t, j) = h \o r
  BY <1>5, <1>6
<1> HIDE DEF r
<1>8. \A m \in 1 .. Len(t) : Lead(t, j)[m] = IF m <= 1 THEN t[j] ELSE r[m - 1]
  <2>1. \A m \in 1 .. Len(h) + Len(r) :
          (h \o r)[m] = IF m <= Len(h) THEN h[m] ELSE r[m - Len(h)]
    BY <1>4, <1>7, ConcatProperties, Zenon
  <2>2. Len(h) + Len(r) = Len(t)
    BY <1>1, <1>4, <1>7
  <2> SUFFICES ASSUME NEW m \in 1 .. Len(t)
               PROVE  Lead(t, j)[m] = IF m <= 1 THEN t[j] ELSE r[m - 1]
    OBVIOUS
  <2>3. Lead(t, j)[m] = IF m <= 1 THEN h[m] ELSE r[m - 1]
    BY <1>4, <1>7, <2>1, <2>2
  <2>4. m <= 1 => m = 1
    BY <1>1
  <2> QED
    BY <1>4, <2>3, <2>4
<1>9. CASE k < j
  <2>1. NewPlace(j, k) = k + 1 /\ k + 1 \in 1 .. Len(t) /\ ~(k + 1 <= 1) /\ (k + 1) - 1 = k
    BY <1>1, <1>9 DEF NewPlace
  <2>2. k \in 1 .. Len(t) - 1 /\ k <= j - 1
    BY <1>1, <1>9
  <2> QED
    BY <1>1, <1>7, <1>8, <2>1, <2>2
<1>10. CASE k = j
  <2>1. NewPlace(j, k) = 1 /\ 1 \in 1 .. Len(t)
    BY <1>1, <1>10 DEF NewPlace
  <2> QED
    BY <1>8, <1>10, <2>1
<1>11. CASE k > j
  <2>1. NewPlace(j, k) = k /\ ~(k <= 1)
    BY <1>1, <1>11 DEF NewPlace
  <2>2. k - 1 \in 1 .. Len(t) - 1 /\ ~(k - 1 <= j - 1) /\ (k - 1) + 1 = k
    BY <1>1, <1>11
  <2> QED
    BY <1>1, <1>7, <1>8, <2>1, <2>2
<1> QED
  BY <1>1, <1>9, <1>10, <1>11

LEMMA LeadKept ==
  ASSUME NEW t \in Seq(Creature), NEW j \in DOMAIN t
  PROVE  KeptIn(t, Lead(t, j))
<1> DEFINE place == [k \in DOMAIN t |-> NewPlace(j, k)]
<1>1. /\ Len(t) \in Nat /\ DOMAIN t = 1 .. Len(t) /\ j \in 1 .. Len(t)
      /\ \A k \in DOMAIN t : t[k].level \in Nat
      /\ DOMAIN Lead(t, j) = 1 .. Len(t)
  <2>1. Lead(t, j) \in Seq(Creature) /\ Len(Lead(t, j)) = Len(t)
    BY LeadTeam
  <2> QED
    BY <2>1, TeamFacts
<1>2. \A k \in DOMAIN t : NewPlace(j, k) \in 1 .. Len(t)
  BY <1>1 DEF NewPlace
<1>3. \A k, m \in DOMAIN t : NewPlace(j, k) = NewPlace(j, m) => k = m
  BY <1>1 DEF NewPlace
<1>4. place \in Injection(DOMAIN t, DOMAIN Lead(t, j))
  BY <1>1, <1>2, <1>3 DEF Injection, IsInjective
<1>5. \A k \in DOMAIN t : Lead(t, j)[place[k]] = t[k]
  BY LeadMoves
<1> HIDE DEF place
<1>6. \A k \in DOMAIN t : /\ Lead(t, j)[place[k]].species = t[k].species
                          /\ Lead(t, j)[place[k]].level >= t[k].level
  BY <1>1, <1>5
<1> QED
  BY <1>4, <1>6 DEF KeptIn

LEMMA HubKeeps ==
  ASSUME team \in Seq(Creature), NEW t \in Seq(Creature), Alike(t, team), NEW m, Hub(t, m)
  PROVE  KeptIn(team, team')
<1>1. CASE team' = Healed(t)
  <2>1. Healed(t) \in Seq(Creature) /\ Alike(Healed(t), t)
    BY HealedTeam
  <2>2. Alike(Healed(t), team)
    BY <2>1 DEF Alike
  <2> QED
    BY <1>1, <2>1, <2>2, AlikeKept
<1>2. CASE team' = t
  BY <1>2, AlikeKept
<1> QED
  BY <1>1, <1>2 DEF Hub

LEMMA PostTurnKeeps ==
  ASSUME team \in Seq(Creature), NEW t \in Seq(Creature), Alike(t, team),
         NEW j \in DOMAIN team, NEW foe, PostTurn(t, j, foe),
         team' \in Seq(Creature)
  PROVE  KeptIn(team, team')
<1>1. CASE Win(t, j)
  <2>1. /\ DOMAIN t = DOMAIN team /\ Len(t) = Len(team)
        /\ \A k \in DOMAIN team : /\ t[k].species = team[k].species
                                  /\ t[k].level = team[k].level
                                  /\ t[k] \in Creature /\ t[k].level \in Nat
    BY TeamFacts DEF Alike
  <2> DEFINE max == t[j].max + 3
             grown == [t[j] EXCEPT !.level = t[j].level + 1, !.max = max,
                         !.hp = IF t[j].hp + 3 < max THEN t[j].hp + 3 ELSE max]
  <2>2. grown.species = t[j].species /\ grown.level = t[j].level + 1
    BY <2>1 DEF Creature
  <2>3. team' = [t EXCEPT ![j] = grown]
    BY <1>1 DEF Win
  <2> HIDE DEF grown
  <2>4. /\ DOMAIN team' = DOMAIN team
        /\ \A k \in DOMAIN team : /\ team'[k].species = team[k].species
                                  /\ team'[k].level >= team[k].level
    BY <2>1, <2>2, <2>3
  <2>5. Len(team) <= Len(team')
    BY <2>4, TeamFacts
  <2> QED
    BY <2>4, <2>5, KeptInPlace
<1>2. CASE team' = Healed(t)
  <2>1. Healed(t) \in Seq(Creature) /\ Alike(Healed(t), t)
    BY HealedTeam
  <2>2. Alike(Healed(t), team)
    BY <2>1 DEF Alike
  <2> QED
    BY <1>2, <2>1, <2>2, AlikeKept
<1>3. CASE team' = t
  BY <1>3, AlikeKept
<1> QED
  BY <1>1, <1>2, <1>3 DEF PostTurn, OnFaint, Fight

(* What is kept twice is kept.                                             *)
LEMMA KeptTwice ==
  ASSUME NEW s, NEW t, NEW u, KeptIn(s, t), KeptIn(t, u),
         \A k \in DOMAIN s : s[k].level \in Nat,
         \A k \in DOMAIN t : t[k].level \in Nat,
         \A k \in DOMAIN u : u[k].level \in Nat
  PROVE  KeptIn(s, u)
<1>1. PICK p \in Injection(DOMAIN s, DOMAIN t) :
        \A k \in DOMAIN s : /\ t[p[k]].species = s[k].species
                            /\ t[p[k]].level >= s[k].level
  BY DEF KeptIn
<1>2. PICK q \in Injection(DOMAIN t, DOMAIN u) :
        \A k \in DOMAIN t : /\ u[q[k]].species = t[k].species
                            /\ u[q[k]].level >= t[k].level
  BY DEF KeptIn
<1> DEFINE place == [k \in DOMAIN s |-> q[p[k]]]
<1>3. /\ \A k \in DOMAIN s : p[k] \in DOMAIN t
      /\ \A k, m \in DOMAIN s : p[k] = p[m] => k = m
      /\ \A k \in DOMAIN t : q[k] \in DOMAIN u
      /\ \A k, m \in DOMAIN t : q[k] = q[m] => k = m
  BY DEF Injection, IsInjective
<1>4. place \in Injection(DOMAIN s, DOMAIN u)
  BY <1>3 DEF Injection, IsInjective
<1>5. ASSUME NEW k \in DOMAIN s
      PROVE  /\ u[place[k]].species = s[k].species
             /\ u[place[k]].level >= s[k].level
  <2>1. place[k] = q[p[k]] /\ p[k] \in DOMAIN t /\ q[p[k]] \in DOMAIN u
    BY <1>3
  <2>2. t[p[k]].level >= s[k].level /\ u[q[p[k]]].level >= t[p[k]].level
    BY <1>1, <1>2, <2>1
  <2>3. s[k].level \in Nat /\ t[p[k]].level \in Nat /\ u[q[p[k]]].level \in Nat
    BY <2>1
  <2>4. u[q[p[k]]].level >= s[k].level
    BY <2>2, <2>3
  <2> QED
    BY <1>1, <1>2, <2>1, <2>4
<1> HIDE DEF place
<1> QED
  BY <1>4, <1>5 DEF KeptIn

LEMMA KeptAlike ==
  ASSUME NEW s, NEW t, NEW u, KeptIn(s, t), Alike(u, t)
  PROVE  KeptIn(s, u)
<1>1. PICK p \in Injection(DOMAIN s, DOMAIN t) :
        \A k \in DOMAIN s : /\ t[p[k]].species = s[k].species
                            /\ t[p[k]].level >= s[k].level
  BY DEF KeptIn
<1>2. p \in Injection(DOMAIN s, DOMAIN u)
  BY <1>1 DEF Alike
<1>3. \A k \in DOMAIN s : p[k] \in DOMAIN t
  BY <1>1 DEF Injection
<1>4. \A k \in DOMAIN s : /\ u[p[k]].species = s[k].species
                          /\ u[p[k]].level >= s[k].level
  BY <1>1, <1>3 DEF Alike
<1> QED
  BY <1>2, <1>4 DEF KeptIn

(* A file that parses, as it was, still has nothing the team lacks.        *)
LEMMA FileKept ==
  ASSUME DataOK, team' \in Seq(Creature), KeptIn(team, team'), file \notin {NoFile, Torn}
  PROVE  KeptIn(file.team, team')
<1>1. /\ KeptIn(file.team, team) /\ team \in Seq(Creature)
      /\ file.team \in Seq([species : Species, level : Nat, hp : Nat])
  BY DEF DataOK, ProgressIsSaved, Saved
<1>2. /\ \A k \in DOMAIN team : team[k].level \in Nat
      /\ \A k \in DOMAIN team' : team'[k].level \in Nat
  BY <1>1, TeamFacts
<1>3. \A k \in DOMAIN file.team : file.team[k].level \in Nat
  <2> DEFINE C == [species : Species, level : Nat, hp : Nat]
             ft == file.team
  <2>1. ft \in Seq(C) /\ \A c \in C : c.level \in Nat
    BY <1>1
  <2> HIDE DEF C, ft
  <2>2. \A k \in DOMAIN ft : ft[k] \in C
    BY <2>1, ElementOfSeq
  <2> QED
    BY <2>1, <2>2 DEF ft
<1> QED
  BY <1>1, <1>2, <1>3, KeptTwice

-----------------------------------------------------------------------------
(* Saving.                                                                 *)

LEMMA ImageIsSaved ==
  ASSUME NEW t \in Seq(Creature), NEW s \in SUBSET Species, NEW n \in Nat
  PROVE  /\ Image(t, s, n) \in Saved
         /\ Image(t, s, n).seen = s /\ Image(t, s, n).caught = n
         /\ DOMAIN Image(t, s, n).team = DOMAIN t /\ Len(Image(t, s, n).team) = Len(t)
         /\ \A j \in DOMAIN t : /\ Image(t, s, n).team[j].species = t[j].species
                                /\ Image(t, s, n).team[j].level = t[j].level
<1> DEFINE c(j) == [species |-> t[j].species, level |-> t[j].level, hp |-> t[j].hp]
           C == [species : Species, level : Nat, hp : Nat]
           u == [j \in 1 .. Len(t) |-> c(j)]
<1>1. Len(t) \in Nat /\ DOMAIN t = 1 .. Len(t)
  BY TeamFacts
<1>2. \A j \in 1 .. Len(t) : /\ c(j) \in C /\ c(j).species = t[j].species
                             /\ c(j).level = t[j].level
  BY <1>1, TeamFacts
<1>3. Image(t, s, n) = [team |-> u, seen |-> s, caught |-> n]
  BY <1>1 DEF Image
<1> HIDE DEF c, C
<1>4. u \in Seq(C) /\ Len(u) = Len(t) /\ DOMAIN u = 1 .. Len(t)
  BY <1>1, <1>2
<1>5. \A j \in 1 .. Len(t) : u[j] = c(j)
  OBVIOUS
<1> HIDE DEF u
<1>6. [team |-> u, seen |-> s, caught |-> n] \in Saved
  BY <1>4 DEF Saved, C
<1> QED
  BY <1>1, <1>2, <1>3, <1>4, <1>5, <1>6

(* However save() ends, file and memory agree as they must.                *)
LEMMA SavedData ==
  ASSUME DataOK, file \notin {NoFile, Torn} => KeptIn(file.team, team'),
         team' \in Seq(Creature), team' # <<>>, seen' \subseteq Species, caught' \in Nat,
         Agree(team', seen', caught'), NEW next, SaveAndShow(next)
  PROVE  DataOK' /\ screen' \in {next, "closed"}
<1>1. CASE screen' \in {next, "closed"} /\ file' = Torn /\ missed' = FALSE
  BY <1>1, OfflineAssumption DEF DataOK, ProgressIsSaved
<1>3. CASE screen' = next /\ file' = file /\ missed' = TRUE
  BY <1>3 DEF DataOK, ProgressIsSaved, Agree
<1>2. CASE screen' = next /\ file' = Image(team', seen', caught') /\ missed' = FALSE
  <2> DEFINE im == Image(team', seen', caught')
  <2>0. /\ im \in Saved /\ im.seen = seen' /\ im.caught = caught'
        /\ DOMAIN im.team = DOMAIN team' /\ Len(im.team) = Len(team')
        /\ \A j \in DOMAIN team' : /\ im.team[j].species = team'[j].species
                                   /\ im.team[j].level = team'[j].level
    <3>1. seen' \in SUBSET Species
      OBVIOUS
    <3> HIDE DEF im
    <3> QED
      BY <3>1, ImageIsSaved DEF im
  <2> HIDE DEF im
  <2>1. file' \in Saved /\ file' \notin {NoFile, Torn}
    <3>1. {NoFile, Torn} \cap Saved = {}
      BY OfflineAssumption
    <3> QED
      BY <1>2, <2>0, <3>1 DEF im
  <2>2. file'.seen = seen' /\ file'.caught = caught'
    BY <1>2, <2>0 DEF im
  <2>3. /\ DOMAIN file'.team = DOMAIN team' /\ Len(file'.team) = Len(team')
        /\ \A j \in DOMAIN team' : /\ file'.team[j].species = team'[j].species
                                   /\ file'.team[j].level = team'[j].level
    BY <1>2, <2>0 DEF im
  <2>4. Agree(file'.team, file'.seen, file'.caught)
    BY <2>2, <2>3 DEF Agree
  <2>5. file'.team # <<>>
    <3>1. Len(team') # 0
      BY EmptySeq
    <3> QED
      BY <2>3, <3>1
  <2>6. Progress(team') = Progress(file'.team)
    BY <2>3 DEF Progress
  <2>7. KeptIn(file'.team, team')
    <3>1. \A k \in DOMAIN team' : team'[k].level \in Nat
      BY TeamFacts
    <3>2. [k \in DOMAIN team' |-> k] \in Injection(DOMAIN file'.team, DOMAIN team')
      BY <2>3 DEF Injection, IsInjective
    <3> QED
      BY <2>3, <3>1, <3>2 DEF KeptIn
  <2> QED
    BY <1>2, <2>1, <2>4, <2>5, <2>6, <2>7 DEF DataOK, ProgressIsSaved
<1> QED
  BY <1>1, <1>2, <1>3 DEF SaveAndShow

(* A change of HP and of what has been seen needs no save.                 *)
LEMMA SameProgress ==
  ASSUME DataOK, team' \in Seq(Creature), Alike(team', team), UNCHANGED <<caught, file, missed>>,
         seen \subseteq seen', seen' \subseteq Species
  PROVE  DataOK'
<1>1. Agree(team', seen', caught')
  BY DEF DataOK, Agree, Alike
<1>2. Progress(team') = Progress(team)
  BY DEF Progress, Alike
<1>3. file \notin {NoFile, Torn} => KeptIn(file.team, team')
  BY KeptAlike DEF DataOK, ProgressIsSaved
<1> QED
  BY <1>1, <1>2, <1>3 DEF DataOK, ProgressIsSaved, Agree

LEMMA AlikeAgrees ==
  ASSUME NEW t, NEW u, Alike(t, u), NEW s, NEW n, Agree(u, s, n)
  PROVE  Agree(t, s, n)
BY DEF Alike, Agree

LEMMA AlikeNotEmpty ==
  ASSUME NEW t \in Seq(Creature), NEW u \in Seq(Creature), Alike(t, u), u # <<>>
  PROVE  t # <<>>
<1>1. Len(u) # 0
  BY EmptySeq
<1> QED
  BY <1>1 DEF Alike

(* Whoever can fight in a team that has somebody who can.                  *)
LEMMA SomebodyStands ==
  ASSUME NEW t \in Seq(Creature), NEW j \in DOMAIN t, t[j].hp > 0
  PROVE  Alive(t) # {}
<1>1. j \in Alive(t)
  BY DEF Alive
<1> QED
  BY <1>1

(* The hub, with a team of which everything is saved that must be.         *)
LEMMA HubInv ==
  ASSUME DataOK, NEW t \in Seq(Creature), t # <<>>,
         file \notin {NoFile, Torn} => KeptIn(file.team, t),
         seen' \subseteq Species, caught' \in Nat, Agree(t, seen', caught'),
         enemy' \in Creature \cup {NoEnemy}, NEW m,
         team' = t /\ file' = file /\ missed' = m => DataOK',
         Hub(t, m)
  PROVE  GameInv'
<1>1. CASE Alive(t) = {}
  <2>1. team' = Healed(t) /\ active' = 1 /\ SaveAndShow("hub")
    BY <1>1 DEF Hub
  <2>2. /\ team' \in Seq(Creature) /\ Alike(team', t)
        /\ \A j \in DOMAIN t : team'[j].hp > 0
    BY <2>1, HealedTeam
  <2>3. Agree(team', seen', caught') /\ team' # <<>>
    BY <2>2, AlikeAgrees, AlikeNotEmpty
  <2>6. file \notin {NoFile, Torn} => KeptIn(file.team, team')
    BY <2>2, KeptAlike
  <2>4. DataOK' /\ screen' \in {"hub", "closed"}
    BY <2>1, <2>2, <2>3, <2>6, SavedData
  <2>5. 1 \in DOMAIN team' /\ team'[1].hp > 0 /\ 1 \in 0 .. Len(team')
    BY <2>2, <2>3, TeamFacts DEF Alike
  <2> QED
    BY <2>1, <2>3, <2>4, <2>5 DEF GameInv, ScreenOK
<1>2. CASE Alive(t) # {}
  <2>1. /\ team' = t /\ active' = FirstAlive(t) /\ screen' = "hub"
        /\ file' = file /\ missed' = m
    BY <1>2 DEF Hub
  <2>2. active' \in DOMAIN team' /\ team'[active'].hp > 0
    BY <1>2, <2>1, FirstAliveStands
  <2>3. active' \in 0 .. Len(team')
    BY <2>1, <2>2, TeamFacts
  <2> QED
    BY <2>1, <2>2, <2>3 DEF GameInv, ScreenOK
<1> QED
  BY <1>1, <1>2

(* The end of a turn that changed nothing but HP.                          *)
LEMMA PostTurnInv ==
  ASSUME DataOK, enemy \in Creature, NEW t \in Seq(Creature), Alike(t, team),
         NEW j \in DOMAIN team, NEW foe \in Nat, PostTurn(t, j, foe)
  PROVE  GameInv'
<1>1. /\ team \in Seq(Creature) /\ seen \subseteq Species /\ caught \in Nat
      /\ Agree(team, seen, caught)
  BY DEF DataOK
<1>2. enemy' \in Creature /\ enemy'.hp = foe
  BY DEF PostTurn, Creature
<1>3. /\ DOMAIN t = DOMAIN team /\ j \in DOMAIN t /\ Len(t) \in Nat /\ j \in 0 .. Len(t)
      /\ t # <<>> /\ Agree(t, seen, caught)
  <2>1. DOMAIN t = DOMAIN team /\ j \in DOMAIN t
    BY DEF Alike
  <2>2. Len(t) \in Nat /\ j \in 1 .. Len(t)
    BY <2>1, TeamFacts
  <2>3. t # <<>>
    BY <2>2
  <2> QED
    BY <1>1, <2>1, <2>2, <2>3, AlikeAgrees
<1>4. CASE foe <= 0 /\ Win(t, j)
  <2> DEFINE max == t[j].max + 3
             c == [t[j] EXCEPT !.level = t[j].level + 1, !.max = max,
                               !.hp = IF t[j].hp + 3 < max THEN t[j].hp + 3 ELSE max]
  <2>1. c \in Creature /\ c.species = t[j].species
    <3>1. /\ t[j] \in Creature /\ t[j].level \in Nat
          /\ t[j].hp \in Nat /\ t[j].max \in Nat
      BY <1>3, TeamFacts
    <3>2. \A lv \in Nat, mx \in Nat \ {0}, h \in Nat :
            LET d == [t[j] EXCEPT !.level = lv, !.max = mx, !.hp = h]
            IN  d \in Creature /\ d.species = t[j].species
      BY <3>1 DEF Creature
    <3>3. /\ t[j].level + 1 \in Nat /\ max \in Nat \ {0}
          /\ (IF t[j].hp + 3 < max THEN t[j].hp + 3 ELSE max) \in Nat
      BY <3>1
    <3> HIDE DEF max
    <3> QED
      BY <3>2, <3>3
  <2>2. team' = [t EXCEPT ![j] = c]
    BY <1>4 DEF Win
  <2>3. active' = j /\ seen' = seen /\ caught' = caught /\ SaveAndShow("won")
    BY <1>4 DEF Win
  <2> HIDE DEF c
  <2>4. /\ team' \in Seq(Creature) /\ Len(team') = Len(t) /\ DOMAIN team' = DOMAIN t
        /\ \A k \in DOMAIN t : team'[k] = IF k = j THEN c ELSE t[k]
    BY <1>3, <2>1, <2>2, ExceptSeq, TeamFacts
  <2>5. Agree(team', seen', caught') /\ team' # <<>>
    <3>1. \A k \in DOMAIN t : team'[k].species = t[k].species
      BY <2>1, <2>4
    <3>2. Len(t) # 0
      BY <1>3, EmptySeq
    <3> QED
      BY <1>3, <2>3, <2>4, <3>1, <3>2 DEF Agree
  <2>6. DataOK' /\ screen' \in {"won", "closed"}
    <3>1. KeptIn(team, team')
      BY <1>1, <2>4, PostTurnKeeps
    <3>2. file \notin {NoFile, Torn} => KeptIn(file.team, team')
      BY <2>4, <3>1, FileKept
    <3> QED
      BY <1>1, <2>3, <2>4, <2>5, <3>2, SavedData
  <2> QED
    BY <1>2, <1>3, <2>3, <2>4, <2>5, <2>6 DEF GameInv, ScreenOK
<1>5. CASE foe > 0 /\ t[j].hp <= 0 /\ OnFaint(t, j)
  <2>1. seen' = seen /\ caught' = caught
    BY <1>5 DEF OnFaint
  <2>2. CASE Alive(t) = {} /\ team' = Healed(t) /\ active' = j /\ SaveAndShow("won")
    <3>1. team' \in Seq(Creature) /\ Alike(team', t)
      BY <2>2, HealedTeam
    <3>2. Agree(team', seen', caught') /\ team' # <<>> /\ Len(team') = Len(t)
      BY <1>3, <2>1, <3>1, AlikeAgrees, AlikeNotEmpty DEF Alike
    <3>4. file \notin {NoFile, Torn} => KeptIn(file.team, team')
      <4>1. KeptIn(team, team')
        BY <1>1, <3>1, PostTurnKeeps
      <4> QED
        BY <3>1, <4>1, FileKept
    <3>3. DataOK' /\ screen' \in {"won", "closed"}
      BY <1>1, <2>1, <2>2, <3>1, <3>2, <3>4, SavedData
    <3> QED
      BY <1>2, <1>3, <2>2, <3>2, <3>3 DEF GameInv, ScreenOK
  <2>3. CASE Alive(t) # {} /\ active' = FirstAlive(t) /\ Fight(t)
    <3>1. team' = t /\ screen' = "battle" /\ UNCHANGED <<file, missed>>
      BY <2>3 DEF Fight
    <3>2. DataOK'
      BY <1>1, <2>1, <3>1, SameProgress
    <3>3. active' \in DOMAIN team' /\ team'[active'].hp > 0
      BY <2>3, <3>1, FirstAliveStands
    <3>4. active' \in 0 .. Len(team')
      BY <3>1, <3>3, TeamFacts
    <3> QED
      BY <1>2, <1>5, <3>1, <3>2, <3>3, <3>4 DEF GameInv, ScreenOK
  <2> QED
    BY <1>5, <2>2, <2>3 DEF OnFaint
<1>6. CASE foe > 0 /\ t[j].hp > 0 /\ active' = j /\ Fight(t) /\ UNCHANGED <<seen, caught>>
  <2>1. team' = t /\ screen' = "battle" /\ UNCHANGED <<file, missed>>
    BY <1>6 DEF Fight
  <2>2. DataOK'
    BY <1>1, <1>6, <2>1, SameProgress
  <2> QED
    BY <1>2, <1>3, <1>6, <2>1, <2>2 DEF GameInv, ScreenOK
<1> QED
  BY <1>4, <1>5, <1>6 DEF PostTurn

-----------------------------------------------------------------------------
(* Every action keeps the invariant.                                       *)

LEMMA InitInv == Init => GameInv
<1> SUFFICES ASSUME Init PROVE GameInv
  OBVIOUS
<1>1. team = <<>> /\ team \in Seq(Creature) /\ Len(team) = 0 /\ DOMAIN team = {}
  BY DEF Init
<1>4. ProgressIsSaved
  BY <1>1 DEF Init, ProgressIsSaved, Progress
<1>5. missed \in BOOLEAN
  BY DEF Init
<1>2. DataOK
  BY <1>1, <1>4, <1>5 DEF Init, DataOK, Agree
<1>3. ScreenOK
  BY <1>1 DEF Init, ScreenOK
<1> QED
  BY <1>2, <1>3 DEF GameInv

(* The creatures that are made anew from a file.                           *)
LEMMA LoadedTeam ==
  ASSUME file \in Saved, NEW maxes \in [DOMAIN file.team -> MaxHPs]
  PROVE  /\ Loaded(maxes) \in Seq(Creature) /\ Len(Loaded(maxes)) = Len(file.team)
         /\ DOMAIN Loaded(maxes) = DOMAIN file.team
         /\ \A j \in DOMAIN file.team : /\ Loaded(maxes)[j].species = file.team[j].species
                                        /\ Loaded(maxes)[j].level = file.team[j].level
<1> DEFINE ft == file.team
           C == [species : Species, level : Nat, hp : Nat]
           c(j) == [species |-> ft[j].species, level |-> ft[j].level,
                    max |-> maxes[j], hp |-> ft[j].hp]
           t == Loaded(maxes)
<1>3. ft \in Seq(C) /\ Len(ft) \in Nat /\ DOMAIN ft = 1 .. Len(ft)
  BY DEF Saved
<1>4. \A j \in DOMAIN ft : ft[j] \in C
  BY <1>3, ElementOfSeq
<1>5. \A j \in DOMAIN ft : maxes[j] \in Nat \ {0}
  BY OfflineAssumption
<1>6. \A j \in DOMAIN ft : /\ c(j) \in Creature /\ c(j).species = ft[j].species
                           /\ c(j).level = ft[j].level
  BY <1>4, <1>5 DEF Creature
<1>7. t = [j \in 1 .. Len(ft) |-> c(j)]
  <2>1. \A j \in DOMAIN ft :
          [NewCreature(ft[j].species, ft[j].level, maxes[j]) EXCEPT !.hp = ft[j].hp] = c(j)
    BY DEF NewCreature
  <2>2. t = [j \in DOMAIN ft |->
              [NewCreature(ft[j].species, ft[j].level, maxes[j]) EXCEPT !.hp = ft[j].hp]]
    BY DEF Loaded
  <2> HIDE DEF t, c, ft
  <2> QED
    BY <1>3, <2>1, <2>2
<1> HIDE DEF c, C, t
<1>8. t \in Seq(Creature) /\ Len(t) = Len(ft) /\ DOMAIN t = DOMAIN ft
  BY <1>3, <1>6, <1>7
<1>9. \A j \in DOMAIN t : t[j].species = ft[j].species /\ t[j].level = ft[j].level
  BY <1>3, <1>6, <1>7
<1> QED
  BY <1>8, <1>9 DEF t

LEMMA LaunchSavedInv == GameInv /\ LaunchSaved => GameInv'
<1> SUFFICES ASSUME GameInv, LaunchSaved PROVE GameInv'
  OBVIOUS
<1>1. /\ file \in Saved /\ file.team # <<>> /\ Agree(file.team, file.seen, file.caught)
      /\ seen' = file.seen /\ caught' = file.caught /\ enemy' = NoEnemy /\ DataOK
  BY DEF GameInv, DataOK, LaunchSaved
<1>2. PICK maxes \in [DOMAIN file.team -> MaxHPs] : Hub(Loaded(maxes), FALSE)
  BY DEF LaunchSaved
<1> DEFINE ft == file.team
           t == Loaded(maxes)
<1>3. ft \in Seq([species : Species, level : Nat, hp : Nat]) /\ Len(ft) \in Nat
  BY <1>1 DEF Saved
<1>4. /\ t \in Seq(Creature) /\ Len(t) = Len(ft) /\ DOMAIN t = DOMAIN ft
      /\ \A j \in DOMAIN t : t[j].species = ft[j].species /\ t[j].level = ft[j].level
  BY <1>1, <1>2, LoadedTeam
<1> HIDE DEF t
<1>10. seen' \subseteq Species /\ caught' \in Nat /\ Agree(t, seen', caught')
  BY <1>1, <1>4 DEF Saved, Agree
<1>11. t # <<>>
  <2>1. Len(ft) # 0
    BY <1>1, <1>3, EmptySeq
  <2> QED
    BY <1>4, <2>1
<1>14. KeptIn(ft, t)
  <2>1. \A k \in DOMAIN t : t[k].level \in Nat
    BY <1>4, TeamFacts
  <2>2. [k \in DOMAIN ft |-> k] \in Injection(DOMAIN ft, DOMAIN t)
    BY <1>4 DEF Injection, IsInjective
  <2> QED
    BY <1>4, <2>1, <2>2 DEF KeptIn
<1>12. ASSUME team' = t, file' = file, missed' = FALSE PROVE DataOK'
  <2>1. Progress(team') = Progress(file'.team)
    BY <1>4, <1>12 DEF Progress
  <2>2. file' \notin {NoFile, Torn}
    BY <1>12 DEF LaunchSaved
  <2>3. Agree(team', seen', caught') /\ Agree(file'.team, file'.seen, file'.caught)
    BY <1>1, <1>10, <1>12
  <2> QED
    BY <1>1, <1>4, <1>10, <1>12, <1>14, <2>1, <2>2, <2>3 DEF DataOK, ProgressIsSaved
<1>13. Hub(t, FALSE)
  BY <1>2 DEF t
<1> QED
  BY <1>1, <1>4, <1>10, <1>11, <1>12, <1>13, <1>14, HubInv

LEMMA LaunchNewInv == GameInv /\ LaunchNew => GameInv'
<1> SUFFICES ASSUME GameInv, LaunchNew PROVE GameInv'
  OBVIOUS
<1>1. team' = <<>> /\ team' \in Seq(Creature) /\ Len(team') = 0 /\ DOMAIN team' = {}
  BY DEF LaunchNew
<1>4. ProgressIsSaved'
  BY <1>1 DEF LaunchNew, ProgressIsSaved, Progress
<1>5. missed' \in BOOLEAN
  BY DEF LaunchNew
<1>2. DataOK'
  BY <1>1, <1>4, <1>5 DEF GameInv, LaunchNew, DataOK, Agree
<1>3. ScreenOK'
  BY <1>1 DEF LaunchNew, ScreenOK
<1> QED
  BY <1>2, <1>3 DEF GameInv

(* A step that changes neither the team nor the collection nor the file.   *)
LEMMA SameData ==
  ASSUME DataOK, UNCHANGED <<team, seen, caught, file, missed>>
  PROVE  DataOK'
<1>1. Progress(team') = Progress(team)
  OBVIOUS
<1>2. file \notin {NoFile, Torn} => KeptIn(file.team, team')
  BY DEF DataOK, ProgressIsSaved
<1> QED
  BY <1>1, <1>2 DEF DataOK, ProgressIsSaved, Agree

LEMMA ScreenSteps ==
  GameInv /\ (Kill \/ NewGame \/ ShowTeam \/ ShowSwitch \/ CancelSwitch) => GameInv'
<1> SUFFICES ASSUME GameInv, Kill \/ NewGame \/ ShowTeam \/ ShowSwitch \/ CancelSwitch
             PROVE  GameInv'
  OBVIOUS
<1>1. DataOK'
  BY SameData DEF GameInv, Kill, NewGame, ShowTeam, ShowSwitch, CancelSwitch
<1>2. Len(team) \in Nat
  BY DEF GameInv, DataOK
<1>3. CASE Kill
  BY <1>1, <1>2, <1>3 DEF GameInv, ScreenOK, Kill
<1>4. CASE NewGame
  BY <1>1, <1>4 DEF GameInv, ScreenOK, NewGame
<1>5. CASE ShowTeam
  <2>1. team # <<>>
    BY <1>5 DEF GameInv, ScreenOK, ShowTeam
  <2> QED
    BY <1>1, <1>5, <2>1 DEF GameInv, ScreenOK, ShowTeam
<1>6. CASE ShowSwitch \/ CancelSwitch
  BY <1>1, <1>6 DEF GameInv, ScreenOK, ShowSwitch, CancelSwitch
<1> QED
  BY <1>3, <1>4, <1>5, <1>6

LEMMA ShowHubInv ==
  ASSUME GameInv, team # <<>>, ShowHub
  PROVE  GameInv'
<1>1. /\ team \in Seq(Creature) /\ seen' \subseteq Species /\ caught' \in Nat
      /\ Agree(team, seen', caught') /\ enemy' = NoEnemy /\ Hub(team, missed)
      /\ seen' = seen /\ caught' = caught /\ DataOK
      /\ file \notin {NoFile, Torn} => KeptIn(file.team, team)
  BY DEF GameInv, DataOK, ProgressIsSaved, ShowHub
<1>2. team' = team /\ file' = file /\ missed' = missed => DataOK'
  BY <1>1, SameData
<1> QED
  BY <1>1, <1>2, HubInv

LEMMA HubSteps == GameInv /\ (Back \/ Continue \/ Run) => GameInv'
<1> SUFFICES ASSUME GameInv, Back \/ Continue \/ Run PROVE GameInv'
  OBVIOUS
<1>1. team # <<>>
  BY DEF GameInv, ScreenOK, Back, Continue, Run
<1> QED
  BY <1>1, ShowHubInv DEF Back, Continue, Run

LEMMA HealTeamInv == GameInv /\ HealTeam => GameInv'
<1> SUFFICES ASSUME GameInv, HealTeam PROVE GameInv'
  OBVIOUS
<1>1. /\ team \in Seq(Creature) /\ seen' \subseteq Species /\ caught' \in Nat
      /\ Agree(team, seen', caught') /\ 1 \in DOMAIN team /\ team # <<>>
  <2>1. active \in DOMAIN team /\ team \in Seq(Creature)
    BY DEF GameInv, DataOK, ScreenOK, HealTeam
  <2>2. team # <<>>
    BY <2>1
  <2> QED
    BY <2>1, <2>2, TeamFacts DEF GameInv, DataOK, HealTeam
<1>2. /\ team' \in Seq(Creature) /\ Alike(team', team)
      /\ \A j \in DOMAIN team : team'[j].hp > 0
  BY <1>1, HealedTeam DEF HealTeam
<1>3. Agree(team', seen', caught') /\ team' # <<>>
  BY <1>1, <1>2, AlikeAgrees, AlikeNotEmpty
<1>8. file \notin {NoFile, Torn} => KeptIn(file.team, team')
  BY <1>2, KeptAlike DEF GameInv, DataOK, ProgressIsSaved
<1>4. DataOK' /\ screen' \in {"hub", "closed"}
  BY <1>1, <1>2, <1>3, <1>8, SavedData DEF HealTeam, GameInv
<1>5. Alive(team') # {}
  <2>1. 1 \in DOMAIN team' /\ team'[1].hp > 0
    BY <1>1, <1>2 DEF Alike
  <2> QED
    BY <1>2, <2>1, SomebodyStands
<1>6. active' \in DOMAIN team' /\ team'[active'].hp > 0
  BY <1>2, <1>5, FirstAliveStands DEF HealTeam
<1>7. active' \in 0 .. Len(team')
  BY <1>2, <1>6, TeamFacts
<1> QED
  BY <1>3, <1>4, <1>6, <1>7 DEF GameInv, ScreenOK, HealTeam

LEMMA SwapLeadInv ==
  ASSUME GameInv, NEW j \in DOMAIN team, SwapLead(j)
  PROVE  GameInv'
<1>1. /\ team \in Seq(Creature) /\ seen' \subseteq Species /\ caught' \in Nat
      /\ Agree(team, seen', caught') /\ Len(team) \in Nat /\ j \in 1 .. Len(team)
  BY TeamFacts DEF GameInv, DataOK, SwapLead
<1>2. /\ team' \in Seq(Creature) /\ Len(team') = Len(team)
      /\ \A k \in DOMAIN team' : \E m \in DOMAIN team : team'[k] = team[m]
  BY <1>1, LeadTeam DEF SwapLead
<1>3. Agree(team', seen', caught')
  BY <1>1, <1>2 DEF Agree
<1>4. team' # <<>>
  <2>1. Len(team') # 0
    BY <1>1, <1>2
  <2> QED
    BY <2>1
<1>7. file \notin {NoFile, Torn} => KeptIn(file.team, team')
  BY <1>1, <1>2, LeadKept, FileKept DEF SwapLead, GameInv
<1>5. DataOK' /\ screen' \in {"team", "closed"}
  BY <1>1, <1>2, <1>3, <1>4, <1>7, SavedData DEF SwapLead, GameInv
<1>6. active' \in 0 .. Len(team')
  BY <1>1, <1>2 DEF SwapLead
<1> QED
  BY <1>4, <1>5, <1>6 DEF GameInv, ScreenOK, SwapLead

(* A creature joins: the starter, or the enemy that was caught.            *)
LEMMA AddToTeamInv ==
  ASSUME DataOK, NEW c \in Creature, NEW next \in {"hub", "won"}, AddToTeam(c, next)
  PROVE  /\ DataOK' /\ screen' \in {next, "closed"}
         /\ team' # <<>> /\ Len(team) \in Nat /\ Len(team') = Len(team) + 1
         /\ team'[Len(team) + 1] = c
<1>1. /\ team \in Seq(Creature) /\ Len(team) \in Nat /\ DOMAIN team = 1 .. Len(team)
      /\ seen \subseteq Species /\ caught \in Nat /\ Agree(team, seen, caught)
  BY TeamFacts DEF DataOK
<1>2. team' = Append(team, c) /\ caught' = caught + 1 /\ seen' = seen \cup {c.species}
  BY DEF AddToTeam
<1>3. /\ team' \in Seq(Creature) /\ Len(team') = Len(team) + 1
      /\ \A j \in 1 .. Len(team) : team'[j] = team[j]
      /\ team'[Len(team) + 1] = c
  BY <1>1, <1>2, AppendProperties
<1>4. DOMAIN team' = 1 .. Len(team) + 1 /\ team' # <<>>
  <2>1. DOMAIN team' = 1 .. Len(team')
    BY <1>3, TeamFacts
  <2>2. Len(team') # 0
    BY <1>1, <1>3
  <2> QED
    BY <1>3, <2>1, <2>2
<1>5. c.species \in Species
  BY DEF Creature
<1>6. Agree(team', seen', caught')
  <2>1. \A j \in DOMAIN team' : team'[j].species \in seen'
    <3>1. \A j \in 1 .. Len(team) + 1 : j \in 1 .. Len(team) \/ j = Len(team) + 1
      BY <1>1
    <3> QED
      BY <1>1, <1>2, <1>3, <1>4, <3>1 DEF Agree
  <2> QED
    BY <1>1, <1>2, <1>3, <2>1 DEF Agree
<1>7. DataOK' /\ screen' \in {next, "closed"}
  <2>1. seen' \subseteq Species /\ caught' \in Nat /\ SaveAndShow(next)
    BY <1>1, <1>2, <1>5 DEF AddToTeam
  <2>2. file \notin {NoFile, Torn} => KeptIn(file.team, team')
    BY <1>1, <1>3, AddKept, FileKept DEF AddToTeam
  <2> QED
    BY <1>3, <1>4, <1>6, <2>1, <2>2, SavedData
<1> QED
  BY <1>1, <1>3, <1>4, <1>7

LEMMA PickStarterInv ==
  ASSUME GameInv, NEW sp \in Starters, NEW max \in MaxHPs, PickStarter(sp, max)
  PROVE  GameInv'
<1> DEFINE c == NewCreature(sp, 5, max)
<1>1. c \in Creature /\ c.hp > 0
  BY OfflineAssumption DEF NewCreature, Creature
<1>2. AddToTeam(c, "hub") /\ DataOK /\ team = <<>> /\ active' = 1 /\ enemy' = enemy
      /\ enemy \in Creature \cup {NoEnemy}
  BY DEF PickStarter, GameInv, ScreenOK
<1> HIDE DEF c
<1>3. /\ DataOK' /\ screen' \in {"hub", "closed"}
      /\ team' # <<>> /\ Len(team) \in Nat /\ Len(team') = Len(team) + 1
      /\ team'[Len(team) + 1] = c
  BY <1>1, <1>2, AddToTeamInv
<1>4. Len(team) = 0
  BY <1>2
<1>5. Len(team') = 1 /\ team'[1].hp > 0 /\ 1 \in DOMAIN team'
  <2>1. team' \in Seq(Creature)
    BY <1>3 DEF DataOK
  <2> QED
    BY <1>1, <1>3, <1>4, <2>1, TeamFacts
<1> QED
  BY <1>2, <1>3, <1>5 DEF GameInv, ScreenOK

LEMMA CatchInv == GameInv /\ Catch => GameInv'
<1> SUFFICES ASSUME GameInv, Catch PROVE GameInv'
  OBVIOUS
<1> DEFINE c == [enemy EXCEPT !.hp = enemy.max]
<1>1. c \in Creature
  <2>1. enemy \in Creature
    BY DEF GameInv, ScreenOK, Catch
  <2> QED
    BY <2>1 DEF Creature
<1>2. /\ AddToTeam(c, "won") /\ DataOK /\ active' = active /\ enemy' = enemy
      /\ active \in 0 .. Len(team) /\ enemy \in Creature \cup {NoEnemy}
  BY DEF Catch, GameInv, ScreenOK
<1> HIDE DEF c
<1>3. /\ DataOK' /\ screen' \in {"won", "closed"}
      /\ team' # <<>> /\ Len(team) \in Nat /\ Len(team') = Len(team) + 1
  BY <1>1, <1>2, AddToTeamInv
<1>4. active' \in 0 .. Len(team')
  BY <1>2, <1>3
<1> QED
  BY <1>2, <1>3, <1>4 DEF GameInv, ScreenOK

LEMMA ExploreInv ==
  ASSUME GameInv, NEW sp \in Species, NEW below \in 1 .. 3, NEW max \in MaxHPs,
         Explore(sp, below, max)
  PROVE  GameInv'
<1>1. /\ team \in Seq(Creature) /\ seen \subseteq Species /\ active \in DOMAIN team
      /\ team[active].hp > 0 /\ active \in 0 .. Len(team)
  BY DEF GameInv, DataOK, ScreenOK, Explore
<1> DEFINE wanted == team[active].level - below
           lv == IF wanted < 2 THEN 2 ELSE wanted
<1>2. lv \in Nat
  BY <1>1, TeamFacts
<1>3. enemy' = NewCreature(sp, lv, max)
  BY DEF Explore
<1> HIDE DEF lv
<1>4. enemy' \in Creature /\ enemy'.hp > 0
  BY <1>2, <1>3, OfflineAssumption DEF NewCreature, Creature
<1>5. DataOK'
  <2>1. /\ DataOK /\ team' \in Seq(Creature) /\ Alike(team', team)
        /\ UNCHANGED <<caught, file, missed>> /\ seen \subseteq seen' /\ seen' \subseteq Species
    BY <1>1 DEF GameInv, Explore, Alike
  <2> QED
    BY <2>1, SameProgress
<1> QED
  BY <1>1, <1>4, <1>5 DEF GameInv, ScreenOK, Explore

LEMMA HitsAreHP ==
  ASSUME NEW hp \in Nat
  PROVE  Hits(hp) \subseteq Nat
BY OfflineAssumption DEF Hits

LEMMA EnemyTurnInv ==
  ASSUME GameInv, screen \in {"battle", "switch"}, NEW j \in DOMAIN team, EnemyTurn(j)
  PROVE  GameInv'
<1>1. DataOK /\ team \in Seq(Creature) /\ enemy \in Creature
  BY DEF GameInv, DataOK, ScreenOK
<1>2. PICK hp \in Hits(team[j].hp) : PostTurn(Hurt(j, hp), j, enemy.hp)
  BY DEF EnemyTurn
<1>3. hp \in Nat /\ enemy.hp \in Nat
  <2>1. team[j].hp \in Nat /\ enemy.hp \in Nat
    BY <1>1, TeamFacts DEF Creature
  <2> QED
    BY <2>1, HitsAreHP
<1>4. Hurt(j, hp) \in Seq(Creature) /\ Alike(Hurt(j, hp), team)
  BY <1>1, <1>3, HurtTeam
<1> QED
  BY <1>1, <1>2, <1>3, <1>4, PostTurnInv

LEMMA PlayerMoveInv == GameInv /\ PlayerMove => GameInv'
<1> SUFFICES ASSUME GameInv, PlayerMove PROVE GameInv'
  OBVIOUS
<1>1. DataOK /\ team \in Seq(Creature) /\ enemy \in Creature /\ active \in DOMAIN team
  BY DEF GameInv, DataOK, ScreenOK, PlayerMove
<1>2. PICK r \in Exchange(team[active].hp, enemy.hp) :
        PostTurn(Hurt(active, r.me), active, r.foe)
  BY DEF PlayerMove
<1>3. r.me \in Nat /\ r.foe \in Nat
  <2>1. team[active].hp \in Nat /\ enemy.hp \in Nat
    BY <1>1, TeamFacts DEF Creature
  <2>2. Hits(team[active].hp) \subseteq Nat /\ Hits(enemy.hp) \subseteq Nat
    BY <2>1, HitsAreHP
  <2> QED
    BY <1>2, <2>1, <2>2 DEF Exchange
<1>4. Hurt(active, r.me) \in Seq(Creature) /\ Alike(Hurt(active, r.me), team)
  BY <1>1, <1>3, HurtTeam
<1> QED
  BY <1>1, <1>2, <1>3, <1>4, PostTurnInv

LEMMA BattleSteps ==
  ASSUME GameInv, CatchFails \/ RunFails \/ \E j \in DOMAIN team : DoSwitch(j)
  PROVE  GameInv'
<1>1. CASE CatchFails \/ RunFails
  <2>1. screen = "battle" /\ active \in DOMAIN team /\ EnemyTurn(active)
    BY <1>1 DEF CatchFails, RunFails, GameInv, ScreenOK
  <2> QED
    BY <2>1, EnemyTurnInv
<1>2. ASSUME NEW j \in DOMAIN team, DoSwitch(j) PROVE GameInv'
  BY <1>2, EnemyTurnInv DEF DoSwitch
<1> QED
  BY <1>1, <1>2

LEMMA NextInv == GameInv /\ [Next]_vars => GameInv'
<1> SUFFICES ASSUME GameInv, [Next]_vars PROVE GameInv'
  OBVIOUS
<1>1. CASE LaunchSaved \/ LaunchNew \/ Kill
  BY <1>1, LaunchSavedInv, LaunchNewInv, ScreenSteps
<1>2. CASE NewGame \/ ShowTeam \/ ShowSwitch \/ CancelSwitch
  BY <1>2, ScreenSteps
<1>3. CASE Back \/ Continue \/ Run \/ HealTeam
  BY <1>3, HubSteps, HealTeamInv
<1>4. ASSUME NEW sp \in Starters, NEW max \in MaxHPs, PickStarter(sp, max) PROVE GameInv'
  BY <1>4, PickStarterInv
<1>5. ASSUME NEW j \in DOMAIN team, SwapLead(j) PROVE GameInv'
  BY <1>5, SwapLeadInv
<1>6. CASE CatchFails \/ RunFails \/ \E j \in DOMAIN team : DoSwitch(j)
  BY <1>6, BattleSteps
<1>7. ASSUME NEW sp \in Species, NEW below \in 1 .. 3, NEW max \in MaxHPs,
             Explore(sp, below, max)
      PROVE  GameInv'
  BY <1>7, ExploreInv
<1>8. CASE PlayerMove \/ Catch
  BY <1>8, PlayerMoveInv, CatchInv
<1>9. CASE UNCHANGED vars
  <2>1. DataOK'
    BY <1>9, SameData DEF GameInv, vars
  <2>2. ScreenOK'
    BY <1>9 DEF GameInv, ScreenOK, vars
  <2> QED
    BY <2>1, <2>2 DEF GameInv
<1> QED
  BY <1>1, <1>2, <1>3, <1>4, <1>5, <1>6, <1>7, <1>8, <1>9 DEF Next

-----------------------------------------------------------------------------
(* The theorems.                                                           *)

(* Team, collection and file belong together, and a screen that is open    *)
(* has what its buttons act on.                                            *)
THEOREM Invariant == Spec => []GameInv
<1> QED
  BY InitInv, NextInv, PTL DEF Spec

(* Every variable stays in its type, the save file included.               *)
THEOREM TypeCorrect == Spec => []TypeOK
<1>1. GameInv => TypeOK
  BY DEF GameInv, DataOK, ScreenOK, TypeOK
<1> QED
  BY <1>1, Invariant, PTL

(* Nobody is sent into a turn who has fainted, nor faces one that has      *)
(* (_post_turn, _on_faint and _first_alive in Game.gd).                    *)
THEOREM NobodyFightsFainted == Spec => []FightersStand
<1>1. GameInv => FightersStand
  BY DEF GameInv, ScreenOK, FightersStand
<1> QED
  BY <1>1, Invariant, PTL

(* Every catch, level and new lead is in the file by the next screen,      *)
(* unless a write was torn or the last save could not open the file; and a *)
(* file that parses never has what the team lacks, so that a missed save   *)
(* costs at most what was won since the last one that worked (save in      *)
(* GameData.gd, called by add_to_team, _win and _swap_lead).               *)
THEOREM NothingOnlyInMemory == Spec => []ProgressIsSaved
<1>1. GameInv => ProgressIsSaved
  BY DEF GameInv, DataOK
<1> QED
  BY <1>1, Invariant, PTL

(* The counters of the collection follow the team, through reloads too     *)
(* (add_to_team and _load_save in GameData.gd).                             *)
THEOREM CountersFollow == Spec => []CountersAgree
<1>1. GameInv => CountersAgree
  BY DEF GameInv, DataOK, Agree, CountersAgree
<1> QED
  BY <1>1, Invariant, PTL

-----------------------------------------------------------------------------
(* Every step keeps the creatures.                                         *)

LEMMA TurnKeeps ==
  ASSUME GameInv, GameInv',
         PlayerMove \/ CatchFails \/ RunFails \/ \E j \in DOMAIN team : DoSwitch(j)
  PROVE  KeptIn(team, team')
<1>1. /\ team \in Seq(Creature) /\ team' \in Seq(Creature)
      /\ \A j \in DOMAIN team : team[j].hp \in Nat
  BY TeamFacts DEF GameInv, DataOK
<1>2. ASSUME NEW j \in DOMAIN team, EnemyTurn(j) PROVE KeptIn(team, team')
  <2>1. PICK hp \in Hits(team[j].hp) : PostTurn(Hurt(j, hp), j, enemy.hp)
    BY <1>2 DEF EnemyTurn
  <2>2. hp \in Nat
    BY <1>1, HitsAreHP
  <2>3. Hurt(j, hp) \in Seq(Creature) /\ Alike(Hurt(j, hp), team)
    BY <1>1, <2>2, HurtTeam
  <2> QED
    BY <1>1, <2>1, <2>3, PostTurnKeeps
<1>3. CASE CatchFails \/ RunFails
  BY <1>2, <1>3 DEF CatchFails, RunFails, GameInv, ScreenOK
<1>4. CASE \E j \in DOMAIN team : DoSwitch(j)
  BY <1>2, <1>4 DEF DoSwitch
<1>5. CASE PlayerMove
  <2>1. active \in DOMAIN team /\ enemy.hp \in Nat
    BY <1>5 DEF PlayerMove, GameInv, ScreenOK, Creature
  <2>2. PICK r \in Exchange(team[active].hp, enemy.hp) :
          PostTurn(Hurt(active, r.me), active, r.foe)
    BY <1>5 DEF PlayerMove
  <2>3. r.me \in Nat
    <3>1. Hits(team[active].hp) \subseteq Nat
      BY <1>1, <2>1, HitsAreHP
    <3> QED
      BY <1>1, <2>1, <2>2, <3>1 DEF Exchange
  <2>4. Hurt(active, r.me) \in Seq(Creature) /\ Alike(Hurt(active, r.me), team)
    BY <1>1, <2>1, <2>3, HurtTeam
  <2> QED
    BY <1>1, <2>1, <2>2, <2>4, PostTurnKeeps
<1> QED
  BY <1>3, <1>4, <1>5

(* A restart: what was in memory is in the file, if the last save wrote it.*)
LEMMA LaunchKeeps ==
  ASSUME GameInv, GameInv', LaunchSaved \/ LaunchNew, file # Torn, ~missed
  PROVE  KeptIn(team, team')
<1>1. /\ team \in Seq(Creature) /\ team' \in Seq(Creature)
      /\ Progress(team) = IF file = NoFile THEN <<>> ELSE Progress(file.team)
  BY DEF GameInv, DataOK, ProgressIsSaved
<1>2. /\ \A t, u : Progress(t) = Progress(u) =>
            /\ DOMAIN t = DOMAIN u
            /\ \A j \in DOMAIN t : t[j].species = u[j].species /\ t[j].level = u[j].level
  <2> SUFFICES ASSUME NEW t, NEW u, Progress(t) = Progress(u)
               PROVE  /\ DOMAIN t = DOMAIN u
                      /\ \A j \in DOMAIN t : /\ t[j].species = u[j].species
                                             /\ t[j].level = u[j].level
    OBVIOUS
  <2>1. DOMAIN Progress(t) = DOMAIN t /\ DOMAIN Progress(u) = DOMAIN u
    BY DEF Progress
  <2>2. ASSUME NEW j \in DOMAIN t
        PROVE  t[j].species = u[j].species /\ t[j].level = u[j].level
    <3>1. <<t[j].species, t[j].level>> = <<u[j].species, u[j].level>>
      BY <2>1 DEF Progress
    <3> QED
      BY <3>1
  <2> QED
    BY <2>1, <2>2
<1>3. CASE LaunchNew
  <2>1. Progress(team) = <<>> /\ team' = <<>>
    BY <1>1, <1>3 DEF LaunchNew
  <2>2. DOMAIN team = {}
    <3>1. DOMAIN Progress(team) = DOMAIN team
      BY DEF Progress
    <3> QED
      BY <2>1, <3>1
  <2>3. Alike(team', team)
    BY <1>1, <2>1, <2>2, TeamFacts DEF Alike
  <2> QED
    BY <1>1, <2>3, AlikeKept
<1>4. CASE LaunchSaved
  <2>1. file \in Saved /\ Progress(team) = Progress(file.team)
    BY <1>1, <1>4 DEF LaunchSaved, GameInv, DataOK
  <2>2. PICK maxes \in [DOMAIN file.team -> MaxHPs] : Hub(Loaded(maxes), FALSE)
    BY <1>4 DEF LaunchSaved
  <2>3. Loaded(maxes) \in Seq(Creature) /\ Alike(Loaded(maxes), team)
    <3>1. /\ Loaded(maxes) \in Seq(Creature) /\ DOMAIN Loaded(maxes) = DOMAIN file.team
          /\ \A j \in DOMAIN file.team : /\ Loaded(maxes)[j].species = file.team[j].species
                                         /\ Loaded(maxes)[j].level = file.team[j].level
      BY <2>1, LoadedTeam
    <3>2. DOMAIN file.team = DOMAIN team /\ \A j \in DOMAIN file.team :
            file.team[j].species = team[j].species /\ file.team[j].level = team[j].level
      BY <1>2, <2>1
    <3>3. DOMAIN Loaded(maxes) = DOMAIN team
      BY <3>1, <3>2
    <3>4. Len(Loaded(maxes)) = Len(team)
      BY <1>1, <3>1, <3>3, TeamFacts
    <3> QED
      BY <3>1, <3>2, <3>3, <3>4 DEF Alike
  <2> QED
    BY <1>1, <2>2, <2>3, HubKeeps
<1> QED
  BY <1>3, <1>4

LEMMA NextKeeps ==
  ASSUME GameInv, GameInv', [Next]_vars
  PROVE  KeptIn(team, team') \/ (screen = "closed" /\ (file = Torn \/ missed))
<1>1. /\ team \in Seq(Creature) /\ team' \in Seq(Creature)
      /\ Alike(team, team)
  BY DEF GameInv, DataOK, Alike
<1>2. CASE team' = team
  BY <1>1, <1>2, AlikeKept
<1>3. CASE LaunchSaved \/ LaunchNew
  BY <1>3, LaunchKeeps DEF LaunchSaved, LaunchNew
<1>4. CASE Back \/ Continue \/ Run
  BY <1>1, <1>4, HubKeeps DEF Back, Continue, Run, ShowHub
<1>5. CASE HealTeam
  <2>1. team' = Healed(team) /\ Alike(Healed(team), team)
    BY <1>1, <1>5, HealedTeam DEF HealTeam
  <2> QED
    BY <1>1, <2>1, AlikeKept
<1>6. ASSUME NEW j \in DOMAIN team, SwapLead(j) PROVE KeptIn(team, team')
  BY <1>1, <1>6, LeadKept DEF SwapLead
<1>7. CASE PlayerMove \/ CatchFails \/ RunFails \/ \E j \in DOMAIN team : DoSwitch(j)
  BY <1>7, TurnKeeps
<1>8. ASSUME NEW c \in Creature, NEW next, AddToTeam(c, next) PROVE KeptIn(team, team')
  BY <1>1, <1>8, AddKept DEF AddToTeam
<1>9. ASSUME NEW sp \in Starters, NEW max \in MaxHPs, PickStarter(sp, max)
      PROVE  KeptIn(team, team')
  <2>1. NewCreature(sp, 5, max) \in Creature
    BY OfflineAssumption DEF NewCreature, Creature
  <2> QED
    BY <1>8, <1>9, <2>1 DEF PickStarter
<1>10. CASE Catch
  <2>1. [enemy EXCEPT !.hp = enemy.max] \in Creature
    BY <1>10 DEF Catch, GameInv, ScreenOK, Creature
  <2> QED
    BY <1>8, <1>10, <2>1 DEF Catch
<1>11. ASSUME NEW sp \in Species, NEW below \in 1 .. 3, NEW max \in MaxHPs,
              Explore(sp, below, max)
       PROVE  team' = team
  BY <1>11 DEF Explore
<1>12. CASE NewGame \/ ShowTeam \/ ShowSwitch \/ CancelSwitch \/ Kill \/ UNCHANGED vars
  <2>1. team' = team
    BY <1>12 DEF NewGame, ShowTeam, ShowSwitch, CancelSwitch, Kill, vars
  <2> QED
    BY <1>2, <2>1
<1> QED
  BY <1>2, <1>3, <1>4, <1>5, <1>6, <1>7, <1>9, <1>10, <1>11, <1>12 DEF Next

(* No tap, knock-out or catch takes a creature or a level away from the    *)
(* team, whatever becomes of the saves; nor does a restart, unless the     *)
(* file was torn or the last save could not open it (GameData.gd:          *)
(* add_to_team, save and _load_save; Game.gd: _win and _swap_lead).        *)
THEOREM NobodyIsLost == Spec => TeamOnlyGrows
<1>1. GameInv /\ GameInv' /\ [Next]_vars =>
        [KeptIn(team, team') \/ (screen = "closed" /\ (file = Torn \/ missed))]_vars
  BY NextKeeps
<1> QED
  BY <1>1, Invariant, PTL DEF Spec, TeamOnlyGrows
=============================================================================
