---------------------------- MODULE Matchmaking ----------------------------
(***************************************************************************)
(* Pair, the matcher's pairing of one snapshot of the queue.  A step is    *)
(* one pass of the outer loop: the ticket at position i of its group,      *)
(* which is sorted by rating, takes the best of the later ones or stays.   *)
(* Groups (one per region and mode) are served one after the other.        *)
(*                                                                         *)
(* Ratings, waiting times (in seconds) and the tolerance that RD / 4 adds  *)
(* are whole numbers here.                                                 *)
(***************************************************************************)
EXTENDS Integers, Sequences, FiniteSets, FiniteSetsExt, SequencesExt

CONSTANTS
  Tickets,  \* the players in the queue
  Regions,  \* region and mode
  Ratings, Waits, Tolerances,
  BaseBand, WidenPerSec, MaxBand, HardTimeout  \* the policy

ASSUME MatchmakingAssumption ==
  /\ IsFiniteSet(Tickets)
  /\ {BaseBand, WidenPerSec, MaxBand, HardTimeout} \subseteq Nat
  /\ Ratings \subseteq Int /\ Waits \subseteq Nat /\ Tolerances \subseteq Nat

VARIABLES
  pool,     \* the snapshot: what is known of each ticket
  keys,     \* groups not yet served
  group,    \* the group that is being served, sorted by rating
  i,        \* the position the outer loop has reached
  used,     \* tickets of the group that are matched
  matches,  \* the matches made, as sets of two tickets
  leftover  \* unmatched tickets of the groups that have been served

vars == <<pool, keys, group, i, used, matches, leftover>>

Ticket == [mmr : Ratings, wait : Waits, rd : Tolerances, region : Regions]

-----------------------------------------------------------------------------

Band(t) ==
  Min({BaseBand + pool[t].wait * WidenPerSec + pool[t].rd, MaxBand})

Gap(s, t) == IF pool[s].mmr < pool[t].mmr THEN pool[t].mmr - pool[s].mmr
             ELSE pool[s].mmr - pool[t].mmr

TimedOut(t) == pool[t].wait > HardTimeout

(* The gap is outside the bands of both.                                   *)
TooFar(s, t) == Gap(s, t) > Band(s) /\ Gap(s, t) > Band(t)

Acceptable(s, t) == ~TooFar(s, t) \/ TimedOut(s) \/ TimedOut(t)

(* Positions after i that the inner loop gets to: it skips used tickets    *)
(* and stops after the first that is too far.                              *)
Visited ==
  {j \in i + 1 .. Len(group) :
     /\ group[j] \notin used
     /\ \A k \in i + 1 .. j - 1 : group[k] \in used \/ ~TooFar(group[i], group[k])}

(* Mutants of Candidates: the last one visited may be too far away; the    *)
(* gap must be inside the bands of both.                                   *)
AnyVisited == Visited

InBothBands ==
  {j \in Visited : Gap(group[i], group[j]) <= Min({Band(group[i]), Band(group[j])})}

Candidates == {j \in Visited : Acceptable(group[i], group[j])}

(* The smallest gap, the first of equals.                                  *)
Best ==
  CHOOSE j \in Candidates :
    \A k \in Candidates :
      \/ Gap(group[i], group[j]) < Gap(group[i], group[k])
      \/ Gap(group[i], group[j]) = Gap(group[i], group[k]) /\ j <= k

-----------------------------------------------------------------------------

Members(k) == {t \in Tickets : pool[t].region = k}

(* Sorting by rating leaves the order of equal ratings open.               *)
Sorted(S) ==
  {q \in SetToSeqs(S) : \A m, n \in DOMAIN q : m < n => pool[q[m]].mmr <= pool[q[n]].mmr}

(* Mutant of StartGroup: the loop starts one position early.               *)
StartGroupEarly(k) ==
  /\ group = <<>>
  /\ k \in keys
  /\ keys' = keys \ {k}
  /\ group' \in Sorted(Members(k))
  /\ i' = 0
  /\ used' = {}
  /\ UNCHANGED <<pool, matches, leftover>>

StartGroup(k) ==
  /\ group = <<>>
  /\ k \in keys
  /\ keys' = keys \ {k}
  /\ group' \in Sorted(Members(k))
  /\ i' = 1
  /\ used' = {}
  /\ UNCHANGED <<pool, matches, leftover>>

Scanning == group # <<>> /\ i <= Len(group)

Skip ==
  /\ Scanning
  /\ group[i] \in used \/ Candidates = {}
  /\ i' = i + 1
  /\ UNCHANGED <<pool, keys, group, used, matches, leftover>>

(* Mutant of Match: the opponent is not marked.                            *)
MatchHalfMarked ==
  /\ Scanning
  /\ group[i] \notin used
  /\ Candidates # {}
  /\ used' = used \cup {group[i]}
  /\ matches' = matches \cup {{group[i], group[Best]}}
  /\ i' = i + 1
  /\ UNCHANGED <<pool, keys, group, leftover>>

Match ==
  /\ Scanning
  /\ group[i] \notin used
  /\ Candidates # {}
  /\ used' = used \cup {group[i], group[Best]}
  /\ matches' = matches \cup {{group[i], group[Best]}}
  /\ i' = i + 1
  /\ UNCHANGED <<pool, keys, group, leftover>>

EndGroup ==
  /\ group # <<>>
  /\ i > Len(group)
  /\ leftover' = leftover \cup (ToSet(group) \ used)
  /\ group' = <<>>
  /\ UNCHANGED <<pool, keys, i, used, matches>>

Done == group = <<>> /\ keys = {}

-----------------------------------------------------------------------------

Init ==
  /\ pool \in [Tickets -> Ticket]
  /\ keys = {k \in Regions : Members(k) # {}}
  /\ group = <<>>
  /\ i = 1
  /\ used = {}
  /\ matches = {}
  /\ leftover = {}

Next ==
  \/ \E k \in Regions : StartGroup(k)
  \/ Skip
  \/ Match
  \/ EndGroup

Spec == Init /\ [][Next]_vars

-----------------------------------------------------------------------------
(* Properties.                                                             *)

(* Type correctness.                                                       *)
TypeOK ==
  /\ pool \in [Tickets -> Ticket]
  /\ keys \subseteq Regions
  /\ group \in Seq(Tickets)
  /\ i \in 1 .. Len(group) + 1 \/ group = <<>>
  /\ used \subseteq Tickets /\ leftover \subseteq Tickets
  /\ matches \subseteq SUBSET Tickets

(* Every player comes out once: in one match of two, or in the queue.      *)
EveryoneOnce ==
  /\ \A m \in matches : Cardinality(m) = 2 /\ m \cap leftover = {}
  /\ \A m, n \in matches : m = n \/ m \cap n = {}
  /\ Done => leftover \cup UNION matches = Tickets

(* A match stays in one region and mode, and is one that a player of it    *)
(* was ready for: within a band, or after the hard timeout.                *)
MatchesAreFair ==
  \A m \in matches : \A s, t \in m : s # t =>
    pool[s].region = pool[t].region /\ Acceptable(s, t)

(* A ticket of s's region, rated from s to t, that s would not take, nor   *)
(* it s: a scan from s that meets it does not get as far as t.             *)
Between(s, t) ==
  {u \in Tickets \ {s, t} :
     /\ pool[u].region = pool[s].region
     /\ pool[s].mmr <= pool[u].mmr /\ pool[u].mmr <= pool[t].mmr}

Hidden(s, t) == \E u \in Between(s, t) : ~Acceptable(s, u)

(* Although others are taken in between, two players of a region who could *)
(* have been matched are both left for one reason only: the scan from the  *)
(* lower-rated one stopped at somebody nearer whom it could not take.  A   *)
(* higher-rated player with a wider band, or past the hard timeout, may be *)
(* passed over behind such a one, and in no other way.  So the lower-rated *)
(* one of two who are left has not timed out, nor the other in its band.   *)
NobodyInReachIsLeft ==
  Done => \A s, t \in leftover :
    /\ s # t
    /\ pool[s].region = pool[t].region /\ pool[s].mmr <= pool[t].mmr
    /\ Acceptable(s, t)
    => Hidden(s, t)
=============================================================================
