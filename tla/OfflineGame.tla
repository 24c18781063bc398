----------------------------- MODULE OfflineGame -----------------------------
(***************************************************************************)
(* The single-player game of the Godot client: its screens (Game.gd), the  *)
(* team and the save file (GameData.gd), storage that may refuse a write,  *)
(* and a process that the phone may kill at any time, also while it writes *)
(* the file.  An action is one tap: a button's whole callback, up to the   *)
(* screen it leaves behind.                                                *)
(*                                                                         *)
(* HP are counted in small numbers, and a new creature has one of MaxHPs,  *)
(* whatever its level, for the IVs that make_battler rolls.  Speed and the *)
(* damage formula are choices.  Moves, the status (always 0) and the       *)
(* enemy of a battle that is over are left out.                            *)
(***************************************************************************)
EXTENDS Integers, Sequences, SequencesExt

CONSTANTS
  Species,    \* dex ids
  Starters,   \* those the first creature is chosen from
  MaxHPs,     \* max HP that the rolled IVs may give
  MaxDamage,  \* most HP one attack takes
  MaxLevel,   \* bound: nobody explores beyond this level
  TeamCap,    \* bound: most creatures that are caught
  NoEnemy,    \* no battle is going on
  NoFile,     \* there is no save file
  Torn        \* a save file that does not parse

Creature == [species : Species, level : Nat, max : Nat \ {0}, hp : Nat]

(* A save file that parses.                                                *)
Saved == [team : Seq([species : Species, level : Nat, hp : Nat]),
          seen : SUBSET Species, caught : Nat]

ASSUME OfflineAssumption ==
  /\ Starters \subseteq Species
  /\ MaxHPs \subseteq Nat \ {0} /\ MaxHPs # {}
  /\ MaxDamage \in Nat
  /\ NoFile # Torn /\ {NoFile, Torn} \cap Saved = {}

VARIABLES
  screen,  \* what the player sees; "closed" when no process runs
  team,    \* GameData.team; kept as a history while no process runs
  active,  \* index of the creature in the field, from 1
  enemy,   \* the wild creature
  seen,    \* GameData.seen
  caught,  \* GameData.caught_count
  file,    \* user://save.json
  missed   \* history: the last save() could not open the file

vars == <<screen, team, active, enemy, seen, caught, file, missed>>

-----------------------------------------------------------------------------

NewCreature(sp, level, max) == [species |-> sp, level |-> level, max |-> max, hp |-> max]

Alive(t) == {i \in DOMAIN t : t[i].hp > 0}

(* Mutant of FirstAlive: the head of the team.                             *)
HeadOfTeam(t) == IF Alive(t) = {} THEN 0 ELSE 1

(* _first_alive; 0 stands for none.                                        *)
FirstAlive(t) == SelectInSeq(t, LAMBDA c : c.hp > 0)

Healed(t) == [i \in DOMAIN t |-> [t[i] EXCEPT !.hp = t[i].max]]

(* What save() writes: neither max HP nor IVs.                             *)
Image(t, s, n) ==
  [team |-> [i \in DOMAIN t |->
     [species |-> t[i].species, level |-> t[i].level, hp |-> t[i].hp]],
   seen |-> s, caught |-> n]

(* save(), then the next screen.  A file that cannot be opened stays as it *)
(* was, and the game goes on.  Opening it empties it: when the process is  *)
(* killed or the storage is full before all is written, what is left does  *)
(* not parse.                                                              *)
SaveAndShow(next) ==
  \/ screen' = next /\ file' = Image(team', seen', caught') /\ missed' = FALSE
  \/ screen' = next /\ UNCHANGED file /\ missed' = TRUE
  \/ screen' \in {next, "closed"} /\ file' = Torn /\ missed' = FALSE

(* Mutant of AddToTeam: the file is written before the counter goes up.    *)
AddToTeamUncounted(c, next) ==
  /\ team' = Append(team, c)
  /\ caught' = caught + 1
  /\ seen' = seen \cup {c.species}
  /\ screen' = next
  /\ file' = Image(team', seen', caught)
  /\ missed' = FALSE

AddToTeam(c, next) ==
  /\ team' = Append(team, c)
  /\ caught' = caught + 1
  /\ seen' = seen \cup {c.species}
  /\ SaveAndShow(next)

(* show_hub, with the team t; a team that has all fainted is healed and    *)
(* saved.  Without a save, m says whether the last one was missed.         *)
Hub(t, m) ==
  IF Alive(t) = {}
  THEN team' = Healed(t) /\ active' = 1 /\ SaveAndShow("hub")
  ELSE /\ team' = t
       /\ active' = FirstAlive(t)
       /\ screen' = "hub"
       /\ missed' = m
       /\ UNCHANGED file

(* The battle screen, with nothing else changed than the team's HP.        *)
Fight(t) ==
  /\ team' = t
  /\ screen' = "battle"
  /\ UNCHANGED <<file, missed>>

-----------------------------------------------------------------------------
(* The process.                                                            *)

(* _ready: the creatures of the file are made anew and given their HP.     *)
Loaded(maxes) ==
  [i \in DOMAIN file.team |->
     [NewCreature(file.team[i].species, file.team[i].level, maxes[i])
        EXCEPT !.hp = file.team[i].hp]]

LaunchSaved ==
  /\ screen = "closed"
  /\ file \notin {NoFile, Torn}
  /\ seen' = file.seen
  /\ caught' = file.caught
  /\ enemy' = NoEnemy
  /\ \E maxes \in [DOMAIN file.team -> MaxHPs] : Hub(Loaded(maxes), FALSE)

LaunchNew ==
  /\ screen = "closed"
  /\ file \in {NoFile, Torn}
  /\ team' = <<>>
  /\ active' = 0
  /\ seen' = {}
  /\ caught' = 0
  /\ enemy' = NoEnemy
  /\ screen' = "title"
  /\ missed' = FALSE
  /\ UNCHANGED file

(* The phone kills the process between two taps.                           *)
Kill ==
  /\ screen # "closed"
  /\ screen' = "closed"
  /\ enemy' = NoEnemy
  /\ active' = 0
  /\ UNCHANGED <<team, seen, caught, file, missed>>

-----------------------------------------------------------------------------
(* Title, starter, hub and team screens.                                   *)

NewGame ==
  /\ screen = "title"
  /\ screen' = "starter"
  /\ UNCHANGED <<team, active, enemy, seen, caught, file, missed>>

PickStarter(sp, max) ==
  /\ screen = "starter"
  /\ AddToTeam(NewCreature(sp, 5, max), "hub")
  /\ active' = 1
  /\ UNCHANGED enemy

(* To the hub from the team screen, a finished battle or a successful run. *)
ShowHub ==
  /\ enemy' = NoEnemy
  /\ UNCHANGED <<seen, caught>>
  /\ Hub(team, missed)

Back == screen = "team" /\ ShowHub

Continue == screen = "won" /\ ShowHub

HealTeam ==
  /\ screen = "hub"
  /\ team' = Healed(team)
  /\ active' = FirstAlive(team')
  /\ UNCHANGED <<enemy, seen, caught>>
  /\ SaveAndShow("hub")

ShowTeam ==
  /\ screen = "hub"
  /\ screen' = "team"
  /\ UNCHANGED <<team, active, enemy, seen, caught, file, missed>>

(* Mutant of Lead: the old lead is overwritten.                            *)
LeadOver(t, i) == [t EXCEPT ![1] = t[i]]

Lead(t, i) == <<t[i]>> \o RemoveAt(t, i)

(* Mutant of SwapLead: the new order is not saved.                         *)
SwapLeadUnsaved(i) ==
  /\ screen = "team"
  /\ i \in DOMAIN team
  /\ team' = Lead(team, i)
  /\ active' = 1
  /\ UNCHANGED <<screen, enemy, seen, caught, file, missed>>

SwapLead(i) ==
  /\ screen = "team"
  /\ i \in DOMAIN team
  /\ team' = Lead(team, i)
  /\ active' = 1
  /\ UNCHANGED <<enemy, seen, caught>>
  /\ SaveAndShow("team")

(* A wild creature one to three levels below the lead.  It counts as seen, *)
(* which is not saved yet.                                                 *)
Explore(sp, below, max) ==
  /\ screen = "hub"
  /\ \A i \in DOMAIN team : team[i].level < MaxLevel
  /\ LET wanted == team[active].level - below
     IN  enemy' = NewCreature(sp, IF wanted < 2 THEN 2 ELSE wanted, max)
  /\ seen' = seen \cup {sp}
  /\ screen' = "battle"
  /\ UNCHANGED <<team, active, caught, file, missed>>

-----------------------------------------------------------------------------
(* Battle.                                                                 *)

(* Mutant of Hits: HP may fall below zero.                                 *)
HitsUnclamped(hp) == {hp - d : d \in 0 .. MaxDamage}

(* _apply: HP that an attack, which may miss or do nothing, leaves.        *)
Hits(hp) == {IF d < hp THEN hp - d ELSE 0 : d \in 0 .. MaxDamage}

(* A move of each, the faster one first: the HP of the two afterwards.     *)
Exchange(me, foe) ==
  {[me |-> IF foe2 > 0 THEN me2 ELSE me, foe |-> foe2] : me2 \in Hits(me), foe2 \in Hits(foe)}
    \cup
  {[me |-> me2, foe |-> IF me2 > 0 THEN foe2 ELSE foe] : me2 \in Hits(me), foe2 \in Hits(foe)}

Hurt(i, hp) == [team EXCEPT ![i].hp = hp]

(* _win: creature i, which is in the field, grows; the team is saved.      *)
Win(t, i) ==
  LET c == t[i]
      max == c.max + 3
      grown == [c EXCEPT !.level = @ + 1, !.max = max,
                         !.hp = IF @ + 3 < max THEN @ + 3 ELSE max]
  IN  /\ team' = [t EXCEPT ![i] = grown]
      /\ active' = i
      /\ UNCHANGED <<seen, caught>>
      /\ SaveAndShow("won")

(* _on_faint: the first that can fight comes out; with nobody left, the    *)
(* team is healed and saved.                                               *)
OnFaint(t, i) ==
  /\ UNCHANGED <<seen, caught>>
  /\ \/ /\ Alive(t) = {}
        /\ team' = Healed(t)
        /\ active' = i
        /\ SaveAndShow("won")
     \/ /\ Alive(t) # {}
        /\ active' = FirstAlive(t)
        /\ Fight(t)

(* _post_turn, with the team t and the enemy's HP after a turn in which    *)
(* creature i was in the field.                                            *)
PostTurn(t, i, foe) ==
  /\ enemy' = [enemy EXCEPT !.hp = foe]
  /\ \/ foe <= 0 /\ Win(t, i)
     \/ foe > 0 /\ t[i].hp <= 0 /\ OnFaint(t, i)
     \/ foe > 0 /\ t[i].hp > 0 /\ active' = i /\ Fight(t) /\ UNCHANGED <<seen, caught>>

PlayerMove ==
  /\ screen = "battle"
  /\ \E r \in Exchange(team[active].hp, enemy.hp) :
       PostTurn(Hurt(active, r.me), active, r.foe)

(* The enemy alone has a turn, against creature i.                         *)
EnemyTurn(i) ==
  \E hp \in Hits(team[i].hp) : PostTurn(Hurt(i, hp), i, enemy.hp)

(* The Bond Orb works: the enemy joins with full HP.                       *)
Catch ==
  /\ screen = "battle"
  /\ Len(team) < TeamCap
  /\ AddToTeam([enemy EXCEPT !.hp = enemy.max], "won")
  /\ UNCHANGED <<active, enemy>>

CatchFails == screen = "battle" /\ EnemyTurn(active)

ShowSwitch ==
  /\ screen = "battle"
  /\ screen' = "switch"
  /\ UNCHANGED <<team, active, enemy, seen, caught, file, missed>>

CancelSwitch ==
  /\ screen = "switch"
  /\ screen' = "battle"
  /\ UNCHANGED <<team, active, enemy, seen, caught, file, missed>>

DoSwitch(i) ==
  /\ screen = "switch"
  /\ i \in Alive(team) \ {active}
  /\ EnemyTurn(i)

Run == screen = "battle" /\ ShowHub

RunFails == screen = "battle" /\ EnemyTurn(active)

-----------------------------------------------------------------------------

(* The app is installed and not started yet.                               *)
Init ==
  /\ screen = "closed"
  /\ team = <<>>
  /\ active = 0
  /\ enemy = NoEnemy
  /\ seen = {}
  /\ caught = 0
  /\ file = NoFile
  /\ missed = FALSE

Next ==
  \/ LaunchSaved \/ LaunchNew \/ Kill
  \/ NewGame \/ Back \/ Continue \/ HealTeam \/ ShowTeam
  \/ \E sp \in Starters, max \in MaxHPs : PickStarter(sp, max)
  \/ \E i \in DOMAIN team : SwapLead(i) \/ DoSwitch(i)
  \/ \E sp \in Species, below \in 1 .. 3, max \in MaxHPs : Explore(sp, below, max)
  \/ PlayerMove \/ Catch \/ CatchFails
  \/ ShowSwitch \/ CancelSwitch
  \/ Run \/ RunFails

Spec == Init /\ [][Next]_vars

-----------------------------------------------------------------------------
(* Properties.                                                             *)

(* Type correctness.                                                       *)
TypeOK ==
  /\ screen \in {"closed", "title", "starter", "hub", "team", "battle", "switch", "won"}
  /\ team \in Seq(Creature)
  /\ active \in 0 .. Len(team)
  /\ enemy \in Creature \cup {NoEnemy}
  /\ seen \subseteq Species
  /\ caught \in Nat
  /\ file \in Saved \cup {NoFile, Torn}
  /\ missed \in BOOLEAN

(* Whoever the player is about to send into a turn, and the wild creature  *)
(* facing it, can still fight: however knock-outs, switches, failed        *)
(* catches, healing, swaps of the lead and restarts follow each other.     *)
FightersStand ==
  /\ screen \in {"hub", "battle", "switch"} =>
       active \in DOMAIN team /\ team[active].hp > 0
  /\ screen \in {"battle", "switch"} => enemy.hp > 0

Progress(t) == [i \in DOMAIN t |-> <<t[i].species, t[i].level>>]

(* Every creature of t is in u, at a place of its own, and at its level or *)
(* above.                                                                  *)
KeptIn(t, u) ==
  \E place \in Injection(DOMAIN t, DOMAIN u) :
    \A i \in DOMAIN t : /\ u[place[i]].species = t[i].species
                        /\ u[place[i]].level >= t[i].level

(* A catch, a level or a new lead is in the file by the next screen,       *)
(* unless a write was torn or the last save could not open the file: a     *)
(* kill between two taps then brings the same creatures back, at the same  *)
(* levels and in the same order.  However many saves are missed, a file    *)
(* that parses is of an earlier state of this very team: what it lacks is  *)
(* what was won since, and it has nothing the team does not.               *)
ProgressIsSaved ==
  /\ file # Torn /\ ~missed =>
       Progress(team) = IF file = NoFile THEN <<>> ELSE Progress(file.team)
  /\ file \notin {NoFile, Torn} => KeptIn(file.team, team)

(* The collection counters agree with the team, in memory and in the file, *)
(* after any sequence of catches, kills and reloads.                       *)
CountersAgree ==
  LET Agree(t, s, n) == n = Len(t) /\ \A i \in DOMAIN t : t[i].species \in s
  IN  /\ Agree(team, seen, caught)
      /\ file \notin {NoFile, Torn} => Agree(file.team, file.seen, file.caught)

(* Nobody disappears and no level is lost while the game runs, whatever    *)
(* becomes of its saves; nor over a restart, unless the file was torn or   *)
(* the last save before it could not open the file.                        *)
TeamOnlyGrows ==
  [][KeptIn(team, team') \/ (screen = "closed" /\ (file = Torn \/ missed))]_vars
=============================================================================
