-------------------------------- MODULE Repo --------------------------------
(***************************************************************************)
(* The profile service's persistence boundary: the creature table, as a    *)
(* function from instance ids to rows, and what the two implementations    *)
(* of the Repo interface (MemRepo, PGRepo) do to it.  Every repo call is   *)
(* one critical section (a mutex, or one SQL transaction), so each is an   *)
(* operator from a table to a table; the callers are in Profile.           *)
(*                                                                         *)
(* AddCreature and TransferOwnership are left out: no code calls them.     *)
(***************************************************************************)
EXTENDS Integers, Sequences

CONSTANTS
  Accounts,    \* account ids
  Creatures,   \* creature instance ids
  Forms,       \* dex ids of the species in the Dex, positive integers
  Abilities,   \* passive abilities
  Backend      \* the Repo that DATABASE_URL selects

ASSUME RepoAssumption ==
  /\ Backend \in {"memory", "postgres"}
  /\ Forms \subseteq Nat \ {0}

(* A row of creature_instances; level, XP, genes and nickname never change *)
(* in this service and are no part of it.                                  *)
OwnedCreature == [owner : Accounts, form : Forms, ability : Abilities]

OwnershipTransfer == [id : Creatures, from : Accounts, to : Accounts]

(* UpdateCreature: MemRepo stores the caller's whole copy, its OwnerID     *)
(* included; the SQL UPDATE leaves owner_id out.                           *)
UpdateCreature(table, c, oc) ==
  IF Backend = "memory"
  THEN [table EXCEPT ![c] = oc]
  ELSE [table EXCEPT ![c] = [oc EXCEPT !.owner = table[c].owner]]

-----------------------------------------------------------------------------
(* TransferBatch.                                                          *)

(* The earlier transfers of the creature that transfer i moves.            *)
Earlier(ts, i) == {j \in 1 .. (i - 1) : ts[j].id = ts[i].id}

(* The last transfer of creature c, for a batch that has one.              *)
LastOf(ts, c) ==
  CHOOSE i \in DOMAIN ts :
    ts[i].id = c /\ \A j \in DOMAIN ts : ts[j].id = c => j <= i

(* MemRepo validates every transfer against the table as it was before     *)
(* the batch.                                                              *)
MemBatchOK(table, ts) ==
  \A i \in DOMAIN ts : table[ts[i].id].owner = ts[i].from

(* Mutant of PGBatchOK: only the first UPDATE is guarded.                  *)
PGBatchFirstOnly(table, ts) ==
  \A i \in DOMAIN ts : i = 1 => table[ts[i].id].owner = ts[i].from

(* PGRepo runs one guarded UPDATE per transfer: transfer i sees the rows   *)
(* the earlier ones wrote.                                                 *)
PGBatchOK(table, ts) ==
  \A i \in DOMAIN ts :
    IF Earlier(ts, i) = {}
    THEN table[ts[i].id].owner = ts[i].from
    ELSE \A j \in Earlier(ts, i) :
           (\A k \in Earlier(ts, i) : k <= j) => ts[j].to = ts[i].from

BatchOK(table, ts) ==
  IF Backend = "memory" THEN MemBatchOK(table, ts) ELSE PGBatchOK(table, ts)

(* The table after every transfer of the batch has been applied in order.  *)
ApplyBatch(table, ts) ==
  [c \in Creatures |->
     IF \E i \in DOMAIN ts : ts[i].id = c
     THEN [table[c] EXCEPT !.owner = ts[LastOf(ts, c)].to]
     ELSE table[c]]
=============================================================================
