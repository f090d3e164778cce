--------------------------- MODULE ReadCommitted ---------------------------
(***************************************************************************)
(* The part of PostgreSQL the payment code relies on: rows, and database   *)
(* transactions at READ COMMITTED, the isolation level in force as         *)
(* dataSource.transaction(...) asks for no other.  A statement sees what   *)
(* was committed when it started and what its own transaction wrote.  A    *)
(* row is written by one open transaction at a time; whoever comes second  *)
(* waits, then goes on from the row as it has become.                      *)
(***************************************************************************)
EXTENDS TLC

CONSTANT Requests     \* each runs in one database transaction at a time

VARIABLES
  committed,   \* the committed version of every row
  written      \* the versions each open transaction has written

NothingWritten == [row \in {} |-> 0]

(* Versions of rows, as functions.  (TLC has operators for these two; the  *)
(* prover does not know them.)                                             *)
NewVersion(row, version) == [key \in {row} |-> version]

newer \uplus older ==
  [row \in DOMAIN newer \union DOMAIN older |->
     IF row \in DOMAIN newer THEN newer[row] ELSE older[row]]

Sees(p, row) == IF row \in DOMAIN written[p] THEN written[p][row]
                ELSE committed[row]

Writes(p, versions) ==
  /\ written' = [written EXCEPT ![p] = versions \uplus @]
  /\ UNCHANGED committed

OnlyReads == UNCHANGED <<committed, written>>

Commits(p) ==
  /\ committed' = written[p] \uplus committed
  /\ written'   = [written EXCEPT ![p] = NothingWritten]

RollsBack(p) ==
  /\ written' = [written EXCEPT ![p] = NothingWritten]
  /\ UNCHANGED committed

(* TypeORM's save(entity): a SELECT of the row, then an UPDATE of the      *)
(* columns in which the entity differs from what the SELECT returned.      *)
Saved(entity, selected, current) ==
  [column \in DOMAIN entity |->
     IF entity[column] # selected[column] THEN entity[column]
     ELSE current[column]]
=============================================================================
