--------------------------- MODULE OfficeRequests ---------------------------
(***************************************************************************)
(* The requests of a school office, served at once on the rows of          *)
(* ReadCommitted: each runs its handler statement by statement.  What is   *)
(* asked, and the rows that are there before, is one of several workloads. *)
(***************************************************************************)
EXTENDS Integers, Sequences, SequencesExt, FiniteSetsExt, ReadCommitted

CONSTANTS
  Workloads,    \* records [work, rows, until]: the requests, the rows, the clock
  MaxCrashes    \* bound: requests cut off before they end

VARIABLES
  work,      \* what each request asks for
  now,       \* the clock: school years gone by, or days of an access token
  until,     \* bound: where the clock stops
  pc,        \* the statement each request runs next
  wants,     \* the rows that statement is to write
  local,     \* the variables of each request's code
  crashes    \* how many requests were cut off

requestVars == <<committed, written, work, now, until, pc, wants, local, crashes>>

(* Requests that a workload has no use for. *)
Idle == [kind |-> "done", after |-> {}]

(* The variables of a handler that has not come to them: the school year,  *)
(* the years still to be closed, the code, the record and the fee plan in  *)
(* hand, what is still to be gone through, what was counted, the token,    *)
(* where a caller goes on.                                                 *)
NoCounts == [created |-> 0, matched |-> 0, charged |-> 0, skipped |-> 0]
NoLocals == [year |-> 0, years |-> {}, code |-> 0, record |-> <<>>,
             plan |-> <<>>, todo |-> <<>>, counts |-> NoCounts, token |-> 0, then |-> ""]

WorkOf(w) ==
  [p \in Requests |-> IF p \in DOMAIN w.work THEN w.work[p] ELSE Idle]

InitRequests ==
  \E w \in Workloads :
     /\ committed = w.rows
     /\ work      = WorkOf(w)
     /\ until     = w.until
     /\ written   = [p \in Requests |-> NothingWritten]
     /\ now       = 0
     /\ pc        = [p \in Requests |-> WorkOf(w)[p].kind]
     /\ wants     = [p \in Requests |-> {}]
     /\ local     = [p \in Requests |-> NoLocals]
     /\ crashes   = 0

(* done: answered with success; refused: the request asks for what cannot  *)
(* be (400, 404); conflict: what it asks for is taken (409); failed: any   *)
(* other exception (500); cutOff: the process stopped.                     *)
Ended == {"done", "refused", "conflict", "failed", "cutOff"}

HasEnded(p) == pc[p] \in Ended

(* Some requests are only sent once others have been answered. *)
MayStart(p) == \A q \in work[p].after : HasEnded(q)

(* The requests whose open transactions have written what p is to write.   *)
Blockers(p) ==
  {q \in Requests \ {p} : wants[p] \intersect DOMAIN written[q] # {}}

At(p, label) ==
  /\ pc[p] = label
  /\ MayStart(p)
  /\ Blockers(p) = {}
  /\ UNCHANGED <<work, now, until, crashes>>

(* The request goes on with `label', a statement that writes `rows'. *)
Proceeds(p, label, rows, locals) ==
  /\ pc'    = [pc EXCEPT ![p] = label]
  /\ wants' = [wants EXCEPT ![p] = rows]
  /\ local' = [local EXCEPT ![p] = locals]

Answers(p, label) == Proceeds(p, label, {}, NoLocals)

(* An exception leaves the callback of dataSource.transaction. *)
Fails(p, label) == RollsBack(p) /\ Answers(p, label)

Refuses(p, label) == OnlyReads /\ Answers(p, label)

Ends(p) == Commits(p) /\ Answers(p, "done")

(* A statement outside any transaction is one of its own. *)
WritesAtOnce(versions) ==
  /\ committed' = versions \uplus committed
  /\ UNCHANGED written

-----------------------------------------------------------------------------
(* SequenceService.next: one statement, upsert and increment. *)

SequenceRow(scope) == <<"number_sequences", scope>>

NextNumber(p, scope) == Sees(p, SequenceRow(scope)) + 1

(* Mutation: the number is read but not counted on. *)
NotCounted(p, scope) == NewVersion(SequenceRow(scope), Sees(p, SequenceRow(scope)))

Drawn(p, scope) == NewVersion(SequenceRow(scope), NextNumber(p, scope))

(* Mutation: the number is drawn on a connection of its own. *)
DrawsOutside(p, scope) == WritesAtOnce(Drawn(p, scope))

(* In the transaction of the caller, who keeps the row until it ends. *)
DrawsInside(p, scope) == Writes(p, Drawn(p, scope))

-----------------------------------------------------------------------------
TimePasses ==
  /\ now < until
  /\ now' = now + 1
  /\ UNCHANGED <<committed, written, work, until, pc, wants, local, crashes>>

(* The process is stopped: the transaction is rolled back, nobody answers. *)
Crash(p) ==
  /\ crashes < MaxCrashes
  /\ ~HasEnded(p)
  /\ MayStart(p)
  /\ crashes' = crashes + 1
  /\ Fails(p, "cutOff")
  /\ UNCHANGED <<work, now, until>>

(* The requests p waits for, those that they wait for, and so on. *)
WaitsFor(p) ==
  LET reached[n \in 0..Cardinality(Requests)] ==
        IF n = 0 THEN Blockers(p)
        ELSE reached[n - 1] \union UNION {Blockers(q) : q \in reached[n - 1]}
  IN  reached[Cardinality(Requests)]

(* PostgreSQL ends a deadlock by an error to one of those in it. *)
DeadlockVictim(p) ==
  /\ p \in WaitsFor(p)
  /\ Fails(p, "failed")
  /\ UNCHANGED <<work, now, until, crashes>>

AllEnded ==
  /\ \A p \in Requests : HasEnded(p)
  /\ UNCHANGED requestVars
=============================================================================
