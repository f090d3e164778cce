--------------------------- MODULE OfficeTheorems ---------------------------
(***************************************************************************)
(* Theorems about Office, for every number of requests, years, students    *)
(* and codes and every workload.                                           *)
(***************************************************************************)
EXTENDS Office, ArithmeticTheorems, FiniteSetTheorems

-----------------------------------------------------------------------------
(* Where requests are and what they hold.                                  *)

CreateLabels == {"drawCode", "lookUpStudent", "insertRecord"}
SaveLabels   == {"saveRecord", "removeRecord"}
RecordLabels == CreateLabels \union SaveLabels
                  \union {"createRecord", "updateRecord", "deleteRecord"}
YearLabels   == {"closeYear", "openYear", "commitYear"}
ChargeLabels == {"createIfNotExists", "drawReceivableCode", "insertReceivable"}
ImportLabels == {"importNext", "createStudent", "drawStudentCode", "insertStudent",
                 "findEnrolment", "insertEnrolment", "saveEnrolment", "saveSession",
                 "commitImport"}
TokenLabels  == {"readToken", "askToken", "findToken", "saveToken", "sendMessage",
                 "logFailure", "logSent"}

(* The statements each kind of request comes to. *)
OnPath(kind, label) ==
  \/ label \in Ended \union {kind}
  \/ kind = "createRecord" /\ label \in CreateLabels
  \/ kind = "getCurrent"   /\ label \in YearLabels \union CreateLabels
                                          \union {"createRecord"}
  \/ kind \in {"updateRecord", "deleteRecord"} /\ label \in SaveLabels
  \/ kind = "updatePlan"   /\ label = "savePlan"
  \/ kind = "assign"       /\ label \in ChargeLabels \union {"findStudents", "assignNext"}
  \/ kind = "confirm"      /\ label \in ChargeLabels \union ImportLabels
  \/ kind = "notify"       /\ label \in TokenLabels

(* The statements inside of a transaction of more than one statement. *)
Inside == YearLabels \union ChargeLabels \union ImportLabels \union {"assignNext"}

(* What a request waits for is what its statement is to write. *)
WantsOK(p) ==
  /\ pc[p] \notin Inside \union {"drawCode", "insertRecord", "saveRecord", "savePlan",
                                 "saveToken"} => wants[p] = {}
  /\ pc[p] = "closeYear" =>
       local[p].years # {} /\ wants[p] = {YearRow(Min(local[p].years))}
  /\ pc[p] = "openYear" => wants[p] = {YearRow(local[p].year)}
  /\ pc[p] = "drawReceivableCode" => wants[p] = {SequenceRow(ReceivableCounter)}
  /\ pc[p] = "insertReceivable" => wants[p] = {ChargeRow(p)}
  /\ pc[p] = "drawStudentCode" => wants[p] = {SequenceRow(<<"students", 0>>)}
  /\ pc[p] = "insertStudent" => wants[p] = NewStudentRows(p, local[p].code)
  /\ pc[p] \in {"insertEnrolment", "saveEnrolment"} =>
       wants[p] = {EnrolmentRow(local[p].code)}
  /\ pc[p] = "saveSession" => wants[p] = {SessionRow(work[p].session)}
  /\ pc[p] = "saveToken" => wants[p] = {TokenRow}

(* Who charges knows where to go on. *)
ThenOK(p) ==
  /\ work[p].kind = "assign" /\ pc[p] \in ChargeLabels \union {"assignNext"} =>
       local[p].then = "assignNext"
  /\ work[p].kind = "confirm" /\ pc[p] \in ChargeLabels \union ImportLabels =>
       local[p].then = "importNext"

YearTables   == {"academic_years", "semesters"}
ImportTables == {"students", "students.identifier_code", "student_classes",
                 "import_sessions", "student_receivables"}

(* The tables a transaction may have written into. *)
HeldOK(p) ==
  \A row \in DOMAIN written[p] :
    \/ work[p].kind = "getCurrent" /\ row[1] \in YearTables
    \/ work[p].kind = "assign" /\ row[1] = "student_receivables"
    \/ work[p].kind = "confirm" /\ row[1] \in ImportTables
    \/ work[p].kind = "confirm" /\ row = SequenceRow(<<"students", 0>>)
    \/ work[p].kind \in {"assign", "confirm"} /\ row = SequenceRow(ReceivableCounter)

(* Who has a version of a semester has one of its year. *)
SemestersHeld(p) ==
  \A y, s : SemesterRow(y, s) \in DOMAIN written[p] => YearRow(y) \in DOMAIN written[p]

ProcOK(p) ==
  /\ OnPath(work[p].kind, pc[p])
  /\ pc[p] \in RecordLabels => Entity(p) \in Entities
  /\ pc[p] \notin Inside => written[p] = NothingWritten
  /\ WantsOK(p) /\ ThenOK(p) /\ HeldOK(p) /\ SemestersHeld(p)

Shapes ==
  /\ DOMAIN written = Requests
  /\ pc \in [Requests -> Labels]
  /\ DOMAIN wants = Requests
  /\ DOMAIN local = Requests
  /\ \A p \in Requests : DOMAIN local[p] = DOMAIN NoLocals
  /\ crashes \in Nat

OneWriter ==
  \A p, q \in Requests : p # q => DOMAIN written[p] \intersect DOMAIN written[q] = {}

WriterInv ==
  /\ \A p \in Requests : IsRequest(work[p])
  /\ Shapes /\ OneWriter
  /\ \A p \in Requests : ProcOK(p)

-----------------------------------------------------------------------------
(* What a step of p does to the others, and to the rows.                   *)

(* The rows the statement p is at may write. *)
Touches(p, row) ==
  \/ pc[p] \in {"closeYear", "openYear"} /\ row[1] \in YearTables
  \/ pc[p] = "drawReceivableCode" /\ row = SequenceRow(ReceivableCounter)
  \/ pc[p] = "insertReceivable" /\ row[1] = "student_receivables"
  \/ pc[p] = "drawStudentCode" /\ row = SequenceRow(<<"students", 0>>)
  \/ pc[p] = "insertStudent" /\ row[1] \in {"students", "students.identifier_code"}
  \/ pc[p] \in {"insertEnrolment", "saveEnrolment"} /\ row[1] = "student_classes"
  \/ pc[p] \in {"saveSession", "preview"} /\ row[1] = "import_sessions"
  \/ pc[p] = "drawCode" /\ row[1] = "number_sequences"
       /\ row # SequenceRow(ReceivableCounter)
  \/ pc[p] \in {"insertRecord", "saveRecord", "removeRecord"}
       /\ Entity(p) \in Entities /\ row[1] = Entity(p)
  \/ pc[p] = "savePlan" /\ row[1] = "fee_plans (terms)"
  \/ pc[p] \in {"logFailure", "logSent"} /\ row = LogRow(p)
  \/ pc[p] = "askToken" /\ row = ZaloToken
  \/ pc[p] = "saveToken" /\ row = TokenRow
  \/ pc[p] = "sendMessage" /\ row = ZaloMessage(p)

Frame(p) ==
  /\ work' = work
  /\ DOMAIN written' = Requests
  /\ pc' \in [Requests -> Labels]
  /\ DOMAIN wants' = Requests
  /\ DOMAIN local' = Requests
  /\ DOMAIN local'[p] = DOMAIN NoLocals
  /\ crashes' \in Nat
  /\ \A q \in Requests \ {p} :
       /\ pc'[q] = pc[q] /\ wants'[q] = wants[q] /\ local'[q] = local[q]
       /\ written'[q] = written[q]

WritesAlone(p) ==
  /\ written' = written
  /\ DOMAIN committed \subseteq DOMAIN committed'
  /\ \A row \in DOMAIN committed' \ DOMAIN committed : Touches(p, row)
  /\ \A row \in DOMAIN committed : ~ Touches(p, row) => committed'[row] = committed[row]

WritesInside(p) ==
  /\ committed' = committed
  /\ pc[p] \in Inside
  /\ \A row \in DOMAIN written[p] :
       /\ row \in DOMAIN written'[p]
       /\ ~ Touches(p, row) => written'[p][row] = written[p][row]
  /\ \A row \in DOMAIN written'[p] \ DOMAIN written[p] :
       Touches(p, row) /\ \A q \in Requests \ {p} : row \notin DOMAIN written[q]

Effect(p) ==
  \/ OnlyReads
  \/ WritesAlone(p)
  \/ WritesInside(p)
  \/ Commits(p) /\ pc[p] \in {"commitYear", "assignNext", "commitImport"}
  \/ RollsBack(p) /\ pc'[p] \in {"failed", "conflict", "cutOff"}

StepOf(p) == Statement(p) \/ DeadlockVictim(p) \/ Crash(p)

-----------------------------------------------------------------------------
(* What the statements of ReadCommitted do to the rows.                    *)

LEMMA WritesRows ==
  ASSUME NEW p \in Requests, NEW versions, DOMAIN written = Requests,
         Writes(p, versions)
  PROVE  /\ committed' = committed
         /\ DOMAIN written' = Requests
         /\ \A q \in Requests \ {p} : written'[q] = written[q]
         /\ DOMAIN written'[p] = DOMAIN versions \union DOMAIN written[p]
         /\ \A row \in DOMAIN versions : written'[p][row] = versions[row]
         /\ \A row \in DOMAIN written[p] \ DOMAIN versions :
              written'[p][row] = written[p][row]
<1>1. written' = [written EXCEPT ![p] = versions \uplus @] /\ committed' = committed
  BY DEF Writes
<1>2. /\ DOMAIN written' = Requests
      /\ \A q \in Requests \ {p} : written'[q] = written[q]
      /\ written'[p] = versions \uplus written[p]
  BY <1>1
<1>3. QED BY <1>1, <1>2 DEF \uplus

LEMMA WritesAtOnceRows ==
  ASSUME NEW versions, WritesAtOnce(versions)
  PROVE  /\ written' = written
         /\ DOMAIN committed' = DOMAIN versions \union DOMAIN committed
         /\ \A row \in DOMAIN versions : committed'[row] = versions[row]
         /\ \A row \in DOMAIN committed \ DOMAIN versions :
              committed'[row] = committed[row]
BY DEF WritesAtOnce, \uplus

LEMMA CommitsRows ==
  ASSUME NEW p \in Requests, DOMAIN written = Requests, Commits(p)
  PROVE  /\ DOMAIN written' = Requests
         /\ \A q \in Requests \ {p} : written'[q] = written[q]
         /\ written'[p] = NothingWritten
         /\ DOMAIN committed' = DOMAIN written[p] \union DOMAIN committed
         /\ \A row \in DOMAIN written[p] : committed'[row] = written[p][row]
         /\ \A row \in DOMAIN committed \ DOMAIN written[p] :
              committed'[row] = committed[row]
BY DEF Commits, \uplus

LEMMA RollsBackRows ==
  ASSUME NEW p \in Requests, DOMAIN written = Requests, RollsBack(p)
  PROVE  /\ committed' = committed
         /\ DOMAIN written' = Requests
         /\ \A q \in Requests \ {p} : written'[q] = written[q]
         /\ written'[p] = NothingWritten
BY DEF RollsBack

LEMMA NothingIsWritten == DOMAIN NothingWritten = {}
BY DEF NothingWritten

LEMMA OneRowAtOnce ==
  ASSUME NEW row, NEW version, WritesAtOnce(NewVersion(row, version))
  PROVE  /\ row \in DOMAIN committed' /\ committed'[row] = version
         /\ \A r \in DOMAIN committed \ {row} :
              r \in DOMAIN committed' /\ committed'[r] = committed[r]
BY DEF WritesAtOnce, NewVersion, \uplus

LEMMA OneVersion ==
  ASSUME NEW row, NEW version
  PROVE  /\ DOMAIN NewVersion(row, version) = {row}
         /\ NewVersion(row, version)[row] = version
BY DEF NewVersion

LEMMA OneRowWritten ==
  ASSUME NEW p \in Requests, NEW row, NEW version, DOMAIN written = Requests,
         Writes(p, NewVersion(row, version))
  PROVE  /\ committed' = committed
         /\ DOMAIN written'[p] = {row} \union DOMAIN written[p]
         /\ written'[p][row] = version
         /\ \A r \in DOMAIN written[p] \ {row} : written'[p][r] = written[p][r]
<1>1. PICK versions : versions = NewVersion(row, version)
  OBVIOUS
<1>2. DOMAIN versions = {row} /\ versions[row] = version
  BY <1>1, OneVersion
<1>3. Writes(p, versions)
  BY <1>1
<1>4. QED BY <1>2, <1>3, WritesRows

LEMMA Combined ==
  ASSUME NEW f, NEW g
  PROVE  /\ DOMAIN (f \uplus g) = DOMAIN f \union DOMAIN g
         /\ \A row \in DOMAIN f : (f \uplus g)[row] = f[row]
         /\ \A row \in DOMAIN g \ DOMAIN f : (f \uplus g)[row] = g[row]
BY DEF \uplus

-----------------------------------------------------------------------------
(* The code of the requests.                                               *)

LEMMA ProceedsOn ==
  ASSUME Shapes, NEW p \in Requests, NEW label \in Labels, NEW rows, NEW locals,
         DOMAIN locals = DOMAIN NoLocals, Proceeds(p, label, rows, locals)
  PROVE  /\ pc' \in [Requests -> Labels]
         /\ DOMAIN wants' = Requests /\ DOMAIN local' = Requests
         /\ DOMAIN local'[p] = DOMAIN NoLocals
         /\ \A q \in Requests \ {p} :
              pc'[q] = pc[q] /\ wants'[q] = wants[q] /\ local'[q] = local[q]
         /\ pc'[p] = label /\ wants'[p] = rows /\ local'[p] = locals
BY DEF Shapes, Proceeds

(* Where a request stands when it runs a statement. *)
LEMMA Standing ==
  ASSUME WriterInv, NEW p \in Requests, NEW label, At(p, label)
  PROVE  /\ Shapes /\ IsRequest(work[p]) /\ ProcOK(p)
         /\ DOMAIN local[p] = DOMAIN NoLocals /\ DOMAIN written = Requests
         /\ pc[p] = label
         /\ work' = work /\ crashes' = crashes /\ crashes \in Nat
         /\ OnPath(work[p].kind, pc[p])
         /\ WantsOK(p) /\ ThenOK(p) /\ HeldOK(p) /\ SemestersHeld(p)
         /\ label \in RecordLabels => Entity(p) \in Entities
         /\ label \notin Inside => written[p] = NothingWritten
         /\ Entity(p)' = Entity(p)
         /\ \A q \in Requests \ {p} : wants[p] \intersect DOMAIN written[q] = {}
BY DEF WriterInv, Shapes, At, ProcOK, Blockers, Entity

(* The invariant goes on if it does so for the request that moved. *)
LEMMA InvGoesOn ==
  ASSUME WriterInv, NEW p \in Requests, Frame(p), Effect(p), ProcOK(p)'
  PROVE  WriterInv'
<1>1. /\ \A q \in Requests : IsRequest(work'[q])
      /\ Shapes'
  BY DEF WriterInv, Frame, Shapes
<1>2. DOMAIN written = Requests
  BY DEF WriterInv, Shapes
<1>3. OneWriter'
  <2>1. \A q \in Requests \ {p} : DOMAIN written'[p] \intersect DOMAIN written[q] = {}
    <3>1. \A q \in Requests \ {p} : DOMAIN written[p] \intersect DOMAIN written[q] = {}
      BY DEF WriterInv, OneWriter
    <3>2. CASE OnlyReads \/ WritesAlone(p)
      BY <3>1, <3>2 DEF OnlyReads, WritesAlone
    <3>3. CASE WritesInside(p)
      BY <3>1, <3>3 DEF WritesInside
    <3>4. CASE Commits(p) \/ RollsBack(p)
      BY <1>2, <3>4, CommitsRows, RollsBackRows, NothingIsWritten
    <3>5. QED BY <3>2, <3>3, <3>4 DEF Effect
  <2>2. QED BY <2>1 DEF WriterInv, OneWriter, Frame
<1>4. ASSUME NEW q \in Requests \ {p} PROVE ProcOK(q)'
  <2>1. /\ ProcOK(q) /\ work'[q] = work[q] /\ pc'[q] = pc[q] /\ wants'[q] = wants[q]
        /\ local'[q] = local[q] /\ written'[q] = written[q]
    BY DEF WriterInv, Frame
  <2>2. WantsOK(q)'
    BY <2>1 DEF ProcOK, WantsOK, ChargeRow, NewStudentRows, Row
  <2>3. ThenOK(q)' /\ HeldOK(q)' /\ SemestersHeld(q)'
    BY <2>1 DEF ProcOK, ThenOK, HeldOK, SemestersHeld
  <2>4. QED BY <2>1, <2>2, <2>3 DEF ProcOK, Entity
<1>5. QED BY <1>1, <1>3, <1>4 DEF WriterInv

-----------------------------------------------------------------------------
(* What a statement needs for the invariant to hold after it.              *)

StepOK(p) == Frame(p) /\ Effect(p) /\ ProcOK(p)'

LEMMA ReadsOn ==
  ASSUME WriterInv, NEW p \in Requests, NEW at, At(p, at), OnlyReads,
         NEW label \in Labels, NEW rows, NEW locals, DOMAIN locals = DOMAIN NoLocals,
         Proceeds(p, label, rows, locals)
  PROVE  /\ Frame(p) /\ Effect(p) /\ written'[p] = written[p]
         /\ pc'[p] = label /\ wants'[p] = rows /\ local'[p] = locals
BY Standing, ProceedsOn DEF OnlyReads, Frame, Effect

LEMMA WritesOn ==
  ASSUME WriterInv, NEW p \in Requests, NEW at, At(p, at), at \in Inside,
         NEW versions, Writes(p, versions),
         \A row \in DOMAIN versions :
           Touches(p, row) /\ \A q \in Requests \ {p} : row \notin DOMAIN written[q],
         NEW label \in Labels, NEW rows, NEW locals, DOMAIN locals = DOMAIN NoLocals,
         Proceeds(p, label, rows, locals)
  PROVE  /\ Frame(p) /\ Effect(p) /\ WritesInside(p)
         /\ DOMAIN written'[p] = DOMAIN versions \union DOMAIN written[p]
         /\ \A row \in DOMAIN versions : written'[p][row] = versions[row]
         /\ pc'[p] = label /\ wants'[p] = rows /\ local'[p] = locals
<1>1. /\ committed' = committed
      /\ DOMAIN written' = Requests
      /\ \A q \in Requests \ {p} : written'[q] = written[q]
      /\ DOMAIN written'[p] = DOMAIN versions \union DOMAIN written[p]
      /\ \A row \in DOMAIN versions : written'[p][row] = versions[row]
      /\ \A row \in DOMAIN written[p] \ DOMAIN versions :
           written'[p][row] = written[p][row]
  BY Standing, WritesRows
<1>2. /\ pc' \in [Requests -> Labels]
      /\ DOMAIN wants' = Requests /\ DOMAIN local' = Requests
      /\ DOMAIN local'[p] = DOMAIN NoLocals
      /\ \A q \in Requests \ {p} :
           pc'[q] = pc[q] /\ wants'[q] = wants[q] /\ local'[q] = local[q]
      /\ pc'[p] = label /\ wants'[p] = rows /\ local'[p] = locals
  BY Standing, ProceedsOn
<1>3. Frame(p)
  BY <1>1, <1>2, Standing DEF Frame
<1>4. WritesInside(p)
  <2>1. pc[p] \in Inside
    BY Standing
  <2>2. QED BY <1>1, <2>1 DEF WritesInside
<1>5. QED BY <1>1, <1>2, <1>3, <1>4 DEF Effect

LEMMA AtOnceOn ==
  ASSUME WriterInv, NEW p \in Requests, NEW at, At(p, at),
         NEW versions, WritesAtOnce(versions),
         \A row \in DOMAIN versions : Touches(p, row),
         NEW label \in Labels, NEW rows, NEW locals, DOMAIN locals = DOMAIN NoLocals,
         Proceeds(p, label, rows, locals)
  PROVE  /\ Frame(p) /\ Effect(p) /\ WritesAlone(p) /\ written'[p] = written[p]
         /\ pc'[p] = label /\ wants'[p] = rows /\ local'[p] = locals
<1>1. /\ written' = written
      /\ DOMAIN committed' = DOMAIN versions \union DOMAIN committed
      /\ \A row \in DOMAIN committed \ DOMAIN versions : committed'[row] = committed[row]
  BY WritesAtOnceRows
<1>2. WritesAlone(p)
  BY <1>1 DEF WritesAlone
<1>3. Frame(p) /\ pc'[p] = label /\ wants'[p] = rows /\ local'[p] = locals
  BY <1>1, Standing, ProceedsOn DEF Frame
<1>4. QED BY <1>1, <1>2, <1>3 DEF Effect

(* Whoever has no versions of rows has none that are not his to write. *)
LEMMA NothingHeld ==
  ASSUME NEW p \in Requests, written'[p] = NothingWritten
  PROVE  HeldOK(p)' /\ SemestersHeld(p)'
BY NothingIsWritten DEF HeldOK, SemestersHeld

LEMMA LocalsOfNone == DOMAIN NoLocals =
  {"year", "years", "code", "record", "plan", "todo", "counts", "token", "then"}
BY DEF NoLocals

LEMMA EndedOK ==
  ASSUME NEW p \in Requests, work' = work, written'[p] = NothingWritten,
         pc'[p] \in Ended, wants'[p] = {}
  PROVE  ProcOK(p)'
<1>1. HeldOK(p)' /\ SemestersHeld(p)'
  BY NothingHeld
<1>2. WantsOK(p)' /\ ThenOK(p)'
  BY DEF WantsOK, ThenOK, Ended, ChargeLabels, ImportLabels
<1>3. QED
  BY <1>1, <1>2 DEF ProcOK, OnPath, Ended, RecordLabels, CreateLabels, SaveLabels

LEMMA RefusesStep ==
  ASSUME WriterInv, NEW p \in Requests, NEW at, At(p, at), at \notin Inside,
         NEW label \in Ended, Refuses(p, label)
  PROVE  StepOK(p)
<1>1. OnlyReads /\ Proceeds(p, label, {}, NoLocals) /\ label \in Labels
  BY DEF Refuses, Answers, Labels
<1>2. /\ Frame(p) /\ Effect(p) /\ written'[p] = written[p]
      /\ pc'[p] = label /\ wants'[p] = {}
  BY <1>1, ReadsOn
<1>3. written[p] = NothingWritten /\ work' = work
  BY Standing
<1>4. QED BY <1>2, <1>3, EndedOK DEF StepOK

LEMMA AnswersStep ==
  ASSUME WriterInv, NEW p \in Requests, NEW at, At(p, at), at \notin Inside,
         NEW versions, WritesAtOnce(versions),
         \A row \in DOMAIN versions : Touches(p, row),
         NEW label \in Ended, Answers(p, label)
  PROVE  StepOK(p)
<1>1. Proceeds(p, label, {}, NoLocals) /\ label \in Labels
  BY DEF Answers, Labels
<1>2. /\ Frame(p) /\ Effect(p) /\ written'[p] = written[p]
      /\ pc'[p] = label /\ wants'[p] = {}
  BY <1>1, AtOnceOn
<1>3. written[p] = NothingWritten /\ work' = work
  BY Standing
<1>4. QED BY <1>2, <1>3, EndedOK DEF StepOK

LEMMA FailsStep ==
  ASSUME WriterInv, NEW p \in Requests, NEW label \in {"failed", "conflict", "cutOff"},
         Fails(p, label), work' = work, crashes' \in Nat
  PROVE  StepOK(p)
<1>1. Shapes /\ DOMAIN written = Requests /\ RollsBack(p)
  BY DEF WriterInv, Shapes, Fails
<1>2. Proceeds(p, label, {}, NoLocals) /\ label \in Labels /\ label \in Ended
  BY DEF Fails, Answers, Labels, Ended
<1>3. /\ Frame(p) /\ pc'[p] = label /\ wants'[p] = {} /\ written'[p] = NothingWritten
  BY <1>1, <1>2, RollsBackRows, ProceedsOn DEF Frame
<1>4. QED BY <1>1, <1>2, <1>3, EndedOK DEF StepOK, Effect

LEMMA EndsStep ==
  ASSUME WriterInv, NEW p \in Requests, NEW at, At(p, at),
         at \in {"commitYear", "assignNext", "commitImport"}, Ends(p)
  PROVE  StepOK(p)
<1>1. Shapes /\ DOMAIN written = Requests /\ Commits(p) /\ pc[p] = at /\ work' = work
  BY Standing DEF Ends
<1>2. Proceeds(p, "done", {}, NoLocals) /\ "done" \in Labels /\ "done" \in Ended
  BY DEF Ends, Answers, Labels, Ended
<1>3. /\ Frame(p) /\ pc'[p] = "done" /\ wants'[p] = {} /\ written'[p] = NothingWritten
  <2>1. crashes' \in Nat
    BY Standing
  <2>2. /\ DOMAIN written' = Requests /\ written'[p] = NothingWritten
        /\ \A q \in Requests \ {p} : written'[q] = written[q]
    BY <1>1, CommitsRows
  <2>3. DOMAIN NoLocals = DOMAIN NoLocals
    OBVIOUS
  <2>4. QED BY <1>1, <1>2, <2>1, <2>2, <2>3, ProceedsOn DEF Frame
<1>4. QED BY <1>1, <1>2, <1>3, EndedOK DEF StepOK, Effect

(* A request with its versions as they were may go on to any statement of  *)
(* its path, but not leave its transaction.                                *)
LEMMA SameVersionsOK ==
  ASSUME WriterInv, NEW p \in Requests, NEW at, At(p, at),
         written'[p] = written[p], NEW label, pc'[p] = label,
         OnPath(work[p].kind, label),
         label \in RecordLabels => Entity(p) \in Entities,
         at \in Inside => label \in Inside,
         WantsOK(p)', ThenOK(p)'
  PROVE  ProcOK(p)'
<1>1. HeldOK(p)' /\ SemestersHeld(p)'
  BY Standing DEF HeldOK, SemestersHeld
<1>2. label \notin Inside => written[p] = NothingWritten
  BY Standing
<1>3. work' = work /\ Entity(p)' = Entity(p)
  BY Standing
<1>4. QED BY <1>1, <1>2, <1>3 DEF ProcOK

(* Statements of records. *)
LEMMA RecordOn ==
  ASSUME WriterInv, NEW p \in Requests, NEW at, At(p, at), at \in RecordLabels,
         written'[p] = written[p], NEW label, pc'[p] = label, OnPath(work[p].kind, label),
         label \in CreateLabels \union SaveLabels,
         label \notin {"lookUpStudent", "removeRecord"} \/ wants'[p] = {}
  PROVE  ProcOK(p)'
<1>1. WantsOK(p)'
  BY DEF WantsOK, CreateLabels, SaveLabels, Inside, YearLabels, ChargeLabels, ImportLabels
<1>2. ThenOK(p)'
  BY DEF ThenOK, CreateLabels, SaveLabels, ChargeLabels, ImportLabels
<1>3. Entity(p) \in Entities /\ at \notin Inside
  BY Standing DEF RecordLabels, CreateLabels, SaveLabels, Inside, YearLabels,
                  ChargeLabels, ImportLabels
<1>4. QED BY <1>1, <1>2, <1>3, SameVersionsOK

LEMMA RecordKinds ==
  ASSUME WriterInv, NEW p \in Requests, NEW at, At(p, at)
  PROVE  /\ at \in CreateLabels \union {"createRecord"} =>
              \A label \in CreateLabels : OnPath(work[p].kind, label)
         /\ at \in {"updateRecord", "deleteRecord"} =>
              \A label \in SaveLabels : OnPath(work[p].kind, label)
         /\ at \in RecordLabels => at \notin Inside
BY Standing DEF IsRequest, OnPath, Kinds, Ended, CreateLabels, SaveLabels, YearLabels,
     ChargeLabels, ImportLabels, TokenLabels, RecordLabels, Inside

LEMMA RecordLabelsAre ==
  CreateLabels \union SaveLabels \subseteq RecordLabels /\ RecordLabels \subseteq Labels
BY DEF RecordLabels, CreateLabels, SaveLabels, Labels

LEMMA RecordGoesOn ==
  ASSUME WriterInv, NEW p \in Requests, NEW at, At(p, at),
         NEW label, NEW rows, NEW locals, DOMAIN locals = DOMAIN local[p],
         Proceeds(p, label, rows, locals),
         \/ OnlyReads
         \/ \E versions : WritesAtOnce(versions)
                            /\ \A row \in DOMAIN versions : Touches(p, row),
         \/ at \in CreateLabels \union {"createRecord"} /\ label \in CreateLabels
         \/ at \in {"updateRecord", "deleteRecord"} /\ label \in SaveLabels,
         label \notin {"lookUpStudent", "removeRecord"} \/ rows = {}
  PROVE  StepOK(p)
<1>1. /\ label \in Labels /\ label \in CreateLabels \union SaveLabels
      /\ at \in RecordLabels
  BY RecordLabelsAre DEF RecordLabels
<1>2. OnPath(work[p].kind, label)
  BY RecordKinds
<1>3. DOMAIN locals = DOMAIN NoLocals
  BY Standing
<1>4. /\ Frame(p) /\ Effect(p) /\ written'[p] = written[p]
      /\ pc'[p] = label /\ wants'[p] = rows
  <2>1. CASE OnlyReads
    BY <1>1, <1>3, <2>1, ReadsOn
  <2>2. CASE \E versions : WritesAtOnce(versions)
                             /\ \A row \in DOMAIN versions : Touches(p, row)
    BY <1>1, <1>3, <2>2, AtOnceOn
  <2>3. QED BY <2>1, <2>2
<1>5. ProcOK(p)'
  BY <1>1, <1>2, <1>4, RecordOn
<1>6. QED BY <1>4, <1>5 DEF StepOK

LEMMA LocalsKeepShape ==
  ASSUME NEW p
  PROVE  /\ \A code : DOMAIN Locals(p, code) = DOMAIN local[p]
         /\ \A record : DOMAIN [local[p] EXCEPT !.record = record] = DOMAIN local[p]
         /\ \A code, record :
              DOMAIN [local[p] EXCEPT !.code = code, !.record = record] = DOMAIN local[p]
BY DEF Locals

(* The next code is drawn, or the record inserted. *)
LEMMA CreationGoesOn ==
  ASSUME WriterInv, NEW p \in Requests, NEW at \in CreateLabels \union {"createRecord"},
         At(p, at),
         \/ OnlyReads
         \/ \E versions : WritesAtOnce(versions)
                            /\ \A row \in DOMAIN versions : Touches(p, row),
         Draws(p) \/ \E code : Inserts(p, code)
  PROVE  StepOK(p)
<1>1. CASE Draws(p)
  BY <1>1, RecordGoesOn DEF Draws, CreateLabels
<1>2. CASE \E code : Inserts(p, code)
  <2>1. PICK code : Proceeds(p, "insertRecord", {RowOf(p, code)}, Locals(p, code))
    BY <1>2 DEF Inserts
  <2>2. QED BY <2>1, RecordGoesOn, LocalsKeepShape DEF CreateLabels
<1>3. QED BY <1>1, <1>2

LEMMA CreateRecordStep ==
  ASSUME WriterInv, NEW p \in Requests, CreateRecord(p)
  PROVE  StepOK(p)
<1>1. At(p, "createRecord")
  BY DEF CreateRecord
<1>2. CASE Refuses(p, "conflict")
  BY <1>1, <1>2, RefusesStep, RecordKinds DEF RecordLabels, Ended
<1>3. CASE OnlyReads /\ (Draws(p) \/ \E code : Inserts(p, code))
  BY <1>1, <1>3, CreationGoesOn
<1>4. QED BY <1>2, <1>3 DEF CreateRecord

LEMMA DrawCodeStep ==
  ASSUME WriterInv, NEW p \in Requests, DrawCode(p)
  PROVE  StepOK(p)
<1> DEFINE code == NextNumber(p, Counter(p))
           versions == Drawn(p, Counter(p))
<1>1. At(p, "drawCode") /\ WritesAtOnce(versions) /\ pc[p] = "drawCode"
  BY Standing DEF DrawCode
<1>2. Entity(p) \in Entities
  BY <1>1, Standing DEF RecordLabels, CreateLabels
<1>3. \A row \in DOMAIN versions : Touches(p, row)
  <2>1. DOMAIN versions = {SequenceRow(Counter(p))}
    BY OneVersion DEF Drawn
  <2>2. SequenceRow(Counter(p))[1] = "number_sequences"
    BY DEF SequenceRow
  <2>3. SequenceRow(Counter(p)) # SequenceRow(ReceivableCounter)
    BY <1>2 DEF SequenceRow, ReceivableCounter, Counter, Entities
  <2> HIDE DEF versions
  <2>4. QED BY <1>1, <2>1, <2>2, <2>3 DEF Touches
<1> HIDE DEF versions
<1>4. CASE Proceeds(p, "lookUpStudent", {}, Locals(p, code))
  BY <1>1, <1>3, <1>4, RecordGoesOn, LocalsKeepShape DEF CreateLabels
<1>5. CASE Inserts(p, code)
  BY <1>1, <1>3, <1>5, CreationGoesOn DEF CreateLabels
<1>6. QED BY <1>4, <1>5 DEF DrawCode

LEMMA LookUpStudentStep ==
  ASSUME WriterInv, NEW p \in Requests, LookUpStudent(p)
  PROVE  StepOK(p)
BY CreationGoesOn DEF LookUpStudent, CreateLabels

LEMMA RowsOfEntity ==
  ASSUME NEW p, NEW code
  PROVE  RowOf(p, code)[1] = Entity(p)
BY DEF RowOf, CodeRow

LEMMA InsertRecordStep ==
  ASSUME WriterInv, NEW p \in Requests, InsertRecord(p)
  PROVE  StepOK(p)
<1>1. At(p, "insertRecord") /\ pc[p] = "insertRecord" /\ Entity(p) \in Entities
  BY Standing DEF InsertRecord, RecordLabels, CreateLabels
<1>2. "insertRecord" \notin Inside /\ "done" \in Ended
  BY <1>1, RecordKinds DEF RecordLabels, CreateLabels, Ended
<1>3. ASSUME NEW version, WritesAtOnce(NewVersion(RowOf(p, local[p].code), version)),
             Answers(p, "done")
      PROVE  StepOK(p)
  <2>1. \A row \in DOMAIN NewVersion(RowOf(p, local[p].code), version) : Touches(p, row)
    <3>1. DOMAIN NewVersion(RowOf(p, local[p].code), version) = {RowOf(p, local[p].code)}
      BY OneVersion
    <3>2. RowOf(p, local[p].code)[1] = Entity(p)
      BY RowsOfEntity
    <3>3. Touches(p, RowOf(p, local[p].code))
      BY <1>1, <3>2 DEF Touches
    <3>4. QED BY <3>1, <3>3
  <2>2. QED BY <1>1, <1>2, <1>3, <2>1, AnswersStep
<1>4. CASE OnlyReads /\ Draws(p)
  BY <1>1, <1>4, CreationGoesOn DEF CreateLabels
<1>5. CASE Refuses(p, IF Entity(p) \in AnswersConflict THEN "conflict" ELSE "failed")
  BY <1>1, <1>2, <1>5, RefusesStep DEF Ended
<1>6. QED BY <1>3, <1>4, <1>5 DEF InsertRecord

LEMMA SavesStep ==
  ASSUME WriterInv, NEW p \in Requests, NEW at \in {"updateRecord", "deleteRecord"},
         At(p, at), NEW code, NEW record, Saves(p, code, record)
  PROVE  StepOK(p)
<1> DEFINE locals == [local[p] EXCEPT !.code = code, !.record = record]
<1>1. OnlyReads /\ Proceeds(p, "saveRecord", {RowOf(p, code)}, locals)
  BY DEF Saves
<1>2. DOMAIN locals = DOMAIN local[p]
  OBVIOUS
<1> HIDE DEF locals
<1>3. QED BY <1>1, <1>2, RecordGoesOn DEF SaveLabels

LEMMA UpdateRecordStep ==
  ASSUME WriterInv, NEW p \in Requests, UpdateRecord(p)
  PROVE  StepOK(p)
<1>1. At(p, "updateRecord")
  BY DEF UpdateRecord
<1>2. CASE Refuses(p, "refused") \/ Refuses(p, "conflict")
  BY <1>1, <1>2, RefusesStep, RecordKinds DEF RecordLabels, Ended
<1>3. QED BY <1>1, <1>2, SavesStep DEF UpdateRecord

LEMMA DeleteRecordStep ==
  ASSUME WriterInv, NEW p \in Requests, DeleteRecord(p)
  PROVE  StepOK(p)
<1>1. At(p, "deleteRecord")
  BY DEF DeleteRecord
<1>2. CASE Refuses(p, "refused")
  BY <1>1, <1>2, RefusesStep, RecordKinds DEF RecordLabels, Ended
<1>3. ASSUME NEW record, OnlyReads,
             Proceeds(p, "removeRecord", {}, [local[p] EXCEPT !.record = record])
      PROVE  StepOK(p)
  BY <1>1, <1>3, RecordGoesOn, LocalsKeepShape DEF SaveLabels
<1>4. QED BY <1>1, <1>2, <1>3, SavesStep DEF DeleteRecord

LEMMA StoredRows ==
  ASSUME NEW p, NEW id
  PROVE  \A row \in StoredIn(p, id) : row[1] = Entity(p)
BY RowsOfEntity DEF StoredIn

LEMMA SaveRecordStep ==
  ASSUME WriterInv, NEW p \in Requests, SaveRecord(p)
  PROVE  StepOK(p)
<1> DEFINE target == RowOf(p, local[p].code)
           record == local[p].record
           stored == StoredIn(p, record.id)
           gone == [row \in stored |-> NoRecord]
           versions == NewVersion(target, record) \uplus gone
<1>1. At(p, "saveRecord") /\ pc[p] = "saveRecord" /\ Entity(p) \in Entities
  BY Standing DEF SaveRecord, RecordLabels, SaveLabels
<1>2. CASE Refuses(p, IF Entity(p) = "students" /\ ~record.deleted
                      THEN "conflict" ELSE "failed")
  BY <1>1, <1>2, RefusesStep, RecordKinds DEF RecordLabels, SaveLabels, Ended
<1>3. CASE WritesAtOnce(versions) /\ Answers(p, "done")
  <2>1. DOMAIN versions = {target} \union stored
    BY DEF NewVersion, \uplus
  <2>2. \A row \in DOMAIN versions : Touches(p, row)
    BY <1>1, <2>1, RowsOfEntity, StoredRows DEF Touches
  <2>3. "saveRecord" \notin Inside /\ "done" \in Ended
    BY <1>1, RecordKinds DEF RecordLabels, SaveLabels, Ended
  <2> HIDE DEF versions
  <2>4. QED BY <1>1, <1>3, <2>2, <2>3, AnswersStep
<1>4. QED BY <1>2, <1>3 DEF SaveRecord

LEMMA RemoveRecordStep ==
  ASSUME WriterInv, NEW p \in Requests, RemoveRecord(p)
  PROVE  StepOK(p)
<1> DEFINE versions == [row \in StoredIn(p, local[p].record.id) |-> NoRecord]
<1>1. At(p, "removeRecord") /\ pc[p] = "removeRecord" /\ Entity(p) \in Entities
  BY Standing DEF RemoveRecord, RecordLabels, SaveLabels
<1>2. \A row \in DOMAIN versions : Touches(p, row)
  BY <1>1, StoredRows DEF Touches
<1>3. "removeRecord" \notin Inside /\ "done" \in Ended
  BY <1>1, RecordKinds DEF RecordLabels, SaveLabels, Ended
<1>4. CASE WritesAtOnce(versions) /\ Answers(p, "done")
  <2> HIDE DEF versions
  <2>1. QED BY <1>1, <1>2, <1>3, <1>4, AnswersStep
<1>5. CASE Refuses(p, "failed")
  BY <1>1, <1>3, <1>5, RefusesStep DEF Ended
<1>6. QED BY <1>4, <1>5 DEF RemoveRecord

LEMMA RecordStep ==
  ASSUME WriterInv, NEW p \in Requests, RecordStatement(p)
  PROVE  StepOK(p)
BY CreateRecordStep, DrawCodeStep, LookUpStudentStep, InsertRecordStep,
   UpdateRecordStep, DeleteRecordStep, SaveRecordStep, RemoveRecordStep
   DEF RecordStatement

-----------------------------------------------------------------------------
(* Statements of school years.                                             *)

LEMMA YearKinds ==
  ASSUME WriterInv, NEW p \in Requests, NEW at \in YearLabels \union {"getCurrent"},
         At(p, at)
  PROVE  /\ work[p].kind = "getCurrent"
         /\ \A label \in YearLabels : OnPath(work[p].kind, label)
         /\ at \in Labels /\ YearLabels \subseteq Inside
         /\ at # "getCurrent" => at \in Inside
BY Standing DEF OnPath, YearLabels, Ended, CreateLabels, SaveLabels, ChargeLabels,
     ImportLabels, TokenLabels, Labels, Inside, IsRequest, Kinds

LEMMA YearRows ==
  /\ \A y : YearRow(y)[1] \in YearTables
  /\ \A y, s : SemesterRow(y, s)[1] \in YearTables
  /\ \A y, z : YearRow(y) = YearRow(z) => y = z
  /\ \A y, z, s : YearRow(y) # SemesterRow(z, s)
  /\ \A y, z, s, t : SemesterRow(y, s) = SemesterRow(z, t) => y = z /\ s = t
BY DEF YearRow, SemesterRow, YearTables

LEMMA GoesThroughOn ==
  ASSUME Shapes, NEW p \in Requests, NEW found, NEW year, GoesThrough(p, found, year)
  PROVE  /\ pc' \in [Requests -> Labels]
         /\ DOMAIN wants' = Requests /\ DOMAIN local' = Requests
         /\ DOMAIN local'[p] = DOMAIN NoLocals
         /\ \A q \in Requests \ {p} :
              pc'[q] = pc[q] /\ wants'[q] = wants[q] /\ local'[q] = local[q]
         /\ pc'[p] = IF found = {} THEN "openYear" ELSE "closeYear"
         /\ wants'[p] = {YearRow(IF found = {} THEN year ELSE Min(found))}
         /\ local'[p].years = found /\ local'[p].year = year
<1>1. "openYear" \in Labels /\ "closeYear" \in Labels
  BY DEF Labels
<1>2. pc' \in [Requests -> Labels]
  BY <1>1 DEF GoesThrough, Shapes
<1>3. /\ DOMAIN wants' = Requests
      /\ pc'[p] = IF found = {} THEN "openYear" ELSE "closeYear"
      /\ wants'[p] = {YearRow(IF found = {} THEN year ELSE Min(found))}
      /\ \A q \in Requests \ {p} : pc'[q] = pc[q] /\ wants'[q] = wants[q]
  BY DEF GoesThrough, Shapes
<1>4. /\ DOMAIN local' = Requests
      /\ local'[p] = [local[p] EXCEPT !.years = found, !.year = year]
      /\ \A q \in Requests \ {p} : local'[q] = local[q]
  BY DEF GoesThrough, Shapes
<1>5. {"years", "year"} \subseteq DOMAIN local[p] /\ DOMAIN local[p] = DOMAIN NoLocals
  BY LocalsOfNone DEF Shapes
<1>6. QED BY <1>2, <1>3, <1>4, <1>5

LEMMA GoesThroughOK ==
  ASSUME WriterInv, NEW p \in Requests, NEW at \in YearLabels \union {"getCurrent"},
         At(p, at), NEW found, NEW year, GoesThrough(p, found, year),
         HeldOK(p)' /\ SemestersHeld(p)'
  PROVE  ProcOK(p)'
<1>1. /\ pc'[p] = IF found = {} THEN "openYear" ELSE "closeYear"
      /\ wants'[p] = {YearRow(IF found = {} THEN year ELSE Min(found))}
      /\ local'[p].years = found /\ local'[p].year = year
  BY Standing, GoesThroughOn
<1>2. pc'[p] \in YearLabels /\ work' = work
  BY <1>1, Standing DEF YearLabels
<1>3. WantsOK(p)'
  BY <1>1, <1>2 DEF WantsOK, YearLabels, Inside
<1>4. ThenOK(p)'
  BY <1>2, YearKinds DEF ThenOK
<1>5. OnPath(work[p].kind, pc'[p]) /\ pc'[p] \in Inside
  BY <1>2, YearKinds
<1>6. pc'[p] \notin RecordLabels
  BY <1>2 DEF YearLabels, RecordLabels, CreateLabels, SaveLabels
<1>7. QED BY <1>2, <1>3, <1>4, <1>5, <1>6 DEF ProcOK

LEMMA GetCurrentStep ==
  ASSUME WriterInv, NEW p \in Requests, GetCurrent(p)
  PROVE  StepOK(p)
<1>1. At(p, "getCurrent") /\ OnlyReads /\ GoesThrough(p, ActiveYears(p), now)
  BY DEF GetCurrent
<1>2. Frame(p) /\ Effect(p) /\ written'[p] = written[p]
  BY <1>1, Standing, GoesThroughOn DEF OnlyReads, Frame, Effect
<1>3. HeldOK(p)' /\ SemestersHeld(p)'
  BY <1>1, <1>2, Standing DEF HeldOK, SemestersHeld
<1>4. QED BY <1>1, <1>2, <1>3, GoesThroughOK DEF StepOK

(* Versions of years and semesters that nobody else has versions of may be *)
(* added to those p has.                                                   *)
LEMMA YearVersions ==
  ASSUME WriterInv, NEW p \in Requests, NEW at \in {"closeYear", "openYear"}, At(p, at),
         NEW versions, Writes(p, versions),
         \A row \in DOMAIN versions :
           row[1] \in YearTables /\ \A q \in Requests \ {p} : row \notin DOMAIN written[q],
         \A y, s : SemesterRow(y, s) \in DOMAIN versions => YearRow(y) \in DOMAIN versions
  PROVE  /\ WritesInside(p) /\ HeldOK(p)' /\ SemestersHeld(p)'
         /\ DOMAIN written' = Requests
         /\ DOMAIN written'[p] = DOMAIN versions \union DOMAIN written[p]
         /\ \A row \in DOMAIN versions : written'[p][row] = versions[row]
         /\ \A q \in Requests \ {p} : written'[q] = written[q]
<1>1. /\ committed' = committed
      /\ DOMAIN written' = Requests
      /\ \A q \in Requests \ {p} : written'[q] = written[q]
      /\ DOMAIN written'[p] = DOMAIN versions \union DOMAIN written[p]
      /\ \A row \in DOMAIN versions : written'[p][row] = versions[row]
      /\ \A row \in DOMAIN written[p] \ DOMAIN versions :
           written'[p][row] = written[p][row]
  BY Standing, WritesRows
<1>2. \A row \in DOMAIN versions : Touches(p, row)
  BY Standing DEF Touches
<1>3. work' = work /\ work[p].kind = "getCurrent" /\ pc[p] \in Inside
  BY Standing, YearKinds DEF YearLabels
<1>4. WritesInside(p)
  BY <1>1, <1>2, <1>3 DEF WritesInside
<1>5. HeldOK(p)' /\ SemestersHeld(p)'
  BY <1>1, <1>3, Standing DEF HeldOK, SemestersHeld
<1>6. QED BY <1>1, <1>4, <1>5

LEMMA CloseYearStep ==
  ASSUME WriterInv, NEW p \in Requests, CloseYear(p)
  PROVE  StepOK(p)
<1> DEFINE y == Min(local[p].years)
           versions == NewVersion(YearRow(y), [Sees(p, YearRow(y)) EXCEPT !.status = "CLOSED"])
<1>1. /\ At(p, "closeYear") /\ pc[p] = "closeYear"
      /\ GoesThrough(p, local[p].years \ {y}, local[p].year)
      /\ Writes(p, versions) \/ OnlyReads
  BY Standing DEF CloseYear
<1>2. wants[p] = {YearRow(y)}
  BY <1>1, Standing DEF WantsOK
<1>3. DOMAIN versions = {YearRow(y)}
  BY OneVersion
<1> HIDE DEF versions
<1>4. CASE OnlyReads
  <2>1. Frame(p) /\ Effect(p) /\ written'[p] = written[p]
    BY <1>1, <1>4, Standing, GoesThroughOn DEF OnlyReads, Frame, Effect
  <2>2. HeldOK(p)' /\ SemestersHeld(p)'
    BY <1>1, <2>1, Standing DEF HeldOK, SemestersHeld
  <2>3. QED BY <1>1, <2>1, <2>2, GoesThroughOK DEF StepOK, YearLabels
<1>5. CASE Writes(p, versions)
  <2>1. \A row \in DOMAIN versions :
          row[1] \in YearTables /\ \A q \in Requests \ {p} : row \notin DOMAIN written[q]
    BY <1>1, <1>2, <1>3, Standing, YearRows
  <2>2. \A z, s : SemesterRow(z, s) \in DOMAIN versions => YearRow(z) \in DOMAIN versions
    BY <1>3, YearRows
  <2>3. /\ WritesInside(p) /\ HeldOK(p)' /\ SemestersHeld(p)'
        /\ DOMAIN written' = Requests
        /\ \A q \in Requests \ {p} : written'[q] = written[q]
    BY <1>1, <1>5, <2>1, <2>2, YearVersions
  <2>4. Frame(p)
    BY <1>1, <2>3, Standing, GoesThroughOn DEF Frame
  <2>5. QED BY <1>1, <2>3, <2>4, GoesThroughOK DEF StepOK, YearLabels, Effect
<1>6. QED BY <1>1, <1>4, <1>5

(* The versions of a year that is opened and of its semesters.             *)
Opened(y, year) == NewVersion(YearRow(y), year) \uplus DefaultSemesters(y, year)

LEMMA OpenedRows ==
  ASSUME NEW y, NEW year
  PROVE  LET versions == Opened(y, year)
         IN  /\ DOMAIN versions = {YearRow(y), SemesterRow(y, "HK1"), SemesterRow(y, "HK2")}
             /\ versions[YearRow(y)] = year
             /\ versions[SemesterRow(y, "HK1")] =
                  [status |-> year.status, start |-> year.start,
                   end |-> FirstEnd(year.start, year.end)]
             /\ versions[SemesterRow(y, "HK2")] =
                  [status |-> year.status, start |-> SecondStart(year.start, year.end),
                   end |-> year.end]
<1> DEFINE sems == DefaultSemesters(y, year)
           versions == NewVersion(YearRow(y), year) \uplus sems
<1>1. DOMAIN sems = {SemesterRow(y, "HK1"), SemesterRow(y, "HK2")}
  BY DEF DefaultSemesters, Semesters
<1>2. sems[SemesterRow(y, "HK1")] =
        [status |-> year.status, start |-> year.start,
         end |-> FirstEnd(year.start, year.end)]
  BY DEF DefaultSemesters, Semesters
<1>3. sems[SemesterRow(y, "HK2")] =
        [status |-> year.status, start |-> SecondStart(year.start, year.end),
         end |-> year.end]
  <2>1. SemesterRow(y, "HK2") # SemesterRow(y, "HK1")
    BY YearRows
  <2>2. QED BY <2>1 DEF DefaultSemesters, Semesters
<1> HIDE DEF sems
<1>4. /\ DOMAIN versions = {YearRow(y)} \union DOMAIN sems
      /\ versions[YearRow(y)] = year
      /\ \A row \in DOMAIN sems \ {YearRow(y)} : versions[row] = sems[row]
  BY DEF \uplus, NewVersion
<1> HIDE DEF versions
<1>5. YearRow(y) # SemesterRow(y, "HK1") /\ YearRow(y) # SemesterRow(y, "HK2")
  BY YearRows
<1>6. /\ DOMAIN versions = {YearRow(y), SemesterRow(y, "HK1"), SemesterRow(y, "HK2")}
      /\ versions[SemesterRow(y, "HK1")] = sems[SemesterRow(y, "HK1")]
      /\ versions[SemesterRow(y, "HK2")] = sems[SemesterRow(y, "HK2")]
  BY <1>1, <1>4, <1>5
<1>7. QED BY <1>2, <1>3, <1>4, <1>6 DEF versions, sems, Opened

LEMMA OpenYearStep ==
  ASSUME WriterInv, NEW p \in Requests, OpenYear(p)
  PROVE  StepOK(p)
<1> DEFINE y == local[p].year
           year == UpsertedYear(p, y)
           versions == NewVersion(YearRow(y), year) \uplus DefaultSemesters(y, year)
<1>1. /\ At(p, "openYear") /\ pc[p] = "openYear"
      /\ Writes(p, versions) /\ Proceeds(p, "commitYear", {}, local[p])
  BY Standing DEF OpenYear
<1>2. wants[p] = {YearRow(y)}
  BY <1>1, Standing DEF WantsOK
<1>3. DOMAIN versions = {YearRow(y), SemesterRow(y, "HK1"), SemesterRow(y, "HK2")}
  BY OpenedRows DEF Opened
<1> HIDE DEF versions
<1>4. ASSUME NEW q \in Requests \ {p}, NEW row \in DOMAIN versions
      PROVE  row \notin DOMAIN written[q]
  <2>1. YearRow(y) \notin DOMAIN written[q]
    BY <1>1, <1>2, Standing
  <2>2. \A s : SemesterRow(y, s) \notin DOMAIN written[q]
    BY <2>1 DEF WriterInv, ProcOK, SemestersHeld
  <2>3. QED BY <1>3, <2>1, <2>2
<1>5. \A row \in DOMAIN versions : row[1] \in YearTables
  BY <1>3, YearRows
<1>6. \A z, s : SemesterRow(z, s) \in DOMAIN versions => YearRow(z) \in DOMAIN versions
  BY <1>3, YearRows
<1>7. /\ WritesInside(p) /\ HeldOK(p)' /\ SemestersHeld(p)'
      /\ DOMAIN written' = Requests
      /\ \A q \in Requests \ {p} : written'[q] = written[q]
  BY <1>1, <1>4, <1>5, <1>6, YearVersions
<1>8. /\ Frame(p) /\ pc'[p] = "commitYear" /\ wants'[p] = {}
  <2>1. "commitYear" \in Labels /\ DOMAIN local[p] = DOMAIN NoLocals
    BY <1>1, Standing DEF Labels
  <2>2. QED BY <1>1, <1>7, <2>1, Standing, ProceedsOn DEF Frame
<1>9. ProcOK(p)'
  <2>1. WantsOK(p)'
    BY <1>8 DEF WantsOK
  <2>2. ThenOK(p)'
    BY <1>8 DEF ThenOK, ChargeLabels, ImportLabels
  <2>3. OnPath(work[p].kind, "commitYear") /\ "commitYear" \in Inside /\ work' = work
    BY <1>1, YearKinds, Standing DEF YearLabels
  <2>4. "commitYear" \notin RecordLabels
    BY DEF RecordLabels, CreateLabels, SaveLabels
  <2>5. QED BY <1>7, <1>8, <2>1, <2>2, <2>3, <2>4 DEF ProcOK
<1>10. QED BY <1>7, <1>8, <1>9 DEF StepOK, Effect

LEMMA CommitYearStep ==
  ASSUME WriterInv, NEW p \in Requests, CommitYear(p)
  PROVE  StepOK(p)
<1>1. At(p, "commitYear") /\ pc[p] = "commitYear"
  BY Standing DEF CommitYear
<1>2. CASE Ends(p)
  BY <1>1, <1>2, EndsStep
<1>3. CASE /\ Entity(p) # "academic_years"
           /\ Commits(p) /\ Proceeds(p, "createRecord", {}, local[p])
  <2>1. /\ DOMAIN written' = Requests /\ written'[p] = NothingWritten
        /\ \A q \in Requests \ {p} : written'[q] = written[q]
    BY <1>1, <1>3, CommitsRows, Standing
  <2>2. Frame(p) /\ pc'[p] = "createRecord" /\ wants'[p] = {}
    <3>1. "createRecord" \in Labels /\ DOMAIN local[p] = DOMAIN NoLocals
      BY <1>1, Standing DEF Labels
    <3>2. QED BY <1>1, <1>3, <2>1, <3>1, Standing, ProceedsOn DEF Frame
  <2>3. work[p].kind = "getCurrent" /\ work' = work
    BY <1>1, YearKinds, Standing DEF YearLabels
  <2>4. Entity(p)' \in Entities
    <3>1. work[p].entity \in Yearly \union {"academic_years"}
      BY <1>1, <2>3, Standing DEF IsRequest
    <3>2. QED BY <1>3, <2>3, <3>1 DEF Entity, Yearly, Entities
  <2>5. WantsOK(p)' /\ ThenOK(p)'
    BY <2>2 DEF WantsOK, ThenOK, ChargeLabels, ImportLabels
  <2>6. OnPath(work'[p].kind, pc'[p])
    BY <2>2, <2>3 DEF OnPath
  <2>7. ProcOK(p)'
    BY <2>1, <2>4, <2>5, <2>6, NothingHeld DEF ProcOK
  <2>8. QED BY <1>1, <1>3, <2>2, <2>7 DEF StepOK, Effect
<1>4. QED BY <1>2, <1>3 DEF CommitYear

LEMMA YearStep ==
  ASSUME WriterInv, NEW p \in Requests, YearStatement(p)
  PROVE  StepOK(p)
BY GetCurrentStep, CloseYearStep, OpenYearStep, CommitYearStep DEF YearStatement

-----------------------------------------------------------------------------
(* Statements of plans and charges.                                        *)

LEMMA InsideLabels ==
  /\ Inside \subseteq Labels
  /\ \A label \in Inside : label \notin RecordLabels /\ label \notin Ended
  /\ YearLabels \union ChargeLabels \union ImportLabels \union {"assignNext"}
       \subseteq Inside
BY DEF Inside, Labels, RecordLabels, CreateLabels, SaveLabels, Ended,
     YearLabels, ChargeLabels, ImportLabels

LEMMA UpdatePlanStep ==
  ASSUME WriterInv, NEW p \in Requests, UpdatePlan(p)
  PROVE  StepOK(p)
<1> DEFINE plan == work[p].changes \uplus Sees(p, PlanRow(work[p].plan))
<1>1. /\ At(p, "updatePlan") /\ pc[p] = "updatePlan" /\ OnlyReads
      /\ Proceeds(p, "savePlan", {PlanRow(work[p].plan)}, [local[p] EXCEPT !.record = plan])
  BY Standing DEF UpdatePlan
<1> HIDE DEF plan
<1>2. DOMAIN [local[p] EXCEPT !.record = plan] = DOMAIN NoLocals /\ "savePlan" \in Labels
  BY <1>1, Standing DEF Labels
<1>3. Frame(p) /\ Effect(p) /\ written'[p] = written[p] /\ pc'[p] = "savePlan"
  BY <1>1, <1>2, ReadsOn
<1>4. OnPath(work[p].kind, "savePlan") /\ "updatePlan" \notin Inside
  BY <1>1, Standing DEF OnPath, Ended, CreateLabels, SaveLabels, YearLabels, ChargeLabels,
       ImportLabels, TokenLabels, Inside, IsRequest, Kinds
<1>5. WantsOK(p)' /\ ThenOK(p)' /\ "savePlan" \notin RecordLabels
  BY <1>3 DEF WantsOK, ThenOK, ChargeLabels, ImportLabels, RecordLabels, CreateLabels,
              SaveLabels
<1>6. ProcOK(p)'
  BY <1>1, <1>3, <1>4, <1>5, SameVersionsOK
<1>7. QED BY <1>3, <1>6 DEF StepOK

LEMMA SavePlanStep ==
  ASSUME WriterInv, NEW p \in Requests, SavePlan(p)
  PROVE  StepOK(p)
<1>1. /\ At(p, "savePlan") /\ pc[p] = "savePlan" /\ Answers(p, "done")
      /\ WritesAtOnce(NewVersion(PlanRow(work[p].plan), local[p].record))
  BY Standing DEF SavePlan
<1>2. \A row \in DOMAIN NewVersion(PlanRow(work[p].plan), local[p].record) : Touches(p, row)
  <2>1. DOMAIN NewVersion(PlanRow(work[p].plan), local[p].record) = {PlanRow(work[p].plan)}
    BY OneVersion
  <2>2. PlanRow(work[p].plan)[1] = "fee_plans (terms)"
    BY DEF PlanRow
  <2>3. QED BY <1>1, <2>1, <2>2 DEF Touches
<1>3. "savePlan" \notin Inside /\ "done" \in Ended
  BY DEF Inside, YearLabels, ChargeLabels, ImportLabels, Ended
<1>4. QED BY <1>1, <1>2, <1>3, AnswersStep

ChargeFrom == ChargeLabels \union ImportLabels \union {"assignNext"}

(* Who charges goes on to another statement of charging, or back. *)
LEMMA ChargeKinds ==
  ASSUME WriterInv, NEW p \in Requests, NEW at \in ChargeLabels, At(p, at)
  PROVE  /\ work[p].kind \in {"assign", "confirm"}
         /\ \A label \in ChargeLabels : OnPath(work[p].kind, label)
         /\ OnPath(work[p].kind, local[p].then)
         /\ local[p].then \in {"assignNext", "importNext"}
BY Standing DEF OnPath, ThenOK, Ended, CreateLabels, SaveLabels, YearLabels, ChargeLabels,
     ImportLabels, TokenLabels, IsRequest, Kinds

LEMMA ThenStays ==
  ASSUME WriterInv, NEW p \in Requests, NEW at \in ChargeFrom, At(p, at),
         local'[p].then = local[p].then, work' = work, pc'[p] \in ChargeFrom
  PROVE  ThenOK(p)'
<1>1. OnPath(work[p].kind, pc[p]) /\ ThenOK(p) /\ pc[p] = at
  BY Standing
<1>2. work[p].kind = "assign" => pc[p] \in ChargeLabels \union {"assignNext"}
  BY <1>1 DEF OnPath, ChargeFrom, ChargeLabels, ImportLabels, Ended
<1>3. work[p].kind = "confirm" => pc[p] \in ChargeLabels \union ImportLabels
  BY <1>1 DEF OnPath, ChargeFrom, ChargeLabels, ImportLabels, Ended
<1>4. QED BY <1>1, <1>2, <1>3 DEF ThenOK

(* From one statement of the transaction to another, without writing. *)
LEMMA ReadsInside ==
  ASSUME WriterInv, NEW p \in Requests, NEW at \in ChargeFrom, At(p, at), OnlyReads,
         NEW label \in ChargeFrom, OnPath(work[p].kind, label),
         NEW rows, NEW locals, DOMAIN locals = DOMAIN local[p],
         locals.then = local[p].then,
         Proceeds(p, label, rows, locals), WantsOK(p)'
  PROVE  StepOK(p)
<1>1. /\ label \in Labels /\ label \in Inside /\ label \notin RecordLabels
      /\ DOMAIN locals = DOMAIN NoLocals
  BY InsideLabels, Standing DEF ChargeFrom
<1>2. /\ Frame(p) /\ Effect(p) /\ written'[p] = written[p]
      /\ pc'[p] = label /\ wants'[p] = rows /\ local'[p] = locals
  BY <1>1, ReadsOn
<1>3. ThenOK(p)'
  BY <1>2, ThenStays, Standing
<1>4. ProcOK(p)'
  BY <1>1, <1>2, <1>3, SameVersionsOK
<1>5. QED BY <1>2, <1>4 DEF StepOK

(* The same, with versions of tables that are its to write. *)
LEMMA WritesOnInside ==
  ASSUME WriterInv, NEW p \in Requests, NEW at \in ChargeFrom, At(p, at),
         NEW versions, Writes(p, versions), DOMAIN versions \subseteq wants[p],
         \A row \in DOMAIN versions :
           /\ Touches(p, row)
           /\ \/ work[p].kind = "assign" /\ row[1] = "student_receivables"
              \/ work[p].kind = "confirm" /\ row[1] \in ImportTables
              \/ work[p].kind = "confirm" /\ row = SequenceRow(<<"students", 0>>)
              \/ work[p].kind \in {"assign", "confirm"}
                   /\ row = SequenceRow(ReceivableCounter),
         \A y, s : SemesterRow(y, s) \notin DOMAIN versions,
         NEW label \in ChargeFrom, OnPath(work[p].kind, label),
         NEW rows, NEW locals, DOMAIN locals = DOMAIN local[p],
         locals.then = local[p].then,
         Proceeds(p, label, rows, locals), WantsOK(p)'
  PROVE  StepOK(p)
<1>1. /\ label \in Labels /\ label \in Inside /\ label \notin RecordLabels
      /\ at \in Inside /\ DOMAIN locals = DOMAIN NoLocals
  BY InsideLabels, Standing DEF ChargeFrom
<1>2. \A row \in DOMAIN versions :
        Touches(p, row) /\ \A q \in Requests \ {p} : row \notin DOMAIN written[q]
  BY Standing
<1>3. /\ Frame(p) /\ Effect(p)
      /\ DOMAIN written'[p] = DOMAIN versions \union DOMAIN written[p]
      /\ pc'[p] = label /\ wants'[p] = rows /\ local'[p] = locals
  BY <1>1, <1>2, WritesOn
<1>4. ThenOK(p)'
  BY <1>3, ThenStays, Standing
<1>5. work' = work
  BY Standing
<1>6. HeldOK(p)'
  BY <1>3, <1>5, Standing DEF HeldOK
<1>7. SemestersHeld(p)'
  BY <1>3, Standing DEF SemestersHeld
<1>8. ProcOK(p)'
  BY <1>1, <1>3, <1>4, <1>5, <1>6, <1>7 DEF ProcOK
<1>9. QED BY <1>3, <1>8 DEF StepOK

LEMMA CreateIfNotExistsStep ==
  ASSUME WriterInv, NEW p \in Requests, CreateIfNotExists(p)
  PROVE  StepOK(p)
<1> DEFINE skipped == [local[p] EXCEPT !.counts.skipped = @ + 1]
<1>1. At(p, "createIfNotExists") /\ OnlyReads /\ "createIfNotExists" \in ChargeLabels
  BY DEF CreateIfNotExists, ChargeLabels
<1>2. /\ Shapes /\ local[p].then \in {"assignNext", "importNext"}
      /\ OnPath(work[p].kind, local[p].then)
  BY <1>1, ChargeKinds, Standing
<1>3. CASE Proceeds(p, local[p].then, {}, skipped)
  <2>1. DOMAIN skipped = DOMAIN local[p] /\ skipped.then = local[p].then
    BY <1>1, Standing, LocalsOfNone
  <2> HIDE DEF skipped
  <2>2. pc'[p] = local[p].then
    BY <1>2, <1>3 DEF Proceeds, Shapes
  <2>3. WantsOK(p)'
    BY <1>2, <2>2, InsideLabels DEF WantsOK, Inside, ImportLabels
  <2>4. QED BY <1>1, <1>2, <1>3, <2>1, <2>3, ReadsInside DEF ChargeFrom, ImportLabels
<1>4. CASE Proceeds(p, "drawReceivableCode", {SequenceRow(ReceivableCounter)}, local[p])
  <2>1. WantsOK(p)'
    BY <1>2, <1>4 DEF Proceeds, Shapes, WantsOK, Inside, ChargeLabels
  <2>2. OnPath(work[p].kind, "drawReceivableCode")
    BY <1>1, ChargeKinds DEF ChargeLabels
  <2>3. QED BY <1>1, <1>4, <2>1, <2>2, ReadsInside DEF ChargeFrom, ChargeLabels
<1>5. QED BY <1>3, <1>4 DEF CreateIfNotExists

LEMMA DrawReceivableCodeStep ==
  ASSUME WriterInv, NEW p \in Requests, DrawReceivableCode(p)
  PROVE  StepOK(p)
<1> DEFINE versions == Drawn(p, ReceivableCounter)
           locals == [local[p] EXCEPT !.code = NextNumber(p, ReceivableCounter)]
<1>1. /\ At(p, "drawReceivableCode") /\ "drawReceivableCode" \in ChargeLabels
      /\ Writes(p, versions) /\ Proceeds(p, "insertReceivable", {ChargeRow(p)}, locals)
      /\ pc[p] = "drawReceivableCode"
  BY Standing DEF DrawReceivableCode, DrawsInside, ChargeLabels
<1>2. /\ DOMAIN locals = DOMAIN local[p] /\ locals.then = local[p].then
      /\ locals.record = local[p].record
  BY <1>1, Standing, LocalsOfNone
<1> HIDE DEF locals
<1>3. DOMAIN versions = {SequenceRow(ReceivableCounter)}
  BY OneVersion DEF Drawn
<1> HIDE DEF versions
<1>4. wants[p] = {SequenceRow(ReceivableCounter)} /\ Shapes
  BY <1>1, Standing DEF WantsOK
<1>5. Touches(p, SequenceRow(ReceivableCounter)) /\ work[p].kind \in {"assign", "confirm"}
  BY <1>1, ChargeKinds DEF Touches
<1>6. \A y, s : SemesterRow(y, s) # SequenceRow(ReceivableCounter)
  BY DEF SemesterRow, SequenceRow
<1>7. WantsOK(p)'
  <2>1. pc'[p] = "insertReceivable" /\ wants'[p] = {ChargeRow(p)} /\ local'[p] = locals
    BY <1>1, <1>4 DEF Proceeds, Shapes
  <2>2. ChargeRow(p)' = ChargeRow(p)
    BY <1>2, <2>1 DEF ChargeRow
  <2>3. QED BY <2>1, <2>2 DEF WantsOK, Inside, ChargeLabels
<1>8. OnPath(work[p].kind, "insertReceivable")
  BY <1>1, ChargeKinds DEF ChargeLabels
<1>9. "drawReceivableCode" \in ChargeFrom /\ "insertReceivable" \in ChargeFrom
  BY DEF ChargeFrom, ChargeLabels
<1>10. QED
  BY <1>1, <1>2, <1>3, <1>4, <1>5, <1>6, <1>7, <1>8, <1>9, WritesOnInside

LEMMA InsertReceivableStep ==
  ASSUME WriterInv, NEW p \in Requests, InsertReceivable(p)
  PROVE  StepOK(p)
<1> DEFINE version == [number |-> local[p].code, amount |-> local[p].record.amount, by |-> p]
           versions == NewVersion(ChargeRow(p), version)
           locals == [local[p] EXCEPT !.counts.charged = @ + 1]
<1>1. At(p, "insertReceivable") /\ pc[p] = "insertReceivable"
      /\ "insertReceivable" \in ChargeLabels
  BY Standing DEF InsertReceivable, ChargeLabels
<1>2. CASE Fails(p, "failed")
  BY <1>1, <1>2, FailsStep, Standing
<1>3. CASE Writes(p, versions) /\ Proceeds(p, local[p].then, {}, locals)
  <2>1. DOMAIN locals = DOMAIN local[p] /\ locals.then = local[p].then
    BY <1>1, Standing, LocalsOfNone
  <2> HIDE DEF locals
  <2>2. DOMAIN versions = {ChargeRow(p)} /\ wants[p] = {ChargeRow(p)} /\ Shapes
    BY <1>1, OneVersion, Standing DEF WantsOK
  <2>3. ChargeRow(p)[1] = "student_receivables"
    BY DEF ChargeRow, ReceivableRow
  <2>4. \A y, s : SemesterRow(y, s) # ChargeRow(p)
    BY DEF SemesterRow, ChargeRow, ReceivableRow
  <2>5. /\ local[p].then \in {"assignNext", "importNext"}
        /\ OnPath(work[p].kind, local[p].then) /\ work[p].kind \in {"assign", "confirm"}
    BY <1>1, ChargeKinds
  <2>6. Touches(p, ChargeRow(p)) /\ ChargeRow(p)[1] \in ImportTables
    BY <1>1, <2>3 DEF Touches, ImportTables
  <2>7. WantsOK(p)'
    <3>1. pc'[p] = local[p].then
      BY <1>3, <2>2 DEF Proceeds, Shapes
    <3>2. QED BY <2>5, <3>1 DEF WantsOK, Inside, ImportLabels
  <2>8. "insertReceivable" \in ChargeFrom /\ local[p].then \in ChargeFrom
    BY <2>5 DEF ChargeFrom, ChargeLabels, ImportLabels
  <2> HIDE DEF versions
  <2>9. QED
    BY <1>1, <1>3, <2>1, <2>2, <2>3, <2>4, <2>5, <2>6, <2>7, <2>8, WritesOnInside
<1>4. QED BY <1>2, <1>3 DEF InsertReceivable

LEMMA AssignStep ==
  ASSUME WriterInv, NEW p \in Requests, Assign(p)
  PROVE  StepOK(p)
<1> DEFINE plan == Sees(p, PlanRow(work[p].plan))
           locals == [local[p] EXCEPT !.plan = plan]
<1>1. At(p, "assign") /\ "assign" \notin Inside /\ pc[p] = "assign"
  BY Standing DEF Assign, Inside, YearLabels, ChargeLabels, ImportLabels
<1>2. CASE Refuses(p, "refused")
  BY <1>1, <1>2, RefusesStep DEF Ended
<1>3. CASE OnlyReads /\ Proceeds(p, "findStudents", {}, locals)
  <2>1. DOMAIN locals = DOMAIN NoLocals /\ "findStudents" \in Labels
    BY <1>1, Standing DEF Labels
  <2> HIDE DEF locals
  <2>2. /\ Frame(p) /\ Effect(p) /\ written'[p] = written[p]
        /\ pc'[p] = "findStudents" /\ wants'[p] = {}
    BY <1>1, <1>3, <2>1, ReadsOn
  <2>3. OnPath(work[p].kind, "findStudents")
    BY <1>1, Standing DEF OnPath, Ended, CreateLabels, SaveLabels, YearLabels,
       ChargeLabels, ImportLabels, TokenLabels, IsRequest, Kinds
  <2>4. WantsOK(p)' /\ ThenOK(p)' /\ "findStudents" \notin RecordLabels
    BY <2>2 DEF WantsOK, ThenOK, ChargeLabels, ImportLabels, RecordLabels, CreateLabels,
                SaveLabels
  <2>5. QED BY <1>1, <2>2, <2>3, <2>4, SameVersionsOK DEF StepOK
<1>4. QED BY <1>2, <1>3 DEF Assign

LEMMA FindStudentsStep ==
  ASSUME WriterInv, NEW p \in Requests, FindStudents(p)
  PROVE  StepOK(p)
<1>1. /\ At(p, "findStudents") /\ "findStudents" \notin Inside
      /\ pc[p] = "findStudents" /\ OnlyReads
  BY Standing DEF FindStudents, Inside, YearLabels, ChargeLabels, ImportLabels
<1>2. PICK todo : Proceeds(p, "assignNext", {},
                           [local[p] EXCEPT !.then = "assignNext", !.todo = todo])
  BY DEF FindStudents
<1> DEFINE locals == [local[p] EXCEPT !.then = "assignNext", !.todo = todo]
<1>3. /\ DOMAIN locals = DOMAIN NoLocals /\ locals.then = "assignNext"
      /\ Proceeds(p, "assignNext", {}, locals)
  BY <1>1, <1>2, Standing, LocalsOfNone
<1> HIDE DEF locals
<1>4. "assignNext" \in Labels /\ "assignNext" \in Inside /\ "assignNext" \notin RecordLabels
  BY InsideLabels
<1>5. /\ Frame(p) /\ Effect(p) /\ written'[p] = written[p]
      /\ pc'[p] = "assignNext" /\ wants'[p] = {} /\ local'[p] = locals
  BY <1>1, <1>3, <1>4, ReadsOn
<1>6. work[p].kind = "assign" /\ work' = work
  BY <1>1, Standing DEF OnPath, Ended, CreateLabels, SaveLabels, YearLabels,
     ChargeLabels, ImportLabels, TokenLabels, IsRequest, Kinds
<1>7. WantsOK(p)' /\ ThenOK(p)' /\ OnPath(work[p].kind, "assignNext")
  BY <1>3, <1>5, <1>6 DEF WantsOK, ThenOK, OnPath, Inside
<1>8. QED BY <1>1, <1>4, <1>5, <1>7, SameVersionsOK DEF StepOK

LEMMA AssignNextStep ==
  ASSUME WriterInv, NEW p \in Requests, AssignNext(p)
  PROVE  StepOK(p)
<1> DEFINE locals == [local[p] EXCEPT !.record = Head(local[p].todo), !.todo = Tail(@)]
<1>1. At(p, "assignNext") /\ pc[p] = "assignNext"
  BY Standing DEF AssignNext
<1>2. CASE Ends(p)
  BY <1>1, <1>2, EndsStep
<1>3. CASE OnlyReads /\ Proceeds(p, "createIfNotExists", {}, locals)
  <2>1. DOMAIN locals = DOMAIN local[p] /\ locals.then = local[p].then
    BY <1>1, Standing, LocalsOfNone
  <2> HIDE DEF locals
  <2>2. work[p].kind = "assign" /\ Shapes
    BY <1>1, Standing DEF OnPath, Ended, CreateLabels, SaveLabels, YearLabels,
       ChargeLabels, ImportLabels, TokenLabels, IsRequest, Kinds
  <2>3. OnPath(work[p].kind, "createIfNotExists")
    BY <2>2 DEF OnPath, ChargeLabels
  <2>4. WantsOK(p)'
    BY <1>3, <2>2 DEF Proceeds, Shapes, WantsOK, Inside, ChargeLabels
  <2>5. QED BY <1>1, <1>3, <2>1, <2>3, <2>4, ReadsInside DEF ChargeFrom, ChargeLabels
<1>4. QED BY <1>2, <1>3 DEF AssignNext

LEMMA ChargeStep ==
  ASSUME WriterInv, NEW p \in Requests, ChargeStatement(p)
  PROVE  StepOK(p)
BY UpdatePlanStep, SavePlanStep, CreateIfNotExistsStep, DrawReceivableCodeStep,
   InsertReceivableStep, AssignStep, FindStudentsStep, AssignNextStep
   DEF ChargeStatement

-----------------------------------------------------------------------------
(* Statements of imports.                                                  *)

LEMMA PreviewStep ==
  ASSUME WriterInv, NEW p \in Requests, Preview(p)
  PROVE  StepOK(p)
<1>1. /\ At(p, "preview") /\ pc[p] = "preview" /\ "preview" \notin Inside
      /\ Answers(p, "done") /\ "done" \in Ended
  BY Standing DEF Preview, Inside, YearLabels, ChargeLabels, ImportLabels, Ended
<1>2. PICK version : WritesAtOnce(NewVersion(SessionRow(work[p].session), version))
  BY DEF Preview
<1>3. \A row \in DOMAIN NewVersion(SessionRow(work[p].session), version) : Touches(p, row)
  <2>1. DOMAIN NewVersion(SessionRow(work[p].session), version)
          = {SessionRow(work[p].session)}
    BY OneVersion
  <2>2. SessionRow(work[p].session)[1] = "import_sessions"
    BY DEF SessionRow
  <2>3. QED BY <1>1, <2>1, <2>2 DEF Touches
<1>4. QED BY <1>1, <1>2, <1>3, AnswersStep

LEMMA ConfirmStep ==
  ASSUME WriterInv, NEW p \in Requests, Confirm(p)
  PROVE  StepOK(p)
<1> DEFINE locals == [local[p] EXCEPT !.todo = WithClasses(p, SessionOf(p).rows),
                                      !.then = "importNext",
                                      !.plan = Sees(p, PlanRow(work[p].plan))]
<1>1. At(p, "confirm") /\ pc[p] = "confirm" /\ "confirm" \notin Inside
  BY Standing DEF Confirm, Inside, YearLabels, ChargeLabels, ImportLabels
<1>2. CASE Refuses(p, "refused")
  BY <1>1, <1>2, RefusesStep DEF Ended
<1>3. CASE OnlyReads /\ Proceeds(p, "importNext", {}, locals)
  <2>1. DOMAIN locals = DOMAIN NoLocals /\ locals.then = "importNext"
    BY <1>1, Standing, LocalsOfNone
  <2> HIDE DEF locals
  <2>2. "importNext" \in Labels /\ "importNext" \in Inside /\ "importNext" \notin RecordLabels
    BY InsideLabels DEF ImportLabels
  <2>3. /\ Frame(p) /\ Effect(p) /\ written'[p] = written[p]
        /\ pc'[p] = "importNext" /\ wants'[p] = {} /\ local'[p] = locals
    BY <1>1, <1>3, <2>1, <2>2, ReadsOn
  <2>4. work[p].kind = "confirm" /\ work' = work
    BY <1>1, Standing DEF OnPath, Ended, CreateLabels, SaveLabels, YearLabels,
       ChargeLabels, ImportLabels, TokenLabels, IsRequest, Kinds
  <2>5. WantsOK(p)' /\ ThenOK(p)' /\ OnPath(work[p].kind, "importNext")
    BY <2>1, <2>2, <2>3, <2>4 DEF WantsOK, ThenOK, OnPath, ImportLabels
  <2>6. QED BY <1>1, <2>2, <2>3, <2>5, SameVersionsOK DEF StepOK
<1>4. QED BY <1>2, <1>3 DEF Confirm

LEMMA ImportKinds ==
  ASSUME WriterInv, NEW p \in Requests, NEW at \in ImportLabels, At(p, at)
  PROVE  /\ work[p].kind = "confirm"
         /\ \A label \in ImportLabels \union ChargeLabels : OnPath(work[p].kind, label)
         /\ ImportLabels \union ChargeLabels \subseteq ChargeFrom
         /\ Shapes
BY Standing DEF OnPath, Ended, CreateLabels, SaveLabels, YearLabels, ChargeLabels,
     ImportLabels, TokenLabels, IsRequest, Kinds, ChargeFrom

(* From one statement of an import to another: the rows it then wants are  *)
(* those of its statement.                                                 *)
LEMMA ImportReads ==
  ASSUME WriterInv, NEW p \in Requests, NEW at \in ImportLabels, At(p, at), OnlyReads,
         NEW label \in ImportLabels \union ChargeLabels,
         NEW rows, NEW locals, DOMAIN locals = DOMAIN local[p],
         locals.then = local[p].then, Proceeds(p, label, rows, locals), WantsOK(p)'
  PROVE  StepOK(p)
BY ReadsInside, ImportKinds

LEMMA ImportArrives ==
  ASSUME WriterInv, NEW p \in Requests, NEW at \in ImportLabels, At(p, at),
         NEW label, NEW rows, NEW locals, Proceeds(p, label, rows, locals)
  PROVE  /\ pc'[p] = label /\ wants'[p] = rows /\ local'[p] = locals
         /\ label \in {"importNext", "createStudent", "findEnrolment", "commitImport",
                       "createIfNotExists"} => WantsOK(p)'
<1>1. pc'[p] = label /\ wants'[p] = rows /\ local'[p] = locals
  BY ImportKinds DEF Proceeds, Shapes
<1>2. QED BY <1>1 DEF WantsOK, Inside, ImportLabels, ChargeLabels

LEMMA InsertsStudentOn ==
  ASSUME WriterInv, NEW p \in Requests, NEW at \in ImportLabels, At(p, at), NEW code,
         InsertsStudent(p, code)
  PROVE  LET locals == [local[p] EXCEPT !.code = code] IN
         /\ Proceeds(p, "insertStudent", NewStudentRows(p, code), locals)
         /\ DOMAIN locals = DOMAIN local[p] /\ locals.then = local[p].then
         /\ WantsOK(p)'
<1> DEFINE locals == [local[p] EXCEPT !.code = code]
<1>1. Proceeds(p, "insertStudent", NewStudentRows(p, code), locals)
  BY DEF InsertsStudent
<1>2. /\ DOMAIN locals = DOMAIN local[p] /\ locals.then = local[p].then
      /\ locals.todo = local[p].todo /\ locals.code = code
  BY Standing, LocalsOfNone
<1> HIDE DEF locals
<1>3. /\ pc'[p] = "insertStudent" /\ wants'[p] = NewStudentRows(p, code)
      /\ local'[p] = locals
  BY <1>1, ImportArrives
<1>4. NewStudentRows(p, local[p].code)' = NewStudentRows(p, code)
  BY <1>2, <1>3 DEF NewStudentRows, Row
<1>5. WantsOK(p)'
  BY <1>3, <1>4 DEF WantsOK, Inside, ImportLabels
<1>6. QED BY <1>1, <1>2, <1>5 DEF locals

LEMMA DrawsStudentCodeOn ==
  ASSUME WriterInv, NEW p \in Requests, NEW at \in ImportLabels, At(p, at),
         DrawsStudentCode(p)
  PROVE  /\ Proceeds(p, "drawStudentCode", {SequenceRow(<<"students", 0>>)}, local[p])
         /\ WantsOK(p)'
<1>1. Proceeds(p, "drawStudentCode", {SequenceRow(<<"students", 0>>)}, local[p])
  BY DEF DrawsStudentCode
<1>2. pc'[p] = "drawStudentCode" /\ wants'[p] = {SequenceRow(<<"students", 0>>)}
  BY <1>1, ImportArrives
<1>3. QED BY <1>1, <1>2 DEF WantsOK, Inside, ImportLabels

LEMMA ImportNextStep ==
  ASSUME WriterInv, NEW p \in Requests, ImportNext(p)
  PROVE  StepOK(p)
<1> DEFINE matched == [local[p] EXCEPT !.code = Row(p).code, !.counts.matched = @ + 1]
           skipped == [local[p] EXCEPT !.todo = Tail(@)]
<1>1. At(p, "importNext") /\ "importNext" \in ImportLabels /\ OnlyReads
  BY DEF ImportNext, ImportLabels
<1>2. /\ DOMAIN matched = DOMAIN local[p] /\ matched.then = local[p].then
      /\ DOMAIN skipped = DOMAIN local[p] /\ skipped.then = local[p].then
  BY <1>1, Standing, LocalsOfNone
<1> HIDE DEF matched, skipped
<1>3. CASE Proceeds(p, "saveSession", {SessionRow(work[p].session)}, local[p])
  <2>1. pc'[p] = "saveSession" /\ wants'[p] = {SessionRow(work[p].session)}
    BY <1>1, <1>3, ImportArrives
  <2>2. work' = work
    BY <1>1, Standing
  <2>3. WantsOK(p)'
    BY <2>1, <2>2 DEF WantsOK, Inside, ImportLabels
  <2>4. QED BY <1>1, <1>3, <2>3, ImportReads DEF ImportLabels
<1>4. CASE Proceeds(p, "findEnrolment", {}, matched)
  BY <1>1, <1>2, <1>4, ImportArrives, ImportReads DEF ImportLabels
<1>5. CASE Proceeds(p, "importNext", {}, skipped)
  BY <1>1, <1>2, <1>5, ImportArrives, ImportReads DEF ImportLabels
<1>6. CASE Proceeds(p, "createStudent", {}, local[p])
  BY <1>1, <1>6, ImportArrives, ImportReads DEF ImportLabels
<1>7. QED BY <1>3, <1>4, <1>5, <1>6 DEF ImportNext, matched, skipped

LEMMA CreateStudentStep ==
  ASSUME WriterInv, NEW p \in Requests, CreateStudent(p)
  PROVE  StepOK(p)
<1>1. At(p, "createStudent") /\ "createStudent" \in ImportLabels
  BY DEF CreateStudent, ImportLabels
<1>2. CASE Fails(p, "conflict")
  BY <1>1, <1>2, FailsStep, Standing
<1>3. CASE OnlyReads /\ InsertsStudent(p, Row(p).code)
  BY <1>1, <1>3, InsertsStudentOn, ImportReads DEF ImportLabels
<1>4. CASE OnlyReads /\ DrawsStudentCode(p)
  BY <1>1, <1>4, DrawsStudentCodeOn, ImportReads DEF ImportLabels
<1>5. QED BY <1>2, <1>3, <1>4 DEF CreateStudent

(* Tables of an import are not those of years. *)
LEMMA ImportRows ==
  \A row : row[1] \in ImportTables \/ row = SequenceRow(<<"students", 0>>) =>
             \A y, s : SemesterRow(y, s) # row
BY DEF ImportTables, SequenceRow, SemesterRow

LEMMA DrawStudentCodeStep ==
  ASSUME WriterInv, NEW p \in Requests, DrawStudentCode(p)
  PROVE  StepOK(p)
<1> DEFINE counter == <<"students", 0>>
           code == NextNumber(p, counter)
           versions == Drawn(p, counter)
<1>1. /\ At(p, "drawStudentCode") /\ "drawStudentCode" \in ImportLabels
      /\ pc[p] = "drawStudentCode" /\ Writes(p, versions)
  BY Standing DEF DrawStudentCode, DrawsInside, ImportLabels
<1>2. wants[p] = {SequenceRow(counter)} /\ work[p].kind = "confirm"
  BY <1>1, Standing, ImportKinds DEF WantsOK
<1>3. DOMAIN versions = {SequenceRow(counter)}
  BY OneVersion DEF Drawn
<1>4. Touches(p, SequenceRow(counter)) /\ \A y, s : SemesterRow(y, s) # SequenceRow(counter)
  BY <1>1, ImportRows DEF Touches
<1> HIDE DEF versions, code, counter
<1>5. ASSUME NEW label \in ImportLabels, NEW rows, NEW locals,
             DOMAIN locals = DOMAIN local[p],
             locals.then = local[p].then, Proceeds(p, label, rows, locals), WantsOK(p)'
      PROVE  StepOK(p)
  BY <1>1, <1>2, <1>3, <1>4, <1>5, WritesOnInside, ImportKinds DEF counter
<1>6. CASE DrawsStudentCode(p)
  BY <1>1, <1>5, <1>6, DrawsStudentCodeOn DEF ImportLabels
<1>7. CASE InsertsStudent(p, code)
  BY <1>1, <1>5, <1>7, InsertsStudentOn DEF ImportLabels
<1>8. QED BY <1>6, <1>7 DEF DrawStudentCode, code, counter

LEMMA NewStudentTables ==
  ASSUME NEW p, NEW code
  PROVE  \A row \in NewStudentRows(p, code) :
           row[1] \in {"students", "students.identifier_code"}
BY DEF NewStudentRows, StudentRow, CodeRow, IdentifierRow

LEMMA InsertStudentStep ==
  ASSUME WriterInv, NEW p \in Requests, InsertStudent(p)
  PROVE  StepOK(p)
<1> DEFINE code == local[p].code
           row == NewVersion(StudentRow(code), [id |-> <<p, code>>, deleted |-> FALSE])
           index == [r \in NewStudentRows(p, code) \ {StudentRow(code)} |-> code]
           versions == row \uplus index
           locals == [local[p] EXCEPT !.counts.created = @ + 1]
<1>1. /\ At(p, "insertStudent") /\ "insertStudent" \in ImportLabels
      /\ pc[p] = "insertStudent"
  BY Standing DEF InsertStudent, ImportLabels
<1>2. CASE Fails(p, "conflict")
  BY <1>1, <1>2, FailsStep, Standing
<1>3. CASE Writes(p, versions) /\ Proceeds(p, "findEnrolment", {}, locals)
  <2>1. DOMAIN locals = DOMAIN local[p] /\ locals.then = local[p].then
    BY <1>1, Standing, LocalsOfNone
  <2> HIDE DEF locals
  <2>2. wants[p] = NewStudentRows(p, code) /\ work[p].kind = "confirm"
    BY <1>1, Standing, ImportKinds DEF WantsOK
  <2>3. DOMAIN versions = NewStudentRows(p, code)
    <3>1. StudentRow(code) \in NewStudentRows(p, code)
      BY DEF NewStudentRows
    <3>2. DOMAIN versions
            = {StudentRow(code)} \union (NewStudentRows(p, code) \ {StudentRow(code)})
      BY DEF \uplus, NewVersion
    <3>3. QED BY <3>1, <3>2
  <2> HIDE DEF versions
  <2>4. \A r \in DOMAIN versions :
          /\ r[1] \in {"students", "students.identifier_code"}
          /\ Touches(p, r) /\ r[1] \in ImportTables
    BY <1>1, <2>3, NewStudentTables DEF Touches, ImportTables
  <2>5. \A y, s : SemesterRow(y, s) \notin DOMAIN versions
    BY <2>4, ImportRows
  <2>6. WantsOK(p)'
    BY <1>1, <1>3, ImportArrives
  <2>7. /\ OnPath(work[p].kind, "findEnrolment") /\ "findEnrolment" \in ChargeFrom
        /\ "insertStudent" \in ChargeFrom
    BY <1>1, ImportKinds DEF ImportLabels
  <2>8. QED BY <1>1, <1>3, <2>1, <2>2, <2>3, <2>4, <2>5, <2>6, <2>7, WritesOnInside
<1>4. QED BY <1>2, <1>3 DEF InsertStudent, WritesNewStudent

LEMMA ChargesOrGoesOnStep ==
  ASSUME WriterInv, NEW p \in Requests, NEW at \in ImportLabels, At(p, at),
         ChargesOrGoesOn(p)
  PROVE  \E label \in {"importNext", "createIfNotExists"} : \E locals :
           /\ DOMAIN locals = DOMAIN local[p] /\ locals.then = local[p].then
           /\ Proceeds(p, label, {}, locals)
<1> DEFINE skipped == [local[p] EXCEPT !.todo = Tail(@)]
<1>1. CASE Proceeds(p, "importNext", {}, skipped)
  <2>1. DOMAIN skipped = DOMAIN local[p] /\ skipped.then = local[p].then
    BY Standing, LocalsOfNone
  <2> HIDE DEF skipped
  <2>2. QED BY <1>1, <2>1
<1>2. ASSUME NEW charge,
             Proceeds(p, "createIfNotExists", {},
                      [local[p] EXCEPT !.todo = Tail(@), !.record = charge])
      PROVE  \E label \in {"importNext", "createIfNotExists"} : \E locals :
               /\ DOMAIN locals = DOMAIN local[p] /\ locals.then = local[p].then
               /\ Proceeds(p, label, {}, locals)
  <2> DEFINE charged == [local[p] EXCEPT !.todo = Tail(@), !.record = charge]
  <2>1. DOMAIN charged = DOMAIN local[p] /\ charged.then = local[p].then
    BY Standing, LocalsOfNone
  <2>2. Proceeds(p, "createIfNotExists", {}, charged)
    BY <1>2
  <2> HIDE DEF charged
  <2>3. QED BY <2>1, <2>2
<1>3. QED BY <1>1, <1>2 DEF ChargesOrGoesOn

LEMMA FindEnrolmentStep ==
  ASSUME WriterInv, NEW p \in Requests, FindEnrolment(p)
  PROVE  StepOK(p)
<1>1. /\ At(p, "findEnrolment") /\ "findEnrolment" \in ImportLabels /\ OnlyReads
  BY DEF FindEnrolment, ImportLabels
<1>2. CASE ChargesOrGoesOn(p)
  <2>1. PICK label \in {"importNext", "createIfNotExists"} : \E locals :
          /\ DOMAIN locals = DOMAIN local[p] /\ locals.then = local[p].then
          /\ Proceeds(p, label, {}, locals)
    BY <1>1, <1>2, ChargesOrGoesOnStep
  <2>2. label \in ImportLabels \union ChargeLabels /\ WantsOK(p)'
    BY <1>1, <2>1, ImportArrives DEF ImportLabels, ChargeLabels
  <2>3. QED BY <1>1, <2>1, <2>2, ImportReads
<1>3. ASSUME NEW label \in {"insertEnrolment", "saveEnrolment"},
             Proceeds(p, label, {EnrolmentRow(local[p].code)}, local[p])
      PROVE  StepOK(p)
  <2>1. /\ pc'[p] = label /\ wants'[p] = {EnrolmentRow(local[p].code)}
        /\ local'[p] = local[p]
    BY <1>1, <1>3, ImportArrives
  <2>2. WantsOK(p)'
    BY <1>3, <2>1 DEF WantsOK, Inside, ImportLabels
  <2>3. QED BY <1>1, <1>3, <2>2, ImportReads DEF ImportLabels
<1>4. QED BY <1>2, <1>3 DEF FindEnrolment

LEMMA SaveEnrolmentStep ==
  ASSUME WriterInv, NEW p \in Requests, SaveEnrolment(p)
  PROVE  StepOK(p)
<1> DEFINE enrolment == EnrolmentRow(local[p].code)
           versions == NewVersion(enrolment, Row(p).class)
<1>1. PICK at \in {"insertEnrolment", "saveEnrolment"} : At(p, at)
  BY DEF SaveEnrolment
<1>2. at \in ImportLabels /\ pc[p] = at
  BY <1>1, Standing DEF ImportLabels
<1>3. CASE Fails(p, "failed")
  BY <1>1, <1>3, FailsStep, Standing
<1>4. CASE Writes(p, versions) /\ ChargesOrGoesOn(p)
  <2>1. DOMAIN versions = {enrolment} /\ wants[p] = {enrolment}
    <3>1. WantsOK(p)
      BY <1>1, Standing
    <3>2. QED BY <1>2, <3>1, OneVersion DEF WantsOK
  <2>2. /\ enrolment[1] = "student_classes" /\ enrolment[1] \in ImportTables
        /\ work[p].kind = "confirm"
    BY <1>1, <1>2, ImportKinds DEF EnrolmentRow, ImportTables
  <2>3. Touches(p, enrolment) /\ \A y, s : SemesterRow(y, s) # enrolment
    BY <1>1, <1>2, <2>2, ImportRows DEF Touches
  <2> HIDE DEF versions, enrolment
  <2>4. PICK label \in {"importNext", "createIfNotExists"} : \E locals :
          /\ DOMAIN locals = DOMAIN local[p] /\ locals.then = local[p].then
          /\ Proceeds(p, label, {}, locals)
    BY <1>1, <1>2, <1>4, ChargesOrGoesOnStep
  <2>5. WantsOK(p)'
    BY <1>1, <1>2, <2>4, ImportArrives
  <2>6. /\ label \in ChargeFrom /\ OnPath(work[p].kind, label) /\ at \in ChargeFrom
    BY <1>1, <1>2, <2>4, ImportKinds DEF ImportLabels, ChargeLabels
  <2>7. QED BY <1>1, <1>4, <2>1, <2>2, <2>3, <2>4, <2>5, <2>6, WritesOnInside
<1>5. QED BY <1>3, <1>4 DEF SaveEnrolment

LEMMA SaveSessionStep ==
  ASSUME WriterInv, NEW p \in Requests, SaveSession(p)
  PROVE  StepOK(p)
<1> DEFINE row == SessionRow(work[p].session)
<1>1. /\ At(p, "saveSession") /\ "saveSession" \in ImportLabels /\ pc[p] = "saveSession"
      /\ Proceeds(p, "commitImport", {}, local[p])
  BY Standing DEF SaveSession, ImportLabels
<1>2. PICK version : Writes(p, NewVersion(row, version))
  BY DEF SaveSession
<1>3. DOMAIN NewVersion(row, version) = {row} /\ wants[p] = {row}
  BY <1>1, Standing, OneVersion DEF WantsOK
<1>4. row[1] = "import_sessions" /\ row[1] \in ImportTables /\ work[p].kind = "confirm"
  BY <1>1, ImportKinds DEF SessionRow, ImportTables
<1>5. Touches(p, row) /\ \A y, s : SemesterRow(y, s) # row
  BY <1>1, <1>4, ImportRows DEF Touches
<1> HIDE DEF row
<1>6. WantsOK(p)'
  BY <1>1, ImportArrives
<1>7. /\ "commitImport" \in ChargeFrom /\ OnPath(work[p].kind, "commitImport")
      /\ "saveSession" \in ChargeFrom
  BY <1>1, ImportKinds DEF ImportLabels
<1>8. QED BY <1>1, <1>2, <1>3, <1>4, <1>5, <1>6, <1>7, WritesOnInside

LEMMA ImportStep ==
  ASSUME WriterInv, NEW p \in Requests, ImportStatement(p)
  PROVE  StepOK(p)
<1>1. CASE CommitImport(p)
  BY <1>1, EndsStep DEF CommitImport
<1>2. QED
  BY <1>1, PreviewStep, ConfirmStep, ImportNextStep, CreateStudentStep,
     DrawStudentCodeStep, InsertStudentStep, FindEnrolmentStep, SaveEnrolmentStep,
     SaveSessionStep DEF ImportStatement

-----------------------------------------------------------------------------
(* Statements of notifications.                                            *)

LEMMA NotifyKinds ==
  ASSUME WriterInv, NEW p \in Requests, NEW at \in TokenLabels \union {"notify"},
         At(p, at) \/ AtWithFault(p, at)
  PROVE  /\ work[p].kind = "notify" /\ pc[p] = at /\ at \notin Inside
         /\ \A label \in TokenLabels :
              OnPath(work[p].kind, label) /\ label \in Labels /\ label \notin RecordLabels
         /\ Shapes /\ work' = work /\ IsRequest(work[p]) /\ ProcOK(p)
         /\ written[p] = NothingWritten
<1>1. /\ pc[p] = at /\ work' = work /\ Shapes /\ IsRequest(work[p]) /\ ProcOK(p)
      /\ OnPath(work[p].kind, pc[p])
  BY DEF At, AtWithFault, WriterInv, ProcOK
<1>2. work[p].kind = "notify"
  BY <1>1 DEF OnPath, Ended, CreateLabels, SaveLabels, YearLabels, ChargeLabels,
     ImportLabels, TokenLabels, IsRequest, Kinds
<1>3. at \notin Inside
  BY DEF TokenLabels, Inside, YearLabels, ChargeLabels, ImportLabels
<1>4. \A label \in TokenLabels :
        OnPath(work[p].kind, label) /\ label \in Labels /\ label \notin RecordLabels
  BY <1>2 DEF OnPath, TokenLabels, Labels, RecordLabels, CreateLabels, SaveLabels
<1>5. written[p] = NothingWritten
  BY <1>1, <1>3 DEF ProcOK
<1>6. QED BY <1>1, <1>2, <1>3, <1>4, <1>5

(* From one statement to another, after a read or a write of its own.      *)
LEMMA NotifyGoesOn ==
  ASSUME WriterInv, NEW p \in Requests, NEW at \in TokenLabels \union {"notify"},
         At(p, at) \/ AtWithFault(p, at), crashes' \in Nat,
         \/ OnlyReads
         \/ \E row, version : WritesAtOnce(NewVersion(row, version)) /\ Touches(p, row),
         NEW label \in TokenLabels, NEW rows, NEW locals, DOMAIN locals = DOMAIN local[p],
         Proceeds(p, label, rows, locals),
         rows = IF label = "saveToken" THEN {TokenRow} ELSE {}
  PROVE  StepOK(p)
<1>1. /\ work[p].kind = "notify" /\ label \in Labels /\ label \notin RecordLabels
      /\ OnPath(work[p].kind, label) /\ Shapes /\ work' = work
      /\ written[p] = NothingWritten /\ DOMAIN locals = DOMAIN NoLocals
  BY NotifyKinds DEF Shapes
<1>2. /\ pc' \in [Requests -> Labels]
      /\ DOMAIN wants' = Requests /\ DOMAIN local' = Requests
      /\ DOMAIN local'[p] = DOMAIN NoLocals
      /\ \A q \in Requests \ {p} :
           pc'[q] = pc[q] /\ wants'[q] = wants[q] /\ local'[q] = local[q]
      /\ pc'[p] = label /\ wants'[p] = rows
  BY <1>1, ProceedsOn
<1>3. written' = written /\ Effect(p)
  <2>1. CASE OnlyReads
    BY <2>1 DEF OnlyReads, Effect
  <2>2. CASE \E row, version : WritesAtOnce(NewVersion(row, version)) /\ Touches(p, row)
    <3>1. PICK row, version : WritesAtOnce(NewVersion(row, version)) /\ Touches(p, row)
      BY <2>2
    <3>2. DOMAIN NewVersion(row, version) = {row}
      BY OneVersion
    <3>3. /\ written' = written /\ DOMAIN committed' = {row} \union DOMAIN committed
          /\ \A r \in DOMAIN committed \ {row} : committed'[r] = committed[r]
      BY <3>1, <3>2, WritesAtOnceRows
    <3>4. WritesAlone(p)
      BY <3>1, <3>3 DEF WritesAlone
    <3>5. QED BY <3>3, <3>4 DEF Effect
  <2>3. QED BY <2>1, <2>2
<1>4. Frame(p)
  BY <1>1, <1>2, <1>3 DEF Frame, Shapes
<1>5. WantsOK(p)' /\ ThenOK(p)'
  BY <1>1, <1>2 DEF WantsOK, ThenOK, TokenLabels
<1>6. ProcOK(p)'
  BY <1>1, <1>2, <1>3, <1>5, NothingHeld DEF ProcOK
<1>7. QED BY <1>3, <1>4, <1>6 DEF StepOK

LEMMA NotifyStep ==
  ASSUME WriterInv, NEW p \in Requests, Notify(p)
  PROVE  StepOK(p)
<1>1. /\ At(p, "notify") /\ "notify" \notin Inside /\ crashes' \in Nat
  BY Standing DEF Notify, Inside, YearLabels, ChargeLabels, ImportLabels
<1>2. CASE OnlyReads /\ Proceeds(p, "readToken", {}, local[p])
  BY <1>1, <1>2, NotifyGoesOn DEF TokenLabels
<1>3. CASE Refuses(p, "refused")
  BY <1>1, <1>3, RefusesStep DEF Ended
<1>4. QED BY <1>2, <1>3 DEF Notify

LEMMA LogNotificationStep ==
  ASSUME WriterInv, NEW p \in Requests, LogNotification(p)
  PROVE  StepOK(p)
<1>1. PICK at \in {"logFailure", "logSent"} :
        /\ At(p, at) /\ Answers(p, "done")
        /\ \E version : WritesAtOnce(NewVersion(LogRow(p), version))
  BY DEF LogNotification
<1>2. /\ pc[p] = at /\ at \notin Inside /\ "done" \in Ended
  BY <1>1, NotifyKinds DEF TokenLabels, Ended
<1>3. PICK version : WritesAtOnce(NewVersion(LogRow(p), version))
  BY <1>1
<1>4. \A row \in DOMAIN NewVersion(LogRow(p), version) : Touches(p, row)
  <2>1. DOMAIN NewVersion(LogRow(p), version) = {LogRow(p)}
    BY OneVersion
  <2>2. QED BY <1>1, <1>2, <2>1 DEF Touches
<1>5. QED BY <1>1, <1>2, <1>3, <1>4, AnswersStep

LEMMA ReadTokenStep ==
  ASSUME WriterInv, NEW p \in Requests, ReadToken(p)
  PROVE  StepOK(p)
<1>1. At(p, "readToken") /\ OnlyReads /\ crashes' \in Nat
  BY Standing DEF ReadToken
<1>2. CASE Proceeds(p, "sendMessage", {}, local[p])
  BY <1>1, <1>2, NotifyGoesOn DEF TokenLabels
<1>3. ASSUME NEW token, Proceeds(p, "askToken", {}, [local[p] EXCEPT !.token = token])
      PROVE  StepOK(p)
  <2> DEFINE locals == [local[p] EXCEPT !.token = token]
  <2>1. DOMAIN locals = DOMAIN local[p] /\ Proceeds(p, "askToken", {}, locals)
    BY <1>3
  <2> HIDE DEF locals
  <2>2. QED BY <1>1, <2>1, NotifyGoesOn DEF TokenLabels
<1>4. QED BY <1>2, <1>3 DEF ReadToken

LEMMA AskTokenStep ==
  ASSUME WriterInv, NEW p \in Requests, AskToken(p)
  PROVE  StepOK(p)
<1> DEFINE locals == [local[p] EXCEPT !.token = NewToken(p)]
<1>1. /\ At(p, "askToken") \/ AtWithFault(p, "askToken")
      /\ crashes' \in Nat
  BY DEF AskToken, At, AnswerIsLost, WriterInv, Shapes
<1>2. pc[p] = "askToken" /\ Touches(p, ZaloToken)
  BY <1>1 DEF At, AtWithFault, Touches
<1>3. DOMAIN locals = DOMAIN local[p]
  OBVIOUS
<1> HIDE DEF locals
<1>4. CASE OnlyReads /\ LogsFailure(p)
  BY <1>1, <1>4, NotifyGoesOn DEF TokenLabels, LogsFailure
<1>5. CASE WritesAtOnce(NewVersion(ZaloToken, NewToken(p)))
  <2>1. CASE LogsFailure(p)
    BY <1>1, <1>2, <1>5, <2>1, NotifyGoesOn DEF TokenLabels, LogsFailure
  <2>2. CASE Proceeds(p, "findToken", {}, locals)
    BY <1>1, <1>2, <1>3, <1>5, <2>2, NotifyGoesOn DEF TokenLabels
  <2>3. QED BY <2>1, <2>2 DEF AskToken, locals
<1>6. QED BY <1>4, <1>5 DEF AskToken

LEMMA FindTokenStep ==
  ASSUME WriterInv, NEW p \in Requests, FindToken(p)
  PROVE  StepOK(p)
<1>1. /\ At(p, "findToken") /\ OnlyReads /\ crashes' \in Nat
      /\ Proceeds(p, "saveToken", {TokenRow}, local[p])
  BY Standing DEF FindToken
<1>2. QED BY <1>1, NotifyGoesOn DEF TokenLabels

LEMMA SaveTokenStep ==
  ASSUME WriterInv, NEW p \in Requests, SaveToken(p)
  PROVE  StepOK(p)
<1>1. /\ At(p, "saveToken") /\ crashes' \in Nat /\ pc[p] = "saveToken"
      /\ WritesAtOnce(NewVersion(TokenRow, TokenPair(p)))
      /\ Proceeds(p, "sendMessage", {}, local[p])
  BY Standing DEF SaveToken
<1>2. Touches(p, TokenRow)
  BY <1>1 DEF Touches
<1>3. QED BY <1>1, <1>2, NotifyGoesOn DEF TokenLabels

LEMMA SendMessageStep ==
  ASSUME WriterInv, NEW p \in Requests, SendMessage(p)
  PROVE  StepOK(p)
<1>1. /\ At(p, "sendMessage") \/ AtWithFault(p, "sendMessage")
      /\ crashes' \in Nat
  BY DEF SendMessage, At, AnswerIsLost, WriterInv, Shapes
<1>2. pc[p] = "sendMessage" /\ Touches(p, ZaloMessage(p))
  BY <1>1 DEF At, AtWithFault, Touches
<1>3. /\ OnlyReads \/ WritesAtOnce(NewVersion(ZaloMessage(p), "delivered"))
      /\ \/ Proceeds(p, "logSent", {}, local[p])
         \/ Proceeds(p, "logFailure", {}, local[p])
  BY DEF SendMessage, LogsFailure, AfterLostAnswer
<1>4. QED BY <1>1, <1>2, <1>3, NotifyGoesOn DEF TokenLabels

LEMMA NotificationStep ==
  ASSUME WriterInv, NEW p \in Requests, NotifyStatement(p)
  PROVE  StepOK(p)
BY NotifyStep, LogNotificationStep, ReadTokenStep, AskTokenStep, FindTokenStep,
   SaveTokenStep, SendMessageStep DEF NotifyStatement

-----------------------------------------------------------------------------
(* All steps.                                                              *)

(* A request that has ended, or wants nothing, waits for nobody. *)
LEMMA WaitsForNobody ==
  ASSUME NEW p \in Requests, Blockers(p) = {}
  PROVE  p \notin WaitsFor(p)
<1> DEFINE num == Cardinality(Requests)
           Step(g) == [n \in 0..num |->
                         IF n = 0 THEN Blockers(p)
                         ELSE g[n - 1] \union UNION {Blockers(q) : q \in g[n - 1]}]
           reached == CHOOSE g : g = Step(g)
           nobody  == [n \in 0..num |-> {}]
           Good    == {n \in 0..num : reached[n] = {}}
<1>0. num \in Nat
  BY RequestsAssumption, FS_CardinalityType
<1>1. WaitsFor(p) = reached[num]
  BY Zenon DEF WaitsFor, reached
<1> HIDE DEF num
<1>2. nobody = Step(nobody)
  <2>1. ASSUME NEW n \in 0..num, n # 0
        PROVE  nobody[n - 1] \union UNION {Blockers(q) : q \in nobody[n - 1]} = {}
    <3>1. nobody[n - 1] = {}
      BY <1>0, <2>1
    <3> HIDE DEF nobody
    <3>2. QED BY <3>1
  <2>2. QED BY <2>1
<1>3. reached = Step(reached)
  <2> HIDE DEF nobody, Step
  <2>1. QED BY <1>2
<1> HIDE DEF reached
<1>4. 0 \in Good
  BY <1>0, <1>3
<1>5. ASSUME NEW n \in 1..num, n - 1 \in Good PROVE n \in Good
  <2>1. n \in 0..num /\ n # 0 /\ reached[n - 1] = {}
    BY <1>0, <1>5
  <2>2. reached[n] = reached[n - 1] \union UNION {Blockers(q) : q \in reached[n - 1]}
    BY <1>3, <2>1
  <2>3. QED BY <2>1, <2>2
<1>6. num \in Good
  <2> HIDE DEF Good
  <2>1. num \in 0..num
    BY <1>0
  <2>2. QED BY <1>0, <1>4, <1>5, <2>1, RowInduction
<1>7. QED BY <1>1, <1>6

LEMMA VictimWaits ==
  ASSUME NEW p \in Requests, DeadlockVictim(p)
  PROVE  \E q \in Requests \ {p} : wants[p] \intersect DOMAIN written[q] # {}
<1>1. Blockers(p) # {}
  BY WaitsForNobody DEF DeadlockVictim
<1>2. QED BY <1>1 DEF Blockers

LEMMA AnyStep ==
  ASSUME WriterInv, NEW p \in Requests, StepOf(p)
  PROVE  StepOK(p)
<1>1. CASE DeadlockVictim(p)
  BY <1>1, FailsStep DEF DeadlockVictim, WriterInv, Shapes
<1>2. CASE Crash(p)
  <2>1. crashes' \in Nat
    BY <1>2 DEF Crash, WriterInv, Shapes
  <2>2. QED BY <1>2, <2>1, FailsStep DEF Crash
<1>3. QED
  BY <1>1, <1>2, RecordStep, YearStep, ChargeStep, ImportStep, NotificationStep
     DEF StepOf, Statement

(* Where no request moves, nothing but the clock does. *)
LEMMA OtherSteps ==
  ASSUME [Next]_requestVars
  PROVE  \/ \E p \in Requests : StepOf(p)
         \/ UNCHANGED <<committed, written, work, pc, wants, local, crashes>>
BY DEF Next, requestVars, StepOf, TimePasses, AllEnded

LEMMA NextInv == WriterInv /\ [Next]_requestVars => WriterInv'
<1> SUFFICES ASSUME WriterInv, [Next]_requestVars PROVE WriterInv'
  OBVIOUS
<1>1. CASE \E p \in Requests : StepOf(p)
  BY <1>1, AnyStep, InvGoesOn DEF StepOK
<1>2. CASE UNCHANGED <<committed, written, work, pc, wants, local, crashes>>
  BY <1>2 DEF WriterInv, Shapes, OneWriter, ProcOK, WantsOK, ThenOK, HeldOK,
              SemestersHeld, Entity, ChargeRow, NewStudentRows, Row
<1>3. QED BY <1>1, <1>2, OtherSteps

LEMMA InitInv == InitRequests => WriterInv
<1> SUFFICES ASSUME InitRequests PROVE WriterInv
  OBVIOUS
<1>1. PICK w \in Workloads :
        /\ work      = WorkOf(w)
        /\ written   = [p \in Requests |-> NothingWritten]
        /\ pc        = [p \in Requests |-> WorkOf(w)[p].kind]
        /\ wants     = [p \in Requests |-> {}]
        /\ local     = [p \in Requests |-> NoLocals]
        /\ crashes   = 0
  BY DEF InitRequests
<1>2. \A p \in Requests : IsRequest(work[p]) /\ pc[p] = work[p].kind
  BY <1>1, WorkAssumption
<1>3. \A p \in Requests : pc[p] \in Kinds \union {"done"}
  BY <1>2 DEF IsRequest
<1>4. Shapes
  <2>1. Kinds \union {"done"} \subseteq Labels
    BY DEF Kinds, Labels, Ended
  <2>2. DOMAIN pc = Requests /\ pc \in [Requests -> Labels]
    BY <1>1, <1>2, <1>3, <2>1
  <2>3. QED BY <1>1, <2>2 DEF Shapes
<1>5. OneWriter
  BY <1>1, NothingIsWritten DEF OneWriter
<1>6. ASSUME NEW p \in Requests PROVE ProcOK(p)
  <2>1. written[p] = NothingWritten /\ wants[p] = {} /\ pc[p] = work[p].kind
    BY <1>1, <1>2
  <2>2. HeldOK(p) /\ SemestersHeld(p)
    BY <2>1, NothingIsWritten DEF HeldOK, SemestersHeld
  <2>3. WantsOK(p) /\ ThenOK(p)
    BY <1>3, <2>1 DEF WantsOK, ThenOK, Kinds, ChargeLabels, ImportLabels
  <2>4. OnPath(work[p].kind, pc[p])
    BY <2>1 DEF OnPath
  <2>5. pc[p] \in RecordLabels => Entity(p) \in Entities
    BY <1>2, <1>3
       DEF IsRequest, Kinds, RecordLabels, CreateLabels, SaveLabels, Entity
  <2>6. QED BY <2>1, <2>2, <2>3, <2>4, <2>5 DEF ProcOK
<1>7. QED BY <1>2, <1>4, <1>5, <1>6 DEF WriterInv

LEMMA WriterInvAlways == Spec => []WriterInv
BY InitInv, NextInv, PTL DEF Spec

-----------------------------------------------------------------------------
(* Which statement runs where.                                             *)

LEMMA RecordStatementLabel ==
  ASSUME NEW p, RecordStatement(p)
  PROVE  pc[p] \in RecordLabels
BY DEF RecordStatement, CreateRecord, DrawCode, LookUpStudent, InsertRecord,
   UpdateRecord, DeleteRecord, SaveRecord, RemoveRecord, At, RecordLabels, CreateLabels,
   SaveLabels

LEMMA YearStatementLabel ==
  ASSUME NEW p, YearStatement(p)
  PROVE  /\ pc[p] \in YearLabels \union {"getCurrent"}
         /\ pc[p] = "getCurrent" => GetCurrent(p)
         /\ pc[p] = "closeYear" => CloseYear(p)
         /\ pc[p] = "openYear" => OpenYear(p)
         /\ pc[p] = "commitYear" => CommitYear(p)
BY DEF YearStatement, GetCurrent, CloseYear, OpenYear, CommitYear, At, YearLabels

LEMMA ChargeStatementLabel ==
  ASSUME NEW p, ChargeStatement(p)
  PROVE  /\ pc[p] \in ChargeLabels \union {"updatePlan", "savePlan", "assign",
                                           "findStudents", "assignNext"}
         /\ pc[p] = "updatePlan" => UpdatePlan(p)
         /\ pc[p] = "savePlan" => SavePlan(p)
         /\ pc[p] = "createIfNotExists" => CreateIfNotExists(p)
         /\ pc[p] = "drawReceivableCode" => DrawReceivableCode(p)
         /\ pc[p] = "insertReceivable" => InsertReceivable(p)
         /\ pc[p] = "assign" => Assign(p)
         /\ pc[p] = "findStudents" => FindStudents(p)
         /\ pc[p] = "assignNext" => AssignNext(p)
BY DEF ChargeStatement, UpdatePlan, SavePlan, CreateIfNotExists, DrawReceivableCode,
   InsertReceivable, Assign, FindStudents, AssignNext, At, ChargeLabels

LEMMA ImportStatementLabel ==
  ASSUME NEW p, ImportStatement(p)
  PROVE  /\ pc[p] \in ImportLabels \union {"preview", "confirm"}
         /\ pc[p] = "confirm" => Confirm(p)
         /\ pc[p] = "importNext" => ImportNext(p)
         /\ pc[p] = "insertStudent" => InsertStudent(p)
         /\ pc[p] \in {"insertEnrolment", "saveEnrolment"} => SaveEnrolment(p)
         /\ pc[p] = "saveSession" => SaveSession(p)
         /\ pc[p] = "commitImport" => CommitImport(p)
<1>1. CASE SaveEnrolment(p)
  BY <1>1 DEF SaveEnrolment, At, ImportLabels
<1>2. CASE ~ SaveEnrolment(p)
  BY <1>2 DEF ImportStatement, Preview, Confirm, ImportNext, CreateStudent,
     DrawStudentCode, InsertStudent, FindEnrolment, SaveSession, CommitImport,
     At, ImportLabels
<1>3. QED BY <1>1, <1>2

LEMMA NotifyStatementLabel ==
  ASSUME NEW p, NotifyStatement(p)
  PROVE  /\ pc[p] \in TokenLabels \union {"notify"}
         /\ pc[p] = "notify" => Notify(p)
         /\ pc[p] = "readToken" => ReadToken(p)
         /\ pc[p] = "askToken" => AskToken(p)
         /\ pc[p] = "findToken" => FindToken(p)
         /\ pc[p] = "saveToken" => SaveToken(p)
         /\ pc[p] = "sendMessage" => SendMessage(p)
         /\ pc[p] \in {"logFailure", "logSent"} => LogNotification(p)
BY DEF NotifyStatement, Notify, ReadToken, AskToken, FindToken, SaveToken, SendMessage,
   LogNotification, At, AtWithFault, TokenLabels

LEMMA LabelsRun ==
  ASSUME NEW p, Statement(p)
  PROVE  /\ pc[p] \notin Ended
         /\ pc[p] \in RecordLabels => RecordStatement(p)
         /\ pc[p] \in YearLabels \union {"getCurrent"} => YearStatement(p)
         /\ pc[p] \in ChargeLabels \union {"updatePlan", "savePlan", "assign",
                                           "findStudents", "assignNext"} =>
              ChargeStatement(p)
         /\ pc[p] \in ImportLabels \union {"preview", "confirm"} => ImportStatement(p)
         /\ pc[p] \in TokenLabels \union {"notify"} => NotifyStatement(p)
BY RecordStatementLabel, YearStatementLabel, ChargeStatementLabel, ImportStatementLabel,
   NotifyStatementLabel
   DEF Statement, Ended, RecordLabels, CreateLabels, SaveLabels, YearLabels, ChargeLabels,
       ImportLabels, TokenLabels

(* An exception, a deadlock or a crash. *)
Stops(p) == RollsBack(p) /\ pc'[p] \in {"failed", "conflict", "cutOff"}

LEMMA FailureStops ==
  ASSUME WriterInv, NEW p \in Requests, DeadlockVictim(p) \/ Crash(p)
  PROVE  Stops(p) /\ ~ HasEnded(p)
<1>1. PICK label \in {"failed", "conflict", "cutOff"} : Fails(p, label)
  BY DEF DeadlockVictim, Crash
<1>2. Stops(p)
  BY <1>1 DEF Fails, Stops, Answers, Proceeds, WriterInv, Shapes
<1>3. ~ HasEnded(p)
  <2>1. CASE Crash(p)
    BY <2>1 DEF Crash
  <2>2. CASE DeadlockVictim(p)
    <3>1. wants[p] # {}
      BY <2>2, VictimWaits
    <3>2. QED BY <3>1, InsideLabels
                 DEF HasEnded, WriterInv, ProcOK, WantsOK, Ended
  <2>3. QED BY <2>1, <2>2
<1>4. QED BY <1>2, <1>3

LEMMA EndedStays ==
  ASSUME WriterInv, NEW p \in Requests, StepOf(p)
  PROVE  ~ HasEnded(p)
BY FailureStops, LabelsRun DEF StepOf, HasEnded

(* The three things a step of p may do to the rows: change a few that its  *)
(* statement is about, commit, or stop.                                    *)
Stays(p) ==
  \A row : ~ Touches(p, row) =>
    /\ row \in DOMAIN written'[p] <=> row \in DOMAIN written[p]
    /\ row \in DOMAIN written[p] => written'[p][row] = written[p][row]
    /\ row \in DOMAIN committed' <=> row \in DOMAIN committed
    /\ row \in DOMAIN committed => committed'[row] = committed[row]

LEMMA StepCases ==
  ASSUME WriterInv, NEW p \in Requests, StepOf(p)
  PROVE  /\ Frame(p)
         /\ DOMAIN committed \subseteq DOMAIN committed'
         /\ \/ Stays(p)
            \/ Commits(p) /\ pc[p] \in {"commitYear", "assignNext", "commitImport"}
            \/ Stops(p)
<1>1. Frame(p) /\ Effect(p)
  BY AnyStep DEF StepOK
<1>2. DOMAIN written = Requests
  BY DEF WriterInv, Shapes
<1>3. CASE OnlyReads
  BY <1>1, <1>3 DEF OnlyReads, Stays
<1>4. CASE WritesAlone(p)
  BY <1>1, <1>4 DEF WritesAlone, Stays
<1>5. CASE WritesInside(p)
  BY <1>1, <1>5 DEF WritesInside, Stays
<1>6. CASE Commits(p) /\ pc[p] \in {"commitYear", "assignNext", "commitImport"}
  BY <1>1, <1>2, <1>6, CommitsRows
<1>7. CASE RollsBack(p) /\ pc'[p] \in {"failed", "conflict", "cutOff"}
  BY <1>1, <1>7 DEF RollsBack, Stops
<1>8. QED BY <1>1, <1>3, <1>4, <1>5, <1>6, <1>7 DEF Effect

-----------------------------------------------------------------------------
(* Semesters tile their years: in what is committed and in what each       *)
(* request sees.                                                           *)

RowsOfYear(y) == {YearRow(y), SemesterRow(y, "HK1"), SemesterRow(y, "HK2")}

YearGood(year, first, second) ==
  year \in YearRecord /\ (year # NoYear => Tiles(year, first, second))

SeesGood(p, y) ==
  YearGood(Sees(p, YearRow(y)), Sees(p, SemesterRow(y, "HK1")),
           Sees(p, SemesterRow(y, "HK2")))

TilesInv ==
  \A y \in Years :
    /\ RowsOfYear(y) \subseteq DOMAIN committed
    /\ YearGood(committed[YearRow(y)], committed[SemesterRow(y, "HK1")],
                committed[SemesterRow(y, "HK2")])
    /\ \A p \in Requests : SeesGood(p, y)

LEMMA SecondHalf ==
  ASSUME NEW first \in Int, NEW next \in Int, first + 1 < next
  PROVE  /\ FirstEnd(first, next - 1) + 1 = SecondStart(first, next - 1)
         /\ first <= FirstEnd(first, next - 1)
         /\ SecondStart(first, next - 1) <= next - 1
BY DEF FirstEnd, SecondStart, AtLeast0

LEMMA OpenedGood ==
  ASSUME NEW y \in Years
  PROVE  LET year == YearOf(y, "ACTIVE") IN
         /\ year # NoYear /\ year.status = "ACTIVE"
         /\ YearGood(year,
              [status |-> year.status, start |-> year.start,
               end |-> FirstEnd(year.start, year.end)],
              [status |-> year.status, start |-> SecondStart(year.start, year.end),
               end |-> year.end])
<1>1. FirstDay[y] \in Int /\ FirstDay[y + 1] \in Int /\ FirstDay[y] + 1 < FirstDay[y + 1]
  BY YearsAssumption
<1>2. YearOf(y, "ACTIVE") # NoYear /\ YearOf(y, "ACTIVE").status = "ACTIVE"
  BY DEF YearOf, NoYear
<1>3. YearOf(y, "ACTIVE") \in YearRecord
  BY <1>1 DEF YearOf, YearRecord
<1>4. QED BY <1>1, <1>2, <1>3, SecondHalf DEF YearGood, Tiles, YearOf

LEMMA ClosedGood ==
  ASSUME NEW year, NEW first, NEW second, YearGood(year, first, second),
         year.status = "ACTIVE"
  PROVE  YearGood([year EXCEPT !.status = "CLOSED"], first, second)
<1>1. year # NoYear /\ year \in YearRecord
  BY DEF NoYear, YearGood
<1>2. [year EXCEPT !.status = "CLOSED"] \in YearRecord
  BY <1>1 DEF YearRecord
<1>3. /\ [year EXCEPT !.status = "CLOSED"].start = year.start
      /\ [year EXCEPT !.status = "CLOSED"].end = year.end
      /\ [year EXCEPT !.status = "CLOSED"].status = "CLOSED"
  BY <1>1 DEF YearRecord
<1>4. Tiles([year EXCEPT !.status = "CLOSED"], first, second)
  BY <1>1, <1>3 DEF Tiles, YearGood
<1>5. QED BY <1>2, <1>4 DEF YearGood

LEMMA RowsOfYearAre ==
  ASSUME NEW y, NEW row \in RowsOfYear(y)
  PROVE  row[1] \in YearTables
BY YearRows DEF RowsOfYear

(* Rows of years are touched by requests that read the current year.       *)
LEMMA YearsUntouched ==
  ASSUME NEW p, pc[p] \notin {"closeYear", "openYear"}, NEW row, row[1] \in YearTables
  PROVE  ~ Touches(p, row)
<1>1. /\ \A scope : SequenceRow(scope)[1] = "number_sequences"
      /\ LogRow(p)[1] = "notification_logs"
      /\ ZaloToken[1] = "zalo refresh token"
      /\ TokenRow[1] = "zalo_oauth_tokens"
      /\ ZaloMessage(p)[1] = "zalo message"
  BY DEF SequenceRow, LogRow, ZaloToken, TokenRow, ZaloMessage
<1>2. row[1] \notin Entities /\ row[1] \notin ImportTables /\ row[1] # "fee_plans (terms)"
      /\ row[1] \notin {"number_sequences", "notification_logs", "zalo refresh token",
                         "zalo_oauth_tokens", "zalo message"}
  BY DEF YearTables, Entities, ImportTables
<1>3. QED BY <1>1, <1>2 DEF Touches, ImportTables

(* Who has no version of a year has none of its semesters.                 *)
LEMMA YearsSeen ==
  ASSUME WriterInv, NEW p \in Requests, NEW y, YearRow(y) \notin DOMAIN written[p]
  PROVE  \A row \in RowsOfYear(y) : row \notin DOMAIN written[p]
BY DEF WriterInv, ProcOK, SemestersHeld, RowsOfYear

(* What request q sees of a year stays, or becomes what is committed then. *)
SeesSame(q, y) ==
  \/ \A row \in RowsOfYear(y) : Sees(q, row)' = Sees(q, row)
  \/ \A row \in RowsOfYear(y) : Sees(q, row)' = committed'[row]

LEMMA SameIsGood ==
  ASSUME NEW q, NEW y, SeesGood(q, y), SeesSame(q, y),
         YearGood(committed[YearRow(y)], committed[SemesterRow(y, "HK1")],
                  committed[SemesterRow(y, "HK2")])'
  PROVE  SeesGood(q, y)'
BY DEF SeesGood, SeesSame, RowsOfYear

LEMMA QuietYears ==
  ASSUME WriterInv, TilesInv, NEW p \in Requests, StepOf(p), NEW y \in Years,
         pc[p] \notin {"closeYear", "openYear"} \/ Stops(p)
  PROVE  /\ YearGood(committed[YearRow(y)], committed[SemesterRow(y, "HK1")],
                     committed[SemesterRow(y, "HK2")])'
         /\ \A q \in Requests : SeesSame(q, y)
<1>0. /\ Frame(p) /\ DOMAIN written = Requests
      /\ RowsOfYear(y) \subseteq DOMAIN committed
      /\ \A row \in RowsOfYear(y) : row[1] \in YearTables
  BY StepCases, RowsOfYearAre DEF WriterInv, Shapes, TilesInv
<1>1. CASE Stays(p) /\ pc[p] \notin {"closeYear", "openYear"}
  <2>1. \A row \in RowsOfYear(y) :
          /\ committed'[row] = committed[row]
          /\ row \in DOMAIN written'[p] <=> row \in DOMAIN written[p]
          /\ row \in DOMAIN written[p] => written'[p][row] = written[p][row]
    BY <1>0, <1>1, YearsUntouched DEF Stays
  <2>2. \A q \in Requests : SeesSame(q, y)
    BY <1>0, <2>1 DEF SeesSame, Sees, Frame
  <2>3. QED BY <2>1, <2>2 DEF TilesInv, RowsOfYear
<1>2. CASE Stops(p)
  <2>1. /\ committed' = committed
        /\ \A q \in Requests \ {p} : written'[q] = written[q]
        /\ DOMAIN written'[p] = {}
    BY <1>0, <1>2, RollsBackRows, NothingIsWritten DEF Stops
  <2>2. \A q \in Requests : SeesSame(q, y)
    BY <2>1 DEF SeesSame, Sees
  <2>3. QED BY <2>1, <2>2 DEF TilesInv
<1>3. CASE Commits(p)
  <2>1. /\ \A q \in Requests \ {p} : written'[q] = written[q]
        /\ DOMAIN written'[p] = {}
        /\ \A row \in RowsOfYear(y) : committed'[row] = Sees(p, row)
    BY <1>0, <1>3, CommitsRows, NothingIsWritten DEF Sees
  <2>2. YearGood(committed[YearRow(y)], committed[SemesterRow(y, "HK1")],
                 committed[SemesterRow(y, "HK2")])'
    BY <2>1 DEF TilesInv, SeesGood, RowsOfYear
  <2>3. ASSUME NEW q \in Requests \ {p} PROVE SeesSame(q, y)
    <3>1. CASE YearRow(y) \in DOMAIN written[q]
      <4>1. YearRow(y) \notin DOMAIN written[p]
        BY <3>1 DEF WriterInv, OneWriter
      <4>2. \A row \in RowsOfYear(y) : committed'[row] = committed[row]
        BY <2>1, <4>1, YearsSeen DEF Sees
      <4>3. QED BY <2>1, <4>2 DEF SeesSame, Sees
    <3>2. CASE YearRow(y) \notin DOMAIN written[q]
      BY <2>1, <3>2, YearsSeen DEF SeesSame, Sees
    <3>3. QED BY <3>1, <3>2
  <2>4. SeesSame(p, y)
    BY <2>1 DEF SeesSame, Sees
  <2>5. QED BY <2>2, <2>3, <2>4
<1>4. QED BY <1>1, <1>2, <1>3, StepCases

LEMMA OthersSee ==
  ASSUME NEW p \in Requests, Frame(p), committed' = committed, NEW y
  PROVE  \A q \in Requests \ {p} : SeesSame(q, y)
BY DEF Frame, SeesSame, Sees

LEMMA ClosesYear ==
  ASSUME WriterInv, TilesInv, NEW p \in Requests, CloseYear(p), NEW y \in Years
  PROVE  SeesGood(p, y)' /\ committed' = committed
<1> DEFINE z == Min(local[p].years)
           year == Sees(p, YearRow(z))
           closed == [year EXCEPT !.status = "CLOSED"]
<1>1. CASE OnlyReads
  BY <1>1 DEF OnlyReads, TilesInv, SeesGood, Sees
<1>2. CASE year.status = "ACTIVE" /\ Writes(p, NewVersion(YearRow(z), closed))
  <2>1. /\ DOMAIN NewVersion(YearRow(z), closed) = {YearRow(z)}
        /\ NewVersion(YearRow(z), closed)[YearRow(z)] = closed
    BY OneVersion
  <2>2. /\ committed' = committed
        /\ DOMAIN written'[p] = {YearRow(z)} \union DOMAIN written[p]
        /\ written'[p][YearRow(z)] = closed
        /\ \A row \in DOMAIN written[p] \ {YearRow(z)} : written'[p][row] = written[p][row]
    BY <1>2, <2>1, WritesRows DEF WriterInv, Shapes
  <2>3. \A row : row # YearRow(z) => Sees(p, row)' = Sees(p, row)
    BY <2>2 DEF Sees
  <2>4. \A s : SemesterRow(y, s) # YearRow(z)
    BY YearRows
  <2>5. SeesGood(p, y)
    BY DEF TilesInv
  <2>6. CASE y = z
    <3>1. Sees(p, YearRow(y))' = closed
      BY <2>2, <2>6 DEF Sees
    <3>2. YearGood(closed, Sees(p, SemesterRow(y, "HK1")), Sees(p, SemesterRow(y, "HK2")))
      BY <1>2, <2>5, <2>6, ClosedGood DEF SeesGood
    <3>3. QED BY <2>2, <2>3, <2>4, <3>1, <3>2 DEF SeesGood
  <2>7. CASE y # z
    <3>1. YearRow(y) # YearRow(z)
      BY <2>7, YearRows
    <3>2. QED BY <2>2, <2>3, <2>4, <2>5, <3>1 DEF SeesGood
  <2>8. QED BY <2>6, <2>7
<1>3. QED BY <1>1, <1>2 DEF CloseYear

LEMMA OpensYear ==
  ASSUME WriterInv, TilesInv, NEW p \in Requests, OpenYear(p), NEW y \in Years
  PROVE  SeesGood(p, y)' /\ committed' = committed
<1>0. PICK z : z = local[p].year
  OBVIOUS
<1>1. PICK year : year = YearOf(z, "ACTIVE")
  OBVIOUS
<1> DEFINE versions == Opened(z, year)
<1>6. Writes(p, versions)
  BY <1>0, <1>1 DEF OpenYear, UpsertedYear, Opened
<1>2. /\ DOMAIN versions = RowsOfYear(z)
      /\ versions[YearRow(z)] = year
      /\ versions[SemesterRow(z, "HK1")] =
           [status |-> year.status, start |-> year.start,
            end |-> FirstEnd(year.start, year.end)]
      /\ versions[SemesterRow(z, "HK2")] =
           [status |-> year.status, start |-> SecondStart(year.start, year.end),
            end |-> year.end]
  BY OpenedRows DEF RowsOfYear
<1> HIDE DEF versions
<1>3. /\ committed' = committed
      /\ DOMAIN written'[p] = RowsOfYear(z) \union DOMAIN written[p]
      /\ \A row \in RowsOfYear(z) : written'[p][row] = versions[row]
      /\ \A row \in DOMAIN written[p] \ RowsOfYear(z) : written'[p][row] = written[p][row]
  BY <1>6, <1>2, WritesRows DEF WriterInv, Shapes
<1>4. CASE y = z
  <2>1. /\ Sees(p, YearRow(y))' = versions[YearRow(z)]
        /\ Sees(p, SemesterRow(y, "HK1"))' = versions[SemesterRow(z, "HK1")]
        /\ Sees(p, SemesterRow(y, "HK2"))' = versions[SemesterRow(z, "HK2")]
    BY <1>3, <1>4 DEF Sees, RowsOfYear
  <2>2. QED BY <1>1, <1>2, <1>3, <1>4, <2>1, OpenedGood DEF SeesGood
<1>5. CASE y # z
  <2>1. \A row \in RowsOfYear(y) : row \notin RowsOfYear(z)
    BY <1>5, YearRows DEF RowsOfYear
  <2>2. \A row \in RowsOfYear(y) : Sees(p, row)' = Sees(p, row)
    BY <1>3, <2>1 DEF Sees
  <2>3. SeesGood(p, y)
    BY DEF TilesInv
  <2>4. QED BY <1>3, <2>2, <2>3 DEF SeesGood, RowsOfYear
<1>7. QED BY <1>4, <1>5

LEMMA StepTiles ==
  ASSUME WriterInv, TilesInv, NEW p \in Requests, StepOf(p)
  PROVE  TilesInv'
<1>0. Frame(p) /\ DOMAIN committed \subseteq DOMAIN committed'
  BY StepCases
<1>1. ASSUME NEW y \in Years
      PROVE  /\ YearGood(committed[YearRow(y)], committed[SemesterRow(y, "HK1")],
                         committed[SemesterRow(y, "HK2")])'
             /\ \A q \in Requests : SeesGood(q, y)'
  <2>1. CASE pc[p] \notin {"closeYear", "openYear"} \/ Stops(p)
    <3>1. /\ YearGood(committed[YearRow(y)], committed[SemesterRow(y, "HK1")],
                      committed[SemesterRow(y, "HK2")])'
          /\ \A q \in Requests : SeesSame(q, y)
      BY <2>1, QuietYears
    <3>2. QED BY <3>1, SameIsGood DEF TilesInv
  <2>2. CASE pc[p] \in {"closeYear", "openYear"} /\ ~ Stops(p)
    <3>1. CloseYear(p) \/ OpenYear(p)
      BY <2>2, FailureStops, LabelsRun, YearStatementLabel DEF StepOf, YearLabels
    <3>2. SeesGood(p, y)' /\ committed' = committed
      BY <3>1, ClosesYear, OpensYear
    <3>3. \A q \in Requests \ {p} : SeesSame(q, y)
      BY <1>0, <3>2, OthersSee
    <3>4. YearGood(committed[YearRow(y)], committed[SemesterRow(y, "HK1")],
                   committed[SemesterRow(y, "HK2")])'
      BY <3>2 DEF TilesInv
    <3>5. QED BY <3>2, <3>3, <3>4, SameIsGood DEF TilesInv
  <2>3. QED BY <2>1, <2>2
<1>2. \A y \in Years : RowsOfYear(y) \subseteq DOMAIN committed'
  BY <1>0 DEF TilesInv
<1>3. RowsOfYear(0)' = RowsOfYear(0)
  BY DEF RowsOfYear
<1>4. QED BY <1>1, <1>2 DEF TilesInv, RowsOfYear

LEMMA InitTiles == InitRequests => TilesInv
<1> SUFFICES ASSUME InitRequests PROVE TilesInv
  OBVIOUS
<1>1. PICK w \in Workloads :
        committed = w.rows /\ written = [p \in Requests |-> NothingWritten]
  BY DEF InitRequests
<1>2. \A y \in Years :
        /\ RowsOfYear(y) \subseteq DOMAIN committed
        /\ YearGood(committed[YearRow(y)], committed[SemesterRow(y, "HK1")],
                    committed[SemesterRow(y, "HK2")])
  BY <1>1, YearRowsAssumption DEF RowsOfYear, YearGood
<1>3. \A p \in Requests : \A row : Sees(p, row) = committed[row]
  BY <1>1, NothingIsWritten DEF Sees
<1>4. QED BY <1>2, <1>3 DEF TilesInv, SeesGood

LEMMA NextTiles == WriterInv /\ TilesInv /\ [Next]_requestVars => TilesInv'
<1> SUFFICES ASSUME WriterInv, TilesInv, [Next]_requestVars PROVE TilesInv'
  OBVIOUS
<1>1. CASE UNCHANGED <<committed, written, work, pc, wants, local, crashes>>
  BY <1>1 DEF TilesInv, SeesGood, Sees
<1>2. QED BY <1>1, StepTiles, OtherSteps

LEMMA TilesInvAlways == Spec => []TilesInv
BY WriterInvAlways, InitTiles, NextTiles, PTL DEF Spec

(* Reading the current year upserts the year and its semesters in one       *)
(* transaction: whoever reads, closes and opens at once, the semesters of   *)
(* every year have its days, none twice, and are open when it is.          *)
THEOREM SemestersAlwaysTile == Spec => []SemestersTileTheYear
<1>1. TilesInv => SemestersTileTheYear
  BY DEF TilesInv, YearGood, SemestersTileTheYear
<1>2. QED BY <1>1, TilesInvAlways, PTL

-----------------------------------------------------------------------------
(* The clock, and the year a request is about.                             *)

LEMMA ClockOfStep ==
  ASSUME NEW p, StepOf(p)
  PROVE  /\ now' = now /\ until' = until
         /\ crashes' = crashes \/ crashes' = crashes + 1
<1>1. CASE DeadlockVictim(p) \/ Crash(p)
  BY <1>1 DEF DeadlockVictim, Crash
<1>2. CASE RecordStatement(p)
  BY <1>2 DEF RecordStatement, CreateRecord, DrawCode, LookUpStudent, InsertRecord,
     UpdateRecord, DeleteRecord, SaveRecord, RemoveRecord, At
<1>3. CASE YearStatement(p)
  BY <1>3 DEF YearStatement, GetCurrent, CloseYear, OpenYear, CommitYear, At
<1>4. CASE ChargeStatement(p)
  BY <1>4 DEF ChargeStatement, UpdatePlan, SavePlan, CreateIfNotExists,
     DrawReceivableCode, InsertReceivable, Assign, FindStudents, AssignNext, At
<1>5. CASE ImportStatement(p)
  BY <1>5 DEF ImportStatement, Preview, Confirm, ImportNext, CreateStudent,
     DrawStudentCode, InsertStudent, FindEnrolment, SaveEnrolment, SaveSession,
     CommitImport, At
<1>6. CASE NotifyStatement(p)
  BY <1>6 DEF NotifyStatement, Notify, ReadToken, AskToken, FindToken, SaveToken,
     SendMessage, LogNotification, At, AtWithFault, AnswerIsLost
<1>7. QED BY <1>1, <1>2, <1>3, <1>4, <1>5, <1>6 DEF StepOf, Statement

ClockInv == now \in Nat /\ until \in Nat /\ now <= until /\ 0..until \subseteq Years

LEMMA ClockInvAlways == Spec => []ClockInv
<1>1. InitRequests => ClockInv
  BY YearsAssumption DEF InitRequests, ClockInv
<1>2. ClockInv /\ [Next]_requestVars => ClockInv'
  <2> SUFFICES ASSUME ClockInv, [Next]_requestVars PROVE ClockInv'
    OBVIOUS
  <2>1. CASE \E p \in Requests : StepOf(p)
    BY <2>1, ClockOfStep DEF ClockInv
  <2>2. CASE TimePasses
    BY <2>2 DEF TimePasses, ClockInv
  <2>3. CASE UNCHANGED requestVars
    BY <2>3 DEF requestVars, ClockInv
  <2>4. QED BY <2>1, <2>2, <2>3 DEF Next, StepOf, AllEnded
<1>3. QED BY <1>1, <1>2, PTL DEF Spec

(* The statements that deal with a year lead to each other.                *)
LEMMA ToYears ==
  ASSUME WriterInv, NEW p \in Requests, StepOf(p), pc'[p] \in YearLabels
  PROVE  GetCurrent(p) \/ CloseYear(p) \/ OpenYear(p)
<1>1. work[p].kind = "getCurrent" /\ work' = work /\ ProcOK(p)
  <2>1. ProcOK(p)' /\ Frame(p) /\ ProcOK(p)
    BY AnyStep DEF StepOK, WriterInv
  <2>2. OnPath(work[p].kind, pc'[p]) /\ work' = work
    BY <2>1 DEF ProcOK, Frame
  <2>3. IsRequest(work[p])
    BY DEF WriterInv
  <2>4. work[p].kind = "getCurrent"
    BY <2>2, <2>3 DEF OnPath, YearLabels, Ended, CreateLabels, SaveLabels, ChargeLabels,
       ImportLabels, TokenLabels, IsRequest, Kinds
  <2>5. QED BY <2>1, <2>2, <2>4
<1>2. ~ Stops(p)
  BY DEF Stops, YearLabels
<1>3. Statement(p) /\ pc \in [Requests -> Labels]
  BY <1>2, FailureStops DEF StepOf, WriterInv, Shapes
<1>4. CASE RecordStatement(p)
  <2>1. pc'[p] \in RecordLabels \union Ended
    BY <1>3, <1>4 DEF RecordStatement, CreateRecord, DrawCode, LookUpStudent,
       InsertRecord, UpdateRecord, DeleteRecord, SaveRecord, RemoveRecord, Proceeds,
       Refuses, Answers, Inserts, Draws, Saves, RecordLabels, CreateLabels, SaveLabels,
       Ended
  <2>2. QED BY <2>1 DEF RecordLabels, CreateLabels, SaveLabels, Ended, YearLabels
<1>5. CASE ~ RecordStatement(p)
  <2>1. pc[p] \in YearLabels \union {"getCurrent"}
    BY <1>1, <1>3, <1>5, LabelsRun
       DEF ProcOK, OnPath, RecordLabels, CreateLabels, SaveLabels, Ended
  <2>2. YearStatement(p)
    BY <1>3, <2>1, LabelsRun
  <2>3. ~ CommitYear(p)
    BY <1>3 DEF CommitYear, Ends, Answers, Proceeds, YearLabels
  <2>4. QED BY <2>2, <2>3 DEF YearStatement
<1>6. QED BY <1>4, <1>5

-----------------------------------------------------------------------------
(* A school that has a year has an open one.                               *)

(* Who closes the years that were open has another to open.                *)
CurrentInv ==
  /\ AlwaysACurrentYear
  /\ \A p \in Requests :
       /\ pc[p] \in YearLabels => local[p].year \in Years
       /\ pc[p] = "commitYear" =>
            /\ YearRow(local[p].year) \in DOMAIN written[p]
            /\ written[p][YearRow(local[p].year)].status = "ACTIVE"

LEMMA NoYearHeld ==
  ASSUME WriterInv, NEW p \in Requests, work[p].kind # "getCurrent", NEW y
  PROVE  YearRow(y) \notin DOMAIN written[p]
<1>1. YearRow(y)[1] = "academic_years"
  BY DEF YearRow
<1>2. \A scope : SequenceRow(scope)[1] = "number_sequences"
  BY DEF SequenceRow
<1>3. QED BY <1>1, <1>2 DEF WriterInv, ProcOK, HeldOK, ImportTables

(* The years are left alone but by who reads the current one.              *)
LEMMA OthersLeaveYears ==
  ASSUME WriterInv, NEW p \in Requests, StepOf(p), NEW y \in Years,
         YearRow(y) \in DOMAIN committed,
         pc[p] \notin {"closeYear", "openYear", "commitYear"} \/ Stops(p)
  PROVE  /\ committed'[YearRow(y)] = committed[YearRow(y)]
         /\ \A q \in Requests \ {p} : Sees(q, YearRow(y))' = Sees(q, YearRow(y))
<1>1. Frame(p) /\ DOMAIN written = Requests
  BY StepCases DEF WriterInv, Shapes
<1>2. YearRow(y)[1] \in YearTables
  BY YearRows
<1>3. CASE Stays(p) /\ pc[p] \notin {"closeYear", "openYear"}
  BY <1>1, <1>2, <1>3, YearsUntouched DEF Stays, Sees, Frame
<1>4. CASE Stops(p)
  BY <1>1, <1>4, RollsBackRows DEF Stops, Sees
<1>5. CASE Commits(p) /\ pc[p] \in {"assignNext", "commitImport"}
  <2>1. work[p].kind # "getCurrent"
    BY <1>5 DEF WriterInv, ProcOK, OnPath, Ended, YearLabels, CreateLabels
  <2>2. YearRow(y) \notin DOMAIN written[p]
    BY <2>1, NoYearHeld
  <2>3. QED BY <1>1, <1>5, <2>2, CommitsRows DEF Sees
<1>6. QED BY <1>3, <1>4, <1>5, StepCases

LEMMA StepCurrent ==
  ASSUME WriterInv, TilesInv, CurrentInv, ClockInv, NEW p \in Requests, StepOf(p)
  PROVE  CurrentInv'
<1>0. Frame(p) /\ DOMAIN written = Requests /\ Shapes
  BY StepCases DEF WriterInv, Shapes
<1>1. ASSUME pc'[p] \in YearLabels
      PROVE  /\ local'[p].year \in Years
             /\ pc'[p] = "commitYear" =>
                  /\ YearRow(local'[p].year) \in DOMAIN written'[p]
                  /\ written'[p][YearRow(local'[p].year)].status = "ACTIVE"
  <2>1. CASE GetCurrent(p)
    <3>1. local'[p].year = now /\ pc'[p] \in {"openYear", "closeYear"}
      BY <1>0, <2>1, GoesThroughOn DEF GetCurrent
    <3>2. QED BY <3>1 DEF ClockInv
  <2>2. CASE CloseYear(p)
    <3>1. local'[p].year = local[p].year /\ pc'[p] \in {"openYear", "closeYear"}
      BY <1>0, <2>2, GoesThroughOn DEF CloseYear
    <3>2. pc[p] = "closeYear"
      BY <2>2 DEF CloseYear, At
    <3>3. QED BY <3>1, <3>2 DEF CurrentInv, YearLabels
  <2>3. CASE OpenYear(p)
    <3>1. pc[p] = "openYear" /\ local'[p] = local[p] /\ pc'[p] = "commitYear"
      BY <1>0, <2>3 DEF OpenYear, At, Proceeds, Shapes
    <3>2. PICK y, year : y = local[p].year /\ year = YearOf(y, "ACTIVE")
      OBVIOUS
    <3>3. Writes(p, Opened(y, year))
      BY <2>3, <3>2 DEF OpenYear, UpsertedYear, Opened
    <3>4. YearRow(y) \in DOMAIN written'[p] /\ written'[p][YearRow(y)] = year
      <4>1. /\ DOMAIN Opened(y, year) = RowsOfYear(y)
            /\ Opened(y, year)[YearRow(y)] = year
            /\ Opened(y, year)[SemesterRow(y, "HK1")] =
                 [status |-> year.status, start |-> year.start,
                  end |-> FirstEnd(year.start, year.end)]
            /\ Opened(y, year)[SemesterRow(y, "HK2")] =
                 [status |-> year.status, start |-> SecondStart(year.start, year.end),
                  end |-> year.end]
        BY OpenedRows DEF RowsOfYear
      <4>2. YearRow(y) \in DOMAIN Opened(y, year)
        BY <4>1 DEF RowsOfYear
      <4>3. QED BY <1>0, <3>3, <4>1, <4>2, WritesRows
    <3>5. year.status = "ACTIVE"
      BY <3>2 DEF YearOf
    <3>6. QED BY <3>1, <3>2, <3>4, <3>5 DEF CurrentInv, YearLabels
  <2>4. QED BY <1>1, <2>1, <2>2, <2>3, ToYears
<1>2. AlwaysACurrentYear'
  <2>1. CASE pc[p] \notin {"closeYear", "openYear", "commitYear"} \/ Stops(p)
    <3>1. \A y \in Years : committed'[YearRow(y)] = committed[YearRow(y)]
      BY <2>1, OthersLeaveYears DEF TilesInv, RowsOfYear
    <3>2. QED BY <3>1 DEF CurrentInv, AlwaysACurrentYear, HasYear, YearsIn
  <2>2. CASE CloseYear(p) \/ OpenYear(p)
    <3>1. committed' = committed
      BY <2>2 DEF CloseYear, OpenYear, OnlyReads, Writes
    <3>2. QED BY <3>1 DEF CurrentInv, AlwaysACurrentYear, HasYear, YearsIn
  <2>3. CASE CommitYear(p)
    <3>1. Commits(p) /\ pc[p] = "commitYear"
      BY <2>3 DEF CommitYear, Ends, At
    <3>2. /\ local[p].year \in Years
          /\ committed'[YearRow(local[p].year)].status = "ACTIVE"
      BY <1>0, <3>1, CommitsRows DEF CurrentInv, YearLabels
    <3>3. QED BY <3>2 DEF AlwaysACurrentYear, YearsIn
  <2>4. QED
    BY <2>1, <2>2, <2>3, FailureStops, LabelsRun, YearStatementLabel DEF StepOf, YearLabels
<1>3. QED BY <1>0, <1>1, <1>2 DEF CurrentInv, Frame, YearLabels

LEMMA CurrentInvAlways == Spec => []CurrentInv
<1>1. InitRequests => CurrentInv
  <2> SUFFICES ASSUME InitRequests PROVE CurrentInv
    OBVIOUS
  <2>1. AlwaysACurrentYear
    BY YearRowsAssumption DEF InitRequests, AlwaysACurrentYear
  <2>2. \A p \in Requests : pc[p] \notin YearLabels
    BY WorkAssumption DEF InitRequests, IsRequest, Kinds, YearLabels
  <2>3. QED BY <2>1, <2>2 DEF CurrentInv, YearLabels
<1>2. WriterInv /\ TilesInv /\ ClockInv /\ CurrentInv /\ [Next]_requestVars => CurrentInv'
  <2> SUFFICES ASSUME WriterInv, TilesInv, ClockInv, CurrentInv, [Next]_requestVars
               PROVE  CurrentInv'
    OBVIOUS
  <2>1. CASE UNCHANGED <<committed, written, work, pc, wants, local, crashes>>
    BY <2>1 DEF CurrentInv, AlwaysACurrentYear, HasYear, YearsIn
  <2>2. QED BY <2>1, StepCurrent, OtherSteps
<1>3. QED BY <1>1, <1>2, WriterInvAlways, TilesInvAlways, ClockInvAlways, PTL DEF Spec

(* At the turn of a year requests close what is open and open what the     *)
(* clock says, in any order, and some fail: a school that has had a year   *)
(* is not left without an open one.                                        *)
THEOREM ACurrentYearAlways == Spec => []AlwaysACurrentYear
<1>1. CurrentInv => AlwaysACurrentYear
  BY DEF CurrentInv
<1>2. QED BY <1>1, CurrentInvAlways, PTL

-----------------------------------------------------------------------------
(* The last request to read the year leaves only its own.                  *)

ComesLast(p) == p \in YearRequests /\ YearRequests \ {p} \subseteq work[p].after

(* Whoever comes last is alone, and what it has not found is not open.     *)
Settles(p) ==
  pc[p] \in YearLabels =>
    /\ \A q \in YearRequests \ {p} : HasEnded(q)
    /\ \A y \in Years :
         Sees(p, YearRow(y)).status = "ACTIVE" =>
           \/ y \in local[p].years
           \/ pc[p] = "commitYear" /\ y = local[p].year
    /\ pc[p] \in {"openYear", "commitYear"} => local[p].years = {}

SettleInv == \A p \in Requests : ComesLast(p) => Settles(p)

LEMMA ClosesOne ==
  ASSUME WriterInv, TilesInv, NEW p \in Requests, CloseYear(p),
         NEW z, z = Min(local[p].years), NEW y \in Years,
         Sees(p, YearRow(y))'.status = "ACTIVE"
  PROVE  y # z /\ Sees(p, YearRow(y)).status = "ACTIVE"
<1>1. PICK year : year = Sees(p, YearRow(z))
  OBVIOUS
<1>2. PICK closed : closed = [year EXCEPT !.status = "CLOSED"]
  OBVIOUS
<1>3. IF year.status = "ACTIVE" THEN Writes(p, NewVersion(YearRow(z), closed))
      ELSE OnlyReads
  BY <1>1, <1>2 DEF CloseYear
<1>4. DOMAIN written = Requests
  BY DEF WriterInv, Shapes
<1>5. CASE year.status # "ACTIVE"
  <2>1. Sees(p, YearRow(y))' = Sees(p, YearRow(y))
    BY <1>3, <1>5 DEF OnlyReads, Sees
  <2>2. QED BY <1>1, <1>5, <2>1
<1>6. CASE year.status = "ACTIVE"
  <2>1. PICK versions : versions = NewVersion(YearRow(z), closed)
    OBVIOUS
  <2>2. DOMAIN versions = {YearRow(z)} /\ versions[YearRow(z)] = closed
    BY <2>1, OneVersion
  <2>3. Writes(p, versions)
    BY <1>3, <1>6, <2>1
  <2>4. /\ committed' = committed
        /\ DOMAIN written'[p] = {YearRow(z)} \union DOMAIN written[p]
        /\ written'[p][YearRow(z)] = closed
        /\ \A row \in DOMAIN written[p] \ {YearRow(z)} :
             written'[p][row] = written[p][row]
    BY <1>4, <2>2, <2>3, WritesRows
  <2>5. CASE y = z
    <3>1. Sees(p, YearRow(y))' = closed
      BY <2>4, <2>5 DEF Sees
    <3>2. year \in YearRecord
      BY <1>1, <2>5 DEF TilesInv, SeesGood, YearGood
    <3>3. closed.status = "CLOSED"
      BY <1>2, <3>2 DEF YearRecord
    <3>4. QED BY <3>1, <3>3
  <2>6. CASE y # z
    <3>1. YearRow(y) # YearRow(z)
      BY <2>6, YearRows
    <3>2. Sees(p, YearRow(y))' = Sees(p, YearRow(y))
      BY <2>4, <3>1 DEF Sees
    <3>3. QED BY <2>6, <3>2
  <2>7. QED BY <2>5, <2>6
<1>7. QED BY <1>5, <1>6

LEMMA OwnStepSettles ==
  ASSUME WriterInv, TilesInv, SettleInv, NEW p \in Requests, StepOf(p), ComesLast(p)
  PROVE  Settles(p)'
<1> SUFFICES ASSUME pc'[p] \in YearLabels
             PROVE  /\ \A q \in YearRequests \ {p} : HasEnded(q)'
                    /\ \A y \in Years :
                         Sees(p, YearRow(y))'.status = "ACTIVE" =>
                           \/ y \in local'[p].years
                           \/ pc'[p] = "commitYear" /\ y = local'[p].year
                    /\ pc'[p] \in {"openYear", "commitYear"} => local'[p].years = {}
  <2>1. YearRequests' = YearRequests
    BY StepCases DEF Frame, YearRequests
  <2>2. QED BY <2>1 DEF Settles
<1>0. Frame(p) /\ DOMAIN written = Requests /\ Shapes /\ YearRequests \subseteq Requests
  BY StepCases DEF WriterInv, Shapes, YearRequests
<1>1. (\A q \in YearRequests \ {p} : HasEnded(q)) =>
        \A q \in YearRequests \ {p} : HasEnded(q)'
  BY <1>0 DEF Frame, HasEnded
<1>2. CASE GetCurrent(p)
  <2>1. /\ At(p, "getCurrent") /\ OnlyReads
        /\ GoesThrough(p, ActiveYears(p), now)
    BY <1>2 DEF GetCurrent
  <2>2. local'[p].years = ActiveYears(p)
        /\ pc'[p] = IF ActiveYears(p) = {} THEN "openYear" ELSE "closeYear"
    BY <1>0, <2>1, GoesThroughOn
  <2>3. \A q \in YearRequests \ {p} : HasEnded(q)
    BY <2>1 DEF At, MayStart, ComesLast
  <2>4. \A y : Sees(p, YearRow(y))' = Sees(p, YearRow(y))
    BY <2>1 DEF OnlyReads, Sees
  <2>5. QED BY <1>1, <2>2, <2>3, <2>4 DEF ActiveYears
<1>3. CASE CloseYear(p)
  <2>1. PICK z : z = Min(local[p].years)
    OBVIOUS
  <2>2. pc[p] = "closeYear" /\ GoesThrough(p, local[p].years \ {z}, local[p].year)
    BY <1>3, <2>1 DEF CloseYear, At
  <2>3. /\ local'[p].years = local[p].years \ {z}
        /\ pc'[p] = IF local[p].years \ {z} = {} THEN "openYear" ELSE "closeYear"
    BY <1>0, <2>2, GoesThroughOn
  <2>4. Settles(p) /\ pc[p] \in YearLabels
    BY <2>2 DEF SettleInv, YearLabels
  <2>5. \A y \in Years : Sees(p, YearRow(y))'.status = "ACTIVE" =>
                           y # z /\ Sees(p, YearRow(y)).status = "ACTIVE"
    BY <1>3, <2>1, ClosesOne
  <2>6. QED BY <1>1, <2>2, <2>3, <2>4, <2>5 DEF Settles
<1>4. CASE OpenYear(p)
  <2>1. pc[p] = "openYear" /\ local'[p] = local[p] /\ pc'[p] = "commitYear"
    BY <1>0, <1>4 DEF OpenYear, At, Proceeds, Shapes
  <2>2. Settles(p) /\ pc[p] \in YearLabels /\ local[p].years = {}
    BY <2>1 DEF SettleInv, YearLabels, Settles
  <2>3. PICK year : year = YearOf(local[p].year, "ACTIVE")
    OBVIOUS
  <2>4. Writes(p, Opened(local[p].year, year))
    BY <1>4, <2>3 DEF OpenYear, UpsertedYear, Opened
  <2>5. \A y : y # local[p].year => YearRow(y) \notin DOMAIN Opened(local[p].year, year)
    <3>1. DOMAIN Opened(local[p].year, year) =
            {YearRow(local[p].year), SemesterRow(local[p].year, "HK1"),
             SemesterRow(local[p].year, "HK2")}
      BY OpenedRows
    <3>2. QED BY <3>1, YearRows
  <2>6. \A y : y # local[p].year => Sees(p, YearRow(y))' = Sees(p, YearRow(y))
    BY <1>0, <2>4, <2>5, WritesRows DEF Sees
  <2>7. QED BY <1>1, <2>1, <2>2, <2>6 DEF Settles
<1>5. QED BY <1>2, <1>3, <1>4, ToYears

LEMMA OtherStepSettles ==
  ASSUME WriterInv, TilesInv, SettleInv, NEW q \in Requests, StepOf(q),
         NEW p \in Requests \ {q}, ComesLast(p)
  PROVE  Settles(p)'
<1>0. /\ Frame(q) /\ pc'[p] = pc[p] /\ local'[p] = local[p]
      /\ YearRequests' = YearRequests /\ YearRequests \subseteq Requests
  BY StepCases DEF Frame, YearRequests
<1> SUFFICES ASSUME pc[p] \in YearLabels PROVE Settles(p)'
  BY <1>0 DEF Settles
<1>1. Settles(p) /\ \A r \in YearRequests \ {p} : HasEnded(r)
  BY DEF SettleInv, Settles
<1>2. q \notin YearRequests
  BY <1>1, EndedStays
<1>3. pc[q] \notin {"closeYear", "openYear", "commitYear"}
  BY <1>2 DEF YearRequests, WriterInv, ProcOK, OnPath, IsRequest, Kinds, Ended,
              CreateLabels, SaveLabels, ChargeLabels, ImportLabels, TokenLabels
<1>4. \A y \in Years : Sees(p, YearRow(y))' = Sees(p, YearRow(y))
  BY <1>3, OthersLeaveYears DEF TilesInv, RowsOfYear
<1>5. \A r \in YearRequests \ {p} : HasEnded(r)'
  BY <1>0, <1>1, <1>2 DEF Frame, HasEnded
<1>6. QED BY <1>0, <1>1, <1>4, <1>5 DEF Settles

LEMMA SettleInvAlways == Spec => []SettleInv
<1>1. InitRequests => SettleInv
  BY WorkAssumption DEF InitRequests, SettleInv, Settles, IsRequest, Kinds, YearLabels
<1>2. WriterInv /\ TilesInv /\ SettleInv /\ [Next]_requestVars => SettleInv'
  <2> SUFFICES ASSUME WriterInv, TilesInv, SettleInv, [Next]_requestVars
               PROVE  SettleInv'
    OBVIOUS
  <2>1. ASSUME NEW q \in Requests, StepOf(q) PROVE SettleInv'
    <3>1. work' = work
      BY <2>1, StepCases DEF Frame
    <3>2. \A p : ComesLast(p)' = ComesLast(p)
      BY <3>1 DEF ComesLast, YearRequests
    <3>3. QED BY <2>1, <3>2, OwnStepSettles, OtherStepSettles DEF SettleInv
  <2>2. CASE UNCHANGED <<committed, written, work, pc, wants, local, crashes>>
    BY <2>2 DEF SettleInv, ComesLast, YearRequests, Settles, HasEnded, Sees
  <2>3. QED BY <2>1, <2>2, OtherSteps
<1>3. QED BY <1>1, <1>2, WriterInvAlways, TilesInvAlways, PTL DEF Spec

(* Two requests around the first of September may leave two years open;    *)
(* one that is sent when all others have been answered closes every year   *)
(* but the one it opens.                                                   *)
THEOREM ReadingSettlesTheYearAlways == Spec => ReadingSettlesTheYear
<1> DEFINE Settled == \A p \in YearRequests :
       /\ pc[p] = "commitYear" /\ pc'[p] \in {"done", "createRecord"}
       /\ YearRequests \ {p} \subseteq work[p].after
       => YearsIn(committed', "ACTIVE") = {local[p].year}
<1>1. WriterInv /\ TilesInv /\ CurrentInv /\ SettleInv /\ [Next]_requestVars =>
        [Settled]_requestVars
  <2> SUFFICES ASSUME WriterInv, TilesInv, CurrentInv, SettleInv, [Next]_requestVars,
                      NEW p \in YearRequests,
                      pc[p] = "commitYear", pc'[p] \in {"done", "createRecord"},
                      YearRequests \ {p} \subseteq work[p].after
               PROVE  YearsIn(committed', "ACTIVE") = {local[p].year}
    OBVIOUS
  <2>1. p \in Requests /\ ComesLast(p) /\ DOMAIN written = Requests
    BY DEF YearRequests, ComesLast, WriterInv, Shapes
  <2>2. StepOf(p)
    BY <2>1, OtherSteps, StepCases DEF Frame
  <2>3. CommitYear(p)
    BY <2>1, <2>2, FailureStops, LabelsRun, YearStatementLabel
       DEF StepOf, Stops, YearLabels
  <2>4. Commits(p)
    BY <2>3 DEF CommitYear, Ends
  <2>5. \A y \in Years : committed'[YearRow(y)] = Sees(p, YearRow(y))
    BY <2>1, <2>4, CommitsRows DEF Sees, TilesInv, RowsOfYear
  <2>6. /\ \A y \in Years : Sees(p, YearRow(y)).status = "ACTIVE" => y = local[p].year
    BY <2>1 DEF SettleInv, Settles, YearLabels
  <2>7. local[p].year \in Years /\ Sees(p, YearRow(local[p].year)).status = "ACTIVE"
    BY <2>1 DEF CurrentInv, YearLabels, Sees
  <2>8. QED BY <2>5, <2>6, <2>7 DEF YearsIn
<1>2. QED
  BY <1>1, WriterInvAlways, TilesInvAlways, CurrentInvAlways, SettleInvAlways, PTL
     DEF Spec, ReadingSettlesTheYear

-----------------------------------------------------------------------------
(* The chain of refresh tokens, and the logs.                              *)

(* A row that the statement of p is not about and that it has no version   *)
(* of stays.                                                               *)
LEMMA RowStays ==
  ASSUME WriterInv, NEW p \in Requests, StepOf(p), NEW row \in DOMAIN committed,
         row \notin DOMAIN written[p], ~ Touches(p, row)
  PROVE  row \in DOMAIN committed' /\ committed'[row] = committed[row]
<1>1. DOMAIN written = Requests /\ row \in DOMAIN committed'
  BY StepCases DEF WriterInv, Shapes
<1>2. CASE Stays(p)
  BY <1>2 DEF Stays
<1>3. CASE Commits(p)
  BY <1>1, <1>3, CommitsRows
<1>4. CASE Stops(p)
  BY <1>4 DEF Stops, RollsBack
<1>5. QED BY <1>1, <1>2, <1>3, <1>4, StepCases

LEMMA NotificationTables ==
  /\ TokenRow[1] = "zalo_oauth_tokens" /\ ZaloToken[1] = "zalo refresh token"
  /\ \A p : LogRow(p)[1] = "notification_logs" /\ ZaloMessage(p)[1] = "zalo message"
  /\ \A p, q : LogRow(p) = LogRow(q) => p = q
  /\ \A p, q : ZaloMessage(p) = ZaloMessage(q) => p = q
BY DEF TokenRow, ZaloToken, LogRow, ZaloMessage

(* No transaction writes into the tables of notifications. *)
LEMMA NotificationsFree ==
  ASSUME WriterInv, NEW p \in Requests
  PROVE  /\ TokenRow \notin DOMAIN written[p] /\ ZaloToken \notin DOMAIN written[p]
         /\ \A q : LogRow(q) \notin DOMAIN written[p] /\ ZaloMessage(q) \notin DOMAIN written[p]
<1>1. \A scope : SequenceRow(scope)[1] = "number_sequences"
  BY DEF SequenceRow
<1>2. ASSUME NEW row \in DOMAIN written[p]
      PROVE  row[1] \in YearTables \union ImportTables \union {"number_sequences"}
  BY <1>1 DEF WriterInv, ProcOK, HeldOK, ImportTables
<1>3. \A row \in DOMAIN written[p] :
        row[1] \notin {"zalo_oauth_tokens", "zalo refresh token", "notification_logs",
                       "zalo message"}
  BY <1>2 DEF YearTables, ImportTables
<1>4. QED BY <1>3, NotificationTables

LEMMA NotificationsTouched ==
  ASSUME NEW p
  PROVE  /\ pc[p] # "saveToken" => ~ Touches(p, TokenRow)
         /\ pc[p] # "askToken" => ~ Touches(p, ZaloToken)
         /\ \A q : Touches(p, LogRow(q)) => q = p /\ pc[p] \in {"logFailure", "logSent"}
         /\ \A q : Touches(p, ZaloMessage(q)) => q = p /\ pc[p] = "sendMessage"
<1> DEFINE tables == {"zalo_oauth_tokens", "zalo refresh token", "notification_logs",
                      "zalo message"}
<1>1. \A scope : SequenceRow(scope)[1] = "number_sequences"
  BY DEF SequenceRow
<1>2. ASSUME NEW row, row[1] \in tables, Touches(p, row)
      PROVE  \/ pc[p] \in {"logFailure", "logSent"} /\ row = LogRow(p)
             \/ pc[p] = "askToken" /\ row = ZaloToken
             \/ pc[p] = "saveToken" /\ row = TokenRow
             \/ pc[p] = "sendMessage" /\ row = ZaloMessage(p)
  BY <1>1, <1>2 DEF Touches, YearTables, Entities
<1>3. /\ TokenRow[1] \in tables /\ ZaloToken[1] \in tables
      /\ \A q : LogRow(q)[1] \in tables /\ ZaloMessage(q)[1] \in tables
  BY NotificationTables
<1> HIDE DEF tables
<1>4. Touches(p, TokenRow) => pc[p] = "saveToken"
  BY <1>2, <1>3, NotificationTables
<1>5. Touches(p, ZaloToken) => pc[p] = "askToken"
  BY <1>2, <1>3, NotificationTables
<1>6. ASSUME NEW q, Touches(p, LogRow(q))
      PROVE  q = p /\ pc[p] \in {"logFailure", "logSent"}
  <2>1. \/ pc[p] \in {"logFailure", "logSent"} /\ LogRow(q) = LogRow(p)
        \/ pc[p] = "askToken" /\ LogRow(q) = ZaloToken
        \/ pc[p] = "saveToken" /\ LogRow(q) = TokenRow
        \/ pc[p] = "sendMessage" /\ LogRow(q) = ZaloMessage(p)
    BY <1>2, <1>3, <1>6
  <2>2. QED BY <2>1, NotificationTables
<1>7. ASSUME NEW q, Touches(p, ZaloMessage(q)) PROVE q = p /\ pc[p] = "sendMessage"
  <2>1. \/ pc[p] \in {"logFailure", "logSent"} /\ ZaloMessage(q) = LogRow(p)
        \/ pc[p] = "askToken" /\ ZaloMessage(q) = ZaloToken
        \/ pc[p] = "saveToken" /\ ZaloMessage(q) = TokenRow
        \/ pc[p] = "sendMessage" /\ ZaloMessage(q) = ZaloMessage(p)
    BY <1>2, <1>3, <1>7
  <2>2. QED BY <2>1, NotificationTables
<1>8. QED BY <1>4, <1>5, <1>6, <1>7

HoldsToken(p) == pc[p] \in {"findToken", "saveToken"}

(* A notification goes through these statements, and waits for no row.     *)
LEMMA ToTokens ==
  ASSUME WriterInv, NEW p \in Requests, StepOf(p), work[p].kind = "notify"
  PROVE  \/ Notify(p) \/ ReadToken(p) \/ AskToken(p) \/ FindToken(p) \/ SaveToken(p)
         \/ SendMessage(p) \/ LogNotification(p)
         \/ Stops(p) /\ crashes' = crashes + 1
<1>1. CASE Statement(p)
  <2>1. pc[p] \in TokenLabels \union {"notify"}
    BY <1>1, LabelsRun
       DEF WriterInv, ProcOK, OnPath, CreateLabels, SaveLabels, ChargeLabels, ImportLabels
  <2>2. QED BY <1>1, <2>1, LabelsRun DEF NotifyStatement
<1>2. CASE Crash(p)
  BY <1>2, FailureStops DEF Crash
<1>3. CASE DeadlockVictim(p)
  <2>1. PICK q \in Requests \ {p} : wants[p] \intersect DOMAIN written[q] # {}
    BY <1>3, VictimWaits
  <2>2. TokenRow \notin DOMAIN written[q]
    BY NotificationsFree
  <2>3. wants[p] # {TokenRow} /\ wants[p] # {}
    BY <2>1, <2>2
  <2>4. pc[p] \in TokenLabels \union {"notify"} \union Ended
    BY DEF WriterInv, ProcOK, OnPath
  <2>5. QED
    BY <2>3, <2>4 DEF WriterInv, ProcOK, WantsOK, Inside, YearLabels, ChargeLabels,
       ImportLabels, TokenLabels, Ended
<1>4. QED BY <1>1, <1>2, <1>3 DEF StepOf

TokenInv ==
  /\ {TokenRow, ZaloToken} \subseteq DOMAIN committed
  /\ crashes = 0 =>
       /\ StoredToken \in Nat /\ committed[ZaloToken] \in Nat
       /\ StoredToken <= committed[ZaloToken]
       /\ \A p \in Requests :
            /\ pc[p] = "askToken" => local[p].token \in Nat /\ local[p].token <= StoredToken
            /\ HoldsToken(p) => /\ local[p].token = committed[ZaloToken]
                                /\ StoredToken < committed[ZaloToken]
       /\ \A p, q \in Requests : HoldsToken(p) /\ HoldsToken(q) => p = q
       /\ StoredToken # committed[ZaloToken] => \E p \in Requests : HoldsToken(p)

LEMMA TokenRowsStay ==
  ASSUME WriterInv, TokenInv, NEW p \in Requests, StepOf(p)
  PROVE  /\ {TokenRow, ZaloToken} \subseteq DOMAIN committed'
         /\ pc[p] # "askToken" => committed'[ZaloToken] = committed[ZaloToken]
         /\ pc[p] # "saveToken" => committed'[TokenRow] = committed[TokenRow]
                                     /\ StoredToken' = StoredToken
<1>1. /\ TokenRow \notin DOMAIN written[p] /\ ZaloToken \notin DOMAIN written[p]
      /\ TokenRow \in DOMAIN committed /\ ZaloToken \in DOMAIN committed
  BY NotificationsFree DEF TokenInv
<1>2. pc[p] # "askToken" => committed'[ZaloToken] = committed[ZaloToken]
  BY <1>1, NotificationsTouched, RowStays
<1>3. pc[p] # "saveToken" => committed'[TokenRow] = committed[TokenRow]
  BY <1>1, NotificationsTouched, RowStays
<1>4. {TokenRow, ZaloToken} \subseteq DOMAIN committed'
  BY <1>1, StepCases
<1>5. QED BY <1>2, <1>3, <1>4 DEF StoredToken, TokenIn

LEMMA StepTokens ==
  ASSUME WriterInv, TokenInv, NEW p \in Requests, StepOf(p)
  PROVE  TokenInv'
<1>0. /\ Frame(p) /\ DOMAIN written = Requests /\ Shapes
      /\ crashes \in Nat /\ (crashes' = crashes \/ crashes' = crashes + 1)
      /\ TokenRow # ZaloToken
      /\ {TokenRow, ZaloToken} \subseteq DOMAIN committed'
  <2>1. Frame(p)
    BY StepCases
  <2>2. crashes' = crashes \/ crashes' = crashes + 1
    BY ClockOfStep
  <2>3. QED BY <2>1, <2>2, TokenRowsStay, NotificationTables DEF WriterInv, Shapes
<1> SUFFICES ASSUME crashes' = 0 PROVE TokenInv'
  BY <1>0 DEF TokenInv
<1>1. /\ StoredToken \in Nat /\ committed[ZaloToken] \in Nat
      /\ StoredToken <= committed[ZaloToken]
      /\ \A q \in Requests :
           /\ pc[q] = "askToken" => local[q].token \in Nat /\ local[q].token <= StoredToken
           /\ HoldsToken(q) => /\ local[q].token = committed[ZaloToken]
                               /\ StoredToken < committed[ZaloToken]
      /\ \A q, r \in Requests : HoldsToken(q) /\ HoldsToken(r) => q = r
      /\ StoredToken # committed[ZaloToken] => \E q \in Requests : HoldsToken(q)
      /\ crashes' = crashes
  BY <1>0 DEF TokenInv
<1>2. \A q \in Requests \ {p} : HoldsToken(q)' = HoldsToken(q)
  BY <1>0 DEF Frame, HoldsToken
<1>3. ASSUME committed'[ZaloToken] = committed[ZaloToken], StoredToken' = StoredToken,
             HoldsToken(p)' = HoldsToken(p),
             HoldsToken(p) => local'[p].token = local[p].token,
             pc'[p] = "askToken" =>
               local'[p].token \in Nat /\ local'[p].token <= StoredToken
      PROVE  TokenInv'
  BY <1>0, <1>1, <1>2, <1>3 DEF TokenInv, Frame
<1>4. CASE Stops(p) /\ crashes' = crashes + 1
  BY <1>1, <1>4
<1>5. CASE pc[p] \notin {"askToken", "findToken", "saveToken"}
             /\ pc'[p] \notin {"askToken", "findToken", "saveToken"}
  <2>1. HoldsToken(p)' = HoldsToken(p) /\ ~ HoldsToken(p)
    BY <1>5 DEF HoldsToken
  <2>2. QED BY <1>3, <1>5, <2>1, TokenRowsStay
<1>6. CASE work[p].kind # "notify"
  <2>1. ProcOK(p) /\ ProcOK(p)' /\ work' = work
    BY <1>0, AnyStep DEF StepOK, WriterInv, Frame
  <2>2. QED BY <1>5, <1>6, <2>1
               DEF ProcOK, OnPath, Ended, CreateLabels, SaveLabels, YearLabels,
                   ChargeLabels, ImportLabels, WriterInv, IsRequest, Kinds
<1>7. CASE Notify(p) \/ SendMessage(p) \/ LogNotification(p)
  BY <1>0, <1>5, <1>7
     DEF Notify, SendMessage, LogNotification, At, AtWithFault, Proceeds, Refuses, Answers,
         LogsFailure, AfterLostAnswer, Shapes
<1>8. CASE ReadToken(p)
  <2>1. /\ pc[p] = "readToken" /\ committed' = committed
        /\ Sees(p, TokenRow) = committed[TokenRow]
    BY <1>8, NotificationsFree DEF ReadToken, At, OnlyReads, Sees
  <2>2. /\ pc'[p] \in {"sendMessage", "askToken"}
        /\ pc'[p] = "askToken" => local'[p].token = StoredToken
    BY <1>0, <1>8, <2>1, LocalsOfNone DEF ReadToken, Proceeds, Shapes, StoredToken, TokenIn
  <2>3. StoredToken' = StoredToken /\ HoldsToken(p)' = HoldsToken(p) /\ ~ HoldsToken(p)
    BY <2>1, <2>2 DEF HoldsToken, StoredToken
  <2>4. QED BY <1>1, <1>3, <2>1, <2>2, <2>3
<1>9. CASE AskToken(p)
  <2>1. pc[p] = "askToken" /\ Sees(p, ZaloToken) = committed[ZaloToken]
    BY <1>9, NotificationsFree DEF AskToken, At, AtWithFault, Sees
  <2>2. CASE OnlyReads /\ LogsFailure(p)
    <3>1. committed' = committed /\ pc'[p] = "logFailure"
      BY <1>0, <2>2 DEF OnlyReads, LogsFailure, Proceeds, Shapes
    <3>2. StoredToken' = StoredToken /\ HoldsToken(p)' = HoldsToken(p) /\ ~ HoldsToken(p)
      BY <2>1, <3>1 DEF HoldsToken, StoredToken
    <3>3. QED BY <1>3, <3>1, <3>2
  <2>3. CASE /\ local[p].token = Sees(p, ZaloToken)
             /\ WritesAtOnce(NewVersion(ZaloToken, NewToken(p)))
             /\ Proceeds(p, "findToken", {}, [local[p] EXCEPT !.token = NewToken(p)])
    <3>1. committed'[ZaloToken] = committed[ZaloToken] + 1
      BY <2>1, <2>3, OneRowAtOnce DEF NewToken
    <3>2. pc'[p] = "findToken" /\ local'[p].token = committed[ZaloToken] + 1
      BY <1>0, <2>1, <2>3, LocalsOfNone DEF Proceeds, Shapes, NewToken
    <3>3. StoredToken' = StoredToken
      BY <2>1, TokenRowsStay
    <3>4. StoredToken = committed[ZaloToken] /\ \A q \in Requests : ~ HoldsToken(q)
      BY <1>1, <2>1, <2>3
    <3>5. HoldsToken(p)' /\ \A q \in Requests \ {p} : ~ HoldsToken(q)'
      BY <1>2, <3>2, <3>4 DEF HoldsToken
    <3>6. QED BY <1>0, <1>1, <3>1, <3>2, <3>3, <3>4, <3>5 DEF TokenInv, Frame
  <2>4. QED BY <1>1, <1>9, <2>2, <2>3 DEF AskToken, AnswerIsLost, Renews
<1>10. CASE FindToken(p)
  <2>1. pc[p] = "findToken" /\ committed' = committed
    BY <1>10 DEF FindToken, At, OnlyReads
  <2>2. pc'[p] = "saveToken" /\ local'[p] = local[p]
    BY <1>0, <1>10 DEF FindToken, Proceeds, Shapes
  <2>3. StoredToken' = StoredToken /\ HoldsToken(p)' /\ HoldsToken(p)
    BY <2>1, <2>2 DEF HoldsToken, StoredToken
  <2>4. QED BY <1>3, <2>1, <2>2, <2>3
<1>11. CASE SaveToken(p)
  <2>1. pc[p] = "saveToken"
    BY <1>11 DEF SaveToken, At
  <2>2. pc'[p] = "sendMessage"
    BY <1>0, <1>11 DEF SaveToken, Proceeds, Shapes
  <2>3. committed'[TokenRow] = TokenPair(p)
    BY <1>11, OneRowAtOnce DEF SaveToken
  <2>4. HoldsToken(p) /\ local[p].token = committed[ZaloToken] /\ committed[ZaloToken] \in Nat
    BY <1>1, <2>1 DEF HoldsToken
  <2>5. TokenPair(p) # NoToken /\ TokenPair(p).refresh = committed[ZaloToken]
    BY <2>4 DEF TokenPair, NoToken
  <2>6. StoredToken' = committed[ZaloToken] /\ committed'[ZaloToken] = committed[ZaloToken]
    BY <2>1, <2>3, <2>5, TokenRowsStay DEF StoredToken, TokenIn
  <2>7. \A q \in Requests : ~ HoldsToken(q)'
    BY <1>1, <1>2, <2>2, <2>4 DEF HoldsToken
  <2>8. \A q \in Requests : pc'[q] = "askToken" =>
          local'[q].token \in Nat /\ local'[q].token <= committed[ZaloToken]
    BY <1>0, <1>1, <2>2 DEF Frame
  <2>9. QED BY <1>0, <1>1, <2>6, <2>7, <2>8 DEF TokenInv
<1>12. QED
  BY <1>1, <1>4, <1>6, <1>7, <1>8, <1>9, <1>10, <1>11, <1>0, ToTokens


LEMMA TokenInvAlways == Spec => []TokenInv
<1>1. InitRequests => TokenInv
  <2> SUFFICES ASSUME InitRequests PROVE TokenInv
    OBVIOUS
  <2>1. /\ {TokenRow, ZaloToken} \subseteq DOMAIN committed
        /\ committed[ZaloToken] \in Nat /\ StoredToken = committed[ZaloToken]
    BY TokenRowsAssumption DEF InitRequests, StoredToken
  <2>2. \A p \in Requests : pc[p] # "askToken" /\ ~ HoldsToken(p)
    BY WorkAssumption DEF InitRequests, IsRequest, Kinds, HoldsToken
  <2>3. QED BY <2>1, <2>2 DEF TokenInv
<1>2. WriterInv /\ TokenInv /\ [Next]_requestVars => TokenInv'
  <2> SUFFICES ASSUME WriterInv, TokenInv, [Next]_requestVars PROVE TokenInv'
    OBVIOUS
  <2>1. CASE UNCHANGED <<committed, written, work, pc, wants, local, crashes>>
    BY <2>1 DEF TokenInv, StoredToken, TokenIn, HoldsToken
  <2>2. QED BY <2>1, StepTokens, OtherSteps
<1>3. QED BY <1>1, <1>2, WriterInvAlways, PTL DEF Spec

(* Zalo takes each refresh token once, and requests renew the pair without *)
(* knowing of each other: unless one is cut off, or an answer lost, the    *)
(* token that Zalo takes next is stored or with a request about to store   *)
(* it.                                                                     *)
THEOREM TokenIsNotLost == Spec => []TokenNotLost
<1>1. TokenInv => TokenNotLost
  BY DEF TokenInv, TokenNotLost, HoldsToken
<1>2. QED BY <1>1, TokenInvAlways, PTL

-----------------------------------------------------------------------------
(* What the logs say of the messages.                                      *)

Delivered(p) == committed[ZaloMessage(p)] = "delivered"

LogOK(p) ==
  /\ LogRow(p) \in DOMAIN committed /\ ZaloMessage(p) \in DOMAIN committed
  /\ committed[LogRow(p)] = "SENT" => Delivered(p)
  /\ pc[p] = "logSent" => Delivered(p)
  /\ pc[p] \notin Ended => committed[LogRow(p)] = "none"
  /\ pc[p] \notin Ended \union {"notify"} => CanBeSent(p)
  /\ crashes = 0 =>
       /\ Delivered(p) => pc[p] \in {"logSent", "done"}
       /\ pc[p] = "done" => CanBeSent(p)
       /\ pc[p] \in Ended =>
            committed[LogRow(p)] = IF ~CanBeSent(p) THEN "none"
                                   ELSE IF Delivered(p) THEN "SENT" ELSE "FAILED"

LogsInv == \A p \in Requests : work[p].kind = "notify" => LogOK(p)

(* A request that goes on keeps to what is there and what it lacks.        *)
LEMMA OwnStepLogs ==
  ASSUME WriterInv, NEW p \in Requests, StepOf(p), work[p].kind = "notify", LogOK(p)
  PROVE  LogOK(p)'
<1>0. /\ Frame(p) /\ Shapes
      /\ crashes \in Nat /\ (crashes' = crashes \/ crashes' = crashes + 1)
      /\ LogRow(p) \in DOMAIN committed' /\ ZaloMessage(p) \in DOMAIN committed'
      /\ pc[p] \notin Ended
  <2>1. Frame(p) /\ DOMAIN committed \subseteq DOMAIN committed'
    BY StepCases
  <2>2. crashes' = crashes \/ crashes' = crashes + 1
    BY ClockOfStep
  <2>3. QED BY <2>1, <2>2, EndedStays DEF WriterInv, Shapes, LogOK, HasEnded
<1>1. /\ pc[p] \notin {"logFailure", "logSent"} =>
           committed'[LogRow(p)] = committed[LogRow(p)]
      /\ pc[p] # "sendMessage" => Delivered(p)' = Delivered(p)
  BY NotificationsFree, NotificationsTouched, RowStays DEF LogOK, Delivered
<1>2. /\ CanBeSent(p)' = CanBeSent(p)
      /\ committed[LogRow(p)] = "none"
      /\ pc[p] # "notify" => CanBeSent(p)
      /\ pc[p] = "logSent" => Delivered(p)
      /\ crashes = 0 /\ Delivered(p) => pc[p] = "logSent"
  <2>1. work' = work
    BY <1>0 DEF Frame
  <2>2. CanBeSent(p)' = CanBeSent(p)
    BY <2>1 DEF CanBeSent
  <2>3. pc[p] # "done"
    BY <1>0 DEF Ended
  <2>4. QED BY <1>0, <2>2, <2>3 DEF LogOK
<1>3. CASE Stops(p) /\ crashes' = crashes + 1
  <2>1. committed' = committed /\ pc'[p] \in Ended
    BY <1>3 DEF Stops, RollsBack, Ended
  <2>2. pc'[p] # "logSent" /\ crashes' # 0
    BY <1>0, <1>3, <2>1 DEF Ended
  <2>3. QED BY <1>0, <1>2, <2>1, <2>2 DEF LogOK, Delivered
<1>4. CASE Notify(p)
  <2>1. pc[p] = "notify"
    BY <1>4 DEF Notify, At
  <2>2. IF CanBeSent(p) THEN pc'[p] = "readToken" ELSE pc'[p] = "refused"
    BY <1>0, <1>4 DEF Notify, Proceeds, Refuses, Answers, Shapes
  <2>3. crashes' = crashes
    BY <1>4 DEF Notify, At
  <2>4. QED BY <1>0, <1>1, <1>2, <2>1, <2>2, <2>3 DEF LogOK, Ended
<1>5. CASE ReadToken(p) \/ AskToken(p) \/ FindToken(p) \/ SaveToken(p)
  <2>1. /\ pc[p] \notin {"notify", "logFailure", "logSent", "sendMessage"}
        /\ pc'[p] \notin Ended \union {"logSent"}
    BY <1>0, <1>5 DEF ReadToken, AskToken, FindToken, SaveToken, At, AtWithFault,
       Proceeds, LogsFailure, Shapes, Ended
  <2>2. committed'[LogRow(p)] = "none" /\ Delivered(p)' = Delivered(p) /\ CanBeSent(p)'
    BY <1>1, <1>2, <2>1
  <2>3. crashes' = 0 => crashes = 0
    BY <1>0
  <2>4. QED BY <1>0, <1>2, <2>1, <2>2, <2>3 DEF LogOK
<1>6. CASE SendMessage(p)
  <2>1. /\ pc[p] = "sendMessage" /\ CanBeSent(p)'
        /\ committed'[LogRow(p)] = "none"
    BY <1>1, <1>2, <1>6 DEF SendMessage, At, AtWithFault
  <2>2. CASE WritesAtOnce(NewVersion(ZaloMessage(p), "delivered"))
               /\ Proceeds(p, "logSent", {}, local[p])
    <3>1. Delivered(p)' /\ pc'[p] = "logSent"
      BY <1>0, <2>2, OneRowAtOnce DEF Delivered, Proceeds, Shapes
    <3>2. QED BY <1>0, <2>1, <3>1 DEF LogOK, Ended
  <2>3. CASE OnlyReads /\ LogsFailure(p)
    <3>1. committed' = committed /\ pc'[p] = "logFailure"
      BY <1>0, <2>3 DEF OnlyReads, LogsFailure, Proceeds, Shapes
    <3>2. Delivered(p)' = Delivered(p) /\ (crashes' = 0 => crashes = 0)
      BY <1>0, <3>1 DEF Delivered
    <3>3. QED BY <1>0, <1>2, <2>1, <3>1, <3>2 DEF LogOK, Ended
  <2>4. CASE AnswerIsLost /\ WritesAtOnce(NewVersion(ZaloMessage(p), "delivered"))
               /\ LogsFailure(p)
    <3>1. Delivered(p)' /\ pc'[p] = "logFailure" /\ crashes' = crashes + 1
      BY <1>0, <2>4, OneRowAtOnce
         DEF Delivered, LogsFailure, Proceeds, Shapes, AnswerIsLost
    <3>2. QED BY <1>0, <2>1, <3>1 DEF LogOK, Ended
  <2>5. QED BY <1>6, <2>2, <2>3, <2>4 DEF SendMessage, AfterLostAnswer
<1>7. CASE LogNotification(p)
  <2>1. /\ pc'[p] = "done" /\ crashes' = crashes
        /\ \/ pc[p] = "logFailure" /\ committed'[LogRow(p)] = "FAILED"
           \/ pc[p] = "logSent" /\ committed'[LogRow(p)] = "SENT"
    BY <1>0, <1>7, OneRowAtOnce DEF LogNotification, At, Answers, Proceeds, Shapes
  <2>2. Delivered(p)' = Delivered(p) /\ CanBeSent(p)'
    BY <1>1, <1>2, <2>1
  <2>3. QED BY <1>0, <1>2, <2>1, <2>2 DEF LogOK, Ended
<1>8. QED BY <1>3, <1>4, <1>5, <1>6, <1>7, ToTokens

LEMMA LogsInvAlways == Spec => []LogsInv
<1>1. InitRequests => LogsInv
  <2> SUFFICES ASSUME InitRequests, NEW p \in Requests, work[p].kind = "notify"
               PROVE  LogOK(p)
    BY DEF LogsInv
  <2>1. /\ LogRow(p) \in DOMAIN committed /\ ZaloMessage(p) \in DOMAIN committed
        /\ committed[LogRow(p)] = "none" /\ committed[ZaloMessage(p)] = "none"
    BY TokenRowsAssumption DEF InitRequests
  <2>2. pc[p] = "notify"
    BY DEF InitRequests
  <2>3. QED BY <2>1, <2>2 DEF LogOK, Delivered, Ended
<1>2. WriterInv /\ LogsInv /\ [Next]_requestVars => LogsInv'
  <2> SUFFICES ASSUME WriterInv, LogsInv, [Next]_requestVars,
                      NEW q \in Requests, work'[q].kind = "notify"
               PROVE  LogOK(q)'
    BY DEF LogsInv
  <2>1. ASSUME NEW p \in Requests, StepOf(p) PROVE LogOK(q)'
    <3>1. /\ Frame(p) /\ work[q].kind = "notify" /\ LogOK(q)
          /\ crashes \in Nat /\ (crashes' = crashes \/ crashes' = crashes + 1)
      <4>1. Frame(p)
        BY <2>1, StepCases
      <4>2. crashes' = crashes \/ crashes' = crashes + 1
        BY <2>1, ClockOfStep
      <4>3. QED BY <4>1, <4>2 DEF LogsInv, Frame, WriterInv, Shapes
    <3>2. CASE q = p
      BY <2>1, <3>1, <3>2, OwnStepLogs
    <3>3. CASE q # p
      <4>1. /\ committed'[LogRow(q)] = committed[LogRow(q)]
            /\ committed'[ZaloMessage(q)] = committed[ZaloMessage(q)]
            /\ LogRow(q) \in DOMAIN committed' /\ ZaloMessage(q) \in DOMAIN committed'
        BY <2>1, <3>1, <3>3, NotificationsFree, NotificationsTouched, RowStays DEF LogOK
      <4>2. pc'[q] = pc[q] /\ CanBeSent(q)' = CanBeSent(q)
        BY <3>1, <3>3 DEF Frame, CanBeSent
      <4>3. Delivered(q)' = Delivered(q) /\ (crashes' = 0 => crashes = 0)
        BY <3>1, <4>1 DEF Delivered
      <4>4. QED BY <3>1, <4>1, <4>2, <4>3 DEF LogOK
    <3>4. QED BY <3>2, <3>3
  <2>2. CASE UNCHANGED <<committed, written, work, pc, wants, local, crashes>>
    BY <2>2 DEF LogsInv, LogOK, Delivered, CanBeSent
  <2>3. QED BY <2>1, <2>2, OtherSteps
<1>3. QED BY <1>1, <1>2, WriterInvAlways, PTL DEF Spec

(* A log that says SENT is true whatever goes wrong.  While no process     *)
(* stops and no answer is lost, a request that had a telephone and a       *)
(* template has logged what became of its message, and any other ended     *)
(* without a message and without a log.                                    *)
THEOREM LogsAlwaysTellTheTruth == Spec => []LogsTellTheTruth
<1>1. LogsInv => LogsTellTheTruth
  <2> SUFFICES ASSUME LogsInv, NEW p \in Requests, work[p].kind = "notify"
               PROVE  LET log       == committed[LogRow(p)]
                          delivered == committed[ZaloMessage(p)] = "delivered"
                      IN  /\ log = "SENT" => delivered
                          /\ crashes = 0 /\ HasEnded(p) =>
                               /\ log = "SENT" <=> delivered
                               /\ log # "none" <=> CanBeSent(p)
    BY DEF LogsTellTheTruth
  <2>1. LogOK(p)
    BY DEF LogsInv
  <2>2. crashes = 0 /\ HasEnded(p) /\ Delivered(p) => pc[p] = "done"
    BY <2>1 DEF LogOK, HasEnded, Ended
  <2>3. QED BY <2>1, <2>2 DEF LogOK, Delivered, HasEnded
<1>2. QED BY <1>1, LogsInvAlways, PTL

-----------------------------------------------------------------------------
(* The codes of receivables have no gaps.                                  *)

CounterRow == SequenceRow(ReceivableCounter)

(* The last code drawn is not used yet by who is about to insert.          *)
LastCharged(p) ==
  IF pc[p] = "insertReceivable" THEN written[p][CounterRow] - 1 ELSE written[p][CounterRow]

(* Whoever charges students has the counter, and has used every code it    *)
(* has drawn: its receivables go on where the committed ones end.          *)
CodesOK(p) ==
  /\ CounterRow \in DOMAIN written[p] =>
       /\ written[p][CounterRow] \in Nat /\ committed[CounterRow] <= LastCharged(p)
       /\ Numbered(written[p], committed[CounterRow] + 1, LastCharged(p))
  /\ CounterRow \notin DOMAIN written[p] =>
       pc[p] # "insertReceivable" /\ Charged(written[p]) = {}
  /\ pc[p] = "insertReceivable" => local[p].code = written[p][CounterRow]
  /\ \A row \in DOMAIN written[p] : row[1] = "student_receivables" =>
       /\ written[p][row] # NoCharge
       /\ row \in DOMAIN committed => committed[row] = NoCharge

CodesInv ==
  /\ CounterRow \in DOMAIN committed /\ committed[CounterRow] \in Nat
  /\ Numbered(committed, 1, committed[CounterRow])
  /\ \A p \in Requests : CodesOK(p)

HasCode(row) == row = CounterRow \/ row[1] = "student_receivables"

SameCodes(f, g) ==
  \A row : HasCode(row) => /\ row \in DOMAIN f <=> row \in DOMAIN g
                           /\ row \in DOMAIN g => f[row] = g[row]

LEMMA CounterTable == CounterRow[1] = "number_sequences"
BY DEF CounterRow, SequenceRow

LEMMA SameNumbered ==
  ASSUME NEW f, NEW g, SameCodes(f, g)
  PROVE  /\ Charged(f) = Charged(g)
         /\ \A first, last : Numbered(f, first, last) <=> Numbered(g, first, last)
         /\ CounterRow \in DOMAIN f <=> CounterRow \in DOMAIN g
         /\ CounterRow \in DOMAIN g => f[CounterRow] = g[CounterRow]
<1>1. /\ Charged(f) = Charged(g)
      /\ \A row \in Charged(g) : f[row] = g[row]
  BY DEF SameCodes, HasCode, Charged
<1>2. \A first, last : Numbered(f, first, last) <=> Numbered(g, first, last)
  BY <1>1 DEF Numbered
<1>3. QED BY <1>1, <1>2 DEF SameCodes, HasCode

LEMMA CodesUntouched ==
  ASSUME NEW p, pc[p] \notin {"drawReceivableCode", "insertReceivable"},
         NEW row, HasCode(row)
  PROVE  ~ Touches(p, row)
<1>1. /\ CounterRow # SequenceRow(<<"students", 0>>)
      /\ LogRow(p)[1] = "notification_logs"
      /\ ZaloToken[1] = "zalo refresh token"
      /\ TokenRow[1] = "zalo_oauth_tokens"
      /\ ZaloMessage(p)[1] = "zalo message"
      /\ \A scope : SequenceRow(scope)[1] = "number_sequences"
  BY DEF CounterRow, ReceivableCounter, SequenceRow, LogRow, ZaloToken, TokenRow,
         ZaloMessage
<1>2. row[1] \in {"number_sequences", "student_receivables"}
  BY CounterTable DEF HasCode
<1>3. /\ row[1] \notin YearTables /\ row[1] \notin Entities
      /\ row[1] \notin {"students", "students.identifier_code", "student_classes",
                       "import_sessions", "fee_plans (terms)", "notification_logs",
                       "zalo refresh token", "zalo_oauth_tokens", "zalo message"}
  BY <1>2 DEF YearTables, Entities
<1>4. \A scope : row = SequenceRow(scope) => row = CounterRow
  BY <1>1 DEF HasCode
<1>5. QED BY <1>1, <1>3, <1>4 DEF Touches, CounterRow, HasCode

(* Only who has drawn a code comes to insert a receivable.                 *)
LEMMA ToInsert ==
  ASSUME WriterInv, NEW p \in Requests, StepOf(p), pc'[p] = "insertReceivable"
  PROVE  DrawReceivableCode(p)
<1>1. ProcOK(p)' /\ Frame(p) /\ ProcOK(p) /\ Shapes /\ IsRequest(work[p])
  BY AnyStep DEF StepOK, WriterInv
<1>2. work[p].kind \in {"assign", "confirm"}
  BY <1>1 DEF ProcOK, Frame, OnPath, Ended, CreateLabels, SaveLabels, YearLabels,
     TokenLabels, IsRequest, Kinds
<1>3. Statement(p)
  BY FailureStops DEF StepOf, Stops
<1>4. pc[p] \in ChargeLabels \union ImportLabels
                  \union {"assign", "findStudents", "assignNext", "confirm"}
  BY <1>1, <1>2, <1>3, LabelsRun DEF ProcOK, OnPath
<1>5. CASE ChargeStatement(p)
  <2>1. /\ pc[p] = "createIfNotExists" => local[p].then \in {"assignNext", "importNext"}
        /\ pc[p] = "insertReceivable" => local[p].then \in {"assignNext", "importNext"}
    BY <1>1, <1>2 DEF ProcOK, ThenOK, ChargeLabels
  <2>2. QED
    BY <1>1, <1>5, <2>1 DEF ChargeStatement, UpdatePlan, SavePlan, CreateIfNotExists,
       InsertReceivable, Assign, FindStudents, AssignNext, At, Proceeds, Refuses, Answers,
       Fails, Ends, Shapes
<1>6. CASE ImportStatement(p)
  BY <1>1, <1>6 DEF ImportStatement, Preview, Confirm, ImportNext, CreateStudent,
     DrawStudentCode, InsertStudent, FindEnrolment, SaveEnrolment, SaveSession,
     CommitImport, Proceeds, Refuses, Answers, Fails, Ends, InsertsStudent,
     DrawsStudentCode, ChargesOrGoesOn, Shapes
<1>7. QED BY <1>3, <1>4, <1>5, <1>6, LabelsRun

(* What another request has drawn and used. *)
LEMMA OthersCodes ==
  ASSUME CodesInv, NEW p \in Requests, Frame(p), NEW q \in Requests \ {p},
         CounterRow \in DOMAIN written[q] => committed'[CounterRow] = committed[CounterRow],
         \A row \in DOMAIN written[q] :
           row[1] = "student_receivables" /\ row \in DOMAIN committed'
             => committed'[row] = NoCharge
  PROVE  CodesOK(q)'
<1>1. /\ CodesOK(q) /\ pc'[q] = pc[q] /\ local'[q] = local[q] /\ written'[q] = written[q]
      /\ CounterRow' = CounterRow
  BY DEF CodesInv, Frame, CounterRow
<1>2. LastCharged(q)' = LastCharged(q)
  BY <1>1 DEF LastCharged
<1>3. Charged(written[q])' = Charged(written[q])
      /\ \A first, last : Numbered(written'[q], first, last) <=> Numbered(written[q], first, last)
  BY <1>1
<1>4. QED BY <1>1, <1>2, <1>3 DEF CodesOK

LEMMA QuietStep ==
  ASSUME WriterInv, CodesInv, NEW p \in Requests, StepOf(p), Stays(p),
         pc[p] \notin {"drawReceivableCode", "insertReceivable"}
  PROVE  CodesInv'
<1>1. Frame(p) /\ pc'[p] # "insertReceivable" /\ CodesOK(p)
  BY StepCases, ToInsert DEF DrawReceivableCode, At, CodesInv
<1>2. SameCodes(committed', committed) /\ SameCodes(written'[p], written[p])
  BY CodesUntouched DEF Stays, SameCodes
<1>3. /\ CounterRow \in DOMAIN committed' /\ committed'[CounterRow] = committed[CounterRow]
      /\ Numbered(committed', 1, committed[CounterRow])
  BY <1>2, SameNumbered DEF CodesInv
<1>4. /\ \A row : row[1] = "student_receivables" /\ row \in DOMAIN committed' =>
                    row \in DOMAIN committed /\ committed'[row] = committed[row]
      /\ \A row : row[1] = "student_receivables" /\ row \in DOMAIN written'[p] =>
                    row \in DOMAIN written[p] /\ written'[p][row] = written[p][row]
  BY <1>2 DEF SameCodes, HasCode
<1>5. \A q \in Requests \ {p} : CodesOK(q)'
  <2>1. \A q \in Requests : CodesOK(q)
    BY DEF CodesInv
  <2>2. QED BY <1>1, <1>3, <1>4, <2>1, OthersCodes DEF CodesOK
<1>6. CodesOK(p)'
  <2>1. /\ CounterRow \in DOMAIN written'[p] <=> CounterRow \in DOMAIN written[p]
        /\ CounterRow \in DOMAIN written[p] =>
             written'[p][CounterRow] = written[p][CounterRow]
        /\ Charged(written'[p]) = Charged(written[p])
        /\ \A first, last : Numbered(written'[p], first, last) <=>
                            Numbered(written[p], first, last)
    BY <1>2, SameNumbered
  <2>2. CounterRow \in DOMAIN written[p] => LastCharged(p)' = LastCharged(p)
    BY <1>1, <2>1 DEF LastCharged, CounterRow
  <2>3. QED BY <1>1, <1>3, <1>4, <2>1, <2>2 DEF CodesOK, CounterRow
<1>7. QED BY <1>3, <1>5, <1>6 DEF CodesInv, CounterRow

LEMMA StopKeepsCodes ==
  ASSUME WriterInv, CodesInv, NEW p \in Requests, StepOf(p), Stops(p)
  PROVE  CodesInv'
<1>1. /\ Frame(p) /\ committed' = committed /\ DOMAIN written'[p] = {}
      /\ pc'[p] # "insertReceivable" /\ CounterRow' = CounterRow
  BY StepCases, RollsBackRows, NothingIsWritten DEF Stops, WriterInv, Shapes, CounterRow
<1>2. \A q \in Requests \ {p} : CodesOK(q)'
  <2>1. \A q \in Requests : CodesOK(q)
    BY DEF CodesInv
  <2>2. QED BY <1>1, <2>1, OthersCodes DEF CodesOK
<1>3. CodesOK(p)'
  BY <1>1 DEF CodesOK, Charged
<1>4. Numbered(committed', 1, committed'[CounterRow])
  BY <1>1 DEF CodesInv
<1>5. QED BY <1>1, <1>2, <1>3, <1>4 DEF CodesInv

(* Numbers that go on where others end.                                    *)
LEMMA NumbersJoin ==
  ASSUME NEW f, NEW g, NEW middle \in Nat, NEW last \in Nat, middle <= last,
         Numbered(f, 1, middle), Numbered(g, middle + 1, last),
         NEW h, DOMAIN h = DOMAIN g \union DOMAIN f,
         \A row \in DOMAIN g : h[row] = g[row],
         \A row \in DOMAIN f \ DOMAIN g : h[row] = f[row],
         \A row \in DOMAIN g \intersect DOMAIN f :
           row[1] = "student_receivables" => f[row] = NoCharge
  PROVE  Numbered(h, 1, last)
<1>1. /\ Charged(h) = Charged(f) \union Charged(g)
      /\ Charged(f) \intersect Charged(g) = {}
      /\ \A row \in Charged(g) : h[row] = g[row]
      /\ \A row \in Charged(f) : h[row] = f[row]
  BY DEF Charged
<1>2. /\ \A row \in Charged(f) : h[row].number \in 1..middle
      /\ \A row \in Charged(g) : h[row].number \in (middle + 1)..last
  BY <1>1 DEF Numbered
<1>3. \A row \in Charged(h) : h[row].number \in 1..last
  BY <1>1, <1>2
<1>4. \A n \in 1..last : \E row \in Charged(h) : h[row].number = n
  <2> TAKE n \in 1..last
  <2>1. n \in 1..middle \/ n \in (middle + 1)..last
    OBVIOUS
  <2>2. QED BY <1>1, <2>1 DEF Numbered
<1>5. \A row, other \in Charged(h) : h[row].number = h[other].number => row = other
  <2> TAKE row, other \in Charged(h)
  <2>1. CASE row \in Charged(f) /\ other \in Charged(f)
    BY <1>1, <2>1 DEF Numbered
  <2>2. CASE row \in Charged(g) /\ other \in Charged(g)
    BY <1>1, <2>2 DEF Numbered
  <2>3. CASE row \in Charged(f) /\ other \in Charged(g)
    BY <1>2, <2>3
  <2>4. CASE row \in Charged(g) /\ other \in Charged(f)
    BY <1>2, <2>4
  <2>5. QED BY <1>1, <2>1, <2>2, <2>3, <2>4
<1>6. QED BY <1>3, <1>4, <1>5 DEF Numbered

LEMMA CommitJoinsCodes ==
  ASSUME WriterInv, CodesInv, NEW p \in Requests, StepOf(p), Commits(p),
         pc[p] \in {"commitYear", "assignNext", "commitImport"}
  PROVE  CodesInv'
<1>1. Frame(p) /\ pc'[p] # "insertReceivable" /\ CodesOK(p) /\ CounterRow' = CounterRow
  BY StepCases, ToInsert DEF DrawReceivableCode, At, CodesInv, CounterRow
<1>2. /\ DOMAIN written'[p] = {}
      /\ DOMAIN committed' = DOMAIN written[p] \union DOMAIN committed
      /\ \A row \in DOMAIN written[p] : committed'[row] = written[p][row]
      /\ \A row \in DOMAIN committed \ DOMAIN written[p] : committed'[row] = committed[row]
  BY CommitsRows, NothingIsWritten DEF WriterInv, Shapes
<1>3. CodesOK(p)'
  BY <1>1, <1>2 DEF CodesOK, Charged
<1>4. /\ CounterRow \in DOMAIN committed' /\ committed'[CounterRow] \in Nat
      /\ Numbered(committed', 1, committed'[CounterRow])
  <2>1. CASE CounterRow \in DOMAIN written[p]
    <3>1. /\ LastCharged(p) = written[p][CounterRow] /\ written[p][CounterRow] \in Nat
          /\ committed[CounterRow] \in Nat /\ committed[CounterRow] <= written[p][CounterRow]
          /\ Numbered(committed, 1, committed[CounterRow])
          /\ Numbered(written[p], committed[CounterRow] + 1, written[p][CounterRow])
      BY <1>1, <2>1 DEF LastCharged, CodesOK, CodesInv
    <3>2. committed'[CounterRow] = written[p][CounterRow] /\ CounterRow \in DOMAIN committed'
      BY <1>2, <2>1
    <3>3. \A row \in DOMAIN written[p] \intersect DOMAIN committed :
            row[1] = "student_receivables" => committed[row] = NoCharge
      BY <1>1 DEF CodesOK
    <3>4. Numbered(committed', 1, written[p][CounterRow])
      BY <1>2, <3>1, <3>3, NumbersJoin
    <3>5. QED BY <3>1, <3>2, <3>4
  <2>2. CASE CounterRow \notin DOMAIN written[p]
    <3>1. Charged(written[p]) = {}
      BY <1>1, <2>2 DEF CodesOK
    <3>2. \A row \in DOMAIN written[p] : row[1] # "student_receivables"
      BY <1>1, <3>1 DEF CodesOK, Charged
    <3>3. SameCodes(committed', committed)
      BY <1>2, <2>2, <3>2 DEF SameCodes, HasCode
    <3>4. QED BY <3>3, SameNumbered DEF CodesInv
  <2>3. QED BY <2>1, <2>2
<1>5. ASSUME NEW q \in Requests \ {p} PROVE CodesOK(q)'
  <2>1. /\ CodesOK(q) /\ DOMAIN written[p] \intersect DOMAIN written[q] = {}
        /\ CounterRow \in DOMAIN committed
    BY DEF CodesInv, WriterInv, OneWriter
  <2>2. CounterRow \in DOMAIN written[q] => committed'[CounterRow] = committed[CounterRow]
    BY <1>2, <2>1
  <2>3. \A row \in DOMAIN written[q] :
          row[1] = "student_receivables" /\ row \in DOMAIN committed'
            => committed'[row] = NoCharge
    BY <1>2, <2>1 DEF CodesOK
  <2>4. QED BY <1>1, <2>2, <2>3, OthersCodes
<1>6. QED BY <1>1, <1>3, <1>4, <1>5 DEF CodesInv

LEMMA DrawKeepsCodes ==
  ASSUME WriterInv, CodesInv, NEW p \in Requests, DrawReceivableCode(p)
  PROVE  CodesInv'
<1>1. /\ StepOf(p) /\ Frame(p) /\ CodesOK(p) /\ CounterRow' = CounterRow
      /\ pc[p] = "drawReceivableCode" /\ DOMAIN written = Requests /\ Shapes
  BY StepCases DEF StepOf, Statement, ChargeStatement, CodesInv, CounterRow,
     DrawReceivableCode, At, WriterInv, Shapes
<1>2. PICK number : number = NextNumber(p, ReceivableCounter)
  OBVIOUS
<1>3. /\ committed' = committed
      /\ DOMAIN written'[p] = {CounterRow} \union DOMAIN written[p]
      /\ written'[p][CounterRow] = number
      /\ \A row \in DOMAIN written[p] \ {CounterRow} : written'[p][row] = written[p][row]
  <2>1. Writes(p, NewVersion(CounterRow, number))
    BY <1>2 DEF DrawReceivableCode, DrawsInside, Drawn, CounterRow
  <2>2. QED BY <1>1, <2>1, OneRowWritten
<1>4. pc'[p] = "insertReceivable" /\ local'[p].code = number
  BY <1>1, <1>2, LocalsOfNone DEF DrawReceivableCode, Proceeds, Shapes
<1>5. \A q \in Requests \ {p} : CodesOK(q)'
  <2>1. \A q \in Requests : CodesOK(q)
    BY DEF CodesInv
  <2>2. QED BY <1>1, <1>3, <2>1, OthersCodes DEF CodesOK
<1>6. /\ number \in Nat /\ committed[CounterRow] <= number - 1
      /\ Numbered(written[p], committed[CounterRow] + 1, number - 1)
  <2>1. CASE CounterRow \in DOMAIN written[p]
    <3>1. number = written[p][CounterRow] + 1
      BY <1>2, <2>1 DEF NextNumber, Sees, CounterRow
    <3>2. LastCharged(p) = written[p][CounterRow] /\ written[p][CounterRow] \in Nat
      BY <1>1, <2>1 DEF LastCharged, CodesOK
    <3>3. number - 1 = LastCharged(p)
      BY <3>1, <3>2
    <3>4. QED BY <1>1, <2>1, <3>1, <3>2, <3>3 DEF CodesOK
  <2>2. CASE CounterRow \notin DOMAIN written[p]
    <3>1. number = committed[CounterRow] + 1 /\ committed[CounterRow] \in Nat
      BY <1>2, <2>2 DEF NextNumber, Sees, CounterRow, CodesInv
    <3>2. Charged(written[p]) = {} /\ number - 1 = committed[CounterRow]
      BY <1>1, <2>2, <3>1 DEF CodesOK
    <3>3. Numbered(written[p], committed[CounterRow] + 1, committed[CounterRow])
      BY <3>1, <3>2 DEF Numbered
    <3>4. QED BY <3>1, <3>2, <3>3
  <2>3. QED BY <2>1, <2>2
<1>7. /\ Charged(written'[p]) = Charged(written[p])
      /\ \A row \in Charged(written[p]) : written'[p][row] = written[p][row]
  BY <1>3, CounterTable DEF Charged
<1>8. Numbered(written'[p], committed[CounterRow] + 1, number - 1)
  BY <1>6, <1>7 DEF Numbered
<1>9. CodesOK(p)'
  <2>1. LastCharged(p)' = number - 1
    BY <1>1, <1>3, <1>4 DEF LastCharged
  <2>2. \A row \in DOMAIN written'[p] : row[1] = "student_receivables" =>
          /\ written'[p][row] # NoCharge
          /\ row \in DOMAIN committed' => committed'[row] = NoCharge
    BY <1>1, <1>3, CounterTable DEF CodesOK
  <2>3. QED BY <1>1, <1>3, <1>4, <1>6, <1>8, <2>1, <2>2 DEF CodesOK
<1>10. QED BY <1>1, <1>3, <1>5, <1>9 DEF CodesInv

LEMMA InsertKeepsCodes ==
  ASSUME WriterInv, CodesInv, NEW p \in Requests, InsertReceivable(p), ~ Stops(p)
  PROVE  CodesInv'
<1>1. /\ StepOf(p) /\ Frame(p) /\ CodesOK(p) /\ CounterRow' = CounterRow
      /\ pc[p] = "insertReceivable" /\ DOMAIN written = Requests /\ Shapes
  BY StepCases DEF StepOf, Statement, ChargeStatement, CodesInv, CounterRow,
     InsertReceivable, At, WriterInv, Shapes
<1>2. PICK row, last, charge :
        /\ row = ChargeRow(p) /\ last = written[p][CounterRow]
        /\ charge = [number |-> last, amount |-> local[p].record.amount, by |-> p]
  OBVIOUS
<1>3. /\ CounterRow \in DOMAIN written[p] /\ local[p].code = last /\ last \in Nat
      /\ committed[CounterRow] \in Nat /\ committed[CounterRow] <= last - 1
      /\ Numbered(written[p], committed[CounterRow] + 1, last - 1)
  BY <1>1, <1>2 DEF CodesOK, LastCharged, CodesInv
<1>4. /\ ~ ViolatesUniqueCharge(p)
      /\ Writes(p, NewVersion(row, charge))
      /\ \E locals : Proceeds(p, local[p].then, {}, locals)
  <2>1. ~ Fails(p, "failed")
    BY <1>1 DEF Fails, Answers, Proceeds, Stops, Shapes
  <2>2. QED BY <1>2, <1>3, <2>1 DEF InsertReceivable
<1>5. /\ committed' = committed
      /\ DOMAIN written'[p] = {row} \union DOMAIN written[p]
      /\ written'[p][row] = charge
      /\ \A r \in DOMAIN written[p] \ {row} : written'[p][r] = written[p][r]
  BY <1>1, <1>4, OneRowWritten
<1>6. row[1] = "student_receivables" /\ row # CounterRow
  BY <1>2, CounterTable DEF ChargeRow, ReceivableRow
<1>7. row \notin DOMAIN written[p] /\ (row \in DOMAIN committed => committed[row] = NoCharge)
  BY <1>1, <1>2, <1>4, <1>6 DEF ViolatesUniqueCharge, Sees, CodesOK
<1>8. charge.number = last /\ charge # NoCharge
  <2>1. charge.number = last /\ last # 0
    BY <1>2, <1>3
  <2>2. QED BY <2>1 DEF NoCharge
<1>9. /\ Charged(written'[p]) = {row} \union Charged(written[p])
      /\ row \notin Charged(written[p])
      /\ \A r \in Charged(written[p]) : written'[p][r] = written[p][r]
  BY <1>5, <1>6, <1>7, <1>8 DEF Charged
<1>10. Numbered(written'[p], committed[CounterRow] + 1, last)
  <2>1. \A r \in Charged(written[p]) :
          written'[p][r].number \in (committed[CounterRow] + 1)..(last - 1)
    BY <1>3, <1>9 DEF Numbered
  <2>2. written'[p][row].number = last
    BY <1>5, <1>8
  <2>3. \A r \in Charged(written'[p]) :
          written'[p][r].number \in (committed[CounterRow] + 1)..last
    BY <1>3, <1>9, <2>1, <2>2
  <2>4. \A n \in (committed[CounterRow] + 1)..last :
          \E r \in Charged(written'[p]) : written'[p][r].number = n
    <3> TAKE n \in (committed[CounterRow] + 1)..last
    <3>1. n = last \/ n \in (committed[CounterRow] + 1)..(last - 1)
      BY <1>3
    <3>2. QED BY <1>3, <1>9, <2>2, <3>1 DEF Numbered
  <2>5. \A r, s \in Charged(written'[p]) :
          written'[p][r].number = written'[p][s].number => r = s
    <3> TAKE r, s \in Charged(written'[p])
    <3>1. CASE r # row /\ s # row
      BY <1>3, <1>9, <3>1 DEF Numbered
    <3>2. CASE r = row \/ s = row
      BY <1>3, <1>9, <2>1, <2>2, <3>2
    <3>3. QED BY <3>1, <3>2
  <2>6. QED BY <2>3, <2>4, <2>5 DEF Numbered
<1>11. \A q \in Requests \ {p} : CodesOK(q)'
  <2>1. \A q \in Requests : CodesOK(q)
    BY DEF CodesInv
  <2>2. QED BY <1>1, <1>5, <2>1, OthersCodes DEF CodesOK
<1>12. CodesOK(p)'
  <2>1. pc'[p] # "insertReceivable"
    BY <1>1, ToInsert DEF DrawReceivableCode, At
  <2>2. LastCharged(p)' = last /\ written'[p][CounterRow] = last
    BY <1>1, <1>2, <1>3, <1>5, <1>6, <2>1 DEF LastCharged
  <2>3. \A r \in DOMAIN written'[p] : r[1] = "student_receivables" =>
          /\ written'[p][r] # NoCharge
          /\ r \in DOMAIN committed' => committed'[r] = NoCharge
    BY <1>1, <1>5, <1>7, <1>8 DEF CodesOK
  <2>4. QED BY <1>1, <1>3, <1>5, <1>10, <2>1, <2>2, <2>3 DEF CodesOK
<1>13. QED BY <1>1, <1>5, <1>11, <1>12 DEF CodesInv

LEMMA CodesInvAlways == Spec => []CodesInv
<1>1. InitRequests => CodesInv
  <2> SUFFICES ASSUME InitRequests PROVE CodesInv
    OBVIOUS
  <2>1. /\ CounterRow \in DOMAIN committed /\ committed[CounterRow] \in Nat
        /\ Numbered(committed, 1, committed[CounterRow])
    BY ReceivableRowsAssumption DEF InitRequests, CounterRow
  <2>2. \A p \in Requests : DOMAIN written[p] = {} /\ pc[p] # "insertReceivable"
    BY WorkAssumption, NothingIsWritten DEF InitRequests, IsRequest, Kinds
  <2>3. QED BY <2>1, <2>2 DEF CodesInv, CodesOK, Charged
<1>2. WriterInv /\ CodesInv /\ [Next]_requestVars => CodesInv'
  <2> SUFFICES ASSUME WriterInv, CodesInv, [Next]_requestVars PROVE CodesInv'
    OBVIOUS
  <2>1. CASE UNCHANGED <<committed, written, work, pc, wants, local, crashes>>
    BY <2>1 DEF CodesInv, CodesOK, LastCharged, CounterRow
  <2>2. ASSUME NEW p \in Requests, StepOf(p) PROVE CodesInv'
    <3>1. CASE Stops(p)
      BY <2>2, <3>1, StopKeepsCodes
    <3>2. CASE pc[p] = "drawReceivableCode" /\ ~ Stops(p)
      BY <2>2, <3>2, FailureStops, LabelsRun, ChargeStatementLabel, DrawKeepsCodes
         DEF StepOf, ChargeLabels
    <3>3. CASE pc[p] = "insertReceivable" /\ ~ Stops(p)
      BY <2>2, <3>3, FailureStops, LabelsRun, ChargeStatementLabel, InsertKeepsCodes
         DEF StepOf, ChargeLabels
    <3>4. QED
      BY <2>2, <3>1, <3>2, <3>3, StepCases, QuietStep, CommitJoinsCodes
  <2>3. QED BY <2>1, <2>2, OtherSteps
<1>3. QED BY <1>1, <1>2, WriterInvAlways, PTL DEF Spec

(* A code is drawn in the transaction that inserts its receivable, and     *)
(* rolled back with it: whatever fails and whoever charges at once, the    *)
(* receivables have the numbers from 1 to their count.                     *)
THEOREM ReceivableCodesStayGapFree == Spec => []ReceivableCodesGapFree
<1>1. CodesInv => ReceivableCodesGapFree
  <2> SUFFICES ASSUME CodesInv PROVE ReceivableCodesGapFree
    OBVIOUS
  <2>1. PICK charged, last, number :
          /\ charged = Charged(committed)
          /\ last = committed[CounterRow]
          /\ number = [row \in charged |-> committed[row].number]
    OBVIOUS
  <2>2. last \in Nat /\ number \in [charged -> 1..last]
    BY <2>1 DEF CodesInv, Numbered
  <2>3. /\ \A row, other \in charged : number[row] = number[other] => row = other
        /\ \A n \in 1..last : \E row \in charged : number[row] = n
    BY <2>1, <2>2 DEF CodesInv, Numbered
  <2>4. Cardinality(charged) = last
    BY <2>2, <2>3, CountOfNumbers
  <2>5. {committed[row].number : row \in charged} = 1..last
    <3>1. {committed[row].number : row \in charged} = {number[row] : row \in charged}
      BY <2>1
    <3>2. QED BY <2>2, <2>3, <3>1
  <2>6. QED BY <2>1, <2>4, <2>5 DEF ReceivableCodesGapFree, CounterRow
<1>2. QED BY <1>1, CodesInvAlways, PTL


-----------------------------------------------------------------------------
(* Imports write all or nothing.                                           *)

(* No student and no receivable among some rows is by p. *)
NoneBy(rows, p) ==
  \A row \in DOMAIN rows :
    /\ row[1] = "students" => ~ IsBy(rows[row].id, p)
    /\ row[1] = "student_receivables" => rows[row].by # p

NotYet(p) == work[p].kind = "confirm" /\ pc[p] # "done"

(* What a confirmation has made only its own transaction has. *)
MadeInside(p) ==
  /\ NoneBy(committed, p)
  /\ \A q \in Requests \ {p} : NoneBy(written[q], p)
  /\ \A q \in Requests : pc[q] = "saveRecord" /\ Entity(q) = "students" =>
       ~ IsBy(local[q].record.id, p)

MadeInv ==
  /\ \A p \in Requests : NotYet(p) => MadeInside(p)
  /\ \A p \in Requests :
       work[p].kind \in {"updateRecord", "deleteRecord"} /\ Entity(p) = "students" =>
         CodeRow("students", 0, work[p].code) \in DOMAIN committed

LEMMA MadeUntouched ==
  ASSUME NEW p, NEW row, row[1] \in {"students", "student_receivables"}, Touches(p, row)
  PROVE  \/ pc[p] = "insertReceivable" /\ row[1] = "student_receivables"
         \/ pc[p] = "insertStudent" /\ row[1] = "students"
         \/ /\ pc[p] \in {"insertRecord", "saveRecord", "removeRecord"}
            /\ Entity(p) = "students" /\ row[1] = "students"
<1>1. /\ LogRow(p)[1] = "notification_logs"
      /\ ZaloToken[1] = "zalo refresh token"
      /\ TokenRow[1] = "zalo_oauth_tokens"
      /\ ZaloMessage(p)[1] = "zalo message"
      /\ \A scope : SequenceRow(scope)[1] = "number_sequences"
  BY DEF SequenceRow, LogRow, ZaloToken, TokenRow, ZaloMessage
<1>2. QED BY <1>1 DEF Touches, YearTables, Entities

LEMMA InsertReceivableBy ==
  ASSUME WriterInv, NEW q \in Requests, InsertReceivable(q), ~ Stops(q)
  PROVE  /\ committed' = committed
         /\ \A row \in DOMAIN written'[q] : row[1] = "student_receivables" =>
              \/ written'[q][row].by = q
              \/ row \in DOMAIN written[q] /\ written'[q][row] = written[q][row]
         /\ \A row \in DOMAIN written'[q] : row[1] = "students" =>
              row \in DOMAIN written[q] /\ written'[q][row] = written[q][row]
<1>1. DOMAIN written = Requests /\ Shapes
  BY DEF WriterInv, Shapes
<1>2. PICK row, charge :
        /\ row = ChargeRow(q)
        /\ charge = [number |-> local[q].code, amount |-> local[q].record.amount, by |-> q]
  OBVIOUS
<1>3. Writes(q, NewVersion(row, charge))
  BY <1>1, <1>2 DEF InsertReceivable, Fails, Answers, Proceeds, Stops, Shapes
<1>4. /\ committed' = committed
      /\ DOMAIN written'[q] = {row} \union DOMAIN written[q]
      /\ written'[q][row] = charge
      /\ \A r \in DOMAIN written[q] \ {row} : written'[q][r] = written[q][r]
  BY <1>1, <1>3, OneRowWritten
<1>5. row[1] = "student_receivables" /\ charge.by = q
  BY <1>2 DEF ChargeRow, ReceivableRow
<1>6. QED BY <1>4, <1>5

LEMMA InsertStudentBy ==
  ASSUME WriterInv, NEW q \in Requests, InsertStudent(q), ~ Stops(q)
  PROVE  /\ committed' = committed
         /\ \A row \in DOMAIN written'[q] : row[1] = "students" =>
              \/ row = StudentRow(local[q].code)
                   /\ written'[q][row] = [id |-> <<q, local[q].code>>, deleted |-> FALSE]
              \/ row \in DOMAIN written[q] /\ written'[q][row] = written[q][row]
         /\ \A row \in DOMAIN written'[q] : row[1] = "student_receivables" =>
              row \in DOMAIN written[q] /\ written'[q][row] = written[q][row]
<1> DEFINE code == local[q].code
           new == [id |-> <<q, code>>, deleted |-> FALSE]
           row == NewVersion(StudentRow(code), new)
           index == [r \in NewStudentRows(q, code) \ {StudentRow(code)} |-> code]
<1>1. DOMAIN written = Requests /\ Shapes
  BY DEF WriterInv, Shapes
<1>2. Writes(q, row \uplus index)
  BY <1>1 DEF InsertStudent, WritesNewStudent, Fails, Answers, Proceeds, Stops, Shapes
<1>3. PICK versions : versions = row \uplus index
  OBVIOUS
<1>4. /\ DOMAIN row = {StudentRow(code)} /\ row[StudentRow(code)] = new
      /\ DOMAIN index = NewStudentRows(q, code) \ {StudentRow(code)}
  BY OneVersion
<1>5. \A r \in DOMAIN index : r[1] = "students.identifier_code"
  BY <1>4 DEF NewStudentRows, IdentifierRow
<1> HIDE DEF row, index, new, code
<1>6. /\ \A r \in DOMAIN versions :
           r = StudentRow(code) \/ r[1] = "students.identifier_code"
      /\ StudentRow(code) \in DOMAIN versions /\ versions[StudentRow(code)] = new
  <2>1. PICK one, rest : one = row /\ rest = index
    OBVIOUS
  <2>2. /\ DOMAIN versions = DOMAIN one \union DOMAIN rest
        /\ \A r \in DOMAIN one : versions[r] = one[r]
    BY <1>3, <2>1, Combined
  <2>3. QED BY <1>4, <1>5, <2>1, <2>2
<1>7. /\ committed' = committed
      /\ DOMAIN written'[q] = DOMAIN versions \union DOMAIN written[q]
      /\ \A r \in DOMAIN versions : written'[q][r] = versions[r]
      /\ \A r \in DOMAIN written[q] \ DOMAIN versions : written'[q][r] = written[q][r]
  BY <1>1, <1>2, <1>3, WritesRows
<1>8. StudentRow(code)[1] = "students"
  BY DEF StudentRow, CodeRow
<1>9. QED BY <1>6, <1>7, <1>8 DEF new, code


(* What is saved was committed, and a new student is by who makes it.      *)
LEMMA SavesWhatIsKnown ==
  ASSUME WriterInv, MadeInv, NEW q \in Requests, StepOf(q), pc'[q] = "saveRecord",
         Entity(q) = "students"
  PROVE  \E row \in DOMAIN committed :
           row[1] = "students" /\ local'[q].record.id = committed[row].id
<1>1. Statement(q)
  BY FailureStops DEF StepOf, Stops
<1>2. ProcOK(q)' /\ Frame(q) /\ Shapes /\ IsRequest(work[q]) /\ ProcOK(q)
  BY AnyStep DEF StepOK, WriterInv
<1>3. work[q].kind \in {"updateRecord", "deleteRecord"}
  BY <1>2 DEF ProcOK, Frame, OnPath, Ended, CreateLabels, SaveLabels, YearLabels,
     TokenLabels, ChargeLabels, ImportLabels, IsRequest, Kinds
<1>4. pc[q] \in SaveLabels \union {"updateRecord", "deleteRecord"}
  BY <1>1, <1>2, <1>3, LabelsRun DEF ProcOK, OnPath
<1>5. RecordStatement(q)
  BY <1>1, <1>4, LabelsRun DEF RecordLabels
<1>6. UpdateRecord(q) \/ DeleteRecord(q)
  BY <1>2, <1>4, <1>5
     DEF SaveLabels, RecordStatement, CreateRecord, DrawCode, LookUpStudent,
         InsertRecord, SaveRecord, RemoveRecord, At, Proceeds, Refuses, Answers, Shapes
<1>7. PICK row : row = RowOf(q, work[q].code)
  OBVIOUS
<1>8. row = CodeRow("students", 0, work[q].code) /\ row[1] = "students"
  BY <1>7 DEF RowOf, CodeRow, Scope, Entity, Yearly
<1>9. row \in DOMAIN committed
  BY <1>3, <1>8 DEF MadeInv
<1>10. Sees(q, row) = committed[row]
  BY <1>2, <1>6, NothingIsWritten DEF Sees, ProcOK, UpdateRecord, DeleteRecord, At, Inside,
     YearLabels, ChargeLabels, ImportLabels
<1>11. local'[q].record.id = Sees(q, row).id
  <2>1. ASSUME NEW code, NEW record, Saves(q, code, record)
        PROVE  local'[q].record = record
    BY <1>2, <2>1, LocalsOfNone DEF Saves, Proceeds, Shapes
  <2>2. CASE UpdateRecord(q)
    BY <1>2, <1>7, <2>1, <2>2 DEF UpdateRecord, Refuses, Answers, Proceeds, Shapes
  <2>3. CASE DeleteRecord(q)
    BY <1>2, <1>7, <2>1, <2>3 DEF DeleteRecord, Refuses, Answers, Proceeds, Shapes
  <2>4. QED BY <1>6, <2>2, <2>3
<1>12. QED BY <1>8, <1>9, <1>10, <1>11


(* A record that is created, saved or removed outside of any transaction.  *)
LEMMA RecordsBy ==
  ASSUME WriterInv, NEW q \in Requests, StepOf(q), ~ Stops(q), Entity(q) = "students",
         pc[q] \in {"insertRecord", "saveRecord", "removeRecord"}
  PROVE  /\ written' = written
         /\ \A row \in DOMAIN committed' : row[1] = "student_receivables" =>
              row \in DOMAIN committed /\ committed'[row] = committed[row]
         /\ \A row \in DOMAIN committed' : row[1] = "students" =>
              \/ row \in DOMAIN committed /\ committed'[row] = committed[row]
              \/ committed'[row] = NoRecord
              \/ pc[q] = "insertRecord" /\ committed'[row].id = <<q, local[q].code>>
              \/ pc[q] = "saveRecord" /\ committed'[row] = local[q].record
<1>1. RecordStatement(q)
  BY FailureStops, LabelsRun DEF StepOf, RecordLabels, CreateLabels, SaveLabels
<1>2. CASE OnlyReads
  BY <1>2 DEF OnlyReads
<1>3. ASSUME NEW versions, WritesAtOnce(versions),
             \A row \in DOMAIN versions :
               /\ row[1] = "students"
               /\ \/ versions[row] = NoRecord
                  \/ pc[q] = "insertRecord" /\ versions[row].id = <<q, local[q].code>>
                  \/ pc[q] = "saveRecord" /\ versions[row] = local[q].record
      PROVE  /\ written' = written
             /\ \A row \in DOMAIN committed' : row[1] = "student_receivables" =>
                  row \in DOMAIN committed /\ committed'[row] = committed[row]
             /\ \A row \in DOMAIN committed' : row[1] = "students" =>
                  \/ row \in DOMAIN committed /\ committed'[row] = committed[row]
                  \/ committed'[row] = NoRecord
                  \/ pc[q] = "insertRecord" /\ committed'[row].id = <<q, local[q].code>>
                  \/ pc[q] = "saveRecord" /\ committed'[row] = local[q].record
  <2>1. /\ written' = written
        /\ DOMAIN committed' = DOMAIN versions \union DOMAIN committed
        /\ \A row \in DOMAIN versions : committed'[row] = versions[row]
        /\ \A row \in DOMAIN committed \ DOMAIN versions : committed'[row] = committed[row]
    BY <1>3, WritesAtOnceRows
  <2>2. QED BY <1>3, <2>1
<1>4. \A code : RowOf(q, code)[1] = "students"
  BY RowsOfEntity
<1>5. CASE pc[q] = "insertRecord" /\ ~ OnlyReads
  <2>1. PICK row, version :
          /\ row = RowOf(q, local[q].code) /\ version = [id |-> <<q, local[q].code>>,
                                                        deleted |-> FALSE]
          /\ WritesAtOnce(NewVersion(row, version))
    BY <1>1, <1>5 DEF RecordStatement, CreateRecord, DrawCode, LookUpStudent, InsertRecord,
       UpdateRecord, DeleteRecord, SaveRecord, RemoveRecord, At, Refuses
  <2>2. PICK versions : versions = NewVersion(row, version)
    OBVIOUS
  <2>3. DOMAIN versions = {row} /\ versions[row] = version
    BY <2>2, OneVersion
  <2>4. row[1] = "students" /\ version.id = <<q, local[q].code>> /\ WritesAtOnce(versions)
    BY <1>4, <2>1, <2>2
  <2>5. QED BY <1>3, <1>5, <2>3, <2>4
<1>6. CASE pc[q] = "saveRecord" /\ ~ OnlyReads
  <2>1. PICK row, stored, rest :
          /\ row = RowOf(q, local[q].code)
          /\ stored = StoredIn(q, local[q].record.id)
          /\ rest = [r \in stored |-> NoRecord]
          /\ WritesAtOnce(NewVersion(row, local[q].record) \uplus rest)
    BY <1>1, <1>6 DEF RecordStatement, CreateRecord, DrawCode, LookUpStudent, InsertRecord,
       UpdateRecord, DeleteRecord, SaveRecord, RemoveRecord, At, Refuses
  <2>2. PICK one : one = NewVersion(row, local[q].record)
    OBVIOUS
  <2>3. DOMAIN one = {row} /\ one[row] = local[q].record
    BY <2>2, OneVersion
  <2>4. PICK versions : versions = one \uplus rest
    OBVIOUS
  <2>5. /\ DOMAIN versions = {row} \union stored
        /\ versions[row] = local[q].record
        /\ \A r \in stored \ {row} : versions[r] = NoRecord
    BY <2>1, <2>3, <2>4 DEF \uplus
  <2>6. row[1] = "students" /\ \A r \in stored : r[1] = "students"
    BY <1>4, <2>1, StoredRows
  <2>7. WritesAtOnce(versions)
    BY <2>1, <2>2, <2>4
  <2>8. QED BY <1>3, <1>6, <2>5, <2>6, <2>7
<1>7. CASE pc[q] = "removeRecord" /\ ~ OnlyReads
  <2>1. PICK versions : /\ versions = [row \in StoredIn(q, local[q].record.id) |-> NoRecord]
                        /\ WritesAtOnce(versions)
    BY <1>1, <1>7 DEF RecordStatement, CreateRecord, DrawCode, LookUpStudent, InsertRecord,
       UpdateRecord, DeleteRecord, SaveRecord, RemoveRecord, At, Refuses
  <2>2. \A row \in DOMAIN versions : row[1] = "students" /\ versions[row] = NoRecord
    BY <2>1, StoredRows
  <2>3. QED BY <1>3, <2>1, <2>2
<1>8. QED BY <1>2, <1>5, <1>6, <1>7

LEMMA StepLeavesNone ==
  ASSUME WriterInv, MadeInv, NEW p \in Requests, NotYet(p), NEW q \in Requests, StepOf(q),
         NotYet(p)'
  PROVE  /\ NoneBy(committed', p)
         /\ q # p => NoneBy(written'[q], p)
<1>1. Frame(q) /\ MadeInside(p) /\ DOMAIN written = Requests
  BY StepCases DEF MadeInv, WriterInv, Shapes
<1>2. CASE Stops(q)
  BY <1>1, <1>2, RollsBackRows, NothingIsWritten DEF Stops, MadeInside, NoneBy
<1>3. CASE Commits(q) /\ pc[q] \in {"commitYear", "assignNext", "commitImport"} /\ ~ Stops(q)
  <2>1. q # p
    <3> SUFFICES ASSUME q = p PROVE FALSE
      OBVIOUS
    <3>1. pc[p] = "commitImport"
      BY <1>3 DEF NotYet, WriterInv, ProcOK, OnPath, Ended, ChargeLabels, ImportLabels
    <3>2. CommitImport(p)
      BY <1>3, <3>1, FailureStops, LabelsRun, ImportStatementLabel DEF StepOf, ImportLabels
    <3>3. pc'[p] = "done"
      BY <3>2 DEF CommitImport, Ends, Answers, Proceeds, WriterInv, Shapes
    <3>4. QED BY <3>3 DEF NotYet
  <2>2. NoneBy(written[q], p)
    BY <1>1, <2>1 DEF MadeInside
  <2>3. /\ DOMAIN written'[q] = {}
        /\ DOMAIN committed' = DOMAIN written[q] \union DOMAIN committed
        /\ \A row \in DOMAIN written[q] : committed'[row] = written[q][row]
        /\ \A row \in DOMAIN committed \ DOMAIN written[q] : committed'[row] = committed[row]
    BY <1>1, <1>3, CommitsRows, NothingIsWritten
  <2>4. QED BY <1>1, <2>2, <2>3 DEF MadeInside, NoneBy
<1>4. CASE pc[q] = "insertReceivable" /\ ~ Stops(q)
  <2>1. InsertReceivable(q)
    BY <1>4, FailureStops, LabelsRun, ChargeStatementLabel DEF StepOf, ChargeLabels
  <2>2. QED BY <1>1, <1>4, <2>1, InsertReceivableBy DEF MadeInside, NoneBy
<1>5. CASE pc[q] = "insertStudent" /\ ~ Stops(q)
  <2>1. InsertStudent(q)
    BY <1>5, FailureStops, LabelsRun, ImportStatementLabel DEF StepOf, ImportLabels
  <2>2. PICK new : new = [id |-> <<q, local[q].code>>, deleted |-> FALSE]
    OBVIOUS
  <2>3. q # p => ~ IsBy(new.id, p)
    BY <2>2 DEF IsBy
  <2>4. QED BY <1>1, <1>5, <2>1, <2>2, <2>3, InsertStudentBy DEF MadeInside, NoneBy
<1>6. CASE /\ pc[q] \in {"insertRecord", "saveRecord", "removeRecord"}
           /\ Entity(q) = "students" /\ ~ Stops(q)
  <2>1. q # p
    <3>1. pc[q] \in RecordLabels
      BY <1>6 DEF RecordLabels, CreateLabels, SaveLabels
    <3>2. work[q].kind # "confirm"
      BY <1>6 DEF WriterInv, ProcOK, OnPath, Ended, CreateLabels, SaveLabels, ChargeLabels,
         ImportLabels
    <3>3. QED BY <3>2 DEF NotYet
  <2>2. ~ IsBy(NoRecord.id, p)
    BY DEF NoRecord, IsBy
  <2>3. ~ IsBy(<<q, local[q].code>>, p)
    BY <2>1 DEF IsBy
  <2>4. pc[q] = "saveRecord" => ~ IsBy(local[q].record.id, p)
    BY <1>1, <1>6 DEF MadeInside
  <2>5. QED BY <1>1, <1>6, <2>1, <2>2, <2>3, <2>4, RecordsBy DEF MadeInside, NoneBy
<1>7. CASE /\ Stays(q)
           /\ pc[q] \notin {"insertReceivable", "insertStudent"}
           /\ ~ (/\ pc[q] \in {"insertRecord", "saveRecord", "removeRecord"}
                 /\ Entity(q) = "students")
  <2>1. \A row : row[1] \in {"students", "student_receivables"} => ~ Touches(q, row)
    BY <1>7, MadeUntouched
  <2>2. /\ \A row \in DOMAIN committed' : row[1] \in {"students", "student_receivables"} =>
             row \in DOMAIN committed /\ committed'[row] = committed[row]
        /\ \A row \in DOMAIN written'[q] : row[1] \in {"students", "student_receivables"} =>
             row \in DOMAIN written[q] /\ written'[q][row] = written[q][row]
    BY <1>7, <2>1 DEF Stays
  <2>3. QED BY <1>1, <2>2 DEF MadeInside, NoneBy
<1>8. QED BY <1>2, <1>3, <1>4, <1>5, <1>6, <1>7, StepCases

LEMMA MadeInvAlways == Spec => []MadeInv
<1>1. InitRequests => MadeInv
  <2> SUFFICES ASSUME InitRequests PROVE MadeInv
    OBVIOUS
  <2>1. PICK w \in Workloads :
          /\ committed = w.rows /\ work = WorkOf(w)
          /\ written = [p \in Requests |-> NothingWritten]
          /\ pc = [p \in Requests |-> WorkOf(w)[p].kind]
    BY DEF InitRequests
  <2>2. ASSUME NEW p \in Requests PROVE MadeInside(p)
    <3>1. NoneBy(committed, p)
      BY <2>1, MadeRowsAssumption DEF NoneBy
    <3>2. \A q \in Requests : NoneBy(written[q], p)
      BY <2>1, NothingIsWritten DEF NoneBy
    <3>3. \A q \in Requests : pc[q] # "saveRecord"
      BY <2>1, WorkAssumption DEF IsRequest, Kinds
    <3>4. QED BY <3>1, <3>2, <3>3 DEF MadeInside
  <2>3. ASSUME NEW p \in Requests, Entity(p) = "students",
               work[p].kind \in {"updateRecord", "deleteRecord"}
        PROVE  CodeRow("students", 0, work[p].code) \in DOMAIN committed
    BY <2>1, <2>3, MadeRowsAssumption DEF Entity
  <2>4. QED BY <2>2, <2>3 DEF MadeInv
<1>2. WriterInv /\ MadeInv /\ [Next]_requestVars => MadeInv'
  <2> SUFFICES ASSUME WriterInv, MadeInv, [Next]_requestVars PROVE MadeInv'
    OBVIOUS
  <2>1. CASE UNCHANGED <<committed, written, work, pc, wants, local, crashes>>
    BY <2>1 DEF MadeInv, NotYet, MadeInside, Entity
  <2>2. ASSUME NEW q \in Requests, StepOf(q) PROVE MadeInv'
    <3>1. Frame(q) /\ DOMAIN committed \subseteq DOMAIN committed'
      BY <2>2, StepCases
    <3>2. ASSUME NEW p \in Requests, NotYet(p)' PROVE MadeInside(p)'
      <4>1. NotYet(p) /\ MadeInside(p)
        BY <2>2, <3>1, <3>2, EndedStays DEF NotYet, Frame, HasEnded, Ended, MadeInv
      <4>2. NoneBy(committed', p) /\ (q # p => NoneBy(written'[q], p))
        BY <2>2, <3>2, <4>1, StepLeavesNone
      <4>3. \A r \in Requests \ {p} : NoneBy(written'[r], p)
        BY <3>1, <4>1, <4>2 DEF Frame, MadeInside
      <4>4. ASSUME NEW r \in Requests, pc'[r] = "saveRecord", Entity(r)' = "students"
            PROVE  ~ IsBy(local'[r].record.id, p)
        <5>1. Entity(r) = "students"
          BY <3>1, <4>4 DEF Frame, Entity
        <5>2. CASE r = q
          BY <2>2, <4>1, <4>4, <5>1, <5>2, SavesWhatIsKnown DEF MadeInside, NoneBy
        <5>3. CASE r # q
          BY <3>1, <4>1, <4>4, <5>1, <5>3 DEF Frame, MadeInside
        <5>4. QED BY <5>2, <5>3
      <4>5. QED BY <4>2, <4>3, <4>4 DEF MadeInside
    <3>3. ASSUME NEW p \in Requests, Entity(p)' = "students",
                 work'[p].kind \in {"updateRecord", "deleteRecord"}
          PROVE  CodeRow("students", 0, work'[p].code) \in DOMAIN committed'
      BY <3>1, <3>3 DEF Frame, Entity, MadeInv
    <3>4. QED BY <3>2, <3>3 DEF MadeInv
  <2>3. QED BY <2>1, <2>2, OtherSteps
<1>3. QED BY <1>1, <1>2, WriterInvAlways, PTL DEF Spec

(* A confirmation that has not been answered with success, because it was  *)
(* refused, failed, fell victim to a deadlock, was cut off or is under way, *)
(* has left nothing, whoever else writes students at that time.            *)
THEOREM ImportsAllOrNothingAlways == Spec => []ImportsAreAllOrNothing
<1>1. MadeInv => ImportsAreAllOrNothing
  <2> SUFFICES ASSUME MadeInv, NEW p \in Requests, NotYet(p)
               PROVE  StudentsBy(p) = {} /\ ChargesBy(p) = {}
    BY DEF ImportsAreAllOrNothing, NotYet
  <2>1. NoneBy(committed, p)
    BY DEF MadeInv, MadeInside
  <2>2. QED BY <2>1 DEF NoneBy, StudentsBy, ChargesBy, Charged
<1>2. QED BY <1>1, MadeInvAlways, PTL



-----------------------------------------------------------------------------
(* Assignments charge a student once.                                      *)

Terms(pl) == committed[PlanRow(pl)]

(* The slots a plan is charged in. *)
SlotsIn(plan) == IF plan.billing = "ONE_TIME" THEN {plan.semester} ELSE Semesters
SlotSet(pl) == SlotsIn(Terms(pl))

FirstHalfRow(s, pl)  == ReceivableRow(s, pl, "HK1")
SecondHalfRow(s, pl) == ReceivableRow(s, pl, "HK2")

Assigns(p, pl) == p \in Requests /\ work[p].kind = "assign" /\ work[p].plan = pl

(* A committed receivable by an assignment, and one by something else. *)
ByAssignment(row) ==
  /\ row \in Charged(committed)
  /\ committed[row].by \in Requests /\ work[committed[row].by].kind = "assign"
NotAssigned(row) == row \in Charged(committed) /\ ~ ByAssignment(row)

AssignLabels == ChargeLabels \union {"assignNext"}

(* Charges still to be made: of the plan, in its slots; the second half of *)
(* a student right after the first.                                        *)
Planned(todo, pl, slots) ==
  /\ \E S : todo \in Seq(S)
  /\ \A n \in 1..Len(todo) : todo[n].plan = pl /\ todo[n].slot \in slots

Precedes(c, d) == c.slot = "HK1" /\ d.slot = "HK2" /\ c.student = d.student

Paired(todo) ==
  \A n \in 1..Len(todo) :
    /\ todo[n].slot = "HK1" => n < Len(todo) /\ Precedes(todo[n], todo[n + 1])
    /\ todo[n].slot = "HK2" /\ n > 1 => Precedes(todo[n - 1], todo[n])

(* A charge that is being made, and what is to come after it. *)
Follows(todo, c) ==
  /\ c.slot = "HK1" => todo # <<>> /\ Precedes(c, todo[1])
  /\ c.slot = "HK2" /\ todo # <<>> => todo[1].slot = "HK1"

TodoOK(p, pl) ==
  pc[p] \in AssignLabels =>
    /\ Planned(local[p].todo, pl, SlotSet(pl))
    /\ pc[p] \in ChargeLabels =>
         local[p].record.plan = pl /\ local[p].record.slot \in SlotSet(pl)
    /\ Terms(pl).billing # "ONE_TIME" =>
         /\ Paired(local[p].todo)
         /\ pc[p] \in ChargeLabels => Follows(local[p].todo, local[p].record)

IsSecond(c, s) == c.slot = "HK2" /\ c.student = s

(* p is to charge s for the second half next. *)
SecondInTurn(p, s) ==
  \/ pc[p] \in ChargeLabels /\ IsSecond(local[p].record, s)
  \/ pc[p] = "assignNext" /\ local[p].todo # <<>> /\ IsSecond(local[p].todo[1], s)

HalvesOK(p, pl, s) ==
  LET first  == FirstHalfRow(s, pl)
      second == SecondHalfRow(s, pl)
  IN  /\ first \in DOMAIN written[p] =>
           second \in DOMAIN written[p] \/ NotAssigned(second) \/ SecondInTurn(p, s)
      /\ second \in DOMAIN written[p] =>
           first \in DOMAIN written[p] \/ NotAssigned(first)
      /\ SecondInTurn(p, s) =>
           first \in DOMAIN written[p] \/ NotAssigned(first) \/ second \in Charged(committed)

(* What is committed of one half has the other half with it.               *)
Together(row, other) ==
  ByAssignment(row) =>
    /\ other \in Charged(committed)
    /\ ByAssignment(other) => committed[other].by = committed[row].by

TermsOK(pl) ==
  /\ PlanRow(pl) \in DOMAIN committed
  /\ {"billing", "semester"} \subseteq DOMAIN Terms(pl)
  /\ \A s \in Students, slot \in Slots : ReceivableRow(s, pl, slot) \in DOMAIN committed

SameTerms(plan, other) == plan.billing = other.billing /\ plan.semester = other.semester

ReadsTerms(p, pl) ==
  /\ work[p].kind = "updatePlan" /\ work[p].plan = pl /\ pc[p] = "savePlan" =>
       /\ {"billing", "semester"} \subseteq DOMAIN local[p].record
       /\ SameTerms(local[p].record, Terms(pl))
  /\ Assigns(p, pl) /\ pc[p] = "findStudents" => SameTerms(local[p].plan, Terms(pl))

BySelf(p) ==
  \A row \in DOMAIN written[p] : row[1] = "student_receivables" => written[p][row].by = p

InSlots(p, pl) ==
  \A s \in Students, slot \in Slots :
    work[p].kind = "assign" /\ ReceivableRow(s, pl, slot) \in DOMAIN written[p]
      => work[p].plan = pl /\ slot \in SlotSet(pl)

ChargesOK(pl) ==
  /\ TermsOK(pl)
  /\ \A p \in Requests : ReadsTerms(p, pl) /\ InSlots(p, pl)
  /\ \A p \in Requests : Assigns(p, pl) => TodoOK(p, pl)
  /\ \A s \in Students, slot \in Slots :
       ByAssignment(ReceivableRow(s, pl, slot)) => slot \in SlotSet(pl)
  /\ Terms(pl).billing # "ONE_TIME" => \A s \in Students :
       /\ Together(FirstHalfRow(s, pl), SecondHalfRow(s, pl))
       /\ Together(SecondHalfRow(s, pl), FirstHalfRow(s, pl))
       /\ \A p \in Requests : Assigns(p, pl) => HalvesOK(p, pl, s)

AsksForSome(p) ==
  work[p].kind = "assign" /\ work[p].target = "STUDENT" => IsFiniteSet(work[p].students)

(* What an assignment charges is its own plan. *)
OwnPlan(p) ==
  work[p].kind = "assign" /\ pc[p] \in AssignLabels =>
    /\ \E slots : Planned(local[p].todo, work[p].plan, slots)
    /\ pc[p] \in ChargeLabels => local[p].record.plan = work[p].plan

ChargesInv ==
  /\ \A p \in Requests : BySelf(p) /\ AsksForSome(p) /\ OwnPlan(p)
  /\ \A pl \in Plans : KeepsBilling(pl) => ChargesOK(pl)

LEMMA ListOf ==
  ASSUME NEW k \in Nat, NEW S, NEW f \in [1..k -> S]
  PROVE  f \in Seq(S) /\ Len(f) = k
OBVIOUS

LEMMA RestIsPlanned ==
  ASSUME NEW todo, NEW pl, NEW slots, Planned(todo, pl, slots), todo # <<>>
  PROVE  /\ Planned(Tail(todo), pl, slots)
         /\ Head(todo) = todo[1] /\ todo[1].plan = pl /\ todo[1].slot \in slots
         /\ Paired(todo) /\ slots = Semesters =>
              Paired(Tail(todo)) /\ Follows(Tail(todo), todo[1])
<1>1. PICK S : todo \in Seq(S)
  BY DEF Planned
<1>2. /\ Len(todo) \in Nat /\ Len(todo) >= 1 /\ Head(todo) = todo[1]
      /\ Tail(todo) \in Seq(S) /\ Len(Tail(todo)) = Len(todo) - 1
      /\ \A n \in 1..(Len(todo) - 1) : Tail(todo)[n] = todo[n + 1]
  BY <1>1
<1>3. PICK rest, k : rest = Tail(todo) /\ k = Len(todo)
  OBVIOUS
<1>4. /\ k \in Nat /\ k >= 1 /\ rest \in Seq(S) /\ Len(rest) = k - 1
      /\ \A n \in 1..(k - 1) : rest[n] = todo[n + 1]
  BY <1>2, <1>3
<1>5. todo[1].plan = pl /\ todo[1].slot \in slots /\ Planned(rest, pl, slots)
  <2>1. \A n \in 1..k : todo[n].plan = pl /\ todo[n].slot \in slots
    BY <1>3 DEF Planned
  <2>2. \A n \in 1..(k - 1) : n + 1 \in 1..k
    BY <1>4
  <2>3. \A n \in 1..Len(rest) : rest[n].plan = pl /\ rest[n].slot \in slots
    BY <1>4, <2>1, <2>2
  <2>4. QED BY <1>4, <2>1, <2>3 DEF Planned
<1>6. ASSUME Paired(todo), slots = Semesters
      PROVE  Paired(rest) /\ Follows(rest, todo[1])
  <2>1. \A n \in 1..k :
          /\ todo[n].slot = "HK1" => n < k /\ Precedes(todo[n], todo[n + 1])
          /\ todo[n].slot = "HK2" /\ n > 1 => Precedes(todo[n - 1], todo[n])
    BY <1>3, <1>6 DEF Paired
  <2>2. ASSUME NEW n \in 1..(k - 1)
        PROVE  /\ rest[n].slot = "HK1" => n < k - 1 /\ Precedes(rest[n], rest[n + 1])
               /\ rest[n].slot = "HK2" /\ n > 1 => Precedes(rest[n - 1], rest[n])
    <3>1. n + 1 \in 1..k /\ (n + 1) - 1 = n /\ rest[n] = todo[n + 1]
      BY <1>4
    <3>2. n < k - 1 => rest[n + 1] = todo[(n + 1) + 1]
      BY <1>4
    <3>3. n > 1 => rest[n - 1] = todo[n]
      BY <1>4
    <3>4. /\ todo[n + 1].slot = "HK1" =>
               n + 1 < k /\ Precedes(todo[n + 1], todo[(n + 1) + 1])
          /\ todo[n + 1].slot = "HK2" => Precedes(todo[n], todo[n + 1])
      BY <2>1, <3>1
    <3>5. QED BY <1>4, <3>1, <3>2, <3>3, <3>4
  <2>3. Paired(rest)
    BY <1>4, <2>2 DEF Paired
  <2>4. ASSUME todo[1].slot = "HK1" PROVE rest # <<>> /\ Precedes(todo[1], rest[1])
    <3>1. 1 < k /\ Precedes(todo[1], todo[1 + 1])
      BY <1>4, <2>1, <2>4
    <3>2. QED BY <1>4, <3>1
  <2>5. ASSUME todo[1].slot = "HK2", rest # <<>> PROVE rest[1].slot = "HK1"
    <3>1. k >= 2 /\ rest[1] = todo[2]
      BY <1>4, <2>5
    <3>2. todo[2].slot \in {"HK1", "HK2"}
      BY <1>3, <1>6, <3>1 DEF Planned, Semesters
    <3>3. todo[2].slot = "HK2" => Precedes(todo[2 - 1], todo[2])
      BY <2>1, <3>1
    <3>4. QED BY <2>5, <3>1, <3>2, <3>3 DEF Precedes
  <2>6. QED BY <2>3, <2>4, <2>5 DEF Follows
<1>7. QED BY <1>2, <1>3, <1>5, <1>6

LEMMA Halving ==
  ASSUME NEW k \in Nat, NEW n \in 1..(k * 2)
  PROVE  /\ (n - 1) % 2 \in {0, 1}
         /\ (n - 1) \div 2 \in 0..(k - 1)
         /\ (n - 1) % 2 = 0 => n < k * 2 /\ n % 2 = 1 /\ n \div 2 = (n - 1) \div 2
         /\ (n - 1) % 2 = 1 => n > 1 /\ (n - 2) % 2 = 0 /\ (n - 2) \div 2 = (n - 1) \div 2
OBVIOUS

(* What a plan charges its students is in its slots, half after half.      *)
LEMMA AllIsPlanned ==
  ASSUME NEW k \in Nat, NEW S, NEW students \in [1..k -> S], NEW pl, NEW plan,
         NEW todo, todo = ChargesFor(students, pl, SlotsOf(plan))
  PROVE  /\ Planned(todo, pl, SlotsIn(plan))
         /\ plan.billing # "ONE_TIME" => Paired(todo)
         /\ plan.billing # "ONE_TIME" /\ todo # <<>> => todo[1].slot = "HK1"
<1>1. Len(students) = k
  BY ListOf
<1>2. CASE plan.billing = "ONE_TIME"
  <2>1. PICK amount : SlotsOf(plan) = <<<<plan.semester, amount>>>>
    BY <1>2 DEF SlotsOf
  <2>2. PICK list : list = <<<<plan.semester, amount>>>>
    OBVIOUS
  <2>3. Len(list) = 1 /\ list[1][1] = plan.semester
    BY <2>2
  <2>4. todo = [n \in 1..(k * 1) |->
                  LET slot == list[1 + ((n - 1) % 1)]
                  IN  Charge(students[1 + (n - 1) \div 1], pl, slot[1], slot[2])]
    BY <1>1, <2>1, <2>2, <2>3 DEF ChargesFor
  <2>5. \A n \in 1..k : todo[n].plan = pl /\ todo[n].slot = plan.semester
    <3> TAKE n \in 1..k
    <3>1. 1 + ((n - 1) % 1) = 1 /\ n \in 1..(k * 1)
      OBVIOUS
    <3>2. \E s, a : todo[n] = Charge(s, pl, list[1][1], a)
      BY <2>4, <3>1
    <3>3. QED BY <2>3, <3>2 DEF Charge
  <2>6. PICK T : T = {todo[n] : n \in 1..k}
    OBVIOUS
  <2>7. todo \in [1..k -> T]
    BY <2>4, <2>6
  <2>8. todo \in Seq(T) /\ Len(todo) = k
    BY <2>7, ListOf
  <2>9. QED BY <1>2, <2>5, <2>8 DEF Planned, SlotsIn
<1>3. CASE plan.billing # "ONE_TIME"
  <2>1. PICK half : SlotsOf(plan) = <<<<"HK1", half>>, <<"HK2", half>>>>
    BY <1>3 DEF SlotsOf
  <2>2. PICK list : list = <<<<"HK1", half>>, <<"HK2", half>>>>
    OBVIOUS
  <2>3. Len(list) = 2 /\ list[1][1] = "HK1" /\ list[2][1] = "HK2"
    BY <2>2
  <2>4. todo = [n \in 1..(k * 2) |->
                  LET slot == list[1 + ((n - 1) % 2)]
                  IN  Charge(students[1 + (n - 1) \div 2], pl, slot[1], slot[2])]
    BY <1>1, <2>1, <2>2, <2>3 DEF ChargesFor
  <2>5. \A n \in 1..(k * 2) :
          /\ todo[n].plan = pl
          /\ todo[n].student = students[1 + (n - 1) \div 2]
          /\ todo[n].slot = IF (n - 1) % 2 = 0 THEN "HK1" ELSE "HK2"
    <3> TAKE n \in 1..(k * 2)
    <3>1. (n - 1) % 2 \in {0, 1}
      BY Halving
    <3>2. todo[n] = Charge(students[1 + (n - 1) \div 2], pl, list[1 + ((n - 1) % 2)][1],
                           list[1 + ((n - 1) % 2)][2])
      BY <2>4
    <3>3. list[1 + ((n - 1) % 2)][1] = IF (n - 1) % 2 = 0 THEN "HK1" ELSE "HK2"
      <4>1. CASE (n - 1) % 2 = 0
        BY <2>3, <4>1
      <4>2. CASE (n - 1) % 2 = 1
        BY <2>3, <4>2
      <4>3. QED BY <3>1, <4>1, <4>2
    <3>4. QED BY <3>2, <3>3 DEF Charge
  <2>6. PICK T : T = {todo[n] : n \in 1..(k * 2)}
    OBVIOUS
  <2>7. todo \in [1..(k * 2) -> T]
    BY <2>4, <2>6
  <2>8. todo \in Seq(T) /\ Len(todo) = k * 2
    BY <2>7, ListOf
  <2>9. Planned(todo, pl, SlotsIn(plan))
    <3>1. \A n \in 1..(k * 2) : todo[n].plan = pl /\ todo[n].slot \in Semesters
      BY <2>5 DEF Semesters
    <3>2. QED BY <1>3, <2>8, <3>1 DEF Planned, SlotsIn
  <2>10. ASSUME NEW n \in 1..(k * 2)
         PROVE  /\ todo[n].slot = "HK1" => n < k * 2 /\ Precedes(todo[n], todo[n + 1])
                /\ todo[n].slot = "HK2" /\ n > 1 => Precedes(todo[n - 1], todo[n])
    <3>1. /\ (n - 1) % 2 \in {0, 1}
          /\ (n - 1) % 2 = 0 => n < k * 2 /\ n % 2 = 1 /\ n \div 2 = (n - 1) \div 2
          /\ (n - 1) % 2 = 1 => n > 1 /\ (n - 2) % 2 = 0
                                  /\ (n - 2) \div 2 = (n - 1) \div 2
      BY Halving
    <3>2. ASSUME todo[n].slot = "HK1" PROVE n < k * 2 /\ Precedes(todo[n], todo[n + 1])
      <4>1. (n - 1) % 2 = 0
        BY <2>5, <3>2
      <4>2. n + 1 \in 1..(k * 2) /\ (n + 1) - 1 = n
        BY <3>1, <4>1
      <4>3. todo[n + 1].student = students[1 + n \div 2] /\ todo[n + 1].slot = "HK2"
        <5>1. PICK m : m = n + 1
          OBVIOUS
        <5>2. m \in 1..(k * 2) /\ m - 1 = n /\ (m - 1) % 2 = 1
          BY <3>1, <4>1, <4>2, <5>1
        <5>3. /\ todo[m].student = students[1 + (m - 1) \div 2]
              /\ todo[m].slot = IF (m - 1) % 2 = 0 THEN "HK1" ELSE "HK2"
          BY <2>5, <5>2
        <5>4. (m - 1) \div 2 = n \div 2 /\ (m - 1) % 2 # 0
          <6>1. m - 1 = n /\ (m - 1) % 2 = 1
            BY <5>2
          <6>2. (m - 1) \div 2 = n \div 2
            BY <6>1, Zenon
          <6>3. QED BY <6>1, <6>2
        <5>5. todo[m].student = students[1 + n \div 2] /\ todo[m].slot = "HK2"
          BY <5>3, <5>4, Zenon
        <5>6. QED BY <5>1, <5>5, Zenon
      <4>4. QED BY <2>5, <3>1, <3>2, <4>1, <4>3 DEF Precedes
    <3>3. ASSUME todo[n].slot = "HK2", n > 1 PROVE Precedes(todo[n - 1], todo[n])
      <4>1. (n - 1) % 2 = 1
        BY <2>5, <3>1, <3>3
      <4>2. n - 1 \in 1..(k * 2) /\ (n - 1) - 1 = n - 2
        BY <3>3
      <4>3. /\ todo[n - 1].student = students[1 + (n - 2) \div 2]
            /\ todo[n - 1].slot = "HK1"
        <5>1. PICK m : m = n - 1
          OBVIOUS
        <5>2. m \in 1..(k * 2) /\ m - 1 = n - 2 /\ (m - 1) % 2 = 0
          BY <3>1, <4>1, <4>2, <5>1
        <5>3. /\ todo[m].student = students[1 + (m - 1) \div 2]
              /\ todo[m].slot = IF (m - 1) % 2 = 0 THEN "HK1" ELSE "HK2"
          BY <2>5, <5>2
        <5>4. (m - 1) \div 2 = (n - 2) \div 2 /\ (m - 1) % 2 = 0
          <6>1. m - 1 = n - 2 /\ (m - 1) % 2 = 0
            BY <5>2
          <6>2. (m - 1) \div 2 = (n - 2) \div 2
            BY <6>1, Zenon
          <6>3. QED BY <6>1, <6>2
        <5>5. todo[m].student = students[1 + (n - 2) \div 2] /\ todo[m].slot = "HK1"
          BY <5>3, <5>4, Zenon
        <5>6. QED BY <5>1, <5>5, Zenon
      <4>4. QED BY <2>5, <3>1, <3>3, <4>1, <4>3 DEF Precedes
    <3>4. QED BY <3>2, <3>3
  <2>11. Paired(todo)
    BY <2>8, <2>10 DEF Paired
  <2>12. todo # <<>> => todo[1].slot = "HK1"
    <3> SUFFICES ASSUME todo # <<>> PROVE todo[1].slot = "HK1"
      OBVIOUS
    <3>1. 1 \in 1..(k * 2) /\ (1 - 1) % 2 = 0
      BY <2>8
    <3>2. QED BY <2>5, <3>1
  <2>13. QED BY <2>9, <2>11, <2>12
<1>4. QED BY <1>2, <1>3

LEMMA PlanTouched ==
  ASSUME NEW p, NEW pl, Touches(p, PlanRow(pl))
  PROVE  pc[p] = "savePlan"
<1>1. /\ PlanRow(pl)[1] = "fee_plans (terms)"
      /\ LogRow(p)[1] = "notification_logs"
      /\ ZaloToken[1] = "zalo refresh token"
      /\ TokenRow[1] = "zalo_oauth_tokens"
      /\ ZaloMessage(p)[1] = "zalo message"
      /\ \A scope : SequenceRow(scope)[1] = "number_sequences"
  BY DEF PlanRow, SequenceRow, LogRow, ZaloToken, TokenRow, ZaloMessage
<1>2. QED BY <1>1 DEF Touches, YearTables, Entities

LEMMA ChargeTouched ==
  ASSUME NEW p, NEW row, row[1] = "student_receivables", Touches(p, row)
  PROVE  pc[p] = "insertReceivable"
BY MadeUntouched

LEMMA ChargeRows ==
  /\ \A s, pl, slot : ReceivableRow(s, pl, slot)[1] = "student_receivables"
  /\ \A s, pl, slot, s2, pl2, slot2 :
       ReceivableRow(s, pl, slot) = ReceivableRow(s2, pl2, slot2)
         => s = s2 /\ pl = pl2 /\ slot = slot2
  /\ \A pl, pl2 : PlanRow(pl) = PlanRow(pl2) => pl = pl2
  /\ \A pl : PlanRow(pl)[1] = "fee_plans (terms)"
BY DEF ReceivableRow, PlanRow

(* A transaction of more than one statement leaves the plans alone.        *)
LEMMA PlanNotHeld ==
  ASSUME WriterInv, NEW p \in Requests, NEW pl
  PROVE  PlanRow(pl) \notin DOMAIN written[p]
<1>1. HeldOK(p)
  BY DEF WriterInv, ProcOK
<1>2. \A scope : SequenceRow(scope)[1] = "number_sequences"
  BY DEF SequenceRow
<1>3. QED BY <1>1, <1>2, ChargeRows DEF HeldOK, YearTables, ImportTables

(* What a request that assigns or changes a plan runs next.                *)
LEMMA AssignmentStatement ==
  ASSUME WriterInv, NEW p \in Requests, StepOf(p), ~ Stops(p), work[p].kind = "assign"
  PROVE  \/ Assign(p) \/ FindStudents(p) \/ AssignNext(p)
         \/ CreateIfNotExists(p) \/ DrawReceivableCode(p) \/ InsertReceivable(p)
<1>1. ProcOK(p) /\ Statement(p) /\ pc[p] \notin Ended
  BY FailureStops, LabelsRun DEF StepOf, WriterInv
<1>2. pc[p] \in ChargeLabels \union {"assign", "findStudents", "assignNext"}
  BY <1>1 DEF ProcOK, OnPath
<1>3. ChargeStatement(p)
  BY <1>1, <1>2, LabelsRun
<1>4. QED
  BY <1>2, <1>3 DEF ChargeStatement, ChargeLabels, UpdatePlan, SavePlan, At

LEMMA ChangeStatement ==
  ASSUME WriterInv, NEW p \in Requests, StepOf(p), ~ Stops(p), work[p].kind = "updatePlan"
  PROVE  UpdatePlan(p) \/ SavePlan(p)
<1>1. ProcOK(p) /\ Statement(p) /\ pc[p] \notin Ended
  BY FailureStops, LabelsRun DEF StepOf, WriterInv
<1>2. pc[p] \in {"updatePlan", "savePlan"}
  BY <1>1 DEF ProcOK, OnPath
<1>3. ChargeStatement(p)
  BY <1>1, <1>2, LabelsRun
<1>4. QED
  BY <1>2, <1>3 DEF ChargeStatement, CreateIfNotExists, DrawReceivableCode,
     InsertReceivable, Assign, FindStudents, AssignNext, At

(* Who changes a plan changes neither its way of billing nor its semester. *)
LEMMA TermsStay ==
  ASSUME WriterInv, NEW p \in Requests, StepOf(p), NEW pl \in Plans, ChargesOK(pl)
  PROVE  TermsOK(pl)' /\ SameTerms(Terms(pl)', Terms(pl)) /\ SlotSet(pl)' = SlotSet(pl)
<1>1. /\ DOMAIN committed \subseteq DOMAIN committed' /\ TermsOK(pl)
      /\ DOMAIN written = Requests
  BY StepCases DEF ChargesOK, WriterInv, Shapes
<1>2. /\ {"billing", "semester"} \subseteq DOMAIN Terms(pl)'
      /\ SameTerms(Terms(pl)', Terms(pl))
  <2>1. CASE Terms(pl)' = Terms(pl)
    BY <1>1, <2>1 DEF TermsOK, SameTerms
  <2>2. CASE Stops(p)
    BY <2>1, <2>2 DEF Stops, RollsBack, Terms, PlanRow
  <2>3. CASE Commits(p)
    <3>1. committed'[PlanRow(pl)] = committed[PlanRow(pl)]
      BY <1>1, <2>3, CommitsRows, PlanNotHeld DEF TermsOK
    <3>2. QED BY <2>1, <3>1 DEF Terms, PlanRow
  <2>4. CASE Stays(p) /\ ~ Touches(p, PlanRow(pl))
    <3>1. committed'[PlanRow(pl)] = committed[PlanRow(pl)]
      BY <1>1, <2>4 DEF Stays, TermsOK
    <3>2. QED BY <2>1, <3>1 DEF Terms, PlanRow
  <2>5. CASE Touches(p, PlanRow(pl)) /\ ~ Stops(p)
    <3>1. Statement(p) /\ pc[p] = "savePlan"
      BY <2>5, PlanTouched, FailureStops DEF StepOf
    <3>2. SavePlan(p)
      BY <3>1, LabelsRun, ChargeStatementLabel
         DEF ChargeStatement, UpdatePlan, CreateIfNotExists, DrawReceivableCode,
             InsertReceivable, Assign, FindStudents, AssignNext, At
    <3>3. PICK plan, row : plan = local[p].record /\ row = PlanRow(work[p].plan)
      OBVIOUS
    <3>4. WritesAtOnce(NewVersion(row, plan))
      BY <3>2, <3>3 DEF SavePlan
    <3>5. /\ committed'[row] = plan
          /\ \A r \in DOMAIN committed \ {row} : committed'[r] = committed[r]
      BY <3>4, OneRowAtOnce
    <3>6. CASE work[p].plan = pl
      <4>1. work[p].kind = "updatePlan"
        BY <3>1 DEF WriterInv, ProcOK, OnPath, Ended, CreateLabels, SaveLabels, YearLabels,
           TokenLabels, ChargeLabels, ImportLabels, IsRequest, Kinds
      <4>2. ReadsTerms(p, pl)
        BY DEF ChargesOK
      <4>3. Terms(pl)' = plan
        BY <3>3, <3>5, <3>6 DEF Terms, PlanRow
      <4>4. QED BY <3>1, <3>3, <3>6, <4>1, <4>2, <4>3 DEF ReadsTerms
    <3>7. CASE work[p].plan # pl
      <4>1. PlanRow(pl) # row /\ PlanRow(pl) \in DOMAIN committed
        BY <1>1, <3>3, <3>7, ChargeRows DEF TermsOK
      <4>2. Terms(pl)' = Terms(pl)
        BY <3>5, <4>1 DEF Terms, PlanRow
      <4>3. QED BY <2>1, <4>2
    <3>8. QED BY <3>6, <3>7
  <2>6. QED BY <2>2, <2>3, <2>4, <2>5, StepCases
<1>3. /\ PlanRow(pl) \in DOMAIN committed'
      /\ \A s \in Students, slot \in Slots : ReceivableRow(s, pl, slot) \in DOMAIN committed'
  BY <1>1 DEF TermsOK
<1>4. TermsOK(pl)'
  BY <1>2, <1>3 DEF TermsOK, PlanRow, ReceivableRow
<1>5. SlotSet(pl)' = SlotSet(pl)
  BY <1>2 DEF SlotSet, SlotsIn, SameTerms
<1>6. QED BY <1>2, <1>4, <1>5

LEMMA ReadsTermsStay ==
  ASSUME WriterInv, NEW p \in Requests, StepOf(p), NEW pl \in Plans, KeepsBilling(pl),
         ChargesOK(pl), NEW q \in Requests
  PROVE  ReadsTerms(q, pl)'
<1>1. /\ Frame(p) /\ ReadsTerms(q, pl) /\ SameTerms(Terms(pl)', Terms(pl)) /\ Shapes
      /\ TermsOK(pl)
  BY StepCases, TermsStay DEF ChargesOK, WriterInv
<1>2. CASE q # p
  <2>1. /\ pc'[q] = pc[q] /\ local'[q] = local[q] /\ work' = work
    BY <1>1, <1>2 DEF Frame
  <2>2. QED BY <1>1, <2>1 DEF ReadsTerms, SameTerms, Assigns
<1>3. CASE q = p /\ Stops(p)
  BY <1>3 DEF Stops, ReadsTerms
<1>4. CASE q = p /\ ~ Stops(p)
  <2>1. ASSUME work[p].kind = "updatePlan", work[p].plan = pl, pc'[p] = "savePlan"
        PROVE  /\ {"billing", "semester"} \subseteq DOMAIN local'[p].record
               /\ SameTerms(local'[p].record, Terms(pl)')
    <3>1. UpdatePlan(p)
      BY <1>1, <1>4, <2>1, ChangeStatement DEF SavePlan, Answers, Proceeds, Shapes
    <3>2. PICK plan, changes, record :
            /\ plan = Terms(pl) /\ changes = work[p].changes /\ record = changes \uplus plan
      OBVIOUS
    <3>3. Sees(p, PlanRow(work[p].plan)) = plan
      BY <2>1, <3>2, PlanNotHeld DEF Sees, Terms
    <3>4. local'[p].record = record
      BY <1>1, <3>1, <3>2, <3>3, LocalsOfNone DEF UpdatePlan, Proceeds, Shapes
    <3>5. {"billing", "semester"} \intersect DOMAIN changes = {}
      BY <2>1, <3>2 DEF KeepsBilling
    <3>6. /\ DOMAIN record = DOMAIN changes \union DOMAIN plan
          /\ \A column \in DOMAIN plan \ DOMAIN changes : record[column] = plan[column]
      BY <3>2 DEF \uplus
    <3>7. {"billing", "semester"} \subseteq DOMAIN plan
      BY <1>1, <3>2 DEF TermsOK
    <3>8. record["billing"] = plan["billing"] /\ record["semester"] = plan["semester"]
      BY <3>5, <3>6, <3>7
    <3>9. SameTerms(record, plan)
      BY <3>8 DEF SameTerms
    <3>10. QED BY <1>1, <3>2, <3>4, <3>6, <3>7, <3>9 DEF SameTerms
  <2>2. ASSUME Assigns(p, pl), pc'[p] = "findStudents"
        PROVE  SameTerms(local'[p].plan, Terms(pl)')
    <3>1. pc[p] \in ChargeLabels => local[p].then = "assignNext"
      BY <2>2 DEF WriterInv, ProcOK, ThenOK, Assigns
    <3>2. Assign(p)
      BY <1>1, <1>4, <2>2, <3>1, AssignmentStatement
         DEF FindStudents, AssignNext, CreateIfNotExists, DrawReceivableCode,
             InsertReceivable, ChargeLabels, At, Ends, Fails, Answers, Proceeds, Shapes,
             Assigns
    <3>3. PICK plan : plan = Terms(pl)
      OBVIOUS
    <3>4. Sees(p, PlanRow(work[p].plan)) = plan
      BY <2>2, <3>3, PlanNotHeld DEF Sees, Terms, Assigns
    <3>5. local'[p].plan = plan
      BY <1>1, <2>2, <3>2, <3>3, <3>4, LocalsOfNone DEF Assign, Proceeds, Refuses, Answers, Shapes
    <3>6. QED BY <1>1, <3>3, <3>5 DEF SameTerms
  <2>3. work' = work
    BY <1>1 DEF Frame
  <2>4. QED BY <1>4, <2>1, <2>2, <2>3 DEF ReadsTerms, Assigns
<1>5. QED BY <1>2, <1>3, <1>4

(* Committed receivables stay, new ones come from who commits.             *)
LEMMA ChargesGrow ==
  ASSUME WriterInv, CodesInv, NEW p \in Requests, StepOf(p)
  PROVE  /\ \A row \in Charged(committed) :
              row \in Charged(committed') /\ committed'[row] = committed[row]
         /\ \A row \in Charged(committed') \ Charged(committed) :
              /\ Commits(p) /\ pc[p] \in {"commitYear", "assignNext", "commitImport"}
              /\ row \in DOMAIN written[p] /\ committed'[row] = written[p][row]
         /\ Commits(p) => \A row \in DOMAIN written[p] : row[1] = "student_receivables" =>
              row \in Charged(committed') /\ committed'[row] = written[p][row]
<1>1. CodesOK(p) /\ DOMAIN written = Requests
  BY DEF CodesInv, WriterInv, Shapes
<1>2. ASSUME Commits(p), NEW row, row[1] = "student_receivables"
      PROVE  /\ row \in Charged(committed) =>
                  row \in Charged(committed') /\ committed'[row] = committed[row]
             /\ row \in Charged(committed') \ Charged(committed) =>
                  row \in DOMAIN written[p] /\ committed'[row] = written[p][row]
             /\ row \in DOMAIN written[p] =>
                  row \in Charged(committed') /\ committed'[row] = written[p][row]
  <2>1. /\ DOMAIN committed' = DOMAIN written[p] \union DOMAIN committed
        /\ row \in DOMAIN written[p] => committed'[row] = written[p][row]
        /\ row \in DOMAIN committed \ DOMAIN written[p] => committed'[row] = committed[row]
    BY <1>1, <1>2, CommitsRows
  <2>2. row \in DOMAIN written[p] =>
          /\ written[p][row] # NoCharge
          /\ row \in DOMAIN committed => committed[row] = NoCharge
    BY <1>1, <1>2 DEF CodesOK
  <2>3. QED BY <1>2, <2>1, <2>2 DEF Charged
<1>3. CASE Commits(p) /\ pc[p] \in {"commitYear", "assignNext", "commitImport"}
  BY <1>2, <1>3 DEF Charged
<1>4. ASSUME ~ Commits(p)
      PROVE  \A row : row[1] = "student_receivables" =>
               /\ row \in DOMAIN committed' <=> row \in DOMAIN committed
               /\ row \in DOMAIN committed => committed'[row] = committed[row]
  <2> SUFFICES ASSUME NEW row, row[1] = "student_receivables"
               PROVE  /\ row \in DOMAIN committed' <=> row \in DOMAIN committed
                      /\ row \in DOMAIN committed => committed'[row] = committed[row]
    OBVIOUS
  <2>1. CASE Stops(p)
    BY <2>1 DEF Stops, RollsBack
  <2>2. CASE ~ Stops(p) /\ Stays(p) /\ Touches(p, row)
    <3>1. InsertReceivable(p)
      BY <2>2, ChargeTouched, FailureStops, LabelsRun, ChargeStatementLabel
         DEF StepOf, ChargeLabels
    <3>2. committed' = committed
      BY <2>2, <3>1, InsertReceivableBy
    <3>3. QED BY <3>2
  <2>3. CASE Stays(p) /\ ~ Touches(p, row)
    BY <2>3 DEF Stays
  <2>4. QED BY <1>4, <2>1, <2>2, <2>3, StepCases
<1>5. CASE ~ Commits(p)
  BY <1>4, <1>5 DEF Charged
<1>6. CASE Commits(p)
  <2>1. ASSUME pc[p] \notin {"commitYear", "assignNext", "commitImport"}
        PROVE  Charged(committed') \subseteq Charged(committed)
    <3>2. ASSUME NEW row \in Charged(committed') PROVE row \in Charged(committed)
      <4>1. row[1] = "student_receivables"
        BY DEF Charged
      <4>2. CASE Stops(p)
        BY <3>2, <4>2 DEF Stops, RollsBack
      <4>3. CASE Stays(p) /\ ~ Touches(p, row)
        BY <3>2, <4>3 DEF Stays, Charged
      <4>4. CASE ~ Stops(p) /\ Touches(p, row)
        <5>1. InsertReceivable(p)
          BY <4>1, <4>4, ChargeTouched, FailureStops, LabelsRun, ChargeStatementLabel
             DEF StepOf, ChargeLabels
        <5>2. committed' = committed
          BY <4>4, <5>1, InsertReceivableBy
        <5>3. QED BY <3>2, <5>2
      <4>5. QED BY <2>1, <4>2, <4>3, <4>4, StepCases
    <3>3. QED BY <3>2
  <2>2. QED BY <1>2, <1>6, <2>1 DEF Charged
<1>7. QED BY <1>5, <1>6

(* What is charged stays charged, and by whom.                             *)
LEMMA AssignedStay ==
  ASSUME WriterInv, CodesInv, NEW p \in Requests, StepOf(p), NEW row
  PROVE  /\ NotAssigned(row) => NotAssigned(row)'
         /\ ByAssignment(row) => ByAssignment(row)'
         /\ ByAssignment(row)' => \/ ByAssignment(row)
                                  \/ Commits(p) /\ row \in DOMAIN written[p]
         /\ row \in Charged(committed) =>
              row \in Charged(committed)' /\ committed'[row] = committed[row]
<1>1. work' = work
  BY StepCases DEF Frame
<1>2. QED BY <1>1, ChargesGrow DEF NotAssigned, ByAssignment

(* Versions of receivables that a request gets.                            *)
LEMMA ChargesWritten ==
  ASSUME WriterInv, CodesInv, NEW p \in Requests, StepOf(p)
  PROVE  \/ \A row : row[1] = "student_receivables" /\ row \in DOMAIN written'[p] =>
              row \in DOMAIN written[p] /\ written'[p][row] = written[p][row]
         \/ ~ Stops(p) /\ InsertReceivable(p)
<1>1. DOMAIN written = Requests
  BY DEF WriterInv, Shapes
<1>2. CASE Stops(p) \/ Commits(p)
  BY <1>1, <1>2, RollsBackRows, CommitsRows, NothingIsWritten DEF Stops
<1>3. CASE ~ Stops(p) /\ pc[p] = "insertReceivable"
  BY <1>3, FailureStops, LabelsRun, ChargeStatementLabel DEF StepOf, ChargeLabels
<1>4. CASE Stays(p) /\ pc[p] # "insertReceivable"
  BY <1>4, ChargeTouched DEF Stays
<1>5. QED BY <1>2, <1>3, <1>4, StepCases

(* A receivable that is inserted.                                          *)
LEMMA ChargeInserted ==
  ASSUME WriterInv, CodesInv, NEW p \in Requests, InsertReceivable(p), ~ Stops(p)
  PROVE  /\ committed' = committed
         /\ DOMAIN written'[p] = {ChargeRow(p)} \union DOMAIN written[p]
         /\ ChargeRow(p) \notin DOMAIN written[p]
         /\ ChargeRow(p) \notin Charged(committed)
         /\ written'[p][ChargeRow(p)].by = p
         /\ pc'[p] = local[p].then
         /\ local'[p].record = local[p].record /\ local'[p].todo = local[p].todo
<1>1. DOMAIN written = Requests /\ Shapes /\ CodesOK(p)
  BY DEF WriterInv, Shapes, CodesInv
<1>2. PICK row, charge :
        /\ row = ChargeRow(p)
        /\ charge = [number |-> local[p].code, amount |-> local[p].record.amount, by |-> p]
  OBVIOUS
<1>3. /\ ~ ViolatesUniqueCharge(p)
      /\ Writes(p, NewVersion(row, charge))
      /\ Proceeds(p, local[p].then, {}, [local[p] EXCEPT !.counts.charged = @ + 1])
  BY <1>1, <1>2 DEF InsertReceivable, Fails, Answers, Proceeds, Stops, Shapes
<1>4. /\ committed' = committed
      /\ DOMAIN written'[p] = {row} \union DOMAIN written[p]
      /\ written'[p][row] = charge
  BY <1>1, <1>3, OneRowWritten
<1>5. row[1] = "student_receivables" /\ charge.by = p
  BY <1>2 DEF ChargeRow, ReceivableRow
<1>6. row \notin DOMAIN written[p] /\ row \notin Charged(committed)
  BY <1>1, <1>2, <1>3, <1>5 DEF ViolatesUniqueCharge, Sees, CodesOK, Charged
<1>7. /\ pc'[p] = local[p].then
      /\ local'[p].record = local[p].record /\ local'[p].todo = local[p].todo
  BY <1>1, <1>3, LocalsOfNone DEF Proceeds, Shapes
<1>8. QED BY <1>2, <1>4, <1>5, <1>6, <1>7

LEMMA BySelfStays ==
  ASSUME WriterInv, CodesInv, NEW p \in Requests, StepOf(p), NEW q \in Requests, BySelf(q)
  PROVE  BySelf(q)'
<1>1. CASE q # p
  BY <1>1, StepCases DEF Frame, BySelf
<1>2. CASE q = p /\ InsertReceivable(p) /\ ~ Stops(p)
  BY <1>2, InsertReceivableBy DEF BySelf
<1>3. CASE q = p /\ ~ (InsertReceivable(p) /\ ~ Stops(p))
  BY <1>3, ChargesWritten DEF BySelf
<1>4. QED BY <1>1, <1>2, <1>3

(* A finite set of students is gone through in some order.                 *)
LEMMA TargetsAreFinite ==
  ASSUME NEW p, AsksForSome(p), work[p].kind = "assign"
  PROVE  Cardinality(Targeted(p)) \in Nat
<1>1. {s \in Students : Sees(p, EnrolmentRow(s)) \in work[p].classes} \subseteq Students
  OBVIOUS
<1>2. IsFiniteSet({s \in Students : Sees(p, EnrolmentRow(s)) \in work[p].classes})
  BY <1>1, StudentsAssumption, FS_Subset
<1>3. IsFiniteSet(Targeted(p))
  BY <1>2 DEF Targeted, AsksForSome
<1>4. QED BY <1>3, FS_CardinalityType

(* The moves of an assignment that goes on.                                *)
Leaves(p) == pc'[p] \notin AssignLabels /\ DOMAIN written'[p] = {}

Finds(p) ==
  /\ pc[p] = "findStudents" /\ pc'[p] = "assignNext" /\ DOMAIN written'[p] = {}
  /\ \E students \in InAnyOrder(Targeted(p)) :
       local'[p].todo = ChargesFor(students, work[p].plan, SlotsOf(local[p].plan))

TakesNext(p) ==
  /\ pc[p] = "assignNext" /\ pc'[p] = "createIfNotExists"
  /\ OnlyReads
  /\ local[p].todo # <<>>
  /\ local'[p].record = Head(local[p].todo) /\ local'[p].todo = Tail(local[p].todo)

SameCharge(p) ==
  pc[p] \in ChargeLabels /\ local'[p].record = local[p].record
  /\ local'[p].todo = local[p].todo

Skips(p) == SameCharge(p) /\ OnlyReads /\ IsCharged(p) /\ pc'[p] = "assignNext"

GoesOn(p) ==
  /\ SameCharge(p) /\ pc'[p] \in ChargeLabels
  /\ committed' = committed
  /\ \A row : row[1] = "student_receivables" =>
       row \in DOMAIN written'[p] <=> row \in DOMAIN written[p]

InsertsCharge(p) ==
  /\ SameCharge(p) /\ pc'[p] = "assignNext"
  /\ committed' = committed
  /\ DOMAIN written'[p] = {ChargeRow(p)} \union DOMAIN written[p]
  /\ ChargeRow(p) \notin DOMAIN written[p] /\ ChargeRow(p) \notin Charged(committed)

LEMMA AssignmentMoves ==
  ASSUME WriterInv, CodesInv, NEW p \in Requests, StepOf(p), work[p].kind = "assign"
  PROVE  Leaves(p) \/ Finds(p) \/ TakesNext(p) \/ Skips(p) \/ GoesOn(p) \/ InsertsCharge(p)
<1>1. /\ Shapes /\ ProcOK(p) /\ DOMAIN written = Requests
      /\ pc[p] \in ChargeLabels => local[p].then = "assignNext"
      /\ pc[p] \notin Inside => DOMAIN written[p] = {}
  BY NothingIsWritten DEF WriterInv, ProcOK, Shapes, ThenOK
<1>2. CASE Stops(p)
  BY <1>1, <1>2, RollsBackRows, NothingIsWritten
     DEF Stops, Leaves, AssignLabels, ChargeLabels
<1>3. CASE Assign(p)
  <2>1. /\ pc[p] = "assign" /\ pc'[p] \in {"findStudents", "refused"} /\ written' = written
    BY <1>1, <1>3 DEF Assign, At, Refuses, Answers, Proceeds, OnlyReads, Shapes
  <2>2. QED
    BY <1>1, <2>1 DEF Leaves, AssignLabels, ChargeLabels, Inside, YearLabels, ImportLabels
<1>4. CASE FindStudents(p)
  <2>1. pc[p] = "findStudents" /\ written' = written
    BY <1>4 DEF FindStudents, At, OnlyReads
  <2>2. DOMAIN written'[p] = {}
    BY <1>1, <2>1 DEF Inside, YearLabels, ImportLabels, ChargeLabels
  <2>3. PICK students \in InAnyOrder(Targeted(p)) :
          Proceeds(p, "assignNext", {},
                [local[p] EXCEPT !.then = "assignNext",
                   !.todo = ChargesFor(students, work[p].plan, SlotsOf(local[p].plan))])
    BY <1>4 DEF FindStudents
  <2>4. PICK todo : todo = ChargesFor(students, work[p].plan, SlotsOf(local[p].plan))
    OBVIOUS
  <2>5. pc'[p] = "assignNext" /\ local'[p].todo = todo
    BY <1>1, <2>3, <2>4, LocalsOfNone DEF Proceeds, Shapes
  <2>6. QED BY <2>1, <2>2, <2>4, <2>5 DEF Finds
<1>5. CASE AssignNext(p)
  <2>1. CASE Ends(p)
    BY <1>1, <2>1, CommitsRows, NothingIsWritten
       DEF Ends, Answers, Proceeds, Leaves, AssignLabels, ChargeLabels, Shapes
  <2>2. CASE ~ Ends(p)
    <3>1. PICK head, tail : head = Head(local[p].todo) /\ tail = Tail(local[p].todo)
      OBVIOUS
    <3> DEFINE next == [local[p] EXCEPT !.record = head, !.todo = tail]
    <3>2. /\ pc[p] = "assignNext" /\ local[p].todo # <<>> /\ OnlyReads
          /\ Proceeds(p, "createIfNotExists", {}, next)
      BY <1>5, <2>2, <3>1 DEF AssignNext, At
    <3>3. DOMAIN local[p] = DOMAIN NoLocals /\ DOMAIN local = Requests
      BY <1>1 DEF Shapes
    <3>4. next.record = head /\ next.todo = tail
      BY <3>3, LocalsOfNone
    <3>5. local'[p] = next /\ pc'[p] = "createIfNotExists"
      BY <1>1, <3>2, <3>3 DEF Proceeds, Shapes
    <3>6. QED BY <3>1, <3>2, <3>4, <3>5 DEF TakesNext
  <2>3. QED BY <2>1, <2>2
<1>6. CASE CreateIfNotExists(p)
  <2>1. pc[p] = "createIfNotExists" /\ OnlyReads
    BY <1>6 DEF CreateIfNotExists, At
  <2>2. CASE IsCharged(p)
    BY <1>1, <1>6, <2>1, <2>2, LocalsOfNone
       DEF CreateIfNotExists, Proceeds, Shapes, Skips, SameCharge, ChargeLabels
  <2>3. CASE ~ IsCharged(p)
    BY <1>1, <1>6, <2>1, <2>3
       DEF CreateIfNotExists, Proceeds, Shapes, GoesOn, SameCharge, ChargeLabels, OnlyReads
  <2>4. QED BY <2>2, <2>3
<1>7. CASE DrawReceivableCode(p)
  <2>1. PICK number : number = NextNumber(p, ReceivableCounter)
    OBVIOUS
  <2>2. Writes(p, NewVersion(CounterRow, number))
    BY <1>7, <2>1 DEF DrawReceivableCode, DrawsInside, Drawn, CounterRow
  <2>3. committed' = committed /\ DOMAIN written'[p] = {CounterRow} \union DOMAIN written[p]
    BY <1>1, <2>2, OneRowWritten
  <2>4. /\ pc[p] = "drawReceivableCode" /\ pc'[p] = "insertReceivable"
        /\ local'[p].record = local[p].record /\ local'[p].todo = local[p].todo
    BY <1>1, <1>7, LocalsOfNone DEF DrawReceivableCode, At, Proceeds, Shapes
  <2>5. QED BY <2>3, <2>4, CounterTable DEF GoesOn, SameCharge, ChargeLabels
<1>8. CASE InsertReceivable(p) /\ ~ Stops(p)
  <2>1. pc[p] = "insertReceivable"
    BY <1>8 DEF InsertReceivable, At
  <2>2. QED BY <1>1, <1>8, <2>1, ChargeInserted DEF InsertsCharge, SameCharge, ChargeLabels
<1>9. QED
  BY <1>2, <1>3, <1>4, <1>5, <1>6, <1>7, <1>8, AssignmentStatement

(* What is found, and what remains, is of the plan that is assigned.       *)
LEMMA FindsPlanned ==
  ASSUME NEW p \in Requests, work[p].kind = "assign", AsksForSome(p), Finds(p),
         NEW pl, work[p].plan = pl
  PROVE  /\ Planned(local'[p].todo, pl, SlotsIn(local[p].plan))
         /\ local[p].plan.billing # "ONE_TIME" => Paired(local'[p].todo)
         /\ local[p].plan.billing # "ONE_TIME" /\ local'[p].todo # <<>> =>
              local'[p].todo[1].slot = "HK1"
<1>1. PICK students \in InAnyOrder(Targeted(p)) :
        local'[p].todo = ChargesFor(students, work[p].plan, SlotsOf(local[p].plan))
  BY DEF Finds
<1>2. PICK k, S, plan, order :
        /\ k = Cardinality(Targeted(p)) /\ S = Targeted(p) /\ plan = local[p].plan
        /\ order = students
  OBVIOUS
<1>3. k \in Nat /\ order \in [1..k -> S]
  BY <1>2, TargetsAreFinite DEF InAnyOrder
<1>4. PICK todo : todo = ChargesFor(order, pl, SlotsOf(plan))
  OBVIOUS
<1>5. /\ Planned(todo, pl, SlotsIn(plan))
      /\ plan.billing # "ONE_TIME" => Paired(todo)
      /\ plan.billing # "ONE_TIME" /\ todo # <<>> => todo[1].slot = "HK1"
  BY <1>3, <1>4, AllIsPlanned
<1>6. local'[p].todo = todo
  BY <1>1, <1>2, <1>4
<1>7. QED BY <1>2, <1>5, <1>6

LEMMA OwnPlanStays ==
  ASSUME WriterInv, CodesInv, NEW p \in Requests, StepOf(p), AsksForSome(p),
         NEW q \in Requests, OwnPlan(q)
  PROVE  OwnPlan(q)'
<1>1. Frame(p) /\ work' = work
  BY StepCases DEF Frame
<1>2. CASE q # p
  BY <1>1, <1>2 DEF Frame, OwnPlan, Planned
<1>3. ASSUME q = p, work[p].kind = "assign", pc'[p] \in AssignLabels
      PROVE  /\ \E slots : Planned(local'[p].todo, work[p].plan, slots)
             /\ pc'[p] \in ChargeLabels => local'[p].record.plan = work[p].plan
  <2>1. CASE Finds(p)
    <3>1. Planned(local'[p].todo, work[p].plan, SlotsIn(local[p].plan))
      BY <1>3, <2>1, FindsPlanned
    <3>2. QED BY <2>1, <3>1 DEF Finds, ChargeLabels
  <2>2. CASE TakesNext(p)
    <3>1. PICK slots, todo, pl :
            todo = local[p].todo /\ pl = work[p].plan /\ Planned(todo, pl, slots)
      BY <1>3, <2>2 DEF OwnPlan, TakesNext, AssignLabels
    <3>2. todo # <<>>
      BY <2>2, <3>1 DEF TakesNext
    <3>3. Planned(Tail(todo), pl, slots) /\ Head(todo) = todo[1] /\ todo[1].plan = pl
      BY <3>1, <3>2, RestIsPlanned
    <3>4. QED BY <2>2, <3>1, <3>3 DEF TakesNext
  <2>3. CASE SameCharge(p)
    BY <1>3, <2>3 DEF SameCharge, OwnPlan, AssignLabels
  <2>4. QED
    BY <1>3, <2>1, <2>2, <2>3, AssignmentMoves DEF Leaves, Skips, GoesOn, InsertsCharge
<1>4. QED BY <1>1, <1>2, <1>3 DEF OwnPlan, Planned

LEMMA TodoStays ==
  ASSUME WriterInv, CodesInv, NEW p \in Requests, StepOf(p), AsksForSome(p),
         NEW pl \in Plans, ChargesOK(pl), NEW q \in Requests, Assigns(q, pl)
  PROVE  TodoOK(q, pl)'
<1>1. /\ Frame(p) /\ work' = work /\ TodoOK(q, pl) /\ ReadsTerms(q, pl)
      /\ SameTerms(Terms(pl)', Terms(pl)) /\ SlotSet(pl)' = SlotSet(pl)
  BY StepCases, TermsStay DEF Frame, ChargesOK
<1>2. CASE q # p
  <2>1. pc'[q] = pc[q] /\ local'[q] = local[q]
    BY <1>1, <1>2 DEF Frame
  <2>2. QED BY <1>1, <2>1 DEF TodoOK, Planned, SameTerms
<1>3. ASSUME q = p, pc'[p] \in AssignLabels
      PROVE  /\ Planned(local'[p].todo, pl, SlotSet(pl))
             /\ pc'[p] \in ChargeLabels =>
                  local'[p].record.plan = pl /\ local'[p].record.slot \in SlotSet(pl)
             /\ Terms(pl).billing # "ONE_TIME" =>
                  /\ Paired(local'[p].todo)
                  /\ pc'[p] \in ChargeLabels => Follows(local'[p].todo, local'[p].record)
  <2>1. work[p].kind = "assign" /\ work[p].plan = pl
    BY <1>3 DEF Assigns
  <2>2. CASE Finds(p)
    <3>1. SameTerms(local[p].plan, Terms(pl))
      BY <1>1, <1>3, <2>2 DEF ReadsTerms, Finds
    <3>2. SlotsIn(local[p].plan) = SlotSet(pl)
      BY <3>1 DEF SlotSet, SlotsIn, SameTerms
    <3>3. /\ Planned(local'[p].todo, pl, SlotsIn(local[p].plan))
          /\ local[p].plan.billing # "ONE_TIME" => Paired(local'[p].todo)
      BY <2>1, <2>2, FindsPlanned
    <3>4. QED BY <2>2, <3>1, <3>2, <3>3 DEF Finds, ChargeLabels, SameTerms
  <2>3. CASE TakesNext(p)
    <3>1. PICK todo : todo = local[p].todo
      OBVIOUS
    <3>2. /\ Planned(todo, pl, SlotSet(pl)) /\ todo # <<>>
          /\ Terms(pl).billing # "ONE_TIME" => Paired(todo)
      BY <1>1, <1>3, <2>3, <3>1 DEF TodoOK, TakesNext, AssignLabels
    <3>3. /\ Planned(Tail(todo), pl, SlotSet(pl))
          /\ Head(todo) = todo[1] /\ todo[1].plan = pl /\ todo[1].slot \in SlotSet(pl)
          /\ Paired(todo) /\ SlotSet(pl) = Semesters =>
               Paired(Tail(todo)) /\ Follows(Tail(todo), todo[1])
      BY <3>2, RestIsPlanned
    <3>4. Terms(pl).billing # "ONE_TIME" => SlotSet(pl) = Semesters
      BY DEF SlotSet, SlotsIn
    <3>5. local'[p].record = todo[1] /\ local'[p].todo = Tail(todo)
      BY <2>3, <3>1, <3>3 DEF TakesNext
    <3>6. QED BY <3>2, <3>3, <3>4, <3>5
  <2>4. CASE SameCharge(p)
    <3>1. local'[p].record = local[p].record /\ local'[p].todo = local[p].todo
          /\ pc[p] \in ChargeLabels
      BY <2>4 DEF SameCharge
    <3>2. QED BY <1>1, <1>3, <3>1 DEF TodoOK, AssignLabels
  <2>5. QED
    BY <1>3, <2>1, <2>2, <2>3, <2>4, AssignmentMoves DEF Leaves, Skips, GoesOn, InsertsCharge
<1>4. QED BY <1>1, <1>2, <1>3 DEF TodoOK, Planned, SameTerms

(* The plan an assignment charges is its own, in a slot of it.             *)
LEMMA InSlotsStay ==
  ASSUME WriterInv, CodesInv, NEW p \in Requests, StepOf(p), OwnPlan(p),
         NEW pl \in Plans, ChargesOK(pl), NEW q \in Requests
  PROVE  InSlots(q, pl)'
<1>1. /\ Frame(p) /\ work' = work /\ InSlots(q, pl) /\ SlotSet(pl)' = SlotSet(pl)
  BY StepCases, TermsStay DEF Frame, ChargesOK
<1>2. ASSUME NEW s \in Students, NEW slot \in Slots, work[q].kind = "assign",
             ReceivableRow(s, pl, slot) \in DOMAIN written'[q]
      PROVE  work[q].plan = pl /\ slot \in SlotSet(pl)
  <2>1. CASE ReceivableRow(s, pl, slot) \in DOMAIN written[q]
    BY <1>1, <1>2, <2>1 DEF InSlots
  <2>2. CASE ReceivableRow(s, pl, slot) \notin DOMAIN written[q]
    <3>1. q = p
      BY <1>1, <1>2, <2>2 DEF Frame
    <3>2. InsertReceivable(p) /\ ~ Stops(p)
      <4>1. PICK row : row = ReceivableRow(s, pl, slot)
        OBVIOUS
      <4>2. row[1] = "student_receivables"
        BY <4>1, ChargeRows
      <4>3. row \in DOMAIN written'[p] /\ row \notin DOMAIN written[p]
        BY <1>2, <2>2, <3>1, <4>1
      <4>4. QED BY <4>2, <4>3, ChargesWritten
    <3>3. /\ ReceivableRow(s, pl, slot) = ChargeRow(p)
          /\ pc[p] = "insertReceivable"
      BY <1>2, <2>2, <3>1, <3>2, ChargeInserted DEF InsertReceivable, At
    <3>4. local[p].record.plan = pl /\ local[p].record.slot = slot
      BY <3>3 DEF ChargeRow, ReceivableRow
    <3>5. work[p].plan = pl
      BY <1>2, <3>1, <3>3, <3>4 DEF OwnPlan, AssignLabels, ChargeLabels
    <3>6. TodoOK(p, pl)
      BY <1>2, <3>1, <3>5 DEF ChargesOK, Assigns
    <3>7. QED BY <3>1, <3>3, <3>4, <3>5, <3>6 DEF TodoOK, AssignLabels, ChargeLabels
  <2>3. QED BY <2>1, <2>2
<1>3. QED BY <1>1, <1>2 DEF InSlots, ReceivableRow

(* An assignment commits when nothing is left to charge.                   *)
LEMMA CommitsAll ==
  ASSUME WriterInv, CodesInv, NEW p \in Requests, StepOf(p), work[p].kind = "assign",
         NEW row \in Charged(committed') \ Charged(committed)
  PROVE  pc[p] = "assignNext" /\ local[p].todo = <<>>
<1>1. committed' # committed /\ pc[p] \in {"commitYear", "assignNext", "commitImport"}
  BY ChargesGrow
<1>2. ~ Stops(p)
  BY <1>1 DEF Stops, RollsBack
<1>3. AssignNext(p)
  BY <1>1, <1>2, AssignmentStatement
     DEF Assign, FindStudents, CreateIfNotExists, DrawReceivableCode, InsertReceivable, At
<1>4. QED BY <1>1, <1>3 DEF AssignNext, At, OnlyReads

(* The rows of the two halves.                                             *)
LEMMA HalfRows ==
  ASSUME NEW s, NEW pl, NEW p, local[p].record.plan = pl,
         local[p].record.slot \in {"HK1", "HK2"}
  PROVE  /\ ChargeRow(p) = FirstHalfRow(s, pl) <=>
              local[p].record.slot = "HK1" /\ local[p].record.student = s
         /\ ChargeRow(p) = SecondHalfRow(s, pl) <=>
              local[p].record.slot = "HK2" /\ local[p].record.student = s
BY DEF ChargeRow, FirstHalfRow, SecondHalfRow, ReceivableRow

LEMMA HalvesAre ==
  ASSUME NEW s, NEW pl
  PROVE  /\ FirstHalfRow(s, pl)[1] = "student_receivables"
         /\ SecondHalfRow(s, pl)[1] = "student_receivables"
         /\ FirstHalfRow(s, pl)' = FirstHalfRow(s, pl)
         /\ SecondHalfRow(s, pl)' = SecondHalfRow(s, pl)
BY DEF FirstHalfRow, SecondHalfRow, ReceivableRow

(* What is found charged is written or committed.                          *)
LEMMA FoundCharged ==
  ASSUME NEW p, IsCharged(p), ChargeRow(p) \in DOMAIN committed
  PROVE  ChargeRow(p) \in DOMAIN written[p] \/ ChargeRow(p) \in Charged(committed)
<1>1. ChargeRow(p)[1] = "student_receivables"
  BY DEF ChargeRow, ReceivableRow
<1>2. QED BY <1>1 DEF IsCharged, Sees, Charged

(* Between two slots of a student an assignment has one half but not yet    *)
(* the other: it comes next.                                               *)
LEMMA HalvesStay ==
  ASSUME WriterInv, CodesInv, NEW p \in Requests, StepOf(p), AsksForSome(p),
         NEW pl \in Plans, ChargesOK(pl), Terms(pl).billing # "ONE_TIME",
         NEW s \in Students, NEW q \in Requests, Assigns(q, pl)
  PROVE  HalvesOK(q, pl, s)'
<1>1. PICK first, second :
        first = FirstHalfRow(s, pl) /\ second = SecondHalfRow(s, pl)
  OBVIOUS
<1>2. /\ first[1] = "student_receivables" /\ second[1] = "student_receivables"
      /\ FirstHalfRow(s, pl)' = first /\ SecondHalfRow(s, pl)' = second
  BY <1>1, HalvesAre
<1>3. first # second
  BY <1>1 DEF FirstHalfRow, SecondHalfRow, ReceivableRow
<1>4. /\ first \in DOMAIN written[q] =>
           second \in DOMAIN written[q] \/ NotAssigned(second) \/ SecondInTurn(q, s)
      /\ second \in DOMAIN written[q] =>
           first \in DOMAIN written[q] \/ NotAssigned(first)
      /\ SecondInTurn(q, s) =>
           first \in DOMAIN written[q] \/ NotAssigned(first) \/ second \in Charged(committed)
      /\ ByAssignment(first) => second \in Charged(committed)
      /\ ByAssignment(second) => first \in Charged(committed)
  BY <1>1 DEF ChargesOK, HalvesOK, Together
<1>5. /\ NotAssigned(first) => NotAssigned(first)'
      /\ NotAssigned(second) => NotAssigned(second)'
      /\ second \in Charged(committed) => second \in Charged(committed)'
  BY AssignedStay
<1>6. SUFFICES
        /\ first \in DOMAIN written'[q] =>
             \/ second \in DOMAIN written'[q] \/ NotAssigned(second)
             \/ SecondInTurn(q, s)'
        /\ second \in DOMAIN written'[q] =>
             first \in DOMAIN written'[q] \/ NotAssigned(first)
        /\ SecondInTurn(q, s)' =>
             \/ first \in DOMAIN written'[q] \/ NotAssigned(first)
             \/ second \in Charged(committed)
  BY <1>2, <1>5 DEF HalvesOK
<1>7. Frame(p)
  BY StepCases
<1>8. CASE q # p
  <2>1. pc'[q] = pc[q] /\ local'[q] = local[q] /\ written'[q] = written[q]
    BY <1>7, <1>8 DEF Frame
  <2>2. SecondInTurn(q, s)' <=> SecondInTurn(q, s)
    BY <2>1 DEF SecondInTurn
  <2>3. QED BY <1>4, <2>1, <2>2
<1>9. CASE q = p
  <2>1. work[p].kind = "assign" /\ work[p].plan = pl /\ TodoOK(p, pl) /\ TermsOK(pl)
    BY <1>9 DEF Assigns, ChargesOK
  <2>2. CASE Leaves(p)
    BY <1>9, <2>2 DEF Leaves, AssignLabels, SecondInTurn
  <2>3. CASE Finds(p)
    <3>1. SameTerms(local[p].plan, Terms(pl))
      BY <1>9, <2>1, <2>3 DEF ChargesOK, ReadsTerms, Finds
    <3>2. local'[p].todo # <<>> => local'[p].todo[1].slot = "HK1"
      BY <2>1, <2>3, <3>1, FindsPlanned DEF SameTerms
    <3>3. ~ SecondInTurn(p, s)'
      BY <2>3, <3>2 DEF Finds, SecondInTurn, IsSecond, ChargeLabels
    <3>4. QED BY <1>9, <2>3, <3>3 DEF Finds
  <2>4. CASE TakesNext(p)
    <3>1. PICK todo : todo = local[p].todo
      OBVIOUS
    <3>2. /\ Planned(todo, pl, SlotSet(pl)) /\ todo # <<>>
      BY <2>1, <2>4, <3>1 DEF TodoOK, TakesNext, AssignLabels
    <3>3. Head(todo) = todo[1]
      BY <3>2, RestIsPlanned
    <3>4. SecondInTurn(p, s)' <=> SecondInTurn(p, s)
      BY <2>4, <3>1, <3>2, <3>3 DEF TakesNext, SecondInTurn, ChargeLabels
    <3>5. written' = written
      BY <2>4 DEF TakesNext, OnlyReads
    <3>6. QED BY <1>4, <1>9, <3>4, <3>5
  <2>5. ASSUME SameCharge(p)
        PROVE  /\ local[p].record.plan = pl /\ local[p].record.slot \in {"HK1", "HK2"}
               /\ SecondInTurn(p, s) <=> ChargeRow(p) = second
               /\ pc'[p] \in ChargeLabels => (SecondInTurn(p, s)' <=> SecondInTurn(p, s))
               /\ pc'[p] = "assignNext" => (SecondInTurn(p, s)' <=> ChargeRow(p) = first)
    <3>1. /\ local[p].record.plan = pl /\ local[p].record.slot \in SlotSet(pl)
          /\ Follows(local[p].todo, local[p].record)
          /\ local'[p].record = local[p].record /\ local'[p].todo = local[p].todo
          /\ pc[p] \in ChargeLabels
      BY <2>1, <2>5 DEF SameCharge, TodoOK, AssignLabels
    <3>2. local[p].record.slot \in {"HK1", "HK2"}
      BY <3>1 DEF SlotSet, SlotsIn, Semesters
    <3>3. /\ ChargeRow(p) = first <=>
               local[p].record.slot = "HK1" /\ local[p].record.student = s
          /\ ChargeRow(p) = second <=>
               local[p].record.slot = "HK2" /\ local[p].record.student = s
      BY <1>1, <3>1, <3>2, HalfRows
    <3>4. SecondInTurn(p, s) <=> ChargeRow(p) = second
      BY <3>1, <3>3 DEF SecondInTurn, IsSecond, ChargeLabels
    <3>5. pc'[p] \in ChargeLabels => (SecondInTurn(p, s)' <=> SecondInTurn(p, s))
      BY <3>1 DEF SecondInTurn, ChargeLabels
    <3>6. ASSUME pc'[p] = "assignNext"
          PROVE  SecondInTurn(p, s)' <=> ChargeRow(p) = first
      <4>1. SecondInTurn(p, s)' <=>
              local[p].todo # <<>> /\ IsSecond(local[p].todo[1], s)
        BY <3>1, <3>6 DEF SecondInTurn, ChargeLabels
      <4>2. QED BY <3>1, <3>2, <3>3, <4>1 DEF Follows, Precedes, IsSecond
    <3>7. QED BY <3>1, <3>2, <3>4, <3>5, <3>6
  <2>6. CASE GoesOn(p)
    <3>1. /\ first \in DOMAIN written'[p] <=> first \in DOMAIN written[p]
          /\ second \in DOMAIN written'[p] <=> second \in DOMAIN written[p]
      BY <1>2, <2>6 DEF GoesOn
    <3>2. QED BY <1>4, <1>9, <2>5, <2>6, <3>1 DEF GoesOn
  <2>7. CASE Skips(p)
    <3>1. SameCharge(p) /\ pc'[p] = "assignNext" /\ written' = written
      BY <2>7 DEF Skips, OnlyReads
    <3>2. first \in DOMAIN committed /\ second \in DOMAIN committed
      BY <1>1, <2>1 DEF TermsOK, FirstHalfRow, SecondHalfRow, Slots, Semesters
    <3>3. CASE ChargeRow(p) = first
      <4>1. first \in DOMAIN written[p] \/ first \in Charged(committed)
        BY <2>7, <3>2, <3>3, FoundCharged DEF Skips
      <4>2. SecondInTurn(p, s)'
        BY <2>5, <3>1, <3>3
      <4>3. QED BY <1>4, <1>9, <3>1, <4>1, <4>2 DEF NotAssigned
    <3>4. CASE ChargeRow(p) = second
      <4>1. second \in DOMAIN written[p] \/ second \in Charged(committed)
        BY <2>7, <3>2, <3>4, FoundCharged DEF Skips
      <4>2. ~ SecondInTurn(p, s)'
        BY <1>3, <2>5, <3>1, <3>4
      <4>3. first \in DOMAIN written[p] => first \notin Charged(committed)
        BY <1>2, <3>2 DEF CodesInv, CodesOK, Charged
      <4>4. QED BY <1>4, <1>9, <3>1, <4>1, <4>2, <4>3 DEF NotAssigned
    <3>5. CASE ChargeRow(p) # first /\ ChargeRow(p) # second
      BY <1>4, <1>9, <2>5, <3>1, <3>5
    <3>6. QED BY <3>3, <3>4, <3>5
  <2>8. CASE InsertsCharge(p)
    <3>1. /\ SameCharge(p) /\ pc'[p] = "assignNext" /\ committed' = committed
          /\ DOMAIN written'[p] = {ChargeRow(p)} \union DOMAIN written[p]
          /\ ChargeRow(p) \notin DOMAIN written[p] /\ ChargeRow(p) \notin Charged(committed)
      BY <2>8 DEF InsertsCharge
    <3>2. CASE ChargeRow(p) = first
      <4>1. SecondInTurn(p, s)'
        BY <2>5, <3>1, <3>2
      <4>2. QED BY <1>9, <3>1, <3>2, <4>1
    <3>3. CASE ChargeRow(p) = second
      <4>1. SecondInTurn(p, s) /\ ~ SecondInTurn(p, s)'
        BY <1>3, <2>5, <3>1, <3>3
      <4>2. first \in DOMAIN written[p] \/ NotAssigned(first)
        BY <1>4, <1>9, <3>1, <3>3, <4>1
      <4>3. QED BY <1>9, <3>1, <3>3, <4>1, <4>2
    <3>4. CASE ChargeRow(p) # first /\ ChargeRow(p) # second
      BY <1>4, <1>9, <2>5, <3>1, <3>4
    <3>5. QED BY <3>2, <3>3, <3>4
  <2>9. QED
    BY <2>1, <2>2, <2>3, <2>4, <2>6, <2>7, <2>8, AssignmentMoves
<1>10. QED BY <1>8, <1>9

(* What an assignment commits of one half it commits with the other, or    *)
(* the other was there and not by an assignment.                           *)
LEMMA TogetherStays ==
  ASSUME WriterInv, CodesInv, NEW p \in Requests, StepOf(p), BySelf(p),
         NEW pl \in Plans, ChargesOK(pl), NEW s \in Students, NEW row, NEW other,
         Together(row, other),
         NEW slot \in Slots, row = ReceivableRow(s, pl, slot),
         other[1] = "student_receivables",
         Assigns(p, pl) /\ pc[p] = "assignNext" /\ local[p].todo = <<>>
           /\ row \in DOMAIN written[p]
             => other \in DOMAIN written[p] \/ NotAssigned(other)
  PROVE  Together(row, other)'
<1>1. work' = work
  BY StepCases DEF Frame
<1>2. /\ \A r \in Charged(committed) :
            r \in Charged(committed)' /\ committed'[r] = committed[r]
      /\ ByAssignment(row) => ByAssignment(row)'
      /\ NotAssigned(other) => NotAssigned(other)'
  BY ChargesGrow, AssignedStay
<1>3. SUFFICES ASSUME ByAssignment(row)'
               PROVE  /\ other \in Charged(committed)'
                      /\ ByAssignment(other)' => committed'[other].by = committed'[row].by
  BY DEF Together
<1>4. CASE row \in Charged(committed)
  <2>1. ByAssignment(row)
    BY <1>1, <1>2, <1>3, <1>4 DEF ByAssignment
  <2>2. other \in Charged(committed)
        /\ (ByAssignment(other) => committed[other].by = committed[row].by)
    BY <2>1 DEF Together
  <2>3. ByAssignment(other)' => ByAssignment(other)
    BY <1>1, <1>2, <2>2 DEF ByAssignment
  <2>4. QED BY <1>2, <1>4, <2>2, <2>3
<1>5. CASE row \notin Charged(committed)
  <2>1. row \in Charged(committed') \ Charged(committed)
    BY <1>3, <1>5 DEF ByAssignment
  <2>2. /\ Commits(p) /\ row \in DOMAIN written[p] /\ committed'[row] = written[p][row]
        /\ \A r \in DOMAIN written[p] : r[1] = "student_receivables" =>
             r \in Charged(committed') /\ committed'[r] = written[p][r]
    BY <2>1, ChargesGrow
  <2>3. row[1] = "student_receivables"
    BY ChargeRows
  <2>4. committed'[row].by = p
    BY <2>2, <2>3 DEF BySelf
  <2>5. work[p].kind = "assign"
    BY <1>1, <1>3, <2>4 DEF ByAssignment
  <2>6. work[p].plan = pl
    BY <2>2, <2>5 DEF ChargesOK, InSlots
  <2>7. pc[p] = "assignNext" /\ local[p].todo = <<>>
    BY <2>1, <2>5, CommitsAll
  <2>8. other \in DOMAIN written[p] \/ NotAssigned(other)
    BY <2>2, <2>5, <2>6, <2>7 DEF Assigns
  <2>9. CASE other \in DOMAIN written[p]
    BY <2>2, <2>4, <2>9 DEF BySelf
  <2>10. CASE NotAssigned(other)
    <3>1. NotAssigned(other)'
      BY <1>2, <2>10
    <3>2. QED BY <3>1 DEF NotAssigned
  <2>11. QED BY <2>8, <2>9, <2>10
<1>6. QED BY <1>4, <1>5

LEMMA ChargesStay ==
  ASSUME WriterInv, CodesInv, ChargesInv, NEW p \in Requests, StepOf(p)
  PROVE  ChargesInv'
<1>1. BySelf(p) /\ AsksForSome(p) /\ OwnPlan(p) /\ work' = work
  BY StepCases DEF ChargesInv, Frame
<1>2. \A q \in Requests : BySelf(q)' /\ AsksForSome(q)' /\ OwnPlan(q)'
  <2> TAKE q \in Requests
  <2>1. BySelf(q) /\ AsksForSome(q) /\ OwnPlan(q)
    BY DEF ChargesInv
  <2>2. QED BY <1>1, <2>1, BySelfStays, OwnPlanStays DEF AsksForSome
<1>3. ASSUME NEW pl \in Plans, KeepsBilling(pl)
      PROVE  ChargesOK(pl)'
  <2>1. ChargesOK(pl)
    BY <1>3 DEF ChargesInv
  <2>2. /\ TermsOK(pl)' /\ SameTerms(Terms(pl)', Terms(pl)) /\ SlotSet(pl)' = SlotSet(pl)
    BY <2>1, TermsStay
  <2>3. \A q \in Requests : ReadsTerms(q, pl)' /\ InSlots(q, pl)'
    BY <1>1, <1>3, <2>1, ReadsTermsStay, InSlotsStay
  <2>4. \A q \in Requests : Assigns(q, pl)' => TodoOK(q, pl)'
    BY <1>1, <2>1, TodoStays DEF Assigns
  <2>5. ASSUME NEW s \in Students, NEW slot \in Slots,
               ByAssignment(ReceivableRow(s, pl, slot))'
        PROVE  slot \in SlotSet(pl)'
    <3>1. PICK row : row = ReceivableRow(s, pl, slot)
      OBVIOUS
    <3>2. ByAssignment(row)'
      BY <2>5, <3>1 DEF ReceivableRow
    <3>3. CASE ByAssignment(row)
      BY <2>1, <2>2, <3>1, <3>3 DEF ChargesOK
    <3>4. CASE row \in Charged(committed) /\ ~ ByAssignment(row)
      BY <3>2, <3>4, AssignedStay DEF NotAssigned
    <3>5. CASE row \notin Charged(committed)
      <4>1. row \in Charged(committed') \ Charged(committed)
        BY <3>2, <3>5 DEF ByAssignment
      <4>2. row \in DOMAIN written[p] /\ committed'[row] = written[p][row]
        BY <4>1, ChargesGrow
      <4>3. row[1] = "student_receivables"
        BY <3>1, ChargeRows
      <4>4. work[p].kind = "assign"
        BY <1>1, <3>2, <4>2, <4>3 DEF ByAssignment, BySelf
      <4>5. QED BY <2>1, <2>2, <3>1, <4>2, <4>4 DEF ChargesOK, InSlots
    <3>6. QED BY <3>3, <3>4, <3>5
  <2>6. ASSUME Terms(pl).billing # "ONE_TIME", NEW s \in Students
        PROVE  /\ Together(FirstHalfRow(s, pl), SecondHalfRow(s, pl))'
               /\ Together(SecondHalfRow(s, pl), FirstHalfRow(s, pl))'
               /\ \A q \in Requests : Assigns(q, pl)' => HalvesOK(q, pl, s)'
    <3>1. PICK first, second :
            first = FirstHalfRow(s, pl) /\ second = SecondHalfRow(s, pl)
      OBVIOUS
    <3>2. /\ first = ReceivableRow(s, pl, "HK1") /\ second = ReceivableRow(s, pl, "HK2")
          /\ "HK1" \in Slots /\ "HK2" \in Slots
          /\ first[1] = "student_receivables" /\ second[1] = "student_receivables"
          /\ FirstHalfRow(s, pl)' = first /\ SecondHalfRow(s, pl)' = second
      BY <3>1, HalvesAre DEF FirstHalfRow, SecondHalfRow, Slots, Semesters
    <3>3. Together(first, second) /\ Together(second, first)
      BY <2>1, <2>6, <3>1 DEF ChargesOK
    <3>4. ASSUME Assigns(p, pl), pc[p] = "assignNext", local[p].todo = <<>>
          PROVE  /\ first \in DOMAIN written[p] =>
                      second \in DOMAIN written[p] \/ NotAssigned(second)
                 /\ second \in DOMAIN written[p] =>
                      first \in DOMAIN written[p] \/ NotAssigned(first)
      <4>1. HalvesOK(p, pl, s)
        BY <2>1, <2>6, <3>4 DEF ChargesOK
      <4>2. ~ SecondInTurn(p, s)
        BY <3>4 DEF SecondInTurn, ChargeLabels
      <4>3. QED BY <3>1, <4>1, <4>2 DEF HalvesOK
    <3>5. Together(first, second)'
      BY <1>1, <2>1, <3>2, <3>3, <3>4, TogetherStays
    <3>6. Together(second, first)'
      BY <1>1, <2>1, <3>2, <3>3, <3>4, TogetherStays
    <3>7. \A q \in Requests : Assigns(q, pl)' => HalvesOK(q, pl, s)'
      BY <1>1, <2>1, <2>6, HalvesStay DEF Assigns
    <3>8. QED BY <3>2, <3>5, <3>6, <3>7 DEF Together
  <2>7. Terms(pl)'.billing = Terms(pl).billing
    BY <2>2 DEF SameTerms
  <2>8. QED BY <2>2, <2>3, <2>4, <2>5, <2>6, <2>7 DEF ChargesOK
<1>4. \A pl \in Plans : KeepsBilling(pl)' => ChargesOK(pl)'
  BY <1>1, <1>3 DEF KeepsBilling
<1>5. QED BY <1>2, <1>4 DEF ChargesInv

LEMMA ChargesInvAlways == Spec => []ChargesInv
<1>1. InitRequests => ChargesInv
  <2> SUFFICES ASSUME InitRequests PROVE ChargesInv
    OBVIOUS
  <2>1. PICK w \in Workloads :
          /\ committed = w.rows /\ work = WorkOf(w)
          /\ written = [p \in Requests |-> NothingWritten]
          /\ pc = [p \in Requests |-> WorkOf(w)[p].kind]
    BY DEF InitRequests
  <2>2. \A p \in Requests : DOMAIN written[p] = {} /\ pc[p] = work[p].kind
    BY <2>1, NothingIsWritten
  <2>3. \A p \in Requests : BySelf(p) /\ AsksForSome(p) /\ OwnPlan(p)
    BY <2>1, <2>2, StudentsAssumption
       DEF BySelf, AsksForSome, OwnPlan, AssignLabels, ChargeLabels
  <2>4. ASSUME NEW pl \in Plans PROVE ChargesOK(pl)
    <3>1. TermsOK(pl)
      BY <2>1, PlanRowsAssumption DEF TermsOK, Terms
    <3>2. \A p \in Requests : ReadsTerms(p, pl) /\ InSlots(p, pl)
      BY <2>2 DEF ReadsTerms, InSlots, Assigns
    <3>3. \A p \in Requests : Assigns(p, pl) => TodoOK(p, pl)
      BY <2>2 DEF Assigns, TodoOK, AssignLabels, ChargeLabels
    <3>4. \A row : ~ ByAssignment(row)
      BY <2>1, MadeRowsAssumption DEF ByAssignment, Charged
    <3>5. \A p \in Requests, s \in Students : Assigns(p, pl) => HalvesOK(p, pl, s)
      BY <2>2 DEF Assigns, HalvesOK, SecondInTurn, ChargeLabels
    <3>6. QED BY <3>1, <3>2, <3>3, <3>4, <3>5 DEF ChargesOK, Together
  <2>5. QED BY <2>3, <2>4 DEF ChargesInv
<1>2. WriterInv /\ CodesInv /\ ChargesInv /\ [Next]_requestVars => ChargesInv'
  <2> SUFFICES ASSUME WriterInv, CodesInv, ChargesInv, [Next]_requestVars
               PROVE  ChargesInv'
    OBVIOUS
  <2>1. CASE UNCHANGED <<committed, written, work, pc, wants, local, crashes>>
    <3>1. \A p \in Requests : (BySelf(p) /\ AsksForSome(p) /\ OwnPlan(p))'
      BY <2>1 DEF ChargesInv, BySelf, AsksForSome, OwnPlan, Planned
    <3>2. ASSUME NEW pl \in Plans, KeepsBilling(pl)' PROVE ChargesOK(pl)'
      <4>1. ChargesOK(pl)
        BY <2>1, <3>2 DEF ChargesInv, KeepsBilling
      <4>2. Terms(pl)' = Terms(pl) /\ SlotSet(pl)' = SlotSet(pl) /\ TermsOK(pl)'
        BY <2>1, <4>1 DEF ChargesOK, TermsOK, Terms, SlotSet, SlotsIn, PlanRow, ReceivableRow
      <4>3. \A row : /\ ByAssignment(row)' <=> ByAssignment(row)
                     /\ NotAssigned(row)' <=> NotAssigned(row)
                     /\ row \in Charged(committed)' <=> row \in Charged(committed)
        BY <2>1 DEF ByAssignment, NotAssigned, Charged
      <4>4. \A p \in Requests : ReadsTerms(p, pl)' /\ InSlots(p, pl)'
        BY <2>1, <4>1, <4>2
           DEF ChargesOK, ReadsTerms, InSlots, Assigns, SameTerms, ReceivableRow
      <4>5. \A p \in Requests : Assigns(p, pl)' => TodoOK(p, pl)'
        BY <2>1, <4>1, <4>2
           DEF ChargesOK, Assigns, TodoOK, Planned, Paired, Precedes, Follows
      <4>6. \A s \in Students, slot \in Slots :
              ByAssignment(ReceivableRow(s, pl, slot))' => slot \in SlotSet(pl)'
        BY <4>1, <4>2, <4>3 DEF ChargesOK, ReceivableRow
      <4>7. ASSUME Terms(pl).billing # "ONE_TIME", NEW s \in Students
            PROVE  /\ Together(FirstHalfRow(s, pl), SecondHalfRow(s, pl))'
                   /\ Together(SecondHalfRow(s, pl), FirstHalfRow(s, pl))'
                   /\ \A p \in Requests : Assigns(p, pl)' => HalvesOK(p, pl, s)'
        <5>1. PICK first, second :
                first = FirstHalfRow(s, pl) /\ second = SecondHalfRow(s, pl)
          OBVIOUS
        <5>2. FirstHalfRow(s, pl)' = first /\ SecondHalfRow(s, pl)' = second
          BY <5>1, HalvesAre
        <5>3. Together(first, second)' /\ Together(second, first)'
          BY <2>1, <4>1, <4>3, <4>7, <5>1 DEF ChargesOK, Together
        <5>4. \A p \in Requests : SecondInTurn(p, s)' <=> SecondInTurn(p, s)
          BY <2>1 DEF SecondInTurn, IsSecond
        <5>5. ASSUME NEW p \in Requests, Assigns(p, pl)'
              PROVE  HalvesOK(p, pl, s)'
          <6>1. HalvesOK(p, pl, s)
            BY <2>1, <4>1, <4>7, <5>5 DEF ChargesOK, Assigns
          <6>2. QED BY <2>1, <4>3, <5>1, <5>2, <5>4, <6>1 DEF HalvesOK
        <5>6. QED BY <5>2, <5>3, <5>5 DEF Together
      <4>8. QED BY <4>2, <4>4, <4>5, <4>6, <4>7 DEF ChargesOK
    <3>3. QED BY <3>1, <3>2 DEF ChargesInv
  <2>2. QED BY <2>1, ChargesStay, OtherSteps
<1>3. QED BY <1>1, <1>2, WriterInvAlways, CodesInvAlways, PTL DEF Spec

(* FeeAssignmentsService.assign: however many assignments of a plan run at *)
(* once, next to whatever else, a student whom only assignments have       *)
(* charged is charged for the year once - as a whole, or in two halves     *)
(* that one request has made - unless somebody changes how the plan is     *)
(* billed.                                                                 *)
THEOREM AssignmentsAlwaysChargeOnce == Spec => []AssignmentsChargeOnce
<1>1. ChargesInv => AssignmentsChargeOnce
  <2> SUFFICES ASSUME ChargesInv, NEW s \in Students, NEW pl \in Plans,
                      KeepsBilling(pl), IsAssigned(s, pl)
               PROVE  ChargedOnce(s, pl)
    BY DEF AssignmentsChargeOnce
  <2>1. ChargesOK(pl)
    BY DEF ChargesInv
  <2>2. \A slot \in SlotsCharged(s, pl) :
          slot \in Slots /\ ByAssignment(ReceivableRow(s, pl, slot))
    <3> TAKE slot \in SlotsCharged(s, pl)
    <3>1. slot \in Slots /\ committed[ReceivableRow(s, pl, slot)] # NoCharge
      BY DEF SlotsCharged, ReceivableOf
    <3>2. ReceivableRow(s, pl, slot) \in Charged(committed)
      BY <2>1, <3>1, ChargeRows DEF ChargesOK, TermsOK, Charged
    <3>3. QED BY <3>1, <3>2 DEF IsAssigned, ReceivableOf, ByAssignment
  <2>3. SlotsCharged(s, pl) \subseteq SlotSet(pl)
    BY <2>1, <2>2 DEF ChargesOK
  <2>4. CASE Terms(pl).billing = "ONE_TIME"
    <3>1. SlotsCharged(s, pl) = {} \/ SlotsCharged(s, pl) = {Terms(pl).semester}
      BY <2>3, <2>4 DEF SlotSet, SlotsIn
    <3>2. PICK charged, semester :
            charged = SlotsCharged(s, pl) /\ (charged = {} \/ charged = {semester})
      BY <3>1
    <3>3. Cardinality(charged) <= 1
      <4>1. Cardinality({}) = 0 /\ Cardinality({semester}) = 1
        BY FS_EmptySet, FS_Singleton
      <4>2. Cardinality(charged) \in {0, 1}
        BY <3>2, <4>1
      <4>3. QED BY <4>2
    <3>4. QED BY <3>2, <3>3 DEF ChargedOnce
  <2>5. CASE Terms(pl).billing # "ONE_TIME" /\ SlotsCharged(s, pl) = {}
    BY <2>5, FS_EmptySet DEF ChargedOnce
  <2>6. CASE Terms(pl).billing # "ONE_TIME" /\ SlotsCharged(s, pl) # {}
    <3>1. SlotsCharged(s, pl) \subseteq {"HK1", "HK2"}
      BY <2>3, <2>6 DEF SlotSet, SlotsIn, Semesters
    <3>2. PICK first, second :
            first = ReceivableRow(s, pl, "HK1") /\ second = ReceivableRow(s, pl, "HK2")
      OBVIOUS
    <3>3. Together(first, second) /\ Together(second, first)
      BY <2>1, <2>6, <3>2 DEF ChargesOK, FirstHalfRow, SecondHalfRow
    <3>4. /\ first \in Charged(committed) => "HK1" \in SlotsCharged(s, pl)
          /\ second \in Charged(committed) => "HK2" \in SlotsCharged(s, pl)
      BY <3>2 DEF Charged, SlotsCharged, ReceivableOf, Slots, Semesters
    <3>5. ByAssignment(first) \/ ByAssignment(second)
      BY <2>2, <2>6, <3>1, <3>2
    <3>6. first \in Charged(committed) /\ second \in Charged(committed)
      BY <3>3, <3>5 DEF Together, ByAssignment
    <3>7. ByAssignment(first) /\ ByAssignment(second)
      BY <2>2, <3>2, <3>4, <3>6
    <3>8. committed[first].by = committed[second].by
      BY <3>3, <3>7 DEF Together
    <3>9. SlotsCharged(s, pl) = Semesters
      BY <3>1, <3>4, <3>6 DEF Semesters
    <3>10. QED BY <3>2, <3>8, <3>9 DEF ChargedOnce, ReceivableOf
  <2>7. QED BY <2>4, <2>5, <2>6
<1>2. QED BY <1>1, ChargesInvAlways, PTL
=============================================================================
