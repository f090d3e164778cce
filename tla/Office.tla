------------------------------- MODULE Office -------------------------------
(***************************************************************************)
(* The school office: school years, coded records, fee plans, imports and  *)
(* notifications, their requests running at once.                          *)
(***************************************************************************)
EXTENDS Imports, ZaloNotifications

-----------------------------------------------------------------------------
(* What may be asked for. *)

Kinds == {"createRecord", "updateRecord", "deleteRecord", "getCurrent", "updatePlan",
          "assign", "preview", "confirm", "notify"}

(* A record is of an entity with codes; what comes with reading the current *)
(* year is a class, a fee plan or nothing.                                 *)
IsRequest(w) ==
  /\ w.kind \in Kinds \union {"done"}
  /\ w.kind \in {"createRecord", "updateRecord", "deleteRecord"} => w.entity \in Entities
  /\ w.kind = "getCurrent" => w.entity \in Yearly \union {"academic_years"}

ASSUME RequestsAssumption == IsFiniteSet(Requests) /\ 0 \notin Requests

ASSUME WorkAssumption ==
  \A w \in Workloads : \A p \in Requests : IsRequest(WorkOf(w)[p])

(* A plan is assigned to so many students. *)
ASSUME StudentsAssumption ==
  /\ IsFiniteSet(Students)
  /\ \A w \in Workloads : \A p \in Requests :
       WorkOf(w)[p].kind = "assign" /\ WorkOf(w)[p].target = "STUDENT"
         => IsFiniteSet(WorkOf(w)[p].students)

(* A school year has two days at least; the clock stops in one of them.    *)
ASSUME YearsAssumption ==
  /\ Years \subseteq Nat
  /\ \A y \in Years : /\ FirstDay[y] \in Int /\ FirstDay[y + 1] \in Int
                       /\ FirstDay[y] + 1 < FirstDay[y + 1]
  /\ \A w \in Workloads : w.until \in Nat /\ 0..w.until \subseteq Years

-----------------------------------------------------------------------------
(* The rows that are there before.                                         *)

YearRecord == [status : {"NONE", "ACTIVE", "CLOSED"}, start : Int, end : Int]

(* The two semesters of a year have every one of its days, none twice, and *)
(* are open when it is.                                                    *)
Tiles(year, first, second) ==
  /\ first.start = year.start /\ second.end = year.end
  /\ first.end + 1 = second.start
  /\ first.start <= first.end /\ second.start <= second.end
  /\ year.status = "ACTIVE" => first.status = "ACTIVE" /\ second.status = "ACTIVE"

YearsIn(rows, status) == {y \in Years : rows[YearRow(y)].status = status}

HasYear(rows) == \E y \in Years : rows[YearRow(y)] # NoYear

(* A school has no year, or one that is open.                              *)
ASSUME YearRowsAssumption ==
  \A w \in Workloads :
    /\ \A y \in Years :
         /\ {YearRow(y), SemesterRow(y, "HK1"), SemesterRow(y, "HK2")} \subseteq DOMAIN w.rows
         /\ w.rows[YearRow(y)] \in YearRecord
         /\ w.rows[YearRow(y)] # NoYear =>
              Tiles(w.rows[YearRow(y)], w.rows[SemesterRow(y, "HK1")],
                    w.rows[SemesterRow(y, "HK2")])
    /\ HasYear(w.rows) => YearsIn(w.rows, "ACTIVE") # {}

(* Every plan has its terms, every charge its place in the table.          *)
ASSUME PlanRowsAssumption ==
  \A w \in Workloads, pl \in Plans :
    /\ PlanRow(pl) \in DOMAIN w.rows
    /\ {"billing", "semester"} \subseteq DOMAIN w.rows[PlanRow(pl)]
    /\ \A s \in Students, slot \in Slots : ReceivableRow(s, pl, slot) \in DOMAIN w.rows

Charged(rows) ==
  {row \in DOMAIN rows : row[1] = "student_receivables" /\ rows[row] # NoCharge}

IsBy(id, p) == id # <<>> /\ id[1] = p

(* Nobody whose request is to come has made a student or a receivable; and *)
(* the codes to be updated or deleted are codes somebody may have.         *)
ASSUME MadeRowsAssumption ==
  \A w \in Workloads : \A p \in Requests :
    /\ \A row \in DOMAIN w.rows :
         /\ row[1] = "students" => ~ IsBy(w.rows[row].id, p)
         /\ row[1] = "student_receivables" => w.rows[row].by # p
    /\ WorkOf(w)[p].kind \in {"updateRecord", "deleteRecord"} =>
         CodeRow(WorkOf(w)[p].entity, 0, WorkOf(w)[p].code) \in DOMAIN w.rows

(* The receivables among some rows have the numbers from first to last.    *)
Numbered(rows, first, last) ==
  /\ \A row \in Charged(rows) : rows[row].number \in first..last
  /\ \A n \in first..last : \E row \in Charged(rows) : rows[row].number = n
  /\ \A row, other \in Charged(rows) : rows[row].number = rows[other].number => row = other

(* The receivables that there are have drawn their codes from the counter. *)
ASSUME ReceivableRowsAssumption ==
  \A w \in Workloads :
    /\ SequenceRow(ReceivableCounter) \in DOMAIN w.rows
    /\ w.rows[SequenceRow(ReceivableCounter)] \in Nat
    /\ Numbered(w.rows, 1, w.rows[SequenceRow(ReceivableCounter)])

(* The refresh token that is stored, or else the one to start from. *)
TokenIn(rows) ==
  IF rows[TokenRow] = NoToken THEN InitialToken ELSE rows[TokenRow].refresh

(* It is the one that Zalo takes, and nobody has been notified.            *)
ASSUME TokenRowsAssumption ==
  \A w \in Workloads :
    /\ {TokenRow, ZaloToken} \subseteq DOMAIN w.rows
    /\ w.rows[ZaloToken] \in Nat
    /\ TokenIn(w.rows) = w.rows[ZaloToken]
    /\ \A p \in Requests :
         /\ {LogRow(p), ZaloMessage(p)} \subseteq DOMAIN w.rows
         /\ w.rows[LogRow(p)] = "none" /\ w.rows[ZaloMessage(p)] = "none"

-----------------------------------------------------------------------------
Statement(p) ==
  \/ RecordStatement(p) \/ YearStatement(p) \/ ChargeStatement(p)
  \/ ImportStatement(p) \/ NotifyStatement(p)

Next ==
  \/ \E p \in Requests : Statement(p) \/ DeadlockVictim(p) \/ Crash(p)
  \/ TimePasses
  \/ AllEnded

Spec == InitRequests /\ [][Next]_requestVars

(* As long as a request can run its next statement, or is in a deadlock    *)
(* that PostgreSQL finds, one of them goes on.  No request is favoured, the *)
(* clock need not go on and nothing need fail.                             *)
Fairness == WF_requestVars(\E p \in Requests : Statement(p) \/ DeadlockVictim(p))

FairSpec == Spec /\ Fairness

-----------------------------------------------------------------------------
(* Properties. *)

(* The statements of the handlers, and the ways to end. *)
Labels == Ended \union
  {"createRecord", "drawCode", "lookUpStudent", "insertRecord", "updateRecord",
   "deleteRecord", "saveRecord", "removeRecord",
   "getCurrent", "closeYear", "openYear", "commitYear",
   "updatePlan", "savePlan", "createIfNotExists", "drawReceivableCode",
   "insertReceivable", "assign", "findStudents", "assignNext",
   "preview", "confirm", "importNext", "createStudent", "drawStudentCode",
   "insertStudent", "findEnrolment", "insertEnrolment", "saveEnrolment",
   "saveSession", "commitImport",
   "notify", "readToken", "askToken", "findToken", "saveToken", "sendMessage",
   "logFailure", "logSent"}

(* Who asks for no code gets one: neither another request for the same     *)
(* counter nor a code that somebody once chose makes the creation of a     *)
(* school, a class or a fee plan fail.                                     *)
GeneratedCodeIsNeverRefused ==
  \A p \in Requests :
    /\ work[p].kind \in {"createRecord", "getCurrent"}
    /\ Entity(p) \in {"schools", "classes", "fee_plans"}
    /\ ~Asked(p)
    => pc[p] \notin {"refused", "conflict", "failed"}

(* Once a school has a year that is open, it has one at any time, however  *)
(* many requests close the years and open theirs.                          *)
AlwaysACurrentYear == HasYear(committed) => YearsIn(committed, "ACTIVE") # {}

YearRequests == {p \in Requests : work[p].kind = "getCurrent"}

(* Two requests around the first of September may leave two years open; a  *)
(* request that comes after all of them leaves only its own.               *)
ReadingSettlesTheYear ==
  [][\A p \in YearRequests :
       /\ pc[p] = "commitYear" /\ pc'[p] \in {"done", "createRecord"}
       /\ YearRequests \ {p} \subseteq work[p].after
       => YearsIn(committed', "ACTIVE") = {local[p].year}]_requestVars

(* However many open and close it, the semesters of a year have all of its *)
(* days, none twice, and are open when it is.                              *)
SemestersTileTheYear ==
  \A y \in Years :
    committed[YearRow(y)] # NoYear =>
      Tiles(committed[YearRow(y)], committed[SemesterRow(y, "HK1")],
            committed[SemesterRow(y, "HK2")])

ReceivableOf(s, pl, slot) == committed[ReceivableRow(s, pl, slot)]

SlotsCharged(s, pl) == {slot \in Slots : ReceivableOf(s, pl, slot) # NoCharge}

ChargedOnce(s, pl) ==
  \/ Cardinality(SlotsCharged(s, pl)) <= 1
  \/ /\ SlotsCharged(s, pl) = Semesters
     /\ ReceivableOf(s, pl, "HK1").by = ReceivableOf(s, pl, "HK2").by

IsAssigned(s, pl) ==
  \A slot \in SlotsCharged(s, pl) :
    LET by == ReceivableOf(s, pl, slot).by IN by \in Requests /\ work[by].kind = "assign"

KeepsBilling(pl) ==
  \A p \in Requests : work[p].kind = "updatePlan" /\ work[p].plan = pl =>
    {"billing", "semester"} \intersect DOMAIN work[p].changes = {}

(* However often and by whom a plan is assigned, a student is charged for  *)
(* the year once: as a whole, or in two halves that one request has made;  *)
(* as long as nobody changes how the plan is billed.                       *)
AssignmentsChargeOnce ==
  \A s \in Students, pl \in Plans :
    KeepsBilling(pl) /\ IsAssigned(s, pl) => ChargedOnce(s, pl)

(* src/README.md: assigning a plan is idempotent by student and plan.      *)
AssigningIsIdempotent ==
  \A s \in Students, pl \in Plans : IsAssigned(s, pl) => ChargedOnce(s, pl)

(* The codes of receivables are numbered without gaps, in spite of         *)
(* requests that fail after they have drawn some.                          *)
ReceivableCodesGapFree ==
  LET charged == Charged(committed)
      numbers == {committed[row].number : row \in charged}
      last    == committed[SequenceRow(ReceivableCounter)]
  IN  numbers = 1..last /\ Cardinality(charged) = last

StudentsBy(p) ==
  {row \in DOMAIN committed : row[1] = "students" /\ IsBy(committed[row].id, p)}
ChargesBy(p) == {row \in Charged(committed) : committed[row].by = p}

(* A confirmation that was refused, failed, fell victim to a deadlock or   *)
(* was cut off has left neither a student nor a receivable.                *)
ImportsAreAllOrNothing ==
  \A p \in Requests :
    work[p].kind = "confirm" /\ pc[p] # "done" => StudentsBy(p) = {} /\ ChargesBy(p) = {}

(* The summary a session keeps counts what its confirmation has created,   *)
(* and every row of it was for some student.                               *)
SummaryIsTrue ==
  \A i \in Sessions :
    LET session == committed[SessionRow(i)]
        result  == session.result
    IN  session.status = "CONFIRMED" =>
          /\ result.created = Cardinality(StudentsBy(session.by))
          /\ result.charged = Cardinality(ChargesBy(session.by))
          /\ session.type # "RECEIVABLES" =>
               result.created + result.matched = Len(session.rows)

(* A session adds no more students than it has rows, by whomever and       *)
(* however often it is confirmed.                                          *)
RowsImportedOnce ==
  \A i \in Sessions :
    LET confirmations == {p \in Requests : work[p].kind = "confirm" /\ work[p].session = i}
    IN  Cardinality(UNION {StudentsBy(p) : p \in confirmations})
          <= Len(committed[SessionRow(i)].rows)

StoredToken == TokenIn(committed)

(* The refresh token that is stored is the one Zalo takes next, unless a   *)
(* request is about to store it: however many find the access token        *)
(* expired at once, the chain is not broken.  (A request that is cut off   *)
(* at that moment, or an answer that is lost, does break it.)              *)
TokenNotLost ==
  crashes = 0 =>
    \/ StoredToken = committed[ZaloToken]
    \/ \E p \in Requests : pc[p] \in {"findToken", "saveToken"}

(* A log that says SENT is true, whatever goes wrong.  While no process    *)
(* stops and no answer is lost, FAILED is true as well; and who had a      *)
(* telephone and a template is logged, also if there is no account with    *)
(* Zalo or it refuses, whereas a request without them ends with no message *)
(* and no log.                                                             *)
LogsTellTheTruth ==
  \A p \in Requests : work[p].kind = "notify" =>
    LET log       == committed[LogRow(p)]
        delivered == committed[ZaloMessage(p)] = "delivered"
    IN  /\ log = "SENT" => delivered
        /\ crashes = 0 /\ HasEnded(p) =>
             /\ log = "SENT" <=> delivered
             /\ log # "none" <=> CanBeSent(p)

(* Every request is answered: no two wait for each other for ever, and the *)
(* loops that draw another code come to a free one.                        *)
EveryOfficeRequestEnds == \A p \in Requests : <>HasEnded(p)
=============================================================================
