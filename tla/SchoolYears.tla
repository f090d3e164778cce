---------------------------- MODULE SchoolYears ----------------------------
(***************************************************************************)
(* The school years of one school and their two semesters.  Nobody opens   *)
(* or closes a year: reading the current one does, for the year it is by   *)
(* the clock when the request arrives.                                     *)
(***************************************************************************)
EXTENDS CodedRecords

CONSTANTS
  Years,       \* the school years, 0 being the one in which all starts
  FirstDay     \* [Years \union {the one after} -> the day number of 1 September]

Semesters == {"HK1", "HK2"}

YearRow(y)        == <<"academic_years", y>>
SemesterRow(y, s) == <<"semesters", <<y, s>>>>

NoYear     == [status |-> "NONE", start |-> 0, end |-> 0]
NoSemester == [status |-> "NONE", start |-> 0, end |-> 0]

YearOf(y, status) ==
  [status |-> status, start |-> FirstDay[y], end |-> FirstDay[y + 1] - 1]

-----------------------------------------------------------------------------
(* SemestersService.splitAcademicYear; the migrations do it in SQL. *)

AtLeast0(n) == IF n < 0 THEN 0 ELSE n

SecondStart(start, end) == start + AtLeast0((end - start + 1) \div 2)

(* Mutation: both halves get the day in the middle. *)
FirstEndOnSecondStart(start, end) == SecondStart(start, end)

FirstEnd(start, end) == start + AtLeast0((end - start + 1) \div 2 - 1)

(* The status of a semester is that of its year, by the same name. *)
DefaultSemesters(y, year) ==
  [row \in {SemesterRow(y, s) : s \in Semesters} |->
     IF row = SemesterRow(y, "HK1")
     THEN [status |-> year.status, start |-> year.start,
           end |-> FirstEnd(year.start, year.end)]
     ELSE [status |-> year.status, start |-> SecondStart(year.start, year.end),
           end |-> year.end]]

-----------------------------------------------------------------------------
(* AcademicYearsService.getCurrent. *)

(* Mutation: only the latest of them is closed. *)
LatestActiveYear(p) ==
  LET active == {y \in Years : Sees(p, YearRow(y)).status = "ACTIVE"}
  IN  {y \in active : \A other \in active : other <= y}

ActiveYears(p) == {y \in Years : Sees(p, YearRow(y)).status = "ACTIVE"}

(* UPDATE ... WHERE status = 'ACTIVE' goes through the rows it has found,   *)
(* waiting for each; then the year by the clock is opened.                 *)
GoesThrough(p, found, year) ==
  /\ pc'    = [pc EXCEPT ![p] = IF found = {} THEN "openYear" ELSE "closeYear"]
  /\ wants' = [wants EXCEPT ![p] = {YearRow(IF found = {} THEN year ELSE Min(found))}]
  /\ local' = [local EXCEPT ![p].years = found, ![p].year = year]

GetCurrent(p) ==
  /\ At(p, "getCurrent")
  /\ OnlyReads
  /\ GoesThrough(p, ActiveYears(p), now)

(* A year that somebody else has closed meanwhile is passed over. *)
CloseYear(p) ==
  LET y    == Min(local[p].years)
      year == Sees(p, YearRow(y))
  IN
  /\ At(p, "closeYear")
  /\ IF year.status = "ACTIVE"
     THEN Writes(p, NewVersion(YearRow(y), [year EXCEPT !.status = "CLOSED"]))
     ELSE OnlyReads
  /\ GoesThrough(p, local[p].years \ {y}, local[p].year)

(* Mutation: a year that is there is left as it is. *)
KeepsExistingYear(p, y) ==
  IF Sees(p, YearRow(y)) = NoYear THEN YearOf(y, "ACTIVE") ELSE Sees(p, YearRow(y))

(* upsert: whatever the year was, it gets its dates and becomes ACTIVE. *)
UpsertedYear(p, y) == YearOf(y, "ACTIVE")

OpenYear(p) ==
  LET y    == local[p].year
      year == UpsertedYear(p, y)
  IN
  /\ At(p, "openYear")
  /\ Writes(p, NewVersion(YearRow(y), year) \uplus DefaultSemesters(y, year))
  /\ Proceeds(p, "commitYear", {}, local[p])

(* Creating a class or a fee plan goes on in the year it has got. *)
CommitYear(p) ==
  /\ At(p, "commitYear")
  /\ IF Entity(p) = "academic_years" THEN Ends(p)
     ELSE Commits(p) /\ Proceeds(p, "createRecord", {}, local[p])

YearStatement(p) ==
  GetCurrent(p) \/ CloseYear(p) \/ OpenYear(p) \/ CommitYear(p)
=============================================================================
