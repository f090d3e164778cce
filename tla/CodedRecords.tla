---------------------------- MODULE CodedRecords ----------------------------
(***************************************************************************)
(* Records of the office that carry a code of their own: companies,        *)
(* schools, classes, students, fee categories, fee plans and users (whose  *)
(* code is their e-mail address).  They are created under a code that was  *)
(* asked for or generated from a counter, updated and deleted; a unique    *)
(* index is all that stands between two requests for the same code.        *)
(***************************************************************************)
EXTENDS OfficeRequests

CONSTANT Codes     \* a generated code is the number its counter had

NoCode   == -1     \* no code is asked for
BaseCode == 0      \* a fee plan's first choice, made of category and year

Entities == {"companies", "schools", "classes", "students",
             "fee_categories", "fee_plans", "users"}

(* Classes and fee plans are coded anew in every school year. *)
Yearly == {"classes", "fee_plans"}

Entity(p) == work[p].entity
Scope(p)  == IF Entity(p) \in Yearly THEN local[p].year ELSE 0

CodeRow(entity, scope, code) == <<entity, <<scope, code>>>>
RowOf(p, code) == CodeRow(Entity(p), Scope(p), code)
Counter(p) == <<Entity(p), Scope(p)>>

(* A record has an identity besides its code: who created it, as which.    *)
NoRecord    == [id |-> <<>>, deleted |-> FALSE]
Legacy(code) == [id |-> <<0, code>>, deleted |-> FALSE]

IsTaken(p, code) == Sees(p, RowOf(p, code)) # NoRecord
IsLive(p, code)  == IsTaken(p, code) /\ ~Sees(p, RowOf(p, code)).deleted

-----------------------------------------------------------------------------
(* create. *)

(* Mutation: only schools look again for a code when theirs is taken. *)
OnlySchoolsRetry == {"schools"}

(* Where a generated code that turns out to be taken is replaced by the    *)
(* next one, however often that takes.                                     *)
RetriesWhenTaken == {"schools", "classes", "fee_plans"}

(* Where the code asked for is looked up first, among the live records.    *)
LooksUpFirst == {"companies", "schools", "classes", "students", "users"}

(* Where the refusal of the unique index is answered by a 409.             *)
AnswersConflict == {"schools", "classes", "students"}

Locals(p, code) == [local[p] EXCEPT !.code = code]

Inserts(p, code) == Proceeds(p, "insertRecord", {RowOf(p, code)}, Locals(p, code))
Draws(p)   == Proceeds(p, "drawCode", {SequenceRow(Counter(p))}, local[p])

Asked(p) == work[p].code # NoCode

CreateRecord(p) ==
  /\ At(p, "createRecord")
  /\ \/ /\ Asked(p)
        /\ Entity(p) \in LooksUpFirst /\ IsLive(p, work[p].code)
        /\ Refuses(p, "conflict")
     \/ /\ Asked(p)
        /\ ~(Entity(p) \in LooksUpFirst /\ IsLive(p, work[p].code))
        /\ OnlyReads
        /\ Inserts(p, work[p].code)
     \/ /\ ~Asked(p)
        /\ OnlyReads
        /\ IF Entity(p) = "fee_plans" THEN Inserts(p, BaseCode) ELSE Draws(p)

(* The counter is incremented outside of any transaction. *)
DrawCode(p) ==
  LET code == NextNumber(p, Counter(p)) IN
  /\ At(p, "drawCode")
  /\ WritesAtOnce(Drawn(p, Counter(p)))
  /\ IF Entity(p) = "students"
     THEN Proceeds(p, "lookUpStudent", {}, Locals(p, code))
     ELSE Inserts(p, code)

(* A student code that was ever given to anyone is passed over. *)
LookUpStudent(p) ==
  /\ At(p, "lookUpStudent")
  /\ OnlyReads
  /\ IF IsTaken(p, local[p].code) THEN Draws(p) ELSE Inserts(p, local[p].code)

InsertRecord(p) ==
  LET code == local[p].code IN
  /\ At(p, "insertRecord")
  /\ \/ /\ ~IsTaken(p, code)
        /\ WritesAtOnce(NewVersion(RowOf(p, code), [id |-> <<p, code>>, deleted |-> FALSE]))
        /\ Answers(p, "done")
     \/ /\ IsTaken(p, code)
        /\ ~Asked(p) /\ Entity(p) \in RetriesWhenTaken
        /\ OnlyReads
        /\ Draws(p)
     \/ /\ IsTaken(p, code)
        /\ Asked(p) \/ Entity(p) \notin RetriesWhenTaken
        /\ Refuses(p, IF Entity(p) \in AnswersConflict THEN "conflict" ELSE "failed")

-----------------------------------------------------------------------------
(* update and softDelete or remove: the record is read, then saved. *)

(* Where a new code is looked up before it is saved. *)
LooksUpNewCode == {"companies", "schools"}

(* Where deletion removes the row. *)
RemovesRows == {"classes", "fee_plans"}

NewCode(p) == work[p].newCode

IsRefused(p) ==
  /\ Entity(p) \in LooksUpNewCode
  /\ NewCode(p) # work[p].code
  /\ IsLive(p, NewCode(p))

(* save(record), under this code. *)
Saves(p, code, record) ==
  /\ OnlyReads
  /\ Proceeds(p, "saveRecord", {RowOf(p, code)},
              [local[p] EXCEPT !.code = code, !.record = record])

UpdateRecord(p) ==
  LET code == work[p].code IN
  /\ At(p, "updateRecord")
  /\ \/ ~IsLive(p, code) /\ Refuses(p, "refused")
     \/ IsLive(p, code) /\ IsRefused(p) /\ Refuses(p, "conflict")
     \/ IsLive(p, code) /\ ~IsRefused(p) /\ Saves(p, NewCode(p), Sees(p, RowOf(p, code)))

DeleteRecord(p) ==
  LET code  == work[p].code
      found == Sees(p, RowOf(p, code))
  IN
  /\ At(p, "deleteRecord")
  /\ \/ ~IsLive(p, code) /\ Refuses(p, "refused")
     \/ /\ IsLive(p, code) /\ Entity(p) \notin RemovesRows
        /\ Saves(p, code, [id |-> found.id, deleted |-> TRUE])
     \/ /\ IsLive(p, code) /\ Entity(p) \in RemovesRows
        /\ OnlyReads
        /\ Proceeds(p, "removeRecord", {}, [local[p] EXCEPT !.record = found])

(* The rows in which the record with this identity is stored by now. *)
StoredIn(p, id) ==
  {row \in {RowOf(p, code) : code \in Codes} \intersect DOMAIN committed :
     Sees(p, row).id = id}

(* save puts everything back as it was read, the mark of deletion and the  *)
(* code included: a record deleted or renamed meanwhile is as before.      *)
SaveRecord(p) ==
  LET target == RowOf(p, local[p].code)
      record == local[p].record
      stored == StoredIn(p, record.id)
      refused == Sees(p, target) # NoRecord /\ target \notin stored
  IN
  /\ At(p, "saveRecord")
  /\ \/ /\ refused
        /\ Refuses(p, IF Entity(p) = "students" /\ ~record.deleted
                      THEN "conflict" ELSE "failed")
     \/ /\ ~refused
        /\ WritesAtOnce(NewVersion(target, record) \uplus [row \in stored |-> NoRecord])
        /\ Answers(p, "done")

(* Receivables refer to their plan by a foreign key that restricts.  Which  *)
(* plans have any is told by the request.                                  *)
HasReceivables(p) == Entity(p) = "fee_plans" /\ work[p].charged

RemoveRecord(p) ==
  /\ At(p, "removeRecord")
  /\ \/ HasReceivables(p) /\ Refuses(p, "failed")
     \/ /\ ~HasReceivables(p)
        /\ WritesAtOnce([row \in StoredIn(p, local[p].record.id) |-> NoRecord])
        /\ Answers(p, "done")

RecordStatement(p) ==
  \/ CreateRecord(p) \/ DrawCode(p) \/ LookUpStudent(p) \/ InsertRecord(p)
  \/ UpdateRecord(p) \/ DeleteRecord(p) \/ SaveRecord(p)
  \/ RemoveRecord(p)
=============================================================================
