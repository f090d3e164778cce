------------------------- MODULE ConcurrentTheorems -------------------------
(***************************************************************************)
(* Theorems about ConcurrentPayments, for every number of requests, rows   *)
(* and amounts and every workload.                                         *)
(***************************************************************************)
EXTENDS ConcurrentPayments, ArithmeticTheorems, SequenceTheorems, FiniteSetTheorems

-----------------------------------------------------------------------------
(* The inductive invariant.                                                *)

(* The rows a request inserts, each with a key of its own. *)
OwnRows(p) ==
  {CreditRow(p), ReceiptRow(p), DiscountRow(p)}
    \union {AllocationRow(p, r) : r \in Receivables}

AllRows ==
  {ReceivableRow(r) : r \in Receivables} \union {OrderRow(o) : o \in Orders}
    \union {TransactionRow(t) : t \in Transactions}
    \union {ReconciliationRow(t) : t \in Transactions}
    \union {SequenceRow} \union UNION {OwnRows(p) : p \in Requests}

WorkOK == \A p \in Requests :
  /\ work[p].kind \in Kinds \union {"done"}
  /\ work[p].transaction \in Transactions
  /\ work[p].order \in Orders \union {NoOrder}
  /\ work[p].kind = "getQr" => work[p].order \in Orders
  /\ work[p].kind = "discount" =>
       work[p].receivable \in Receivables /\ work[p].amount \in Nat

Shapes ==
  /\ DOMAIN written = Requests
  /\ AllRows \subseteq DOMAIN committed
  /\ pc \in [Requests -> Labels]
  /\ DOMAIN local = Requests
  /\ \A p \in Requests : DOMAIN local[p] = DOMAIN NoLocals

AllocationLabels ==
  {"readItem", "saveAllocation", "applyPayment", "checkItem", "saveOrder",
   "updateOrder", "saveTransaction", "updateTransaction", "issueReceipt"}

MatchLabels ==
  {"readTransaction", "readOrder", "saveReconciliation", "updateReconciliation"}

UnmatchLabels ==
  {"findAllocations", "reversePayment", "findReceipt", "cancelReceipt",
   "findCredits", "voidCredit", "saveTransaction", "updateTransaction",
   "saveReconciliation", "updateReconciliation"}

(* The statements each kind of request comes to. *)
OnPath(kind, label) ==
  \/ label \in Ended \union {kind}
  \/ kind # "done" /\ label = "commit"
  \/ kind = "ingest"   /\ label \in AllocationLabels \union {"findOrder"}
  \/ kind = "match"    /\ label \in AllocationLabels \union MatchLabels
  \/ kind = "unmatch"  /\ label \in UnmatchLabels
  \/ kind = "getQr"    /\ label \in {"saveOrder", "updateOrder"}
  \/ kind = "discount" /\ label \in {"saveDiscount", "applyDiscount"}

StaysOnPath(p) == OnPath(work[p].kind, pc[p])

Underway(p) == pc[p] \notin Kinds \union Ended

(* What the variables of a request's code hold, where it uses them. *)
LocalsOK(p) ==
  /\ pc[p] \in {"failed", "ingest", "match", "findOrder", "readTransaction",
                "readOrder"} => local[p].item = 1
  /\ pc[p] \in AllocationLabels /\ work[p].kind \in {"ingest", "match"} =>
       OrderOf(p) \in Orders
  /\ pc[p] = "readItem" => local[p].item \in 1..(Len(ItemsOf(p)) + 1)
  /\ pc[p] \in {"saveAllocation", "applyPayment", "checkItem"} =>
       local[p].item \in 1..Len(ItemsOf(p))

(* What is still to be reversed or voided was committed by its request. *)
TodoOK(p) ==
  /\ pc[p] = "reversePayment" =>
       /\ local[p].todo \in Seq(Requests \X Receivables) /\ local[p].todo # <<>>
       /\ \A i \in DOMAIN local[p].todo : pc[local[p].todo[i][1]] = "done"
  /\ pc[p] \in {"cancelReceipt", "voidCredit"} =>
       /\ local[p].todo \in Seq(Requests) /\ local[p].todo # <<>>
       /\ \A i \in DOMAIN local[p].todo : pc[local[p].todo[i]] = "done"

(* Rows of a request that has not committed are as before it. *)
Unborn(p) ==
  /\ committed[CreditRow(p)].status = "NONE"
  /\ committed[ReceiptRow(p)] = [number |-> 0, status |-> "NONE"]
  /\ committed[DiscountRow(p)] = 0
  /\ \A r \in Receivables : committed[AllocationRow(p, r)].amount = 0

(* Who has an open version of a row has a right to it. *)
OwnOrCommitted(p) ==
  \A q \in Requests : \A row \in OwnRows(q) :
    row \in DOMAIN written[p] =>
      \/ q = p /\ work[p].kind # "unmatch"
      \/ pc[q] = "done"

IsKnown(t) == committed[TransactionRow(t)].status # "NONE"

TransferRowsHeld(p) ==
  \A t \in Transactions :
    /\ TransactionRow(t) \in DOMAIN written[p] =>
         /\ t = TransactionOf(p)
         /\ written[p][TransactionRow(t)].status # "NONE"
         /\ work[p].kind \in {"ingest", "match", "unmatch"}
    /\ ReconciliationRow(t) \in DOMAIN written[p] =>
         /\ t = TransactionOf(p)
         /\ written[p][ReconciliationRow(t)].status # "NONE"
         /\ work[p].kind \in {"ingest", "match", "unmatch"}

(* A notification holds the transfer it inserts; a match or an unmatch     *)
(* works on a transfer that is known.                                      *)
HoldsTransfer(p) ==
  Underway(p) =>
    /\ work[p].kind = "ingest" =>
         /\ TransactionRow(TransactionOf(p)) \in DOMAIN written[p]
         /\ ~ IsKnown(TransactionOf(p))
         /\ pc[p] # "findOrder" =>
              ReconciliationRow(TransactionOf(p)) \in DOMAIN written[p]
    /\ work[p].kind \in {"match", "unmatch"} => IsKnown(TransactionOf(p))

OneWriter ==
  \A p \in Requests :
    /\ pc[p] \in Ended \union Kinds => written[p] = NothingWritten
    /\ \A q \in Requests \ {p} : DOMAIN written[p] \intersect DOMAIN written[q] = {}

KnownTogether ==
  \A t \in Transactions :
    IsKnown(t) <=> committed[ReconciliationRow(t)].status # "NONE"

WriterInv ==
  /\ WorkOK /\ Shapes /\ OneWriter /\ KnownTogether
  /\ \A p \in Requests :
       /\ StaysOnPath(p) /\ LocalsOK(p) /\ TodoOK(p)
       /\ pc[p] # "done" => Unborn(p)
       /\ OwnOrCommitted(p) /\ TransferRowsHeld(p) /\ HoldsTransfer(p)

-----------------------------------------------------------------------------
(* Rows of different tables, or with different keys, are different rows.   *)

LEMMA TransferRowsApart ==
  /\ \A t, u : TransactionRow(t) = TransactionRow(u) => t = u
  /\ \A t, u : ReconciliationRow(t) = ReconciliationRow(u) => t = u
  /\ \A t, u : TransactionRow(t) # ReconciliationRow(u)
  /\ \A t, p : TransactionRow(t) \notin OwnRows(p)
  /\ \A t, p : ReconciliationRow(t) \notin OwnRows(p)
BY DEF TransactionRow, ReconciliationRow, OwnRows, CreditRow, ReceiptRow,
       DiscountRow, AllocationRow

LEMMA SharedRowsApart ==
  /\ \A r, t : ReceivableRow(r) # TransactionRow(t)
  /\ \A r, t : ReceivableRow(r) # ReconciliationRow(t)
  /\ \A r, o : ReceivableRow(r) # OrderRow(o)
  /\ \A r, p : ReceivableRow(r) \notin OwnRows(p)
  /\ \A o, t : OrderRow(o) # TransactionRow(t)
  /\ \A o, t : OrderRow(o) # ReconciliationRow(t)
  /\ \A o, p : OrderRow(o) \notin OwnRows(p)
  /\ \A t : SequenceRow # TransactionRow(t)
  /\ \A t : SequenceRow # ReconciliationRow(t)
  /\ \A o : SequenceRow # OrderRow(o)
  /\ \A r : SequenceRow # ReceivableRow(r)
  /\ \A p : SequenceRow \notin OwnRows(p)
BY DEF TransactionRow, ReconciliationRow, ReceivableRow, OrderRow, SequenceRow,
       OwnRows, CreditRow, ReceiptRow, DiscountRow, AllocationRow

LEMMA OwnRowsApart ==
  ASSUME NEW p, NEW q
  PROVE  /\ CreditRow(p) \in OwnRows(p) /\ ReceiptRow(p) \in OwnRows(p)
         /\ DiscountRow(p) \in OwnRows(p)
         /\ \A r \in Receivables : AllocationRow(p, r) \in OwnRows(p)
         /\ OwnRows(p) \intersect OwnRows(q) # {} => p = q
BY DEF OwnRows, CreditRow, ReceiptRow, DiscountRow, AllocationRow

LEMMA AllRowsHere ==
  /\ \A r \in Receivables : ReceivableRow(r) \in AllRows
  /\ \A o \in Orders : OrderRow(o) \in AllRows
  /\ \A t \in Transactions : TransactionRow(t) \in AllRows
  /\ \A t \in Transactions : ReconciliationRow(t) \in AllRows
  /\ \A p \in Requests : OwnRows(p) \subseteq AllRows
  /\ SequenceRow \in AllRows
BY DEF AllRows

-----------------------------------------------------------------------------
(* What the statements of ReadCommitted do to the rows.                    *)

LEMMA WritesRows ==
  ASSUME NEW p \in Requests, NEW versions, DOMAIN written = Requests,
         Writes(p, versions)
  PROVE  /\ committed' = committed
         /\ DOMAIN written' = Requests
         /\ \A q \in Requests \ {p} : written'[q] = written[q]
         /\ DOMAIN written'[p] = DOMAIN versions \union DOMAIN written[p]
         /\ \A row \in DOMAIN versions : written'[p][row] = versions[row]
         /\ \A row \in DOMAIN written[p] \ DOMAIN versions :
              written'[p][row] = written[p][row]
<1>1. written' = [written EXCEPT ![p] = versions \uplus @] /\ committed' = committed
  BY DEF Writes
<1>2. /\ DOMAIN written' = Requests
      /\ \A q \in Requests \ {p} : written'[q] = written[q]
      /\ written'[p] = versions \uplus written[p]
  BY <1>1
<1>3. QED BY <1>1, <1>2 DEF \uplus

LEMMA CommitsRows ==
  ASSUME NEW p \in Requests, DOMAIN written = Requests, Commits(p)
  PROVE  /\ DOMAIN written' = Requests
         /\ \A q \in Requests \ {p} : written'[q] = written[q]
         /\ written'[p] = NothingWritten
         /\ DOMAIN committed' = DOMAIN written[p] \union DOMAIN committed
         /\ \A row \in DOMAIN written[p] : committed'[row] = written[p][row]
         /\ \A row \in DOMAIN committed \ DOMAIN written[p] :
              committed'[row] = committed[row]
BY DEF Commits, \uplus

LEMMA RollsBackRows ==
  ASSUME NEW p \in Requests, DOMAIN written = Requests, RollsBack(p)
  PROVE  /\ committed' = committed
         /\ DOMAIN written' = Requests
         /\ \A q \in Requests \ {p} : written'[q] = written[q]
         /\ written'[p] = NothingWritten
BY DEF RollsBack

LEMMA NoLocalsItem == NoLocals.item = 1
BY DEF NoLocals

LEMMA NothingIsWritten == DOMAIN NothingWritten = {}
BY DEF NothingWritten

(* A step of p that leaves the code of the others alone. *)
Alone(p) ==
  /\ work' = work
  /\ pc' \in [Requests -> Labels]
  /\ DOMAIN local' = Requests
  /\ DOMAIN local'[p] = DOMAIN NoLocals
  /\ \A q \in Requests \ {p} : pc'[q] = pc[q] /\ local'[q] = local[q]

LEMMA ProceedsAlone ==
  ASSUME Shapes, NEW p \in Requests, NEW label \in Labels, NEW locals,
         DOMAIN locals = DOMAIN NoLocals, Proceeds(p, label, locals), work' = work
  PROVE  Alone(p) /\ pc'[p] = label /\ local'[p] = locals
BY DEF Shapes, Proceeds, Goto, Alone

LEMMA GotoAlone ==
  ASSUME Shapes, NEW p \in Requests, NEW label \in Labels, Goto(p, label),
         local' = local, work' = work
  PROVE  Alone(p) /\ pc'[p] = label /\ local'[p] = local[p]
BY DEF Shapes, Goto, Alone

-----------------------------------------------------------------------------
(* What each kind of step needs for the invariant to hold after it.        *)

(* A step of p, as far as the code and the rows of the others go. *)
LEMMA OthersKeep ==
  ASSUME WriterInv, NEW p \in Requests, NEW q \in Requests \ {p}, Alone(p),
         written'[q] = written[q], pc[p] # "done"
  PROVE  /\ StaysOnPath(q)' /\ LocalsOK(q)' /\ TodoOK(q)'
         /\ OwnOrCommitted(q)' /\ TransferRowsHeld(q)'
         /\ written'[q] = NothingWritten \/ ~ (pc'[q] \in Ended \union Kinds)
         /\ Underway(q)' = Underway(q)
<1>0. /\ pc'[q] = pc[q] /\ local'[q] = local[q] /\ work' = work
      /\ \A d \in Requests : pc[d] = "done" => pc'[d] = "done"
      /\ StaysOnPath(q) /\ LocalsOK(q) /\ TodoOK(q) /\ OwnOrCommitted(q)
      /\ TransferRowsHeld(q)
  BY DEF WriterInv, Alone
<1>1. StaysOnPath(q)' /\ LocalsOK(q)'
  BY <1>0 DEF StaysOnPath, OnPath, LocalsOK, OrderOf, ItemsOf
<1>2. TodoOK(q)'
  <2>1. ASSUME pc[q] = "reversePayment", NEW i \in DOMAIN local[q].todo
        PROVE  pc'[local[q].todo[i][1]] = "done"
    BY <1>0, <2>1, ElementOfSeq DEF TodoOK
  <2>2. ASSUME pc[q] \in {"cancelReceipt", "voidCredit"},
               NEW i \in DOMAIN local[q].todo
        PROVE  pc'[local[q].todo[i]] = "done"
    BY <1>0, <2>2, ElementOfSeq DEF TodoOK
  <2>3. QED BY <1>0, <2>1, <2>2 DEF TodoOK
<1>3. OwnOrCommitted(q)'
  BY <1>0 DEF OwnOrCommitted
<1>4. TransferRowsHeld(q)'
  BY <1>0 DEF TransferRowsHeld, TransactionOf
<1>5. written'[q] = NothingWritten \/ ~ (pc'[q] \in Ended \union Kinds)
  BY <1>0 DEF WriterInv, OneWriter
<1>6. Underway(q)' = Underway(q)
  BY <1>0 DEF Underway
<1>7. QED BY <1>1, <1>2, <1>3, <1>4, <1>5, <1>6

LEMMA ReadsStep ==
  ASSUME WriterInv, NEW p \in Requests, OnlyReads, Alone(p), pc[p] # "done",
         pc'[p] \in Ended \union Kinds => written[p] = NothingWritten,
         StaysOnPath(p)', LocalsOK(p)', TodoOK(p)', HoldsTransfer(p)'
  PROVE  WriterInv'
<1>0. committed' = committed /\ written' = written /\ work' = work
  BY DEF OnlyReads, Alone
<1>1. WorkOK' /\ Shapes' /\ KnownTogether'
  BY <1>0 DEF WriterInv, WorkOK, Shapes, KnownTogether, IsKnown, Alone
<1>2. ASSUME NEW q \in Requests \ {p}
      PROVE  /\ StaysOnPath(q)' /\ LocalsOK(q)' /\ TodoOK(q)'
             /\ pc'[q] # "done" => Unborn(q)'
             /\ OwnOrCommitted(q)' /\ TransferRowsHeld(q)' /\ HoldsTransfer(q)'
             /\ pc'[q] \in Ended \union Kinds => written'[q] = NothingWritten
  <2>1. HoldsTransfer(q)'
    BY <1>0, OthersKeep
       DEF WriterInv, HoldsTransfer, IsKnown, TransactionOf, Alone
  <2>2. pc'[q] # "done" => Unborn(q)'
    BY <1>0 DEF WriterInv, Unborn, Alone
  <2>3. QED BY <1>0, <2>1, <2>2, OthersKeep
<1>3. pc'[p] # "done" => Unborn(p)'
  BY <1>0 DEF WriterInv, Unborn
<1>4. OwnOrCommitted(p)' /\ TransferRowsHeld(p)'
  <2>1. \A d \in Requests : pc[d] = "done" => pc'[d] = "done"
    BY DEF Alone
  <2>2. OwnOrCommitted(p)'
    BY <1>0, <2>1 DEF WriterInv, OwnOrCommitted
  <2>3. TransferRowsHeld(p)'
    BY <1>0 DEF WriterInv, TransferRowsHeld, TransactionOf
  <2>4. QED BY <2>2, <2>3
<1>5. OneWriter'
  BY <1>0, <1>2 DEF WriterInv, OneWriter
<1>6. QED BY <1>1, <1>2, <1>3, <1>4, <1>5 DEF WriterInv

(* A request may write the rows nobody else has a version of, if they are  *)
(* its own, or of requests that have committed, and those of its transfer. *)
MayWrite(p, versions) ==
  /\ \A q \in Requests \ {p} : DOMAIN versions \intersect DOMAIN written[q] = {}
  /\ \A q \in Requests : \A row \in OwnRows(q) :
       row \in DOMAIN versions =>
         (q = p /\ work[p].kind # "unmatch") \/ pc[q] = "done"
  /\ \A t \in Transactions :
       /\ TransactionRow(t) \in DOMAIN versions =>
            /\ t = TransactionOf(p)
            /\ versions[TransactionRow(t)].status # "NONE"
            /\ work[p].kind \in {"ingest", "match", "unmatch"}
       /\ ReconciliationRow(t) \in DOMAIN versions =>
            /\ t = TransactionOf(p)
            /\ versions[ReconciliationRow(t)].status # "NONE"
            /\ work[p].kind \in {"ingest", "match", "unmatch"}

LEMMA WritesStep ==
  ASSUME WriterInv, NEW p \in Requests, NEW versions, Writes(p, versions),
         MayWrite(p, versions), Alone(p), pc[p] # "done",
         pc'[p] \notin Ended \union Kinds,
         StaysOnPath(p)', LocalsOK(p)', TodoOK(p)', HoldsTransfer(p)'
  PROVE  WriterInv'
<1>0. /\ committed' = committed /\ work' = work
      /\ DOMAIN written' = Requests
      /\ \A q \in Requests \ {p} : written'[q] = written[q]
      /\ DOMAIN written'[p] = DOMAIN versions \union DOMAIN written[p]
      /\ \A row \in DOMAIN versions : written'[p][row] = versions[row]
      /\ \A row \in DOMAIN written[p] \ DOMAIN versions :
           written'[p][row] = written[p][row]
  BY WritesRows DEF WriterInv, Shapes, Alone
<1>1. WorkOK' /\ Shapes' /\ KnownTogether'
  BY <1>0 DEF WriterInv, WorkOK, Shapes, KnownTogether, IsKnown, Alone
<1>2. ASSUME NEW q \in Requests \ {p}
      PROVE  /\ StaysOnPath(q)' /\ LocalsOK(q)' /\ TodoOK(q)'
             /\ pc'[q] # "done" => Unborn(q)'
             /\ OwnOrCommitted(q)' /\ TransferRowsHeld(q)' /\ HoldsTransfer(q)'
             /\ pc'[q] \in Ended \union Kinds => written'[q] = NothingWritten
  <2>1. HoldsTransfer(q)'
    BY <1>0, OthersKeep
       DEF WriterInv, HoldsTransfer, IsKnown, TransactionOf, Alone
  <2>2. pc'[q] # "done" => Unborn(q)'
    BY <1>0 DEF WriterInv, Unborn, Alone
  <2>3. QED BY <1>0, <2>1, <2>2, OthersKeep
<1>3. Unborn(p)'
  BY <1>0 DEF WriterInv, Unborn
<1>4. OwnOrCommitted(p)'
  <2>1. \A d \in Requests : pc[d] = "done" => pc'[d] = "done"
    BY DEF Alone
  <2>2. QED BY <1>0, <2>1 DEF WriterInv, OwnOrCommitted, MayWrite
<1>5. TransferRowsHeld(p)'
  BY <1>0 DEF WriterInv, TransferRowsHeld, TransactionOf, MayWrite
<1>6. OneWriter'
  <2>1. ASSUME NEW q \in Requests, NEW u \in Requests \ {q}
        PROVE  DOMAIN written'[q] \intersect DOMAIN written'[u] = {}
    <3>1. DOMAIN written[q] \intersect DOMAIN written[u] = {}
      BY DEF WriterInv, OneWriter
    <3>2. QED BY <1>0, <3>1 DEF MayWrite
  <2>2. QED BY <1>2, <2>1 DEF OneWriter
<1>7. QED BY <1>1, <1>2, <1>3, <1>4, <1>5, <1>6 DEF WriterInv

LEMMA FailsStep ==
  ASSUME WriterInv, NEW p \in Requests, Fails(p), work' = work, pc[p] # "done"
  PROVE  WriterInv'
<1>0. Shapes /\ DOMAIN written = Requests
  BY DEF WriterInv, Shapes
<1>1. /\ committed' = committed /\ DOMAIN written' = Requests
      /\ \A q \in Requests \ {p} : written'[q] = written[q]
      /\ written'[p] = NothingWritten /\ DOMAIN written'[p] = {}
  BY <1>0, RollsBackRows, NothingIsWritten DEF Fails
<1>2. Alone(p) /\ pc'[p] = "failed" /\ local'[p] = NoLocals /\ work' = work
  BY <1>0, ProceedsAlone DEF Fails, Labels, Ended
<1>3. WorkOK' /\ Shapes' /\ KnownTogether'
  BY <1>1, <1>2 DEF WriterInv, WorkOK, Shapes, KnownTogether, IsKnown, Alone
<1>4. ASSUME NEW q \in Requests \ {p}
      PROVE  /\ StaysOnPath(q)' /\ LocalsOK(q)' /\ TodoOK(q)'
             /\ pc'[q] # "done" => Unborn(q)'
             /\ OwnOrCommitted(q)' /\ TransferRowsHeld(q)' /\ HoldsTransfer(q)'
             /\ pc'[q] \in Ended \union Kinds => written'[q] = NothingWritten
  <2>1. HoldsTransfer(q)'
    BY <1>1, <1>2, OthersKeep
       DEF WriterInv, HoldsTransfer, IsKnown, TransactionOf, Alone
  <2>2. pc'[q] # "done" => Unborn(q)'
    BY <1>1, <1>2 DEF WriterInv, Unborn, Alone
  <2>3. QED BY <1>1, <1>2, <2>1, <2>2, OthersKeep
<1>5. /\ StaysOnPath(p)' /\ LocalsOK(p)' /\ TodoOK(p)' /\ Unborn(p)'
      /\ OwnOrCommitted(p)' /\ TransferRowsHeld(p)' /\ HoldsTransfer(p)'
  <2>0. local'[p].item = 1
    BY <1>2, NoLocalsItem
  <2>1. StaysOnPath(p)' /\ LocalsOK(p)' /\ TodoOK(p)' /\ HoldsTransfer(p)'
    BY <1>2, <2>0 DEF StaysOnPath, OnPath, LocalsOK, TodoOK, HoldsTransfer, Underway, Ended,
                      AllocationLabels
  <2>2. Unborn(p)'
    BY <1>1 DEF WriterInv, Unborn
  <2>3. OwnOrCommitted(p)' /\ TransferRowsHeld(p)'
    BY <1>1 DEF OwnOrCommitted, TransferRowsHeld
  <2>4. QED BY <2>1, <2>2, <2>3
<1>6. OneWriter'
  <2>1. \A q \in Requests : \A u \in Requests \ {q} :
          DOMAIN written[q] \intersect DOMAIN written[u] = {}
    BY DEF WriterInv, OneWriter
  <2>2. QED BY <1>1, <1>4, <2>1 DEF OneWriter
<1>7. QED BY <1>3, <1>4, <1>5, <1>6 DEF WriterInv

(* A commit: of a request that has written nothing yet, or of one that has *)
(* run its last statement.                                                 *)
LEMMA EndsStep ==
  ASSUME WriterInv, NEW p \in Requests, Ends(p), work' = work,
         pc[p] \in Kinds \union {"commit"}
  PROVE  WriterInv'
<1>0. /\ Shapes /\ DOMAIN written = Requests /\ pc[p] # "done"
      /\ AllRows \subseteq DOMAIN committed
  BY DEF WriterInv, Shapes, Kinds
<1>1. /\ DOMAIN written' = Requests
      /\ \A q \in Requests \ {p} : written'[q] = written[q]
      /\ written'[p] = NothingWritten /\ DOMAIN written'[p] = {}
      /\ DOMAIN committed' = DOMAIN written[p] \union DOMAIN committed
      /\ \A row \in DOMAIN written[p] : committed'[row] = written[p][row]
      /\ \A row \in AllRows \ DOMAIN written[p] : committed'[row] = committed[row]
  BY <1>0, CommitsRows, NothingIsWritten DEF Ends
<1>2. Alone(p) /\ pc'[p] = "done" /\ local'[p] = NoLocals /\ work' = work
  BY <1>0, ProceedsAlone DEF Ends, Labels, Ended
<1>3. WorkOK' /\ Shapes'
  BY <1>0, <1>1, <1>2 DEF WriterInv, WorkOK, Shapes, Alone
<1>4. ASSUME NEW t \in Transactions
      PROVE  /\ IsKnown(t)' <=> (committed[ReconciliationRow(t)].status # "NONE")'
             /\ IsKnown(t) => IsKnown(t)'
             /\ IsKnown(t)' => IsKnown(t) \/ TransactionRow(t) \in DOMAIN written[p]
  <2>1. TransactionRow(t) \in AllRows /\ ReconciliationRow(t) \in AllRows
    BY AllRowsHere
  <2>2. TransferRowsHeld(p) /\ HoldsTransfer(p) /\ KnownTogether
    BY DEF WriterInv
  <2>3. CASE TransactionRow(t) \notin DOMAIN written[p]
               /\ ReconciliationRow(t) \notin DOMAIN written[p]
    BY <1>1, <2>1, <2>2, <2>3 DEF KnownTogether, IsKnown
  <2>4. CASE TransactionRow(t) \in DOMAIN written[p]
               \/ ReconciliationRow(t) \in DOMAIN written[p]
    <3>1. /\ t = TransactionOf(p) /\ work[p].kind \in {"ingest", "match", "unmatch"}
          /\ TransactionRow(t) \in DOMAIN written[p] =>
               written[p][TransactionRow(t)].status # "NONE"
          /\ ReconciliationRow(t) \in DOMAIN written[p] =>
               written[p][ReconciliationRow(t)].status # "NONE"
      BY <2>2, <2>4 DEF TransferRowsHeld
    <3>2. pc[p] = "commit"
      BY <2>4, NothingIsWritten DEF WriterInv, OneWriter
    <3>3. Underway(p)
      BY <3>2 DEF Underway, Kinds, Ended
    <3>4. CASE work[p].kind = "ingest"
      <4>1. /\ TransactionRow(t) \in DOMAIN written[p]
            /\ ReconciliationRow(t) \in DOMAIN written[p]
        BY <2>2, <3>1, <3>2, <3>3, <3>4 DEF HoldsTransfer
      <4>2. QED BY <1>1, <2>1, <3>1, <4>1 DEF IsKnown
    <3>5. CASE work[p].kind # "ingest"
      <4>1. IsKnown(t)
        BY <2>2, <3>1, <3>3, <3>5 DEF HoldsTransfer
      <4>2. QED BY <1>1, <2>1, <2>2, <3>1, <4>1 DEF IsKnown, KnownTogether
    <3>6. QED BY <3>4, <3>5
  <2>5. QED BY <2>3, <2>4
<1>5. KnownTogether'
  BY <1>4 DEF KnownTogether
<1>6. ASSUME NEW q \in Requests \ {p}
      PROVE  /\ StaysOnPath(q)' /\ LocalsOK(q)' /\ TodoOK(q)'
             /\ pc'[q] # "done" => Unborn(q)'
             /\ OwnOrCommitted(q)' /\ TransferRowsHeld(q)' /\ HoldsTransfer(q)'
             /\ pc'[q] \in Ended \union Kinds => written'[q] = NothingWritten
  <2>1. HoldsTransfer(q)'
    <3>1. TransactionOf(q) \in Transactions /\ TransactionOf(q)' = TransactionOf(q)
      BY <1>2 DEF WriterInv, WorkOK, TransactionOf
    <3>2. TransactionRow(TransactionOf(q)) \in DOMAIN written[q] =>
            TransactionRow(TransactionOf(q)) \notin DOMAIN written[p]
      BY DEF WriterInv, OneWriter
    <3>3. HoldsTransfer(q) /\ Underway(q)' = Underway(q) /\ pc'[q] = pc[q]
          /\ work' = work /\ written'[q] = written[q]
      BY <1>0, <1>1, <1>2, OthersKeep DEF WriterInv, Alone
    <3>4. QED BY <1>4, <3>1, <3>2, <3>3 DEF HoldsTransfer
  <2>2. ASSUME pc'[q] # "done" PROVE Unborn(q)'
    <3>1. Unborn(q) /\ pc[q] # "done"
      BY <1>2, <2>2 DEF WriterInv, Alone
    <3>2. \A row \in OwnRows(q) : row \notin DOMAIN written[p]
      BY <3>1 DEF WriterInv, OwnOrCommitted
    <3>3. OwnRows(q) \subseteq AllRows
      BY AllRowsHere
    <3>4. \A row \in OwnRows(q) : committed'[row] = committed[row]
      BY <1>1, <3>2, <3>3
    <3>5. QED BY <3>1, <3>4, OwnRowsApart DEF Unborn
  <2>3. QED BY <1>0, <1>1, <1>2, <2>1, <2>2, OthersKeep
<1>7. /\ StaysOnPath(p)' /\ LocalsOK(p)' /\ TodoOK(p)'
      /\ OwnOrCommitted(p)' /\ TransferRowsHeld(p)' /\ HoldsTransfer(p)'
  <2>1. StaysOnPath(p)' /\ LocalsOK(p)' /\ TodoOK(p)' /\ HoldsTransfer(p)'
    BY <1>2 DEF StaysOnPath, OnPath, LocalsOK, TodoOK, HoldsTransfer, Underway, Ended,
                AllocationLabels, NoLocals
  <2>2. OwnOrCommitted(p)' /\ TransferRowsHeld(p)'
    BY <1>1 DEF OwnOrCommitted, TransferRowsHeld
  <2>3. QED BY <2>1, <2>2
<1>8. OneWriter'
  <2>1. \A q \in Requests : \A u \in Requests \ {q} :
          DOMAIN written[q] \intersect DOMAIN written[u] = {}
    BY DEF WriterInv, OneWriter
  <2>2. QED BY <1>1, <1>6, <2>1 DEF OneWriter
<1>9. QED BY <1>2, <1>3, <1>5, <1>6, <1>7, <1>8 DEF WriterInv

-----------------------------------------------------------------------------
(* The statements, one by one.                                             *)

(* What a request wants, it gets when nobody has a version of it. *)
LEMMA WantedIsFree ==
  ASSUME NEW p \in Requests, NEW label, At(p, label), NEW row \in Wanted(p)
  PROVE  \A q \in Requests \ {p} : row \notin DOMAIN written[q]
BY DEF At, Blockers

(* Nobody else touches the rows a running request inserts. *)
LEMMA OwnIsFree ==
  ASSUME WriterInv, NEW p \in Requests, pc[p] # "done", NEW row \in OwnRows(p)
  PROVE  \A q \in Requests \ {p} : row \notin DOMAIN written[q]
BY DEF WriterInv, OwnOrCommitted

LEMMA HeldIsFree ==
  ASSUME WriterInv, NEW p \in Requests, NEW row \in DOMAIN written[p]
  PROVE  \A q \in Requests \ {p} : row \notin DOMAIN written[q]
BY DEF WriterInv, OneWriter

LEMMA OneVersion ==
  ASSUME NEW row, NEW version
  PROVE  /\ DOMAIN NewVersion(row, version) = {row}
         /\ NewVersion(row, version)[row] = version
BY DEF NewVersion

LEMMA TwoVersions ==
  ASSUME NEW a, NEW b, NEW v, NEW w
  PROVE  LET both == NewVersion(a, v) \uplus NewVersion(b, w) IN
         /\ DOMAIN both = {a, b}
         /\ both[a] = v
         /\ a # b => both[b] = w
BY DEF NewVersion, \uplus

(* Where a request stands when it runs a statement. *)
LEMMA Standing ==
  ASSUME WriterInv, NEW p \in Requests, NEW label, At(p, label)
  PROVE  /\ Shapes /\ pc[p] = label /\ work' = work
         /\ DOMAIN local[p] = DOMAIN NoLocals
         /\ StaysOnPath(p) /\ LocalsOK(p) /\ TodoOK(p) /\ HoldsTransfer(p)
         /\ OwnOrCommitted(p)
         /\ TransactionOf(p) \in Transactions /\ TransactionOf(p)' = TransactionOf(p)
         /\ work[p].kind \in Kinds \union {"done"}
BY DEF WriterInv, Shapes, At, load, WorkOK, TransactionOf

(* A request that goes on keeps its hold on its transfer. *)
LEMMA HoldGoesOn ==
  ASSUME NEW p \in Requests, HoldsTransfer(p), Underway(p), pc[p] # "findOrder",
         committed' = committed, work' = work,
         DOMAIN written[p] \subseteq DOMAIN written'[p]
  PROVE  HoldsTransfer(p)'
BY DEF HoldsTransfer, IsKnown, TransactionOf

(* A statement that only reads leads to a state of the invariant. *)
LEMMA ReadOn ==
  ASSUME WriterInv, NEW p \in Requests, NEW label, At(p, label), OnlyReads, Alone(p),
         Underway(p), pc[p] # "findOrder", pc'[p] \notin Ended \union Kinds,
         StaysOnPath(p)', LocalsOK(p)', TodoOK(p)'
  PROVE  WriterInv'
<1>1. HoldsTransfer(p)'
  BY Standing, HoldGoesOn DEF OnlyReads
<1>2. pc[p] # "done"
  BY DEF Underway, Ended
<1>3. QED BY <1>1, <1>2, ReadsStep

LEMMA WriteOn ==
  ASSUME WriterInv, NEW p \in Requests, NEW label, At(p, label), NEW versions,
         Writes(p, versions), MayWrite(p, versions), Alone(p),
         Underway(p), pc[p] # "findOrder", pc'[p] \notin Ended \union Kinds,
         StaysOnPath(p)', LocalsOK(p)', TodoOK(p)'
  PROVE  WriterInv'
<1>1. HoldsTransfer(p)'
  BY Standing, HoldGoesOn, WritesRows DEF Shapes
<1>2. pc[p] # "done"
  BY DEF Underway, Ended
<1>3. QED BY <1>1, <1>2, WritesStep

LEMMA IngestStep ==
  ASSUME WriterInv, NEW p \in Requests, Ingest(p)
  PROVE  WriterInv'
<1> DEFINE t == TransactionOf(p)
           versions == NewVersion(TransactionRow(t), [status |-> "RECEIVED"])
<1>0. /\ Shapes /\ pc[p] = "ingest" /\ work' = work /\ work[p].kind = "ingest"
      /\ t \in Transactions /\ TransactionOf(p)' = t /\ At(p, "ingest")
      /\ local[p].item = 1
  BY Standing DEF Ingest, StaysOnPath, OnPath, LocalsOK, Ended, AllocationLabels, MatchLabels,
                  UnmatchLabels
<1>1. CASE AlreadyRecorded(p) /\ Ends(p)
  BY <1>0, <1>1, EndsStep DEF Kinds
<1>2. CASE ~AlreadyRecorded(p) /\ Writes(p, versions) /\ Goto(p, "findOrder")
             /\ local' = local
  <2>1. Alone(p) /\ pc'[p] = "findOrder" /\ local'[p] = local[p]
    BY <1>0, <1>2, GotoAlone DEF Labels
  <2>2. written[p] = NothingWritten
    BY <1>0 DEF WriterInv, OneWriter, Kinds
  <2>3. ~ IsKnown(t)
    BY <1>2, <2>2, NothingIsWritten DEF AlreadyRecorded, Sees, IsKnown
  <2>4. /\ DOMAIN versions = {TransactionRow(t)}
        /\ versions[TransactionRow(t)] = [status |-> "RECEIVED"]
    BY OneVersion
  <2>5. MayWrite(p, versions)
    <3>1. TransactionRow(t) \in Wanted(p)
      BY <1>0 DEF Wanted, TransactionsLocked
    <3>2. \A q \in Requests \ {p} : TransactionRow(t) \notin DOMAIN written[q]
      BY <1>0, <3>1, WantedIsFree
    <3> HIDE DEF versions, t
    <3>3. QED BY <1>0, <2>4, <3>2, TransferRowsApart DEF MayWrite, t
  <2>6. HoldsTransfer(p)'
    <3>1. committed' = committed /\ TransactionRow(t) \in DOMAIN written'[p]
      BY <1>0, <1>2, <2>4, WritesRows DEF Shapes
    <3>2. QED BY <1>0, <2>1, <2>3, <3>1 DEF HoldsTransfer, IsKnown
  <2>7. StaysOnPath(p)' /\ LocalsOK(p)' /\ TodoOK(p)'
    BY <1>0, <2>1 DEF StaysOnPath, OnPath, LocalsOK, TodoOK, AllocationLabels
  <2> HIDE DEF versions
  <2>8. QED
    BY <1>0, <1>2, <2>1, <2>5, <2>6, <2>7, WritesStep DEF Ended, Kinds
<1>3. QED BY <1>1, <1>2 DEF Ingest

(* How the allocation begins. *)
LEMMA AllocationBegins ==
  ASSUME WriterInv, NEW p \in Requests, StartsAllocating(p), work' = work,
         local[p].item = 1, Payable(p)
  PROVE  /\ Alone(p) /\ pc'[p] = "readItem" /\ LocalsOK(p)' /\ TodoOK(p)'
         /\ local'[p].item = 1 /\ local'[p].available = AmountOf[TransactionOf(p)]
<1> DEFINE locals == [local[p] EXCEPT !.available = AmountOf[TransactionOf(p)]]
<1>1. /\ Shapes /\ DOMAIN local[p] = DOMAIN NoLocals
      /\ TransactionOf(p) \in Transactions /\ OrderOf(p) \in Orders
      /\ OrderOf(p)' = OrderOf(p)
  BY DEF WriterInv, WorkOK, Shapes, TransactionOf, OrderOf, Payable
<1>2. /\ DOMAIN locals = DOMAIN NoLocals /\ locals.item = 1
      /\ locals.available = AmountOf[TransactionOf(p)]
  BY <1>1 DEF NoLocals
<1>3. Alone(p) /\ pc'[p] = "readItem" /\ local'[p] = locals
  BY <1>1, <1>2, ProceedsAlone DEF StartsAllocating, Labels
<1> HIDE DEF locals
<1>4. Len(ItemsOf(p)) \in Nat /\ ItemsOf(p)' = ItemsOf(p)
  BY <1>1, RowsAssumption DEF ItemsOf
<1>5. LocalsOK(p)' /\ TodoOK(p)'
  BY <1>1, <1>2, <1>3, <1>4 DEF LocalsOK, TodoOK
<1>6. QED BY <1>2, <1>3, <1>5

LEMMA FindOrderStep ==
  ASSUME WriterInv, NEW p \in Requests, FindOrder(p)
  PROVE  WriterInv'
<1> DEFINE t == TransactionOf(p)
           matched == NewVersion(ReconciliationRow(t),
                        [status |-> "AUTO_MATCHED", order |-> OrderOf(p)])
           unmatched == NewVersion(TransactionRow(t), [status |-> "UNMATCHED"])
                          \uplus NewVersion(ReconciliationRow(t),
                                   [status |-> "UNMATCHED", order |-> NoOrder])
<1>0. /\ Shapes /\ pc[p] = "findOrder" /\ work' = work /\ work[p].kind = "ingest"
      /\ t \in Transactions /\ TransactionOf(p)' = t /\ At(p, "findOrder")
      /\ HoldsTransfer(p) /\ DOMAIN local[p] = DOMAIN NoLocals
  BY Standing DEF FindOrder, StaysOnPath, OnPath, Ended, Kinds, AllocationLabels,
                  MatchLabels, UnmatchLabels
<1>1. /\ TransactionRow(t) \in DOMAIN written[p] /\ ~ IsKnown(t)
      /\ committed[ReconciliationRow(t)].status = "NONE"
  BY <1>0 DEF HoldsTransfer, Underway, Ended, Kinds, WriterInv, KnownTogether
<1>2. \A q \in Requests \ {p} : TransactionRow(t) \notin DOMAIN written[q]
  BY <1>1, HeldIsFree
<1>3. ASSUME NEW q \in Requests \ {p} PROVE ReconciliationRow(t) \notin DOMAIN written[q]
  <2>1. SUFFICES ASSUME ReconciliationRow(t) \in DOMAIN written[q] PROVE FALSE
    OBVIOUS
  <2>2. t = TransactionOf(q) /\ work[q].kind \in {"ingest", "match", "unmatch"}
    BY <1>0, <2>1 DEF WriterInv, TransferRowsHeld
  <2>3. Underway(q)
    BY <2>1, NothingIsWritten DEF WriterInv, OneWriter, Underway
  <2>4. HoldsTransfer(q)
    BY DEF WriterInv
  <2>5. QED BY <1>1, <1>2, <2>2, <2>3, <2>4 DEF HoldsTransfer
<1>4. ASSUME NEW versions, Writes(p, versions),
             DOMAIN versions \subseteq {TransactionRow(t), ReconciliationRow(t)},
             ReconciliationRow(t) \in DOMAIN versions,
             versions[ReconciliationRow(t)].status # "NONE",
             TransactionRow(t) \in DOMAIN versions =>
               versions[TransactionRow(t)].status # "NONE",
             Alone(p), pc'[p] \in {"readItem", "commit"}, LocalsOK(p)'
      PROVE  WriterInv'
  <2>1. MayWrite(p, versions)
    <3> HIDE DEF t
    <3>1. QED BY <1>0, <1>2, <1>3, <1>4, TransferRowsApart DEF MayWrite, t
  <2>2. HoldsTransfer(p)'
    <3>1. /\ committed' = committed
          /\ DOMAIN written'[p] = DOMAIN versions \union DOMAIN written[p]
      BY <1>0, <1>4, WritesRows DEF Shapes
    <3>2. QED BY <1>0, <1>1, <1>4, <3>1 DEF HoldsTransfer, IsKnown
  <2>3. StaysOnPath(p)' /\ TodoOK(p)'
    BY <1>0, <1>4 DEF StaysOnPath, OnPath, TodoOK, AllocationLabels
  <2>4. QED BY <1>0, <1>4, <2>1, <2>2, <2>3, WritesStep DEF Ended, Kinds
<1>5. CASE Payable(p) /\ Writes(p, matched) /\ StartsAllocating(p)
  <2>1. local[p].item = 1
    BY <1>0 DEF WriterInv, LocalsOK
  <2>2. Alone(p) /\ pc'[p] = "readItem" /\ LocalsOK(p)'
    BY <1>0, <1>5, <2>1, AllocationBegins
  <2>3. /\ DOMAIN matched = {ReconciliationRow(t)}
        /\ matched[ReconciliationRow(t)].status = "AUTO_MATCHED"
    BY OneVersion
  <2>4. TransactionRow(t) \notin DOMAIN matched
    BY <2>3, TransferRowsApart
  <2> HIDE DEF matched
  <2>5. QED BY <1>4, <1>5, <2>2, <2>3, <2>4
<1>6. CASE ~Payable(p) /\ Writes(p, unmatched) /\ Goto(p, "commit") /\ local' = local
  <2>1. Alone(p) /\ pc'[p] = "commit"
    BY <1>0, <1>6, GotoAlone DEF Labels
  <2>2. LocalsOK(p)'
    BY <2>1 DEF LocalsOK, AllocationLabels
  <2>3. /\ DOMAIN unmatched = {TransactionRow(t), ReconciliationRow(t)}
        /\ unmatched[TransactionRow(t)].status = "UNMATCHED"
        /\ unmatched[ReconciliationRow(t)].status = "UNMATCHED"
    BY TwoVersions, TransferRowsApart
  <2> HIDE DEF unmatched
  <2>4. QED BY <1>4, <1>6, <2>1, <2>2, <2>3
<1>7. QED BY <1>5, <1>6 DEF FindOrder

LEMMA MatchStep ==
  ASSUME WriterInv, NEW p \in Requests,
         Match(p) \/ ReadTransaction(p) \/ ReadOrder(p)
  PROVE  WriterInv'
<1>1. CASE Match(p)
  <2>0. /\ Shapes /\ pc[p] = "match" /\ work' = work /\ At(p, "match")
        /\ work[p].kind = "match" /\ local[p].item = 1
        /\ TransactionOf(p) \in Transactions /\ TransactionOf(p)' = TransactionOf(p)
    BY <1>1, Standing DEF Match, StaysOnPath, OnPath, LocalsOK, Ended, AllocationLabels,
                          MatchLabels, UnmatchLabels
  <2>1. CASE Fails(p)
    BY <2>0, <2>1, FailsStep
  <2>2. CASE /\ Sees(p, ReconciliationRow(TransactionOf(p))).status = "UNMATCHED"
             /\ OnlyReads /\ Goto(p, "readTransaction") /\ local' = local
    <3>1. Alone(p) /\ pc'[p] = "readTransaction" /\ local'[p] = local[p]
      BY <2>0, <2>2, GotoAlone DEF Labels
    <3>2. written[p] = NothingWritten
      BY <2>0 DEF WriterInv, OneWriter, Kinds
    <3>3. IsKnown(TransactionOf(p)) /\ committed' = committed
      BY <2>0, <2>2, <3>2, NothingIsWritten
         DEF Sees, OnlyReads, WriterInv, KnownTogether
    <3>4. /\ StaysOnPath(p)' /\ LocalsOK(p)' /\ TodoOK(p)' /\ HoldsTransfer(p)'
      BY <2>0, <3>1, <3>3
         DEF StaysOnPath, OnPath, LocalsOK, TodoOK, HoldsTransfer, IsKnown, MatchLabels,
             AllocationLabels
    <3>5. QED BY <2>0, <2>2, <3>1, <3>4, ReadsStep DEF Ended, Kinds
  <2>3. QED BY <1>1, <2>1, <2>2 DEF Match
<1>2. CASE ReadTransaction(p)
  <2> DEFINE locals == [local[p] EXCEPT
                          !.selected = Sees(p, TransactionRow(TransactionOf(p)))]
  <2>0. /\ Shapes /\ pc[p] = "readTransaction" /\ work' = work
        /\ At(p, "readTransaction") /\ OnlyReads
        /\ work[p].kind = "match" /\ local[p].item = 1
        /\ DOMAIN local[p] = DOMAIN NoLocals
    BY <1>2, Standing DEF ReadTransaction, StaysOnPath, OnPath, LocalsOK, Ended, Kinds,
                          AllocationLabels, UnmatchLabels
  <2>1. DOMAIN locals = DOMAIN NoLocals /\ locals.item = 1
    BY <2>0 DEF NoLocals
  <2>2. Alone(p) /\ pc'[p] = "readOrder" /\ local'[p] = locals
    BY <1>2, <2>0, <2>1, ProceedsAlone DEF ReadTransaction, Labels
  <2> HIDE DEF locals
  <2>3. StaysOnPath(p)' /\ LocalsOK(p)' /\ TodoOK(p)'
    BY <2>0, <2>1, <2>2 DEF StaysOnPath, OnPath, LocalsOK, TodoOK, MatchLabels,
                            AllocationLabels
  <2>4. QED BY <2>0, <2>2, <2>3, ReadOn DEF Underway, Ended, Kinds
<1>3. CASE ReadOrder(p)
  <2>0. /\ Shapes /\ pc[p] = "readOrder" /\ work' = work /\ At(p, "readOrder")
        /\ work[p].kind = "match" /\ local[p].item = 1
    BY <1>3, Standing DEF ReadOrder, StaysOnPath, OnPath, LocalsOK, Ended, Kinds,
                          AllocationLabels, UnmatchLabels
  <2>1. CASE Fails(p)
    BY <2>0, <2>1, FailsStep
  <2>2. CASE Payable(p) /\ OnlyReads /\ StartsAllocating(p)
    <3>1. Alone(p) /\ pc'[p] = "readItem" /\ LocalsOK(p)' /\ TodoOK(p)'
      BY <2>0, <2>2, AllocationBegins
    <3>2. StaysOnPath(p)'
      BY <2>0, <3>1 DEF StaysOnPath, OnPath, AllocationLabels
    <3>3. QED BY <2>0, <2>2, <3>1, <3>2, ReadOn DEF Underway, Ended, Kinds
  <2>3. QED BY <1>3, <2>1, <2>2 DEF ReadOrder
<1>4. QED BY <1>1, <1>2, <1>3

(* What a request that allocates knows of its order. *)
LEMMA Allocating ==
  ASSUME WriterInv, NEW p \in Requests, NEW label \in AllocationLabels, At(p, label),
         work[p].kind \in {"ingest", "match"}
  PROVE  /\ Shapes /\ pc[p] = label /\ work' = work /\ Underway(p)
         /\ DOMAIN local[p] = DOMAIN NoLocals
         /\ OrderOf(p) \in Orders /\ OrderOf(p)' = OrderOf(p)
         /\ ItemsOf(p) \in Seq(Receivables) /\ ItemsOf(p)' = ItemsOf(p)
         /\ Len(ItemsOf(p)) \in Nat \ {0}
         /\ LocalsOK(p)
<1>1. /\ Shapes /\ pc[p] = label /\ work' = work /\ LocalsOK(p)
      /\ DOMAIN local[p] = DOMAIN NoLocals
  BY Standing
<1>2. OrderOf(p) \in Orders /\ OrderOf(p)' = OrderOf(p)
  BY <1>1 DEF LocalsOK, OrderOf
<1>3. ItemsOf(p) \in Seq(Receivables) /\ ItemsOf(p) # <<>> /\ ItemsOf(p)' = ItemsOf(p)
  BY <1>2, RowsAssumption DEF ItemsOf
<1>4. Len(ItemsOf(p)) \in Nat \ {0}
  BY <1>3, EmptySeq
<1>5. Underway(p)
  BY <1>1 DEF Underway, AllocationLabels, Kinds, Ended
<1>6. QED BY <1>1, <1>2, <1>3, <1>4, <1>5

LEMMA ReadItemStep ==
  ASSUME WriterInv, NEW p \in Requests, ReadItem(p)
  PROVE  WriterInv'
<1>0. At(p, "readItem") /\ work[p].kind \in {"ingest", "match"}
  BY Standing DEF ReadItem, StaysOnPath, OnPath, Ended, MatchLabels, UnmatchLabels, Kinds
<1>1. /\ Shapes /\ pc[p] = "readItem" /\ work' = work /\ Underway(p)
      /\ DOMAIN local[p] = DOMAIN NoLocals /\ OrderOf(p) \in Orders
      /\ OrderOf(p)' = OrderOf(p) /\ ItemsOf(p)' = ItemsOf(p)
      /\ Len(ItemsOf(p)) \in Nat \ {0}
      /\ local[p].item \in 1..(Len(ItemsOf(p)) + 1)
  BY <1>0, Allocating DEF AllocationLabels, LocalsOK
<1>2. ASSUME NEW label \in {"checkItem", "readItem", "saveAllocation"}, NEW locals,
             Proceeds(p, label, locals), DOMAIN locals = DOMAIN NoLocals,
             \/ locals.item \in 1..Len(ItemsOf(p))
             \/ label = "readItem" /\ locals.item \in 1..(Len(ItemsOf(p)) + 1)
      PROVE  /\ Alone(p) /\ pc'[p] = label /\ pc'[p] \notin Ended \union Kinds
             /\ StaysOnPath(p)' /\ LocalsOK(p)' /\ TodoOK(p)'
  <2>1. label \in Labels /\ label \in AllocationLabels
    BY DEF Labels, AllocationLabels
  <2>2. Alone(p) /\ pc'[p] = label /\ local'[p] = locals
    BY <1>1, <1>2, <2>1, ProceedsAlone
  <2>3. LocalsOK(p)' /\ TodoOK(p)'
    BY <1>1, <1>2, <2>1, <2>2 DEF LocalsOK, TodoOK
  <2>4. StaysOnPath(p)'
    BY <1>0, <1>1, <2>1, <2>2 DEF StaysOnPath, OnPath
  <2>5. QED BY <2>2, <2>3, <2>4 DEF Ended, Kinds
<1>3. CASE /\ Writes(p, Leftover(p))
           /\ Proceeds(p, "checkItem", [local[p] EXCEPT !.item = 1])
  <2> DEFINE locals == [local[p] EXCEPT !.item = 1]
  <2>1. DOMAIN locals = DOMAIN NoLocals /\ locals.item \in 1..Len(ItemsOf(p))
    BY <1>1 DEF NoLocals
  <2> Proceeds(p, "checkItem", locals)
    BY <1>3
  <2> HIDE DEF locals
  <2>2. /\ Alone(p) /\ pc'[p] \notin Ended \union Kinds
        /\ StaysOnPath(p)' /\ LocalsOK(p)' /\ TodoOK(p)'
    BY <1>2, <2>1
  <2>3. DOMAIN Leftover(p) \subseteq {CreditRow(p)}
    BY OneVersion, NothingIsWritten DEF Leftover
  <2>4. MayWrite(p, Leftover(p))
    <3>1. CreditRow(p) \in OwnRows(p)
          /\ \A q \in Requests : CreditRow(p) \in OwnRows(q) => q = p
      BY OwnRowsApart
    <3>2. \A q \in Requests \ {p} : CreditRow(p) \notin DOMAIN written[q]
      BY <1>1, <3>1, OwnIsFree DEF Underway, Ended
    <3>3. QED BY <1>0, <2>3, <3>1, <3>2, TransferRowsApart DEF MayWrite
  <2>5. QED BY <1>0, <1>1, <1>3, <2>2, <2>4, WriteOn
<1>4. CASE /\ ~ (local[p].item > Len(ItemsOf(p))) /\ OnlyReads
           /\ Proceeds(p, "readItem", NextItem(p))
  <2>1. DOMAIN NextItem(p) = DOMAIN NoLocals /\ NextItem(p).item = local[p].item + 1
    BY <1>1 DEF NextItem, NoLocals
  <2>2. NextItem(p).item \in 1..(Len(ItemsOf(p)) + 1)
    BY <1>1, <1>4, <2>1
  <2>3. /\ Alone(p) /\ pc'[p] \notin Ended \union Kinds
        /\ StaysOnPath(p)' /\ LocalsOK(p)' /\ TodoOK(p)'
    BY <1>2, <1>4, <2>1, <2>2
  <2>4. QED BY <1>0, <1>1, <1>4, <2>3, ReadOn
<1>5. CASE /\ ~ (local[p].item > Len(ItemsOf(p))) /\ OnlyReads
           /\ Proceeds(p, "saveAllocation",
                        [local[p] EXCEPT !.toAllocate = Share(p)])
  <2> DEFINE locals == [local[p] EXCEPT !.toAllocate = Share(p)]
  <2>1. DOMAIN locals = DOMAIN NoLocals /\ locals.item = local[p].item
    BY <1>1 DEF NoLocals
  <2>2. locals.item \in 1..Len(ItemsOf(p))
    <3> HIDE DEF locals
    <3>1. QED BY <1>1, <1>5, <2>1
  <2> Proceeds(p, "saveAllocation", locals)
    BY <1>5
  <2> HIDE DEF locals
  <2>3. /\ Alone(p) /\ pc'[p] \notin Ended \union Kinds
        /\ StaysOnPath(p)' /\ LocalsOK(p)' /\ TodoOK(p)'
    BY <1>2, <2>1, <2>2
  <2>4. QED BY <1>0, <1>1, <1>5, <2>3, ReadOn
<1>6. QED BY <1>3, <1>4, <1>5 DEF ReadItem

(* Labels at which nothing is asked of a request's variables. *)
QuietLabels ==
  {"saveOrder", "updateOrder", "saveTransaction", "updateTransaction",
   "issueReceipt", "saveReconciliation", "updateReconciliation",
   "findAllocations", "findReceipt", "findCredits", "saveDiscount",
   "applyDiscount", "commit"}

LEMMA QuietStep ==
  ASSUME WriterInv, NEW p \in Requests, NEW label, At(p, label), Underway(p),
         label # "findOrder",
         NEW next \in QuietLabels, Alone(p), pc'[p] = next,
         OnPath(work[p].kind, next),
         next \in AllocationLabels =>
           label \in AllocationLabels \/ work[p].kind = "unmatch",
         OnlyReads \/ \E versions : Writes(p, versions) /\ MayWrite(p, versions)
  PROVE  WriterInv'
<1>1. /\ pc[p] = label /\ work' = work /\ LocalsOK(p) /\ Shapes
  BY Standing
<1>2. StaysOnPath(p)' /\ next \notin Ended \union Kinds
  BY <1>1 DEF StaysOnPath, QuietLabels, Ended, Kinds
<1>3. LocalsOK(p)' /\ TodoOK(p)'
  BY <1>1 DEF LocalsOK, TodoOK, QuietLabels, OrderOf
<1>4. CASE OnlyReads
  BY <1>1, <1>2, <1>3, <1>4, ReadOn
<1>5. CASE \E versions : Writes(p, versions) /\ MayWrite(p, versions)
  <2>1. PICK versions : Writes(p, versions) /\ MayWrite(p, versions)
    BY <1>5
  <2>2. QED BY <1>1, <1>2, <1>3, <2>1, WriteOn
<1>6. QED BY <1>4, <1>5

(* Rows that no request inserts and that are not of a transfer may be      *)
(* written as soon as nobody else has a version of them.                   *)
LEMMA MayWriteShared ==
  ASSUME NEW p \in Requests, NEW versions,
         \A q \in Requests \ {p} : DOMAIN versions \intersect DOMAIN written[q] = {},
         \A row \in DOMAIN versions :
           \/ \E r \in Receivables : row = ReceivableRow(r)
           \/ \E o \in Orders : row = OrderRow(o)
  PROVE  MayWrite(p, versions)
BY SharedRowsApart DEF MayWrite

LEMMA ItemIsReceivable ==
  ASSUME WriterInv, NEW p \in Requests,
         NEW label \in {"saveAllocation", "applyPayment", "checkItem"}, At(p, label)
  PROVE  /\ work[p].kind \in {"ingest", "match"} /\ Item(p) \in Receivables
         /\ local[p].item \in 1..Len(ItemsOf(p)) /\ Len(ItemsOf(p)) \in Nat
         /\ Underway(p) /\ Shapes /\ pc[p] = label /\ work' = work
         /\ DOMAIN local[p] = DOMAIN NoLocals
         /\ OrderOf(p) \in Orders /\ OrderOf(p)' = OrderOf(p)
         /\ ItemsOf(p)' = ItemsOf(p)
<1>1. work[p].kind \in {"ingest", "match"}
  BY Standing DEF StaysOnPath, OnPath, Ended, MatchLabels, UnmatchLabels, Kinds
<1>2. /\ Underway(p) /\ Shapes /\ pc[p] = label /\ work' = work
      /\ OrderOf(p) \in Orders /\ OrderOf(p)' = OrderOf(p)
      /\ ItemsOf(p) \in Seq(Receivables) /\ ItemsOf(p)' = ItemsOf(p)
      /\ Len(ItemsOf(p)) \in Nat \ {0} /\ LocalsOK(p)
      /\ DOMAIN local[p] = DOMAIN NoLocals
  BY <1>1, Allocating DEF AllocationLabels
<1>3. local[p].item \in 1..Len(ItemsOf(p))
  BY <1>2 DEF LocalsOK
<1>4. Item(p) \in Receivables
  BY <1>2, <1>3, ElementOfSeq DEF Item
<1>5. QED BY <1>1, <1>2, <1>3, <1>4

LEMMA SaveAllocationStep ==
  ASSUME WriterInv, NEW p \in Requests, SaveAllocation(p)
  PROVE  WriterInv'
<1> DEFINE versions == NewVersion(AllocationRow(p, Item(p)),
                          [amount |-> local[p].toAllocate, reversed |-> FALSE])
<1>0. At(p, "saveAllocation") /\ Writes(p, versions)
      /\ Goto(p, "applyPayment") /\ local' = local
  BY DEF SaveAllocation
<1>1. /\ work[p].kind \in {"ingest", "match"} /\ Item(p) \in Receivables
      /\ local[p].item \in 1..Len(ItemsOf(p))
      /\ Underway(p) /\ Shapes /\ pc[p] = "saveAllocation" /\ work' = work
      /\ OrderOf(p) \in Orders /\ OrderOf(p)' = OrderOf(p)
      /\ ItemsOf(p)' = ItemsOf(p)
  BY <1>0, ItemIsReceivable
<1>2. Alone(p) /\ pc'[p] = "applyPayment" /\ local'[p] = local[p]
  BY <1>0, <1>1, GotoAlone DEF Labels
<1>3. StaysOnPath(p)' /\ LocalsOK(p)' /\ TodoOK(p)'
  BY <1>1, <1>2 DEF StaysOnPath, OnPath, LocalsOK, TodoOK, AllocationLabels
<1>4. DOMAIN versions = {AllocationRow(p, Item(p))}
  BY OneVersion
<1> HIDE DEF versions
<1>5. MayWrite(p, versions)
  <2>1. AllocationRow(p, Item(p)) \in OwnRows(p)
        /\ \A q \in Requests : AllocationRow(p, Item(p)) \in OwnRows(q) => q = p
    BY <1>1, OwnRowsApart
  <2>2. \A q \in Requests \ {p} : AllocationRow(p, Item(p)) \notin DOMAIN written[q]
    BY <1>1, <2>1, OwnIsFree
  <2>3. QED BY <1>1, <1>4, <2>1, <2>2, TransferRowsApart DEF MayWrite
<1>6. QED BY <1>0, <1>1, <1>2, <1>3, <1>5, WriteOn DEF Ended, Kinds

LEMMA ApplyPaymentStep ==
  ASSUME WriterInv, NEW p \in Requests, ApplyPayment(p)
  PROVE  WriterInv'
<1> DEFINE versions == NewVersion(ReceivableRow(Item(p)),
               ApplyPaymentDelta(ReceivableOf(p), local[p].toAllocate, NotPastDue))
           locals == [local[p] EXCEPT !.item = @ + 1,
                                      !.available = @ - local[p].toAllocate]
<1>0. At(p, "applyPayment")
  BY DEF ApplyPayment
<1>1. /\ work[p].kind \in {"ingest", "match"} /\ Item(p) \in Receivables
      /\ local[p].item \in 1..Len(ItemsOf(p)) /\ Len(ItemsOf(p)) \in Nat
      /\ Underway(p) /\ Shapes /\ pc[p] = "applyPayment" /\ work' = work
      /\ OrderOf(p) \in Orders /\ OrderOf(p)' = OrderOf(p)
      /\ ItemsOf(p)' = ItemsOf(p) /\ DOMAIN local[p] = DOMAIN NoLocals
  BY <1>0, ItemIsReceivable
<1>2. CASE Fails(p)
  BY <1>1, <1>2, FailsStep
<1>3. CASE Writes(p, versions) /\ Proceeds(p, "readItem", locals)
  <2>1. DOMAIN locals = DOMAIN NoLocals /\ locals.item = local[p].item + 1
    BY <1>1 DEF NoLocals
  <2> Proceeds(p, "readItem", locals)
    BY <1>3
  <2> HIDE DEF locals
  <2>2. Alone(p) /\ pc'[p] = "readItem" /\ local'[p] = locals
    BY <1>1, <2>1, ProceedsAlone DEF Labels
  <2>3. locals.item \in 1..(Len(ItemsOf(p)) + 1)
    BY <1>1, <2>1
  <2>4. StaysOnPath(p)' /\ LocalsOK(p)' /\ TodoOK(p)'
    BY <1>1, <2>2, <2>3 DEF StaysOnPath, OnPath, LocalsOK, TodoOK, AllocationLabels
  <2>5. DOMAIN versions = {ReceivableRow(Item(p))}
    BY OneVersion
  <2> HIDE DEF versions
  <2>6. MayWrite(p, versions)
    <3>1. ReceivableRow(Item(p)) \in Wanted(p)
      BY <1>1 DEF Wanted, ReceivablesLocked
    <3>2. QED BY <1>0, <1>1, <2>5, <3>1, WantedIsFree, MayWriteShared
  <2>7. QED BY <1>0, <1>1, <1>3, <2>2, <2>4, <2>6, WriteOn DEF Ended, Kinds
<1>4. QED BY <1>2, <1>3 DEF ApplyPayment

LEMMA CheckItemStep ==
  ASSUME WriterInv, NEW p \in Requests, CheckItem(p)
  PROVE  WriterInv'
<1> DEFINE decided == [local[p] EXCEPT !.orderStatus =
                         IF Lacking(p) THEN "PARTIALLY_PAID" ELSE "PAID"]
<1>0. At(p, "checkItem") /\ OnlyReads
  BY DEF CheckItem
<1>1. /\ work[p].kind \in {"ingest", "match"}
      /\ local[p].item \in 1..Len(ItemsOf(p)) /\ Len(ItemsOf(p)) \in Nat
      /\ Underway(p) /\ Shapes /\ pc[p] = "checkItem" /\ work' = work
      /\ OrderOf(p) \in Orders /\ OrderOf(p)' = OrderOf(p)
      /\ ItemsOf(p)' = ItemsOf(p) /\ DOMAIN local[p] = DOMAIN NoLocals
  BY <1>0, ItemIsReceivable
<1>2. CASE Proceeds(p, "saveOrder", decided)
  <2>1. DOMAIN decided = DOMAIN NoLocals
    BY <1>1 DEF NoLocals
  <2> HIDE DEF decided
  <2>2. Alone(p) /\ pc'[p] = "saveOrder"
    BY <1>1, <1>2, <2>1, ProceedsAlone DEF Labels
  <2>3. "saveOrder" \in QuietLabels /\ OnPath(work[p].kind, "saveOrder")
        /\ "checkItem" \in AllocationLabels
    BY <1>1 DEF QuietLabels, OnPath, AllocationLabels
  <2>4. QED BY <1>0, <1>1, <2>2, <2>3, QuietStep
<1>3. CASE local[p].item # Len(ItemsOf(p)) /\ Proceeds(p, "checkItem", NextItem(p))
  <2>1. DOMAIN NextItem(p) = DOMAIN NoLocals /\ NextItem(p).item = local[p].item + 1
    BY <1>1 DEF NextItem, NoLocals
  <2>2. Alone(p) /\ pc'[p] = "checkItem" /\ local'[p] = NextItem(p)
    BY <1>1, <1>3, <2>1, ProceedsAlone DEF Labels
  <2>3. NextItem(p).item \in 1..Len(ItemsOf(p))
    BY <1>1, <1>3, <2>1
  <2>4. StaysOnPath(p)' /\ LocalsOK(p)' /\ TodoOK(p)'
    BY <1>1, <2>2, <2>3 DEF StaysOnPath, OnPath, LocalsOK, TodoOK, AllocationLabels
  <2>5. QED BY <1>0, <1>1, <2>2, <2>4, ReadOn DEF Ended, Kinds
<1>4. QED BY <1>2, <1>3 DEF CheckItem

(* Where a request stands that comes to save its order or its transfer. *)
LEMMA SaveOrderStep ==
  ASSUME WriterInv, NEW p \in Requests, SaveOrder(p) \/ UpdateOrder(p)
  PROVE  WriterInv'
<1>1. CASE SaveOrder(p)
  <2> DEFINE next == IF \/ Sees(p, OrderRow(OrderOf(p))).status # local[p].orderStatus
                        \/ Sees(p, OrderRow(OrderOf(p))).status = "PAID"
                     THEN "updateOrder" ELSE AfterOrder(p)
             locals == [local[p] EXCEPT !.selected = Sees(p, OrderRow(OrderOf(p)))]
  <2>1. At(p, "saveOrder") /\ OnlyReads /\ Proceeds(p, next, locals)
    BY <1>1 DEF SaveOrder
  <2>2. /\ Shapes /\ pc[p] = "saveOrder" /\ work' = work
        /\ work[p].kind \in {"ingest", "match", "getQr"}
        /\ DOMAIN local[p] = DOMAIN NoLocals /\ Underway(p)
    BY <2>1, Standing DEF StaysOnPath, OnPath, Ended, Kinds, MatchLabels,
                          UnmatchLabels, Underway
  <2>3. next \in QuietLabels /\ next \in Labels /\ OnPath(work[p].kind, next)
        /\ "saveOrder" \in AllocationLabels
    BY <2>2 DEF AfterOrder, QuietLabels, Labels, OnPath, AllocationLabels
  <2>4. DOMAIN locals = DOMAIN NoLocals
    BY <2>2 DEF NoLocals
  <2> HIDE DEF next, locals
  <2>5. Alone(p) /\ pc'[p] = next
    BY <2>1, <2>2, <2>3, <2>4, ProceedsAlone
  <2>6. QED BY <2>1, <2>2, <2>3, <2>5, QuietStep
<1>2. CASE UpdateOrder(p)
  <2> DEFINE row      == OrderRow(OrderOf(p))
             version  == Saved([status |-> local[p].orderStatus],
                               local[p].selected, Sees(p, row))
             versions == NewVersion(row, version)
  <2>1. /\ At(p, "updateOrder") /\ Writes(p, versions)
        /\ Goto(p, AfterOrder(p)) /\ local' = local
    BY <1>2 DEF UpdateOrder
  <2>2. /\ Shapes /\ pc[p] = "updateOrder" /\ work' = work
        /\ work[p].kind \in {"ingest", "match", "getQr"}
        /\ Underway(p) /\ LocalsOK(p)
    BY <2>1, Standing DEF StaysOnPath, OnPath, Ended, Kinds, MatchLabels,
                          UnmatchLabels, Underway
  <2>3. /\ AfterOrder(p) \in QuietLabels /\ AfterOrder(p) \in Labels
        /\ OnPath(work[p].kind, AfterOrder(p))
        /\ "updateOrder" \in AllocationLabels
    BY <2>2 DEF AfterOrder, QuietLabels, Labels, OnPath, AllocationLabels
  <2>4. Alone(p) /\ pc'[p] = AfterOrder(p)
    BY <2>1, <2>2, <2>3, GotoAlone
  <2>5. OrderOf(p) \in Orders
    BY <2>2, <2>3 DEF LocalsOK, WriterInv, WorkOK, OrderOf
  <2>6. DOMAIN versions = {row}
    BY OneVersion
  <2> HIDE DEF versions
  <2>7. MayWrite(p, versions)
    <3>1. row \in Wanted(p)
      BY <2>2 DEF Wanted
    <3>2. \A q \in Requests \ {p} : row \notin DOMAIN written[q]
      BY <2>1, <3>1, WantedIsFree
    <3>3. QED BY <2>5, <2>6, <3>2, MayWriteShared
  <2>8. QED BY <2>1, <2>2, <2>3, <2>4, <2>7, QuietStep
<1>3. QED BY <1>1, <1>2

(* What a request sees of the transfer that it works on, and of its match. *)
LEMMA TransferIsSeen ==
  ASSUME WriterInv, NEW p \in Requests, Underway(p), pc[p] # "findOrder",
         work[p].kind \in {"ingest", "match", "unmatch"}
  PROVE  /\ Sees(p, TransactionRow(TransactionOf(p))).status # "NONE"
         /\ Sees(p, ReconciliationRow(TransactionOf(p))).status # "NONE"
<1>1. TransactionOf(p) \in Transactions
  BY DEF WriterInv, WorkOK, TransactionOf
<1>2. TransferRowsHeld(p) /\ HoldsTransfer(p) /\ KnownTogether
  BY DEF WriterInv
<1>3. QED BY <1>1, <1>2 DEF Sees, TransferRowsHeld, HoldsTransfer, KnownTogether, IsKnown

LEMMA StatusSaved ==
  ASSUME NEW entity, NEW selected, NEW current, "status" \in DOMAIN entity
  PROVE  Saved(entity, selected, current).status \in {entity.status, current.status}
BY DEF Saved

(* Rows of the transfer that p works on. *)
LEMMA MayWriteTransfer ==
  ASSUME NEW p \in Requests, NEW row, NEW version, version.status # "NONE",
         \A q \in Requests \ {p} : row \notin DOMAIN written[q],
         work[p].kind \in {"ingest", "match", "unmatch"},
         \/ row = TransactionRow(TransactionOf(p))
         \/ row = ReconciliationRow(TransactionOf(p))
  PROVE  MayWrite(p, NewVersion(row, version))
<1> DEFINE versions == NewVersion(row, version)
<1>1. DOMAIN versions = {row} /\ versions[row] = version
  BY OneVersion
<1> HIDE DEF versions
<1>2. MayWrite(p, versions)
  BY <1>1, TransferRowsApart DEF MayWrite
<1>3. QED BY <1>2 DEF versions

LEMMA SaveTransactionStep ==
  ASSUME WriterInv, NEW p \in Requests, SaveTransaction(p) \/ UpdateTransaction(p)
  PROVE  WriterInv'
<1>1. CASE SaveTransaction(p)
  <2> DEFINE row == TransactionRow(TransactionOf(p))
             next == IF Sees(p, row).status # TransactionStatus(p)
                     THEN "updateTransaction" ELSE AfterTransaction(p)
             locals == [local[p] EXCEPT !.selected = Sees(p, row)]
  <2>1. At(p, "saveTransaction") /\ OnlyReads /\ Proceeds(p, next, locals)
    BY <1>1 DEF SaveTransaction
  <2>2. /\ Shapes /\ pc[p] = "saveTransaction" /\ work' = work
        /\ work[p].kind \in {"ingest", "match", "unmatch"}
        /\ DOMAIN local[p] = DOMAIN NoLocals /\ Underway(p)
    BY <2>1, Standing DEF StaysOnPath, OnPath, Ended, Kinds, MatchLabels, Underway
  <2>3. next \in QuietLabels /\ next \in Labels /\ OnPath(work[p].kind, next)
        /\ "saveTransaction" \in AllocationLabels
    BY <2>2 DEF AfterTransaction, QuietLabels, Labels, OnPath, AllocationLabels,
                UnmatchLabels
  <2>4. DOMAIN locals = DOMAIN NoLocals
    BY <2>2 DEF NoLocals
  <2> HIDE DEF next, locals
  <2>5. Alone(p) /\ pc'[p] = next
    BY <2>1, <2>2, <2>3, <2>4, ProceedsAlone
  <2>6. QED BY <2>1, <2>2, <2>3, <2>5, QuietStep
<1>2. CASE UpdateTransaction(p)
  <2> DEFINE row      == TransactionRow(TransactionOf(p))
             entity   == [status |-> TransactionStatus(p)]
             version  == Saved(entity, local[p].selected, Sees(p, row))
             versions == NewVersion(row, version)
  <2>1. /\ At(p, "updateTransaction") /\ Writes(p, versions)
        /\ Goto(p, AfterTransaction(p)) /\ local' = local
    BY <1>2 DEF UpdateTransaction
  <2>2. /\ Shapes /\ pc[p] = "updateTransaction" /\ work' = work
        /\ work[p].kind \in {"ingest", "match", "unmatch"} /\ Underway(p)
    BY <2>1, Standing DEF StaysOnPath, OnPath, Ended, Kinds, MatchLabels, Underway
  <2>3. /\ AfterTransaction(p) \in QuietLabels /\ AfterTransaction(p) \in Labels
        /\ OnPath(work[p].kind, AfterTransaction(p))
        /\ "updateTransaction" \in AllocationLabels
    BY <2>2 DEF AfterTransaction, QuietLabels, Labels, OnPath, AllocationLabels,
                UnmatchLabels
  <2>4. Alone(p) /\ pc'[p] = AfterTransaction(p)
    BY <2>1, <2>2, <2>3, GotoAlone
  <2>5. Sees(p, row).status # "NONE"
    BY <2>2, TransferIsSeen
  <2>6. "status" \in DOMAIN entity /\ entity.status # "NONE"
    BY DEF TransactionStatus
  <2> HIDE DEF entity
  <2>7. version.status # "NONE"
    BY <2>5, <2>6, StatusSaved
  <2> HIDE DEF version
  <2>8. MayWrite(p, versions)
    <3>1. row \in Wanted(p)
      BY <2>2 DEF Wanted, TransactionsLocked
    <3>2. \A q \in Requests \ {p} : row \notin DOMAIN written[q]
      BY <2>1, <3>1, WantedIsFree
    <3>3. QED BY <2>2, <2>7, <3>2, MayWriteTransfer
  <2>9. QED BY <2>1, <2>2, <2>3, <2>4, <2>8, QuietStep
<1>3. QED BY <1>1, <1>2

LEMMA IssueReceiptStep ==
  ASSUME WriterInv, NEW p \in Requests, IssueReceipt(p)
  PROVE  WriterInv'
<1> DEFINE next     == IF work[p].kind = "match" THEN "saveReconciliation" ELSE "commit"
           receipt  == [number |-> NextNumber(p), status |-> "ISSUED"]
           versions == NewVersion(SequenceRow, NextNumber(p)) \uplus
                         NewVersion(ReceiptRow(p), receipt)
<1>1. /\ At(p, "issueReceipt") /\ Goto(p, next) /\ local' = local
      /\ \/ OnlyReads
         \/ Writes(p, versions)
  BY DEF IssueReceipt, Numbered
<1>2. /\ Shapes /\ pc[p] = "issueReceipt" /\ work' = work
      /\ work[p].kind \in {"ingest", "match"} /\ Underway(p)
  BY <1>1, Standing DEF StaysOnPath, OnPath, Ended, Kinds, MatchLabels,
                        UnmatchLabels, Underway
<1>3. next \in QuietLabels /\ next \in Labels /\ OnPath(work[p].kind, next)
      /\ "issueReceipt" \in AllocationLabels
  BY <1>2 DEF QuietLabels, Labels, OnPath, MatchLabels, AllocationLabels
<1> HIDE DEF next, receipt
<1>4. Alone(p) /\ pc'[p] = next
  BY <1>1, <1>2, <1>3, GotoAlone
<1>5. DOMAIN versions = {SequenceRow, ReceiptRow(p)}
  BY TwoVersions, Zenon
<1> HIDE DEF versions
<1>6. MayWrite(p, versions)
  <2>1. SequenceRow \in Wanted(p)
    BY <1>2 DEF Wanted
  <2>2. \A q \in Requests \ {p} : SequenceRow \notin DOMAIN written[q]
    BY <1>1, <2>1, WantedIsFree
  <2>3. ReceiptRow(p) \in OwnRows(p)
        /\ \A q \in Requests : ReceiptRow(p) \in OwnRows(q) => q = p
    BY OwnRowsApart
  <2>4. \A q \in Requests \ {p} : ReceiptRow(p) \notin DOMAIN written[q]
    BY <1>2, <2>3, OwnIsFree
  <2>5. QED BY <1>2, <1>5, <2>2, <2>3, <2>4, TransferRowsApart, SharedRowsApart
            DEF MayWrite
<1>7. QED BY <1>1, <1>2, <1>3, <1>4, <1>6, QuietStep

LEMMA SaveReconciliationStep ==
  ASSUME WriterInv, NEW p \in Requests, SaveReconciliation(p) \/ UpdateReconciliation(p)
  PROVE  WriterInv'
<1>1. CASE SaveReconciliation(p)
  <2> DEFINE locals == [local[p] EXCEPT
                          !.selected = Sees(p, ReconciliationRow(TransactionOf(p)))]
  <2>1. /\ At(p, "saveReconciliation") /\ OnlyReads
        /\ Proceeds(p, "updateReconciliation", locals)
    BY <1>1 DEF SaveReconciliation
  <2>2. /\ Shapes /\ pc[p] = "saveReconciliation" /\ work' = work
        /\ work[p].kind \in {"match", "unmatch"}
        /\ DOMAIN local[p] = DOMAIN NoLocals /\ Underway(p)
    BY <2>1, Standing DEF StaysOnPath, OnPath, Ended, Kinds, AllocationLabels, Underway
  <2>3. DOMAIN locals = DOMAIN NoLocals
    BY <2>2 DEF NoLocals
  <2> HIDE DEF locals
  <2>4. Alone(p) /\ pc'[p] = "updateReconciliation"
    BY <2>1, <2>2, <2>3, ProceedsAlone DEF Labels
  <2>5. /\ "updateReconciliation" \in QuietLabels
        /\ OnPath(work[p].kind, "updateReconciliation")
        /\ "updateReconciliation" \notin AllocationLabels
    BY <2>2 DEF QuietLabels, OnPath, AllocationLabels, MatchLabels, UnmatchLabels
  <2>6. QED BY <2>1, <2>2, <2>4, <2>5, QuietStep
<1>2. CASE UpdateReconciliation(p)
  <2> DEFINE row      == ReconciliationRow(TransactionOf(p))
             entity   == IF work[p].kind = "unmatch"
                         THEN [status |-> "UNMATCHED", order |-> NoOrder]
                         ELSE [status |-> "MANUAL_MATCHED", order |-> OrderOf(p)]
             version  == Saved(entity, local[p].selected, Sees(p, row))
             versions == NewVersion(row, version)
  <2>1. /\ At(p, "updateReconciliation") /\ Writes(p, versions)
        /\ Goto(p, "commit") /\ local' = local
    BY <1>2 DEF UpdateReconciliation
  <2>2. /\ Shapes /\ pc[p] = "updateReconciliation" /\ work' = work
        /\ work[p].kind \in {"match", "unmatch"} /\ Underway(p)
    BY <2>1, Standing DEF StaysOnPath, OnPath, Ended, Kinds, AllocationLabels, Underway
  <2>3. /\ "commit" \in QuietLabels /\ OnPath(work[p].kind, "commit")
        /\ "commit" \notin AllocationLabels
    BY <2>2 DEF QuietLabels, OnPath, AllocationLabels
  <2>4. Alone(p) /\ pc'[p] = "commit"
    BY <2>1, <2>2, GotoAlone DEF Labels
  <2>5. Sees(p, row).status # "NONE"
    BY <2>2, TransferIsSeen
  <2>6. "status" \in DOMAIN entity /\ entity.status # "NONE"
    OBVIOUS
  <2> HIDE DEF entity
  <2>7. version.status # "NONE"
    BY <2>5, <2>6, StatusSaved
  <2> HIDE DEF version
  <2>8. MayWrite(p, versions)
    <3>1. row \in Wanted(p)
      BY <2>2 DEF Wanted
    <3>2. \A q \in Requests \ {p} : row \notin DOMAIN written[q]
      BY <2>1, <3>1, WantedIsFree
    <3>3. QED BY <2>2, <2>7, <3>2, MayWriteTransfer
  <2>9. QED BY <2>1, <2>2, <2>3, <2>4, <2>8, QuietStep
<1>3. QED BY <1>1, <1>2

-----------------------------------------------------------------------------
(* Unmatching.                                                             *)

LEMMA SeqsOfSet ==
  ASSUME NEW S, IsFiniteSet(S), NEW found \in SetToSeqs(S)
  PROVE  found \in Seq(S) /\ \A i \in DOMAIN found : found[i] \in S
<1>1. Cardinality(S) \in Nat
  BY FS_CardinalityType
<1>2. found \in [1..Cardinality(S) -> S]
  BY DEF SetToSeqs
<1>3. QED BY <1>1, <1>2

LEMMA TodoTail ==
  ASSUME NEW S, NEW todo \in Seq(S), todo # <<>>
  PROVE  /\ 1 \in DOMAIN todo /\ Head(todo) = todo[1] /\ Head(todo) \in S
         /\ Tail(todo) \in Seq(S)
         /\ \A i \in DOMAIN Tail(todo) : i + 1 \in DOMAIN todo
                                         /\ Tail(todo)[i] = todo[i + 1]
<1>1. /\ Head(todo) \in S /\ Tail(todo) \in Seq(S)
      /\ Len(Tail(todo)) = Len(todo) - 1
      /\ \A i \in 1..Len(Tail(todo)) : Tail(todo)[i] = todo[i + 1]
  BY HeadTailProperties
<1>2. Len(todo) \in Nat \ {0} /\ DOMAIN todo = 1..Len(todo) /\ Head(todo) = todo[1]
  BY EmptySeq
<1>3. DOMAIN Tail(todo) = 1..Len(Tail(todo))
  BY <1>1
<1>4. QED BY <1>1, <1>2, <1>3

(* An unmatch finds rows in force that their requests have committed. *)
LEMMA FoundIsCommitted ==
  ASSUME WriterInv, NEW p \in Requests, work[p].kind = "unmatch",
         NEW q \in Requests, NEW row \in OwnRows(q), pc[q] # "done"
  PROVE  Sees(p, row) = committed[row] /\ Unborn(q)
BY DEF WriterInv, OwnOrCommitted, Sees

(* What an unmatch writes: rows of a request that has committed, and a     *)
(* receivable.                                                             *)
LEMMA MayWriteFound ==
  ASSUME NEW p \in Requests, NEW q \in Requests, pc[q] = "done", NEW versions,
         \A row \in DOMAIN versions :
           \/ row \in OwnRows(q)
           \/ \E r \in Receivables : row = ReceivableRow(r),
         \A u \in Requests \ {p} : \A row \in DOMAIN versions :
           row \notin DOMAIN written[u]
  PROVE  MayWrite(p, versions)
<1>1. \A u \in Requests : \A row \in OwnRows(u) : row \in DOMAIN versions => u = q
  BY OwnRowsApart, SharedRowsApart
<1>2. \A t \in Transactions : /\ TransactionRow(t) \notin DOMAIN versions
                              /\ ReconciliationRow(t) \notin DOMAIN versions
  BY TransferRowsApart, SharedRowsApart
<1>3. QED BY <1>1, <1>2 DEF MayWrite

LEMMA UnmatchStands ==
  ASSUME WriterInv, NEW p \in Requests,
         NEW label \in {"findAllocations", "reversePayment", "findReceipt",
                        "cancelReceipt", "findCredits", "voidCredit"},
         At(p, label)
  PROVE  /\ work[p].kind = "unmatch" /\ Underway(p) /\ Shapes /\ pc[p] = label
         /\ work' = work /\ DOMAIN local[p] = DOMAIN NoLocals /\ TodoOK(p)
         /\ label # "findOrder" /\ label \notin Ended /\ label \notin Kinds
BY Standing DEF StaysOnPath, OnPath, Ended, Kinds, AllocationLabels, MatchLabels,
                Underway

LEMMA UnmatchStep ==
  ASSUME WriterInv, NEW p \in Requests, Unmatch(p)
  PROVE  WriterInv'
<1>1. /\ Shapes /\ pc[p] = "unmatch" /\ work' = work /\ At(p, "unmatch")
      /\ work[p].kind = "unmatch"
      /\ TransactionOf(p) \in Transactions /\ TransactionOf(p)' = TransactionOf(p)
  BY Standing DEF Unmatch, StaysOnPath, OnPath, Ended, AllocationLabels, MatchLabels,
                  UnmatchLabels
<1>2. CASE Fails(p)
  BY <1>1, <1>2, FailsStep
<1>3. CASE /\ Sees(p, ReconciliationRow(TransactionOf(p))).status
                \in {"AUTO_MATCHED", "MANUAL_MATCHED"}
           /\ OnlyReads /\ Goto(p, "findAllocations") /\ local' = local
  <2>1. Alone(p) /\ pc'[p] = "findAllocations" /\ local'[p] = local[p]
    BY <1>1, <1>3, GotoAlone DEF Labels
  <2>2. written[p] = NothingWritten
    BY <1>1 DEF WriterInv, OneWriter, Kinds
  <2>3. IsKnown(TransactionOf(p)) /\ committed' = committed
    BY <1>1, <1>3, <2>2, NothingIsWritten
       DEF Sees, OnlyReads, WriterInv, KnownTogether
  <2>4. /\ StaysOnPath(p)' /\ LocalsOK(p)' /\ TodoOK(p)' /\ HoldsTransfer(p)'
    BY <1>1, <2>1, <2>3
       DEF StaysOnPath, OnPath, LocalsOK, TodoOK, HoldsTransfer, IsKnown,
           UnmatchLabels, AllocationLabels
  <2>5. QED BY <1>1, <1>3, <2>1, <2>4, ReadsStep DEF Ended, Kinds
<1>4. QED BY <1>2, <1>3 DEF Unmatch

LEMMA FindAllocationsStep ==
  ASSUME WriterInv, NEW p \in Requests, FindAllocations(p)
  PROVE  WriterInv'
<1>0. At(p, "findAllocations") /\ OnlyReads
  BY DEF FindAllocations
<1>1. /\ work[p].kind = "unmatch" /\ Underway(p) /\ Shapes /\ pc[p] = "findAllocations"
      /\ work' = work /\ DOMAIN local[p] = DOMAIN NoLocals
  BY <1>0, UnmatchStands
<1>2. PICK found \in SetToSeqs(LiveAllocations(p)) :
        Proceeds(p, IF found = <<>> THEN "findReceipt" ELSE "reversePayment",
                 [local[p] EXCEPT !.todo = found])
  BY DEF FindAllocations
<1> DEFINE locals == [local[p] EXCEPT !.todo = found]
<1>3. DOMAIN locals = DOMAIN NoLocals /\ locals.todo = found
  BY <1>1 DEF NoLocals
<1>4. IsFiniteSet(LiveAllocations(p))
  <2>1. IsFiniteSet(Requests)
    BY WorkAssumption, FS_Interval
  <2>2. IsFiniteSet(Requests \X Receivables)
    BY <2>1, RowsAssumption, FS_Product
  <2>3. LiveAllocations(p) \in SUBSET (Requests \X Receivables)
    BY DEF LiveAllocations
  <2>4. QED BY <2>2, <2>3, FS_Subset
<1>5. /\ found \in Seq(LiveAllocations(p))
      /\ \A i \in DOMAIN found : found[i] \in LiveAllocations(p)
  BY <1>4, SeqsOfSet
<1>6. found \in Seq(Requests \X Receivables)
  BY <1>5 DEF LiveAllocations
<1>7. ASSUME NEW i \in DOMAIN found PROVE pc[found[i][1]] = "done"
  <2>1. PICK q \in Requests, r \in Receivables : found[i] = <<q, r>>
    BY <1>5 DEF LiveAllocations
  <2>2. Sees(p, AllocationRow(q, r)).amount > 0
    BY <1>5, <2>1 DEF LiveAllocations, Live
  <2>3. ASSUME pc[q] # "done" PROVE FALSE
    <3>1. AllocationRow(q, r) \in OwnRows(q)
      BY OwnRowsApart
    <3>2. Sees(p, AllocationRow(q, r)) = committed[AllocationRow(q, r)] /\ Unborn(q)
      BY <1>1, <2>3, <3>1, FoundIsCommitted
    <3>3. committed[AllocationRow(q, r)].amount = 0
      BY <3>2 DEF Unborn
    <3>4. QED BY <2>2, <3>2, <3>3
  <2>4. QED BY <2>1, <2>3
<1>8. CASE found = <<>> /\ Proceeds(p, "findReceipt", locals)
  <2> HIDE DEF locals
  <2>1. Alone(p) /\ pc'[p] = "findReceipt"
    BY <1>1, <1>3, <1>8, ProceedsAlone DEF Labels
  <2>2. /\ "findReceipt" \in QuietLabels /\ OnPath(work[p].kind, "findReceipt")
        /\ "findReceipt" \notin AllocationLabels
    BY <1>1 DEF QuietLabels, OnPath, UnmatchLabels, AllocationLabels
  <2>3. QED BY <1>0, <1>1, <2>1, <2>2, QuietStep
<1>9. CASE found # <<>> /\ Proceeds(p, "reversePayment", locals)
  <2> HIDE DEF locals
  <2>1. Alone(p) /\ pc'[p] = "reversePayment" /\ local'[p] = locals
    BY <1>1, <1>3, <1>9, ProceedsAlone DEF Labels
  <2>2. StaysOnPath(p)' /\ LocalsOK(p)'
    BY <1>1, <2>1 DEF StaysOnPath, OnPath, UnmatchLabels, LocalsOK, AllocationLabels
  <2>3. \A i \in DOMAIN found : pc'[found[i][1]] = "done"
    <3>1. SUFFICES ASSUME NEW i \in DOMAIN found PROVE pc'[found[i][1]] = "done"
      OBVIOUS
    <3>2. found[i][1] \in Requests \ {p}
      BY <1>1, <1>5, <1>7 DEF LiveAllocations
    <3>3. QED BY <1>7, <2>1, <3>2 DEF Alone
  <2>4. TodoOK(p)'
    BY <1>3, <1>6, <1>9, <2>1, <2>3 DEF TodoOK
  <2>5. QED BY <1>0, <1>1, <2>1, <2>2, <2>4, ReadOn DEF Ended, Kinds
<1>10. QED BY <1>2, <1>8, <1>9

LEMMA ReversePaymentStep ==
  ASSUME WriterInv, NEW p \in Requests, ReversePayment(p)
  PROVE  WriterInv'
<1> DEFINE todo       == local[p].todo
           allocation == Sees(p, AllocationRow(Head(todo)[1], Head(todo)[2]))
           receivable == ReceivableRow(Head(todo)[2])
           reduced    == ReversePaymentDelta(Sees(p, receivable), allocation.amount,
                                             NotPastDue)
           reversed   == [allocation EXCEPT !.reversed = TRUE]
           versions   == NewVersion(receivable, reduced) \uplus
                           NewVersion(AllocationRow(Head(todo)[1], Head(todo)[2]),
                                      reversed)
           next       == IF Tail(todo) = <<>> THEN "findReceipt" ELSE "reversePayment"
           locals     == [local[p] EXCEPT !.todo = Tail(todo)]
<1>0. At(p, "reversePayment") /\ Writes(p, versions) /\ Proceeds(p, next, locals)
  BY DEF ReversePayment
<1>1. /\ work[p].kind = "unmatch" /\ Underway(p) /\ Shapes /\ pc[p] = "reversePayment"
      /\ work' = work /\ DOMAIN local[p] = DOMAIN NoLocals /\ TodoOK(p)
  BY <1>0, UnmatchStands
<1>2. /\ todo \in Seq(Requests \X Receivables) /\ todo # <<>>
      /\ \A i \in DOMAIN todo : pc[todo[i][1]] = "done"
  BY <1>1 DEF TodoOK
<1>3. DOMAIN locals = DOMAIN NoLocals /\ locals.todo = Tail(todo)
  BY <1>1 DEF NoLocals
<1> HIDE DEF todo, locals, reduced, reversed
<1>4. /\ Head(todo) \in Requests \X Receivables
      /\ Tail(todo) \in Seq(Requests \X Receivables)
      /\ pc[Head(todo)[1]] = "done"
      /\ \A i \in DOMAIN Tail(todo) : pc[Tail(todo)[i][1]] = "done"
  BY <1>2, TodoTail
<1>5. PICK q \in Requests, r \in Receivables : Head(todo) = <<q, r>>
  BY <1>4
<1>6. DOMAIN versions = {ReceivableRow(r), AllocationRow(q, r)}
  <2>1. DOMAIN versions = {receivable, AllocationRow(Head(todo)[1], Head(todo)[2])}
    BY TwoVersions, Zenon
  <2>2. Head(todo)[1] = q /\ Head(todo)[2] = r
    BY <1>5
  <2>3. QED BY <2>1, <2>2
<1> HIDE DEF versions
<1>7. MayWrite(p, versions)
  <2>1. ReceivableRow(r) \in Wanted(p) /\ AllocationRow(q, r) \in Wanted(p)
    BY <1>1, <1>5 DEF Wanted, ReceivablesLocked, todo
  <2>2. \A u \in Requests \ {p} : ReceivableRow(r) \notin DOMAIN written[u]
                                  /\ AllocationRow(q, r) \notin DOMAIN written[u]
    BY <1>0, <2>1, WantedIsFree
  <2>3. AllocationRow(q, r) \in OwnRows(q)
    BY OwnRowsApart
  <2>4. pc[q] = "done"
    BY <1>4, <1>5
  <2>5. QED BY <1>6, <2>2, <2>3, <2>4, MayWriteFound
<1>8. CASE Tail(todo) = <<>>
  <2>1. Proceeds(p, "findReceipt", locals)
    BY <1>0, <1>8
  <2>2. Alone(p) /\ pc'[p] = "findReceipt"
    BY <1>1, <1>3, <2>1, ProceedsAlone DEF Labels
  <2>3. /\ "findReceipt" \in QuietLabels /\ OnPath(work[p].kind, "findReceipt")
        /\ "findReceipt" \notin AllocationLabels
    BY <1>1 DEF QuietLabels, OnPath, UnmatchLabels, AllocationLabels
  <2>4. QED BY <1>0, <1>1, <1>7, <2>2, <2>3, QuietStep
<1>9. CASE Tail(todo) # <<>>
  <2>1. Proceeds(p, "reversePayment", locals)
    BY <1>0, <1>9
  <2>2. Alone(p) /\ pc'[p] = "reversePayment" /\ local'[p] = locals
    BY <1>1, <1>3, <2>1, ProceedsAlone DEF Labels
  <2>3. StaysOnPath(p)' /\ LocalsOK(p)'
    BY <1>1, <2>2 DEF StaysOnPath, OnPath, UnmatchLabels, LocalsOK, AllocationLabels
  <2>4. PICK rest : rest = Tail(todo)
    OBVIOUS
  <2>5. \A i \in DOMAIN rest : pc'[rest[i][1]] = "done"
    <3>1. SUFFICES ASSUME NEW i \in DOMAIN rest PROVE pc'[rest[i][1]] = "done"
      OBVIOUS
    <3>2. rest[i] \in Requests \X Receivables
      BY <1>4, <2>4, ElementOfSeq
    <3>3. QED BY <1>1, <1>4, <2>2, <2>4, <3>2 DEF Alone
  <2>6. TodoOK(p)'
    BY <1>3, <1>4, <1>9, <2>2, <2>4, <2>5 DEF TodoOK
  <2>7. QED BY <1>0, <1>1, <1>7, <2>2, <2>3, <2>6, WriteOn DEF Ended, Kinds
<1>10. QED BY <1>8, <1>9

LEMMA FindReceiptStep ==
  ASSUME WriterInv, NEW p \in Requests, FindReceipt(p)
  PROVE  WriterInv'
<1>0. At(p, "findReceipt") /\ OnlyReads
  BY DEF FindReceipt
<1>1. /\ work[p].kind = "unmatch" /\ Underway(p) /\ Shapes /\ pc[p] = "findReceipt"
      /\ work' = work /\ DOMAIN local[p] = DOMAIN NoLocals
  BY <1>0, UnmatchStands
<1>2. CASE Goto(p, "findCredits") /\ local' = local
  <2>1. Alone(p) /\ pc'[p] = "findCredits"
    BY <1>1, <1>2, GotoAlone DEF Labels
  <2>2. /\ "findCredits" \in QuietLabels /\ OnPath(work[p].kind, "findCredits")
        /\ "findCredits" \notin AllocationLabels
    BY <1>1 DEF QuietLabels, OnPath, UnmatchLabels, AllocationLabels
  <2>3. QED BY <1>0, <1>1, <2>1, <2>2, QuietStep
<1>3. CASE \E q \in Issued(p) :
             Proceeds(p, "cancelReceipt", [local[p] EXCEPT !.todo = <<q>>])
  <2>1. PICK q \in Issued(p) :
               Proceeds(p, "cancelReceipt", [local[p] EXCEPT !.todo = <<q>>])
    BY <1>3
  <2> DEFINE locals == [local[p] EXCEPT !.todo = <<q>>]
  <2>2. q \in Requests /\ Sees(p, ReceiptRow(q)).status = "ISSUED"
    BY DEF Issued
  <2>3. ASSUME pc[q] # "done" PROVE FALSE
    <3>1. ReceiptRow(q) \in OwnRows(q)
      BY OwnRowsApart
    <3>2. Sees(p, ReceiptRow(q)) = committed[ReceiptRow(q)] /\ Unborn(q)
      BY <1>1, <2>2, <2>3, <3>1, FoundIsCommitted
    <3>3. QED BY <2>2, <3>2 DEF Unborn
  <2>4. DOMAIN locals = DOMAIN NoLocals /\ locals.todo = <<q>>
    BY <1>1 DEF NoLocals
  <2> HIDE DEF locals
  <2>5. Alone(p) /\ pc'[p] = "cancelReceipt" /\ local'[p] = locals
    BY <1>1, <2>1, <2>4, ProceedsAlone DEF Labels, locals
  <2>6. StaysOnPath(p)' /\ LocalsOK(p)'
    BY <1>1, <2>5 DEF StaysOnPath, OnPath, UnmatchLabels, LocalsOK, AllocationLabels
  <2>7. pc'[q] = "done" /\ <<q>> \in Seq(Requests) /\ <<q>> # <<>>
        /\ \A i \in DOMAIN <<q>> : <<q>>[i] = q
    BY <1>1, <2>2, <2>3, <2>5 DEF Alone
  <2>8. TodoOK(p)'
    BY <2>4, <2>5, <2>7 DEF TodoOK
  <2>9. QED BY <1>0, <1>1, <2>5, <2>6, <2>8, ReadOn DEF Ended, Kinds
<1>4. QED BY <1>2, <1>3 DEF FindReceipt

LEMMA CancelReceiptStep ==
  ASSUME WriterInv, NEW p \in Requests, CancelReceipt(p)
  PROVE  WriterInv'
<1> DEFINE todo     == local[p].todo
           row      == ReceiptRow(Head(todo))
           version  == [Sees(p, row) EXCEPT !.status = "CANCELLED"]
           versions == NewVersion(row, version)
           locals   == [local[p] EXCEPT !.todo = <<>>]
<1>0. At(p, "cancelReceipt") /\ Writes(p, versions)
      /\ Proceeds(p, "findCredits", locals)
  BY DEF CancelReceipt
<1>1. /\ work[p].kind = "unmatch" /\ Underway(p) /\ Shapes /\ pc[p] = "cancelReceipt"
      /\ work' = work /\ DOMAIN local[p] = DOMAIN NoLocals /\ TodoOK(p)
  BY <1>0, UnmatchStands
<1>2. Head(todo) \in Requests /\ pc[Head(todo)] = "done"
  <2>1. /\ todo \in Seq(Requests) /\ todo # <<>>
        /\ \A i \in DOMAIN todo : pc[todo[i]] = "done"
    BY <1>1 DEF TodoOK
  <2> HIDE DEF todo
  <2>2. QED BY <2>1, TodoTail
<1>3. DOMAIN locals = DOMAIN NoLocals
  BY <1>1 DEF NoLocals
<1> HIDE DEF locals
<1>4. Alone(p) /\ pc'[p] = "findCredits"
  BY <1>0, <1>1, <1>3, ProceedsAlone DEF Labels
<1>5. DOMAIN versions = {row}
  BY OneVersion
<1> HIDE DEF versions
<1>6. MayWrite(p, versions)
  <2>1. row \in Wanted(p)
    BY <1>1 DEF Wanted
  <2>2. \A u \in Requests \ {p} : row \notin DOMAIN written[u]
    BY <1>0, <2>1, WantedIsFree
  <2>3. row \in OwnRows(Head(todo))
    BY OwnRowsApart
  <2>4. QED BY <1>2, <1>5, <2>2, <2>3, MayWriteFound
<1>7. /\ "findCredits" \in QuietLabels /\ OnPath(work[p].kind, "findCredits")
      /\ "findCredits" \notin AllocationLabels
  BY <1>1 DEF QuietLabels, OnPath, UnmatchLabels, AllocationLabels
<1>8. QED BY <1>0, <1>1, <1>4, <1>6, <1>7, QuietStep

LEMMA FindCreditsStep ==
  ASSUME WriterInv, NEW p \in Requests, FindCredits(p)
  PROVE  WriterInv'
<1>0. At(p, "findCredits") /\ OnlyReads
  BY DEF FindCredits
<1>1. /\ work[p].kind = "unmatch" /\ Underway(p) /\ Shapes /\ pc[p] = "findCredits"
      /\ work' = work /\ DOMAIN local[p] = DOMAIN NoLocals
  BY <1>0, UnmatchStands
<1>2. PICK found \in SetToSeqs(Untouched(p)) :
        Proceeds(p, IF found = <<>> THEN "saveTransaction" ELSE "voidCredit",
                 [local[p] EXCEPT !.todo = found])
  BY DEF FindCredits
<1> DEFINE locals == [local[p] EXCEPT !.todo = found]
<1>3. DOMAIN locals = DOMAIN NoLocals /\ locals.todo = found
  BY <1>1 DEF NoLocals
<1>4. IsFiniteSet(Untouched(p))
  <2>1. IsFiniteSet(Requests)
    BY WorkAssumption, FS_Interval
  <2>2. Untouched(p) \in SUBSET Requests
    BY DEF Untouched, AvailableCredits
  <2>3. QED BY <2>1, <2>2, FS_Subset
<1>5. /\ found \in Seq(Untouched(p))
      /\ \A i \in DOMAIN found : found[i] \in Untouched(p)
  BY <1>4, SeqsOfSet
<1>6. found \in Seq(Requests)
  BY <1>5 DEF Untouched, AvailableCredits
<1>7. ASSUME NEW q \in Untouched(p) PROVE q \in Requests /\ pc[q] = "done"
  <2>1. q \in Requests /\ Sees(p, CreditRow(q)).status = "AVAILABLE"
    BY DEF Untouched, AvailableCredits
  <2>2. ASSUME pc[q] # "done" PROVE FALSE
    <3>1. CreditRow(q) \in OwnRows(q)
      BY OwnRowsApart
    <3>2. Sees(p, CreditRow(q)) = committed[CreditRow(q)] /\ Unborn(q)
      BY <1>1, <2>1, <2>2, <3>1, FoundIsCommitted
    <3>3. QED BY <2>1, <3>2 DEF Unborn
  <2>3. QED BY <2>1, <2>2
<1>8. CASE found = <<>> /\ Proceeds(p, "saveTransaction", locals)
  <2> HIDE DEF locals
  <2>1. Alone(p) /\ pc'[p] = "saveTransaction"
    BY <1>1, <1>3, <1>8, ProceedsAlone DEF Labels
  <2>2. "saveTransaction" \in QuietLabels /\ OnPath(work[p].kind, "saveTransaction")
    BY <1>1 DEF QuietLabels, OnPath, UnmatchLabels
  <2>3. QED BY <1>0, <1>1, <2>1, <2>2, QuietStep
<1>9. CASE found # <<>> /\ Proceeds(p, "voidCredit", locals)
  <2> HIDE DEF locals
  <2>1. Alone(p) /\ pc'[p] = "voidCredit" /\ local'[p] = locals
    BY <1>1, <1>3, <1>9, ProceedsAlone DEF Labels
  <2>2. StaysOnPath(p)' /\ LocalsOK(p)'
    BY <1>1, <2>1 DEF StaysOnPath, OnPath, UnmatchLabels, LocalsOK, AllocationLabels
  <2>3. \A i \in DOMAIN found : pc'[found[i]] = "done"
    BY <1>1, <1>5, <1>7, <2>1 DEF Alone
  <2>4. TodoOK(p)'
    BY <1>3, <1>6, <1>9, <2>1, <2>3 DEF TodoOK
  <2>5. QED BY <1>0, <1>1, <2>1, <2>2, <2>4, ReadOn DEF Ended, Kinds
<1>10. QED BY <1>2, <1>8, <1>9

LEMMA VoidCreditStep ==
  ASSUME WriterInv, NEW p \in Requests, VoidCredit(p)
  PROVE  WriterInv'
<1> DEFINE todo     == local[p].todo
           row      == CreditRow(Head(todo))
           version  == [Sees(p, row) EXCEPT !.remaining = 0, !.status = "REFUNDED"]
           versions == NewVersion(row, version)
           next     == IF Tail(todo) = <<>> THEN "saveTransaction" ELSE "voidCredit"
           locals   == [local[p] EXCEPT !.todo = Tail(todo)]
<1>0. At(p, "voidCredit") /\ Writes(p, versions) /\ Proceeds(p, next, locals)
  BY DEF VoidCredit
<1>1. /\ work[p].kind = "unmatch" /\ Underway(p) /\ Shapes /\ pc[p] = "voidCredit"
      /\ work' = work /\ DOMAIN local[p] = DOMAIN NoLocals /\ TodoOK(p)
  BY <1>0, UnmatchStands
<1>2. /\ todo \in Seq(Requests) /\ todo # <<>>
      /\ \A i \in DOMAIN todo : pc[todo[i]] = "done"
  BY <1>1 DEF TodoOK
<1>3. DOMAIN locals = DOMAIN NoLocals /\ locals.todo = Tail(todo)
  BY <1>1 DEF NoLocals
<1>4. row \in Wanted(p)
  BY <1>1 DEF Wanted
<1>5. DOMAIN versions = {row}
  BY OneVersion
<1> HIDE DEF todo, locals, versions
<1>6. /\ Head(todo) \in Requests /\ pc[Head(todo)] = "done"
      /\ Tail(todo) \in Seq(Requests)
      /\ \A i \in DOMAIN Tail(todo) : pc[Tail(todo)[i]] = "done"
  BY <1>2, TodoTail
<1>7. MayWrite(p, versions)
  <2>1. \A u \in Requests \ {p} : row \notin DOMAIN written[u]
    BY <1>0, <1>4, WantedIsFree
  <2>2. row \in OwnRows(Head(todo))
    BY OwnRowsApart
  <2>3. QED BY <1>5, <1>6, <2>1, <2>2, MayWriteFound
<1>8. CASE Tail(todo) = <<>>
  <2>1. Proceeds(p, "saveTransaction", locals)
    BY <1>0, <1>8
  <2>2. Alone(p) /\ pc'[p] = "saveTransaction"
    BY <1>1, <1>3, <2>1, ProceedsAlone DEF Labels
  <2>3. "saveTransaction" \in QuietLabels /\ OnPath(work[p].kind, "saveTransaction")
    BY <1>1 DEF QuietLabels, OnPath, UnmatchLabels
  <2>4. QED BY <1>0, <1>1, <1>7, <2>2, <2>3, QuietStep
<1>9. CASE Tail(todo) # <<>>
  <2>1. Proceeds(p, "voidCredit", locals)
    BY <1>0, <1>9
  <2>2. Alone(p) /\ pc'[p] = "voidCredit" /\ local'[p] = locals
    BY <1>1, <1>3, <2>1, ProceedsAlone DEF Labels
  <2>3. StaysOnPath(p)' /\ LocalsOK(p)'
    BY <1>1, <2>2 DEF StaysOnPath, OnPath, UnmatchLabels, LocalsOK, AllocationLabels
  <2>4. PICK rest : rest = Tail(todo)
    OBVIOUS
  <2>5. \A i \in DOMAIN rest : pc'[rest[i]] = "done"
    <3>1. SUFFICES ASSUME NEW i \in DOMAIN rest PROVE pc'[rest[i]] = "done"
      OBVIOUS
    <3>2. rest[i] \in Requests
      BY <1>6, <2>4, ElementOfSeq
    <3>3. QED BY <1>1, <1>6, <2>2, <2>4, <3>2 DEF Alone
  <2>6. TodoOK(p)'
    BY <1>3, <1>6, <1>9, <2>2, <2>4, <2>5 DEF TodoOK
  <2>7. QED BY <1>0, <1>1, <1>7, <2>2, <2>3, <2>6, WriteOn DEF Ended, Kinds
<1>10. QED BY <1>8, <1>9

-----------------------------------------------------------------------------
(* The other statements, and what may happen to any request.               *)

LEMMA GetQrStep ==
  ASSUME WriterInv, NEW p \in Requests, GetQr(p)
  PROVE  WriterInv'
<1>1. /\ Shapes /\ pc[p] = "getQr" /\ work' = work /\ OnlyReads
      /\ work[p].kind = "getQr" /\ DOMAIN local[p] = DOMAIN NoLocals
  BY Standing DEF GetQr, StaysOnPath, OnPath, Ended, AllocationLabels, MatchLabels,
                  UnmatchLabels
<1>2. written[p] = NothingWritten
  BY <1>1 DEF WriterInv, OneWriter, Kinds
<1>3. CASE Proceeds(p, "saveOrder", [local[p] EXCEPT !.orderStatus = "EXPIRED"])
  <2> DEFINE locals == [local[p] EXCEPT !.orderStatus = "EXPIRED"]
  <2>1. DOMAIN locals = DOMAIN NoLocals
    BY <1>1 DEF NoLocals
  <2> HIDE DEF locals
  <2>2. Alone(p) /\ pc'[p] = "saveOrder"
    BY <1>1, <1>3, <2>1, ProceedsAlone DEF Labels, locals
  <2>3. /\ StaysOnPath(p)' /\ LocalsOK(p)' /\ TodoOK(p)' /\ HoldsTransfer(p)'
    BY <1>1, <2>2
       DEF StaysOnPath, OnPath, LocalsOK, TodoOK, HoldsTransfer, AllocationLabels
  <2>4. QED BY <1>1, <2>2, <2>3, ReadsStep DEF Ended, Kinds
<1>4. CASE Proceeds(p, "done", NoLocals)
  <2>1. Alone(p) /\ pc'[p] = "done"
    BY <1>1, <1>4, ProceedsAlone DEF Labels, Ended
  <2>2. /\ StaysOnPath(p)' /\ LocalsOK(p)' /\ TodoOK(p)' /\ HoldsTransfer(p)'
    BY <1>1, <2>1
       DEF StaysOnPath, OnPath, LocalsOK, TodoOK, HoldsTransfer, AllocationLabels,
           Ended, Underway
  <2>3. QED BY <1>1, <1>2, <2>1, <2>2, ReadsStep
<1>5. QED BY <1>3, <1>4 DEF GetQr

LEMMA DiscountStep ==
  ASSUME WriterInv, NEW p \in Requests, Discount(p)
  PROVE  WriterInv'
<1>1. /\ Shapes /\ pc[p] = "discount" /\ work' = work /\ At(p, "discount")
      /\ work[p].kind = "discount"
  BY Standing DEF Discount, StaysOnPath, OnPath, Ended, AllocationLabels, MatchLabels,
                  UnmatchLabels
<1>2. CASE Fails(p)
  BY <1>1, <1>2, FailsStep
<1>3. CASE OnlyReads /\ Goto(p, "saveDiscount") /\ local' = local
  <2>1. Alone(p) /\ pc'[p] = "saveDiscount"
    BY <1>1, <1>3, GotoAlone DEF Labels
  <2>2. /\ StaysOnPath(p)' /\ LocalsOK(p)' /\ TodoOK(p)' /\ HoldsTransfer(p)'
    BY <1>1, <2>1
       DEF StaysOnPath, OnPath, LocalsOK, TodoOK, HoldsTransfer, AllocationLabels
  <2>3. QED BY <1>1, <1>3, <2>1, <2>2, ReadsStep DEF Ended, Kinds
<1>4. QED BY <1>2, <1>3 DEF Discount

LEMMA SaveDiscountStep ==
  ASSUME WriterInv, NEW p \in Requests, SaveDiscount(p) \/ ApplyDiscount(p)
  PROVE  WriterInv'
<1>1. CASE SaveDiscount(p)
  <2> DEFINE versions == NewVersion(DiscountRow(p), work[p].amount)
  <2>1. /\ At(p, "saveDiscount") /\ Writes(p, versions)
        /\ Goto(p, "applyDiscount") /\ local' = local
    BY <1>1 DEF SaveDiscount
  <2>2. /\ Shapes /\ pc[p] = "saveDiscount" /\ work' = work
        /\ work[p].kind = "discount" /\ Underway(p)
    BY <2>1, Standing DEF StaysOnPath, OnPath, Ended, Kinds, AllocationLabels,
                          MatchLabels, UnmatchLabels, Underway
  <2>3. Alone(p) /\ pc'[p] = "applyDiscount"
    BY <2>1, <2>2, GotoAlone DEF Labels
  <2>4. /\ "applyDiscount" \in QuietLabels /\ OnPath(work[p].kind, "applyDiscount")
        /\ "applyDiscount" \notin AllocationLabels
    BY <2>2 DEF QuietLabels, OnPath, AllocationLabels
  <2>5. DOMAIN versions = {DiscountRow(p)}
    BY OneVersion
  <2> HIDE DEF versions
  <2>6. MayWrite(p, versions)
    <3>1. DiscountRow(p) \in OwnRows(p)
          /\ \A q \in Requests : DiscountRow(p) \in OwnRows(q) => q = p
      BY OwnRowsApart
    <3>2. \A q \in Requests \ {p} : DiscountRow(p) \notin DOMAIN written[q]
      BY <2>2, <3>1, OwnIsFree
    <3>3. QED BY <2>2, <2>5, <3>1, <3>2, TransferRowsApart DEF MayWrite
  <2>7. QED BY <2>1, <2>2, <2>3, <2>4, <2>6, QuietStep
<1>2. CASE ApplyDiscount(p)
  <2> DEFINE reduced  == ApplyDiscountDelta(Sees(p, Discounted(p)), work[p].amount,
                                            NotPastDue)
             versions == NewVersion(Discounted(p), reduced)
  <2>1. /\ At(p, "applyDiscount") /\ Writes(p, versions)
        /\ Goto(p, "commit") /\ local' = local
    BY <1>2 DEF ApplyDiscount
  <2>2. /\ Shapes /\ pc[p] = "applyDiscount" /\ work' = work
        /\ work[p].kind = "discount" /\ Underway(p)
        /\ work[p].receivable \in Receivables
    BY <2>1, Standing DEF StaysOnPath, OnPath, Ended, Kinds, AllocationLabels,
                          MatchLabels, UnmatchLabels, Underway, WriterInv, WorkOK
  <2>3. Alone(p) /\ pc'[p] = "commit"
    BY <2>1, <2>2, GotoAlone DEF Labels
  <2>4. /\ "commit" \in QuietLabels /\ OnPath(work[p].kind, "commit")
        /\ "commit" \notin AllocationLabels
    BY <2>2 DEF QuietLabels, OnPath, AllocationLabels
  <2>5. DOMAIN versions = {Discounted(p)}
    BY OneVersion
  <2> HIDE DEF versions
  <2>6. MayWrite(p, versions)
    <3>1. Discounted(p) \in Wanted(p)
      BY <2>2 DEF Wanted, ReceivablesLocked, Discounted
    <3>2. \A q \in Requests \ {p} : Discounted(p) \notin DOMAIN written[q]
      BY <2>1, <3>1, WantedIsFree
    <3>3. QED BY <2>2, <2>5, <3>2, MayWriteShared DEF Discounted
  <2>7. QED BY <2>1, <2>2, <2>3, <2>4, <2>6, QuietStep
<1>3. QED BY <1>1, <1>2

(* A request that has ended waits for nobody. *)
LEMMA EndedWaitsForNobody ==
  ASSUME NEW p \in Requests, pc[p] \in Ended
  PROVE  p \notin WaitsFor(p)
<1> DEFINE Step(g) == [n \in 0..NumRequests |->
                         IF n = 0 THEN Blockers(p)
                         ELSE g[n - 1] \union UNION {Blockers(q) : q \in g[n - 1]}]
           reached == CHOOSE g : g = Step(g)
           nobody  == [n \in 0..NumRequests |-> {}]
           Good    == {n \in 0..NumRequests : reached[n] = {}}
<1>0. NumRequests \in Nat
  BY WorkAssumption
<1>1. Blockers(p) = {}
  BY DEF Blockers, Wanted, TransactionsLocked, ReceivablesLocked, LocksForUpdate, Ended
<1>2. nobody = Step(nobody)
  <2>1. ASSUME NEW n \in 0..NumRequests, n # 0
        PROVE  nobody[n - 1] \union UNION {Blockers(q) : q \in nobody[n - 1]} = {}
    <3>1. nobody[n - 1] = {}
      BY <1>0, <2>1
    <3> HIDE DEF nobody
    <3>2. QED BY <3>1
  <2>2. QED BY <1>1, <2>1
<1>3. reached = Step(reached)
  <2> HIDE DEF nobody, Step
  <2>1. QED BY <1>2
<1> HIDE DEF reached
<1>4. 0 \in Good
  BY <1>0, <1>1, <1>3
<1>5. ASSUME NEW n \in 1..NumRequests, n - 1 \in Good PROVE n \in Good
  <2>1. n \in 0..NumRequests /\ n # 0 /\ reached[n - 1] = {}
    BY <1>0, <1>5
  <2>2. reached[n] = reached[n - 1] \union UNION {Blockers(q) : q \in reached[n - 1]}
    BY <1>3, <2>1
  <2>3. QED BY <2>1, <2>2
<1>6. NumRequests \in Good
  <2> HIDE DEF Good
  <2>1. NumRequests \in 0..NumRequests
    BY <1>0
  <2>2. QED BY <1>0, <1>4, <1>5, <2>1, RowInduction
<1>7. WaitsFor(p) = reached[NumRequests]
  BY Zenon DEF WaitsFor, reached
<1>8. QED BY <1>6, <1>7

LEMMA RedeliverStep ==
  ASSUME WriterInv, NEW p \in Requests, Redeliver(p)
  PROVE  WriterInv'
<1>1. /\ Shapes /\ pc[p] = "failed" /\ work' = work /\ OnlyReads
      /\ work[p].kind = "ingest" /\ Proceeds(p, "ingest", NoLocals)
  BY DEF Redeliver, WriterInv, load
<1>2. written[p] = NothingWritten
  BY <1>1 DEF WriterInv, OneWriter, Ended
<1>3. Alone(p) /\ pc'[p] = "ingest" /\ local'[p] = NoLocals
  BY <1>1, ProceedsAlone DEF Labels, Kinds
<1>4. /\ StaysOnPath(p)' /\ LocalsOK(p)' /\ TodoOK(p)' /\ HoldsTransfer(p)'
  BY <1>1, <1>3, NoLocalsItem
     DEF StaysOnPath, OnPath, LocalsOK, TodoOK, HoldsTransfer, AllocationLabels,
         Kinds, Underway
<1>5. QED BY <1>1, <1>2, <1>3, <1>4, ReadsStep

LEMMA StatementStep ==
  ASSUME WriterInv, NEW p \in Requests, Statement(p)
  PROVE  WriterInv'
<1>1. CASE Commit(p)
  BY <1>1, EndsStep, Standing DEF Commit
<1>2. QED
  BY <1>1, IngestStep, FindOrderStep, MatchStep, ReadItemStep, SaveAllocationStep,
     ApplyPaymentStep, CheckItemStep, SaveOrderStep, SaveTransactionStep,
     IssueReceiptStep, SaveReconciliationStep, UnmatchStep, FindAllocationsStep,
     ReversePaymentStep, FindReceiptStep, CancelReceiptStep, FindCreditsStep,
     VoidCreditStep, GetQrStep, DiscountStep, SaveDiscountStep
     DEF Statement

LEMMA NextStep == WriterInv /\ [Next]_vars => WriterInv'
<1> SUFFICES ASSUME WriterInv, [Next]_vars PROVE WriterInv'
  OBVIOUS
<1>1. CASE UNCHANGED vars
  BY <1>1
     DEF vars, load, WriterInv, WorkOK, Shapes, OneWriter, KnownTogether, IsKnown,
         StaysOnPath, LocalsOK, TodoOK, Unborn, OwnOrCommitted, TransferRowsHeld,
         HoldsTransfer, OrderOf, ItemsOf, TransactionOf, Underway
<1>2. CASE Next
  <2>1. PICK p \in Requests :
          Statement(p) \/ DeadlockVictim(p) \/ Crash(p) \/ Redeliver(p)
    BY <1>2 DEF Next
  <2>2. CASE DeadlockVictim(p)
    <3>1. pc[p] # "done"
      BY <2>2, EndedWaitsForNobody DEF DeadlockVictim, Ended
    <3>2. QED BY <2>2, <3>1, FailsStep DEF DeadlockVictim, load
  <2>3. CASE Crash(p)
    BY <2>3, FailsStep DEF Crash, load, Ended
  <2>4. QED BY <2>1, <2>2, <2>3, StatementStep, RedeliverStep
<1>3. QED BY <1>1, <1>2

-----------------------------------------------------------------------------
(* The rows before any request.                                            *)

LEMMA InitialVersions ==
  ASSUME NEW requests
  PROVE  LET rows == InitialRows(requests) IN
         /\ AllRows \subseteq DOMAIN rows
         /\ \A r \in Receivables :
              rows[ReceivableRow(r)] = NewReceivable(OriginalAmount[r])
         /\ \A o \in Orders : rows[OrderRow(o)] = [status |-> "PENDING"]
         /\ \A t \in Transactions :
              /\ rows[TransactionRow(t)] = [status |-> InitialStatus(requests, t)]
              /\ rows[ReconciliationRow(t)] =
                   [status |-> InitialStatus(requests, t), order |-> NoOrder]
         /\ \A p \in Requests :
              /\ rows[CreditRow(p)] = [amount |-> 0, remaining |-> 0, status |-> "NONE"]
              /\ rows[ReceiptRow(p)] = [number |-> 0, status |-> "NONE"]
              /\ rows[DiscountRow(p)] = 0
              /\ \A r \in Receivables :
                   rows[AllocationRow(p, r)] = [amount |-> 0, reversed |-> FALSE]
         /\ rows[SequenceRow] = 0
<1> DEFINE T1 == [row \in {"student_receivables"} \X Receivables |->
                    NewReceivable(OriginalAmount[row[2]])]
           T2 == [row \in {"payment_orders"} \X Orders |-> [status |-> "PENDING"]]
           T3 == [row \in {"payment_transactions"} \X Transactions |->
                    [status |-> InitialStatus(requests, row[2])]]
           T4 == [row \in {"bank_reconciliations"} \X Transactions |->
                    [status |-> InitialStatus(requests, row[2]), order |-> NoOrder]]
           T5 == [row \in {"payment_allocations"} \X (Requests \X Receivables) |->
                    [amount |-> 0, reversed |-> FALSE]]
           T6 == [row \in {"student_credits"} \X Requests |->
                    [amount |-> 0, remaining |-> 0, status |-> "NONE"]]
           T7 == [row \in {"receipts"} \X Requests |-> [number |-> 0, status |-> "NONE"]]
           T8 == [row \in {"student_discounts"} \X Requests |-> 0]
           T9 == [row \in {"number_sequences"} \X {"RECEIPT"} |-> 0]
           S2 == T1 \uplus T2
           S3 == S2 \uplus T3
           S4 == S3 \uplus T4
           S5 == S4 \uplus T5
           S6 == S5 \uplus T6
           S7 == S6 \uplus T7
           S8 == S7 \uplus T8
           S9 == S8 \uplus T9
           N2 == {"student_receivables", "payment_orders"}
           N3 == N2 \union {"payment_transactions"}
           N4 == N3 \union {"bank_reconciliations"}
           N5 == N4 \union {"payment_allocations"}
           N6 == N5 \union {"student_credits"}
           N7 == N6 \union {"receipts"}
           N8 == N7 \union {"student_discounts"}
<1>1. InitialRows(requests) = S9
  BY DEF InitialRows, Table
<1>2. /\ \A r \in Receivables : /\ ReceivableRow(r) \in DOMAIN T1
                                /\ T1[ReceivableRow(r)] = NewReceivable(OriginalAmount[r])
      /\ \A row \in DOMAIN T1 : row[1] \in {"student_receivables"}
  BY DEF ReceivableRow
<1>3. /\ \A o \in Orders : /\ OrderRow(o) \in DOMAIN T2
                           /\ T2[OrderRow(o)] = [status |-> "PENDING"]
      /\ \A row \in DOMAIN T2 : row[1] = "payment_orders"
  BY DEF OrderRow
<1>4. /\ \A t \in Transactions :
           /\ TransactionRow(t) \in DOMAIN T3
           /\ T3[TransactionRow(t)] = [status |-> InitialStatus(requests, t)]
      /\ \A row \in DOMAIN T3 : row[1] = "payment_transactions"
  BY DEF TransactionRow
<1>5. /\ \A t \in Transactions :
           /\ ReconciliationRow(t) \in DOMAIN T4
           /\ T4[ReconciliationRow(t)] =
                [status |-> InitialStatus(requests, t), order |-> NoOrder]
      /\ \A row \in DOMAIN T4 : row[1] = "bank_reconciliations"
  BY DEF ReconciliationRow
<1>6. /\ \A p \in Requests, r \in Receivables :
           /\ AllocationRow(p, r) \in DOMAIN T5
           /\ T5[AllocationRow(p, r)] = [amount |-> 0, reversed |-> FALSE]
      /\ \A row \in DOMAIN T5 : row[1] = "payment_allocations"
  BY DEF AllocationRow
<1>7. /\ \A p \in Requests :
           /\ CreditRow(p) \in DOMAIN T6
           /\ T6[CreditRow(p)] = [amount |-> 0, remaining |-> 0, status |-> "NONE"]
      /\ \A row \in DOMAIN T6 : row[1] = "student_credits"
  BY DEF CreditRow
<1>8. /\ \A p \in Requests : /\ ReceiptRow(p) \in DOMAIN T7
                             /\ T7[ReceiptRow(p)] = [number |-> 0, status |-> "NONE"]
      /\ \A row \in DOMAIN T7 : row[1] = "receipts"
  BY DEF ReceiptRow
<1>9. /\ \A p \in Requests : DiscountRow(p) \in DOMAIN T8 /\ T8[DiscountRow(p)] = 0
      /\ \A row \in DOMAIN T8 : row[1] = "student_discounts"
  BY DEF DiscountRow
<1>10. /\ SequenceRow \in DOMAIN T9 /\ T9[SequenceRow] = 0
       /\ \A row \in DOMAIN T9 : row[1] = "number_sequences"
  BY DEF SequenceRow
<1> HIDE DEF T1, T2, T3, T4, T5, T6, T7, T8, T9
<1>12. /\ \A row \in DOMAIN S2 : row[1] \in N2
       /\ DOMAIN S2 = DOMAIN T1 \union DOMAIN T2
       /\ \A row \in DOMAIN T1 : S2[row] = T1[row]
       /\ \A row \in DOMAIN T2 : S2[row] = T2[row]
  BY <1>2, <1>3 DEF \uplus
<1> HIDE DEF S2
<1>13. /\ \A row \in DOMAIN S3 : row[1] \in N3
       /\ DOMAIN S3 = DOMAIN S2 \union DOMAIN T3
       /\ \A row \in DOMAIN S2 : S3[row] = S2[row]
       /\ \A row \in DOMAIN T3 : S3[row] = T3[row]
  BY <1>4, <1>12 DEF \uplus
<1> HIDE DEF S3
<1>14. /\ \A row \in DOMAIN S4 : row[1] \in N4
       /\ DOMAIN S4 = DOMAIN S3 \union DOMAIN T4
       /\ \A row \in DOMAIN S3 : S4[row] = S3[row]
       /\ \A row \in DOMAIN T4 : S4[row] = T4[row]
  BY <1>5, <1>13 DEF \uplus
<1> HIDE DEF S4
<1>15. /\ \A row \in DOMAIN S5 : row[1] \in N5
       /\ DOMAIN S5 = DOMAIN S4 \union DOMAIN T5
       /\ \A row \in DOMAIN S4 : S5[row] = S4[row]
       /\ \A row \in DOMAIN T5 : S5[row] = T5[row]
  BY <1>6, <1>14 DEF \uplus
<1> HIDE DEF S5
<1>16. /\ \A row \in DOMAIN S6 : row[1] \in N6
       /\ DOMAIN S6 = DOMAIN S5 \union DOMAIN T6
       /\ \A row \in DOMAIN S5 : S6[row] = S5[row]
       /\ \A row \in DOMAIN T6 : S6[row] = T6[row]
  BY <1>7, <1>15 DEF \uplus
<1> HIDE DEF S6
<1>17. /\ \A row \in DOMAIN S7 : row[1] \in N7
       /\ DOMAIN S7 = DOMAIN S6 \union DOMAIN T7
       /\ \A row \in DOMAIN S6 : S7[row] = S6[row]
       /\ \A row \in DOMAIN T7 : S7[row] = T7[row]
  BY <1>8, <1>16 DEF \uplus
<1> HIDE DEF S7
<1>18. /\ \A row \in DOMAIN S8 : row[1] \in N8
       /\ DOMAIN S8 = DOMAIN S7 \union DOMAIN T8
       /\ \A row \in DOMAIN S7 : S8[row] = S7[row]
       /\ \A row \in DOMAIN T8 : S8[row] = T8[row]
  BY <1>9, <1>17 DEF \uplus
<1> HIDE DEF S8
<1>19. /\ DOMAIN S9 = DOMAIN S8 \union DOMAIN T9
       /\ \A row \in DOMAIN S8 : S9[row] = S8[row]
       /\ \A row \in DOMAIN T9 : S9[row] = T9[row]
  BY <1>10, <1>18 DEF \uplus
<1> HIDE DEF S9
<1>20. /\ \A r \in Receivables : ReceivableRow(r) \in DOMAIN S9
       /\ \A o \in Orders : OrderRow(o) \in DOMAIN S9
       /\ \A t \in Transactions : TransactionRow(t) \in DOMAIN S9
       /\ \A t \in Transactions : ReconciliationRow(t) \in DOMAIN S9
       /\ SequenceRow \in DOMAIN S9
       /\ \A p \in Requests : OwnRows(p) \subseteq DOMAIN S9
  <2>1. /\ DOMAIN T1 \subseteq DOMAIN S9 /\ DOMAIN T2 \subseteq DOMAIN S9
        /\ DOMAIN T3 \subseteq DOMAIN S9 /\ DOMAIN T4 \subseteq DOMAIN S9
        /\ DOMAIN T5 \subseteq DOMAIN S9 /\ DOMAIN T6 \subseteq DOMAIN S9
        /\ DOMAIN T7 \subseteq DOMAIN S9 /\ DOMAIN T8 \subseteq DOMAIN S9
        /\ DOMAIN T9 \subseteq DOMAIN S9
    BY <1>12, <1>13, <1>14, <1>15, <1>16, <1>17, <1>18, <1>19
  <2>2. ASSUME NEW p \in Requests PROVE OwnRows(p) \subseteq DOMAIN S9
    <3>1. CreditRow(p) \in DOMAIN S9 /\ ReceiptRow(p) \in DOMAIN S9
      BY <1>7, <1>8, <2>1
    <3>2. DiscountRow(p) \in DOMAIN S9
      BY <1>9, <2>1
    <3>3. \A r \in Receivables : AllocationRow(p, r) \in DOMAIN S9
      BY <1>6, <2>1
    <3>4. QED BY <3>1, <3>2, <3>3 DEF OwnRows
  <2>3. /\ \A r \in Receivables : ReceivableRow(r) \in DOMAIN S9
        /\ \A o \in Orders : OrderRow(o) \in DOMAIN S9
    BY <1>2, <1>3, <2>1
  <2>4. /\ \A t \in Transactions : TransactionRow(t) \in DOMAIN S9
        /\ \A t \in Transactions : ReconciliationRow(t) \in DOMAIN S9
    BY <1>4, <1>5, <2>1
  <2>5. SequenceRow \in DOMAIN S9
    BY <1>10, <2>1
  <2>6. QED BY <2>2, <2>3, <2>4, <2>5
<1>21. /\ \A row \in DOMAIN T1 : S9[row] = T1[row]
       /\ \A row \in DOMAIN T2 : S9[row] = T2[row]
       /\ \A row \in DOMAIN T3 : S9[row] = T3[row]
       /\ \A row \in DOMAIN T4 : S9[row] = T4[row]
       /\ \A row \in DOMAIN T5 : S9[row] = T5[row]
       /\ \A row \in DOMAIN T6 : S9[row] = T6[row]
       /\ \A row \in DOMAIN T7 : S9[row] = T7[row]
       /\ \A row \in DOMAIN T8 : S9[row] = T8[row]
       /\ \A row \in DOMAIN T9 : S9[row] = T9[row]
  BY <1>12, <1>13, <1>14, <1>15, <1>16, <1>17, <1>18, <1>19
<1>22. AllRows \subseteq DOMAIN S9
  BY <1>20 DEF AllRows
<1>23. QED
  BY <1>1, <1>2, <1>3, <1>4, <1>5, <1>6, <1>7, <1>8, <1>9, <1>10, <1>21, <1>22

LEMMA InitWriterInv == Init => WriterInv
<1> SUFFICES ASSUME Init PROVE WriterInv
  OBVIOUS
<1>1. PICK workload \in Workloads :
        work = workload[1] /\ committed = InitialRows(workload[1])
  BY DEF Init
<1>2. WorkOK
  <2>1. ASSUME NEW p \in Requests
        PROVE  /\ work[p].kind \in Kinds \union {"done"}
               /\ work[p].transaction \in Transactions
               /\ work[p].order \in Orders \union {NoOrder}
               /\ work[p].kind = "getQr" => work[p].order \in Orders
               /\ work[p].kind = "discount" =>
                    work[p].receivable \in Receivables /\ work[p].amount \in Nat
    BY <1>1, WorkAssumption
  <2>2. QED BY <2>1 DEF WorkOK
<1>3. /\ AllRows \subseteq DOMAIN committed
      /\ \A t \in Transactions :
           committed[TransactionRow(t)].status = committed[ReconciliationRow(t)].status
      /\ \A p \in Requests : Unborn(p)
  <2>1. /\ AllRows \subseteq DOMAIN committed
        /\ \A t \in Transactions :
             /\ committed[TransactionRow(t)] = [status |-> InitialStatus(workload[1], t)]
             /\ committed[ReconciliationRow(t)] =
                  [status |-> InitialStatus(workload[1], t), order |-> NoOrder]
        /\ \A p \in Requests :
              /\ committed[CreditRow(p)] =
                   [amount |-> 0, remaining |-> 0, status |-> "NONE"]
              /\ committed[ReceiptRow(p)] = [number |-> 0, status |-> "NONE"]
              /\ committed[DiscountRow(p)] = 0
              /\ \A r \in Receivables :
                   committed[AllocationRow(p, r)] = [amount |-> 0, reversed |-> FALSE]
    BY <1>1, InitialVersions
  <2>2. \A t \in Transactions :
          committed[TransactionRow(t)].status = committed[ReconciliationRow(t)].status
    <3>1. SUFFICES ASSUME NEW t \in Transactions
                   PROVE  committed[TransactionRow(t)].status =
                            committed[ReconciliationRow(t)].status
      OBVIOUS
    <3>2. PICK status : status = InitialStatus(workload[1], t)
      OBVIOUS
    <3>3. /\ committed[TransactionRow(t)] = [status |-> status]
          /\ committed[ReconciliationRow(t)] = [status |-> status, order |-> NoOrder]
      BY <2>1, <3>2
    <3>4. QED BY <3>3
  <2>3. \A p \in Requests : Unborn(p)
    <3>1. SUFFICES ASSUME NEW p \in Requests PROVE Unborn(p)
      OBVIOUS
    <3>2. committed[CreditRow(p)].status = "NONE"
      BY <2>1
    <3>3. \A r \in Receivables : committed[AllocationRow(p, r)].amount = 0
      BY <2>1
    <3>4. QED BY <2>1, <3>2, <3>3 DEF Unborn
  <2>4. QED BY <2>1, <2>2, <2>3
<1>4. /\ DOMAIN written = Requests /\ DOMAIN local = Requests
      /\ \A p \in Requests : written[p] = NothingWritten /\ DOMAIN written[p] = {}
      /\ \A p \in Requests : local[p] = NoLocals
      /\ \A p \in Requests : pc[p] = work[p].kind
  BY NothingIsWritten DEF Init
<1>5. \A p \in Requests : pc[p] \in Kinds \union {"done"}
  BY <1>2, <1>4 DEF WorkOK
<1>6. pc \in [Requests -> Labels]
  <2>1. pc = [p \in Requests |-> work[p].kind]
    BY DEF Init
  <2>2. \A p \in Requests : work[p].kind \in Labels
    BY <1>4, <1>5 DEF Labels, Ended
  <2>3. QED BY <2>1, <2>2
<1>7. Shapes /\ OneWriter /\ KnownTogether
  BY <1>3, <1>4, <1>6 DEF Shapes, OneWriter, KnownTogether, IsKnown
<1>8. ASSUME NEW p \in Requests
      PROVE  /\ StaysOnPath(p) /\ LocalsOK(p) /\ TodoOK(p)
             /\ OwnOrCommitted(p) /\ TransferRowsHeld(p) /\ HoldsTransfer(p)
  <2>1. StaysOnPath(p)
    BY <1>4 DEF StaysOnPath, OnPath
  <2>2. LocalsOK(p) /\ TodoOK(p)
    BY <1>4, <1>5, NoLocalsItem DEF LocalsOK, TodoOK, AllocationLabels, Kinds
  <2>3. OwnOrCommitted(p) /\ TransferRowsHeld(p)
    BY <1>4 DEF OwnOrCommitted, TransferRowsHeld
  <2>4. HoldsTransfer(p)
    BY <1>5 DEF HoldsTransfer, Underway, Ended
  <2>5. QED BY <2>1, <2>2, <2>3, <2>4
<1>9. QED BY <1>2, <1>3, <1>7, <1>8 DEF WriterInv

-----------------------------------------------------------------------------
(* Theorems.                                                               *)

(* The rows and the code stay as WriterInv says. *)
LEMMA WriterInvAlways == Spec => []WriterInv
BY InitWriterInv, NextStep, PTL DEF Spec

(* Open transactions never hold versions of the same row, and a request    *)
(* that has ended holds none: every statement that writes a row waits for  *)
(* it, or writes a row that no other request can come to.                  *)
THEOREM RowsHaveOneWriterAlways == Spec => []RowsHaveOneWriter
<1>1. WriterInv => RowsHaveOneWriter
  BY DEF WriterInv, RowsHaveOneWriter, Shapes, OneWriter
<1>2. QED BY <1>1, WriterInvAlways, PTL
=============================================================================
