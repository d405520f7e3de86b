------------------------ MODULE FeeCollectionProofs ------------------------
(***************************************************************************)
(* Proofs about FeeCollection for any number of invoices, payments,        *)
(* requests and amounts.  The inductive invariant IInv adds to the proved  *)
(* properties PlansHold: what an open transaction has read is still true   *)
(* as long as the versions it will check have not moved.                   *)
(***************************************************************************)
EXTENDS FeeCollection, FiniteSetTheorems, SumTheory, TLAPS

Proved ==
  /\ BalanceIsUnpaid
  /\ BilledOncePerPeriod
  /\ ReceiptMatchesPayment
  /\ CancelledNeverRefunded

IInv == TypeOK /\ Proved /\ PlansHold

-----------------------------------------------------------------------------
(* The initial state                                                       *)

\* In the initial state there is no row and no open transaction.
LEMMA InitEstablishes == Init => IInv
<1> SUFFICES ASSUME Init PROVE IInv
    OBVIOUS
<1>1. IsTxn(Idle)
    BY DEF IsTxn, Idle, NoAllocation, PaymentRow, AbsentPayment, PaymentStatus,
           Verification, ReceiptStatus
<1>2. TypeOK
    BY <1>1 DEF Init, TypeOK, InvoiceRow, PaymentRow, AbsentInvoice, AbsentPayment,
           NoAllocation, InvoiceStatus, PaymentStatus, Verification, ReceiptStatus
<1>3. Proved
    BY DEF Init, Proved, BalanceIsUnpaid, BilledOncePerPeriod, ReceiptMatchesPayment,
           CancelledNeverRefunded, Live, AbsentInvoice, AbsentPayment
<1>4. RowsSound
    BY DEF Init, RowsSound, AbsentInvoice, AbsentPayment
<1>5. ASSUME NEW w \in Workers PROVE PlannedRows(txn[w]) /\ PlannedPayment(txn[w])
    BY DEF Init, PlannedRows, PlannedPayment, Idle
<1> QED
    BY <1>2, <1>3, <1>4, <1>5 DEF IInv, PlansHold

-----------------------------------------------------------------------------
(* Opening a transaction                                                   *)

\* A request that opens a transaction writes nothing else, so it is enough that
\* the transaction it opens is well typed and sound.
LEMMA OpenKeeps ==
  ASSUME IInv, NEW w \in Workers, NEW t, IsTxn(t), PlannedRows(t), PlannedPayment(t),
         Open(w, t)
  PROVE  IInv'
<1>1. /\ txn' = [txn EXCEPT ![w] = t]
      /\ UNCHANGED <<invoice, payment, alloc, active, receipt, refunded>>
    BY DEF Open
<1>2. TypeOK'
    BY <1>1 DEF IInv, TypeOK, IsTxn
<1>3. Proved'
    BY <1>1 DEF IInv, Proved, BalanceIsUnpaid, BilledOncePerPeriod, ReceiptMatchesPayment,
                CancelledNeverRefunded, Live
<1>4. RowsSound'
    BY <1>1 DEF IInv, PlansHold, RowsSound
<1>5. ASSUME NEW v \in Workers PROVE (PlannedRows(txn[v]) /\ PlannedPayment(txn[v]))'
  <2>1. txn'[v] = IF v = w THEN t ELSE txn[v]
      BY <1>1 DEF IInv, TypeOK
  <2>2. PlannedRows(txn'[v]) /\ PlannedPayment(txn'[v])
      BY <2>1 DEF IInv, PlansHold
  <2> QED
      BY <2>2, <1>1, ZenonT(60) DEF PlannedRows, PlannedPayment, PlannedCapture, PlannedSettlement,
           PlannedCancellation, PlannedRefund, RowFresh, RowsFresh, HeaderFresh, Live
<1> QED
    BY <1>2, <1>3, <1>4, <1>5 DEF IInv, PlansHold

-----------------------------------------------------------------------------
(* Rows the handlers compute                                               *)

\* What every row written over an existing one satisfies.
Follows(new, row) ==
  /\ new \in InvoiceRow
  /\ new.balance = new.total - new.paid
  /\ new.status # "ABSENT"
  /\ new.version = row.version + 1
  /\ new.period = row.period

\* Writing columns of their types gives a row.
LEMMA RowForms ==
  ASSUME NEW row \in InvoiceRow
  PROVE  /\ \A paid, balance \in Int, status \in InvoiceStatus, version \in Nat :
              [row EXCEPT !.paid = paid, !.balance = balance, !.status = status,
                          !.version = version] \in InvoiceRow
         /\ \A paid, refund, balance \in Int, status \in InvoiceStatus, version \in Nat :
              [row EXCEPT !.paid = paid, !.refund = refund, !.balance = balance,
                          !.status = status, !.version = version] \in InvoiceRow
         /\ \A total, balance \in Int, status \in InvoiceStatus, version \in Nat :
              [row EXCEPT !.total = total, !.balance = balance, !.status = status,
                          !.version = version] \in InvoiceRow
         /\ \A status \in InvoiceStatus, version \in Nat :
              [row EXCEPT !.status = status, !.version = version] \in InvoiceRow
         /\ \A version \in Nat :
              [row EXCEPT !.deleted = TRUE, !.version = version] \in InvoiceRow
    BY DEF InvoiceRow

\* Every helper that computes an invoice row keeps its type, its period and the
\* balance equation, and moves the version by one.
LEMMA RowsFollow ==
  ASSUME NEW row \in InvoiceRow, row.status # "ABSENT", row.balance = row.total - row.paid
  PROVE  /\ \A a \in Nat : Follows(PaidRow(row, a), row)
         /\ \A a \in Nat : Follows(CancelledRow(row, a), row)
         /\ \A a \in Nat, b \in Int : Follows(RefundedRow(row, a, b), row)
         /\ \A total \in Int, status \in InvoiceStatus \ {"ABSENT"} :
              Follows(RepricedRow(row, total, status), row)
         /\ \A total \in Int, fine \in Nat :
              Follows([RepricedRow(row, total, row.status) EXCEPT !.fine = fine], row)
         /\ Follows([row EXCEPT !.status = "VOID", !.version = row.version + 1], row)
         /\ Follows([row EXCEPT !.deleted = TRUE, !.version = row.version + 1], row)
<1> USE DEF Follows
<1>1. /\ row.total \in Int /\ row.paid \in Int /\ row.refund \in Int
      /\ row.status \in InvoiceStatus \ {"ABSENT"} /\ row.version + 1 \in Nat
    BY DEF InvoiceRow
<1> DEFINE version == row.version + 1
<1>2. ASSUME NEW a \in Nat PROVE Follows(PaidRow(row, a), row)
  <2> DEFINE paid == row.paid + a
             balance == row.total - paid
             status == IF paid >= row.total THEN "PAID"
                       ELSE IF paid > 0 THEN "PARTIAL" ELSE row.status
             new == [row EXCEPT !.paid = paid, !.balance = balance, !.status = status,
                                !.version = version]
  <2>1. /\ paid \in Int /\ balance \in Int /\ status \in InvoiceStatus \ {"ABSENT"}
        /\ balance = row.total - paid /\ version = row.version + 1 /\ version \in Nat
      BY <1>1 DEF InvoiceStatus
  <2>2. PaidRow(row, a) = new
      BY DEF PaidRow
  <2> HIDE DEF paid, balance, status, version
  <2>3. new \in InvoiceRow
      BY <1>1, <2>1, RowForms
  <2>4. Follows(new, row)
      BY <2>1, <2>3 DEF InvoiceRow
  <2> QED
      BY <2>2, <2>4
<1>3. ASSUME NEW a \in Nat PROVE Follows(CancelledRow(row, a), row)
  <2> DEFINE paid == row.paid - a
             balance == row.total - paid
             status == StatusAfterReversal(row.status, paid, row.total)
             new == [row EXCEPT !.paid = paid, !.balance = balance, !.status = status,
                                !.version = version]
  <2>1. /\ paid \in Int /\ balance \in Int /\ status \in InvoiceStatus \ {"ABSENT"}
        /\ balance = row.total - paid /\ version = row.version + 1 /\ version \in Nat
      BY <1>1 DEF InvoiceStatus, StatusAfterReversal
  <2>2. CancelledRow(row, a) = new
      BY DEF CancelledRow
  <2> HIDE DEF paid, balance, status, version
  <2>3. new \in InvoiceRow
      BY <1>1, <2>1, RowForms
  <2>4. Follows(new, row)
      BY <2>1, <2>3 DEF InvoiceRow
  <2> QED
      BY <2>2, <2>4
<1>4. ASSUME NEW a \in Nat, NEW b \in Int PROVE Follows(RefundedRow(row, a, b), row)
  <2> DEFINE paid == row.paid - a
             refund == row.refund + b
             balance == row.total - paid
             status == StatusAfterRefund(paid, refund)
             new == [row EXCEPT !.paid = paid, !.refund = refund, !.balance = balance,
                                !.status = status, !.version = version]
  <2>1. /\ paid \in Int /\ balance \in Int /\ status \in InvoiceStatus \ {"ABSENT"}
        /\ balance = row.total - paid /\ version = row.version + 1 /\ version \in Nat
        /\ refund \in Int
      BY <1>1 DEF InvoiceStatus, StatusAfterRefund
  <2>2. RefundedRow(row, a, b) = new
      BY DEF RefundedRow
  <2> HIDE DEF paid, refund, balance, status, version
  <2>3. new \in InvoiceRow
      BY <1>1, <2>1, RowForms
  <2>4. Follows(new, row)
      BY <2>1, <2>3 DEF InvoiceRow
  <2> QED
      BY <2>2, <2>4
<1>5. ASSUME NEW total \in Int, NEW status \in InvoiceStatus \ {"ABSENT"}
      PROVE  Follows(RepricedRow(row, total, status), row)
  <2> DEFINE balance == total - row.paid
             new == [row EXCEPT !.total = total, !.balance = balance, !.status = status,
                                !.version = version]
  <2>1. /\ balance \in Int /\ balance = total - row.paid
        /\ version = row.version + 1 /\ version \in Nat
      BY <1>1
  <2>2. RepricedRow(row, total, status) = new
      BY DEF RepricedRow
  <2> HIDE DEF balance, version
  <2>3. new \in InvoiceRow
      BY <1>1, <2>1, RowForms
  <2>4. Follows(new, row)
      BY <2>1, <2>3 DEF InvoiceRow
  <2> QED
      BY <2>2, <2>4
<1>6. ASSUME NEW total \in Int, NEW fine \in Nat
      PROVE  Follows([RepricedRow(row, total, row.status) EXCEPT !.fine = fine], row)
  <2> DEFINE repriced == RepricedRow(row, total, row.status)
  <2>1. Follows(repriced, row)
      BY <1>1, <1>5
  <2> HIDE DEF repriced
  <2>2. [repriced EXCEPT !.fine = fine] \in InvoiceRow
      BY <2>1 DEF InvoiceRow
  <2> QED
      BY <2>1, <2>2 DEF InvoiceRow, repriced
<1>7. /\ Follows([row EXCEPT !.status = "VOID", !.version = row.version + 1], row)
      /\ Follows([row EXCEPT !.deleted = TRUE, !.version = row.version + 1], row)
  <2>1. version = row.version + 1 /\ version \in Nat
      BY <1>1
  <2> HIDE DEF version
  <2>2. [row EXCEPT !.status = "VOID", !.version = version] \in InvoiceRow
      BY <2>1, RowForms DEF InvoiceStatus
  <2>3. [row EXCEPT !.deleted = TRUE, !.version = version] \in InvoiceRow
      BY <2>1, RowForms
  <2>4. /\ Follows([row EXCEPT !.status = "VOID", !.version = version], row)
        /\ Follows([row EXCEPT !.deleted = TRUE, !.version = version], row)
      BY <1>1, <2>1, <2>2, <2>3 DEF InvoiceRow
  <2> QED
      BY <2>4 DEF version
<1> QED
    BY <1>2, <1>3, <1>4, <1>5, <1>6, <1>7

\* A transaction that only writes rows that follow live ones is sound.
LEMMA FollowingRowsArePlanned ==
  ASSUME TypeOK, NEW t, t.op # "generate",
         \A i \in DOMAIN t.rows : i \in Invoices /\ Live(i) /\ Follows(t.rows[i], invoice[i])
  PROVE  PlannedRows(t)
    BY DEF TypeOK, PlannedRows, Follows, InvoiceRow, RowFresh

-----------------------------------------------------------------------------
(* Requests about invoices                                                 *)

\* A transaction that writes one invoice row and no payment is well formed.
LEMMA WritingIsTxn ==
  ASSUME NEW i \in Invoices, NEW row \in InvoiceRow, NEW op \in {"generate", "update"}
  PROVE  /\ IsTxn(Writing(op, i, row)) /\ PlannedPayment(Writing(op, i, row))
         /\ Writing(op, i, row).op = op
         /\ DOMAIN Writing(op, i, row).rows = {i} /\ Writing(op, i, row).rows[i] = row
<1> DEFINE t == Writing(op, i, row)
<1>1. t.op = op /\ DOMAIN t.rows = {i} /\ t.rows[i] = row
    BY DEF Writing, Idle
<1>2. IsTxn(t)
    BY DEF Writing, IsTxn, Idle, NoAllocation, PaymentRow, AbsentPayment, PaymentStatus,
           Verification, ReceiptStatus
<1>3. PlannedPayment(t)
    BY DEF Writing, PlannedPayment, Idle
<1> QED
    BY <1>1, <1>2, <1>3

\* The first row of an invoice.
LEMMA FirstRow ==
  ASSUME NEW period \in Periods, NEW total \in Int, NEW version \in Nat
  PROVE  [AbsentInvoice EXCEPT !.status = "DRAFT", !.period = period,
            !.total = total, !.balance = total, !.version = version] \in InvoiceRow
<1>1. AbsentInvoice \in InvoiceRow
    BY DEF AbsentInvoice, InvoiceRow, InvoiceStatus
<1>2. ASSUME NEW row \in InvoiceRow, NEW status \in InvoiceStatus, NEW per \in Periods \cup {NoPeriod}
      PROVE  [row EXCEPT !.status = status, !.period = per, !.total = total,
                         !.balance = total, !.version = version] \in InvoiceRow
    BY DEF InvoiceRow
<1>3. "DRAFT" \in InvoiceStatus
    BY DEF InvoiceStatus
<1> QED
    BY <1>1, <1>2, <1>3

\* Generate plans a first row for an invoice that does not exist yet.
LEMMA GenerateKeeps ==
  ASSUME IInv, NEW w \in Workers, NEW i \in Invoices, NEW period \in Periods,
         NEW total \in DraftTotals, Generate(w, i, period, total)
  PROVE  IInv'
<1> DEFINE row == [AbsentInvoice EXCEPT !.status = "DRAFT", !.period = period,
                                        !.total = total, !.balance = total, !.version = 1]
           t == Writing("generate", i, row)
<1>1. invoice[i].status = "ABSENT" /\ Open(w, t)
    BY DEF Generate
<1>2. row \in InvoiceRow
    BY MoneyAssumption, FirstRow
<1>3. row.balance = row.total - row.paid /\ row.version = 1 /\ row.status # "ABSENT"
    BY MoneyAssumption DEF AbsentInvoice
<1> HIDE DEF row
<1>4. IsTxn(t) /\ PlannedPayment(t) /\ t.op = "generate" /\ DOMAIN t.rows = {i} /\ t.rows[i] = row
    BY <1>2, WritingIsTxn
<1>5. invoice[i].version = 0
    BY <1>1 DEF IInv, PlansHold, RowsSound
<1> HIDE DEF t
<1>6. PlannedRows(t)
    BY <1>3, <1>4, <1>5 DEF PlannedRows
<1> QED
    BY <1>1, <1>4, <1>6, OpenKeeps

\* A request that rewrites one live invoice row and touches no payment.
LEMMA UpdateKeeps ==
  ASSUME IInv, NEW w \in Workers, NEW i \in Invoices, NEW row, Live(i),
         Follows(row, invoice[i]), Open(w, Writing("update", i, row))
  PROVE  IInv'
<1> DEFINE t == Writing("update", i, row)
<1>1. IsTxn(t) /\ PlannedPayment(t) /\ t.op = "update" /\ DOMAIN t.rows = {i} /\ t.rows[i] = row
    BY WritingIsTxn DEF Follows
<1>2. Open(w, t)
    OBVIOUS
<1> HIDE DEF t
<1>3. PlannedRows(t)
    BY <1>1, FollowingRowsArePlanned DEF IInv
<1> QED
    BY <1>1, <1>2, <1>3, OpenKeeps

\* The other requests about an invoice plan a row that follows the current one.
LEMMA InvoiceRequestKeeps ==
  ASSUME IInv, NEW w \in Workers, InvoiceRequest(w)
  PROVE  IInv'
<1>1. PICK i \in Invoices :
        \/ \E period \in Periods, total \in DraftTotals : Generate(w, i, period, total)
        \/ \E total \in DraftTotals : Recompute(w, i, total)
        \/ \E fine \in Fines : ApplyFines(w, i, fine)
        \/ VoidInvoice(w, i)
        \/ SoftDelete(w, i)
    BY DEF InvoiceRequest
<1>2. /\ invoice[i] \in InvoiceRow /\ invoice[i].balance = invoice[i].total - invoice[i].paid
      /\ Live(i) => invoice[i].status # "ABSENT"
    BY DEF IInv, TypeOK, Proved, BalanceIsUnpaid, Live
<1>3. CASE \E period \in Periods, total \in DraftTotals : Generate(w, i, period, total)
    BY <1>3, GenerateKeeps
<1>4. CASE \E total \in DraftTotals : Recompute(w, i, total)
  <2>1. PICK total \in DraftTotals : Recompute(w, i, total)
      BY <1>4
  <2> DEFINE status == IF invoice[i].status = "DRAFT" THEN "SENT" ELSE invoice[i].status
             priced == total + invoice[i].fine
  <2>2. Live(i) /\ Open(w, Writing("update", i, RepricedRow(invoice[i], priced, status)))
      BY <2>1 DEF Recompute
  <2>3. priced \in Int /\ status \in InvoiceStatus \ {"ABSENT"}
      BY <1>2, <2>2, MoneyAssumption DEF InvoiceRow, InvoiceStatus
  <2> HIDE DEF priced, status
  <2>4. Follows(RepricedRow(invoice[i], priced, status), invoice[i])
      BY <1>2, <2>2, <2>3, RowsFollow
  <2> QED
      BY <2>2, <2>4, UpdateKeeps
<1>5. CASE \E fine \in Fines : ApplyFines(w, i, fine)
  <2>1. PICK fine \in Fines : ApplyFines(w, i, fine)
      BY <1>5
  <2> DEFINE priced == invoice[i].total + fine
             row == [RepricedRow(invoice[i], priced, invoice[i].status) EXCEPT !.fine = fine]
  <2>2. Live(i) /\ Open(w, Writing("update", i, row))
      BY <2>1 DEF ApplyFines
  <2>3. priced \in Int /\ fine \in Nat
      BY <1>2, MoneyAssumption DEF InvoiceRow
  <2> HIDE DEF priced
  <2>4. Follows(row, invoice[i])
      BY <1>2, <2>2, <2>3, RowsFollow
  <2> HIDE DEF row
  <2> QED
      BY <2>2, <2>4, UpdateKeeps
<1>6. CASE VoidInvoice(w, i)
  <2> DEFINE row == [invoice[i] EXCEPT !.status = "VOID", !.version = invoice[i].version + 1]
  <2>1. Live(i) /\ Open(w, Writing("update", i, row))
      BY <1>6 DEF VoidInvoice
  <2>2. Follows(row, invoice[i])
      BY <1>2, <2>1, RowsFollow
  <2> HIDE DEF row
  <2> QED
      BY <2>1, <2>2, UpdateKeeps
<1>7. CASE SoftDelete(w, i)
  <2> DEFINE row == [invoice[i] EXCEPT !.deleted = TRUE, !.version = invoice[i].version + 1]
  <2>1. Live(i) /\ Open(w, Writing("update", i, row))
      BY <1>7 DEF SoftDelete
  <2>2. Follows(row, invoice[i])
      BY <1>2, <2>1, RowsFollow
  <2> HIDE DEF row
  <2> QED
      BY <2>1, <2>2, UpdateKeeps
<1> QED
    BY <1>1, <1>3, <1>4, <1>5, <1>6, <1>7

-----------------------------------------------------------------------------
(* Requests about payments                                                 *)

\* A plan with the rows `rows`, all of invoices.
IsPlan(rows) == DOMAIN rows \subseteq Invoices /\ rows \in [DOMAIN rows -> InvoiceRow]

\* Header rows the handlers write.
LEMMA HeaderForms ==
  /\ \A row \in PaymentRow, status \in PaymentStatus, v \in Verification, version \in Nat :
       [row EXCEPT !.status = status, !.verification = v, !.version = version] \in PaymentRow
  /\ \A row \in PaymentRow, status \in PaymentStatus, version \in Nat :
       [row EXCEPT !.status = status, !.version = version] \in PaymentRow
  /\ \A status \in PaymentStatus, v \in Verification, amount \in Nat :
       [status |-> status, verification |-> v, amount |-> amount, version |-> 1] \in PaymentRow
  /\ AbsentPayment \in PaymentRow
    BY DEF PaymentRow, AbsentPayment, PaymentStatus, Verification

\* The rows computed for a set of live invoices form a plan, and follow those rows.
LEMMA PlanOver ==
  ASSUME TypeOK, NEW S \in SUBSET Invoices, NEW rows, DOMAIN rows = S,
         rows = [i \in S |-> rows[i]],
         \A i \in S : Live(i) /\ Follows(rows[i], invoice[i])
  PROVE  IsPlan(rows) /\ \A i \in DOMAIN rows : i \in Invoices /\ Live(i) /\ Follows(rows[i], invoice[i])
    BY DEF IsPlan, Follows

\* Capture plans the payment with its allocations, and posts it or leaves it pending.
LEMMA CaptureKeeps ==
  ASSUME IInv, NEW w \in Workers, NEW p \in Payments, NEW split \in [Invoices -> Amounts \cup {0}],
         NEW amount \in Amounts, NEW verifyRequired \in BOOLEAN, NEW partialAllowed \in BOOLEAN,
         Capture(w, p, split, amount, verifyRequired, partialAllowed)
  PROVE  IInv'
<1> DEFINE touched == {i \in Invoices : split[i] > 0}
           S == IF verifyRequired THEN {} ELSE touched
           rows == [i \in S |-> PaidRow(invoice[i], split[i])]
           header == IF verifyRequired
                     THEN [status |-> "PENDING", verification |-> "PENDING",
                           amount |-> amount, version |-> 1]
                     ELSE [status |-> "CAPTURED", verification |-> "NOT_REQUIRED",
                           amount |-> amount, version |-> 1]
           r == IF verifyRequired THEN "NONE" ELSE "ISSUED"
           t == IF verifyRequired THEN CaptureForVerification(p, split, amount)
                                  ELSE CaptureAndIssueReceipt(p, split, amount)
<1>1. /\ payment[p].status = "ABSENT" /\ touched # {}
      /\ \A i \in touched : Live(i)
      /\ Open(w, t)
    BY DEF Capture, CanPay
<1>2. split \in [Invoices -> Nat] /\ amount \in Nat /\ S \subseteq Invoices /\ r \in ReceiptStatus
  <2>1. split \in [Invoices -> Nat]
    <3>1. Amounts \cup {0} \subseteq Nat
        BY MoneyAssumption
    <3> QED
        BY <3>1
  <2> QED
      BY <2>1, MoneyAssumption DEF ReceiptStatus
<1>3. ASSUME NEW i \in S PROVE Live(i) /\ Follows(PaidRow(invoice[i], split[i]), invoice[i])
  <2>1. /\ Live(i) /\ invoice[i] \in InvoiceRow /\ invoice[i].status # "ABSENT"
        /\ invoice[i].balance = invoice[i].total - invoice[i].paid /\ split[i] \in Nat
      BY <1>1, <1>2 DEF IInv, TypeOK, Proved, BalanceIsUnpaid, Live
  <2> QED
      BY <2>1, RowsFollow
<1>4. DOMAIN rows = S /\ rows = [i \in S |-> rows[i]]
      /\ \A i \in S : Live(i) /\ Follows(rows[i], invoice[i])
    BY <1>3
<1>5. /\ header \in PaymentRow /\ header.version = 1
      /\ <<header.status, header.verification, r>> \in
           {<<"PENDING", "PENDING", "NONE">>, <<"CAPTURED", "NOT_REQUIRED", "ISSUED">>}
    BY <1>2 DEF PaymentRow, PaymentStatus, Verification
<1>6. /\ payment[p].version = 0 /\ \E i \in Invoices : split[i] > 0
    BY <1>1 DEF IInv, PlansHold, RowsSound
<1>7. /\ t.op = "capture" /\ t.pay = p /\ t.alloc = split /\ t.rows = rows
       /\ t.header = header /\ t.receipt = r /\ t.refund = 0 /\ t.reverse = {}
  <2>1. CASE verifyRequired
    <3>1. [i \in {} |-> AbsentInvoice] = rows
        BY <2>1
    <3> QED
        BY <2>1, <3>1 DEF CaptureForVerification, Idle
  <2>2. CASE ~verifyRequired
      BY <2>2 DEF CaptureAndIssueReceipt, Idle
  <2> QED
      BY <2>1, <2>2
<1> HIDE DEF rows, header, r, S, t
<1>8. IsPlan(rows) /\ \A i \in DOMAIN rows : i \in Invoices /\ Live(i) /\ Follows(rows[i], invoice[i])
    BY <1>2, <1>4, PlanOver DEF IInv
<1>9. /\ IsTxn(t)
      /\ t.op = "capture" /\ t.pay = p /\ t.alloc = split /\ t.rows = rows
      /\ t.header = header /\ t.receipt = r /\ t.refund = 0
    BY <1>2, <1>5, <1>7, <1>8 DEF IsTxn, IsPlan
<1>10. PlannedRows(t)
    BY <1>8, <1>9, FollowingRowsArePlanned DEF IInv
<1>11. PlannedPayment(t)
    BY <1>1, <1>5, <1>6, <1>9, NullAssumption DEF PlannedPayment, PlannedCapture
<1> QED
    BY <1>1, <1>9, <1>10, <1>11, OpenKeeps

\* Verify posts the allocations of a payment that is still pending.
LEMMA VerifyKeeps ==
  ASSUME IInv, NEW w \in Workers, NEW p \in Payments, NEW partialAllowed \in BOOLEAN,
         Verify(w, p, partialAllowed)
  PROVE  IInv'
<1> DEFINE rows == [i \in active[p] |-> PaidRow(invoice[i], alloc[p][i])]
           version == payment[p].version + 1
           header == [payment[p] EXCEPT !.status = "CAPTURED", !.verification = "VERIFIED",
                                        !.version = version]
           t == [Idle EXCEPT !.op = "settle", !.pay = p, !.rows = rows,
                             !.header = header, !.receipt = "ISSUED"]
<1>1. /\ payment[p].verification = "PENDING"
      /\ \A i \in active[p] : Live(i)
      /\ Open(w, t)
    BY DEF Verify, CanPay
<1>2. /\ payment[p] \in PaymentRow /\ active[p] \in SUBSET Invoices
      /\ alloc[p] \in [Invoices -> Nat]
    BY DEF IInv, TypeOK
<1>3. ASSUME NEW i \in active[p] PROVE Live(i) /\ Follows(PaidRow(invoice[i], alloc[p][i]), invoice[i])
  <2>1. /\ Live(i) /\ invoice[i] \in InvoiceRow /\ invoice[i].status # "ABSENT"
        /\ invoice[i].balance = invoice[i].total - invoice[i].paid /\ alloc[p][i] \in Nat
      BY <1>1, <1>2 DEF IInv, TypeOK, Proved, BalanceIsUnpaid, Live
  <2> QED
      BY <2>1, RowsFollow
<1>4. DOMAIN rows = active[p] /\ rows = [i \in active[p] |-> rows[i]]
      /\ \A i \in active[p] : Live(i) /\ Follows(rows[i], invoice[i])
    BY <1>3
<1>5. version = payment[p].version + 1 /\ version \in Nat
    BY <1>2 DEF PaymentRow
<1>6. payment[p].status = "PENDING"
    BY <1>1 DEF IInv, PlansHold, RowsSound
<1> HIDE DEF rows, version
<1>7. /\ header \in PaymentRow /\ header.version = version
      /\ header.status = "CAPTURED" /\ header.verification = "VERIFIED"
  <2>1. "CAPTURED" \in PaymentStatus /\ "VERIFIED" \in Verification
      BY DEF PaymentStatus, Verification
  <2>2. header \in PaymentRow
      BY <1>2, <1>5, <2>1, HeaderForms
  <2> QED
      BY <1>2, <1>5, <2>2 DEF PaymentRow
<1>8. IsPlan(rows) /\ \A i \in DOMAIN rows : i \in Invoices /\ Live(i) /\ Follows(rows[i], invoice[i])
    BY <1>2, <1>4, PlanOver DEF IInv
<1> HIDE DEF header
<1>9. /\ IsTxn(t)
      /\ t.op = "settle" /\ t.pay = p /\ t.rows = rows /\ t.reverse = {}
      /\ t.header = header /\ t.receipt = "ISSUED" /\ t.refund = 0
    BY <1>7, <1>8 DEF IsTxn, Idle, IsPlan, NoAllocation, ReceiptStatus
<1> HIDE DEF t
<1>10. PlannedRows(t)
    BY <1>8, <1>9, FollowingRowsArePlanned DEF IInv
<1>11. PlannedPayment(t)
    BY <1>5, <1>6, <1>7, <1>9, NullAssumption DEF PlannedPayment, PlannedSettlement
<1> QED
    BY <1>1, <1>9, <1>10, <1>11, OpenKeeps

\* Reject writes the header of a payment that is still pending, and nothing else.
LEMMA RejectKeeps ==
  ASSUME IInv, NEW w \in Workers, NEW p \in Payments, Reject(w, p)
  PROVE  IInv'
<1> DEFINE version == payment[p].version + 1
           header == [payment[p] EXCEPT !.status = "FAILED", !.verification = "REJECTED",
                                        !.version = version]
           t == [Idle EXCEPT !.op = "settle", !.pay = p, !.header = header]
<1>1. payment[p].verification = "PENDING" /\ Open(w, t)
    BY DEF Reject
<1>2. payment[p] \in PaymentRow
    BY DEF IInv, TypeOK
<1>3. version = payment[p].version + 1 /\ version \in Nat
    BY <1>2 DEF PaymentRow
<1>4. payment[p].status = "PENDING"
    BY <1>1 DEF IInv, PlansHold, RowsSound
<1> HIDE DEF version
<1>5. /\ header \in PaymentRow /\ header.version = version
      /\ header.status = "FAILED" /\ header.verification = "REJECTED"
  <2>1. "FAILED" \in PaymentStatus /\ "REJECTED" \in Verification
      BY DEF PaymentStatus, Verification
  <2>2. header \in PaymentRow
      BY <1>2, <1>3, <2>1, HeaderForms
  <2> QED
      BY <1>2, <1>3, <2>2 DEF PaymentRow
<1> HIDE DEF header
<1>6. /\ IsTxn(t)
      /\ t.op = "settle" /\ t.pay = p /\ DOMAIN t.rows = {} /\ t.reverse = {}
      /\ t.header = header /\ t.receipt = "NONE" /\ t.refund = 0
    BY <1>5 DEF IsTxn, Idle, NoAllocation, ReceiptStatus
<1> HIDE DEF t
<1>7. PlannedRows(t)
    BY <1>6 DEF PlannedRows
<1>8. PlannedPayment(t)
    BY <1>3, <1>4, <1>5, <1>6, NullAssumption DEF PlannedPayment, PlannedSettlement
<1> QED
    BY <1>1, <1>6, <1>7, <1>8, OpenKeeps

\* CancelReceipt plans the reversal of everything a payment without refunds pays for.
LEMMA CancelReceiptKeeps ==
  ASSUME IInv, NEW w \in Workers, NEW p \in Payments, CancelReceipt(w, p)
  PROVE  IInv'
<1> DEFINE rows == [i \in active[p] |-> CancelledRow(invoice[i], alloc[p][i])]
           version == payment[p].version + 1
           header == [payment[p] EXCEPT !.status = "CANCELLED", !.version = version]
           t == [Idle EXCEPT !.op = "reverse", !.pay = p, !.rows = rows, !.header = header,
                             !.reverse = active[p], !.receipt = "CANCELLED"]
<1>1. /\ receipt[p] = "ISSUED" /\ refunded[p] = 0
      /\ \A i \in active[p] : Live(i)
      /\ Open(w, t)
    BY DEF CancelReceipt
<1>2. /\ payment[p] \in PaymentRow /\ active[p] \in SUBSET Invoices
      /\ alloc[p] \in [Invoices -> Nat]
    BY DEF IInv, TypeOK
<1>3. ASSUME NEW i \in active[p]
      PROVE  Live(i) /\ Follows(CancelledRow(invoice[i], alloc[p][i]), invoice[i])
  <2>1. /\ Live(i) /\ invoice[i] \in InvoiceRow /\ invoice[i].status # "ABSENT"
        /\ invoice[i].balance = invoice[i].total - invoice[i].paid /\ alloc[p][i] \in Nat
      BY <1>1, <1>2 DEF IInv, TypeOK, Proved, BalanceIsUnpaid, Live
  <2> QED
      BY <2>1, RowsFollow
<1>4. DOMAIN rows = active[p] /\ rows = [i \in active[p] |-> rows[i]]
      /\ \A i \in active[p] : Live(i) /\ Follows(rows[i], invoice[i])
    BY <1>3
<1>5. version = payment[p].version + 1 /\ version \in Nat
    BY <1>2 DEF PaymentRow
<1>6. payment[p].status = "CAPTURED" /\ active[p] # {} /\ payment[p].verification # "PENDING"
    BY <1>1 DEF IInv, PlansHold, RowsSound, Proved, ReceiptMatchesPayment
<1> HIDE DEF rows, version
<1>7. /\ header \in PaymentRow /\ header.version = version
      /\ header.status = "CANCELLED" /\ header.verification # "PENDING"
  <2>1. "CANCELLED" \in PaymentStatus
      BY DEF PaymentStatus
  <2>2. header \in PaymentRow
      BY <1>2, <1>5, <1>6, <2>1, HeaderForms
  <2> QED
      BY <1>2, <1>5, <1>6, <2>2 DEF PaymentRow
<1>8. IsPlan(rows) /\ \A i \in DOMAIN rows : i \in Invoices /\ Live(i) /\ Follows(rows[i], invoice[i])
    BY <1>2, <1>4, PlanOver DEF IInv
<1> HIDE DEF header
<1>9. /\ IsTxn(t)
      /\ t.op = "reverse" /\ t.pay = p /\ t.rows = rows /\ t.reverse = active[p]
      /\ t.header = header /\ t.receipt = "CANCELLED" /\ t.refund = 0
    BY <1>2, <1>7, <1>8 DEF IsTxn, Idle, IsPlan, NoAllocation, ReceiptStatus
<1> HIDE DEF t
<1>10. PlannedRows(t)
    BY <1>8, <1>9, FollowingRowsArePlanned DEF IInv
<1>11. PlannedPayment(t)
    BY <1>1, <1>4, <1>5, <1>6, <1>7, <1>9, NullAssumption DEF PlannedPayment, PlannedCancellation
<1> QED
    BY <1>1, <1>9, <1>10, <1>11, OpenKeeps

\* CreateRefund plans to reverse allocations of a captured payment; one that finds
\* none left to reverse follows an earlier refund.
LEMMA CreateRefundKeeps ==
  ASSUME IInv, NEW w \in Workers, NEW p \in Payments, NEW amount \in Amounts,
         NEW order \in LargestFirst(p), NEW left \in [0..Cardinality(active[p]) -> 0..amount],
         CreateRefund(w, p, amount, order, left)
  PROVE  IInv'
<1> DEFINE n == Cardinality(active[p])
           hit == {k \in 1..n : left[k - 1] > 0}
           nth(i) == CHOOSE k \in 1..n : order[k] = i
           reversed == {order[k] : k \in hit}
           rows == [i \in reversed |-> RefundedRow(invoice[i], alloc[p][i],
                                                   left[nth(i) - 1] - left[nth(i)])]
           version == payment[p].version + 1
           header == IF refunded[p] + amount >= payment[p].amount
                     THEN [payment[p] EXCEPT !.status = "REFUNDED", !.version = version]
                     ELSE AbsentPayment
           t == [Idle EXCEPT !.op = "reverse", !.pay = p, !.rows = rows, !.header = header,
                             !.reverse = reversed, !.refund = amount]
<1>1. /\ payment[p].status = "CAPTURED" /\ left[0] = amount
      /\ \A i \in reversed : Live(i)
      /\ Open(w, t)
    BY DEF CreateRefund
<1>2. /\ payment[p] \in PaymentRow /\ active[p] \in SUBSET Invoices
      /\ alloc[p] \in [Invoices -> Nat] /\ refunded[p] \in Nat
      /\ amount \in Nat /\ amount > 0
    BY MoneyAssumption DEF IInv, TypeOK
<1>3. n \in Nat /\ (n = 0 => active[p] = {})
    BY <1>2, FiniteAssumption, FS_Subset, FS_CardinalityType, FS_EmptySet
<1>4. order \in [1..n -> active[p]]
    BY DEF LargestFirst, Bijection, Injection
<1>5. reversed \subseteq active[p]
    BY <1>4
<1>6. reversed = {} => refunded[p] > 0
  <2>1. active[p] = {} => refunded[p] > 0
      BY <1>1, <1>2 DEF IInv, PlansHold, RowsSound
  <2> HIDE DEF n
  <2>2. n # 0 => 1 \in 1..n /\ left[1 - 1] > 0
      BY <1>1, <1>2, <1>3
  <2>3. n # 0 => order[1] \in reversed
      BY <2>2
  <2> HIDE DEF reversed
  <2> QED
      BY <1>3, <2>1, <2>3
<1>7. ASSUME NEW i \in reversed PROVE left[nth(i) - 1] - left[nth(i)] \in Int
  <2>1. nth(i) \in 1..n
      OBVIOUS
  <2> HIDE DEF nth
  <2>2. nth(i) - 1 \in 0..n /\ nth(i) \in 0..n
      BY <1>3, <2>1
  <2>3. left[nth(i) - 1] \in 0..amount /\ left[nth(i)] \in 0..amount
      BY <2>2
  <2> QED
      BY <1>2, <2>3
<1> HIDE DEF hit, nth
<1>8. ASSUME NEW i \in reversed PROVE Live(i) /\ Follows(rows[i], invoice[i])
  <2>1. /\ Live(i) /\ invoice[i] \in InvoiceRow /\ invoice[i].status # "ABSENT"
        /\ invoice[i].balance = invoice[i].total - invoice[i].paid /\ alloc[p][i] \in Nat
      BY <1>1, <1>2, <1>5 DEF IInv, TypeOK, Proved, BalanceIsUnpaid, Live
  <2> QED
      BY <2>1, <1>7, RowsFollow
<1>9. DOMAIN rows = reversed /\ rows = [i \in reversed |-> rows[i]]
    OBVIOUS
<1>10. version = payment[p].version + 1 /\ version \in Nat
    BY <1>2 DEF PaymentRow
<1>11. payment[p].verification # "PENDING"
    BY <1>1 DEF IInv, PlansHold, RowsSound
<1> HIDE DEF rows, version, reversed, n
<1>12. /\ header \in PaymentRow
       /\ header # AbsentPayment => /\ header.status = "REFUNDED" /\ header.version = version
                                    /\ header.verification # "PENDING"
  <2>1. "REFUNDED" \in PaymentStatus
      BY DEF PaymentStatus
  <2>2. [payment[p] EXCEPT !.status = "REFUNDED", !.version = version] \in PaymentRow
      BY <1>2, <1>10, <2>1, HeaderForms
  <2>3. header \in PaymentRow
      BY <2>2, HeaderForms
  <2> QED
      BY <1>2, <1>11, <2>2, <2>3 DEF PaymentRow
<1>13. IsPlan(rows) /\ \A i \in DOMAIN rows : i \in Invoices /\ Live(i) /\ Follows(rows[i], invoice[i])
    BY <1>2, <1>5, <1>8, <1>9, PlanOver DEF IInv
<1> HIDE DEF header
<1>14. /\ IsTxn(t)
       /\ t.op = "reverse" /\ t.pay = p /\ t.rows = rows /\ t.reverse = reversed
       /\ t.header = header /\ t.receipt = "NONE" /\ t.refund = amount
    BY <1>2, <1>5, <1>12, <1>13 DEF IsTxn, Idle, IsPlan, NoAllocation, ReceiptStatus
<1> HIDE DEF t
<1>15. PlannedRows(t)
    BY <1>13, <1>14, FollowingRowsArePlanned DEF IInv
<1>16. PlannedRefund(t)
    BY <1>1, <1>2, <1>5, <1>6, <1>9, <1>10, <1>12, <1>14 DEF PlannedRefund
<1>17. PlannedPayment(t)
    BY <1>14, <1>16, NullAssumption DEF PlannedPayment
<1> QED
    BY <1>1, <1>14, <1>15, <1>17, OpenKeeps

\* Every request about a payment preserves the invariant.
LEMMA PaymentRequestKeeps ==
  ASSUME IInv, NEW w \in Workers, PaymentRequest(w)
  PROVE  IInv'
    BY CaptureKeeps, VerifyKeeps, RejectKeeps, CancelReceiptKeeps, CreateRefundKeeps
       DEF PaymentRequest

-----------------------------------------------------------------------------
(* The end of a transaction                                                *)

\* A transaction that ends without writing leaves every other plan as it was.
LEMMA RollbackKeeps ==
  ASSUME IInv, NEW w \in Workers, Rollback(w)
  PROVE  IInv'
<1>1. IsTxn(Idle)
    BY DEF IsTxn, Idle, NoAllocation, PaymentRow, AbsentPayment, PaymentStatus,
           Verification, ReceiptStatus
<1>2. PlannedRows(Idle) /\ PlannedPayment(Idle)
    BY DEF PlannedRows, PlannedPayment, Idle
<1>3. /\ txn' = [txn EXCEPT ![w] = Idle]
      /\ UNCHANGED <<invoice, payment, alloc, active, receipt, refunded>>
    BY DEF Rollback
<1>4. TypeOK'
    BY <1>1, <1>3 DEF IInv, TypeOK, IsTxn
<1>5. Proved'
    BY <1>3 DEF IInv, Proved, BalanceIsUnpaid, BilledOncePerPeriod, ReceiptMatchesPayment,
                CancelledNeverRefunded, Live
<1>6. RowsSound'
    BY <1>3 DEF IInv, PlansHold, RowsSound
<1>7. ASSUME NEW v \in Workers PROVE (PlannedRows(txn[v]) /\ PlannedPayment(txn[v]))'
  <2>1. txn'[v] = IF v = w THEN Idle ELSE txn[v]
      BY <1>3 DEF IInv, TypeOK
  <2>2. PlannedRows(txn'[v]) /\ PlannedPayment(txn'[v])
      BY <1>2, <2>1 DEF IInv, PlansHold
  <2> QED
      BY <2>2, <1>3, ZenonT(60) DEF PlannedRows, PlannedPayment, PlannedCapture, PlannedSettlement,
           PlannedCancellation, PlannedRefund, RowFresh, RowsFresh, HeaderFresh, Live
<1> QED
    BY <1>4, <1>5, <1>6, <1>7 DEF IInv, PlansHold

\* What a commit finds and what it writes, one row at a time.
LEMMA CommitEffect ==
  ASSUME IInv, NEW w \in Workers, Commit(w)
  PROVE  LET t == txn[w]
         IN  /\ t.op # "idle" /\ IsTxn(t) /\ PlannedRows(t) /\ PlannedPayment(t)
             /\ RowsFresh(t) /\ PeriodIsFree(t)
             /\ t.header # AbsentPayment => HeaderFresh(t)
             /\ \A i \in Invoices : invoice'[i] = IF i \in DOMAIN t.rows THEN t.rows[i] ELSE invoice[i]
             /\ \A p \in Payments :
                  /\ payment'[p] = IF p = t.pay /\ t.header # AbsentPayment THEN t.header ELSE payment[p]
                  /\ active'[p] = IF p # t.pay THEN active[p]
                                  ELSE IF t.op = "capture" THEN {i \in Invoices : t.alloc[i] > 0}
                                  ELSE active[p] \ t.reverse
                  /\ receipt'[p] = IF p = t.pay /\ t.receipt # "NONE" THEN t.receipt ELSE receipt[p]
                  /\ refunded'[p] = IF p = t.pay THEN refunded[p] + t.refund ELSE refunded[p]
             /\ \A v \in Workers : txn'[v] = IF v = w THEN Idle ELSE txn[v]
<1> DEFINE t == txn[w]
<1>1. IsTxn(t) /\ PlannedRows(t) /\ PlannedPayment(t)
    BY DEF IInv, TypeOK, PlansHold
<1>2. t.op # "idle" /\ VersionsMatch(t) /\ PeriodIsFree(t)
    BY DEF Commit
<1>3. RowsFresh(t) /\ (t.header # AbsentPayment => HeaderFresh(t))
    BY <1>2 DEF VersionsMatch, RowsFresh, RowFresh, HeaderFresh
<1>4. \A i \in Invoices : invoice'[i] = IF i \in DOMAIN t.rows THEN t.rows[i] ELSE invoice[i]
    BY DEF Commit
<1>5. \A p \in Payments :
        /\ payment'[p] = IF p = t.pay /\ t.header # AbsentPayment THEN t.header ELSE payment[p]
        /\ active'[p] = IF p # t.pay THEN active[p]
                        ELSE IF t.op = "capture" THEN {i \in Invoices : t.alloc[i] > 0}
                        ELSE active[p] \ t.reverse
        /\ receipt'[p] = IF p = t.pay /\ t.receipt # "NONE" THEN t.receipt ELSE receipt[p]
        /\ refunded'[p] = IF p = t.pay THEN refunded[p] + t.refund ELSE refunded[p]
    BY DEF Commit
<1>6. \A v \in Workers : txn'[v] = IF v = w THEN Idle ELSE txn[v]
    BY DEF Commit, IInv, TypeOK
<1> QED
    BY <1>1, <1>2, <1>3, <1>4, <1>5, <1>6

\* A commit keeps every variable in its type.
LEMMA CommitTypes ==
  ASSUME IInv, NEW w \in Workers, Commit(w)
  PROVE  TypeOK'
<1> DEFINE t == txn[w]
<1>1. IsTxn(t)
    BY DEF IInv, TypeOK
<1>2. invoice' \in [Invoices -> InvoiceRow]
    BY <1>1 DEF Commit, IInv, TypeOK, IsTxn
<1>3. payment' \in [Payments -> PaymentRow]
    BY <1>1 DEF Commit, IInv, TypeOK, IsTxn
<1>4. alloc' \in [Payments -> [Invoices -> Nat]]
    BY <1>1 DEF Commit, IInv, TypeOK, IsTxn
<1>5. active' \in [Payments -> SUBSET Invoices]
    BY <1>1 DEF Commit, IInv, TypeOK, IsTxn
<1>6. receipt' \in [Payments -> ReceiptStatus]
    BY <1>1 DEF Commit, IInv, TypeOK, IsTxn
<1>7. refunded' \in [Payments -> Nat]
    BY <1>1 DEF Commit, IInv, TypeOK, IsTxn
<1>8. txn' = [v \in Workers |-> txn'[v]] /\ \A v \in Workers : IsTxn(txn'[v])
  <2>1. IsTxn(Idle)
      BY DEF IsTxn, Idle, NoAllocation, PaymentRow, AbsentPayment, PaymentStatus,
             Verification, ReceiptStatus
  <2>2. txn' = [txn EXCEPT ![w] = Idle]
      BY DEF Commit
  <2>3. \A v \in Workers : txn'[v] = IF v = w THEN Idle ELSE txn[v]
      BY <2>2 DEF IInv, TypeOK
  <2> QED
      BY <2>1, <2>2, <2>3 DEF IInv, TypeOK
<1>9. \A v \in Workers : IsTxn(txn[v])'
    BY <1>8 DEF IsTxn
<1> QED
    BY <1>2, <1>3, <1>4, <1>5, <1>6, <1>7, <1>8, <1>9 DEF TypeOK

\* Invoices after a commit: the balances, the billed periods and the unused rows.
LEMMA CommitInvoices ==
  ASSUME IInv, NEW w \in Workers, Commit(w)
  PROVE  /\ BalanceIsUnpaid' /\ BilledOncePerPeriod'
         /\ \A i \in Invoices : invoice'[i].status = "ABSENT" => invoice'[i].version = 0
<1> DEFINE t == txn[w]
<1>1. /\ IsTxn(t) /\ PlannedRows(t) /\ RowsFresh(t) /\ PeriodIsFree(t)
      /\ \A i \in Invoices : invoice'[i] = IF i \in DOMAIN t.rows THEN t.rows[i] ELSE invoice[i]
    BY CommitEffect
<1>2. BalanceIsUnpaid /\ BilledOncePerPeriod
    BY DEF IInv, Proved
<1> HIDE DEF t
<1>3. BalanceIsUnpaid'
    BY <1>1, <1>2 DEF BalanceIsUnpaid, PlannedRows
<1>4. BilledOncePerPeriod'
  <2>1. CASE t.op = "generate"
    <3>1. \A i \in DOMAIN t.rows, j \in Invoices : Live(j) => invoice[j].period # t.rows[i].period
        BY <1>1, <2>1 DEF PeriodIsFree
    <3> QED
        BY <1>1, <1>2, <2>1, <3>1 DEF BilledOncePerPeriod, PlannedRows, Live
  <2>2. CASE t.op # "generate"
    <3>1. \A i \in Invoices : Live(i)' => Live(i) /\ invoice'[i].period = invoice[i].period
        BY <1>1, <2>2 DEF PlannedRows, RowsFresh, Live
    <3> QED
        BY <1>2, <3>1 DEF BilledOncePerPeriod
  <2> QED
      BY <2>1, <2>2
<1>5. \A i \in Invoices : invoice'[i].status = "ABSENT" => invoice'[i].version = 0
    BY <1>1 DEF PlannedRows, IInv, PlansHold, RowsSound
<1> QED
    BY <1>3, <1>4, <1>5

\* Payments after a commit: receipts, cancellations and what a plan relies on.
LEMMA CommitPayments ==
  ASSUME IInv, NEW w \in Workers, Commit(w), NEW p \in Payments
  PROVE  /\ receipt'[p] = "ISSUED" <=> payment'[p].status \in {"CAPTURED", "REFUNDED"}
         /\ receipt'[p] = "CANCELLED" <=> payment'[p].status = "CANCELLED"
         /\ payment'[p].status = "CANCELLED" => refunded'[p] = 0
         /\ payment'[p].status = "ABSENT" => payment'[p].version = 0
         /\ payment'[p].verification = "PENDING" => payment'[p].status = "PENDING"
         /\ payment'[p].status \in {"PENDING", "CAPTURED"} /\ refunded'[p] = 0 => active'[p] # {}
         /\ payment'[p].status \in {"ABSENT", "PENDING", "FAILED"} => refunded'[p] = 0
         /\ payment'[p].status = "REFUNDED" => refunded'[p] > 0
<1> DEFINE t == txn[w]
<1>1. /\ IsTxn(t) /\ PlannedPayment(t) /\ RowsFresh(t)
      /\ t.header # AbsentPayment => HeaderFresh(t)
      /\ payment'[p] = IF p = t.pay /\ t.header # AbsentPayment THEN t.header ELSE payment[p]
      /\ active'[p] = IF p # t.pay THEN active[p]
                      ELSE IF t.op = "capture" THEN {i \in Invoices : t.alloc[i] > 0}
                      ELSE active[p] \ t.reverse
      /\ receipt'[p] = IF p = t.pay /\ t.receipt # "NONE" THEN t.receipt ELSE receipt[p]
      /\ refunded'[p] = IF p = t.pay THEN refunded[p] + t.refund ELSE refunded[p]
    BY CommitEffect
<1>2. /\ receipt[p] = "ISSUED" <=> payment[p].status \in {"CAPTURED", "REFUNDED"}
      /\ receipt[p] = "CANCELLED" <=> payment[p].status = "CANCELLED"
      /\ payment[p].status = "CANCELLED" => refunded[p] = 0
      /\ payment[p].status = "ABSENT" => payment[p].version = 0
      /\ payment[p].verification = "PENDING" => payment[p].status = "PENDING"
      /\ payment[p].status \in {"PENDING", "CAPTURED"} /\ refunded[p] = 0 => active[p] # {}
      /\ payment[p].status \in {"ABSENT", "PENDING", "FAILED"} => refunded[p] = 0
      /\ payment[p].status = "REFUNDED" => refunded[p] > 0
      /\ refunded[p] \in Nat /\ receipt[p] \in {"NONE", "ISSUED", "CANCELLED"}
    BY DEF IInv, TypeOK, ReceiptStatus, Proved, ReceiptMatchesPayment, CancelledNeverRefunded,
           PlansHold, RowsSound
<1>3. t.op \in {"idle", "generate", "update", "capture", "settle", "reverse"}
      /\ t.refund \in Nat /\ (t.pay = p => t.op \in {"capture", "settle", "reverse"})
    BY <1>1, NullAssumption DEF IsTxn, PlannedPayment
<1> HIDE DEF t
<1>4. CASE p # t.pay
    BY <1>1, <1>2, <1>4
<1>5. CASE p = t.pay /\ t.op = "capture"
  <2>1. PlannedCapture(t)
      BY <1>1, <1>5 DEF PlannedPayment
  <2>2. t.header # AbsentPayment
      BY <2>1 DEF PlannedCapture, AbsentPayment
  <2> QED
      BY <1>1, <1>2, <1>5, <2>1, <2>2 DEF PlannedCapture
<1>6. CASE p = t.pay /\ t.op = "settle"
  <2>1. PlannedSettlement(t)
      BY <1>1, <1>6 DEF PlannedPayment
  <2>2. t.header # AbsentPayment
      BY <2>1 DEF PlannedSettlement, AbsentPayment
  <2> QED
      BY <1>1, <1>2, <1>6, <2>1, <2>2 DEF PlannedSettlement
<1>7. CASE p = t.pay /\ t.op = "reverse" /\ t.receipt = "CANCELLED"
  <2>1. PlannedCancellation(t)
      BY <1>1, <1>7 DEF PlannedPayment
  <2>2. t.header # AbsentPayment
      BY <2>1 DEF PlannedCancellation, AbsentPayment
  <2> QED
      BY <1>1, <1>2, <1>7, <2>1, <2>2 DEF PlannedCancellation
<1>8. CASE p = t.pay /\ t.op = "reverse" /\ t.receipt # "CANCELLED"
  <2>1. PlannedRefund(t)
      BY <1>1, <1>8 DEF PlannedPayment
  <2> QED
      BY <1>1, <1>2, <1>3, <1>8, <2>1 DEF PlannedRefund
<1> QED
    BY <1>3, <1>4, <1>5, <1>6, <1>7, <1>8

\* Another open plan u survives a commit: where the commit moves a version, u can
\* no longer commit; where it does not, what u has read is still so.
LEMMA CommitKeepsPlan ==
  ASSUME IInv, NEW w \in Workers, Commit(w),
         NEW u, IsTxn(u), PlannedRows(u), PlannedPayment(u)
  PROVE  PlannedRows(u)' /\ PlannedPayment(u)'
<1> DEFINE t == txn[w]
           p == u.pay
<1>1. /\ t.op # "idle" /\ IsTxn(t) /\ PlannedRows(t) /\ PlannedPayment(t) /\ RowsFresh(t)
      /\ t.header # AbsentPayment => HeaderFresh(t)
      /\ \A i \in Invoices : invoice'[i] = IF i \in DOMAIN t.rows THEN t.rows[i] ELSE invoice[i]
      /\ \A q \in Payments :
           /\ payment'[q] = IF q = t.pay /\ t.header # AbsentPayment THEN t.header ELSE payment[q]
           /\ active'[q] = IF q # t.pay THEN active[q]
                           ELSE IF t.op = "capture" THEN {i \in Invoices : t.alloc[i] > 0}
                           ELSE active[q] \ t.reverse
           /\ receipt'[q] = IF q = t.pay /\ t.receipt # "NONE" THEN t.receipt ELSE receipt[q]
           /\ refunded'[q] = IF q = t.pay THEN refunded[q] + t.refund ELSE refunded[q]
    BY CommitEffect
<1>2. TypeOK
    BY DEF IInv
<1> HIDE DEF t
<1>3. ASSUME NEW i \in DOMAIN u.rows
      PROVE  /\ i \in Invoices /\ u.rows[i].version \in Nat /\ invoice[i].version \in Nat
             /\ u.rows[i].version <= invoice'[i].version + 1
             /\ RowFresh(u, i)' => /\ RowFresh(u, i) /\ i \notin DOMAIN t.rows
                                   /\ invoice'[i] = invoice[i]
  <2>1. /\ i \in Invoices /\ u.rows[i].version \in Nat /\ invoice[i].version \in Nat
        /\ u.rows[i].version <= invoice[i].version + 1
      BY <1>2 DEF IsTxn, TypeOK, InvoiceRow, PlannedRows
  <2>2. i \in DOMAIN t.rows => invoice'[i].version = invoice[i].version + 1
      BY <1>1, <2>1 DEF RowsFresh, RowFresh
  <2> QED
      BY <1>1, <2>1, <2>2 DEF RowFresh
<1>4. PlannedRows(u)'
    BY <1>3 DEF PlannedRows, Live
<1>5. RowsFresh(u)' => RowsFresh(u) /\ DOMAIN u.rows \cap DOMAIN t.rows = {}
    BY <1>3 DEF RowsFresh
<1>6. CASE p = NoPayment
    BY <1>4, <1>6, NullAssumption DEF PlannedPayment
<1>7. CASE p \in Payments
  <2>1. /\ payment[p].version \in Nat /\ payment[p].status \in PaymentStatus
        /\ u.header.version \in Nat /\ refunded[p] \in Nat /\ t.refund \in Nat
      BY <1>1, <1>2, <1>7 DEF IsTxn, TypeOK, PaymentRow
  <2>2. ASSUME u.header.version <= payment[p].version + 1
        PROVE  /\ u.header.version <= payment'[p].version + 1
               /\ HeaderFresh(u)' => HeaderFresh(u) /\ payment'[p] = payment[p]
                                     /\ (p = t.pay => t.header = AbsentPayment)
    <3>1. CASE p = t.pay /\ t.header # AbsentPayment
      <4>1. payment'[p] = t.header /\ t.header.version = payment[p].version + 1
          BY <1>1, <1>7, <3>1 DEF HeaderFresh
      <4>2. u.header.version < payment'[p].version + 1
          BY <2>1, <2>2, <4>1
      <4> QED
          BY <2>1, <4>1, <4>2 DEF HeaderFresh
    <3>2. CASE ~(p = t.pay /\ t.header # AbsentPayment)
        BY <1>1, <1>7, <2>1, <2>2, <3>2 DEF HeaderFresh
    <3> QED
        BY <3>1, <3>2
  <2>3. CASE u.op = "capture"
      BY <1>4, <1>7, <2>2, <2>3, NullAssumption DEF PlannedPayment, PlannedCapture
  <2>4. CASE u.op = "settle"
      BY <1>4, <1>7, <2>2, <2>4, NullAssumption DEF PlannedPayment, PlannedSettlement
  <2>5. p = t.pay => \/ PlannedCapture(t) /\ t.header # AbsentPayment /\ t.op = "capture"
                     \/ PlannedSettlement(t) /\ t.header # AbsentPayment /\ t.op = "settle"
                     \/ PlannedCancellation(t) /\ t.header # AbsentPayment /\ t.op = "reverse"
                     \/ PlannedRefund(t) /\ t.op = "reverse"
    <3> SUFFICES ASSUME p = t.pay
                 PROVE  \/ PlannedCapture(t) /\ t.header # AbsentPayment /\ t.op = "capture"
                        \/ PlannedSettlement(t) /\ t.header # AbsentPayment /\ t.op = "settle"
                        \/ PlannedCancellation(t) /\ t.header # AbsentPayment /\ t.op = "reverse"
                        \/ PlannedRefund(t) /\ t.op = "reverse"
        OBVIOUS
    <3>1. t.op \in {"capture", "settle", "reverse"}
        BY <1>1, <1>7, NullAssumption DEF PlannedPayment, IsTxn
    <3>2. /\ PlannedCapture(t) => t.header # AbsentPayment
          /\ PlannedSettlement(t) => t.header # AbsentPayment
          /\ PlannedCancellation(t) => t.header # AbsentPayment
        BY DEF PlannedCapture, PlannedSettlement, PlannedCancellation, AbsentPayment
    <3> QED
        BY <1>1, <3>1, <3>2 DEF PlannedPayment
  <2>6. CASE u.op = "reverse" /\ u.receipt = "CANCELLED"
    <3>1. PlannedCancellation(u)
        BY <2>6 DEF PlannedPayment
    <3>2. ASSUME RowsFresh(u)', HeaderFresh(u)'
          PROVE  p # t.pay
      <4>1. RowsFresh(u) /\ HeaderFresh(u) /\ (p = t.pay => t.header = AbsentPayment)
          BY <1>5, <2>2, <3>1, <3>2 DEF PlannedCancellation
      <4>2. refunded[p] = 0 /\ DOMAIN u.rows = active[p]
          BY <3>1, <4>1 DEF PlannedCancellation
      <4>3. ASSUME p = t.pay PROVE FALSE
        <5>1. PlannedRefund(t)
            BY <2>5, <4>1, <4>3
        <5>2. t.reverse = DOMAIN t.rows /\ t.reverse \subseteq active[p] /\ t.reverse # {}
            BY <1>1, <4>2, <4>3, <5>1 DEF PlannedRefund
        <5> QED
            BY <1>5, <3>2, <4>2, <5>2
      <4> QED
          BY <4>3
    <3>3. PlannedCancellation(u)'
        BY <1>1, <1>5, <1>7, <2>2, <3>1, <3>2 DEF PlannedCancellation
    <3> QED
        BY <1>4, <1>7, <2>6, <3>3, NullAssumption DEF PlannedPayment
  <2>7. CASE u.op = "reverse" /\ u.receipt # "CANCELLED"
    <3>1. PlannedRefund(u)
        BY <2>7 DEF PlannedPayment
    <3>2. payment'[p].status \in {"CAPTURED", "REFUNDED", "CANCELLED"}
      <4>1. CASE p # t.pay
          BY <1>1, <1>7, <3>1, <4>1 DEF PlannedRefund
      <4>2. CASE p = t.pay
          BY <1>1, <1>7, <2>5, <3>1, <4>2
             DEF PlannedRefund, PlannedCapture, PlannedSettlement, PlannedCancellation
      <4> QED
          BY <4>1, <4>2
    <3>3. ASSUME RowsFresh(u)'
          PROVE  /\ u.reverse \subseteq active'[p]
                 /\ payment'[p].status # "CANCELLED"
                 /\ u.reverse = {} => refunded'[p] > 0
      <4>1. /\ u.reverse = DOMAIN u.rows /\ u.reverse \cap DOMAIN t.rows = {}
            /\ u.reverse \subseteq active[p] /\ payment[p].status # "CANCELLED"
            /\ payment[p].status \in {"CAPTURED", "REFUNDED"}
            /\ u.reverse = {} => refunded[p] > 0
          BY <1>5, <3>1, <3>3 DEF PlannedRefund
      <4>2. CASE p # t.pay
          BY <1>1, <1>7, <4>1, <4>2
      <4>3. CASE p = t.pay
        <5>1. ~(PlannedCapture(t) /\ t.header # AbsentPayment)
            BY <1>1, <4>1, <4>3 DEF PlannedCapture
        <5>2. ~(PlannedSettlement(t) /\ t.header # AbsentPayment)
            BY <1>1, <4>1, <4>3 DEF PlannedSettlement
        <5>3. ~(PlannedCancellation(t) /\ t.header # AbsentPayment)
            BY <1>1, <4>1, <4>3 DEF PlannedCancellation
        <5>4. PlannedRefund(t) /\ t.op = "reverse"
            BY <2>5, <4>3, <5>1, <5>2, <5>3
        <5>5. t.refund > 0 /\ t.reverse = DOMAIN t.rows
            BY <5>4 DEF PlannedRefund
        <5>6. payment'[p].status # "CANCELLED"
            BY <1>1, <1>7, <4>1, <4>3, <5>4 DEF PlannedRefund
        <5>7. active'[p] = active[p] \ t.reverse /\ refunded'[p] = refunded[p] + t.refund
            BY <1>1, <1>7, <4>3, <5>4
        <5> QED
            BY <2>1, <4>1, <5>5, <5>6, <5>7
      <4> QED
          BY <4>2, <4>3
    <3>4. PlannedRefund(u)'
        BY <2>2, <3>1, <3>2, <3>3 DEF PlannedRefund
    <3> QED
        BY <1>4, <1>7, <2>7, <3>4, NullAssumption DEF PlannedPayment
  <2>8. u.op \in {"capture", "settle", "reverse"}
      BY <1>7, NullAssumption DEF PlannedPayment, IsTxn
  <2> QED
      BY <1>4, <2>3, <2>4, <2>6, <2>7, <2>8
<1>8. p \in Payments \cup {NoPayment}
    BY DEF IsTxn
<1> QED
    BY <1>4, <1>6, <1>7, <1>8

\* A commit preserves the invariant.
LEMMA CommitKeeps ==
  ASSUME IInv, NEW w \in Workers, Commit(w)
  PROVE  IInv'
<1>1. TypeOK'
    BY CommitTypes
<1>2. Proved'
    BY CommitInvoices, CommitPayments DEF Proved, ReceiptMatchesPayment, CancelledNeverRefunded
<1>3. RowsSound'
    BY CommitInvoices, CommitPayments DEF RowsSound
<1>4. ASSUME NEW v \in Workers PROVE (PlannedRows(txn[v]) /\ PlannedPayment(txn[v]))'
  <2>1. txn'[v] = IF v = w THEN Idle ELSE txn[v]
      BY CommitEffect
  <2>2. CASE v = w
      BY <2>1, <2>2 DEF PlannedRows, PlannedPayment, Idle
  <2>3. CASE v # w
    <3>1. PICK u : u = txn[v]
        OBVIOUS
    <3>2. IsTxn(u) /\ PlannedRows(u) /\ PlannedPayment(u)
        BY <3>1 DEF IInv, TypeOK, PlansHold
    <3>3. PlannedRows(u)' /\ PlannedPayment(u)'
        BY <3>2, CommitKeepsPlan
    <3>4. txn'[v] = u
        BY <2>1, <2>3, <3>1
    <3> QED
        BY <3>3, <3>4 DEF PlannedRows, PlannedPayment, PlannedCapture, PlannedSettlement,
             PlannedCancellation, PlannedRefund, RowFresh, RowsFresh, HeaderFresh, Live
  <2> QED
      BY <2>2, <2>3
<1> QED
    BY <1>1, <1>2, <1>3, <1>4 DEF IInv, PlansHold

-----------------------------------------------------------------------------
(* The theorems                                                            *)

\* Every step preserves the invariant.
LEMMA StepKeeps == IInv /\ [Next]_vars => IInv'
<1>1. ASSUME IInv, Next PROVE IInv'
    BY <1>1, InvoiceRequestKeeps, PaymentRequestKeeps, CommitKeeps, RollbackKeeps DEF Next
<1>2. ASSUME IInv, UNCHANGED vars PROVE IInv'
  <2>1. UNCHANGED <<invoice, payment, alloc, active, receipt, refunded, txn>>
      BY <1>2 DEF vars
  <2>2. TypeOK'
      BY <1>2, <2>1 DEF IInv, TypeOK, IsTxn
  <2>3. Proved'
      BY <1>2, <2>1 DEF IInv, Proved, BalanceIsUnpaid, BilledOncePerPeriod, ReceiptMatchesPayment,
                        CancelledNeverRefunded, Live
  <2>4. RowsSound'
      BY <1>2, <2>1 DEF IInv, PlansHold, RowsSound
  <2>5. ASSUME NEW v \in Workers PROVE (PlannedRows(txn[v]) /\ PlannedPayment(txn[v]))'
    <3>1. PlannedRows(txn[v]) /\ PlannedPayment(txn[v])
        BY <1>2 DEF IInv, PlansHold
    <3> QED
        BY <2>1, <3>1, ZenonT(60) DEF PlannedRows, PlannedPayment, PlannedCapture,
             PlannedSettlement, PlannedCancellation, PlannedRefund, RowFresh, RowsFresh,
             HeaderFresh, Live
  <2> QED
      BY <2>2, <2>3, <2>4, <2>5 DEF IInv, PlansHold
<1> QED
    BY <1>1, <1>2

\* The inductive invariant holds in every reachable state.
THEOREM InvariantHolds == Spec => []IInv
    BY InitEstablishes, StepKeeps, PTL DEF Spec

\* Every variable keeps its type, whatever the requests and their interleaving.
THEOREM TypesHold == Spec => []TypeOK
<1>1. IInv => TypeOK
    BY DEF IInv
<1> QED
    BY <1>1, InvariantHolds, PTL

\* An open transaction that can still commit was computed from rows nobody changed.
THEOREM PlansAlwaysHold == Spec => []PlansHold
<1>1. IInv => PlansHold
    BY DEF IInv
<1> QED
    BY <1>1, InvariantHolds, PTL

\* The stored balance of every invoice is its total less what is paid.
THEOREM BalanceAlwaysUnpaid == Spec => []BalanceIsUnpaid
<1>1. IInv => BalanceIsUnpaid
    BY DEF IInv, Proved
<1> QED
    BY <1>1, InvariantHolds, PTL

\* No student is billed twice for a period, however many generate requests run.
THEOREM NeverBilledTwice == Spec => []BilledOncePerPeriod
<1>1. IInv => BilledOncePerPeriod
    BY DEF IInv, Proved
<1> QED
    BY <1>1, InvariantHolds, PTL

\* Receipts are outstanding for exactly the payments that were posted and not undone.
THEOREM ReceiptsAlwaysMatch == Spec => []ReceiptMatchesPayment
<1>1. IInv => ReceiptMatchesPayment
    BY DEF IInv, Proved
<1> QED
    BY <1>1, InvariantHolds, PTL

\* A cancellation and a refund of the same payment never both take effect.
THEOREM NeverCancelledAndRefunded == Spec => []CancelledNeverRefunded
<1>1. IInv => CancelledNeverRefunded
    BY DEF IInv, Proved
<1> QED
    BY <1>1, InvariantHolds, PTL

-----------------------------------------------------------------------------
(* The money in FeeCollection adds up: what an invoice says is paid is     *)
(* what captured payments allocate to it, and the ledger agrees.  Every    *)
(* handler adds to or subtracts from a column it has read, so the second   *)
(* invariant, MoneyInv, adds to IInv by how much an open transaction will  *)
(* move the column of each invoice it writes.                              *)

\* What transaction t adds to what is paid of invoice i.
Change(t, i) ==
  IF t.op = "capture" THEN t.alloc[i]
  ELSE IF t.op = "settle" THEN alloc[t.pay][i]
  ELSE IF t.op = "reverse" THEN 0 - alloc[t.pay][i] ELSE 0

\* A row of which nothing may be paid.
MayHoldNothing(row) == row.status \in {"ABSENT", "DRAFT", "VOID"} \/ row.deleted

\* A planned row moves what is paid by what its transaction is about, never beyond what
\* the invoice asks for, and not at all where nothing may be paid.
PlannedAmounts(t) ==
  \A i \in DOMAIN t.rows :
    /\ RowFresh(t, i) => t.rows[i].paid = invoice[i].paid + Change(t, i)
    /\ MayHoldNothing(t.rows[i]) => t.rows[i].paid <= 0
    /\ t.op \in {"capture", "settle"} => t.rows[i].paid <= t.rows[i].total

\* A capture allocates all its amount; it writes the invoices it allocates to when it is
\* posted at once.
CaptureIsComplete(t) ==
  /\ SumFunctionOnSet(t.alloc, Invoices) = t.header.amount
  /\ DOMAIN t.rows = IF t.header.status = "CAPTURED" THEN {i \in Invoices : t.alloc[i] > 0}
                                                     ELSE {}

\* A settlement writes every invoice its payment is allocated to when the money came.
SettlementIsComplete(t) ==
  HeaderFresh(t) =>
    DOMAIN t.rows = IF t.header.status = "CAPTURED" THEN active[t.pay] ELSE {}

\* A refund takes back allocations worth its amount, or all there are; the refund that
\* closes the payment leaves nothing of its amount.
RefundIsCovered(t) ==
  /\ t.reverse \subseteq Invoices
  /\ \/ SumFunctionOnSet(alloc[t.pay], t.reverse) >= t.refund
     \/ active[t.pay] \subseteq t.reverse
  /\ t.header.status = "REFUNDED" => refunded[t.pay] + t.refund >= t.header.amount

\* A transaction about a payment that exists writes the amount it has read.
AmountIsKept(t) ==
  /\ payment[t.pay].status # "ABSENT"
  /\ t.header # AbsentPayment /\ HeaderFresh(t) => t.header.amount = payment[t.pay].amount

PlannedMoney(t) ==
  /\ PlannedAmounts(t)
  /\ t.op = "capture" => CaptureIsComplete(t)
  /\ t.op = "settle" => AmountIsKept(t) /\ SettlementIsComplete(t)
  /\ t.op = "reverse" => AmountIsKept(t) /\ (t.receipt # "CANCELLED" => RefundIsCovered(t))

\* Nothing is paid of an invoice that is a draft, void, deleted or not there.
UnpaidRows == \A i \in Invoices : MayHoldNothing(invoice[i]) => invoice[i].paid <= 0

\* The allocations of a payment in force are worth no more than what was not given back;
\* all of its amount as long as nothing was.
AllocationsCover(p) ==
  /\ \A i \in active[p] : alloc[p][i] > 0
  /\ payment[p].status \notin {"ABSENT", "CANCELLED"} /\ refunded[p] = 0 =>
       SumFunctionOnSet(alloc[p], active[p]) = payment[p].amount
  /\ payment[p].status # "ABSENT" =>
       \/ active[p] = {}
       \/ SumFunctionOnSet(alloc[p], active[p]) <= payment[p].amount - refunded[p]
  /\ payment[p].status = "REFUNDED" => refunded[p] >= payment[p].amount
  /\ payment[p].status = "CANCELLED" => active[p] = {}
  /\ payment[p].status = "ABSENT" => active[p] = {}

MoneyInv ==
  /\ IInv
  /\ PaidIsAllocated /\ UnpaidRows
  /\ \A p \in Payments : AllocationsCover(p)
  /\ \A w \in Workers : PlannedMoney(txn[w])

-----------------------------------------------------------------------------
(* What is held                                                            *)

\* What a payment holds of an invoice is a natural number, and the invoice counts it as paid.
LEMMA HeldIsPaid ==
  ASSUME TypeOK, PaidIsAllocated, NEW i \in Invoices
  PROVE  /\ invoice[i].paid \in Nat
         /\ \A p \in Payments : Held(p, i) \in Nat /\ Held(p, i) <= invoice[i].paid
<1> DEFINE held == [p \in Payments |-> Held(p, i)]
<1>1. \A p \in Payments : held[p] = Held(p, i) /\ Held(p, i) \in Nat
    BY DEF Held, TypeOK
<1>2. invoice[i].paid = SumFunctionOnSet(held, Payments)
  <2>1. DOMAIN held = Payments
      OBVIOUS
  <2> QED
      BY <2>1 DEF PaidIsAllocated, SumFunction
<1>3. \A p \in Payments : held[p] \in Nat
    BY <1>1
<1> HIDE DEF held
<1>4. /\ SumFunctionOnSet(held, Payments) \in Nat
      /\ \A p \in Payments : held[p] <= SumFunctionOnSet(held, Payments)
    BY <1>3, FiniteAssumption, SumBounds
<1> QED
    BY <1>1, <1>2, <1>4

\* In the initial state nothing is paid.
LEMMA InitIsPaid == Init => MoneyInv
<1> SUFFICES ASSUME Init PROVE MoneyInv
    OBVIOUS
<1>1. IInv
    BY InitEstablishes
<1>2. PaidIsAllocated
  <2> SUFFICES ASSUME NEW i \in Invoices
               PROVE  invoice[i].paid = SumFunction([p \in Payments |-> Held(p, i)])
      BY DEF PaidIsAllocated
  <2> DEFINE held == [p \in Payments |-> Held(p, i)]
  <2>1. DOMAIN held = Payments /\ \A p \in Payments : held[p] = 0
      BY DEF Init, Held, AbsentPayment
  <2> HIDE DEF held
  <2>2. SumFunctionOnSet(held, Payments) = 0
      BY <2>1, FiniteAssumption, SumOfZeros
  <2>3. invoice[i].paid = 0
      BY DEF Init, AbsentInvoice
  <2> QED
      BY <2>1, <2>2, <2>3 DEF SumFunction, held
<1>3. UnpaidRows
    BY DEF Init, UnpaidRows, AbsentInvoice
<1>4. ASSUME NEW p \in Payments PROVE AllocationsCover(p)
    BY DEF Init, AllocationsCover, AbsentPayment
<1>5. ASSUME NEW w \in Workers PROVE PlannedMoney(txn[w])
    BY DEF Init, PlannedMoney, PlannedAmounts, Idle
<1> QED
    BY <1>1, <1>2, <1>3, <1>4, <1>5 DEF MoneyInv

\* A request that opens a transaction writes nothing else, so it is enough that what it
\* plans adds up.
LEMMA OpenKeepsMoney ==
  ASSUME MoneyInv, IInv', NEW w \in Workers, NEW t, PlannedMoney(t), Open(w, t)
  PROVE  MoneyInv'
<1>1. /\ txn' = [txn EXCEPT ![w] = t]
      /\ UNCHANGED <<invoice, payment, alloc, active, receipt, refunded>>
    BY DEF Open
<1>2. PaidIsAllocated' /\ UnpaidRows'
    BY <1>1 DEF MoneyInv, PaidIsAllocated, UnpaidRows, Held, MayHoldNothing
<1>3. ASSUME NEW p \in Payments PROVE AllocationsCover(p)'
    BY <1>1 DEF MoneyInv, AllocationsCover
<1>4. ASSUME NEW v \in Workers PROVE PlannedMoney(txn[v])'
  <2>1. txn'[v] = IF v = w THEN t ELSE txn[v]
      BY <1>1 DEF MoneyInv, IInv, TypeOK
  <2>2. PlannedMoney(txn'[v])
      BY <2>1 DEF MoneyInv
  <2> QED
      BY <1>1, <2>2 DEF PlannedMoney, PlannedAmounts, Change, CaptureIsComplete,
           SettlementIsComplete, RefundIsCovered, AmountIsKept, RowFresh, HeaderFresh, MayHoldNothing
<1> QED
    BY <1>2, <1>3, <1>4 DEF MoneyInv

\* So does a transaction that ends without writing.
LEMMA RollbackKeepsMoney ==
  ASSUME MoneyInv, IInv', NEW w \in Workers, Rollback(w)
  PROVE  MoneyInv'
<1>1. /\ txn' = [txn EXCEPT ![w] = Idle]
      /\ UNCHANGED <<invoice, payment, alloc, active, receipt, refunded>>
    BY DEF Rollback
<1>2. PaidIsAllocated' /\ UnpaidRows'
    BY <1>1 DEF MoneyInv, PaidIsAllocated, UnpaidRows, Held, MayHoldNothing
<1>3. ASSUME NEW p \in Payments PROVE AllocationsCover(p)'
    BY <1>1 DEF MoneyInv, AllocationsCover
<1>4. ASSUME NEW v \in Workers PROVE PlannedMoney(txn[v])'
  <2>1. txn'[v] = IF v = w THEN Idle ELSE txn[v]
      BY <1>1 DEF MoneyInv, IInv, TypeOK
  <2>2. PlannedMoney(Idle)
      BY DEF PlannedMoney, PlannedAmounts, Idle
  <2>3. PlannedMoney(txn'[v])
      BY <2>1, <2>2 DEF MoneyInv
  <2> QED
      BY <1>1, <2>3 DEF PlannedMoney, PlannedAmounts, Change, CaptureIsComplete,
           SettlementIsComplete, RefundIsCovered, AmountIsKept, RowFresh, HeaderFresh, MayHoldNothing
<1> QED
    BY <1>2, <1>3, <1>4 DEF MoneyInv

-----------------------------------------------------------------------------
(* Requests about invoices                                                 *)

\* A transaction that rewrites one invoice and leaves what is paid of it.
LEMMA WritingAddsUp ==
  ASSUME NEW op \in {"generate", "update"}, NEW i \in Invoices, NEW row,
         row.paid = invoice[i].paid, row.paid \in Int, MayHoldNothing(row) => row.paid <= 0
  PROVE  PlannedMoney(Writing(op, i, row))
<1> DEFINE t == Writing(op, i, row)
<1>1. t.op = op /\ DOMAIN t.rows = {i} /\ t.rows[i] = row
    BY DEF Writing, Idle
<1> HIDE DEF t
<1>2. PlannedAmounts(t)
    BY <1>1 DEF PlannedAmounts, Change
<1> QED
    BY <1>1, <1>2 DEF PlannedMoney, t

\* Every request about an invoice leaves what is paid of it.
LEMMA InvoiceRequestAddsUp ==
  ASSUME MoneyInv, IInv', NEW w \in Workers, InvoiceRequest(w)
  PROVE  MoneyInv'
<1>1. PICK i \in Invoices :
        \/ \E period \in Periods, total \in DraftTotals : Generate(w, i, period, total)
        \/ \E total \in DraftTotals : Recompute(w, i, total)
        \/ \E fine \in Fines : ApplyFines(w, i, fine)
        \/ VoidInvoice(w, i)
        \/ SoftDelete(w, i)
    BY DEF InvoiceRequest
<1>2. invoice[i] \in InvoiceRow /\ invoice[i].paid \in Nat
      /\ (MayHoldNothing(invoice[i]) => invoice[i].paid = 0)
  <2>1. TypeOK /\ PaidIsAllocated /\ UnpaidRows
      BY DEF MoneyInv, IInv
  <2>2. invoice[i].paid \in Nat
      BY <2>1, HeldIsPaid
  <2> QED
      BY <2>1, <2>2 DEF TypeOK, UnpaidRows
<1>3. ASSUME NEW op \in {"generate", "update"}, NEW row, row.paid = invoice[i].paid,
             MayHoldNothing(row) => row.paid <= 0, Open(w, Writing(op, i, row))
      PROVE  MoneyInv'
    BY <1>2, <1>3, WritingAddsUp, OpenKeepsMoney
<1>4. CASE \E period \in Periods, total \in DraftTotals : Generate(w, i, period, total)
  <2>1. PICK period \in Periods, total \in DraftTotals : Generate(w, i, period, total)
      BY <1>4
  <2> DEFINE row == [AbsentInvoice EXCEPT !.status = "DRAFT", !.period = period,
                                          !.total = total, !.balance = total, !.version = 1]
  <2>2. invoice[i].status = "ABSENT" /\ Open(w, Writing("generate", i, row))
      BY <2>1 DEF Generate
  <2>3. row.paid = 0 /\ invoice[i].paid = 0
      BY <1>2, <2>2 DEF AbsentInvoice, MayHoldNothing
  <2> HIDE DEF row
  <2> QED
      BY <1>3, <2>2, <2>3
<1>5. CASE \E total \in DraftTotals : Recompute(w, i, total)
  <2>1. PICK total \in DraftTotals : Recompute(w, i, total)
      BY <1>5
  <2> DEFINE status == IF invoice[i].status = "DRAFT" THEN "SENT" ELSE invoice[i].status
             row == RepricedRow(invoice[i], total + invoice[i].fine, status)
  <2>2. Live(i) /\ invoice[i].status \in {"DRAFT", "SENT", "PARTIAL"} /\ Open(w, Writing("update", i, row))
      BY <2>1 DEF Recompute
  <2>3. row.paid = invoice[i].paid /\ row.status = status /\ row.deleted = invoice[i].deleted
      BY <1>2 DEF RepricedRow, InvoiceRow
  <2>4. ~MayHoldNothing(row)
      BY <2>2, <2>3 DEF MayHoldNothing, Live
  <2> HIDE DEF row
  <2> QED
      BY <1>3, <2>2, <2>3, <2>4
<1>6. CASE \E fine \in Fines : ApplyFines(w, i, fine)
  <2>1. PICK fine \in Fines : ApplyFines(w, i, fine)
      BY <1>6
  <2> DEFINE priced == RepricedRow(invoice[i], invoice[i].total + fine, invoice[i].status)
             row == [priced EXCEPT !.fine = fine]
  <2>2. Open(w, Writing("update", i, row))
      BY <2>1 DEF ApplyFines
  <2>3. /\ priced.paid = invoice[i].paid /\ priced.status = invoice[i].status
        /\ priced.deleted = invoice[i].deleted
      BY <1>2 DEF RepricedRow, InvoiceRow
  <2>4. row.paid = priced.paid /\ row.status = priced.status /\ row.deleted = priced.deleted
      BY <1>2 DEF RepricedRow, InvoiceRow
  <2> HIDE DEF row, priced
  <2>5. MayHoldNothing(row) => row.paid <= 0
      BY <1>2, <2>3, <2>4 DEF MayHoldNothing
  <2> QED
      BY <1>3, <2>2, <2>3, <2>4, <2>5
<1>7. CASE VoidInvoice(w, i)
  <2> DEFINE row == [invoice[i] EXCEPT !.status = "VOID", !.version = invoice[i].version + 1]
  <2>1. ~(invoice[i].paid > 0) /\ Open(w, Writing("update", i, row))
      BY <1>7 DEF VoidInvoice
  <2>2. row.paid = invoice[i].paid
      BY <1>2 DEF InvoiceRow
  <2> HIDE DEF row
  <2> QED
      BY <1>2, <1>3, <2>1, <2>2
<1>8. CASE SoftDelete(w, i)
  <2> DEFINE row == [invoice[i] EXCEPT !.deleted = TRUE, !.version = invoice[i].version + 1]
  <2>1. invoice[i].status = "DRAFT" /\ Open(w, Writing("update", i, row))
      BY <1>8 DEF SoftDelete
  <2>2. row.paid = invoice[i].paid /\ invoice[i].paid = 0
      BY <1>2, <2>1 DEF InvoiceRow, MayHoldNothing
  <2> HIDE DEF row
  <2> QED
      BY <1>3, <2>1, <2>2
<1> QED
    BY <1>1, <1>4, <1>5, <1>6, <1>7, <1>8

-----------------------------------------------------------------------------
(* Requests about payments                                                 *)

\* What a row is worth after an allocation within its balance.
LEMMA PaidRowAddsUp ==
  ASSUME NEW row \in InvoiceRow, row.status # "ABSENT", ~row.deleted, row.paid \in Nat,
         row.balance = row.total - row.paid, NEW a \in Nat, a > 0, a <= row.balance
  PROVE  /\ PaidRow(row, a).paid = row.paid + a
         /\ PaidRow(row, a).paid <= PaidRow(row, a).total
         /\ ~MayHoldNothing(PaidRow(row, a))
<1> DEFINE paid == row.paid + a
           new == PaidRow(row, a)
<1>1. /\ new.paid = paid /\ new.total = row.total /\ new.deleted = row.deleted
      /\ new.status = IF paid >= row.total THEN "PAID"
                      ELSE IF paid > 0 THEN "PARTIAL" ELSE row.status
    BY DEF PaidRow, InvoiceRow
<1>2. row.total \in Int
    BY DEF InvoiceRow
<1> HIDE DEF new
<1>3. new.status \in {"PAID", "PARTIAL"}
    BY <1>1, <1>2
<1>4. ~MayHoldNothing(new)
    BY <1>1, <1>3 DEF MayHoldNothing
<1>5. new.paid <= new.total
    BY <1>1, <1>2
<1> QED
    BY <1>1, <1>4, <1>5 DEF new

\* What a row is worth after an allocation of it is reversed.
LEMMA ReversedRowAddsUp ==
  ASSUME NEW row \in InvoiceRow, ~MayHoldNothing(row), NEW a \in Nat, NEW b
  PROVE  /\ CancelledRow(row, a).paid = row.paid - a /\ ~MayHoldNothing(CancelledRow(row, a))
         /\ RefundedRow(row, a, b).paid = row.paid - a /\ ~MayHoldNothing(RefundedRow(row, a, b))
<1> DEFINE cancelled == CancelledRow(row, a)
           refund == RefundedRow(row, a, b)
<1>1. /\ cancelled.paid = row.paid - a /\ cancelled.deleted = row.deleted
      /\ cancelled.status = StatusAfterReversal(row.status, row.paid - a, row.total)
    BY DEF CancelledRow, InvoiceRow
<1>2. /\ refund.paid = row.paid - a /\ refund.deleted = row.deleted
      /\ refund.status = StatusAfterRefund(row.paid - a, row.refund + b)
    BY DEF RefundedRow, InvoiceRow
<1> HIDE DEF cancelled, refund
<1>3. cancelled.status \in {"PAID", "PARTIAL", "SENT", row.status}
    BY <1>1 DEF StatusAfterReversal
<1>4. refund.status \in {"REFUNDED", "SENT", "PARTIAL"}
    BY <1>2 DEF StatusAfterRefund
<1>5. ~MayHoldNothing(cancelled) /\ ~MayHoldNothing(refund)
    BY <1>1, <1>2, <1>3, <1>4 DEF MayHoldNothing
<1> QED
    BY <1>1, <1>2, <1>5 DEF cancelled, refund

\* What the invariant says of the rows a request reads.
LEMMA RowsRead ==
  ASSUME MoneyInv
  PROVE  /\ \A i \in Invoices :
              /\ invoice[i] \in InvoiceRow /\ invoice[i].paid \in Nat
              /\ invoice[i].balance = invoice[i].total - invoice[i].paid
         /\ \A p \in Payments :
              /\ payment[p] \in PaymentRow /\ active[p] \in SUBSET Invoices
              /\ alloc[p] \in [Invoices -> Nat] /\ refunded[p] \in Nat
              /\ \A i \in active[p] : alloc[p][i] > 0
              /\ payment[p].status \in {"CAPTURED", "REFUNDED"} =>
                   \A i \in active[p] : ~MayHoldNothing(invoice[i])
<1>1. TypeOK /\ PaidIsAllocated /\ UnpaidRows /\ BalanceIsUnpaid
      /\ \A p \in Payments : \A i \in active[p] : alloc[p][i] > 0
    BY DEF MoneyInv, IInv, Proved, AllocationsCover
<1>2. ASSUME NEW i \in Invoices
      PROVE  /\ invoice[i] \in InvoiceRow /\ invoice[i].paid \in Nat
             /\ invoice[i].balance = invoice[i].total - invoice[i].paid
    BY <1>1, HeldIsPaid DEF TypeOK, BalanceIsUnpaid
<1>3. ASSUME NEW p \in Payments, payment[p].status \in {"CAPTURED", "REFUNDED"}, NEW i \in active[p]
      PROVE  ~MayHoldNothing(invoice[i])
  <2>1. i \in Invoices /\ alloc[p][i] > 0 /\ alloc[p][i] \in Nat
      BY <1>1 DEF TypeOK
  <2>2. Held(p, i) = alloc[p][i]
      BY <1>3 DEF Held
  <2>3. Held(p, i) <= invoice[i].paid /\ invoice[i].paid \in Nat
      BY <1>1, <2>1, HeldIsPaid
  <2>4. invoice[i].paid > 0
      BY <2>1, <2>2, <2>3
  <2> QED
      BY <1>1, <2>1, <2>3, <2>4 DEF UnpaidRows
<1> QED
    BY <1>1, <1>2, <1>3 DEF TypeOK

\* A capture plans to add to each invoice what it allocates to it.
LEMMA CaptureAddsUp ==
  ASSUME MoneyInv, IInv', NEW w \in Workers, NEW p \in Payments,
         NEW split \in [Invoices -> Amounts \cup {0}],
         NEW amount \in Amounts, NEW verifyRequired \in BOOLEAN, NEW partialAllowed \in BOOLEAN,
         Capture(w, p, split, amount, verifyRequired, partialAllowed)
  PROVE  MoneyInv'
<1> DEFINE touched == {i \in Invoices : split[i] > 0}
           t == IF verifyRequired THEN CaptureForVerification(p, split, amount)
                                  ELSE CaptureAndIssueReceipt(p, split, amount)
<1>1. /\ \A i \in touched : CanPay(i, split[i], partialAllowed)
      /\ SumFunction(split) = amount
      /\ Open(w, t)
    BY DEF Capture
<1>2. /\ t.op = "capture" /\ t.alloc = split /\ t.header.amount = amount
      /\ t.header.status = IF verifyRequired THEN "PENDING" ELSE "CAPTURED"
      /\ DOMAIN t.rows = IF verifyRequired THEN {} ELSE touched
      /\ \A i \in DOMAIN t.rows : t.rows[i] = PaidRow(invoice[i], split[i])
  <2>1. CASE verifyRequired
      BY <2>1 DEF CaptureForVerification, Idle
  <2>2. CASE ~verifyRequired
      BY <2>2 DEF CaptureAndIssueReceipt, Idle
  <2> QED
      BY <2>1, <2>2
<1> HIDE DEF t
<1>3. ASSUME NEW i \in touched
      PROVE  /\ PaidRow(invoice[i], split[i]).paid = invoice[i].paid + split[i]
             /\ PaidRow(invoice[i], split[i]).paid <= PaidRow(invoice[i], split[i]).total
             /\ ~MayHoldNothing(PaidRow(invoice[i], split[i]))
  <2>1. invoice[i] \in InvoiceRow /\ invoice[i].paid \in Nat
        /\ invoice[i].balance = invoice[i].total - invoice[i].paid
      BY RowsRead
  <2>2. split[i] \in Nat /\ split[i] > 0 /\ split[i] <= invoice[i].balance
        /\ invoice[i].status # "ABSENT" /\ ~invoice[i].deleted
      BY <1>1, MoneyAssumption DEF CanPay, Live
  <2> QED
      BY <2>1, <2>2, PaidRowAddsUp
<1>4. PlannedAmounts(t)
    BY <1>2, <1>3 DEF PlannedAmounts, Change
<1>5. CaptureIsComplete(t)
  <2>1. SumFunctionOnSet(split, Invoices) = amount
      BY <1>1 DEF SumFunction
  <2> QED
      BY <1>2, <2>1 DEF CaptureIsComplete
<1>6. PlannedMoney(t)
    BY <1>2, <1>4, <1>5 DEF PlannedMoney
<1> QED
    BY <1>1, <1>6, OpenKeepsMoney

\* A verification plans to add to each invoice what its payment allocates to it.
LEMMA VerifyAddsUp ==
  ASSUME MoneyInv, IInv', NEW w \in Workers, NEW p \in Payments, NEW partialAllowed \in BOOLEAN,
         Verify(w, p, partialAllowed)
  PROVE  MoneyInv'
<1> DEFINE header == [payment[p] EXCEPT !.status = "CAPTURED", !.verification = "VERIFIED",
                                        !.version = payment[p].version + 1]
           t == [Idle EXCEPT !.op = "settle", !.pay = p,
                   !.rows = [i \in active[p] |-> PaidRow(invoice[i], alloc[p][i])],
                   !.header = header, !.receipt = "ISSUED"]
<1>1. /\ payment[p].verification = "PENDING"
      /\ \A i \in active[p] : CanPay(i, alloc[p][i], partialAllowed)
      /\ Open(w, t)
    BY DEF Verify
<1>2. /\ payment[p] \in PaymentRow /\ active[p] \in SUBSET Invoices /\ alloc[p] \in [Invoices -> Nat]
      /\ \A i \in active[p] : alloc[p][i] > 0
    BY RowsRead
<1>3. header.status = "CAPTURED" /\ header.amount = payment[p].amount
    BY <1>2 DEF PaymentRow
<1> HIDE DEF header
<1>4. /\ t.op = "settle" /\ t.pay = p /\ t.header = header
      /\ DOMAIN t.rows = active[p]
      /\ \A i \in DOMAIN t.rows : t.rows[i] = PaidRow(invoice[i], alloc[p][i])
    BY DEF Idle
<1> HIDE DEF t
<1>5. ASSUME NEW i \in active[p]
      PROVE  /\ PaidRow(invoice[i], alloc[p][i]).paid = invoice[i].paid + alloc[p][i]
             /\ PaidRow(invoice[i], alloc[p][i]).paid <= PaidRow(invoice[i], alloc[p][i]).total
             /\ ~MayHoldNothing(PaidRow(invoice[i], alloc[p][i]))
  <2>1. invoice[i] \in InvoiceRow /\ invoice[i].paid \in Nat
        /\ invoice[i].balance = invoice[i].total - invoice[i].paid
      BY <1>2, RowsRead
  <2>2. alloc[p][i] \in Nat /\ alloc[p][i] > 0 /\ alloc[p][i] <= invoice[i].balance
        /\ invoice[i].status # "ABSENT" /\ ~invoice[i].deleted
      BY <1>1, <1>2 DEF CanPay, Live
  <2> QED
      BY <2>1, <2>2, PaidRowAddsUp
<1>6. PlannedAmounts(t)
    BY <1>4, <1>5 DEF PlannedAmounts, Change
<1>7. payment[p].status = "PENDING"
    BY <1>1 DEF MoneyInv, IInv, PlansHold, RowsSound
<1>8. AmountIsKept(t) /\ SettlementIsComplete(t)
    BY <1>3, <1>4, <1>7 DEF AmountIsKept, SettlementIsComplete
<1>9. PlannedMoney(t)
    BY <1>4, <1>6, <1>8 DEF PlannedMoney
<1> QED
    BY <1>1, <1>9, OpenKeepsMoney

\* A rejection plans to write no invoice.
LEMMA RejectAddsUp ==
  ASSUME MoneyInv, IInv', NEW w \in Workers, NEW p \in Payments, Reject(w, p)
  PROVE  MoneyInv'
<1> DEFINE header == [payment[p] EXCEPT !.status = "FAILED", !.verification = "REJECTED",
                                        !.version = payment[p].version + 1]
           t == [Idle EXCEPT !.op = "settle", !.pay = p, !.header = header]
<1>1. payment[p].verification = "PENDING" /\ Open(w, t)
    BY DEF Reject
<1>2. payment[p] \in PaymentRow
    BY RowsRead
<1>3. header.status = "FAILED" /\ header.amount = payment[p].amount
    BY <1>2 DEF PaymentRow
<1> HIDE DEF header
<1>4. t.op = "settle" /\ t.pay = p /\ t.header = header /\ DOMAIN t.rows = {}
    BY DEF Idle
<1> HIDE DEF t
<1>5. payment[p].status = "PENDING"
    BY <1>1 DEF MoneyInv, IInv, PlansHold, RowsSound
<1>6. AmountIsKept(t) /\ SettlementIsComplete(t) /\ PlannedAmounts(t)
    BY <1>3, <1>4, <1>5 DEF AmountIsKept, SettlementIsComplete, PlannedAmounts
<1>7. PlannedMoney(t)
    BY <1>4, <1>6 DEF PlannedMoney
<1> QED
    BY <1>1, <1>7, OpenKeepsMoney

\* A cancellation plans to take from each invoice what its payment allocates to it.
LEMMA CancelReceiptAddsUp ==
  ASSUME MoneyInv, IInv', NEW w \in Workers, NEW p \in Payments, CancelReceipt(w, p)
  PROVE  MoneyInv'
<1> DEFINE header == [payment[p] EXCEPT !.status = "CANCELLED", !.version = payment[p].version + 1]
           t == [Idle EXCEPT !.op = "reverse", !.pay = p,
                   !.rows = [i \in active[p] |-> CancelledRow(invoice[i], alloc[p][i])],
                   !.header = header, !.reverse = active[p], !.receipt = "CANCELLED"]
<1>1. receipt[p] = "ISSUED" /\ Open(w, t)
    BY DEF CancelReceipt
<1>2. payment[p].status \in {"CAPTURED", "REFUNDED"}
    BY <1>1 DEF MoneyInv, IInv, Proved, ReceiptMatchesPayment
<1>3. /\ payment[p] \in PaymentRow /\ active[p] \in SUBSET Invoices /\ alloc[p] \in [Invoices -> Nat]
      /\ \A i \in active[p] : ~MayHoldNothing(invoice[i])
    BY <1>2, RowsRead
<1>4. header.status = "CANCELLED" /\ header.amount = payment[p].amount
    BY <1>3 DEF PaymentRow
<1> HIDE DEF header
<1>5. /\ t.op = "reverse" /\ t.pay = p /\ t.header = header /\ t.receipt = "CANCELLED"
      /\ DOMAIN t.rows = active[p]
      /\ \A i \in DOMAIN t.rows : t.rows[i] = CancelledRow(invoice[i], alloc[p][i])
    BY DEF Idle
<1> HIDE DEF t
<1>6. ASSUME NEW i \in active[p]
      PROVE  /\ CancelledRow(invoice[i], alloc[p][i]).paid = invoice[i].paid + (0 - alloc[p][i])
             /\ ~MayHoldNothing(CancelledRow(invoice[i], alloc[p][i]))
  <2>1. invoice[i] \in InvoiceRow /\ invoice[i].paid \in Nat /\ alloc[p][i] \in Nat
        /\ ~MayHoldNothing(invoice[i])
      BY <1>3, RowsRead
  <2>2. /\ CancelledRow(invoice[i], alloc[p][i]).paid = invoice[i].paid - alloc[p][i]
        /\ ~MayHoldNothing(CancelledRow(invoice[i], alloc[p][i]))
      BY <2>1, ReversedRowAddsUp
  <2> QED
      BY <2>1, <2>2
<1>7. PlannedAmounts(t)
    BY <1>5, <1>6 DEF PlannedAmounts, Change
<1>8. AmountIsKept(t)
    BY <1>2, <1>4, <1>5 DEF AmountIsKept
<1>9. PlannedMoney(t)
    BY <1>5, <1>7, <1>8 DEF PlannedMoney
<1> QED
    BY <1>1, <1>9, OpenKeepsMoney

\* The first n elements of an order, as long as something is left before the element.
Taken(order, left, n) == {order[k] : k \in {k \in 1..n : left[k - 1] > 0}}

\* Taking the elements of a set in some order until their values cover an amount, one
\* takes enough or everything: left[k] is what is not covered after the k-th.
LEMMA EnoughOrAll ==
  ASSUME NEW S, IsFiniteSet(S), NEW f, \A x \in S : f[x] \in Nat,
         NEW n \in Nat, NEW order \in Bijection(1..n, S),
         NEW amount \in Nat, NEW left \in [0..n -> 0..amount], left[0] = amount,
         \A k \in 1..n : left[k] = IF f[order[k]] <= left[k - 1]
                                   THEN left[k - 1] - f[order[k]] ELSE 0
  PROVE  \/ SumFunctionOnSet(f, Taken(order, left, n)) >= amount
         \/ S \subseteq Taken(order, left, n)
<1> DEFINE hit(k) == {j \in 1..k : left[j - 1] > 0}
           taken(k) == {order[j] : j \in hit(k)}
           covers(k) == /\ SumFunctionOnSet(f, taken(k)) >= amount - left[k]
                        /\ left[k] > 0 => \A j \in 1..k : left[j - 1] > 0
           bad == {k \in 0..n : ~covers(k)}
<1>1. /\ order \in [1..n -> S]
      /\ \A j, k \in 1..n : order[j] = order[k] => j = k
      /\ \A x \in S : \E k \in 1..n : order[k] = x
    BY DEF Bijection, Injection, Surjection, IsInjective
<1>2. ASSUME NEW k \in 0..n PROVE left[k] \in Nat /\ left[k] <= amount
    OBVIOUS
<1>3. ASSUME NEW T \in SUBSET S
      PROVE  /\ SumFunctionOnSet(f, T) \in Nat
             /\ T = {} => SumFunctionOnSet(f, T) = 0
             /\ \A x \in T : SumFunctionOnSet(f, T) = f[x] + SumFunctionOnSet(f, T \ {x})
  <2>1. IsFiniteSet(T) /\ \A x \in T : f[x] \in Nat
      BY FS_Subset
  <2>2. \A x \in T : f[x] \in Int
      BY <2>1
  <2> QED
      BY <2>1, <2>2, SumBounds, SumBegins, SumRemoves
<1>4. ASSUME NEW k \in 0..n PROVE taken(k) \in SUBSET S
  <2>1. ASSUME NEW j \in 1..k PROVE j \in 1..n
      OBVIOUS
  <2> QED
      BY <1>1, <2>1
<1>5. covers(0)
  <2>1. taken(0) = {}
      OBVIOUS
  <2>2. SumFunctionOnSet(f, taken(0)) = 0
      BY <1>3, <1>4, <2>1
  <2>3. \A j \in 1..0 : left[j - 1] > 0
      OBVIOUS
  <2> HIDE DEF taken
  <2> QED
      BY <2>2, <2>3
<1>6. ASSUME NEW k \in 1..n, covers(k - 1) PROVE covers(k)
  <2> DEFINE x == order[k]
  <2>1. /\ k - 1 \in 0..n /\ k \in 0..n /\ x \in S /\ f[x] \in Nat
        /\ left[k - 1] \in Nat /\ left[k] \in Nat /\ left[k - 1] <= amount
      BY <1>1
  <2>2. left[k] = IF f[x] <= left[k - 1] THEN left[k - 1] - f[x] ELSE 0
      OBVIOUS
  <2>3. SumFunctionOnSet(f, taken(k - 1)) \in Nat /\ SumFunctionOnSet(f, taken(k)) \in Nat
      BY <1>3, <1>4, <2>1
  <2>4. CASE left[k - 1] > 0
    <3>1. hit(k) = hit(k - 1) \cup {k}
        BY <2>4
    <3>2. x \notin taken(k - 1)
      <4>1. ASSUME NEW j \in 1..(k - 1) PROVE j \in 1..n /\ j # k
          OBVIOUS
      <4> QED
          BY <1>1, <4>1
    <3>3. taken(k) = taken(k - 1) \cup {x}
        BY <3>1
    <3>4. x \in taken(k) /\ taken(k) \ {x} = taken(k - 1)
        BY <3>2, <3>3
    <3>5. \A j \in 1..k : left[j - 1] > 0
      <4>1. \A j \in 1..(k - 1) : left[j - 1] > 0
          BY <1>6, <2>4
      <4>2. \A j \in 1..k : j \in 1..(k - 1) \/ j = k
          OBVIOUS
      <4> QED
          BY <2>4, <4>1, <4>2
    <3> HIDE DEF taken, x, hit
    <3>6. SumFunctionOnSet(f, taken(k)) = f[x] + SumFunctionOnSet(f, taken(k - 1))
      <4>1. taken(k) \in SUBSET S
          BY <1>4, <2>1
      <4>2. SumFunctionOnSet(f, taken(k)) = f[x] + SumFunctionOnSet(f, taken(k) \ {x})
          BY <1>3, <3>4, <4>1
      <4> QED
          BY <3>4, <4>2
    <3>7. SumFunctionOnSet(f, taken(k - 1)) >= amount - left[k - 1]
        BY <1>6
    <3>8. SumFunctionOnSet(f, taken(k)) >= amount - left[k]
        BY <2>1, <2>2, <2>3, <3>6, <3>7
    <3> QED
        BY <3>5, <3>8
  <2>5. CASE ~(left[k - 1] > 0)
    <3>1. left[k - 1] = 0 /\ left[k] = 0
        BY <2>1, <2>2, <2>5
    <3>2. hit(k) = hit(k - 1)
      <4>1. \A j \in 1..k : j \in 1..(k - 1) \/ j = k
          OBVIOUS
      <4>2. \A j \in 1..(k - 1) : j \in 1..k
          OBVIOUS
      <4>3. ASSUME NEW j \in hit(k) PROVE j \in 1..(k - 1) /\ left[j - 1] > 0
          BY <2>5, <4>1
      <4> QED
          BY <4>2, <4>3
    <3>3. taken(k) = taken(k - 1)
        BY <3>2
    <3> HIDE DEF taken, x, hit
    <3>4. SumFunctionOnSet(f, taken(k)) >= amount - left[k]
        BY <1>6, <3>1, <3>3
    <3> QED
        BY <3>1, <3>4
  <2> QED
      BY <2>4, <2>5
<1>7. ASSUME bad # {} PROVE FALSE
  <2>1. bad \subseteq Nat
      OBVIOUS
  <2>2. PICK m \in bad : \A k \in bad : m <= k
      BY <1>7, <2>1, LeastExists
  <2>3. m \in 0..n /\ ~covers(m)
      BY <2>2
  <2>4. m # 0
      BY <1>5, <2>3
  <2> HIDE DEF covers
  <2>5. m - 1 \in 0..n /\ m \in 1..n /\ m - 1 \notin bad
      BY <2>2, <2>3, <2>4
  <2> QED
      BY <1>6, <2>3, <2>5
<1>8. covers(n) /\ taken(n) \in SUBSET S /\ left[n] \in Nat
  <2>1. n \in 0..n
      OBVIOUS
  <2>2. taken(n) \in SUBSET S /\ left[n] \in Nat
      BY <1>2, <1>4, <2>1
  <2> HIDE DEF covers
  <2>3. covers(n)
      BY <1>7, <2>1
  <2> QED
      BY <2>2, <2>3
<1>9. CASE left[n] = 0
  <2>1. SumFunctionOnSet(f, taken(n)) >= amount - 0
      BY <1>8, <1>9
  <2> HIDE DEF taken
  <2>2. SumFunctionOnSet(f, taken(n)) >= amount
      BY <2>1
  <2> QED
      BY <2>2 DEF taken, Taken
<1>10. CASE left[n] # 0
  <2>1. \A j \in 1..n : left[j - 1] > 0
      BY <1>8, <1>10
  <2>2. S \subseteq taken(n)
      BY <1>1, <2>1
  <2> QED
      BY <2>2 DEF Taken
<1> QED
    BY <1>9, <1>10

\* A refund plans to take from the invoices it reverses what its payment allocates to
\* them, enough for its amount or everything.
LEMMA CreateRefundAddsUp ==
  ASSUME MoneyInv, IInv', NEW w \in Workers, NEW p \in Payments, NEW amount \in Amounts,
         NEW order \in LargestFirst(p), NEW left \in [0..Cardinality(active[p]) -> 0..amount],
         CreateRefund(w, p, amount, order, left)
  PROVE  MoneyInv'
<1> DEFINE n == Cardinality(active[p])
           nth(i) == CHOOSE k \in 1..n : order[k] = i
           taken == Taken(order, left, n)
           back(i) == left[nth(i) - 1] - left[nth(i)]
           header == IF refunded[p] + amount >= payment[p].amount
                     THEN [payment[p] EXCEPT !.status = "REFUNDED",
                                             !.version = payment[p].version + 1]
                     ELSE AbsentPayment
           t == [Idle EXCEPT !.op = "reverse", !.pay = p,
                   !.rows = [i \in taken |-> RefundedRow(invoice[i], alloc[p][i], back(i))],
                   !.header = header, !.reverse = taken, !.refund = amount]
<1>1. /\ payment[p].status = "CAPTURED" /\ left[0] = amount
      /\ \A k \in 1..n : left[k] = IF alloc[p][order[k]] <= left[k - 1]
                                   THEN left[k - 1] - alloc[p][order[k]] ELSE 0
      /\ Open(w, t)
    BY DEF CreateRefund, Taken
<1>2. /\ payment[p] \in PaymentRow /\ active[p] \in SUBSET Invoices /\ alloc[p] \in [Invoices -> Nat]
      /\ refunded[p] \in Nat /\ amount \in Nat
      /\ \A i \in active[p] : ~MayHoldNothing(invoice[i])
    BY <1>1, RowsRead, MoneyAssumption
<1>3. IsFiniteSet(active[p]) /\ n \in Nat
    BY <1>2, FiniteAssumption, FS_Subset, FS_CardinalityType
<1>4. order \in Bijection(1..n, active[p]) /\ taken \in SUBSET active[p]
  <2>1. order \in Bijection(1..n, active[p])
      BY DEF LargestFirst
  <2>2. order \in [1..n -> active[p]]
      BY <2>1 DEF Bijection, Injection
  <2> QED
      BY <2>1, <2>2 DEF Taken
<1>5. SumFunctionOnSet(alloc[p], taken) >= amount \/ active[p] \subseteq taken
  <2>1. \A i \in active[p] : alloc[p][i] \in Nat
      BY <1>2
  <2>2. left \in [0..n -> 0..amount]
      OBVIOUS
  <2> HIDE DEF n
  <2> QED
      BY <1>1, <1>2, <1>3, <1>4, <2>1, <2>2, EnoughOrAll
<1>6. header # AbsentPayment => /\ header.status = "REFUNDED" /\ header.amount = payment[p].amount
                                /\ refunded[p] + amount >= payment[p].amount
    BY <1>2 DEF PaymentRow
<1>7. header.status = "REFUNDED" => header # AbsentPayment
    BY DEF AbsentPayment
<1> HIDE DEF header, taken, back
<1>8. /\ t.op = "reverse" /\ t.pay = p /\ t.header = header /\ t.receipt = "NONE"
      /\ t.reverse = taken /\ t.refund = amount /\ DOMAIN t.rows = taken
      /\ \A i \in DOMAIN t.rows : t.rows[i] = RefundedRow(invoice[i], alloc[p][i], back(i))
    BY DEF Idle
<1> HIDE DEF t
<1>9. ASSUME NEW i \in taken
      PROVE  /\ RefundedRow(invoice[i], alloc[p][i], back(i)).paid = invoice[i].paid + (0 - alloc[p][i])
             /\ ~MayHoldNothing(RefundedRow(invoice[i], alloc[p][i], back(i)))
  <2>1. invoice[i] \in InvoiceRow /\ invoice[i].paid \in Nat /\ alloc[p][i] \in Nat
        /\ ~MayHoldNothing(invoice[i])
      BY <1>2, <1>4, RowsRead
  <2>2. /\ RefundedRow(invoice[i], alloc[p][i], back(i)).paid = invoice[i].paid - alloc[p][i]
        /\ ~MayHoldNothing(RefundedRow(invoice[i], alloc[p][i], back(i)))
      BY <2>1, ReversedRowAddsUp
  <2> QED
      BY <2>1, <2>2
<1>10. PlannedAmounts(t)
    BY <1>8, <1>9 DEF PlannedAmounts, Change
<1>11. AmountIsKept(t)
    BY <1>1, <1>6, <1>8 DEF AmountIsKept
<1>12. RefundIsCovered(t)
    BY <1>2, <1>4, <1>5, <1>6, <1>7, <1>8 DEF RefundIsCovered
<1>13. PlannedMoney(t)
    BY <1>8, <1>10, <1>11, <1>12 DEF PlannedMoney
<1> QED
    BY <1>1, <1>13, OpenKeepsMoney

\* Every request about a payment plans changes that add up.
LEMMA PaymentRequestAddsUp ==
  ASSUME MoneyInv, IInv', NEW w \in Workers, PaymentRequest(w)
  PROVE  MoneyInv'
    BY CaptureAddsUp, VerifyAddsUp, RejectAddsUp, CancelReceiptAddsUp, CreateRefundAddsUp
       DEF PaymentRequest

-----------------------------------------------------------------------------
(* The end of a transaction                                                *)

\* What a commit of t does to its payment p, in each of the four kinds there are.
Captures(t, p) ==
  /\ payment[p].status = "ABSENT" /\ refunded'[p] = 0
  /\ payment'[p] = t.header /\ t.header.status \in {"PENDING", "CAPTURED"}
  /\ alloc'[p] = t.alloc /\ active'[p] = {i \in Invoices : t.alloc[i] > 0}
  /\ CaptureIsComplete(t)

Settles(t, p) ==
  /\ payment[p].status = "PENDING" /\ refunded'[p] = refunded[p]
  /\ payment'[p] = t.header /\ t.header.status \in {"CAPTURED", "FAILED"}
  /\ t.header.amount = payment[p].amount
  /\ alloc'[p] = alloc[p] /\ active'[p] = active[p]
  /\ DOMAIN t.rows = IF t.header.status = "CAPTURED" THEN active[p] ELSE {}

Cancels(t, p) ==
  /\ payment[p].status \in {"CAPTURED", "REFUNDED"} /\ payment'[p].status = "CANCELLED"
  /\ alloc'[p] = alloc[p] /\ active'[p] = {}
  /\ DOMAIN t.rows = active[p]

Refunds(t, p) ==
  /\ payment[p].status \in {"CAPTURED", "REFUNDED"}
  /\ payment'[p].status \in {"CAPTURED", "REFUNDED"} /\ payment'[p].amount = payment[p].amount
  /\ t.refund > 0 /\ refunded'[p] = refunded[p] + t.refund
  /\ alloc'[p] = alloc[p] /\ active'[p] = active[p] \ DOMAIN t.rows
  /\ DOMAIN t.rows \subseteq active[p]
  /\ \/ SumFunctionOnSet(alloc[p], DOMAIN t.rows) >= t.refund
     \/ active[p] \subseteq DOMAIN t.rows
  /\ payment'[p].status = "REFUNDED" =>
       payment[p].status = "REFUNDED" \/ refunded'[p] >= payment[p].amount

\* A commit changes the payment it is about in one of these ways and no other.
LEMMA CommitKinds ==
  ASSUME MoneyInv, NEW w \in Workers, Commit(w)
  PROVE  LET t == txn[w]
         IN  /\ IsTxn(t) /\ PlannedMoney(t) /\ RowsFresh(t)
             /\ \A i \in Invoices : invoice'[i] = IF i \in DOMAIN t.rows THEN t.rows[i] ELSE invoice[i]
             /\ \A p \in Payments : p # t.pay =>
                  /\ payment'[p] = payment[p] /\ active'[p] = active[p]
                  /\ refunded'[p] = refunded[p] /\ alloc'[p] = alloc[p]
             /\ \/ t.pay = NoPayment /\ t.op \in {"generate", "update"}
                \/ /\ t.pay \in Payments
                   /\ \/ t.op = "capture" /\ Captures(t, t.pay)
                      \/ t.op = "settle" /\ Settles(t, t.pay)
                      \/ t.op = "reverse" /\ Cancels(t, t.pay)
                      \/ t.op = "reverse" /\ Refunds(t, t.pay)
<1> DEFINE t == txn[w]
           p == t.pay
<1>1. /\ t.op # "idle" /\ IsTxn(t) /\ PlannedPayment(t) /\ RowsFresh(t)
      /\ t.header # AbsentPayment => HeaderFresh(t)
      /\ \A i \in Invoices : invoice'[i] = IF i \in DOMAIN t.rows THEN t.rows[i] ELSE invoice[i]
      /\ \A q \in Payments :
           /\ payment'[q] = IF q = t.pay /\ t.header # AbsentPayment THEN t.header ELSE payment[q]
           /\ active'[q] = IF q # t.pay THEN active[q]
                           ELSE IF t.op = "capture" THEN {i \in Invoices : t.alloc[i] > 0}
                           ELSE active[q] \ t.reverse
           /\ receipt'[q] = IF q = t.pay /\ t.receipt # "NONE" THEN t.receipt ELSE receipt[q]
           /\ refunded'[q] = IF q = t.pay THEN refunded[q] + t.refund ELSE refunded[q]
    BY CommitEffect DEF MoneyInv
<1>2. /\ \A q \in Payments : alloc'[q] = IF q = t.pay /\ t.op = "capture" THEN t.alloc ELSE alloc[q]
      /\ t.receipt = "CANCELLED" => receipt[t.pay] = "ISSUED"
    BY DEF Commit, VersionsMatch
<1>3. PlannedMoney(t)
    BY DEF MoneyInv
<1>4. \A q \in Payments :
        /\ refunded[q] \in Nat
        /\ payment[q].status \in {"ABSENT", "PENDING", "FAILED"} => refunded[q] = 0
        /\ receipt[q] = "ISSUED" => payment[q].status \in {"CAPTURED", "REFUNDED"}
    BY DEF MoneyInv, IInv, TypeOK, Proved, ReceiptMatchesPayment, PlansHold, RowsSound
<1> HIDE DEF t
<1>5. CASE p = NoPayment
  <2>1. t.op \in {"generate", "update"}
      BY <1>1, <1>5 DEF PlannedPayment
  <2> QED
      BY <1>1, <1>2, <1>3, <1>5, <2>1 DEF t
<1>6. CASE p \in Payments /\ t.op = "capture"
  <2>1. PlannedCapture(t) /\ CaptureIsComplete(t)
      BY <1>1, <1>3, <1>6 DEF PlannedPayment, PlannedMoney
  <2>2. t.header # AbsentPayment
      BY <2>1 DEF PlannedCapture, AbsentPayment
  <2>3. payment[p].status = "ABSENT" /\ t.header.status \in {"PENDING", "CAPTURED"} /\ t.refund = 0
      BY <1>1, <2>1, <2>2 DEF PlannedCapture
  <2>4. payment'[p] = t.header /\ active'[p] = {i \in Invoices : t.alloc[i] > 0}
        /\ alloc'[p] = t.alloc
      BY <1>1, <1>2, <1>6, <2>2
  <2>5. refunded'[p] = 0
    <3>1. refunded'[p] = refunded[p] + t.refund
        BY <1>1, <1>6
    <3>2. refunded[p] = 0
        BY <1>4, <1>6, <2>3
    <3> QED
        BY <2>3, <3>1, <3>2
  <2>6. Captures(t, p)
      BY <2>1, <2>3, <2>4, <2>5 DEF Captures
  <2> QED
      BY <1>1, <1>2, <1>3, <1>6, <2>6 DEF t
<1>7. CASE p \in Payments /\ t.op = "settle"
  <2>1. PlannedSettlement(t) /\ AmountIsKept(t) /\ SettlementIsComplete(t)
      BY <1>1, <1>3, <1>7 DEF PlannedPayment, PlannedMoney
  <2>2. t.header # AbsentPayment
      BY <2>1 DEF PlannedSettlement, AbsentPayment
  <2>3. /\ payment[p].status = "PENDING" /\ t.header.status \in {"CAPTURED", "FAILED"}
        /\ t.refund = 0 /\ t.reverse = {} /\ t.header.amount = payment[p].amount
        /\ DOMAIN t.rows = IF t.header.status = "CAPTURED" THEN active[p] ELSE {}
      BY <1>1, <2>1, <2>2 DEF PlannedSettlement, AmountIsKept, SettlementIsComplete
  <2>4. payment'[p] = t.header /\ active'[p] = active[p] /\ alloc'[p] = alloc[p]
        /\ refunded'[p] = refunded[p]
      BY <1>1, <1>2, <1>4, <1>7, <2>2, <2>3
  <2>5. Settles(t, p)
      BY <2>3, <2>4 DEF Settles
  <2> QED
      BY <1>1, <1>2, <1>3, <1>7, <2>5 DEF t
<1>8. CASE p \in Payments /\ t.op = "reverse" /\ t.receipt = "CANCELLED"
  <2>1. PlannedCancellation(t)
      BY <1>1, <1>8 DEF PlannedPayment
  <2>2. t.header # AbsentPayment
      BY <2>1 DEF PlannedCancellation, AbsentPayment
  <2>3. t.header.status = "CANCELLED" /\ t.reverse = active[p] /\ DOMAIN t.rows = active[p]
      BY <1>1, <2>1, <2>2 DEF PlannedCancellation
  <2>4. payment[p].status \in {"CAPTURED", "REFUNDED"}
      BY <1>2, <1>4, <1>8
  <2>5. payment'[p] = t.header /\ active'[p] = {} /\ alloc'[p] = alloc[p]
      BY <1>1, <1>2, <1>8, <2>2, <2>3
  <2>6. Cancels(t, p)
      BY <2>3, <2>4, <2>5 DEF Cancels
  <2> QED
      BY <1>1, <1>2, <1>3, <1>8, <2>6 DEF t
<1>9. CASE p \in Payments /\ t.op = "reverse" /\ t.receipt # "CANCELLED"
  <2>1. PlannedRefund(t) /\ AmountIsKept(t) /\ RefundIsCovered(t)
      BY <1>1, <1>3, <1>9 DEF PlannedPayment, PlannedMoney
  <2>2. /\ payment[p].status \in {"CAPTURED", "REFUNDED"} /\ t.refund > 0
        /\ t.reverse = DOMAIN t.rows /\ t.reverse \subseteq active[p]
      BY <1>1, <2>1 DEF PlannedRefund
  <2>3. active'[p] = active[p] \ t.reverse /\ alloc'[p] = alloc[p]
        /\ refunded'[p] = refunded[p] + t.refund
      BY <1>1, <1>2, <1>9
  <2>4. CASE t.header = AbsentPayment
    <3>1. payment'[p] = payment[p]
        BY <1>1, <1>9, <2>4
    <3>2. Refunds(t, p)
        BY <2>1, <2>2, <2>3, <3>1 DEF Refunds, RefundIsCovered
    <3> QED
        BY <1>1, <1>2, <1>3, <1>9, <3>2 DEF t
  <2>5. CASE t.header # AbsentPayment
    <3>1. payment'[p] = t.header /\ t.header.status = "REFUNDED" /\ t.header.amount = payment[p].amount
          /\ refunded[p] + t.refund >= t.header.amount
        BY <1>1, <1>9, <2>1, <2>5 DEF PlannedRefund, AmountIsKept, RefundIsCovered
    <3>2. Refunds(t, p)
        BY <2>1, <2>2, <2>3, <3>1 DEF Refunds, RefundIsCovered
    <3> QED
        BY <1>1, <1>2, <1>3, <1>9, <3>2 DEF t
  <2> QED
      BY <2>4, <2>5
<1>10. p \in Payments => t.op \in {"capture", "settle", "reverse"}
    BY <1>1, NullAssumption DEF PlannedPayment, IsTxn
<1>11. p \in Payments \cup {NoPayment}
    BY <1>1 DEF IsTxn
<1> QED
    BY <1>5, <1>6, <1>7, <1>8, <1>9, <1>10, <1>11

\* What is paid of an invoice moves by as much as what the payment holds of it.
LEMMA CommitKeepsPaid ==
  ASSUME MoneyInv, NEW w \in Workers, Commit(w)
  PROVE  PaidIsAllocated'
<1> SUFFICES ASSUME NEW i \in Invoices
             PROVE  invoice'[i].paid = SumFunction([p \in Payments |-> Held(p, i)'])
    BY DEF PaidIsAllocated
<1> DEFINE t == txn[w]
           held == [p \in Payments |-> Held(p, i)]
           after == [p \in Payments |-> Held(p, i)']
<1>1. /\ IsTxn(t) /\ PlannedAmounts(t) /\ RowsFresh(t)
      /\ invoice'[i] = IF i \in DOMAIN t.rows THEN t.rows[i] ELSE invoice[i]
      /\ \A p \in Payments : p # t.pay =>
           payment'[p] = payment[p] /\ active'[p] = active[p] /\ alloc'[p] = alloc[p]
      /\ \/ t.pay = NoPayment /\ t.op \in {"generate", "update"}
         \/ /\ t.pay \in Payments
            /\ \/ t.op = "capture" /\ Captures(t, t.pay)
               \/ t.op = "settle" /\ Settles(t, t.pay)
               \/ t.op = "reverse" /\ Cancels(t, t.pay)
               \/ t.op = "reverse" /\ Refunds(t, t.pay)
    BY CommitKinds DEF PlannedMoney
<1>2. /\ invoice[i].paid \in Int
      /\ t.alloc[i] \in Nat /\ \A p \in Payments : alloc[p][i] \in Nat /\ active[p] \subseteq Invoices
    BY <1>1 DEF MoneyInv, IInv, TypeOK, InvoiceRow, IsTxn
<1>3. i \in DOMAIN t.rows => invoice'[i].paid = invoice[i].paid + Change(t, i)
    BY <1>1 DEF PlannedAmounts, RowsFresh
<1>4. /\ DOMAIN held = Payments /\ DOMAIN after = Payments
      /\ \A p \in Payments : held[p] = Held(p, i) /\ after[p] = Held(p, i)'
      /\ \A p \in Payments : held[p] \in Nat
    BY <1>2 DEF Held
<1>5. invoice[i].paid = SumFunctionOnSet(held, Payments)
    BY DEF MoneyInv, PaidIsAllocated, SumFunction
<1>6. \A p \in Payments : p # t.pay => after[p] = held[p]
    BY <1>1 DEF Held
<1> HIDE DEF t, held, after
<1>7. CASE t.pay = NoPayment
  <2>1. \A p \in Payments : held[p] \in Int /\ after[p] = held[p]
      BY <1>4, <1>6, <1>7, NullAssumption
  <2>2. SumFunctionOnSet(after, Payments) = SumFunctionOnSet(held, Payments)
      BY <2>1, FiniteAssumption, SumsAgree
  <2>3. t.op \in {"generate", "update"}
      BY <1>1, <1>7, NullAssumption
  <2>4. invoice'[i].paid = invoice[i].paid
      BY <1>1, <1>2, <1>3, <2>3 DEF Change
  <2> QED
      BY <1>4, <1>5, <2>2, <2>4 DEF SumFunction, after
<1>8. CASE t.pay \in Payments
  <2> DEFINE p == t.pay
  <2>1. held[p] = (IF payment[p].status \in {"CAPTURED", "REFUNDED"} /\ i \in active[p]
                   THEN alloc[p][i] ELSE 0)
        /\ after[p] = (IF payment'[p].status \in {"CAPTURED", "REFUNDED"} /\ i \in active'[p]
                       THEN alloc'[p][i] ELSE 0)
      BY <1>4, <1>8 DEF Held
  <2>2. alloc[p][i] \in Nat /\ held[p] \in Nat
      BY <1>2, <1>4, <1>8
  <2>3. after[p] \in Int /\ invoice'[i].paid = invoice[i].paid + (after[p] - held[p])
    <3>1. CASE t.op = "capture" /\ Captures(t, p)
      <4>1. held[p] = 0
          BY <2>1, <3>1 DEF Captures
      <4>2. after[p] = IF t.header.status = "CAPTURED" /\ t.alloc[i] > 0 THEN t.alloc[i] ELSE 0
          BY <2>1, <3>1 DEF Captures
      <4>3. i \in DOMAIN t.rows <=> t.header.status = "CAPTURED" /\ t.alloc[i] > 0
          BY <3>1 DEF Captures, CaptureIsComplete
      <4>4. Change(t, i) = t.alloc[i]
          BY <3>1 DEF Change
      <4> QED
          BY <1>1, <1>2, <1>3, <4>1, <4>2, <4>3, <4>4
    <3>2. CASE t.op = "settle" /\ Settles(t, p)
      <4>1. held[p] = 0
          BY <2>1, <3>2 DEF Settles
      <4>2. after[p] = IF t.header.status = "CAPTURED" /\ i \in active[p] THEN alloc[p][i] ELSE 0
          BY <2>1, <3>2 DEF Settles
      <4>3. i \in DOMAIN t.rows <=> t.header.status = "CAPTURED" /\ i \in active[p]
          BY <3>2 DEF Settles
      <4>4. Change(t, i) = alloc[p][i]
          BY <3>2 DEF Change
      <4> QED
          BY <1>1, <1>2, <1>3, <2>2, <4>1, <4>2, <4>3, <4>4
    <3>3. CASE t.op = "reverse" /\ Cancels(t, p)
      <4>1. held[p] = IF i \in active[p] THEN alloc[p][i] ELSE 0
          BY <2>1, <3>3 DEF Cancels
      <4>2. after[p] = 0
          BY <2>1, <3>3 DEF Cancels
      <4>3. i \in DOMAIN t.rows <=> i \in active[p]
          BY <3>3 DEF Cancels
      <4>4. Change(t, i) = 0 - alloc[p][i]
          BY <3>3 DEF Change
      <4> QED
          BY <1>1, <1>2, <1>3, <2>2, <4>1, <4>2, <4>3, <4>4
    <3>4. CASE t.op = "reverse" /\ Refunds(t, p)
      <4>1. held[p] = IF i \in active[p] THEN alloc[p][i] ELSE 0
          BY <2>1, <3>4 DEF Refunds
      <4>2. after[p] = IF i \in active[p] /\ i \notin DOMAIN t.rows THEN alloc[p][i] ELSE 0
          BY <2>1, <3>4 DEF Refunds
      <4>3. i \in DOMAIN t.rows => i \in active[p]
          BY <3>4 DEF Refunds
      <4>4. Change(t, i) = 0 - alloc[p][i]
          BY <3>4 DEF Change
      <4> QED
          BY <1>1, <1>2, <1>3, <2>2, <4>1, <4>2, <4>3, <4>4
    <3> QED
        BY <1>1, <1>8, <3>1, <3>2, <3>3, <3>4, NullAssumption
  <2>4. \A q \in Payments : held[q] \in Int /\ (q # p => after[q] = held[q])
      BY <1>4, <1>6
  <2> HIDE DEF p
  <2>5. p \in Payments
      BY <1>8 DEF p
  <2>6. SumFunctionOnSet(after, Payments) = SumFunctionOnSet(held, Payments) + (after[p] - held[p])
      BY <2>3, <2>4, <2>5, FiniteAssumption, SumChanges
  <2> QED
      BY <1>4, <1>5, <2>3, <2>6 DEF SumFunction, after
<1> QED
    BY <1>1, <1>7, <1>8

\* No commit leaves money on an invoice that may hold none.
LEMMA CommitKeepsUnpaid ==
  ASSUME MoneyInv, NEW w \in Workers, Commit(w)
  PROVE  UnpaidRows'
<1>1. /\ PlannedAmounts(txn[w])
      /\ \A i \in Invoices : invoice'[i] = IF i \in DOMAIN txn[w].rows THEN txn[w].rows[i] ELSE invoice[i]
    BY CommitKinds DEF PlannedMoney
<1>2. UnpaidRows
    BY DEF MoneyInv
<1> QED
    BY <1>1, <1>2 DEF UnpaidRows, PlannedAmounts, MayHoldNothing

\* What a payment allocates covers no more than what was not given back, after a commit.
LEMMA CommitKeepsCover ==
  ASSUME MoneyInv, NEW w \in Workers, Commit(w), NEW p \in Payments
  PROVE  AllocationsCover(p)'
<1> DEFINE t == txn[w]
<1>1. /\ IsTxn(t)
      /\ p # t.pay => /\ payment'[p] = payment[p] /\ active'[p] = active[p]
                      /\ refunded'[p] = refunded[p] /\ alloc'[p] = alloc[p]
      /\ p = t.pay => Captures(t, p) \/ Settles(t, p) \/ Cancels(t, p) \/ Refunds(t, p)
    BY CommitKinds, NullAssumption
<1>2. AllocationsCover(p)
    BY DEF MoneyInv
<1>3. /\ payment[p].amount \in Nat /\ refunded[p] \in Nat /\ active[p] \in SUBSET Invoices
      /\ alloc[p] \in [Invoices -> Nat] /\ t.refund \in Nat /\ t.alloc \in [Invoices -> Nat]
    BY <1>1 DEF MoneyInv, IInv, TypeOK, PaymentRow, IsTxn
<1> HIDE DEF t
<1>4. CASE p # t.pay
    BY <1>1, <1>2, <1>4 DEF AllocationsCover
<1>5. CASE Captures(t, p)
  <2> DEFINE S == {i \in Invoices : t.alloc[i] > 0}
  <2>1. \A x \in Invoices : t.alloc[x] \in Int /\ (x \notin S => t.alloc[x] = 0)
      BY <1>3
  <2>2. SumFunctionOnSet(t.alloc, Invoices) = SumFunctionOnSet(t.alloc, S)
    <3>1. S \in SUBSET Invoices
        OBVIOUS
    <3> HIDE DEF S
    <3> QED
        BY <2>1, <3>1, FiniteAssumption, SumRestricts
  <2>3. active'[p] = S /\ alloc'[p] = t.alloc /\ payment'[p] = t.header /\ refunded'[p] = 0
        /\ t.header.status \in {"PENDING", "CAPTURED"}
        /\ SumFunctionOnSet(t.alloc, Invoices) = t.header.amount
      BY <1>5 DEF Captures, CaptureIsComplete
  <2>4. \A i \in active'[p] : alloc'[p][i] > 0
      BY <2>3
  <2>5. t.header.amount \in Nat
      BY <1>1 DEF IsTxn, PaymentRow
  <2> HIDE DEF S
  <2>6. SumFunctionOnSet(alloc'[p], active'[p]) = payment'[p].amount
      BY <2>2, <2>3
  <2>7. SumFunctionOnSet(alloc'[p], active'[p]) <= payment'[p].amount - refunded'[p]
      BY <2>3, <2>5, <2>6
  <2> QED
      BY <2>3, <2>4, <2>6, <2>7 DEF AllocationsCover
<1>6. CASE Settles(t, p)
    BY <1>2, <1>6 DEF Settles, AllocationsCover
<1>7. CASE Cancels(t, p)
    BY <1>7 DEF Cancels, AllocationsCover
<1>8. CASE Refunds(t, p)
  <2> DEFINE A == active[p]
             R == DOMAIN t.rows
             rest == SumFunctionOnSet(alloc[p], A \ R)
             back == SumFunctionOnSet(alloc[p], R)
  <2>1. /\ R \in SUBSET A /\ active'[p] = A \ R /\ alloc'[p] = alloc[p]
        /\ refunded'[p] = refunded[p] + t.refund /\ t.refund > 0
        /\ payment[p].status \in {"CAPTURED", "REFUNDED"}
        /\ payment'[p].status \in {"CAPTURED", "REFUNDED"} /\ payment'[p].amount = payment[p].amount
        /\ back >= t.refund \/ A \subseteq R
        /\ payment'[p].status = "REFUNDED" =>
             payment[p].status = "REFUNDED" \/ refunded'[p] >= payment[p].amount
      BY <1>8 DEF Refunds
  <2>2. /\ IsFiniteSet(A) /\ IsFiniteSet(R) /\ IsFiniteSet(A \ R)
        /\ \A x \in A : alloc[p][x] \in Int
      BY <1>3, <2>1, FiniteAssumption, FS_Subset
  <2>3. SumFunctionOnSet(alloc[p], A) = back + rest
    <3> HIDE DEF A, R
    <3> QED
        BY <2>1, <2>2, SumSplits
  <2>4. back \in Int /\ rest \in Int
    <3> HIDE DEF A, R
    <3>1. \A x \in R : alloc[p][x] \in Int
        BY <2>1, <2>2
    <3>2. \A x \in A \ R : alloc[p][x] \in Int
        BY <2>2
    <3>3. back \in Int
        BY <2>2, <3>1, SumBegins
    <3>4. rest \in Int
        BY <2>2, <3>2, SumBegins
    <3> QED
        BY <3>3, <3>4
  <2>5. active'[p] = {} \/ rest <= payment'[p].amount - refunded'[p]
    <3>1. CASE A \subseteq R
        BY <2>1, <3>1
    <3>2. CASE ~(A \subseteq R)
      <4>1. SumFunctionOnSet(alloc[p], A) <= payment[p].amount - refunded[p]
          BY <1>2, <2>1, <3>2 DEF AllocationsCover
      <4>2. back >= t.refund
          BY <2>1, <3>2
      <4> HIDE DEF back, rest
      <4>3. rest <= payment[p].amount - (refunded[p] + t.refund)
          BY <1>3, <2>3, <2>4, <4>1, <4>2
      <4> QED
          BY <2>1, <4>3
    <3> QED
        BY <3>1, <3>2
  <2>6. \A i \in active'[p] : alloc'[p][i] > 0
      BY <1>2, <2>1 DEF AllocationsCover
  <2>7. refunded'[p] # 0
      BY <1>3, <2>1
  <2>8. payment'[p].status = "REFUNDED" => refunded'[p] >= payment'[p].amount
      BY <1>2, <1>3, <2>1 DEF AllocationsCover
  <2>9. SumFunctionOnSet(alloc'[p], active'[p]) = rest
      BY <2>1
  <2> HIDE DEF A, R, back, rest
  <2> QED
      BY <2>1, <2>5, <2>6, <2>7, <2>8, <2>9 DEF AllocationsCover
<1> QED
    BY <1>1, <1>4, <1>5, <1>6, <1>7, <1>8

\* Another open plan u still adds up after a commit.
LEMMA CommitKeepsMoneyPlan ==
  ASSUME MoneyInv, NEW w \in Workers, Commit(w),
         NEW u, IsTxn(u), PlannedRows(u), PlannedPayment(u), PlannedMoney(u)
  PROVE  PlannedMoney(u)'
<1> DEFINE t == txn[w]
           p == u.pay
<1>1. /\ IsTxn(t) /\ RowsFresh(t)
      /\ \A i \in Invoices : invoice'[i] = IF i \in DOMAIN t.rows THEN t.rows[i] ELSE invoice[i]
      /\ \A q \in Payments :
           /\ q # t.pay => /\ payment'[q] = payment[q] /\ active'[q] = active[q]
                           /\ refunded'[q] = refunded[q] /\ alloc'[q] = alloc[q]
           /\ q = t.pay => Captures(t, q) \/ Settles(t, q) \/ Cancels(t, q) \/ Refunds(t, q)
    BY CommitKinds, NullAssumption
<1>2. /\ t.header # AbsentPayment => HeaderFresh(t)
      /\ \A q \in Payments :
           /\ payment'[q] = IF q = t.pay /\ t.header # AbsentPayment THEN t.header ELSE payment[q]
           /\ refunded'[q] = IF q = t.pay THEN refunded[q] + t.refund ELSE refunded[q]
    BY CommitEffect DEF MoneyInv
<1>3. TypeOK
    BY DEF MoneyInv, IInv
<1> HIDE DEF t
<1>4. ASSUME NEW i \in DOMAIN u.rows, RowFresh(u, i)'
      PROVE  RowFresh(u, i) /\ invoice'[i] = invoice[i]
  <2>1. /\ i \in Invoices /\ u.rows[i].version \in Nat /\ invoice[i].version \in Nat
        /\ u.rows[i].version <= invoice[i].version + 1
      BY <1>3 DEF IsTxn, TypeOK, InvoiceRow, PlannedRows
  <2>2. i \in DOMAIN t.rows => invoice'[i].version = invoice[i].version + 1
      BY <1>1, <2>1 DEF RowsFresh, RowFresh
  <2> QED
      BY <1>1, <1>4, <2>1, <2>2 DEF RowFresh
<1>5. u.op \in {"settle", "reverse"} => p \in Payments /\ payment[p].status # "ABSENT"
    BY DEF PlannedPayment, PlannedMoney, AmountIsKept, IsTxn
<1>6. u.op \in {"settle", "reverse"} =>
        /\ alloc'[p] = alloc[p] /\ active'[p] \subseteq active[p] /\ refunded'[p] >= refunded[p]
        /\ payment'[p].status # "ABSENT"
  <2> SUFFICES ASSUME u.op \in {"settle", "reverse"}
               PROVE  /\ alloc'[p] = alloc[p] /\ active'[p] \subseteq active[p]
                      /\ refunded'[p] >= refunded[p] /\ payment'[p].status # "ABSENT"
      OBVIOUS
  <2>1. refunded[p] \in Nat
      BY <1>3, <1>5 DEF TypeOK
  <2>2. CASE p # t.pay
      BY <1>1, <1>5, <2>1, <2>2
  <2>3. CASE p = t.pay /\ Settles(t, p)
      BY <2>1, <2>3 DEF Settles
  <2>4. CASE p = t.pay /\ Cancels(t, p)
    <3>1. refunded'[p] >= refunded[p]
      <4>1. t.refund \in Nat
          BY <1>1 DEF IsTxn
      <4>2. refunded'[p] = refunded[p] + t.refund
          BY <1>2, <1>5, <2>4
      <4> QED
          BY <2>1, <4>1, <4>2
    <3> QED
        BY <2>4, <3>1 DEF Cancels
  <2>5. CASE p = t.pay /\ Refunds(t, p)
    <3>1. t.refund \in Nat
        BY <1>1 DEF IsTxn
    <3> QED
        BY <2>1, <2>5, <3>1 DEF Refunds
  <2>6. CASE p = t.pay /\ Captures(t, p)
      BY <1>5, <2>6 DEF Captures
  <2> QED
      BY <1>1, <1>5, <2>2, <2>3, <2>4, <2>5, <2>6
<1>7. ASSUME p \in Payments, u.header.version <= payment[p].version + 1, HeaderFresh(u)'
      PROVE  HeaderFresh(u) /\ payment'[p] = payment[p]
  <2>1. payment[p].version \in Nat /\ u.header.version \in Nat
      BY <1>3, <1>7 DEF TypeOK, PaymentRow, IsTxn
  <2>2. CASE p = t.pay /\ t.header # AbsentPayment
    <3>1. payment'[p].version = payment[p].version + 1
        BY <1>2, <1>7, <2>2 DEF HeaderFresh
    <3> QED
        BY <1>7, <2>1, <3>1 DEF HeaderFresh
  <2>3. CASE ~(p = t.pay /\ t.header # AbsentPayment)
    <3>1. payment'[p] = payment[p]
        BY <1>2, <1>7, <2>3
    <3> QED
        BY <1>7, <3>1 DEF HeaderFresh
  <2> QED
      BY <2>2, <2>3
<1>8. PlannedAmounts(u)'
  <2>1. \A i \in DOMAIN u.rows : Change(u, i)' = Change(u, i)
      BY <1>6 DEF Change
  <2> QED
      BY <1>4, <2>1 DEF PlannedMoney, PlannedAmounts, MayHoldNothing
<1>9. u.op = "capture" => CaptureIsComplete(u)'
    BY DEF PlannedMoney, CaptureIsComplete
<1>10. u.op \in {"settle", "reverse"} => AmountIsKept(u)'
  <2> SUFFICES ASSUME u.op \in {"settle", "reverse"} PROVE AmountIsKept(u)'
      OBVIOUS
  <2>1. AmountIsKept(u)
      BY DEF PlannedMoney
  <2>2. u.header # AbsentPayment => u.header.version <= payment[p].version + 1
      BY DEF PlannedPayment, PlannedSettlement, PlannedCancellation, PlannedRefund
  <2> QED
      BY <1>5, <1>6, <1>7, <2>1, <2>2 DEF AmountIsKept
<1>11. u.op = "settle" => SettlementIsComplete(u)'
  <2> SUFFICES ASSUME u.op = "settle", HeaderFresh(u)'
               PROVE  DOMAIN u.rows = IF u.header.status = "CAPTURED" THEN active'[p] ELSE {}
      BY DEF SettlementIsComplete
  <2>1. SettlementIsComplete(u) /\ PlannedSettlement(u)
      BY DEF PlannedMoney, PlannedPayment
  <2>2. HeaderFresh(u) /\ payment[p].status = "PENDING"
      BY <1>5, <1>7, <2>1 DEF PlannedSettlement
  <2>3. active'[p] = active[p]
      BY <1>1, <1>5, <2>2 DEF Captures, Settles, Cancels, Refunds
  <2> QED
      BY <2>1, <2>2, <2>3 DEF SettlementIsComplete
<1>12. u.op = "reverse" /\ u.receipt # "CANCELLED" => RefundIsCovered(u)'
  <2> SUFFICES ASSUME u.op = "reverse", u.receipt # "CANCELLED" PROVE RefundIsCovered(u)'
      OBVIOUS
  <2>1. RefundIsCovered(u)
      BY DEF PlannedMoney
  <2>2. /\ refunded[p] \in Nat /\ refunded'[p] \in Nat /\ u.refund \in Nat /\ u.header.amount \in Nat
      BY <1>3, <1>5, CommitTypes DEF MoneyInv, TypeOK, IsTxn, PaymentRow
  <2>3. alloc'[p] = alloc[p] /\ active'[p] \subseteq active[p] /\ refunded'[p] >= refunded[p]
      BY <1>6
  <2>4. u.header.status = "REFUNDED" => refunded'[p] + u.refund >= u.header.amount
      BY <2>1, <2>2, <2>3 DEF RefundIsCovered
  <2> QED
      BY <2>1, <2>3, <2>4 DEF RefundIsCovered
<1> QED
    BY <1>8, <1>9, <1>10, <1>11, <1>12 DEF PlannedMoney

\* A commit keeps the money adding up.
LEMMA CommitAddsUp ==
  ASSUME MoneyInv, IInv', NEW w \in Workers, Commit(w)
  PROVE  MoneyInv'
<1>1. PaidIsAllocated' /\ UnpaidRows' /\ \A p \in Payments : AllocationsCover(p)'
    BY CommitKeepsPaid, CommitKeepsUnpaid, CommitKeepsCover
<1>2. ASSUME NEW v \in Workers PROVE PlannedMoney(txn[v])'
  <2>1. txn'[v] = IF v = w THEN Idle ELSE txn[v]
      BY CommitEffect DEF MoneyInv
  <2>2. CASE v = w
      BY <2>1, <2>2 DEF PlannedMoney, PlannedAmounts, Idle
  <2>3. CASE v # w
    <3>1. PICK u : u = txn[v]
        OBVIOUS
    <3>2. IsTxn(u) /\ PlannedRows(u) /\ PlannedPayment(u) /\ PlannedMoney(u)
        BY <3>1 DEF MoneyInv, IInv, TypeOK, PlansHold
    <3>3. PlannedMoney(u)'
        BY <3>2, CommitKeepsMoneyPlan
    <3>4. txn'[v] = u
        BY <2>1, <2>3, <3>1
    <3> QED
        BY <3>3, <3>4 DEF PlannedMoney, PlannedAmounts, Change, CaptureIsComplete,
             SettlementIsComplete, RefundIsCovered, AmountIsKept, RowFresh, HeaderFresh, MayHoldNothing
  <2> QED
      BY <2>2, <2>3
<1> QED
    BY <1>1, <1>2 DEF MoneyInv

-----------------------------------------------------------------------------
(* The theorems                                                            *)

\* Every step keeps the money adding up.
LEMMA StepAddsUp == MoneyInv /\ IInv' /\ [Next]_vars => MoneyInv'
<1>1. ASSUME MoneyInv, IInv', Next PROVE MoneyInv'
    BY <1>1, InvoiceRequestAddsUp, PaymentRequestAddsUp, CommitAddsUp, RollbackKeepsMoney DEF Next
<1>2. ASSUME MoneyInv, IInv', UNCHANGED vars PROVE MoneyInv'
    BY <1>2 DEF vars, MoneyInv, PaidIsAllocated, Held, UnpaidRows, AllocationsCover, PlannedMoney,
         PlannedAmounts, Change, CaptureIsComplete, SettlementIsComplete, RefundIsCovered,
         AmountIsKept, RowFresh, HeaderFresh, MayHoldNothing
<1> QED
    BY <1>1, <1>2

\* The inductive invariant of the money holds in every reachable state.
THEOREM MoneyInvariantHolds == Spec => []MoneyInv
<1>1. MoneyInv => IInv
    BY DEF MoneyInv
<1>2. MoneyInv /\ [Next]_vars => MoneyInv'
    BY <1>1, StepKeeps, StepAddsUp
<1> QED
    BY <1>2, InitIsPaid, PTL DEF Spec

\* The paid column of every invoice is the sum of the allocations in force of captured
\* payments: no update is lost between captures, verifications, cancellations and refunds.
THEOREM PaidAlwaysAllocated == Spec => []PaidIsAllocated
<1>1. MoneyInv => PaidIsAllocated
    BY DEF MoneyInv
<1> QED
    BY <1>1, MoneyInvariantHolds, PTL

\* A void or deleted invoice holds no money of any payment.
THEOREM VoidNeverHoldsMoney == Spec => []VoidHoldsNoMoney
<1>1. ASSUME MoneyInv PROVE VoidHoldsNoMoney
  <2> SUFFICES ASSUME NEW i \in Invoices, invoice[i].status = "VOID" \/ invoice[i].deleted,
                      NEW p \in Payments
               PROVE  Held(p, i) = 0
      BY DEF VoidHoldsNoMoney
  <2>1. /\ invoice[i].paid \in Nat /\ Held(p, i) \in Nat /\ Held(p, i) <= invoice[i].paid
      BY <1>1, HeldIsPaid DEF MoneyInv, IInv
  <2>2. invoice[i].paid <= 0
      BY <1>1 DEF MoneyInv, UnpaidRows, MayHoldNothing
  <2> QED
      BY <2>1, <2>2
<1> QED
    BY <1>1, MoneyInvariantHolds, PTL

\* A payment undone or fully given back pays for nothing.
THEOREM SettledNeverHolds == Spec => []SettledHoldsNothing
<1>1. ASSUME MoneyInv PROVE SettledHoldsNothing
  <2> SUFFICES ASSUME NEW p \in Payments, payment[p].status = "REFUNDED"
               PROVE  active[p] = {}
      BY <1>1 DEF SettledHoldsNothing, MoneyInv, AllocationsCover
  <2>1. AllocationsCover(p)
      BY <1>1 DEF MoneyInv
  <2>2. /\ payment[p].amount \in Nat /\ refunded[p] \in Nat /\ active[p] \in SUBSET Invoices
        /\ alloc[p] \in [Invoices -> Nat]
      BY <1>1 DEF MoneyInv, IInv, TypeOK, PaymentRow
  <2>3. IsFiniteSet(active[p]) /\ \A i \in active[p] : alloc[p][i] \in Nat
      BY <2>2, FiniteAssumption, FS_Subset
  <2>4. /\ SumFunctionOnSet(alloc[p], active[p]) \in Nat
        /\ \A i \in active[p] : alloc[p][i] <= SumFunctionOnSet(alloc[p], active[p])
      BY <2>3, SumBounds
  <2>5. ASSUME active[p] # {} PROVE FALSE
    <3>1. SumFunctionOnSet(alloc[p], active[p]) <= payment[p].amount - refunded[p]
          /\ refunded[p] >= payment[p].amount
        BY <2>1, <2>5 DEF AllocationsCover
    <3>2. PICK i \in active[p] : alloc[p][i] > 0
        BY <2>1, <2>5 DEF AllocationsCover
    <3> QED
        BY <2>2, <2>3, <2>4, <3>1, <3>2
  <2> QED
      BY <2>5
<1> QED
    BY <1>1, MoneyInvariantHolds, PTL

\* No step that adds money to an invoice takes it beyond what the invoice asks for.
THEOREM NeverPaysMoreThanDue == Spec => PaysNoMoreThanDue
<1> DEFINE Within == \A i \in Invoices : invoice'[i].paid > invoice[i].paid =>
                                           invoice'[i].paid <= invoice'[i].total
<1>1. ASSUME MoneyInv, NEW w \in Workers, Commit(w) PROVE Within
  <2> DEFINE t == txn[w]
  <2>1. /\ IsTxn(t) /\ PlannedAmounts(t) /\ RowsFresh(t)
        /\ \A i \in Invoices : invoice'[i] = IF i \in DOMAIN t.rows THEN t.rows[i] ELSE invoice[i]
        /\ t.pay \in Payments \/ t.op \in {"generate", "update"}
      BY <1>1, CommitKinds DEF PlannedMoney
  <2>2. \A i \in Invoices : invoice[i].paid \in Int /\ \A p \in Payments : alloc[p][i] \in Nat
      BY <1>1 DEF MoneyInv, IInv, TypeOK, InvoiceRow
  <2> HIDE DEF t
  <2> SUFFICES ASSUME NEW i \in Invoices, invoice'[i].paid > invoice[i].paid
               PROVE  invoice'[i].paid <= invoice'[i].total
      OBVIOUS
  <2>3. i \in DOMAIN t.rows
      BY <2>1, <2>2
  <2>4. invoice'[i] = t.rows[i] /\ t.rows[i].paid = invoice[i].paid + Change(t, i)
      BY <2>1, <2>3 DEF PlannedAmounts, RowsFresh
  <2>5. t.op \in {"capture", "settle"}
    <3>1. CASE t.op \in {"generate", "update", "idle"}
        BY <2>2, <2>4, <3>1 DEF Change
    <3>2. CASE t.op = "reverse"
        BY <2>1, <2>2, <2>4, <3>2 DEF Change
    <3> QED
        BY <2>1, <3>1, <3>2 DEF IsTxn
  <2> QED
      BY <2>1, <2>3, <2>4, <2>5 DEF PlannedAmounts
<1>2. ASSUME MoneyInv, Next PROVE Within
  <2>1. PICK w \in Workers : InvoiceRequest(w) \/ PaymentRequest(w) \/ Commit(w) \/ Rollback(w)
      BY <1>2 DEF Next
  <2>2. CASE InvoiceRequest(w) \/ PaymentRequest(w) \/ Rollback(w)
    <3>1. InvoiceRequest(w) => invoice' = invoice
        BY DEF InvoiceRequest, Generate, Recompute, ApplyFines, VoidInvoice, SoftDelete, Open
    <3>2. PaymentRequest(w) => invoice' = invoice
      <4>1. \A p \in Payments, split \in [Invoices -> Amounts \cup {0}], amount \in Amounts,
               verifyRequired, partialAllowed \in BOOLEAN :
              Capture(w, p, split, amount, verifyRequired, partialAllowed) => invoice' = invoice
          BY DEF Capture, Open
      <4>2. \A p \in Payments, partialAllowed \in BOOLEAN :
              Verify(w, p, partialAllowed) => invoice' = invoice
          BY DEF Verify, Open
      <4>3. \A p \in Payments : Reject(w, p) \/ CancelReceipt(w, p) => invoice' = invoice
          BY DEF Reject, CancelReceipt, Open
      <4>4. \A p \in Payments, amount \in Amounts :
              \A order \in LargestFirst(p), left \in [0..Cardinality(active[p]) -> 0..amount] :
                CreateRefund(w, p, amount, order, left) => invoice' = invoice
          BY DEF CreateRefund, Open
      <4> QED
          BY <4>1, <4>2, <4>3, <4>4 DEF PaymentRequest
    <3>3. invoice' = invoice
        BY <2>2, <3>1, <3>2 DEF Rollback
    <3>4. \A i \in Invoices : invoice[i].paid \in Int
        BY <1>2 DEF MoneyInv, IInv, TypeOK, InvoiceRow
    <3> QED
        BY <3>3, <3>4
  <2> QED
      BY <1>1, <1>2, <2>1, <2>2
<1> HIDE DEF Within
<1>3. MoneyInv /\ [Next]_vars => [Within]_vars
    BY <1>2
<1>4. Spec => [][Within]_vars
    BY <1>3, MoneyInvariantHolds, PTL DEF Spec
<1> QED
    BY <1>4 DEF PaysNoMoreThanDue, Within

\* What a payment is worth to the invoices is what was not given back, when nothing or
\* all of it was.
LEMMA WorthOfPayment ==
  ASSUME MoneyInv, NEW p \in Payments, refunded[p] \in {0, payment[p].amount}
  PROVE  SumFunctionOnSet([i \in Invoices |-> Held(p, i)], Invoices) =
           IF payment[p].status \in {"CAPTURED", "REFUNDED"}
           THEN payment[p].amount - refunded[p] ELSE 0
<1> DEFINE held == [i \in Invoices |-> Held(p, i)]
<1>1. /\ payment[p].amount \in Nat /\ refunded[p] \in Nat /\ active[p] \in SUBSET Invoices
      /\ alloc[p] \in [Invoices -> Nat]
    BY DEF MoneyInv, IInv, TypeOK, PaymentRow
<1>2. \A i \in Invoices : held[i] = Held(p, i)
    OBVIOUS
<1> HIDE DEF held
<1>3. CASE payment[p].status \notin {"CAPTURED", "REFUNDED"}
  <2>1. \A i \in Invoices : held[i] = 0
      BY <1>2, <1>3 DEF Held
  <2>2. SumFunctionOnSet(held, Invoices) = 0
      BY <2>1, FiniteAssumption, SumOfZeros
  <2> QED
      BY <1>3, <2>2 DEF held
<1>4. CASE payment[p].status \in {"CAPTURED", "REFUNDED"}
  <2> DEFINE A == active[p]
  <2>1. \A i \in Invoices : held[i] \in Int /\ (i \notin A => held[i] = 0)
      BY <1>1, <1>2 DEF Held
  <2>2. IsFiniteSet(A) /\ \A i \in A : alloc[p][i] \in Nat /\ held[i] = alloc[p][i]
      BY <1>1, <1>2, <1>4, FiniteAssumption, FS_Subset DEF Held
  <2>3. AllocationsCover(p)
      BY DEF MoneyInv
  <2>4. A \in SUBSET Invoices
      BY <1>1
  <2>5. SumFunctionOnSet(held, Invoices) = SumFunctionOnSet(held, A)
    <3> HIDE DEF A
    <3> QED
        BY <2>1, <2>4, FiniteAssumption, SumRestricts
  <2>6. SumFunctionOnSet(held, A) = SumFunctionOnSet(alloc[p], A)
    <3> HIDE DEF A
    <3>1. \A i \in A : alloc[p][i] \in Int /\ held[i] = alloc[p][i]
        BY <2>2
    <3> QED
        BY <2>2, <3>1, SumsAgree
  <2>7. /\ SumFunctionOnSet(alloc[p], A) \in Nat
        /\ A = {} => SumFunctionOnSet(alloc[p], A) = 0
    <3> HIDE DEF A
    <3>1. SumFunctionOnSet(alloc[p], A) \in Nat
        BY <2>2, SumBounds
    <3>2. \A i \in A : alloc[p][i] \in Int
        BY <2>2
    <3>3. A = {} => SumFunctionOnSet(alloc[p], A) = 0
        BY <2>2, <3>2, SumBegins
    <3> QED
        BY <3>1, <3>3
  <2>8. SumFunctionOnSet(alloc[p], A) = payment[p].amount - refunded[p]
    <3>1. CASE refunded[p] = 0
        BY <1>1, <1>4, <2>3, <3>1 DEF AllocationsCover
    <3>2. CASE refunded[p] = payment[p].amount
        BY <1>1, <1>4, <2>3, <2>7, <3>2 DEF AllocationsCover
    <3> QED
        BY <3>1, <3>2
  <2> QED
      BY <1>4, <2>5, <2>6, <2>8 DEF held
<1> QED
    BY <1>3, <1>4

\* The ledger and the balances of the invoices give the same amount outstanding.
THEOREM LedgerAlwaysAgrees == Spec => []LedgerAgrees
<1>1. ASSUME MoneyInv, \A p \in Payments : refunded[p] \in {0, payment[p].amount}
      PROVE  Outstanding = SumFunctionOnSet([i \in Invoices |-> invoice[i].balance], Billed)
  <2> DEFINE total == [i \in Invoices |-> invoice[i].total]
             balance == [i \in Invoices |-> invoice[i].balance]
             column == [i \in Invoices |-> invoice[i].paid]
             paid == {p \in Payments : /\ payment[p].status \in {"CAPTURED", "REFUNDED"}
                                       /\ payment[p].verification # "PENDING"}
             amount == [p \in Payments |-> payment[p].amount]
             back == [p \in Payments |-> refunded[p]]
             held == [i \in Invoices |-> [p \in Payments |-> Held(p, i)]]
             holds == [p \in Payments |-> [i \in Invoices |-> Held(p, i)]]
             worth == [p \in Payments |-> SumFunctionOnSet([i \in Invoices |-> Held(p, i)], Invoices)]
  <2>1. Outstanding = SumFunctionOnSet(total, Billed) - SumFunctionOnSet(amount, paid)
                        + SumFunctionOnSet(back, paid)
      BY DEF Outstanding
  <2>2. TypeOK /\ PaidIsAllocated /\ UnpaidRows /\ BalanceIsUnpaid /\ RowsSound
      BY <1>1 DEF MoneyInv, IInv, Proved, PlansHold
  <2>3. /\ Billed \in SUBSET Invoices /\ IsFiniteSet(Billed)
        /\ paid \in SUBSET Payments /\ IsFiniteSet(paid)
    <3>1. Billed \in SUBSET Invoices /\ paid \in SUBSET Payments
        BY DEF Billed
    <3> HIDE DEF paid
    <3> QED
        BY <3>1, FiniteAssumption, FS_Subset
  <2>4. ASSUME NEW i \in Invoices
        PROVE  /\ total[i] \in Int /\ balance[i] \in Int /\ column[i] \in Int
               /\ total[i] = balance[i] + column[i]
               /\ i \notin Billed => column[i] = 0
    <3>1. invoice[i].paid \in Nat
        BY <2>2, HeldIsPaid
    <3>2. invoice[i].total \in Int /\ invoice[i].balance \in Int
          /\ invoice[i].balance = invoice[i].total - invoice[i].paid
        BY <2>2 DEF TypeOK, InvoiceRow, BalanceIsUnpaid
    <3>3. i \notin Billed => MayHoldNothing(invoice[i])
        BY DEF Billed, Live, MayHoldNothing
    <3>4. i \notin Billed => invoice[i].paid <= 0
        BY <2>2, <3>3 DEF UnpaidRows
    <3> QED
        BY <3>1, <3>2, <3>4
  <2>5. \A i \in Invoices : column[i] = SumFunctionOnSet(held[i], Payments)
      BY <2>2 DEF PaidIsAllocated, SumFunction
  <2>6. \A i \in Invoices, p \in Payments : held[i][p] \in Int /\ holds[p][i] = held[i][p]
      BY <2>2 DEF Held, TypeOK
  <2>7. \A p \in Payments : worth[p] = SumFunctionOnSet(holds[p], Invoices)
      OBVIOUS
  <2>8. ASSUME NEW p \in Payments
        PROVE  /\ amount[p] \in Int /\ back[p] \in Int /\ worth[p] \in Int
               /\ worth[p] = IF p \in paid THEN amount[p] - back[p] ELSE 0
    <3>1. payment[p].amount \in Nat /\ refunded[p] \in Nat
        BY <2>2 DEF TypeOK, PaymentRow
    <3>2. worth[p] = IF payment[p].status \in {"CAPTURED", "REFUNDED"}
                     THEN payment[p].amount - refunded[p] ELSE 0
        BY <1>1, WorthOfPayment
    <3>3. payment[p].verification = "PENDING" => payment[p].status = "PENDING"
        BY <2>2 DEF RowsSound
    <3> QED
        BY <3>1, <3>2, <3>3
  <2> HIDE DEF total, balance, column, paid, amount, back, held, holds, worth
  <2>9. SumFunctionOnSet(total, Billed) =
          SumFunctionOnSet(balance, Billed) + SumFunctionOnSet(column, Billed)
      BY <2>3, <2>4, SumAdds
  <2>10. SumFunctionOnSet(column, Invoices) = SumFunctionOnSet(column, Billed)
      BY <2>3, <2>4, FiniteAssumption, SumRestricts
  <2>11. SumFunctionOnSet(column, Invoices) = SumFunctionOnSet(worth, Payments)
    <3>1. IsFiniteSet(Invoices) /\ IsFiniteSet(Payments)
        BY FiniteAssumption
    <3>2. Transposes(holds, held, Payments, Invoices)
        BY <2>6 DEF Transposes
    <3>3. AddsRows(worth, holds, Payments, Invoices)
        BY <2>7 DEF AddsRows
    <3>4. AddsRows(column, held, Invoices, Payments)
        BY <2>5 DEF AddsRows
    <3>5. SumFunctionOnSet(worth, Payments) = SumFunctionOnSet(column, Invoices)
        BY <3>1, <3>2, <3>3, <3>4, SumSwaps
    <3> QED
        BY <3>5
  <2>12. SumFunctionOnSet(worth, Payments) = SumFunctionOnSet(worth, paid)
      BY <2>3, <2>8, FiniteAssumption, SumRestricts
  <2>13. SumFunctionOnSet(amount, paid) =
           SumFunctionOnSet(worth, paid) + SumFunctionOnSet(back, paid)
    <3>1. \A p \in paid : /\ worth[p] \in Int /\ back[p] \in Int
                          /\ amount[p] = worth[p] + back[p]
        BY <2>3, <2>8
    <3> QED
        BY <2>3, <3>1, SumAdds
  <2>14. /\ SumFunctionOnSet(balance, Billed) \in Int /\ SumFunctionOnSet(column, Billed) \in Int
         /\ SumFunctionOnSet(worth, paid) \in Int /\ SumFunctionOnSet(back, paid) \in Int
    <3>1. \A i \in Billed : balance[i] \in Int /\ column[i] \in Int
        BY <2>3, <2>4
    <3>2. \A p \in paid : worth[p] \in Int /\ back[p] \in Int
        BY <2>3, <2>8
    <3>3. SumFunctionOnSet(balance, Billed) \in Int
        BY <2>3, <3>1, SumBegins
    <3>4. SumFunctionOnSet(column, Billed) \in Int
        BY <2>3, <3>1, SumBegins
    <3>5. SumFunctionOnSet(worth, paid) \in Int
        BY <2>3, <3>2, SumBegins
    <3>6. SumFunctionOnSet(back, paid) \in Int
        BY <2>3, <3>2, SumBegins
    <3> QED
        BY <3>3, <3>4, <3>5, <3>6
  <2>15. Outstanding = SumFunctionOnSet(balance, Billed)
      BY <2>1, <2>9, <2>10, <2>11, <2>12, <2>13, <2>14
  <2> QED
      BY <2>15 DEF balance
<1>2. MoneyInv => LedgerAgrees
    BY <1>1 DEF LedgerAgrees
<1> QED
    BY <1>2, MoneyInvariantHolds, PTL
=============================================================================
