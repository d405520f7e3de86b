--------------------------- MODULE FeeCollection ---------------------------
(***************************************************************************)
(* School fees: invoices, payments, receipts and refunds of one student of *)
(* one school (src/backend/src/core/fees).                                 *)
(*                                                                         *)
(* Every operation of the four services runs in one database transaction   *)
(* at the REPEATABLE READ isolation of MySQL: all its reads see the state  *)
(* of its first read, its guards are evaluated on that snapshot, and its   *)
(* writes are optimistic, `updateMany where version = expectedVersion`     *)
(* against the current row.  An operation is therefore two steps.  The     *)
(* action named after the handler takes the snapshot, checks every guard   *)
(* and computes the rows to write; Commit applies them all, and only when  *)
(* no version it read has moved.  Rollback stands for a version conflict,  *)
(* a deadlock victim, or a process that dies before it commits.  Requests  *)
(* of different workers interleave between the two steps.                  *)
(***************************************************************************)
EXTENDS Integers, FiniteSets, Functions

CONSTANTS
  Invoices,     \* ids of fee_invoices rows
  Payments,     \* ids of fee_payments rows
  Workers,      \* concurrent requests (API replicas and their event loops)
  Periods,      \* billing periods of the one (student, structure) pair
  DraftTotals,  \* totals the structure and the student's discounts price to
  Fines,        \* late fines a policy computes
  Amounts,      \* amounts of an allocation, a payment or a refund
  MaxVersion,   \* bound on the version of an invoice row
  NoPeriod,     \* the period of an invoice not generated yet
  NoPayment     \* the payment of an operation that touches none

ASSUME MoneyAssumption ==
  /\ DraftTotals \subseteq Int
  /\ Fines \subseteq Nat \ {0}
  /\ Amounts \subseteq Nat \ {0}

ASSUME BoundAssumption == MaxVersion \in Nat

ASSUME FiniteAssumption == IsFiniteSet(Invoices) /\ IsFiniteSet(Payments)

ASSUME NullAssumption == NoPeriod \notin Periods /\ NoPayment \notin Payments

VARIABLES
  invoice,   \* invoice[i]  : row of fee_invoices (and the sum of its fine lines)
  payment,   \* payment[p]  : header row of fee_payments
  alloc,     \* alloc[p][i] : amount of payment p allocated to invoice i, 0 for none
  active,    \* active[p]   : invoices whose allocation by p is not reversed
  receipt,   \* receipt[p]  : the receipt of payment p
  refunded,  \* refunded[p] : sum of the append-only fee_refunds rows of p
  txn        \* txn[w]      : the transaction worker w has open

vars == <<invoice, payment, alloc, active, receipt, refunded, txn>>

-----------------------------------------------------------------------------

InvoiceStatus == {"ABSENT", "DRAFT", "SENT", "PARTIAL", "PAID", "OVERDUE", "VOID", "REFUNDED"}

PaymentStatus == {"ABSENT", "PENDING", "CAPTURED", "FAILED", "REFUNDED", "CANCELLED"}

Verification == {"NOT_REQUIRED", "PENDING", "VERIFIED", "REJECTED"}

ReceiptStatus == {"NONE", "ISSUED", "CANCELLED"}

InvoiceRow == [status : InvoiceStatus, period : Periods \cup {NoPeriod},
               total : Int, fine : Nat, paid : Int, refund : Int, balance : Int,
               deleted : BOOLEAN, version : Nat]

PaymentRow == [status : PaymentStatus, verification : Verification,
               amount : Nat, version : Nat]

AbsentInvoice == [status |-> "ABSENT", period |-> NoPeriod, total |-> 0, fine |-> 0,
                  paid |-> 0, refund |-> 0, balance |-> 0, deleted |-> FALSE, version |-> 0]

AbsentPayment == [status |-> "ABSENT", verification |-> "NOT_REQUIRED",
                  amount |-> 0, version |-> 0]

NoAllocation == [i \in Invoices |-> 0]

\* What an open transaction will write: new invoice rows, the payment it is
\* about, its new header (AbsentPayment: not written), the allocations it
\* inserts, those it reverses, the refund it inserts (0: none) and the new
\* status of the receipt ("NONE": not written).
IsTxn(t) ==
  /\ t.op \in {"idle", "generate", "update", "capture", "settle", "reverse"}
  /\ DOMAIN t.rows \subseteq Invoices /\ t.rows \in [DOMAIN t.rows -> InvoiceRow]
  /\ t.pay \in Payments \cup {NoPayment} /\ t.header \in PaymentRow
  /\ t.alloc \in [Invoices -> Nat] /\ t.reverse \subseteq Invoices
  /\ t.refund \in Nat /\ t.receipt \in ReceiptStatus

Idle == [op |-> "idle", rows |-> [i \in {} |-> AbsentInvoice], pay |-> NoPayment,
         header |-> AbsentPayment, alloc |-> NoAllocation, reverse |-> {},
         refund |-> 0, receipt |-> "NONE"]

Init ==
  /\ invoice = [i \in Invoices |-> AbsentInvoice]
  /\ payment = [p \in Payments |-> AbsentPayment]
  /\ alloc = [p \in Payments |-> NoAllocation]
  /\ active = [p \in Payments |-> {}]
  /\ receipt = [p \in Payments |-> "NONE"]
  /\ refunded = [p \in Payments |-> 0]
  /\ txn = [w \in Workers |-> Idle]

-----------------------------------------------------------------------------
(* Helpers shared by the handlers.  A definition whose comment says FAULT  *)
(* is never used: it is the definition after it with one plausible slip,   *)
(* kept to show that the property named in PROJECT.json would notice it.   *)

\* Rows carry deletedAt = null and exist.
Live(i) == invoice[i].status # "ABSENT" /\ ~invoice[i].deleted

Allocatable == {"DRAFT", "SENT", "PARTIAL", "OVERDUE"}

\* Worker w opens a transaction that will write t; the bound keeps versions finite.
Open(w, t) ==
  /\ txn[w].op = "idle"
  /\ \A i \in DOMAIN t.rows : t.rows[i].version <= MaxVersion
  /\ txn' = [txn EXCEPT ![w] = t]
  /\ UNCHANGED <<invoice, payment, alloc, active, receipt, refunded>>

\* A transaction that writes the one invoice row i and no payment.
Writing(op, i, row) == [Idle EXCEPT !.op = op, !.rows = [j \in {i} |-> row]]

\* The row of an invoice that receives the allocation a.
PaidRow(row, a) ==
  LET paid == row.paid + a
  IN  [row EXCEPT !.paid = paid,
                  !.balance = row.total - paid,
                  !.status = IF paid >= row.total THEN "PAID"
                             ELSE IF paid > 0 THEN "PARTIAL" ELSE row.status,
                  !.version = row.version + 1]

\* FAULT: CanPay without the comparison with the balance.
CanPay_NoBalanceCheck(i, a, partialAllowed) ==
  /\ Live(i)
  /\ invoice[i].status \in Allocatable
  /\ invoice[i].paid + a < invoice[i].total => partialAllowed

\* The checks every allocation passes before its invoice is updated.
CanPay(i, a, partialAllowed) ==
  /\ Live(i)
  /\ invoice[i].status \in Allocatable
  /\ a <= invoice[i].balance
  /\ invoice[i].paid + a < invoice[i].total => partialAllowed

StatusAfterReversal(previous, paid, total) ==
  IF paid >= total /\ total > 0 THEN "PAID"
  ELSE IF paid > 0 /\ paid < total THEN "PARTIAL"
  ELSE IF previous \in {"PARTIAL", "PAID"} THEN "SENT" ELSE previous

StatusAfterRefund(paid, refund) ==
  IF paid > 0 /\ refund >= paid THEN "REFUNDED"
  ELSE IF paid = 0 THEN "SENT" ELSE "PARTIAL"

\* FAULT: CancelledRow that derives the status but leaves the money columns.
CancelledRow_MoneyKept(row, a) ==
  [row EXCEPT !.status = StatusAfterReversal(row.status, row.paid - a, row.total),
              !.version = row.version + 1]

\* The row of an invoice whose allocation of a is reversed by a receipt cancellation.
CancelledRow(row, a) ==
  LET paid == row.paid - a
  IN  [row EXCEPT !.paid = paid,
                  !.balance = row.total - paid,
                  !.status = StatusAfterReversal(row.status, paid, row.total),
                  !.version = row.version + 1]

\* The row of an invoice whose allocation of a is reversed by a refund that
\* gives back `applied` of it.
RefundedRow(row, a, applied) ==
  LET paid == row.paid - a
  IN  [row EXCEPT !.paid = paid,
                  !.refund = row.refund + applied,
                  !.balance = row.total - paid,
                  !.status = StatusAfterRefund(paid, row.refund + applied),
                  !.version = row.version + 1]

\* FAULT: RepricedRow that resets the balance to the new total.
RepricedRow_BalanceReset(row, total, status) ==
  [row EXCEPT !.total = total, !.balance = total,
              !.status = status, !.version = row.version + 1]

\* updateTotals: the balance is the new total less what the snapshot says is paid.
RepricedRow(row, total, status) ==
  [row EXCEPT !.total = total, !.balance = total - row.paid,
              !.status = status, !.version = row.version + 1]

\* Orders in which a refund may visit the allocations of p: largest first.
LargestFirst(p) ==
  {s \in Bijection(1..Cardinality(active[p]), active[p]) :
     \A k \in DOMAIN s : k > 1 => alloc[p][s[k]] <= alloc[p][s[k - 1]]}

-----------------------------------------------------------------------------
(* Invoices                                                                *)

\* POST /fees/invoices/generate for the student.
Generate(w, i, period, total) ==
  /\ invoice[i].status = "ABSENT"
  /\ \A v \in Workers : i \notin DOMAIN txn[v].rows
  /\ ~\E j \in Invoices : /\ Live(j) /\ invoice[j].period = period
                          /\ invoice[j].status # "VOID"
  /\ Open(w, Writing("generate", i,
       [AbsentInvoice EXCEPT !.status = "DRAFT", !.period = period,
                             !.total = total, !.balance = total, !.version = 1]))

\* Re-price from the structure and the discounts now in force; fine lines stay.
Recompute(w, i, total) ==
  /\ Live(i)
  /\ invoice[i].status \in {"DRAFT", "SENT", "PARTIAL"}
  /\ LET status == IF invoice[i].status = "DRAFT" THEN "SENT" ELSE invoice[i].status
     IN  Open(w, Writing("update", i,
                         RepricedRow(invoice[i], total + invoice[i].fine, status)))

\* Freeze the late fine into a line of its own, once per invoice.
ApplyFines(w, i, fine) ==
  /\ Live(i)
  /\ invoice[i].status \in {"DRAFT", "SENT", "PARTIAL", "OVERDUE"}
  /\ invoice[i].fine = 0
  /\ Open(w, Writing("update", i,
       [RepricedRow(invoice[i], invoice[i].total + fine, invoice[i].status) EXCEPT !.fine = fine]))

\* FAULT: VoidInvoice of an invoice that is partly paid.
VoidInvoice_Paid(w, i) ==
  /\ Live(i)
  /\ invoice[i].status # "VOID"
  /\ Open(w, Writing("update", i,
       [invoice[i] EXCEPT !.status = "VOID", !.version = invoice[i].version + 1]))

VoidInvoice(w, i) ==
  /\ Live(i)
  /\ ~(invoice[i].paid > 0)
  /\ invoice[i].status # "VOID"
  /\ Open(w, Writing("update", i,
       [invoice[i] EXCEPT !.status = "VOID", !.version = invoice[i].version + 1]))

SoftDelete(w, i) ==
  /\ Live(i)
  /\ invoice[i].status = "DRAFT"
  /\ Open(w, Writing("update", i,
       [invoice[i] EXCEPT !.deleted = TRUE, !.version = invoice[i].version + 1]))

-----------------------------------------------------------------------------
(* Payments                                                                *)

\* A payment posted at once: its invoices, its allocations and its receipt.
CaptureAndIssueReceipt(p, split, amount) ==
  [Idle EXCEPT !.op = "capture", !.pay = p, !.alloc = split,
     !.rows = [i \in {j \in Invoices : split[j] > 0} |-> PaidRow(invoice[i], split[i])],
     !.header = [status |-> "CAPTURED", verification |-> "NOT_REQUIRED",
                 amount |-> amount, version |-> 1],
     !.receipt = "ISSUED"]

\* A payment that waits for verification: only itself and its allocations.
CaptureForVerification(p, split, amount) ==
  [Idle EXCEPT !.op = "capture", !.pay = p, !.alloc = split,
     !.header = [status |-> "PENDING", verification |-> "PENDING",
                 amount |-> amount, version |-> 1]]

\* Record an offline payment split over invoices by `split`.  A method that needs
\* verification leaves the invoices alone until somebody verifies the money came.
Capture(w, p, split, amount, verifyRequired, partialAllowed) ==
  LET touched == {i \in Invoices : split[i] > 0}
  IN  /\ payment[p].status = "ABSENT"
      /\ \A v \in Workers : txn[v].pay # p
      /\ touched # {}
      /\ SumFunction(split) = amount
      /\ \A i \in touched : CanPay(i, split[i], partialAllowed)
      /\ Open(w, IF verifyRequired THEN CaptureForVerification(p, split, amount)
                                   ELSE CaptureAndIssueReceipt(p, split, amount))

\* FAULT: Verify that posts the money and issues no receipt.
Verify_NoReceipt(w, p, partialAllowed) ==
  /\ payment[p].verification = "PENDING"
  /\ \A i \in active[p] : CanPay(i, alloc[p][i], partialAllowed)
  /\ Open(w, [Idle EXCEPT !.op = "settle", !.pay = p,
       !.rows = [i \in active[p] |-> PaidRow(invoice[i], alloc[p][i])],
       !.header = [payment[p] EXCEPT !.status = "CAPTURED", !.verification = "VERIFIED",
                                     !.version = payment[p].version + 1]])

\* The money of a pending payment came: post it and issue the receipt.
Verify(w, p, partialAllowed) ==
  /\ payment[p].verification = "PENDING"
  /\ \A i \in active[p] : CanPay(i, alloc[p][i], partialAllowed)
  /\ Open(w, [Idle EXCEPT !.op = "settle", !.pay = p,
       !.rows = [i \in active[p] |-> PaidRow(invoice[i], alloc[p][i])],
       !.header = [payment[p] EXCEPT !.status = "CAPTURED", !.verification = "VERIFIED",
                                     !.version = payment[p].version + 1],
       !.receipt = "ISSUED"])

\* FAULT: Reject that writes the verification outcome in the status column.
Reject_WrongColumn(w, p) ==
  /\ payment[p].verification = "PENDING"
  /\ Open(w, [Idle EXCEPT !.op = "settle", !.pay = p,
       !.header = [payment[p] EXCEPT !.status = "REJECTED",
                                     !.version = payment[p].version + 1]])

\* The money of a pending payment never came.
Reject(w, p) ==
  /\ payment[p].verification = "PENDING"
  /\ Open(w, [Idle EXCEPT !.op = "settle", !.pay = p,
       !.header = [payment[p] EXCEPT !.status = "FAILED", !.verification = "REJECTED",
                                     !.version = payment[p].version + 1]])

\* FAULT: CancelReceipt of a payment of which money went back already.
CancelReceipt_Refunded(w, p) ==
  /\ receipt[p] = "ISSUED"
  /\ \A i \in active[p] : Live(i)
  /\ Open(w, [Idle EXCEPT !.op = "reverse", !.pay = p,
       !.rows = [i \in active[p] |-> CancelledRow(invoice[i], alloc[p][i])],
       !.header = [payment[p] EXCEPT !.status = "CANCELLED",
                                     !.version = payment[p].version + 1],
       !.reverse = active[p],
       !.receipt = "CANCELLED"])

\* FAULT: CancelReceipt that leaves the allocations of the payment in force.
CancelReceipt_NotReversed(w, p) ==
  /\ receipt[p] = "ISSUED"
  /\ refunded[p] = 0
  /\ \A i \in active[p] : Live(i)
  /\ Open(w, [Idle EXCEPT !.op = "reverse", !.pay = p,
       !.rows = [i \in active[p] |-> CancelledRow(invoice[i], alloc[p][i])],
       !.header = [payment[p] EXCEPT !.status = "CANCELLED",
                                     !.version = payment[p].version + 1],
       !.receipt = "CANCELLED"])

\* Undo a payment whose receipt was issued by mistake; refused once money went back.
CancelReceipt(w, p) ==
  /\ receipt[p] = "ISSUED"
  /\ refunded[p] = 0
  /\ \A i \in active[p] : Live(i)
  /\ Open(w, [Idle EXCEPT !.op = "reverse", !.pay = p,
       !.rows = [i \in active[p] |-> CancelledRow(invoice[i], alloc[p][i])],
       !.header = [payment[p] EXCEPT !.status = "CANCELLED",
                                     !.version = payment[p].version + 1],
       !.reverse = active[p],
       !.receipt = "CANCELLED"])

\* Give money back.  Allocations are reversed whole, largest first, until the
\* amount is covered: left[k] is what remains to cover after the k-th of them.
\* The payment header is written only by the refund that completes it.
CreateRefund(w, p, amount, order, left) ==
  LET n == Cardinality(active[p])
      hit == {k \in 1..n : left[k - 1] > 0}
      nth(i) == CHOOSE k \in 1..n : order[k] = i
      reversed == {order[k] : k \in hit}
  IN  /\ payment[p].status = "CAPTURED"
      /\ amount <= payment[p].amount - refunded[p]
      /\ left[0] = amount
      /\ \A k \in 1..n : left[k] = IF alloc[p][order[k]] <= left[k - 1]
                                   THEN left[k - 1] - alloc[p][order[k]] ELSE 0
      /\ \A i \in reversed : Live(i)
      /\ Open(w, [Idle EXCEPT !.op = "reverse", !.pay = p,
           !.rows = [i \in reversed |-> RefundedRow(invoice[i], alloc[p][i],
                                                    left[nth(i) - 1] - left[nth(i)])],
           !.header = IF refunded[p] + amount >= payment[p].amount
                      THEN [payment[p] EXCEPT !.status = "REFUNDED",
                                              !.version = payment[p].version + 1]
                      ELSE AbsentPayment,
           !.reverse = reversed,
           !.refund = amount])

-----------------------------------------------------------------------------
(* The end of a transaction                                                *)

\* FAULT: VersionsMatch when the invoice updates do not name the version they read.
VersionsMatch_InvoiceUnchecked(t) ==
  /\ t.header # AbsentPayment => payment[t.pay].version + 1 = t.header.version
  /\ t.receipt = "CANCELLED" => receipt[t.pay] = "ISSUED"

\* updateMany where version = expectedVersion matched every row it names.
VersionsMatch(t) ==
  /\ \A i \in DOMAIN t.rows : invoice[i].version + 1 = t.rows[i].version
  /\ t.header # AbsentPayment => payment[t.pay].version + 1 = t.header.version
  /\ t.receipt = "CANCELLED" => receipt[t.pay] = "ISSUED"

\* FAULT: PeriodIsFree when the unique index is missing.
PeriodIsFree_NoIndex(t) == TRUE

\* The unique index over (student, structure, period) of rows that are not deleted.
PeriodIsFree(t) ==
  t.op = "generate" =>
    \A i \in DOMAIN t.rows : ~\E j \in Invoices : Live(j) /\ invoice[j].period = t.rows[i].period

Commit(w) ==
  LET t == txn[w]
  IN  /\ t.op # "idle"
      /\ VersionsMatch(t)
      /\ PeriodIsFree(t)
      /\ invoice' = [i \in Invoices |-> IF i \in DOMAIN t.rows THEN t.rows[i] ELSE invoice[i]]
      /\ payment' = [p \in Payments |-> IF p = t.pay /\ t.header # AbsentPayment
                                        THEN t.header ELSE payment[p]]
      /\ alloc' = [p \in Payments |-> IF p = t.pay /\ t.op = "capture"
                                      THEN t.alloc ELSE alloc[p]]
      /\ active' = [p \in Payments |->
                      IF p # t.pay THEN active[p]
                      ELSE IF t.op = "capture" THEN {i \in Invoices : t.alloc[i] > 0}
                      ELSE active[p] \ t.reverse]
      /\ receipt' = [p \in Payments |-> IF p = t.pay /\ t.receipt # "NONE"
                                        THEN t.receipt ELSE receipt[p]]
      /\ refunded' = [p \in Payments |-> IF p = t.pay THEN refunded[p] + t.refund
                                         ELSE refunded[p]]
      /\ txn' = [txn EXCEPT ![w] = Idle]

\* A conflict, a failed check of the database or a crash: nothing is written.
Rollback(w) ==
  /\ txn[w].op # "idle"
  /\ txn' = [txn EXCEPT ![w] = Idle]
  /\ UNCHANGED <<invoice, payment, alloc, active, receipt, refunded>>

\* The invoices the student's ledger lists.
Billed == {i \in Invoices : Live(i) /\ invoice[i].status # "VOID"}

\* What the ledger says the student owes: the debits of invoices, fines and refunds
\* less the credits of payments, in no order since only the total matters.
Outstanding ==
  LET paid == {p \in Payments : /\ payment[p].status \in {"CAPTURED", "REFUNDED"}
                                /\ payment[p].verification # "PENDING"}
  IN    SumFunctionOnSet([i \in Invoices |-> invoice[i].total], Billed)
      - SumFunctionOnSet([p \in Payments |-> payment[p].amount], paid)
      + SumFunctionOnSet([p \in Payments |-> refunded[p]], paid)

-----------------------------------------------------------------------------

InvoiceRequest(w) ==
  \E i \in Invoices :
    \/ \E period \in Periods, total \in DraftTotals : Generate(w, i, period, total)
    \/ \E total \in DraftTotals : Recompute(w, i, total)
    \/ \E fine \in Fines : ApplyFines(w, i, fine)
    \/ VoidInvoice(w, i)
    \/ SoftDelete(w, i)

PaymentRequest(w) ==
  \E p \in Payments :
    \/ \E split \in [Invoices -> Amounts \cup {0}], amount \in Amounts,
          verifyRequired, partialAllowed \in BOOLEAN :
         Capture(w, p, split, amount, verifyRequired, partialAllowed)
    \/ \E partialAllowed \in BOOLEAN : Verify(w, p, partialAllowed)
    \/ Reject(w, p)
    \/ CancelReceipt(w, p)
    \/ \E amount \in Amounts, order \in LargestFirst(p) :
         \E left \in [0..Cardinality(active[p]) -> 0..amount] :
            CreateRefund(w, p, amount, order, left)

Next == \E w \in Workers : InvoiceRequest(w) \/ PaymentRequest(w) \/ Commit(w) \/ Rollback(w)

Spec == Init /\ [][Next]_vars

-----------------------------------------------------------------------------
(* Correctness                                                             *)

\* Every variable keeps its type.
TypeOK ==
  /\ invoice \in [Invoices -> InvoiceRow]
  /\ payment \in [Payments -> PaymentRow]
  /\ alloc \in [Payments -> [Invoices -> Nat]]
  /\ active \in [Payments -> SUBSET Invoices]
  /\ receipt \in [Payments -> ReceiptStatus]
  /\ refunded \in [Payments -> Nat]
  /\ txn = [w \in Workers |-> txn[w]] /\ \A w \in Workers : IsTxn(txn[w])

\* The part of invoice i that payment p pays for now.
Held(p, i) == IF payment[p].status \in {"CAPTURED", "REFUNDED"} /\ i \in active[p]
              THEN alloc[p][i] ELSE 0

\* The paidTotal column of an invoice, which every handler updates by reading it,
\* adding or subtracting, and writing it back, is at all times the sum of the
\* allocations of captured payments that are not reversed: no update is lost
\* between concurrent captures, verifications, cancellations and refunds.
PaidIsAllocated ==
  \A i \in Invoices : invoice[i].paid = SumFunction([p \in Payments |-> Held(p, i)])

\* The stored balance is the total less what is paid, although pricing (which
\* reads paidTotal) and payment (which reads total) update it independently.
BalanceIsUnpaid ==
  \A i \in Invoices : invoice[i].balance = invoice[i].total - invoice[i].paid

\* An invoice that is void or deleted holds no money: neither can overtake a
\* capture or a verification that is under way on it.
VoidHoldsNoMoney ==
  \A i \in Invoices : invoice[i].status = "VOID" \/ invoice[i].deleted =>
    \A p \in Payments : Held(p, i) = 0

\* A receipt is outstanding exactly for the payments whose money the school has
\* or had, and cancelled exactly for the payments undone.
ReceiptMatchesPayment ==
  \A p \in Payments :
    /\ receipt[p] = "ISSUED" <=> payment[p].status \in {"CAPTURED", "REFUNDED"}
    /\ receipt[p] = "CANCELLED" <=> payment[p].status = "CANCELLED"

\* A payment is never both cancelled and refunded, although the cancellation looks
\* for refunds in its snapshot and a partial refund leaves the payment header alone.
CancelledNeverRefunded ==
  \A p \in Payments : payment[p].status = "CANCELLED" => refunded[p] = 0

\* A payment that was undone or fully given back pays for nothing any more.
SettledHoldsNothing ==
  \A p \in Payments : payment[p].status \in {"CANCELLED", "REFUNDED"} => active[p] = {}

\* The student is billed at most once for a period: concurrent generate requests
\* both find no invoice in their snapshots.
BilledOncePerPeriod ==
  \A i, j \in Invoices :
    Live(i) /\ Live(j) /\ i # j => invoice[i].period # invoice[j].period

\* The student's ledger (invoices and fines, less captured payments, plus refunds)
\* and the balances stored in the invoices give the same amount outstanding, as
\* long as no payment is refunded in part.
LedgerAgrees ==
  (\A p \in Payments : refunded[p] \in {0, payment[p].amount}) =>
    Outstanding = SumFunctionOnSet([i \in Invoices |-> invoice[i].balance], Billed)

\* No step that adds money to an invoice takes it beyond what the invoice asks for:
\* two payments that each fit the balance they read do not both land.
PaysNoMoreThanDue ==
  [][\A i \in Invoices :
       invoice'[i].paid > invoice[i].paid => invoice'[i].paid <= invoice'[i].total]_vars

\* What fee-refund.service.ts promises of the refund cap: the refunds of a payment
\* never exceed the payment.
RefundsWithinPayment == \A p \in Payments : refunded[p] <= payment[p].amount

-----------------------------------------------------------------------------
(* What keeps the plans of open transactions sound (the inductive part)    *)

RowFresh(t, i) == t.rows[i].version = invoice[i].version + 1

RowsFresh(t) == \A i \in DOMAIN t.rows : RowFresh(t, i)

HeaderFresh(t) == t.header.version = payment[t.pay].version + 1

\* A planned invoice row is consistent in itself, and was computed from the
\* current row unless the version of that row has moved.
PlannedRows(t) ==
  /\ t.op = "generate" => \E i \in Invoices : DOMAIN t.rows = {i}
  /\ \A i \in DOMAIN t.rows :
       /\ t.rows[i].balance = t.rows[i].total - t.rows[i].paid
       /\ t.rows[i].status # "ABSENT"
       /\ t.rows[i].version <= invoice[i].version + 1
       /\ RowFresh(t, i) /\ t.op # "generate" =>
            Live(i) /\ t.rows[i].period = invoice[i].period

PlannedCapture(t) ==
  /\ t.refund = 0
  /\ \E i \in Invoices : t.alloc[i] > 0
  /\ <<t.header.status, t.header.verification, t.receipt>> \in
       {<<"PENDING", "PENDING", "NONE">>, <<"CAPTURED", "NOT_REQUIRED", "ISSUED">>}
  /\ t.header.version <= payment[t.pay].version + 1
  /\ HeaderFresh(t) => payment[t.pay].status = "ABSENT"

PlannedSettlement(t) ==
  /\ t.refund = 0 /\ t.reverse = {}
  /\ <<t.header.status, t.header.verification, t.receipt>> \in
       {<<"CAPTURED", "VERIFIED", "ISSUED">>, <<"FAILED", "REJECTED", "NONE">>}
  /\ t.header.version <= payment[t.pay].version + 1
  /\ HeaderFresh(t) => payment[t.pay].status = "PENDING"

\* A cancellation covers every allocation still in force: a refund that could
\* invalidate what it read must move the version of an invoice it writes.
PlannedCancellation(t) ==
  /\ t.refund = 0
  /\ t.header.status = "CANCELLED" /\ t.header.verification # "PENDING"
  /\ t.header.version <= payment[t.pay].version + 1
  /\ RowsFresh(t) /\ HeaderFresh(t) =>
       /\ refunded[t.pay] = 0
       /\ active[t.pay] # {} /\ t.reverse = active[t.pay] /\ DOMAIN t.rows = active[t.pay]

PlannedRefund(t) ==
  /\ t.refund > 0 /\ t.receipt = "NONE" /\ t.reverse = DOMAIN t.rows
  /\ payment[t.pay].status \in {"CAPTURED", "REFUNDED", "CANCELLED"}
  /\ t.header # AbsentPayment =>
       /\ t.header.status = "REFUNDED" /\ t.header.verification # "PENDING"
       /\ t.header.version <= payment[t.pay].version + 1
       /\ HeaderFresh(t) => payment[t.pay].status = "CAPTURED"
  /\ RowsFresh(t) =>
       /\ t.reverse \subseteq active[t.pay]
       /\ payment[t.pay].status # "CANCELLED"
       /\ t.reverse = {} => refunded[t.pay] > 0

PlannedPayment(t) ==
  /\ t.pay = NoPayment <=> t.op \in {"idle", "generate", "update"}
  /\ t.op = "capture" => PlannedCapture(t)
  /\ t.op = "settle" => PlannedSettlement(t)
  /\ t.op = "reverse" => IF t.receipt = "CANCELLED" THEN PlannedCancellation(t)
                                                    ELSE PlannedRefund(t)

RowsSound ==
  /\ \A i \in Invoices : invoice[i].status = "ABSENT" => invoice[i].version = 0
  /\ \A p \in Payments :
       /\ payment[p].status = "ABSENT" => payment[p].version = 0
       /\ payment[p].verification = "PENDING" => payment[p].status = "PENDING"
       /\ payment[p].status \in {"PENDING", "CAPTURED"} /\ refunded[p] = 0 => active[p] # {}
       /\ payment[p].status \in {"ABSENT", "PENDING", "FAILED"} => refunded[p] = 0
       /\ payment[p].status = "REFUNDED" => refunded[p] > 0

\* Whatever commits in between, an open transaction that can still commit was
\* computed from rows that have not changed in any way it depends on.
PlansHold ==
  /\ RowsSound
  /\ \A w \in Workers : PlannedRows(txn[w]) /\ PlannedPayment(txn[w])
=============================================================================
