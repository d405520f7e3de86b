------------------------- MODULE PlatformBillingProofs -------------------------
(***************************************************************************)
(* The money of PlatformBilling agrees, for any invoices, payments,        *)
(* refunds, notes, adjustments and amounts: each step moves at most one    *)
(* addend of each sum.                                                     *)
(***************************************************************************)
EXTENDS PlatformBilling, SumTheory, Sequences

-----------------------------------------------------------------------------
(* What the properties add up                                              *)

\* The two properties in parts: what is on the invoices, on the account, in its balance.
InvoicesCredited ==
  \A i \in Invoices :
    invoice[i].paid = SumFunctionOnSet([p \in Payments |-> CreditOf(p, i)], Payments)

AccountCredited == account.paid = SumFunctionOnSet([i \in Invoices |-> invoice[i].paid], Invoices)

BalanceIsLeft ==
  account.credit = SumFunctionOnSet([n \in Notes |-> NoteCredit(n)], Notes)
                   + SumFunctionOnSet([a \in Adjustments |-> AdjustmentCredit(a)], Adjustments)

PaymentsRefunded ==
  \A p \in Payments :
    payment[p].refunded = SumFunctionOnSet([r \in Refunds |-> GivenBack(r, p)], Refunds)

StatusTells ==
  \A p \in Payments :
    /\ payment[p].status = "PARTIALLY_REFUNDED" <=> payment[p].refunded \in 1 .. payment[p].amount - 1
    /\ payment[p].status = "REFUNDED" <=> payment[p].refunded > 0 /\ payment[p].refunded >= payment[p].amount

InvoicesRefunded ==
  \A i \in Invoices :
    invoice[i].refunded = SumFunctionOnSet([p \in Payments |-> RefundedOf(p, i)], Payments)

AccountRefunded ==
  account.refunded = SumFunctionOnSet([i \in Invoices |-> invoice[i].refunded], Invoices)

\* A payment is approved once and refunded only thereafter, and neither it nor its refunds
\* see it pending again; rows that are inserted have an amount, and only they.
RowsBegin ==
  /\ \A p \in Payments : payment[p].approved => payment[p].status \notin {"absent", "PENDING", "ON_HOLD"}
  /\ \A r \in Refunds : refund[r].status # "absent" =>
       /\ refund[r].amount \in RefundAmounts
       /\ payment[refund[r].payment].status \notin {"absent", "PENDING", "ON_HOLD"}
  /\ \A a \in Adjustments : adjustment[a].kind = "absent" => adjustment[a].amount = 0

BillingInv == BillingTypeOK /\ MoneyAgrees /\ RowsBegin

\* The parts say what MoneyAgrees says.
LEMMA MoneyInParts ==
  MoneyAgrees <=> /\ InvoicesCredited /\ AccountCredited /\ BalanceIsLeft
                  /\ PaymentsRefunded /\ StatusTells /\ InvoicesRefunded /\ AccountRefunded
    BY DEF MoneyAgrees, CreditedOnce, RefundsAgree, InvoicesCredited, AccountCredited, BalanceIsLeft,
           PaymentsRefunded, StatusTells, InvoicesRefunded, AccountRefunded

\* Nothing is billed at first.
LEMMA BillingBegins == BillingInit => BillingInv
<1> SUFFICES ASSUME BillingInit PROVE BillingInv
    OBVIOUS
<1> USE BillingAssumption
<1>1. BillingTypeOK
    BY DEF BillingInit, BillingTypeOK, Targets, InvoiceStatus, PaymentStatus
<1>2. RowsBegin
    BY DEF BillingInit, RowsBegin
<1>3. /\ \A i \in Invoices : invoice[i].paid = 0 /\ invoice[i].refunded = 0
      /\ account.paid = 0 /\ account.refunded = 0 /\ account.credit = 0
      /\ \A p \in Payments : payment[p].refunded = 0 /\ payment[p].amount = 0 /\ payment[p].status = "absent"
    BY DEF BillingInit
<1>4. \A p \in Payments, i \in Invoices : CreditOf(p, i) = 0 /\ RefundedOf(p, i) = 0
    BY DEF BillingInit, CreditOf, RefundedOf
<1>5. \A n \in Notes : NoteCredit(n) = 0
    BY DEF BillingInit, NoteCredit
<1>6. \A a \in Adjustments : AdjustmentCredit(a) = 0
    BY DEF BillingInit, AdjustmentCredit
<1>7. \A r \in Refunds, p \in Payments : GivenBack(r, p) = 0
    BY DEF BillingInit, GivenBack
<1>8. /\ IsFiniteSet(Invoices) /\ IsFiniteSet(Payments) /\ IsFiniteSet(Refunds)
      /\ IsFiniteSet(Notes) /\ IsFiniteSet(Adjustments)
    BY DEF BillingAssumption
<1>9. InvoicesCredited
    BY <1>3, <1>4, <1>8, SumOfZeros DEF InvoicesCredited
<1>10. AccountCredited
    BY <1>3, <1>8, SumOfZeros DEF AccountCredited
<1>11. SumFunctionOnSet([n \in Notes |-> NoteCredit(n)], Notes) = 0
    BY <1>5, <1>8, SumOfZeros
<1>12. SumFunctionOnSet([a \in Adjustments |-> AdjustmentCredit(a)], Adjustments) = 0
    BY <1>6, <1>8, SumOfZeros
<1>13. BalanceIsLeft
    BY <1>3, <1>11, <1>12 DEF BalanceIsLeft
<1>14. PaymentsRefunded
    BY <1>3, <1>7, <1>8, SumOfZeros DEF PaymentsRefunded
<1>15. StatusTells
    BY <1>3 DEF StatusTells
<1>16. InvoicesRefunded
    BY <1>3, <1>4, <1>8, SumOfZeros DEF InvoicesRefunded
<1>17. AccountRefunded
    BY <1>3, <1>8, SumOfZeros DEF AccountRefunded
<1> QED
    BY <1>1, <1>2, <1>9, <1>10, <1>13, <1>14, <1>15, <1>16, <1>17, MoneyInParts DEF BillingInv

\* A step that moves none of what the sums add keeps them.
CreditsStay ==
  /\ account'.paid = account.paid
  /\ \A i \in Invoices : invoice'[i].paid = invoice[i].paid
  /\ \A p \in Payments, i \in Invoices : CreditOf(p, i)' = CreditOf(p, i)

BalanceStays ==
  /\ account'.credit = account.credit
  /\ \A n \in Notes : NoteCredit(n)' = NoteCredit(n)
  /\ \A a \in Adjustments : AdjustmentCredit(a)' = AdjustmentCredit(a)

RefundsStay ==
  /\ account'.refunded = account.refunded
  /\ \A i \in Invoices : invoice'[i].refunded = invoice[i].refunded
  /\ \A p \in Payments : payment'[p].refunded = payment[p].refunded
  /\ \A r \in Refunds, p \in Payments : GivenBack(r, p)' = GivenBack(r, p)
  /\ \A p \in Payments, i \in Invoices : RefundedOf(p, i)' = RefundedOf(p, i)

\* What has been paid stays the sum of what was approved when no addend moves.
LEMMA SteadyCredits ==
  ASSUME CreditsStay, InvoicesCredited, AccountCredited
  PROVE  InvoicesCredited' /\ AccountCredited'
<1>1. \A i \in Invoices : [p \in Payments |-> CreditOf(p, i)]' = [p \in Payments |-> CreditOf(p, i)]
    BY DEF CreditsStay
<1>2. [i \in Invoices |-> invoice[i].paid]' = [i \in Invoices |-> invoice[i].paid]
    BY DEF CreditsStay
<1>3. InvoicesCredited'
    BY <1>1 DEF CreditsStay, InvoicesCredited
<1>4. AccountCredited'
    BY <1>2 DEF CreditsStay, AccountCredited
<1> QED
    BY <1>3, <1>4

\* The balance stays the sum of notes and adjustments when none of them moves.
LEMMA SteadyBalance ==
  ASSUME BalanceStays, BalanceIsLeft
  PROVE  BalanceIsLeft'
<1>1. [n \in Notes |-> NoteCredit(n)]' = [n \in Notes |-> NoteCredit(n)]
    BY DEF BalanceStays
<1>2. [a \in Adjustments |-> AdjustmentCredit(a)]' = [a \in Adjustments |-> AdjustmentCredit(a)]
    BY DEF BalanceStays
<1> QED
    BY <1>1, <1>2 DEF BalanceStays, BalanceIsLeft

\* What has been refunded stays the sum of the refunds when none of them moves.
LEMMA SteadyRefunds ==
  ASSUME RefundsStay, PaymentsRefunded, InvoicesRefunded, AccountRefunded
  PROVE  PaymentsRefunded' /\ InvoicesRefunded' /\ AccountRefunded'
<1>1. \A p \in Payments : [r \in Refunds |-> GivenBack(r, p)]' = [r \in Refunds |-> GivenBack(r, p)]
    BY DEF RefundsStay
<1>2. \A i \in Invoices : [p \in Payments |-> RefundedOf(p, i)]' = [p \in Payments |-> RefundedOf(p, i)]
    BY DEF RefundsStay
<1>3. [i \in Invoices |-> invoice[i].refunded]' = [i \in Invoices |-> invoice[i].refunded]
    BY DEF RefundsStay
<1>4. PaymentsRefunded'
    BY <1>1 DEF RefundsStay, PaymentsRefunded
<1>5. InvoicesRefunded'
    BY <1>2 DEF RefundsStay, InvoicesRefunded
<1>6. AccountRefunded'
    BY <1>3 DEF RefundsStay, AccountRefunded
<1> QED
    BY <1>4, <1>5, <1>6

\* The rows of the tables, for BillingTypeOK one variable at a time.
InvoiceRows == [status : InvoiceStatus, total : Totals \cup {0}, paid : Nat, refunded : Nat, due : Nat]
PaymentRows == [status : PaymentStatus, invoice : Targets, amount : PaymentAmounts \cup {0},
                refunded : Nat, approved : BOOLEAN]
RefundRows == [status : {"absent", "PENDING", "APPROVED", "REJECTED", "PROCESSED"},
               payment : Payments, amount : RefundAmounts \cup {0}]
NoteRows == [status : {"absent", "ISSUED", "APPLIED", "VOID"}, amount : CreditAmounts \cup {0},
             target : Targets]
AdjustmentRows == [kind : {"absent", "CREDIT", "DEBIT"}, invoice : Targets, amount : CreditAmounts \cup {0}]
AccountRows == [paid : Nat, refunded : Nat, credit : Int]

BillingTables ==
  /\ invoice \in [Invoices -> InvoiceRows] /\ payment \in [Payments -> PaymentRows]
  /\ checked \subseteq {p \in Payments : payment[p].status \in {"PENDING", "ON_HOLD"}}
  /\ refund \in [Refunds -> RefundRows] /\ note \in [Notes -> NoteRows]
  /\ adjustment \in [Adjustments -> AdjustmentRows] /\ account \in AccountRows

\* The types of the billing, as the proofs use them, before and after a step.
LEMMA BillingTypesInParts == BillingTypeOK = BillingTables /\ BillingTypeOK' = BillingTables'
    BY DEF BillingTypeOK, BillingTables, InvoiceRows, PaymentRows, RefundRows, NoteRows, AdjustmentRows,
           AccountRows

\* What a payment or a refund writes to its invoice and to the account keeps their types.
LEMMA InvoiceTypes ==
  ASSUME invoice \in [Invoices -> InvoiceRows], account \in AccountRows,
         NEW i \in Targets, NEW a \in Nat
  PROVE  /\ ApplyPayment(i, a) => invoice' \in [Invoices -> InvoiceRows] /\ account' \in AccountRows
         /\ ReverseInvoice(i, a) => invoice' \in [Invoices -> InvoiceRows] /\ account' \in AccountRows
<1> USE BillingAssumption DEF InvoiceRows, AccountRows
<1>1. CASE i = NoInvoice
    BY <1>1 DEF ApplyPayment, ReverseInvoice
<1>2. CASE i # NoInvoice
  <2>0. i \in Invoices /\ invoice[i] \in InvoiceRows /\ Totals \cup {0} \subseteq Nat
      BY <1>2 DEF Targets
  <2>1. /\ i \in Invoices /\ invoice[i].total \in Nat /\ invoice[i].paid \in Nat
        /\ invoice[i].refunded \in Nat /\ invoice[i].due \in Nat /\ invoice[i].status \in InvoiceStatus
      BY <2>0
  <2>2. \A x \in Int : Open(x) \in Nat
      BY DEF Open
  <2>3. ApplyPayment(i, a) => invoice' \in [Invoices -> InvoiceRows] /\ account' \in AccountRows
    <3> DEFINE paid == invoice[i].paid + a
               due == invoice[i].total - paid - invoice[i].refunded
    <3>1. paid \in Nat /\ Open(due) \in Nat
        BY <2>1, <2>2
    <3>2. ApplyPayment(i, a) =>
            /\ invoice' = [invoice EXCEPT ![i] = [@ EXCEPT !.paid = paid, !.due = Open(due),
                             !.status = IF due <= 0 THEN "PAID" ELSE "PARTIALLY_PAID"]]
            /\ account' = [account EXCEPT !.paid = @ + a]
        BY <1>2 DEF ApplyPayment
    <3>3. (IF due <= 0 THEN "PAID" ELSE "PARTIALLY_PAID") \in InvoiceStatus
        BY DEF InvoiceStatus
    <3> DEFINE row == [invoice[i] EXCEPT !.paid = paid, !.due = Open(due),
                         !.status = IF due <= 0 THEN "PAID" ELSE "PARTIALLY_PAID"]
    <3>4. ApplyPayment(i, a) => invoice' = [invoice EXCEPT ![i] = row]
        BY <3>2
    <3>5. ApplyPayment(i, a) => account' \in AccountRows
        BY <3>2
    <3> HIDE DEF paid, due
    <3>6. row \in InvoiceRows
        BY <2>0, <3>1, <3>3
    <3> HIDE DEF row, InvoiceRows
    <3> QED
        BY <2>0, <3>4, <3>5, <3>6
  <2>4. ReverseInvoice(i, a) => invoice' \in [Invoices -> InvoiceRows] /\ account' \in AccountRows
    <3> DEFINE refunded == invoice[i].refunded + a
               due == invoice[i].total - invoice[i].paid + refunded
               status == IF refunded >= invoice[i].paid /\ invoice[i].paid > 0
                         THEN "REFUNDED" ELSE invoice[i].status
    <3>1. refunded \in Nat /\ Open(due) \in Nat
        BY <2>1, <2>2
    <3>2. ReverseInvoice(i, a) =>
            /\ invoice' = [invoice EXCEPT ![i] = [@ EXCEPT !.refunded = refunded, !.due = Open(due),
                             !.status = status]]
            /\ account' = [account EXCEPT !.refunded = @ + a]
        BY <1>2 DEF ReverseInvoice
    <3>3. status \in InvoiceStatus
        BY <2>1 DEF InvoiceStatus
    <3> DEFINE row == [invoice[i] EXCEPT !.refunded = refunded, !.due = Open(due), !.status = status]
    <3>4. ReverseInvoice(i, a) => invoice' = [invoice EXCEPT ![i] = row]
        BY <3>2
    <3>5. ReverseInvoice(i, a) => account' \in AccountRows
        BY <3>2
    <3> HIDE DEF refunded, due, status
    <3>6. row \in InvoiceRows
        BY <2>0, <3>1, <3>3
    <3> HIDE DEF row, InvoiceRows
    <3> QED
        BY <2>0, <3>4, <3>5, <3>6
  <2> QED
      BY <2>3, <2>4
<1> QED
    BY <1>1, <1>2

\* The steps that write one table.
LEMMA TableTypes ==
  ASSUME BillingTables
  PROVE  /\ \A i \in Invoices : CreateDraft(i) \/ Issue(i) \/ Void(i) \/ WriteOff(i) \/ MarkOverdue(i)
                                  => invoice' \in [Invoices -> InvoiceRows]
         /\ \A p \in Payments : RecordManual(p) \/ Reject(p) \/ Hold(p) \/ MarkFailed(p)
                                  => payment' \in [Payments -> PaymentRows]
         /\ \A r \in Refunds : CreateRefund(r) \/ ApproveRefund(r) \/ RejectRefund(r) \/ ProcessRefund(r)
                                 => refund' \in [Refunds -> RefundRows]
         /\ \A n \in Notes : IssueNote(n) \/ ApplyNote(n) \/ VoidNote(n) => note' \in [Notes -> NoteRows]
         /\ \A a \in Adjustments : CreateAdjustment(a) => adjustment' \in [Adjustments -> AdjustmentRows]
<1> USE DEF BillingTables
<1>1. ASSUME NEW i \in Invoices
      PROVE  CreateDraft(i) \/ Issue(i) \/ Void(i) \/ WriteOff(i) \/ MarkOverdue(i)
               => invoice' \in [Invoices -> InvoiceRows]
  <2> USE DEF InvoiceRows
  <2>1. CreateDraft(i) => invoice' \in [Invoices -> InvoiceRows]
    <3> SUFFICES ASSUME CreateDraft(i) PROVE invoice' \in [Invoices -> InvoiceRows]
        OBVIOUS
    <3>1. PICK t \in Totals :
            invoice' = [invoice EXCEPT ![i] = [@ EXCEPT !.status = "DRAFT", !.total = t, !.due = t]]
        BY DEF CreateDraft
    <3>2. t \in Nat /\ "DRAFT" \in InvoiceStatus
        BY BillingAssumption DEF InvoiceStatus
    <3> QED
        BY <3>1, <3>2
  <2>2. Issue(i) \/ MarkOverdue(i) => invoice' \in [Invoices -> InvoiceRows]
    <3>1. \A s \in {"PENDING", "OVERDUE"} :
            invoice' = [invoice EXCEPT ![i].status = s] => invoice' \in [Invoices -> InvoiceRows]
        BY DEF InvoiceStatus
    <3> QED
        BY <3>1 DEF Issue, MarkOverdue
  <2>3. Void(i) \/ WriteOff(i) => invoice' \in [Invoices -> InvoiceRows]
    <3> SUFFICES ASSUME Void(i) \/ WriteOff(i) PROVE invoice' \in [Invoices -> InvoiceRows]
        OBVIOUS
    <3>1. PICK s \in {"VOID", "WRITTEN_OFF"} : invoice' = [invoice EXCEPT ![i] = [@ EXCEPT !.status = s, !.due = 0]]
        BY DEF Void, WriteOff
    <3>2. s \in InvoiceStatus
        BY DEF InvoiceStatus
    <3> QED
        BY <3>1, <3>2
  <2> QED
      BY <2>1, <2>2, <2>3
<1>2. ASSUME NEW p \in Payments
      PROVE  RecordManual(p) \/ Reject(p) \/ Hold(p) \/ MarkFailed(p)
               => payment' \in [Payments -> PaymentRows]
  <2> USE DEF PaymentRows
  <2>1. RecordManual(p) => payment' \in [Payments -> PaymentRows]
    <3> SUFFICES ASSUME RecordManual(p) PROVE payment' \in [Payments -> PaymentRows]
        OBVIOUS
    <3>1. PICK i \in Targets, a \in PaymentAmounts :
            payment' = [payment EXCEPT ![p] = [@ EXCEPT !.status = "PENDING", !.invoice = i, !.amount = a]]
        BY DEF RecordManual
    <3>2. "PENDING" \in PaymentStatus
        BY DEF PaymentStatus
    <3> QED
        BY <3>1, <3>2
  <2>2. Reject(p) \/ Hold(p) \/ MarkFailed(p) => payment' \in [Payments -> PaymentRows]
      BY DEF Reject, Hold, MarkFailed, Settle, PaymentStatus
  <2> QED
      BY <2>1, <2>2
<1>3. ASSUME NEW r \in Refunds
      PROVE  CreateRefund(r) \/ ApproveRefund(r) \/ RejectRefund(r) \/ ProcessRefund(r)
               => refund' \in [Refunds -> RefundRows]
  <2> USE DEF RefundRows
  <2>1. CreateRefund(r) => refund' \in [Refunds -> RefundRows]
      BY DEF CreateRefund
  <2>2. ApproveRefund(r) \/ RejectRefund(r) \/ ProcessRefund(r) => refund' \in [Refunds -> RefundRows]
      BY DEF ApproveRefund, RejectRefund, ProcessRefund
  <2> QED
      BY <2>1, <2>2
<1>4. ASSUME NEW n \in Notes
      PROVE  IssueNote(n) \/ ApplyNote(n) \/ VoidNote(n) => note' \in [Notes -> NoteRows]
  <2> USE DEF NoteRows
  <2>1. IssueNote(n) => note' \in [Notes -> NoteRows]
    <3> SUFFICES ASSUME IssueNote(n) PROVE note' \in [Notes -> NoteRows]
        OBVIOUS
    <3>1. PICK a \in CreditAmounts : note' = [note EXCEPT ![n] = [@ EXCEPT !.status = "ISSUED", !.amount = a]]
        BY DEF IssueNote
    <3> QED
        BY <3>1
  <2>2. ApplyNote(n) => note' \in [Notes -> NoteRows]
    <3> SUFFICES ASSUME ApplyNote(n) PROVE note' \in [Notes -> NoteRows]
        OBVIOUS
    <3>1. PICK i \in Targets : note' = [note EXCEPT ![n] = [@ EXCEPT !.status = "APPLIED", !.target = i]]
        BY DEF ApplyNote
    <3> QED
        BY <3>1
  <2>3. VoidNote(n) => note' \in [Notes -> NoteRows]
      BY DEF VoidNote
  <2> QED
      BY <2>1, <2>2, <2>3
<1>5. ASSUME NEW a \in Adjustments
      PROVE  CreateAdjustment(a) => adjustment' \in [Adjustments -> AdjustmentRows]
  <2>1. CreateAdjustment(a) =>
          \E k \in {"CREDIT", "DEBIT"}, x \in CreditAmounts, i \in Targets :
            adjustment' = [adjustment EXCEPT ![a] = [kind |-> k, invoice |-> i, amount |-> x]]
      BY DEF CreateAdjustment
  <2> QED
      BY <2>1 DEF AdjustmentRows
<1> QED
    BY <1>1, <1>2, <1>3, <1>4, <1>5

\* The steps that write the balance of the account or the open amount of an invoice.
LEMMA BalanceTypes ==
  ASSUME BillingTables
  PROVE  /\ \A n \in Notes : ApplyNote(n) \/ VoidNote(n) => account' \in AccountRows
         /\ \A n \in Notes : ApplyNote(n) => invoice' \in [Invoices -> InvoiceRows]
         /\ \A a \in Adjustments : CreateAdjustment(a) => /\ account' \in AccountRows
                                                          /\ invoice' \in [Invoices -> InvoiceRows]
<1> USE DEF BillingTables
<1>1. /\ \A n \in Notes : note[n].amount \in Int
      /\ CreditAmounts \subseteq Int
    BY BillingAssumption DEF NoteRows
<1>2. \A x \in Int : Open(x) \in Nat
    BY DEF Open
<1>3. \A x \in Int : [account EXCEPT !.credit = @ + x] \in AccountRows /\
        [account EXCEPT !.credit = @ - x] \in AccountRows
    BY DEF AccountRows
<1>4. \A i \in Invoices : invoice[i].due \in Int /\ invoice[i].status \in InvoiceStatus
    BY DEF InvoiceRows
<1>5. ASSUME NEW n \in Notes, ApplyNote(n)
      PROVE  account' \in AccountRows /\ invoice' \in [Invoices -> InvoiceRows]
  <2>1. PICK i \in Targets :
          IF i = NoInvoice
          THEN /\ account' = [account EXCEPT !.credit = @ + note[n].amount]
               /\ UNCHANGED invoice
          ELSE /\ invoice' = [invoice EXCEPT ![i] = [@ EXCEPT !.due = Open(invoice[i].due - note[n].amount),
                     !.status = IF invoice[i].due <= note[n].amount THEN "PAID" ELSE invoice[i].status]]
               /\ UNCHANGED account
      BY <1>5 DEF ApplyNote
  <2>2. CASE i = NoInvoice
      BY <2>1, <2>2, <1>1, <1>3
  <2>3. CASE i # NoInvoice
    <3> DEFINE due == Open(invoice[i].due - note[n].amount)
               s == IF invoice[i].due <= note[n].amount THEN "PAID" ELSE invoice[i].status
    <3>1. i \in Invoices
        BY <2>3 DEF Targets
    <3>2. due \in Nat /\ s \in InvoiceStatus
        BY <3>1, <1>1, <1>2, <1>4 DEF InvoiceStatus
    <3>3. invoice' = [invoice EXCEPT ![i] = [@ EXCEPT !.due = due, !.status = s]]
        BY <2>1, <2>3
    <3> HIDE DEF due, s
    <3>4. invoice' \in [Invoices -> InvoiceRows]
        BY <3>1, <3>2, <3>3 DEF InvoiceRows
    <3> QED
        BY <2>1, <2>3, <3>4
  <2> QED
      BY <2>2, <2>3
<1>6. ASSUME NEW n \in Notes, VoidNote(n)
      PROVE  account' \in AccountRows
  <2>1. account' = [account EXCEPT !.credit = @ - note[n].amount] \/ account' = account
      BY <1>6 DEF VoidNote, AccountRows
  <2> QED
      BY <2>1, <1>1, <1>3
<1>7. ASSUME NEW a \in Adjustments, CreateAdjustment(a)
      PROVE  account' \in AccountRows /\ invoice' \in [Invoices -> InvoiceRows]
  <2>1. PICK k \in {"CREDIT", "DEBIT"}, x \in CreditAmounts, i \in Targets :
          LET credit == IF k = "CREDIT" THEN x ELSE -x
          IN IF i = NoInvoice
             THEN /\ account' = [account EXCEPT !.credit = @ + credit]
                  /\ UNCHANGED invoice
             ELSE /\ invoice' = [invoice EXCEPT ![i].due = Open(@ - credit)]
                  /\ UNCHANGED account
      BY <1>7 DEF CreateAdjustment
  <2> DEFINE credit == IF k = "CREDIT" THEN x ELSE -x
  <2>2. credit \in Int
      BY <1>1
  <2>3. CASE i = NoInvoice
      BY <2>1, <2>2, <2>3, <1>3
  <2>4. CASE i # NoInvoice
    <3> DEFINE due == Open(invoice[i].due - credit)
    <3>1. i \in Invoices
        BY <2>4 DEF Targets
    <3>2. due \in Nat
        BY <3>1, <2>2, <1>2, <1>4
    <3>3. invoice' = [invoice EXCEPT ![i].due = due]
        BY <2>1, <2>4
    <3> HIDE DEF due
    <3>4. invoice' \in [Invoices -> InvoiceRows]
        BY <3>1, <3>2, <3>3 DEF InvoiceRows
    <3> QED
        BY <2>1, <2>4, <3>4
  <2> QED
      BY <2>3, <2>4
<1> QED
    BY <1>5, <1>6, <1>7

Decided == PaymentStatus \ {"absent", "PENDING", "ON_HOLD"}

\* What a refund that is processed writes to its payment.
LEMMA PaymentReversed ==
  ASSUME BillingTables, RowsBegin, NEW r \in Refunds, ProcessRefund(r)
  PROVE  \E refunded \in Nat, status \in {"REFUNDED", "PARTIALLY_REFUNDED"} :
           LET p == refund[r].payment IN
             /\ refunded = payment[p].refunded + refund[r].amount
             /\ refunded > 0
             /\ status = "REFUNDED" <=> refunded >= payment[p].amount
             /\ p \in Payments /\ p \notin checked
             /\ payment' = [payment EXCEPT ![p] = [@ EXCEPT !.refunded = refunded, !.status = status]]
<1> DEFINE p == refund[r].payment
           refunded == payment[p].refunded + refund[r].amount
           status == IF refunded >= payment[p].amount THEN "REFUNDED" ELSE "PARTIALLY_REFUNDED"
<1>1. p \in Payments
    BY DEF BillingTables, RefundRows
<1>2. /\ refund[r].status = "APPROVED"
      /\ payment' = [payment EXCEPT ![p] = [@ EXCEPT !.refunded = refunded, !.status = status]]
    BY DEF ProcessRefund, ReversePayment
<1>3. refund[r].amount \in RefundAmounts /\ payment[p].status \notin {"absent", "PENDING", "ON_HOLD"}
    BY <1>2 DEF RowsBegin
<1>4. refund[r].amount \in Nat \ {0}
    BY <1>3, BillingAssumption
<1>5. payment[p].refunded \in Nat
    BY <1>1 DEF BillingTables, PaymentRows
<1>6. refunded \in Nat /\ refunded > 0
    BY <1>4, <1>5
<1>7. p \notin checked
    BY <1>1, <1>3 DEF BillingTables
<1>8. status \in {"REFUNDED", "PARTIALLY_REFUNDED"} /\ (status = "REFUNDED" <=> refunded >= payment[p].amount)
    OBVIOUS
<1> QED
    BY <1>1, <1>2, <1>6, <1>7, <1>8

\* Every step keeps the types.
LEMMA BillingTypesStay ==
  ASSUME BillingTables, RowsBegin, [BillingNext]_billingVars
  PROVE  BillingTables'
<1> USE DEF BillingTables
<1>1. CASE UNCHANGED billingVars
    BY <1>1 DEF billingVars
<1>2. ASSUME NEW i \in Invoices,
             CreateDraft(i) \/ Issue(i) \/ Void(i) \/ WriteOff(i) \/ MarkOverdue(i)
      PROVE  BillingTables'
  <2>1. invoice' \in [Invoices -> InvoiceRows]
      BY <1>2, TableTypes
  <2>2. UNCHANGED <<payment, checked, refund, note, adjustment, account>>
      BY <1>2 DEF CreateDraft, Issue, Void, WriteOff, MarkOverdue
  <2> QED
      BY <2>1, <2>2
<1>3. ASSUME NEW p \in Payments, RecordManual(p) \/ Reject(p) \/ Hold(p) \/ MarkFailed(p)
      PROVE  BillingTables'
  <2>1. payment' \in [Payments -> PaymentRows]
      BY <1>3, TableTypes
  <2>2. UNCHANGED <<invoice, refund, note, adjustment, account>>
      BY <1>3 DEF RecordManual, Reject, Hold, MarkFailed, Settle
  <2>3. checked' \subseteq checked \ {p} /\ \A q \in Payments \ {p} : payment'[q] = payment[q]
    <3>1. CASE RecordManual(p)
      <4>1. p \notin checked /\ checked' = checked
          BY <3>1 DEF RecordManual
      <4> QED
          BY <3>1, <4>1 DEF RecordManual
    <3>2. CASE Reject(p) \/ Hold(p) \/ MarkFailed(p)
        BY <3>2 DEF Reject, Hold, MarkFailed, Settle
    <3> QED
        BY <1>3, <3>1, <3>2
  <2>4. checked' \subseteq {q \in Payments : payment'[q].status \in {"PENDING", "ON_HOLD"}}
      BY <2>3
  <2> QED
      BY <2>1, <2>2, <2>4
<1>4. ASSUME NEW p \in Payments, ApproveCheck(p)
      PROVE  BillingTables'
    BY <1>4 DEF ApproveCheck
<1>5. ASSUME NEW p \in Payments, Approve(p)
      PROVE  BillingTables'
  <2>1. payment[p].invoice \in Targets /\ payment[p].amount \in Nat
      BY BillingAssumption DEF PaymentRows
  <2>2. invoice' \in [Invoices -> InvoiceRows] /\ account' \in AccountRows
      BY <1>5, <2>1, InvoiceTypes DEF Approve
  <2>3. /\ payment' = [payment EXCEPT ![p] = [@ EXCEPT !.status = "APPROVED", !.approved = TRUE]]
        /\ checked' = checked \ {p}
        /\ UNCHANGED <<refund, note, adjustment>>
      BY <1>5 DEF Approve
  <2>4. "APPROVED" \in PaymentStatus
      BY DEF PaymentStatus
  <2>5. payment' \in [Payments -> PaymentRows]
      BY <2>3, <2>4 DEF PaymentRows
  <2>6. checked' \subseteq {q \in Payments : payment'[q].status \in {"PENDING", "ON_HOLD"}}
      BY <2>3
  <2> QED
      BY <2>2, <2>3, <2>5, <2>6
<1>6. ASSUME NEW r \in Refunds, CreateRefund(r) \/ ApproveRefund(r) \/ RejectRefund(r)
      PROVE  BillingTables'
  <2>1. refund' \in [Refunds -> RefundRows]
      BY <1>6, TableTypes
  <2>2. UNCHANGED <<invoice, payment, checked, note, adjustment, account>>
      BY <1>6 DEF CreateRefund, ApproveRefund, RejectRefund
  <2> QED
      BY <2>1, <2>2
<1>7. ASSUME NEW r \in Refunds, ProcessRefund(r)
      PROVE  BillingTables'
  <2> DEFINE p == refund[r].payment
  <2>1. PICK refunded \in Nat, status \in {"REFUNDED", "PARTIALLY_REFUNDED"} :
          /\ p \in Payments /\ p \notin checked
          /\ payment' = [payment EXCEPT ![p] = [@ EXCEPT !.refunded = refunded, !.status = status]]
      BY <1>7, PaymentReversed
  <2>2. status \in PaymentStatus
      BY DEF PaymentStatus
  <2>3. payment[p].invoice \in Targets /\ refund[r].amount \in Nat
      BY <2>1, BillingAssumption DEF PaymentRows, RefundRows
  <2>4. refund' \in [Refunds -> RefundRows]
      BY <1>7, TableTypes
  <2>5. /\ ReverseInvoice(payment[p].invoice, refund[r].amount)
        /\ UNCHANGED <<checked, note, adjustment>>
      BY <1>7 DEF ProcessRefund
  <2> HIDE DEF p
  <2>6. payment' \in [Payments -> PaymentRows]
      BY <2>1, <2>2 DEF PaymentRows
  <2>7. invoice' \in [Invoices -> InvoiceRows] /\ account' \in AccountRows
      BY <2>3, <2>5, InvoiceTypes
  <2>8. checked' \subseteq {q \in Payments : payment'[q].status \in {"PENDING", "ON_HOLD"}}
      BY <2>1, <2>5
  <2> QED
      BY <2>4, <2>5, <2>6, <2>7, <2>8
<1>8. ASSUME NEW n \in Notes, IssueNote(n) \/ ApplyNote(n) \/ VoidNote(n)
      PROVE  BillingTables'
  <2>1. note' \in [Notes -> NoteRows]
      BY <1>8, TableTypes
  <2>2. invoice' \in [Invoices -> InvoiceRows] /\ account' \in AccountRows
      BY <1>8, BalanceTypes DEF IssueNote, VoidNote
  <2>3. UNCHANGED <<payment, checked, refund, adjustment>>
      BY <1>8 DEF IssueNote, ApplyNote, VoidNote
  <2> QED
      BY <2>1, <2>2, <2>3
<1>9. ASSUME NEW a \in Adjustments, CreateAdjustment(a)
      PROVE  BillingTables'
  <2>1. /\ adjustment' \in [Adjustments -> AdjustmentRows]
        /\ invoice' \in [Invoices -> InvoiceRows] /\ account' \in AccountRows
      BY <1>9, TableTypes, BalanceTypes
  <2>2. UNCHANGED <<payment, checked, refund, note>>
      BY <1>9 DEF CreateAdjustment
  <2> QED
      BY <2>1, <2>2
<1> QED
    BY <1>1, <1>2, <1>3, <1>4, <1>5, <1>6, <1>7, <1>8, <1>9 DEF BillingNext

\* No step takes a payment back to a status before its approval.
LEMMA RowsStayBegun ==
  ASSUME BillingTables, RowsBegin, [BillingNext]_billingVars
  PROVE  RowsBegin'
<1> DEFINE Early == {"absent", "PENDING", "ON_HOLD"}
<1>1. /\ \A p \in Payments : payment[p].approved => payment[p].status \notin Early
      /\ \A r \in Refunds : refund[r].status # "absent" =>
           refund[r].amount \in RefundAmounts /\ payment[refund[r].payment].status \notin Early
      /\ \A a \in Adjustments : adjustment[a].kind = "absent" => adjustment[a].amount = 0
    BY DEF RowsBegin
<1>2. \A r \in Refunds : refund[r].payment \in Payments
    BY DEF BillingTables, RefundRows
<1>3. \A p \in Payments : payment[p].status \notin Early => payment'[p].status \notin Early
  <2> SUFFICES ASSUME NEW q \in Payments, payment[q].status \notin Early
               PROVE  payment'[q].status \notin Early
      OBVIOUS
  <2>1. CASE UNCHANGED payment
      BY <2>1
  <2>2. ASSUME NEW p \in Payments, NEW s \in PaymentStatus \ Early,
               payment'[p].status = s /\ \A x \in Payments \ {p} : payment'[x] = payment[x]
        PROVE  payment'[q].status \notin Early
      BY <2>2
  <2>3. ASSUME NEW p \in Payments, Approve(p) \/ MarkFailed(p) \/ Reject(p)
        PROVE  payment'[q].status \notin Early
    <3>1. /\ payment'[p].status \in PaymentStatus \ Early
          /\ \A x \in Payments \ {p} : payment'[x] = payment[x]
      <4>1. CASE Approve(p)
          BY <4>1 DEF BillingTables, PaymentRows, PaymentStatus, Approve
      <4>2. CASE MarkFailed(p) \/ Reject(p)
          BY <4>2 DEF BillingTables, PaymentRows, PaymentStatus, MarkFailed, Reject, Settle
      <4> QED
          BY <2>3, <4>1, <4>2
    <3> QED
        BY <2>2, <3>1
  <2>4. ASSUME NEW p \in Payments, RecordManual(p) \/ Hold(p)
        PROVE  payment'[q].status \notin Early
    <3>1. p # q
        BY <2>4 DEF RecordManual, Hold
    <3>2. payment'[q] = payment[q]
        BY <2>4, <3>1 DEF BillingTables, RecordManual, Hold, Settle
    <3> QED
        BY <3>2
  <2>5. ASSUME NEW r \in Refunds, ProcessRefund(r)
        PROVE  payment'[q].status \notin Early
    <3>1. PICK p \in Payments, s \in {"REFUNDED", "PARTIALLY_REFUNDED"}, x \in Nat :
            payment' = [payment EXCEPT ![p] = [@ EXCEPT !.refunded = x, !.status = s]]
        BY <2>5, PaymentReversed
    <3>2. payment'[p].status \in PaymentStatus \ Early /\ \A y \in Payments \ {p} : payment'[y] = payment[y]
        BY <3>1 DEF BillingTables, PaymentRows, PaymentStatus
    <3> QED
        BY <2>2, <3>2
  <2> QED
      BY <2>1, <2>3, <2>4, <2>5
      DEF BillingNext, billingVars, CreateDraft, Issue, Void, WriteOff, MarkOverdue, ApproveCheck,
          CreateRefund,
          ApproveRefund, RejectRefund, IssueNote, ApplyNote, VoidNote, CreateAdjustment
<1>4. \A p \in Payments : payment'[p].approved => payment'[p].status \notin Early
  <2> SUFFICES ASSUME NEW q \in Payments, payment'[q].approved
               PROVE  payment'[q].status \notin Early
      OBVIOUS
  <2>1. CASE payment[q].approved
      BY <2>1, <1>1, <1>3
  <2>2. CASE ~payment[q].approved
    <3>1. ASSUME NEW p \in Payments, Approve(p)
          PROVE  payment'[q].status \notin Early
      <4>1. payment' = [payment EXCEPT ![p] = [@ EXCEPT !.status = "APPROVED", !.approved = TRUE]]
          BY <3>1 DEF Approve
      <4>2. q = p
          BY <4>1, <2>2 DEF BillingTables
      <4> QED
          BY <4>1, <4>2 DEF BillingTables, PaymentRows
    <3>2. ASSUME NEW p \in Payments, RecordManual(p) \/ Reject(p) \/ Hold(p) \/ MarkFailed(p)
          PROVE  FALSE
      <4>1. CASE RecordManual(p)
        <5>1. PICK i \in Targets, a \in PaymentAmounts :
                payment' = [payment EXCEPT ![p] = [@ EXCEPT !.status = "PENDING", !.invoice = i, !.amount = a]]
            BY <4>1 DEF RecordManual
        <5> QED
            BY <5>1, <2>2 DEF BillingTables, PaymentRows
      <4>2. CASE Reject(p) \/ Hold(p) \/ MarkFailed(p)
        <5>1. PICK s \in {"REJECTED", "ON_HOLD", "FAILED"} : payment' = [payment EXCEPT ![p].status = s]
            BY <4>2 DEF Reject, Hold, MarkFailed, Settle
        <5> QED
            BY <5>1, <2>2 DEF BillingTables, PaymentRows
      <4> QED
          BY <3>2, <4>1, <4>2
    <3>3. ASSUME NEW r \in Refunds, ProcessRefund(r)
          PROVE  FALSE
      <4>1. PICK p \in Payments, s \in {"REFUNDED", "PARTIALLY_REFUNDED"}, x \in Nat :
              payment' = [payment EXCEPT ![p] = [@ EXCEPT !.refunded = x, !.status = s]]
          BY <3>3, PaymentReversed
      <4> QED
          BY <4>1, <2>2 DEF BillingTables, PaymentRows
    <3>4. payment' # payment
        BY <2>2
    <3> QED
        BY <3>1, <3>2, <3>3, <3>4
        DEF BillingNext, billingVars, CreateDraft, Issue, Void, WriteOff, MarkOverdue, ApproveCheck,
            CreateRefund,
            ApproveRefund, RejectRefund, IssueNote, ApplyNote, VoidNote, CreateAdjustment
  <2> QED
      BY <2>1, <2>2
<1>5. ASSUME NEW r \in Refunds, refund'[r].status # "absent"
      PROVE  refund'[r].amount \in RefundAmounts /\ payment'[refund'[r].payment].status \notin Early
  <2>1. CASE refund[r].status # "absent" /\ refund'[r].amount = refund[r].amount
             /\ refund'[r].payment = refund[r].payment
      BY <2>1, <1>1, <1>2, <1>3
  <2>2. ASSUME NEW x \in Refunds, CreateRefund(x)
        PROVE  \/ refund'[r] = refund[r]
               \/ refund'[r].amount \in RefundAmounts /\ payment'[refund'[r].payment].status \notin Early
    <3>1. PICK p \in Payments, a \in RefundAmounts :
            /\ payment[p].status \in {"APPROVED", "PARTIALLY_REFUNDED"} /\ payment' = payment
            /\ refund' = [refund EXCEPT ![x] = [status |-> "PENDING", payment |-> p, amount |-> a]]
        BY <2>2 DEF CreateRefund
    <3> QED
        BY <3>1 DEF BillingTables
  <2>3. ASSUME NEW x \in Refunds, ApproveRefund(x) \/ RejectRefund(x) \/ ProcessRefund(x)
        PROVE  /\ refund[r].status # "absent" /\ refund'[r].amount = refund[r].amount
               /\ refund'[r].payment = refund[r].payment
      BY <2>3, <1>5 DEF BillingTables, RefundRows, ApproveRefund, RejectRefund, ProcessRefund
  <2>4. refund' # refund => \E x \in Refunds : CreateRefund(x) \/ ApproveRefund(x) \/ RejectRefund(x) \/
          ProcessRefund(x)
      BY DEF BillingNext, billingVars, CreateDraft, Issue, Void, WriteOff, MarkOverdue, RecordManual,
             ApproveCheck, Approve, Reject, Hold, MarkFailed, Settle, IssueNote, ApplyNote, VoidNote,
             CreateAdjustment
  <2> QED
      BY <1>5, <2>1, <2>2, <2>3, <2>4
<1>6. ASSUME NEW a \in Adjustments, adjustment'[a].kind = "absent"
      PROVE  adjustment'[a].amount = 0
  <2>1. ASSUME NEW x \in Adjustments, CreateAdjustment(x)
        PROVE  adjustment'[a] = adjustment[a]
      BY <2>1, <1>6 DEF BillingTables, CreateAdjustment
  <2>2. adjustment' # adjustment => \E x \in Adjustments : CreateAdjustment(x)
      BY DEF BillingNext, billingVars, CreateDraft, Issue, Void, WriteOff, MarkOverdue, RecordManual,
             ApproveCheck, Approve, Reject, Hold, MarkFailed, Settle, CreateRefund, ApproveRefund, RejectRefund,
             ProcessRefund, IssueNote, ApplyNote, VoidNote
  <2> QED
      BY <1>1, <1>6, <2>1, <2>2
<1> QED
    BY <1>4, <1>5, <1>6 DEF RowsBegin

\* The values that are added are integers.
LEMMA CreditValues ==
  ASSUME BillingTables
  PROVE  /\ \A p \in Payments, i \in Invoices : CreditOf(p, i) \in Nat /\ RefundedOf(p, i) \in Nat
         /\ \A n \in Notes : NoteCredit(n) \in Int
         /\ \A a \in Adjustments : AdjustmentCredit(a) \in Int
         /\ \A r \in Refunds, p \in Payments : GivenBack(r, p) \in Nat
         /\ \A p \in Payments : payment[p].amount \in Nat /\ payment[p].refunded \in Nat /\
              payment[p].invoice \in Targets
         /\ \A r \in Refunds : refund[r].amount \in Nat /\ refund[r].payment \in Payments
         /\ \A n \in Notes : note[n].amount \in Nat
         /\ \A a \in Adjustments : adjustment[a].amount \in Nat
         /\ \A i \in Invoices : invoice[i].paid \in Nat /\ invoice[i].refunded \in Nat
         /\ account.paid \in Nat /\ account.refunded \in Nat /\ account.credit \in Int
<1>1. /\ PaymentAmounts \cup {0} \subseteq Nat /\ RefundAmounts \cup {0} \subseteq Nat
      /\ CreditAmounts \cup {0} \subseteq Nat
    BY BillingAssumption
<1>2. \A p \in Payments : payment[p].amount \in Nat /\ payment[p].refunded \in Nat /\ payment[p].invoice \in Targets
    BY <1>1 DEF BillingTables, PaymentRows
<1>3. \A r \in Refunds : refund[r].amount \in Nat /\ refund[r].payment \in Payments
    BY <1>1 DEF BillingTables, RefundRows
<1>4. \A n \in Notes : note[n].amount \in Nat
    BY <1>1 DEF BillingTables, NoteRows
<1>5. \A a \in Adjustments : adjustment[a].amount \in Nat
    BY <1>1 DEF BillingTables, AdjustmentRows
<1>6. /\ \A i \in Invoices : invoice[i].paid \in Nat /\ invoice[i].refunded \in Nat
      /\ account.paid \in Nat /\ account.refunded \in Nat /\ account.credit \in Int
    BY DEF BillingTables, InvoiceRows, AccountRows
<1> QED
    BY <1>2, <1>3, <1>4, <1>5, <1>6 DEF CreditOf, RefundedOf, NoteCredit, AdjustmentCredit, GivenBack

\* Steps that move no money.
Quiet ==
  \/ \E i \in Invoices : CreateDraft(i) \/ Issue(i) \/ Void(i) \/ WriteOff(i) \/ MarkOverdue(i)
  \/ \E p \in Payments : RecordManual(p) \/ ApproveCheck(p) \/ Reject(p) \/ Hold(p) \/ MarkFailed(p)
  \/ \E r \in Refunds : CreateRefund(r) \/ ApproveRefund(r) \/ RejectRefund(r)
  \/ \E n \in Notes : IssueNote(n)
  \/ UNCHANGED billingVars

\* A step that moves no money leaves every addend of every sum alone.
LEMMA QuietSteps ==
  ASSUME BillingTables, RowsBegin, StatusTells, Quiet
  PROVE  CreditsStay /\ BalanceStays /\ RefundsStay
<1> USE DEF CreditsStay, BalanceStays, RefundsStay, CreditOf, NoteCredit, AdjustmentCredit, GivenBack, RefundedOf
<1>1. ASSUME NEW i \in Invoices, CreateDraft(i) \/ Issue(i) \/ Void(i) \/ WriteOff(i) \/ MarkOverdue(i)
      PROVE  CreditsStay /\ BalanceStays /\ RefundsStay
  <2>1. \A x \in Invoices : invoice'[x].paid = invoice[x].paid /\ invoice'[x].refunded = invoice[x].refunded
    <3>1. CASE CreateDraft(i)
      <4>1. PICK t \in Totals :
              invoice' = [invoice EXCEPT ![i] = [@ EXCEPT !.status = "DRAFT", !.total = t, !.due = t]]
          BY <3>1 DEF CreateDraft
      <4> QED
          BY <4>1 DEF BillingTables, InvoiceRows
    <3>2. CASE Issue(i) \/ MarkOverdue(i)
        BY <3>2 DEF BillingTables, InvoiceRows, Issue, MarkOverdue
    <3>3. CASE Void(i) \/ WriteOff(i)
      <4>1. PICK s \in {"VOID", "WRITTEN_OFF"} :
              invoice' = [invoice EXCEPT ![i] = [@ EXCEPT !.status = s, !.due = 0]]
          BY <3>3 DEF Void, WriteOff
      <4> QED
          BY <4>1 DEF BillingTables, InvoiceRows
    <3> QED
        BY <1>1, <3>1, <3>2, <3>3
  <2>2. UNCHANGED <<payment, refund, note, adjustment, account>>
      BY <1>1 DEF CreateDraft, Issue, Void, WriteOff, MarkOverdue
  <2> QED
      BY <2>1, <2>2
<1>2. ASSUME NEW p \in Payments, RecordManual(p)
      PROVE  CreditsStay /\ BalanceStays /\ RefundsStay
  <2>1. PICK i \in Targets, a \in PaymentAmounts :
          payment' = [payment EXCEPT ![p] = [@ EXCEPT !.status = "PENDING", !.invoice = i, !.amount = a]]
      BY <1>2 DEF RecordManual
  <2>2. payment[p].status = "absent" /\ UNCHANGED <<invoice, refund, note, adjustment, account>>
      BY <1>2 DEF RecordManual
  <2>3. ~payment[p].approved
      BY <2>2 DEF RowsBegin
  <2>4. payment[p].refunded = 0
    <3>1. payment[p].refunded \in Nat /\ payment[p].amount \in Nat
        BY CreditValues
    <3>2. payment[p].refunded \notin 1 .. payment[p].amount - 1
        BY <2>2 DEF StatusTells
    <3>3. ~(payment[p].refunded > 0 /\ payment[p].refunded >= payment[p].amount)
        BY <2>2 DEF StatusTells
    <3> QED
        BY <3>1, <3>2, <3>3
  <2>5. /\ \A q \in Payments \ {p} : payment'[q] = payment[q]
        /\ payment'[p].refunded = 0 /\ ~payment'[p].approved
      BY <2>1, <2>3, <2>4 DEF BillingTables, PaymentRows
  <2> QED
      BY <2>2, <2>3, <2>4, <2>5
<1>3. ASSUME NEW p \in Payments, Reject(p) \/ Hold(p) \/ MarkFailed(p)
      PROVE  CreditsStay /\ BalanceStays /\ RefundsStay
  <2>1. PICK s \in {"REJECTED", "ON_HOLD", "FAILED"} : payment' = [payment EXCEPT ![p].status = s]
      BY <1>3 DEF Reject, Hold, MarkFailed, Settle
  <2>2. UNCHANGED <<invoice, refund, note, adjustment, account>>
      BY <1>3 DEF Reject, Hold, MarkFailed, Settle
  <2>3. \A q \in Payments : /\ payment'[q].refunded = payment[q].refunded
                            /\ payment'[q].approved = payment[q].approved
                            /\ payment'[q].amount = payment[q].amount
                            /\ payment'[q].invoice = payment[q].invoice
      BY <2>1 DEF BillingTables, PaymentRows
  <2> QED
      BY <2>2, <2>3
<1>4. ASSUME NEW p \in Payments, ApproveCheck(p)
      PROVE  CreditsStay /\ BalanceStays /\ RefundsStay
    BY <1>4 DEF ApproveCheck
<1>5. ASSUME NEW r \in Refunds, CreateRefund(r) \/ ApproveRefund(r) \/ RejectRefund(r)
      PROVE  CreditsStay /\ BalanceStays /\ RefundsStay
  <2>1. UNCHANGED <<invoice, payment, note, adjustment, account>>
      BY <1>5 DEF CreateRefund, ApproveRefund, RejectRefund
  <2>2. /\ \A x \in Refunds \ {r} : refund'[x] = refund[x]
        /\ refund[r].status # "PROCESSED" /\ refund'[r].status # "PROCESSED"
      BY <1>5 DEF BillingTables, RefundRows, CreateRefund, ApproveRefund, RejectRefund
  <2> QED
      BY <2>1, <2>2
<1>6. ASSUME NEW n \in Notes, IssueNote(n)
      PROVE  CreditsStay /\ BalanceStays /\ RefundsStay
  <2>1. PICK a \in CreditAmounts : note' = [note EXCEPT ![n] = [@ EXCEPT !.status = "ISSUED", !.amount = a]]
      BY <1>6 DEF IssueNote
  <2>2. note[n].status = "absent" /\ UNCHANGED <<invoice, payment, refund, adjustment, account>>
      BY <1>6 DEF IssueNote
  <2>3. (\A x \in Notes \ {n} : note'[x] = note[x]) /\ note'[n].status # "APPLIED"
      BY <2>1 DEF BillingTables, NoteRows
  <2> QED
      BY <2>2, <2>3
<1>7. CASE UNCHANGED billingVars
    BY <1>7 DEF billingVars
<1> QED
    BY <1>1, <1>2, <1>3, <1>4, <1>5, <1>6, <1>7 DEF Quiet

\* An approval credits what the payment adds to the sums.
LEMMA ApprovalCredits ==
  ASSUME BillingTables, RowsBegin, InvoicesCredited, AccountCredited, NEW p \in Payments, Approve(p)
  PROVE  InvoicesCredited' /\ AccountCredited' /\ BalanceStays /\ RefundsStay
<1> DEFINE i == payment[p].invoice
           a == payment[p].amount
<1>1. /\ payment' = [payment EXCEPT ![p] = [@ EXCEPT !.status = "APPROVED", !.approved = TRUE]]
      /\ ApplyPayment(i, a)
      /\ UNCHANGED <<refund, note, adjustment>>
    BY DEF Approve
<1>2. p \in checked
    BY DEF Approve
<1>3. ~payment[p].approved
    BY <1>2 DEF BillingTables, RowsBegin
<1>4. a \in Nat /\ i \in Targets
    BY CreditValues
<1>5. /\ \A q \in Payments : /\ payment'[q].refunded = payment[q].refunded
                             /\ payment'[q].invoice = payment[q].invoice
                             /\ payment'[q].amount = payment[q].amount
      /\ \A q \in Payments \ {p} : payment'[q].approved = payment[q].approved
      /\ payment'[p].approved
    BY <1>1 DEF BillingTables, PaymentRows
<1>6. /\ \A q \in Payments \ {p}, x \in Invoices : CreditOf(q, x)' = CreditOf(q, x)
      /\ \A x \in Invoices : CreditOf(p, x) = 0 /\ CreditOf(p, x)' = IF i = x THEN a ELSE 0
    BY <1>3, <1>5 DEF CreditOf
<1> HIDE DEF i, a
<1>7. /\ \A x \in Invoices : /\ invoice'[x].refunded = invoice[x].refunded
                             /\ invoice'[x].paid = invoice[x].paid + IF i = x THEN a ELSE 0
      /\ account'.paid = account.paid + IF i \in Invoices THEN a ELSE 0
      /\ account'.refunded = account.refunded /\ account'.credit = account.credit
  <2>1. CASE i = NoInvoice
    <3>1. i \notin Invoices /\ invoice' = invoice /\ account' = account
        BY <1>1, <2>1, BillingAssumption DEF ApplyPayment
    <3> QED
        BY <3>1, CreditValues
  <2>2. CASE i # NoInvoice
    <3>1. i \in Invoices
        BY <2>2, <1>4 DEF Targets
    <3>2. PICK due, status :
            /\ invoice' = [invoice EXCEPT ![i] = [@ EXCEPT !.paid = invoice[i].paid + a, !.due = due,
                 !.status = status]]
            /\ account' = [account EXCEPT !.paid = @ + a]
        BY <1>1, <2>2 DEF ApplyPayment
    <3>3. \A x \in Invoices : /\ invoice'[x].refunded = invoice[x].refunded
                              /\ invoice'[x].paid = invoice[x].paid + IF i = x THEN a ELSE 0
        BY <3>1, <3>2, CreditValues DEF BillingTables, InvoiceRows
    <3>4. /\ account'.paid = account.paid + a
          /\ account'.refunded = account.refunded /\ account'.credit = account.credit
        BY <3>2 DEF BillingTables, AccountRows
    <3> QED
        BY <3>1, <3>3, <3>4
  <2> QED
      BY <2>1, <2>2
<1>8. InvoicesCredited'
  <2> SUFFICES ASSUME NEW x \in Invoices
               PROVE  invoice'[x].paid = SumFunctionOnSet([q \in Payments |-> CreditOf(q, x)'], Payments)
      BY DEF InvoicesCredited
  <2> DEFINE f == [q \in Payments |-> CreditOf(q, x)]
             g == [q \in Payments |-> CreditOf(q, x)']
  <2>1. IsFiniteSet(Payments)
      BY BillingAssumption
  <2>2. f[p] = 0 /\ g[p] = (IF i = x THEN a ELSE 0) /\ \A q \in Payments : f[q] \in Int /\ (q # p => g[q] = f[q])
      BY <1>6, CreditValues
  <2>3. invoice[x].paid = SumFunctionOnSet(f, Payments)
      BY DEF InvoicesCredited
  <2> HIDE DEF f, g
  <2> DEFINE d == IF i = x THEN a ELSE 0
  <2>4. d \in Int /\ g[p] = f[p] + d
      BY <2>2, <1>4
  <2> HIDE DEF d
  <2>5. \A q \in Payments : f[q] \in Int /\ (q # p => g[q] = f[q])
      BY <2>2
  <2>6. SumFunctionOnSet(g, Payments) = invoice[x].paid + d
      BY <2>1, <2>3, <2>4, <2>5, SumMoves
  <2> QED
      BY <2>6, <1>7 DEF g, d
<1>9. AccountCredited'
  <2> DEFINE f == [x \in Invoices |-> invoice[x].paid]
             g == [x \in Invoices |-> invoice'[x].paid]
  <2>1. IsFiniteSet(Invoices)
      BY BillingAssumption
  <2>2. \A x \in Invoices : f[x] \in Int /\ g[x] \in Int /\ (x # i => g[x] = f[x]) /\ (x = i => g[x] = f[x] + a)
      BY <1>4, <1>7, CreditValues
  <2>3. account.paid = SumFunctionOnSet(f, Invoices)
      BY DEF AccountCredited
  <2> HIDE DEF f, g
  <2>4. account'.paid = SumFunctionOnSet(g, Invoices)
    <3>1. CASE i \in Invoices
      <4>1. g[i] = f[i] + a /\ a \in Int /\ \A x \in Invoices : f[x] \in Int /\ (x # i => g[x] = f[x])
          BY <3>1, <2>2, <1>4
      <4>2. SumFunctionOnSet(g, Invoices) = SumFunctionOnSet(f, Invoices) + a
          BY <3>1, <4>1, <2>1, SumMoves
      <4> QED
          BY <4>2, <3>1, <2>2, <2>3, <1>4, <1>7, CreditValues
    <3>2. CASE i \notin Invoices
      <4>1. SumFunctionOnSet(g, Invoices) = SumFunctionOnSet(f, Invoices)
          BY <3>2, <2>1, <2>2, SumsAgree
      <4> QED
          BY <4>1, <3>2, <2>3, <1>7, CreditValues
    <3> QED
        BY <3>1, <3>2
  <2> QED
      BY <2>4 DEF AccountCredited, g
<1>10. BalanceStays
    BY <1>1, <1>7 DEF BalanceStays, NoteCredit, AdjustmentCredit
<1>11. RefundsStay
    BY <1>1, <1>5, <1>7 DEF RefundsStay, GivenBack, RefundedOf
<1> QED
    BY <1>8, <1>9, <1>10, <1>11

\* A refund gives back what it adds to the sums.
LEMMA RefundGivesBack ==
  ASSUME BillingTables, RowsBegin, PaymentsRefunded, InvoicesRefunded, AccountRefunded,
         NEW r \in Refunds, ProcessRefund(r)
  PROVE  PaymentsRefunded' /\ InvoicesRefunded' /\ AccountRefunded' /\ CreditsStay /\ BalanceStays
<1>0. PICK p \in Payments, a \in Nat, i \in Targets :
        p = refund[r].payment /\ a = refund[r].amount /\ i = payment[p].invoice
    BY CreditValues
<1>1. PICK total \in Nat, s \in {"REFUNDED", "PARTIALLY_REFUNDED"} :
        /\ total = payment[p].refunded + a
        /\ payment' = [payment EXCEPT ![p] = [@ EXCEPT !.refunded = total, !.status = s]]
    BY <1>0, PaymentReversed
<1>2. /\ refund[r].status = "APPROVED"
      /\ refund' = [refund EXCEPT ![r].status = "PROCESSED"]
      /\ ReverseInvoice(i, a)
      /\ UNCHANGED <<note, adjustment>>
    BY <1>0 DEF ProcessRefund
<1>3. p \in Payments /\ a \in Nat /\ i \in Targets
    OBVIOUS
<1>4. /\ \A q \in Payments : /\ payment'[q].amount = payment[q].amount
                             /\ payment'[q].invoice = payment[q].invoice
                             /\ payment'[q].approved = payment[q].approved
      /\ \A q \in Payments \ {p} : payment'[q].refunded = payment[q].refunded
      /\ payment'[p].refunded = payment[p].refunded + a
    BY <1>1, <1>3 DEF BillingTables, PaymentRows
<1>5. /\ \A x \in Refunds \ {r}, q \in Payments : GivenBack(x, q)' = GivenBack(x, q)
      /\ \A q \in Payments : GivenBack(r, q) = 0 /\ GivenBack(r, q)' = IF p = q THEN a ELSE 0
    BY <1>0, <1>2 DEF GivenBack, BillingTables, RefundRows
<1>6. /\ \A q \in Payments \ {p}, x \in Invoices : RefundedOf(q, x)' = RefundedOf(q, x)
      /\ \A x \in Invoices : RefundedOf(p, x)' = RefundedOf(p, x) + IF i = x THEN a ELSE 0
  <2>1. \A q \in Payments \ {p}, x \in Invoices : RefundedOf(q, x)' = RefundedOf(q, x)
      BY <1>4 DEF RefundedOf
  <2>2. ASSUME NEW x \in Invoices
        PROVE  RefundedOf(p, x)' = RefundedOf(p, x) + IF i = x THEN a ELSE 0
    <3>1. payment'[p].invoice = i /\ payment'[p].refunded = payment[p].refunded + a
        BY <1>0, <1>4
    <3>2. RefundedOf(p, x)' = IF i = x THEN payment[p].refunded + a ELSE 0
        BY <3>1 DEF RefundedOf
    <3>3. RefundedOf(p, x) = IF i = x THEN payment[p].refunded ELSE 0
        BY <1>0 DEF RefundedOf
    <3> QED
        BY <3>2, <3>3, <1>3, CreditValues
  <2> QED
      BY <2>1, <2>2
<1>7. \A q \in Payments, x \in Invoices : CreditOf(q, x)' = CreditOf(q, x)
    BY <1>4 DEF CreditOf
<1>8. /\ \A x \in Invoices : /\ invoice'[x].paid = invoice[x].paid
                             /\ invoice'[x].refunded = invoice[x].refunded + IF i = x THEN a ELSE 0
      /\ account'.refunded = account.refunded + IF i \in Invoices THEN a ELSE 0
      /\ account'.paid = account.paid /\ account'.credit = account.credit
  <2>1. CASE i = NoInvoice
    <3>1. i \notin Invoices /\ invoice' = invoice /\ account' = account
        BY <1>2, <2>1, BillingAssumption DEF ReverseInvoice
    <3> QED
        BY <3>1, CreditValues
  <2>2. CASE i # NoInvoice
    <3>1. i \in Invoices
        BY <2>2, <1>3 DEF Targets
    <3>2. PICK due, status :
            /\ invoice' = [invoice EXCEPT ![i] = [@ EXCEPT !.refunded = invoice[i].refunded + a, !.due = due,
                             !.status = status]]
            /\ account' = [account EXCEPT !.refunded = @ + a]
        BY <1>2, <2>2 DEF ReverseInvoice
    <3>3. \A x \in Invoices : /\ invoice'[x].paid = invoice[x].paid
                              /\ invoice'[x].refunded = invoice[x].refunded + IF i = x THEN a ELSE 0
        BY <3>1, <3>2, CreditValues DEF BillingTables, InvoiceRows
    <3>4. /\ account'.refunded = account.refunded + a
          /\ account'.paid = account.paid /\ account'.credit = account.credit
        BY <3>2 DEF BillingTables, AccountRows
    <3> QED
        BY <3>1, <3>3, <3>4
  <2> QED
      BY <2>1, <2>2
<1>9. PaymentsRefunded'
  <2> SUFFICES ASSUME NEW q \in Payments
               PROVE  payment'[q].refunded = SumFunctionOnSet([x \in Refunds |-> GivenBack(x, q)'], Refunds)
      BY DEF PaymentsRefunded
  <2> DEFINE f == [x \in Refunds |-> GivenBack(x, q)]
             g == [x \in Refunds |-> GivenBack(x, q)']
             d == IF p = q THEN a ELSE 0
  <2>1. IsFiniteSet(Refunds)
      BY BillingAssumption
  <2>2. d \in Int /\ g[r] = f[r] + d
      BY <1>3, <1>5
  <2>3. \A x \in Refunds : f[x] \in Int /\ (x # r => g[x] = f[x])
      BY <1>5, CreditValues
  <2>4. payment[q].refunded = SumFunctionOnSet(f, Refunds)
      BY DEF PaymentsRefunded
  <2>5. payment'[q].refunded = payment[q].refunded + d
      BY <1>4, CreditValues
  <2> HIDE DEF f, g, d
  <2>6. SumFunctionOnSet(g, Refunds) = SumFunctionOnSet(f, Refunds) + d
      BY <2>1, <2>2, <2>3, SumMoves
  <2> QED
      BY <2>4, <2>5, <2>6 DEF g
<1>10. InvoicesRefunded'
  <2> SUFFICES ASSUME NEW x \in Invoices
               PROVE  invoice'[x].refunded = SumFunctionOnSet([q \in Payments |-> RefundedOf(q, x)'], Payments)
      BY DEF InvoicesRefunded
  <2> DEFINE f == [q \in Payments |-> RefundedOf(q, x)]
             g == [q \in Payments |-> RefundedOf(q, x)']
             d == IF i = x THEN a ELSE 0
  <2>1. IsFiniteSet(Payments)
      BY BillingAssumption
  <2>2. d \in Int /\ g[p] = f[p] + d
    <3>1. f[p] = RefundedOf(p, x) /\ g[p] = RefundedOf(p, x)'
        BY <1>3
    <3> QED
        BY <3>1, <1>3, <1>6
  <2>3. \A q \in Payments : f[q] \in Int /\ (q # p => g[q] = f[q])
      BY <1>6, CreditValues
  <2>4. invoice[x].refunded = SumFunctionOnSet(f, Payments)
      BY DEF InvoicesRefunded
  <2>5. invoice'[x].refunded = invoice[x].refunded + d
      BY <1>8
  <2> HIDE DEF f, g, d
  <2>6. SumFunctionOnSet(g, Payments) = SumFunctionOnSet(f, Payments) + d
      BY <1>3, <2>1, <2>2, <2>3, SumMoves
  <2> QED
      BY <2>4, <2>5, <2>6 DEF g
<1>11. AccountRefunded'
  <2> DEFINE f == [x \in Invoices |-> invoice[x].refunded]
             g == [x \in Invoices |-> invoice'[x].refunded]
  <2>1. IsFiniteSet(Invoices)
      BY BillingAssumption
  <2>2. \A x \in Invoices : f[x] \in Int /\ (x # i => g[x] = f[x]) /\ (x = i => g[x] = f[x] + a)
      BY <1>3, <1>8, CreditValues
  <2>3. account.refunded = SumFunctionOnSet(f, Invoices)
      BY DEF AccountRefunded
  <2> HIDE DEF f, g
  <2>4. account'.refunded = SumFunctionOnSet(g, Invoices)
    <3>1. CASE i \in Invoices
      <4>1. g[i] = f[i] + a /\ a \in Int /\ \A x \in Invoices : f[x] \in Int /\ (x # i => g[x] = f[x])
          BY <3>1, <2>2, <1>3
      <4>2. SumFunctionOnSet(g, Invoices) = SumFunctionOnSet(f, Invoices) + a
          BY <3>1, <4>1, <2>1, SumMoves
      <4> QED
          BY <4>2, <3>1, <2>3, <1>8
    <3>2. CASE i \notin Invoices
      <4>1. SumFunctionOnSet(g, Invoices) = SumFunctionOnSet(f, Invoices)
          BY <3>2, <2>1, <2>2, SumsAgree
      <4> QED
          BY <4>1, <3>2, <2>3, <1>8, CreditValues
    <3> QED
        BY <3>1, <3>2
  <2> QED
      BY <2>4 DEF AccountRefunded, g
<1>12. CreditsStay
    BY <1>7, <1>8 DEF CreditsStay
<1>13. BalanceStays
    BY <1>2, <1>8 DEF BalanceStays, NoteCredit, AdjustmentCredit
<1> QED
    BY <1>9, <1>10, <1>11, <1>12, <1>13

\* Notes and adjustments that name no invoice move the balance, and nothing else moves it.
LEMMA BalanceMoves ==
  ASSUME BillingTables, RowsBegin, BalanceIsLeft,
         \/ \E n \in Notes : ApplyNote(n) \/ VoidNote(n)
         \/ \E a \in Adjustments : CreateAdjustment(a)
  PROVE  BalanceIsLeft' /\ CreditsStay /\ RefundsStay
<1>1. UNCHANGED <<payment, refund>>
    BY DEF ApplyNote, VoidNote, CreateAdjustment
<1>2. /\ \A i \in Invoices : invoice'[i].paid = invoice[i].paid /\ invoice'[i].refunded = invoice[i].refunded
      /\ account'.paid = account.paid /\ account'.refunded = account.refunded
  <2>1. ASSUME NEW n \in Notes, VoidNote(n)
        PROVE  invoice' = invoice /\ account'.paid = account.paid /\ account'.refunded = account.refunded
      BY <2>1 DEF VoidNote, BillingTables, AccountRows
  <2>2. ASSUME NEW i \in Targets, NEW due, NEW status, NEW x,
               \/ invoice' = [invoice EXCEPT ![i] = [@ EXCEPT !.due = due, !.status = status]] /\ account' = account
               \/ invoice' = [invoice EXCEPT ![i].due = due] /\ account' = account
               \/ invoice' = invoice /\ account' = [account EXCEPT !.credit = x]
        PROVE  /\ \A y \in Invoices : invoice'[y].paid = invoice[y].paid /\
                    invoice'[y].refunded = invoice[y].refunded
               /\ account'.paid = account.paid /\ account'.refunded = account.refunded
    <3>1. ASSUME NEW y \in Invoices
          PROVE  invoice'[y].paid = invoice[y].paid /\ invoice'[y].refunded = invoice[y].refunded
      <4>1. invoice[y] \in InvoiceRows /\ DOMAIN invoice = Invoices
          BY DEF BillingTables
      <4>2. CASE invoice' = [invoice EXCEPT ![i] = [@ EXCEPT !.due = due, !.status = status]]
        <5>1. invoice'[y] \in {invoice[y], [invoice[y] EXCEPT !.due = due, !.status = status]}
            BY <4>1, <4>2
        <5> QED
            BY <4>1, <5>1 DEF InvoiceRows
      <4>3. CASE invoice' = [invoice EXCEPT ![i].due = due]
        <5>1. invoice'[y] \in {invoice[y], [invoice[y] EXCEPT !.due = due]}
            BY <4>1, <4>3
        <5> QED
            BY <4>1, <5>1 DEF InvoiceRows
      <4> QED
          BY <2>2, <4>2, <4>3
    <3>2. account'.paid = account.paid /\ account'.refunded = account.refunded
        BY <2>2 DEF BillingTables, AccountRows
    <3> QED
        BY <3>1, <3>2
  <2>3. ASSUME NEW n \in Notes, ApplyNote(n)
        PROVE  \E i \in Targets : \E due, status, x :
               \/ invoice' = [invoice EXCEPT ![i] = [@ EXCEPT !.due = due, !.status = status]] /\ account' = account
               \/ invoice' = [invoice EXCEPT ![i].due = due] /\ account' = account
               \/ invoice' = invoice /\ account' = [account EXCEPT !.credit = x]
    <3>1. PICK i \in Targets :
            IF i = NoInvoice
            THEN /\ account' = [account EXCEPT !.credit = @ + note[n].amount]
                 /\ UNCHANGED invoice
            ELSE /\ invoice' = [invoice EXCEPT ![i] = [@ EXCEPT !.due = Open(invoice[i].due - note[n].amount),
                       !.status = IF invoice[i].due <= note[n].amount THEN "PAID" ELSE invoice[i].status]]
                 /\ UNCHANGED account
        BY <2>3 DEF ApplyNote
    <3>2. CASE i = NoInvoice
        BY <3>1, <3>2
    <3>3. CASE i # NoInvoice
      <4> DEFINE due == Open(invoice[i].due - note[n].amount)
                 status == IF invoice[i].due <= note[n].amount THEN "PAID" ELSE invoice[i].status
      <4>1. invoice' = [invoice EXCEPT ![i] = [@ EXCEPT !.due = due, !.status = status]] /\ account' = account
          BY <3>1, <3>3
      <4> HIDE DEF due, status
      <4> QED
          BY <4>1
    <3> QED
        BY <3>2, <3>3
  <2>4. ASSUME NEW a \in Adjustments, CreateAdjustment(a)
        PROVE  \E i \in Targets : \E due, status, x :
               \/ invoice' = [invoice EXCEPT ![i] = [@ EXCEPT !.due = due, !.status = status]] /\ account' = account
               \/ invoice' = [invoice EXCEPT ![i].due = due] /\ account' = account
               \/ invoice' = invoice /\ account' = [account EXCEPT !.credit = x]
      BY <2>4 DEF CreateAdjustment
  <2> QED
      BY <2>1, <2>2, <2>3, <2>4
<1>3. CreditsStay
    BY <1>1, <1>2 DEF CreditsStay, CreditOf
<1>4. RefundsStay
    BY <1>1, <1>2 DEF RefundsStay, GivenBack, RefundedOf
<1>5. /\ IsFiniteSet(Notes) /\ IsFiniteSet(Adjustments)
    BY BillingAssumption
<1> DEFINE notes == [n \in Notes |-> NoteCredit(n)]
           notes2 == [n \in Notes |-> NoteCredit(n)']
           adjs == [a \in Adjustments |-> AdjustmentCredit(a)]
           adjs2 == [a \in Adjustments |-> AdjustmentCredit(a)']
<1>6. account.credit = SumFunctionOnSet(notes, Notes) + SumFunctionOnSet(adjs, Adjustments)
    BY DEF BalanceIsLeft
<1>7. SumFunctionOnSet(notes, Notes) \in Int /\ SumFunctionOnSet(adjs, Adjustments) \in Int
    BY <1>5, CreditValues, SumBegins
<1>8. ASSUME NEW n \in Notes, NEW d \in Int, NoteCredit(n)' = NoteCredit(n) + d,
             \A x \in Notes \ {n} : note'[x] = note[x], adjustment' = adjustment,
             account'.credit = account.credit + d
      PROVE  BalanceIsLeft'
  <2>1. notes2[n] = notes[n] + d /\ \A x \in Notes : notes[x] \in Int /\ (x # n => notes2[x] = notes[x])
      BY <1>8, CreditValues DEF NoteCredit
  <2>2. adjs2 = adjs
      BY <1>8 DEF AdjustmentCredit
  <2> HIDE DEF notes, notes2, adjs, adjs2
  <2>3. SumFunctionOnSet(notes2, Notes) = SumFunctionOnSet(notes, Notes) + d
      BY <1>5, <2>1, SumMoves
  <2>4. account'.credit = SumFunctionOnSet(notes2, Notes) + SumFunctionOnSet(adjs2, Adjustments)
      BY <1>6, <1>7, <1>8, <2>2, <2>3
  <2> QED
      BY <2>4 DEF BalanceIsLeft, notes2, adjs2
<1>9. ASSUME NEW a \in Adjustments, NEW d \in Int, AdjustmentCredit(a)' = AdjustmentCredit(a) + d,
             \A x \in Adjustments \ {a} : adjustment'[x] = adjustment[x], note' = note,
             account'.credit = account.credit + d
      PROVE  BalanceIsLeft'
  <2>1. adjs2[a] = adjs[a] + d /\ \A x \in Adjustments : adjs[x] \in Int /\ (x # a => adjs2[x] = adjs[x])
      BY <1>9, CreditValues DEF AdjustmentCredit
  <2>2. notes2 = notes
      BY <1>9 DEF NoteCredit
  <2> HIDE DEF notes, notes2, adjs, adjs2
  <2>3. SumFunctionOnSet(adjs2, Adjustments) = SumFunctionOnSet(adjs, Adjustments) + d
      BY <1>5, <2>1, SumMoves
  <2>4. account'.credit = SumFunctionOnSet(notes2, Notes) + SumFunctionOnSet(adjs2, Adjustments)
      BY <1>6, <1>7, <1>9, <2>2, <2>3
  <2> QED
      BY <2>4 DEF BalanceIsLeft, notes2, adjs2
<1> HIDE DEF notes, notes2, adjs, adjs2
<1>10. ASSUME NEW n \in Notes, ApplyNote(n)
       PROVE  BalanceIsLeft'
  <2>1. PICK i \in Targets :
          /\ note' = [note EXCEPT ![n] = [@ EXCEPT !.status = "APPLIED", !.target = i]]
          /\ i = NoInvoice => account' = [account EXCEPT !.credit = @ + note[n].amount]
          /\ i # NoInvoice => account' = account
      BY <1>10 DEF ApplyNote
  <2>2. note[n].status = "ISSUED" /\ adjustment' = adjustment
      BY <1>10 DEF ApplyNote
  <2> DEFINE d == IF i = NoInvoice THEN note[n].amount ELSE 0
  <2>3. d \in Int
      BY CreditValues
  <2>4. /\ NoteCredit(n) = 0 /\ NoteCredit(n)' = d
        /\ \A x \in Notes \ {n} : note'[x] = note[x]
      BY <2>1, <2>2 DEF NoteCredit, BillingTables, NoteRows
  <2>5. account'.credit = account.credit + d
      BY <2>1, CreditValues DEF BillingTables, AccountRows
  <2> HIDE DEF d
  <2> QED
      BY <1>8, <2>2, <2>3, <2>4, <2>5
<1>11. ASSUME NEW n \in Notes, VoidNote(n)
       PROVE  BalanceIsLeft'
  <2>1. /\ note' = [note EXCEPT ![n].status = "VOID"] /\ adjustment' = adjustment
        /\ account' = [account EXCEPT !.credit =
                         IF note[n].status = "APPLIED" /\ note[n].target = NoInvoice
                         THEN @ - note[n].amount ELSE @]
      BY <1>11 DEF VoidNote
  <2> DEFINE d == IF note[n].status = "APPLIED" /\ note[n].target = NoInvoice THEN -note[n].amount ELSE 0
  <2>2. d \in Int
      BY CreditValues
  <2>3. /\ NoteCredit(n)' = 0 /\ NoteCredit(n) = -d
        /\ \A x \in Notes \ {n} : note'[x] = note[x]
      BY <2>1, CreditValues DEF NoteCredit, BillingTables, NoteRows
  <2>4. account'.credit = account.credit + d
      BY <2>1, CreditValues DEF BillingTables, AccountRows
  <2> HIDE DEF d
  <2>5. NoteCredit(n)' = NoteCredit(n) + d
      BY <2>2, <2>3
  <2> QED
      BY <1>8, <2>1, <2>2, <2>3, <2>4, <2>5
<1>12. ASSUME NEW a \in Adjustments, CreateAdjustment(a)
       PROVE  BalanceIsLeft'
  <2>1. PICK k \in {"CREDIT", "DEBIT"}, x \in CreditAmounts, i \in Targets :
          /\ adjustment' = [adjustment EXCEPT ![a] = [kind |-> k, invoice |-> i, amount |-> x]]
          /\ i = NoInvoice => account' = [account EXCEPT !.credit = @ + IF k = "CREDIT" THEN x ELSE -x]
          /\ i # NoInvoice => account' = account
      BY <1>12 DEF CreateAdjustment
  <2>2. adjustment[a].kind = "absent" /\ note' = note
      BY <1>12 DEF CreateAdjustment
  <2> DEFINE d == IF i # NoInvoice THEN 0 ELSE IF k = "CREDIT" THEN x ELSE -x
  <2>3. x \in Nat
      BY BillingAssumption
  <2>4. d \in Int
      BY <2>3
  <2>5. AdjustmentCredit(a) = 0
      BY <2>2 DEF AdjustmentCredit, RowsBegin
  <2>6. /\ AdjustmentCredit(a)' = d
        /\ \A y \in Adjustments \ {a} : adjustment'[y] = adjustment[y]
      BY <2>1 DEF AdjustmentCredit, BillingTables
  <2>7. account'.credit = account.credit + d
      BY <2>1, <2>3, CreditValues DEF BillingTables, AccountRows
  <2> HIDE DEF d
  <2> QED
      BY <1>9, <2>2, <2>4, <2>5, <2>6, <2>7
<1>13. BalanceIsLeft'
    BY <1>10, <1>11, <1>12
<1> QED
    BY <1>3, <1>4, <1>13

\* The status of a payment tells what was refunded of it.
LEMMA StatusStaysTrue ==
  ASSUME BillingTables, RowsBegin, StatusTells, [BillingNext]_billingVars
  PROVE  StatusTells'
<1> DEFINE Tells(s, refunded, amount) ==
             /\ s = "PARTIALLY_REFUNDED" <=> refunded \in 1 .. amount - 1
             /\ s = "REFUNDED" <=> refunded > 0 /\ refunded >= amount
<1>1. \A q \in Payments : Tells(payment[q].status, payment[q].refunded, payment[q].amount)
    BY DEF StatusTells
<1>2. \A q \in Payments : /\ payment[q].refunded \in Nat /\ payment[q].amount \in Nat
                          /\ payment[q].status \notin {"PARTIALLY_REFUNDED", "REFUNDED"} => payment[q].refunded = 0
  <2> SUFFICES ASSUME NEW q \in Payments, payment[q].status \notin {"PARTIALLY_REFUNDED", "REFUNDED"}
               PROVE  payment[q].refunded = 0
      BY CreditValues
  <2>1. payment[q].refunded \in Nat /\ payment[q].amount \in Nat
      BY CreditValues
  <2>2. payment[q].refunded \notin 1 .. payment[q].amount - 1
      BY <1>1
  <2>3. ~(payment[q].refunded > 0 /\ payment[q].refunded >= payment[q].amount)
      BY <1>1
  <2> QED
      BY <2>1, <2>2, <2>3
<1>3. ASSUME NEW s, s \notin {"PARTIALLY_REFUNDED", "REFUNDED"}, NEW a \in Nat
      PROVE  Tells(s, 0, a)
    BY <1>3
<1> SUFFICES ASSUME NEW q \in Payments
             PROVE  Tells(payment'[q].status, payment'[q].refunded, payment'[q].amount)
    BY DEF StatusTells
<1>4. CASE payment'[q] = payment[q]
    BY <1>1, <1>4
<1>5. ASSUME NEW p \in Payments, RecordManual(p), payment'[q] # payment[q]
      PROVE  Tells(payment'[q].status, payment'[q].refunded, payment'[q].amount)
  <2>1. PICK i \in Targets, a \in PaymentAmounts :
          payment' = [payment EXCEPT ![p] = [@ EXCEPT !.status = "PENDING", !.invoice = i, !.amount = a]]
      BY <1>5 DEF RecordManual
  <2>2. p = q
      BY <2>1, <1>5 DEF BillingTables
  <2>3. payment[q].status = "absent"
      BY <1>5, <2>2 DEF RecordManual
  <2>4. payment'[q].status = "PENDING" /\ payment'[q].refunded = payment[q].refunded /\ payment'[q].amount = a
      BY <2>1, <2>2 DEF BillingTables, PaymentRows
  <2>5. a \in Nat /\ payment[q].refunded = 0
      BY <2>3, <1>2, BillingAssumption
  <2>6. Tells("PENDING", 0, a)
      BY <2>5, <1>3
  <2> HIDE DEF Tells
  <2> QED
      BY <2>4, <2>5, <2>6
<1>6. ASSUME NEW p \in Payments, NEW s \in {"APPROVED", "REJECTED", "ON_HOLD", "FAILED"},
             \/ payment' = [payment EXCEPT ![p].status = s]
             \/ payment' = [payment EXCEPT ![p] = [@ EXCEPT !.status = s, !.approved = TRUE]],
             payment[p].status \notin {"PARTIALLY_REFUNDED", "REFUNDED"},
             payment'[q] # payment[q]
      PROVE  Tells(payment'[q].status, payment'[q].refunded, payment'[q].amount)
  <2>1. p = q
      BY <1>6 DEF BillingTables
  <2>2. /\ payment'[q].status = s /\ payment'[q].refunded = payment[q].refunded
        /\ payment'[q].amount = payment[q].amount
    <3>1. CASE payment' = [payment EXCEPT ![p].status = s]
        BY <2>1, <3>1 DEF BillingTables, PaymentRows
    <3>2. CASE payment' = [payment EXCEPT ![p] = [@ EXCEPT !.status = s, !.approved = TRUE]]
        BY <2>1, <3>2 DEF BillingTables, PaymentRows
    <3> QED
        BY <1>6, <3>1, <3>2
  <2>3. payment[q].refunded = 0 /\ payment[q].amount \in Nat
      BY <1>6, <2>1, <1>2
  <2>4. Tells(s, 0, payment[q].amount)
      BY <2>3, <1>3
  <2> HIDE DEF Tells
  <2> QED
      BY <2>2, <2>3, <2>4
<1>7. ASSUME NEW p \in Payments, Approve(p) \/ Reject(p) \/ Hold(p) \/ MarkFailed(p), payment'[q] # payment[q]
      PROVE  Tells(payment'[q].status, payment'[q].refunded, payment'[q].amount)
  <2>1. payment[p].status \notin {"PARTIALLY_REFUNDED", "REFUNDED"}
      BY <1>7 DEF BillingTables, Approve, Reject, Hold, MarkFailed
  <2>2. \E s \in {"APPROVED", "REJECTED", "ON_HOLD", "FAILED"} :
             \/ payment' = [payment EXCEPT ![p].status = s]
             \/ payment' = [payment EXCEPT ![p] = [@ EXCEPT !.status = s, !.approved = TRUE]]
      BY <1>7 DEF Approve, Reject, Hold, MarkFailed, Settle
  <2> HIDE DEF Tells
  <2> QED
      BY <1>6, <1>7, <2>1, <2>2
<1>8. ASSUME NEW r \in Refunds, ProcessRefund(r), payment'[q] # payment[q]
      PROVE  Tells(payment'[q].status, payment'[q].refunded, payment'[q].amount)
  <2> DEFINE p == refund[r].payment
  <2>1. PICK total \in Nat, s \in {"REFUNDED", "PARTIALLY_REFUNDED"} :
          /\ total > 0 /\ (s = "REFUNDED" <=> total >= payment[p].amount)
          /\ payment' = [payment EXCEPT ![p] = [@ EXCEPT !.refunded = total, !.status = s]]
      BY <1>8, PaymentReversed
  <2> HIDE DEF p
  <2>2. p = q
      BY <2>1, <1>8 DEF BillingTables
  <2>3. payment'[q].status = s /\ payment'[q].refunded = total /\ payment'[q].amount = payment[q].amount
      BY <2>1, <2>2 DEF BillingTables, PaymentRows
  <2>4. payment[q].amount \in Nat
      BY <1>2
  <2>5. Tells(s, total, payment[q].amount)
      BY <2>1, <2>2, <2>4
  <2> HIDE DEF Tells
  <2> QED
      BY <2>3, <2>5
<1> HIDE DEF Tells
<1> QED
    BY <1>4, <1>5, <1>7, <1>8
    DEF BillingNext, billingVars, CreateDraft, Issue, Void, WriteOff, MarkOverdue, ApproveCheck,
        CreateRefund,
        ApproveRefund, RejectRefund, IssueNote, ApplyNote, VoidNote, CreateAdjustment

\* Every step of the billing keeps its invariant: a quiet step leaves the sums alone, and an
\* approval, a refund, a note or an adjustment moves one addend of the sums it belongs to.
LEMMA BillingKeeps == BillingInv /\ [BillingNext]_billingVars => BillingInv'
<1> SUFFICES ASSUME BillingInv, [BillingNext]_billingVars PROVE BillingInv'
    OBVIOUS
<1>1. BillingTables /\ RowsBegin
    BY BillingTypesInParts DEF BillingInv
<1>2. /\ InvoicesCredited /\ AccountCredited /\ BalanceIsLeft
      /\ PaymentsRefunded /\ StatusTells /\ InvoicesRefunded /\ AccountRefunded
    BY MoneyInParts DEF BillingInv
<1>3. BillingTypeOK'
    BY <1>1, BillingTypesStay, BillingTypesInParts
<1>4. RowsBegin'
    BY <1>1, RowsStayBegun
<1>5. StatusTells'
    BY <1>1, <1>2, StatusStaysTrue
<1> DEFINE Sums == /\ InvoicesCredited /\ AccountCredited /\ BalanceIsLeft
                   /\ PaymentsRefunded /\ InvoicesRefunded /\ AccountRefunded
<1>6. ASSUME Quiet PROVE Sums'
  <2>1. CreditsStay /\ BalanceStays /\ RefundsStay
      BY <1>1, <1>2, <1>6, QuietSteps
  <2> QED
      BY <2>1, <1>2, SteadyCredits, SteadyBalance, SteadyRefunds
<1>7. ASSUME NEW p \in Payments, Approve(p) PROVE Sums'
  <2>1. InvoicesCredited' /\ AccountCredited' /\ BalanceStays /\ RefundsStay
      BY <1>1, <1>2, <1>7, ApprovalCredits
  <2> QED
      BY <2>1, <1>2, SteadyBalance, SteadyRefunds
<1>8. ASSUME NEW r \in Refunds, ProcessRefund(r) PROVE Sums'
  <2>1. PaymentsRefunded' /\ InvoicesRefunded' /\ AccountRefunded' /\ CreditsStay /\ BalanceStays
      BY <1>1, <1>2, <1>8, RefundGivesBack
  <2> QED
      BY <2>1, <1>2, SteadyCredits, SteadyBalance
<1>9. ASSUME \/ \E n \in Notes : ApplyNote(n) \/ VoidNote(n)
             \/ \E a \in Adjustments : CreateAdjustment(a)
      PROVE  Sums'
  <2>1. BalanceIsLeft' /\ CreditsStay /\ RefundsStay
      BY <1>1, <1>2, <1>9, BalanceMoves
  <2> QED
      BY <2>1, <1>2, SteadyCredits, SteadyRefunds
<1>10. \/ Quiet
       \/ \E p \in Payments : Approve(p)
       \/ \E r \in Refunds : ProcessRefund(r)
       \/ \E n \in Notes : ApplyNote(n) \/ VoidNote(n)
       \/ \E a \in Adjustments : CreateAdjustment(a)
    BY DEF BillingNext, Quiet
<1>11. Sums'
    BY <1>6, <1>7, <1>8, <1>9, <1>10
<1>12. MoneyAgrees' <=> Sums' /\ StatusTells'
    BY DEF MoneyAgrees, CreditedOnce, RefundsAgree, InvoicesCredited, AccountCredited, BalanceIsLeft,
           PaymentsRefunded, StatusTells, InvoicesRefunded, AccountRefunded
<1> HIDE DEF Sums
<1> QED
    BY <1>3, <1>4, <1>5, <1>11, <1>12 DEF BillingInv

\* The inductive invariant of the billing holds in every reachable state.
THEOREM BillingInvariantHolds == BillingSpec => []BillingInv
    BY BillingBegins, BillingKeeps, PTL DEF BillingSpec

\* Invoices, payments, refunds, notes, adjustments and the account keep their types.
THEOREM BillingTypesHold == BillingSpec => []BillingTypeOK
<1>1. BillingInv => BillingTypeOK
    BY DEF BillingInv
<1> QED
    BY <1>1, BillingInvariantHolds, PTL

\* Approved money is credited once and refunds reach payment, invoice and account alike,
\* whatever approvals, rejections, refunds and voids are interleaved.
THEOREM MoneyAlwaysAgrees == BillingSpec => []MoneyAgrees
<1>1. BillingInv => MoneyAgrees
    BY DEF BillingInv
<1> QED
    BY <1>1, BillingInvariantHolds, PTL
===============================================================================
