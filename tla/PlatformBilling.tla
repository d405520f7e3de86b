--------------------------- MODULE PlatformBilling ---------------------------
(***************************************************************************)
(* What the platform bills its schools (src/backend/src/core/billing): the *)
(* invoices of one billing account, their payments, refunds, credit notes  *)
(* and adjustments, and the running counters of the account.               *)
(*                                                                         *)
(* Every write of an invoice, payment, refund or credit note is guarded by *)
(* the version the operation read, so an operation that another one        *)
(* overtakes aborts as a whole and the transactions below are atomic. Only *)
(* approve judges one row and writes with the version of another: it       *)
(* checks the invoice before its transaction, which is guarded by the      *)
(* version of the payment, and is two actions here. The checks that        *)
(* precede the insertion of a payment or a refund read rows the insertion  *)
(* does not touch, so checking and inserting in one step loses nothing.    *)
(***************************************************************************)
EXTENDS Integers, FiniteSets, Functions

CONSTANTS
  Invoices, Payments, Refunds, Notes, Adjustments,  \* ids of rows
  Totals,          \* totals of invoices
  PaymentAmounts,  \* amounts of payments
  RefundAmounts,   \* amounts of refunds
  CreditAmounts,   \* amounts of credit notes and adjustments
  Tolerance,       \* the 0.01 by which an amount may exceed what is open
  NoInvoice

ASSUME BillingAssumption ==
  /\ \A rows \in {Invoices, Payments, Refunds, Notes, Adjustments} : IsFiniteSet(rows)
  /\ Payments # {} /\ NoInvoice \notin Invoices
  /\ Totals \subseteq Nat /\ Tolerance \in Nat
  /\ PaymentAmounts \cup RefundAmounts \cup CreditAmounts \subseteq Nat \ {0}

VARIABLES
  invoice,     \* invoice[i]    : status, total, amountPaid, amountRefunded, amountDue
  payment,     \* payment[p]    : status, invoice, amount, amountRefunded, approvedAt set
  checked,     \* payments an approval has found payable and not yet committed
  refund,      \* refund[r]     : status, payment, amount
  note,        \* note[n]       : status, amount, appliedToInvoiceId
  adjustment,  \* adjustment[a] : kind, invoice, amount
  account      \* totalPaid, totalRefunded and creditBalance of the account

billingVars == <<invoice, payment, checked, refund, note, adjustment, account>>

Targets == Invoices \cup {NoInvoice}

InvoiceStatus == {"absent", "DRAFT", "PENDING", "PARTIALLY_PAID", "PAID", "OVERDUE",
                  "VOID", "WRITTEN_OFF", "REFUNDED"}

PaymentStatus == {"absent", "PENDING", "ON_HOLD", "APPROVED", "REJECTED", "FAILED",
                  "PARTIALLY_REFUNDED", "REFUNDED"}

BillingInit ==
  /\ invoice = [i \in Invoices |->
                  [status |-> "absent", total |-> 0, paid |-> 0, refunded |-> 0, due |-> 0]]
  /\ payment = [p \in Payments |->
                  [status |-> "absent", invoice |-> NoInvoice, amount |-> 0,
                   refunded |-> 0, approved |-> FALSE]]
  /\ checked = {}
  /\ refund = [r \in Refunds |->
                  [status |-> "absent", payment |-> CHOOSE p \in Payments : TRUE, amount |-> 0]]
  /\ note = [n \in Notes |-> [status |-> "absent", amount |-> 0, target |-> NoInvoice]]
  /\ adjustment = [a \in Adjustments |->
                     [kind |-> "absent", invoice |-> NoInvoice, amount |-> 0]]
  /\ account = [paid |-> 0, refunded |-> 0, credit |-> 0]

Open(amount) == IF amount > 0 THEN amount ELSE 0

-----------------------------------------------------------------------------
(* Invoices *)

CreateDraft(i) ==
  /\ invoice[i].status = "absent"
  /\ \E t \in Totals :
       invoice' = [invoice EXCEPT ![i] = [@ EXCEPT !.status = "DRAFT", !.total = t, !.due = t]]
  /\ UNCHANGED <<payment, checked, refund, note, adjustment, account>>

Issue(i) ==
  /\ invoice[i].status = "DRAFT"
  /\ invoice' = [invoice EXCEPT ![i].status = "PENDING"]
  /\ UNCHANGED <<payment, checked, refund, note, adjustment, account>>

Void(i) ==
  /\ invoice[i].status \notin {"absent", "PAID", "VOID", "WRITTEN_OFF", "REFUNDED"}
  /\ invoice' = [invoice EXCEPT ![i] = [@ EXCEPT !.status = "VOID", !.due = 0]]
  /\ UNCHANGED <<payment, checked, refund, note, adjustment, account>>

WriteOff(i) ==
  /\ invoice[i].status \notin {"absent", "PAID", "VOID", "WRITTEN_OFF"}
  /\ invoice' = [invoice EXCEPT ![i] = [@ EXCEPT !.status = "WRITTEN_OFF", !.due = 0]]
  /\ UNCHANGED <<payment, checked, refund, note, adjustment, account>>

MarkOverdue(i) ==
  /\ invoice[i].status \in {"PENDING", "PARTIALLY_PAID"}
  /\ invoice' = [invoice EXCEPT ![i].status = "OVERDUE"]
  /\ UNCHANGED <<payment, checked, refund, note, adjustment, account>>

-----------------------------------------------------------------------------
(* Payments *)

\* assertInvoicePayable
Payable(i, amount) ==
  i # NoInvoice =>
    /\ invoice[i].status \in {"PENDING", "PARTIALLY_PAID", "OVERDUE"}
    /\ amount <= invoice[i].due + Tolerance

RecordManual(p) ==
  /\ payment[p].status = "absent"
  /\ \E i \in Targets, a \in PaymentAmounts :
       /\ Payable(i, a)
       /\ payment' = [payment EXCEPT ![p] = [@ EXCEPT !.status = "PENDING", !.invoice = i, !.amount = a]]
  /\ UNCHANGED <<invoice, checked, refund, note, adjustment, account>>

ApproveCheck(p) ==
  /\ payment[p].status \in {"PENDING", "ON_HOLD"}
  /\ Payable(payment[p].invoice, payment[p].amount)
  /\ checked' = checked \cup {p}
  /\ UNCHANGED <<invoice, payment, refund, note, adjustment, account>>

\* applyPayment asks nothing of the invoice it credits: a void or paid one is
\* credited as well.
ApplyPayment(i, amount) ==
  IF i = NoInvoice THEN UNCHANGED <<invoice, account>>
  ELSE LET paid == invoice[i].paid + amount
           due  == invoice[i].total - paid - invoice[i].refunded
       IN /\ invoice' = [invoice EXCEPT ![i] = [@ EXCEPT !.paid = paid, !.due = Open(due),
                           !.status = IF due <= 0 THEN "PAID" ELSE "PARTIALLY_PAID"]]
          /\ account' = [account EXCEPT !.paid = @ + amount]

\* FAULT: the update is not guarded by the version, so it may be repeated.
Approve_Unversioned(p) ==
  /\ p \in checked
  /\ payment' = [payment EXCEPT ![p] = [@ EXCEPT !.status = "APPROVED", !.approved = TRUE]]
  /\ UNCHANGED <<checked, refund, note, adjustment>>
  /\ ApplyPayment(payment[p].invoice, payment[p].amount)

Approve(p) ==
  /\ p \in checked
  /\ payment' = [payment EXCEPT ![p] = [@ EXCEPT !.status = "APPROVED", !.approved = TRUE]]
  /\ checked' = checked \ {p}
  /\ ApplyPayment(payment[p].invoice, payment[p].amount)
  /\ UNCHANGED <<refund, note, adjustment>>

\* A change of the payment's row makes the approval that has checked it abort.
Settle(p, status) ==
  /\ payment' = [payment EXCEPT ![p].status = status]
  /\ checked' = checked \ {p}
  /\ UNCHANGED <<invoice, refund, note, adjustment, account>>

Reject(p) == payment[p].status \in {"PENDING", "ON_HOLD"} /\ Settle(p, "REJECTED")

Hold(p) == payment[p].status = "PENDING" /\ Settle(p, "ON_HOLD")

\* An approved payment that fails keeps its credit on the invoice.
MarkFailed(p) ==
  payment[p].status \in {"PENDING", "ON_HOLD", "APPROVED"} /\ Settle(p, "FAILED")

-----------------------------------------------------------------------------
(* Refunds *)

CreateRefund(r) ==
  /\ refund[r].status = "absent"
  /\ \E p \in Payments, a \in RefundAmounts :
       /\ payment[p].status \in {"APPROVED", "PARTIALLY_REFUNDED"}
       /\ a <= payment[p].amount - payment[p].refunded + Tolerance
       /\ refund' = [refund EXCEPT ![r] = [status |-> "PENDING", payment |-> p, amount |-> a]]
  /\ UNCHANGED <<invoice, payment, checked, note, adjustment, account>>

ApproveRefund(r) ==
  /\ refund[r].status = "PENDING"
  /\ refund' = [refund EXCEPT ![r].status = "APPROVED"]
  /\ UNCHANGED <<invoice, payment, checked, note, adjustment, account>>

RejectRefund(r) ==
  /\ refund[r].status \in {"PENDING", "APPROVED"}
  /\ refund' = [refund EXCEPT ![r].status = "REJECTED"]
  /\ UNCHANGED <<invoice, payment, checked, note, adjustment, account>>

\* PaymentService.applyRefundReversal
ReversePayment(p, amount) ==
  LET refunded == payment[p].refunded + amount
  IN payment' = [payment EXCEPT ![p] = [@ EXCEPT !.refunded = refunded,
                   !.status = IF refunded >= payment[p].amount THEN "REFUNDED"
                              ELSE "PARTIALLY_REFUNDED"]]

\* InvoiceService.applyRefundReversal
ReverseInvoice(i, amount) ==
  IF i = NoInvoice THEN UNCHANGED <<invoice, account>>
  ELSE LET refunded == invoice[i].refunded + amount
       IN /\ invoice' = [invoice EXCEPT ![i] = [@ EXCEPT !.refunded = refunded,
                !.due = Open(invoice[i].total - invoice[i].paid + refunded),
                !.status = IF refunded >= invoice[i].paid /\ invoice[i].paid > 0
                           THEN "REFUNDED" ELSE invoice[i].status]]
          /\ account' = [account EXCEPT !.refunded = @ + amount]

\* FAULT: the refund is processed from any state that is not rejected.
ProcessRefund_AnyState(r) ==
  /\ refund[r].status \in {"PENDING", "APPROVED", "PROCESSED"}
  /\ refund' = [refund EXCEPT ![r].status = "PROCESSED"]
  /\ ReversePayment(refund[r].payment, refund[r].amount)
  /\ ReverseInvoice(payment[refund[r].payment].invoice, refund[r].amount)
  /\ UNCHANGED <<checked, note, adjustment>>

ProcessRefund(r) ==
  /\ refund[r].status = "APPROVED"
  /\ refund' = [refund EXCEPT ![r].status = "PROCESSED"]
  /\ ReversePayment(refund[r].payment, refund[r].amount)
  /\ ReverseInvoice(payment[refund[r].payment].invoice, refund[r].amount)
  /\ UNCHANGED <<checked, note, adjustment>>

-----------------------------------------------------------------------------
(* Credit notes and adjustments *)

IssueNote(n) ==
  /\ note[n].status = "absent"
  /\ \E a \in CreditAmounts : note' = [note EXCEPT ![n] = [@ EXCEPT !.status = "ISSUED", !.amount = a]]
  /\ UNCHANGED <<invoice, payment, checked, refund, adjustment, account>>

\* InvoiceService.applyCreditNote, or the account's credit balance. The invoice
\* is the one given now or when the note was issued.
ApplyNote(n) ==
  /\ note[n].status = "ISSUED"
  /\ \E i \in {t \in Targets : t = NoInvoice \/ invoice[t].status # "absent"} :
       LET amount == note[n].amount
       IN /\ note' = [note EXCEPT ![n] = [@ EXCEPT !.status = "APPLIED", !.target = i]]
          /\ IF i = NoInvoice
             THEN /\ account' = [account EXCEPT !.credit = @ + amount]
                  /\ UNCHANGED invoice
             ELSE /\ invoice' = [invoice EXCEPT ![i] = [@ EXCEPT !.due = Open(invoice[i].due - amount),
                        !.status = IF invoice[i].due <= amount THEN "PAID" ELSE invoice[i].status]]
                  /\ UNCHANGED account
  /\ UNCHANGED <<payment, checked, refund, adjustment>>

\* What a note took off an invoice stays off when the note is voided.
VoidNote(n) ==
  /\ note[n].status \in {"ISSUED", "APPLIED"}
  /\ note' = [note EXCEPT ![n].status = "VOID"]
  /\ account' = [account EXCEPT !.credit =
                   IF note[n].status = "APPLIED" /\ note[n].target = NoInvoice
                   THEN @ - note[n].amount ELSE @]
  /\ UNCHANGED <<invoice, payment, checked, refund, adjustment>>

CreateAdjustment(a) ==
  /\ adjustment[a].kind = "absent"
  /\ \E k \in {"CREDIT", "DEBIT"}, x \in CreditAmounts,
        i \in {t \in Targets : t = NoInvoice \/ invoice[t].status # "absent"} :
       LET credit == IF k = "CREDIT" THEN x ELSE -x
       IN /\ adjustment' = [adjustment EXCEPT ![a] = [kind |-> k, invoice |-> i, amount |-> x]]
          /\ IF i = NoInvoice
             THEN /\ account' = [account EXCEPT !.credit = @ + credit]
                  /\ UNCHANGED invoice
             ELSE /\ invoice' = [invoice EXCEPT ![i].due = Open(@ - credit)]
                  /\ UNCHANGED account
  /\ UNCHANGED <<payment, checked, refund, note>>

-----------------------------------------------------------------------------

BillingNext ==
  \/ \E i \in Invoices : CreateDraft(i) \/ Issue(i) \/ Void(i) \/ WriteOff(i) \/ MarkOverdue(i)
  \/ \E p \in Payments : \/ RecordManual(p) \/ ApproveCheck(p) \/ Approve(p)
                         \/ Reject(p) \/ Hold(p) \/ MarkFailed(p)
  \/ \E r \in Refunds : CreateRefund(r) \/ ApproveRefund(r) \/ RejectRefund(r) \/ ProcessRefund(r)
  \/ \E n \in Notes : IssueNote(n) \/ ApplyNote(n) \/ VoidNote(n)
  \/ \E a \in Adjustments : CreateAdjustment(a)

BillingSpec == BillingInit /\ [][BillingNext]_billingVars

-----------------------------------------------------------------------------
(* Properties *)

BillingTypeOK ==
  /\ invoice \in [Invoices -> [status : InvoiceStatus, total : Totals \cup {0},
                               paid : Nat, refunded : Nat, due : Nat]]
  /\ payment \in [Payments -> [status : PaymentStatus, invoice : Targets,
                               amount : PaymentAmounts \cup {0}, refunded : Nat, approved : BOOLEAN]]
  /\ checked \subseteq {p \in Payments : payment[p].status \in {"PENDING", "ON_HOLD"}}
  /\ refund \in [Refunds -> [status : {"absent", "PENDING", "APPROVED", "REJECTED", "PROCESSED"},
                             payment : Payments, amount : RefundAmounts \cup {0}]]
  /\ note \in [Notes -> [status : {"absent", "ISSUED", "APPLIED", "VOID"},
                         amount : CreditAmounts \cup {0}, target : Targets]]
  /\ adjustment \in [Adjustments -> [kind : {"absent", "CREDIT", "DEBIT"}, invoice : Targets,
                                     amount : CreditAmounts \cup {0}]]
  /\ account \in [paid : Nat, refunded : Nat, credit : Int]

\* What each row adds to the columns that are sums of others.
CreditOf(p, i) == IF payment[p].approved /\ payment[p].invoice = i THEN payment[p].amount ELSE 0

NoteCredit(n) == IF note[n].status = "APPLIED" /\ note[n].target = NoInvoice THEN note[n].amount ELSE 0

AdjustmentCredit(a) ==
  IF adjustment[a].invoice # NoInvoice THEN 0
  ELSE IF adjustment[a].kind = "CREDIT" THEN adjustment[a].amount ELSE -adjustment[a].amount

GivenBack(r, p) == IF refund[r].status = "PROCESSED" /\ refund[r].payment = p THEN refund[r].amount ELSE 0

RefundedOf(p, i) == IF payment[p].invoice = i THEN payment[p].refunded ELSE 0

\* What is credited is credited once. Each payment that was approved is on its
\* invoice and in the account's totalPaid exactly once, however its approvals
\* raced with each other, with a rejection or with what happened to the invoice
\* in between: payment.service.ts approve judges the invoice before the
\* transaction that credits it. The account's creditBalance, which is incremented
\* without a version, is what notes and adjustments that met no invoice left.
CreditedOnce ==
  /\ \A i \in Invoices :
       invoice[i].paid = SumFunctionOnSet([p \in Payments |-> CreditOf(p, i)], Payments)
  /\ account.paid = SumFunctionOnSet([i \in Invoices |-> invoice[i].paid], Invoices)
  /\ account.credit = SumFunctionOnSet([n \in Notes |-> NoteCredit(n)], Notes)
                      + SumFunctionOnSet([a \in Adjustments |-> AdjustmentCredit(a)], Adjustments)

\* What refunds gave back is on the payment, on its invoice and in the account's
\* totalRefunded once per processed refund, and a payment is refunded in part or
\* in full exactly when its amounts say so, though amountRefunded and the counter
\* are incremented past the versions of their rows.
RefundsAgree ==
  /\ \A p \in Payments :
       /\ payment[p].refunded = SumFunctionOnSet([r \in Refunds |-> GivenBack(r, p)], Refunds)
       /\ payment[p].status = "PARTIALLY_REFUNDED" <=>
            payment[p].refunded \in 1 .. payment[p].amount - 1
       /\ payment[p].status = "REFUNDED" <=>
            payment[p].refunded > 0 /\ payment[p].refunded >= payment[p].amount
  /\ \A i \in Invoices :
       invoice[i].refunded = SumFunctionOnSet([p \in Payments |-> RefundedOf(p, i)], Payments)
  /\ account.refunded = SumFunctionOnSet([i \in Invoices |-> invoice[i].refunded], Invoices)

\* Approved money is credited once, and refunds reach payment, invoice and account alike.
MoneyAgrees == CreditedOnce /\ RefundsAgree
=============================================================================
