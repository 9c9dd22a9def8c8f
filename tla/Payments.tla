------------------------------ MODULE Payments ------------------------------
(***************************************************************************)
(* Paying an invoice: PaymentService, InvoiceService and the two payment   *)
(* providers of the core service.  Rows live in Postgres; every service    *)
(* method reads a row, decides, and writes the whole row back (gorm Save)  *)
(* without a transaction, so each database call is a step of its own and   *)
(* what a handler read may be old when it writes.  Providers repeat a      *)
(* notification until it is answered with success.                         *)
(***************************************************************************)
EXTENDS Integers, FiniteSets

CONSTANTS Payment,    \* ids of payments
          Invoice,    \* ids of invoices
          Handler,    \* goroutines that serve requests and notifications
          Alipay,     \* the payments made through Alipay; WeChat Pay has the others
          Price,      \* the total of an invoice
          NoPayment, NoInvoice

ASSUME PriceAssumption == Price \in Nat \ {0}
ASSUME AlipayAssumption == Alipay \subseteq Payment
ASSUME SomeAssumption == Payment # {} /\ Invoice # {} /\ Handler # {}
ASSUME NoneAssumption == NoPayment \notin Payment /\ NoInvoice \notin Invoice

VARIABLES invoices,   \* rows of the invoices table
          payments,   \* rows of the payments table
          trade,      \* what the provider knows of each payment
          notices,    \* payments whose notification has not been answered with success
          handler,    \* where each goroutine is, and the rows it has read
          credits,    \* history: how often a payment was added to an invoice
          halfDone,   \* history: payments of which only one of recording and crediting was done
          overlapped, \* history: payments that two handlers worked on at once
          crossed     \* history: payments credited while others held a copy of the invoice

paymentVars == <<invoices, payments, trade, notices, handler, credits, halfDone, overlapped,
                 crossed>>

-----------------------------------------------------------------------------
(* Rows and places. *)

InvoiceStatus == {"none", "draft", "open", "paid", "void"}
PaymentStatus == {"none", "pending", "processing", "succeeded", "failed"}

\* `from' is auxiliary: the payments whose amounts are in AmountPaid.  `placed':
\* the row has the ProviderPaymentID, which is the order number for Alipay.
InvoiceRow == [status : InvoiceStatus, paid : Nat, due : Nat, from : SUBSET Payment]
PaymentRow == [status : PaymentStatus, invoice : Invoice \cup {NoInvoice},
               amount : Nat, placed : BOOLEAN]
Trade == {"none", "wait", "paid", "closed"}

Place == {"idle", "period", "finalize", "void", "provider", "save", "query",
          "saveQuery", "credit", "bill"}

NoRow == [status |-> "none", invoice |-> NoInvoice, amount |-> 0, placed |-> FALSE]
NoBill == [status |-> "none", paid |-> 0, due |-> 0, from |-> {}]

Local == [at : Place, payment : Payment \cup {NoPayment}, row : PaymentRow,
          invoice : Invoice \cup {NoInvoice}, bill : InvoiceRow]

Idle == [at |-> "idle", payment |-> NoPayment, row |-> NoRow,
         invoice |-> NoInvoice, bill |-> NoBill]

PaymentsTypeOK ==
    /\ invoices \in [Invoice -> InvoiceRow]
    /\ payments \in [Payment -> PaymentRow]
    /\ trade \in [Payment -> Trade]
    /\ notices \subseteq Payment
    /\ handler \in [Handler -> Local]
    /\ credits \in [Payment -> Nat]
    /\ halfDone \subseteq Payment
    /\ overlapped \subseteq Payment
    /\ crossed \subseteq Payment

PaymentsInit ==
    /\ invoices = [i \in Invoice |-> NoBill]
    /\ payments = [p \in Payment |-> NoRow]
    /\ trade = [p \in Payment |-> "none"]
    /\ notices = {}
    /\ handler = [h \in Handler |-> Idle]
    /\ credits = [p \in Payment |-> 0]
    /\ halfDone = {}
    /\ overlapped = {}
    /\ crossed = {}

\* Some other handler has read the row of p and not finished with it.
InUse(h, p) == \E g \in Handler \ {h} : handler[g].payment = p

\* The other handlers that hold a copy of the row of invoice i, to be saved.
Holding(h, i) == {g \in Handler \ {h} : handler[g].invoice = i}

\* The payments among theirs that are being credited to it.
Crediting(h, i) == {handler[g].payment : g \in Holding(h, i)} \ {NoPayment}

-----------------------------------------------------------------------------
(* Invoices. *)

\* GenerateMonthlyInvoice: CreateInvoice inserts the invoice with its items in
\* one transaction; the billing period is saved afterwards, with the whole row.
CreateInvoice(h, i) ==
    /\ handler[h].at = "idle" /\ invoices[i].status = "none"
    /\ LET row == [status |-> "draft", paid |-> 0, due |-> Price, from |-> {}]
       IN /\ invoices' = [invoices EXCEPT ![i] = row]
          /\ handler' = [handler EXCEPT ![h] = [Idle EXCEPT !.at = "period",
                                                  !.invoice = i, !.bill = row]]
    /\ UNCHANGED <<payments, trade, notices, credits, halfDone, overlapped, crossed>>

\* Whoever got as far as this place saves the row of the invoice that it read.
SaveBill(h, place, row) ==
    /\ handler[h].at = place
    /\ invoices' = [invoices EXCEPT ![handler[h].invoice] = row]
    /\ handler' = [handler EXCEPT ![h] = Idle]

GenerateMonthlyInvoice(h) ==
    /\ SaveBill(h, "period", handler[h].bill)
    /\ UNCHANGED <<payments, trade, notices, credits, halfDone, overlapped, crossed>>

ReadBill(h, i, place) ==
    /\ handler[h].at = "idle" /\ invoices[i].status # "none"
    /\ handler' = [handler EXCEPT ![h] = [Idle EXCEPT !.at = place, !.invoice = i,
                                                      !.bill = invoices[i]]]
    /\ crossed' = crossed \cup Crediting(h, i)
    /\ UNCHANGED <<invoices, payments, trade, notices, credits, halfDone, overlapped>>

ReadForFinalize(h, i) == invoices[i].status = "draft" /\ ReadBill(h, i, "finalize")

FinalizeInvoice(h) ==
    /\ SaveBill(h, "finalize", [handler[h].bill EXCEPT !.status = "open"])
    /\ UNCHANGED <<payments, trade, notices, credits, halfDone, overlapped, crossed>>

ReadForVoid(h, i) == invoices[i].status # "paid" /\ ReadBill(h, i, "void")

VoidInvoice(h) ==
    /\ SaveBill(h, "void", [handler[h].bill EXCEPT !.status = "void"])
    /\ UNCHANGED <<payments, trade, notices, credits, halfDone, overlapped, crossed>>

\* Mutant: what is paid beyond the total is due.
CreditedUnclamped(bill, p, amount) ==
    LET paid == bill.paid + amount
    IN [status |-> IF Price <= paid THEN "paid" ELSE bill.status,
        paid |-> paid, due |-> Price - paid, from |-> bill.from \cup {p}]

\* Mutant: the amount is set and not added.
CreditedAlone(bill, p, amount) ==
    [status |-> IF Price <= amount THEN "paid" ELSE bill.status, paid |-> amount,
     due |-> IF Price <= amount THEN 0 ELSE Price - amount, from |-> {p}]

\* The row after a credit: paid once nothing is due, whatever it was before.
Credited(bill, p, amount) ==
    LET paid == bill.paid + amount
    IN [status |-> IF Price <= paid THEN "paid" ELSE bill.status,
        paid |-> paid, due |-> IF Price <= paid THEN 0 ELSE Price - paid,
        from |-> bill.from \cup {p}]

-----------------------------------------------------------------------------
(* Starting a payment. *)

\* The invoice is read and a pending payment inserted for what is due on it.
\* Nobody else knows the new row, so reading and inserting are one step.
CreatePayment(h, p, i) ==
    /\ handler[h].at = "idle" /\ payments[p].status = "none"
    /\ invoices[i].status \notin {"none", "paid"} /\ invoices[i].due > 0
    /\ LET row == [status |-> "pending", invoice |-> i,
                   amount |-> invoices[i].due, placed |-> FALSE]
       IN /\ payments' = [payments EXCEPT ![p] = row]
          /\ handler' = [handler EXCEPT ![h] = [Idle EXCEPT !.at = "provider",
                                                  !.payment = p, !.row = row]]
    /\ UNCHANGED <<invoices, trade, notices, credits, halfDone, overlapped, crossed>>

\* The provider has an order for the payment.
PlaceOrder(p) == trade' = [trade EXCEPT ![p] = "wait"]

\* The client gets the order's URL or QR code, and can pay, once the row is
\* saved as processing.
ProviderAccepts(h) ==
    /\ handler[h].at = "provider"
    /\ payments' = [payments EXCEPT ![handler[h].payment] =
                       [handler[h].row EXCEPT !.status = "processing", !.placed = TRUE]]
    /\ PlaceOrder(handler[h].payment)
    /\ handler' = [handler EXCEPT ![h] = Idle]
    /\ UNCHANGED <<invoices, notices, credits, halfDone, overlapped, crossed>>

ProviderRefuses(h) ==
    /\ handler[h].at = "provider"
    /\ payments' = [payments EXCEPT ![handler[h].payment] =
                       [handler[h].row EXCEPT !.status = "failed"]]
    /\ handler' = [handler EXCEPT ![h] = Idle]
    /\ UNCHANGED <<invoices, trade, notices, credits, halfDone, overlapped, crossed>>

(* The buyer and the provider. *)

Pay(p) ==
    /\ trade[p] = "wait"
    /\ trade' = [trade EXCEPT ![p] = "paid"]
    /\ notices' = notices \cup {p}
    /\ UNCHANGED <<invoices, payments, handler, credits, halfDone, overlapped, crossed>>

CloseTrade(p) ==
    /\ trade[p] = "wait"
    /\ trade' = [trade EXCEPT ![p] = "closed"]
    /\ UNCHANGED <<invoices, payments, notices, handler, credits, halfDone, overlapped, crossed>>

-----------------------------------------------------------------------------
(* Notifications. *)

\* AlipayCallback and WechatCallback answer "success" or "fail": a failed
\* notification stays with the provider, which sends it again.
Answer(h) == notices \ {handler[h].payment}

\* A notification that is signed by the provider and tells of a payment;
\* others are refused.
HandleCallback(p) == p \in notices

\* The provider delivers a notification, perhaps while an earlier delivery of
\* the same one is still being handled.  HandlePaymentCallback reads the row.
ReadForCallback(h, p) ==
    /\ handler[h].at = "idle" /\ HandleCallback(p)
    /\ handler' = [handler EXCEPT ![h] = [Idle EXCEPT !.at = "save", !.payment = p,
                                              !.row = payments[p]]]
    /\ overlapped' = IF InUse(h, p) THEN overlapped \cup {p} ELSE overlapped
    /\ UNCHANGED <<invoices, payments, trade, notices, credits, halfDone, crossed>>

DeliverNoticeUnchecked(h, p) == ReadForCallback(h, p)

DeliverNotice(h, p) == payments[p].status # "succeeded" /\ ReadForCallback(h, p)

\* A notification of a payment that has succeeded is answered, and that is all.
AlreadyProcessed(h, p) ==
    /\ handler[h].at = "idle" /\ HandleCallback(p) /\ payments[p].status = "succeeded"
    /\ notices' = notices \ {p}
    /\ UNCHANGED <<invoices, payments, trade, handler, credits, halfDone, overlapped, crossed>>

HandlePaymentCallback(h) ==
    /\ handler[h].at = "save"
    /\ payments' = [payments EXCEPT ![handler[h].payment] =
                       [handler[h].row EXCEPT !.status = "succeeded"]]
    /\ handler' = [handler EXCEPT ![h].at = "credit", ![h].row.status = "succeeded"]
    /\ UNCHANGED <<invoices, trade, notices, credits, halfDone, overlapped, crossed>>

\* MarkInvoicePaid reads the invoice ...
ReadForCredit(h) ==
    /\ handler[h].at = "credit"
    /\ LET i == handler[h].row.invoice
       IN /\ handler' = [handler EXCEPT ![h].at = "bill", ![h].invoice = i,
                                        ![h].bill = invoices[i]]
          /\ crossed' = crossed \cup Crediting(h, i)
                         \cup (IF Holding(h, i) # {} THEN {handler[h].payment} ELSE {})
    /\ UNCHANGED <<invoices, payments, trade, notices, credits, halfDone, overlapped>>

\* ... and saves it with the amount added; only then is the provider answered,
\* which may not get the answer and then sends the notification again.
MarkInvoicePaid(h, answered) ==
    /\ SaveBill(h, "bill", Credited(handler[h].bill, handler[h].payment, handler[h].row.amount))
    /\ credits' = [credits EXCEPT ![handler[h].payment] = @ + 1]
    /\ notices' = IF answered THEN Answer(h) ELSE notices
    /\ UNCHANGED <<payments, trade, halfDone, overlapped, crossed>>

-----------------------------------------------------------------------------
(* Asking the provider. *)

MapTradeStatusLoose(tradeStatus) ==
    IF tradeStatus = "closed" THEN "failed" ELSE "succeeded"

MapTradeStatus(tradeStatus) ==
    CASE tradeStatus = "paid" -> "succeeded"
      [] tradeStatus = "closed" -> "failed"
      [] OTHER -> "pending"

QueryPayment(p) == MapTradeStatus(trade[p])

\* QueryPaymentStatus reads the row and returns it if it is final.
ReadForQuery(h, p) ==
    /\ handler[h].at = "idle"
    /\ payments[p].status \notin {"none", "succeeded", "failed"}
    /\ handler' = [handler EXCEPT ![h] = [Idle EXCEPT !.at = "query", !.payment = p,
                                              !.row = payments[p]]]
    /\ overlapped' = IF InUse(h, p) THEN overlapped \cup {p} ELSE overlapped
    /\ UNCHANGED <<invoices, payments, trade, notices, credits, halfDone, crossed>>

\* Who is asked knows the order.  WeChat is asked with the prepay id in the place
\* of the order number, which it does not know, and a row from before the order
\* was placed has no id at all: both get an error.  A trade that waits has made
\* the row pending again; it keeps its id, and the next query is answered too.
AnswersQuery(p, row) == p \in Alipay /\ row.placed

\* The provider answers with another status than the row has, or the caller gets
\* the row as it was: the status is the same, the answer an error, or none came.
ProviderAnswersQuery(h) ==
    /\ handler[h].at = "query"
    /\ LET p == handler[h].payment
           status == QueryPayment(p)
       IN \/ /\ AnswersQuery(p, handler[h].row)
             /\ status # handler[h].row.status
             /\ handler' = [handler EXCEPT ![h].at = "saveQuery", ![h].row.status = status]
          \/ handler' = [handler EXCEPT ![h] = Idle]
    /\ UNCHANGED <<invoices, payments, trade, notices, credits, halfDone, overlapped, crossed>>

\* The row as it was read, with the provider's status, is saved; an error of
\* the save is ignored.  Bound: the save of a success fails once per payment.
QueryPaymentStatus(h, saved) ==
    /\ handler[h].at = "saveQuery"
    /\ saved \/ handler[h].row.status # "succeeded" \/ handler[h].payment \notin halfDone
    /\ payments' = IF saved THEN [payments EXCEPT ![handler[h].payment] = handler[h].row]
                   ELSE payments
    /\ handler' = IF handler[h].row.status = "succeeded"
                  THEN [handler EXCEPT ![h].at = "credit"]
                  ELSE [handler EXCEPT ![h] = Idle]
    /\ halfDone' = IF saved \/ handler[h].row.status # "succeeded" THEN halfDone
                   ELSE halfDone \cup {handler[h].payment}
    /\ UNCHANGED <<invoices, trade, notices, credits, overlapped, crossed>>

DatabaseFailsAnswered(h) ==
    /\ handler[h].at \notin {"idle", "query", "saveQuery"}
    /\ handler' = [handler EXCEPT ![h] = Idle]
    /\ notices' = Answer(h)
    /\ UNCHANGED <<invoices, payments, trade, credits, halfDone, overlapped, crossed>>

\* A database call fails: the handler returns the error and leaves what it has
\* done so far; a notification is then not answered with success.
DatabaseFails(h) ==
    /\ handler[h].at \notin {"idle", "query", "saveQuery"}
    /\ handler' = [handler EXCEPT ![h] = Idle]
    /\ halfDone' = IF handler[h].at \in {"credit", "bill"}
               THEN halfDone \cup {handler[h].payment} ELSE halfDone
    /\ UNCHANGED <<invoices, payments, trade, notices, credits, overlapped, crossed>>

PaymentsNext ==
    \/ \E h \in Handler, i \in Invoice :
          CreateInvoice(h, i) \/ ReadForFinalize(h, i) \/ ReadForVoid(h, i)
    \/ \E h \in Handler : GenerateMonthlyInvoice(h)
    \/ \E h \in Handler : FinalizeInvoice(h)
    \/ \E h \in Handler : VoidInvoice(h)
    \/ \E h \in Handler, p \in Payment, i \in Invoice : CreatePayment(h, p, i)
    \/ \E h \in Handler : ProviderAccepts(h)
    \/ \E h \in Handler : ProviderRefuses(h)
    \/ \E p \in Payment : Pay(p)
    \/ \E p \in Payment : CloseTrade(p)
    \/ \E h \in Handler, p \in Payment : DeliverNotice(h, p)
    \/ \E h \in Handler, p \in Payment : AlreadyProcessed(h, p)
    \/ \E h \in Handler : HandlePaymentCallback(h)
    \/ \E h \in Handler : ReadForCredit(h)
    \/ \E h \in Handler, answered \in BOOLEAN : MarkInvoicePaid(h, answered)
    \/ \E h \in Handler, p \in Payment : ReadForQuery(h, p)
    \/ \E h \in Handler : ProviderAnswersQuery(h)
    \/ \E h \in Handler, saved \in BOOLEAN : QueryPaymentStatus(h, saved)
    \/ \E h \in Handler : DatabaseFails(h)

\* What a handler does by itself once it has begun: one thing at a time.
HandlerStep(h) ==
    \/ GenerateMonthlyInvoice(h) \/ FinalizeInvoice(h) \/ VoidInvoice(h)
    \/ ProviderAccepts(h) \/ ProviderRefuses(h)
    \/ ReadForCredit(h) \/ \E answered \in BOOLEAN : MarkInvoicePaid(h, answered)
    \/ ProviderAnswersQuery(h) \/ \E saved \in BOOLEAN : QueryPaymentStatus(h, saved)

\* Goroutines are scheduled and database calls return; a provider repeats a
\* notification until it is answered; a database that fails now and then also
\* works now and then.
PaymentsFairness ==
    /\ \A h \in Handler :
          /\ WF_paymentVars(HandlerStep(h))
          /\ SF_paymentVars(HandlePaymentCallback(h))
    /\ \A p \in Payment : SF_paymentVars(\E h \in Handler : DeliverNotice(h, p))

PaymentsSpec == PaymentsInit /\ [][PaymentsNext]_paymentVars /\ PaymentsFairness

-----------------------------------------------------------------------------
(* Properties. *)

\* An invoice is paid only if the provider has received a payment for it, also
\* when rows read before are written over newer ones, deliveries overlap and
\* the database fails.
PaidMeansReceived ==
    \A i \in Invoice : invoices[i].status = "paid" =>
        \E p \in Payment : payments[p].invoice = i /\ trade[p] = "paid"

\* The amount of p is in the row of its invoice.
InInvoice(p) == \E i \in Invoice : payments[p].invoice = i /\ p \in invoices[i].from

\* Repeating a notification, or asking the provider as well and again, credits a
\* payment once, unless two handlers have worked on the payment at the same time,
\* or its success was credited and could not be recorded: there is no lock between
\* reading a payment and recording its success, and no transaction.  And what was
\* credited stays in the invoice, whoever finalizes, voids or credits it later,
\* unless somebody held a copy of the invoice while it was credited.
CreditedOnce ==
    \A p \in Payment :
        /\ credits[p] > 1 => p \in overlapped \cup halfDone
        /\ credits[p] > 0 => InInvoice(p) \/ p \in crossed

\* A payment that the provider has received gets into its invoice in the end,
\* unless the database failed between recording the payment and crediting it,
\* for which a repeated notification does not make up, or another copy of the
\* invoice was held while it was credited and may have been saved over it.
ReceivedIsCredited ==
    \A p \in Payment :
        trade[p] = "paid" ~> (InInvoice(p) \/ p \in halfDone \cup crossed)

=============================================================================
