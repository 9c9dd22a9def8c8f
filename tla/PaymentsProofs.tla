--------------------------- MODULE PaymentsProofs ---------------------------
(***************************************************************************)
(* What holds of any number of payments, invoices and handlers.  The two   *)
(* invariants are not inductive as they stand.  That a paid invoice was    *)
(* paid needs that whoever holds an old row holds a true one, and that an  *)
(* order is placed once, so that what the provider has received it is not  *)
(* asked for again.  That a payment is credited once needs that, where no  *)
(* two handlers met and no write was lost, at most one handler holds the   *)
(* payment and none does when it has been credited.  That the credit stays *)
(* needs that every copy of the invoice that is held has it too, where no  *)
(* other copy was held while it was given.                                 *)
(***************************************************************************)
EXTENDS Payments, TLAPS

USE PriceAssumption, AlipayAssumption, NoneAssumption

AtPayment == {"provider", "save", "query", "saveQuery", "credit", "bill"}
AtInvoice == {"period", "finalize", "void", "bill"}

\* What a handler has read belongs together, and is of rows that exist.
HoldsRows(h) ==
    /\ handler[h].at \in AtInvoice => /\ handler[h].invoice \in Invoice
                                      /\ handler[h].bill.status # "none"
    /\ handler[h].at \notin AtInvoice => handler[h].invoice = NoInvoice
    /\ handler[h].at \notin AtPayment => handler[h].payment = NoPayment
    /\ handler[h].at \in AtPayment =>
          /\ handler[h].payment \in Payment
          /\ payments[handler[h].payment].status # "none"
          /\ handler[h].row.status # "none"
          /\ handler[h].row.invoice = payments[handler[h].payment].invoice
    /\ handler[h].at = "bill" => handler[h].invoice = handler[h].row.invoice

RowsBelong ==
    /\ \A h \in Handler : HoldsRows(h)
    /\ \A p \in Payment : payments[p].status # "none" =>
          /\ payments[p].invoice \in Invoice
          /\ invoices[payments[p].invoice].status # "none"

\* An order is placed once, and what a handler is about to record was received.
OrdersPlaced ==
    /\ \A p \in Payment : trade[p] # "none" => payments[p].status # "none"
    /\ \A p \in notices : trade[p] = "paid"
    /\ \A h \in Handler : handler[h].at = "provider" => trade[handler[h].payment] = "none"
    /\ \A g, h \in Handler :
          /\ handler[g].at = "provider" /\ handler[h].at = "provider"
          /\ handler[g].payment = handler[h].payment
          => g = h

AboutToRecord(h) ==
    \/ handler[h].at \in {"save", "credit", "bill"}
    \/ handler[h].at = "saveQuery" /\ handler[h].row.status = "succeeded"

RecordsTrue == \A h \in Handler : AboutToRecord(h) => trade[handler[h].payment] = "paid"

Backed(i) == \E p \in Payment : payments[p].invoice = i /\ trade[p] = "paid"

BillsBacked == \A h \in Handler : handler[h].bill.status = "paid" => Backed(handler[h].invoice)

Alone(p) ==
    /\ credits[p] = 0 \/ credits[p] = 1
    /\ credits[p] = 1 => /\ payments[p].status = "succeeded"
                         /\ \A h \in Handler : handler[h].payment # p
    /\ \A g, h \in Handler : handler[g].payment = p /\ handler[h].payment = p => g = h
    /\ \A h \in Handler :
          handler[h].payment = p /\ handler[h].at \in {"credit", "bill"}
          => payments[p].status = "succeeded"

UndisturbedAreAlone == \A p \in Payment : p \notin overlapped \cup halfDone => Alone(p)

\* A credit that nobody crossed is in the row, and in every copy of it; while it
\* is being given, nobody else holds one.
Kept(p) ==
    /\ credits[p] > 0 =>
          /\ payments[p].status # "none" /\ p \in invoices[payments[p].invoice].from
          /\ \A h \in Handler :
                handler[h].invoice = payments[p].invoice => p \in handler[h].bill.from
    /\ \A g, h \in Handler :
          /\ handler[g].at = "bill" /\ handler[g].payment = p
          /\ handler[h].invoice = handler[g].invoice
          => h = g

UncrossedAreKept == \A p \in Payment : p \notin crossed => Kept(p)

IInv ==
    /\ PaymentsTypeOK /\ RowsBelong /\ OrdersPlaced /\ RecordsTrue
    /\ PaidMeansReceived /\ BillsBacked /\ UndisturbedAreAlone
    /\ UncrossedAreKept

-----------------------------------------------------------------------------

LEMMA InitInv == PaymentsInit => IInv
<1> SUFFICES ASSUME PaymentsInit PROVE IInv
  OBVIOUS
<1> USE DEF PaymentsInit, Idle, NoRow, NoBill
<1>1. PaymentsTypeOK
  BY DEF PaymentsTypeOK, InvoiceRow, InvoiceStatus, PaymentRow, PaymentStatus, Trade,
     Local, Place
<1>2. RowsBelong /\ OrdersPlaced /\ RecordsTrue
  BY DEF RowsBelong, HoldsRows, AtInvoice, AtPayment, OrdersPlaced, RecordsTrue,
     AboutToRecord
<1>3. PaidMeansReceived /\ BillsBacked /\ UndisturbedAreAlone /\ UncrossedAreKept
  BY DEF PaidMeansReceived, BillsBacked, UndisturbedAreAlone, Alone, UncrossedAreKept, Kept
<1> QED
  BY <1>1, <1>2, <1>3 DEF IInv

\* The rows that are written have the types of rows.
LEMMA RowTypes ==
    /\ Idle \in Local /\ NoRow \in PaymentRow /\ NoBill \in InvoiceRow
    /\ [status |-> "draft", paid |-> 0, due |-> Price, from |-> {}] \in InvoiceRow
    /\ \A row \in PaymentRow, s \in PaymentStatus :
          /\ [row EXCEPT !.status = s] \in PaymentRow
          /\ [row EXCEPT !.status = s, !.placed = TRUE] \in PaymentRow
    /\ \A bill \in InvoiceRow, s \in InvoiceStatus : [bill EXCEPT !.status = s] \in InvoiceRow
  BY DEF Idle, NoRow, NoBill, Local, PaymentRow, InvoiceRow, PaymentStatus,
     InvoiceStatus, Place

LEMMA CreditedType ==
    ASSUME NEW bill \in InvoiceRow, NEW p \in Payment, NEW amount \in Nat
    PROVE  Credited(bill, p, amount) \in InvoiceRow
  BY DEF Credited, InvoiceRow, InvoiceStatus

-----------------------------------------------------------------------------
(* Every step, one conjunct of the invariant after the other.  What each     *)
(* action does to the rows and to the handlers is all that matters.          *)

Step(h, p, i, b) ==
    \/ CreateInvoice(h, i) \/ ReadForFinalize(h, i) \/ ReadForVoid(h, i)
    \/ GenerateMonthlyInvoice(h) \/ FinalizeInvoice(h) \/ VoidInvoice(h)
    \/ CreatePayment(h, p, i) \/ ProviderAccepts(h) \/ ProviderRefuses(h)
    \/ Pay(p) \/ CloseTrade(p) \/ DeliverNotice(h, p) \/ AlreadyProcessed(h, p)
    \/ HandlePaymentCallback(h) \/ ReadForCredit(h) \/ MarkInvoicePaid(h, b)
    \/ ReadForQuery(h, p) \/ ProviderAnswersQuery(h) \/ QueryPaymentStatus(h, b)
    \/ DatabaseFails(h)

\* A handler's rows keep their types when their status is set.
LEMMA HeldTypes ==
    ASSUME PaymentsTypeOK, NEW h \in Handler
    PROVE  /\ handler[h] \in Local /\ handler[h].bill \in InvoiceRow
           /\ handler[h].row \in PaymentRow
           /\ [handler[h].bill EXCEPT !.status = "open"] \in InvoiceRow
           /\ [handler[h].bill EXCEPT !.status = "void"] \in InvoiceRow
           /\ \A s \in PaymentStatus :
                 /\ [handler[h].row EXCEPT !.status = s] \in PaymentRow
                 /\ \A place \in Place :
                       [handler EXCEPT ![h].at = place, ![h].row.status = s]
                          \in [Handler -> Local]
<1> DEFINE Row(s) == [handler[h].row EXCEPT !.status = s]
           Moved(s, place) == [handler EXCEPT ![h].at = place, ![h].row.status = s]
<1>1. /\ handler \in [Handler -> Local]
      /\ handler[h] \in Local /\ handler[h].bill \in InvoiceRow /\ handler[h].row \in PaymentRow
  BY DEF PaymentsTypeOK, Local
<1>2. /\ [handler[h].bill EXCEPT !.status = "open"] \in InvoiceRow
      /\ [handler[h].bill EXCEPT !.status = "void"] \in InvoiceRow
  BY <1>1 DEF InvoiceRow, InvoiceStatus
<1>3. ASSUME NEW s \in PaymentStatus, NEW place \in Place
      PROVE  Row(s) \in PaymentRow /\ Moved(s, place) \in [Handler -> Local]
  <2>1. Row(s) \in PaymentRow
    BY <1>1 DEF PaymentRow
  <2>2. [[handler[h] EXCEPT !.at = place] EXCEPT !.row = Row(s)] \in Local
    BY <1>1, <2>1 DEF Local
  <2>3. Moved(s, place)
          = [handler EXCEPT ![h] = [[handler[h] EXCEPT !.at = place] EXCEPT !.row = Row(s)]]
    BY <1>1 DEF Local
  <2> QED
    BY <1>1, <2>1, <2>2, <2>3
<1>4. \A s \in PaymentStatus : /\ Row(s) \in PaymentRow
                               /\ \A place \in Place : Moved(s, place) \in [Handler -> Local]
  <2> HIDE DEF Row, Moved
  <2>1. "idle" \in Place
    BY DEF Place
  <2> QED
    BY <1>3, <2>1
<1> QED
  BY <1>1, <1>2, <1>4, Zenon

\* Whoever reads an invoice adds payments to those that others credited meanwhile.
LEMMA CrossedTyped ==
    ASSUME IInv, NEW h \in Handler, NEW i \in Invoice,
           ReadForCredit(h) \/ ReadForFinalize(h, i) \/ ReadForVoid(h, i)
    PROVE  crossed' \subseteq Payment
<1>1. \A j : Crediting(h, j) \subseteq Payment
  BY DEF Crediting, Holding, IInv, PaymentsTypeOK, Local
<1>2. CASE ReadForCredit(h)
  <2>1. handler[h].payment \in Payment
    BY <1>2 DEF ReadForCredit, IInv, RowsBelong, HoldsRows, AtPayment
  <2> QED
    BY <1>1, <1>2, <2>1 DEF ReadForCredit, IInv, PaymentsTypeOK
<1> QED
  BY <1>1, <1>2 DEF ReadForFinalize, ReadForVoid, ReadBill, IInv, PaymentsTypeOK

\* The actions that save a row, or keep it in the handler, with a new status.
LEMMA SavesTyped ==
    ASSUME IInv, NEW h \in Handler, NEW b \in BOOLEAN,
           \/ FinalizeInvoice(h) \/ VoidInvoice(h) \/ ProviderAccepts(h) \/ ProviderRefuses(h)
           \/ HandlePaymentCallback(h) \/ ReadForCredit(h) \/ QueryPaymentStatus(h, b)
    PROVE  PaymentsTypeOK'
<1> USE DEF IInv, PaymentsTypeOK
<1>a. /\ handler[h].at \in AtInvoice => handler[h].invoice \in Invoice
      /\ handler[h].at \in AtPayment => handler[h].payment \in Payment
  BY DEF RowsBelong, HoldsRows
<1>1. CASE FinalizeInvoice(h)
  <2>1. invoices' \in [Invoice -> InvoiceRow] /\ handler' \in [Handler -> Local]
    BY <1>a, <1>1, HeldTypes, RowTypes DEF FinalizeInvoice, SaveBill, AtInvoice
  <2> QED
    BY <1>1, <2>1 DEF FinalizeInvoice
<1>2. CASE VoidInvoice(h)
  <2>1. invoices' \in [Invoice -> InvoiceRow] /\ handler' \in [Handler -> Local]
    BY <1>a, <1>2, HeldTypes, RowTypes DEF VoidInvoice, SaveBill, AtInvoice
  <2> QED
    BY <1>2, <2>1 DEF VoidInvoice
<1>3. CASE ProviderAccepts(h)
  <2>1. /\ payments' \in [Payment -> PaymentRow] /\ handler' \in [Handler -> Local]
        /\ trade' \in [Payment -> Trade]
    BY <1>a, <1>3, HeldTypes, RowTypes DEF ProviderAccepts, PlaceOrder, AtPayment,
       PaymentStatus, Trade
  <2> QED
    BY <1>3, <2>1 DEF ProviderAccepts
<1>4. CASE ProviderRefuses(h)
  <2>1. payments' \in [Payment -> PaymentRow] /\ handler' \in [Handler -> Local]
    BY <1>a, <1>4, HeldTypes, RowTypes DEF ProviderRefuses, AtPayment, PaymentStatus
  <2> QED
    BY <1>4, <2>1 DEF ProviderRefuses
<1>5. CASE HandlePaymentCallback(h)
  <2>1. payments' \in [Payment -> PaymentRow] /\ handler' \in [Handler -> Local]
    BY <1>a, <1>5, HeldTypes, RowTypes DEF HandlePaymentCallback, AtPayment,
       PaymentStatus, Place
  <2> QED
    BY <1>5, <2>1 DEF HandlePaymentCallback
<1>6. CASE ReadForCredit(h)
  <2>1. handler[h].row.invoice \in Invoice
    BY <1>a, <1>6 DEF ReadForCredit, RowsBelong, HoldsRows, AtPayment
  <2>2. [handler[h] EXCEPT !.at = "bill", !.invoice = handler[h].row.invoice,
                           !.bill = invoices[handler[h].row.invoice]] \in Local
    <3>1. handler[h] \in Local /\ invoices[handler[h].row.invoice] \in InvoiceRow
      BY <2>1
    <3> QED
      BY <2>1, <3>1 DEF Local, Place
  <2> QED
    BY <1>6, <2>1, <2>2, CrossedTyped DEF ReadForCredit
<1>7. CASE QueryPaymentStatus(h, b)
  <2>1. [handler[h] EXCEPT !.at = "credit"] \in Local
    <3>1. handler[h] \in Local
      OBVIOUS
    <3> QED
      BY <3>1 DEF Local, Place
  <2>2. payments' \in [Payment -> PaymentRow] /\ handler' \in [Handler -> Local]
    BY <1>a, <1>7, <2>1, HeldTypes, RowTypes DEF QueryPaymentStatus, AtPayment
  <2>3. halfDone' \subseteq Payment
    BY <1>a, <1>7 DEF QueryPaymentStatus, AtPayment
  <2> QED
    BY <1>7, <2>2, <2>3 DEF QueryPaymentStatus
<1> QED
  BY <1>1, <1>2, <1>3, <1>4, <1>5, <1>6, <1>7

\* A query ends, or its answer is kept in the row that was read.
LEMMA QueryAnswered ==
    ASSUME PaymentsTypeOK, NEW h \in Handler, ProviderAnswersQuery(h)
    PROVE  /\ handler[h].at = "query"
           /\ UNCHANGED <<invoices, payments, trade, notices>>
           /\ UNCHANGED <<credits, halfDone, overlapped, crossed>>
           /\ handler' \in [Handler -> Local]
           /\ \A g \in Handler \ {h} : handler'[g] = handler[g]
           /\ \/ handler'[h] = Idle
              \/ /\ handler'[h].at = "saveQuery" /\ handler'[h].payment = handler[h].payment
                 /\ handler'[h].row.status = QueryPayment(handler[h].payment)
                 /\ handler'[h].row.invoice = handler[h].row.invoice
                 /\ handler'[h].invoice = handler[h].invoice
                 /\ handler'[h].bill = handler[h].bill
           /\ QueryPayment(handler[h].payment) \in PaymentStatus \ {"none"}
           /\ QueryPayment(handler[h].payment) = "succeeded" => trade[handler[h].payment] = "paid"
<1> DEFINE status == QueryPayment(handler[h].payment)
<1>1. /\ status \in PaymentStatus \ {"none"}
      /\ status = "succeeded" => trade[handler[h].payment] = "paid"
  BY DEF QueryPayment, MapTradeStatus, PaymentStatus
<1>2. /\ handler[h].at = "query"
      /\ UNCHANGED <<invoices, payments, trade, notices, credits, halfDone, overlapped, crossed>>
      /\ \/ handler' = [handler EXCEPT ![h] = Idle]
         \/ handler' = [handler EXCEPT ![h].at = "saveQuery", ![h].row.status = status]
  BY DEF ProviderAnswersQuery
<1> HIDE DEF status
<1>3. CASE handler' = [handler EXCEPT ![h] = Idle]
  BY <1>1, <1>2, <1>3, RowTypes DEF PaymentsTypeOK, status
<1>4. CASE handler' = [handler EXCEPT ![h].at = "saveQuery", ![h].row.status = status]
  <2>1. handler' \in [Handler -> Local]
    BY <1>1, <1>4, HeldTypes DEF Place
  <2> QED
    BY <1>1, <1>2, <1>4, <2>1 DEF PaymentsTypeOK, Local, PaymentRow, status
<1> QED
  BY <1>2, <1>3, <1>4

\* It brings no handler a bill.
LEMMA QueryKeepsBill ==
    ASSUME PaymentsTypeOK, NEW h \in Handler, ProviderAnswersQuery(h),
           NEW g \in Handler, handler'[g].bill.status = "paid"
    PROVE  handler[g].bill.status = "paid" /\ handler'[g].invoice = handler[g].invoice
<1>1. CASE g # h
  BY <1>1, QueryAnswered
<1>2. CASE g = h
  <2>1. handler'[h] # Idle
    BY <1>2 DEF Idle, NoBill
  <2> QED
    BY <1>2, <2>1, QueryAnswered
<1> QED
  BY <1>1, <1>2

LEMMA Typed ==
    ASSUME IInv, NEW h \in Handler, NEW p \in Payment, NEW i \in Invoice, NEW b \in BOOLEAN,
           Step(h, p, i, b)
    PROVE  PaymentsTypeOK'
<1> USE DEF IInv, PaymentsTypeOK, RowsBelong, HoldsRows, AtPayment, AtInvoice,
   InvoiceRow, InvoiceStatus, PaymentRow, PaymentStatus, Trade, Local, Place, Idle,
   NoRow, NoBill
<1>1. CASE CreateInvoice(h, i)
  BY <1>1 DEF CreateInvoice
<1>2. CASE ReadForFinalize(h, i)
  BY <1>2, CrossedTyped DEF ReadForFinalize, ReadBill
<1>3. CASE ReadForVoid(h, i)
  BY <1>3, CrossedTyped DEF ReadForVoid, ReadBill
<1>4. CASE GenerateMonthlyInvoice(h)
  BY <1>4 DEF GenerateMonthlyInvoice, SaveBill
<1>5. CASE CreatePayment(h, p, i)
  BY <1>5 DEF CreatePayment
<1>6. CASE Pay(p)
  BY <1>6 DEF Pay
<1>7. CASE CloseTrade(p)
  BY <1>7 DEF CloseTrade
<1>8. CASE DeliverNotice(h, p)
  BY <1>8 DEF DeliverNotice, ReadForCallback, HandleCallback, InUse
<1>9. CASE AlreadyProcessed(h, p)
  BY <1>9 DEF AlreadyProcessed, HandleCallback
<1>10. CASE MarkInvoicePaid(h, b)
  BY <1>10 DEF MarkInvoicePaid, SaveBill, Answer, Credited
<1>11. CASE ReadForQuery(h, p)
  BY <1>11 DEF ReadForQuery, InUse
<1>12. CASE ProviderAnswersQuery(h)
  BY <1>12, QueryAnswered
<1>13. CASE DatabaseFails(h)
  BY <1>13 DEF DatabaseFails
<1> QED
  BY SavesTyped, <1>1, <1>2, <1>3, <1>4, <1>5, <1>6, <1>7, <1>8, <1>9, <1>10, <1>11,
     <1>12, <1>13 DEF Step

\* What a step that moves one handler only has to keep.
LEMMA RowsStay ==
    ASSUME RowsBelong, NEW h \in Handler, payments' = payments, invoices' = invoices, HoldsRows(h)',
           \A g \in Handler \ {h} : handler'[g] = handler[g]
    PROVE  RowsBelong'
  BY DEF RowsBelong, HoldsRows

LEMMA RowsStep ==
    ASSUME IInv, NEW h \in Handler, NEW p \in Payment, NEW i \in Invoice, NEW b \in BOOLEAN,
           Step(h, p, i, b)
    PROVE  RowsBelong'
<1> USE DEF IInv, PaymentsTypeOK, RowsBelong, HoldsRows, AtPayment, AtInvoice, Idle,
   NoRow, Local, PaymentRow, Place
<1>1. CASE CreateInvoice(h, i)
  BY <1>1 DEF CreateInvoice
<1>2. CASE ReadForFinalize(h, i)
  BY <1>2 DEF ReadForFinalize, ReadBill
<1>3. CASE ReadForVoid(h, i)
  BY <1>3 DEF ReadForVoid, ReadBill
<1>4. CASE GenerateMonthlyInvoice(h)
  BY <1>4 DEF GenerateMonthlyInvoice, SaveBill
<1>5. CASE FinalizeInvoice(h)
  BY <1>5 DEF FinalizeInvoice, SaveBill
<1>6. CASE VoidInvoice(h)
  BY <1>6 DEF VoidInvoice, SaveBill
<1>7. CASE CreatePayment(h, p, i)
  BY <1>7 DEF CreatePayment
<1>8. CASE ProviderAccepts(h)
  BY <1>8 DEF ProviderAccepts, PlaceOrder
<1>9. CASE ProviderRefuses(h)
  BY <1>9 DEF ProviderRefuses
<1>10. CASE Pay(p)
  BY <1>10 DEF Pay
<1>11. CASE CloseTrade(p)
  BY <1>11 DEF CloseTrade
<1>12. CASE DeliverNotice(h, p)
  BY <1>12 DEF DeliverNotice, ReadForCallback, HandleCallback, InUse, OrdersPlaced
<1>13. CASE AlreadyProcessed(h, p)
  BY <1>13 DEF AlreadyProcessed, HandleCallback
<1>14. CASE HandlePaymentCallback(h)
  BY <1>14 DEF HandlePaymentCallback
<1>15. CASE ReadForCredit(h)
  <2>1. /\ handler[h].at = "credit" /\ payments' = payments /\ invoices' = invoices
        /\ handler'[h].at = "bill" /\ handler'[h].invoice = handler[h].row.invoice
        /\ handler'[h].bill = invoices[handler[h].row.invoice]
        /\ handler'[h].payment = handler[h].payment /\ handler'[h].row = handler[h].row
    BY <1>15 DEF ReadForCredit
  <2>2. \A g \in Handler \ {h} : handler'[g] = handler[g]
    BY <1>15 DEF ReadForCredit
  <2>3. HoldsRows(h)'
    BY <2>1
  <2> QED
    BY <2>1, <2>2, <2>3, RowsStay
<1>16. CASE MarkInvoicePaid(h, b)
  BY <1>16 DEF MarkInvoicePaid, SaveBill, Answer, Credited
<1>17. CASE ReadForQuery(h, p)
  BY <1>17 DEF ReadForQuery, InUse
<1>18. CASE ProviderAnswersQuery(h)
  <2>1. HoldsRows(h)'
    BY <1>18, QueryAnswered
  <2> QED
    BY <1>18, <2>1, QueryAnswered, RowsStay
<1>19. CASE QueryPaymentStatus(h, b)
  <2>1. /\ handler[h].at = "saveQuery"
        /\ invoices' = invoices
        /\ \/ payments' = payments
           \/ payments' = [payments EXCEPT ![handler[h].payment] = handler[h].row]
        /\ \/ handler' = [handler EXCEPT ![h].at = "credit"]
           \/ handler' = [handler EXCEPT ![h] = Idle]
    BY <1>19 DEF QueryPaymentStatus
  <2>2. \A q \in Payment : /\ payments'[q].invoice = payments[q].invoice
                           /\ payments[q].status # "none" => payments'[q].status # "none"
    BY <2>1
  <2>3. \A q \in Payment : payments'[q].status # "none" =>
           payments'[q].invoice \in Invoice /\ invoices'[payments'[q].invoice].status # "none"
    BY <2>1
  <2>4. HoldsRows(h)'
    <3>1. CASE handler' = [handler EXCEPT ![h].at = "credit"]
      <4>1. /\ handler'[h].at = "credit" /\ handler'[h].payment = handler[h].payment
            /\ handler'[h].row = handler[h].row
        BY <3>1
      <4> QED
        BY <2>1, <2>2, <4>1
    <3>2. CASE handler' = [handler EXCEPT ![h] = Idle]
      BY <3>2
    <3> QED
      BY <2>1, <3>1, <3>2
  <2>5. \A g \in Handler \ {h} : handler'[g] = handler[g]
    BY <2>1
  <2>6. \A g \in Handler \ {h} : HoldsRows(g)'
    BY <2>2, <2>5
  <2> QED
    BY <2>3, <2>4, <2>6
<1>20. CASE DatabaseFails(h)
  BY <1>20 DEF DatabaseFails
<1> QED
  BY <1>1, <1>2, <1>3, <1>4, <1>5, <1>6, <1>7, <1>8, <1>9, <1>10, <1>11, <1>12, <1>13,
     <1>14, <1>15, <1>16, <1>17, <1>18, <1>19, <1>20 DEF Step

LEMMA OrdersStep ==
    ASSUME IInv, NEW h \in Handler, NEW p \in Payment, NEW i \in Invoice, NEW b \in BOOLEAN,
           Step(h, p, i, b)
    PROVE  OrdersPlaced' /\ RecordsTrue'
<1> USE DEF IInv, PaymentsTypeOK, RowsBelong, HoldsRows, AtPayment, OrdersPlaced,
   RecordsTrue, AboutToRecord, Idle, Local, PaymentRow
<1>1. CASE CreateInvoice(h, i)
  BY <1>1 DEF CreateInvoice
<1>2. CASE ReadForFinalize(h, i)
  BY <1>2 DEF ReadForFinalize, ReadBill
<1>3. CASE ReadForVoid(h, i)
  BY <1>3 DEF ReadForVoid, ReadBill
<1>4. CASE GenerateMonthlyInvoice(h)
  BY <1>4 DEF GenerateMonthlyInvoice, SaveBill
<1>5. CASE FinalizeInvoice(h)
  BY <1>5 DEF FinalizeInvoice, SaveBill
<1>6. CASE VoidInvoice(h)
  BY <1>6 DEF VoidInvoice, SaveBill
<1>7. CASE CreatePayment(h, p, i)
  BY <1>7 DEF CreatePayment
<1>8. CASE ProviderAccepts(h)
  BY <1>8 DEF ProviderAccepts, PlaceOrder
<1>9. CASE ProviderRefuses(h)
  BY <1>9 DEF ProviderRefuses
<1>10. CASE Pay(p)
  BY <1>10 DEF Pay
<1>11. CASE CloseTrade(p)
  BY <1>11 DEF CloseTrade
<1>12. CASE DeliverNotice(h, p)
  BY <1>12 DEF DeliverNotice, ReadForCallback, HandleCallback, InUse
<1>13. CASE AlreadyProcessed(h, p)
  BY <1>13 DEF AlreadyProcessed, HandleCallback
<1>14. CASE HandlePaymentCallback(h)
  BY <1>14 DEF HandlePaymentCallback
<1>15. CASE ReadForCredit(h)
  <2>1. /\ payments' = payments /\ trade' = trade /\ notices' = notices
        /\ handler[h].at = "credit" /\ handler'[h].at = "bill"
        /\ handler'[h].payment = handler[h].payment
    BY <1>15 DEF ReadForCredit
  <2>2. \A g \in Handler \ {h} : handler'[g] = handler[g]
    BY <1>15 DEF ReadForCredit
  <2>3. \A g \in Handler : handler'[g].at = "provider" => handler'[g] = handler[g]
    BY <2>1, <2>2
  <2>4. OrdersPlaced'
    BY <2>1, <2>3
  <2>5. AboutToRecord(h)' => trade'[handler'[h].payment] = "paid"
    BY <2>1
  <2>6. RecordsTrue'
    BY <2>1, <2>2, <2>5
  <2> QED
    BY <2>4, <2>6
<1>16. CASE MarkInvoicePaid(h, b)
  BY <1>16 DEF MarkInvoicePaid, SaveBill, Answer, Credited
<1>17. CASE ReadForQuery(h, p)
  BY <1>17 DEF ReadForQuery, InUse
<1>18. CASE ProviderAnswersQuery(h)
  <2>1. \A g \in Handler : handler'[g].at = "provider" => handler'[g] = handler[g]
    BY <1>18, QueryAnswered
  <2>2. OrdersPlaced'
    BY <1>18, <2>1, QueryAnswered
  <2>3. AboutToRecord(h)' => trade'[handler'[h].payment] = "paid"
    BY <1>18, QueryAnswered
  <2>4. RecordsTrue'
    BY <1>18, <2>3, QueryAnswered, SMTT(30)
  <2> QED
    BY <2>2, <2>4
<1>19. CASE QueryPaymentStatus(h, b)
  BY <1>19 DEF QueryPaymentStatus
<1>20. CASE DatabaseFails(h)
  BY <1>20 DEF DatabaseFails
<1> QED
  BY <1>1, <1>2, <1>3, <1>4, <1>5, <1>6, <1>7, <1>8, <1>9, <1>10, <1>11, <1>12, <1>13,
     <1>14, <1>15, <1>16, <1>17, <1>18, <1>19, <1>20 DEF Step

\* What backs a bill does not go away, and what nobody touches stays backed.
LEMMA BillsStay ==
    ASSUME PaidMeansReceived, BillsBacked, invoices' = invoices,
           \A q \in Payment : trade[q] = "paid" =>
               trade'[q] = "paid" /\ payments'[q].invoice = payments[q].invoice,
           \A g \in Handler : handler'[g].bill.status = "paid" =>
               /\ handler[g].bill.status = "paid"
               /\ handler'[g].invoice = handler[g].invoice
    PROVE  PaidMeansReceived' /\ BillsBacked'
  BY DEF PaidMeansReceived, BillsBacked, Backed

LEMMA BillsStep ==
    ASSUME IInv, NEW h \in Handler, NEW p \in Payment, NEW i \in Invoice, NEW b \in BOOLEAN,
           Step(h, p, i, b)
    PROVE  PaidMeansReceived' /\ BillsBacked'
<1> USE DEF IInv, PaymentsTypeOK, RowsBelong, HoldsRows, AtPayment, AtInvoice,
   OrdersPlaced, RecordsTrue, AboutToRecord, PaidMeansReceived, BillsBacked, Backed,
   Idle, NoBill, Local, PaymentRow, InvoiceRow
<1>1. CASE CreateInvoice(h, i)
  BY <1>1 DEF CreateInvoice
<1>2. CASE ReadForFinalize(h, i)
  BY <1>2 DEF ReadForFinalize, ReadBill
<1>3. CASE ReadForVoid(h, i)
  BY <1>3 DEF ReadForVoid, ReadBill
<1>4. CASE GenerateMonthlyInvoice(h)
  BY <1>4 DEF GenerateMonthlyInvoice, SaveBill
<1>5. CASE FinalizeInvoice(h)
  BY <1>5 DEF FinalizeInvoice, SaveBill
<1>6. CASE VoidInvoice(h)
  BY <1>6 DEF VoidInvoice, SaveBill
<1>7. CASE CreatePayment(h, p, i)
  BY <1>7 DEF CreatePayment
<1>8. CASE ProviderAccepts(h)
  <2>1. /\ invoices' = invoices
        /\ handler' = [handler EXCEPT ![h] = Idle]
        /\ trade' = [trade EXCEPT ![handler[h].payment] = "wait"]
        /\ trade[handler[h].payment] = "none"
        /\ handler[h].payment \in Payment
    BY <1>8 DEF ProviderAccepts, PlaceOrder
  <2>2. \A q \in Payment \ {handler[h].payment} :
           trade'[q] = trade[q] /\ payments'[q] = payments[q]
    BY <1>8 DEF ProviderAccepts, PlaceOrder
  <2>3. \A g \in Handler : handler'[g].bill.status = "paid" => handler'[g] = handler[g]
    BY <2>1
  <2> QED
    BY <2>1, <2>2, <2>3, BillsStay
<1>9. CASE ProviderRefuses(h)
  BY <1>9 DEF ProviderRefuses
<1>10. CASE Pay(p)
  BY <1>10 DEF Pay
<1>11. CASE CloseTrade(p)
  <2>1. /\ invoices' = invoices /\ payments' = payments /\ handler' = handler
        /\ trade[p] = "wait" /\ \A q \in Payment \ {p} : trade'[q] = trade[q]
    BY <1>11 DEF CloseTrade
  <2> QED
    BY <2>1, BillsStay
<1>12. CASE DeliverNotice(h, p)
  BY <1>12 DEF DeliverNotice, ReadForCallback, HandleCallback, InUse
<1>13. CASE AlreadyProcessed(h, p)
  BY <1>13 DEF AlreadyProcessed, HandleCallback
<1>14. CASE HandlePaymentCallback(h)
  BY <1>14 DEF HandlePaymentCallback
<1>15. CASE ReadForCredit(h)
  BY <1>15 DEF ReadForCredit
<1>16. CASE MarkInvoicePaid(h, b)
  BY <1>16 DEF MarkInvoicePaid, SaveBill, Answer, Credited
<1>17. CASE ReadForQuery(h, p)
  BY <1>17 DEF ReadForQuery, InUse
<1>18. CASE ProviderAnswersQuery(h)
  <2>1. \A g \in Handler : handler'[g].bill.status = "paid" =>
           handler[g].bill.status = "paid" /\ handler'[g].invoice = handler[g].invoice
    BY <1>18, QueryKeepsBill
  <2> QED
    BY <1>18, <2>1, QueryAnswered, BillsStay
<1>19. CASE QueryPaymentStatus(h, b)
  BY <1>19 DEF QueryPaymentStatus
<1>20. CASE DatabaseFails(h)
  BY <1>20 DEF DatabaseFails
<1> QED
  BY <1>1, <1>2, <1>3, <1>4, <1>5, <1>6, <1>7, <1>8, <1>9, <1>10, <1>11, <1>12, <1>13,
     <1>14, <1>15, <1>16, <1>17, <1>18, <1>19, <1>20 DEF Step

LEMMA AloneStep ==
    ASSUME IInv, NEW h \in Handler, NEW p \in Payment, NEW i \in Invoice, NEW b \in BOOLEAN,
           Step(h, p, i, b)
    PROVE  UndisturbedAreAlone'
<1> USE DEF IInv, PaymentsTypeOK, RowsBelong, HoldsRows, AtPayment, UndisturbedAreAlone,
   Alone, Idle, Local, PaymentRow
<1>1. CASE CreateInvoice(h, i)
  BY <1>1 DEF CreateInvoice
<1>2. CASE ReadForFinalize(h, i)
  BY <1>2 DEF ReadForFinalize, ReadBill
<1>3. CASE ReadForVoid(h, i)
  BY <1>3 DEF ReadForVoid, ReadBill
<1>4. CASE GenerateMonthlyInvoice(h)
  BY <1>4 DEF GenerateMonthlyInvoice, SaveBill
<1>5. CASE FinalizeInvoice(h)
  BY <1>5 DEF FinalizeInvoice, SaveBill
<1>6. CASE VoidInvoice(h)
  BY <1>6 DEF VoidInvoice, SaveBill
<1>7. CASE CreatePayment(h, p, i)
  BY <1>7 DEF CreatePayment
<1>8. CASE ProviderAccepts(h)
  BY <1>8 DEF ProviderAccepts, PlaceOrder
<1>9. CASE ProviderRefuses(h)
  BY <1>9 DEF ProviderRefuses
<1>10. CASE Pay(p)
  BY <1>10 DEF Pay
<1>11. CASE CloseTrade(p)
  BY <1>11 DEF CloseTrade
<1>12. CASE DeliverNotice(h, p)
  BY <1>12 DEF DeliverNotice, ReadForCallback, HandleCallback, InUse
<1>13. CASE AlreadyProcessed(h, p)
  BY <1>13 DEF AlreadyProcessed, HandleCallback
<1>14. CASE HandlePaymentCallback(h)
  BY <1>14 DEF HandlePaymentCallback
<1>15. CASE ReadForCredit(h)
  BY <1>15 DEF ReadForCredit
<1>16. CASE MarkInvoicePaid(h, b)
  BY <1>16 DEF MarkInvoicePaid, SaveBill, Answer, Credited
<1>17. CASE ReadForQuery(h, p)
  BY <1>17 DEF ReadForQuery, InUse
<1>18. CASE ProviderAnswersQuery(h)
  <2>1. \A g \in Handler : /\ handler'[g].payment \in {handler[g].payment, NoPayment}
                           /\ handler'[g].at \in {"credit", "bill"} => handler'[g] = handler[g]
    BY <1>18, QueryAnswered
  <2> QED
    BY <1>18, <2>1, QueryAnswered
<1>19. CASE QueryPaymentStatus(h, b)
  BY <1>19 DEF QueryPaymentStatus
<1>20. CASE DatabaseFails(h)
  BY <1>20 DEF DatabaseFails
<1> QED
  BY <1>1, <1>2, <1>3, <1>4, <1>5, <1>6, <1>7, <1>8, <1>9, <1>10, <1>11, <1>12, <1>13,
     <1>14, <1>15, <1>16, <1>17, <1>18, <1>19, <1>20 DEF Step

LEMMA KeptStep ==
    ASSUME IInv, NEW h \in Handler, NEW p \in Payment, NEW i \in Invoice, NEW b \in BOOLEAN,
           Step(h, p, i, b)
    PROVE  UncrossedAreKept'
<1> USE DEF IInv, PaymentsTypeOK, RowsBelong, HoldsRows, AtPayment, AtInvoice,
   UncrossedAreKept, Kept, Idle, NoBill, Local, PaymentRow, InvoiceRow
<1>1. CASE CreateInvoice(h, i)
  BY <1>1 DEF CreateInvoice
<1>2. CASE ReadForFinalize(h, i)
  BY <1>2 DEF ReadForFinalize, ReadBill, Crediting, Holding
<1>3. CASE ReadForVoid(h, i)
  BY <1>3 DEF ReadForVoid, ReadBill, Crediting, Holding
<1>4. CASE GenerateMonthlyInvoice(h)
  BY <1>4 DEF GenerateMonthlyInvoice, SaveBill
<1>5. CASE FinalizeInvoice(h)
  BY <1>5 DEF FinalizeInvoice, SaveBill
<1>6. CASE VoidInvoice(h)
  BY <1>6 DEF VoidInvoice, SaveBill
<1>7. CASE CreatePayment(h, p, i)
  BY <1>7 DEF CreatePayment
<1>8. CASE ProviderAccepts(h)
  BY <1>8 DEF ProviderAccepts, PlaceOrder
<1>9. CASE ProviderRefuses(h)
  BY <1>9 DEF ProviderRefuses
<1>10. CASE Pay(p)
  BY <1>10 DEF Pay
<1>11. CASE CloseTrade(p)
  BY <1>11 DEF CloseTrade
<1>12. CASE DeliverNotice(h, p)
  BY <1>12 DEF DeliverNotice, ReadForCallback, HandleCallback, InUse
<1>13. CASE AlreadyProcessed(h, p)
  BY <1>13 DEF AlreadyProcessed, HandleCallback
<1>14. CASE HandlePaymentCallback(h)
  BY <1>14 DEF HandlePaymentCallback
<1>15. CASE ReadForCredit(h)
  BY <1>15 DEF ReadForCredit, Crediting, Holding
<1>16. CASE MarkInvoicePaid(h, b)
  BY <1>16 DEF MarkInvoicePaid, SaveBill, Answer, Credited
<1>17. CASE ReadForQuery(h, p)
  BY <1>17 DEF ReadForQuery, InUse
<1>18. CASE ProviderAnswersQuery(h)
  <2>1. \A g \in Handler : /\ \/ /\ handler'[g].invoice = handler[g].invoice
                                 /\ handler'[g].bill = handler[g].bill
                              \/ handler'[g].invoice = NoInvoice
                           /\ handler'[g].at = "bill" => handler'[g] = handler[g]
    BY <1>18, QueryAnswered
  <2>2. \A q \in Payment : payments[q].status # "none" => payments[q].invoice # NoInvoice
    OBVIOUS
  <2> QED
    BY <1>18, <2>1, <2>2, QueryAnswered
<1>19. CASE QueryPaymentStatus(h, b)
  BY <1>19 DEF QueryPaymentStatus
<1>20. CASE DatabaseFails(h)
  BY <1>20 DEF DatabaseFails
<1> QED
  BY <1>1, <1>2, <1>3, <1>4, <1>5, <1>6, <1>7, <1>8, <1>9, <1>10, <1>11, <1>12, <1>13,
     <1>14, <1>15, <1>16, <1>17, <1>18, <1>19, <1>20 DEF Step

LEMMA Unchanged == IInv /\ UNCHANGED paymentVars => IInv'
  BY DEF paymentVars, IInv, PaymentsTypeOK, RowsBelong, HoldsRows, OrdersPlaced,
     RecordsTrue,
         AboutToRecord, PaidMeansReceived, BillsBacked, Backed, UndisturbedAreAlone, Alone,
     UncrossedAreKept, Kept

LEMMA NextInv == IInv /\ [PaymentsNext]_paymentVars => IInv'
<1> SUFFICES ASSUME IInv, [PaymentsNext]_paymentVars PROVE IInv'
  OBVIOUS
<1>1. ASSUME NEW h \in Handler, NEW p \in Payment, NEW i \in Invoice, NEW b \in BOOLEAN,
             Step(h, p, i, b)
      PROVE  IInv'
  BY <1>1, Typed, RowsStep, OrdersStep, BillsStep, AloneStep, KeptStep DEF IInv
<1>2. CASE PaymentsNext
  <2>1. \E h \in Handler, p \in Payment, i \in Invoice, b \in BOOLEAN : Step(h, p, i, b)
    BY <1>2, SomeAssumption DEF PaymentsNext, Step
  <2> QED
    BY <1>1, <2>1
<1> QED
  BY <1>2, Unchanged

-----------------------------------------------------------------------------

\* The rows of payment_service.go and invoice_service.go, and what a handler has
\* read of them, keep their types.
THEOREM TypeCorrect == PaymentsSpec => []PaymentsTypeOK
<1>1. IInv => PaymentsTypeOK
  BY DEF IInv
<1> QED
  BY <1>1, InitInv, NextInv, PTL DEF PaymentsSpec

\* However many handlers save rows they read long ago, an invoice that
\* MarkInvoicePaid has made paid was paid: the provider has received a payment for it.
THEOREM PaidWasReceived == PaymentsSpec => []PaidMeansReceived
<1>1. IInv => PaidMeansReceived
  BY DEF IInv
<1> QED
  BY <1>1, InitInv, NextInv, PTL DEF PaymentsSpec

\* HandlePaymentCallback and QueryPaymentStatus credit a payment once, if no two of
\* them work on it at the same time and no write is lost between them; and what
\* MarkInvoicePaid added stays in the invoice, if nobody held a copy of it then.
THEOREM CreditIsGivenOnce == PaymentsSpec => []CreditedOnce
<1>1. IInv => CreditedOnce
  <2> SUFFICES ASSUME IInv, NEW p \in Payment
               PROVE  /\ credits[p] > 1 => p \in overlapped \cup halfDone
                      /\ credits[p] > 0 => InInvoice(p) \/ p \in crossed
    BY DEF CreditedOnce
  <2>1. credits[p] > 1 => p \in overlapped \cup halfDone
    BY DEF IInv, UndisturbedAreAlone, Alone, PaymentsTypeOK
  <2>2. credits[p] > 0 => InInvoice(p) \/ p \in crossed
    BY DEF IInv, RowsBelong, UncrossedAreKept, Kept, InInvoice
  <2> QED
    BY <2>1, <2>2
<1> QED
  BY <1>1, InitInv, NextInv, PTL DEF PaymentsSpec
==============================================================================
