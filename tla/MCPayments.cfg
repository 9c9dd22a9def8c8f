SPECIFICATION PaymentsSpec
CONSTANTS
  Payment = {p1, p2}
  Invoice = {i1}
  Handler = {h1, h2}
  Alipay = {p1}
  Price = 2
  NoPayment = NoPayment
  NoInvoice = NoInvoice
INVARIANTS PaymentsTypeOK PaidMeansReceived CreditedOnce
PROPERTY ReceivedIsCredited
CHECK_DEADLOCK FALSE
