CONSTANTS
    c1 = c1
    a = a
    b = b
    z = z
    p1 = p1
    p2 = p2
    p1rev = p1rev
    r1 = r1
    r2 = r2
    r3 = r3
    NoRequest = NoRequest
    TooLong = TooLong
    Customers = {c1}
    CustomerOf <- OneCustomer
    TotalOf <- Totals
    RevOf <- Reversals
    NumInvoices = 1
    Lines = {a, b}
    Amounts = {1, 2}
    Numbers = {p1, p1rev, p2}
    Requests = {r1, r2}
    MaxRequests = 6
SPECIFICATION Spec
SYMMETRY Symmetry
INVARIANTS
    NoOverpayment
    InvoicePaidIsExact
    ReversedAtMostOnce
    CancelledHoldsNoPayment
    IInv
PROPERTIES
    IssuedTotalIsFrozen
    ImplementsBook
