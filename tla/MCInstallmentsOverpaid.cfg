SPECIFICATION Spec
CONSTANTS
    r1 = r1
    r2 = r2
    Requests <- MCRequests
    InvoiceTotal = 3
    Counts = {1, 2}
    DownPayments = {0}
    Amounts = {1, 2}
    MaxRequests = 4
    MaxPayments = 3
INVARIANT InstallmentNotOverpaid
