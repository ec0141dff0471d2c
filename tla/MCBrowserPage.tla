--------------------------- MODULE MCBrowserPage ---------------------------
(* A dashboard with two counters, the analytics page with its two searched *)
(* tables, a page with a copy button, the form of a customer (an optional  *)
(* address, a credit limit) and that of an invoice (its number, the        *)
(* quantity of an item, checked by HTML attributes alone and without an    *)
(* element for messages, the hidden customer).                             *)
EXTENDS BrowserPage

MCPages == {"dashboard", "analytics", "details", "newCustomer", "newInvoice"}
MCElementsOn == [p \in MCPages |->
    CASE p = "dashboard" -> {"customers", "collected"}
      [] p = "analytics" -> {"risk", "rfm"}
      [] p = "details" -> {"copyCode"}
      [] OTHER -> {}]
MCFormsOn == [p \in MCPages |->
    CASE p = "newCustomer" -> {"customer"}
      [] p = "newInvoice" -> {"invoice"}
      [] OTHER -> {}]
MCRowsOf == [risk |-> {"r1", "r2"}, rfm |-> {"s1", "s2"}]
MCRowsWith == [all |-> {"r1", "r2", "s1", "s2"}, smith |-> {"r1", "s1"}]
MCStatusesIn == [r1 |-> {"active"}, r2 |-> {"active", "inactive"}, s1 |-> {"inactive", "active"}, s2 |-> {}]
MCTarget == [customers |-> 3, collected |-> 5]

MCFormOf ==
    [email |-> "customer", creditLimit |-> "customer",
     number |-> "invoice", quantity |-> "invoice", customerId |-> "invoice"]
MCFields == DOMAIN MCFormOf
MCAttributes ==
    [email       |-> [email |-> {}, length |-> {"max"}],
     creditLimit |-> [number |-> {}, range |-> {"min", "max"}, required |-> {}],
     number      |-> [required |-> {}, length |-> {"max"}],
     quantity    |-> <<>>,
     customerId  |-> [required |-> {}]]
MCMarkup ==
    [email       |-> [classes |-> {}, attributes |-> {"maxlength"}, type |-> "email"],
     creditLimit |-> [classes |-> {}, attributes |-> {}, type |-> "text"],
     number      |-> [classes |-> {}, attributes |-> {"maxlength"}, type |-> "text"],
     quantity    |-> [classes |-> {}, attributes |-> {"required", "min", "step"}, type |-> "number"],
     customerId  |-> [classes |-> {}, attributes |-> {}, type |-> "hidden"]]
MCEntries ==
    [email       |-> {"absent", "malformed"},
     creditLimit |-> {"low", "fine"},
     number      |-> {"absent", "fine"},
     quantity    |-> {"uneven", "fine"},
     customerId  |-> {}]
MCPrefilled ==
    [email |-> "absent", creditLimit |-> "fine",
     number |-> "absent", quantity |-> "fine", customerId |-> "fine"]

\* The theme and the form of a page share no state: on the pages with a form
\* only the theme of a first visit is explored.
FirstVisit == FormsOn[page] # {} => stored = Nothing /\ osTheme = "light"
=============================================================================
