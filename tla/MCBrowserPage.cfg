SPECIFICATION Spec
CONSTANTS
    Pages <- MCPages
    ElementsOn <- MCElementsOn
    Tables = {"risk", "rfm"}
    RowsOf <- MCRowsOf
    Terms = {"all", "smith"}
    RowsWith <- MCRowsWith
    Statuses = {"active", "inactive"}
    StatusesIn <- MCStatusesIn
    NoBadge = {"s2"}
    Counters = {"customers", "collected"}
    Target <- MCTarget
    Currency = {"collected"}
    Duration = 3
    LastTick = 4
    CopyButtons = {"copyCode"}
    MaxCopies = 2
    Forms = {"customer", "invoice"}
    Fields <- MCFields
    FormOf <- MCFormOf
    DataVal = {"email", "creditLimit", "number", "customerId"}
    Attributes <- MCAttributes
    Markup <- MCMarkup
    Checkboxes = {}
    Ignored = {"customerId"}
    WithSpan = {"email", "creditLimit", "number"}
    WithSummary = {"customer", "invoice"}
    Entries <- MCEntries
    Prefilled <- MCPrefilled
    Resettable = {"customer", "invoice"}
    FormsOn <- MCFormsOn
CONSTRAINT FirstVisit
INVARIANTS ThemePersists OneControlDecides CaptionComesBack MessageFollowsCheck IInv
PROPERTIES CounterSettles PostsExactlyTheAcceptable RefusalIsExplained
