SPECIFICATION Spec
CONSTANTS
    p1 = p1
    p2 = p2
    x1 = x1
    x2 = x2
    Objects = {p1, p2, x1, x2}
    KindOf <- Kinds
    NamespaceOf <- Namespaces
    NameOf <- Names
    Configurations <- PodsOnly
    MaxPodHistory = 2
    MaxChanges = 3
    MaxFailures = 1
    Window = 1
    MaxRequests = 1
    Unknown = Unknown
CHECK_DEADLOCK FALSE
INVARIANTS
    NeverGuessed
