\* A user replaces a copy by an object of their own while it is being removed.
SPECIFICATION Spec
CONSTANTS
    a = a  b = b  c = c  t1 = t1  t2 = t2  d1 = d1  d2 = d2  hub = hub
    None = None
    Invalid = Invalid
    PrimaryDomain = p
    PreviousDomain = None
    Namespace = {a, b, c}
    Domain = {p}
    Team = {t1, t2}
    Cluster = {}
    Data = {d1, d2}
    Keys <- MCKeys
    ExcludeNamespaces = {}
    Refusing = {}
    Gated = {}
    ListLag = TRUE
    MaxLag = 2
    MaxOps = 3
    EnvOps = {"Create", "Delete"}
    UserObject <- Strangers
    InitialApi <- Settled3
    InitialNamespaces <- Mixed
PROPERTY DeletesOnlyCopies
