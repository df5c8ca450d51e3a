\* A hub has a copy in a cluster that runs the controller too.
SPECIFICATION Spec
CONSTANTS
    a = a  b = b  c = c  t1 = t1  t2 = t2  d1 = d1  d2 = d2  hub = hub
    None = None
    Invalid = Invalid
    PrimaryDomain = p
    PreviousDomain = None
    Namespace = {a, b, c}
    Domain = {p}
    Team = {t1, t2}
    Cluster = {hub}
    Data = {d1, d2}
    Keys <- MCKeys
    ExcludeNamespaces = {}
    Refusing = {}
    Gated = {}
    ListLag = TRUE
    MaxLag = 2
    MaxOps = 0
    EnvOps = {}
    UserObject <- Strangers
    InitialApi <- HubsCopy
    InitialNamespaces <- Mixed
PROPERTY OtherClustersCopiesStay
