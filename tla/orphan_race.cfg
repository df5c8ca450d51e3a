\* The source is deleted while a reconcile is creating its copies.
SPECIFICATION ResyncSpec
CONSTANTS
    a = a  b = b  c = c  t1 = t1  t2 = t2  d1 = d1  d2 = d2  hub = hub
    None = None
    Invalid = Invalid
    PrimaryDomain = p
    PreviousDomain = None
    Namespace = {a, b, c}
    Domain = {p}
    Team = {t1, t2}
    Cluster = {}
    Data = {d1, d2}
    Keys <- MCKeys
    ExcludeNamespaces = {}
    Refusing = {}
    Gated = {}
    ListLag = TRUE
    MaxLag = 2
    MaxOps = 1
    EnvOps = {"Delete"}
    UserObject <- Strangers
    InitialApi <- Single
    InitialNamespaces <- AllTeam1
PROPERTY OrphansAreCollected
