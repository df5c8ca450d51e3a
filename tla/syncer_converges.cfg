\* Two rival sources and a stranger; what a resync leaves behind.
SPECIFICATION ResyncSpec
CONSTANTS
    a = a  b = b  c = c  t1 = t1  t2 = t2  d1 = d1  d2 = d2  hub = hub
    None = None
    Invalid = Invalid
    PrimaryDomain = p
    PreviousDomain = None
    Namespace = {a, b, c}
    Domain = {p}
    Team = {t1}
    Cluster = {}
    Data = {d1, d2}
    Keys <- MCKeys
    ExcludeNamespaces = {}
    Refusing = {}
    Gated = {}
    ListLag = TRUE
    MaxLag = 2
    MaxOps = 2
    EnvOps = {"Create", "Annotate", "Edit", "Delete", "ApiError"}
    UserObject <- Strangers
    InitialApi <- Rivals
    InitialNamespaces <- AllTeam1
PROPERTY Converges
