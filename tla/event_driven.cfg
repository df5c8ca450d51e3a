\* One source, nobody in the way, one namespace that always refuses: events and
\* retries alone bring the copies into step.
SPECIFICATION RetriesSpec
CONSTANTS
    a = a  b = b  c = c  t1 = t1  t2 = t2  d1 = d1  d2 = d2  hub = hub
    None = None
    Invalid = Invalid
    PrimaryDomain = p
    PreviousDomain = None
    Namespace = {a, b, c}
    Domain = {p}
    Team = {t1, t2}
    Cluster = {}
    Data = {d1, d2}
    Keys <- MCKeys
    ExcludeNamespaces = {}
    Refusing = {c}
    Gated = {}
    ListLag = TRUE
    MaxLag = 2
    MaxOps = 2
    EnvOps = {"Annotate", "Edit", "Delete", "Relabel", "Restart", "NsDelete", "NsCreate"}
    UserObject <- Strangers
    InitialApi <- SettledWorlds
    InitialNamespaces <- Mixed
PROPERTY Converges
