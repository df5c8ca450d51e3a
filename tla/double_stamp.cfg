\* A user makes a source of a copy the previous domain abandoned.
SPECIFICATION Spec
CONSTANTS
    a = a  b = b  c = c  t1 = t1  t2 = t2  d1 = d1  d2 = d2  hub = hub
    None = None
    Invalid = Invalid
    PrimaryDomain = p
    PreviousDomain = q
    Namespace = {a, b, c}
    Domain = {p, q}
    Team = {t1, t2}
    Cluster = {}
    Data = {d1, d2}
    Keys <- MCKeys
    ExcludeNamespaces = {}
    Refusing = {}
    Gated = {}
    ListLag = TRUE
    MaxLag = 2
    MaxOps = 1
    EnvOps = {"Annotate", "Chain"}
    UserObject <- Strangers
    InitialApi <- Abandoned
    InitialNamespaces <- Mixed
INVARIANT OneDomainPerCopy
