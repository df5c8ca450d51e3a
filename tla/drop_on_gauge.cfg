\* The prefix is dropped as soon as the gauge reads 0.
SPECIFICATION Spec
CONSTANTS
    a = a  b = b  c = c  t1 = t1  t2 = t2  d1 = d1
    None = None
    Invalid = Invalid
    Previous = q
    Primary = p
    ChecksSources = FALSE
    Namespace = {a, b, c}
    Domain = {p, q}
    Team = {t1, t2}
    Cluster = {}
    Data = {d1}
    ExcludeNamespaces = {}
    Refusing = {}
    Gated = {}
    ListLag = TRUE
    MaxLag = 2
    MaxOps = 0
    EnvOps = {}
    UserObject = {}
    InitialApi <- Worlds
    InitialNamespaces <- Mixed
PROPERTY CopiesSurvive
