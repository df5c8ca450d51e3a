\* Two rival sources, every environment operation, a cache that trails.
SPECIFICATION Spec
CONSTANTS
    a = a  b = b  c = c  t1 = t1  t2 = t2  d1 = d1  d2 = d2  hub = hub
    None = None
    Invalid = Invalid
    PrimaryDomain = p
    PreviousDomain = None
    Namespace = {a, b, c}
    Domain = {p}
    Team = {t1, t2}
    Cluster = {}
    Data = {d1, d2}
    Keys <- MCKeys
    ExcludeNamespaces = {}
    Refusing = {}
    Gated = {}
    ListLag = TRUE
    MaxLag = 2
    MaxOps = 2
    EnvOps = {"Create", "Annotate", "Edit", "Delete", "Restart", "ApiError"}
    UserObject <- Newcomers
    InitialApi <- Rivals
    InitialNamespaces <- AllTeam1
INVARIANTS TypeOK StaleReadsAreSafe NothingForgotten
PROPERTIES
    OnlyUnlistedAreOrphaned
    CopiesOnlyUnderFinalizer
    FirstWriterWins
    ImplementsOwnership
