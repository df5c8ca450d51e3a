\* The controller takes over what the previous annotation domain left, with the
\* webhook installed and a level cache for a cleanup's list.
SPECIFICATION ResyncSpec
CONSTANTS
    a = a  b = b  c = c  t1 = t1  t2 = t2  d1 = d1  d2 = d2  hub = hub
    None = None
    Invalid = Invalid
    PrimaryDomain = p
    PreviousDomain = q
    Namespace = {a, b, c}
    Domain = {p, q}
    Team = {t1, t2}
    Cluster = {}
    Data = {d1, d2}
    Keys <- MCKeys
    ExcludeNamespaces = {}
    Refusing = {}
    Gated = {a, b}
    ListLag = FALSE
    MaxLag = 2
    MaxOps = 2
    EnvOps = {"Create", "Annotate", "Edit", "Delete", "Restart", "ApiError"}
    UserObject <- Strangers
    InitialApi <- Leftovers
    InitialNamespaces <- Mixed
INVARIANTS NoOrphanedCopies NoFrozenSource
PROPERTIES ImplementsOwnership LegacyRetired MigratesInPlace
