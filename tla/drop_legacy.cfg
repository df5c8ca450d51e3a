\* One source through three releases, and the README's rule for dropping the
\* prefix.
SPECIFICATION Spec
CONSTANTS
    a = a  b = b  c = c  t1 = t1  t2 = t2  d1 = d1
    None = None
    Invalid = Invalid
    Previous = q
    Primary = p
    ChecksSources = TRUE
    Namespace = {a, b, c}
    Domain = {p, q}
    Team = {t1, t2}
    Cluster = {}
    Data = {d1}
    ExcludeNamespaces = {}
    Refusing = {}
    Gated = {}
    ListLag = TRUE
    MaxLag = 2
    MaxOps = 3
    EnvOps = {"Annotate", "Delete", "Restart", "ApiError"}
    UserObject = {}
    InitialApi <- Worlds
    InitialNamespaces <- Mixed
INVARIANTS TypeOK OldPrefixUnused FinalizersMove CopiesAreNotSources
PROPERTY CopiesSurvive
