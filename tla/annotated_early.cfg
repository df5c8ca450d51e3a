\* A source is annotated under the new prefix before the upgrade.
SPECIFICATION Spec
CONSTANTS
    a = a  b = b  c = c  t1 = t1  t2 = t2  d1 = d1
    None = None
    Invalid = Invalid
    Previous = q
    Primary = p
    ChecksSources = TRUE
    Namespace = {a, b, c}
    Domain = {p, q}
    Team = {t1, t2}
    Cluster = {}
    Data = {d1}
    ExcludeNamespaces = {}
    Refusing = {}
    Gated = {}
    ListLag = TRUE
    MaxLag = 2
    MaxOps = 1
    EnvOps = {"Annotate", "Ahead"}
    UserObject = {}
    InitialApi <- Worlds
    InitialNamespaces <- Mixed
INVARIANT CopiesAreNotSources
