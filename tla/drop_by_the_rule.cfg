\* A source loses its old annotation or is deleted, and the prefix is dropped by
\* the README's rule before the finalizer has been moved or released.
SPECIFICATION Spec
CONSTANTS
    a = a  b = b  c = c  t1 = t1  t2 = t2  d1 = d1
    None = None
    Invalid = Invalid
    Previous = q
    Primary = p
    ChecksSources = TRUE
    Namespace = {a, b, c}
    Domain = {p, q}
    Team = {t1, t2}
    Cluster = {}
    Data = {d1}
    ExcludeNamespaces = {}
    Refusing = {}
    Gated = {}
    ListLag = TRUE
    MaxLag = 2
    MaxOps = 1
    EnvOps = {"Annotate", "Delete", "Restart", "ApiError"}
    UserObject = {}
    InitialApi <- Worlds
    InitialNamespaces <- Mixed
INVARIANT NoFinalizerLeft
