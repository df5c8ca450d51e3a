\* Two hubs share one spoke in which an earlier version left an unlabelled copy.
SPECIFICATION Spec
CONSTANTS
    A = A  B = B  s = s  t = t  ns1 = ns1  ns2 = ns2  uidA = uidA  uidB = uidB
    team = team  d1 = d1  d2 = d2
    None = None
    Invalid = Invalid
    PrimaryDomain = p
    Hub = {A, B}
    Spoke = {s}
    Namespace = {ns1, ns2}
    Domain = {p}
    Team = {team}
    Cluster = {uidA, uidB}
    Data = {d1, d2}
    Keys <- MCKeys
    HubClusterUID <- Named
    ExcludeNamespaces = {}
    Refusing = {}
    Shared = {s}
    MaxOps = 2
    EnvOps = {"Retarget", "Delete", "SpokePut"}
    UserSource = {}
    UserTargets <- NoTargets
    SpokeObject = {}
    InitialSources <- SharedSources
    InitialRemote <- LegacyRemote
INVARIANTS TypeOK WalkOK NoRemoteOrphans
PROPERTIES NoClobber ImplementsOwnership
