\* A source is deleted, and the controller restarts.
SPECIFICATION ResyncSpec
CONSTANTS
    A = A  B = B  s = s  t = t  ns1 = ns1  ns2 = ns2  uidA = uidA  uidB = uidB
    team = team  d1 = d1  d2 = d2
    None = None
    Invalid = Invalid
    PrimaryDomain = p
    Hub = {A}
    Spoke = {s}
    Namespace = {ns1, ns2}
    Domain = {p}
    Team = {team}
    Cluster = {uidA, uidB}
    Data = {d1, d2}
    Keys <- MCKeys
    HubClusterUID <- Named
    ExcludeNamespaces = {}
    Refusing = {}
    Shared = {}
    MaxOps = 2
    EnvOps = {"Delete", "Restart"}
    UserSource = {}
    UserTargets <- Retargets
    SpokeObject = {}
    InitialSources <- OneSource
    InitialRemote <- SettledRemote
PROPERTY RemoteOrphansAreCollected
