\* Everything that can happen to one hub and two spokes, one of whose namespaces
\* always refuses.
SPECIFICATION RetriesSpec
CONSTANTS
    A = A  B = B  s = s  t = t  ns1 = ns1  ns2 = ns2  uidA = uidA  uidB = uidB
    team = team  d1 = d1  d2 = d2
    None = None
    Invalid = Invalid
    PrimaryDomain = p
    Hub = {A}
    Spoke = {s, t}
    Namespace = {ns1, ns2}
    Domain = {p}
    Team = {team}
    Cluster = {uidA, uidB}
    Data = {d1, d2}
    Keys <- MCKeys
    HubClusterUID <- Named
    ExcludeNamespaces = {}
    Refusing <- OneRefuses
    Shared = {t}
    MaxOps = 3
    EnvOps = {"Create", "Unannotate", "Retarget", "Edit", "Delete", "SpokePut",
              "SpokeDown", "Credential", "Restart", "Local"}
    UserSource <- Rival
    UserTargets <- TwoSpokes
    SpokeObject <- Strangers
    InitialSources <- OneSource
    InitialRemote <- SettledRemote
PROPERTIES RemoteConverges RetriesSuffice ReachableSpokesAreSwept
