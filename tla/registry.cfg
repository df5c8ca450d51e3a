\* One credential that is repointed, relabelled, deleted and created while it is
\* vetted, and a channel that fills up.
SPECIFICATION PatientSpec
CONSTANTS
    i = i  own = own  c1 = c1  c2 = c2
    None = None
    Malformed = Malformed
    Id = {i}
    Cluster = {own, c1, c2}
    Self = own
    HubKnown = TRUE
    Kind = {"configmap"}
    ChannelSize = 1
    MaxOps = 3
    EnvOps = {"Create", "Delete", "Repoint", "Relabel", "Restart", "Outage", "Rebind"}
    InitialSecrets <- OneGood
INVARIANTS TypeOK NeverSelf GaugeIsHonest
PROPERTIES RegistryFollows SourcesReachSpokes
