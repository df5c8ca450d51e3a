\* A credential loses its label.
SPECIFICATION FairSpec
CONSTANTS
    i = i  own = own  c1 = c1  c2 = c2
    None = None
    Malformed = Malformed
    Id = {i}
    Cluster = {own, c1}
    Self = own
    HubKnown = TRUE
    Kind = {"configmap"}
    ChannelSize = 1
    MaxOps = 1
    EnvOps = {"Relabel"}
    InitialSecrets <- OneGood
PROPERTY OnlyCredentialsStay
