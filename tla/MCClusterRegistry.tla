-------------------------- MODULE MCClusterRegistry --------------------------
(* A small registry: one credential, the hub and two spokes. *)
EXTENDS ClusterRegistryProperties, TLC

CONSTANTS
    i,                \* a credential Secret
    own, c1, c2       \* clusters

Good(c) == [label |-> TRUE, kubeconfig |-> c]

OneGood == {(i :> Good(c1))}
=============================================================================
