--------------------------- MODULE ClusterAgentMC ---------------------------
(* Manifests for model checking ClusterAgent. *)
EXTENDS ClusterAgent

Whole == [underlay |-> "net", image |-> "own", replicas |-> Unset,
          endpoint |-> [port |-> 8000, https |-> FALSE, secret |-> "present"],
          feature |-> [dhcp |-> TRUE, config |-> "complete"]]

MCManifests == {
    Whole,
    \* no endpoint section, replicas 0, no image
    [Whole EXCEPT !.endpoint = Unset, !.replicas = 0, !.image = Unset],
    \* refused: no feature section, DHCP without or with a bad configuration
    [Whole EXCEPT !.feature = Unset],
    [Whole EXCEPT !.feature.dhcp = FALSE, !.feature.config = Unset],
    [Whole EXCEPT !.feature.config = "noInterface"],
    [Whole EXCEPT !.feature.config = "otherMask"],
    [Whole EXCEPT !.replicas = -1] }

MCAccess == <<>>

\* The chart in hostNetwork mode: no underlay interface, DHCP off.
MCHelmSpecs == {
    [Whole EXCEPT !.underlay = Unset, !.replicas = 1,
                  !.feature = [dhcp |-> FALSE, config |-> Unset]] }
=============================================================================
