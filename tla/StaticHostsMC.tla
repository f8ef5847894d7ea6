--------------------------- MODULE StaticHostsMC ---------------------------
(* Values for model checking StaticHosts. *)
EXTENDS StaticHosts

MCRequests == {
    [ip |-> 1, agent |-> Unset, secret |-> Unset],
    [ip |-> 2, agent |-> "agent1", secret |-> "own"],
    [ip |-> 1, agent |-> "agent2", secret |-> "own"],
    \* refused
    [ip |-> Garbage, agent |-> "agent1", secret |-> "own"],
    [ip |-> 1, agent |-> "agent1", secret |-> Unset],
    [ip |-> 1, agent |-> "agent3", secret |-> "own"],
    [ip |-> 1, agent |-> "agent1", secret |-> "nowhere"],
    [ip |-> 1, agent |-> "agent1", secret |-> "incomplete"],
    [ip |-> 1, agent |-> "agent1", secret |-> "half"] }

MCAgentSets == {{"agent1"}, {"agent1", "agent2"}}
MCBindConfigs == {[static |-> TRUE, dhcp |-> FALSE], [static |-> TRUE, dhcp |-> TRUE]}
DhcpOnly == {[static |-> FALSE, dhcp |-> TRUE]}
MCLeaseIP == [n \in Leases |-> 1]

\* Two addresses, granted, moved to another client, released and abandoned.
MCBlocks == {[ip |-> ip, mac |-> lease[1], state |-> lease[2]] :
               ip \in {"ip1", "ip10"},
               lease \in {<<"m1", "active">>, <<"m2", "active">>, <<"m1", "free">>,
                          <<Empty, "abandoned">>}}
MCFiles == SeqOf(MCBlocks, 2)

\* A cut leaves nothing or a part, which may be another address.
MCCut == [v \in {"ip1", "ip10", "m1", "m2", "active", "free", "abandoned", Empty} |->
            CASE v = Empty -> {}
              [] v = "ip10" -> {Empty, "ip1"}
              [] OTHER -> {Empty, "part"}]
=============================================================================
