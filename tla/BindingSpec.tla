---------------------------- MODULE BindingSpec ----------------------------
(***************************************************************************)
(* What the agent promises about the addresses dhcpd reserves.  The DHCP   *)
(* clients and the static hosts that are known ask for reservations, a     *)
(* static host before a DHCP client.  dhcpd serves either nothing or one   *)
(* complete configuration: what the DHCP clients asked for when its        *)
(* writing began, and what the static hosts asked for when it was written. *)
(* Both moments are moments of the same writing, but the hosts may change  *)
(* between them, so the whole need never have been wanted at once.  A      *)
(* configuration is never written, nor begun, under a running dhcpd.       *)
(***************************************************************************)
CONSTANTS
    Down,      \* dhcpd does not run
    Spoilt,    \* a configuration file that is not, or not completely, written
    Loads(_)   \* dhcpd accepts this set of reservations

VARIABLES
    dynamic,   \* the reservations the known DHCP clients ask for
    static,    \* those the known static hosts ask for
    taken,     \* the former when the writing under way began: a set of at most one
    conf,      \* those of the configuration file
    have       \* those dhcpd serves, or Down

Both(d, s) ==
    [ip \in DOMAIN d \cup DOMAIN s |-> IF ip \in DOMAIN s THEN s[ip] ELSE d[ip]]

Init == have = Down /\ taken = {}

\* The known hosts change.
Change == UNCHANGED <<taken, conf, have>>

\* dhcpd ends, and a writing with the agent.
Halt == have' = Down /\ taken' \in {taken, {}} /\ UNCHANGED conf

\* A running dhcpd is stopped first.
Begin ==
    /\ have' = Down
    /\ taken' = {dynamic}
    /\ conf' = Spoilt
    /\ UNCHANGED <<dynamic, static>>

Write ==
    /\ \E d \in taken : conf' \in {Both(d, static), Spoilt}
    /\ have = Down
    /\ taken' = {}
    /\ UNCHANGED <<dynamic, static, have>>

Serve ==
    /\ have = Down /\ taken = {}
    /\ Loads(conf)
    /\ have' = conf
    /\ UNCHANGED <<dynamic, static, taken, conf>>

Next == Change \/ Halt \/ Begin \/ Write \/ Serve

Spec == Init /\ [][Next]_<<dynamic, static, taken, conf, have>>
=============================================================================
