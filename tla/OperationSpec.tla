--------------------------- MODULE OperationSpec ---------------------------
(***************************************************************************)
(* What a user may rely on when creating a HostOperation: nothing is done  *)
(* before the request, only the agent the host belongs to acts on it, the  *)
(* host of a request never changes, the request is completed only when     *)
(* every system has been operated and nothing is undone afterwards.  A     *)
(* request that is withdrawn may still be carried out, but is never        *)
(* completed.                                                              *)
(***************************************************************************)
CONSTANTS
    Ops, Hosts, Systems,
    Foreign    \* the hosts of other agents

VARIABLES
    request,   \* per operation: its stage and, while it exists, its host
    operated   \* per operation: the systems operated for it

Free == [stage |-> "free"]
Withdrawn == [stage |-> "withdrawn"]
Request(x, g) == [stage |-> g, host |-> x]

Init ==
    /\ request = [o \in Ops |-> Free]
    /\ operated = [o \in Ops |-> {}]

Ask(o, x) ==
    /\ request[o] = Free
    /\ operated[o] = {}
    /\ request' = [request EXCEPT ![o] = Request(x, "open")]
    /\ UNCHANGED operated

Withdraw(o) ==
    /\ request[o] \notin {Free, Withdrawn}
    /\ request' = [request EXCEPT ![o] = Withdrawn]
    /\ UNCHANGED operated

Operate(o, s) ==
    /\ \/ request[o] = Withdrawn
       \/ \E x \in Hosts \ Foreign : request[o] = Request(x, "open")
    /\ operated' = [operated EXCEPT ![o] = operated[o] \cup {s}]
    /\ UNCHANGED request

Complete(o, x) ==
    /\ request[o] = Request(x, "open")
    /\ operated[o] = Systems
    /\ request' = [request EXCEPT ![o] = Request(x, "done")]
    /\ UNCHANGED operated

Next ==
    \E o \in Ops :
        \/ \E x \in Hosts : Ask(o, x)
        \/ Withdraw(o)
        \/ \E s \in Systems : Operate(o, s)
        \/ \E x \in Hosts \ Foreign : Complete(o, x)

Spec == Init /\ [][Next]_<<request, operated>>
=============================================================================
