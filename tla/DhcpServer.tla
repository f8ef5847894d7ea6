----------------------------- MODULE DhcpServer -----------------------------
(***************************************************************************)
(* The supervision of the ISC dhcpd process by the agent                   *)
(* (pkg/dhcpserver/server.go, monitor.go, and the life of main in          *)
(* cmd/agent/main.go).                                                     *)
(*                                                                         *)
(* Four kinds of actors share the fields s.cmd and s.waitDone:             *)
(*   - main, which calls Start once and Stop on SIGTERM/SIGINT;            *)
(*   - the monitor goroutine, which restarts dhcpd with Stop and Start;    *)
(*   - one goroutine per successful Start, which launches the command,     *)
(*     waits for it and closes the channel found in s.waitDone;            *)
(*   - the dhcpd processes themselves.                                     *)
(* Start, Stop and updateStats hold s.mutex; the goroutines of Start and   *)
(* the health check of the monitor read the same fields without it.        *)
(*                                                                         *)
(* The n-th call of Start makes channel n and command n.                   *)
(***************************************************************************)
EXTENDS Naturals, FiniteSets

CONSTANTS
    MaxStarts,   \* bound: calls of Start
    MaxFaults,   \* bound: dhcpd crashes, failed Starts and failed launches
    MaxRebinds,  \* bound: changes of the fixed-IP list that ask for a restart
    Prompt       \* TRUE: a Start goroutine is never delayed past a monitor tick

ASSUME DhcpServerAssumption ==
    /\ MaxStarts \in Nat \ {0}
    /\ MaxFaults \in Nat
    /\ MaxRebinds \in Nat
    /\ Prompt \in BOOLEAN

Cmds == 1 .. MaxStarts
Threads == {"main", "monitor"}

VARIABLES
    starts,    \* number of calls of Start so far
    cmd,       \* s.cmd: the command's number, 0 for nil
    waitDone,  \* s.waitDone: the channel's number
    closed,    \* the channels that have been closed
    proc,      \* per command: its Process, "none" while nil
    sig,       \* per command: the strongest signal sent to it
    gpc,       \* per Start: where its goroutine is
    gcmd,      \* per Start: the command its goroutine waits for
    mutex,     \* s.mutex: "free" or its holder
    pc,        \* where main and the monitor are
    faults, rebinds,  \* how much of the bounds is used
    panic      \* the Go runtime panic that ended the agent, if any

vars == <<starts, cmd, waitDone, closed, proc, sig, gpc, gcmd, mutex, pc,
          faults, rebinds, panic>>

MainPCs == {"boot", "serve", "stop", "await", "killed", "leave", "gone"}
MonitorPCs == {"off", "idle", "send", "check", "probe", "stop", "await",
               "killed", "start"}

TypeOK ==
    /\ starts \in 0 .. MaxStarts
    /\ cmd \in 0 .. MaxStarts
    /\ waitDone \in 0 .. MaxStarts
    /\ closed \subseteq 0 .. MaxStarts
    /\ proc \in [Cmds -> {"none", "running", "zombie", "reaped"}]
    /\ sig \in [Cmds -> {"none", "term", "kill"}]
    /\ gpc \in [Cmds -> {"none", "launch", "wait", "close", "done"}]
    /\ gcmd \in [Cmds -> 0 .. MaxStarts]
    /\ mutex \in {"free"} \cup Threads
    /\ pc \in [Threads -> MainPCs \cup MonitorPCs]
    /\ pc["main"] \in MainPCs
    /\ pc["monitor"] \in MonitorPCs
    /\ faults \in 0 .. MaxFaults
    /\ rebinds \in 0 .. MaxRebinds
    /\ panic \in {"no", "double_close", "nil_dereference"}

\* The agent process exists: main has not returned and nothing panicked.
Alive == pc["main"] # "gone" /\ panic = "no"

\* NewDhcpServer: no command yet, a fresh waitDone that nothing closes.
Init ==
    /\ starts = 0
    /\ cmd = 0
    /\ waitDone = 0
    /\ closed = {}
    /\ proc = [c \in Cmds |-> "none"]
    /\ sig = [c \in Cmds |-> "none"]
    /\ gpc = [c \in Cmds |-> "none"]
    /\ gcmd = [c \in Cmds |-> 0]
    /\ mutex = "free"
    /\ pc = [t \in Threads |-> IF t = "main" THEN "boot" ELSE "off"]
    /\ faults = 0
    /\ rebinds = 0
    /\ panic = "no"

Goto(t, l) == pc' = [pc EXCEPT ![t] = l]

Fault == faults < MaxFaults /\ faults' = faults + 1

\* s.cmd != nil && s.cmd.Process != nil
HasProcess == IF cmd = 0 THEN FALSE ELSE proc[cmd] # "none"

\* Mutant: a signal to a reaped process is taken for delivered.
NeverDone == FALSE

\* Signal and Kill return os.ErrProcessDone: Wait has reaped the process.
ProcessDone == proc[cmd] = "reaped"

\* Mutant: nobody waits for the process to exit.
NoWait == TRUE

\* <-s.waitDone does not block.
ExitSeen == waitDone \in closed

Running == {c \in Cmds : proc[c] = "running"}

-----------------------------------------------------------------------------
(* dhcpServer.Start.  It runs under s.mutex from its first to its last     *)
(* line, so it is one step; every caller finds the mutex free.             *)

\* Lines 180-243: the channel is replaced, then a step fails before s.cmd
\* is assigned (configuration, lease file, directories).
StartFailsEarly ==
    /\ Fault
    /\ UNCHANGED <<cmd, gpc>>

\* Lines 245-251: s.cmd is assigned, then the log file cannot be opened.
StartFailsLate ==
    /\ Fault
    /\ cmd' = starts + 1
    /\ UNCHANGED gpc

\* Lines 245-271: s.cmd is assigned and the goroutine of this Start is made.
StartSucceeds ==
    /\ cmd' = starts + 1
    /\ gpc' = [gpc EXCEPT ![starts + 1] = "launch"]
    /\ UNCHANGED faults

\* Mutant: the channel of the previous process is kept.
OldWaitDone ==
    /\ mutex = "free"
    /\ starts < MaxStarts
    /\ starts' = starts + 1
    /\ waitDone' = IF starts = 0 THEN 1 ELSE waitDone
    /\ UNCHANGED <<closed, proc, sig, gcmd, mutex, rebinds, panic>>

\* Lines 176-180: the mutex is taken and s.waitDone replaced.
NewWaitDone ==
    /\ mutex = "free"
    /\ starts < MaxStarts
    /\ starts' = starts + 1
    /\ waitDone' = starts + 1
    /\ UNCHANGED <<closed, proc, sig, gcmd, mutex, rebinds, panic>>

\* main starts the server; an error ends the agent (os.Exit(1)).  A success
\* sleeps three seconds and makes the monitor goroutine.
BootStart ==
    /\ pc["main"] = "boot"
    /\ NewWaitDone
    /\ \/ StartSucceeds /\ pc' = [t \in Threads |->
                                    IF t = "main" THEN "serve" ELSE "idle"]
       \/ (StartFailsEarly \/ StartFailsLate) /\ Goto("main", "gone")

\* The monitor's Start; an error is only logged.
MonitorStart ==
    /\ Alive
    /\ pc["monitor"] = "start"
    /\ Prompt => \A g \in Cmds : gpc[g] # "close"
    /\ NewWaitDone
    /\ StartSucceeds \/ StartFailsEarly \/ StartFailsLate
    /\ Goto("monitor", "idle")

-----------------------------------------------------------------------------
(* The goroutine made by Start, lines 257-271.                             *)

\* s.cmd.Start() succeeds and s.cmd.Wait() is called.
LaunchRuns(g) ==
    /\ ~HasProcess
    /\ proc' = [proc EXCEPT ![cmd] = "running"]
    /\ gpc' = [gpc EXCEPT ![g] = "wait"]
    /\ gcmd' = [gcmd EXCEPT ![g] = cmd]
    /\ UNCHANGED faults

\* s.cmd.Start() fails, always so for a command that has a Process.
LaunchFails(g) ==
    /\ \/ HasProcess /\ UNCHANGED faults
       \/ ~HasProcess /\ Fault
    /\ gpc' = [gpc EXCEPT ![g] = "close"]
    /\ UNCHANGED <<proc, gcmd>>

Launch(g) ==
    /\ Alive
    /\ gpc[g] = "launch"
    /\ IF cmd = 0
         THEN /\ panic' = "nil_dereference"
              /\ UNCHANGED <<proc, gpc, gcmd, faults>>
         ELSE /\ UNCHANGED panic
              /\ LaunchRuns(g) \/ LaunchFails(g)
    /\ UNCHANGED <<starts, cmd, waitDone, closed, sig, mutex, pc, rebinds>>

\* Mutant: the goroutine ends after Wait without closing the channel.
ReapOnly(g) ==
    /\ Alive
    /\ gpc[g] = "wait"
    /\ proc[gcmd[g]] = "zombie"
    /\ proc' = [proc EXCEPT ![gcmd[g]] = "reaped"]
    /\ gpc' = [gpc EXCEPT ![g] = "done"]
    /\ UNCHANGED <<starts, cmd, waitDone, closed, sig, gcmd, mutex, pc,
                   faults, rebinds, panic>>

\* s.cmd.Wait() returns: the process is reaped.
Reap(g) ==
    /\ Alive
    /\ gpc[g] = "wait"
    /\ proc[gcmd[g]] = "zombie"
    /\ proc' = [proc EXCEPT ![gcmd[g]] = "reaped"]
    /\ gpc' = [gpc EXCEPT ![g] = "close"]
    /\ UNCHANGED <<starts, cmd, waitDone, closed, sig, gcmd, mutex, pc,
                   faults, rebinds, panic>>

\* close(s.waitDone), with the value the field has now.
CloseWaitDone(g) ==
    /\ Alive
    /\ gpc[g] = "close"
    /\ gpc' = [gpc EXCEPT ![g] = "done"]
    /\ IF waitDone \in closed
         THEN panic' = "double_close" /\ UNCHANGED closed
         ELSE closed' = closed \cup {waitDone} /\ UNCHANGED panic
    /\ UNCHANGED <<starts, cmd, waitDone, proc, sig, gcmd, mutex, pc,
                   faults, rebinds>>

-----------------------------------------------------------------------------
(* The dhcpd process: it ends by itself (a fault) or on a signal.          *)

ProcessExit(c) ==
    /\ proc[c] = "running"
    /\ IF sig[c] = "none" THEN Fault ELSE UNCHANGED faults
    /\ proc' = [proc EXCEPT ![c] = "zombie"]
    /\ UNCHANGED <<starts, cmd, waitDone, closed, sig, gpc, gcmd, mutex, pc,
                   rebinds, panic>>

-----------------------------------------------------------------------------
(* dhcpServer.Stop, called by main and by the monitor.                     *)

\* Mutant: main restarts the server like the monitor does.
AlwaysRestart(t) == Goto(t, "start")

\* What the caller of Stop does next: main goes on to leave, the monitor calls
\* Start whatever Stop returned.
AfterStop(t) == Goto(t, IF t = "main" THEN "leave" ELSE "start")

Signalled(s) ==
    /\ ~ProcessDone
    /\ sig' = [sig EXCEPT ![cmd] = s]

\* Lines 298-301: nothing to stop, Stop returns nil.
StopNotRunning(t) ==
    /\ Alive
    /\ pc[t] = "stop"
    /\ mutex = "free"
    /\ ~HasProcess
    /\ AfterStop(t)
    /\ UNCHANGED <<starts, cmd, waitDone, closed, proc, sig, gpc, gcmd,
                   mutex, faults, rebinds, panic>>

\* Lines 311-316: SIGTERM and then SIGKILL fail, Stop returns the error and
\* leaves s.cmd.
StopProcessDone(t) ==
    /\ Alive
    /\ pc[t] = "stop"
    /\ mutex = "free"
    /\ HasProcess /\ ProcessDone
    /\ AfterStop(t)
    /\ UNCHANGED <<starts, cmd, waitDone, closed, proc, sig, gpc, gcmd,
                   mutex, faults, rebinds, panic>>

\* Lines 310-328: SIGTERM is sent, Stop waits with the mutex held.
StopTerm(t) ==
    /\ Alive
    /\ pc[t] = "stop"
    /\ mutex = "free"
    /\ HasProcess
    /\ Signalled("term")
    /\ mutex' = t
    /\ Goto(t, "await")
    /\ UNCHANGED <<starts, cmd, waitDone, closed, proc, gpc, gcmd,
                   faults, rebinds, panic>>

\* Lines 331-332 and 339-345: waitDone is closed, s.cmd becomes nil.
StopDone(t) ==
    /\ Alive
    /\ pc[t] \in {"await", "killed"}
    /\ ExitSeen
    /\ cmd' = 0
    /\ mutex' = "free"
    /\ AfterStop(t)
    /\ UNCHANGED <<starts, waitDone, closed, proc, sig, gpc, gcmd,
                   faults, rebinds, panic>>

\* Mutant: after ten seconds Stop returns without SIGKILL.
StopGivesUp(t) ==
    /\ Alive
    /\ pc[t] = "await"
    /\ mutex' = "free"
    /\ AfterStop(t)
    /\ UNCHANGED <<starts, cmd, waitDone, closed, proc, sig, gpc, gcmd,
                   faults, rebinds, panic>>

\* Lines 333-339: ten seconds have passed, SIGKILL; if the process has been
\* reaped meanwhile Stop returns the error and leaves s.cmd.
StopTimeout(t) ==
    /\ Alive
    /\ pc[t] = "await"
    /\ \/ /\ Signalled("kill")
          /\ Goto(t, "killed")
          /\ UNCHANGED mutex
       \/ /\ ProcessDone
          /\ mutex' = "free"
          /\ AfterStop(t)
          /\ UNCHANGED sig
    /\ UNCHANGED <<starts, cmd, waitDone, closed, proc, gpc, gcmd,
                   faults, rebinds, panic>>

-----------------------------------------------------------------------------
(* The monitor goroutine, one iteration per tick.                          *)

MonitorStep(from) ==
    /\ Alive
    /\ pc["monitor"] = from
    /\ UNCHANGED <<starts, cmd, waitDone, closed, proc, sig, gpc, gcmd,
                   faults, panic>>

\* A tick: updateStats takes the mutex; it has nothing to report, or blocks
\* on the event channels with the mutex held.
MonitorTick ==
    /\ MonitorStep("idle")
    /\ Prompt => \A g \in Cmds : gpc[g] # "launch"
    /\ mutex = "free"
    /\ \/ Goto("monitor", "check") /\ UNCHANGED mutex
       \/ Goto("monitor", "send") /\ mutex' = "monitor"
    /\ UNCHANGED rebinds

\* The HostStatus controller receives the last event; updateStats returns.
MonitorSent ==
    /\ MonitorStep("send")
    /\ mutex' = "free"
    /\ Goto("monitor", "check")
    /\ UNCHANGED rebinds

\* Mutant: the process is probed whether or not there is one.
ProbeUnchecked ==
    /\ MonitorStep("check")
    /\ Goto("monitor", "probe")
    /\ UNCHANGED <<mutex, rebinds>>

\* Line 34: is there a Process?  Read without the mutex.
MonitorCheck ==
    /\ MonitorStep("check")
    /\ Goto("monitor", IF HasProcess THEN "probe" ELSE "stop")
    /\ UNCHANGED <<mutex, rebinds>>

\* Lines 37-48: s.cmd is read again and probed with signal 0, then the list
\* of fixed IPs is compared with the one dhcpd was started with.
MonitorProbe ==
    /\ MonitorStep("probe")
    /\ HasProcess
    /\ \/ ProcessDone /\ Goto("monitor", "stop") /\ UNCHANGED rebinds
       \/ ~ProcessDone /\ Goto("monitor", "idle") /\ UNCHANGED rebinds
       \/ /\ ~ProcessDone
          /\ rebinds < MaxRebinds
          /\ rebinds' = rebinds + 1
          /\ Goto("monitor", "stop")
    /\ UNCHANGED mutex

\* Line 37 again: main's Stop has set s.cmd to nil since line 34.
MonitorProbeNil ==
    /\ Alive
    /\ pc["monitor"] = "probe"
    /\ ~HasProcess
    /\ panic' = "nil_dereference"
    /\ UNCHANGED <<starts, cmd, waitDone, closed, proc, sig, gpc, gcmd,
                   mutex, pc, faults, rebinds>>

-----------------------------------------------------------------------------
(* main: SIGTERM or SIGINT arrives, Stop, then the agent returns.          *)

MainStep(from, to) ==
    /\ Alive
    /\ pc["main"] = from
    /\ Goto("main", to)
    /\ UNCHANGED <<starts, cmd, waitDone, closed, proc, sig, gpc, gcmd,
                   mutex, faults, rebinds, panic>>

TakeSignal == MainStep("serve", "stop")

\* hostStatusCtrl.Stop(), cancel() and return.
MainReturn == MainStep("leave", "gone")

\* The agent has ended.
Ended == ~Alive /\ UNCHANGED vars

Goroutine(g) == Launch(g) \/ Reap(g) \/ CloseWaitDone(g)

Stop(t) ==
    \/ StopNotRunning(t)
    \/ StopProcessDone(t)
    \/ StopTerm(t)
    \/ StopDone(t)
    \/ StopTimeout(t)

Monitor ==
    \/ MonitorTick
    \/ MonitorSent
    \/ MonitorCheck
    \/ MonitorProbe
    \/ MonitorProbeNil
    \/ MonitorStart

Next ==
    \/ BootStart
    \/ \E g \in Cmds : Goroutine(g)
    \/ \E c \in Cmds : ProcessExit(c)
    \/ \E t \in Threads : Stop(t)
    \/ Monitor
    \/ TakeSignal
    \/ MainReturn
    \/ Ended

Spec == Init /\ [][Next]_vars

(* Fairness.  Goroutines, the kernel and the timers make progress; waiting   *)
(* for s.mutex needs strong fairness, which sync.Mutex gives (a waiter       *)
(* starved for 1 ms gets the lock handed over).  No signal to main and no    *)
(* reaction of dhcpd to SIGTERM is assumed.                                  *)
Fairness ==
    /\ WF_vars(BootStart)
    /\ WF_vars(MainReturn)
    /\ \A g \in Cmds : WF_vars(Goroutine(g))
    /\ \A c \in Cmds : WF_vars(sig[c] = "kill" /\ ProcessExit(c))
    /\ \A t \in Threads : SF_vars(Stop(t))
    /\ SF_vars(Monitor)

FairSpec == Spec /\ Fairness

-----------------------------------------------------------------------------
(* Properties.                                                             *)

\* At most one dhcpd runs at any time: two would answer on the same interface
\* and share /var/run/dhcpd.pid and the lease file.
OneDhcpd == \A c, d \in Running : c = d

\* Every waitDone channel is closed once (close(s.waitDone), server.go:270).
NoDoubleClose == panic # "double_close"

\* The monitor reads s.cmd without the mutex and may find it nil at line 37, and
\* the goroutine of Start may do so at server.go:259.  That ends the agent only
\* when main has stopped dhcpd and is about to return: a panic never interrupts
\* the service and never leaves a dhcpd behind.
NilOnlyAtExit ==
    panic = "nil_dereference" => pc["main"] = "leave" /\ Running = {}

\* Stop gives up s.cmd only when the process it stopped has been reaped, so
\* that nobody loses the handle of a dhcpd that still runs.
StopReaps == [][cmd # 0 /\ cmd' = 0 => proc[cmd] = "reaped"]_vars

\* Once main has asked for Stop the agent ends: no wait of Stop (for s.mutex,
\* for waitDone) lasts for ever.
ShutdownCompletes == pc["main"] = "stop" ~> ~Alive

\* While no shutdown is asked for, a dhcpd that died, or a Start that failed,
\* is followed by a running dhcpd (faults are finitely many).
DhcpdKeepsRunning ==
    <>[](Alive /\ pc["main"] \in {"boot", "serve"} => Running # {})
=============================================================================
