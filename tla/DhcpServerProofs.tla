-------------------------- MODULE DhcpServerProofs --------------------------
(***************************************************************************)
(* Proofs about DhcpServer, for every bound.  The invariants that speak of *)
(* the goroutines of Start hold when those goroutines are prompt (see the  *)
(* constant Prompt); the type invariant needs no such assumption.          *)
(***************************************************************************)
EXTENDS DhcpServer, TLAPS

USE DhcpServerAssumption DEF Cmds, Threads

-----------------------------------------------------------------------------
(* The type invariant.                                                     *)

\* The part of TypeOK about the two threads.
PcOK ==
    /\ pc \in [Threads -> MainPCs \cup MonitorPCs]
    /\ pc["main"] \in MainPCs
    /\ pc["monitor"] \in MonitorPCs

\* A thread that goes to a place of its own code leaves pc well typed.
LEMMA GotoOK ==
    ASSUME PcOK, NEW t \in Threads, NEW l, Goto(t, l),
           t = "main" => l \in MainPCs, t = "monitor" => l \in MonitorPCs
    PROVE  PcOK'
<1>1. pc' = [pc EXCEPT ![t] = l] /\ l \in MainPCs \cup MonitorPCs
  BY DEF Goto
<1>2. pc'["main"] \in MainPCs /\ pc'["monitor"] \in MonitorPCs
  <2>1. CASE t = "main"
    BY <1>1, <2>1 DEF PcOK
  <2>2. CASE t = "monitor"
    BY <1>1, <2>2 DEF PcOK
  <2> QED
    BY <2>1, <2>2
<1> QED
  BY <1>1, <1>2 DEF PcOK

\* A step of Stop takes its caller to a place of the caller's code.
LEMMA StopPcOK ==
    ASSUME PcOK, NEW t \in Threads, Stop(t)
    PROVE  PcOK'
<1>1. \E l \in {"await", "killed", IF t = "main" THEN "leave" ELSE "start"} :
        Goto(t, l)
  BY DEF Stop, StopNotRunning, StopProcessDone, StopTerm, StopDone,
         StopTimeout, AfterStop
<1> QED
  BY <1>1, GotoOK DEF MainPCs, MonitorPCs

\* A Start leaves everything but pc well typed.
LEMMA StartOK ==
    ASSUME TypeOK, NewWaitDone, StartSucceeds \/ StartFailsEarly \/ StartFailsLate,
           PcOK'
    PROVE  TypeOK'
<1>1. starts + 1 \in Cmds /\ starts' \in 0 .. MaxStarts
  BY DEF TypeOK, NewWaitDone
<1>2. CASE StartSucceeds
  BY <1>1, <1>2 DEF TypeOK, PcOK, NewWaitDone, StartSucceeds
<1>3. CASE StartFailsEarly
  BY <1>1, <1>3 DEF TypeOK, PcOK, NewWaitDone, StartFailsEarly, Fault
<1>4. CASE StartFailsLate
  BY <1>1, <1>4 DEF TypeOK, PcOK, NewWaitDone, StartFailsLate, Fault
<1> QED
  BY <1>2, <1>3, <1>4

\* Every step of the program keeps the types.
LEMMA TypeStep == TypeOK /\ [Next]_vars => TypeOK'
<1> SUFFICES ASSUME TypeOK, [Next]_vars PROVE TypeOK'
  OBVIOUS
<1>p. PcOK
  BY DEF TypeOK, PcOK
<1>1. CASE BootStart
  <2>1. CASE StartSucceeds /\ pc' = [t \in Threads |->
                                       IF t = "main" THEN "serve" ELSE "idle"]
    <3>1. PcOK'
      BY <2>1 DEF PcOK, MainPCs, MonitorPCs
    <3> QED
      BY <1>1, <2>1, <3>1, StartOK DEF BootStart
  <2>2. CASE (StartFailsEarly \/ StartFailsLate) /\ Goto("main", "gone")
    <3>1. PcOK'
      BY <1>p, <2>2, GotoOK DEF MainPCs
    <3> QED
      BY <1>1, <2>2, <3>1, StartOK DEF BootStart
  <2> QED
    BY <1>1, <2>1, <2>2 DEF BootStart
<1>2. ASSUME NEW g \in Cmds, Goroutine(g) PROVE TypeOK'
  <2>1. CASE Launch(g)
    <3>1. UNCHANGED <<starts, cmd, waitDone, closed, sig, mutex, pc, rebinds>>
      BY <2>1 DEF Launch
    <3>2. CASE cmd = 0
      BY <2>1, <3>1, <3>2 DEF TypeOK, Launch
    <3>3. CASE cmd # 0
      <4>1. cmd \in Cmds
        BY <3>3 DEF TypeOK
      <4>2. panic' = panic
        BY <2>1, <3>3 DEF Launch
      <4>3. CASE LaunchRuns(g)
        BY <3>1, <4>1, <4>2, <4>3 DEF TypeOK, LaunchRuns
      <4>4. CASE LaunchFails(g)
        BY <3>1, <4>1, <4>2, <4>4 DEF TypeOK, LaunchFails, Fault
      <4> QED
        BY <2>1, <3>3, <4>3, <4>4 DEF Launch
    <3> QED
      BY <3>2, <3>3
  <2>2. CASE Reap(g)
    BY <2>2 DEF TypeOK, Reap
  <2>3. CASE CloseWaitDone(g)
    BY <2>3 DEF TypeOK, CloseWaitDone
  <2> QED
    BY <1>2, <2>1, <2>2, <2>3 DEF Goroutine
<1>3. ASSUME NEW c \in Cmds, ProcessExit(c) PROVE TypeOK'
  BY <1>3 DEF TypeOK, ProcessExit, Fault
<1>4. ASSUME NEW t \in Threads, Stop(t) PROVE TypeOK'
  <2>1. PcOK'
    BY <1>p, <1>4, StopPcOK
  <2>2. cmd' \in {0, cmd} /\ mutex' \in {"free", t, mutex}
    BY <1>4 DEF Stop, StopNotRunning, StopProcessDone, StopTerm, StopDone,
                StopTimeout
  <2>3. \/ UNCHANGED sig
        \/ \E s \in {"term", "kill"} : sig' = [sig EXCEPT ![cmd] = s]
    BY <1>4 DEF Stop, StopNotRunning, StopProcessDone, StopTerm, StopDone,
                StopTimeout, Signalled
  <2>4. UNCHANGED <<starts, waitDone, closed, proc, gpc, gcmd, faults, rebinds,
                    panic>>
    BY <1>4 DEF Stop, StopNotRunning, StopProcessDone, StopTerm, StopDone,
                StopTimeout
  <2>5. sig' \in [Cmds -> {"none", "term", "kill"}]
    BY <2>3 DEF TypeOK
  <2> QED
    BY <2>1, <2>2, <2>4, <2>5 DEF TypeOK, PcOK
<1>5. CASE Monitor
  <2>1. PcOK'
    <3>1. \/ UNCHANGED pc
          \/ \E l \in {"check", "send", "probe", "stop", "idle"} :
                Goto("monitor", l)
      BY <1>5 DEF Monitor, MonitorTick, MonitorSent, MonitorCheck, MonitorProbe,
                  MonitorProbeNil, MonitorStart
    <3> QED
      BY <1>p, <3>1, GotoOK DEF MonitorPCs, PcOK
  <2>2. CASE MonitorStart
    BY <2>1, <2>2, StartOK DEF MonitorStart
  <2>3. CASE MonitorProbeNil
    BY <2>1, <2>3 DEF TypeOK, PcOK, MonitorProbeNil
  <2>4. CASE MonitorTick \/ MonitorSent \/ MonitorCheck \/ MonitorProbe
    <3>1. UNCHANGED <<starts, cmd, waitDone, closed, proc, sig, gpc, gcmd,
                      faults, panic>>
      BY <2>4 DEF MonitorTick, MonitorSent, MonitorCheck, MonitorProbe,
                  MonitorStep
    <3>2. mutex' \in {"free", "monitor", mutex} /\ rebinds' \in 0 .. MaxRebinds
      BY <2>4 DEF MonitorTick, MonitorSent, MonitorCheck, MonitorProbe, TypeOK
    <3> QED
      BY <2>1, <3>1, <3>2 DEF TypeOK, PcOK
  <2> QED
    BY <1>5, <2>2, <2>3, <2>4 DEF Monitor
<1>6. CASE TakeSignal \/ MainReturn
  <2>1. PcOK'
    BY <1>6, <1>p, GotoOK DEF TakeSignal, MainReturn, MainStep, MainPCs
  <2> QED
    BY <1>6, <2>1 DEF TakeSignal, MainReturn, MainStep, TypeOK, PcOK
<1>7. CASE Ended \/ UNCHANGED vars
  BY <1>7 DEF Ended, vars, TypeOK
<1> QED
  BY <1>1, <1>2, <1>3, <1>4, <1>5, <1>6, <1>7 DEF Next

\* Every reachable state is well typed: s.cmd and s.waitDone name a command and
\* a channel of some Start, and main and the monitor are where their code can be.
THEOREM TypeCorrect == Spec => []TypeOK
<1>1. Init => TypeOK
  BY DEF Init, TypeOK, MainPCs, MonitorPCs
<1> QED
  BY <1>1, TypeStep, PTL DEF Spec

-----------------------------------------------------------------------------
(* The supervision invariant, under Prompt.  The properties speak of       *)
(* processes and channels; what carries them is that every live process,   *)
(* every unfinished goroutine and the open channel belong to the last      *)
(* Start, and that the monitor reaches Start only with none of them left.  *)

Live == {"running", "zombie"}
Busy == {"launch", "wait", "close"}

\* s.waitDone is the channel of the last Start; nothing is ahead of it.
LastChannel ==
    /\ waitDone = starts
    /\ closed \subseteq 0 .. starts
    /\ \A c \in Cmds : c > starts => proc[c] = "none" /\ gpc[c] = "none"

\* A process that is not reaped is that of s.cmd and of the last Start, whose
\* goroutine waits for it.
LastProcess ==
    \A c \in Cmds : proc[c] \in Live =>
        c = cmd /\ c = starts /\ gpc[c] = "wait" /\ gcmd[c] = c

\* An unfinished goroutine is that of the last Start, whose channel is open.
LastGoroutine ==
    \A g \in Cmds : gpc[g] \in Busy =>
        /\ g = starts
        /\ g \notin closed
        /\ gpc[g] = "launch" => cmd = g /\ proc[g] = "none"
        /\ gpc[g] = "wait" => gcmd[g] = g /\ proc[g] \in Live

\* A Stop that waits holds the mutex and has a process of the last Start.
Waiters ==
    /\ \A t \in Threads : pc[t] \in {"await", "killed"} =>
        mutex = t /\ cmd \in Cmds /\ cmd = starts /\ proc[cmd] # "none"
    /\ pc["monitor"] = "send" => mutex = "monitor"

\* What the monitor knows: no launch is pending while it works, no process is
\* left when it calls Start; and it does not exist while main starts dhcpd.
MonitorKnows ==
    /\ pc["monitor"] \notin {"off", "idle"} => \A g \in Cmds : gpc[g] # "launch"
    /\ pc["monitor"] = "start" => \A c \in Cmds : proc[c] \notin Live
    /\ pc["main"] = "boot" => starts = 0 /\ pc["monitor"] = "off"

IInv ==
    /\ TypeOK
    /\ LastChannel
    /\ LastProcess
    /\ LastGoroutine
    /\ Waiters
    /\ MonitorKnows
    /\ NoDoubleClose

LEMMA InvInit == Init => IInv
BY DEF Init, IInv, TypeOK, LastChannel, LastProcess, LastGoroutine, Waiters,
       MonitorKnows, NoDoubleClose, Live, Busy, MainPCs, MonitorPCs

\* No goroutine is busy when the monitor calls Start.
LEMMA QuietStart ==
    ASSUME Prompt, IInv, BootStart \/ MonitorStart
    PROVE  /\ \A g \in Cmds : gpc[g] \notin Busy
           /\ \A c \in Cmds : proc[c] \notin Live
           /\ mutex = "free"
           /\ starts + 1 \in Cmds
<1>1. mutex = "free" /\ starts + 1 \in Cmds
  BY DEF BootStart, MonitorStart, NewWaitDone, IInv, TypeOK
<1>2. CASE BootStart
  <2>1. starts = 0
    BY <1>2 DEF BootStart, IInv, MonitorKnows
  <2>2. \A c \in Cmds : proc[c] = "none" /\ gpc[c] = "none"
    BY <2>1 DEF IInv, LastChannel
  <2> QED
    BY <1>1, <2>2 DEF Busy, Live
<1>3. CASE MonitorStart
  <2>1. \A c \in Cmds : proc[c] \notin Live
    BY <1>3 DEF MonitorStart, IInv, MonitorKnows
  <2>2. \A g \in Cmds : gpc[g] # "launch" /\ gpc[g] # "close"
    BY <1>3 DEF MonitorStart, IInv, MonitorKnows
  <2>3. \A g \in Cmds : gpc[g] # "wait"
    BY <2>1 DEF IInv, LastGoroutine, Busy
  <2> QED
    BY <1>1, <2>1, <2>2, <2>3 DEF Busy
<1> QED
  BY <1>2, <1>3

\* A Start with nothing of an earlier Start left keeps the invariant.
LEMMA InvStart ==
    ASSUME Prompt, IInv, TypeOK', BootStart \/ MonitorStart
    PROVE  IInv'
<1> DEFINE n == starts + 1
<1>1. /\ \A g \in Cmds : gpc[g] \notin Busy
      /\ \A c \in Cmds : proc[c] \notin Live
      /\ mutex = "free"
      /\ n \in Cmds
  BY QuietStart
<1>2. starts' = n /\ waitDone' = n /\ UNCHANGED <<closed, proc, gcmd, mutex, panic>>
  BY DEF BootStart, MonitorStart, NewWaitDone
<1>3. StartSucceeds \/ StartFailsEarly \/ StartFailsLate
  BY DEF BootStart, MonitorStart
<1>4. \/ gpc' = gpc
      \/ gpc' = [gpc EXCEPT ![n] = "launch"] /\ cmd' = n
  BY <1>3 DEF StartSucceeds, StartFailsEarly, StartFailsLate
<1>5. /\ proc[n] = "none" /\ n \notin closed
      /\ \A c \in Cmds : c > n => proc[c] = "none" /\ gpc[c] = "none"
  BY <1>1 DEF IInv, TypeOK, LastChannel
<1>6. LastChannel'
  <2>1. closed' \subseteq 0 .. n
    BY <1>2 DEF IInv, TypeOK, LastChannel
  <2>2. \A c \in Cmds : c > n => gpc'[c] = gpc[c]
    BY <1>1, <1>4 DEF IInv, TypeOK
  <2> QED
    BY <1>2, <1>5, <2>1, <2>2 DEF LastChannel
<1>7. LastProcess'
  BY <1>1, <1>2 DEF LastProcess
<1>8. LastGoroutine'
  <2>1. \A g \in Cmds : gpc'[g] \in Busy => g = n /\ gpc'[g] = "launch" /\ cmd' = n
    BY <1>1, <1>4 DEF IInv, TypeOK
  <2> QED
    BY <1>2, <1>5, <2>1 DEF LastGoroutine
<1>9. /\ pc'["monitor"] \in {"off", "idle"}
      /\ pc'["main"] \in {"serve", "gone", pc["main"]} \ {"boot"}
  <2>1. CASE BootStart
    <3>1. pc["monitor"] = "off" /\ pc \in [Threads -> MainPCs \cup MonitorPCs]
      BY <2>1 DEF BootStart, IInv, MonitorKnows, TypeOK
    <3>2. CASE pc' = [t \in Threads |-> IF t = "main" THEN "serve" ELSE "idle"]
      BY <3>2
    <3>3. CASE Goto("main", "gone")
      BY <3>1, <3>3 DEF Goto
    <3> QED
      BY <2>1, <3>2, <3>3 DEF BootStart
  <2>2. CASE MonitorStart
    BY <2>2 DEF MonitorStart, Goto, IInv, MonitorKnows, TypeOK
  <2> QED
    BY <2>1, <2>2
<1>10. Waiters'
  <2>1. pc["main"] \notin {"await", "killed"}
    BY <1>1 DEF IInv, Waiters
  <2>2. \A t \in Threads : pc'[t] \notin {"await", "killed", "send"}
    BY <1>9, <2>1 DEF TypeOK, MainPCs
  <2> QED
    BY <2>2 DEF Waiters
<1>11. MonitorKnows'
  BY <1>9 DEF MonitorKnows
<1> QED
  BY <1>2, <1>6, <1>7, <1>8, <1>10, <1>11 DEF IInv, NoDoubleClose

\* The goroutine of the last Start launches, reaps and closes its own.
LEMMA InvGoroutine ==
    ASSUME IInv, TypeOK', NEW g \in Cmds, Goroutine(g)
    PROVE  IInv'
<1>1. g = starts /\ g \notin closed /\ gpc[g] \in Busy /\ waitDone = starts
  BY DEF Goroutine, Launch, Reap, CloseWaitDone, IInv, LastGoroutine,
         LastChannel, Busy
<1>2. UNCHANGED <<starts, cmd, waitDone, mutex, pc>>
  BY DEF Goroutine, Launch, Reap, CloseWaitDone
<1>3. CASE Launch(g)
  <2>1. cmd = g /\ proc[g] = "none" /\ cmd # 0
    BY <1>3 DEF Launch, IInv, LastGoroutine, Busy
  <2>2. UNCHANGED <<panic, closed>> /\ (LaunchRuns(g) \/ LaunchFails(g))
    BY <1>3, <2>1 DEF Launch
  <2>3. CASE LaunchRuns(g)
    <3>1. /\ proc' = [proc EXCEPT ![g] = "running"]
          /\ gpc' = [gpc EXCEPT ![g] = "wait"]
          /\ gcmd' = [gcmd EXCEPT ![g] = g]
      BY <2>1, <2>3 DEF LaunchRuns
    <3>2. LastChannel'
      BY <1>1, <1>2, <2>2, <3>1 DEF IInv, TypeOK, LastChannel
    <3>3. LastProcess'
      BY <1>1, <1>2, <2>1, <3>1 DEF IInv, TypeOK, LastProcess, Live
    <3>4. LastGoroutine'
      BY <1>1, <1>2, <2>1, <2>2, <3>1 DEF IInv, TypeOK, LastGoroutine, Live, Busy
    <3>5. Waiters'
      BY <1>2, <3>1 DEF IInv, TypeOK, Waiters
    <3>6. MonitorKnows'
      <4>1. pc["monitor"] \in {"off", "idle"}
        BY <1>3 DEF Launch, IInv, MonitorKnows
      <4> QED
        BY <1>2, <4>1 DEF IInv, MonitorKnows
    <3> QED
      BY <2>2, <3>2, <3>3, <3>4, <3>5, <3>6 DEF IInv, NoDoubleClose
  <2>4. CASE LaunchFails(g)
    <3>1. gpc' = [gpc EXCEPT ![g] = "close"] /\ UNCHANGED <<proc, gcmd>>
      BY <2>4 DEF LaunchFails
    <3>2. LastChannel'
      BY <1>1, <1>2, <2>2, <3>1 DEF IInv, TypeOK, LastChannel
    <3>3. LastProcess'
      BY <1>1, <1>2, <2>1, <3>1 DEF IInv, TypeOK, LastProcess, Live
    <3>4. LastGoroutine'
      BY <1>1, <1>2, <2>1, <2>2, <3>1 DEF IInv, TypeOK, LastGoroutine, Live, Busy
    <3>5. Waiters' /\ MonitorKnows'
      BY <1>2, <3>1 DEF IInv, TypeOK, Waiters, MonitorKnows
    <3> QED
      BY <2>2, <3>2, <3>3, <3>4, <3>5 DEF IInv, NoDoubleClose
  <2> QED
    BY <2>2, <2>3, <2>4
<1>4. CASE Reap(g)
  <2>1. /\ proc' = [proc EXCEPT ![g] = "reaped"]
        /\ gpc' = [gpc EXCEPT ![g] = "close"]
        /\ UNCHANGED <<closed, gcmd, panic>>
    BY <1>4 DEF Reap, IInv, LastGoroutine, Busy
  <2>2. LastChannel'
    BY <1>1, <1>2, <2>1 DEF IInv, TypeOK, LastChannel
  <2>3. LastProcess'
    BY <1>1, <1>2, <2>1 DEF IInv, TypeOK, LastProcess, Live
  <2>4. LastGoroutine'
    BY <1>1, <1>2, <2>1 DEF IInv, TypeOK, LastGoroutine, Live, Busy
  <2>5. Waiters' /\ MonitorKnows'
    BY <1>2, <2>1 DEF IInv, TypeOK, Waiters, MonitorKnows, Live
  <2> QED
    BY <2>1, <2>2, <2>3, <2>4, <2>5 DEF IInv, NoDoubleClose
<1>5. CASE CloseWaitDone(g)
  <2>1. /\ gpc' = [gpc EXCEPT ![g] = "done"]
        /\ closed' = closed \cup {starts}
        /\ UNCHANGED <<proc, gcmd, panic>>
    BY <1>1, <1>5 DEF CloseWaitDone
  <2>2. LastChannel'
    BY <1>1, <1>2, <2>1 DEF IInv, TypeOK, LastChannel
  <2>3. LastProcess'
    <3>1. proc[g] \notin Live
      BY <1>5 DEF CloseWaitDone, IInv, LastProcess
    <3> QED
      BY <1>1, <1>2, <2>1, <3>1 DEF IInv, TypeOK, LastProcess
  <2>4. LastGoroutine'
    BY <1>1, <1>2, <2>1 DEF IInv, TypeOK, LastGoroutine, Busy
  <2>5. Waiters' /\ MonitorKnows'
    BY <1>2, <2>1 DEF IInv, TypeOK, Waiters, MonitorKnows
  <2> QED
    BY <2>1, <2>2, <2>3, <2>4, <2>5 DEF IInv, NoDoubleClose
<1> QED
  BY <1>3, <1>4, <1>5 DEF Goroutine

\* A closed waitDone means that the process Stop waited for has been reaped,
\* and a reaped s.cmd that no process is left.
LEMMA SeenMeansReaped ==
    ASSUME IInv, NEW t \in Threads, StopDone(t)
    PROVE  cmd \in Cmds /\ proc[cmd] = "reaped"
<1>1. cmd \in Cmds /\ cmd = starts /\ proc[cmd] # "none"
  BY DEF StopDone, IInv, Waiters
<1>2. starts \in closed
  BY DEF StopDone, ExitSeen, IInv, LastChannel
<1>3. proc[cmd] \notin Live
  BY <1>1, <1>2 DEF IInv, LastProcess, LastGoroutine, Busy
<1> QED
  BY <1>1, <1>3 DEF IInv, TypeOK, Live

LEMMA NoneLeft ==
    ASSUME IInv, ~HasProcess \/ (cmd \in Cmds /\ proc[cmd] = "reaped")
    PROVE  \A c \in Cmds : proc[c] \notin Live
BY DEF HasProcess, IInv, LastProcess, Live

\* Stop keeps the invariant, whoever calls it and however it returns.
LEMMA InvStop ==
    ASSUME IInv, TypeOK', NEW t \in Threads, Stop(t)
    PROVE  IInv'
<1>1. UNCHANGED <<starts, waitDone, closed, proc, gpc, gcmd, panic>>
  BY DEF Stop, StopNotRunning, StopProcessDone, StopTerm, StopDone, StopTimeout
<1>2. LastChannel'
  BY <1>1 DEF IInv, LastChannel
<1>3. ASSUME cmd' = cmd, mutex' = mutex \/ (mutex' = "free" /\ mutex = t),
             pc[t] \notin {"await", "killed", "send"} \/ mutex = t,
             AfterStop(t), \A c \in Cmds : proc[c] \notin Live,
             pc[t] \in {"stop", "await", "killed"}
      PROVE  IInv'
  <2>1. LastProcess' /\ LastGoroutine'
    BY <1>1, <1>3 DEF IInv, LastProcess, LastGoroutine
  <2>2. pc' = [pc EXCEPT ![t] = IF t = "main" THEN "leave" ELSE "start"]
    BY <1>3 DEF AfterStop, Goto
  <2>3. Waiters'
    BY <1>1, <1>3, <2>2 DEF IInv, TypeOK, Waiters
  <2>4. MonitorKnows'
    BY <1>1, <1>3, <2>2 DEF IInv, TypeOK, MonitorKnows
  <2> QED
    BY <1>1, <1>2, <2>1, <2>3, <2>4 DEF IInv, NoDoubleClose
<1>4. CASE StopNotRunning(t)
  <2>1. \A c \in Cmds : proc[c] \notin Live
    BY <1>4, NoneLeft DEF StopNotRunning
  <2> QED
    BY <1>3, <1>4, <2>1 DEF StopNotRunning
<1>5. CASE StopProcessDone(t)
  <2>1. \A c \in Cmds : proc[c] \notin Live
    BY <1>5, NoneLeft DEF StopProcessDone, HasProcess, ProcessDone, IInv, TypeOK
  <2> QED
    BY <1>3, <1>5, <2>1 DEF StopProcessDone
<1>6. CASE StopTerm(t)
  <2>1. cmd \in Cmds /\ cmd = starts /\ proc[cmd] # "none"
    BY <1>6 DEF StopTerm, HasProcess, Signalled, ProcessDone, IInv, TypeOK,
                LastProcess, Live
  <2>2. pc' = [pc EXCEPT ![t] = "await"] /\ mutex' = t /\ UNCHANGED cmd
    BY <1>6 DEF StopTerm, Goto
  <2>3. LastProcess' /\ LastGoroutine'
    BY <1>1, <2>2 DEF IInv, LastProcess, LastGoroutine
  <2>4. \A u \in Threads : pc[u] \notin {"await", "killed", "send"}
    BY <1>6 DEF StopTerm, IInv, TypeOK, MainPCs, Waiters
  <2>5. Waiters'
    BY <1>1, <2>1, <2>2, <2>4 DEF IInv, TypeOK, Waiters
  <2>6. MonitorKnows'
    BY <1>1, <1>6, <2>2 DEF StopTerm, IInv, TypeOK, MonitorKnows
  <2> QED
    BY <1>1, <1>2, <2>3, <2>5, <2>6 DEF IInv, NoDoubleClose
<1>7. CASE StopDone(t)
  <2>1. \A c \in Cmds : proc[c] \notin Live
    BY <1>7, SeenMeansReaped, NoneLeft
  <2>2. cmd \in Cmds /\ cmd = starts /\ proc[cmd] # "none" /\ mutex = t
    BY <1>7 DEF StopDone, IInv, Waiters
  <2>3. /\ pc' = [pc EXCEPT ![t] = IF t = "main" THEN "leave" ELSE "start"]
        /\ mutex' = "free"
    BY <1>7 DEF StopDone, AfterStop, Goto
  <2>4. LastProcess'
    BY <1>1, <2>1 DEF LastProcess
  <2>5. LastGoroutine'
    BY <1>1, <2>2 DEF IInv, LastGoroutine, Busy
  <2>6. Waiters'
    BY <1>1, <2>2, <2>3 DEF IInv, TypeOK, Waiters
  <2>7. MonitorKnows'
    BY <1>1, <1>7, <2>1, <2>3 DEF StopDone, IInv, TypeOK, MonitorKnows
  <2> QED
    BY <1>1, <1>2, <2>4, <2>5, <2>6, <2>7 DEF IInv, NoDoubleClose
<1>8. CASE StopTimeout(t)
  <2>1. pc[t] = "await" /\ mutex = t /\ cmd \in Cmds /\ UNCHANGED cmd
    BY <1>8 DEF StopTimeout, IInv, Waiters
  <2>2. CASE Goto(t, "killed") /\ UNCHANGED mutex
    <3>1. LastProcess' /\ LastGoroutine'
      BY <1>1, <2>1 DEF IInv, LastProcess, LastGoroutine
    <3>2. Waiters'
      BY <1>1, <2>1, <2>2 DEF Goto, IInv, TypeOK, Waiters
    <3>3. MonitorKnows'
      BY <1>1, <2>1, <2>2 DEF Goto, IInv, TypeOK, MonitorKnows
    <3> QED
      BY <1>1, <1>2, <3>1, <3>2, <3>3 DEF IInv, NoDoubleClose
  <2>3. CASE ProcessDone /\ mutex' = "free" /\ AfterStop(t)
    <3>1. \A c \in Cmds : proc[c] \notin Live
      BY <2>1, <2>3, NoneLeft DEF ProcessDone
    <3> QED
      BY <1>3, <2>1, <2>3, <3>1
  <2> QED
    BY <1>8, <2>2, <2>3 DEF StopTimeout
<1> QED
  BY <1>4, <1>5, <1>6, <1>7, <1>8 DEF Stop

\* dhcpd, the monitor's health check and main keep the invariant.
LEMMA InvOthers ==
    ASSUME Prompt, IInv, TypeOK',
           \/ \E c \in Cmds : ProcessExit(c)
           \/ MonitorTick \/ MonitorSent \/ MonitorCheck \/ MonitorProbe
           \/ MonitorProbeNil \/ TakeSignal \/ MainReturn \/ UNCHANGED vars
    PROVE  IInv'
<1>1. ASSUME NEW c \in Cmds, ProcessExit(c) PROVE IInv'
  <2>1. /\ UNCHANGED <<starts, cmd, waitDone, closed, gpc, gcmd, mutex, pc, panic>>
        /\ proc' = [proc EXCEPT ![c] = "zombie"]
        /\ proc[c] = "running"
    BY <1>1 DEF ProcessExit
  <2>2. LastChannel' /\ LastProcess'
    BY <2>1 DEF IInv, TypeOK, LastChannel, LastProcess, Live
  <2>3. LastGoroutine'
    BY <2>1 DEF IInv, TypeOK, LastGoroutine, Live
  <2>4. Waiters' /\ MonitorKnows'
    BY <2>1 DEF IInv, TypeOK, Waiters, MonitorKnows, Live
  <2> QED
    BY <2>1, <2>2, <2>3, <2>4 DEF IInv, NoDoubleClose
<1>2. ASSUME MonitorTick \/ MonitorSent \/ MonitorCheck \/ MonitorProbe
             \/ MonitorProbeNil \/ TakeSignal \/ MainReturn \/ UNCHANGED vars
      PROVE  IInv'
  <2>1. /\ UNCHANGED <<starts, cmd, waitDone, closed, proc, gpc, gcmd>>
        /\ panic' \in {panic, "nil_dereference"}
    BY <1>2 DEF MonitorTick, MonitorSent, MonitorCheck, MonitorProbe, MonitorStep,
                MonitorProbeNil, TakeSignal, MainReturn, MainStep, vars
  <2>2. LastChannel' /\ LastProcess' /\ LastGoroutine' /\ NoDoubleClose'
    BY <2>1 DEF IInv, LastChannel, LastProcess, LastGoroutine, NoDoubleClose
  <2>3. CASE MonitorTick
    <3>1. /\ pc["monitor"] = "idle" /\ mutex = "free"
          /\ \A g \in Cmds : gpc[g] # "launch"
      BY <2>3 DEF MonitorTick, MonitorStep
    <3>2. \/ pc' = [pc EXCEPT !["monitor"] = "check"] /\ mutex' = mutex
          \/ pc' = [pc EXCEPT !["monitor"] = "send"] /\ mutex' = "monitor"
      BY <2>3 DEF MonitorTick, Goto
    <3>3. Waiters'
      BY <2>1, <3>1, <3>2 DEF IInv, TypeOK, Waiters
    <3>4. MonitorKnows'
      BY <2>1, <3>1, <3>2 DEF IInv, TypeOK, MonitorKnows
    <3> QED
      BY <2>2, <3>3, <3>4 DEF IInv
  <2>4. CASE MonitorSent
    <3>1. /\ pc["monitor"] = "send" /\ mutex = "monitor" /\ mutex' = "free"
          /\ pc' = [pc EXCEPT !["monitor"] = "check"]
      BY <2>4 DEF MonitorSent, MonitorStep, Goto, IInv, Waiters
    <3>2. Waiters'
      BY <2>1, <3>1 DEF IInv, TypeOK, Waiters
    <3>3. MonitorKnows'
      BY <2>1, <3>1 DEF IInv, TypeOK, MonitorKnows
    <3> QED
      BY <2>2, <3>2, <3>3 DEF IInv
  <2>5. CASE MonitorCheck \/ MonitorProbe
    <3>1. /\ pc["monitor"] \in {"check", "probe"} /\ mutex' = mutex
          /\ \E l \in {"probe", "stop", "idle"} :
                pc' = [pc EXCEPT !["monitor"] = l]
      BY <2>5 DEF MonitorCheck, MonitorProbe, MonitorStep, Goto
    <3>2. Waiters'
      BY <2>1, <3>1 DEF IInv, TypeOK, Waiters
    <3>3. MonitorKnows'
      BY <2>1, <3>1 DEF IInv, TypeOK, MonitorKnows
    <3> QED
      BY <2>2, <3>2, <3>3 DEF IInv
  <2>6. CASE TakeSignal \/ MainReturn
    <3>1. /\ mutex' = mutex
          /\ \E l \in {"stop", "gone"} : pc' = [pc EXCEPT !["main"] = l]
      BY <2>6 DEF TakeSignal, MainReturn, MainStep, Goto
    <3>2. Waiters'
      BY <2>1, <3>1 DEF IInv, TypeOK, Waiters
    <3>3. MonitorKnows'
      BY <2>1, <3>1 DEF IInv, TypeOK, MonitorKnows
    <3> QED
      BY <2>2, <3>2, <3>3 DEF IInv
  <2>7. CASE MonitorProbeNil \/ UNCHANGED vars
    <3>1. UNCHANGED <<pc, mutex>>
      BY <2>7 DEF MonitorProbeNil, vars
    <3> QED
      BY <2>1, <2>2, <3>1 DEF IInv, Waiters, MonitorKnows
  <2> QED
    BY <1>2, <2>3, <2>4, <2>5, <2>6, <2>7
<1> QED
  BY <1>1, <1>2

LEMMA InvStep ==
    ASSUME Prompt PROVE IInv /\ [Next]_vars => IInv'
<1> SUFFICES ASSUME IInv, [Next]_vars PROVE IInv'
  OBVIOUS
<1>1. TypeOK'
  BY TypeStep DEF IInv
<1>2. CASE BootStart \/ MonitorStart
  BY <1>1, <1>2, InvStart
<1>3. ASSUME NEW g \in Cmds, Goroutine(g) PROVE IInv'
  BY <1>1, <1>3, InvGoroutine
<1>4. ASSUME NEW t \in Threads, Stop(t) PROVE IInv'
  BY <1>1, <1>4, InvStop
<1>5. CASE \/ \E c \in Cmds : ProcessExit(c)
           \/ MonitorTick \/ MonitorSent \/ MonitorCheck \/ MonitorProbe
           \/ MonitorProbeNil \/ TakeSignal \/ MainReturn \/ UNCHANGED vars
  BY <1>1, <1>5, InvOthers
<1> QED
  BY <1>2, <1>3, <1>4, <1>5 DEF Next, Monitor, Ended

\* Every process that is not reaped, every unfinished goroutine and the open
\* waitDone channel belong to the last Start, in every reachable state.
THEOREM SupervisionInvariant ==
    ASSUME Prompt PROVE Spec => []IInv
BY InvInit, InvStep, PTL DEF Spec

\* At most one dhcpd runs at any time, however often the monitor restarts it
\* and whatever main's Stop does in between.
THEOREM OneDhcpdAlways ==
    ASSUME Prompt PROVE Spec => []OneDhcpd
<1>1. IInv => OneDhcpd
  BY DEF IInv, LastProcess, OneDhcpd, Running, Live
<1> QED
  BY <1>1, SupervisionInvariant, PTL

\* No goroutine of Start closes a waitDone channel that is closed.
THEOREM NeverDoubleClose ==
    ASSUME Prompt PROVE Spec => []NoDoubleClose
<1>1. IInv => NoDoubleClose
  BY DEF IInv
<1> QED
  BY <1>1, SupervisionInvariant, PTL

\* Stop gives up s.cmd only after the process has been reaped.
THEOREM StopAlwaysReaps ==
    ASSUME Prompt PROVE Spec => StopReaps
<1>1. IInv /\ [Next]_vars => [cmd # 0 /\ cmd' = 0 => proc[cmd] = "reaped"]_vars
  <2> SUFFICES ASSUME IInv, Next, cmd # 0, cmd' = 0 PROVE proc[cmd] = "reaped"
    BY DEF vars
  <2>1. ASSUME NEW t \in Threads, Stop(t) PROVE proc[cmd] = "reaped"
    BY <2>1, SeenMeansReaped DEF Stop, StopNotRunning, StopProcessDone, StopTerm,
                                 StopTimeout
  <2>2. CASE BootStart \/ MonitorStart
    BY <2>2 DEF BootStart, MonitorStart, StartSucceeds, StartFailsEarly,
                StartFailsLate, IInv, TypeOK
  <2>3. CASE UNCHANGED cmd
    BY <2>3
  <2> QED
    BY <2>1, <2>2, <2>3 DEF Next, Goroutine, Launch, Reap, CloseWaitDone,
       ProcessExit, Monitor, MonitorTick, MonitorSent, MonitorCheck, MonitorProbe,
       MonitorProbeNil, MonitorStep, TakeSignal, MainReturn, MainStep, Ended, vars
<1> QED
  BY <1>1, SupervisionInvariant, PTL DEF Spec, StopReaps

-----------------------------------------------------------------------------
(* The nil dereference of the monitor.                                     *)

\* A process the monitor has seen at line 34 is lost before line 37 only to
\* main's Stop, which has reaped it.
ProbeKnows ==
    pc["monitor"] = "probe" /\ ~HasProcess =>
        pc["main"] \in {"leave", "gone"} /\ \A c \in Cmds : proc[c] \notin Live

\* Start finds the monitor elsewhere, and no panic.
LEMMA NilStart ==
    ASSUME IInv, TypeOK', NilOnlyAtExit, BootStart \/ MonitorStart
    PROVE  ProbeKnows' /\ NilOnlyAtExit'
<1>1. panic # "nil_dereference" /\ panic' = panic
  BY DEF BootStart, MonitorStart, NewWaitDone, Alive, NilOnlyAtExit
<1>2. pc'["monitor"] # "probe"
  <2>1. CASE MonitorStart
    BY <2>1 DEF MonitorStart, Goto, IInv, TypeOK
  <2>2. CASE BootStart
    BY <2>2 DEF BootStart, Goto, IInv, TypeOK, MonitorKnows
  <2> QED
    BY <2>1, <2>2
<1> QED
  BY <1>1, <1>2 DEF ProbeKnows, NilOnlyAtExit

\* A goroutine of Start that is prompt has a command to launch, and launches
\* none while the monitor probes.
LEMMA NilGoroutine ==
    ASSUME IInv, TypeOK', ProbeKnows, NilOnlyAtExit, NEW g \in Cmds, Goroutine(g)
    PROVE  ProbeKnows' /\ NilOnlyAtExit'
<1>1. panic # "nil_dereference"
  BY DEF Goroutine, Launch, Reap, CloseWaitDone, Alive
<1>2. UNCHANGED <<cmd, pc>>
  BY DEF Goroutine, Launch, Reap, CloseWaitDone
<1>3. panic' # "nil_dereference"
  <2>1. CASE Launch(g)
    <3>1. cmd # 0
      BY <2>1 DEF Launch, IInv, LastGoroutine, Busy
    <3> QED
      BY <1>1, <2>1, <3>1 DEF Launch
  <2>2. CASE Reap(g) \/ CloseWaitDone(g)
    BY <1>1, <2>2 DEF Reap, CloseWaitDone
  <2> QED
    BY <2>1, <2>2 DEF Goroutine
<1>4. ASSUME pc["monitor"] = "probe", ~HasProcess'
      PROVE  ~HasProcess /\ \A c \in Cmds : proc[c] \notin Live => proc'[c] \notin Live
  <2>1. ~Launch(g)
    BY <1>4 DEF Launch, IInv, MonitorKnows
  <2>2. \/ proc' = proc
        \/ proc' = [proc EXCEPT ![gcmd[g]] = "reaped"] /\ gcmd[g] = g
    BY <2>1 DEF Goroutine, Reap, CloseWaitDone, IInv, LastGoroutine, Busy
  <2>3. \A c \in Cmds : /\ proc[c] # "none" => proc'[c] # "none"
                        /\ proc[c] \notin Live => proc'[c] \notin Live
    BY <2>2 DEF IInv, TypeOK, Live
  <2> QED
    BY <1>2, <1>4, <2>3 DEF HasProcess, IInv, TypeOK
<1> QED
  BY <1>2, <1>3, <1>4 DEF ProbeKnows, NilOnlyAtExit

\* Only main's Stop can take the process from a monitor that probes it.
LEMMA NilStop ==
    ASSUME IInv, TypeOK', ProbeKnows, NilOnlyAtExit, NEW t \in Threads, Stop(t)
    PROVE  ProbeKnows' /\ NilOnlyAtExit'
<1>1. panic # "nil_dereference" /\ UNCHANGED <<panic, proc>>
  BY DEF Stop, StopNotRunning, StopProcessDone, StopTerm, StopDone, StopTimeout, Alive
<1>2. ASSUME pc'["monitor"] = "probe", ~HasProcess'
      PROVE  pc'["main"] \in {"leave", "gone"} /\ \A c \in Cmds : proc[c] \notin Live
  <2>1. \E l \in {"await", "killed", IF t = "main" THEN "leave" ELSE "start"} :
          pc' = [pc EXCEPT ![t] = l]
    BY DEF Stop, StopNotRunning, StopProcessDone, StopTerm, StopDone,
           StopTimeout, AfterStop, Goto
  <2>2. t = "main" /\ pc["monitor"] = "probe"
    BY <1>2, <2>1 DEF IInv, TypeOK
  <2>3. CASE StopDone(t)
    <3>1. \A c \in Cmds : proc[c] \notin Live
      BY <2>3, SeenMeansReaped, NoneLeft
    <3> QED
      BY <2>2, <2>3, <3>1 DEF StopDone, AfterStop, Goto, IInv, TypeOK
  <2>4. CASE UNCHANGED cmd
    <3>1. ~HasProcess
      BY <1>1, <1>2, <2>4 DEF HasProcess
    <3>2. pc["main"] \in {"leave", "gone"}
      BY <2>2, <3>1 DEF ProbeKnows
    <3> QED
      BY <2>2, <3>2 DEF Stop, StopNotRunning, StopProcessDone, StopTerm, StopDone,
                        StopTimeout
  <2> QED
    BY <2>3, <2>4 DEF Stop, StopNotRunning, StopProcessDone, StopTerm, StopTimeout
<1> QED
  BY <1>1, <1>2 DEF ProbeKnows, NilOnlyAtExit

\* The steps of the monitor, of main and of dhcpd.
LEMMA NilOthers ==
    ASSUME IInv, TypeOK', ProbeKnows, NilOnlyAtExit,
           \/ \E c \in Cmds : ProcessExit(c)
           \/ MonitorTick \/ MonitorSent \/ MonitorCheck \/ MonitorProbe
           \/ MonitorProbeNil \/ TakeSignal \/ MainReturn \/ UNCHANGED vars
    PROVE  ProbeKnows' /\ NilOnlyAtExit'
<1>1. ASSUME NEW c \in Cmds, ProcessExit(c) PROVE ProbeKnows' /\ NilOnlyAtExit'
  <2>1. /\ UNCHANGED <<cmd, pc, panic>>
        /\ proc' = [proc EXCEPT ![c] = "zombie"]
        /\ proc[c] = "running"
    BY <1>1 DEF ProcessExit
  <2>2. ~HasProcess' => ~HasProcess
    BY <2>1 DEF HasProcess, IInv, TypeOK
  <2>3. /\ Running' \subseteq Running
        /\ \E d \in Cmds : proc[d] \in Live
    BY <2>1 DEF Running, Live, IInv, TypeOK
  <2> QED
    BY <2>1, <2>2, <2>3 DEF ProbeKnows, NilOnlyAtExit
<1>2. CASE MonitorProbeNil
  <2>1. pc["monitor"] = "probe" /\ ~HasProcess /\ Alive /\ UNCHANGED <<cmd, proc, pc>>
    BY <1>2 DEF MonitorProbeNil
  <2>2. pc["main"] = "leave" /\ Running = {}
    BY <2>1 DEF ProbeKnows, Alive, Running, Live
  <2> QED
    BY <2>1, <2>2 DEF ProbeKnows, NilOnlyAtExit, HasProcess, Running
<1>3. CASE MonitorTick \/ MonitorSent \/ MonitorCheck \/ MonitorProbe
  <2>1. UNCHANGED <<cmd, proc, panic>> /\ panic = "no"
    BY <1>3 DEF MonitorTick, MonitorSent, MonitorCheck, MonitorProbe, MonitorStep, Alive
  <2>2. pc'["monitor"] = "probe" => HasProcess
    BY <1>3 DEF MonitorTick, MonitorSent, MonitorCheck, MonitorProbe, Goto, IInv, TypeOK
  <2> QED
    BY <2>1, <2>2 DEF ProbeKnows, NilOnlyAtExit, HasProcess
<1>4. CASE TakeSignal \/ MainReturn
  <2>1. UNCHANGED <<cmd, proc, panic>> /\ panic = "no"
    BY <1>4 DEF TakeSignal, MainReturn, MainStep, Alive
  <2>2. /\ pc'["monitor"] = pc["monitor"]
        /\ pc["main"] \in {"leave", "gone"} => pc'["main"] = "gone"
    BY <1>4 DEF TakeSignal, MainReturn, MainStep, Goto, Alive, IInv, TypeOK
  <2> QED
    BY <2>1, <2>2 DEF ProbeKnows, NilOnlyAtExit, HasProcess
<1>5. CASE UNCHANGED vars
  BY <1>5 DEF vars, ProbeKnows, NilOnlyAtExit, HasProcess, Running
<1> QED
  BY <1>1, <1>2, <1>3, <1>4, <1>5

\* With prompt goroutines the unlocked reads of s.cmd end the agent only when
\* main has stopped dhcpd and is about to return.
THEOREM PanicOnlyAtExit ==
    ASSUME Prompt PROVE Spec => []NilOnlyAtExit
<1>1. Init => ProbeKnows /\ NilOnlyAtExit
  BY DEF Init, ProbeKnows, NilOnlyAtExit
<1>2. IInv /\ ProbeKnows /\ NilOnlyAtExit /\ [Next]_vars => ProbeKnows' /\ NilOnlyAtExit'
  <2> SUFFICES ASSUME IInv, ProbeKnows, NilOnlyAtExit, [Next]_vars
               PROVE  ProbeKnows' /\ NilOnlyAtExit'
    OBVIOUS
  <2>1. TypeOK'
    BY TypeStep DEF IInv
  <2>2. CASE BootStart \/ MonitorStart
    BY <2>1, <2>2, NilStart
  <2>3. ASSUME NEW g \in Cmds, Goroutine(g) PROVE ProbeKnows' /\ NilOnlyAtExit'
    BY <2>1, <2>3, NilGoroutine
  <2>4. ASSUME NEW t \in Threads, Stop(t) PROVE ProbeKnows' /\ NilOnlyAtExit'
    BY <2>1, <2>4, NilStop
  <2>5. CASE \/ \E c \in Cmds : ProcessExit(c)
             \/ MonitorTick \/ MonitorSent \/ MonitorCheck \/ MonitorProbe
             \/ MonitorProbeNil \/ TakeSignal \/ MainReturn \/ UNCHANGED vars
    BY <2>1, <2>5, NilOthers
  <2> QED
    BY <2>2, <2>3, <2>4, <2>5 DEF Next, Monitor, Ended
<1> QED
  BY <1>1, <1>2, SupervisionInvariant, PTL DEF Spec

=============================================================================
