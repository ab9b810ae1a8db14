----------------------------- MODULE Supervisor -----------------------------
(***************************************************************************)
(* The supervisor of the development container (tools/supervisor): it      *)
(* starts syncthing and, in remote mode, the ssh server, restarts them     *)
(* when they end, gives up after MaxRetries starts of one of them, and     *)
(* stops them on SIGTERM.                                                  *)
(*                                                                         *)
(* Monitor.Run checks every process in a goroutine of its own and waits    *)
(* for all of them; a goroutine that gives up sends to m.err, a channel of *)
(* capacity 1 that Run reads between two rounds.  Each running process has *)
(* a monitor goroutine that waits for its end and writes its state.        *)
(***************************************************************************)
EXTENDS Naturals

CONSTANTS Processes,   \* the monitored processes
          Synced,      \* those that need setup.Setup before a start (syncthing)
          MaxRetries   \* maxRetries

ASSUME ConstantsAssumption == Synced \subseteq Processes /\ MaxRetries \in Nat \ {0}

VARIABLES
  main,        \* Run between rounds, in a round, in Stop, returned, or a panic
  cancelled,   \* the context of Run was cancelled by a signal
  errs,        \* messages in m.err, of capacity 1
  check,       \* check[p]: where checkState of p is in this round
  state,       \* state[p]: p.state
  startCount,  \* startCount[p]: p.startCount
  cmd,         \* cmd[p]: p.cmd is not nil
  alive,       \* alive[p]: the operating system process of p.cmd runs
  orphan,      \* orphan[p]: a child an ended process left behind runs
  missed,      \* missed[p]: the last killAllByName of p left one running (a
               \* history variable: the code only logs it)
  watcher,     \* watcher[p]: where the goroutine monitor() of p is
  stopping     \* stopping[p]: where stop() of p is

vars == <<main, cancelled, errs, check, state, startCount, cmd, alive, orphan,
          missed, watcher, stopping>>

Init ==
  /\ main = "select" /\ cancelled = FALSE /\ errs = 0
  /\ check = [p \in Processes |-> "done"]
  /\ state = [p \in Processes |-> "never"]
  /\ startCount = [p \in Processes |-> 0]
  /\ cmd = [p \in Processes |-> FALSE]
  /\ alive = [p \in Processes |-> FALSE]
  /\ orphan = [p \in Processes |-> FALSE]
  /\ missed = [p \in Processes |-> FALSE]
  /\ watcher = [p \in Processes |-> "none"]
  /\ stopping = [p \in Processes |-> "no"]

TypeOK ==
  /\ main \in {"select", "round", "stop", "exit", "panic"}
  /\ cancelled \in BOOLEAN /\ errs \in {0, 1}
  /\ check \in [Processes -> {"todo", "send", "verify", "done"}]
  /\ state \in [Processes -> {"never", "started", "stopping", "stopped", "fatal"}]
  /\ startCount \in [Processes -> Nat]
  /\ cmd \in [Processes -> BOOLEAN]
  /\ alive \in [Processes -> BOOLEAN]
  /\ orphan \in [Processes -> BOOLEAN]
  /\ missed \in [Processes -> BOOLEAN]
  /\ watcher \in [Processes -> {"none", "wait", "woken"}]
  /\ stopping \in [Processes -> {"no", "todo", "wait", "done"}]

Running == main \notin {"exit", "panic"}

-----------------------------------------------------------------------------
(* The outside world *)

Signal ==
  /\ Running /\ ~cancelled
  /\ cancelled' = TRUE
  /\ UNCHANGED <<main, errs, check, state, startCount, cmd, alive, orphan, missed, watcher, stopping>>

\* The process ends, and may leave a child of the same name behind unless it
\* was stopped with its process group.  A child that was there before stays.
ProcessEnds(p) ==
  /\ Running /\ alive[p]
  /\ alive' = [alive EXCEPT ![p] = FALSE]
  /\ \E left \in (IF stopping[p] = "wait" THEN {FALSE} ELSE BOOLEAN) :
       orphan' = [orphan EXCEPT ![p] = @ \/ left]
  /\ UNCHANGED <<main, cancelled, errs, check, state, startCount, cmd, missed, watcher, stopping>>

-----------------------------------------------------------------------------
(* Run *)

RunRound ==
  /\ main = "select" /\ errs = 0 /\ ~cancelled
  /\ main' = "round"
  /\ check' = [p \in Processes |-> "todo"]
  /\ UNCHANGED <<cancelled, errs, state, startCount, cmd, alive, orphan, missed, watcher, stopping>>

\* wg.Wait and the tick
RunRoundDone ==
  /\ main = "round" /\ \A p \in Processes : check[p] = "done"
  /\ main' = "select"
  /\ UNCHANGED <<cancelled, errs, check, state, startCount, cmd, alive, orphan, missed, watcher, stopping>>

\* Run returns, with the error or because of the signal, and main calls Stop.
RunReturns ==
  /\ main = "select"
  /\ \/ errs = 1 /\ errs' = 0
     \/ cancelled /\ UNCHANGED errs
  /\ main' = "stop"
  /\ stopping' = [p \in Processes |-> "todo"]
  /\ UNCHANGED <<cancelled, check, state, startCount, cmd, alive, orphan, missed, watcher>>

-----------------------------------------------------------------------------
(* checkState *)

NeedsStart(p) == state[p] \in {"never", "stopped", "fatal"}

\* The first start is unconditional.
ShouldStart(p) == state[p] = "never" \/ startCount[p] < MaxRetries

\* Variant: a process that ended cleanly left nothing to kill.
KillOnlyAfterFailure(p) ==
  /\ orphan' = [orphan EXCEPT ![p] = @ /\ state[p] = "stopped"]
  /\ missed' = [missed EXCEPT ![p] = FALSE]

\* Before a restart, and not before the first start.  The processes may not be
\* listed, and one of them may not be ended: both are logged, and the start goes on.
KillAllByName(p) ==
  \/ /\ orphan' = [orphan EXCEPT ![p] = FALSE]
     /\ missed' = [missed EXCEPT ![p] = FALSE]
  \/ /\ orphan[p] /\ missed' = [missed EXCEPT ![p] = TRUE]
     /\ UNCHANGED orphan

CheckNothingToDo(p) ==
  /\ main = "round" /\ check[p] = "todo" /\ ~NeedsStart(p)
  /\ check' = [check EXCEPT ![p] = "done"]
  /\ UNCHANGED <<main, cancelled, errs, state, startCount, cmd, alive, orphan, missed, watcher, stopping>>

CheckGivesUp(p) ==
  /\ main = "round" /\ check[p] = "todo" /\ NeedsStart(p) /\ ~ShouldStart(p)
  /\ check' = [check EXCEPT ![p] = "send"]
  /\ UNCHANGED <<main, cancelled, errs, state, startCount, cmd, alive, orphan, missed, watcher, stopping>>

CheckSetupFails(p) ==
  /\ main = "round" /\ check[p] = "todo" /\ NeedsStart(p) /\ ShouldStart(p)
  /\ p \in Synced
  /\ KillAllByName(p)
  /\ check' = [check EXCEPT ![p] = "send"]
  /\ UNCHANGED <<main, cancelled, errs, state, startCount, cmd, alive, watcher, stopping>>

\* m.err <- err blocks while the channel is full.
CheckSends(p) ==
  /\ main = "round" /\ check[p] = "send" /\ errs = 0
  /\ errs' = 1
  /\ check' = [check EXCEPT ![p] = "done"]
  /\ UNCHANGED <<main, cancelled, state, startCount, cmd, alive, orphan, missed, watcher, stopping>>

\* start() launches the process, which may fail to run, ...
CheckStarts(p) ==
  /\ main = "round" /\ check[p] = "todo" /\ NeedsStart(p) /\ ShouldStart(p)
  /\ KillAllByName(p)
  /\ startCount' = [startCount EXCEPT ![p] = @ + 1]
  /\ cmd' = [cmd EXCEPT ![p] = TRUE]
  /\ \E runs \in BOOLEAN : alive' = [alive EXCEPT ![p] = runs]
  /\ check' = [check EXCEPT ![p] = "verify"]
  /\ UNCHANGED <<main, cancelled, errs, state, watcher, stopping>>

\* ... and looks at it five seconds later.
StartVerify(p) ==
  /\ main = "round" /\ check[p] = "verify"
  /\ state' = [state EXCEPT ![p] = IF alive[p] THEN "started" ELSE "fatal"]
  /\ watcher' = [watcher EXCEPT ![p] = IF alive[p] THEN "wait" ELSE @]
  /\ check' = [check EXCEPT ![p] = "done"]
  /\ UNCHANGED <<main, cancelled, errs, startCount, cmd, alive, orphan, missed, stopping>>

-----------------------------------------------------------------------------
(* monitor *)

MonitorWakes(p) ==
  /\ Running /\ watcher[p] = "wait" /\ ~alive[p]
  /\ watcher' = [watcher EXCEPT ![p] = "woken"]
  /\ UNCHANGED <<main, cancelled, errs, check, state, startCount, cmd, alive, orphan, missed, stopping>>

\* p.cmd.Status() on a nil p.cmd panics.
MonitorWrites(p) ==
  /\ Running /\ watcher[p] = "woken"
  /\ watcher' = [watcher EXCEPT ![p] = "none"]
  /\ \/ /\ state[p] = "stopping"
        /\ UNCHANGED <<main, state>>
     \/ /\ state[p] # "stopping" /\ cmd[p]
        /\ \E s \in {"stopped", "fatal"} : state' = [state EXCEPT ![p] = s]
        /\ UNCHANGED main
     \/ /\ state[p] # "stopping" /\ ~cmd[p]
        /\ main' = "panic"
        /\ UNCHANGED state
  /\ UNCHANGED <<cancelled, errs, check, startCount, cmd, alive, orphan, missed, stopping>>

-----------------------------------------------------------------------------
(* Stop *)

\* Variant: a process whose end is known is not waited for.
StopBeginsUnlessStarted(p) ==
  /\ main = "stop" /\ stopping[p] = "todo"
  /\ IF cmd[p] /\ state[p] # "started"
       THEN /\ state' = [state EXCEPT ![p] = "stopping"]
            /\ stopping' = [stopping EXCEPT ![p] = "wait"]
       ELSE stopping' = [stopping EXCEPT ![p] = "done"] /\ UNCHANGED state
  /\ UNCHANGED <<main, cancelled, errs, check, startCount, cmd, alive, orphan, missed, watcher>>

StopBegins(p) ==
  /\ main = "stop" /\ stopping[p] = "todo"
  /\ IF cmd[p]
       THEN /\ state' = [state EXCEPT ![p] = "stopping"]
            /\ stopping' = [stopping EXCEPT ![p] = "wait"]
       ELSE stopping' = [stopping EXCEPT ![p] = "done"] /\ UNCHANGED state
  /\ UNCHANGED <<main, cancelled, errs, check, startCount, cmd, alive, orphan, missed, watcher>>

\* cmd.Stop signals the process group; it may fail for a process that has ended.
StopFails(p) ==
  /\ main = "stop" /\ stopping[p] = "wait" /\ ~alive[p]
  /\ stopping' = [stopping EXCEPT ![p] = "done"]
  /\ UNCHANGED <<main, cancelled, errs, check, state, startCount, cmd, alive, orphan, missed, watcher>>

StopEnds(p) ==
  /\ main = "stop" /\ stopping[p] = "wait" /\ ~alive[p]
  /\ stopping' = [stopping EXCEPT ![p] = "done"]
  /\ state' = [state EXCEPT ![p] = "stopped"]
  /\ cmd' = [cmd EXCEPT ![p] = FALSE]
  /\ UNCHANGED <<main, cancelled, errs, check, startCount, alive, orphan, missed, watcher>>

StopReturns ==
  /\ main = "stop" /\ \A p \in Processes : stopping[p] = "done"
  /\ main' = "exit"
  /\ UNCHANGED <<cancelled, errs, check, state, startCount, cmd, alive, orphan, missed, watcher, stopping>>

-----------------------------------------------------------------------------
CheckState(p) ==
  \/ CheckNothingToDo(p) \/ CheckGivesUp(p) \/ CheckSetupFails(p)
  \/ CheckSends(p) \/ CheckStarts(p) \/ StartVerify(p)

MonitorProcess(p) == MonitorWakes(p) \/ MonitorWrites(p)

StopProcess(p) == StopBegins(p) \/ StopFails(p) \/ StopEnds(p)

Next ==
  \/ Signal \/ RunRound \/ RunRoundDone \/ RunReturns \/ StopReturns
  \/ \E p \in Processes :
       ProcessEnds(p) \/ CheckState(p) \/ MonitorProcess(p) \/ StopProcess(p)

Spec == Init /\ [][Next]_vars

-----------------------------------------------------------------------------
(* Properties *)

\* A start never meets a running instance, however the monitor goroutine's write was
\* ordered, and an instance runs beside a child of an older one only if
\* killAllByName, which is called whichever of the clean and the failed end led to
\* the restart, could not end that child (monitor.go:87-156, process.go:122-138 and
\* 161-200).
SingleInstance ==
  \A p \in Processes :
    /\ check[p] = "todo" /\ NeedsStart(p) /\ main = "round" => ~alive[p]
    /\ alive[p] /\ orphan[p] => missed[p]

\* A process is started at most maxRetries times (process.go:118-120).
BoundedRestarts == \A p \in Processes : startCount[p] <= MaxRetries

\* A process that is recorded as started and has ended has a monitor goroutine
\* that will record it: no end goes unnoticed (process.go:57-104 and 122-138).
EndIsNoticed ==
  \A p \in Processes : state[p] = "started" /\ ~alive[p] => watcher[p] # "none"

\* The processes and what is recorded of them agree: they have their types, none
\* runs twice except beside a child that could not be killed, none is started more
\* often than allowed and no end goes unnoticed (monitor.go:87-156,
\* process.go:57-138 and 161-200).
ProcessesAreSound == TypeOK /\ SingleInstance /\ BoundedRestarts /\ EndIsNoticed

\* When Stop has returned none of the processes it started last runs any more
\* (monitor.go:158-170, process.go:140-159).
StopStopsAll == main = "exit" => \A p \in Processes : ~alive[p]

\* What the properties above rest on: where the monitor, the check and the stop of
\* a process can be, given its state and the state of Run.
Support ==
  /\ main = "exit" => \A p \in Processes : stopping[p] = "done"
  /\ \A p \in Processes :
       /\ check[p] # "done" => main = "round"
       /\ check[p] = "verify" => watcher[p] = "none" /\ NeedsStart(p)
       /\ main \in {"select", "round"} =>
            /\ stopping[p] = "no"
            /\ state[p] # "stopping"
            /\ watcher[p] # "none" => state[p] = "started"
       /\ state[p] = "started" => watcher[p] # "none" /\ cmd[p]
       /\ watcher[p] = "woken" => ~alive[p]
       /\ alive[p] => cmd[p] /\ (orphan[p] => missed[p])
       /\ alive[p] /\ check[p] # "verify" => state[p] \in {"started", "stopping"}
       /\ stopping[p] = "done" => ~alive[p]
       /\ state[p] = "never" /\ check[p] # "verify" => startCount[p] = 0
       /\ startCount[p] <= MaxRetries

IInv == TypeOK /\ Support

\* Two processes gave up in the same round: the second send on m.err has no reader
\* until the round ends, which waits for it (monitor.go:81, 104, 122).
Blocked == errs = 1 /\ \E p \in Processes : check[p] = "send"

\* An ended process runs again, or the supervisor ends, unless it is blocked:
\* ends, restarts and retries of two processes in any order lose none
\* (monitor.go:87-156, process.go:122-138).
EndedIsRestarted ==
  \A p \in Processes :
    (state[p] = "started" /\ ~alive[p]) ~> (alive[p] \/ ~Running \/ Blocked)

\* SIGTERM ends the supervisor unless it is blocked, however the processes end
\* and are restarted meanwhile (main.go:37-41, monitor.go:70-72).
SignalEnds == cancelled ~> (~Running \/ Blocked)

\* Nothing that ends is forgotten: an ended process is restarted or the supervisor
\* ends, and SIGTERM ends the supervisor, unless it is blocked.
ProcessesAreKept == EndedIsRestarted /\ SignalEnds
=============================================================================
