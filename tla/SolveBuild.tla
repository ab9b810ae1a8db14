----------------------------- MODULE SolveBuild -----------------------------
(***************************************************************************)
(* SolveBuild: one request to BuildKit and the goroutines around it.  The  *)
(* request produces statuses, a dispatcher copies them to the displays,    *)
(* and a display reads until its channel is closed; with the output of a   *)
(* remote deploy, destroy or test the display also finds the error of the  *)
(* command.  All channels are unbuffered but the one of command errors.    *)
(***************************************************************************)
EXTENDS Naturals

CONSTANT MaxStatuses   \* bound on the statuses of one build

ASSUME StatusesAssumption == MaxStatuses \in Nat

\* What a status carries: nothing to react on, the error of a missing frontend
\* image, an error line of the remote command, the error of a vertex.
Kinds == {"progress", "frontend", "command", "vertex"}

VARIABLES
  progress,   \* the output: tty, plain, or remote (deploy, destroy, test)
  solve,      \* the request: running, ok, err
  statuses,   \* how many statuses it has sent
  chClosed,   \* it has closed the channel of statuses
  dispatcher, \* select, plain, tty, fail, done; left: with an error
  ss,         \* the kind of the status in the dispatcher's hands
  plainOpen, ttyOpen,  \* the channels to the displays
  display,    \* the goroutine of the display: start, read, send, done
  writer,     \* the goroutine that reads plainChannel when the display is a tty
  traceErr,   \* t.err of deployDisplayer
  displayErr, \* the display returned an error
  fail,       \* commandFailChannel, of capacity 1: none, nil, frontend, command
  cancelled,  \* the context of the group: an error of one of them, or the caller
  interrupted,\* the caller has cancelled its context
  frontends,  \* how many frontend errors were dispatched
  solveResult \* none, ok, or the error returned: solve, frontend, command

solveVars == <<progress, solve, statuses, chClosed, dispatcher, ss, plainOpen, ttyOpen, display,
          writer, traceErr, displayErr, fail, cancelled, interrupted, frontends, solveResult>>

SolveInit ==
  /\ progress \in {"tty", "plain", "remote"}
  /\ solve = "running" /\ statuses = 0 /\ chClosed = FALSE
  /\ dispatcher = "select" /\ ss = "progress"
  /\ plainOpen = TRUE /\ ttyOpen = TRUE
  /\ display = "start" /\ writer = IF progress = "tty" THEN "start" ELSE "done"
  /\ traceErr = FALSE /\ displayErr = FALSE /\ fail = "none"
  /\ cancelled = FALSE /\ interrupted = FALSE /\ frontends = 0 /\ solveResult = "none"

-----------------------------------------------------------------------------
(* The request *)

\* A status goes from the request to the dispatcher (external: client.Solve).
Status ==
  /\ solve = "running" /\ dispatcher = "select" /\ statuses < MaxStatuses
  /\ statuses' = statuses + 1 /\ ss' \in Kinds
  /\ dispatcher' = "plain"
  /\ UNCHANGED <<progress, solve, chClosed, plainOpen, ttyOpen, display, writer, traceErr,
                 displayErr, fail, cancelled, interrupted, frontends, solveResult>>

\* The request closes its channel and returns; an error cancels the group.
SolveEnds ==
  /\ solve = "running"
  /\ solve' \in {"ok", "err"} /\ chClosed' = TRUE
  /\ cancelled' = (cancelled \/ solve' = "err")
  /\ UNCHANGED <<progress, statuses, dispatcher, ss, plainOpen, ttyOpen, display, writer,
                 traceErr, displayErr, fail, interrupted, frontends, solveResult>>

\* The caller gives up (external: CTRL+C, a timeout).
Interrupt ==
  /\ solveResult = "none" /\ ~interrupted
  /\ interrupted' = TRUE /\ cancelled' = TRUE
  /\ UNCHANGED <<progress, solve, statuses, chClosed, dispatcher, ss, plainOpen, ttyOpen,
                 display, writer, traceErr, displayErr, fail, frontends, solveResult>>

-----------------------------------------------------------------------------
(* The dispatcher *)

\* plainChannel <- ss meets whoever reads it; deployDisplayer keeps the error of the
\* command, unless the status also carries the error of a vertex.
DispatchPlain ==
  /\ dispatcher = "plain"
  /\ IF progress = "tty" THEN writer = "read" ELSE display = "read"
  /\ dispatcher' = IF progress = "tty" THEN "tty" ELSE IF ss = "frontend" THEN "fail" ELSE "select"
  /\ traceErr' = (traceErr \/ (progress = "remote" /\ ss = "command"))
  /\ UNCHANGED <<progress, solve, statuses, chClosed, ss, plainOpen, ttyOpen, display, writer,
                 displayErr, fail, cancelled, interrupted, frontends, solveResult>>

DispatchTty ==
  /\ dispatcher = "tty" /\ display = "read"
  /\ dispatcher' = IF ss = "frontend" THEN "fail" ELSE "select"
  /\ UNCHANGED <<progress, solve, statuses, chClosed, ss, plainOpen, ttyOpen, display, writer,
                 traceErr, displayErr, fail, cancelled, interrupted, frontends, solveResult>>

\* logFilter.GetError: the error waits in the channel for the end.
DispatchError ==
  /\ dispatcher = "fail" /\ fail = "none"
  /\ fail' = "frontend" /\ frontends' = frontends + 1 /\ dispatcher' = "select"
  /\ UNCHANGED <<progress, solve, statuses, chClosed, ss, plainOpen, ttyOpen, display, writer,
                 traceErr, displayErr, cancelled, interrupted, solveResult>>

\* The request's channel is closed: so are the displays'.
DispatchClosed ==
  /\ dispatcher = "select" /\ chClosed
  /\ dispatcher' = "done" /\ plainOpen' = FALSE /\ ttyOpen' = (progress # "tty")
  /\ UNCHANGED <<progress, solve, statuses, chClosed, ss, display, writer, traceErr, displayErr,
                 fail, cancelled, interrupted, frontends, solveResult>>

\* ctx.Done(): the dispatcher leaves and the displays' channels stay open.
DispatchCancelled ==
  /\ dispatcher = "select" /\ cancelled
  /\ dispatcher' = "left"
  /\ UNCHANGED <<progress, solve, statuses, chClosed, ss, plainOpen, ttyOpen, display, writer,
                 traceErr, displayErr, fail, cancelled, interrupted, frontends, solveResult>>

-----------------------------------------------------------------------------
(* The displays *)

\* NewDisplay, twice; without a display the goroutine returns an error.
DisplayStart ==
  /\ display = "start"
  /\ \/ display' = "read" /\ UNCHANGED <<displayErr, cancelled>>
     \/ progress # "remote" /\ display' = "done" /\ displayErr' = TRUE /\ cancelled' = TRUE
  /\ UNCHANGED <<progress, solve, statuses, chClosed, dispatcher, ss, plainOpen, ttyOpen,
                 writer, traceErr, fail, interrupted, frontends, solveResult>>

WriterStart ==
  /\ writer = "start"
  /\ writer' \in {"read", "done"}
  /\ UNCHANGED <<progress, solve, statuses, chClosed, dispatcher, ss, plainOpen, ttyOpen,
                 display, traceErr, displayErr, fail, cancelled, interrupted, frontends, solveResult>>

\* UpdateFrom and deployDisplayer end with their channel; they have no other context.
DisplayEnds ==
  /\ display = "read"
  /\ IF progress = "tty" THEN ~ttyOpen ELSE ~plainOpen
  /\ display' = IF progress = "remote" THEN "send" ELSE "done"
  /\ UNCHANGED <<progress, solve, statuses, chClosed, dispatcher, ss, plainOpen, ttyOpen,
                 writer, traceErr, displayErr, fail, cancelled, interrupted, frontends, solveResult>>

\* commandFailChannel <- err, nil included.
DisplaySends ==
  /\ display = "send" /\ fail = "none"
  /\ fail' = IF traceErr THEN "command" ELSE "nil"
  /\ display' = "done"
  /\ displayErr' = traceErr /\ cancelled' = (cancelled \/ traceErr)
  /\ UNCHANGED <<progress, solve, statuses, chClosed, dispatcher, ss, plainOpen, ttyOpen,
                 writer, traceErr, interrupted, frontends, solveResult>>

WriterEnds ==
  /\ writer = "read" /\ ~plainOpen
  /\ writer' = "done"
  /\ UNCHANGED <<progress, solve, statuses, chClosed, dispatcher, ss, plainOpen, ttyOpen,
                 display, traceErr, displayErr, fail, cancelled, interrupted, frontends, solveResult>>

-----------------------------------------------------------------------------
\* Variant: the display's error is not an error of the group.
WaitIgnoresDisplay ==
  /\ solveResult = "none" /\ solve # "running" /\ dispatcher \in {"done", "left"} /\ display = "done"
  /\ solveResult' = IF solve = "ok" THEN "ok" ELSE IF fail \in {"none", "nil"} THEN "solve" ELSE fail
  /\ UNCHANGED <<progress, solve, statuses, chClosed, dispatcher, ss, plainOpen, ttyOpen,
                 display, writer, traceErr, displayErr, fail, cancelled, interrupted, frontends>>

\* eg.Wait(): all three goroutines; an error that waits in the channel is preferred
\* to the one of the group.
Wait ==
  /\ solveResult = "none" /\ solve # "running" /\ dispatcher \in {"done", "left"} /\ display = "done"
  /\ solveResult' = IF solve = "ok" /\ dispatcher = "done" /\ ~displayErr THEN "ok"
               ELSE IF fail \in {"frontend", "command"} THEN fail ELSE "solve"
  /\ UNCHANGED <<progress, solve, statuses, chClosed, dispatcher, ss, plainOpen, ttyOpen,
                 display, writer, traceErr, displayErr, fail, cancelled, interrupted, frontends>>

Dispatch == DispatchPlain \/ DispatchTty \/ DispatchError \/ DispatchClosed \/ DispatchCancelled
Display == DisplayStart \/ DisplayEnds \/ DisplaySends
Writer == WriterStart \/ WriterEnds

SolveNext == Status \/ SolveEnds \/ Interrupt \/ Dispatch \/ Display \/ Writer \/ Wait

SolveSpec == SolveInit /\ [][SolveNext]_solveVars

-----------------------------------------------------------------------------
(* Properties *)

SolveFlags ==
  /\ chClosed \in BOOLEAN /\ plainOpen \in BOOLEAN /\ ttyOpen \in BOOLEAN /\ traceErr \in BOOLEAN
  /\ displayErr \in BOOLEAN /\ cancelled \in BOOLEAN /\ interrupted \in BOOLEAN

SolveFields ==
  /\ progress \in {"tty", "plain", "remote"} /\ solve \in {"running", "ok", "err"}
  /\ statuses \in 0..MaxStatuses /\ ss \in Kinds
  /\ dispatcher \in {"select", "plain", "tty", "fail", "done", "left"}
  /\ display \in {"start", "read", "send", "done"} /\ writer \in {"start", "read", "done"}
  /\ fail \in {"none", "nil", "frontend", "command"} /\ frontends \in 0..MaxStatuses
  /\ solveResult \in {"none", "ok", "solve", "frontend", "command"}

SolveTypeOK == SolveFlags /\ SolveFields /\ (chClosed <=> solve # "running")

\* A build that returns without an error succeeded in BuildKit, and so did the
\* command it ran: the display's verdict on a remote deploy is not lost between
\* the goroutines.
SuccessIsReal == solveResult = "ok" => solve = "ok" /\ ~traceErr

\* When the remote command reported its error, the user gets that error, not the
\* generic one of BuildKit, whichever goroutine ends first.
CommandErrorWins == solveResult # "none" /\ traceErr => solveResult \in {"command", "frontend"}

\* No error of BuildKit or of the remote command is lost between the goroutines,
\* and the error of the remote command is the one the user gets.
SolveTellsTheTruth == SolveTypeOK /\ SuccessIsReal /\ CommandErrorWins

\* What the goroutines can rely on: a display for every channel, room for every error
\* in commandFailChannel, and a context that lives as long as the request.
Healthy ==
  /\ ~displayErr \/ progress = "remote"
  /\ progress = "tty" => writer # "done" \/ ~plainOpen
  /\ (dispatcher = "fail" \/ display = "send") => fail = "none"
  /\ ~interrupted

\* A request that ends well ends SolveBuild: every channel is closed in time for
\* everybody who reads it.  (After a failed request the dispatcher may prefer the
\* cancelled context to the closed channel, and the displays then wait for ever.)
SolveReturns == (solve = "ok" /\ Healthy) ~> (solveResult # "none" \/ ~Healthy)

-----------------------------------------------------------------------------
\* What makes SolveTellsTheTruth inductive.

\* The display of a remote command keeps its error, and has reported it, in both
\* ways, once it is done; nothing is read after that.
DisplayReports ==
  /\ traceErr => progress = "remote"
  /\ progress = "remote" /\ display \in {"start", "read", "send"} => ~displayErr
  /\ progress = "remote" /\ display = "done" => (displayErr <=> traceErr)
  /\ display = "done" /\ traceErr => fail = "command"

\* The end: everybody is done.  Only a status brings an error, and one is kept.
SolveIsOver ==
  /\ solveResult # "none" =>
       solve # "running" /\ dispatcher \in {"done", "left"} /\ display = "done"
  /\ dispatcher \in {"plain", "tty", "fail"} => statuses > 0
  /\ fail = "none" => frontends = 0

SolveIInv == SolveTellsTheTruth /\ DisplayReports /\ SolveIsOver
=============================================================================
