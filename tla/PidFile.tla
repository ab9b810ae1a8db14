------------------------------ MODULE PidFile ------------------------------
(***************************************************************************)
(* The pid file by which `okteto up' commands for the same development     *)
(* container hand over to each other (cmd/up/pid.go): each command writes  *)
(* its pid, watches the file, and leaves when another pid appears.         *)
(*                                                                         *)
(* A watch belongs to the file that existed when it was added: the kernel  *)
(* drops it when that file is removed, and create adds one only the first  *)
(* time.  Opening an existing file truncates it, which watchers see as a   *)
(* write, before the pid is written in a second step.                      *)
(***************************************************************************)
CONSTANTS Procs,   \* the okteto up commands, each identified by its pid
          NoFile,  \* the file does not exist
          Empty    \* the file is truncated and not written yet

\* The values of the pid file are told apart.
ASSUME PidFileValues == NoFile # Empty /\ NoFile \notin Procs /\ Empty \notin Procs

VARIABLES
  file,    \* content of the pid file
  writer,  \* the last command that wrote its pid to the file
  st,      \* st[p]: where start() of p is
  nt,      \* nt[p]: where notifyIfPIDFileChange of p is
  fd,      \* fd[p]: the file p opened in create is still the one at the path
  watch,   \* watch[p]: the watch of p is on the file at the path
  pendW,   \* pendW[p]: p has a write event to read
  pendR,   \* pendR[p]: p has a remove event to read (after the write)
  told     \* told[p]: the notifier reported another command

pidVars == <<file, writer, st, nt, fd, watch, pendW, pendR, told>>

PidInit ==
  /\ file = NoFile /\ writer = NoFile
  /\ st = [p \in Procs |-> "idle"]
  /\ nt = [p \in Procs |-> "off"]
  /\ fd = [p \in Procs |-> FALSE]
  /\ watch = [p \in Procs |-> FALSE]
  /\ pendW = [p \in Procs |-> FALSE]
  /\ pendR = [p \in Procs |-> FALSE]
  /\ told = [p \in Procs |-> FALSE]

PidTypeOK ==
  /\ file \in Procs \cup {NoFile, Empty} /\ writer \in Procs \cup {NoFile}
  /\ st \in [Procs -> {"idle", "open", "addWatch", "run", "remove", "exited"}]
  /\ nt \in [Procs -> {"off", "wait", "open", "stopped"}]
  /\ fd \in [Procs -> BOOLEAN] /\ watch \in [Procs -> BOOLEAN]
  /\ pendW \in [Procs -> BOOLEAN] /\ pendR \in [Procs -> BOOLEAN]
  /\ told \in [Procs -> BOOLEAN]
  /\ \A p \in Procs : watch[p] => st[p] = "run"

-----------------------------------------------------------------------------
(* File system (external) *)

\* filesystem.Create: a new file, or the old one truncated.
OpenTruncate(p) ==
  /\ file' = Empty
  /\ fd' = [fd EXCEPT ![p] = TRUE]
  /\ pendW' = [q \in Procs |-> pendW[q] \/ (watch[q] /\ file # NoFile)]

\* WriteString: seen at the path only if the opened file is still there.
WritePid(p) ==
  IF fd[p]
    THEN /\ file' = p /\ writer' = p
         /\ pendW' = [q \in Procs |-> pendW[q] \/ watch[q]]
    ELSE UNCHANGED <<file, writer, pendW>>

RemoveFile ==
  /\ file' = NoFile
  /\ fd' = [p \in Procs |-> FALSE]
  /\ pendR' = [p \in Procs |-> pendR[p] \/ watch[p]]
  /\ watch' = [p \in Procs |-> FALSE]

-----------------------------------------------------------------------------
(* start() *)

Start(p) ==
  /\ st[p] = "idle"
  /\ OpenTruncate(p)
  /\ st' = [st EXCEPT ![p] = "open"]
  /\ UNCHANGED <<writer, nt, watch, pendR, told>>

StartWrite(p) ==
  /\ st[p] = "open"
  /\ WritePid(p)
  /\ st' = [st EXCEPT ![p] = "addWatch"]
  /\ UNCHANGED <<nt, fd, watch, pendR, told>>

\* The watch cannot be added to a file that is gone: start() fails.
AddWatch(p) ==
  /\ st[p] = "addWatch"
  /\ IF file = NoFile
       THEN st' = [st EXCEPT ![p] = "exited"] /\ UNCHANGED <<nt, watch>>
       ELSE /\ st' = [st EXCEPT ![p] = "run"]
            /\ nt' = [nt EXCEPT ![p] = "wait"]
            /\ watch' = [watch EXCEPT ![p] = TRUE]
  /\ UNCHANGED <<file, writer, fd, pendW, pendR, told>>

\* start() returns, because it was told of another command, because the command
\* ended or was interrupted, or because a retry of the activation loop found
\* another pid: the deferred delete reads the file and closes the watcher.
Delete(p) ==
  /\ st[p] = "run"
  /\ st' = [st EXCEPT ![p] = IF file = p THEN "remove" ELSE "exited"]
  /\ watch' = [watch EXCEPT ![p] = FALSE]
  /\ pendW' = [pendW EXCEPT ![p] = FALSE]
  /\ pendR' = [pendR EXCEPT ![p] = FALSE]
  /\ UNCHANGED <<file, writer, nt, fd, told>>

\* delete removes what is at the path by then.
DeleteRemove(p) ==
  /\ st[p] = "remove"
  /\ IF file = NoFile
       THEN UNCHANGED <<file, fd, pendR, watch>>
       ELSE RemoveFile
  /\ st' = [st EXCEPT ![p] = "exited"]
  /\ UNCHANGED <<writer, nt, pendW, told>>

-----------------------------------------------------------------------------
(* notifyIfPIDFileChange *)

Notifying(p) == st[p] \in {"run", "remove"}

\* Variant: a read that fails counts as another pid.
NotifyWriteUnread(p) ==
  /\ Notifying(p) /\ nt[p] = "wait" /\ pendW[p]
  /\ pendW' = [pendW EXCEPT ![p] = FALSE]
  /\ IF file = p
       THEN UNCHANGED <<nt, told>>
       ELSE nt' = [nt EXCEPT ![p] = "stopped"] /\ told' = [told EXCEPT ![p] = TRUE]
  /\ UNCHANGED <<file, writer, st, fd, watch, pendR>>

NotifyWrite(p) ==
  /\ Notifying(p) /\ nt[p] = "wait" /\ pendW[p]
  /\ pendW' = [pendW EXCEPT ![p] = FALSE]
  /\ IF file \in {NoFile, p}
       THEN UNCHANGED <<nt, told>>
       ELSE nt' = [nt EXCEPT ![p] = "stopped"] /\ told' = [told EXCEPT ![p] = TRUE]
  /\ UNCHANGED <<file, writer, st, fd, watch, pendR>>

\* A removed file is created again, without a watch.
NotifyRemove(p) ==
  /\ Notifying(p) /\ nt[p] = "wait" /\ ~pendW[p] /\ pendR[p]
  /\ file' = Empty
  /\ fd' = [fd EXCEPT ![p] = TRUE]
  /\ pendW' = [q \in Procs |-> pendW[q] \/ (watch[q] /\ file # NoFile)]
  /\ pendR' = [pendR EXCEPT ![p] = FALSE]
  /\ nt' = [nt EXCEPT ![p] = "open"]
  /\ UNCHANGED <<writer, st, watch, told>>

RecreateWrite(p) ==
  /\ Notifying(p) /\ nt[p] = "open"
  /\ WritePid(p)
  /\ nt' = [nt EXCEPT ![p] = "wait"]
  /\ UNCHANGED <<st, fd, watch, pendR, told>>

-----------------------------------------------------------------------------
Notifier(p) == NotifyWrite(p) \/ NotifyRemove(p) \/ RecreateWrite(p)

PidNext == \E p \in Procs :
  \/ Start(p) \/ StartWrite(p) \/ AddWatch(p)
  \/ Delete(p) \/ DeleteRemove(p)
  \/ Notifier(p)

PidSpec == PidInit /\ [][PidNext]_pidVars

\* Steps in progress are finished; a command that was told leaves.  Nothing
\* obliges a command to start or to end.
PidProgress(p) ==
  \/ StartWrite(p) \/ AddWatch(p) \/ DeleteRemove(p) \/ Notifier(p)
  \/ (told[p] /\ Delete(p))

-----------------------------------------------------------------------------
(* Properties *)

Opening(q) == st[q] = "open" \/ nt[q] = "open"

\* A command is told to leave only when another one has written the file after
\* it, or is in the middle of writing it: opening, truncating, removing and
\* recreating the file in any order never makes its owner leave when nobody
\* takes over (pid.go:168-186).
NoFalseTakeover == [][
  \A p \in Procs : ~told[p] /\ told'[p] =>
    writer # p \/ \E q \in Procs \ {p} : Opening(q)]_pidVars

\* The file is empty only because a command that opened it has its pid still to
\* write, or ended before it could: no order of creates and removes loses the pid
\* that was written last (pid.go:73-89 and 147-157).
EmptyIsUnfinished ==
  file = Empty => \E q \in Procs : Opening(q) /\ fd[q]

\* The two together: who leaves, leaves to somebody.
PidFileHandsOver == [](PidTypeOK /\ EmptyIsUnfinished) /\ NoFalseTakeover

\* A command that is watching while another is between opening the file and
\* writing its pid is told, unless it ends first or the file is removed
\* (pid.go:168-186).
TakeoverIsSeen ==
  \A p, q \in Procs : p # q =>
    (st[p] = "run" /\ watch[p] /\ st[q] = "open" /\ fd[q])
      ~> (told[p] \/ st[p] # "run" \/ ~watch[p])

-----------------------------------------------------------------------------
(* What the two rest on                                                       *)

\* A pid in the file is that of the last writer.
FileIsWriters == file \in Procs => writer = file

\* The notifier of a command starts when start() has set everything up.
NotifierFollows == \A p \in Procs : st[p] \in {"idle", "open", "addWatch"} => nt[p] = "off"

PidIInv == PidTypeOK /\ EmptyIsUnfinished /\ FileIsWriters /\ NotifierFollows
=============================================================================
