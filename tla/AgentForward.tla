---------------------------- MODULE AgentForward ----------------------------
(***************************************************************************)
(* The forwarder of a remote command's SSH agent (cmd/remoterun/ssh.go):   *)
(* it listens on a socket of the container, and joins each connection to   *)
(* the agent of the user once that has acknowledged the user's token.      *)
(*                                                                         *)
(* A connection has two goroutines that copy bytes, and one that waits for *)
(* the context.  The client and the agent are external: the client asks    *)
(* one question and the agent answers it, and either may close.            *)
(***************************************************************************)
CONSTANT Conns   \* the connections that clients make

VARIABLES
  agentCancelled,  \* the context of the remote command is done
  loop,       \* startSshForwarder
  listener,   \* its listener: "none", "open", "closed"
  handler,    \* handler[c]: where handleConnection is
  localOpen,  \* localOpen[c]: the connection of the client is open on this side
  remoteOpen, \* remoteOpen[c]: and so is the one to the agent
  deadline,   \* deadline[c]: reads and writes of the remote connection time out
  copying,    \* copying[c][d]: the goroutine that copies in direction d
  watching,   \* watching[c]: the goroutine that waits for the context
  ack,        \* ack[c]: what the agent acknowledged
  bytes,      \* bytes[c]: how far the question and its answer have come
  gone        \* gone[c]: the peers that closed their end

agentVars == <<agentCancelled, loop, listener, handler, localOpen, remoteOpen, deadline, copying, watching,
               ack, bytes, gone>>

Directions == {"up", "down"}
Handlers == {"none", "dial", "send token", "read ack", "copy", "done"}
BytesProgress == {"none", "asked", "forwarded", "answered", "delivered"}

AgentInit ==
  /\ agentCancelled = FALSE /\ loop = "listen" /\ listener = "none"
  /\ handler = [c \in Conns |-> "none"]
  /\ localOpen = [c \in Conns |-> FALSE] /\ remoteOpen = [c \in Conns |-> FALSE]
  /\ deadline = [c \in Conns |-> FALSE]
  /\ copying = [c \in Conns |-> [d \in Directions |-> "none"]]
  /\ watching = [c \in Conns |-> "none"]
  /\ ack = [c \in Conns |-> "none"] /\ bytes = [c \in Conns |-> "none"]
  /\ gone = [c \in Conns |-> {}]

AgentTypeOK ==
  /\ agentCancelled \in BOOLEAN /\ loop \in {"listen", "chmod", "accept", "ended"}
  /\ listener \in {"none", "open", "closed"}
  /\ handler \in [Conns -> Handlers]
  /\ localOpen \in [Conns -> BOOLEAN] /\ remoteOpen \in [Conns -> BOOLEAN]
  /\ deadline \in [Conns -> BOOLEAN]
  /\ copying \in [Conns -> [Directions -> {"none", "copying", "close", "ended"}]]
  /\ watching \in [Conns -> {"none", "waiting", "ended"}]
  /\ ack \in [Conns -> {"none", "OK", "other"}] /\ bytes \in [Conns -> BytesProgress]
  /\ gone \in [Conns -> SUBSET {"client", "agent"}]

ofConnections == <<handler, localOpen, remoteOpen, deadline, copying, watching, ack, bytes, gone>>

-----------------------------------------------------------------------------
(* startSshForwarder *)

\* The socket of an earlier command is removed first.
Listen ==
  /\ loop = "listen"
  /\ \/ loop' = "chmod" /\ listener' = "open"
     \/ loop' = "ended" /\ UNCHANGED listener
  /\ UNCHANGED <<agentCancelled, ofConnections>>

\* A socket that others could use is not served: the deferred Close runs.
Chmod ==
  /\ loop = "chmod"
  /\ \/ loop' = "accept" /\ UNCHANGED listener
     \/ loop' = "ended" /\ listener' = "closed"
  /\ UNCHANGED <<agentCancelled, ofConnections>>

\* The goroutine that closes the listener; it is started after chmod.
CloseListener ==
  /\ agentCancelled /\ loop = "accept" /\ listener = "open" /\ listener' = "closed"
  /\ UNCHANGED <<agentCancelled, loop, ofConnections>>

Accept(c) ==
  /\ loop = "accept" /\ listener = "open" /\ handler[c] = "none"
  /\ handler' = [handler EXCEPT ![c] = "dial"] /\ localOpen' = [localOpen EXCEPT ![c] = TRUE]
  /\ UNCHANGED <<agentCancelled, loop, listener, remoteOpen, deadline, copying, watching, ack, bytes, gone>>

\* Any other error of Accept is logged and the loop goes on: a step that changes
\* nothing.
AcceptClosed ==
  /\ loop = "accept" /\ listener = "closed" /\ loop' = "ended"
  /\ UNCHANGED <<agentCancelled, listener, ofConnections>>

-----------------------------------------------------------------------------
(* handleConnection *)

ofListener == <<agentCancelled, loop, listener>>

\* Whatever the way out, the deferred functions close what is open.
HandlerReturns(c) ==
  /\ handler' = [handler EXCEPT ![c] = "done"]
  /\ localOpen' = [localOpen EXCEPT ![c] = FALSE] /\ remoteOpen' = [remoteOpen EXCEPT ![c] = FALSE]

Dial(c) ==
  /\ handler[c] = "dial"
  /\ \/ /\ handler' = [handler EXCEPT ![c] = "send token"]
        /\ remoteOpen' = [remoteOpen EXCEPT ![c] = TRUE] /\ UNCHANGED localOpen
     \/ HandlerReturns(c)
  /\ UNCHANGED <<ofListener, deadline, copying, watching, ack, bytes, gone>>

\* The deadlines are set before the token is written and before the answer is read.
SendToken(c) ==
  /\ handler[c] = "send token"
  /\ \/ /\ "agent" \notin gone[c] /\ handler' = [handler EXCEPT ![c] = "read ack"]
        /\ deadline' = [deadline EXCEPT ![c] = TRUE] /\ UNCHANGED <<localOpen, remoteOpen>>
     \/ HandlerReturns(c) /\ UNCHANGED deadline
  /\ UNCHANGED <<ofListener, copying, watching, ack, bytes, gone>>

\* Both copies and the goroutine of the context start.
StartCopies(c) ==
  /\ handler' = [handler EXCEPT ![c] = "copy"]
  /\ copying' = [copying EXCEPT ![c] = [d \in Directions |-> "copying"]]
  /\ watching' = [watching EXCEPT ![c] = "waiting"]

\* The line has to say OK; a line that does not come in time, or something else, ends
\* the connection.
ReadAck(c) ==
  /\ handler[c] = "read ack"
  /\ \/ /\ "agent" \notin gone[c] /\ ack' = [ack EXCEPT ![c] = "OK"]
        /\ deadline' = [deadline EXCEPT ![c] = FALSE] /\ StartCopies(c)
        /\ UNCHANGED <<localOpen, remoteOpen>>
     \/ /\ ack' \in {ack, [ack EXCEPT ![c] = "other"]} /\ HandlerReturns(c)
        /\ UNCHANGED <<deadline, copying, watching>>
  /\ UNCHANGED <<ofListener, bytes, gone>>

\* io.Copy takes what there is to read and writes it to the other side.
CopyMoves(c, d) ==
  /\ copying[c][d] = "copying" /\ localOpen[c] /\ remoteOpen[c]
  /\ \/ d = "up" /\ bytes[c] = "asked" /\ "agent" \notin gone[c] /\ bytes' = [bytes EXCEPT ![c] = "forwarded"]
     \/ d = "down" /\ bytes[c] = "answered" /\ "client" \notin gone[c]
        /\ bytes' = [bytes EXCEPT ![c] = "delivered"]
  /\ UNCHANGED <<ofListener, handler, localOpen, remoteOpen, deadline, copying, watching, ack, gone>>

\* What a direction has to read before it sees the end of the stream.
Pending(c, d) == bytes[c] = (IF d = "up" THEN "asked" ELSE "answered")
ReadOpen(c, d) == IF d = "up" THEN localOpen[c] ELSE remoteOpen[c]
WriteOpen(c, d) == IF d = "up" THEN remoteOpen[c] ELSE localOpen[c]
Reader(d) == IF d = "up" THEN "client" ELSE "agent"
Writer(d) == IF d = "up" THEN "agent" ELSE "client"

\* It ends at the end of what it reads, when that connection was closed on this side,
\* when what it has read cannot be written, or when a deadline passes: a copy that
\* waits for bytes does not notice that the other connection is closed.
CopyEnds(c, d) ==
  /\ copying[c][d] = "copying"
  /\ \/ Reader(d) \in gone[c] /\ ~Pending(c, d)
     \/ ~ReadOpen(c, d)
     \/ Pending(c, d) /\ (Writer(d) \in gone[c] \/ ~WriteOpen(c, d))
     \/ deadline[c] /\ (d = "down" \/ Pending(c, d))
  /\ copying' = [copying EXCEPT ![c][d] = "close"]
  /\ UNCHANGED <<ofListener, handler, localOpen, remoteOpen, deadline, watching, ack, bytes, gone>>

\* Variant: each copy closes the connection it has read from.
CopyClosesItsOwn(c, d) ==
  /\ copying[c][d] = "close"
  /\ IF d = "up" THEN localOpen' = [localOpen EXCEPT ![c] = FALSE] /\ UNCHANGED remoteOpen
                 ELSE remoteOpen' = [remoteOpen EXCEPT ![c] = FALSE] /\ UNCHANGED localOpen
  /\ copying' = [copying EXCEPT ![c][d] = "ended"]
  /\ UNCHANGED <<ofListener, handler, deadline, watching, ack, bytes, gone>>

\* Then it closes the connection that it wrote to, which unblocks the other copy.
CopyCloses(c, d) ==
  /\ copying[c][d] = "close"
  /\ IF d = "up" THEN remoteOpen' = [remoteOpen EXCEPT ![c] = FALSE] /\ UNCHANGED localOpen
                 ELSE localOpen' = [localOpen EXCEPT ![c] = FALSE] /\ UNCHANGED remoteOpen
  /\ copying' = [copying EXCEPT ![c][d] = "ended"]
  /\ UNCHANGED <<ofListener, handler, deadline, watching, ack, bytes, gone>>

\* The goroutine of the context outlives the handler.
WatcherCloses(c) ==
  /\ watching[c] = "waiting" /\ agentCancelled
  /\ localOpen' = [localOpen EXCEPT ![c] = FALSE] /\ remoteOpen' = [remoteOpen EXCEPT ![c] = FALSE]
  /\ watching' = [watching EXCEPT ![c] = "ended"]
  /\ UNCHANGED <<ofListener, handler, deadline, copying, ack, bytes, gone>>

\* Variant: the first copy to end ends the handler.
WaitReturnsEarly(c) ==
  /\ handler[c] = "copy" /\ \E d \in Directions : copying[c][d] = "ended"
  /\ HandlerReturns(c)
  /\ UNCHANGED <<ofListener, deadline, copying, watching, ack, bytes, gone>>

\* eg.Wait returns, and the deferred functions run.
WaitReturns(c) ==
  /\ handler[c] = "copy" /\ \A d \in Directions : copying[c][d] = "ended"
  /\ HandlerReturns(c)
  /\ UNCHANGED <<ofListener, deadline, copying, watching, ack, bytes, gone>>

-----------------------------------------------------------------------------
(* The context and the peers. *)

Cancel ==
  /\ ~agentCancelled /\ agentCancelled' = TRUE /\ UNCHANGED <<loop, listener, ofConnections>>

\* The client writes its question as soon as it is connected.
Ask(c) ==
  /\ handler[c] # "none" /\ bytes[c] = "none" /\ "client" \notin gone[c] /\ localOpen[c]
  /\ bytes' = [bytes EXCEPT ![c] = "asked"]
  /\ UNCHANGED <<ofListener, handler, localOpen, remoteOpen, deadline, copying, watching, ack, gone>>

Answer(c) ==
  /\ bytes[c] = "forwarded" /\ "agent" \notin gone[c] /\ remoteOpen[c]
  /\ bytes' = [bytes EXCEPT ![c] = "answered"]
  /\ UNCHANGED <<ofListener, handler, localOpen, remoteOpen, deadline, copying, watching, ack, gone>>

PeerCloses(c, p) ==
  /\ p = "client" => handler[c] # "none"
  /\ p = "agent" => remoteOpen[c]
  /\ p \notin gone[c] /\ gone' = [gone EXCEPT ![c] = @ \cup {p}]
  /\ UNCHANGED <<ofListener, handler, localOpen, remoteOpen, deadline, copying, watching, ack, bytes>>

Loop == Listen \/ Chmod \/ AcceptClosed
HandlerSteps(c) == Dial(c) \/ SendToken(c) \/ ReadAck(c) \/ WaitReturns(c)
CopySteps(c, d) == CopyMoves(c, d) \/ CopyEnds(c, d) \/ CopyCloses(c, d)

AgentNext ==
  \/ Loop \/ CloseListener \/ Cancel
  \/ \E c \in Conns :
       \/ Accept(c) \/ HandlerSteps(c) \/ WatcherCloses(c)
       \/ \E d \in Directions : CopySteps(c, d)
       \/ Ask(c) \/ Answer(c) \/ \E p \in {"client", "agent"} : PeerCloses(c, p)

AgentSpec == AgentInit /\ [][AgentNext]_agentVars

-----------------------------------------------------------------------------
(* Properties *)

\* Nothing that a client writes reaches the agent before the agent has accepted the
\* user's token (ssh.go:148-204): the goroutines that copy start after the line.
AcknowledgedFirst ==
  \A c \in Conns : bytes[c] \in {"forwarded", "answered", "delivered"} => ack[c] = "OK"

\* A handler that has ended leaves neither connection open and no copy running, on
\* every way out (ssh.go:110, 127 and 204); its goroutine of the context is the only thing
\* left, until the command ends.
HandlerLeavesNothing ==
  \A c \in Conns : handler[c] = "done" =>
    /\ ~localOpen[c] /\ ~remoteOpen[c]
    /\ \A d \in Directions : copying[c][d] \in {"none", "ended"}

\* The two together: no connection is forwarded unaccepted, and none is forgotten.
AgentForwards == AgentTypeOK /\ AcknowledgedFirst /\ HandlerLeavesNothing

\* When either peer closes or the command ends, the handler of a connection ends
\* (ssh.go:172-202): each copy unblocks the other.
EitherSideEndsTheHandler ==
  \A c \in Conns : (handler[c] # "none" /\ (gone[c] # {} \/ agentCancelled)) ~> (handler[c] = "done")

\* The agent's answer gets to the client however long the question took, unless the
\* client has closed or the command ended (ssh.go:162-170 clear the deadlines).
AnswerIsDelivered ==
  \A c \in Conns : bytes[c] = "answered" ~> (bytes[c] = "delivered" \/ "client" \in gone[c] \/ agentCancelled)

-----------------------------------------------------------------------------
(* What the first two rest on *)

\* Where the connections, the copies, the acknowledgment and the bytes of c can be,
\* given where its handler is.
Sound(c) ==
  /\ handler[c] \in {"none", "dial", "send token", "read ack"} =>
       bytes[c] \in {"none", "asked"} /\ \A d \in Directions : copying[c][d] = "none"
  /\ handler[c] = "copy" \/ bytes[c] \in {"forwarded", "answered", "delivered"} => ack[c] = "OK"
  /\ handler[c] = "done" => ~localOpen[c] /\ ~remoteOpen[c]
  /\ \A d \in Directions : copying[c][d] \in {"copying", "close"} => handler[c] = "copy"

AgentIInv == AgentTypeOK /\ \A c \in Conns : Sound(c)
=============================================================================
