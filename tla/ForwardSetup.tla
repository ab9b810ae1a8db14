---------------------------- MODULE ForwardSetup ----------------------------
(***************************************************************************)
(* Which ports `okteto up` forwards (cmd/up/forwards.go, and canAdd, Add   *)
(* and AddReverse of pkg/ssh/manager.go): the loop that adds the forwards  *)
(* and reverses of the manifest to the manager of an activation, and the   *)
(* goroutine that adds the global forwards.  Ports of the machine come and *)
(* go, and the activation is repeated after a disconnection.               *)
(***************************************************************************)
EXTENDS Naturals, FiniteSets

CONSTANTS
  Forwards,        \* the forwards of the manifest: local port -> by labels
  Reverses,        \* the local ports of the reverses
  Globals,         \* the local ports of the global forwards
  LabelledGlobals, \* those of them that are given by labels
  Privileged,      \* the ports up to maxSystemPorts
  MaxActivations   \* bound on the activations

ASSUME ForwardsAssumption == Forwards \in [DOMAIN Forwards -> BOOLEAN]
ASSUME GlobalsAssumption == LabelledGlobals \subseteq Globals
ASSUME ActivationsAssumption == MaxActivations \in Nat \ {0}

VARIABLES
  activation,  \* the activations so far
  setupPc,     \* what the activation does
  adder,       \* the goroutine of the global forwards
  marked,      \* alreadyAdded
  todo,        \* the ports of this turn that are not visited yet
  turnErr,     \* forwardErr
  inManager,   \* the ports in the manager's map of forwards
  reversed,    \* those in its map of reverses
  globalForwards,   \* those in its map of global forwards
  isAdded,     \* the globals with IsAdded, in the manifest of the session
  started,     \* the global forwards that were started
  busy         \* the ports that another program uses

setupVars == <<activation, setupPc, adder, marked, todo, turnErr, inManager, reversed,
               globalForwards, isAdded, started, busy>>

Ports == DOMAIN Forwards \cup Reverses \cup Globals
ByLabels(p) == Forwards[p]

\* The maps of a new manager, and the first turn of addToForwarder.
NewManager ==
  /\ marked' = {} /\ todo' = DOMAIN Forwards /\ turnErr' = FALSE
  /\ inManager' = {} /\ reversed' = {} /\ globalForwards' = {} /\ started' = {}

SetupInit ==
  /\ activation = 1 /\ setupPc = "forwards" /\ adder = "off"
  /\ marked = {} /\ todo = DOMAIN Forwards /\ turnErr = FALSE
  /\ inManager = {} /\ reversed = {} /\ globalForwards = {} /\ isAdded = {} /\ started = {}
  /\ busy \in SUBSET Ports

\* Variant: the forwards are not looked at.
canAddForwarded(p, checkAvailable) ==
  p \notin reversed \cup globalForwards /\ (checkAvailable => p \notin busy)

\* canAdd: the port is not listed twice and, for a forward, is free.
canAdd(p, checkAvailable) ==
  p \notin inManager \cup reversed \cup globalForwards /\ (checkAvailable => p \notin busy)

\* The turn of addToForwarder for one forward.  A forward by labels is marked
\* as soon as its service is known.
AddForward(p) ==
  /\ setupPc = "forwards" /\ p \in todo
  /\ todo' = todo \ {p}
  /\ \/ p \in marked /\ UNCHANGED <<marked, inManager, turnErr>>
     \/ p \notin marked /\ ByLabels(p) /\ turnErr' = TRUE /\ UNCHANGED <<marked, inManager>>
     \/ /\ p \notin marked
        /\ IF canAdd(p, TRUE)
           THEN /\ inManager' = inManager \cup {p} /\ marked' = marked \cup {p} /\ UNCHANGED turnErr
           ELSE /\ turnErr' = TRUE /\ UNCHANGED inManager
                /\ marked' = IF ByLabels(p) THEN marked \cup {p} ELSE marked
  /\ UNCHANGED <<activation, setupPc, adder, reversed, globalForwards, isAdded, started, busy>>

\* The end of the forwards of a turn: the next turn, the reverses, or the
\* timeout.
ForwardsTurnEnds ==
  /\ setupPc = "forwards" /\ todo = {}
  /\ \/ ~turnErr /\ setupPc' = "reverses" /\ todo' = Reverses /\ UNCHANGED turnErr
     \/ turnErr /\ todo' = DOMAIN Forwards /\ turnErr' = FALSE /\ UNCHANGED setupPc
     \/ turnErr /\ setupPc' = "failed" /\ UNCHANGED <<todo, turnErr>>
  /\ UNCHANGED <<activation, adder, marked, inManager, reversed, globalForwards, isAdded, started, busy>>

AddReverse(p) ==
  /\ setupPc = "reverses" /\ p \in todo
  /\ todo' = todo \ {p}
  /\ IF p \in marked THEN UNCHANGED <<marked, reversed, turnErr>>
     ELSE IF canAdd(p, FALSE) THEN reversed' = reversed \cup {p} /\ marked' = marked \cup {p} /\ UNCHANGED turnErr
     ELSE turnErr' = TRUE /\ UNCHANGED <<marked, reversed>>
  /\ UNCHANGED <<activation, setupPc, adder, inManager, globalForwards, isAdded, started, busy>>

isNeededGlobalForwarder == Globals \ isAdded # {}

\* The reverses are added, the manager starts, and the goroutine of the global
\* forwards if it is needed.
StartForwarder ==
  /\ setupPc = "reverses" /\ todo = {}
  /\ \/ /\ ~turnErr /\ setupPc' = "running" /\ UNCHANGED <<todo, turnErr>>
        /\ adder' = IF isNeededGlobalForwarder THEN "on" ELSE "off"
     \/ turnErr /\ setupPc' = "forwards" /\ todo' = DOMAIN Forwards /\ turnErr' = FALSE /\ UNCHANGED adder
     \/ turnErr /\ setupPc' = "failed" /\ UNCHANGED <<todo, turnErr, adder>>
     \/ setupPc' = "failed" /\ UNCHANGED <<todo, turnErr, adder>>   \* Start fails
  /\ UNCHANGED <<activation, marked, inManager, reversed, globalForwards, isAdded, started, busy>>

\* A port that Add refuses with another error than ErrPortAlreadyAllocated.
IsRefused(p) == ~canAdd(p, FALSE) \/ (p \in Privileged /\ p \in busy)

\* A turn of setGlobalForwardsIfRequiredLoop visits the missing global forwards.  Each is
\* added, or left for the next turn if its port is taken, until one fails: then the
\* goroutine reports the error and ends, and what it has added is not started.
addGlobalForwards ==
  LET missing == Globals \ isAdded
  IN /\ setupPc = "running" /\ adder = "on"
     /\ \E visited \in SUBSET {p \in missing : ~IsRefused(p)} :
          LET new == {p \in visited : canAdd(p, TRUE)}
          IN /\ globalForwards' = globalForwards \cup new /\ isAdded' = isAdded \cup new
             /\ \/ /\ visited = missing /\ started' = globalForwards'
                   /\ adder' = IF Globals \ isAdded' = {} THEN "ended" ELSE "on"
                \/ /\ \E p \in missing \ visited : IsRefused(p) \/ p \in LabelledGlobals
                   /\ adder' = "failed" /\ UNCHANGED started
     /\ UNCHANGED <<activation, setupPc, marked, todo, turnErr, inManager, reversed, busy>>

\* A lost connection: the session activates again with a new manager.
Reconnect ==
  /\ setupPc = "running" /\ activation < MaxActivations
  /\ activation' = activation + 1 /\ setupPc' = "forwards" /\ adder' = "off"
  /\ NewManager
  /\ UNCHANGED <<isAdded, busy>>

TakePort(p) ==
  /\ p \notin inManager \cup globalForwards /\ busy' = (busy \ {p}) \cup ({p} \ busy)
  /\ UNCHANGED <<activation, setupPc, adder, marked, todo, turnErr, inManager, reversed, globalForwards,
                 isAdded, started>>

Ended == UNCHANGED setupVars

SetupNext ==
  \/ \E p \in Ports : AddForward(p) \/ AddReverse(p) \/ TakePort(p)
  \/ ForwardsTurnEnds \/ StartForwarder \/ addGlobalForwards \/ Reconnect \/ Ended

SetupSpec == SetupInit /\ [][SetupNext]_setupVars

-----------------------------------------------------------------------------
SetupTypeOK ==
  /\ activation \in 1..MaxActivations
  /\ setupPc \in {"forwards", "reverses", "running", "failed"} /\ adder \in {"off", "on", "ended", "failed"}
  /\ marked \subseteq Ports /\ todo \subseteq Ports /\ turnErr \in BOOLEAN
  /\ inManager \subseteq Ports /\ reversed \subseteq Ports /\ globalForwards \subseteq Globals
  /\ isAdded \subseteq Globals /\ started \subseteq Globals /\ busy \subseteq Ports

\* When the forwards are up every forward of the manifest is in the manager,
\* except one by labels whose port was taken when its service was found: it is
\* marked and never tried again (forwards.go:158).
ForwardsAreAdded ==
  setupPc = "running" => \A p \in DOMAIN Forwards : p \in inManager \/ ByLabels(p)

\* A reverse is missing only when a forward has its local port, which is not
\* reported (forwards.go:172).
ReversesAreAdded ==
  setupPc = "running" => \A p \in Reverses : p \in reversed \/ p \in DOMAIN Forwards

\* A global forward that counts as added is in the manager, until the session
\* reconnects: the new manager never gets it (forwards.go:235).
GlobalMissingOnlyAfterReconnect ==
  setupPc = "running" => isAdded \subseteq globalForwards \/ activation > 1

\* What is in the manager was started, unless the goroutine ended with an error: what it had
\* added before in that turn counts as added and was never started (forwards.go:206-212).
GlobalsAreStarted == adder # "failed" => globalForwards \subseteq started

\* No port is added twice: the maps of the manager stay disjoint.
NoPortTwice ==
  inManager \cap reversed = {} /\ globalForwards \cap (inManager \cup reversed) = {}

\* When the forwards of the manifest are up they are all in the manager, and its reverses;
\* a global forward that counts as added is started, until the session reconnects or the
\* goroutine of the global forwards fails; and no local port is used twice.
PortsAreServed ==
  /\ SetupTypeOK /\ ForwardsAreAdded /\ ReversesAreAdded
  /\ GlobalMissingOnlyAfterReconnect /\ GlobalsAreStarted /\ NoPortTwice

-----------------------------------------------------------------------------
\* What makes PortsAreServed inductive.

\* A turn visits the forwards.  One that was looked at in a turn without errors, and
\* every marked one, is in the manager or is one by labels.
Served(p) == p \in inManager \/ ByLabels(p)

ForwardsSoFar ==
  /\ setupPc = "forwards" => todo \subseteq DOMAIN Forwards
  /\ setupPc = "forwards" /\ ~turnErr => \A p \in DOMAIN Forwards \ todo : Served(p)
  /\ setupPc \in {"reverses", "running"} => \A p \in DOMAIN Forwards : Served(p)
  /\ \A p \in marked \cap DOMAIN Forwards : Served(p)

\* A port is marked because it is forwarded or because it is reversed.
ReversesSoFar ==
  /\ setupPc = "reverses" /\ ~turnErr =>
       \A p \in Reverses \ todo : p \in reversed \/ p \in DOMAIN Forwards
  /\ marked \subseteq DOMAIN Forwards \cup reversed

\* The flags of the globals and the manager agree in the first activation.  The goroutine
\* of the global forwards is one of a manager that was started.
GlobalsSoFar ==
  /\ activation = 1 => isAdded \subseteq globalForwards
  /\ adder # "off" => setupPc = "running"

SetupIInv ==
  SetupTypeOK /\ ForwardsSoFar /\ ReversesSoFar /\ ReversesAreAdded /\ GlobalsSoFar
  /\ GlobalsAreStarted /\ NoPortTwice
=============================================================================
