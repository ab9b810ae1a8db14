------------------------------ MODULE Contexts -------------------------------
(***************************************************************************)
(* The contexts of the CLI.  Commands that run at the same time share the  *)
(* file of contexts: each reads it once, changes its own copy in memory    *)
(* and may write the whole copy back.  A write first empties the file.     *)
(* The cluster's answers are external.                                     *)
(***************************************************************************)
EXTENDS Integers

CONSTANTS
  Commands,     \* the commands that run at the same time
  Requests,     \* what each of them may be asked for
  Retries,      \* how often a failing request for the user is repeated
  MaxKills,     \* bound: commands that are killed
  Spaces,       \* the namespaces of the clusters
  AllowedSpaces \* those that the user has access to, but his own

VARIABLES
  store,    \* the file of contexts
  commands, \* the running commands
  writer,   \* the command that wrote the file last
  kills     \* how many commands were killed

contextVars == <<store, commands, writer, kills>>

NoName == "none"              \* a name that is not given, or not known
Clusters == {"A", "B"}        \* the addresses of Okteto clusters
Kubernetes == {"K", "A_k"}    \* contexts of the kubeconfig; "A_k" is that of cluster "A"
Names == Clusters \cup Kubernetes
Personal == "me"

\* A token is of the cluster that gave it.
NoToken == [of |-> NoName, made |-> NoName]
Token(c, made) == [of |-> c, made |-> made]
Tokens == [of : Clusters, made : {"old", "new", "given"}] \cup {NoToken}

\* The entry of a context, of one that is created and of one that there is not.
Entries == [known : BOOLEAN, token : Tokens, ns : Spaces \cup {NoName}, user : {NoName, "u"}, okteto : BOOLEAN]
OktetoEntry(token, ns, user) == [known |-> TRUE, token |-> token, ns |-> ns, user |-> user, okteto |-> TRUE]
NewEntry == [known |-> TRUE, token |-> NoToken, ns |-> NoName, user |-> NoName, okteto |-> FALSE]
NoEntry == [NewEntry EXCEPT !.known = FALSE]

NoContexts == [c \in Names |-> NoEntry]
StoreOf(current, contexts) == [is |-> "store", current |-> current, contexts |-> contexts]
Missing == [is |-> "missing", current |-> NoName, contexts |-> NoContexts]
Truncated == [is |-> "truncated", current |-> NoName, contexts |-> NoContexts]
Stores == [is : {"store"}, current : Names \cup {NoName}, contexts : [Names -> Entries]]

\* What a command is asked for. "use" and "namespace" save their choice, "run" is
\* any other command, "stateless" one that then reads the file again. A token is
\* given together with the cluster it is of.
Request(kind, context, ns, token) == [kind |-> kind, context |-> context, ns |-> ns, token |-> token]
AllRequests ==
  {r \in [kind : {"use", "namespace", "run", "stateless", "delete"}, context : Names \cup {NoName},
          ns : Spaces \cup {NoName}, token : Tokens] :
     /\ r.token # NoToken => r.token.of = r.context
     /\ r.kind = "delete" => r.context # NoName}

\* The bounds are numbers, nobody is no command, and what is asked for makes sense.
ASSUME ContextsAssumption ==
  /\ Retries \in Nat /\ MaxKills \in Nat
  /\ "nobody" \notin Commands
  /\ \A p \in Commands : Requests[p] \subseteq AllRequests
  /\ AllowedSpaces \cup {Personal, "default", "n"} \subseteq Spaces /\ NoName \notin Spaces

NewCommand ==
  [pc |-> "start", request |-> Request(NoName, NoName, NoName, NoToken), context |-> NoName, ns |-> NoName,
   token |-> NoToken, save |-> FALSE, okteto |-> FALSE, tries |-> 0, again |-> FALSE, forbidden |-> FALSE,
   memory |-> StoreOf(NoName, NoContexts), loaded |-> StoreOf(NoName, NoContexts), fresh |-> FALSE,
   next |-> NoName, result |-> [token |-> NoToken, ns |-> NoName]]

\* No file, one with a current context, one whose current context was deleted, and
\* one of an old version that did not know the user.
KnownStore(current, known, user) ==
  StoreOf(current, [c \in Names |-> IF c \in known THEN OktetoEntry(Token(c, "old"), "n", user) ELSE NoEntry])
InitialStores ==
  {Missing, KnownStore("A", Clusters, "u"), KnownStore(NoName, {"B"}, "u"), KnownStore("A", {"A"}, NoName)}

ContextsInit ==
  /\ store \in InitialStores
  /\ commands = [p \in Commands |-> NewCommand]
  /\ writer = "nobody"
  /\ kills = 0

-----------------------------------------------------------------------------
(* Choosing a context in memory.                                             *)

IsCtxCommand(request) == request.kind \in {"use", "namespace"}

\* The context that is asked for: a flag, or the current one; the selector offers
\* the known clusters, the Kubernetes contexts and a new address.
AskedContexts(request, memory) ==
  IF request.context # NoName THEN {request.context}
  ELSE IF request.kind = "namespace" THEN {memory.current}
  ELSE IF ~IsCtxCommand(request) /\ memory.current # NoName THEN {memory.current}
  ELSE Clusters \cup {"K"}
IsAsked(request, memory) ==
  request.context = NoName /\ (request.kind = "use" \/ (request.kind # "namespace" /\ memory.current = NoName))

IsKnown(memory, c) == c \in Names /\ memory.contexts[c].known

\* The current context and one entry of a store are set.
Put(memory, current, c, entry) == StoreOf(current, [memory.contexts EXCEPT ![c] = entry])

\* The address of the cluster of a Kubernetes context: that of a known context,
\* or the one on its namespace, if the namespace can be read.
K8sContextToOktetoUrl(memory, c) ==
  IF c # "A_k" THEN {c}
  ELSE IF IsKnown(memory, "A") /\ memory.contexts["A"].okteto THEN {"A"}
  ELSE {"A", "A_k"}

\* Run and UseContext up to their first request: the entry is created, the token
\* and the namespace that are not given are those of the entry, and the context
\* becomes the current one in memory.
TokenOfCurrent(request, memory, c) ==
  IF request.token = NoToken /\ IsKnown(memory, memory.current)
  THEN memory.contexts[memory.current].token ELSE request.token
TokenOf(request, memory, c) ==
  IF request.token = NoToken /\ IsKnown(memory, c) THEN memory.contexts[c].token ELSE request.token
NamespaceOf(request, memory, c) ==
  IF /\ request.ns = NoName /\ IsKnown(memory, c)
     /\ request.token = NoToken \/ ~IsCtxCommand(request)
  THEN memory.contexts[c].ns ELSE request.ns
UseContext(command, memory, c) ==
  LET entry == IF IsKnown(memory, c) THEN memory.contexts[c] ELSE NewEntry
  IN [command EXCEPT !.pc = IF c \in Clusters THEN "login" ELSE "kubernetes",
                     !.context = c, !.okteto = c \in Clusters, !.token = TokenOf(command.request, memory, c),
                     !.ns = NamespaceOf(command.request, memory, c), !.loaded = memory, !.fresh = TRUE,
                     !.memory = Put(memory, c, c, entry),
                     !.save = \/ IsCtxCommand(command.request) \/ memory.contexts = NoContexts
                              \/ IsAsked(command.request, memory)]

\* A command ends, and its memory with it.
Ended(command, pc) ==
  [command EXCEPT !.pc = pc, !.memory = StoreOf(NoName, NoContexts), !.ns = NoName, !.token = NoToken, !.tries = 0]
Fail(command) == Ended(command, "failed")
Fatal(command) == Ended(command, "fatal")

\* delete removes contexts from memory and writes after each; the current one is
\* no longer chosen.
Delete(command, memory) ==
  LET c == command.request.context
      left == Put(memory, IF memory.current = c THEN NoName ELSE memory.current, c, NoEntry)
  IN IF ~IsKnown(memory, c) THEN Fail(command)
     ELSE [command EXCEPT !.pc = "truncate", !.next = "done", !.context = c, !.memory = left,
                          !.loaded = memory, !.fresh = TRUE]

\* A command starts: it reads the file, and ends at once when the file is not a
\* whole store.
Start(p) ==
  /\ commands[p].pc = "start"
  /\ \E request \in Requests[p] :
       LET command == [commands[p] EXCEPT !.request = request]
           memory == IF store = Missing THEN StoreOf(NoName, NoContexts) ELSE store
       IN IF store = Truncated THEN commands' = [commands EXCEPT ![p] = Fatal(command)]
          ELSE IF request.kind = "delete" THEN commands' = [commands EXCEPT ![p] = Delete(command, memory)]
          ELSE IF request.kind = "namespace" /\ (memory.current = NoName \/ ~memory.contexts[memory.current].okteto)
          THEN commands' = [commands EXCEPT ![p] = Fatal(command)]
          ELSE \E asked \in AskedContexts(request, memory) : \E c \in K8sContextToOktetoUrl(memory, asked) :
                 commands' = [commands EXCEPT ![p] = UseContext(command, memory, c)]
  /\ UNCHANGED <<store, writer, kills>>

-----------------------------------------------------------------------------
(* Asking the cluster.                                                       *)

ChosenEntry(command) == command.memory.contexts[command.context]
PutChosen(command, entry) == Put(command.memory, command.context, command.context, entry)

\* A command without a token logs in with the browser.
LoggedIn(command) ==
  LET token == IF command.token = NoToken THEN Token(command.context, "new") ELSE command.token
  IN [command EXCEPT !.pc = "user", !.tries = 0, !.token = token,
                     !.ns = IF @ = NoName /\ command.token = NoToken THEN Personal ELSE @,
                     !.memory = PutChosen(command, [ChosenEntry(command) EXCEPT !.token = token])]
AuthenticateToOktetoCluster(p) ==
  /\ commands[p].pc = "login"
  /\ \/ commands' = [commands EXCEPT ![p] = LoggedIn(commands[p])]
     \/ commands[p].token = NoToken /\ commands' = [commands EXCEPT ![p] = Fail(commands[p])]
  /\ UNCHANGED <<store, writer, kills>>

\* A token that the cluster does not take: a context command logs in once more.
NotLogged(command) ==
  IF IsCtxCommand(command.request) /\ ~command.again
  THEN [command EXCEPT !.pc = "login", !.token = NoToken, !.again = TRUE] ELSE Fail(command)

\* The user and the credentials are asked for: a failure that may pass is
\* repeated; a forbidden token has the store in memory written, and so has a
\* stored context without the id of its user.
UserIsKnown(command) ==
  IF ChosenEntry(command).user = NoName /\ ChosenEntry(command).okteto
  THEN [command EXCEPT !.pc = "truncate", !.next = "metadata",
                       !.memory = PutChosen(command, [ChosenEntry(command) EXCEPT !.user = "u"])]
  ELSE [command EXCEPT !.pc = "metadata"]
Answered(command, reply) ==
  CASE reply = "ok" -> UserIsKnown(command)
    [] reply = "not logged" -> NotLogged(command)
    [] reply = "forbidden" -> [command EXCEPT !.pc = "truncate", !.next = "not logged", !.forbidden = TRUE]
    [] reply = "failed" -> IF command.tries < Retries THEN [command EXCEPT !.tries = @ + 1] ELSE Fail(command)
    [] reply = "refused" -> Fail(command)
getUserContext(p) ==
  /\ commands[p].pc = "user"
  /\ \E reply \in {"ok", "not logged", "forbidden", "refused", "failed"} :
       commands' = [commands EXCEPT ![p] = Answered(commands[p], reply)]
  /\ UNCHANGED <<store, writer, kills>>

\* The rest of the context is asked for and put into memory; a failed request and
\* a version of the CLI that the cluster refuses end the command.
AddOktetoContext(command) ==
  LET ns == IF command.ns = NoName THEN Personal ELSE command.ns IN
  [command EXCEPT !.pc = IF command.save THEN "access" ELSE "end", !.ns = ns,
                  !.memory = PutChosen(command, OktetoEntry(command.token, ns, "u"))]
initOktetoContext(p) ==
  /\ commands[p].pc = "metadata"
  /\ \E done \in {Fail(commands[p]), AddOktetoContext(commands[p])} : commands' = [commands EXCEPT ![p] = done]
  /\ UNCHANGED <<store, writer, kills>>

\* A Kubernetes context needs its entry in the kubeconfig; the entry of the store
\* is replaced.
AddKubernetesContext(command) ==
  LET ns == IF command.ns = NoName THEN "default" ELSE command.ns IN
  [command EXCEPT !.pc = IF command.save THEN "access" ELSE "end", !.ns = ns,
                  !.memory = PutChosen(command, [NewEntry EXCEPT !.ns = ns])]
initKubernetesContext(p) ==
  /\ commands[p].pc = "kubernetes"
  /\ \E done \in {Fail(commands[p]), AddKubernetesContext(commands[p])} : commands' = [commands EXCEPT ![p] = done]
  /\ UNCHANGED <<store, writer, kills>>

\* A choice is saved when its namespace can be reached; otherwise the personal
\* one is, or the command fails.
Save(command) ==
  IF command.ns \in AllowedSpaces \cup {Personal} THEN [command EXCEPT !.pc = "truncate", !.next = "end"]
  ELSE IF command.request.kind = "namespace" \/ ~command.okteto THEN Fail(command)
  ELSE [command EXCEPT !.pc = "truncate", !.next = "end",
                            !.memory = PutChosen(command, [ChosenEntry(command) EXCEPT !.ns = Personal])]
hasAccessToNamespace(p) ==
  /\ commands[p].pc = "access"
  /\ \E failed \in BOOLEAN :
       commands' = [commands EXCEPT ![p] = IF failed THEN Fail(commands[p]) ELSE Save(commands[p])]
  /\ UNCHANGED <<store, writer, kills>>

-----------------------------------------------------------------------------
(* Writing and reading the file.                                             *)

\* The file is emptied first.
Truncate(p) ==
  /\ commands[p].pc = "truncate"
  /\ store' = Truncated
  /\ commands' = [q \in Commands |->
                    IF q = p THEN [commands[q] EXCEPT !.pc = "write"] ELSE [commands[q] EXCEPT !.fresh = FALSE]]
  /\ UNCHANGED <<writer, kills>>

Write(p) ==
  /\ commands[p].pc = "write"
  /\ store' = commands[p].memory
  /\ writer' = p
  /\ commands' = [q \in Commands |->
                    IF q # p THEN [commands[q] EXCEPT !.fresh = FALSE]
                    ELSE IF commands[p].next = "not logged" THEN NotLogged(commands[p])
                    ELSE [commands[p] EXCEPT !.pc = commands[p].next]]
  /\ UNCHANGED kills

\* A stateless command reads the file again, for the contexts that are in it, and
\* puts what it uses itself in the place of the current one.
ResultOf(command) ==
  [token |-> ChosenEntry(command).token, ns |-> ChosenEntry(command).ns]
End(p) ==
  /\ commands[p].pc = "end"
  /\ commands' = [commands EXCEPT ![p] =
       IF commands[p].request.kind # "stateless" THEN [commands[p] EXCEPT !.pc = "done"]
       ELSE IF store \in {Truncated, Missing} \/ store.current = NoName THEN Fatal(commands[p])
       ELSE [commands[p] EXCEPT !.pc = "done", !.result = ResultOf(commands[p])]]
  /\ UNCHANGED <<store, writer, kills>>

\* A command is killed while the file is empty. One that is killed elsewhere is
\* one that takes no more steps.
Kill(p) ==
  /\ kills < MaxKills
  /\ commands[p].pc = "write"
  /\ commands' = [commands EXCEPT ![p] = Ended(commands[p], "killed")]
  /\ kills' = kills + 1
  /\ UNCHANGED <<store, writer>>

ContextsNext ==
  \E p \in Commands :
    \/ Start(p) \/ AuthenticateToOktetoCluster(p) \/ getUserContext(p)
    \/ initOktetoContext(p) \/ initKubernetesContext(p) \/ hasAccessToNamespace(p)
    \/ Truncate(p) \/ Write(p) \/ End(p) \/ Kill(p)

ContextsSpec == ContextsInit /\ [][ContextsNext]_contextVars

-----------------------------------------------------------------------------
(* Properties.                                                               *)

Points == {"start", "login", "user", "metadata", "kubernetes", "access", "truncate", "write", "end",
           "done", "failed", "fatal", "killed"}
CommandStates ==
  [pc : Points, request : AllRequests \cup {NewCommand.request}, context : Names \cup {NoName},
   ns : Spaces \cup {NoName}, token : Tokens, save : BOOLEAN, okteto : BOOLEAN, tries : 0..Retries,
   again : BOOLEAN, forbidden : BOOLEAN, memory : Stores, loaded : Stores, fresh : BOOLEAN,
   next : {NoName, "not logged", "metadata", "end", "done"},
   result : [token : Tokens, ns : Spaces \cup {NoName}]]

ContextsTypeOK ==
  /\ store \in Stores \cup {Missing, Truncated}
  /\ commands \in [Commands -> CommandStates]
  /\ writer \in Commands \cup {"nobody"}
  /\ kills \in 0..MaxKills

\* The current context of a file is always one of its contexts, so that every
\* command can read it (context.go GetContext ends the CLI otherwise).
CurrentIsKnown ==
  \A s \in {store} \cup {commands[p].memory : p \in Commands} :
    s.is = "store" => s.current = NoName \/ IsKnown(s, s.current)

\* A token is only ever kept for, and sent to, the cluster that gave it, in the
\* file, in memory and in what a stateless command uses (create.go UseContext,
\* use.go RunStateless).
TokensStayWithTheirCluster ==
  /\ \A s \in {store} \cup {commands[p].memory : p \in Commands} :
       s.is = "store" => \A c \in Names : s.contexts[c].token = NoToken \/ s.contexts[c].token.of = c
  /\ \A p \in Commands : commands[p].pc = "done" /\ commands[p].request.kind = "stateless" =>
       /\ commands[p].okteto => commands[p].result.token.of = commands[p].context
       /\ commands[p].result.ns = commands[p].ns \/ (commands[p].save /\ commands[p].result.ns = Personal)

\* The file is only empty while a command writes it, or when one was killed there.
EmptyOnlyWhileWritten ==
  store = Truncated => \E p \in Commands : commands[p].pc \in {"write", "killed"}

\* A command whose copy of the file is not outdated changes the context it was
\* asked for and no other (a copy that is outdated undoes what was written since).
OthersAreKept ==
  \A p \in Commands : commands[p].pc = "write" /\ commands[p].fresh =>
    \A c \in Names \ {commands[p].context} : commands[p].memory.contexts[c] = commands[p].loaded.contexts[c]

\* What a command saved is in the file, until another one writes: the context it
\* was asked for, with a namespace that the user has access to.
SavedChoiceHolds ==
  \A p \in Commands : commands[p].pc = "done" /\ commands[p].save /\ writer = p /\ store.is = "store" =>
    /\ store.current = commands[p].context
    /\ store.contexts[store.current].ns \in AllowedSpaces \cup {Personal}
    /\ commands[p].okteto => store.contexts[store.current].token = commands[p].token

\* A command that fails, or is not to save its choice, leaves the file as it was:
\* but for a token that is forbidden and a stored context without a user, where
\* the choice in memory is written too (create.go getUserContext).
UnsavedChoicesStay ==
  \A p \in Commands :
    (/\ writer = p /\ commands[p].request.kind # "delete"
     /\ commands[p].pc = "failed" \/ (commands[p].pc = "done" /\ ~commands[p].save)) =>
      \/ commands[p].forbidden
      \/ /\ IsKnown(commands[p].loaded, commands[p].context)
         /\ commands[p].loaded.contexts[commands[p].context].user = NoName

\* The file of contexts that commands share stays usable: its current context is
\* known, tokens stay with their cluster, only a write that is under way empties it,
\* a saved choice holds and what another command or the user did not ask to change
\* is kept.
ContextsStayWhole ==
  /\ ContextsTypeOK /\ CurrentIsKnown /\ TokensStayWithTheirCluster /\ EmptyOnlyWhileWritten
  /\ OthersAreKept /\ UnsavedChoicesStay /\ SavedChoiceHolds

-----------------------------------------------------------------------------
(* What the properties rest on.                                              *)

StoreIsWhole(s) ==
  /\ s.current # NoName => s.contexts[s.current].known
  /\ \A c \in Names : s.contexts[c].token = NoToken \/ s.contexts[c].token.of = c

\* A command writes, and goes on as somebody.
Writes(command, somebody) == command.pc \in {"truncate", "write"} /\ command.next = somebody

\* A command has chosen its context: it is the current one in memory.
HasChosen(command) ==
  \/ command.pc \in {"login", "user", "metadata", "kubernetes", "access", "end"}
  \/ command.pc \in {"truncate", "write"} /\ command.next # "done"
  \/ command.pc = "done" /\ command.request.kind # "delete"

\* It also knows all of it.
HasContext(command) ==
  \/ command.pc \in {"access", "end"} \/ Writes(command, "end")
  \/ command.pc = "done" /\ command.request.kind # "delete"

\* Its choice is written, or only has to be.
IsChecked(command) == command.save /\ HasContext(command) /\ command.pc # "access"

UserWasUnknown(command) ==
  /\ IsKnown(command.loaded, command.context)
  /\ command.loaded.contexts[command.context].user = NoName

ChoiceIsCurrent(command) ==
  HasChosen(command) =>
    /\ command.request.kind # "delete"
    /\ command.context \in Names /\ command.memory.current = command.context /\ ChosenEntry(command).known
    /\ command.okteto <=> command.context \in Clusters
    /\ command.token = NoToken \/ command.token.of = command.context

\* Only a cluster is asked for the user and the rest, with a token.
ClusterIsAsked(command) ==
  /\ command.pc = "login" => command.okteto
  /\ command.pc = "kubernetes" => ~command.okteto
  /\ command.pc \in {"user", "metadata"} \/ Writes(command, "not logged") \/ Writes(command, "metadata") =>
       command.okteto /\ command.token # NoToken

\* Until the user is known, the entry has the user that was read.
UserIsKept(command) ==
  command.pc \in {"login", "user"} \/ Writes(command, "not logged") =>
    (ChosenEntry(command).okteto =>
       /\ IsKnown(command.loaded, command.context)
       /\ ChosenEntry(command).user = command.loaded.contexts[command.context].user)

\* Why a command writes.
WriteIsCalledFor(command) ==
  /\ command.pc \in {"truncate", "write"} => command.next # NoName
  /\ Writes(command, "not logged") => command.forbidden
  /\ Writes(command, "metadata") => UserWasUnknown(command)
  /\ Writes(command, "done") => command.request.kind = "delete"
  /\ command.pc = "access" \/ Writes(command, "end") => command.save

OthersAreAsRead(command) ==
  HasChosen(command) \/ Writes(command, "done") =>
    \A c \in Names \ {command.context} : command.memory.contexts[c] = command.loaded.contexts[c]

ContextIsAsked(command) ==
  HasContext(command) =>
    /\ command.okteto => command.token # NoToken /\ ChosenEntry(command).token = command.token
    /\ ChosenEntry(command).ns = command.ns \/ (IsChecked(command) /\ ChosenEntry(command).ns = Personal)
    /\ IsChecked(command) => ChosenEntry(command).ns \in AllowedSpaces \cup {Personal}

ResultIsOwn(command) ==
  command.pc = "done" /\ command.request.kind = "stateless" => command.result = ResultOf(command)

CommandIsSound(command) ==
  /\ command.pc = "start" \/ command.request.kind = "delete" => ~command.save
  /\ StoreIsWhole(command.memory) /\ ChoiceIsCurrent(command) /\ ClusterIsAsked(command)
  /\ UserIsKept(command) /\ WriteIsCalledFor(command) /\ OthersAreAsRead(command)
  /\ ContextIsAsked(command) /\ ResultIsOwn(command)

\* What the last writer may do next, and what it left in the file.
WriterIsEntitled ==
  \A p \in Commands : writer = p =>
    /\ commands[p].pc # "start"
    /\ \/ commands[p].request.kind = "delete" \/ commands[p].forbidden \/ UserWasUnknown(commands[p])
       \/ commands[p].save /\ commands[p].pc \in {"end", "done", "fatal"}
    /\ commands[p].pc \in {"end", "done"} /\ commands[p].save /\ store.is = "store" => store = commands[p].memory

ContextsIInv ==
  /\ ContextsTypeOK /\ (store.is = "store" => StoreIsWhole(store))
  /\ \A p \in Commands : CommandIsSound(commands[p])
  /\ WriterIsEntitled /\ EmptyOnlyWhileWritten
=============================================================================
