----------------------------- MODULE VaultMandate ------------------------------
(***************************************************************************)
(* Vault mutations under an intent mandate, end to end: the CLI, the SDK   *)
(* and the public bridge in front of the MCP server (which uses the SDK)   *)
(* each resolve an active actor, check that the intent exists, change a    *)
(* file of the vault and then log an action that accounts for the change.  *)
(* Between these steps other clients write, actors are retired, contracts  *)
(* superseded, and processes die.                                          *)
(*                                                                         *)
(* The vault is a directory (vaultRoot is set).  A file is the sequence of *)
(* the pieces that were written to it; that writeFile truncates the file   *)
(* before it writes is left out.                                           *)
(***************************************************************************)
EXTENDS VaultPaths, FiniteSets

CONSTANTS Clients,        \* the requests in flight at one time
          Texts,          \* the path texts clients send
          Intents,        \* the intents that exist
          Unknown,        \* an intent that does not
          Actors,         \* the provisioned actors
          Keys,           \* contract keys callers name; `Null' for none
          Null,
          BridgeActor,    \* the actor the bridge is scoped to, `Null' for any
          BridgeContract, \* its trusted governing contract, or `Null'
          ClientContext,  \* allowClientInvocationContext: the client's context passes
          ExposedTools,   \* the tools it exposes
          MaxOps,         \* bound: requests
          MaxChanges      \* bound: changes of actors and contracts meanwhile

ASSUME MandateAssumption ==
       /\ Unknown \notin Intents
       /\ BridgeActor \in Actors \cup {Null} /\ Null \notin Actors
       /\ BridgeContract \in Keys \cup {Null} /\ Null \notin Keys
       /\ ClientContext \in BOOLEAN
       /\ MaxOps \in Nat /\ MaxChanges \in Nat /\ Texts \subseteq Seq(STRING)

VARIABLES ops,       \* requests made so far
          changes,   \* changes of actors and contracts so far
          files,     \* the vault: the pieces at each path
          activeActors,
          activeKeys,\* the keys with an active contract
          actorKey,  \* the contract key of each actor, `Null' for none
          actions,   \* the actions logged
          performed, \* the mutations performed, in order (auxiliary)
          request    \* the request each client makes

\* What other calls change about actors and contracts.
governance == <<changes, activeActors, activeKeys, actorKey>>

vars == <<ops, files, governance, actions, performed, request>>

-----------------------------------------------------------------------------
(* Files and requests *)

ReadPaths == {SafeVaultPath(t) : t \in Texts}
Paths == ReadPaths \ {NoPath}

Kinds == {"write", "append", "move", "delete"}

\* The contents of a path without a file.
NoFile == <<[op |-> 0, newline |-> FALSE]>>

-----------------------------------------------------------------------------
(* The policy of the public bridge *)

\* validateWritablePath: the texts the bridge finds writable.  It forwards a call
\* with the text as it came.
WritableTexts == {t \in Texts : LET path == NormalizeVaultPath(t)
                                IN  path # NoPath /\ IsWritablePath(path)}

\* Mutation: a client may name any actor.
BridgeActorsAny == Actors

\* applyRequiredActor: a call that names another actor is blocked, if the bridge
\* is scoped to one.
BridgeActors == IF BridgeActor = Null THEN Actors ELSE {BridgeActor}

\* Mutation: the profile's contract key does not displace the client's.
ForwardedUnstripped(key) == IF key = Null THEN BridgeContract ELSE key

\* applyInvocationContext: the profile's contract key, else the client's where the
\* bridge lets it pass.
Forwarded(key) == IF BridgeContract # Null THEN BridgeContract
                  ELSE IF ClientContext THEN key ELSE Null

\* The MCP server behind the bridge has no tool to move or to delete.
ServerTools == {"write", "append"}

-----------------------------------------------------------------------------
(* Steps of a request *)

\* `r' is the request the client makes.
Ask(c, r) ==
    /\ request[c].pc = "idle" /\ ops < MaxOps
    /\ ops' = ops + 1
    /\ request' = [request EXCEPT ![c] = r]
    /\ UNCHANGED <<files, governance, actions, performed>>

\* The CLI and the SDK, which goes through the same steps; only the SDK passes a
\* contract key on, and only for writes and appends.
AskDirect(c) ==
    \E k \in Kinds, p \in ReadPaths, i \in Intents \cup {Unknown}, a \in Actors :
    \E to \in IF k = "move" THEN ReadPaths ELSE {NoPath},
       key \in IF k \in ServerTools THEN Keys \cup {Null} ELSE {Null} :
        Ask(c, [pc |-> "resolve", op |-> ops + 1, via |-> "direct", kind |-> k, path |-> p,
                to |-> to, intent |-> i, actor |-> a, key |-> key, seen |-> NoFile])

\* A call the bridge forwards, with the key a client names.
AskBridge(c) ==
    \E k \in ServerTools \cap ExposedTools, p \in {SafeVaultPath(t) : t \in WritableTexts},
       i \in Intents \cup {Unknown}, a \in BridgeActors, key \in Keys \cup {Null} :
        Ask(c, [pc |-> "resolve", op |-> ops + 1, via |-> "bridge", kind |-> k, path |-> p,
                to |-> NoPath, intent |-> i, actor |-> a, key |-> Forwarded(key),
                seen |-> NoFile])

Goto(c, pc) == request' = [request EXCEPT ![c].pc = pc]

Reply(c, answer) ==
    request' = [request EXCEPT ![c] = [pc |-> "idle", op |-> @.op, reply |-> answer]]

\* The actor must be active when the request is made.
Resolve(c) ==
    /\ request[c].pc = "resolve"
    /\ IF request[c].actor \in activeActors THEN Goto(c, "mandate") ELSE Reply(c, "error")
    /\ UNCHANGED <<ops, files, governance, actions, performed>>

\* requireIntentForVaultMutation: the intent exists, whatever its status.
CheckMandate(c) ==
    /\ request[c].pc = "mandate"
    /\ IF request[c].intent \in Intents THEN Goto(c, "mutate") ELSE Reply(c, "error")
    /\ UNCHANGED <<ops, files, governance, actions, performed>>

\* The request's mutation happens: `new' are the files it leaves.
Perform(c, new) ==
    LET r == request[c]
    IN  /\ files' = new
        /\ performed' = Append(performed,
               [op |-> r.op, kind |-> r.kind, path |-> r.path,
                to |-> r.to,
                intent |-> r.intent, actor |-> r.actor, via |-> r.via])
        /\ Goto(c, "log")
        /\ UNCHANGED <<ops, governance, actions>>

\* safeVaultPath throws before anything is touched.
BadPath(c) ==
    LET r == request[c]
    IN  /\ r.pc = "mutate"
        /\ \/ r.path = NoPath
           \/ r.kind = "move" /\ r.to = NoPath
        /\ Reply(c, "error")
        /\ UNCHANGED <<ops, files, governance, actions, performed>>

Mutates(c, kind) ==
    /\ request[c].pc = "mutate" /\ request[c].kind = kind
    /\ request[c].path # NoPath
    /\ kind = "move" => request[c].to # NoPath

Write(c) ==
    /\ Mutates(c, "write")
    /\ Perform(c, [files EXCEPT ![request[c].path] =
                      <<[op |-> request[c].op, newline |-> FALSE]>>])

\* pathExists: an await before the append.
StatForAppend(c) ==
    /\ Mutates(c, "append")
    /\ request' = [request EXCEPT ![c] = [@ EXCEPT !.pc = "stat",
                                          !.seen = files[request[c].path]]]
    /\ UNCHANGED <<ops, files, governance, actions, performed>>

Extended(contents, op, newline) ==
    (IF contents = NoFile THEN <<>> ELSE contents) \o <<[op |-> op, newline |-> newline]>>

\* Mutation: the file is written back with the contents that were read.
AppendToRead(c) ==
    LET r == request[c]
    IN  /\ r.pc = "stat"
        /\ Perform(c, [files EXCEPT ![r.path] =
                          Extended(r.seen, r.op, r.seen # NoFile)])

\* appendFile adds to whatever the file now is; the newline depends on the stat.
AppendPiece(c) ==
    LET r == request[c]
    IN  /\ r.pc = "stat"
        /\ Perform(c, [files EXCEPT ![r.path] =
                          Extended(@, r.op, r.seen # NoFile)])

Moved(fs, from, to) ==
    IF from = to THEN fs ELSE [fs EXCEPT ![to] = fs[from], ![from] = NoFile]

\* Mutation: a rename that fails is logged like one that succeeds.
MoveAnyway(c) ==
    LET from == request[c].path
        to == request[c].to
    IN  /\ Mutates(c, "move")
        /\ IF files[from] = NoFile
           THEN /\ Goto(c, "log")
                /\ UNCHANGED <<ops, files, governance, actions, performed>>
           ELSE Perform(c, Moved(files, from, to))

\* rename replaces the destination, and throws if there is no source.
Move(c) ==
    LET from == request[c].path
        to == request[c].to
    IN  /\ Mutates(c, "move")
        /\ IF files[from] = NoFile
           THEN /\ Reply(c, "error")
                /\ UNCHANGED <<ops, files, governance, actions, performed>>
           ELSE Perform(c, Moved(files, from, to))

\* rm with force: a file that does not exist is deleted, too.
Delete(c) ==
    /\ Mutates(c, "delete")
    /\ Perform(c, [files EXCEPT ![request[c].path] = NoFile])

\* The contract an action is logged under: the one the call names, else the actor's.
Governing(r) == IF r.key # Null THEN r.key ELSE actorKey[r.actor]

\* logAction refuses an inactive governing contract; the caller wraps its error in
\* an answer that is ok all the same.
CheckContract(c) ==
    LET r == request[c]
    IN  /\ r.pc = "log"
        /\ IF Governing(r) \in activeKeys \cup {Null}
           THEN request' = [request EXCEPT ![c] = [@ EXCEPT !.pc = "insert",
                                                   !.key = Governing(r)]]
           ELSE Reply(c, "ok")
        /\ UNCHANGED <<ops, files, governance, actions, performed>>

InsertAction(c) ==
    LET r == request[c]
    IN  /\ r.pc = "insert"
        /\ actions' = actions \cup {[op |-> r.op, kind |-> r.kind, intent |-> r.intent,
                                     actor |-> r.actor, key |-> r.key,
                                     path |-> r.path]}
        /\ Reply(c, "ok")
        /\ UNCHANGED <<ops, files, governance, performed>>

-----------------------------------------------------------------------------
(* The surroundings, and failures *)

Meanwhile ==
    /\ changes < MaxChanges /\ changes' = changes + 1
    /\ UNCHANGED <<ops, files, actions, performed, request>>

RetireActor ==
    /\ Meanwhile
    /\ \E a \in activeActors : activeActors' = activeActors \ {a}
    /\ UNCHANGED <<activeKeys, actorKey>>

CloseContract ==
    /\ Meanwhile
    /\ \E k \in activeKeys : activeKeys' = activeKeys \ {k}
    /\ UNCHANGED <<activeActors, actorKey>>

\* updateActor puts an actor under an active contract; no call takes the key away.
GovernActor ==
    /\ Meanwhile
    /\ \E a \in Actors, k \in activeKeys : actorKey' = [actorKey EXCEPT ![a] = k]
    /\ UNCHANGED <<activeActors, activeKeys>>

\* The INSERT fails, or the client's process dies at any point.
Fail(c) ==
    /\ request[c].pc # "idle"
    /\ Reply(c, "error")
    /\ UNCHANGED <<ops, files, governance, actions, performed>>

-----------------------------------------------------------------------------
(* The specification *)

Init ==
    /\ ops = 0 /\ changes = 0 /\ files = [p \in Paths |-> NoFile]
    /\ activeActors = Actors /\ activeKeys = Keys
    /\ actorKey = [a \in Actors |-> Null]
    /\ actions = {} /\ performed = <<>>
    /\ request = [c \in Clients |-> [pc |-> "idle", op |-> 0, reply |-> "none"]]

Next == \/ RetireActor \/ CloseContract \/ GovernActor
        \/ \E c \in Clients :
              \/ AskDirect(c) \/ AskBridge(c)
              \/ Resolve(c) \/ CheckMandate(c) \/ BadPath(c)
              \/ Write(c) \/ StatForAppend(c) \/ AppendPiece(c) \/ Move(c) \/ Delete(c)
              \/ CheckContract(c) \/ InsertAction(c) \/ Fail(c)

Spec == Init /\ [][Next]_vars

-----------------------------------------------------------------------------
(* Properties *)

\* An action in the log is of a mutation that happened, of that file, by that actor
\* and under that intent; a mutation that failed leaves none.
ActionsTruthful ==
    \A a \in actions : \E i \in DOMAIN performed :
        LET m == performed[i]
        IN  /\ m.op = a.op /\ m.kind = a.kind /\ m.path = a.path
            /\ m.intent = a.intent /\ m.actor = a.actor

\* The operations whose pieces a file holds.
Pieces(contents) ==
    IF contents = NoFile THEN <<>> ELSE [i \in DOMAIN contents |-> contents[i].op]

Mutations == [i \in DOMAIN performed |-> [op |-> performed[i].op, kind |-> performed[i].kind,
                                         path |-> performed[i].path, to |-> performed[i].to]]

\* However the clients' steps interleave, the vault is one that performs each mutation
\* at most once and atomically: an append loses no one else's piece, a file goes with
\* all its pieces when it is moved, a move never finds its source gone.
Atomic == INSTANCE AtomicVault WITH
              vault <- [p \in Paths |-> Pieces(files[p])], log <- Mutations

ImplementsAtomicVault == Atomic!Spec

\* The policy: a path of the lists, with one of the suffixes if there are any.
WritableByPolicy(path) ==
    /\ \E p \in WritableExact \cup WritablePrefixes :
          path = p \/ (p \in WritablePrefixes /\ IsPrefix(p, path))
    /\ WritableSuffixes # {} => \E s \in WritableSuffixes : IsSuffix(s, path)

\* The contract of an action logged for a bridged call: the profile's; without one,
\* and unless clients may name one, the actor's own.
GovernedByPolicy(a) ==
    /\ BridgeContract # Null => a.key = BridgeContract
    /\ BridgeContract = Null /\ ~ClientContext /\ a.key # Null => actorKey[a.actor] # Null

\* What is done through the bridge stays within its policy where it is done: the
\* file the vault service resolves the text to is writable, although the bridge
\* resolved the text by rules of its own, unless every path is; the actor is the one
\* the bridge is scoped to, if it is; the action is logged under a contract that the
\* client did not choose, unless it may.
BridgedWithinPolicy ==
    \A i \in DOMAIN performed : performed[i].via = "bridge" =>
        /\ performed[i].kind \in ExposedTools
        /\ BridgeActor # Null => performed[i].actor = BridgeActor
        /\ ~AllWritable => WritableByPolicy(performed[i].path)
        /\ \A a \in actions : a.op = performed[i].op => GovernedByPolicy(a)

\* README.md:248, "If the local knowledge store is changed, the mutation requires an
\* explicit mandate and is logged back into the governance store": a request that
\* was answered ok has its mutation in the log.
OkIsAccounted ==
    \A c \in Clients : request[c].pc = "idle" /\ request[c].reply = "ok" =>
        \E a \in actions : a.op = request[c].op

=============================================================================
