--------------------------- MODULE ContractRegistry ---------------------------
(***************************************************************************)
(* The contract registry: GovernanceService.registerContract and           *)
(* supersedeContract over the contracts and events tables of the SQLite    *)
(* repository, called by several clients (CLI, MCP, SDK and UI processes   *)
(* share one database file, and requests of one process interleave at      *)
(* every await).                                                           *)
(*                                                                         *)
(* A request is a sequence of database steps.  Each SELECT, each           *)
(* autocommitted INSERT and the BEGIN..COMMIT of a supersession is one     *)
(* step; other clients run between two steps of a request, and a request   *)
(* can stop between them: its process dies (Crash), or a statement fails   *)
(* because another process holds the write lock (WriteBusy; the connection *)
(* sets no busy timeout).                                                  *)
(*                                                                         *)
(* Columns no condition of this code reads (title, body, hash, scope,      *)
(* domain, mandate) are left out.  The kind of a contract is kept as "root *)
(* or not", which is all validateContractParent asks of it.                *)
(***************************************************************************)
EXTENDS Integers

CONSTANTS Clients,   \* the requests in flight at one time
          Keys,      \* the contract keys
          Actors,    \* the registered actors
          Null,      \* SQL NULL, and an absent request parameter
          Governing, \* the governing keys callers pass (Null: none)
          MaxRows    \* bound: the contracts table holds at most this many rows

ASSUME RegistryAssumption ==
       /\ Null \notin Keys \cup Actors
       /\ Governing \subseteq Keys \cup {Null}
       /\ MaxRows \in Nat

VARIABLES actorStatus, \* actors.status, "inactive" for suspended and retired
          rows,        \* rows inserted so far, the last contracts.id
          contracts,   \* the contracts table, by id
          events,      \* the events table, the rows of entity_table 'contracts'
          request      \* the request each client is processing

vars == <<actorStatus, rows, contracts, events, request>>

-----------------------------------------------------------------------------
(* Types *)

Ids == 1..MaxRows
OptKeys == Keys \cup {Null}
OptActors == Actors \cup {Null}
OpenStatuses == {"draft", "active"}
Statuses == OpenStatuses \cup {"superseded"}

\* A row of the contracts table; 0 is NULL in the two link columns.
Row == [key : OptKeys, parent : OptKeys, governing : OptKeys,
        version : Nat, status : Statuses \cup {"absent"},
        custodian : OptActors,
        supersedes : 0..MaxRows, supersededBy : 0..MaxRows]

Event == [type : {"contract_registered", "contract_superseded"},
          id : Ids, actor : Actors]

Steps == {"idle", "custodian", "parent", "governing", "select", "insert",
          "current", "transaction", "superseded_event", "registered_event"}

Request == [pc : Steps, op : {"register", "supersede"},
            key : OptKeys, parent : OptKeys,
            governing : OptKeys, status : OpenStatuses, actor : OptActors,
            target : 0..MaxRows, created : 0..MaxRows,
            reply : {"none", "ok", "error"}]

NoRow == [key |-> Null, parent |-> Null, governing |-> Null,
          version |-> 0, status |-> "absent", custodian |-> Null,
          supersedes |-> 0, supersededBy |-> 0]

\* A client between requests, with the outcome of its last one.
Answered(reply, id) ==
    [pc |-> "idle", op |-> "register", key |-> Null, parent |-> Null,
     governing |-> Null, status |-> "active", actor |-> Null,
     target |-> 0, created |-> id, reply |-> reply]

Idle == Answered("none", 0)

RegisterRequest(k, p, g, s, a) ==
    [pc |-> "custodian", op |-> "register", key |-> k, parent |-> p,
     governing |-> g, status |-> s, actor |-> a,
     target |-> 0, created |-> 0, reply |-> "none"]

SupersedeRequest(i, g, s, a) ==
    [pc |-> "custodian", op |-> "supersede", key |-> Null, parent |-> Null,
     governing |-> g, status |-> s, actor |-> a,
     target |-> i, created |-> 0, reply |-> "none"]

\* The parameters a request carries, as far as its steps use them, when the
\* table has n rows.
WellFormed(r, n) ==
    /\ r.pc # "idle" => r.actor \in Actors
    /\ r.pc \in {"parent", "select", "insert"} => r.op = "register"
    /\ r.pc \in {"current", "transaction", "superseded_event"} => r.op = "supersede"
    /\ r.pc # "idle" /\ r.op = "register" => r.key \in Keys
    /\ r.pc # "idle" /\ r.op = "supersede" => r.target \in Ids
    /\ r.pc \in {"transaction", "superseded_event"} => r.target \in 1..n
    /\ r.pc \in {"superseded_event", "registered_event"} => r.created \in 1..n

TypeOK ==
    /\ actorStatus \in [Actors -> {"active", "inactive"}]
    /\ rows \in 0..MaxRows
    /\ contracts \in [Ids -> Row]
    /\ \A i \in Ids : contracts[i].status = "absent" <=> i > rows
    /\ events \subseteq Event
    /\ request \in [Clients -> Request]
    /\ \A c \in Clients : WellFormed(request[c], rows)

-----------------------------------------------------------------------------
(* Queries and constraints *)

IsOpen(i) == contracts[i].status \in OpenStatuses

\* getContractByKey(key, "active") finds a row.
HasActive(k) == \E i \in Ids : contracts[i].key = k /\ contracts[i].status = "active"

\* SELECT ... WHERE key = ? AND status IN ('draft', 'active')
HasOpen(k) == \E i \in Ids : contracts[i].key = k /\ IsOpen(i)

VersionFree(k, v) == \A i \in Ids : contracts[i].key = k => contracts[i].version # v

OpenKeyFree(k, closing) == \A i \in Ids : contracts[i].key = k /\ IsOpen(i) => i = closing

\* Mutation: a schema without the two unique indexes.
IndexesMissing(k, v, closing) == TRUE

\* An INSERT of an open revision (k, v), in the table where the row with id `closing'
\* (0: none) is no longer open, satisfies UNIQUE(key, version) and the partial index of
\* the keys that are open.
IndexesAllow(k, v, closing) == VersionFree(k, v) /\ OpenKeyFree(k, closing)

-----------------------------------------------------------------------------
(* The requests *)

Goto(c, step) == request' = [request EXCEPT ![c].pc = step]

\* The request throws or returns an error to its caller.
Fail(c) ==
    /\ request' = [request EXCEPT ![c] = Answered("error", 0)]
    /\ UNCHANGED <<actorStatus, rows, contracts, events>>

Continue(c, step) == /\ Goto(c, step)
                     /\ UNCHANGED <<actorStatus, rows, contracts, events>>

\* A request that is refused on its parameters alone (a status other than
\* draft or active, a root with a parent, another kind without one) leaves no
\* trace but the error.
Begin(c, r, wellFormed) ==
    /\ request[c].pc = "idle"
    /\ IF wellFormed
       THEN /\ request' = [request EXCEPT ![c] = r]
            /\ UNCHANGED <<actorStatus, rows, contracts, events>>
       ELSE Fail(c)

BeginRegister(c) ==
    \E k \in Keys, p \in OptKeys, g \in Governing, isRoot \in BOOLEAN,
       s \in Statuses, a \in Actors :
        Begin(c, RegisterRequest(k, p, g, s, a),
              s \in OpenStatuses /\ (isRoot <=> p = Null))

BeginSupersede(c) ==
    \E i \in Ids, g \in Governing, s \in Statuses, a \in Actors :
        Begin(c, SupersedeRequest(i, g, s, a), s \in OpenStatuses)

\* requireActiveActor
CheckCustodian(c) ==
    /\ request[c].pc = "custodian"
    /\ IF actorStatus[request[c].actor] = "active"
       THEN Continue(c, IF request[c].op = "register" THEN "parent" ELSE "governing")
       ELSE Fail(c)

\* Mutation: the key is not looked up.
KeyUnchecked(k) == TRUE

\* validateContractParent and validateOptionalGoverningContractKey
ActiveIfGiven(k) == k # Null => HasActive(k)

CheckParent(c) ==
    /\ request[c].pc = "parent"
    /\ IF ActiveIfGiven(request[c].parent) THEN Continue(c, "governing") ELSE Fail(c)

CheckGoverning(c) ==
    /\ request[c].pc = "governing"
    /\ IF ActiveIfGiven(request[c].governing)
       THEN Continue(c, IF request[c].op = "register" THEN "select" ELSE "current")
       ELSE Fail(c)

-----------------------------------------------------------------------------
(* registerContract in the repository *)

SelectOpen(c) ==
    /\ request[c].pc = "select"
    /\ IF HasOpen(request[c].key) THEN Fail(c) ELSE Continue(c, "insert")

FirstRevision(r) ==
    [key |-> r.key, parent |-> r.parent, governing |-> r.governing,
     version |-> 1, status |-> r.status, custodian |-> r.actor,
     supersedes |-> 0, supersededBy |-> 0]

\* The INSERT of version 1; it throws when a unique index refuses the row.
InsertContract(c) ==
    LET r == request[c]
        id == rows + 1
    IN  /\ r.pc = "insert"
        /\ IF IndexesAllow(r.key, 1, 0)
           THEN /\ rows < MaxRows
                /\ rows' = id
                /\ contracts' = [contracts EXCEPT ![id] = FirstRevision(r)]
                /\ request' = [request EXCEPT ![c].pc = "registered_event",
                                              ![c].created = id]
                /\ UNCHANGED <<actorStatus, events>>
           ELSE Fail(c)

-----------------------------------------------------------------------------
(* supersedeContract in the repository *)

\* Mutation: a SELECT that finds no row is not refused.
ReadCurrentUnchecked(c) ==
    /\ request[c].pc = "current"
    /\ Continue(c, "transaction")

\* The read before the transaction: an unknown or closed revision is refused.
\* Of what it reads only the status can be stale later; the other columns the
\* transaction copies are never updated.
ReadCurrent(c) ==
    /\ request[c].pc = "current"
    /\ IF IsOpen(request[c].target) THEN Continue(c, "transaction") ELSE Fail(c)

Replacement(r) ==
    LET current == contracts[r.target]
    IN  [key |-> current.key, parent |-> current.parent,
         governing |-> IF r.governing # Null THEN r.governing
                                              ELSE current.governing,
         version |-> current.version + 1, status |-> r.status,
         custodian |-> r.actor, supersedes |-> r.target, supersededBy |-> 0]

\* Mutation: the third statement, which links the closed row, is missing.
ClosedUnlinked(row, id) == [row EXCEPT !.status = "superseded"]

Closed(row, id) == [row EXCEPT !.status = "superseded", !.supersededBy = id]

\* BEGIN; UPDATE; INSERT; UPDATE; COMMIT.  When an index refuses the INSERT
\* the catch block rolls the transaction back and reports an error.
SupersedeTransaction(c) ==
    LET r == request[c]
        id == rows + 1
        new == Replacement(r)
    IN  /\ r.pc = "transaction"
        /\ IF IndexesAllow(new.key, new.version, r.target)
           THEN /\ rows < MaxRows
                /\ rows' = id
                /\ contracts' = [contracts EXCEPT
                       ![r.target] = Closed(@, id), ![id] = new]
                /\ request' = [request EXCEPT ![c].pc = "superseded_event",
                                              ![c].created = id]
                /\ UNCHANGED <<actorStatus, events>>
           ELSE Fail(c)

-----------------------------------------------------------------------------
(* The event trail, written after the records, each row a commit of its own *)

\* Mutations: the event names the replacement; the event is not written.
EmitSupersededSwapped(c) ==
    LET r == request[c]
    IN  /\ r.pc = "superseded_event"
        /\ events' = events \cup {[type |-> "contract_superseded",
                                   id |-> r.created, actor |-> r.actor]}
        /\ Goto(c, "registered_event")
        /\ UNCHANGED <<actorStatus, rows, contracts>>

EmitSupersededSkipped(c) ==
    /\ request[c].pc = "superseded_event"
    /\ Continue(c, "registered_event")

EmitSuperseded(c) ==
    LET r == request[c]
    IN  /\ r.pc = "superseded_event"
        /\ events' = events \cup {[type |-> "contract_superseded",
                                   id |-> r.target, actor |-> r.actor]}
        /\ Goto(c, "registered_event")
        /\ UNCHANGED <<actorStatus, rows, contracts>>

EmitRegistered(c) ==
    LET r == request[c]
    IN  /\ r.pc = "registered_event"
        /\ events' = events \cup {[type |-> "contract_registered",
                                   id |-> r.created, actor |-> r.actor]}
        /\ request' = [request EXCEPT ![c] = Answered("ok", r.created)]
        /\ UNCHANGED <<actorStatus, rows, contracts>>

-----------------------------------------------------------------------------
(* Failures and the rest of the system *)

WriteSteps == {"insert", "transaction", "superseded_event", "registered_event"}

\* Mutation: the first UPDATE of a failed transaction is not rolled back.
WriteBusyUnrolled(c) ==
    /\ request[c].pc \in WriteSteps
    /\ contracts' = IF request[c].pc = "transaction"
                    THEN [contracts EXCEPT ![request[c].target].status = "superseded"]
                    ELSE contracts
    /\ request' = [request EXCEPT ![c] = Answered("error", 0)]
    /\ UNCHANGED <<actorStatus, rows, events>>

\* A write statement finds the database locked.  Inside the transaction the
\* catch block rolls back; in an event insert after COMMIT there is nothing
\* left to roll back and the error reaches the caller.
WriteBusy(c) ==
    /\ request[c].pc \in WriteSteps
    /\ Fail(c)

\* The client's process dies; the caller gets no answer.
Crash(c) ==
    /\ request[c].pc # "idle"
    /\ request' = [request EXCEPT ![c] = Idle]
    /\ UNCHANGED <<actorStatus, rows, contracts, events>>

\* updateActor and retireActor, as far as they bear on the registry.
SetActorStatus(a, s) ==
    /\ actorStatus[a] # s
    /\ actorStatus' = [actorStatus EXCEPT ![a] = s]
    /\ UNCHANGED <<rows, contracts, events, request>>

-----------------------------------------------------------------------------
(* The specification *)

Init ==
    /\ actorStatus = [a \in Actors |-> "active"]
    /\ rows = 0
    /\ contracts = [i \in Ids |-> NoRow]
    /\ events = {}
    /\ request = [c \in Clients |-> Idle]

RequestStep(c) ==
    \/ CheckCustodian(c)
    \/ CheckParent(c)
    \/ CheckGoverning(c)
    \/ SelectOpen(c)
    \/ InsertContract(c)
    \/ ReadCurrent(c)
    \/ SupersedeTransaction(c)
    \/ EmitSuperseded(c)
    \/ EmitRegistered(c)

Next ==
    \/ \E c \in Clients : \/ BeginRegister(c)
                          \/ BeginSupersede(c)
                          \/ RequestStep(c)
                          \/ WriteBusy(c)
                          \/ Crash(c)
    \/ \E a \in Actors, s \in {"active", "inactive"} : SetActorStatus(a, s)

Spec == Init /\ [][Next]_vars

-----------------------------------------------------------------------------
(* Properties *)

\* At every moment a key has at most one open (draft or active) revision,
\* whatever the order in which registrations and supersessions that were
\* validated against an earlier table reach their write.
OneOpenRevision ==
    \A i, j \in Ids : IsOpen(i) /\ IsOpen(j) /\ contracts[i].key = contracts[j].key
                          => i = j

\* A key that was ever registered keeps an open revision: no crash, failed
\* write or lost race leaves it with superseded revisions only.
KeyKeepsOpenRevision ==
    \A i \in 1..rows : HasOpen(contracts[i].key)

\* Of a key that was ever registered, exactly one revision is open at every moment.
ExactlyOneOpenRevision == OneOpenRevision /\ KeyKeepsOpenRevision

\* The revisions of a key form one chain: a revision replaces the one before
\* it, with the next version number, the two link columns agree, and exactly
\* the last revision is open.  Two racing supersessions never fork it.
RevisionChain ==
    \A i \in 1..rows :
        LET c == contracts[i]
        IN  /\ c.supersedes \in 0..(i - 1)
            /\ c.supersededBy \in 0..rows
            /\ IsOpen(i) <=> c.supersededBy = 0
            /\ c.supersedes = 0 <=> c.version = 1
            /\ c.supersedes # 0 =>
                   /\ contracts[c.supersedes].supersededBy = i
                   /\ contracts[c.supersedes].key = c.key
                   /\ contracts[c.supersedes].version + 1 = c.version
            /\ c.supersededBy # 0 => contracts[c.supersededBy].supersedes = i

RegisteredBefore(k, i) == \E j \in 1..(i - 1) : contracts[j].key = k

\* The hierarchy is well founded: every revision is younger than some revision
\* of its parent key and of its governing key, so no chain of parents is a
\* cycle; and all revisions of a key stay under the same parent.
HierarchyWellFounded ==
    /\ \A i \in 1..rows :
           /\ contracts[i].parent # Null => RegisteredBefore(contracts[i].parent, i)
           /\ contracts[i].governing # Null => RegisteredBefore(contracts[i].governing, i)
    /\ \A i, j \in 1..rows : contracts[i].key = contracts[j].key =>
           contracts[i].parent = contracts[j].parent

Registered(k) == \E j \in 1..rows : contracts[j].key = k

Validated(r) ==
    /\ r.op = "register" /\ r.pc \in {"governing", "select", "insert"} =>
           (r.parent # Null => Registered(r.parent))
    /\ r.pc \in {"select", "insert", "current", "transaction"} =>
           (r.governing # Null => Registered(r.governing))

\* What a request was validated against survives until it writes: the parent
\* and governing keys it read as active still have revisions, whatever was
\* superseded in between (they need not be active any more).
ValidationHolds == \A c \in Clients : Validated(request[c])

\* What the trail says of a contract is true of the contracts table: an event
\* never runs ahead of the commit it reports, and names the custodian who made
\* the change (for a supersession, the custodian of the replacement).
TrailTruthful ==
    \A e \in events :
        /\ e.id \in 1..rows
        /\ e.type = "contract_registered" => contracts[e.id].custodian = e.actor
        /\ e.type = "contract_superseded" =>
               /\ contracts[e.id].status = "superseded"
               /\ contracts[contracts[e.id].supersededBy].custodian = e.actor

RecordedRegistration(i) ==
    \E e \in events : e.type = "contract_registered" /\ e.id = i

RecordedSupersession(i) ==
    \E e \in events : e.type = "contract_superseded" /\ e.id = i

\* A caller that was answered ok owns a revision that is in the table and
\* whose registration, and the supersession it made, are in the trail.
AcknowledgedIsRecorded ==
    \A c \in Clients : request[c].reply = "ok" =>
        LET i == request[c].created
        IN  /\ i \in 1..rows
            /\ RecordedRegistration(i)
            /\ contracts[i].supersedes # 0 =>
                   RecordedSupersession(contracts[i].supersedes)

\* A revision is immutable: once inserted its key, place in the hierarchy,
\* version, custodian and back link never change, and its status changes at
\* most once, from open to superseded, together with its forward link.
RevisionsImmutable ==
    [][\A i \in 1..rows :
          LET old == contracts[i]
              new == contracts'[i]
          IN  \/ new = old
              \/ /\ IsOpen(i)
                 /\ new = [old EXCEPT !.status = "superseded",
                                      !.supersededBy = new.supersededBy]
                 /\ new.supersededBy = rows']_vars

\* The registry implements KeyedRevisions: seen key by key, through its open
\* revision, every step is one registration, one replacement by the next
\* version, or nothing at all, however requests interleave and fail.
Head(k) ==
    IF HasOpen(k)
    THEN LET i == CHOOSE j \in Ids : contracts[j].key = k /\ IsOpen(j)
         IN  [version |-> contracts[i].version, status |-> contracts[i].status,
              parent |-> contracts[i].parent]
    ELSE [version |-> 0, status |-> "draft", parent |-> Null]

Abstract == INSTANCE KeyedRevisions WITH head <- [k \in Keys |-> Head(k)]

ImplementsKeyedRevisions == Abstract!Spec

=============================================================================
