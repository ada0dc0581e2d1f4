------------------------------ MODULE IntentStore ------------------------------
(***************************************************************************)
(* Intents in the SQLite repository: createIntent and updateIntent, called *)
(* by several clients of one database.  updateIntent reads the row, merges *)
(* the caller's changes into what it read, writes every column back and    *)
(* reads the row again for the event's snapshot; between these steps other *)
(* clients write.  The version column alone is computed by the UPDATE.     *)
(*                                                                         *)
(* Of the columns a caller may change, `status' stands for itself and      *)
(* `text' for all the others (description, resolution notes, addressee),   *)
(* which are merged in the same way.                                       *)
(***************************************************************************)
EXTENDS Integers

CONSTANTS Clients,    \* the requests in flight at one time
          Statuses,   \* the statuses callers set
          Texts,      \* the values of the other columns
          Null,       \* a parameter the caller did not pass
          MaxIntents, \* bound: rows of the intents table
          MaxVersion  \* bound: updates of one row

ASSUME IntentAssumption ==
       /\ Null \notin Statuses \cup Texts
       /\ Statuses \subseteq {"draft", "active", "closed", "superseded"}
       /\ MaxIntents \in Nat /\ MaxVersion \in Nat \ {0}

VARIABLES rows,    \* rows inserted so far
          intents, \* the intents table, by id; version 0: no row
          history, \* every value each row has had (auxiliary)
          events,  \* the rows of the events table about intents
          request  \* the request each client is processing

vars == <<rows, intents, history, events, request>>

-----------------------------------------------------------------------------
(* Types *)

Ids == 1..MaxIntents
Row == [status : Statuses \cup {Null}, text : Texts \cup {Null}, version : 0..MaxVersion]
NoRow == [status |-> Null, text |-> Null, version |-> 0]

Event == [type : {"intent_created", "intent_updated"}, id : Ids, snapshot : Row]

\* actor: whether the caller named the actor to attribute the change to.
\* row: what the request last read.  wrote: the version its write gave the row.
Request == [pc : {"idle", "insert", "read", "write", "readback", "event"},
            type : {"intent_created", "intent_updated"}, id : 0..MaxIntents,
            status : Statuses \cup {Null}, text : Texts \cup {Null},
            actor : BOOLEAN, row : Row, wrote : 0..MaxVersion,
            reply : {"none", "ok", "error"}]

Idle == [pc |-> "idle", type |-> "intent_created", id |-> 0, status |-> Null,
         text |-> Null, actor |-> FALSE, row |-> NoRow, wrote |-> 0, reply |-> "none"]

TypeOK ==
    /\ rows \in 0..MaxIntents
    /\ intents \in [Ids -> Row]
    /\ \A i \in Ids : intents[i].version = 0 <=> i > rows
    /\ history \in [Ids -> SUBSET Row]
    /\ events \subseteq Event
    /\ request \in [Clients -> Request]

-----------------------------------------------------------------------------
(* Steps of a request *)

Begin(c, r) ==
    /\ request[c].pc = "idle"
    /\ request' = [request EXCEPT ![c] = r]
    /\ UNCHANGED <<rows, intents, history, events>>

\* registerIntent: the service passes everything on, the actor if there is one.
BeginCreate(c) ==
    \E s \in Statuses, t \in Texts, a \in BOOLEAN :
        Begin(c, [Idle EXCEPT !.pc = "insert", !.status = s, !.text = t, !.actor = a])

BeginUpdate(c) ==
    \E i \in Ids, s \in Statuses \cup {Null}, t \in Texts \cup {Null}, a \in BOOLEAN :
        Begin(c, [Idle EXCEPT !.pc = "read", !.type = "intent_updated", !.id = i,
                              !.status = s, !.text = t, !.actor = a])

Reply(c, answer) == request' = [request EXCEPT ![c] = [@ EXCEPT !.pc = "idle", !.reply = answer]]

Fail(c) == Reply(c, "error") /\ UNCHANGED <<rows, intents, history, events>>

\* The row `i' is committed with the value `row'.
Commit(i, row) ==
    /\ intents' = [intents EXCEPT ![i] = row]
    /\ history' = [history EXCEPT ![i] = @ \cup {row}]

InsertIntent(c) ==
    LET r == request[c]
        row == [status |-> r.status, text |-> r.text, version |-> 1]
    IN  /\ r.pc = "insert"
        /\ rows < MaxIntents
        /\ rows' = rows + 1
        /\ Commit(rows + 1, row)
        /\ request' = [request EXCEPT ![c] = [@ EXCEPT !.pc = "readback", !.id = rows + 1,
                                                       !.wrote = 1]]
        /\ UNCHANGED events

\* getIntent: the SELECT, before the awaits of the enrichment.
ReadIntent(c) ==
    LET r == request[c]
    IN  /\ r.pc = "read"
        /\ IF intents[r.id].version = 0 THEN Fail(c)
           ELSE /\ request' = [request EXCEPT ![c] = [@ EXCEPT !.pc = "write",
                                                               !.row = intents[r.id]]]
                /\ UNCHANGED <<rows, intents, history, events>>

\* What the caller passed, and for the rest what was read.
Merged(r, version) ==
    [status |-> IF r.status # Null THEN r.status ELSE r.row.status,
     text |-> IF r.text # Null THEN r.text ELSE r.row.text,
     version |-> version]

\* Mutation: the version is computed from the row that was read.
NextVersionOfRead(r) == r.row.version + 1

\* version = version + 1, computed by the UPDATE.
NextVersion(r) == intents[r.id].version + 1

WriteIntent(c) ==
    LET r == request[c]
    IN  /\ r.pc = "write"
        /\ intents[r.id].version < MaxVersion
        /\ Commit(r.id, Merged(r, NextVersion(r)))
        /\ request' = [request EXCEPT ![c] = [@ EXCEPT !.pc = "readback",
                                                       !.wrote = NextVersion(r)]]
        /\ UNCHANGED <<rows, events>>

\* Mutations: the event carries what was read before the write; or what the
\* request meant to write, with the version after the one it read.
ReadBackSkipped(c) ==
    /\ request[c].pc = "readback"
    /\ request' = [request EXCEPT ![c] = [@ EXCEPT !.pc = "event"]]
    /\ UNCHANGED <<rows, intents, history, events>>

ReadBackMerged(c) ==
    LET r == request[c]
        row == IF r.type = "intent_updated" THEN Merged(r, r.row.version + 1)
                                            ELSE intents[r.id]
    IN  /\ r.pc = "readback"
        /\ request' = [request EXCEPT ![c] = [@ EXCEPT !.pc = "event", !.row = row]]
        /\ UNCHANGED <<rows, intents, history, events>>

\* getIntent again, for the snapshot.
ReadBack(c) ==
    LET r == request[c]
    IN  /\ r.pc = "readback"
        /\ request' = [request EXCEPT ![c] = [@ EXCEPT !.pc = "event", !.row = intents[r.id]]]
        /\ UNCHANGED <<rows, intents, history, events>>

\* requireActor throws when the caller named no actor: after the write.
EmitEvent(c) ==
    LET r == request[c]
    IN  /\ r.pc = "event"
        /\ IF r.actor
           THEN /\ events' = events \cup {[type |-> r.type, id |-> r.id, snapshot |-> r.row]}
                /\ Reply(c, "ok")
                /\ UNCHANGED <<rows, intents, history>>
           ELSE Fail(c)

-----------------------------------------------------------------------------
(* Failures *)

\* A write statement fails: another process holds the lock, or the disk is full.
WriteBusy(c) ==
    /\ request[c].pc \in {"insert", "write", "event"}
    /\ Fail(c)

\* The client's process dies.
Crash(c) ==
    /\ request[c].pc # "idle"
    /\ request' = [request EXCEPT ![c] = Idle]
    /\ UNCHANGED <<rows, intents, history, events>>

-----------------------------------------------------------------------------
(* The specification *)

Init ==
    /\ rows = 0
    /\ intents = [i \in Ids |-> NoRow]
    /\ history = [i \in Ids |-> {}]
    /\ events = {}
    /\ request = [c \in Clients |-> Idle]

RequestStep(c) == \/ InsertIntent(c)
                  \/ ReadIntent(c)
                  \/ WriteIntent(c)
                  \/ ReadBack(c)
                  \/ EmitEvent(c)

Next == \E c \in Clients : \/ BeginCreate(c)
                           \/ BeginUpdate(c)
                           \/ RequestStep(c)
                           \/ WriteBusy(c)
                           \/ Crash(c)

Spec == Init /\ [][Next]_vars

-----------------------------------------------------------------------------
(* Properties *)

\* A version number names one state of an intent: no two commits of a row, by
\* racing updates or not, ever share one, and none is skipped.
VersionsNameStates ==
    \A i \in 1..rows :
        /\ \A v \in 1..intents[i].version : \E row \in history[i] : row.version = v
        /\ \A p, q \in history[i] : p.version = q.version => p = q

\* A snapshot in the trail is a state the intent really had, although other
\* clients write between the change and its event.
SnapshotsAreStates == \A e \in events : e.snapshot \in history[e.id]

\* A caller that was answered ok finds its change in the trail: an event of the
\* version it wrote, or of a later one that another client had already written.
AcknowledgedIsRecorded ==
    \A c \in Clients : request[c].reply = "ok" =>
        \E e \in events : /\ e.type = request[c].type /\ e.id = request[c].id
                          /\ e.snapshot.version >= request[c].wrote

=============================================================================
