-------------------------- MODULE InterpretationStore --------------------------
(***************************************************************************)
(* Interpretations in the SQLite repository: createInterpretation,         *)
(* updateInterpretation and supersedeInterpretation, called by several     *)
(* clients of one database.  An update writes back every column it read    *)
(* before its last await; a supersession inserts a replacement and links   *)
(* the old row to it in one transaction, whatever the old row has become.  *)
(*                                                                         *)
(* `actor' stands for the columns a replacement copies (actor, domain,     *)
(* source reference); title, assumption, resolver and alignment, which no  *)
(* condition reads, are left out.                                          *)
(***************************************************************************)
EXTENDS Integers

CONSTANTS Clients,  \* the requests in flight at one time
          Intents,  \* the intents interpretations refer to
          Actors,   \* their authors
          Null,     \* a parameter the caller did not pass
          Statuses, \* the statuses callers set
          MaxRows   \* bound: rows of the interpretations table

ASSUME InterpretationAssumption ==
       /\ Null \notin Intents \cup Actors \cup Statuses \cup {"superseded"}
       /\ Statuses \subseteq {"fyi", "clarifying", "proposed", "flagged", "superseded"}
       /\ MaxRows \in Nat

VARIABLES rows,            \* rows inserted so far
          interpretations, \* the interpretations table, by id
          events,          \* the events about interpretations
          request          \* the request each client is processing

vars == <<rows, interpretations, events, request>>

-----------------------------------------------------------------------------
(* Types *)

Ids == 1..MaxRows
Row == [intent : Intents \cup {Null}, actor : Actors \cup {Null},
        status : Statuses \cup {"superseded", Null}, supersededBy : 0..MaxRows]
NoRow == [intent |-> Null, actor |-> Null, status |-> Null, supersededBy |-> 0]

Event == [type : {"filed", "updated", "superseded"}, id : Ids, actor : Actors]

Request == [pc : {"idle", "insert", "read", "update", "updated_event", "supersede",
                  "superseded_event", "filed_event"},
            op : {"create", "update", "supersede"}, id : 0..MaxRows,
            intent : Intents \cup {Null}, actor : Actors \cup {Null},
            status : Statuses \cup {"superseded", Null}, row : Row, created : 0..MaxRows,
            reply : {"none", "ok", "error"}]

Idle == [pc |-> "idle", op |-> "create", id |-> 0, intent |-> Null, actor |-> Null,
         status |-> Null, row |-> NoRow, created |-> 0, reply |-> "none"]

TypeOK ==
    /\ rows \in 0..MaxRows
    /\ interpretations \in [Ids -> Row]
    /\ \A i \in Ids : interpretations[i].status = Null <=> i > rows
    /\ events \subseteq Event
    /\ request \in [Clients -> Request]

-----------------------------------------------------------------------------
(* Steps of a request *)

Begin(c, r) ==
    /\ request[c].pc = "idle"
    /\ request' = [request EXCEPT ![c] = r]
    /\ UNCHANGED <<rows, interpretations, events>>

BeginCreate(c) ==
    \E n \in Intents, a \in Actors, s \in Statuses :
        Begin(c, [Idle EXCEPT !.pc = "insert", !.intent = n, !.actor = a, !.status = s])

\* The service passes the changed columns on, and never a new supersededBy.
BeginUpdate(c) ==
    \E i \in Ids, s \in Statuses \cup {Null}, a \in Actors \cup {Null} :
        Begin(c, [Idle EXCEPT !.pc = "read", !.op = "update", !.id = i,
                              !.status = s, !.actor = a])

BeginSupersede(c) ==
    \E i \in Ids, s \in Statuses :
        Begin(c, [Idle EXCEPT !.pc = "read", !.op = "supersede", !.id = i, !.status = s])

Update(c, r) == request' = [request EXCEPT ![c] = r]

\* An answer leaves what it was for, and an error nothing.
Answer(c) ==
    Update(c, [Idle EXCEPT !.op = request[c].op, !.id = request[c].id,
                           !.created = request[c].created, !.reply = "ok"])

Fail(c) ==
    /\ Update(c, [Idle EXCEPT !.reply = "error"])
    /\ UNCHANGED <<rows, interpretations, events>>

\* What a request that has written its row still needs: whom the event will name.
Written(r, pc, created, actor) ==
    [Idle EXCEPT !.pc = pc, !.op = r.op, !.id = r.id, !.created = created, !.actor = actor]

InsertInterpretation(c) ==
    LET r == request[c]
    IN  /\ r.pc = "insert"
        /\ rows < MaxRows
        /\ rows' = rows + 1
        /\ interpretations' = [interpretations EXCEPT ![rows + 1] =
               [intent |-> r.intent, actor |-> r.actor, status |-> r.status,
                supersededBy |-> 0]]
        /\ Update(c, Written(r, "filed_event", rows + 1, r.actor))
        /\ UNCHANGED events

\* A request with the row it has read; what the caller did not pass is taken from it:
\* the status, and whom the event will name.
Completed(r, row) ==
    [r EXCEPT !.pc = r.op, !.row = row,
              !.status = IF @ = Null THEN row.status ELSE @,
              !.actor = IF @ = Null THEN row.actor ELSE @]

\* getInterpretation: the SELECT, before the awaits of the enrichment.
ReadInterpretation(c) ==
    LET r == request[c]
    IN  /\ r.pc = "read"
        /\ IF interpretations[r.id].status = Null THEN Fail(c)
           ELSE /\ Update(c, Completed(r, interpretations[r.id]))
                /\ UNCHANGED <<rows, interpretations, events>>

\* Mutation: superseded_by is not among the columns the UPDATE keeps.
MergedUnlinked(r) ==
    [r.row EXCEPT !.status = r.status, !.supersededBy = 0]

\* What the caller passed, and for the rest, the link included, what was read.
Merged(r) == [r.row EXCEPT !.status = r.status]

UpdateInterpretation(c) ==
    LET r == request[c]
    IN  /\ r.pc = "update"
        /\ interpretations' = [interpretations EXCEPT ![r.id] = Merged(r)]
        /\ Update(c, Written(r, "updated_event", 0, r.actor))
        /\ UNCHANGED <<rows, events>>

EmitUpdated(c) ==
    LET r == request[c]
    IN  /\ r.pc = "updated_event"
        /\ events' = events \cup {[type |-> "updated", id |-> r.id, actor |-> r.actor]}
        /\ Answer(c)
        /\ UNCHANGED <<rows, interpretations>>

\* Mutation: the replacement belongs to any intent.
ReplacementElsewhere(r) ==
    [intent |-> CHOOSE n \in Intents : n # r.row.intent, actor |-> r.row.actor,
     status |-> r.status, supersededBy |-> 0]

\* The replacement copies what was read of the old row.
Replacement(r) ==
    [intent |-> r.row.intent, actor |-> r.row.actor, status |-> r.status,
     supersededBy |-> 0]

\* BEGIN; INSERT; UPDATE; COMMIT.  The old row's status is not looked at.
SupersedeTransaction(c) ==
    LET r == request[c]
        id == rows + 1
    IN  /\ r.pc = "supersede"
        /\ rows < MaxRows
        /\ rows' = id
        /\ interpretations' = [interpretations EXCEPT
               ![id] = Replacement(r),
               ![r.id].status = "superseded", ![r.id].supersededBy = id]
        /\ Update(c, Written(r, "superseded_event", id, r.row.actor))
        /\ UNCHANGED events

\* Mutations: the event of the old row is forgotten; the event names the
\* replacement.
EmitSupersededForgotten(c) ==
    /\ request[c].pc = "superseded_event"
    /\ Update(c, [request[c] EXCEPT !.pc = "filed_event"])
    /\ UNCHANGED <<rows, interpretations, events>>

EmitSupersededSwapped(c) ==
    LET r == request[c]
    IN  /\ r.pc = "superseded_event"
        /\ events' = events \cup {[type |-> "superseded", id |-> r.created, actor |-> r.actor]}
        /\ Update(c, [r EXCEPT !.pc = "filed_event"])
        /\ UNCHANGED <<rows, interpretations>>

EmitSuperseded(c) ==
    LET r == request[c]
    IN  /\ r.pc = "superseded_event"
        /\ events' = events \cup {[type |-> "superseded", id |-> r.id, actor |-> r.actor]}
        /\ Update(c, [r EXCEPT !.pc = "filed_event"])
        /\ UNCHANGED <<rows, interpretations>>

EmitFiled(c) ==
    LET r == request[c]
    IN  /\ r.pc = "filed_event"
        /\ events' = events \cup {[type |-> "filed", id |-> r.created, actor |-> r.actor]}
        /\ Answer(c)
        /\ UNCHANGED <<rows, interpretations>>

-----------------------------------------------------------------------------
(* Failures *)

\* A write statement fails: another process holds the lock, or the disk is full.
\* Inside the transaction the catch block rolls back.
WriteBusy(c) ==
    /\ request[c].pc \notin {"idle", "read"}
    /\ Fail(c)

\* The client's process dies.
Crash(c) ==
    /\ request[c].pc # "idle"
    /\ Update(c, Idle)
    /\ UNCHANGED <<rows, interpretations, events>>

-----------------------------------------------------------------------------
(* The specification *)

Init ==
    /\ rows = 0
    /\ interpretations = [i \in Ids |-> NoRow]
    /\ events = {}
    /\ request = [c \in Clients |-> Idle]

RequestStep(c) == \/ InsertInterpretation(c)
                  \/ ReadInterpretation(c)
                  \/ UpdateInterpretation(c)
                  \/ EmitUpdated(c)
                  \/ SupersedeTransaction(c)
                  \/ EmitSuperseded(c)
                  \/ EmitFiled(c)

Next == \E c \in Clients : \/ BeginCreate(c)
                           \/ BeginUpdate(c)
                           \/ BeginSupersede(c)
                           \/ RequestStep(c)
                           \/ WriteBusy(c)
                           \/ Crash(c)

Spec == Init /\ [][Next]_vars

-----------------------------------------------------------------------------
(* Properties *)

\* A replacement is younger than what it replaces and speaks for the same actor
\* about the same intent, so following the links ends at a row that stands,
\* however updates and supersessions of one interpretation interleave.
LineageWellFounded ==
    \A i \in 1..rows :
        LET j == interpretations[i].supersededBy
        IN  j # 0 => /\ j \in (i + 1)..rows
                     /\ interpretations[j].intent = interpretations[i].intent
                     /\ interpretations[j].actor = interpretations[i].actor

\* A supersession in the trail left its replacement in the table, even if the
\* link to it was lost since.
TrailTruthful ==
    \A e \in events : e.type = "superseded" =>
        \E j \in (e.id + 1)..rows :
            /\ interpretations[j].intent = interpretations[e.id].intent
            /\ interpretations[j].actor = e.actor

\* A caller that was answered ok finds every change it made in the trail.
AcknowledgedIsRecorded ==
    \A c \in Clients : request[c].reply = "ok" =>
        LET r == request[c]
            Recorded(type, i) == \E e \in events : e.type = type /\ e.id = i
        IN  /\ r.op \in {"create", "supersede"} => Recorded("filed", r.created)
            /\ r.op = "supersede" => Recorded("superseded", r.id)
            /\ r.op = "update" => Recorded("updated", r.id)

\* README.md:137, "corrections supersede rather than overwrite", and the one way
\* they do not: a superseded interpretation loses its replacement by nothing
\* but the write of an update that read the row before it was superseded.
UndoneOnlyByStaleUpdate ==
    [][\A i \in 1..rows :
          interpretations[i].supersededBy # 0 /\ interpretations'[i].supersededBy = 0 =>
              \E c \in Clients : /\ request[c].pc = "update" /\ request[c].id = i
                                 /\ request[c].row.supersededBy = 0]_vars

=============================================================================
