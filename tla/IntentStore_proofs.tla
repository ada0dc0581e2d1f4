--------------------------- MODULE IntentStore_proofs ---------------------------
(***************************************************************************)
(* Theorems about IntentStore, for every set of clients, statuses and      *)
(* texts and every size of the table: version numbers name states, the     *)
(* snapshots of the trail are states, and acknowledged changes are in it.  *)
(*                                                                         *)
(* The invariant has three parts besides TypeOK: what a request knows at   *)
(* each of its statements (Knows), that the history of a row ends with     *)
(* what is in the table (HistoryEnds), and the property itself.  Requests  *)
(* of other clients keep what they know because tables only grow (Grown).  *)
(***************************************************************************)
EXTENDS IntentStore, TLAPS

\* What a request may rely on at the statement it is to execute.
Knows(r) ==
    /\ r.pc = "read" => r.id \in Ids
    /\ r.pc \in {"write", "readback", "event"} => r.id \in 1..rows
    /\ r.pc = "readback" => r.wrote <= intents[r.id].version
    /\ r.pc = "event" => r.row \in history[r.id] /\ r.wrote <= r.row.version

\* A row's history ends with the row, and a row that is not there has none.
HistoryEnds ==
    \A i \in Ids : /\ i <= rows => intents[i] \in history[i]
                   /\ i > rows => history[i] = {}
                   /\ \A row \in history[i] : row.version <= intents[i].version

\* A request that was answered has ended.
RepliesLast == \A c \in Clients : request[c].reply = "ok" => request[c].pc = "idle"

Inv ==
    /\ TypeOK
    /\ \A c \in Clients : Knows(request[c])
    /\ HistoryEnds
    /\ RepliesLast
    /\ VersionsNameStates
    /\ SnapshotsAreStates
    /\ AcknowledgedIsRecorded

\* Rows are not removed, versions do not fall, and the past does not change.
Grown ==
    /\ rows <= rows'
    /\ \A i \in 1..rows : /\ intents[i].version <= intents'[i].version
                          /\ history[i] \subseteq history'[i]

-----------------------------------------------------------------------------
(* Steps that only replace a request *)

LEMMA KnowsGrown ==
    ASSUME TypeOK, TypeOK', Grown, NEW r \in Request, Knows(r)
    PROVE  Knows(r)'
  <1>1. rows \in Nat /\ rows' \in Nat /\ rows <= rows'
    BY IntentAssumption DEF TypeOK, Grown
  <1>2. r.id \in 1..rows => /\ r.id \in 1..rows'
                            /\ intents[r.id].version \in Nat
                            /\ intents'[r.id].version \in Nat
    BY <1>1, IntentAssumption DEF TypeOK, Ids, Row
  <1>3. r.wrote \in Nat
    BY IntentAssumption DEF Request
  <1>4. r.id \in 1..rows => /\ intents[r.id].version <= intents'[r.id].version
                            /\ history[r.id] \subseteq history'[r.id]
    BY DEF Grown
  <1>5. r.pc = "readback" => r.wrote <= intents'[r.id].version
    BY <1>2, <1>3, <1>4 DEF Knows
  <1>6. r.pc = "event" => r.row \in history'[r.id]
    BY <1>4 DEF Knows
  <1>7. r.pc \in {"write", "readback", "event"} => r.id \in 1..rows'
    BY <1>2 DEF Knows
  <1>8. QED BY <1>5, <1>6, <1>7 DEF Knows, Ids

\* The tables stay as they are, and the request that replaces `request[c]' is typed,
\* knows what its next statement needs, and is not answered ok without its event.
LEMMA RequestStepInv ==
    ASSUME Inv, NEW c \in Clients, NEW r \in Request, Knows(r),
           request' = [request EXCEPT ![c] = r],
           UNCHANGED <<rows, intents, history>>,
           events \subseteq events', events' \subseteq Event,
           \A e \in events' : e.snapshot \in history[e.id],
           r.reply = "ok" =>
               /\ r.pc = "idle"
               /\ \E e \in events' : /\ e.type = r.type /\ e.id = r.id
                                     /\ e.snapshot.version >= r.wrote
    PROVE  Inv'
  <1>1. TypeOK'
    BY DEF Inv, TypeOK
  <1>2. \A d \in Clients : Knows(request[d])'
    BY DEF Inv, TypeOK, Knows
  <1>3. HistoryEnds' /\ VersionsNameStates'
    BY DEF Inv, HistoryEnds, VersionsNameStates
  <1>4. RepliesLast'
    BY DEF Inv, TypeOK, RepliesLast
  <1>5. SnapshotsAreStates'
    BY DEF SnapshotsAreStates
  <1>6. AcknowledgedIsRecorded'
    <2>1. SUFFICES ASSUME NEW d \in Clients, request'[d].reply = "ok"
                   PROVE  \E e \in events' : /\ e.type = request'[d].type
                                             /\ e.id = request'[d].id
                                             /\ e.snapshot.version >= request'[d].wrote
      BY DEF AcknowledgedIsRecorded
    <2>2. CASE d = c
      BY <2>1, <2>2 DEF Inv, TypeOK
    <2>3. CASE d # c
      BY <2>1, <2>3 DEF Inv, TypeOK, AcknowledgedIsRecorded
    <2>4. QED BY <2>2, <2>3
  <1>7. QED BY <1>1, <1>2, <1>3, <1>4, <1>5, <1>6 DEF Inv

LEMMA IdleTyped == Idle \in Request /\ Knows(Idle) /\ NoRow \in Row
  <1>1. NoRow \in Row
    BY IntentAssumption DEF NoRow, Row
  <1>2. QED BY <1>1, IntentAssumption DEF Idle, Request, Knows

LEMMA SameEvents ==
    ASSUME Inv
    PROVE  /\ events \subseteq Event
           /\ \A e \in events : e.snapshot \in history[e.id]
  BY DEF Inv, TypeOK, SnapshotsAreStates

LEMMA FailInv ==
    ASSUME Inv, NEW c \in Clients, Fail(c)
    PROVE  Inv'
  <1> DEFINE r == [request[c] EXCEPT !.pc = "idle", !.reply = "error"]
  <1>1. r \in Request /\ r.pc = "idle" /\ r.reply = "error"
    BY DEF Inv, TypeOK, Request
  <1>2. Knows(r)
    BY <1>1 DEF Knows
  <1>3. request' = [request EXCEPT ![c] = r]
    BY DEF Fail, Reply, Inv, TypeOK
  <1> HIDE DEF r
  <1>4. QED BY <1>1, <1>2, <1>3, SameEvents, RequestStepInv DEF Fail

-----------------------------------------------------------------------------
(* Steps that commit a row *)

\* A new row of version 1, or the next version of a row that is there.
Successive(i, row) ==
    \/ rows' = rows + 1 /\ i = rows + 1 /\ row.version = 1
    \/ rows' = rows /\ i \in 1..rows /\ row.version = intents[i].version + 1

LEMMA CommitTables ==
    ASSUME Inv, NEW i \in Ids, NEW row \in Row, Commit(i, row),
           rows' \in 0..MaxIntents, Successive(i, row)
    PROVE  /\ intents' \in [Ids -> Row] /\ history' \in [Ids -> SUBSET Row]
           /\ \A j \in Ids : intents'[j].version = 0 <=> j > rows'
           /\ Grown /\ HistoryEnds' /\ VersionsNameStates'
           /\ \A j \in Ids : history[j] \subseteq history'[j]
  <1>1. rows \in Nat /\ rows' \in Nat /\ MaxIntents \in Nat /\ MaxVersion \in Nat
    BY IntentAssumption DEF Inv, TypeOK
  <1>2. /\ intents' \in [Ids -> Row] /\ history' \in [Ids -> SUBSET Row]
        /\ intents'[i] = row /\ history'[i] = history[i] \cup {row}
        /\ \A j \in Ids : j # i => intents'[j] = intents[j] /\ history'[j] = history[j]
    BY DEF Inv, TypeOK, Commit
  <1>3. \A j \in Ids : /\ j \in Nat \ {0}
                       /\ intents[j].version \in Nat /\ intents'[j].version \in Nat
                       /\ \A w \in history[j] : w.version \in Nat
                       /\ intents[j].version = 0 <=> j > rows
    BY <1>1, <1>2 DEF Inv, TypeOK, Ids, Row
  <1>4. row.version \in Nat /\ row.version > 0
    BY <1>1, <1>3 DEF Successive, Row, Ids
  <1>5. \A j \in Ids : intents'[j].version = 0 <=> j > rows'
    BY <1>1, <1>2, <1>3, <1>4 DEF Successive
  <1>6. \A j \in Ids : history[j] \subseteq history'[j]
    BY <1>2
  <1>7. \A j \in 1..rows : j \in Ids
    BY <1>1 DEF Inv, TypeOK, Ids
  <1>8. Grown
    BY <1>1, <1>2, <1>3, <1>6, <1>7 DEF Grown, Successive
  <1>9. \A w \in history[i] : w.version < row.version
    <2>1. CASE i = rows + 1
      BY <1>1, <2>1 DEF Inv, HistoryEnds
    <2>2. CASE i \in 1..rows
      BY <1>1, <1>3, <2>2, row.version = intents[i].version + 1 DEF Inv, HistoryEnds, Successive
    <2>3. QED BY <2>1, <2>2 DEF Successive
  <1>10. HistoryEnds'
    <2>1. SUFFICES ASSUME NEW j \in Ids
                   PROVE  /\ j <= rows' => intents'[j] \in history'[j]
                          /\ j > rows' => history'[j] = {}
                          /\ \A w \in history'[j] : w.version <= intents'[j].version
      BY DEF HistoryEnds, Ids
    <2>2. CASE j = i
      BY <1>1, <1>2, <1>3, <1>4, <1>9, <2>2 DEF Successive
    <2>3. CASE j # i
      BY <1>1, <1>2, <1>3, <2>3 DEF Successive, Inv, HistoryEnds
    <2>4. QED BY <2>2, <2>3
  <1>11. VersionsNameStates'
    <2>1. SUFFICES ASSUME NEW j \in 1..rows'
                   PROVE  /\ \A v \in 1..intents'[j].version :
                                \E w \in history'[j] : w.version = v
                          /\ \A p, q \in history'[j] : p.version = q.version => p = q
      BY DEF VersionsNameStates
    <2>2. j \in Ids
      BY <1>1 DEF Ids
    <2>3. CASE j # i
      <3>1. j \in 1..rows
        BY <1>1, <2>3 DEF Successive
      <3>2. QED BY <1>2, <2>2, <2>3, <3>1 DEF Inv, VersionsNameStates
    <2>4. CASE j = i
      <3>1. \A p, q \in history'[i] : p.version = q.version => p = q
        <4>1. \A p, q \in history[i] : p.version = q.version => p = q
          <5>1. CASE i = rows + 1
            BY <1>1, <5>1 DEF Inv, HistoryEnds
          <5>2. CASE i \in 1..rows
            BY <5>2 DEF Inv, VersionsNameStates
          <5>3. QED BY <5>1, <5>2 DEF Successive
        <4>2. QED BY <1>2, <1>3, <1>4, <1>9, <4>1
      <3>2. ASSUME NEW v \in 1..row.version
            PROVE  \E w \in history'[i] : w.version = v
        <4>1. CASE v = row.version
          BY <1>2, <4>1
        <4>2. CASE v # row.version
          <5>1. i \in 1..rows /\ v \in 1..intents[i].version
            BY <1>1, <1>3, <1>4, <4>2 DEF Successive
          <5>2. \E w \in history[i] : w.version = v
            BY <5>1 DEF Inv, VersionsNameStates
          <5>3. QED BY <1>6, <5>2
        <4>3. QED BY <4>1, <4>2
      <3>3. QED BY <1>2, <2>4, <3>1, <3>2
    <2>5. QED BY <2>3, <2>4
  <1>12. QED BY <1>2, <1>5, <1>6, <1>8, <1>10, <1>11

LEMMA CommitInv ==
    ASSUME Inv, NEW c \in Clients, NEW i \in Ids, NEW row \in Row, Commit(i, row),
           rows' \in 0..MaxIntents, Successive(i, row), UNCHANGED events,
           NEW r \in Request, r.pc = "readback", r.id = i, r.wrote = row.version,
           r.reply # "ok", request' = [request EXCEPT ![c] = r]
    PROVE  Inv'
  <1>1. TypeOK'
    BY CommitTables DEF Inv, TypeOK
  <1>2. HistoryEnds' /\ VersionsNameStates'
    BY CommitTables
  <1>3. SnapshotsAreStates'
    BY CommitTables DEF Inv, TypeOK, Event, SnapshotsAreStates
  <1>4. ASSUME NEW d \in Clients
        PROVE  Knows(request[d])'
    <2>1. CASE d = c
      <3>1. request'[d] = r
        BY <2>1 DEF Inv, TypeOK
      <3>2. intents'[i] = row
        BY DEF Commit, Inv, TypeOK
      <3>3. i \in 1..rows' /\ row.version <= row.version
        BY IntentAssumption DEF Successive, Inv, TypeOK, Ids, Row
      <3>4. QED BY <3>1, <3>2, <3>3 DEF Knows
    <2>2. CASE d # c
      <3>1. request'[d] = request[d] /\ request[d] \in Request /\ Knows(request[d])
        BY <2>2 DEF Inv, TypeOK
      <3>2. Grown /\ TypeOK
        BY CommitTables DEF Inv
      <3>3. QED BY <1>1, <3>1, <3>2, KnowsGrown DEF Knows
    <2>3. QED BY <2>1, <2>2
  <1>5. RepliesLast'
    BY DEF Inv, TypeOK, RepliesLast
  <1>6. AcknowledgedIsRecorded'
    BY DEF Inv, TypeOK, AcknowledgedIsRecorded
  <1>7. QED BY <1>1, <1>2, <1>3, <1>4, <1>5, <1>6 DEF Inv

-----------------------------------------------------------------------------
(* The actions *)

LEMMA RequestTyped ==
    ASSUME Inv, NEW c \in Clients
    PROVE  /\ request[c] \in Request /\ Knows(request[c])
           /\ request \in [Clients -> Request]
           /\ request[c].pc # "idle" => request[c].reply \in {"none", "error"}
  BY DEF Inv, TypeOK, RepliesLast, Request

LEMMA BeginInv ==
    ASSUME Inv, NEW c \in Clients, NEW r \in Request, Begin(c, r), Knows(r),
           r.reply = "none"
    PROVE  Inv'
  BY SameEvents, RequestStepInv DEF Begin

LEMMA BeginCreateInv ==
    ASSUME Inv, NEW c \in Clients, BeginCreate(c)
    PROVE  Inv'
  <1>1. PICK s \in Statuses, t \in Texts, a \in BOOLEAN :
          Begin(c, [Idle EXCEPT !.pc = "insert", !.status = s, !.text = t, !.actor = a])
    BY DEF BeginCreate
  <1> DEFINE r == [Idle EXCEPT !.pc = "insert", !.status = s, !.text = t, !.actor = a]
  <1>2. r \in Request /\ r.pc = "insert" /\ r.reply = "none"
    BY IdleTyped DEF Idle, Request
  <1>3. Knows(r)
    BY <1>2 DEF Knows
  <1> HIDE DEF r
  <1>4. QED BY <1>1, <1>2, <1>3, BeginInv DEF r

LEMMA BeginUpdateInv ==
    ASSUME Inv, NEW c \in Clients, BeginUpdate(c)
    PROVE  Inv'
  <1>1. PICK i \in Ids, s \in Statuses \cup {Null}, t \in Texts \cup {Null}, a \in BOOLEAN :
          Begin(c, [Idle EXCEPT !.pc = "read", !.type = "intent_updated", !.id = i,
                                !.status = s, !.text = t, !.actor = a])
    BY DEF BeginUpdate
  <1> DEFINE r == [Idle EXCEPT !.pc = "read", !.type = "intent_updated", !.id = i,
                               !.status = s, !.text = t, !.actor = a]
  <1>2. i \in 0..MaxIntents
    BY IntentAssumption DEF Ids
  <1>3. r \in Request /\ r.pc = "read" /\ r.reply = "none" /\ r.id = i
    BY <1>2, IdleTyped DEF Idle, Request
  <1>4. Knows(r)
    BY <1>3 DEF Knows
  <1> HIDE DEF r
  <1>5. QED BY <1>1, <1>3, <1>4, BeginInv DEF r

LEMMA InsertIntentInv ==
    ASSUME Inv, NEW c \in Clients, InsertIntent(c)
    PROVE  Inv'
  <1> DEFINE row == [status |-> request[c].status, text |-> request[c].text, version |-> 1]
             r == [request[c] EXCEPT !.pc = "readback", !.id = rows + 1, !.wrote = 1]
  <1>1. rows + 1 \in Ids /\ rows' = rows + 1 /\ rows' \in 0..MaxIntents
    BY IntentAssumption DEF InsertIntent, Inv, TypeOK, Ids
  <1>2. row \in Row /\ row.version = 1
    BY RequestTyped, IntentAssumption DEF Row, Request
  <1>3. /\ r \in Request /\ r.pc = "readback" /\ r.id = rows + 1 /\ r.wrote = 1
        /\ r.reply # "ok"
    <2>1. rows + 1 \in 0..MaxIntents /\ 1 \in 0..MaxVersion
      BY <1>1, IntentAssumption DEF Ids
    <2>2. request[c].pc # "idle"
      BY DEF InsertIntent
    <2>3. QED BY RequestTyped, <2>1, <2>2 DEF Request
  <1>4. /\ Commit(rows + 1, row) /\ UNCHANGED events
        /\ request' = [request EXCEPT ![c] = r]
    BY DEF InsertIntent
  <1> HIDE DEF row, r
  <1>5. QED BY <1>1, <1>2, <1>3, <1>4, CommitInv DEF Successive

LEMMA ReadIntentInv ==
    ASSUME Inv, NEW c \in Clients, ReadIntent(c)
    PROVE  Inv'
  <1>1. CASE intents[request[c].id].version = 0
    BY <1>1, FailInv DEF ReadIntent
  <1>2. CASE intents[request[c].id].version # 0
    <2> DEFINE r == [request[c] EXCEPT !.pc = "write", !.row = intents[request[c].id]]
    <2>1. request[c].id \in Ids /\ request[c].pc = "read"
      BY RequestTyped DEF ReadIntent, Knows
    <2>2. /\ r \in Request /\ r.pc = "write" /\ r.id = request[c].id
          /\ r.reply # "ok"
      BY RequestTyped, <2>1 DEF Request, Inv, TypeOK
    <2>3. r.id \in 1..rows
      BY <1>2, <2>1, <2>2, IntentAssumption DEF Inv, TypeOK, Ids
    <2>4. Knows(r)
      BY <2>2, <2>3 DEF Knows
    <2>5. /\ request' = [request EXCEPT ![c] = r]
          /\ UNCHANGED <<rows, intents, history, events>>
      BY <1>2 DEF ReadIntent
    <2> HIDE DEF r
    <2>6. QED BY <2>2, <2>4, <2>5, SameEvents, RequestStepInv
  <1>3. QED BY <1>1, <1>2

LEMMA WriteIntentInv ==
    ASSUME Inv, NEW c \in Clients, WriteIntent(c)
    PROVE  Inv'
  <1> DEFINE q == request[c]
             row == Merged(q, NextVersion(q))
             r == [q EXCEPT !.pc = "readback", !.wrote = NextVersion(q)]
  <1>1. q.pc = "write" /\ q.id \in 1..rows /\ q.id \in Ids
    BY RequestTyped, IntentAssumption DEF WriteIntent, Knows, Inv, TypeOK, Ids
  <1>2. /\ NextVersion(q) = intents[q.id].version + 1
        /\ NextVersion(q) \in 0..MaxVersion
    BY <1>1, IntentAssumption DEF WriteIntent, NextVersion, Inv, TypeOK, Row
  <1>3. row \in Row /\ row.version = NextVersion(q)
    BY RequestTyped, <1>2 DEF Merged, Row, Request
  <1>4. /\ r \in Request /\ r.pc = "readback" /\ r.id = q.id /\ r.wrote = NextVersion(q)
        /\ r.reply # "ok"
    BY RequestTyped, <1>1, <1>2 DEF Request
  <1>5. /\ Commit(q.id, row) /\ UNCHANGED <<rows, events>>
        /\ request' = [request EXCEPT ![c] = r]
    BY DEF WriteIntent
  <1>6. rows' \in 0..MaxIntents /\ Successive(q.id, row)
    BY <1>1, <1>2, <1>3, <1>5 DEF Successive, Inv, TypeOK
  <1> HIDE DEF row, r, q
  <1>7. QED BY <1>1, <1>3, <1>4, <1>5, <1>6, CommitInv

LEMMA ReadBackInv ==
    ASSUME Inv, NEW c \in Clients, ReadBack(c)
    PROVE  Inv'
  <1> DEFINE q == request[c]
             r == [q EXCEPT !.pc = "event", !.row = intents[q.id]]
  <1>1. q.pc = "readback" /\ q.id \in 1..rows /\ q.wrote <= intents[q.id].version
    BY RequestTyped DEF ReadBack, Knows
  <1>2. q.id \in Ids /\ q.id <= rows
    BY <1>1, IntentAssumption DEF Inv, TypeOK, Ids
  <1>3. /\ r \in Request /\ r.pc = "event" /\ r.id = q.id /\ r.row = intents[q.id]
        /\ r.wrote = q.wrote /\ r.reply # "ok"
    BY RequestTyped, <1>1, <1>2 DEF Request, Inv, TypeOK
  <1>4. Knows(r)
    BY <1>1, <1>2, <1>3 DEF Knows, Inv, HistoryEnds
  <1>5. /\ request' = [request EXCEPT ![c] = r]
        /\ UNCHANGED <<rows, intents, history, events>>
    BY DEF ReadBack
  <1> HIDE DEF r, q
  <1>6. QED BY <1>3, <1>4, <1>5, SameEvents, RequestStepInv

LEMMA EmitEventInv ==
    ASSUME Inv, NEW c \in Clients, EmitEvent(c)
    PROVE  Inv'
  <1>1. CASE ~request[c].actor
    BY <1>1, FailInv DEF EmitEvent
  <1>2. CASE request[c].actor
    <2> DEFINE q == request[c]
               r == [q EXCEPT !.pc = "idle", !.reply = "ok"]
               e == [type |-> q.type, id |-> q.id, snapshot |-> q.row]
    <2>1. /\ q.pc = "event" /\ q.id \in Ids /\ q.row \in history[q.id]
          /\ q.wrote <= q.row.version
      BY RequestTyped, IntentAssumption DEF EmitEvent, Knows, Inv, TypeOK, Ids
    <2>2. /\ r \in Request /\ r.pc = "idle" /\ r.type = q.type /\ r.id = q.id
          /\ r.wrote = q.wrote
      BY RequestTyped DEF Request
    <2>3. Knows(r)
      BY <2>2 DEF Knows
    <2>4. e \in Event /\ e.type = r.type /\ e.id = r.id /\ e.snapshot \in history[e.id]
      BY RequestTyped, <2>1, <2>2 DEF Event, Request
    <2>5. e.snapshot.version >= r.wrote
      BY RequestTyped, IntentAssumption, <2>1, <2>2 DEF Request, Row
    <2>6. /\ request' = [request EXCEPT ![c] = r] /\ events' = events \cup {e}
          /\ UNCHANGED <<rows, intents, history>>
      BY <1>2 DEF EmitEvent, Reply
    <2> HIDE DEF r, q, e
    <2>7. QED BY <2>2, <2>3, <2>4, <2>5, <2>6, SameEvents, RequestStepInv
  <1>3. QED BY <1>1, <1>2

LEMMA CrashInv ==
    ASSUME Inv, NEW c \in Clients, Crash(c)
    PROVE  Inv'
  <1>1. Idle.reply # "ok"
    BY DEF Idle
  <1>2. QED BY <1>1, IdleTyped, SameEvents, RequestStepInv DEF Crash

-----------------------------------------------------------------------------
(* The theorems *)

LEMMA InitInv == Init => Inv
  <1> SUFFICES ASSUME Init PROVE Inv
    OBVIOUS
  <1>1. TypeOK
    BY IdleTyped, IntentAssumption DEF Init, TypeOK, Ids, NoRow
  <1>2. \A c \in Clients : request[c] = Idle /\ request[c].reply = "none"
    BY DEF Init, Idle
  <1>3. \A c \in Clients : Knows(request[c])
    BY <1>2, IdleTyped
  <1>4. HistoryEnds
    BY IntentAssumption DEF Init, HistoryEnds, Ids
  <1>5. QED BY <1>1, <1>2, <1>3, <1>4 DEF Init, Inv, RepliesLast, VersionsNameStates,
                                         SnapshotsAreStates, AcknowledgedIsRecorded

LEMMA NextInv == Inv /\ [Next]_vars => Inv'
  <1> SUFFICES ASSUME Inv, [Next]_vars PROVE Inv'
    OBVIOUS
  <1>1. ASSUME NEW c \in Clients, BeginCreate(c) PROVE Inv'
    BY <1>1, BeginCreateInv
  <1>2. ASSUME NEW c \in Clients, BeginUpdate(c) PROVE Inv'
    BY <1>2, BeginUpdateInv
  <1>3. ASSUME NEW c \in Clients, RequestStep(c) PROVE Inv'
    BY <1>3, InsertIntentInv, ReadIntentInv, WriteIntentInv, ReadBackInv, EmitEventInv
       DEF RequestStep
  <1>4. ASSUME NEW c \in Clients, WriteBusy(c) PROVE Inv'
    BY <1>4, FailInv DEF WriteBusy
  <1>5. ASSUME NEW c \in Clients, Crash(c) PROVE Inv'
    BY <1>5, CrashInv
  <1>6. CASE UNCHANGED vars
    BY <1>6 DEF vars, Inv, TypeOK, Knows, HistoryEnds, RepliesLast, VersionsNameStates,
                SnapshotsAreStates, AcknowledgedIsRecorded
  <1>7. QED BY <1>1, <1>2, <1>3, <1>4, <1>5, <1>6 DEF Next

LEMMA Invariance == Spec => []Inv
  BY InitInv, NextInv, PTL DEF Spec

\* However many updates of one intent race, a version number names one of its
\* states, and none is skipped: the UPDATE's own version + 1 (updateIntent) is enough.
THEOREM VersionsAreNames == Spec => []VersionsNameStates
  <1>1. Inv => VersionsNameStates
    BY DEF Inv
  <1>2. QED BY <1>1, Invariance, PTL

\* A snapshot in an intent's event is a state that intent had, although the row is
\* read back (getIntent in updateIntent) after other clients could write.
THEOREM SnapshotsAreOfTheRow == Spec => []SnapshotsAreStates
  <1>1. Inv => SnapshotsAreStates
    BY DEF Inv
  <1>2. QED BY <1>1, Invariance, PTL

\* Whoever was answered ok finds an event of the version it wrote, or a later one.
THEOREM AcknowledgedIntents == Spec => []AcknowledgedIsRecorded
  <1>1. Inv => AcknowledgedIsRecorded
    BY DEF Inv
  <1>2. QED BY <1>1, Invariance, PTL

=============================================================================
