----------------------- MODULE InterpretationStore_proofs -----------------------
(***************************************************************************)
(* Theorems about InterpretationStore, for every set of clients, intents   *)
(* and actors and every size of the table: supersession leads to younger   *)
(* rows of the same origin, the trail is truthful and has what was         *)
(* acknowledged, and only a stale update takes a supersession back.        *)
(*                                                                         *)
(* What carries the proof is that a row's intent and actor never change    *)
(* (Grown), so that what a request read of them stays true although the    *)
(* status and the link it read may be out of date (Knows).                 *)
(***************************************************************************)
EXTENDS InterpretationStore, TLAPS

SameOrigin(p, q) == p.intent = q.intent /\ p.actor = q.actor

\* j replaces i: a younger row of the same origin.
Heir(i, j) == /\ j \in (i + 1)..rows
              /\ SameOrigin(interpretations[j], interpretations[i])

RecordedSuperseded(i) == \E e \in events : e.type = "superseded" /\ e.id = i

\* What a request may rely on at the statement it is to execute.
Knows(r) ==
    /\ r.pc = "insert" => /\ r.op = "create" /\ r.intent \in Intents
                          /\ r.actor \in Actors /\ r.status \in Statuses
    /\ r.pc = "read" => /\ r.id \in Ids /\ r.op \in {"update", "supersede"}
                        /\ r.op = "supersede" => r.status \in Statuses
    /\ r.pc \in {"update", "updated_event", "supersede", "superseded_event"} =>
           r.id \in 1..rows
    /\ r.pc \in {"update", "supersede"} => SameOrigin(r.row, interpretations[r.id])
    /\ r.pc \in {"update", "updated_event"} => r.op = "update" /\ r.actor \in Actors
    /\ r.pc \in {"supersede", "superseded_event"} => r.op = "supersede"
    /\ r.pc = "supersede" => r.status \in Statuses
    /\ r.pc = "update" => /\ r.status # Null
                          /\ r.row.supersededBy # 0 => Heir(r.id, r.row.supersededBy)
    /\ r.pc = "superseded_event" => /\ Heir(r.id, r.created)
                                    /\ r.actor = interpretations[r.id].actor
    /\ r.pc = "filed_event" =>
           /\ r.created \in 1..rows /\ r.op \in {"create", "supersede"}
           /\ r.actor \in Actors
           /\ r.op = "supersede" => RecordedSuperseded(r.id)

RowsFiled == \A i \in 1..rows : /\ interpretations[i].intent \in Intents
                                /\ interpretations[i].actor \in Actors

\* A request that was answered has ended.
RepliesLast == \A c \in Clients : request[c].reply = "ok" => request[c].pc = "idle"

Inv ==
    /\ TypeOK
    /\ \A c \in Clients : Knows(request[c])
    /\ RowsFiled
    /\ RepliesLast
    /\ LineageWellFounded
    /\ TrailTruthful
    /\ AcknowledgedIsRecorded

\* Rows stay, with their origin, and so do events.
Grown ==
    /\ rows <= rows'
    /\ \A i \in 1..rows : SameOrigin(interpretations'[i], interpretations[i])
    /\ events \subseteq events'

-----------------------------------------------------------------------------
(* What stays true while the tables grow *)

LEMMA RowsAreNat ==
    ASSUME TypeOK
    PROVE  /\ rows \in Nat /\ MaxRows \in Nat /\ rows <= MaxRows
           /\ \A i \in 1..rows : i \in Ids
  BY InterpretationAssumption DEF TypeOK, Ids

LEMMA HeirGrown ==
    ASSUME TypeOK, TypeOK', Grown, NEW i \in 1..rows, NEW j, Heir(i, j)
    PROVE  Heir(i, j)'
  <1>1. rows \in Nat /\ rows' \in Nat /\ rows <= rows'
    BY InterpretationAssumption DEF TypeOK, Grown
  <1>2. j \in 1..rows /\ j \in (i + 1)..rows'
    BY <1>1 DEF Heir
  <1>3. QED BY <1>2 DEF Heir, Grown, SameOrigin

LEMMA KnowsGrown ==
    ASSUME TypeOK, TypeOK', Grown, NEW r \in Request, Knows(r)
    PROVE  Knows(r)'
  <1>1. rows \in Nat /\ rows' \in Nat /\ rows <= rows'
    BY InterpretationAssumption DEF TypeOK, Grown
  <1>2. r.pc \in {"update", "updated_event", "supersede", "superseded_event"} =>
           /\ r.id \in 1..rows'
           /\ interpretations'[r.id].actor = interpretations[r.id].actor
           /\ r.pc \in {"update", "supersede"} => SameOrigin(r.row, interpretations'[r.id])
    BY <1>1 DEF Knows, Grown, SameOrigin
  <1>3. r.pc = "update" /\ r.row.supersededBy # 0 => Heir(r.id, r.row.supersededBy)'
    BY HeirGrown DEF Knows
  <1>4. r.pc = "superseded_event" => Heir(r.id, r.created)'
    BY HeirGrown DEF Knows
  <1>5. r.pc = "filed_event" => r.created \in 1..rows'
    BY <1>1 DEF Knows
  <1>6. r.pc = "filed_event" /\ r.op = "supersede" => RecordedSuperseded(r.id)'
    BY DEF Knows, Grown, RecordedSuperseded
  <1>7. QED BY <1>2, <1>3, <1>4, <1>5, <1>6 DEF Knows, Ids

\* A request is replaced while the tables grow: all that is to be shown is about
\* the rows and events that are new, and the request itself.
LEMMA StepInv ==
    ASSUME Inv, NEW c \in Clients, NEW r \in Request, Knows(r)',
           request' = [request EXCEPT ![c] = r], Grown,
           rows' \in 0..MaxRows, interpretations' \in [Ids -> Row],
           \A i \in Ids : interpretations'[i].status = Null <=> i > rows',
           events' \subseteq Event, RowsFiled', LineageWellFounded',
           \A e \in events' : e \in events \/ e.type # "superseded"
                              \/ \E j \in (e.id + 1)..rows' :
                                    /\ interpretations'[j].intent = interpretations'[e.id].intent
                                    /\ interpretations'[j].actor = e.actor,
           r.reply = "ok" =>
               LET Recorded(type, i) == \E e \in events' : e.type = type /\ e.id = i
               IN  /\ r.pc = "idle"
                   /\ r.op \in {"create", "supersede"} => Recorded("filed", r.created)
                   /\ r.op = "supersede" => Recorded("superseded", r.id)
                   /\ r.op = "update" => Recorded("updated", r.id)
    PROVE  Inv'
  <1>1. TypeOK /\ TypeOK'
    BY DEF Inv, TypeOK
  <1>2. ASSUME NEW d \in Clients
        PROVE  Knows(request[d])'
    <2>1. CASE d = c
      <3>1. request'[d] = r
        BY <2>1 DEF Inv, TypeOK
      <3>2. QED BY <3>1 DEF Knows
    <2>2. CASE d # c
      <3>1. request'[d] = request[d] /\ request[d] \in Request /\ Knows(request[d])
        BY <2>2 DEF Inv, TypeOK
      <3>2. QED BY <1>1, <3>1, KnowsGrown DEF Knows
    <2>3. QED BY <2>1, <2>2
  <1>3. RepliesLast'
    BY DEF Inv, TypeOK, RepliesLast
  <1>4. TrailTruthful'
    <2>1. SUFFICES ASSUME NEW e \in events', e.type = "superseded", e \in events
                   PROVE  \E j \in (e.id + 1)..rows' :
                             /\ interpretations'[j].intent = interpretations'[e.id].intent
                             /\ interpretations'[j].actor = e.actor
      BY DEF TrailTruthful
    <2>2. PICK j \in (e.id + 1)..rows :
             /\ interpretations[j].intent = interpretations[e.id].intent
             /\ interpretations[j].actor = e.actor
      BY <2>1 DEF Inv, TrailTruthful
    <2>3. e.id \in 1..rows /\ j \in 1..rows /\ j \in (e.id + 1)..rows'
      BY <1>1, <2>1, <2>2, RowsAreNat DEF TypeOK, Event, Ids, Grown
    <2>4. QED BY <2>2, <2>3 DEF Grown, SameOrigin
  <1>5. AcknowledgedIsRecorded'
    <2>1. SUFFICES ASSUME NEW d \in Clients, request'[d].reply = "ok"
                   PROVE  LET q == request'[d]
                              Recorded(type, i) == \E e \in events' : e.type = type /\ e.id = i
                          IN  /\ q.op \in {"create", "supersede"} => Recorded("filed", q.created)
                              /\ q.op = "supersede" => Recorded("superseded", q.id)
                              /\ q.op = "update" => Recorded("updated", q.id)
      BY DEF AcknowledgedIsRecorded
    <2>2. CASE d = c
      BY <2>1, <2>2 DEF Inv, TypeOK
    <2>3. CASE d # c
      <3>1. request'[d] = request[d]
        BY <2>3 DEF Inv, TypeOK
      <3>2. events \subseteq events'
        BY DEF Grown
      <3>3. QED BY <2>1, <3>1, <3>2 DEF Inv, AcknowledgedIsRecorded
    <2>4. QED BY <2>2, <2>3
  <1>6. QED BY <1>1, <1>2, <1>3, <1>4, <1>5 DEF Inv

\* The tables stay as they are.
LEMMA RequestStepInv ==
    ASSUME Inv, NEW c \in Clients, NEW r \in Request, Knows(r), r.reply # "ok",
           request' = [request EXCEPT ![c] = r],
           UNCHANGED <<rows, interpretations, events>>
    PROVE  Inv'
  <1>1. Grown /\ Knows(r)'
    BY RowsAreNat DEF Inv, TypeOK, Grown, SameOrigin, Knows, Heir, RecordedSuperseded
  <1>2. RowsFiled' /\ LineageWellFounded'
    BY DEF Inv, RowsFiled, LineageWellFounded
  <1>3. QED BY <1>1, <1>2, StepInv DEF Inv, TypeOK

LEMMA RequestTyped ==
    ASSUME Inv, NEW c \in Clients
    PROVE  /\ request[c] \in Request /\ Knows(request[c])
           /\ request \in [Clients -> Request]
           /\ request[c].pc # "idle" => request[c].reply \in {"none", "error"}
           /\ request[c].row \in Row
  BY DEF Inv, TypeOK, RepliesLast, Request

LEMMA IdleTyped == Idle \in Request /\ Knows(Idle) /\ NoRow \in Row /\ Idle.reply = "none"
  <1>1. NoRow \in Row
    BY InterpretationAssumption DEF NoRow, Row
  <1>2. QED BY <1>1, InterpretationAssumption DEF Idle, Request, Knows

\* What is left of a request that wrote its row.
LEMMA WrittenTyped ==
    ASSUME NEW q \in Request, NEW pc \in {"updated_event", "superseded_event", "filed_event"},
           NEW i \in 0..MaxRows, NEW a \in Actors
    PROVE  /\ Written(q, pc, i, a) \in Request
           /\ Written(q, pc, i, a).pc = pc /\ Written(q, pc, i, a).op = q.op
           /\ Written(q, pc, i, a).id = q.id /\ Written(q, pc, i, a).created = i
           /\ Written(q, pc, i, a).actor = a /\ Written(q, pc, i, a).reply = "none"
  BY IdleTyped DEF Written, Request

LEMMA AnswerTyped ==
    ASSUME Inv, NEW c \in Clients, Answer(c)
    PROVE  \E r \in Request :
               /\ request' = [request EXCEPT ![c] = r]
               /\ r.pc = "idle" /\ r.op = request[c].op /\ r.id = request[c].id
               /\ r.created = request[c].created /\ r.reply = "ok"
  <1> DEFINE q == request[c]
             r == [Idle EXCEPT !.op = q.op, !.id = q.id, !.created = q.created, !.reply = "ok"]
  <1>1. q \in Request
    BY RequestTyped
  <1>2. /\ r \in Request /\ r.pc = "idle" /\ r.op = q.op /\ r.id = q.id
        /\ r.created = q.created /\ r.reply = "ok"
    BY <1>1, IdleTyped DEF Idle, Request
  <1>3. request' = [request EXCEPT ![c] = r]
    BY DEF Answer, Update
  <1> HIDE DEF r
  <1>4. QED BY <1>2, <1>3

LEMMA FailInv ==
    ASSUME Inv, NEW c \in Clients, Fail(c)
    PROVE  Inv'
  <1> DEFINE r == [Idle EXCEPT !.reply = "error"]
  <1>1. r \in Request /\ r.pc = "idle" /\ r.reply = "error"
    BY IdleTyped DEF Idle, Request
  <1>2. Knows(r)
    BY <1>1 DEF Knows
  <1>3. request' = [request EXCEPT ![c] = r]
    BY DEF Fail, Update
  <1> HIDE DEF r
  <1>4. QED BY <1>1, <1>2, <1>3, RequestStepInv DEF Fail

-----------------------------------------------------------------------------
(* The actions *)

LEMMA BeginInv ==
    ASSUME Inv, NEW c \in Clients, NEW r \in Request, Begin(c, r), Knows(r),
           r.reply = "none"
    PROVE  Inv'
  BY RequestStepInv DEF Begin

LEMMA BeginCreateInv ==
    ASSUME Inv, NEW c \in Clients, BeginCreate(c)
    PROVE  Inv'
  <1>1. PICK n \in Intents, a \in Actors, s \in Statuses :
          Begin(c, [Idle EXCEPT !.pc = "insert", !.intent = n, !.actor = a, !.status = s])
    BY DEF BeginCreate
  <1> DEFINE r == [Idle EXCEPT !.pc = "insert", !.intent = n, !.actor = a, !.status = s]
  <1>2. /\ r \in Request /\ r.pc = "insert" /\ r.reply = "none" /\ r.op = "create"
        /\ r.intent = n /\ r.actor = a /\ r.status = s
    BY IdleTyped DEF Idle, Request
  <1>3. Knows(r)
    BY <1>2 DEF Knows
  <1> HIDE DEF r
  <1>4. QED BY <1>1, <1>2, <1>3, BeginInv DEF r

LEMMA BeginUpdateInv ==
    ASSUME Inv, NEW c \in Clients, BeginUpdate(c)
    PROVE  Inv'
  <1>1. PICK i \in Ids, s \in Statuses \cup {Null}, a \in Actors \cup {Null} :
          Begin(c, [Idle EXCEPT !.pc = "read", !.op = "update", !.id = i,
                                !.status = s, !.actor = a])
    BY DEF BeginUpdate
  <1> DEFINE r == [Idle EXCEPT !.pc = "read", !.op = "update", !.id = i,
                               !.status = s, !.actor = a]
  <1>2. i \in 0..MaxRows
    BY InterpretationAssumption DEF Ids
  <1>3. /\ r \in Request /\ r.pc = "read" /\ r.reply = "none" /\ r.op = "update"
        /\ r.id = i
    BY <1>2, IdleTyped DEF Idle, Request
  <1>4. Knows(r)
    BY <1>3 DEF Knows
  <1> HIDE DEF r
  <1>5. QED BY <1>1, <1>3, <1>4, BeginInv DEF r

LEMMA BeginSupersedeInv ==
    ASSUME Inv, NEW c \in Clients, BeginSupersede(c)
    PROVE  Inv'
  <1>1. PICK i \in Ids, s \in Statuses :
          Begin(c, [Idle EXCEPT !.pc = "read", !.op = "supersede", !.id = i, !.status = s])
    BY DEF BeginSupersede
  <1> DEFINE r == [Idle EXCEPT !.pc = "read", !.op = "supersede", !.id = i, !.status = s]
  <1>2. i \in 0..MaxRows
    BY InterpretationAssumption DEF Ids
  <1>3. /\ r \in Request /\ r.pc = "read" /\ r.reply = "none" /\ r.op = "supersede"
        /\ r.id = i /\ r.status = s
    BY <1>2, IdleTyped DEF Idle, Request
  <1>4. Knows(r)
    BY <1>3 DEF Knows
  <1> HIDE DEF r
  <1>5. QED BY <1>1, <1>3, <1>4, BeginInv DEF r

LEMMA ReadInterpretationInv ==
    ASSUME Inv, NEW c \in Clients, ReadInterpretation(c)
    PROVE  Inv'
  <1>1. CASE interpretations[request[c].id].status = Null
    BY <1>1, FailInv DEF ReadInterpretation
  <1>2. CASE interpretations[request[c].id].status # Null
    <2> DEFINE q == request[c]
               r == Completed(q, interpretations[q.id])
    <2>1. /\ q.pc = "read" /\ q.id \in Ids /\ q.op \in {"update", "supersede"}
          /\ q.op = "supersede" => q.status \in Statuses
      BY RequestTyped DEF ReadInterpretation, Knows
    <2>3. q.id \in 1..rows
      BY <1>2, <2>1, InterpretationAssumption DEF Inv, TypeOK, Ids
    <2>a. /\ interpretations[q.id] \in Row /\ interpretations[q.id].status # Null
          /\ interpretations[q.id].actor \in Actors
      BY <1>2, <2>1, <2>3 DEF Inv, TypeOK, RowsFiled
    <2>2. /\ r \in Request /\ r.pc = q.op /\ r.op = q.op /\ r.id = q.id /\ r.reply # "ok"
          /\ r.row = interpretations[q.id]
          /\ r.status # Null /\ r.actor \in Actors
          /\ q.status # Null => r.status = q.status
      <3>1. q \in Request /\ q.reply # "ok"
        BY RequestTyped, <2>1
      <3>2. PICK row \in Row : row = interpretations[q.id]
        BY <2>a
      <3>3. /\ row.status \in Statuses \cup {"superseded", Null}
            /\ row.status # Null /\ row.actor \in Actors
        BY <2>a, <3>2 DEF Row
      <3>4. r = [q EXCEPT !.pc = q.op, !.row = row,
                          !.status = IF @ = Null THEN row.status ELSE @,
                          !.actor = IF @ = Null THEN row.actor ELSE @]
        BY <3>2 DEF Completed
      <3> HIDE DEF r
      <3>5. r \in Request /\ r.pc = q.op /\ r.op = q.op /\ r.id = q.id /\ r.reply = q.reply
        BY <2>1, <3>1, <3>3, <3>4 DEF Request
      <3>6. /\ r.row = row
            /\ r.status = IF q.status = Null THEN row.status ELSE q.status
            /\ r.actor = IF q.actor = Null THEN row.actor ELSE q.actor
        BY <3>1, <3>4 DEF Request
      <3>7. q.actor \in Actors \cup {Null}
        BY <3>1 DEF Request
      <3>8. QED BY <3>1, <3>2, <3>3, <3>5, <3>6, <3>7
    <2>4. r.row.supersededBy # 0 => Heir(r.id, r.row.supersededBy)
      BY <2>2, <2>3 DEF Inv, LineageWellFounded, Heir, SameOrigin
    <2>5. Knows(r)
      BY <1>2, <2>1, <2>2, <2>3, <2>4, InterpretationAssumption DEF Knows, SameOrigin
    <2>6. /\ request' = [request EXCEPT ![c] = r]
          /\ UNCHANGED <<rows, interpretations, events>>
      BY <1>2 DEF ReadInterpretation, Update
    <2> HIDE DEF r, q
    <2>7. QED BY <2>2, <2>5, <2>6, RequestStepInv
  <1>3. QED BY <1>1, <1>2

LEMMA InsertInterpretationInv ==
    ASSUME Inv, NEW c \in Clients, InsertInterpretation(c)
    PROVE  Inv'
  <1> DEFINE q == request[c]
             row == [intent |-> q.intent, actor |-> q.actor, status |-> q.status,
                     supersededBy |-> 0]
  <1>1. /\ rows' = rows + 1 /\ rows + 1 \in Ids /\ rows' \in 0..MaxRows
        /\ rows \in Nat /\ \A i \in 1..rows : i \in Ids /\ i # rows + 1
    BY RowsAreNat DEF InsertInterpretation, Inv, TypeOK, Ids
  <1>2. /\ q.pc = "insert" /\ q.op = "create" /\ q.intent \in Intents
        /\ q.actor \in Actors /\ q.status \in Statuses
    BY RequestTyped DEF InsertInterpretation, Knows
  <1>3. /\ row \in Row /\ row.status # Null /\ row.supersededBy = 0
        /\ row.intent \in Intents /\ row.actor \in Actors
    BY <1>2, InterpretationAssumption DEF Row
  <1>4. rows + 1 \in 0..MaxRows
    BY <1>1
  <1>5. PICK r \in Request : r = Written(q, "filed_event", rows + 1, q.actor)
    BY RequestTyped, WrittenTyped, <1>2, <1>4
  <1>6. /\ r.pc = "filed_event" /\ r.created = rows + 1
         /\ r.op = "create" /\ r.actor = q.actor /\ r.reply # "ok"
    BY RequestTyped, WrittenTyped, <1>2, <1>4, <1>5
  <1>7. /\ interpretations' = [interpretations EXCEPT ![rows + 1] = row]
        /\ request' = [request EXCEPT ![c] = r] /\ UNCHANGED events
    BY <1>5 DEF InsertInterpretation, Update
  <1> HIDE DEF row, q
  <1>8. /\ interpretations' \in [Ids -> Row] /\ interpretations'[rows + 1] = row
        /\ \A i \in 1..rows : interpretations'[i] = interpretations[i]
        /\ \A i \in Ids : interpretations'[i].status = Null <=> i > rows'
    BY <1>1, <1>3, <1>7 DEF Inv, TypeOK, Ids
  <1>9. Grown /\ RowsFiled' /\ LineageWellFounded'
    BY <1>1, <1>3, <1>7, <1>8
       DEF Grown, SameOrigin, RowsFiled, LineageWellFounded, Inv
  <1>10. Knows(r)'
    BY <1>1, <1>2, <1>6 DEF Knows
  <1>11. QED BY <1>1, <1>7, <1>8, <1>9, <1>10, <1>6, StepInv DEF Inv, TypeOK

LEMMA UpdateInterpretationInv ==
    ASSUME Inv, NEW c \in Clients, UpdateInterpretation(c)
    PROVE  Inv'
  <1> DEFINE q == request[c]
             row == Merged(q)
  <1>1. /\ q.pc = "update" /\ q.op = "update" /\ q.id \in 1..rows /\ q.id \in Ids
        /\ SameOrigin(q.row, interpretations[q.id]) /\ q.status # Null /\ q.actor \in Actors
        /\ q.row.supersededBy # 0 => Heir(q.id, q.row.supersededBy)
    BY RequestTyped, RowsAreNat DEF UpdateInterpretation, Knows, Inv
  <1>2. /\ row \in Row /\ row.status # Null /\ row.supersededBy = q.row.supersededBy
        /\ SameOrigin(row, interpretations[q.id])
    <2>1. q.row \in Row /\ q.status \in Statuses \cup {"superseded", Null}
      BY RequestTyped DEF Request
    <2>2. QED BY <1>1, <2>1 DEF Merged, Row, SameOrigin
  <1>a. 0 \in 0..MaxRows
    BY InterpretationAssumption
  <1>3. PICK r \in Request : r = Written(q, "updated_event", 0, q.actor)
    BY RequestTyped, WrittenTyped, <1>1, <1>a
  <1>4. /\ r.pc = "updated_event" /\ r.op = "update" /\ r.id = q.id
         /\ r.actor \in Actors /\ r.reply # "ok"
    BY RequestTyped, WrittenTyped, <1>1, <1>3, <1>a
  <1>5. /\ interpretations' = [interpretations EXCEPT ![q.id] = row]
        /\ request' = [request EXCEPT ![c] = r] /\ UNCHANGED <<rows, events>>
    BY <1>3 DEF UpdateInterpretation, Update
  <1> HIDE DEF row, q
  <1>6. /\ interpretations' \in [Ids -> Row] /\ interpretations'[q.id] = row
        /\ \A i \in Ids : i # q.id => interpretations'[i] = interpretations[i]
        /\ \A i \in Ids : interpretations'[i].status = Null <=> i > rows'
    BY <1>1, <1>2, <1>5, InterpretationAssumption DEF Inv, TypeOK, Ids
  <1>7. \A i \in 1..rows : i \in Ids /\ SameOrigin(interpretations'[i], interpretations[i])
    BY <1>2, <1>6, RowsAreNat DEF SameOrigin, Inv
  <1>8. Grown /\ RowsFiled'
    BY <1>5, <1>7, RowsAreNat DEF Grown, SameOrigin, RowsFiled, Inv
  <1>9. LineageWellFounded'
    <2>1. SUFFICES ASSUME NEW i \in 1..rows, interpretations'[i].supersededBy # 0
                   PROVE  /\ interpretations'[i].supersededBy \in (i + 1)..rows
                          /\ SameOrigin(interpretations'[interpretations'[i].supersededBy],
                                        interpretations'[i])
      BY <1>5 DEF LineageWellFounded, SameOrigin
    <2>2. Heir(i, interpretations'[i].supersededBy)
      <3>1. CASE i = q.id
        BY <1>1, <1>2, <1>6, <2>1, <3>1
      <3>2. CASE i # q.id
        BY <1>6, <1>7, <2>1, <3>2 DEF Inv, LineageWellFounded, Heir, SameOrigin
      <3>3. QED BY <3>1, <3>2
    <2>3. interpretations'[i].supersededBy \in 1..rows
      BY <2>2, RowsAreNat DEF Heir, Inv
    <2>4. QED BY <1>7, <2>2, <2>3 DEF Heir, SameOrigin
  <1>10. Knows(r)'
    BY <1>1, <1>5, <1>7, <1>4 DEF Knows, SameOrigin
  <1>11. QED BY <1>5, <1>6, <1>8, <1>9, <1>10, <1>4, StepInv DEF Inv, TypeOK

LEMMA SupersedeTransactionInv ==
    ASSUME Inv, NEW c \in Clients, SupersedeTransaction(c)
    PROVE  Inv'
  <1> DEFINE q == request[c]
             id == rows + 1
             new == Replacement(q)
  <1>1. /\ rows' = id /\ id \in Ids /\ rows' \in 0..MaxRows
        /\ rows \in Nat /\ \A i \in 1..rows : i \in Ids /\ i # id
    BY RowsAreNat DEF SupersedeTransaction, Inv, TypeOK, Ids
  <1>2. /\ q.pc = "supersede" /\ q.op = "supersede" /\ q.id \in 1..rows
        /\ q.id \in Ids /\ q.id # id /\ q.status \in Statuses
        /\ SameOrigin(q.row, interpretations[q.id])
    BY <1>1, RequestTyped DEF SupersedeTransaction, Knows
  <1>3. /\ new \in Row /\ new.status # Null /\ new.supersededBy = 0
        /\ SameOrigin(new, interpretations[q.id])
    BY <1>2, RequestTyped, InterpretationAssumption DEF Replacement, Row, SameOrigin
  <1>a. q.row.actor \in Actors /\ id \in 0..MaxRows
    BY <1>1, <1>2 DEF Inv, RowsFiled, SameOrigin
  <1>4. PICK r \in Request : r = Written(q, "superseded_event", id, q.row.actor)
    BY RequestTyped, WrittenTyped, <1>a
  <1>5. /\ r.pc = "superseded_event" /\ r.created = id /\ r.id = q.id
        /\ r.actor = interpretations[q.id].actor
        /\ r.op = "supersede" /\ r.reply # "ok"
    BY RequestTyped, WrittenTyped, <1>2, <1>4, <1>a DEF SameOrigin
  <1>6. /\ interpretations' = [interpretations EXCEPT
               ![id] = new, ![q.id].status = "superseded", ![q.id].supersededBy = id]
        /\ request' = [request EXCEPT ![c] = r] /\ UNCHANGED events
    BY <1>4 DEF SupersedeTransaction, Update
  <1>7. "superseded" # Null
    BY InterpretationAssumption
  <1> HIDE DEF q, new
  <1>8. /\ interpretations' \in [Ids -> Row] /\ interpretations'[id] = new
        /\ \A i \in 1..rows : i # q.id => interpretations'[i] = interpretations[i]
        /\ interpretations'[q.id].supersededBy = id
        /\ interpretations'[q.id].status = "superseded"
        /\ SameOrigin(interpretations'[q.id], interpretations[q.id])
        /\ \A i \in Ids : i # q.id /\ i # id => interpretations'[i] = interpretations[i]
    BY <1>1, <1>2, <1>3, <1>6 DEF Inv, TypeOK, Row, SameOrigin
  <1>9. \A i \in Ids : interpretations'[i].status = Null <=> i > rows'
    BY <1>1, <1>2, <1>3, <1>7, <1>8 DEF Inv, TypeOK, Ids
  <1>10. \A i \in 1..rows : SameOrigin(interpretations'[i], interpretations[i])
    BY <1>8 DEF SameOrigin
  <1>11. Grown /\ RowsFiled'
    BY <1>1, <1>2, <1>3, <1>6, <1>8, <1>10 DEF Grown, SameOrigin, RowsFiled, Inv
  <1>12. LineageWellFounded'
    BY <1>1, <1>2, <1>3, <1>8, <1>10 DEF LineageWellFounded, SameOrigin, Inv
  <1>13. Knows(r)'
    BY <1>1, <1>2, <1>3, <1>5, <1>8 DEF Knows, Heir, SameOrigin
  <1>14. QED BY <1>1, <1>5, <1>6, <1>8, <1>9, <1>11, <1>12, <1>13, StepInv DEF Inv, TypeOK

\* An event is added, of a supersession only if its replacement is in the table.
LEMMA EmitInv ==
    ASSUME Inv, NEW c \in Clients, NEW r \in Request, NEW e \in Event,
           events' = events \cup {e}, UNCHANGED <<rows, interpretations>>,
           request' = [request EXCEPT ![c] = r], Knows(r)',
           e.type = "superseded" =>
               \E j : /\ Heir(e.id, j)
                      /\ interpretations[j].actor = e.actor,
           r.reply = "ok" =>
               LET Recorded(type, i) == \E d \in events' : d.type = type /\ d.id = i
               IN  /\ r.pc = "idle"
                   /\ r.op \in {"create", "supersede"} => Recorded("filed", r.created)
                   /\ r.op = "supersede" => Recorded("superseded", r.id)
                   /\ r.op = "update" => Recorded("updated", r.id)
    PROVE  Inv'
  <1>1. Grown
    BY RowsAreNat DEF Inv, Grown, SameOrigin
  <1>2. RowsFiled' /\ LineageWellFounded'
    BY DEF Inv, RowsFiled, LineageWellFounded
  <1>3. \A d \in events' : d \in events \/ d.type # "superseded"
                              \/ \E j \in (d.id + 1)..rows' :
                                    /\ interpretations'[j].intent = interpretations'[d.id].intent
                                    /\ interpretations'[j].actor = d.actor
    BY DEF Heir, SameOrigin
  <1>4. QED BY <1>1, <1>2, <1>3, StepInv DEF Inv, TypeOK

LEMMA EmitUpdatedInv ==
    ASSUME Inv, NEW c \in Clients, EmitUpdated(c)
    PROVE  Inv'
  <1> DEFINE q == request[c]
             e == [type |-> "updated", id |-> q.id, actor |-> q.actor]
  <1>1. /\ q.pc = "updated_event" /\ q.op = "update" /\ q.id \in 1..rows /\ q.id \in Ids
        /\ q.actor \in Actors
    BY RequestTyped, RowsAreNat DEF EmitUpdated, Knows, Inv
  <1>2. e \in Event /\ e.type = "updated" /\ e.id = q.id
    BY <1>1 DEF Event
  <1>3. PICK r \in Request :
          /\ request' = [request EXCEPT ![c] = r]
          /\ r.pc = "idle" /\ r.op = q.op /\ r.id = q.id
          /\ r.created = q.created /\ r.reply = "ok"
    BY AnswerTyped DEF EmitUpdated
  <1>4. r.pc = "idle" /\ r.op = "update" /\ r.id = q.id
    BY <1>1, <1>3
  <1>5. /\ events' = events \cup {e} /\ request' = [request EXCEPT ![c] = r]
        /\ UNCHANGED <<rows, interpretations>>
    BY <1>3 DEF EmitUpdated
  <1>6. Knows(r)'
    BY <1>4 DEF Knows
  <1> HIDE DEF q, e
  <1>7. PICK d \in Event : d = e
    BY <1>2
  <1>8. QED BY <1>2, <1>4, <1>5, <1>6, <1>7, EmitInv

LEMMA EmitSupersededInv ==
    ASSUME Inv, NEW c \in Clients, EmitSuperseded(c)
    PROVE  Inv'
  <1> DEFINE q == request[c]
             e == [type |-> "superseded", id |-> q.id, actor |-> q.actor]
  <1>1. /\ q.pc = "superseded_event" /\ q.op = "supersede" /\ q.id \in 1..rows
        /\ q.id \in Ids /\ q.actor = interpretations[q.id].actor
        /\ q.actor \in Actors /\ Heir(q.id, q.created)
    BY RequestTyped, RowsAreNat DEF EmitSuperseded, Knows, SameOrigin, Inv, RowsFiled
  <1>2. e \in Event /\ e.type = "superseded" /\ e.id = q.id /\ e.actor = q.actor
    BY <1>1 DEF Event
  <1>3. interpretations[q.created].actor = e.actor
    BY <1>1, <1>2 DEF Heir, SameOrigin
  <1>4. PICK r \in Request : r = [q EXCEPT !.pc = "filed_event"]
    BY RequestTyped DEF Request
  <1>5. /\ r.pc = "filed_event" /\ r.op = "supersede" /\ r.id = q.id
        /\ r.created = q.created /\ r.actor = q.actor /\ r.reply # "ok"
    BY <1>1, <1>4, RequestTyped DEF Request
  <1>6. /\ events' = events \cup {e} /\ request' = [request EXCEPT ![c] = r]
        /\ UNCHANGED <<rows, interpretations>>
    BY <1>4 DEF EmitSuperseded, Update
  <1>7. q.created \in 1..rows
    BY <1>1, RowsAreNat DEF Heir, Inv
  <1> HIDE DEF q, e
  <1>8. PICK d \in Event : d = e
    BY <1>2
  <1>9. RecordedSuperseded(r.id)'
    BY <1>2, <1>5, <1>6, <1>8 DEF RecordedSuperseded
  <1>10. Knows(r)'
    BY <1>1, <1>5, <1>6, <1>7, <1>9 DEF Knows
  <1>11. QED BY <1>1, <1>2, <1>3, <1>5, <1>6, <1>8, <1>10, EmitInv

LEMMA EmitFiledInv ==
    ASSUME Inv, NEW c \in Clients, EmitFiled(c)
    PROVE  Inv'
  <1> DEFINE q == request[c]
             e == [type |-> "filed", id |-> q.created, actor |-> q.actor]
  <1>1. /\ q.pc = "filed_event" /\ q.created \in 1..rows /\ q.created \in Ids
        /\ q.op \in {"create", "supersede"}
        /\ q.actor \in Actors
        /\ q.op = "supersede" => RecordedSuperseded(q.id)
    BY RequestTyped, RowsAreNat DEF EmitFiled, Knows, Inv
  <1>2. e \in Event /\ e.type = "filed" /\ e.id = q.created
    BY <1>1 DEF Event
  <1>3. PICK r \in Request :
          /\ request' = [request EXCEPT ![c] = r]
          /\ r.pc = "idle" /\ r.op = q.op /\ r.id = q.id
          /\ r.created = q.created /\ r.reply = "ok"
    BY AnswerTyped DEF EmitFiled
  <1>4. /\ r.pc = "idle" /\ r.op = q.op /\ r.id = q.id /\ r.created = q.created
    BY <1>3
  <1>5. /\ events' = events \cup {e} /\ request' = [request EXCEPT ![c] = r]
        /\ UNCHANGED <<rows, interpretations>>
    BY <1>3 DEF EmitFiled
  <1>6. Knows(r)'
    BY <1>4 DEF Knows
  <1> HIDE DEF q, e
  <1>7. PICK d \in Event : d = e
    BY <1>2
  <1>8. /\ \E x \in events' : x.type = "filed" /\ x.id = r.created
        /\ r.op = "supersede" => \E x \in events' : x.type = "superseded" /\ x.id = r.id
        /\ r.op # "update"
    BY <1>1, <1>2, <1>4, <1>5 DEF RecordedSuperseded
  <1>9. QED BY <1>2, <1>4, <1>5, <1>6, <1>7, <1>8, EmitInv

LEMMA CrashInv ==
    ASSUME Inv, NEW c \in Clients, Crash(c)
    PROVE  Inv'
  <1>1. Idle.reply # "ok"
    BY DEF Idle
  <1>2. QED BY <1>1, IdleTyped, RequestStepInv DEF Crash, Update

-----------------------------------------------------------------------------
(* The theorems *)

LEMMA InitInv == Init => Inv
  <1> SUFFICES ASSUME Init PROVE Inv
    OBVIOUS
  <1>1. TypeOK
    BY IdleTyped, InterpretationAssumption DEF Init, TypeOK, Ids, NoRow
  <1>2. \A c \in Clients : Knows(request[c]) /\ request[c].reply = "none"
    BY IdleTyped DEF Init
  <1>3. RowsFiled /\ LineageWellFounded
    BY DEF Init, RowsFiled, LineageWellFounded
  <1>4. QED BY <1>1, <1>2, <1>3 DEF Init, Inv, RepliesLast, TrailTruthful,
                                    AcknowledgedIsRecorded

LEMMA NextInv == Inv /\ [Next]_vars => Inv'
  <1> SUFFICES ASSUME Inv, [Next]_vars PROVE Inv'
    OBVIOUS
  <1>1. ASSUME NEW c \in Clients, BeginCreate(c) PROVE Inv'
    BY <1>1, BeginCreateInv
  <1>2. ASSUME NEW c \in Clients, BeginUpdate(c) PROVE Inv'
    BY <1>2, BeginUpdateInv
  <1>3. ASSUME NEW c \in Clients, BeginSupersede(c) PROVE Inv'
    BY <1>3, BeginSupersedeInv
  <1>4. ASSUME NEW c \in Clients, RequestStep(c) PROVE Inv'
    BY <1>4, InsertInterpretationInv, ReadInterpretationInv, UpdateInterpretationInv,
       EmitUpdatedInv, SupersedeTransactionInv, EmitSupersededInv, EmitFiledInv
       DEF RequestStep
  <1>5. ASSUME NEW c \in Clients, WriteBusy(c) PROVE Inv'
    BY <1>5, FailInv DEF WriteBusy
  <1>6. ASSUME NEW c \in Clients, Crash(c) PROVE Inv'
    BY <1>6, CrashInv
  <1>7. CASE UNCHANGED vars
    BY <1>7 DEF vars, Inv, TypeOK, Knows, Heir, RecordedSuperseded, RowsFiled, RepliesLast,
                LineageWellFounded, TrailTruthful, AcknowledgedIsRecorded
  <1>8. QED BY <1>1, <1>2, <1>3, <1>4, <1>5, <1>6, <1>7 DEF Next

LEMMA Invariance == Spec => []Inv
  BY InitInv, NextInv, PTL DEF Spec

\* Following the links of supersession goes to younger rows of the same intent and
\* actor only, so it ends: although supersedeInterpretation looks at no status and
\* updateInterpretation writes back a link it read before others changed it.
THEOREM LineageEnds == Spec => []LineageWellFounded
  <1>1. Inv => LineageWellFounded
    BY DEF Inv
  <1>2. QED BY <1>1, Invariance, PTL

\* Every supersession in the trail left a replacement in the table.
THEOREM TrailIsTruthful == Spec => []TrailTruthful
  <1>1. Inv => TrailTruthful
    BY DEF Inv
  <1>2. QED BY <1>1, Invariance, PTL

\* Whoever was answered ok finds all events of the operation in the trail.
THEOREM AcknowledgedInterpretations == Spec => []AcknowledgedIsRecorded
  <1>1. Inv => AcknowledgedIsRecorded
    BY DEF Inv
  <1>2. QED BY <1>1, Invariance, PTL

LEMMA UndoneStep ==
    Inv /\ Next =>
        \A i \in 1..rows :
            interpretations[i].supersededBy # 0 /\ interpretations'[i].supersededBy = 0 =>
                \E c \in Clients : /\ request[c].pc = "update" /\ request[c].id = i
                                   /\ request[c].row.supersededBy = 0
  <1> SUFFICES ASSUME Inv, Next, NEW i \in 1..rows,
                      interpretations[i].supersededBy # 0,
                      interpretations'[i].supersededBy = 0
               PROVE  \E c \in Clients : /\ request[c].pc = "update" /\ request[c].id = i
                                         /\ request[c].row.supersededBy = 0
    OBVIOUS
  <1>1. i \in Ids /\ rows \in Nat /\ i # rows + 1 /\ rows + 1 # 0
    BY RowsAreNat DEF Inv
  <1>2. PICK c \in Clients : \/ InsertInterpretation(c)
                             \/ UpdateInterpretation(c)
                             \/ SupersedeTransaction(c)
    BY DEF Next, BeginCreate, BeginUpdate, BeginSupersede, Begin, RequestStep,
           ReadInterpretation, EmitUpdated, EmitSuperseded, EmitFiled, WriteBusy,
           Crash, Fail
  <1>3. CASE InsertInterpretation(c)
    BY <1>1, <1>3 DEF InsertInterpretation, Inv, TypeOK
  <1>4. CASE SupersedeTransaction(c)
    BY <1>1, <1>4 DEF SupersedeTransaction, Inv, TypeOK, Row
  <1>5. CASE UpdateInterpretation(c)
    <2>1. request[c].pc = "update" /\ request[c].id \in Ids /\ request[c].row \in Row
      BY <1>5, RequestTyped, RowsAreNat DEF UpdateInterpretation, Knows, Inv
    <2>2. request[c].id = i
      BY <1>5 DEF UpdateInterpretation, Inv, TypeOK
    <2>3. interpretations'[i] = Merged(request[c])
      BY <1>1, <1>5, <2>2 DEF UpdateInterpretation, Inv, TypeOK
    <2>4. interpretations'[i].supersededBy = request[c].row.supersededBy
      BY <2>1, <2>3 DEF Merged, Row
    <2>5. QED BY <2>1, <2>2, <2>4
  <1>6. QED BY <1>2, <1>3, <1>4, <1>5

\* A supersession is taken back by one kind of step only: the write of an update
\* that read the row before it was superseded.
THEOREM OnlyStaleUpdatesUndo == Spec => UndoneOnlyByStaleUpdate
  BY InitInv, NextInv, UndoneStep, PTL DEF Spec, UndoneOnlyByStaleUpdate

=============================================================================
