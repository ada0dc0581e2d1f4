------------------------ MODULE ContractRegistry_proofs ------------------------
(***************************************************************************)
(* Theorems about ContractRegistry, for every set of clients, keys and     *)
(* actors and every size of the table: the types, the safety invariants of *)
(* the contract table, the hierarchy of contracts, and that the registry   *)
(* implements KeyedRevisions.                                              *)
(***************************************************************************)
EXTENDS ContractRegistry, TLAPS

-----------------------------------------------------------------------------
(* Type correctness *)

LEMMA BoundIsNat == MaxRows \in Nat
  BY RegistryAssumption

LEMMA AnsweredTyped ==
    ASSUME NEW reply \in {"none", "ok", "error"}, NEW id \in 0..MaxRows, NEW n
    PROVE  /\ Answered(reply, id) \in Request
           /\ WellFormed(Answered(reply, id), n)
  <1>1. Answered(reply, id) \in Request
    BY BoundIsNat DEF Answered, Request, OptKeys, OptActors, OpenStatuses, Steps
  <1>2. WellFormed(Answered(reply, id), n)
    BY DEF Answered, WellFormed
  <1>3. QED BY <1>1, <1>2

\* Adding rows to the table keeps every request well formed.
LEMMA WellFormedMonotone ==
    ASSUME NEW m \in Nat, NEW n \in Nat, m <= n, NEW r, WellFormed(r, m)
    PROVE  WellFormed(r, n)
  BY DEF WellFormed

\* A step that replaces one request by a well-formed one, and adds no row, is
\* type safe.
LEMMA RequestUpdateTypeOK ==
    ASSUME TypeOK, NEW c \in Clients, NEW r \in Request, WellFormed(r, rows),
           request' = [request EXCEPT ![c] = r],
           UNCHANGED <<actorStatus, rows, contracts>>,
           events' \subseteq Event
    PROVE  TypeOK'
  <1>1. request' \in [Clients -> Request]
    BY DEF TypeOK
  <1>2. \A d \in Clients : WellFormed(request'[d], rows')
    BY DEF TypeOK
  <1>3. QED BY <1>1, <1>2 DEF TypeOK, Ids

\* A failing request leaves the tables and the other requests as they were.
LEMMA FailTypeOK ==
    ASSUME TypeOK, NEW c \in Clients, Fail(c)
    PROVE  TypeOK'
  <1>1. Answered("error", 0) \in Request /\ WellFormed(Answered("error", 0), rows)
    BY AnsweredTyped, BoundIsNat
  <1>2. QED BY <1>1, RequestUpdateTypeOK DEF Fail, TypeOK

LEMMA BeginTypeOK ==
    ASSUME TypeOK, NEW c \in Clients, NEW r \in Request, NEW ok \in BOOLEAN,
           Begin(c, r, ok), ok => WellFormed(r, rows)
    PROVE  TypeOK'
  <1>1. CASE ok
    BY <1>1, RequestUpdateTypeOK DEF Begin, TypeOK
  <1>2. CASE ~ok
    BY <1>2, FailTypeOK DEF Begin
  <1>3. QED BY <1>1, <1>2

LEMMA BeginRegisterTypeOK ==
    ASSUME TypeOK, NEW c \in Clients, BeginRegister(c)
    PROVE  TypeOK'
  <1>1. PICK k \in Keys, p \in OptKeys, g \in Governing, isRoot \in BOOLEAN,
             s \in Statuses, a \in Actors :
          Begin(c, RegisterRequest(k, p, g, s, a),
                s \in OpenStatuses /\ (isRoot <=> p = Null))
    BY DEF BeginRegister
  <1>2. CASE s \in OpenStatuses
    <2>1. g \in OptKeys
      BY RegistryAssumption DEF OptKeys
    <2>2. RegisterRequest(k, p, g, s, a) \in Request
      BY <1>2, <2>1, BoundIsNat
         DEF RegisterRequest, Request, OptKeys, OptActors, Steps
    <2>3. WellFormed(RegisterRequest(k, p, g, s, a), rows)
      BY DEF RegisterRequest, WellFormed
    <2>4. QED BY <1>1, <2>2, <2>3, BeginTypeOK
  <1>3. CASE s \notin OpenStatuses
    BY <1>1, <1>3, FailTypeOK DEF Begin
  <1>4. QED BY <1>2, <1>3

LEMMA BeginSupersedeTypeOK ==
    ASSUME TypeOK, NEW c \in Clients, BeginSupersede(c)
    PROVE  TypeOK'
  <1>1. PICK i \in Ids, g \in Governing, s \in Statuses, a \in Actors :
          Begin(c, SupersedeRequest(i, g, s, a), s \in OpenStatuses)
    BY DEF BeginSupersede
  <1>2. CASE s \in OpenStatuses
    <2>1. g \in OptKeys /\ i \in 0..MaxRows
      BY RegistryAssumption DEF OptKeys, Ids
    <2>2. SupersedeRequest(i, g, s, a) \in Request
      BY <1>2, <2>1, BoundIsNat
         DEF SupersedeRequest, Request, OptKeys, OptActors, Steps
    <2>3. WellFormed(SupersedeRequest(i, g, s, a), rows)
      BY DEF SupersedeRequest, WellFormed
    <2>4. Begin(c, SupersedeRequest(i, g, s, a), TRUE)
      BY <1>1, <1>2 DEF Begin
    <2>5. QED BY <2>2, <2>3, <2>4, BeginTypeOK
  <1>3. CASE s \notin OpenStatuses
    BY <1>1, <1>3, FailTypeOK DEF Begin
  <1>4. QED BY <1>2, <1>3

\* Moving a request to the next step keeps it well formed when that step asks
\* no more of it than the request already has.
LEMMA ContinueTypeOK ==
    ASSUME TypeOK, NEW c \in Clients, NEW s \in Steps, Continue(c, s),
           WellFormed([request[c] EXCEPT !.pc = s], rows)
    PROVE  TypeOK'
  <1>1. [request[c] EXCEPT !.pc = s] \in Request
    BY DEF TypeOK, Request
  <1>2. request' = [request EXCEPT ![c] = [request[c] EXCEPT !.pc = s]]
    BY DEF Continue, Goto
  <1>3. QED BY <1>1, <1>2, RequestUpdateTypeOK DEF Continue, TypeOK

LEMMA ChecksTypeOK ==
    ASSUME TypeOK, NEW c \in Clients,
           \/ CheckCustodian(c) \/ CheckParent(c) \/ CheckGoverning(c)
           \/ SelectOpen(c) \/ ReadCurrent(c)
    PROVE  TypeOK'
  <1>1. request[c] \in Request /\ WellFormed(request[c], rows)
    BY DEF TypeOK
  <1>2. CASE CheckCustodian(c)
    <2>1. WellFormed([request[c] EXCEPT !.pc =
                         IF request[c].op = "register" THEN "parent" ELSE "governing"], rows)
      BY <1>1, <1>2 DEF CheckCustodian, WellFormed, Request
    <2>2. QED BY <1>2, <2>1, ContinueTypeOK, FailTypeOK DEF CheckCustodian, Steps
  <1>3. CASE CheckParent(c)
    <2>1. WellFormed([request[c] EXCEPT !.pc = "governing"], rows)
      BY <1>1, <1>3 DEF CheckParent, WellFormed, Request
    <2>2. QED BY <1>3, <2>1, ContinueTypeOK, FailTypeOK DEF CheckParent, Steps
  <1>4. CASE CheckGoverning(c)
    <2>1. WellFormed([request[c] EXCEPT !.pc =
                         IF request[c].op = "register" THEN "select" ELSE "current"], rows)
      BY <1>1, <1>4 DEF CheckGoverning, WellFormed, Request
    <2>2. QED BY <1>4, <2>1, ContinueTypeOK, FailTypeOK DEF CheckGoverning, Steps
  <1>5. CASE SelectOpen(c)
    <2>1. WellFormed([request[c] EXCEPT !.pc = "insert"], rows)
      BY <1>1, <1>5 DEF SelectOpen, WellFormed, Request
    <2>2. QED BY <1>5, <2>1, ContinueTypeOK, FailTypeOK DEF SelectOpen, Steps
  <1>6. CASE ReadCurrent(c)
    <2>1. CASE IsOpen(request[c].target)
      <3>1. request[c].target \in Ids
        BY <1>1, <1>6 DEF ReadCurrent, WellFormed
      <3>2. request[c].target \in 1..rows
        BY <2>1, <3>1 DEF TypeOK, IsOpen, OpenStatuses, Ids
      <3>3. WellFormed([request[c] EXCEPT !.pc = "transaction"], rows)
        BY <1>1, <1>6, <3>2 DEF ReadCurrent, WellFormed, Request
      <3>4. QED BY <1>6, <2>1, <3>3, ContinueTypeOK DEF ReadCurrent, Steps
    <2>2. CASE ~IsOpen(request[c].target)
      BY <1>6, <2>2, FailTypeOK DEF ReadCurrent
    <2>3. QED BY <2>1, <2>2
  <1>7. QED BY <1>2, <1>3, <1>4, <1>5, <1>6

\* A step that adds row rows + 1 for client c, changing other rows only within
\* their type, is type safe.
LEMMA NewRowTypeOK ==
    ASSUME TypeOK, NEW c \in Clients, NEW s \in Steps,
           rows < MaxRows, rows' = rows + 1,
           contracts' \in [Ids -> Row],
           \A i \in Ids : contracts'[i].status = "absent" <=> i > rows + 1,
           request' = [request EXCEPT ![c].pc = s, ![c].created = rows + 1],
           WellFormed([request[c] EXCEPT !.pc = s, !.created = rows + 1], rows + 1),
           UNCHANGED <<actorStatus, events>>
    PROVE  TypeOK'
  <1> DEFINE r == [request[c] EXCEPT !.pc = s, !.created = rows + 1]
  <1>1. rows \in Nat /\ rows' \in 0..MaxRows /\ rows <= rows'
    BY BoundIsNat DEF TypeOK
  <1>2. r \in Request
    BY <1>1, BoundIsNat DEF TypeOK, Request
  <1>3. request' = [request EXCEPT ![c] = r]
    BY DEF TypeOK
  <1>4. request' \in [Clients -> Request]
    BY <1>2, <1>3 DEF TypeOK
  <1>5. ASSUME NEW d \in Clients PROVE WellFormed(request'[d], rows')
    <2>1. CASE d = c
      <3>1. request'[d] = r
        BY <1>3, <2>1 DEF TypeOK
      <3>2. QED BY <3>1
    <2>2. CASE d # c
      <3>1. request'[d] = request[d]
        BY <1>3, <2>2 DEF TypeOK
      <3>2. WellFormed(request[d], rows)
        BY DEF TypeOK
      <3>3. QED BY <1>1, <3>1, <3>2, WellFormedMonotone
    <2>3. QED BY <2>1, <2>2
  <1>6. QED BY <1>1, <1>4, <1>5 DEF TypeOK, Ids

LEMMA InsertTypeOK ==
    ASSUME TypeOK, NEW c \in Clients, InsertContract(c)
    PROVE  TypeOK'
  <1> DEFINE r == request[c]
             id == rows + 1
  <1>1. r \in Request /\ WellFormed(r, rows) /\ r.pc = "insert"
    BY DEF TypeOK, InsertContract
  <1>2. CASE ~IndexesAllow(r.key, 1, 0)
    BY <1>2, FailTypeOK DEF InsertContract
  <1>3. CASE IndexesAllow(r.key, 1, 0)
    <2> DEFINE row == FirstRevision(r)
    <2>1. /\ rows < MaxRows
          /\ rows' = id
          /\ contracts' = [contracts EXCEPT ![id] = row]
          /\ request' = [request EXCEPT ![c].pc = "registered_event", ![c].created = id]
          /\ UNCHANGED <<actorStatus, events>>
      BY <1>3 DEF InsertContract
    <2>2. row \in Row /\ row.status \in OpenStatuses
      BY <1>1, BoundIsNat DEF FirstRevision, Row, Request, Statuses
    <2>3. id \in Ids /\ rows \in Nat
      BY <2>1, BoundIsNat DEF TypeOK, Ids
    <2>4. contracts' \in [Ids -> Row]
      BY <2>1, <2>2 DEF TypeOK
    <2>5. \A i \in Ids : contracts'[i].status = "absent" <=> i > id
      BY <2>1, <2>2, <2>3 DEF TypeOK, Ids, OpenStatuses
    <2>6. WellFormed([r EXCEPT !.pc = "registered_event", !.created = id], id)
      BY <1>1, <2>1, <2>3 DEF WellFormed, Request
    <2>7. QED BY <2>1, <2>4, <2>5, <2>6, NewRowTypeOK DEF Steps
  <1>4. QED BY <1>2, <1>3

LEMMA ClosedRowTyped ==
    ASSUME NEW row \in Row, NEW id \in 0..MaxRows
    PROVE  /\ Closed(row, id) \in Row
           /\ Closed(row, id).status = "superseded"
           /\ Closed(row, id).supersededBy = id
  BY DEF Closed, Row, Statuses

LEMMA TransactionTypeOK ==
    ASSUME TypeOK, NEW c \in Clients, SupersedeTransaction(c)
    PROVE  TypeOK'
  <1> DEFINE r == request[c]
             id == rows + 1
             new == Replacement(r)
  <1>1. r \in Request /\ WellFormed(r, rows) /\ r.pc = "transaction"
    BY DEF TypeOK, SupersedeTransaction
  <1>2. CASE ~IndexesAllow(new.key, new.version, r.target)
    BY <1>2, FailTypeOK DEF SupersedeTransaction
  <1>3. CASE IndexesAllow(new.key, new.version, r.target)
    <2>1. /\ rows < MaxRows
          /\ rows' = id
          /\ contracts' = [contracts EXCEPT
                 ![r.target] = Closed(@, id), ![id] = new]
          /\ request' = [request EXCEPT ![c].pc = "superseded_event", ![c].created = id]
          /\ UNCHANGED <<actorStatus, events>>
      BY <1>3 DEF SupersedeTransaction
    <2>2. id \in Ids /\ rows \in Nat /\ r.target \in 1..rows /\ r.target \in Ids
      BY <1>1, <2>1, BoundIsNat DEF TypeOK, Ids, WellFormed
    <2>3. contracts[r.target] \in Row
      BY <2>2 DEF TypeOK
    <2>4. new \in Row /\ new.status \in OpenStatuses
      BY <1>1, <2>2, <2>3, BoundIsNat DEF Replacement, Row, Request, Statuses, Ids
    <2> DEFINE closed == Closed(contracts[r.target], id)
    <2>5. closed \in Row /\ closed.status = "superseded"
      <3>1. id \in 0..MaxRows
        BY <2>2, BoundIsNat DEF Ids
      <3>2. QED BY <2>3, <3>1, ClosedRowTyped
    <2>6. \A i \in Ids : contracts'[i] = IF i = id THEN new
                                         ELSE IF i = r.target THEN closed
                                         ELSE contracts[i]
      BY <2>1, <2>2 DEF TypeOK
    <2>7. contracts' \in [Ids -> Row]
      BY <2>1, <2>4, <2>5 DEF TypeOK
    <2>8. ASSUME NEW i \in Ids
          PROVE  contracts'[i].status = "absent" <=> i > id
      <3>1. CASE i = id
        BY <2>2, <2>4, <2>6, <3>1 DEF OpenStatuses
      <3>2. CASE i = r.target /\ i # id
        BY <2>2, <2>5, <2>6, <3>2
      <3>3. CASE i # r.target /\ i # id
        BY <2>2, <2>6, <3>3 DEF TypeOK, Ids
      <3>4. QED BY <3>1, <3>2, <3>3
    <2>9. WellFormed([r EXCEPT !.pc = "superseded_event", !.created = id], id)
      BY <1>1, <2>1, <2>2 DEF WellFormed, Request
    <2>10. QED BY <2>1, <2>7, <2>8, <2>9, NewRowTypeOK DEF Steps
  <1>4. QED BY <1>2, <1>3

LEMMA EmitTypeOK ==
    ASSUME TypeOK, NEW c \in Clients, EmitSuperseded(c) \/ EmitRegistered(c)
    PROVE  TypeOK'
  <1> DEFINE r == request[c]
  <1>1. r \in Request /\ WellFormed(r, rows) /\ rows \in 0..MaxRows
    BY DEF TypeOK
  <1>2. CASE EmitSuperseded(c)
    <2>1. r.target \in Ids /\ r.actor \in Actors
      BY <1>1, <1>2 DEF EmitSuperseded, WellFormed
    <2>2. events' \subseteq Event
      BY <1>2, <2>1 DEF EmitSuperseded, TypeOK, Event
    <2>3. WellFormed([r EXCEPT !.pc = "registered_event"], rows)
      BY <1>1, <1>2 DEF EmitSuperseded, WellFormed, Request
    <2>4. [r EXCEPT !.pc = "registered_event"] \in Request
      BY <1>1 DEF Request, Steps
    <2>5. request' = [request EXCEPT ![c] = [r EXCEPT !.pc = "registered_event"]]
      BY <1>2 DEF EmitSuperseded, Goto
    <2>6. QED BY <1>2, <2>2, <2>3, <2>4, <2>5, RequestUpdateTypeOK DEF EmitSuperseded
  <1>3. CASE EmitRegistered(c)
    <2> DEFINE done == Answered("ok", r.created)
    <2>1. r.created \in Ids /\ r.actor \in Actors
      BY <1>1, <1>3, BoundIsNat DEF EmitRegistered, WellFormed, Ids
    <2>2. events' \subseteq Event
      BY <1>3, <2>1 DEF EmitRegistered, TypeOK, Event
    <2>3. done \in Request /\ WellFormed(done, rows)
      BY <2>1, BoundIsNat, AnsweredTyped DEF Ids
    <2>4. QED
      BY <1>3, <2>2, <2>3, RequestUpdateTypeOK DEF EmitRegistered
  <1>4. QED BY <1>2, <1>3

LEMMA InitTypeOK == Init => TypeOK
  <1> SUFFICES ASSUME Init PROVE TypeOK
    OBVIOUS
  <1>1. NoRow \in Row
    BY BoundIsNat DEF NoRow, Row, OptKeys, OptActors
  <1>2. \A i \in Ids : contracts[i].status = "absent" <=> i > rows
    BY BoundIsNat DEF Init, NoRow, Ids
  <1>3. Idle \in Request /\ WellFormed(Idle, rows)
    BY AnsweredTyped, BoundIsNat DEF Idle
  <1>4. QED BY <1>1, <1>2, <1>3, BoundIsNat DEF Init, TypeOK

LEMMA NextTypeOK == TypeOK /\ [Next]_vars => TypeOK'
  <1> SUFFICES ASSUME TypeOK, [Next]_vars PROVE TypeOK'
    OBVIOUS
  <1>1. ASSUME NEW c \in Clients, BeginRegister(c) \/ BeginSupersede(c)
        PROVE  TypeOK'
    BY <1>1, BeginRegisterTypeOK, BeginSupersedeTypeOK
  <1>2. ASSUME NEW c \in Clients, RequestStep(c)
        PROVE  TypeOK'
    BY <1>2, ChecksTypeOK, InsertTypeOK, TransactionTypeOK, EmitTypeOK DEF RequestStep
  <1>3. ASSUME NEW c \in Clients, WriteBusy(c)
        PROVE  TypeOK'
    BY <1>3, FailTypeOK DEF WriteBusy
  <1>4. ASSUME NEW c \in Clients, Crash(c)
        PROVE  TypeOK'
    <2>1. Idle \in Request /\ WellFormed(Idle, rows)
      BY AnsweredTyped, BoundIsNat DEF Idle
    <2>2. QED BY <1>4, <2>1, RequestUpdateTypeOK DEF Crash, TypeOK
  <1>5. ASSUME NEW a \in Actors, NEW s \in {"active", "inactive"}, SetActorStatus(a, s)
        PROVE  TypeOK'
    BY <1>5 DEF SetActorStatus, TypeOK, WellFormed
  <1>6. CASE UNCHANGED vars
    BY <1>6 DEF vars, TypeOK, WellFormed
  <1>7. QED BY <1>1, <1>2, <1>3, <1>4, <1>5, <1>6 DEF Next

\* The tables, the trail and the requests always hold values of their types,
\* and every request carries what its next step uses.
THEOREM TypeCorrect == Spec => []TypeOK
  BY InitTypeOK, NextTypeOK, PTL DEF Spec

-----------------------------------------------------------------------------
(* The two steps that change the table, row by row *)

Inserted(c) ==
    LET r == request[c]
    IN  /\ r.pc = "insert" /\ r.key \in Keys /\ r.status \in OpenStatuses
        /\ IndexesAllow(r.key, 1, 0)
        /\ rows < MaxRows /\ rows' = rows + 1
        /\ \A i \in Ids : contracts'[i] = IF i = rows + 1 THEN FirstRevision(r)
                                                          ELSE contracts[i]

Superseded(c) ==
    LET r == request[c]
    IN  /\ r.pc = "transaction" /\ r.status \in OpenStatuses
        /\ r.target \in 1..rows
        /\ IndexesAllow(Replacement(r).key, Replacement(r).version, r.target)
        /\ rows < MaxRows /\ rows' = rows + 1
        /\ \A i \in Ids : contracts'[i] =
               IF i = rows + 1 THEN Replacement(r)
               ELSE IF i = r.target THEN Closed(contracts[i], rows + 1)
               ELSE contracts[i]

LEMMA InsertStep ==
    ASSUME TypeOK, NEW c \in Clients, InsertContract(c)
    PROVE  Inserted(c) \/ UNCHANGED <<rows, contracts>>
  <1>1. CASE IndexesAllow(request[c].key, 1, 0)
    <2>1. request[c] \in Request /\ WellFormed(request[c], rows) /\ rows \in Nat
      BY BoundIsNat DEF TypeOK
    <2>2. request[c].pc = "insert" /\ request[c].key \in Keys
          /\ request[c].status \in OpenStatuses
      BY <2>1 DEF InsertContract, WellFormed, Request
    <2>3. contracts' = [contracts EXCEPT ![rows + 1] = FirstRevision(request[c])]
          /\ rows < MaxRows /\ rows' = rows + 1
      BY <1>1 DEF InsertContract
    <2>4. QED BY <1>1, <2>1, <2>2, <2>3 DEF Inserted, TypeOK
  <1>2. CASE ~IndexesAllow(request[c].key, 1, 0)
    BY <1>2 DEF InsertContract, Fail
  <1>3. QED BY <1>1, <1>2

LEMMA TransactionStep ==
    ASSUME TypeOK, NEW c \in Clients, SupersedeTransaction(c)
    PROVE  Superseded(c) \/ UNCHANGED <<rows, contracts>>
  <1> DEFINE r == request[c]
             new == Replacement(r)
  <1>1. CASE IndexesAllow(new.key, new.version, r.target)
    <2>1. r \in Request /\ WellFormed(r, rows) /\ rows \in Nat
      BY BoundIsNat DEF TypeOK
    <2>2. r.pc = "transaction" /\ r.target \in 1..rows
          /\ r.status \in OpenStatuses
      BY <2>1 DEF SupersedeTransaction, WellFormed, Request
    <2>3. /\ contracts' = [contracts EXCEPT ![r.target] = Closed(@, rows + 1),
                                            ![rows + 1] = new]
          /\ rows < MaxRows /\ rows' = rows + 1
      BY <1>1 DEF SupersedeTransaction
    <2>4. QED BY <1>1, <2>1, <2>2, <2>3 DEF Superseded, TypeOK, Ids
  <1>2. CASE ~IndexesAllow(new.key, new.version, r.target)
    BY <1>2 DEF SupersedeTransaction, Fail
  <1>3. QED BY <1>1, <1>2

\* Every step leaves the table alone, inserts a first revision, or closes one
\* revision and inserts its replacement.
LEMMA TableSteps ==
    ASSUME TypeOK, [Next]_vars
    PROVE  \/ UNCHANGED <<rows, contracts>>
           \/ \E c \in Clients : Inserted(c)
           \/ \E c \in Clients : Superseded(c)
  <1>1. ASSUME NEW c \in Clients, RequestStep(c)
        PROVE  Inserted(c) \/ Superseded(c) \/ UNCHANGED <<rows, contracts>>
    BY <1>1, InsertStep, TransactionStep
       DEF RequestStep, CheckCustodian, CheckParent, CheckGoverning, SelectOpen,
           ReadCurrent, EmitSuperseded, EmitRegistered, Continue, Fail
  <1>2. ASSUME NEW c \in Clients,
               \/ BeginRegister(c) \/ BeginSupersede(c)
               \/ WriteBusy(c) \/ Crash(c)
        PROVE  UNCHANGED <<rows, contracts>>
    BY <1>2 DEF BeginRegister, BeginSupersede, Begin, WriteBusy, Crash, Fail
  <1>3. ASSUME NEW a \in Actors, NEW s \in {"active", "inactive"}, SetActorStatus(a, s)
        PROVE  UNCHANGED <<rows, contracts>>
    BY <1>3 DEF SetActorStatus
  <1>4. CASE UNCHANGED vars
    BY <1>4 DEF vars
  <1>5. QED BY <1>1, <1>2, <1>3, <1>4 DEF Next

-----------------------------------------------------------------------------
(* One open revision of a key *)

LEMMA OneOpenInit == Init => OneOpenRevision
  BY DEF Init, NoRow, OneOpenRevision, IsOpen, OpenStatuses

LEMMA OneOpenInsert ==
    ASSUME TypeOK, OneOpenRevision, NEW c \in Clients, Inserted(c)
    PROVE  OneOpenRevision'
  <1> DEFINE r == request[c]
  <1>1. ASSUME NEW i \in Ids, contracts[i].key = r.key PROVE ~IsOpen(i)
    BY <1>1 DEF Inserted, IndexesAllow, VersionFree, OpenKeyFree, Ids
  <1>2. contracts'[rows + 1].key = r.key
    BY BoundIsNat DEF Inserted, FirstRevision, TypeOK, Ids
  <1>3. \A i \in Ids : i # rows + 1 => contracts'[i] = contracts[i]
    BY DEF Inserted
  <1>4. QED BY <1>1, <1>2, <1>3 DEF OneOpenRevision, IsOpen

LEMMA OneOpenSupersede ==
    ASSUME TypeOK, OneOpenRevision, NEW c \in Clients, Superseded(c)
    PROVE  OneOpenRevision'
  <1> DEFINE r == request[c]
             key == Replacement(r).key
  <1>1. ASSUME NEW i \in Ids, contracts[i].key = key, i # r.target PROVE ~IsOpen(i)
    BY <1>1 DEF Superseded, IndexesAllow, VersionFree, OpenKeyFree
  <1>2. rows + 1 \in Ids /\ contracts'[rows + 1].key = key
    BY BoundIsNat DEF Superseded, TypeOK, Ids
  <1>3. contracts'[r.target].status = "superseded"
    <2>1. r.target \in Ids /\ r.target # rows + 1
      BY BoundIsNat DEF Superseded, TypeOK, Ids
    <2>2. contracts[r.target] \in Row /\ rows + 1 \in 0..MaxRows
      BY <1>2, <2>1, BoundIsNat DEF TypeOK, Ids
    <2>3. contracts'[r.target] = Closed(contracts[r.target], rows + 1)
      BY <2>1 DEF Superseded
    <2>4. QED BY <2>2, <2>3, ClosedRowTyped
  <1>4. \A i \in Ids : i # rows + 1 /\ i # r.target => contracts'[i] = contracts[i]
    BY DEF Superseded
  <1>5. QED BY <1>1, <1>2, <1>3, <1>4 DEF OneOpenRevision, IsOpen, OpenStatuses

LEMMA OneOpenNext == TypeOK /\ OneOpenRevision /\ [Next]_vars => OneOpenRevision'
  <1> SUFFICES ASSUME TypeOK, OneOpenRevision, [Next]_vars PROVE OneOpenRevision'
    OBVIOUS
  <1>1. CASE UNCHANGED <<rows, contracts>>
    BY <1>1 DEF OneOpenRevision, IsOpen
  <1>2. QED BY <1>1, TableSteps, OneOpenInsert, OneOpenSupersede

\* No interleaving of requests, failure or crash ever leaves a key with two
\* open revisions.
THEOREM AtMostOneOpen == Spec => []OneOpenRevision
  BY InitTypeOK, NextTypeOK, OneOpenInit, OneOpenNext, PTL DEF Spec

-----------------------------------------------------------------------------
(* The rows after each of the two steps, column by column *)

LEMMA InsertedRows ==
    ASSUME TypeOK, NEW c \in Clients, Inserted(c)
    PROVE  LET r == request[c]
               n == rows + 1
               new == contracts'[n]
           IN  /\ rows \in Nat /\ n \in Ids /\ rows' = n /\ r.key \in Keys
               /\ new.key = r.key /\ new.parent = r.parent
               /\ new.governing = r.governing /\ new.version = 1
               /\ new.status = r.status /\ new.status \in OpenStatuses
               /\ new.supersedes = 0 /\ new.supersededBy = 0
               /\ \A i \in 1..rows : i \in Ids /\ contracts'[i] = contracts[i]
  BY BoundIsNat DEF Inserted, FirstRevision, TypeOK, Ids

LEMMA SupersededRows ==
    ASSUME TypeOK, NEW c \in Clients, Superseded(c)
    PROVE  LET r == request[c]
               t == r.target
               n == rows + 1
               old == contracts[t]
               new == contracts'[n]
               closed == contracts'[t]
           IN  /\ rows \in Nat /\ n \in Ids /\ rows' = n /\ t \in 1..rows
               /\ new.key = old.key /\ new.parent = old.parent
               /\ new.governing \in {r.governing, old.governing}
               /\ new.governing = Null => old.governing = Null
               /\ new.version = old.version + 1
               /\ new.status = r.status /\ new.status \in OpenStatuses
               /\ new.supersedes = t /\ new.supersededBy = 0
               /\ closed = Closed(old, n)
               /\ \A i \in 1..rows : /\ i \in Ids
                                     /\ i # t => contracts'[i] = contracts[i]
  <1>1. rows \in Nat /\ rows + 1 \in Ids /\ request[c].target \in Ids
    BY BoundIsNat DEF Superseded, TypeOK, Ids
  <1>2. contracts'[rows + 1] = Replacement(request[c])
    BY <1>1 DEF Superseded
  <1>3. contracts'[rows + 1].status \in OpenStatuses
    BY <1>2 DEF Superseded, Replacement
  <1>4. request[c].target \in 1..rows /\ rows' = rows + 1
    BY DEF Superseded
  <1>5. contracts'[request[c].target] = Closed(contracts[request[c].target], rows + 1)
    BY <1>1, <1>4 DEF Superseded
  <1>6. \A i \in 1..rows : i \in Ids /\ (i # request[c].target =>
                                            contracts'[i] = contracts[i])
    BY <1>1, BoundIsNat DEF Superseded, Ids
  <1>7. LET new == Replacement(request[c])
            old == contracts[request[c].target]
        IN  /\ new.key = old.key /\ new.parent = old.parent
            /\ new.governing \in {request[c].governing, old.governing}
            /\ new.governing = Null => old.governing = Null
            /\ new.version = old.version + 1 /\ new.status = request[c].status
            /\ new.supersedes = request[c].target /\ new.supersededBy = 0
    BY DEF Replacement
  <1>8. QED BY <1>1, <1>2, <1>3, <1>4, <1>5, <1>6, <1>7

LEMMA ClosedRow ==
    ASSUME NEW row \in Row, NEW id \in 0..MaxRows
    PROVE  LET closed == Closed(row, id)
           IN  /\ closed.key = row.key /\ closed.parent = row.parent
               /\ closed.governing = row.governing
               /\ closed.version = row.version
               /\ closed.supersedes = row.supersedes
               /\ closed.status = "superseded" /\ closed.supersededBy = id
  BY DEF Closed, Row

-----------------------------------------------------------------------------
(* The chain of revisions *)

\* The unique index on (key, version) refuses to replace a revision that was
\* replaced since the request read it as open.
LEMMA TargetStillOpen ==
    ASSUME TypeOK, RevisionChain, NEW c \in Clients, Superseded(c)
    PROVE  IsOpen(request[c].target)
  <1> DEFINE t == request[c].target
             j == contracts[t].supersededBy
  <1> SUFFICES ASSUME ~IsOpen(t) PROVE FALSE
    OBVIOUS
  <1>1. t \in 1..rows /\ rows \in Nat
    BY SupersededRows
  <1>2. j \in 1..rows /\ contracts[j].supersedes = t
    BY <1>1 DEF RevisionChain
  <1>3. contracts[j].key = contracts[t].key
        /\ contracts[j].version = contracts[t].version + 1
    BY <1>1, <1>2 DEF RevisionChain
  <1>4. j \in Ids
    BY <1>2, BoundIsNat DEF TypeOK, Ids
  <1>5. QED BY <1>3, <1>4 DEF Superseded, IndexesAllow, VersionFree, OpenKeyFree, Replacement

LEMMA VersionPositive ==
    ASSUME TypeOK, RevisionChain, NEW i \in 1..rows
    PROVE  contracts[i].version \in Nat \ {0}
  <1> DEFINE row == contracts[i]
  <1>1. row.version \in Nat /\ rows \in Nat
    BY BoundIsNat DEF TypeOK, Ids, Row
  <1>2. CASE row.supersedes = 0
    BY <1>2 DEF RevisionChain
  <1>3. CASE row.supersedes # 0
    <2>1. row.supersedes \in 1..rows
      BY <1>1, <1>3 DEF RevisionChain
    <2>2. contracts[row.supersedes].version \in Nat
      BY <2>1, BoundIsNat DEF TypeOK, Ids, Row
    <2>3. QED BY <1>1, <1>3, <2>2 DEF RevisionChain
  <1>4. QED BY <1>1, <1>2, <1>3

LEMMA ChainInit == Init => RevisionChain
  BY DEF Init, RevisionChain

LEMMA ChainInsert ==
    ASSUME TypeOK, RevisionChain, NEW c \in Clients, Inserted(c)
    PROVE  RevisionChain'
  <1> DEFINE n == rows + 1
  <1>1. /\ rows \in Nat /\ n \in Ids /\ rows' = n
        /\ contracts'[n].version = 1 /\ contracts'[n].status \in OpenStatuses
        /\ contracts'[n].supersedes = 0 /\ contracts'[n].supersededBy = 0
        /\ \A i \in 1..rows : i \in Ids /\ contracts'[i] = contracts[i]
    BY InsertedRows
  <1>2. QED BY <1>1 DEF RevisionChain, IsOpen

LEMMA ChainSupersede ==
    ASSUME TypeOK, RevisionChain, NEW c \in Clients, Superseded(c)
    PROVE  RevisionChain'
  <1> DEFINE t == request[c].target
             n == rows + 1
             old == contracts[t]
             new == contracts'[n]
             closed == contracts'[t]
  <1>1. /\ rows \in Nat /\ n \in Ids /\ rows' = n /\ t \in 1..rows
        /\ new.key = old.key /\ new.version = old.version + 1
        /\ new.status \in OpenStatuses
        /\ new.supersedes = t /\ new.supersededBy = 0
        /\ \A i \in 1..rows : i # t => contracts'[i] = contracts[i]
    BY SupersededRows
  <1>2. old \in Row /\ n \in 0..MaxRows
    BY <1>1, BoundIsNat DEF TypeOK, Ids
  <1>3. /\ closed.key = old.key /\ closed.version = old.version
        /\ closed.supersedes = old.supersedes
        /\ closed.status = "superseded" /\ closed.supersededBy = n
    <2>1. closed = Closed(old, n)
      BY SupersededRows
    <2>2. QED BY <1>2, <2>1, ClosedRow
  <1>4. IsOpen(t) /\ old.supersededBy = 0
    BY <1>1, TargetStillOpen DEF RevisionChain
  <1>5. old.version \in Nat \ {0}
    BY <1>1, VersionPositive
  <1> DEFINE Linked(i) ==
          LET row == contracts'[i]
          IN  /\ row.supersedes \in 0..(i - 1)
              /\ row.supersededBy \in 0..n
              /\ row.status \in OpenStatuses <=> row.supersededBy = 0
              /\ row.supersedes = 0 <=> row.version = 1
              /\ row.supersedes # 0 =>
                     /\ contracts'[row.supersedes].supersededBy = i
                     /\ contracts'[row.supersedes].key = row.key
                     /\ contracts'[row.supersedes].version + 1 = row.version
              /\ row.supersededBy # 0 => contracts'[row.supersededBy].supersedes = i
  <1>6. Linked(n)
    BY <1>1, <1>3, <1>5
  <1>7. Linked(t)
    <2>1. old.supersedes \in 0..(t - 1)
          /\ (old.supersedes = 0 <=> old.version = 1)
      BY <1>1 DEF RevisionChain
    <2>2. old.supersedes # 0 =>
              /\ contracts'[old.supersedes] = contracts[old.supersedes]
              /\ contracts[old.supersedes].supersededBy = t
              /\ contracts[old.supersedes].key = old.key
              /\ contracts[old.supersedes].version + 1 = old.version
      BY <1>1, <2>1 DEF RevisionChain
    <2>3. QED BY <1>1, <1>3, <2>1, <2>2 DEF OpenStatuses
  <1>8. ASSUME NEW i \in 1..rows, i # t PROVE Linked(i)
    <2> DEFINE row == contracts[i]
    <2>1. contracts'[i] = row
      BY <1>1, <1>8
    <2>2. /\ row.supersedes \in 0..(i - 1) /\ row.supersededBy \in 0..rows
          /\ (IsOpen(i) <=> row.supersededBy = 0)
          /\ (row.supersedes = 0 <=> row.version = 1)
      BY DEF RevisionChain
    <2>3. row.supersedes # 0 => row.supersedes # t
                                /\ contracts'[row.supersedes] = contracts[row.supersedes]
      BY <1>1, <1>4, <2>2 DEF RevisionChain
    <2>4. row.supersededBy # 0 =>
              contracts'[row.supersededBy].supersedes = contracts[row.supersededBy].supersedes
      BY <1>1, <1>3, <2>2
    <2>5. QED BY <1>1, <2>1, <2>2, <2>3, <2>4 DEF RevisionChain, IsOpen
  <1>9. \A i \in 1..n : Linked(i)
    BY <1>1, <1>6, <1>7, <1>8
  <1>10. QED BY <1>1, <1>9 DEF RevisionChain, IsOpen

LEMMA ChainNext == TypeOK /\ RevisionChain /\ [Next]_vars => RevisionChain'
  <1> SUFFICES ASSUME TypeOK, RevisionChain, [Next]_vars PROVE RevisionChain'
    OBVIOUS
  <1>1. CASE UNCHANGED <<rows, contracts>>
    BY <1>1 DEF RevisionChain, IsOpen
  <1>2. QED BY <1>1, TableSteps, ChainInsert, ChainSupersede

\* The revisions of a key never fork, and their two link columns agree.
THEOREM RevisionsFormChains == Spec => []RevisionChain
  BY InitTypeOK, NextTypeOK, ChainInit, ChainNext, PTL DEF Spec

-----------------------------------------------------------------------------
(* A key keeps an open revision *)

OpenNext(k) == \E j \in Ids : contracts'[j].key = k /\ contracts'[j].status \in OpenStatuses

LEMMA OpenKeptByInsert ==
    ASSUME TypeOK, NEW c \in Clients, Inserted(c), NEW k, HasOpen(k)
    PROVE  OpenNext(k)
  <1>1. PICK j \in Ids : contracts[j].key = k /\ IsOpen(j)
    BY DEF HasOpen
  <1>2. j \in 1..rows
    BY <1>1, BoundIsNat DEF TypeOK, IsOpen, OpenStatuses, Ids
  <1>3. contracts'[j] = contracts[j]
    BY <1>2, InsertedRows
  <1>4. QED BY <1>1, <1>3 DEF OpenNext, IsOpen

LEMMA OpenKeptBySupersede ==
    ASSUME TypeOK, NEW c \in Clients, Superseded(c), NEW k, HasOpen(k)
    PROVE  OpenNext(k)
  <1> DEFINE t == request[c].target
             n == rows + 1
  <1>1. PICK j \in Ids : contracts[j].key = k /\ IsOpen(j)
    BY DEF HasOpen
  <1>2. j \in 1..rows
    BY <1>1, BoundIsNat DEF TypeOK, IsOpen, OpenStatuses, Ids
  <1>3. CASE j # t
    <2>1. contracts'[j] = contracts[j]
      BY <1>2, <1>3, SupersededRows
    <2>2. QED BY <1>1, <2>1 DEF OpenNext, IsOpen
  <1>4. CASE j = t
    <2>1. n \in Ids /\ contracts'[n].key = contracts[t].key
          /\ contracts'[n].status \in OpenStatuses
      BY SupersededRows
    <2>2. QED BY <1>1, <1>4, <2>1 DEF OpenNext
  <1>5. QED BY <1>3, <1>4

LEMMA KeyKeepsInit == Init => KeyKeepsOpenRevision
  BY DEF Init, KeyKeepsOpenRevision

LEMMA KeyKeepsInsert ==
    ASSUME TypeOK, KeyKeepsOpenRevision, NEW c \in Clients, Inserted(c)
    PROVE  KeyKeepsOpenRevision'
  <1>1. rows \in Nat /\ rows + 1 \in Ids /\ rows' = rows + 1
        /\ contracts'[rows + 1].status \in OpenStatuses
        /\ \A i \in 1..rows : contracts'[i] = contracts[i]
    BY InsertedRows
  <1>2. ASSUME NEW i \in 1..(rows + 1) PROVE OpenNext(contracts'[i].key)
    <2>1. CASE i = rows + 1
      BY <1>1, <2>1 DEF OpenNext
    <2>2. CASE i # rows + 1
      <3>1. contracts'[i] = contracts[i] /\ HasOpen(contracts[i].key)
        BY <1>1, <2>2 DEF KeyKeepsOpenRevision
      <3>2. \A k : HasOpen(k) => OpenNext(k)
        BY OpenKeptByInsert
      <3>3. QED BY <3>1, <3>2
    <2>3. QED BY <2>1, <2>2
  <1>3. QED BY <1>1, <1>2 DEF KeyKeepsOpenRevision, HasOpen, IsOpen, OpenNext, Ids

LEMMA KeyKeepsSupersede ==
    ASSUME TypeOK, KeyKeepsOpenRevision, NEW c \in Clients, Superseded(c)
    PROVE  KeyKeepsOpenRevision'
  <1> DEFINE t == request[c].target
             n == rows + 1
  <1>1. /\ rows \in Nat /\ n \in Ids /\ rows' = n /\ t \in 1..rows
        /\ contracts'[n].key = contracts[t].key
        /\ contracts'[t] = Closed(contracts[t], n)
        /\ \A i \in 1..rows : i # t => contracts'[i] = contracts[i]
    BY SupersededRows
  <1>2. contracts'[t].key = contracts[t].key
    <2>1. contracts[t] \in Row /\ n \in 0..MaxRows
      BY <1>1, BoundIsNat DEF TypeOK, Ids
    <2>2. QED BY <1>1, <2>1, ClosedRow
  <1>3. ASSUME NEW i \in 1..n PROVE OpenNext(contracts'[i].key)
    <2>1. \E j \in 1..rows : contracts'[i].key = contracts[j].key
      BY <1>1, <1>2
    <2>2. HasOpen(contracts'[i].key)
      BY <2>1 DEF KeyKeepsOpenRevision
    <2>3. \A k : HasOpen(k) => OpenNext(k)
      BY OpenKeptBySupersede
    <2>4. QED BY <2>2, <2>3
  <1>4. QED BY <1>1, <1>3 DEF KeyKeepsOpenRevision, HasOpen, IsOpen, OpenNext, Ids

LEMMA KeyKeepsNext ==
    TypeOK /\ KeyKeepsOpenRevision /\ [Next]_vars => KeyKeepsOpenRevision'
  <1> SUFFICES ASSUME TypeOK, KeyKeepsOpenRevision, [Next]_vars
               PROVE  KeyKeepsOpenRevision'
    OBVIOUS
  <1>1. CASE UNCHANGED <<rows, contracts>>
    BY <1>1 DEF KeyKeepsOpenRevision, HasOpen, IsOpen
  <1>2. QED BY <1>1, TableSteps, KeyKeepsInsert, KeyKeepsSupersede

\* Neither a lost race nor a crash between the statements of a supersession
\* leaves a registered key without an open revision.
THEOREM KeysStayOpen == Spec => []KeyKeepsOpenRevision
  BY InitTypeOK, NextTypeOK, KeyKeepsInit, KeyKeepsNext, PTL DEF Spec

\* A key that was ever registered has exactly one open revision, whatever the
\* number of racing clients and wherever they fail.
THEOREM ExactlyOneOpen == Spec => []ExactlyOneOpenRevision
  <1>1. OneOpenRevision /\ KeyKeepsOpenRevision => ExactlyOneOpenRevision
    BY DEF ExactlyOneOpenRevision
  <1>2. QED BY <1>1, AtMostOneOpen, KeysStayOpen, PTL

-----------------------------------------------------------------------------
(* Revisions are immutable *)

LEMMA RevisionsImmutableStep ==
    ASSUME TypeOK, RevisionChain, [Next]_vars
    PROVE  \A i \in 1..rows :
              LET old == contracts[i]
                  new == contracts'[i]
              IN  \/ new = old
                  \/ /\ IsOpen(i)
                     /\ new = [old EXCEPT !.status = "superseded",
                                          !.supersededBy = new.supersededBy]
                     /\ new.supersededBy = rows'
  <1>1. CASE UNCHANGED <<rows, contracts>>
    BY <1>1
  <1>2. ASSUME NEW c \in Clients, Inserted(c)
        PROVE  \A i \in 1..rows : contracts'[i] = contracts[i]
    BY <1>2, InsertedRows
  <1>3. ASSUME NEW c \in Clients, Superseded(c), NEW i \in 1..rows
        PROVE  \/ contracts'[i] = contracts[i]
               \/ /\ IsOpen(i)
                  /\ contracts'[i].supersededBy = rows'
                  /\ contracts'[i] = Closed(contracts[i], rows')
    <2> DEFINE t == request[c].target
    <2>1. /\ rows' = rows + 1 /\ rows + 1 \in Ids /\ t \in 1..rows
          /\ contracts'[t] = Closed(contracts[t], rows + 1)
          /\ i # t => contracts'[i] = contracts[i]
      BY <1>3, SupersededRows
    <2>2. contracts[t] \in Row /\ rows + 1 \in 0..MaxRows
      BY <2>1, BoundIsNat DEF TypeOK, Ids
    <2>3. contracts'[t].supersededBy = rows'
      BY <2>1, <2>2, ClosedRow
    <2>4. IsOpen(t)
      BY <1>3, TargetStillOpen
    <2>5. QED BY <2>1, <2>3, <2>4
  <1>4. QED BY <1>1, <1>2, <1>3, TableSteps DEF Closed

\* No request, failure or race edits a revision once it is in the table, but
\* for closing an open one in favour of the row inserted with it.
THEOREM RevisionsNeverEdited == Spec => RevisionsImmutable
  BY InitTypeOK, NextTypeOK, ChainInit, ChainNext, RevisionsImmutableStep, PTL
     DEF Spec, RevisionsImmutable
-----------------------------------------------------------------------------
(* The trail *)

EventSteps == {"superseded_event", "registered_event"}

SupersessionMade(i) == contracts[i].supersedes # 0 =>
                           RecordedSupersession(contracts[i].supersedes)

\* What a request that has written its records may say of them.
Due(r) ==
    /\ r.pc = "superseded_event" =>
           /\ r.target \in 1..rows /\ r.created \in 1..rows /\ ~IsOpen(r.target)
           /\ contracts[r.target].supersededBy = r.created
           /\ contracts[r.created].supersedes = r.target
           /\ contracts[r.created].custodian = r.actor
    /\ r.pc = "registered_event" =>
           /\ r.created \in 1..rows
           /\ contracts[r.created].custodian = r.actor
           /\ SupersessionMade(r.created)

Acknowledged(r) ==
    r.reply = "ok" => /\ r.pc = "idle" /\ r.created \in 1..rows
                      /\ RecordedRegistration(r.created)
                      /\ SupersessionMade(r.created)

TrailInv == TrailTruthful /\ \A c \in Clients : Due(request[c]) /\ Acknowledged(request[c])

Silent(r) == r.pc \notin EventSteps /\ r.reply # "ok"

\* Rows keep what the trail says of them, and closed rows everything.
Kept ==
    /\ rows \in Nat /\ rows' \in Nat /\ rows <= rows'
    /\ \A i \in 1..rows : /\ contracts'[i].custodian = contracts[i].custodian
                          /\ contracts'[i].supersedes = contracts[i].supersedes
                          /\ ~IsOpen(i) => contracts'[i] = contracts[i]
    /\ events \subseteq events'

LEMMA EventsGrow ==
    ASSUME [Next]_vars
    PROVE  events \subseteq events'
  <1>1. ASSUME NEW c \in Clients, RequestStep(c) PROVE events \subseteq events'
    BY <1>1 DEF RequestStep, CheckCustodian, CheckParent, CheckGoverning, SelectOpen,
                InsertContract, ReadCurrent, SupersedeTransaction, EmitSuperseded,
                EmitRegistered, Continue, Fail
  <1>2. ASSUME NEW c \in Clients,
               \/ BeginRegister(c) \/ BeginSupersede(c) \/ WriteBusy(c) \/ Crash(c)
        PROVE  UNCHANGED events
    BY <1>2 DEF BeginRegister, BeginSupersede, Begin, WriteBusy, Crash, Fail
  <1>3. QED BY <1>1, <1>2 DEF Next, SetActorStatus, vars

LEMMA KeptStep ==
    ASSUME TypeOK, RevisionChain, [Next]_vars
    PROVE  Kept
  <1>1. TypeOK'
    BY NextTypeOK
  <1>2. rows \in Nat /\ rows' \in Nat
    BY <1>1, BoundIsNat DEF TypeOK
  <1>3. rows <= rows'
    BY <1>2, TableSteps DEF Inserted, Superseded
  <1>4. ASSUME NEW i \in 1..rows
        PROVE  /\ contracts'[i].custodian = contracts[i].custodian
               /\ contracts'[i].supersedes = contracts[i].supersedes
               /\ ~IsOpen(i) => contracts'[i] = contracts[i]
    <2>1. contracts[i] \in Row
      BY BoundIsNat DEF TypeOK, Ids
    <2>2. \/ contracts'[i] = contracts[i]
          \/ /\ IsOpen(i)
             /\ contracts'[i] = [contracts[i] EXCEPT !.status = "superseded",
                                       !.supersededBy = contracts'[i].supersededBy]
      BY RevisionsImmutableStep
    <2>3. QED BY <2>1, <2>2 DEF Row
  <1>5. QED BY <1>2, <1>3, <1>4, EventsGrow DEF Kept

LEMMA RecordsKept ==
    ASSUME Kept, NEW i \in 1..rows
    PROVE  /\ RecordedRegistration(i) => RecordedRegistration(i)'
           /\ SupersessionMade(i) => SupersessionMade(i)'
  BY DEF Kept, RecordedRegistration, SupersessionMade, RecordedSupersession

\* What a request may say stays true as others write.
LEMMA DueKept ==
    ASSUME TypeOK, Kept, NEW r \in Request, Due(r), Acknowledged(r)
    PROVE  Due(r)' /\ Acknowledged(r)'
  <1>1. \A i \in 1..rows : i \in 1..rows'
    BY DEF Kept
  <1>2. CASE r.pc = "superseded_event"
    <2>1. /\ r.target \in 1..rows /\ r.created \in 1..rows /\ ~IsOpen(r.target)
          /\ contracts'[r.target] = contracts[r.target]
          /\ contracts'[r.created].supersedes = contracts[r.created].supersedes
          /\ contracts'[r.created].custodian = contracts[r.created].custodian
      BY <1>2 DEF Due, Kept
    <2>2. Due(r)'
      BY <1>1, <1>2, <2>1 DEF Due, IsOpen
    <2>3. QED BY <1>2, <2>2 DEF Acknowledged
  <1>3. CASE r.pc # "superseded_event"
    BY <1>1, <1>3, RecordsKept DEF Due, Acknowledged, Kept
  <1>4. QED BY <1>2, <1>3

\* What the trail says stays true as well.
LEMMA TrailKept ==
    ASSUME TypeOK, TypeOK', RevisionChain, Kept, TrailTruthful, NEW e \in events
    PROVE  /\ e.id \in 1..rows'
           /\ e.type = "contract_registered" => contracts'[e.id].custodian = e.actor
           /\ e.type = "contract_superseded" =>
                  /\ contracts'[e.id].status = "superseded"
                  /\ contracts'[contracts'[e.id].supersededBy].custodian = e.actor
  <1>1. e.id \in 1..rows /\ e.id \in 1..rows'
    BY DEF TrailTruthful, Kept
  <1>2. ASSUME e.type = "contract_superseded"
        PROVE  /\ contracts'[e.id].status = "superseded"
               /\ contracts'[contracts'[e.id].supersededBy].custodian = e.actor
    <2>1. /\ contracts[e.id].status = "superseded"
          /\ contracts[contracts[e.id].supersededBy].custodian = e.actor
      BY <1>2 DEF TrailTruthful
    <2>2. ~IsOpen(e.id)
      BY <2>1 DEF IsOpen, OpenStatuses
    <2>3. contracts[e.id].supersededBy \in 1..rows
      BY <1>1, <2>2 DEF RevisionChain, Kept
    <2>4. contracts'[e.id] = contracts[e.id]
      BY <1>1, <2>2 DEF Kept
    <2>5. QED BY <2>1, <2>3, <2>4 DEF Kept
  <1>3. QED BY <1>1, <1>2 DEF TrailTruthful, Kept

\* What becomes of a client's request in a step.
LEMMA RequestSteps ==
    ASSUME TypeOK, TrailInv, Next, NEW c \in Clients
    PROVE  \/ request'[c] = request[c] \/ Silent(request'[c])
           \/ Inserted(c) /\ InsertContract(c)
           \/ Superseded(c) /\ SupersedeTransaction(c)
           \/ EmitSuperseded(c) \/ EmitRegistered(c)
  <1> DEFINE Goal == \/ request'[c] = request[c] \/ Silent(request'[c])
                     \/ Inserted(c) /\ InsertContract(c)
                     \/ Superseded(c) /\ SupersedeTransaction(c)
                     \/ EmitSuperseded(c) \/ EmitRegistered(c)
  <1> SUFFICES Goal
    OBVIOUS
  <1>1. request[c] \in Request /\ (request[c].pc # "idle" => request[c].reply # "ok")
        /\ request \in [Clients -> Request]
    BY DEF TypeOK, TrailInv, Acknowledged
  <1>2. ASSUME NEW id, NEW reply \in {"none", "error"},
               request' = [request EXCEPT ![c] = Answered(reply, id)]
        PROVE  Silent(request'[c])
    BY <1>1, <1>2 DEF Silent, Answered, EventSteps
  <1>3. Fail(c) => Silent(request'[c])
    BY <1>2 DEF Fail
  <1>4. ASSUME NEW pc, Continue(c, pc), pc \notin EventSteps, request[c].pc # "idle"
        PROVE  Silent(request'[c])
    BY <1>1, <1>4 DEF Continue, Goto, Silent, Request
  <1>5. ASSUME NEW d \in Clients, d # c,
               \/ BeginRegister(d) \/ BeginSupersede(d) \/ RequestStep(d) \/ WriteBusy(d)
               \/ Crash(d)
        PROVE  request'[c] = request[c]
    BY <1>1, <1>5 DEF BeginRegister, BeginSupersede, Begin, RequestStep, WriteBusy, Crash,
       Fail, Continue, Goto, CheckCustodian, CheckParent, CheckGoverning, SelectOpen,
       InsertContract, ReadCurrent, SupersedeTransaction, EmitSuperseded, EmitRegistered
  <1>6. ASSUME BeginRegister(c) \/ BeginSupersede(c) PROVE Silent(request'[c])
    <2>1. ASSUME NEW r, Silent(r), NEW ok, Begin(c, r, ok) PROVE Silent(request'[c])
      BY <1>1, <1>3, <2>1 DEF Begin
    <2>2. \A k, p, g, s, a : Silent(RegisterRequest(k, p, g, s, a))
      BY DEF RegisterRequest, Silent, EventSteps
    <2>3. \A k, g, s, a : Silent(SupersedeRequest(k, g, s, a))
      BY DEF SupersedeRequest, Silent, EventSteps
    <2>4. CASE BeginRegister(c)
      BY <2>1, <2>2, <2>4 DEF BeginRegister
    <2>5. CASE BeginSupersede(c)
      BY <2>1, <2>3, <2>5 DEF BeginSupersede
    <2>6. QED BY <1>6, <2>4, <2>5
  <1>7. ASSUME RequestStep(c) PROVE Goal
    <2>1. CASE CheckCustodian(c)
      BY <1>3, <1>4, <2>1 DEF CheckCustodian, EventSteps
    <2>2. CASE CheckParent(c)
      BY <1>3, <1>4, <2>2 DEF CheckParent, EventSteps
    <2>3. CASE CheckGoverning(c)
      BY <1>3, <1>4, <2>3 DEF CheckGoverning, EventSteps
    <2>4. CASE SelectOpen(c)
      BY <1>3, <1>4, <2>4 DEF SelectOpen, EventSteps
    <2>5. CASE ReadCurrent(c)
      BY <1>3, <1>4, <2>5 DEF ReadCurrent, EventSteps
    <2>6. CASE InsertContract(c)
      <3>1. CASE Fail(c)
        BY <1>3, <3>1
      <3>2. CASE ~Fail(c)
        <4>1. rows' = rows + 1 /\ rows \in Nat
          BY <2>6, <3>2, BoundIsNat DEF InsertContract, TypeOK
        <4>2. QED BY <2>6, <4>1, InsertStep
      <3>3. QED BY <3>1, <3>2
    <2>7. CASE SupersedeTransaction(c)
      <3>1. CASE Fail(c)
        BY <1>3, <3>1
      <3>2. CASE ~Fail(c)
        <4>1. rows' = rows + 1 /\ rows \in Nat
          BY <2>7, <3>2, BoundIsNat DEF SupersedeTransaction, TypeOK
        <4>2. QED BY <2>7, <4>1, TransactionStep
      <3>3. QED BY <3>1, <3>2
    <2>8. QED BY <1>7, <2>1, <2>2, <2>3, <2>4, <2>5, <2>6, <2>7 DEF RequestStep
  <1>8. ASSUME WriteBusy(c) \/ Crash(c) PROVE Silent(request'[c])
    BY <1>2, <1>3, <1>8 DEF WriteBusy, Crash, Idle
  <1>9. ASSUME NEW a \in Actors, NEW s \in {"active", "inactive"}, SetActorStatus(a, s)
        PROVE  request'[c] = request[c]
    BY <1>9 DEF SetActorStatus
  <1> HIDE DEF Goal
  <1>10. Silent(request'[c]) \/ request'[c] = request[c] => Goal
    BY DEF Goal
  <1>11. QED BY <1>5, <1>6, <1>7, <1>8, <1>9, <1>10 DEF Next

LEMMA ClientStep ==
    ASSUME TypeOK, RevisionChain, TrailInv, Next, NEW c \in Clients
    PROVE  Due(request[c])' /\ Acknowledged(request[c])'
  <1>1. Kept /\ TypeOK'
    BY KeptStep, NextTypeOK
  <1>2. /\ request[c] \in Request /\ Due(request[c]) /\ Acknowledged(request[c])
        /\ request \in [Clients -> Request]
    BY DEF TypeOK, TrailInv
  <1>3. PICK q \in Request : q = request[c]
    BY <1>2
  <1>4. PICK r \in Request : r = request'[c]
    BY <1>1 DEF TypeOK
  <1>5. SUFFICES Due(r)' /\ Acknowledged(r)'
    BY <1>4 DEF Due, Acknowledged
  <1>6. CASE r = q
    BY <1>1, <1>2, <1>3, <1>6, DueKept
  <1>7. CASE Silent(r)
    BY <1>7 DEF Silent, Due, Acknowledged, EventSteps
  <1>8. CASE Inserted(c) /\ InsertContract(c)
    <2>1. /\ rows' = rows + 1 /\ rows \in Nat /\ rows + 1 \in Ids
          /\ contracts'[rows + 1] = FirstRevision(q)
      BY <1>3, <1>8, BoundIsNat DEF Inserted, TypeOK, Ids
    <2>2. /\ r.pc = "registered_event" /\ r.created = rows + 1 /\ r.actor = q.actor
          /\ r.reply = q.reply /\ q.pc = "insert"
      BY <1>2, <1>3, <1>4, <1>8, <2>1 DEF InsertContract, Fail, Request
    <2>3. q.reply # "ok"
      BY <1>2, <1>3, <2>2 DEF Acknowledged
    <2>4. /\ contracts'[r.created].custodian = r.actor
          /\ contracts'[r.created].supersedes = 0
      BY <2>1, <2>2 DEF FirstRevision
    <2>5. Due(r)'
      BY <2>1, <2>2, <2>4 DEF Due, SupersessionMade
    <2>6. QED BY <2>2, <2>3, <2>5 DEF Acknowledged
  <1>9. CASE Superseded(c) /\ SupersedeTransaction(c)
    <2>1. /\ rows' = rows + 1 /\ rows \in Nat /\ rows + 1 \in Ids
          /\ contracts'[rows + 1] = Replacement(q)
          /\ q.target \in 1..rows
          /\ contracts'[q.target] = Closed(contracts[q.target], rows + 1)
      BY <1>3, <1>9, BoundIsNat DEF Superseded, TypeOK, Ids
    <2>2. /\ r.pc = "superseded_event" /\ r.created = rows + 1 /\ r.actor = q.actor
          /\ r.target = q.target /\ r.reply = q.reply /\ q.pc = "transaction"
      BY <1>2, <1>3, <1>4, <1>9, <2>1 DEF SupersedeTransaction, Fail, Request
    <2>3. q.reply # "ok"
      BY <1>2, <1>3, <2>2 DEF Acknowledged
    <2>4. /\ contracts'[r.created].custodian = r.actor
          /\ contracts'[r.created].supersedes = r.target
      BY <2>1, <2>2 DEF Replacement
    <2>5. /\ contracts'[r.target].status = "superseded"
          /\ contracts'[r.target].supersededBy = r.created
      <3>1. contracts[q.target] \in Row /\ rows + 1 \in 0..MaxRows
        BY <2>1, BoundIsNat DEF TypeOK, Ids
      <3>2. QED BY <2>1, <2>2, <3>1, ClosedRow
    <2>6. Due(r)'
      BY <2>1, <2>2, <2>4, <2>5 DEF Due, IsOpen, OpenStatuses
    <2>7. QED BY <2>2, <2>3, <2>6 DEF Acknowledged
  <1>10. CASE EmitSuperseded(c)
    <2>1. PICK e : /\ e = [type |-> "contract_superseded", id |-> q.target,
                           actor |-> q.actor]
                   /\ events' = events \cup {e}
                   /\ q.pc = "superseded_event" /\ UNCHANGED <<rows, contracts>>
      BY <1>3, <1>10 DEF EmitSuperseded
    <2>2. /\ r.pc = "registered_event" /\ r.created = q.created /\ r.actor = q.actor
          /\ r.reply = q.reply
      BY <1>2, <1>3, <1>4, <1>10 DEF EmitSuperseded, Goto, Request
    <2>3. q.reply # "ok"
      BY <1>2, <1>3, <2>1 DEF Acknowledged
    <2>4. /\ r.created \in 1..rows /\ contracts[r.created].custodian = r.actor
          /\ contracts[r.created].supersedes = q.target
      BY <1>2, <1>3, <2>1, <2>2 DEF Due
    <2>5. SupersessionMade(r.created)'
      <3>1. e \in events' /\ e.type = "contract_superseded" /\ e.id = q.target
        BY <2>1
      <3>2. contracts'[r.created].supersedes = q.target
        BY <2>1, <2>4
      <3>3. QED BY <3>1, <3>2 DEF SupersessionMade, RecordedSupersession
    <2>6. Due(r)'
      BY <2>1, <2>2, <2>4, <2>5 DEF Due
    <2>7. QED BY <2>2, <2>3, <2>6 DEF Acknowledged
  <1>11. CASE EmitRegistered(c)
    <2>1. PICK e : /\ e = [type |-> "contract_registered", id |-> q.created,
                           actor |-> q.actor]
                   /\ events' = events \cup {e}
                   /\ q.pc = "registered_event" /\ UNCHANGED <<rows, contracts>>
      BY <1>3, <1>11 DEF EmitRegistered
    <2>2. r.pc = "idle" /\ r.created = q.created /\ r.reply = "ok"
      BY <1>2, <1>3, <1>4, <1>11 DEF EmitRegistered, Answered
    <2>3. r.created \in 1..rows /\ SupersessionMade(r.created)
      BY <1>2, <1>3, <2>1, <2>2 DEF Due
    <2>4. RecordedRegistration(r.created)'
      <3>1. e \in events' /\ e.type = "contract_registered" /\ e.id = r.created
        BY <2>1, <2>2
      <3>2. QED BY <3>1 DEF RecordedRegistration
    <2>5. SupersessionMade(r.created)'
      BY <1>1, <2>3, RecordsKept
    <2>6. QED BY <2>1, <2>2, <2>3, <2>4, <2>5 DEF Due, Acknowledged
  <1>12. QED BY <1>3, <1>4, <1>6, <1>7, <1>8, <1>9, <1>10, <1>11, RequestSteps

LEMMA TruthfulStep ==
    ASSUME TypeOK, RevisionChain, TrailInv, [Next]_vars
    PROVE  TrailTruthful'
  <1>1. Kept /\ TypeOK' /\ RevisionChain'
    BY KeptStep, NextTypeOK, ChainNext
  <1> DEFINE True(e) == /\ e.id \in 1..rows
                        /\ e.type = "contract_registered" => contracts[e.id].custodian = e.actor
                        /\ e.type = "contract_superseded" =>
                               /\ contracts[e.id].status = "superseded"
                               /\ contracts[contracts[e.id].supersededBy].custodian = e.actor
  <1>2. \A e \in events : True(e)'
    BY <1>1, TrailKept DEF TrailInv
  <1>3. CASE UNCHANGED events
    BY <1>2, <1>3 DEF TrailTruthful
  <1>4. ASSUME NEW c \in Clients, EmitSuperseded(c) PROVE TrailTruthful'
    <2>1. PICK q \in Request : q = request[c]
      BY DEF TypeOK
    <2>2. /\ q.pc = "superseded_event" /\ UNCHANGED <<rows, contracts>> /\ Due(q)
      BY <1>4, <2>1 DEF EmitSuperseded, TrailInv
    <2>3. PICK new : /\ new = [type |-> "contract_superseded", id |-> q.target,
                               actor |-> q.actor]
                     /\ events' = events \cup {new}
      BY <1>4, <2>1 DEF EmitSuperseded
    <2>4. contracts[q.target].status = "superseded"
      <3>1. q.target \in 1..rows /\ ~IsOpen(q.target)
        BY <2>2 DEF Due
      <3>2. contracts[q.target].status \in Statuses \cup {"absent"}
            /\ contracts[q.target].status # "absent"
        BY <3>1, BoundIsNat DEF TypeOK, Ids, Row
      <3>3. QED BY <3>1, <3>2 DEF IsOpen, Statuses
    <2>5. True(new)'
      BY <2>2, <2>3, <2>4 DEF Due
    <2>6. QED BY <1>2, <2>3, <2>5 DEF TrailTruthful
  <1>5. ASSUME NEW c \in Clients, EmitRegistered(c) PROVE TrailTruthful'
    <2>1. PICK q \in Request : q = request[c]
      BY DEF TypeOK
    <2>2. /\ q.pc = "registered_event" /\ UNCHANGED <<rows, contracts>> /\ Due(q)
      BY <1>5, <2>1 DEF EmitRegistered, TrailInv
    <2>3. PICK new : /\ new = [type |-> "contract_registered", id |-> q.created,
                               actor |-> q.actor]
                     /\ events' = events \cup {new}
      BY <1>5, <2>1 DEF EmitRegistered
    <2>4. True(new)'
      BY <2>2, <2>3 DEF Due
    <2>5. QED BY <1>2, <2>3, <2>4 DEF TrailTruthful
  <1>6. \/ UNCHANGED events
        \/ \E c \in Clients : EmitSuperseded(c) \/ EmitRegistered(c)
    BY DEF Next, BeginRegister, BeginSupersede, Begin, RequestStep, WriteBusy, Crash, Fail,
           Continue, CheckCustodian, CheckParent, CheckGoverning, SelectOpen, InsertContract,
           ReadCurrent, SupersedeTransaction, SetActorStatus, vars
  <1>7. QED BY <1>3, <1>4, <1>5, <1>6

LEMMA TrailInit == Init => TrailInv
  BY DEF Init, TrailInv, TrailTruthful, Due, Acknowledged, Idle, Answered

LEMMA TrailNext == TypeOK /\ RevisionChain /\ TrailInv /\ [Next]_vars => TrailInv'
  <1> SUFFICES ASSUME TypeOK, RevisionChain, TrailInv, [Next]_vars PROVE TrailInv'
    OBVIOUS
  <1>1. TrailTruthful'
    BY TruthfulStep
  <1>2. ASSUME NEW c \in Clients PROVE Due(request[c])' /\ Acknowledged(request[c])'
    <2>1. CASE Next
      BY <2>1, ClientStep
    <2>2. CASE UNCHANGED vars
      BY <2>2 DEF vars, TrailInv, Due, Acknowledged, IsOpen, SupersessionMade,
                  RecordedSupersession, RecordedRegistration
    <2>3. QED BY <2>1, <2>2
  <1>3. QED BY <1>1, <1>2 DEF TrailInv

\* Events are written after the commit they report, and rows keep what an event says:
\* the trail of the registry is true of its table at every moment.
THEOREM TrailStaysTrue == Spec => []TrailTruthful
  <1>1. TrailInv => TrailTruthful
    BY DEF TrailInv
  <1>2. QED BY <1>1, InitTypeOK, NextTypeOK, ChainInit, ChainNext, TrailInit, TrailNext, PTL
            DEF Spec

\* A request answers ok after the last of its events: the caller's revision is in the
\* table, and its registration and the supersession it made are in the trail.
THEOREM AcknowledgedContracts == Spec => []AcknowledgedIsRecorded
  <1>1. TrailInv => AcknowledgedIsRecorded
    BY DEF TrailInv, AcknowledgedIsRecorded, Acknowledged, SupersessionMade
  <1>2. QED BY <1>1, InitTypeOK, NextTypeOK, ChainInit, ChainNext, TrailInit, TrailNext, PTL
            DEF Spec

-----------------------------------------------------------------------------
(* What requests were validated against *)

RegisteredNext(k) == \E j \in 1..rows' : contracts'[j].key = k

ValidatedNext(r) ==
    /\ r.op = "register" /\ r.pc \in {"governing", "select", "insert"} =>
           (r.parent # Null => RegisteredNext(r.parent))
    /\ r.pc \in {"select", "insert", "current", "transaction"} =>
           (r.governing # Null => RegisteredNext(r.governing))

\* Rows keep their key, so a registered key stays registered.
LEMMA KeysKept ==
    ASSUME TypeOK, [Next]_vars, NEW i \in 1..rows
    PROVE  /\ contracts'[i].key = contracts[i].key
           /\ contracts'[i].parent = contracts[i].parent
           /\ contracts'[i].governing = contracts[i].governing
  <1>1. CASE UNCHANGED <<rows, contracts>>
    BY <1>1
  <1>2. ASSUME NEW c \in Clients, Inserted(c)
        PROVE  contracts'[i] = contracts[i]
    BY <1>2, InsertedRows
  <1>3. ASSUME NEW c \in Clients, Superseded(c), contracts'[i] # contracts[i]
        PROVE  /\ contracts'[i].key = contracts[i].key
               /\ contracts'[i].parent = contracts[i].parent
               /\ contracts'[i].governing = contracts[i].governing
    <2>1. contracts'[i] = Closed(contracts[i], rows + 1) /\ rows + 1 \in Ids /\ i \in Ids
      BY <1>3, SupersededRows
    <2>2. contracts[i] \in Row /\ rows + 1 \in 0..MaxRows
      BY <2>1, BoundIsNat DEF TypeOK, Ids
    <2>3. QED BY <2>1, <2>2, ClosedRow
  <1>4. QED BY <1>1, <1>2, <1>3, TableSteps

LEMMA RowsGrow ==
    ASSUME TypeOK, [Next]_vars
    PROVE  rows \in Nat /\ rows' \in Nat /\ rows <= rows'
  <1>1. rows \in Nat
    BY BoundIsNat DEF TypeOK
  <1>2. QED BY <1>1, TableSteps, InsertedRows, SupersededRows

LEMMA RegisteredKept ==
    ASSUME TypeOK, [Next]_vars, NEW k, Registered(k)
    PROVE  RegisteredNext(k)
  <1>1. PICK j \in 1..rows : contracts[j].key = k
    BY DEF Registered
  <1>2. j \in 1..rows' /\ contracts'[j].key = k
    BY <1>1, KeysKept, RowsGrow
  <1>3. QED BY <1>2 DEF RegisteredNext

\* The check that a key has an active revision finds a registered key.
LEMMA ActiveIsRegistered ==
    ASSUME TypeOK, NEW k, k # Null, ActiveIfGiven(k)
    PROVE  Registered(k)
  <1>1. PICK i \in Ids : contracts[i].key = k /\ contracts[i].status = "active"
    BY DEF ActiveIfGiven, HasActive
  <1>2. i \in 1..rows
    BY <1>1, BoundIsNat DEF TypeOK, Ids
  <1>3. QED BY <1>1, <1>2 DEF Registered

\* A request that is answered, or that has just begun, claims nothing.
LEMMA AnsweredValidated ==
    ASSUME NEW reply, NEW id
    PROVE  Validated(Answered(reply, id))
  BY DEF Answered, Validated

LEMMA FailValidated ==
    ASSUME TypeOK, ValidationHolds, NEW c \in Clients, Fail(c), NEW d \in Clients
    PROVE  Validated(request'[d])
  <1>1. request'[d] = IF d = c THEN Answered("error", 0) ELSE request[d]
    BY DEF Fail, TypeOK
  <1>2. QED BY <1>1, AnsweredValidated DEF ValidationHolds

LEMMA ContinueValidated ==
    ASSUME TypeOK, ValidationHolds, NEW c \in Clients, NEW s \in Steps,
           Continue(c, s), Validated([request[c] EXCEPT !.pc = s]), NEW d \in Clients
    PROVE  Validated(request'[d])
  <1>1. request'[d] = IF d = c THEN [request[c] EXCEPT !.pc = s] ELSE request[d]
    BY DEF Continue, Goto, TypeOK
  <1>2. QED BY <1>1 DEF ValidationHolds

LEMMA BeginValidated ==
    ASSUME TypeOK, ValidationHolds, NEW c \in Clients,
           BeginRegister(c) \/ BeginSupersede(c), NEW d \in Clients
    PROVE  Validated(request'[d])
  <1>1. ASSUME NEW r, NEW ok \in BOOLEAN, Begin(c, r, ok), Validated(r)
        PROVE  Validated(request'[d])
    <2>1. CASE ok
      <3>1. request'[d] = IF d = c THEN r ELSE request[d]
        BY <1>1, <2>1 DEF Begin, TypeOK
      <3>2. QED BY <1>1, <3>1 DEF ValidationHolds
    <2>2. CASE ~ok
      BY <1>1, <2>2, FailValidated DEF Begin
    <2>3. QED BY <2>1, <2>2
  <1>2. \A k, p, g, s, a : Validated(RegisterRequest(k, p, g, s, a))
    BY DEF RegisterRequest, Validated
  <1>3. \A i, g, s, a : Validated(SupersedeRequest(i, g, s, a))
    BY DEF SupersedeRequest, Validated
  <1>4. CASE BeginRegister(c)
    <2>1. PICK k \in Keys, p \in OptKeys, g \in Governing, isRoot \in BOOLEAN,
               s \in Statuses, a \in Actors :
            Begin(c, RegisterRequest(k, p, g, s, a),
                  s \in OpenStatuses /\ (isRoot <=> p = Null))
      BY <1>4 DEF BeginRegister
    <2>2. (s \in OpenStatuses /\ (isRoot <=> p = Null)) \in BOOLEAN
      OBVIOUS
    <2>3. QED BY <1>1, <1>2, <2>1, <2>2
  <1>5. CASE BeginSupersede(c)
    <2>1. PICK i \in Ids, g \in Governing, s \in Statuses, a \in Actors :
            Begin(c, SupersedeRequest(i, g, s, a), s \in OpenStatuses)
      BY <1>5 DEF BeginSupersede
    <2>2. (s \in OpenStatuses) \in BOOLEAN
      OBVIOUS
    <2>3. QED BY <1>1, <1>3, <2>1, <2>2
  <1>6. QED BY <1>4, <1>5

LEMMA ChecksValidated ==
    ASSUME TypeOK, ValidationHolds, NEW c \in Clients, NEW d \in Clients,
           \/ CheckCustodian(c) \/ CheckParent(c) \/ CheckGoverning(c)
           \/ SelectOpen(c) \/ ReadCurrent(c)
    PROVE  Validated(request'[d])
  <1> DEFINE At(s) == [request[c] EXCEPT !.pc = s]
  <1>1. request[c] \in Request /\ WellFormed(request[c], rows) /\ Validated(request[c])
    BY DEF TypeOK, ValidationHolds
  <1>2. CASE CheckCustodian(c)
    <2>1. Validated(At(IF request[c].op = "register" THEN "parent" ELSE "governing"))
      BY <1>1 DEF Validated, Request
    <2>2. QED BY <1>2, <2>1, ContinueValidated, FailValidated DEF CheckCustodian, Steps
  <1>3. CASE CheckParent(c)
    <2>1. CASE ActiveIfGiven(request[c].parent)
      <3>1. Validated(At("governing"))
        BY <1>1, <2>1, ActiveIsRegistered DEF Validated, Request
      <3>2. QED BY <1>3, <2>1, <3>1, ContinueValidated DEF CheckParent, Steps
    <2>2. QED BY <1>3, <2>1, FailValidated DEF CheckParent
  <1>4. CASE CheckGoverning(c)
    <2>1. CASE ActiveIfGiven(request[c].governing)
      <3>1. Validated(At(IF request[c].op = "register" THEN "select" ELSE "current"))
        BY <1>1, <1>4, <2>1, ActiveIsRegistered DEF CheckGoverning, Validated, Request
      <3>2. QED BY <1>4, <2>1, <3>1, ContinueValidated DEF CheckGoverning, Steps
    <2>2. QED BY <1>4, <2>1, FailValidated DEF CheckGoverning
  <1>5. CASE SelectOpen(c)
    <2>1. Validated(At("insert"))
      BY <1>1, <1>5 DEF SelectOpen, Validated, Request
    <2>2. QED BY <1>5, <2>1, ContinueValidated, FailValidated DEF SelectOpen, Steps
  <1>6. CASE ReadCurrent(c)
    <2>1. Validated(At("transaction"))
      BY <1>1, <1>6 DEF ReadCurrent, WellFormed, Validated, Request
    <2>2. QED BY <1>6, <2>1, ContinueValidated, FailValidated DEF ReadCurrent, Steps
  <1>7. QED BY <1>2, <1>3, <1>4, <1>5, <1>6

LEMMA WritesValidated ==
    ASSUME TypeOK, ValidationHolds, NEW c \in Clients, NEW d \in Clients,
           \/ InsertContract(c) \/ SupersedeTransaction(c)
           \/ EmitSuperseded(c) \/ EmitRegistered(c) \/ WriteBusy(c) \/ Crash(c)
    PROVE  Validated(request'[d])
  <1>1. request[c] \in Request /\ Validated(request[d])
    BY DEF TypeOK, ValidationHolds
  <1>2. CASE Fail(c)
    BY <1>2, FailValidated
  <1>3. ASSUME NEW s \in {"superseded_event", "registered_event"}, request'[c].pc = s
        PROVE  Validated(request'[c])
    BY <1>3 DEF Validated
  <1>4. CASE d # c
    <2>1. request'[d] = request[d]
      BY <1>4 DEF InsertContract, SupersedeTransaction, EmitSuperseded, EmitRegistered,
                  WriteBusy, Crash, Goto, Fail, TypeOK
    <2>2. QED BY <1>1, <2>1
  <1>5. CASE d = c /\ (EmitRegistered(c) \/ Crash(c))
    BY <1>5, AnsweredValidated DEF EmitRegistered, Crash, Idle, TypeOK
  <1>6. CASE d = c /\ (InsertContract(c) \/ SupersedeTransaction(c) \/ EmitSuperseded(c))
             /\ ~Fail(c)
    <2>1. request'[c].pc \in {"superseded_event", "registered_event"}
      BY <1>1, <1>6 DEF InsertContract, SupersedeTransaction, EmitSuperseded, Goto,
                        TypeOK, Request
    <2>2. QED BY <1>3, <1>6, <2>1
  <1>7. QED BY <1>2, <1>4, <1>5, <1>6 DEF WriteBusy

LEMMA ValidationInit == Init => ValidationHolds
  <1> SUFFICES ASSUME Init, NEW c \in Clients PROVE Validated(request[c])
    BY DEF ValidationHolds
  <1>1. request[c] = Answered("none", 0)
    BY DEF Init, Idle
  <1>2. QED BY <1>1, AnsweredValidated

LEMMA ValidationNext == TypeOK /\ ValidationHolds /\ [Next]_vars => ValidationHolds'
  <1> SUFFICES ASSUME TypeOK, ValidationHolds, [Next]_vars, NEW d \in Clients
               PROVE  Validated(request[d])'
    BY DEF ValidationHolds
  <1>1. Validated(request'[d])
    <2>1. CASE UNCHANGED request
      BY <2>1 DEF ValidationHolds
    <2>2. ASSUME NEW c \in Clients, RequestStep(c) PROVE Validated(request'[d])
      BY <2>2, ChecksValidated, WritesValidated DEF RequestStep
    <2>3. ASSUME NEW c \in Clients, WriteBusy(c) \/ Crash(c)
          PROVE  Validated(request'[d])
      BY <2>3, WritesValidated
    <2>4. QED BY <2>1, <2>2, <2>3, BeginValidated DEF Next, SetActorStatus, vars
  <1>2. \A k : Registered(k) => RegisteredNext(k)
    BY RegisteredKept
  <1>3. ValidatedNext(request'[d])
    BY <1>1, <1>2 DEF Validated, ValidatedNext
  <1>4. QED BY <1>3 DEF Validated, ValidatedNext, Registered, RegisteredNext

-----------------------------------------------------------------------------
(* The hierarchy *)

LEMMA HierarchyInit == Init => HierarchyWellFounded
  BY DEF Init, HierarchyWellFounded

\* A first revision finds no other revision of its key: one that was there
\* would have left the key an open revision, which the index refuses.
LEMMA FirstOfItsKey ==
    ASSUME TypeOK, KeyKeepsOpenRevision, NEW c \in Clients, Inserted(c),
           NEW i \in 1..rows
    PROVE  contracts[i].key # request[c].key
  <1> SUFFICES ASSUME contracts[i].key = request[c].key PROVE FALSE
    OBVIOUS
  <1>1. PICK j \in Ids : contracts[j].key = request[c].key /\ IsOpen(j)
    BY DEF KeyKeepsOpenRevision, HasOpen
  <1>2. QED BY <1>1 DEF Inserted, IndexesAllow, VersionFree, OpenKeyFree, Ids

LEMMA HierarchyInsert ==
    ASSUME TypeOK, KeyKeepsOpenRevision, ValidationHolds, HierarchyWellFounded,
           NEW c \in Clients, Inserted(c)
    PROVE  HierarchyWellFounded'
  <1> DEFINE n == rows + 1
             new == contracts'[n]
  <1>1. /\ rows \in Nat /\ n \in Ids /\ rows' = n
        /\ new.key = request[c].key /\ new.parent = request[c].parent
        /\ new.governing = request[c].governing
        /\ \A i \in 1..rows : contracts'[i] = contracts[i]
    BY InsertedRows
  <1>2. request[c].pc = "insert" /\ request[c].op = "register"
    BY DEF Inserted, TypeOK, WellFormed
  <1>3. /\ new.parent # Null => \E j \in 1..rows : contracts'[j].key = new.parent
        /\ new.governing # Null => \E j \in 1..rows : contracts'[j].key = new.governing
    BY <1>1, <1>2 DEF ValidationHolds, Validated, Registered
  <1>4. ASSUME NEW i \in 1..rows
        PROVE  /\ contracts'[i].key # new.key
               /\ contracts'[i].parent # Null =>
                      \E j \in 1..(i - 1) : contracts'[j].key = contracts'[i].parent
               /\ contracts'[i].governing # Null =>
                      \E j \in 1..(i - 1) : contracts'[j].key = contracts'[i].governing
    BY <1>1, FirstOfItsKey DEF HierarchyWellFounded, RegisteredBefore
  <1>5. ASSUME NEW i \in 1..rows, NEW j \in 1..rows, contracts'[i].key = contracts'[j].key
        PROVE  contracts'[i].parent = contracts'[j].parent
    BY <1>1, <1>5 DEF HierarchyWellFounded
  <1>6. n - 1 = rows /\ \A i \in 1..n : i = n \/ i \in 1..rows
    BY <1>1
  <1> HIDE DEF n
  <1>7. QED BY <1>1, <1>3, <1>4, <1>5, <1>6 DEF HierarchyWellFounded, RegisteredBefore

LEMMA HierarchySupersede ==
    ASSUME TypeOK, ValidationHolds, HierarchyWellFounded,
           NEW c \in Clients, Superseded(c), [Next]_vars
    PROVE  HierarchyWellFounded'
  <1> DEFINE n == rows + 1
             new == contracts'[n]
             t == request[c].target
  <1>1. /\ rows \in Nat /\ rows' = n /\ t \in 1..rows
        /\ new.key = contracts[t].key /\ new.parent = contracts[t].parent
        /\ new.governing \in {request[c].governing, contracts[t].governing}
    BY SupersededRows
  <1>2. \A i \in 1..rows : /\ contracts'[i].key = contracts[i].key
                          /\ contracts'[i].parent = contracts[i].parent
                          /\ contracts'[i].governing = contracts[i].governing
    BY KeysKept
  <1>3. request[c].governing # Null =>
            \E j \in 1..rows : contracts[j].key = request[c].governing
    BY DEF Superseded, ValidationHolds, Validated, Registered
  <1>4. /\ new.parent # Null => \E j \in 1..rows : contracts'[j].key = new.parent
        /\ new.governing # Null => \E j \in 1..rows : contracts'[j].key = new.governing
    <2>1. contracts[t].parent # Null => \E j \in 1..(t - 1) : contracts[j].key = contracts[t].parent
      BY <1>1 DEF HierarchyWellFounded, RegisteredBefore
    <2>2. contracts[t].governing # Null =>
              \E j \in 1..(t - 1) : contracts[j].key = contracts[t].governing
      BY <1>1 DEF HierarchyWellFounded, RegisteredBefore
    <2>3. \A j \in 1..(t - 1) : j \in 1..rows
      BY <1>1
    <2>4. QED BY <1>1, <1>2, <1>3, <2>1, <2>2, <2>3
  <1>5. ASSUME NEW i \in 1..rows
        PROVE  /\ contracts'[i].parent # Null =>
                      \E j \in 1..(i - 1) : contracts'[j].key = contracts'[i].parent
               /\ contracts'[i].governing # Null =>
                      \E j \in 1..(i - 1) : contracts'[j].key = contracts'[i].governing
    <2>1. \A j \in 1..(i - 1) : j \in 1..rows
      BY <1>1
    <2>2. QED BY <1>2, <2>1 DEF HierarchyWellFounded, RegisteredBefore
  <1>6. ASSUME NEW i \in 1..rows, NEW j \in 1..rows, contracts'[i].key = contracts'[j].key
        PROVE  contracts'[i].parent = contracts'[j].parent
    BY <1>2, <1>6 DEF HierarchyWellFounded
  <1>7. n - 1 = rows /\ \A i \in 1..n : i = n \/ i \in 1..rows
    BY <1>1
  <1>8. \A i \in 1..rows : contracts'[i].key = new.key => contracts'[i].parent = new.parent
    BY <1>1, <1>2 DEF HierarchyWellFounded
  <1> HIDE DEF n
  <1>9. QED BY <1>1, <1>4, <1>5, <1>6, <1>7, <1>8 DEF HierarchyWellFounded, RegisteredBefore

LEMMA HierarchyNext ==
    TypeOK /\ KeyKeepsOpenRevision /\ ValidationHolds /\ HierarchyWellFounded /\ [Next]_vars
        => HierarchyWellFounded'
  <1> SUFFICES ASSUME TypeOK, KeyKeepsOpenRevision, ValidationHolds,
                      HierarchyWellFounded, [Next]_vars
               PROVE  HierarchyWellFounded'
    OBVIOUS
  <1>1. CASE UNCHANGED <<rows, contracts>>
    BY <1>1 DEF HierarchyWellFounded, RegisteredBefore
  <1>2. QED BY <1>1, TableSteps, HierarchyInsert, HierarchySupersede

\* The parent and governing keys that validateContractParent and its sibling found active
\* still have revisions when the request writes.
THEOREM ValidationStands == Spec => []ValidationHolds
  BY InitTypeOK, NextTypeOK, ValidationInit, ValidationNext, PTL DEF Spec

\* Parents and governing contracts are always older than what refers to them,
\* so the hierarchy has no cycle, whatever was superseded between a request's
\* checks and its write; and a key never changes its parent.
THEOREM HierarchyHasNoCycle == Spec => [](HierarchyWellFounded /\ ValidationHolds)
  BY InitTypeOK, NextTypeOK, KeyKeepsInit, KeyKeepsNext, ValidationInit, ValidationNext,
     HierarchyInit, HierarchyNext, PTL DEF Spec

-----------------------------------------------------------------------------
(* Refinement of KeyedRevisions *)

RowHead(row) == [version |-> row.version, status |-> row.status, parent |-> row.parent]

\* The head of a key is read off its one open row, before and after a step.
LEMMA HeadIsOpenRow ==
    ASSUME OneOpenRevision, NEW k, NEW i \in Ids, contracts[i].key = k, IsOpen(i)
    PROVE  Head(k) = RowHead(contracts[i])
  <1> DEFINE j == CHOOSE j \in Ids : contracts[j].key = k /\ IsOpen(j)
  <1>1. j \in Ids /\ contracts[j].key = k /\ IsOpen(j)
    OBVIOUS
  <1>2. j = i
    BY <1>1 DEF OneOpenRevision
  <1>3. HasOpen(k)
    BY DEF HasOpen
  <1>4. QED BY <1>2, <1>3 DEF Head, RowHead

LEMMA HeadIsOpenRowNext ==
    ASSUME OneOpenRevision', NEW k, NEW i \in Ids, contracts'[i].key = k,
           contracts'[i].status \in OpenStatuses
    PROVE  Head(k)' = RowHead(contracts'[i])
  <1> DEFINE j == CHOOSE j \in Ids : contracts'[j].key = k
                                    /\ contracts'[j].status \in OpenStatuses
  <1>1. j \in Ids /\ contracts'[j].key = k /\ contracts'[j].status \in OpenStatuses
    OBVIOUS
  <1>2. j = i
    BY <1>1 DEF OneOpenRevision, IsOpen
  <1>3. HasOpen(k)'
    BY DEF HasOpen, IsOpen
  <1>4. QED BY <1>2, <1>3 DEF Head, RowHead, IsOpen

\* A step that leaves the open rows of a key alone leaves its head alone.
LEMMA HeadKept ==
    ASSUME OneOpenRevision, OneOpenRevision', NEW k,
           \A i \in Ids : contracts[i].key = k /\ IsOpen(i) => contracts'[i] = contracts[i],
           \A i \in Ids : contracts'[i].key = k /\ contracts'[i].status \in OpenStatuses
                             => contracts'[i] = contracts[i]
    PROVE  Head(k)' = Head(k)
  <1>1. CASE HasOpen(k)
    <2>1. PICK i \in Ids : contracts[i].key = k /\ IsOpen(i)
      BY <1>1 DEF HasOpen
    <2>2. contracts'[i] = contracts[i]
      BY <2>1
    <2>3. Head(k) = RowHead(contracts[i])
      BY <2>1, HeadIsOpenRow
    <2>4. Head(k)' = RowHead(contracts'[i])
      BY <2>1, <2>2, HeadIsOpenRowNext DEF IsOpen
    <2>5. QED BY <2>2, <2>3, <2>4
  <1>2. CASE ~HasOpen(k)
    <2>1. ~HasOpen(k)'
      BY <1>2 DEF HasOpen, IsOpen
    <2>2. QED BY <1>2, <2>1 DEF Head
  <1>3. QED BY <1>1, <1>2

LEMMA AbsentHead ==
    ASSUME NEW k, ~HasOpen(k)
    PROVE  Head(k) = [version |-> 0, status |-> "draft", parent |-> Null]
  BY DEF Head

heads == [k \in Keys |-> Head(k)]

LEMMA RefinementInit == Init => Abstract!Init
  <1> SUFFICES ASSUME Init PROVE heads = [k \in Keys |-> Abstract!Unregistered]
    BY DEF Abstract!Init, heads
  <1>1. ASSUME NEW k PROVE ~HasOpen(k)
    BY DEF Init, NoRow, HasOpen, IsOpen, OpenStatuses
  <1>2. QED BY <1>1, AbsentHead DEF heads, Abstract!Unregistered

\* Inserting version 1 of a key is Register, under a parent that has a head.
LEMMA RefinementInsert ==
    ASSUME TypeOK, OneOpenRevision, OneOpenRevision', KeyKeepsOpenRevision,
           RevisionChain, ValidationHolds, NEW c \in Clients, Inserted(c),
           NEW key \in Keys, key = request[c].key,
           NEW parent \in OptKeys, parent = request[c].parent,
           NEW status \in OpenStatuses, status = request[c].status
    PROVE  Abstract!Register(key, parent, status)
  <1> DEFINE n == rows + 1
  <1>1. /\ rows \in Nat /\ n \in Ids
        /\ contracts'[n].key = key /\ contracts'[n].parent = parent
        /\ contracts'[n].version = 1 /\ contracts'[n].status = status
    BY InsertedRows
  <1>2. \A i \in Ids : i # n => contracts'[i] = contracts[i]
    BY DEF Inserted
  <1>3. Head(key).version = 0
    <2>1. ~HasOpen(key)
      BY DEF Inserted, IndexesAllow, VersionFree, OpenKeyFree, HasOpen, Ids
    <2>2. QED BY <2>1, AbsentHead
  <1>4. Head(key)' = [version |-> 1, status |-> status, parent |-> parent]
    BY <1>1, HeadIsOpenRowNext DEF RowHead
  <1>5. ASSUME NEW k \in Keys, k # key PROVE Head(k)' = Head(k)
    <2>1. ~IsOpen(n)
      BY <1>1 DEF TypeOK, IsOpen, OpenStatuses
    <2>2. QED BY <1>1, <1>2, <1>5, <2>1, HeadKept
  <1>6. parent # Null => parent \in Keys /\ Head(parent).version > 0
    <2> SUFFICES ASSUME parent # Null PROVE parent \in Keys /\ Head(parent).version > 0
      OBVIOUS
    <2>1. Registered(parent)
      BY DEF Inserted, TypeOK, WellFormed, ValidationHolds, Validated
    <2>2. HasOpen(parent)
      BY <2>1 DEF Registered, KeyKeepsOpenRevision
    <2>3. PICK i \in Ids : contracts[i].key = parent /\ IsOpen(i)
      BY <2>2 DEF HasOpen
    <2>4. i \in 1..rows
      BY <2>3, BoundIsNat DEF TypeOK, IsOpen, OpenStatuses, Ids
    <2>5. Head(parent).version > 0
      BY <2>3, <2>4, HeadIsOpenRow, VersionPositive DEF RowHead
    <2>6. QED BY <2>5 DEF OptKeys
  <1>7. heads' = [heads EXCEPT ![key] =
                     [version |-> 1, status |-> status, parent |-> parent]]
    BY <1>4, <1>5 DEF heads
  <1>8. ~Abstract!Registered(key) /\ (parent # Null => Abstract!Registered(parent))
    BY <1>3, <1>6 DEF Abstract!Registered
  <1>9. QED BY <1>7, <1>8 DEF Abstract!Register, heads

\* Closing a revision and inserting its replacement is Revise.
LEMMA RefinementSupersede ==
    ASSUME TypeOK, OneOpenRevision, OneOpenRevision', RevisionChain,
           NEW c \in Clients, Superseded(c),
           NEW key, key = contracts[request[c].target].key,
           NEW status \in OpenStatuses, status = request[c].status
    PROVE  (key \in Keys /\ Abstract!Revise(key, status)) \/ heads' = heads
  <1> DEFINE t == request[c].target
             n == rows + 1
             old == contracts[t]
  <1>1. /\ rows \in Nat /\ n \in Ids /\ t \in 1..rows
        /\ contracts'[n].key = key /\ contracts'[n].parent = old.parent
        /\ contracts'[n].version = old.version + 1 /\ contracts'[n].status = status
        /\ contracts'[t] = Closed(old, n)
    BY SupersededRows
  <1>2. \A i \in Ids : i # n /\ i # t => contracts'[i] = contracts[i]
    BY DEF Superseded
  <1>3. IsOpen(t) /\ t \in Ids /\ old.version \in Nat \ {0}
    BY <1>1, TargetStillOpen, VersionPositive, BoundIsNat DEF TypeOK, Ids
  <1>4. Head(key) = RowHead(old)
    BY <1>3, HeadIsOpenRow
  <1>5. Head(key)' = [version |-> old.version + 1, status |-> status, parent |-> old.parent]
    BY <1>1, HeadIsOpenRowNext DEF RowHead
  <1>6. ASSUME NEW k \in Keys, k # key PROVE Head(k)' = Head(k)
    <2>1. ~IsOpen(n)
      BY <1>1 DEF TypeOK, IsOpen, OpenStatuses
    <2>2. contracts'[t].key = key
      <3>1. old \in Row /\ n \in 0..MaxRows
        BY <1>1, <1>3, BoundIsNat DEF TypeOK, Ids
      <3>2. QED BY <1>1, <3>1, ClosedRow
    <2>3. QED BY <1>1, <1>2, <1>6, <2>1, <2>2, HeadKept
  <1>7. CASE key \in Keys
    <2>1. heads' = [heads EXCEPT ![key] =
                       [version |-> old.version + 1, status |-> status,
                        parent |-> old.parent]]
      BY <1>5, <1>6 DEF heads
    <2>2. heads[key] = [version |-> old.version, status |-> old.status,
                        parent |-> old.parent]
      BY <1>4, <1>7 DEF heads, RowHead
    <2>3. Abstract!Registered(key)
      BY <1>3, <1>7, <2>2 DEF Abstract!Registered, heads
    <2>4. heads' = [heads EXCEPT ![key].version = @ + 1, ![key].status = status]
      <3> DEFINE h == [heads EXCEPT ![key].version = @ + 1]
      <3>1. DOMAIN heads = Keys
        BY DEF heads
      <3>2. h[key] = [version |-> old.version + 1, status |-> old.status,
                      parent |-> old.parent]
        BY <1>7, <2>2, <3>1
      <3>3. [h[key] EXCEPT !.status = status]
                = [version |-> old.version + 1, status |-> status, parent |-> old.parent]
        BY <3>2
      <3>4. [heads EXCEPT ![key] = [h[key] EXCEPT !.status = status]]
                = [heads EXCEPT ![key].version = @ + 1, ![key].status = status]
        BY <1>7, <3>1
      <3>5. QED BY <2>1, <3>3, <3>4
    <2>5. QED BY <1>7, <2>3, <2>4 DEF Abstract!Revise, heads
  <1>8. CASE key \notin Keys
    BY <1>6, <1>8 DEF heads
  <1>9. QED BY <1>7, <1>8

LEMMA RefinementNext ==
    ASSUME TypeOK, OneOpenRevision, OneOpenRevision', KeyKeepsOpenRevision,
           RevisionChain, ValidationHolds, [Next]_vars
    PROVE  Abstract!Next \/ heads' = heads
  <1>1. CASE UNCHANGED <<rows, contracts>>
    BY <1>1 DEF heads, Head, HasOpen, IsOpen
  <1>2. ASSUME NEW c \in Clients, Inserted(c) PROVE Abstract!Next
    <2>1. /\ request[c].key \in Keys /\ request[c].parent \in OptKeys
          /\ request[c].status \in OpenStatuses
      BY <1>2 DEF Inserted, TypeOK, Request
    <2>2. PICK key \in Keys, parent \in OptKeys, status \in OpenStatuses :
            key = request[c].key /\ parent = request[c].parent
            /\ status = request[c].status
      BY <2>1
    <2>3. Abstract!Register(key, parent, status)
      BY <1>2, <2>2, RefinementInsert
    <2>4. QED BY <2>3 DEF Abstract!Next, OptKeys, OpenStatuses
  <1>3. ASSUME NEW c \in Clients, Superseded(c) PROVE Abstract!Next \/ heads' = heads
    <2>1. request[c].status \in OpenStatuses
      BY <1>3 DEF Superseded
    <2>2. PICK status \in OpenStatuses : status = request[c].status
      BY <2>1
    <2>3. PICK key : key = contracts[request[c].target].key
      OBVIOUS
    <2>4. (key \in Keys /\ Abstract!Revise(key, status)) \/ heads' = heads
      BY <1>3, <2>2, <2>3, RefinementSupersede
    <2>5. QED BY <2>4 DEF Abstract!Next, OpenStatuses
  <1>4. QED BY <1>1, <1>2, <1>3, TableSteps

\* Seen through the open revision of each key, the registry with its requests,
\* races, failures and crashes does only what KeyedRevisions allows.
THEOREM Refinement == Spec => ImplementsKeyedRevisions
  <1>1. TypeOK /\ OneOpenRevision /\ OneOpenRevision' /\ KeyKeepsOpenRevision
          /\ RevisionChain /\ ValidationHolds /\ [Next]_vars
            => [Abstract!Next]_heads
    BY RefinementNext
  <1>2. QED
    BY <1>1, RefinementInit, TypeCorrect, AtMostOneOpen, KeysStayOpen, RevisionsFormChains,
       HierarchyHasNoCycle, PTL DEF Spec, ImplementsKeyedRevisions, Abstract!Spec, heads

================================================================================
