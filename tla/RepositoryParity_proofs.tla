------------------------ MODULE RepositoryParity_proofs ------------------------
(***************************************************************************)
(* The two repositories agree, for every number of calls: as long as none  *)
(* of the reasons named at the calls applied, the two stores have the same *)
(* rows (Twin), the rows fit the schema and each other (Sound), and every  *)
(* answer and every page of every list is the same.                        *)
(*                                                                         *)
(* Every operation has three lemmas: ...Fits and ...Dangles on the rows it *)
(* writes, where they are not plain; ...Same, that of twins it leaves      *)
(* twins and answers alike; ...Together, that the call of the service      *)
(* either names a reason or meets what ...Same asks for.                   *)
(***************************************************************************)
EXTENDS RepositoryParity, WellFoundedInduction, TLAPS

AllTables == Tables \cup {"scopes"}
Upserted == {"bindings", "sessions"}

\* A store is a function from tables to their rows and next ids.
Shaped(s) ==
    /\ DOMAIN s = AllTables
    /\ \A t \in AllTables : /\ s[t] = [rows |-> s[t].rows, next |-> s[t].next]
                            /\ s[t].rows = [x \in DOMAIN s[t].rows |-> s[t].rows[x]]
    /\ \A t \in Tables : /\ s[t].next \in Nat
                         /\ \A id \in DOMAIN s[t].rows : id \in Nat /\ id < s[t].next

\* Two stores with the same rows, and the same next ids where no upsert uses one up.
Twin(m, s) ==
    /\ Shaped(m) /\ Shaped(s)
    /\ \A t \in AllTables : m[t].rows = s[t].rows
    /\ \A t \in Tables \ Upserted : m[t].next = s[t].next

-----------------------------------------------------------------------------
(* What holds of the rows as long as nothing strayed                       *)

Columns ==
    [domains |-> {"scope", "name"},
     actors |-> {"name", "scope", "status", "key"},
     roles |-> {"name", "status", "policy"},
     contracts |-> {"key", "scope", "domain", "status", "version", "custodian", "parent", "supersedes", "supersededBy"},
     bindings |-> {"actor", "role", "surface", "credential", "provider", "status"},
     sessions |-> {"actor", "ref", "surface", "provider", "transcript", "status"},
     intents |-> {"scope", "parent", "addressed", "status", "version"},
     interpretations |-> {"intent", "domain", "actor", "resolver", "source", "status", "alignment", "supersededBy"},
     actions |-> {"intent", "interpretation", "actor", "domain", "key"},
     signals |-> {"intent", "domain", "actor"},
     claims |-> {"table", "entity", "actor", "status"},
     reports |-> {"scope", "domain", "intent", "actor"},
     events |-> {"type", "table", "entity", "actor", "scope"}]

\* An action on an interpretation is one on its intent.
OfItsIntent(s, row) ==
    row.interpretation # None => /\ Has(s, "interpretations", row.interpretation)
                                 /\ Row(s, "interpretations", row.interpretation).intent = row.intent

Fits(s, t, row) ==
    /\ row = [f \in Columns[t] |-> row[f]]
    /\ ~Sql!Dangling(s, t, row)
    /\ t = "interpretations" => row.intent # None
    /\ t = "bindings" => row.surface = "mcp"
    /\ t = "sessions" => row.status \in {"active", "closed"}
    /\ t = "claims" => row.status \in {"active", "released"}
    /\ t = "contracts" => row.version \in Nat
    /\ t = "actions" => OfItsIntent(s, row)

Whole(s) == \A t \in Tables : \A id \in DOMAIN s[t].rows : Fits(s, t, Row(s, t, id))

Begun(s) ==
    /\ Has(s, "scopes", "default") /\ Has(s, "actors", 1) /\ Has(s, "domains", 1)
    /\ Has(s, "intents", 1) /\ Has(s, "intents", 2)

NamedApart(s) ==
    \A i, j \in DOMAIN s["actors"].rows : Row(s, "actors", i).name = Row(s, "actors", j).name => i = j

\* A key that was ever registered has one open revision, and it is the last.
Revised(s) ==
    \A i \in DOMAIN s["contracts"].rows :
        /\ \E j \in With(s, "contracts", [key |-> Row(s, "contracts", i).key]) : Row(s, "contracts", j).status \in Open
        /\ Row(s, "contracts", i).status \in Open =>
              \A j \in With(s, "contracts", [key |-> Row(s, "contracts", i).key]) \ {i} :
                  /\ Row(s, "contracts", j).status \notin Open
                  /\ Row(s, "contracts", j).version < Row(s, "contracts", i).version

Sound(s) == Whole(s) /\ Begun(s) /\ NamedApart(s) /\ Revised(s)

Together ==
    strayed = {} => answered.memory = answered.sqlite /\ Twin(memory, sqlite) /\ Sound(sqlite)

-----------------------------------------------------------------------------
(* The repositories' data is the service's                                 *)

LEMMA MemoryData ==
    /\ \A s, t, id : Mem!Has(s, t, id) = Has(s, t, id)
    /\ \A s, t, id : Mem!Row(s, t, id) = Row(s, t, id)
    /\ \A s, t, id : Mem!Find(s, t, id) = Find(s, t, id)
    /\ \A s, t, row : Mem!Insert(s, t, row) = Insert(s, t, row)
    /\ \A s, t, id, row : Mem!Change(s, t, id, row) = Change(s, t, id, row)
    /\ \A row, updates : Mem!Merge(row, updates) = Merge(row, updates)
    /\ \A x, y : Mem!Given(x, y) = Given(x, y)
    /\ \A s, t, columns : Mem!With(s, t, columns) = With(s, t, columns)
    /\ \A ids : Mem!Least(ids) = Least(ids)
    /\ \A s, t, f : Mem!Filtered(s, t, f) = Filtered(s, t, f)
    /\ Mem!Open = Open
    /\ \A s, a : Mem!Answer(s, a) = Answer(s, a)
    /\ \A s, code : Mem!Error(s, code) = Error(s, code)
    /\ \A s, t, id : Mem!Ok(s, t, id) = Ok(s, t, id)
    /\ \A type, t, id, actor, scope : Mem!Event(type, t, id, actor, scope) = Event(type, t, id, actor, scope)
  BY DEF Mem!Has, Has, Mem!Row, Row, Mem!Find, Find, Mem!Insert, Insert, Mem!Put, Put,
         Mem!Change, Change, Mem!Merge, Merge, Mem!Given, Given, Mem!With, With, Mem!Least, Least,
         Mem!Filtered, Filtered, Mem!Open, Open, Mem!Answer, Answer, Mem!Error, Error, Mem!Ok, Ok,
         Mem!Event, Event

LEMMA SqliteData ==
    /\ \A s, t, id : Sql!Has(s, t, id) = Has(s, t, id)
    /\ \A s, t, id : Sql!Row(s, t, id) = Row(s, t, id)
    /\ \A s, t, id : Sql!Find(s, t, id) = Find(s, t, id)
    /\ \A s, t, row : Sql!Insert(s, t, row) = Insert(s, t, row)
    /\ \A s, t, id, row : Sql!Change(s, t, id, row) = Change(s, t, id, row)
    /\ \A row, updates : Sql!Merge(row, updates) = Merge(row, updates)
    /\ \A x, y : Sql!Given(x, y) = Given(x, y)
    /\ \A s, t, columns : Sql!With(s, t, columns) = With(s, t, columns)
    /\ \A ids : Sql!Least(ids) = Least(ids)
    /\ \A s, t, f : Sql!Filtered(s, t, f) = Filtered(s, t, f)
    /\ Sql!Open = Open
    /\ \A s, a : Sql!Answer(s, a) = Answer(s, a)
    /\ \A s, code : Sql!Error(s, code) = Error(s, code)
    /\ \A s, t, id : Sql!Ok(s, t, id) = Ok(s, t, id)
    /\ \A type, t, id, actor, scope : Sql!Event(type, t, id, actor, scope) = Event(type, t, id, actor, scope)
  BY DEF Sql!Has, Has, Sql!Row, Row, Sql!Find, Find, Sql!Insert, Insert, Sql!Put, Put,
         Sql!Change, Change, Sql!Merge, Merge, Sql!Given, Given, Sql!With, With, Sql!Least, Least,
         Sql!Filtered, Filtered, Sql!Open, Open, Sql!Answer, Answer, Sql!Error, Error, Sql!Ok, Ok,
         Sql!Event, Event

LEMMA Inserted ==
    ASSUME NEW s, Shaped(s), NEW t \in Tables, NEW row
    PROVE  /\ Shaped(Insert(s, t, row))
           /\ Insert(s, t, row)[t].rows = Put(s[t].rows, s[t].next, row)
           /\ Insert(s, t, row)[t].next = s[t].next + 1
           /\ \A u \in AllTables \ {t} : Insert(s, t, row)[u] = s[u]
  <1> DEFINE i == Insert(s, t, row)
  <1>1. t \in AllTables
    BY DEF AllTables
  <1>2. i[t] = [rows |-> Put(s[t].rows, s[t].next, row), next |-> s[t].next + 1]
    BY <1>1 DEF Shaped, Insert
  <1>3. \A u \in AllTables \ {t} : i[u] = s[u]
    BY <1>1 DEF Shaped, Insert
  <1>4. DOMAIN i = AllTables
    BY DEF Shaped, Insert
  <1>5. /\ DOMAIN i[t].rows = DOMAIN s[t].rows \cup {s[t].next}
        /\ i[t].rows = [x \in DOMAIN i[t].rows |-> i[t].rows[x]]
    BY <1>2 DEF Put
  <1>6. Shaped(i)
    BY <1>1, <1>2, <1>3, <1>4, <1>5 DEF Shaped, AllTables
  <1>7. QED BY <1>2, <1>3, <1>6

LEMMA Changed ==
    ASSUME NEW s, Shaped(s), NEW t \in Tables, NEW id \in DOMAIN s[t].rows, NEW row
    PROVE  /\ Shaped(Change(s, t, id, row))
           /\ Change(s, t, id, row)[t].rows = [s[t].rows EXCEPT ![id] = row]
           /\ Change(s, t, id, row)[t].next = s[t].next
           /\ \A u \in AllTables \ {t} : Change(s, t, id, row)[u] = s[u]
  <1> DEFINE i == Change(s, t, id, row)
  <1>1. t \in AllTables
    BY DEF AllTables
  <1>2. i[t] = [rows |-> [s[t].rows EXCEPT ![id] = row], next |-> s[t].next]
    <2>1. s[t] = [rows |-> s[t].rows, next |-> s[t].next]
      BY <1>1 DEF Shaped
    <2>2. i = [s EXCEPT ![t] = [s[t] EXCEPT !.rows = [s[t].rows EXCEPT ![id] = row]]]
      BY DEF Change
    <2>3. i[t] = [s[t] EXCEPT !.rows = [s[t].rows EXCEPT ![id] = row]]
      BY <1>1, <2>2 DEF Shaped
    <2>4. [s[t] EXCEPT !.rows = [s[t].rows EXCEPT ![id] = row]] =
             [rows |-> [s[t].rows EXCEPT ![id] = row], next |-> s[t].next]
      BY <2>1
    <2>5. QED BY <2>3, <2>4
  <1>3. \A u \in AllTables \ {t} : i[u] = s[u]
    BY <1>1 DEF Shaped, Change
  <1>4. DOMAIN i = AllTables
    BY DEF Shaped, Change
  <1>5. /\ DOMAIN i[t].rows = DOMAIN s[t].rows
        /\ i[t].rows = [x \in DOMAIN i[t].rows |-> i[t].rows[x]]
    BY <1>2
  <1>6. Shaped(i)
    BY <1>1, <1>2, <1>3, <1>4, <1>5 DEF Shaped, AllTables
  <1>7. QED BY <1>2, <1>3, <1>6

\* The next ids are the same unless an upsert used one up.
LEMMA TwinInsert ==
    ASSUME NEW m, NEW s, Twin(m, s), NEW t \in Tables, NEW row, m[t].next = s[t].next
    PROVE  Twin(Insert(m, t, row), Insert(s, t, row))
  <1>1. t \in AllTables
    BY DEF AllTables
  <1>2. QED BY <1>1, Inserted DEF Twin, AllTables

LEMMA TwinChange ==
    ASSUME NEW m, NEW s, Twin(m, s), NEW t \in Tables, NEW id \in DOMAIN s[t].rows, NEW row
    PROVE  Twin(Change(m, t, id, row), Change(s, t, id, row))
  <1>1. t \in AllTables
    BY DEF AllTables
  <1>2. id \in DOMAIN m[t].rows
    BY <1>1 DEF Twin
  <1> DEFINE cm == Change(m, t, id, row)
             cs == Change(s, t, id, row)
  <1>3. /\ Shaped(cm) /\ cm[t].rows = [m[t].rows EXCEPT ![id] = row] /\ cm[t].next = m[t].next
        /\ \A u \in AllTables \ {t} : cm[u] = m[u]
    BY <1>2, Changed DEF Twin
  <1>4. /\ Shaped(cs) /\ cs[t].rows = [s[t].rows EXCEPT ![id] = row] /\ cs[t].next = s[t].next
        /\ \A u \in AllTables \ {t} : cs[u] = s[u]
    BY Changed DEF Twin
  <1> HIDE DEF cm, cs
  <1>5. Twin(cm, cs)
    BY <1>1, <1>3, <1>4 DEF Twin, AllTables
  <1>6. QED BY <1>5 DEF cm, cs

-----------------------------------------------------------------------------
(* Reads *)

LEMMA TwinReads ==
    ASSUME NEW m, NEW s, Twin(m, s), NEW t \in AllTables
    PROVE  /\ \A id : Has(m, t, id) = Has(s, t, id)
           /\ \A id : Row(m, t, id) = Row(s, t, id)
           /\ \A id : Find(m, t, id) = Find(s, t, id)
           /\ \A columns : With(m, t, columns) = With(s, t, columns)
           /\ \A f : Filtered(m, t, f) = Filtered(s, t, f)
  BY DEF Twin, Has, Row, Find, With, Filtered

-----------------------------------------------------------------------------
(* Writes that both repositories make in the same way *)

\* An operation that leaves twins and gives the same answer.
Agree(m, q) == m.answer = q.answer /\ Twin(m.store, q.store)

LEMMA ReferencesAreTables ==
    \A t \in Tables : \A f \in DOMAIN Sql!ForeignKeys[t] : Sql!ForeignKeys[t][f] \in AllTables
  BY DEF Tables, AllTables, Sql!ForeignKeys

\* An event is refused only for its actor.
LEMMA EventFits ==
    ASSUME NEW s, NEW e, Sql!Dangling(s, "events", e)
    PROVE  e.actor # None /\ ~Has(s, "actors", e.actor)
  BY SqliteData DEF Sql!Dangling, Sql!ForeignKeys

LEMMA EmitWhole ==
    ASSUME NEW s, NEW e, ~Sql!Dangling(s, "events", e)
    PROVE  Sql!emitEvent(s, e) = Answer(Insert(s, "events", e), e)
  BY SqliteData DEF Sql!emitEvent

\* An event that was stored is not taken for an error.
LEMMA EmitIsNoThrow ==
    ASSUME NEW s, NEW type, NEW t, NEW id, NEW actor, NEW scope
    PROVE  LET e == Event(type, t, id, actor, scope)
           IN  Answer(Insert(s, "events", e), e) # Sql!Throw(s)
  BY SqliteData DEF Sql!Throw, Error, Answer, Event

\* Ok of twins.
LEMMA TwinOk ==
    ASSUME NEW m, NEW s, Twin(m, s), NEW t \in Tables, NEW id
    PROVE  Agree(Ok(m, t, id), Ok(s, t, id)) /\ Ok(s, t, id).store = s
  <1>1. Row(m, t, id) = Row(s, t, id)
    BY TwinReads DEF AllTables
  <1>2. QED BY <1>1 DEF Agree, Ok, Answer

LEMMA AnnouncedAgrees ==
    ASSUME NEW m, NEW s, Twin(m, s), NEW t \in Tables, NEW id,
           NEW type, NEW of, NEW entity, NEW actor, NEW scope,
           ~Sql!Dangling(s, "events", Event(type, of, entity, actor, scope))
    PROVE  LET e == Event(type, of, entity, actor, scope)
           IN  /\ Agree(Ok(Insert(m, "events", e), t, id), Sql!Announced(s, e, t, id))
               /\ Sql!Announced(s, e, t, id).store = Insert(s, "events", e)
  <1> DEFINE e == Event(type, of, entity, actor, scope)
  <1>1. Sql!emitEvent(s, e) = Answer(Insert(s, "events", e), e)
    BY EmitWhole
  <1>2. Sql!emitEvent(s, e) # Sql!Throw(s)
    BY <1>1, EmitIsNoThrow
  <1>3. Sql!Announced(s, e, t, id) = Ok(Insert(s, "events", e), t, id)
    <2>1. Answer(Insert(s, "events", e), e).store = Insert(s, "events", e)
      BY DEF Answer
    <2> HIDE DEF e
    <2>2. QED BY <1>1, <1>2, <2>1, SqliteData, Zenon DEF Sql!Announced
  <1>4. Twin(Insert(m, "events", e), Insert(s, "events", e))
    <2>1. "events" \in Tables /\ "events" \notin Upserted
      BY DEF Tables, Upserted
    <2>2. m["events"].next = s["events"].next
      BY <2>1 DEF Twin
    <2> HIDE DEF e
    <2>3. QED BY <2>1, <2>2, TwinInsert
  <1> HIDE DEF e
  <1>5. QED BY <1>3, <1>4, TwinOk DEF e

LEMMA RecordedAgrees ==
    ASSUME NEW m, NEW s, Twin(m, s), NEW t \in Tables \ Upserted, NEW row,
           NEW type, NEW of, NEW entity, NEW actor, NEW scope,
           ~Sql!Refuses(s, t, row),
           ~Sql!Dangling(Insert(s, t, row), "events", Event(type, of, entity, actor, scope))
    PROVE  LET e == Event(type, of, entity, actor, scope)
           IN  /\ Agree(Mem!Recorded(m, t, row, e), Sql!Recorded(s, t, row, e))
               /\ Sql!Recorded(s, t, row, e).store = Insert(Insert(s, t, row), "events", e)
  <1> DEFINE e == Event(type, of, entity, actor, scope)
  <1>1. m[t].next = s[t].next
    BY DEF Twin
  <1>2. Twin(Insert(m, t, row), Insert(s, t, row))
    BY <1>1, TwinInsert
  <1>3. Mem!Recorded(m, t, row, e) = Ok(Insert(Insert(m, t, row), "events", e), t, s[t].next)
    <2> HIDE DEF e
    <2>1. QED BY <1>1, MemoryData, Zenon DEF Mem!Recorded, Mem!emitEvent
  <1>4. Sql!Recorded(s, t, row, e) = Sql!Announced(Insert(s, t, row), e, t, s[t].next)
    <2> HIDE DEF e
    <2>1. QED BY SqliteData, Zenon DEF Sql!Recorded
  <1>5. QED BY <1>2, <1>3, <1>4, AnnouncedAgrees

LEMMA CreatedAgrees ==
    ASSUME NEW m, NEW s, Twin(m, s), NEW t \in Tables, NEW row, m[t].next = s[t].next
    PROVE  /\ Agree(Mem!Created(m, t, row), Ok(Insert(s, t, row), t, s[t].next))
           /\ Sql!Refuses(s, t, row) \/ Sql!Created(s, t, row) = Ok(Insert(s, t, row), t, s[t].next)
  <1>1. Twin(Insert(m, t, row), Insert(s, t, row))
    BY TwinInsert
  <1>2. Mem!Created(m, t, row) = Ok(Insert(m, t, row), t, s[t].next)
    BY MemoryData, Zenon DEF Mem!Created
  <1>3. Sql!Refuses(s, t, row) \/ Sql!Created(s, t, row) = Ok(Insert(s, t, row), t, s[t].next)
    BY SqliteData, Zenon DEF Sql!Created
  <1>4. QED BY <1>1, <1>2, <1>3, TwinOk

-----------------------------------------------------------------------------
(* Rows that fit keep fitting: nothing is deleted, and no interpretation   *)
(* changes its intent                                                      *)

Extends(s, e) ==
    /\ \A t \in AllTables : DOMAIN s[t].rows \subseteq DOMAIN e[t].rows
    /\ \A id \in DOMAIN s["interpretations"].rows :
          Row(e, "interpretations", id).intent = Row(s, "interpretations", id).intent

LEMMA ExtendsTransitive ==
    ASSUME NEW a, NEW b, NEW c, Extends(a, b), Extends(b, c)
    PROVE  Extends(a, c)
  <1>1. "interpretations" \in AllTables
    BY DEF AllTables, Tables
  <1>2. QED BY <1>1 DEF Extends

\* A row that refers to rows that are there goes on doing so.
LEMMA DanglingExtends ==
    ASSUME NEW s, NEW e, Extends(s, e), NEW t \in Tables, NEW row, Sql!Dangling(e, t, row)
    PROVE  Sql!Dangling(s, t, row)
  <1>1. PICK f \in DOMAIN Sql!ForeignKeys[t] : row[f] # None /\ ~Has(e, Sql!ForeignKeys[t][f], row[f])
    BY SqliteData DEF Sql!Dangling
  <1>2. Sql!ForeignKeys[t][f] \in AllTables
    BY ReferencesAreTables
  <1>3. ~Has(s, Sql!ForeignKeys[t][f], row[f])
    BY <1>1, <1>2 DEF Extends, Has
  <1>4. QED BY <1>1, <1>3, SqliteData DEF Sql!Dangling

LEMMA FitsExtends ==
    ASSUME NEW s, NEW e, Extends(s, e), NEW t \in Tables, NEW row, Fits(s, t, row)
    PROVE  Fits(e, t, row)
  <1>1. ~Sql!Dangling(e, t, row)
    BY DanglingExtends DEF Fits
  <1>2. t = "actions" => OfItsIntent(e, row)
    <2>1. "interpretations" \in AllTables
      BY DEF AllTables, Tables
    <2>2. QED BY <2>1 DEF Fits, OfItsIntent, Extends, Has
  <1>3. QED BY <1>1, <1>2 DEF Fits

LEMMA BegunExtends ==
    ASSUME NEW s, NEW e, Extends(s, e), Begun(s)
    PROVE  Begun(e)
  BY DEF Begun, Extends, Has, AllTables, Tables

\* The rows that were there keep fitting when one is added, and when one is changed.
LEMMA InsertKeeps ==
    ASSUME NEW s, Shaped(s), Whole(s), NEW t \in Tables, NEW row, Fits(s, t, row)
    PROVE  Extends(s, Insert(s, t, row)) /\ Whole(Insert(s, t, row))
  <1> DEFINE i == Insert(s, t, row)
  <1>0. t \in AllTables /\ Tables \subseteq AllTables /\ "interpretations" \in Tables
    BY DEF AllTables, Tables
  <1>1. /\ Shaped(i)
        /\ i[t].rows = Put(s[t].rows, s[t].next, row)
        /\ \A u \in AllTables \ {t} : i[u] = s[u]
    BY Inserted
  <1>2. s[t].next \notin DOMAIN s[t].rows
    BY <1>0 DEF Shaped
  <1> HIDE DEF i
  <1>3. /\ DOMAIN i[t].rows = DOMAIN s[t].rows \cup {s[t].next}
        /\ Row(i, t, s[t].next) = row
        /\ \A id \in DOMAIN s[t].rows : Row(i, t, id) = Row(s, t, id)
    BY <1>1, <1>2 DEF Put, Row
  <1>4. \A u \in Tables : \A id : id \in DOMAIN s[u].rows => id \in DOMAIN i[u].rows /\ Row(i, u, id) = Row(s, u, id)
    BY <1>0, <1>1, <1>3 DEF Row
  <1>5. Extends(s, i)
    BY <1>0, <1>1, <1>3, <1>4 DEF Extends
  <1>6. ASSUME NEW u \in Tables, NEW id \in DOMAIN i[u].rows
        PROVE  Fits(i, u, Row(i, u, id))
    <2>1. CASE id \in DOMAIN s[u].rows
      <3>1. Fits(s, u, Row(s, u, id))
        BY <2>1 DEF Whole
      <3>2. QED BY <2>1, <3>1, <1>4, <1>5, FitsExtends
    <2>2. CASE id \notin DOMAIN s[u].rows
      <3>1. u = t /\ id = s[t].next
        BY <2>2, <1>0, <1>1, <1>3
      <3>2. QED BY <3>1, <1>3, <1>5, FitsExtends
    <2>3. QED BY <2>1, <2>2
  <1>7. QED BY <1>5, <1>6 DEF Whole, i

LEMMA ChangeKeeps ==
    ASSUME NEW s, Shaped(s), Whole(s), NEW t \in Tables, NEW id \in DOMAIN s[t].rows, NEW row, Fits(s, t, row),
           t = "interpretations" => row.intent = Row(s, t, id).intent
    PROVE  Extends(s, Change(s, t, id, row)) /\ Whole(Change(s, t, id, row))
  <1> DEFINE c == Change(s, t, id, row)
  <1>0. t \in AllTables /\ Tables \subseteq AllTables /\ "interpretations" \in Tables
    BY DEF AllTables, Tables
  <1>1. /\ c[t].rows = [s[t].rows EXCEPT ![id] = row]
        /\ \A u \in AllTables \ {t} : c[u] = s[u]
    BY Changed
  <1> HIDE DEF c
  <1>3. /\ DOMAIN c[t].rows = DOMAIN s[t].rows
        /\ Row(c, t, id) = row
        /\ \A x \in DOMAIN s[t].rows \ {id} : Row(c, t, x) = Row(s, t, x)
    BY <1>1 DEF Row
  <1>4. \A u \in Tables : DOMAIN c[u].rows = DOMAIN s[u].rows
    BY <1>0, <1>1, <1>3
  <1>5. \A u \in Tables : \A x : x \in DOMAIN s[u].rows /\ (u # t \/ x # id) => Row(c, u, x) = Row(s, u, x)
    BY <1>0, <1>1, <1>3 DEF Row
  <1>6. Extends(s, c)
    <2>1. \A u \in AllTables : DOMAIN s[u].rows \subseteq DOMAIN c[u].rows
      BY <1>0, <1>1, <1>3
    <2>2. \A x \in DOMAIN s["interpretations"].rows : Row(c, "interpretations", x).intent = Row(s, "interpretations", x).intent
      BY <1>0, <1>3, <1>5
    <2>3. QED BY <2>1, <2>2 DEF Extends
  <1>7. ASSUME NEW u \in Tables, NEW x \in DOMAIN c[u].rows
        PROVE  Fits(c, u, Row(c, u, x))
    <2>1. x \in DOMAIN s[u].rows
      BY <1>4
    <2>2. CASE u = t /\ x = id
      BY <2>2, <1>3, <1>6, FitsExtends
    <2>3. CASE u # t \/ x # id
      <3>1. Fits(s, u, Row(s, u, x))
        BY <2>1 DEF Whole
      <3>2. QED BY <3>1, <2>1, <2>3, <1>5, <1>6, FitsExtends
    <2>4. QED BY <2>2, <2>3
  <1>8. QED BY <1>6, <1>7 DEF Whole, c

-----------------------------------------------------------------------------
(* Soundness through the writes                                            *)

\* Soundness outside the two tables with an invariant of their own.
LEMMA SoundInsert ==
    ASSUME NEW s, Shaped(s), Sound(s), NEW t \in Tables \ {"actors", "contracts"}, NEW row, Fits(s, t, row)
    PROVE  Sound(Insert(s, t, row))
  <1> DEFINE i == Insert(s, t, row)
  <1>1. Extends(s, i) /\ Whole(i)
    BY InsertKeeps DEF Sound
  <1>2. i["actors"] = s["actors"] /\ i["contracts"] = s["contracts"]
    <2>1. {"actors", "contracts"} \subseteq AllTables
      BY DEF AllTables, Tables
    <2>2. QED BY <2>1, Inserted
  <1> HIDE DEF i
  <1>3. Begun(i)
    BY <1>1, BegunExtends DEF Sound
  <1>4. NamedApart(i) /\ Revised(i)
    BY <1>2 DEF Sound, NamedApart, Revised, With, Row
  <1>5. QED BY <1>1, <1>3, <1>4 DEF Sound, i

LEMMA SoundChange ==
    ASSUME NEW s, Shaped(s), Sound(s), NEW t \in Tables \ {"actors", "contracts"},
           NEW id \in DOMAIN s[t].rows, NEW row, Fits(s, t, row),
           t = "interpretations" => row.intent = Row(s, t, id).intent
    PROVE  Sound(Change(s, t, id, row))
  <1> DEFINE c == Change(s, t, id, row)
  <1>1. t \in Tables /\ {"actors", "contracts"} \subseteq AllTables \ {t}
    BY DEF AllTables, Tables
  <1>2. Extends(s, c) /\ Whole(c)
    BY <1>1, ChangeKeeps DEF Sound
  <1>3. /\ c[t].rows = [s[t].rows EXCEPT ![id] = row]
        /\ \A u \in AllTables \ {t} : c[u] = s[u]
    BY <1>1, Changed
  <1> HIDE DEF c
  <1>4. Begun(c)
    BY <1>2, BegunExtends DEF Sound
  <1>5. c["actors"] = s["actors"] /\ c["contracts"] = s["contracts"]
    BY <1>1, <1>3
  <1>6. NamedApart(c) /\ Revised(c)
    BY <1>5 DEF Sound, NamedApart, Revised, With, Row
  <1>7. QED BY <1>2, <1>4, <1>6 DEF Sound, c

LEMMA EventIsRow ==
    ASSUME NEW type, NEW of, NEW entity, NEW actor, NEW scope
    PROVE  LET e == Event(type, of, entity, actor, scope)
           IN  e.actor = actor /\ \A s : Fits(s, "events", e) = ~Sql!Dangling(s, "events", e)
  BY DEF Event, Fits, Columns

LEMMA SoundEvent ==
    ASSUME NEW s, Shaped(s), Sound(s), NEW type, NEW of, NEW entity, NEW actor, NEW scope,
           ~Sql!Dangling(s, "events", Event(type, of, entity, actor, scope))
    PROVE  Sound(Insert(s, "events", Event(type, of, entity, actor, scope)))
  <1>1. "events" \in Tables \ {"actors", "contracts"}
    BY DEF Tables
  <1>2. QED BY <1>1, EventIsRow, SoundInsert

\* An event of an actor there is, or of none, is stored.
LEMMA EventOfActor ==
    ASSUME NEW s, NEW type, NEW of, NEW entity, NEW actor, NEW scope, actor = None \/ Has(s, "actors", actor)
    PROVE  ~Sql!Dangling(s, "events", Event(type, of, entity, actor, scope))
  BY EventFits, EventIsRow

\* Twins that stay sound, and the same answer.
Same(m, q) == Agree(m, q) /\ Sound(q.store)

LEMMA AnnouncedSame ==
    ASSUME NEW m, NEW s, Twin(m, s), Sound(s), NEW t \in Tables, NEW id,
           NEW type, NEW of, NEW entity, NEW actor, NEW scope, actor = None \/ Has(s, "actors", actor)
    PROVE  LET e == Event(type, of, entity, actor, scope)
           IN  Same(Ok(Insert(m, "events", e), t, id), Sql!Announced(s, e, t, id))
  <1>1. ~Sql!Dangling(s, "events", Event(type, of, entity, actor, scope))
    BY EventOfActor
  <1>2. Shaped(s)
    BY DEF Twin
  <1>3. Sound(Insert(s, "events", Event(type, of, entity, actor, scope)))
    BY <1>1, <1>2, SoundEvent
  <1>4. QED BY <1>1, <1>3, AnnouncedAgrees DEF Same

LEMMA RecordedSame ==
    ASSUME NEW m, NEW s, Twin(m, s), Sound(s),
           NEW t \in Tables \ (Upserted \cup {"actors", "contracts"}), NEW row,
           NEW type, NEW of, NEW entity, NEW actor, NEW scope, actor = None \/ Has(s, "actors", actor),
           Fits(s, t, row), Sql!Conflicting(s, t, row) = {}
    PROVE  LET e == Event(type, of, entity, actor, scope)
           IN  Same(Mem!Recorded(m, t, row, e), Sql!Recorded(s, t, row, e))
  <1> DEFINE i == Insert(s, t, row)
             e == Event(type, of, entity, actor, scope)
  <1>1. Shaped(s)
    BY DEF Twin
  <1>2. Sound(i) /\ Shaped(i) /\ Extends(s, i)
    BY <1>1, SoundInsert, Inserted, InsertKeeps DEF Sound
  <1>3. actor = None \/ Has(i, "actors", actor)
    BY <1>2 DEF Extends, Has, AllTables, Tables
  <1>4. ~Sql!Dangling(i, "events", e)
    BY <1>3, EventOfActor
  <1>5. ~Sql!Refuses(s, t, row)
    BY DEF Sql!Refuses, Sql!OpenKeyTaken, Fits
  <1>6. /\ Agree(Mem!Recorded(m, t, row, e), Sql!Recorded(s, t, row, e))
        /\ Sql!Recorded(s, t, row, e).store = Insert(i, "events", e)
    BY <1>4, <1>5, RecordedAgrees
  <1>7. Sound(Insert(i, "events", e))
    BY <1>2, <1>4, SoundEvent
  <1>8. QED BY <1>6, <1>7 DEF Same

\* Intents, interpretations and the like have no unique columns.
LEMMA Unconstrained ==
    ASSUME NEW s, NEW t \in Tables \ {"actors", "roles", "domains", "contracts", "bindings", "sessions"}, NEW row
    PROVE  Sql!Conflicting(s, t, row) = {}
  BY DEF Sql!Conflicting, Sql!UniqueColumns, Sql!Tables, Tables

-----------------------------------------------------------------------------
(* Intents                                                                 *)

IntentOf(p) == [scope |-> p.scope, parent |-> p.parent, addressed |-> p.addressed,
                status |-> Given(p.status, "draft"), version |-> 1]

LEMMA CreateIntentSame ==
    ASSUME NEW m, NEW s, Twin(m, s), Sound(s), NEW p, NEW actor,
           p.scope = "default", ~Sql!Dangling(s, "intents", p), actor # None, Has(s, "actors", actor)
    PROVE  Same(Mem!createIntent(m, p, actor), Sql!createIntent(s, p, actor))
  <1> DEFINE row == IntentOf(p)
             id == s["intents"].next
             e == Event("intent_created", "intents", id, actor, "default")
             i == Insert(s, "intents", row)
             im == Insert(m, "intents", row)
  <1>0. "intents" \in Tables \ (Upserted \cup {"actors", "contracts"}) /\ m["intents"].next = id
    BY DEF Tables, Upserted, Twin
  <1>1. Mem!createIntent(m, p, actor) = Ok(Insert(im, "events", e), "intents", id)
    BY <1>0, MemoryData, Zenon DEF Mem!createIntent, Mem!emitEvent, IntentOf
  <1>2. Fits(s, "intents", row)
    <2>1. ~Sql!Dangling(s, "intents", row)
      BY DEF Sql!Dangling, Sql!ForeignKeys, IntentOf
    <2>2. row = [f \in Columns["intents"] |-> row[f]]
      BY DEF IntentOf, Columns
    <2> HIDE DEF row
    <2>3. QED BY <2>1, <2>2 DEF Fits
  <1>3. ~Sql!Refuses(s, "intents", row)
    <2> HIDE DEF row
    <2>1. QED BY <1>0, <1>2, Unconstrained DEF Sql!Refuses, Sql!OpenKeyTaken, Fits
  <1>4. Sql!createIntent(s, p, actor) = Sql!Announced(i, e, "intents", id)
    BY <1>3, SqliteData, Zenon DEF Sql!createIntent, IntentOf
  <1> HIDE DEF row
  <1>5. Twin(im, i)
    BY <1>0, TwinInsert
  <1>6. Sound(i) /\ Extends(s, i)
    BY <1>0, <1>2, SoundInsert, InsertKeeps DEF Twin, Sound
  <1>7. Has(i, "actors", actor)
    BY <1>6 DEF Extends, Has, AllTables, Tables
  <1> HIDE DEF i, im, id
  <1>8. Same(Ok(Insert(im, "events", e), "intents", id), Sql!Announced(i, e, "intents", id))
    BY <1>0, <1>5, <1>6, <1>7, AnnouncedSame
  <1>9. QED BY <1>1, <1>4, <1>8

LEMMA ErrorSame ==
    ASSUME NEW m, NEW s, Twin(m, s), Sound(s), NEW code
    PROVE  Same(Error(m, code), Error(s, code))
  BY DEF Same, Agree, Error, Answer

LEMMA RowFits ==
    ASSUME NEW s, Sound(s), NEW t \in Tables, NEW id \in DOMAIN s[t].rows
    PROVE  Fits(s, t, Row(s, t, id))
  BY DEF Sound, Whole

LEMMA IntentDangles ==
    ASSUME NEW s, NEW x
    PROVE  Sql!Dangling(s, "intents", x) <=> \/ x.scope # None /\ ~Has(s, "scopes", x.scope)
                                             \/ x.addressed # None /\ ~Has(s, "actors", x.addressed)
                                             \/ x.parent # None /\ ~Has(s, "intents", x.parent)
  <1> DEFINE references == Sql!ForeignKeys["intents"]
  <1>1. /\ DOMAIN references = {"scope", "addressed", "parent"}
        /\ references["scope"] = "scopes" /\ references["addressed"] = "actors" /\ references["parent"] = "intents"
    BY DEF Sql!ForeignKeys
  <1>2. Sql!Dangling(s, "intents", x) <=>
            \E f \in DOMAIN references : x[f] # None /\ ~Has(s, references[f], x[f])
    BY DEF Sql!Dangling, Sql!Has, Has
  <1> HIDE DEF references
  <1>3. QED BY <1>1, <1>2

LEMMA MergedIntentFits ==
    ASSUME NEW s, NEW row, Fits(s, "intents", row), NEW updates, NEW version,
           DOMAIN updates \subseteq {"status", "addressed"},
           "addressed" \in DOMAIN updates => Has(s, "actors", updates.addressed)
    PROVE  Fits(s, "intents", [Merge(row, updates) EXCEPT !.version = version])
  <1> DEFINE new == [Merge(row, updates) EXCEPT !.version = version]
  <1>1. row = [f \in Columns["intents"] |-> row[f]]
    BY DEF Fits
  <1>2. DOMAIN row = {"scope", "parent", "addressed", "status", "version"}
    BY <1>1 DEF Columns
  <1>3. /\ DOMAIN new = Columns["intents"]
        /\ new = [f \in Columns["intents"] |-> new[f]]
    BY <1>2 DEF Columns, Merge
  <1>4. /\ new.scope = row.scope /\ new.parent = row.parent
        /\ new.addressed = row.addressed \/ Has(s, "actors", new.addressed)
    BY <1>2 DEF Merge
  <1> HIDE DEF new
  <1>5. ~Sql!Dangling(s, "intents", new)
    BY <1>4, IntentDangles DEF Fits
  <1>6. QED BY <1>3, <1>5 DEF Fits, new

LEMMA UpdateIntentSame ==
    ASSUME NEW m, NEW s, Twin(m, s), Sound(s), NEW id, NEW updates, NEW actor,
           DOMAIN updates \subseteq {"status", "addressed"},
           "addressed" \in DOMAIN updates => Has(s, "actors", updates.addressed),
           Has(s, "intents", id) =>
               actor # None /\ Has(s, "actors", actor) /\ Row(s, "intents", id).scope = "default"
    PROVE  Same(Mem!updateIntent(m, id, updates, actor), Sql!updateIntent(s, id, updates, actor))
  <1>0. "intents" \in Tables \ (Upserted \cup {"actors", "contracts"}) /\ "intents" \in AllTables
    BY DEF Tables, Upserted, AllTables
  <1>1. Has(m, "intents", id) = Has(s, "intents", id) /\ Row(m, "intents", id) = Row(s, "intents", id)
    BY <1>0, TwinReads
  <1>2. CASE ~Has(s, "intents", id)
    <2>1. Mem!updateIntent(m, id, updates, actor) = Error(m, "NOT_FOUND")
      BY <1>1, <1>2, MemoryData, Zenon DEF Mem!updateIntent
    <2>2. Sql!updateIntent(s, id, updates, actor) = Error(s, "NOT_FOUND")
      BY <1>2, SqliteData, Zenon DEF Sql!updateIntent
    <2>3. QED BY <2>1, <2>2, ErrorSame
  <1>3. CASE Has(s, "intents", id)
    <2> DEFINE row == Row(s, "intents", id)
               new == [Merge(row, updates) EXCEPT !.version = row.version + 1]
               e == Event("intent_updated", "intents", id, actor, "default")
               c == Change(s, "intents", id, new)
               cm == Change(m, "intents", id, new)
    <2>1. Mem!updateIntent(m, id, updates, actor) = Ok(Insert(cm, "events", e), "intents", id)
      BY <1>1, <1>3, MemoryData, Zenon DEF Mem!updateIntent, Mem!emitEvent
    <2>2. id \in DOMAIN s["intents"].rows
      BY <1>3 DEF Has
    <2>3. Fits(s, "intents", new)
      BY <1>0, <2>2, RowFits, MergedIntentFits
    <2>4. ~Sql!Refused(s, "intents", id, new)
      <3> HIDE DEF new
      <3>1. QED BY <1>0, <2>3, Unconstrained DEF Sql!Refused, Fits
    <2>5. Sql!updateIntent(s, id, updates, actor) = Sql!Announced(c, e, "intents", id)
      BY <1>3, <2>4, SqliteData, Zenon DEF Sql!updateIntent
    <2> HIDE DEF new
    <2>6. Twin(cm, c)
      BY <1>0, <2>2, TwinChange
    <2>7. Sound(c) /\ Extends(s, c)
      BY <1>0, <2>2, <2>3, SoundChange, ChangeKeeps DEF Twin, Sound
    <2>8. Has(c, "actors", actor)
      BY <1>3, <2>7 DEF Extends, Has, AllTables, Tables
    <2> HIDE DEF c, cm
    <2>9. Same(Ok(Insert(cm, "events", e), "intents", id), Sql!Announced(c, e, "intents", id))
      BY <1>0, <2>6, <2>7, <2>8, AnnouncedSame
    <2>10. QED BY <2>1, <2>5, <2>9
  <1>4. QED BY <1>2, <1>3

-----------------------------------------------------------------------------
(* Interpretations                                                         *)

LEMMA InterpretationDangles ==
    ASSUME NEW s, NEW x
    PROVE  Sql!Dangling(s, "interpretations", x) <=>
               \/ x.intent # None /\ ~Has(s, "intents", x.intent)
               \/ x.domain # None /\ ~Has(s, "domains", x.domain)
               \/ x.actor # None /\ ~Has(s, "actors", x.actor)
               \/ x.resolver # None /\ ~Has(s, "actors", x.resolver)
               \/ x.supersededBy # None /\ ~Has(s, "interpretations", x.supersededBy)
  <1> DEFINE references == Sql!ForeignKeys["interpretations"]
  <1>1. /\ DOMAIN references = {"intent", "domain", "actor", "resolver", "supersededBy"}
        /\ references["intent"] = "intents" /\ references["domain"] = "domains"
        /\ references["actor"] = "actors" /\ references["resolver"] = "actors"
        /\ references["supersededBy"] = "interpretations"
    BY DEF Sql!ForeignKeys
  <1>2. Sql!Dangling(s, "interpretations", x) <=>
            \E f \in DOMAIN references : x[f] # None /\ ~Has(s, references[f], x[f])
    BY DEF Sql!Dangling, Sql!Has, Has
  <1> HIDE DEF references
  <1>3. QED BY <1>1, <1>2

\* A row of interpretations whose references are those of another, but for its resolver and the one it is
\* superseded by.
LEMMA InterpretationFits ==
    ASSUME NEW s, NEW row, Fits(s, "interpretations", row), NEW new,
           new = [f \in Columns["interpretations"] |-> new[f]],
           new.intent = row.intent, new.domain = row.domain, new.actor = row.actor,
           new.resolver \in {None, row.resolver} \/ Has(s, "actors", new.resolver),
           \/ new.supersededBy \in {None, row.supersededBy}
           \/ Has(s, "interpretations", new.supersededBy)
    PROVE  Fits(s, "interpretations", new)
  <1>1. ~Sql!Dangling(s, "interpretations", row)
    BY DEF Fits
  <1>2. ~Sql!Dangling(s, "interpretations", new)
    BY <1>1, InterpretationDangles
  <1>3. QED BY <1>2 DEF Fits

LEMMA CreateInterpretationSame ==
    ASSUME NEW m, NEW s, Twin(m, s), Sound(s), NEW p,
           Has(s, "intents", p.intent), Has(s, "domains", p.domain), Has(s, "actors", p.actor),
           p.resolver = None \/ Has(s, "actors", p.resolver)
    PROVE  Same(Mem!createInterpretation(m, p), Sql!createInterpretation(s, p))
  <1> DEFINE row == [intent |-> p.intent, domain |-> p.domain, actor |-> p.actor, resolver |-> p.resolver,
                     source |-> p.source, status |-> Given(p.status, "clarifying"), alignment |-> "uncertain", supersededBy |-> None]
             e == Event("interpretation_filed", "interpretations", s["interpretations"].next, p.actor, "default")
  <1>0. /\ "interpretations" \in Tables \ (Upserted \cup {"actors", "contracts"})
        /\ m["interpretations"].next = s["interpretations"].next
    BY DEF Tables, Upserted, Twin
  <1>1. Mem!createInterpretation(m, p) = Mem!Recorded(m, "interpretations", row, e)
    BY <1>0, MemoryData, Zenon DEF Mem!createInterpretation
  <1>2. Sql!createInterpretation(s, p) = Sql!Recorded(s, "interpretations", row, e)
    BY SqliteData, Zenon DEF Sql!createInterpretation
  <1>3. Fits(s, "interpretations", row)
    <2>1. ~Sql!Dangling(s, "interpretations", row)
      BY InterpretationDangles
    <2>2. row = [f \in Columns["interpretations"] |-> row[f]]
      BY DEF Columns
    <2>3. row.intent # None
      <3>1. p.intent \in Nat
        BY DEF Has, Twin, Shaped, Tables
      <3>2. QED BY <3>1, RepositoryParityAssumption
    <2> HIDE DEF row
    <2>4. QED BY <2>1, <2>2, <2>3 DEF Fits
  <1>4. Sql!Conflicting(s, "interpretations", row) = {}
    BY <1>0, Unconstrained
  <1> HIDE DEF row
  <1>5. QED BY <1>0, <1>1, <1>2, <1>3, <1>4, RecordedSame

LEMMA UpdateInterpretationSame ==
    ASSUME NEW m, NEW s, Twin(m, s), Sound(s), NEW id, NEW updates, NEW actor,
           DOMAIN updates \subseteq {"alignment", "source", "resolver"},
           Has(s, "interpretations", id) =>
               /\ actor # None /\ Has(s, "actors", actor)
               /\ "resolver" \in DOMAIN updates => Has(s, "actors", updates.resolver)
    PROVE  Same(Mem!updateInterpretation(m, id, updates, actor), Sql!updateInterpretation(s, id, updates, actor))
  <1>0. "interpretations" \in Tables \ (Upserted \cup {"actors", "contracts"}) /\ "interpretations" \in AllTables
    BY DEF Tables, Upserted, AllTables
  <1>1. /\ Has(m, "interpretations", id) = Has(s, "interpretations", id)
        /\ Row(m, "interpretations", id) = Row(s, "interpretations", id)
    BY <1>0, TwinReads
  <1>2. CASE ~Has(s, "interpretations", id)
    <2>1. Mem!updateInterpretation(m, id, updates, actor) = Error(m, "NOT_FOUND")
      BY <1>1, <1>2, MemoryData, Zenon DEF Mem!updateInterpretation
    <2>2. Sql!updateInterpretation(s, id, updates, actor) = Error(s, "NOT_FOUND")
      BY <1>2, SqliteData, Zenon DEF Sql!updateInterpretation
    <2>3. QED BY <2>1, <2>2, ErrorSame
  <1>3. CASE Has(s, "interpretations", id)
    <2> DEFINE row == Row(s, "interpretations", id)
               new == Merge(row, updates)
               e == Event("interpretation_updated", "interpretations", id, actor, "default")
               c == Change(s, "interpretations", id, new)
               cm == Change(m, "interpretations", id, new)
    <2>1. Mem!updateInterpretation(m, id, updates, actor) = Ok(Insert(cm, "events", e), "interpretations", id)
      BY <1>1, <1>3, MemoryData, Zenon DEF Mem!updateInterpretation, Mem!emitEvent
    <2>2. id \in DOMAIN s["interpretations"].rows
      BY <1>3 DEF Has
    <2>3. Fits(s, "interpretations", row)
      BY <1>0, <2>2, RowFits
    <2>4. Fits(s, "interpretations", new) /\ new.intent = row.intent
      <3> HIDE DEF row
      <3>1. row = [f \in Columns["interpretations"] |-> row[f]]
        BY <2>3 DEF Fits
      <3>2. /\ new = [f \in Columns["interpretations"] |-> new[f]]
            /\ new.intent = row.intent /\ new.domain = row.domain /\ new.actor = row.actor
            /\ new.supersededBy = row.supersededBy
            /\ new.resolver = row.resolver \/ Has(s, "actors", new.resolver)
        BY <1>3, <3>1 DEF Merge, Columns
      <3> HIDE DEF new
      <3>3. QED BY <2>3, <3>2, InterpretationFits
    <2>5. Given(actor, row.actor) = actor
      BY <1>3 DEF Given
    <2>a. ~Sql!Refused(s, "interpretations", id, new)
      <3>1. Sql!Conflicting(s, "interpretations", new) = {}
        BY <1>0, Unconstrained
      <3> HIDE DEF new
      <3>2. QED BY <2>4, <3>1 DEF Sql!Refused, Fits
    <2>6. Sql!updateInterpretation(s, id, updates, actor) = Sql!Announced(c, e, "interpretations", id)
      BY <1>3, <2>a, <2>5, SqliteData, Zenon DEF Sql!updateInterpretation
    <2> HIDE DEF new
    <2>7. Twin(cm, c)
      BY <1>0, <2>2, TwinChange
    <2>8. Sound(c) /\ Extends(s, c)
      BY <1>0, <2>2, <2>4, SoundChange, ChangeKeeps DEF Twin, Sound
    <2>9. Has(c, "actors", actor)
      BY <1>3, <2>8 DEF Extends, Has, AllTables, Tables
    <2> HIDE DEF c, cm
    <2>10. Same(Ok(Insert(cm, "events", e), "interpretations", id), Sql!Announced(c, e, "interpretations", id))
      BY <1>0, <2>7, <2>8, <2>9, AnnouncedSame
    <2>11. QED BY <2>1, <2>6, <2>10
  <1>4. QED BY <1>2, <1>3

\* What both repositories do when something is superseded.
LEMMA EmitTwice ==
    ASSUME NEW m, NEW s, Twin(m, s), Sound(s),
           NEW actor, actor = None \/ Has(s, "actors", actor), NEW t, NEW scope,
           NEW type1, NEW id1, NEW type2, NEW id2
    PROVE  LET e1 == Event(type1, t, id1, actor, scope)
               e2 == Event(type2, t, id2, actor, scope)
               both == Sql!emitEvent(Sql!emitEvent(s, e1).store, e2).store
           IN  Twin(Insert(Insert(m, "events", e1), "events", e2), both) /\ Sound(both)
  <1> DEFINE e1 == Event(type1, t, id1, actor, scope)
             e2 == Event(type2, t, id2, actor, scope)
             i1 == Insert(s, "events", e1)
             i2 == Insert(i1, "events", e2)
             m1 == Insert(m, "events", e1)
             m2 == Insert(m1, "events", e2)
  <1>0. "events" \in Tables \ (Upserted \cup {"actors", "contracts"}) /\ "actors" \in AllTables \ {"events"}
    BY DEF Tables, Upserted, AllTables
  <1>1. ~Sql!Dangling(s, "events", e1)
    BY EventOfActor
  <1>2. Sound(i1) /\ Shaped(i1)
    BY <1>0, <1>1, SoundEvent, Inserted DEF Twin
  <1>3. actor = None \/ Has(i1, "actors", actor)
    <2>1. \A u \in AllTables \ {"events"} : i1[u] = s[u]
      <3> HIDE DEF e1
      <3>1. /\ Shaped(i1)
            /\ i1["events"].rows = Put(s["events"].rows, s["events"].next, e1)
            /\ \A u \in AllTables \ {"events"} : i1[u] = s[u]
        BY <1>0, Inserted DEF Twin
      <3>2. QED BY <3>1
    <2>2. QED BY <1>0, <2>1 DEF Has
  <1>4. ~Sql!Dangling(i1, "events", e2)
    BY <1>3, EventOfActor
  <1>5. Sound(i2)
    BY <1>2, <1>4, SoundEvent
  <1>6. Sql!emitEvent(s, e1).store = i1
    <2> HIDE DEF e1
    <2>1. QED BY <1>1, EmitWhole DEF Answer
  <1>7. Sql!emitEvent(i1, e2).store = i2
    <2> HIDE DEF e2
    <2>1. QED BY <1>4, EmitWhole DEF Answer
  <1>8. m["events"].next = s["events"].next
    BY <1>0 DEF Twin
  <1>9. Twin(m1, i1)
    <2> HIDE DEF e1
    <2>1. QED BY <1>0, <1>8, TwinInsert
  <1>10. m1["events"].next = i1["events"].next
    <2> HIDE DEF m1, i1
    <2>1. QED BY <1>0, <1>9 DEF Twin
  <1>11. Twin(m2, i2)
    <2> HIDE DEF e2, m1, i1
    <2>1. QED BY <1>0, <1>9, <1>10, TwinInsert
  <1>12. QED BY <1>5, <1>6, <1>7, <1>11

LEMMA SupersedeInterpretationSame ==
    ASSUME NEW m, NEW s, Twin(m, s), Sound(s), NEW id, NEW status,
           Has(s, "interpretations", id) => Row(s, "interpretations", id).source = None
    PROVE  Same(Mem!supersedeInterpretation(m, id, status), Sql!supersedeInterpretation(s, id, status))
  <1> DEFINE t == "interpretations"
  <1>0. t \in Tables \ (Upserted \cup {"actors", "contracts"}) /\ t \in AllTables
    BY DEF Tables, Upserted, AllTables
  <1>1. Has(m, t, id) = Has(s, t, id) /\ Row(m, t, id) = Row(s, t, id)
    BY <1>0, TwinReads
  <1>2. CASE ~Has(s, t, id)
    <2>1. Mem!supersedeInterpretation(m, id, status) = Error(m, "NOT_FOUND")
      BY <1>1, <1>2, MemoryData, Zenon DEF Mem!supersedeInterpretation
    <2>2. Sql!supersedeInterpretation(s, id, status) = Error(s, "NOT_FOUND")
      BY <1>2, SqliteData, Zenon DEF Sql!supersedeInterpretation
    <2>3. QED BY <2>1, <2>2, ErrorSame
  <1>3. CASE Has(s, t, id)
    <2> DEFINE row == Row(s, t, id)
               new == s[t].next
               ofMemory == [row EXCEPT !.source = None, !.resolver = None, !.status = Given(status, "clarifying"),
                                       !.alignment = "uncertain", !.supersededBy = None]
               replacement == [row EXCEPT !.alignment = "uncertain", !.status = Given(status, "clarifying"),
                                          !.resolver = None, !.supersededBy = None]
               old == [row EXCEPT !.status = "superseded", !.alignment = "superseded", !.supersededBy = new]
               e1 == Event("interpretation_superseded", t, id, row.actor, "default")
               e2 == Event("interpretation_filed", t, new, row.actor, "default")
               i == Insert(s, t, replacement)
               im == Insert(m, t, replacement)
               c == Change(i, t, id, old)
               cm == Change(im, t, id, old)
               both == Sql!emitEvent(Sql!emitEvent(c, e1).store, e2).store
               answer == [old |-> old, replacement |-> replacement]
    <2>1. id \in DOMAIN s[t].rows /\ m[t].next = new
      BY <1>0, <1>3 DEF Has, Twin
    <2>2. Fits(s, t, row)
      BY <1>0, <2>1, RowFits
    <2>3. row = [f \in Columns[t] |-> row[f]] /\ row.source = None
      BY <1>3, <2>2 DEF Fits
    <2>4. ofMemory = replacement
      <3> HIDE DEF row
      <3>1. QED BY <2>3 DEF Columns
    <2>5. Fits(s, t, replacement)
      <3> HIDE DEF row
      <3>1. /\ replacement = [f \in Columns[t] |-> replacement[f]]
            /\ replacement.intent = row.intent /\ replacement.domain = row.domain /\ replacement.actor = row.actor
            /\ replacement.resolver = None /\ replacement.supersededBy = None
        BY <2>3 DEF Columns
      <3> HIDE DEF replacement
      <3>2. QED BY <2>2, <3>1, InterpretationFits
    <2>6. /\ old = [f \in Columns[t] |-> old[f]]
          /\ old.intent = row.intent /\ old.domain = row.domain /\ old.actor = row.actor
          /\ old.resolver = row.resolver /\ old.supersededBy = new
      <3> HIDE DEF row
      <3>1. QED BY <2>3 DEF Columns
    <2>7. Mem!supersedeInterpretation(m, id, status) =
              Answer(Insert(Insert(cm, "events", e1), "events", e2), answer)
      <3>1. Mem!supersedeInterpretation(m, id, status) =
                Answer(Insert(Insert(Change(Insert(m, t, ofMemory), t, id, old), "events", e1), "events", e2),
                       [old |-> old, replacement |-> ofMemory])
        BY <1>1, <1>3, <2>1, MemoryData, Zenon DEF Mem!supersedeInterpretation, Mem!emitEvent
      <3> HIDE DEF ofMemory, replacement, old
      <3>2. QED BY <2>4, <3>1
    <2>8. Sql!supersedeInterpretation(s, id, status) = Answer(both, answer)
      BY <1>3, SqliteData, Zenon DEF Sql!supersedeInterpretation
    <2> HIDE DEF row, replacement, old
    <2>9. /\ Twin(im, i) /\ Sound(i) /\ Extends(s, i)
          /\ i[t].rows = Put(s[t].rows, new, replacement)
      BY <1>0, <2>1, <2>5, TwinInsert, SoundInsert, InsertKeeps, Inserted DEF Twin, Sound
    <2>10. /\ id \in DOMAIN i[t].rows /\ Has(i, t, new)
           /\ Row(i, t, id) = row
      <3>1. id # new
        BY <1>0, <2>1 DEF Twin, Shaped
      <3>2. QED BY <2>1, <2>9, <3>1 DEF Put, Has, Row, row
    <2>11. Fits(i, t, old)
      <3>1. Fits(i, t, row)
        BY <1>0, <2>2, <2>9, FitsExtends
      <3> HIDE DEF i
      <3>2. QED BY <2>6, <2>10, <3>1, InterpretationFits
    <2> HIDE DEF i, im
    <2>12. Twin(cm, c) /\ Sound(c) /\ Extends(i, c)
      BY <1>0, <2>6, <2>9, <2>10, <2>11, TwinChange, SoundChange, ChangeKeeps DEF Twin, Sound
    <2>13. row.actor = None \/ Has(c, "actors", row.actor)
      <3>1. row.actor = None \/ Has(s, "actors", row.actor)
        BY <2>2, InterpretationDangles DEF Fits
      <3>2. QED BY <3>1, <2>9, <2>12 DEF Extends, Has, AllTables, Tables
    <2> HIDE DEF c, cm
    <2>14. Twin(Insert(Insert(cm, "events", e1), "events", e2), both) /\ Sound(both)
      BY <2>12, <2>13, EmitTwice
    <2> HIDE DEF both, answer, e1, e2
    <2>15. QED BY <2>7, <2>8, <2>14 DEF Same, Agree, Answer
  <1>4. QED BY <1>2, <1>3

-----------------------------------------------------------------------------
(* Actions, claims, expertise signals and reports                          *)

LEMMA ActorThere ==
    ASSUME NEW s, NEW t \in {"actions", "signals", "claims", "reports"}, NEW row, ~Sql!Dangling(s, t, row)
    PROVE  row.actor = None \/ Has(s, "actors", row.actor)
  <1>1. "actor" \in DOMAIN Sql!ForeignKeys[t] /\ Sql!ForeignKeys[t]["actor"] = "actors"
    BY DEF Sql!ForeignKeys
  <1>2. ~ \E f \in DOMAIN Sql!ForeignKeys[t] : row[f] # None /\ ~Has(s, Sql!ForeignKeys[t][f], row[f])
    BY DEF Sql!Dangling, Sql!Has, Has
  <1>3. QED BY <1>1, <1>2

\* An action that fits is stored with its event.
LEMMA LogActionSame ==
    ASSUME NEW m, NEW s, Twin(m, s), Sound(s), NEW p, Fits(s, "actions", p)
    PROVE  Same(Mem!logAction(m, p), Sql!logAction(s, p))
  <1> DEFINE e == Event("action_logged", "actions", s["actions"].next, p.actor, "default")
  <1>0. "actions" \in Tables \ (Upserted \cup {"actors", "contracts"}) /\ m["actions"].next = s["actions"].next
    BY DEF Tables, Upserted, Twin
  <1>1. Mem!logAction(m, p) = Mem!Recorded(m, "actions", p, e)
    BY <1>0, MemoryData, Zenon DEF Mem!logAction
  <1>2. Sql!logAction(s, p) = Sql!Recorded(s, "actions", p, e)
    BY SqliteData, Zenon DEF Sql!logAction
  <1>3. p.actor = None \/ Has(s, "actors", p.actor)
    BY ActorThere DEF Fits
  <1>4. Sql!Conflicting(s, "actions", p) = {}
    BY <1>0, Unconstrained
  <1>5. QED BY <1>0, <1>1, <1>2, <1>3, <1>4, RecordedSame

LEMMA AcquireClaimSame ==
    ASSUME NEW m, NEW s, Twin(m, s), Sound(s), NEW of, NEW entity, NEW actor, Has(s, "actors", actor)
    PROVE  Same(Mem!acquireClaim(m, of, entity, actor), Sql!acquireClaim(s, of, entity, actor))
  <1> DEFINE row == [table |-> of, entity |-> entity, actor |-> actor, status |-> "active"]
             e == Event("claim_acquired", of, entity, actor, "default")
  <1>0. "claims" \in Tables \ (Upserted \cup {"actors", "contracts"})
    BY DEF Tables, Upserted
  <1>1. Mem!acquireClaim(m, of, entity, actor) = Mem!Recorded(m, "claims", row, e)
    BY MemoryData, Zenon DEF Mem!acquireClaim
  <1>2. Sql!acquireClaim(s, of, entity, actor) = Sql!Recorded(s, "claims", row, e)
    BY SqliteData, Zenon DEF Sql!acquireClaim
  <1>3. Fits(s, "claims", row)
    <2>1. ~Sql!Dangling(s, "claims", row)
      BY DEF Sql!Dangling, Sql!ForeignKeys, Sql!Has, Has
    <2>2. row = [f \in Columns["claims"] |-> row[f]] /\ row.status = "active"
      BY DEF Columns
    <2> HIDE DEF row
    <2>3. QED BY <2>1, <2>2 DEF Fits
  <1>4. Sql!Conflicting(s, "claims", row) = {}
    BY <1>0, Unconstrained
  <1> HIDE DEF row
  <1>5. QED BY <1>0, <1>1, <1>2, <1>3, <1>4, RecordedSame

LEMMA ReleaseClaimSame ==
    ASSUME NEW m, NEW s, Twin(m, s), Sound(s), NEW id
    PROVE  Same(Mem!releaseClaim(m, id), Sql!releaseClaim(s, id))
  <1> DEFINE row == Row(s, "claims", id)
  <1>0. "claims" \in Tables \ (Upserted \cup {"actors", "contracts"}) /\ "claims" \in AllTables
    BY DEF Tables, Upserted, AllTables
  <1>1. Has(m, "claims", id) = Has(s, "claims", id) /\ Row(m, "claims", id) = row
    BY <1>0, TwinReads
  <1>2. CASE ~Has(s, "claims", id)
    <2>1. Mem!releaseClaim(m, id) = Error(m, "NOT_FOUND")
      BY <1>1, <1>2, MemoryData, Zenon DEF Mem!releaseClaim
    <2>2. Sql!releaseClaim(s, id) = Error(s, "NOT_FOUND")
      BY <1>2, SqliteData, Zenon DEF Sql!releaseClaim
    <2>3. QED BY <2>1, <2>2, ErrorSame
  <1>3. ASSUME Has(s, "claims", id)
        PROVE  Fits(s, "claims", row)
    BY <1>0, <1>3, RowFits DEF Has
  <1>4. CASE Has(s, "claims", id) /\ row.status = "released"
    <2>1. row.status # "active"
      BY <1>4
    <2>2. Mem!releaseClaim(m, id) = Error(m, "INVALID_TRANSITION")
      BY <1>1, <1>4, <2>1, MemoryData, Zenon DEF Mem!releaseClaim
    <2>3. Sql!releaseClaim(s, id) = Error(s, "INVALID_TRANSITION")
      BY <1>4, SqliteData, Zenon DEF Sql!releaseClaim
    <2>4. QED BY <2>2, <2>3, ErrorSame
  <1>5. CASE Has(s, "claims", id) /\ row.status # "released"
    <2> DEFINE new == [row EXCEPT !.status = "released"]
               e == Event("claim_released", row.table, row.entity, row.actor, "default")
               c == Change(s, "claims", id, new)
               cm == Change(m, "claims", id, new)
    <2>1. Fits(s, "claims", row) /\ row.status = "active" /\ id \in DOMAIN s["claims"].rows
      BY <1>3, <1>5 DEF Fits, Has
    <2>2. Mem!releaseClaim(m, id) = Ok(Insert(cm, "events", e), "claims", id)
      BY <1>1, <1>5, <2>1, MemoryData, Zenon DEF Mem!releaseClaim, Mem!emitEvent
    <2>3. Sql!releaseClaim(s, id) = Sql!Announced(c, e, "claims", id)
      BY <1>5, SqliteData, Zenon DEF Sql!releaseClaim
    <2> HIDE DEF row
    <2>4. row.actor = None \/ Has(s, "actors", row.actor)
      BY <2>1, ActorThere DEF Fits
    <2>5. new = [f \in Columns["claims"] |-> new[f]] /\ new.actor = row.actor /\ new.status = "released"
      BY <2>1 DEF Fits, Columns
    <2> HIDE DEF new
    <2>6. Fits(s, "claims", new)
      <3>1. ~Sql!Dangling(s, "claims", new)
        BY <2>4, <2>5 DEF Sql!Dangling, Sql!ForeignKeys, Sql!Has, Has
      <3>2. QED BY <2>5, <3>1 DEF Fits
    <2>7. Twin(cm, c)
      BY <1>0, <2>1, TwinChange
    <2>8. Sound(c) /\ Extends(s, c)
      BY <1>0, <2>1, <2>6, SoundChange, ChangeKeeps DEF Twin, Sound
    <2>9. row.actor = None \/ Has(c, "actors", row.actor)
      BY <2>4, <2>8 DEF Extends, Has, AllTables, Tables
    <2> HIDE DEF c, cm
    <2>10. Same(Ok(Insert(cm, "events", e), "claims", id), Sql!Announced(c, e, "claims", id))
      BY <1>0, <2>7, <2>8, <2>9, AnnouncedSame
    <2>11. QED BY <2>2, <2>3, <2>10
  <1>6. QED BY <1>2, <1>4, <1>5

LEMMA RegisterExpertiseSame ==
    ASSUME NEW m, NEW s, Twin(m, s), Sound(s), NEW p, Fits(s, "signals", p)
    PROVE  Same(Mem!registerExpertiseSignal(m, p), Sql!registerExpertiseSignal(s, p))
  <1> DEFINE e == Event("expertise_signal_registered", "expertise_signals", s["signals"].next, p.actor, "default")
  <1>0. "signals" \in Tables \ (Upserted \cup {"actors", "contracts"}) /\ m["signals"].next = s["signals"].next
    BY DEF Tables, Upserted, Twin
  <1>1. Mem!registerExpertiseSignal(m, p) = Mem!Recorded(m, "signals", p, e)
    BY <1>0, MemoryData, Zenon DEF Mem!registerExpertiseSignal
  <1>2. Sql!registerExpertiseSignal(s, p) = Sql!Recorded(s, "signals", p, e)
    BY SqliteData, Zenon DEF Sql!registerExpertiseSignal
  <1>3. p.actor = None \/ Has(s, "actors", p.actor)
    BY ActorThere DEF Fits
  <1>4. Sql!Conflicting(s, "signals", p) = {}
    BY <1>0, Unconstrained
  <1>5. QED BY <1>0, <1>1, <1>2, <1>3, <1>4, RecordedSame

LEMMA RegisterReportSame ==
    ASSUME NEW m, NEW s, Twin(m, s), Sound(s), NEW p, Fits(s, "reports", p)
    PROVE  Same(Mem!registerReport(m, p), Sql!registerReport(s, p))
  <1> DEFINE e == Event("report_created", "reports", s["reports"].next, p.actor, p.scope)
  <1>0. "reports" \in Tables \ (Upserted \cup {"actors", "contracts"}) /\ m["reports"].next = s["reports"].next
    BY DEF Tables, Upserted, Twin
  <1>1. Mem!registerReport(m, p) = Mem!Recorded(m, "reports", p, e)
    BY <1>0, MemoryData, Zenon DEF Mem!registerReport
  <1>2. Sql!registerReport(s, p) = Sql!Recorded(s, "reports", p, e)
    BY SqliteData, Zenon DEF Sql!registerReport
  <1>3. p.actor = None \/ Has(s, "actors", p.actor)
    BY ActorThere DEF Fits
  <1>4. Sql!Conflicting(s, "reports", p) = {}
    BY <1>0, Unconstrained
  <1>5. QED BY <1>0, <1>1, <1>2, <1>3, <1>4, RecordedSame

-----------------------------------------------------------------------------
(* Scopes, domains, actors and roles                                       *)

LEMMA TableRows ==
    ASSUME NEW table, NEW r, NEW n, table = [rows |-> r, next |-> n], NEW v
    PROVE  [table EXCEPT !.rows = v] = [rows |-> v, next |-> n]
  OBVIOUS

LEMMA RegisterScopeSame ==
    ASSUME NEW m, NEW s, Twin(m, s), Sound(s), NEW scope
    PROVE  Same(Mem!registerScope(m, scope), Sql!registerScope(s, scope))
  <1> DEFINE Added(x) == [x EXCEPT !["scopes"].rows = Put(x["scopes"].rows, scope, TRUE)]
             answer == [scope |-> scope]
  <1>0. "scopes" \in AllTables /\ "scopes" \notin Tables /\ "interpretations" \in Tables
    BY DEF AllTables, Tables
  <1>1. Mem!registerScope(m, scope) = Answer(Added(m), answer)
    BY DEF Mem!registerScope, Mem!Answer, Answer, Mem!Put, Put
  <1>2. Sql!registerScope(s, scope) = Answer(Added(s), answer)
    BY DEF Sql!registerScope, Sql!Answer, Answer, Sql!Put, Put
  <1>3. ASSUME NEW x, Shaped(x)
        PROVE  /\ Shaped(Added(x))
               /\ \A t \in Tables : Added(x)[t] = x[t]
               /\ Added(x)["scopes"].rows = Put(x["scopes"].rows, scope, TRUE)
    <2>0. x["scopes"] = [rows |-> x["scopes"].rows, next |-> x["scopes"].next]
      BY <1>0, <1>3 DEF Shaped
    <2>1. PICK r, n : x["scopes"] = [rows |-> r, next |-> n]
      BY <2>0, Zenon
    <2> DEFINE put == Put(r, scope, TRUE)
               table == [rows |-> put, next |-> n]
               added == [x EXCEPT !["scopes"] = table]
    <2>2. Added(x) = added /\ x["scopes"].rows = r
      <3>1. x["scopes"].rows = r
        BY <2>1
      <3>2. [x["scopes"] EXCEPT !.rows = Put(x["scopes"].rows, scope, TRUE)] = table
        <4> DEFINE old == x["scopes"]
                   v == Put(r, scope, TRUE)
        <4>1. old = [rows |-> r, next |-> n]
          BY <2>1
        <4> HIDE DEF old, v
        <4>2. [old EXCEPT !.rows = v] = [rows |-> v, next |-> n]
          BY <4>1, TableRows
        <4>3. QED BY <3>1, <4>2 DEF old, v
      <3>3. Added(x) = [x EXCEPT !["scopes"] = [x["scopes"] EXCEPT !.rows = Put(x["scopes"].rows, scope, TRUE)]]
        OBVIOUS
      <3>4. QED BY <3>1, <3>2, <3>3, Zenon
    <2>3. DOMAIN x = AllTables
      BY <1>3 DEF Shaped
    <2>4. put = [k \in DOMAIN put |-> put[k]]
      BY DEF Put
    <2> HIDE DEF put
    <2>5. /\ DOMAIN added = AllTables /\ \A t \in Tables : added[t] = x[t]
          /\ added["scopes"] = table
      BY <1>0, <2>3 DEF AllTables
    <2>6. table.rows = put /\ table = [rows |-> table.rows, next |-> table.next]
      OBVIOUS
    <2> HIDE DEF table, added
    <2>7. Shaped(added)
      <3>1. \A t \in AllTables : /\ added[t] = [rows |-> added[t].rows, next |-> added[t].next]
                                 /\ added[t].rows = [k \in DOMAIN added[t].rows |-> added[t].rows[k]]
        <4>1. ASSUME NEW t \in Tables
              PROVE  /\ added[t] = [rows |-> added[t].rows, next |-> added[t].next]
                     /\ added[t].rows = [k \in DOMAIN added[t].rows |-> added[t].rows[k]]
          BY <1>3, <2>5 DEF Shaped, AllTables
        <4>2. QED BY <2>4, <2>5, <2>6, <4>1 DEF AllTables
      <3>2. \A t \in Tables : /\ added[t].next \in Nat
                              /\ \A id \in DOMAIN added[t].rows : id \in Nat /\ id < added[t].next
        BY <1>3, <2>5 DEF Shaped
      <3>3. QED BY <2>5, <3>1, <3>2 DEF Shaped
    <2> HIDE DEF Added
    <2>8. QED BY <2>2, <2>5, <2>6, <2>7 DEF put
  <1>4. Shaped(m) /\ Shaped(s)
    BY DEF Twin
  <1> DEFINE bm == Added(m)
             bs == Added(s)
             put == Put(s["scopes"].rows, scope, TRUE)
  <1>5. Shaped(bm) /\ bm["scopes"].rows = put /\ \A t \in Tables : bm[t] = m[t]
    BY <1>0, <1>3, <1>4 DEF Twin
  <1>6. Shaped(bs) /\ bs["scopes"].rows = put /\ \A t \in Tables : bs[t] = s[t]
    BY <1>3, <1>4
  <1>7. DOMAIN put = DOMAIN s["scopes"].rows \cup {scope}
    BY DEF Put
  <1> HIDE DEF bm, bs, put
  <1>10. Twin(bm, bs)
    BY <1>0, <1>5, <1>6 DEF Twin, AllTables
  <1>11. Extends(s, bs)
    <2>1. bs["interpretations"] = s["interpretations"]
      BY <1>0, <1>6
    <2>2. \A u \in AllTables : DOMAIN s[u].rows \subseteq DOMAIN bs[u].rows
      BY <1>6, <1>7 DEF AllTables
    <2>3. QED BY <2>1, <2>2 DEF Extends, Row
  <1>12. Whole(bs)
    <2>1. ASSUME NEW t \in Tables, NEW id \in DOMAIN bs[t].rows
          PROVE  Fits(bs, t, Row(bs, t, id))
      <3>1. id \in DOMAIN s[t].rows /\ Row(bs, t, id) = Row(s, t, id)
        BY <1>6 DEF Row
      <3>2. QED BY <3>1, <1>11, RowFits, FitsExtends
    <2>2. QED BY <2>1 DEF Whole
  <1>13. NamedApart(bs) /\ Revised(bs)
    <2>1. bs["actors"] = s["actors"] /\ bs["contracts"] = s["contracts"]
      BY <1>6 DEF Tables
    <2>2. QED BY <2>1 DEF Sound, NamedApart, Revised, With, Row
  <1>14. Sound(bs)
    BY <1>11, <1>12, <1>13, BegunExtends DEF Sound
  <1>15. QED BY <1>1, <1>2, <1>10, <1>14 DEF Same, Agree, Answer, bm, bs

\* No row has the values of a new row in a unique column.
LEMMA NoConflict ==
    ASSUME NEW s, NEW t \in Tables, NEW row, NEW columns, DOMAIN columns = Sql!UniqueColumns[t],
           \A f \in DOMAIN columns : columns[f] = row[f]
    PROVE  Sql!Conflicting(s, t, row) \subseteq With(s, t, columns)
  BY DEF Sql!Conflicting, Sql!With, With, Sql!Row, Row

LEMMA RegisterDomainSame ==
    ASSUME NEW m, NEW s, Twin(m, s), Sound(s), NEW scope, NEW name,
           ~Sql!Dangling(s, "domains", [scope |-> scope, name |-> name]),
           With(s, "domains", [scope |-> scope, name |-> name]) = {}
    PROVE  Same(Mem!registerDomain(m, [scope |-> scope, name |-> name]),
                Sql!registerDomain(s, [scope |-> scope, name |-> name]))
  <1> DEFINE p == [scope |-> scope, name |-> name]
  <1>0. "domains" \in Tables \ (Upserted \cup {"actors", "contracts"}) /\ m["domains"].next = s["domains"].next
    BY DEF Tables, Upserted, Twin
  <1>1. Sql!Conflicting(s, "domains", p) = {}
    <2>1. Sql!UniqueColumns["domains"] = {"scope", "name"}
      BY DEF Sql!UniqueColumns, Sql!Tables
    <2>2. QED BY <1>0, <2>1, NoConflict
  <1>2. Fits(s, "domains", p)
    <2>1. p = [f \in Columns["domains"] |-> p[f]]
      BY DEF Columns
    <2> HIDE DEF p
    <2>2. ~Sql!Dangling(s, "domains", p)
      BY DEF p
    <2>3. QED BY <2>1, <2>2 DEF Fits
  <1> HIDE DEF p
  <1>3. ~Sql!Refuses(s, "domains", p)
    BY <1>1, <1>2 DEF Sql!Refuses, Sql!OpenKeyTaken, Fits
  <1>4. Mem!registerDomain(m, p) = Mem!Created(m, "domains", p)
    BY DEF Mem!registerDomain
  <1>5. Sql!registerDomain(s, p) = Sql!Created(s, "domains", p)
    BY DEF Sql!registerDomain
  <1>6. /\ Agree(Mem!Created(m, "domains", p), Sql!Created(s, "domains", p))
        /\ Sql!Created(s, "domains", p).store = Insert(s, "domains", p)
    <2>1. Sql!Created(s, "domains", p) = Ok(Insert(s, "domains", p), "domains", s["domains"].next)
      BY <1>0, <1>3, CreatedAgrees
    <2>2. QED BY <1>0, <2>1, CreatedAgrees DEF Ok, Answer
  <1>7. Sound(Insert(s, "domains", p))
    BY <1>0, <1>2, SoundInsert DEF Twin
  <1>8. QED BY <1>4, <1>5, <1>6, <1>7 DEF Same, p

LEMMA LeastOfOne ==
    ASSUME NEW id \in Nat
    PROVE  Least({id}) = id
  BY DEF Least

\* The row that is found again is the one just inserted.
LEMMA FoundInserted ==
    ASSUME NEW s, Shaped(s), NEW t \in Tables, NEW row, NEW columns, With(s, t, columns) = {},
           \A f \in DOMAIN columns : row[f] = columns[f]
    PROVE  Least(With(Insert(s, t, row), t, columns)) = s[t].next
  <1> DEFINE i == Insert(s, t, row)
             new == s[t].next
  <1>1. i[t].rows = Put(s[t].rows, new, row)
    BY Inserted
  <1>2. new \in Nat /\ new \notin DOMAIN s[t].rows
    BY DEF Shaped
  <1> HIDE DEF i, new
  <1>3. /\ DOMAIN i[t].rows = DOMAIN s[t].rows \cup {new} /\ Row(i, t, new) = row
        /\ \A id \in DOMAIN s[t].rows : Row(i, t, id) = Row(s, t, id)
    BY <1>1, <1>2 DEF Put, Row
  <1>4. With(i, t, columns) = {new}
    <2>1. \A id \in DOMAIN s[t].rows : id \notin With(i, t, columns)
      BY <1>3 DEF With
    <2>2. new \in With(i, t, columns)
      BY <1>3 DEF With
    <2>3. With(i, t, columns) \subseteq DOMAIN s[t].rows \cup {new}
      BY <1>3 DEF With
    <2>4. QED BY <2>1, <2>2, <2>3
  <1>5. QED BY <1>2, <1>4, LeastOfOne DEF i, new

\* Actors are only told apart by their names.
LEMMA SoundActors ==
    ASSUME NEW s, Sound(s), NEW e, Extends(s, e), Whole(e), NamedApart(e), e["contracts"] = s["contracts"]
    PROVE  Sound(e)
  <1>1. Revised(e)
    BY DEF Sound, Revised, With, Row
  <1>2. QED BY <1>1, BegunExtends DEF Sound

LEMMA ActorFits ==
    ASSUME NEW s, NEW row, row = [f \in Columns["actors"] |-> row[f]],
           row.scope = None \/ Has(s, "scopes", row.scope)
    PROVE  Fits(s, "actors", row)
  <1>1. ~Sql!Dangling(s, "actors", row)
    BY DEF Sql!Dangling, Sql!ForeignKeys, Sql!Has, Has
  <1>2. QED BY <1>1 DEF Fits

LEMMA RegisterActorSame ==
    ASSUME NEW m, NEW s, Twin(m, s), Sound(s), NEW name, NEW scope, NEW key,
           With(s, "actors", [name |-> name]) = {}, scope = None \/ Has(s, "scopes", scope)
    PROVE  LET p == [name |-> name, scope |-> scope, status |-> None, key |-> key]
           IN  Same(Mem!registerActor(m, p), Sql!registerActor(s, p))
  <1> DEFINE p == [name |-> name, scope |-> scope, status |-> None, key |-> key]
             row == [name |-> name, scope |-> scope, status |-> "active", key |-> key]
             i == Insert(s, "actors", row)
  <1>0. /\ "actors" \in Tables \ Upserted /\ {"actors", "contracts"} \subseteq AllTables
        /\ m["actors"].next = s["actors"].next
    BY DEF Tables, AllTables, Upserted, Twin
  <1>1. [p EXCEPT !.status = Given(@, "active")] = row
    BY DEF Given
  <1>2. Mem!registerActor(m, p) = Mem!Created(m, "actors", row)
    BY <1>1 DEF Mem!registerActor, Mem!Given, Given
  <1>3. Sql!registerActor(s, p) = Sql!Created(s, "actors", row)
    BY <1>1 DEF Sql!registerActor, Sql!Given, Given
  <1>4. row.name = name /\ row.scope = scope /\ row = [f \in Columns["actors"] |-> row[f]]
    BY DEF Columns
  <1> HIDE DEF row
  <1>5. Fits(s, "actors", row)
    BY <1>4, ActorFits
  <1>6. Sql!Conflicting(s, "actors", row) = {}
    <2>1. Sql!UniqueColumns["actors"] = {"name"}
      BY DEF Sql!UniqueColumns, Sql!Tables
    <2>2. QED BY <1>0, <1>4, <2>1, NoConflict
  <1>7. ~Sql!Refuses(s, "actors", row)
    BY <1>5, <1>6 DEF Sql!Refuses, Sql!OpenKeyTaken, Fits
  <1>8. Sql!Created(s, "actors", row) = Ok(i, "actors", s["actors"].next)
    BY <1>0, <1>7, CreatedAgrees
  <1>9. Agree(Mem!Created(m, "actors", row), Sql!Created(s, "actors", row))
        /\ Sql!Created(s, "actors", row).store = i
    BY <1>0, <1>8, CreatedAgrees DEF Ok, Answer
  <1>10. Extends(s, i) /\ Whole(i)
    BY <1>0, <1>5, InsertKeeps DEF Sound, Twin
  <1>11. /\ i["actors"].rows = Put(s["actors"].rows, s["actors"].next, row)
         /\ i["contracts"] = s["contracts"]
    BY <1>0, Inserted DEF Twin
  <1> HIDE DEF i
  <1>12. NamedApart(i)
    <2>1. /\ DOMAIN i["actors"].rows = DOMAIN s["actors"].rows \cup {s["actors"].next}
          /\ \A id \in DOMAIN s["actors"].rows :
                Row(i, "actors", id) = IF id = s["actors"].next THEN row ELSE Row(s, "actors", id)
          /\ Row(i, "actors", s["actors"].next) = row
      BY <1>11 DEF Put, Row
    <2>2. \A id \in DOMAIN s["actors"].rows : Row(s, "actors", id).name # name
      BY DEF With
    <2>3. QED BY <1>4, <2>1, <2>2 DEF NamedApart, Sound
  <1>13. Sound(i)
    BY <1>10, <1>11, <1>12, SoundActors
  <1>14. QED BY <1>2, <1>3, <1>9, <1>13 DEF Same

LEMMA UpdateActorSame ==
    ASSUME NEW m, NEW s, Twin(m, s), Sound(s), NEW id, NEW updates,
           DOMAIN updates \subseteq {"name", "scope", "status", "key"},
           Has(s, "actors", id) /\ "scope" \in DOMAIN updates => Has(s, "scopes", updates.scope),
           Has(s, "actors", id) /\ "name" \in DOMAIN updates => With(s, "actors", [name |-> updates.name]) \subseteq {id}
    PROVE  Same(Mem!updateActor(m, id, updates), Sql!updateActor(s, id, updates))
  <1>0. "actors" \in Tables \ Upserted /\ {"actors", "contracts"} \subseteq AllTables
    BY DEF Tables, Upserted, AllTables
  <1>1. Has(m, "actors", id) = Has(s, "actors", id) /\ Row(m, "actors", id) = Row(s, "actors", id)
    BY <1>0, TwinReads
  <1>2. CASE ~Has(s, "actors", id)
    <2>1. Mem!updateActor(m, id, updates) = Error(m, "NOT_FOUND")
      BY <1>1, <1>2, MemoryData, Zenon DEF Mem!updateActor
    <2>2. Sql!updateActor(s, id, updates) = Error(s, "NOT_FOUND")
      BY <1>2, SqliteData, Zenon DEF Sql!updateActor
    <2>3. QED BY <2>1, <2>2, ErrorSame
  <1>3. CASE Has(s, "actors", id)
    <2> DEFINE row == Row(s, "actors", id)
               new == Merge(row, updates)
               c == Change(s, "actors", id, new)
               cm == Change(m, "actors", id, new)
    <2>1. Mem!updateActor(m, id, updates) = Ok(cm, "actors", id)
      BY <1>1, <1>3, MemoryData, Zenon DEF Mem!updateActor
    <2>2. id \in DOMAIN s["actors"].rows
      BY <1>3 DEF Has
    <2>3. /\ row = [f \in Columns["actors"] |-> row[f]]
          /\ row.scope = None \/ Has(s, "scopes", row.scope)
      BY <1>0, <2>2, RowFits DEF Fits, Sql!Dangling, Sql!ForeignKeys, Sql!Has, Has
    <2> HIDE DEF row
    <2>4. /\ new = [f \in Columns["actors"] |-> new[f]]
          /\ new.name = IF "name" \in DOMAIN updates THEN updates.name ELSE row.name
          /\ new.scope = None \/ Has(s, "scopes", new.scope)
      BY <1>3, <2>3 DEF Merge, Columns
    <2> HIDE DEF new
    <2>5. Fits(s, "actors", new)
      BY <2>4, ActorFits
    <2>6. \A j \in DOMAIN s["actors"].rows \ {id} : Row(s, "actors", j).name # new.name
      <3>1. CASE "name" \in DOMAIN updates
        BY <1>3, <2>4, <3>1 DEF With
      <3>2. CASE "name" \notin DOMAIN updates
        BY <2>2, <2>4, <3>2 DEF Sound, NamedApart, row
      <3>3. QED BY <3>1, <3>2
    <2>7. ~Sql!Refused(s, "actors", id, new)
      <3> DEFINE columns == [f \in {"name"} |-> new[f]]
      <3>1. Sql!UniqueColumns["actors"] = {"name"}
        BY DEF Sql!UniqueColumns, Sql!Tables
      <3>2. Sql!Conflicting(s, "actors", new) \subseteq With(s, "actors", columns)
        BY <1>0, <3>1, NoConflict
      <3>3. With(s, "actors", columns) \subseteq {id}
        BY <2>6 DEF With
      <3>4. QED BY <2>5, <3>2, <3>3 DEF Sql!Refused, Fits
    <2>8. Sql!updateActor(s, id, updates) = Ok(c, "actors", id)
      BY <1>3, <2>7, SqliteData, Zenon DEF Sql!updateActor, new, row
    <2>9. Twin(cm, c)
      BY <1>0, <2>2, TwinChange
    <2>10. Extends(s, c) /\ Whole(c)
      BY <1>0, <2>2, <2>5, ChangeKeeps DEF Sound, Twin
    <2>11. /\ c["actors"].rows = [s["actors"].rows EXCEPT ![id] = new]
           /\ c["contracts"] = s["contracts"]
      BY <1>0, <2>2, Changed DEF Twin
    <2> HIDE DEF c, cm
    <2>12. NamedApart(c)
      <3>1. /\ DOMAIN c["actors"].rows = DOMAIN s["actors"].rows /\ Row(c, "actors", id) = new
            /\ \A j \in DOMAIN s["actors"].rows \ {id} : Row(c, "actors", j) = Row(s, "actors", j)
        BY <2>2, <2>11 DEF Row
      <3>2. QED BY <2>6, <3>1 DEF NamedApart, Sound
    <2>13. Sound(c)
      BY <2>10, <2>11, <2>12, SoundActors
    <2>14. QED BY <1>0, <2>1, <2>8, <2>9, <2>13, TwinOk DEF Same
  <1>4. QED BY <1>2, <1>3

LEMMA RegisterRoleSame ==
    ASSUME NEW m, NEW s, Twin(m, s), Sound(s), NEW name, NEW policy, With(s, "roles", [name |-> name]) = {}
    PROVE  LET p == [name |-> name, status |-> None, policy |-> policy]
           IN  Same(Mem!registerRole(m, p), Sql!registerRole(s, p))
  <1> DEFINE p == [name |-> name, status |-> None, policy |-> policy]
             row == [name |-> name, status |-> "active", policy |-> policy]
             i == Insert(s, "roles", row)
  <1>0. "roles" \in Tables \ (Upserted \cup {"actors", "contracts"}) /\ m["roles"].next = s["roles"].next
    BY DEF Tables, Upserted, Twin
  <1>1. [p EXCEPT !.status = Given(@, "active")] = row /\ p.name = name
    BY DEF Given
  <1>2. Mem!registerRole(m, p) = Mem!Created(m, "roles", row)
    BY <1>1 DEF Mem!registerRole, Mem!Given, Given
  <1>3. row.name = name /\ row = [f \in Columns["roles"] |-> row[f]]
    BY DEF Columns
  <1>4. [p EXCEPT !.status = Sql!Given(@, "active")] = row
    BY <1>1 DEF Sql!Given, Given
  <1> HIDE DEF row
  <1>5. Fits(s, "roles", row)
    <2>1. ~Sql!Dangling(s, "roles", row)
      BY DEF Sql!Dangling, Sql!ForeignKeys
    <2>2. QED BY <1>3, <2>1 DEF Fits
  <1>6. Sql!Conflicting(s, "roles", row) = {}
    <2>1. Sql!UniqueColumns["roles"] = {"name"}
      BY DEF Sql!UniqueColumns, Sql!Tables
    <2>2. QED BY <1>0, <1>3, <2>1, NoConflict
  <1>7. Sql!Upsert(s, "roles", row, {"status", "policy"}) = i
    BY <1>6, SqliteData, Zenon DEF Sql!Upsert
  <1>8. Least(With(i, "roles", [name |-> name])) = s["roles"].next
    BY <1>0, <1>3, FoundInserted DEF Twin
  <1>9. Sql!registerRole(s, p) = Ok(i, "roles", s["roles"].next)
    <2> HIDE DEF i
    <2>1. Sql!registerRole(s, p) = Ok(i, "roles", Least(With(i, "roles", [name |-> p.name])))
      BY <1>4, <1>7, SqliteData, Zenon DEF Sql!registerRole
    <2>2. QED BY <1>1, <1>8, <2>1
  <1>10. Agree(Mem!Created(m, "roles", row), Ok(i, "roles", s["roles"].next))
    BY <1>0, CreatedAgrees
  <1>11. Sound(i)
    BY <1>0, <1>5, SoundInsert DEF Twin
  <1> HIDE DEF i
  <1>12. QED BY <1>2, <1>9, <1>10, <1>11 DEF Same, Ok, Answer

-----------------------------------------------------------------------------
(* Bindings and sessions                                                   *)

LEMMA LeastOf ==
    ASSUME NEW ids \in SUBSET Nat, ids # {}
    PROVE  Least(ids) \in ids
  <1>1. \E x \in ids : \A y \in ids : <<y, x>> \notin OpToRel(<, Nat)
    BY NatLessThanWellFounded, WFMin, Zenon
  <1>2. ASSUME NEW x \in Nat, NEW y \in Nat, y < x
        PROVE  <<y, x>> \in OpToRel(<, Nat)
    <2>1. <<y, x>> \in Nat \X Nat /\ <<y, x>>[1] < <<y, x>>[2]
      BY <1>2
    <2>2. QED BY <2>1, Zenon DEF OpToRel
  <1>3. PICK x \in ids : \A y \in ids : <<y, x>> \notin OpToRel(<, Nat)
    BY <1>1, Zenon
  <1>4. \A y \in ids : x <= y
    <2> TAKE y \in ids
    <2>1. ~(y < x)
      BY <1>2, <1>3, Zenon
    <2>2. QED BY <2>1
  <1>5. QED BY <1>3, <1>4, Zenon DEF Least

LEMMA LeastFound ==
    ASSUME NEW s, Shaped(s), NEW t \in Tables, NEW columns, With(s, t, columns) # {}
    PROVE  /\ Least(With(s, t, columns)) \in With(s, t, columns)
           /\ Least(With(s, t, columns)) \in DOMAIN s[t].rows
  <1>1. With(s, t, columns) \subseteq DOMAIN s[t].rows
    BY DEF With
  <1>2. DOMAIN s[t].rows \subseteq Nat
    BY DEF Shaped
  <1>3. QED BY <1>1, <1>2, LeastOf


\* Soundness is about rows.
LEMMA SoundRows ==
    ASSUME NEW s, Sound(s), NEW e, \A t \in AllTables : e[t].rows = s[t].rows
    PROVE  Sound(e)
  <1>1. Extends(s, e)
    BY DEF Extends, Row, AllTables, Tables
  <1>2. Whole(e)
    <2>1. ASSUME NEW t \in Tables, NEW id \in DOMAIN e[t].rows
          PROVE  Fits(e, t, Row(e, t, id))
      <3>1. id \in DOMAIN s[t].rows /\ Row(e, t, id) = Row(s, t, id)
        BY DEF Row, AllTables
      <3>2. QED BY <3>1, <1>1, RowFits, FitsExtends
    <2>2. QED BY <2>1 DEF Whole
  <1>3. NamedApart(e) /\ Revised(e)
    <2>1. e["actors"].rows = s["actors"].rows /\ e["contracts"].rows = s["contracts"].rows
      BY DEF AllTables, Tables
    <2>2. QED BY <2>1 DEF Sound, NamedApart, Revised, With, Row
  <1>4. QED BY <1>1, <1>2, <1>3, BegunExtends DEF Sound

\* What an upsert leaves when it updates a row.
LEMMA Upserts ==
    ASSUME NEW s, Shaped(s), Sound(s), NEW t \in Upserted, NEW row, Fits(s, t, row),
           NEW columns, DOMAIN columns = Sql!UniqueColumns[t],
           \A f \in DOMAIN columns : columns[f] = row[f] /\ columns[f] # None,
           With(s, t, columns) # {}, NEW updated,
           Merge(Row(s, t, Least(With(s, t, columns))), [f \in updated |-> row[f]]) = row
    PROVE  LET stored == Sql!Upsert(s, t, row, updated)
               id == Least(With(s, t, columns))
           IN  /\ Shaped(stored) /\ Sound(stored)
               /\ stored[t].rows = [s[t].rows EXCEPT ![id] = row]
               /\ \A u \in AllTables \ {t} : stored[u] = s[u]
               /\ With(stored, t, columns) = With(s, t, columns)
  <1> DEFINE existing == With(s, t, columns)
             id == Least(existing)
             c == Change(s, t, id, row)
             stored == [c EXCEPT ![t].next = @ + 1]
  <1>0. t \in Tables \ {"actors", "contracts", "interpretations"} /\ t \in AllTables
    BY DEF Upserted, Tables, AllTables
  <1>1. id \in existing /\ id \in DOMAIN s[t].rows
    BY <1>0, LeastFound
  <1>2. Sql!Conflicting(s, t, row) = existing
    <2>1. Sql!UniqueColumns[t] # {}
      BY DEF Upserted, Sql!UniqueColumns, Sql!Tables
    <2>2. None \notin {row[f] : f \in Sql!UniqueColumns[t]}
      OBVIOUS
    <2>3. Sql!Conflicting(s, t, row) = With(s, t, [f \in Sql!UniqueColumns[t] |-> row[f]])
      BY <2>1, <2>2, SqliteData, Zenon DEF Sql!Conflicting
    <2>4. With(s, t, [f \in Sql!UniqueColumns[t] |-> row[f]]) = With(s, t, columns)
      BY DEF With
    <2>5. QED BY <2>3, <2>4
  <1>3. Sql!Upsert(s, t, row, updated) = stored
    <2>1. Sql!Upsert(s, t, row, updated) =
              [Change(s, t, id, Merge(Row(s, t, id), [f \in updated |-> row[f]])) EXCEPT ![t].next = @ + 1]
      BY <1>1, <1>2, SqliteData, Zenon DEF Sql!Upsert
    <2>2. QED BY <2>1
  <1>4. /\ Shaped(c) /\ c[t].rows = [s[t].rows EXCEPT ![id] = row]
        /\ \A u \in AllTables \ {t} : c[u] = s[u]
    BY <1>0, <1>1, Changed
  <1>5. Sound(c)
    BY <1>0, <1>1, SoundChange
  <1> HIDE DEF c, id, existing
  <1>6. /\ DOMAIN stored = AllTables
        /\ \A u \in AllTables \ {t} : stored[u] = c[u]
        /\ stored[t] = [rows |-> c[t].rows, next |-> c[t].next + 1]
    <2>1. DOMAIN c = AllTables /\ c[t] = [rows |-> c[t].rows, next |-> c[t].next]
      BY <1>0, <1>4 DEF Shaped
    <2> DEFINE old == c[t]
               table == [old EXCEPT !.next = old.next + 1]
    <2>2. table = [rows |-> old.rows, next |-> old.next + 1]
      <3>1. old = [rows |-> old.rows, next |-> old.next]
        BY <2>1
      <3> HIDE DEF old
      <3>2. QED BY <3>1
    <2>3. stored = [c EXCEPT ![t] = table]
      OBVIOUS
    <2> HIDE DEF table, stored
    <2>4. QED BY <1>0, <2>1, <2>2, <2>3
  <1> HIDE DEF stored
  <1>7. Shaped(stored)
    <2>1. c[t].rows = [x \in DOMAIN c[t].rows |-> c[t].rows[x]] /\ c[t].next \in Nat
          /\ \A x \in DOMAIN c[t].rows : x \in Nat /\ x < c[t].next
      BY <1>0, <1>4 DEF Shaped
    <2>2. /\ stored[t].rows = c[t].rows /\ stored[t].next = c[t].next + 1
          /\ stored[t] = [rows |-> stored[t].rows, next |-> stored[t].next]
      BY <1>6
    <2>3. /\ stored[t].next \in Nat
          /\ \A x \in DOMAIN stored[t].rows : x \in Nat /\ x < stored[t].next
      BY <2>1, <2>2
    <2>4. QED BY <1>0, <1>4, <1>6, <2>1, <2>2, <2>3 DEF Shaped, AllTables
  <1>8. \A u \in AllTables : stored[u].rows = c[u].rows
    BY <1>6
  <1>9. Sound(stored)
    BY <1>5, <1>8, SoundRows
  <1>10. With(stored, t, columns) = existing
    <2>1. \A x \in DOMAIN s[t].rows : Row(stored, t, x) = IF x = id THEN row ELSE Row(s, t, x)
      BY <1>0, <1>1, <1>4, <1>8 DEF Row
    <2>2. DOMAIN stored[t].rows = DOMAIN s[t].rows
      BY <1>0, <1>4, <1>8
    <2>3. \A f \in DOMAIN columns : row[f] = columns[f]
      OBVIOUS
    <2>4. QED BY <1>1, <2>1, <2>2, <2>3 DEF With, existing
  <1>11. QED BY <1>0, <1>3, <1>4, <1>6, <1>7, <1>9, <1>10 DEF stored, existing, id

\* Both find the same binding, if there is one, and change the same columns of it.
LEMMA BindActorRoleSame ==
    ASSUME NEW m, NEW s, Twin(m, s), Sound(s), NEW actor, NEW role, NEW credential \in Refs \cup {None}, NEW status,
           Has(s, "actors", actor), Has(s, "roles", role),
           With(s, "bindings", [actor |-> actor, role |-> role, credential |-> credential]) # {} => credential # None,
           With(s, "bindings", [actor |-> actor, role |-> role, credential |-> credential]) = {} =>
               s["bindings"].next = m["bindings"].next
    PROVE  LET p == [actor |-> actor, role |-> role, surface |-> "mcp", credential |-> credential,
                     provider |-> "provider", status |-> status]
           IN  Same(Mem!bindActorRole(m, p), Sql!bindActorRole(s, p))
  <1> DEFINE p == [actor |-> actor, role |-> role, surface |-> "mcp", credential |-> credential,
                   provider |-> "provider", status |-> status]
             row == [actor |-> actor, role |-> role, surface |-> "mcp", credential |-> credential,
                     provider |-> "provider", status |-> Given(status, "active")]
             columns == [actor |-> actor, role |-> role, surface |-> "mcp", credential |-> credential]
             same == With(s, "bindings", [actor |-> actor, role |-> role, credential |-> credential])
             existing == With(s, "bindings", columns)
             id == Least(existing)
             stored == Sql!Upsert(s, "bindings", row, {"provider", "status"})
  <1>0. /\ "bindings" \in Tables \ {"actors", "contracts"} /\ "bindings" \in Upserted /\ "bindings" \in AllTables
        /\ {"actors", "roles"} \subseteq Tables
    BY DEF Tables, Upserted, AllTables
  <1>1. [p EXCEPT !.status = Given(@, "active")] = row
    OBVIOUS
  <1>2. [actor |-> p.actor, role |-> p.role, surface |-> p.surface, credential |-> p.credential] = columns
    OBVIOUS
  <1>3. /\ DOMAIN columns = {"actor", "role", "surface", "credential"}
        /\ \A f \in DOMAIN columns : columns[f] = row[f]
    OBVIOUS
  <1>4. actor # None /\ role # None /\ "mcp" # None
    <2>1. actor \in Nat /\ role \in Nat
      BY <1>0 DEF Has, Twin, Shaped
    <2>2. "mcp" \in Surfaces
      BY DEF Surfaces
    <2>3. QED BY <2>1, <2>2, RepositoryParityAssumption
  <1>5. Fits(s, "bindings", row)
    <2>1. ~Sql!Dangling(s, "bindings", row)
      BY DEF Sql!Dangling, Sql!ForeignKeys, Sql!Has, Has
    <2>2. row = [f \in Columns["bindings"] |-> row[f]] /\ row.surface = "mcp"
      BY DEF Columns
    <2> HIDE DEF row
    <2>3. QED BY <2>1, <2>2 DEF Fits
  <1>6. existing = same
    <2>1. \A x \in DOMAIN s["bindings"].rows : Row(s, "bindings", x).surface = "mcp"
      BY <1>0, RowFits DEF Fits
    <2>2. QED BY <2>1 DEF With
  <1>7. Mem!bindActorRole(m, p) =
            IF existing = {} THEN Mem!Created(m, "bindings", row)
            ELSE Ok(Change(m, "bindings", id, row), "bindings", id)
    <2>1. With(m, "bindings", columns) = existing
      BY <1>0, TwinReads
    <2> HIDE DEF columns, row, existing, p
    <2>2. QED BY <1>1, <1>2, <2>1, MemoryData, Zenon DEF Mem!bindActorRole, id
  <1>8. Sql!bindActorRole(s, p) = Ok(stored, "bindings", Least(With(stored, "bindings", columns)))
    <2> HIDE DEF columns, row, existing, p, stored
    <2>1. ~Sql!Dangling(s, "bindings", row)
      BY <1>5 DEF Fits
    <2>2. QED BY <1>1, <1>2, <2>1, SqliteData, Zenon DEF Sql!bindActorRole, stored
  <1>9. Sql!UniqueColumns["bindings"] = DOMAIN columns
    BY <1>3 DEF Sql!UniqueColumns, Sql!Tables
  <1>10. CASE existing = {}
    <2> HIDE DEF row, columns, same
    <2>1. m["bindings"].next = s["bindings"].next
      BY <1>6, <1>10 DEF same
    <2>2. Sql!Conflicting(s, "bindings", row) = {}
      BY <1>0, <1>3, <1>9, <1>10, NoConflict
    <2>3. stored = Insert(s, "bindings", row)
      BY <2>2, SqliteData, Zenon DEF Sql!Upsert
    <2>4. Least(With(stored, "bindings", columns)) = s["bindings"].next
      BY <1>0, <1>3, <1>10, <2>3, FoundInserted DEF Twin
    <2>5. Agree(Mem!Created(m, "bindings", row), Ok(stored, "bindings", s["bindings"].next))
      BY <1>0, <2>1, <2>3, CreatedAgrees
    <2>6. Sound(stored)
      BY <1>0, <1>5, <2>3, SoundInsert DEF Twin
    <2> HIDE DEF stored
    <2>7. QED BY <1>7, <1>8, <1>10, <2>4, <2>5, <2>6 DEF Same, Ok, Answer
  <1>11. CASE existing # {}
    <2>1. id \in existing /\ id \in DOMAIN s["bindings"].rows
      BY <1>0, <1>11, LeastFound DEF Twin
    <2>2. credential # None
      BY <1>6, <1>11
    <2>3. Merge(Row(s, "bindings", id), [f \in {"provider", "status"} |-> row[f]]) = row
      <3> DEFINE now == Row(s, "bindings", id)
      <3>1. now = [f \in Columns["bindings"] |-> now[f]]
        BY <1>0, <2>1, RowFits DEF Fits
      <3>2. now.actor = actor /\ now.role = role /\ now.surface = "mcp" /\ now.credential = credential
        BY <2>1 DEF With
      <3> HIDE DEF now, id
      <3>3. Merge(now, [f \in {"provider", "status"} |-> row[f]]) = row
        BY <3>1, <3>2 DEF Merge, Columns
      <3>4. QED BY <3>3 DEF now
    <2>4. \A f \in DOMAIN columns : columns[f] = row[f] /\ columns[f] # None
      BY <1>4, <2>2
    <2> HIDE DEF row, columns, same
    <2>5. /\ Shaped(stored) /\ Sound(stored)
          /\ stored["bindings"].rows = [s["bindings"].rows EXCEPT ![id] = row]
          /\ \A u \in AllTables \ {"bindings"} : stored[u] = s[u]
          /\ With(stored, "bindings", columns) = existing
      BY <1>0, <1>5, <1>9, <1>11, <2>3, <2>4, Upserts, SMTT(60) DEF Twin
    <2> DEFINE cm == Change(m, "bindings", id, row)
    <2> HIDE DEF existing, id, stored
    <2>6. Twin(cm, stored)
      <3>1. m["bindings"].rows = s["bindings"].rows
        BY <1>0 DEF Twin
      <3>2. /\ Shaped(cm) /\ cm["bindings"].rows = [m["bindings"].rows EXCEPT ![id] = row]
            /\ \A u \in AllTables \ {"bindings"} : cm[u] = m[u]
        BY <1>0, <2>1, <3>1, Changed DEF Twin
      <3> HIDE DEF cm
      <3>3. QED BY <1>0, <2>5, <3>1, <3>2 DEF Twin, AllTables
    <2> HIDE DEF cm
    <2>7. Sql!bindActorRole(s, p) = Ok(stored, "bindings", id)
      BY <1>8, <2>5 DEF id
    <2>8. Mem!bindActorRole(m, p) = Ok(cm, "bindings", id)
      BY <1>7, <1>11 DEF cm
    <2>9. QED BY <1>0, <2>5, <2>6, <2>7, <2>8, TwinOk DEF Same
  <1>12. QED BY <1>10, <1>11

\* Both find the same session, if there is one, or open one with the same id.
LEMMA OpenActorSessionSame ==
    ASSUME NEW m, NEW s, Twin(m, s), Sound(s), NEW actor, NEW ref \in Refs, NEW surface, NEW provider,
           NEW transcript, Has(s, "actors", actor),
           \A id \in With(s, "sessions", [actor |-> actor, ref |-> ref]) :
               /\ Row(s, "sessions", id).status # "closed" /\ Row(s, "sessions", id).surface = surface
               /\ Row(s, "sessions", id).provider = provider /\ Row(s, "sessions", id).transcript = transcript,
           With(s, "sessions", [actor |-> actor, ref |-> ref]) = {} => s["sessions"].next = m["sessions"].next
    PROVE  LET p == [actor |-> actor, ref |-> ref, surface |-> surface, provider |-> provider,
                     transcript |-> transcript, status |-> "active"]
           IN  Same(Mem!openActorSession(m, p), Sql!openActorSession(s, p))
  <1> DEFINE p == [actor |-> actor, ref |-> ref, surface |-> surface, provider |-> provider,
                   transcript |-> transcript, status |-> "active"]
             updated == {"status", "surface", "provider", "transcript"}
             columns == [actor |-> actor, ref |-> ref]
             same == With(s, "sessions", columns)
             id == Least(same)
             stored == Sql!Upsert(s, "sessions", p, updated)
  <1>0. /\ "sessions" \in Tables \ {"actors", "contracts"} /\ "sessions" \in Upserted /\ "sessions" \in AllTables
        /\ "actors" \in Tables
    BY DEF Tables, Upserted, AllTables
  <1>1. p.actor = actor /\ p.ref = ref
    OBVIOUS
  <1>2. DOMAIN columns = {"actor", "ref"} /\ \A f \in DOMAIN columns : columns[f] = p[f]
    OBVIOUS
  <1>3. \A f \in DOMAIN columns : columns[f] # None
    <2>1. actor \in Nat
      BY <1>0 DEF Has, Twin, Shaped
    <2>2. actor # None /\ ref # None
      BY <2>1, RepositoryParityAssumption
    <2>3. QED BY <2>2
  <1>4. Fits(s, "sessions", p)
    <2>1. ~Sql!Dangling(s, "sessions", p)
      BY DEF Sql!Dangling, Sql!ForeignKeys, Sql!Has, Has
    <2>2. p = [f \in Columns["sessions"] |-> p[f]] /\ p.status = "active"
      BY DEF Columns
    <2> HIDE DEF p
    <2>3. QED BY <2>1, <2>2 DEF Fits
  <1>5. With(s, "sessions", [actor |-> actor, ref |-> ref, status |-> "active"]) = same
    <2>1. \A x \in same : Row(s, "sessions", x).status = "active"
      <3>1. \A x \in same : x \in DOMAIN s["sessions"].rows
        BY DEF With
      <3>2. \A x \in DOMAIN s["sessions"].rows : Row(s, "sessions", x).status \in {"active", "closed"}
        BY <1>0, RowFits DEF Fits
      <3>3. QED BY <3>1, <3>2
    <2>2. QED BY <2>1 DEF With
  <1>6. Mem!openActorSession(m, p) =
            IF same # {} THEN Ok(m, "sessions", id) ELSE Mem!Created(m, "sessions", p)
    <2> DEFINE active == [actor |-> actor, ref |-> ref, status |-> "active"]
    <2>1. With(m, "sessions", active) = same
      BY <1>0, <1>5, TwinReads
    <2>2. Mem!ActiveSession(m, actor, ref) = same
      BY <2>1, MemoryData, Zenon DEF Mem!ActiveSession
    <2> HIDE DEF same, p
    <2>3. QED BY <1>1, <2>2, MemoryData, Zenon DEF Mem!openActorSession, id
  <1>7. Sql!openActorSession(s, p) = Ok(stored, "sessions", Least(With(stored, "sessions", columns)))
    <2> HIDE DEF p
    <2>1. ~Sql!Dangling(s, "sessions", p)
      BY <1>4 DEF Fits
    <2>2. QED BY <1>1, <2>1, SqliteData, Zenon DEF Sql!openActorSession
  <1>8. Sql!UniqueColumns["sessions"] = DOMAIN columns
    BY <1>2 DEF Sql!UniqueColumns, Sql!Tables
  <1>9. CASE same = {}
    <2> HIDE DEF p, columns
    <2>1. m["sessions"].next = s["sessions"].next
      BY <1>9 DEF columns
    <2>2. Sql!Conflicting(s, "sessions", p) = {}
      BY <1>0, <1>2, <1>8, <1>9, NoConflict
    <2>3. stored = Insert(s, "sessions", p)
      BY <2>2, SqliteData, Zenon DEF Sql!Upsert
    <2>4. Least(With(stored, "sessions", columns)) = s["sessions"].next
      BY <1>0, <1>2, <1>9, <2>3, FoundInserted DEF Twin
    <2>5. Agree(Mem!Created(m, "sessions", p), Ok(stored, "sessions", s["sessions"].next))
      BY <1>0, <2>1, <2>3, CreatedAgrees
    <2>6. Sound(stored)
      BY <1>0, <1>4, <2>3, SoundInsert DEF Twin
    <2> HIDE DEF stored
    <2>7. QED BY <1>6, <1>7, <1>9, <2>4, <2>5, <2>6 DEF Same, Ok, Answer, p
  <1>10. CASE same # {}
    <2>1. id \in same /\ id \in DOMAIN s["sessions"].rows
      BY <1>0, <1>10, LeastFound DEF Twin
    <2>2. Row(s, "sessions", id) = p
      <3> DEFINE now == Row(s, "sessions", id)
      <3>1. now = [f \in Columns["sessions"] |-> now[f]] /\ now.status \in {"active", "closed"}
        BY <1>0, <2>1, RowFits DEF Fits
      <3>2. now.actor = actor /\ now.ref = ref
        BY <2>1 DEF With
      <3>3. now.status = "active" /\ now.surface = surface /\ now.provider = provider /\ now.transcript = transcript
        BY <2>1, <3>1
      <3> HIDE DEF now, id
      <3>4. now = p
        BY <3>1, <3>2, <3>3 DEF Columns
      <3>5. QED BY <3>4 DEF now
    <2>3. Merge(Row(s, "sessions", id), [f \in updated |-> p[f]]) = p
      <3>1. Merge(p, [f \in updated |-> p[f]]) = p
        BY DEF Merge
      <3> HIDE DEF p, id
      <3>2. QED BY <2>2, <3>1
    <2>4. \A f \in DOMAIN columns : columns[f] = p[f] /\ columns[f] # None
      BY <1>2, <1>3
    <2> HIDE DEF p, columns
    <2>5. /\ Shaped(stored) /\ Sound(stored)
          /\ stored["sessions"].rows = [s["sessions"].rows EXCEPT ![id] = p]
          /\ \A u \in AllTables \ {"sessions"} : stored[u] = s[u]
          /\ With(stored, "sessions", columns) = same
      <3> HIDE DEF updated
      <3>1. QED BY <1>0, <1>4, <1>8, <1>10, <2>3, <2>4, Upserts, SMTT(60) DEF Twin
    <2> HIDE DEF same, id, stored
    <2>6. stored["sessions"].rows = s["sessions"].rows
      <3>1. s["sessions"].rows = [x \in DOMAIN s["sessions"].rows |-> s["sessions"].rows[x]]
        BY <1>0 DEF Twin, Shaped
      <3>2. s["sessions"].rows[id] = p
        BY <2>2 DEF Row
      <3>3. QED BY <2>5, <3>1, <3>2
    <2>7. Twin(m, stored)
      BY <1>0, <2>5, <2>6 DEF Twin, AllTables
    <2>8. Sql!openActorSession(s, p) = Ok(stored, "sessions", id)
      BY <1>7, <2>5 DEF id
    <2>9. Mem!openActorSession(m, p) = Ok(m, "sessions", id)
      BY <1>6, <1>10
    <2>10. QED BY <1>0, <2>5, <2>7, <2>8, <2>9, TwinOk DEF Same, p
  <1>11. QED BY <1>9, <1>10

LEMMA HeartbeatActorSessionSame ==
    ASSUME NEW m, NEW s, Twin(m, s), Sound(s), NEW ref, NEW actor
    PROVE  Same(Mem!heartbeatActorSession(m, ref, actor), Sql!heartbeatActorSession(s, ref, actor))
  <1> DEFINE active == With(s, "sessions", [actor |-> actor, ref |-> ref, status |-> "active"])
  <1>0. "sessions" \in Tables /\ "sessions" \in AllTables
    BY DEF Tables, AllTables
  <1>1. With(m, "sessions", [actor |-> actor, ref |-> ref, status |-> "active"]) = active
    BY <1>0, TwinReads
  <1> HIDE DEF active
  <1>2. Mem!ActiveSession(m, actor, ref) = active
    BY <1>1, MemoryData, Zenon DEF Mem!ActiveSession
  <1>3. Sql!ActiveSession(s, actor, ref) = active
    BY SqliteData, Zenon DEF Sql!ActiveSession, active
  <1>4. Mem!heartbeatActorSession(m, ref, actor) =
            IF active = {} THEN Error(m, "NOT_FOUND") ELSE Ok(m, "sessions", Least(active))
    BY <1>2, MemoryData, Zenon DEF Mem!heartbeatActorSession
  <1>5. Sql!heartbeatActorSession(s, ref, actor) =
            IF active = {} THEN Error(s, "NOT_FOUND") ELSE Ok(s, "sessions", Least(active))
    BY <1>3, SqliteData, Zenon DEF Sql!heartbeatActorSession
  <1>6. QED BY <1>0, <1>4, <1>5, ErrorSame, TwinOk DEF Same

LEMMA CloseActorSessionSame ==
    ASSUME NEW m, NEW s, Twin(m, s), Sound(s), NEW ref, NEW actor
    PROVE  Same(Mem!closeActorSession(m, ref, actor), Sql!closeActorSession(s, ref, actor))
  <1> DEFINE columns == [actor |-> actor, ref |-> ref, status |-> "active"]
             active == With(s, "sessions", columns)
             id == Least(active)
             Closed(x) == [x EXCEPT !["sessions"].rows[id].status = "closed"]
  <1>0. "sessions" \in Tables \ {"actors", "contracts"} /\ "sessions" \in AllTables
    BY DEF Tables, AllTables
  <1>1. With(m, "sessions", columns) = active
    BY <1>0, TwinReads
  <1>2. Mem!ActiveSession(m, actor, ref) = active
    <2> HIDE DEF active
    <2>1. QED BY <1>1, MemoryData, Zenon DEF Mem!ActiveSession
  <1>3. Sql!ActiveSession(s, actor, ref) = active
    BY SqliteData, Zenon DEF Sql!ActiveSession
  <1>4. Mem!closeActorSession(m, ref, actor) =
            IF active = {} THEN Error(m, "NOT_FOUND") ELSE Ok(Closed(m), "sessions", id)
    <2> HIDE DEF active
    <2>1. QED BY <1>2, MemoryData, Zenon DEF Mem!closeActorSession
  <1>5. Sql!closeActorSession(s, ref, actor) =
            IF active = {} THEN Error(s, "NOT_FOUND") ELSE Ok(Closed(s), "sessions", id)
    <2> HIDE DEF active
    <2>1. QED BY <1>3, SqliteData, Zenon DEF Sql!closeActorSession
  <1>6. CASE active = {}
    BY <1>4, <1>5, <1>6, ErrorSame
  <1>7. CASE active # {}
    <2> DEFINE row == Row(s, "sessions", id)
               new == [row EXCEPT !.status = "closed"]
               c == Change(s, "sessions", id, new)
               cm == Change(m, "sessions", id, new)
    <2>1. id \in DOMAIN s["sessions"].rows
      BY <1>0, <1>7, LeastFound DEF Twin
    <2>2. Closed(s) = c
      BY DEF Change, Row
    <2>3. Closed(m) = cm
      <3>1. Row(m, "sessions", id) = row
        BY <1>0, TwinReads
      <3>2. Closed(m) = Change(m, "sessions", id, [Row(m, "sessions", id) EXCEPT !.status = "closed"])
        BY DEF Change, Row
      <3> HIDE DEF row, Closed
      <3>3. QED BY <3>1, <3>2
    <2>4. Fits(s, "sessions", row)
      BY <1>0, <2>1, RowFits
    <2>5. Fits(s, "sessions", new)
      <3> HIDE DEF row
      <3>1. new = [f \in Columns["sessions"] |-> new[f]] /\ new.actor = row.actor /\ new.status = "closed"
        BY <2>4 DEF Fits, Columns
      <3>2. row.actor = None \/ Has(s, "actors", row.actor)
        BY <2>4 DEF Fits, Sql!Dangling, Sql!ForeignKeys, Sql!Has, Has
      <3> HIDE DEF new
      <3>3. ~Sql!Dangling(s, "sessions", new)
        BY <3>1, <3>2 DEF Sql!Dangling, Sql!ForeignKeys, Sql!Has, Has
      <3>4. QED BY <3>1, <3>3 DEF Fits
    <2> HIDE DEF new
    <2>6. Twin(cm, c) /\ Sound(c)
      BY <1>0, <2>1, <2>5, TwinChange, SoundChange DEF Twin
    <2> HIDE DEF c, cm, Closed, active, id
    <2>7. QED BY <1>0, <1>4, <1>5, <1>7, <2>2, <2>3, <2>6, TwinOk DEF Same
  <1>8. QED BY <1>6, <1>7

-----------------------------------------------------------------------------
(* Contracts                                                               *)

LEMMA ContractDangles ==
    ASSUME NEW s, NEW x
    PROVE  Sql!Dangling(s, "contracts", x) <=>
               \/ x.scope # None /\ ~Has(s, "scopes", x.scope)
               \/ x.domain # None /\ ~Has(s, "domains", x.domain)
               \/ x.custodian # None /\ ~Has(s, "actors", x.custodian)
               \/ x.supersedes # None /\ ~Has(s, "contracts", x.supersedes)
               \/ x.supersededBy # None /\ ~Has(s, "contracts", x.supersededBy)
  <1> DEFINE references == Sql!ForeignKeys["contracts"]
  <1>1. /\ DOMAIN references = {"scope", "domain", "custodian", "supersedes", "supersededBy"}
        /\ references["scope"] = "scopes" /\ references["domain"] = "domains" /\ references["custodian"] = "actors"
        /\ references["supersedes"] = "contracts" /\ references["supersededBy"] = "contracts"
    BY DEF Sql!ForeignKeys
  <1>2. Sql!Dangling(s, "contracts", x) <=>
            \E f \in DOMAIN references : x[f] # None /\ ~Has(s, references[f], x[f])
    BY DEF Sql!Dangling, Sql!Has, Has
  <1> HIDE DEF references
  <1>3. QED BY <1>1, <1>2

LEMMA SoundContracts ==
    ASSUME NEW s, Sound(s), NEW e, Extends(s, e), Whole(e), Revised(e), e["actors"].rows = s["actors"].rows
    PROVE  Sound(e)
  <1>1. NamedApart(e)
    BY DEF Sound, NamedApart, Row
  <1>2. QED BY <1>1, BegunExtends DEF Sound

\* A new row of a table with a key and a version clashes with no other, or with one of its key and version.
LEMMA VersionsClash ==
    ASSUME NEW s, NEW row
    PROVE  Sql!Conflicting(s, "contracts", row) \subseteq
               {id \in With(s, "contracts", [key |-> row.key]) : Row(s, "contracts", id).version = row.version}
  <1> DEFINE columns == [key |-> row.key, version |-> row.version]
  <1>1. Sql!UniqueColumns["contracts"] = {"key", "version"} /\ "contracts" \in Tables
    BY DEF Sql!UniqueColumns, Sql!Tables, Tables
  <1>2. Sql!Conflicting(s, "contracts", row) \subseteq With(s, "contracts", columns)
    BY <1>1, NoConflict
  <1>3. QED BY <1>2 DEF With

\* Both refuse a key with an open revision; the unique index on versions refuses no other.
LEMMA RegisterContractSame ==
    ASSUME NEW m, NEW s, Twin(m, s), Sound(s), NEW key, NEW scope, NEW domain, NEW status \in {None, "draft"},
           NEW custodian, NEW parent, Has(s, "actors", custodian),
           Mem!OpenRevisions(s, key) = {} => /\ scope = None \/ Has(s, "scopes", scope)
                                             /\ domain = None \/ Has(s, "domains", domain)
    PROVE  LET p == [key |-> key, scope |-> scope, domain |-> domain, status |-> status, version |-> 1,
                     custodian |-> custodian, parent |-> parent, supersedes |-> None, supersededBy |-> None]
           IN  Same(Mem!registerContract(m, p), Sql!registerContract(s, p))
  <1> DEFINE p == [key |-> key, scope |-> scope, domain |-> domain, status |-> status, version |-> 1,
                   custodian |-> custodian, parent |-> parent, supersedes |-> None, supersededBy |-> None]
             row == [key |-> key, scope |-> scope, domain |-> domain, status |-> Given(status, "active"), version |-> 1,
                     custodian |-> custodian, parent |-> parent, supersedes |-> None, supersededBy |-> None]
             new == s["contracts"].next
             e == Event("contract_registered", "contracts", new, custodian, scope)
             open == {id \in With(s, "contracts", [key |-> key]) : Row(s, "contracts", id).status \in Open}
             i == Insert(s, "contracts", row)
  <1>0. /\ "contracts" \in Tables \ Upserted /\ {"contracts", "actors"} \subseteq AllTables
        /\ m["contracts"].next = new
    BY DEF Tables, Upserted, AllTables, Twin
  <1>1. /\ [p EXCEPT !.status = Given(@, "active"), !.version = Given(@, 1)] = row
        /\ p.key = key /\ p.scope = scope /\ p.custodian = custodian
    <2>1. Given(p.version, 1) = 1
      BY DEF Given
    <2>2. Given(p.status, "active") = Given(status, "active")
      OBVIOUS
    <2>3. [p EXCEPT !.status = Given(p.status, "active"), !.version = Given(p.version, 1)] = row
      <3>1. \A a, b : [p EXCEPT !.status = a, !.version = b] =
                          [key |-> key, scope |-> scope, domain |-> domain, status |-> a, version |-> b, custodian |-> custodian,
                           parent |-> parent, supersedes |-> None, supersededBy |-> None]
        <4> TAKE a, b
        <4> DEFINE given == [key |-> key, scope |-> scope, domain |-> domain, status |-> a, version |-> 1, custodian |-> custodian,
                             parent |-> parent, supersedes |-> None, supersededBy |-> None]
        <4>1. [p EXCEPT !.status = a] = given
          OBVIOUS
        <4>2. [given EXCEPT !.version = b] =
                  [key |-> key, scope |-> scope, domain |-> domain, status |-> a, version |-> b, custodian |-> custodian,
                   parent |-> parent, supersedes |-> None, supersededBy |-> None]
          OBVIOUS
        <4>3. [p EXCEPT !.status = a, !.version = b] = [[p EXCEPT !.status = a] EXCEPT !.version = b]
          OBVIOUS
        <4> HIDE DEF p, given
        <4>4. QED BY <4>1, <4>2, <4>3
      <3> DEFINE a == Given(p.status, "active")
                 b == Given(p.version, 1)
      <3>2. a = Given(status, "active") /\ b = 1
        BY <2>1, <2>2
      <3> HIDE DEF a, b, p
      <3>3. [p EXCEPT !.status = a, !.version = b] = row
        BY <3>1, <3>2, Zenon
      <3>4. QED BY <3>3 DEF a, b
    <2>4. [p EXCEPT !.status = Given(@, "active"), !.version = Given(@, 1)] =
              [p EXCEPT !.status = Given(p.status, "active"), !.version = Given(p.version, 1)]
      OBVIOUS
    <2>5. QED BY <2>3, <2>4
  <1>2. /\ row = [f \in Columns["contracts"] |-> row[f]] /\ row.key = key /\ row.version = 1
        /\ row.status \in Open /\ row.custodian = custodian
        /\ row.scope = scope /\ row.domain = domain /\ row.supersedes = None /\ row.supersededBy = None
    BY DEF Columns, Given, Open
  <1> HIDE DEF p, row
  <1>3. Mem!registerContract(m, p) =
            IF open # {} THEN Error(m, "CONFLICT") ELSE Mem!Recorded(m, "contracts", row, e)
    <2>1. Mem!OpenRevisions(m, key) = open
      <3>1. \A id : Row(m, "contracts", id) = Row(s, "contracts", id)
        BY <1>0, TwinReads
      <3>2. With(m, "contracts", [key |-> key]) = With(s, "contracts", [key |-> key])
        BY <1>0, TwinReads
      <3>3. Mem!OpenRevisions(m, key) = {id \in With(m, "contracts", [key |-> key]) : Row(m, "contracts", id).status \in Open}
        BY MemoryData, Zenon DEF Mem!OpenRevisions
      <3>4. QED BY <3>1, <3>2, <3>3
    <2> HIDE DEF open
    <2>2. QED BY <1>0, <1>1, <2>1, MemoryData, Zenon DEF Mem!registerContract
  <1>4. Sql!registerContract(s, p) =
            IF open # {} THEN Error(s, "CONFLICT") ELSE Sql!Recorded(s, "contracts", row, e)
    <2>1. (\E id \in With(s, "contracts", [key |-> key]) : Row(s, "contracts", id).status \in Open) <=> open # {}
      OBVIOUS
    <2> HIDE DEF open
    <2>2. QED BY <1>1, <2>1, SqliteData, Zenon DEF Sql!registerContract
  <1>5. CASE open # {}
    <2> HIDE DEF open
    <2>1. QED BY <1>3, <1>4, <1>5, ErrorSame DEF p
  <1>6. CASE open = {}
    <2>1. With(s, "contracts", [key |-> key]) = {}
      <3>1. ASSUME NEW id \in With(s, "contracts", [key |-> key]) PROVE FALSE
        <4>1. id \in DOMAIN s["contracts"].rows /\ Row(s, "contracts", id).key = key
          BY DEF With
        <4>2. QED BY <1>6, <4>1 DEF Sound, Revised
      <3>2. QED BY <3>1
    <2>2. Fits(s, "contracts", row)
      <3>0. Mem!OpenRevisions(s, key) = open
        BY MemoryData, Zenon DEF Mem!OpenRevisions
      <3>1. ~Sql!Dangling(s, "contracts", row)
        BY <1>2, <1>6, <3>0, ContractDangles
      <3>2. QED BY <1>2, <3>1 DEF Fits
    <2>3. ~Sql!Refuses(s, "contracts", row)
      <3>1. Sql!Conflicting(s, "contracts", row) = {}
        BY <1>2, <2>1, VersionsClash
      <3>2. With(s, "contracts", [key |-> row.key]) = {}
        BY <1>2, <2>1
      <3>3. QED BY <2>2, <3>1, <3>2, SqliteData, Zenon DEF Sql!Refuses, Sql!OpenKeyTaken, Fits
    <2>4. /\ Shaped(i) /\ Extends(s, i) /\ Whole(i)
          /\ i["contracts"].rows = Put(s["contracts"].rows, new, row)
          /\ i["actors"] = s["actors"]
      BY <1>0, <2>2, InsertKeeps, Inserted DEF Sound, Twin
    <2>5. Revised(i)
      <3> HIDE DEF i
      <3>1. new \in Nat /\ new \notin DOMAIN s["contracts"].rows
        BY <1>0 DEF Twin, Shaped
      <3> HIDE DEF new
      <3>2. /\ DOMAIN i["contracts"].rows = DOMAIN s["contracts"].rows \cup {new}
            /\ Row(i, "contracts", new) = row
            /\ \A x \in DOMAIN s["contracts"].rows : Row(i, "contracts", x) = Row(s, "contracts", x)
        BY <2>4, <3>1 DEF Put, Row
      <3>3. \A x \in DOMAIN s["contracts"].rows : Row(s, "contracts", x).key # key
        BY <2>1 DEF With
      <3>4. With(i, "contracts", [key |-> key]) = {new}
        BY <1>2, <3>2, <3>3 DEF With
      <3>5. \A k : k # key => With(i, "contracts", [key |-> k]) = With(s, "contracts", [key |-> k])
        BY <1>2, <3>2, <3>3 DEF With
      <3>6. ASSUME NEW x \in DOMAIN i["contracts"].rows
            PROVE  /\ \E j \in With(i, "contracts", [key |-> Row(i, "contracts", x).key]) : Row(i, "contracts", j).status \in Open
                   /\ Row(i, "contracts", x).status \in Open =>
                         \A j \in With(i, "contracts", [key |-> Row(i, "contracts", x).key]) \ {x} :
                             /\ Row(i, "contracts", j).status \notin Open
                             /\ Row(i, "contracts", j).version < Row(i, "contracts", x).version
        <4>1. CASE x = new
          BY <1>2, <3>2, <3>4, <4>1
        <4>2. CASE x # new
          <5> DEFINE k == Row(s, "contracts", x).key
          <5>1. x \in DOMAIN s["contracts"].rows /\ Row(i, "contracts", x) = Row(s, "contracts", x) /\ k # key
            BY <3>2, <3>3, <4>2
          <5>2. With(i, "contracts", [key |-> k]) = With(s, "contracts", [key |-> k])
            BY <3>5, <5>1
          <5>3. \A j \in With(s, "contracts", [key |-> k]) : Row(i, "contracts", j) = Row(s, "contracts", j)
            BY <3>2 DEF With
          <5>4. /\ \E j \in With(s, "contracts", [key |-> k]) : Row(s, "contracts", j).status \in Open
                /\ Row(s, "contracts", x).status \in Open =>
                      \A j \in With(s, "contracts", [key |-> k]) \ {x} :
                          /\ Row(s, "contracts", j).status \notin Open
                          /\ Row(s, "contracts", j).version < Row(s, "contracts", x).version
            BY <5>1 DEF Sound, Revised
          <5> HIDE DEF k
          <5>5. QED BY <5>1, <5>2, <5>3, <5>4 DEF k
        <4>3. QED BY <4>1, <4>2
      <3>7. QED BY <3>6 DEF Revised
    <2>6. Sound(i)
      BY <2>4, <2>5, SoundContracts
    <2>7. Has(i, "actors", custodian)
      BY <2>4 DEF Has
    <2>8. ~Sql!Dangling(i, "events", e)
      BY <2>7, EventOfActor
    <2>9. /\ Agree(Mem!Recorded(m, "contracts", row, e), Sql!Recorded(s, "contracts", row, e))
          /\ Sql!Recorded(s, "contracts", row, e).store = Insert(i, "events", e)
      BY <1>0, <2>3, <2>8, RecordedAgrees
    <2>10. Sound(Insert(i, "events", e))
      BY <2>4, <2>6, <2>8, SoundEvent
    <2>11. QED BY <1>3, <1>4, <1>6, <2>9, <2>10 DEF Same, p
  <1>7. QED BY <1>5, <1>6 DEF p

\* A contract row with the references of another, but for those to other contracts, its domain and its custodian.
LEMMA ContractFits ==
    ASSUME NEW s, NEW row, Fits(s, "contracts", row), NEW new,
           new = [f \in Columns["contracts"] |-> new[f]], new.scope = row.scope, new.version \in Nat,
           new.domain = row.domain \/ Has(s, "domains", new.domain),
           new.custodian = row.custodian \/ Has(s, "actors", new.custodian),
           new.supersedes = row.supersedes \/ Has(s, "contracts", new.supersedes),
           new.supersededBy \in {None, row.supersededBy} \/ Has(s, "contracts", new.supersededBy)
    PROVE  Fits(s, "contracts", new)
  <1>1. ~Sql!Dangling(s, "contracts", row)
    BY DEF Fits
  <1>2. ~Sql!Dangling(s, "contracts", new)
    BY <1>1, ContractDangles
  <1>3. QED BY <1>2 DEF Fits

\* The last revision of a key closed, and another opened after it.
LEMMA RevisedOnce ==
    ASSUME NEW s, Revised(s), NEW id \in DOMAIN s["contracts"].rows, NEW new, new \notin DOMAIN s["contracts"].rows,
           Row(s, "contracts", id).status \in Open, Row(s, "contracts", id).version \in Nat, NEW e,
           DOMAIN e["contracts"].rows = DOMAIN s["contracts"].rows \cup {new},
           \A x \in DOMAIN s["contracts"].rows \ {id} : Row(e, "contracts", x) = Row(s, "contracts", x),
           Row(e, "contracts", id).key = Row(s, "contracts", id).key,
           Row(e, "contracts", id).version = Row(s, "contracts", id).version,
           Row(e, "contracts", id).status \notin Open,
           Row(e, "contracts", new).key = Row(s, "contracts", id).key,
           Row(e, "contracts", new).version = Row(s, "contracts", id).version + 1,
           Row(e, "contracts", new).status \in Open,
           \A x \in DOMAIN s["contracts"].rows : Row(s, "contracts", x).version \in Nat
    PROVE  Revised(e)
  <1> DEFINE D == DOMAIN s["contracts"].rows
             Of(x) == Row(s, "contracts", x)
             Now(x) == Row(e, "contracts", x)
             key == Of(id).key
  <1>1. ASSUME NEW x \in D, x # id, Of(x).key = key
        PROVE  Of(x).status \notin Open /\ Of(x).version < Of(id).version
    <2>1. \A j \in With(s, "contracts", [key |-> key]) \ {id} : Of(j).status \notin Open /\ Of(j).version < Of(id).version
      BY DEF Revised
    <2>2. x \in With(s, "contracts", [key |-> key]) \ {id}
      BY <1>1 DEF With
    <2>3. QED BY <2>1, <2>2
  <1>2. ASSUME NEW x \in D \cup {new}
        PROVE  /\ \E j \in With(e, "contracts", [key |-> Now(x).key]) : Now(j).status \in Open
               /\ Now(x).status \in Open =>
                     \A j \in With(e, "contracts", [key |-> Now(x).key]) \ {x} :
                         Now(j).status \notin Open /\ Now(j).version < Now(x).version
    <2>1. CASE Now(x).key = key
      <3>1. new \in With(e, "contracts", [key |-> Now(x).key])
        BY <2>1 DEF With
      <3>2. ASSUME NEW j \in With(e, "contracts", [key |-> Now(x).key]), j # new
            PROVE  Now(j).status \notin Open /\ Now(j).version < Now(new).version
        <4>1. j \in D /\ Now(j).key = key
          BY <2>1, <3>2 DEF With
        <4>2. CASE j = id
          BY <4>2
        <4>3. CASE j # id
          <5>1. Now(j) = Of(j)
            BY <4>1, <4>3
          <5>2. Of(j).status \notin Open /\ Of(j).version < Of(id).version
            BY <1>1, <4>1, <4>3, <5>1
          <5>3. Of(j).version \in Nat
            BY <4>1
          <5>4. QED BY <5>1, <5>2, <5>3
        <4>4. QED BY <4>2, <4>3
      <3>3. x \in With(e, "contracts", [key |-> Now(x).key])
        BY DEF With
      <3>4. QED BY <3>1, <3>2, <3>3
    <2>2. CASE Now(x).key # key
      <3>1. x \in D \ {id} /\ Now(x) = Of(x)
        BY <2>2
      <3>2. With(e, "contracts", [key |-> Now(x).key]) = With(s, "contracts", [key |-> Of(x).key])
        BY <2>2, <3>1 DEF With
      <3>3. \A j \in With(s, "contracts", [key |-> Of(x).key]) : j \in D \ {id} /\ Now(j) = Of(j)
        BY <2>2, <3>1 DEF With
      <3>4. /\ \E j \in With(s, "contracts", [key |-> Of(x).key]) : Of(j).status \in Open
            /\ Of(x).status \in Open =>
                  \A j \in With(s, "contracts", [key |-> Of(x).key]) \ {x} :
                      Of(j).status \notin Open /\ Of(j).version < Of(x).version
        BY <3>1 DEF Revised
      <3> HIDE DEF Of, Now
      <3>5. QED BY <3>1, <3>2, <3>3, <3>4
    <2>3. QED BY <2>1, <2>2
  <1>3. QED BY <1>2 DEF Revised

\* Memory closes the revision and opens the next; the transaction does so, or neither.
LEMMA SupersedeContractSame ==
    ASSUME NEW m, NEW s, Twin(m, s), Sound(s), NEW id, NEW status \in {None, "draft"}, NEW domain, NEW custodian,
           domain = None \/ Has(s, "domains", domain), Has(s, "actors", custodian)
    PROVE  LET p == [status |-> status, domain |-> domain, custodian |-> custodian]
           IN  Same(Mem!supersedeContract(m, id, p), Sql!supersedeContract(s, id, p))
  <1> DEFINE t == "contracts"
             p == [status |-> status, domain |-> domain, custodian |-> custodian]
             current == Row(s, t, id)
             Others(x) == {i \in With(x, t, [key |-> current.key]) : Row(x, t, i).status \in Open} \ {id}
  <1>0. t \in Tables \ Upserted /\ {t, "actors", "events"} \subseteq AllTables /\ {"actors", "events"} \subseteq Tables
    BY DEF Tables, Upserted, AllTables
  <1>1. Has(m, t, id) = Has(s, t, id) /\ Row(m, t, id) = current
    BY <1>0, TwinReads
  <1>2. p.status = status /\ p.domain = domain /\ p.custodian = custodian
    OBVIOUS
  <1> HIDE DEF p
  <1>3. CASE ~Has(s, t, id)
    <2>1. Mem!supersedeContract(m, id, p) = Error(m, "NOT_FOUND")
      BY <1>1, <1>3, MemoryData, Zenon DEF Mem!supersedeContract
    <2>2. Sql!supersedeContract(s, id, p) = Error(s, "NOT_FOUND")
      BY <1>3, SqliteData, Zenon DEF Sql!supersedeContract
    <2>3. QED BY <2>1, <2>2, ErrorSame DEF p
  <1>4. CASE Has(s, t, id) /\ current.status \notin Open
    <2>1. Mem!supersedeContract(m, id, p) = Error(m, "INVALID_TRANSITION")
      BY <1>1, <1>4, MemoryData, Zenon DEF Mem!supersedeContract
    <2>2. Sql!supersedeContract(s, id, p) = Error(s, "INVALID_TRANSITION")
      BY <1>4, SqliteData, Zenon DEF Sql!supersedeContract
    <2>3. QED BY <2>1, <2>2, ErrorSame DEF p
  <1>5. CASE Has(s, t, id) /\ current.status \in Open
    <2> DEFINE new == s[t].next
               next == Given(status, "active")
               place == Given(domain, current.domain)
               closed == [current EXCEPT !.status = "superseded"]
               replacement == [current EXCEPT !.status = next, !.version = @ + 1,
                                              !.domain = Given(domain, @), !.custodian = custodian, !.supersedes = id, !.supersededBy = None]
               old == [closed EXCEPT !.supersededBy = new]
               e1 == Event("contract_superseded", t, id, custodian, current.scope)
               e2 == Event("contract_registered", t, new, custodian, current.scope)
               answer == [old |-> old, replacement |-> replacement]
               marked == Change(s, t, id, closed)
               inserted == Insert(marked, t, replacement)
               stored == Change(inserted, t, id, old)
               ofMemory == Insert(Change(m, t, id, old), t, replacement)
               both == Sql!emitEvent(Sql!emitEvent(stored, e1).store, e2).store
    <2>1. id \in DOMAIN s[t].rows /\ m[t].next = new /\ new \in Nat /\ new \notin DOMAIN s[t].rows
      BY <1>0, <1>5 DEF Has, Twin, Shaped
    <2>2. Fits(s, t, current) /\ current = [f \in Columns[t] |-> current[f]] /\ current.version \in Nat
      BY <1>0, <2>1, RowFits DEF Fits
    <2>3. next \in Open /\ (place = current.domain \/ Has(s, "domains", place))
      BY DEF Given, Open
    <2>4. /\ closed = [f \in Columns[t] |-> closed[f]]
          /\ closed.scope = current.scope /\ closed.domain = current.domain /\ closed.version = current.version /\ closed.key = current.key
          /\ closed.custodian = current.custodian /\ closed.supersedes = current.supersedes
          /\ closed.supersededBy = current.supersededBy /\ closed.status = "superseded"
      <3> HIDE DEF current
      <3>1. QED BY <2>2 DEF Columns
    <2>5. /\ replacement = [f \in Columns[t] |-> replacement[f]]
          /\ replacement.scope = current.scope /\ replacement.version = current.version + 1
          /\ replacement.key = current.key /\ replacement.domain = place
          /\ replacement.custodian = custodian /\ replacement.supersedes = id
          /\ replacement.supersededBy = None /\ replacement.status = next
      <3>0. replacement = [current EXCEPT !.status = next, !.version = @ + 1, !.domain = place,
                                          !.custodian = custodian, !.supersedes = id, !.supersededBy = None]
        <4>1. current.domain = current["domain"]
          OBVIOUS
        <4>2. QED BY <4>1
      <3> HIDE DEF current, next, place, replacement
      <3>1. QED BY <2>2, <3>0 DEF Columns
    <2>6. /\ old = [f \in Columns[t] |-> old[f]]
          /\ old.scope = current.scope /\ old.domain = current.domain /\ old.version = current.version /\ old.key = current.key
          /\ old.custodian = current.custodian /\ old.supersedes = current.supersedes
          /\ old.supersededBy = new /\ old.status = "superseded"
      <3> HIDE DEF current, closed, new
      <3>1. QED BY <2>4 DEF Columns
    <2>7. \A i \in With(s, t, [key |-> current.key]) \ {id} :
              Row(s, t, i).status \notin Open /\ Row(s, t, i).version < current.version
      BY <1>5, <2>1 DEF Sound, Revised
    <2>8. Others(m) = {}
      <3>1. With(m, t, [key |-> current.key]) = With(s, t, [key |-> current.key])
        BY <1>0, TwinReads
      <3>2. \A i : Row(m, t, i) = Row(s, t, i)
        BY <1>0, TwinReads
      <3>3. QED BY <2>7, <3>1, <3>2
    <2>9. Mem!supersedeContract(m, id, p) = Answer(Insert(Insert(ofMemory, "events", e1), "events", e2), answer)
      <3> DEFINE replaced == [current EXCEPT !.status = "superseded", !.supersededBy = new]
                 isOpen == current.status \in Open /\ next \in Open /\ Others(m) # {}
      <3>1. replaced = old
        <4> HIDE DEF current, new
        <4>1. QED BY <2>2 DEF Columns
      <3>2. Mem!OpenRevisions(m, current.key) \ {id} = Others(m)
        BY MemoryData, Zenon DEF Mem!OpenRevisions
      <3> HIDE DEF Others, current, replaced
      <3>3. Mem!supersedeContract(m, id, p) =
                Answer(Insert(Insert(Insert(Change(m, t, id, replaced), t, replacement), "events", e1), "events", e2),
                       [old |-> replaced, replacement |-> replacement])
        BY <1>1, <1>2, <1>5, <2>1, <2>8, <3>2, MemoryData, Zenon DEF Mem!supersedeContract, Mem!emitEvent, replaced
      <3> HIDE DEF replacement, old, e1, e2
      <3>4. QED BY <3>1, <3>3
    <2> HIDE DEF current, closed, replacement, old, next, place
    <2>10. Fits(s, t, closed) /\ Fits(s, t, replacement)
      <3>1. Has(s, t, id)
        BY <1>5
      <3>2. Fits(s, t, closed)
        BY <2>2, <2>4, ContractFits
      <3>3. Fits(s, t, replacement)
        BY <2>2, <2>3, <2>5, <3>1, ContractFits
      <3>4. QED BY <3>2, <3>3
    <2>11. /\ Shaped(marked) /\ Extends(s, marked) /\ Whole(marked)
           /\ marked[t].rows = [s[t].rows EXCEPT ![id] = closed] /\ marked[t].next = new
           /\ \A u \in AllTables \ {t} : marked[u] = s[u]
      BY <1>0, <2>1, <2>10, Changed, ChangeKeeps DEF Twin, Sound
    <2>12. ~Sql!Refuses(marked, t, replacement)
      <3> HIDE DEF marked
      <3>1. ~Sql!Dangling(marked, t, replacement)
        BY <1>0, <2>10, <2>11, FitsExtends DEF Fits
      <3>2. /\ DOMAIN marked[t].rows = DOMAIN s[t].rows /\ Row(marked, t, id) = closed
            /\ \A i \in DOMAIN s[t].rows \ {id} : Row(marked, t, i) = Row(s, t, i)
        BY <2>1, <2>11 DEF Row
      <3>3. \A i \in With(marked, t, [key |-> replacement.key]) :
                Row(marked, t, i).status \notin Open /\ Row(marked, t, i).version # replacement.version
        <4> TAKE i \in With(marked, t, [key |-> replacement.key])
        <4>1. i \in DOMAIN s[t].rows /\ Row(marked, t, i).key = current.key
          BY <2>5, <3>2 DEF With
        <4>2. CASE i = id
          <5>1. "superseded" \notin Open
            BY DEF Open
          <5>2. QED BY <2>2, <2>4, <2>5, <3>2, <4>2, <5>1
        <4>3. CASE i # id
          <5>1. i \in With(s, t, [key |-> current.key])
            BY <3>2, <4>1, <4>3 DEF With
          <5>2. Row(s, t, i).version \in Nat
            BY <1>0, <4>1, RowFits DEF Fits
          <5>3. Row(s, t, i).status \notin Open /\ Row(s, t, i).version < current.version
            BY <2>7, <4>3, <5>1
          <5>4. QED BY <2>2, <2>5, <3>2, <4>1, <4>3, <5>2, <5>3
        <4>4. QED BY <4>2, <4>3
      <3>4. Sql!Conflicting(marked, t, replacement) = {}
        BY <3>3, VersionsClash
      <3>5. \A i \in With(marked, t, [key |-> replacement.key]) : ~({Row(marked, t, i).status, replacement.status} \subseteq Open)
        BY <3>3
      <3>6. QED BY <3>1, <3>4, <3>5, SqliteData, Zenon DEF Sql!Refuses, Sql!OpenKeyTaken
    <2>13. Sql!supersedeContract(s, id, p) = Answer(both, answer)
      BY <1>2, <1>5, <2>12, SqliteData, Zenon DEF Sql!supersedeContract, current, closed, replacement, old, next
    <2>14. Fits(marked, t, replacement) /\ Fits(marked, t, current)
      BY <1>0, <2>2, <2>10, <2>11, FitsExtends
    <2>15. /\ Shaped(inserted) /\ Extends(marked, inserted) /\ Whole(inserted)
           /\ inserted[t].rows = Put(marked[t].rows, new, replacement) /\ inserted[t].next = new + 1
           /\ \A u \in AllTables \ {t} : inserted[u] = marked[u]
      <3> HIDE DEF marked
      <3>1. QED BY <1>0, <2>11, <2>14, Inserted, InsertKeeps
    <2> HIDE DEF inserted
    <2>16. DOMAIN inserted[t].rows = DOMAIN s[t].rows \cup {new}
      <3> HIDE DEF marked
      <3>1. QED BY <2>11, <2>15 DEF Put
    <2>17. Fits(inserted, t, old)
      <3> HIDE DEF marked
      <3>1. Fits(inserted, t, current)
        BY <1>0, <2>14, <2>15, FitsExtends
      <3>2. Has(inserted, t, new)
        BY <2>16 DEF Has
      <3>3. QED BY <2>2, <2>6, <3>1, <3>2, ContractFits
    <2>18. /\ Shaped(stored) /\ Extends(inserted, stored) /\ Whole(stored)
           /\ stored[t].rows = [inserted[t].rows EXCEPT ![id] = old] /\ stored[t].next = new + 1
           /\ \A u \in AllTables \ {t} : stored[u] = inserted[u]
      <3> HIDE DEF marked
      <3>1. id \in DOMAIN inserted[t].rows
        BY <2>1, <2>16
      <3>2. t \in Tables /\ t # "interpretations"
        BY DEF Tables
      <3> HIDE DEF t, old
      <3>3. /\ Shaped(Change(inserted, t, id, old))
            /\ Change(inserted, t, id, old)[t].rows = [inserted[t].rows EXCEPT ![id] = old]
            /\ Change(inserted, t, id, old)[t].next = inserted[t].next
            /\ \A u \in AllTables \ {t} : Change(inserted, t, id, old)[u] = inserted[u]
        BY <2>15, <3>1, <3>2, Changed
      <3>4. Extends(inserted, Change(inserted, t, id, old)) /\ Whole(Change(inserted, t, id, old))
        BY <2>15, <2>17, <3>1, <3>2, ChangeKeeps
      <3>5. QED BY <2>15, <3>3, <3>4
    <2> HIDE DEF stored, marked
    <2>19. Extends(s, stored) /\ \A u \in AllTables \ {t} : stored[u] = s[u]
      BY <2>11, <2>15, <2>18, ExtendsTransitive
    <2>20. stored[t].rows = [x \in DOMAIN s[t].rows \cup {new} |->
                                IF x = new THEN replacement ELSE IF x = id THEN old ELSE s[t].rows[x]]
      <3> DEFINE rows == stored[t].rows
      <3>1. DOMAIN rows = DOMAIN s[t].rows \cup {new} /\ rows = [x \in DOMAIN rows |-> rows[x]]
        BY <1>0, <2>16, <2>18 DEF Shaped
      <3>2. \A x \in DOMAIN s[t].rows \cup {new} : rows[x] = IF x = id THEN old ELSE inserted[t].rows[x]
        BY <2>16, <2>18
      <3>3. \A x \in DOMAIN s[t].rows \cup {new} :
                inserted[t].rows[x] = IF x = new THEN replacement ELSE marked[t].rows[x]
        BY <2>11, <2>15 DEF Put
      <3>4. \A x \in DOMAIN s[t].rows \ {id} : marked[t].rows[x] = s[t].rows[x]
        BY <2>11
      <3> HIDE DEF rows
      <3>5. \A x \in DOMAIN rows : rows[x] = IF x = new THEN replacement ELSE IF x = id THEN old ELSE s[t].rows[x]
        BY <2>1, <3>1, <3>2, <3>3, <3>4
      <3>6. rows = [x \in DOMAIN s[t].rows \cup {new} |->
                       IF x = new THEN replacement ELSE IF x = id THEN old ELSE s[t].rows[x]]
        BY <3>1, <3>5
      <3>7. QED BY <3>6 DEF rows
    <2>21. /\ DOMAIN stored[t].rows = DOMAIN s[t].rows \cup {new}
           /\ Row(stored, t, new) = replacement /\ Row(stored, t, id) = old
           /\ \A x \in DOMAIN s[t].rows \ {id} : Row(stored, t, x) = Row(s, t, x)
      BY <2>1, <2>20 DEF Row
    <2>22. Revised(stored)
      <3>1. \A x \in DOMAIN s[t].rows : Row(s, t, x).version \in Nat
        BY <1>0, RowFits DEF Fits
      <3>2. /\ Row(s, t, id).status \in Open /\ Row(s, t, id).version \in Nat
            /\ old.key = Row(s, t, id).key /\ old.version = Row(s, t, id).version
            /\ replacement.key = Row(s, t, id).key /\ replacement.version = Row(s, t, id).version + 1
        BY <1>5, <2>2, <2>5, <2>6 DEF current
      <3>3. old.status \notin Open /\ replacement.status \in Open
        BY <2>3, <2>5, <2>6 DEF Open
      <3>4. QED BY <2>1, <2>21, <3>1, <3>2, <3>3, RevisedOnce DEF Sound
    <2>23. Sound(stored)
      BY <1>0, <2>18, <2>19, <2>22, SoundContracts
    <2>24. Twin(ofMemory, stored)
      <3> DEFINE cm == Change(m, t, id, old)
      <3>1. Shaped(m) /\ m[t].rows = s[t].rows /\ Shaped(s)
        BY <1>0 DEF Twin
      <3>2. /\ Shaped(cm) /\ cm[t].rows = [s[t].rows EXCEPT ![id] = old] /\ cm[t].next = new
            /\ \A u \in AllTables \ {t} : cm[u] = m[u]
        BY <1>0, <2>1, <3>1, Changed
      <3> HIDE DEF cm
      <3> DEFINE im == Insert(cm, t, replacement)
      <3>3. /\ Shaped(im) /\ im[t].rows = Put(cm[t].rows, new, replacement) /\ im[t].next = new + 1
            /\ \A u \in AllTables \ {t} : im[u] = cm[u]
        BY <1>0, <3>2, Inserted
      <3> HIDE DEF im
      <3>4. im[t].rows = stored[t].rows
        BY <2>1, <2>20, <3>2, <3>3 DEF Put
      <3>5. \A u \in AllTables \ {t} : im[u] = m[u] /\ stored[u] = s[u]
        BY <2>19, <3>2, <3>3
      <3>6. Twin(im, stored)
        BY <1>0, <2>18, <3>3, <3>4, <3>5 DEF Twin, AllTables
      <3>7. QED BY <3>6 DEF im, cm
    <2>25. Has(stored, "actors", custodian)
      BY <1>0, <2>19 DEF Extends, Has
    <2>26. Twin(Insert(Insert(ofMemory, "events", e1), "events", e2), both) /\ Sound(both)
      <3> HIDE DEF ofMemory
      <3>1. QED BY <2>23, <2>24, <2>25, EmitTwice
    <2> HIDE DEF both, answer, e1, e2, ofMemory
    <2>27. QED BY <2>9, <2>13, <2>26 DEF Same, Agree, Answer, p
  <1>6. QED BY <1>3, <1>4, <1>5 DEF p

-----------------------------------------------------------------------------
(* What is read                                                            *)

\* Memory looks for the actions of an interpretation, SQLite for those of its intent besides.
LEMMA GetInterpretationSame ==
    ASSUME NEW m, NEW s, Twin(m, s), Sound(s), NEW id
    PROVE  Mem!getInterpretation(m, id) = Sql!getInterpretation(s, id)
  <1> DEFINE row == Find(s, "interpretations", id)
  <1>0. {"interpretations", "intents", "actions"} \subseteq Tables \cap AllTables
    BY DEF Tables, AllTables
  <1>1. Find(m, "interpretations", id) = row
    BY <1>0, TwinReads
  <1>2. CASE row = None
    <2> HIDE DEF row
    <2>1. Mem!getInterpretation(m, id) = None
      BY <1>1, <1>2, MemoryData, Zenon DEF Mem!getInterpretation
    <2>2. Sql!getInterpretation(s, id) = None
      BY <1>2, SqliteData, Zenon DEF Sql!getInterpretation, row
    <2>3. QED BY <2>1, <2>2
  <1>3. CASE row # None
    <2>1. id \in DOMAIN s["interpretations"].rows /\ row = Row(s, "interpretations", id)
      BY <1>3 DEF Find, Has
    <2>2. Fits(s, "interpretations", row)
      BY <1>0, <2>1, RowFits
    <2>3. Has(s, "intents", row.intent)
      BY <2>2, InterpretationDangles DEF Fits
    <2>4. id # None
      <3>1. id \in Nat
        BY <1>0, <2>1 DEF Twin, Shaped
      <3>2. QED BY <3>1, RepositoryParityAssumption
    <2>5. \A a \in DOMAIN s["actions"].rows :
              Row(s, "actions", a).interpretation = id => Row(s, "actions", a).intent = row.intent
      <3> TAKE a \in DOMAIN s["actions"].rows
      <3>1. OfItsIntent(s, Row(s, "actions", a))
        BY <1>0, RowFits DEF Fits
      <3>2. QED BY <2>1, <2>4, <3>1 DEF OfItsIntent
    <2>6. /\ Has(m, "intents", row.intent) = Has(s, "intents", row.intent)
          /\ Row(m, "intents", row.intent) = Row(s, "intents", row.intent)
          /\ With(m, "actions", [interpretation |-> id]) = With(s, "actions", [interpretation |-> id])
      BY <1>0, TwinReads
    <2> HIDE DEF row
    <2>7. With(s, "actions", [interpretation |-> id]) =
              With(s, "actions", [intent |-> row.intent, interpretation |-> id])
      BY <2>5 DEF With
    <2>8. Mem!getInterpretation(m, id) =
              [row |-> row, intent |-> Row(s, "intents", row.intent),
               actions |-> With(s, "actions", [interpretation |-> id])]
      BY <1>1, <1>3, <2>3, <2>6, MemoryData, Zenon DEF Mem!getInterpretation
    <2>9. Sql!getInterpretation(s, id) =
              [row |-> row, intent |-> Row(s, "intents", row.intent),
               actions |-> With(s, "actions", [intent |-> row.intent, interpretation |-> id])]
      BY <1>3, SqliteData, Zenon DEF Sql!getInterpretation, row
    <2>10. QED BY <2>7, <2>8, <2>9
  <1>4. QED BY <1>2, <1>3

LEMMA GetIntentSame ==
    ASSUME NEW m, NEW s, Twin(m, s), NEW id
    PROVE  Mem!getIntent(m, id) = Sql!getIntent(s, id)
  <1>1. {"interpretations", "intents", "signals", "claims"} \subseteq AllTables
    BY DEF Tables, AllTables
  <1> DEFINE claims == [table |-> "intents", entity |-> id, status |-> "active"]
             ofIntent == [intent |-> id]
             got == IF ~Has(s, "intents", id) THEN None
                    ELSE [intent |-> Row(s, "intents", id),
                          interpretations |-> Cardinality(With(s, "interpretations", ofIntent)),
                          signals |-> With(s, "signals", ofIntent),
                          claims |-> With(s, "claims", claims)]
  <1>2. /\ Has(m, "intents", id) = Has(s, "intents", id)
        /\ Row(m, "intents", id) = Row(s, "intents", id)
        /\ With(m, "interpretations", ofIntent) = With(s, "interpretations", ofIntent)
        /\ With(m, "signals", ofIntent) = With(s, "signals", ofIntent)
        /\ With(m, "claims", claims) = With(s, "claims", claims)
    BY <1>1, TwinReads
  <1>3. Mem!getIntent(m, id) = got
    <2>1. \A S : Mem!Cardinality(S) = Cardinality(S)
      BY Zenon DEF Mem!Cardinality, Cardinality
    <2>2. QED BY <1>2, <2>1, MemoryData, Zenon DEF Mem!getIntent
  <1>4. Sql!getIntent(s, id) = got
    <2>1. \A S : Sql!Cardinality(S) = Cardinality(S)
      BY Zenon DEF Sql!Cardinality, Cardinality
    <2>2. QED BY <2>1, SqliteData, Zenon DEF Sql!getIntent
  <1>5. QED BY <1>3, <1>4

LEMMA RowsSame ==
    ASSUME NEW m, NEW s, Twin(m, s)
    PROVE  /\ \A id : Mem!getAction(m, id) = Sql!getAction(s, id)
           /\ \A id : Mem!getReport(m, id) = Sql!getReport(s, id)
  <1>1. {"actions", "reports"} \subseteq AllTables
    BY DEF Tables, AllTables
  <1>2. \A t \in {"actions", "reports"} : \A id : Find(m, t, id) = Find(s, t, id)
    BY <1>1, TwinReads
  <1>3. QED BY <1>2, MemoryData, SqliteData DEF Mem!getAction, Sql!getAction, Mem!getReport, Sql!getReport

\* The filters are the same.
LEMMA ListsSame ==
    ASSUME NEW m, NEW s, Twin(m, s), NEW f
    PROVE  /\ Mem!listIntents(m, f) = Sql!listIntents(s, f)
           /\ Mem!listInterpretations(m, f) = Sql!listInterpretations(s, f)
           /\ Mem!listActions(m, f) = Sql!listActions(s, f)
           /\ Mem!listClaims(m, f) = Sql!listClaims(s, f)
           /\ Mem!listEvents(m, f) = Sql!listEvents(s, f)
           /\ Mem!listContracts(m, f) = Sql!listContracts(s, f)
           /\ Mem!listActorSessions(m, f) = Sql!listActorSessions(s, f)
           /\ Mem!listReports(m, f) = Sql!listReports(s, f)
           /\ Mem!listActors(m, f) = Sql!listActors(s, f)
           /\ Mem!listRoles(m, f) = Sql!listRoles(s, f)
           /\ Mem!listActorRoleBindings(m, f) = Sql!listActorRoleBindings(s, f)
           /\ Mem!listExpertiseSignals(m, f) = Sql!listExpertiseSignals(s, f)
           /\ Mem!listDomains(m) = Sql!listDomains(s)
           /\ Mem!listScopes(m) = Sql!listScopes(s)
  <1>1. \A t \in AllTables : \A g : Mem!Filtered(m, t, g) = Sql!Filtered(s, t, g)
    BY TwinReads, MemoryData, SqliteData
  <1>2. Tables \subseteq AllTables
    BY DEF AllTables
  <1>3. m["scopes"].rows = s["scopes"].rows
    BY DEF Twin, AllTables
  <1>4. QED
    BY <1>1, <1>2, <1>3
    DEF Tables, Mem!listIntents, Sql!listIntents, Mem!listInterpretations, Sql!listInterpretations,
        Mem!listActions, Sql!listActions, Mem!listClaims, Sql!listClaims, Mem!listEvents, Sql!listEvents,
        Mem!listContracts, Sql!listContracts, Mem!listActorSessions, Sql!listActorSessions,
        Mem!listReports, Sql!listReports, Mem!listActors, Sql!listActors, Mem!listRoles, Sql!listRoles,
        Mem!listActorRoleBindings, Sql!listActorRoleBindings, Mem!listExpertiseSignals, Sql!listExpertiseSignals,
        Mem!listDomains, Sql!listDomains, Mem!listScopes, Sql!listScopes

LEMMA NamesSame ==
    ASSUME NEW m, NEW s, Twin(m, s)
    PROVE  /\ \A name : Mem!getActorByName(m, name) = Sql!getActorByName(s, name)
           /\ \A name : Mem!getRoleByName(m, name) = Sql!getRoleByName(s, name)
  <1>1. {"actors", "roles"} \subseteq AllTables
    BY DEF Tables, AllTables
  <1>2. \A t \in {"actors", "roles"} : \A id : Row(m, t, id) = Row(s, t, id)
    BY <1>1, TwinReads
  <1>3. \A t \in {"actors", "roles"} : \A columns : With(m, t, columns) = With(s, t, columns)
    BY <1>1, TwinReads
  <1>4. ASSUME NEW name
        PROVE  Mem!getActorByName(m, name) = Sql!getActorByName(s, name)
    <2> DEFINE named == With(s, "actors", [name |-> name])
    <2>1. Mem!With(m, "actors", [name |-> name]) = named /\ Sql!With(s, "actors", [name |-> name]) = named
      BY <1>3, MemoryData, SqliteData
    <2>2. /\ Mem!getActorByName(m, name) = IF named = {} THEN None ELSE Row(m, "actors", Least(named))
          /\ Sql!getActorByName(s, name) = IF named = {} THEN None ELSE Row(s, "actors", Least(named))
      <3> HIDE DEF named
      <3>1. QED BY <2>1, MemoryData, SqliteData, Zenon DEF Mem!getActorByName, Sql!getActorByName
    <2> HIDE DEF named
    <2>3. QED BY <1>2, <2>2
  <1>5. ASSUME NEW name
        PROVE  Mem!getRoleByName(m, name) = Sql!getRoleByName(s, name)
    <2> DEFINE named == With(s, "roles", [name |-> name])
    <2>1. Mem!With(m, "roles", [name |-> name]) = named /\ Sql!With(s, "roles", [name |-> name]) = named
      BY <1>3, MemoryData, SqliteData
    <2>2. /\ Mem!getRoleByName(m, name) = IF named = {} THEN None ELSE Row(m, "roles", Least(named))
          /\ Sql!getRoleByName(s, name) = IF named = {} THEN None ELSE Row(s, "roles", Least(named))
      <3> HIDE DEF named
      <3>1. QED BY <2>1, MemoryData, SqliteData, Zenon DEF Mem!getRoleByName, Sql!getRoleByName
    <2> HIDE DEF named
    <2>3. QED BY <1>2, <2>2
  <1>6. QED BY <1>4, <1>5

\* The row of a contract by its key is chosen by the rows alone.
Latest(s, found) ==
    IF found = {} THEN None
    ELSE CHOOSE c \in {Row(s, "contracts", id) : id \in found} :
             \A id \in found : Row(s, "contracts", id).version <= c.version

LEMMA ContractSame ==
    ASSUME NEW m, NEW s, Twin(m, s), NEW key, NEW status
    PROVE  Mem!getContractByKey(m, key, status) = Sql!getContractByKey(s, key, status)
  <1> DEFINE found == With(s, "contracts", [key |-> key, status |-> Given(status, "active")])
  <1>0. "contracts" \in AllTables
    BY DEF AllTables, Tables
  <1>1. With(m, "contracts", [key |-> key, status |-> Given(status, "active")]) = found
    BY <1>0, TwinReads
  <1>2. m["contracts"].rows = s["contracts"].rows
    BY <1>0 DEF Twin
  <1> HIDE DEF found
  <1>3. Mem!getContractByKey(m, key, status) = Latest(m, found)
    <2>1. Mem!getContractByKey(m, key, status) =
              Latest(m, With(m, "contracts", [key |-> key, status |-> Given(status, "active")]))
      BY Zenon DEF Mem!getContractByKey, Latest, Mem!Row, Row, Mem!With, With, Mem!Given, Given
    <2>2. QED BY <1>1, <2>1, Zenon
  <1>4. Sql!getContractByKey(s, key, status) = Latest(s, found)
    BY Zenon DEF Sql!getContractByKey, Latest, found, Sql!Row, Row, Sql!With, With, Sql!Given, Given
  <1>5. Latest(m, found) = Latest(s, found)
    BY <1>2 DEF Latest, Row
  <1>6. QED BY <1>3, <1>4, <1>5

\* Every page of every list, and every row looked up.
LEMMA ReadsSame ==
    ASSUME Twin(memory, sqlite), Sound(sqlite), NEW page
    PROVE  MemoryReads(page) = SqliteReads(page)
  <1>1. [id \in Ids |-> Mem!getIntent(memory, id)] = [id \in Ids |-> Sql!getIntent(sqlite, id)]
    BY GetIntentSame
  <1>2. [id \in Ids |-> Mem!getInterpretation(memory, id)] = [id \in Ids |-> Sql!getInterpretation(sqlite, id)]
    BY GetInterpretationSame
  <1>3. /\ [id \in Ids |-> Mem!getAction(memory, id)] = [id \in Ids |-> Sql!getAction(sqlite, id)]
        /\ [id \in Ids |-> Mem!getReport(memory, id)] = [id \in Ids |-> Sql!getReport(sqlite, id)]
    BY RowsSame
  <1>4. /\ [f \in IntentFilters |-> Mem!listIntents(memory, f)] = [f \in IntentFilters |-> Sql!listIntents(sqlite, f)]
        /\ [f \in Parents |-> Mem!listIntents(memory, f)] = [f \in Parents |-> Sql!listIntents(sqlite, f)]
        /\ [f \in InterpretationFilters |-> Mem!listInterpretations(memory, f)] =
              [f \in InterpretationFilters |-> Sql!listInterpretations(sqlite, f)]
        /\ [f \in ActionFilters |-> Mem!listActions(memory, f)] = [f \in ActionFilters |-> Sql!listActions(sqlite, f)]
        /\ [f \in ClaimFilters |-> Mem!listClaims(memory, f)] = [f \in ClaimFilters |-> Sql!listClaims(sqlite, f)]
        /\ [f \in EventFilters |-> Mem!listEvents(memory, f)] = [f \in EventFilters |-> Sql!listEvents(sqlite, f)]
    BY ListsSame
  <1>5. /\ Mem!listEvents(memory, [table |-> "interpretations"]) = Sql!listEvents(sqlite, [table |-> "interpretations"])
        /\ [f \in ContractFilters |-> Mem!listContracts(memory, f)] =
              [f \in ContractFilters |-> Sql!listContracts(sqlite, f)]
        /\ [f \in SessionFilters |-> Mem!listActorSessions(memory, f)] =
              [f \in SessionFilters |-> Sql!listActorSessions(sqlite, f)]
        /\ [f \in ReportFilters |-> Mem!listReports(memory, f)] = [f \in ReportFilters |-> Sql!listReports(sqlite, f)]
    BY ListsSame
  <1>6. /\ [f \in StatusFilters |-> Mem!listActors(memory, f)] = [f \in StatusFilters |-> Sql!listActors(sqlite, f)]
        /\ [f \in StatusFilters |-> Mem!listRoles(memory, f)] = [f \in StatusFilters |-> Sql!listRoles(sqlite, f)]
        /\ [f \in StatusFilters |-> Mem!listActorRoleBindings(memory, f)] =
              [f \in StatusFilters |-> Sql!listActorRoleBindings(sqlite, f)]
        /\ Mem!listExpertiseSignals(memory, 1) = Sql!listExpertiseSignals(sqlite, 1)
        /\ Mem!listDomains(memory) = Sql!listDomains(sqlite)
        /\ Mem!listScopes(memory) = Sql!listScopes(sqlite)
    BY ListsSame
  <1>7. /\ [name \in ActorNames |-> Mem!getActorByName(memory, name)] =
              [name \in ActorNames |-> Sql!getActorByName(sqlite, name)]
        /\ [name \in RoleNames |-> Mem!getRoleByName(memory, name)] =
              [name \in RoleNames |-> Sql!getRoleByName(sqlite, name)]
    BY NamesSame
  <1>8. [f \in ContractsSought |-> Mem!getContractByKey(memory, f[1], f[2])] =
            [f \in ContractsSought |-> Sql!getContractByKey(sqlite, f[1], f[2])]
    BY ContractSame
  <1>9. QED
    BY <1>1, <1>2, <1>3, <1>4, <1>5, <1>6, <1>7, <1>8, Zenon DEF MemoryReads, SqliteReads

-----------------------------------------------------------------------------
(* The beginning                                                           *)

LEMMA OneRow ==
    ASSUME NEW row
    PROVE  /\ Table(<<row>>) = [rows |-> <<row>>, next |-> 2]
           /\ DOMAIN <<row>> = {1} /\ <<row>>[1] = row
           /\ <<row>> = [id \in {1} |-> row]
  BY DEF Table

\* The tables of the beginning, one by one.
LEMMA BeginningTables ==
    /\ DOMAIN Beginning = AllTables
    /\ Beginning["scopes"] = [rows |-> Put(<<>>, "default", TRUE), next |-> 1]
    /\ Beginning["domains"] = Table(<<[scope |-> "default", name |-> "first"]>>)
    /\ Beginning["actors"] = Table(<<[name |-> "ann", scope |-> "default", status |-> "active", key |-> None]>>)
    /\ Beginning["roles"] = Table(<<[name |-> "writer", status |-> "active", policy |-> None]>>)
    /\ Beginning["actions"] = [rows |-> <<>>, next |-> 1]
    /\ Beginning["signals"] = [rows |-> <<>>, next |-> 1]
    /\ Beginning["reports"] = [rows |-> <<>>, next |-> 1]
    /\ Beginning["contracts"] =
          Table(<<[key |-> "root", scope |-> "default", domain |-> None, status |-> "active", version |-> 1,
                   custodian |-> 1, parent |-> None, supersedes |-> None, supersededBy |-> None]>>)
    /\ Beginning["bindings"] =
          Table(<<[actor |-> 1, role |-> 1, surface |-> "mcp", credential |-> "first",
                   provider |-> "provider", status |-> "active"]>>)
    /\ Beginning["sessions"] =
          Table(<<[actor |-> 1, ref |-> "first", surface |-> "cli", provider |-> "provider", transcript |-> None,
                   status |-> "active"]>>)
    /\ Beginning["interpretations"] =
          Table(<<[intent |-> 1, domain |-> 1, actor |-> 1, resolver |-> None, source |-> None, status |-> "clarifying",
                   alignment |-> "uncertain", supersededBy |-> None]>>)
    /\ Beginning["claims"] = Table(<<[table |-> "intents", entity |-> 1, actor |-> 1, status |-> "active"]>>)
    /\ Beginning["intents"] =
          Table([id \in {1, 2} |-> [scope |-> "default", parent |-> IF id = 1 THEN None ELSE 1,
                                    addressed |-> None, status |-> "draft", version |-> 1]])
    /\ Beginning["events"] =
          Table(<<Event("contract_registered", "contracts", 1, 1, "default"),
                  Event("intent_created", "intents", 1, 1, "default"),
                  Event("intent_created", "intents", 2, 1, "default"),
                  Event("interpretation_filed", "interpretations", 1, 1, "default"),
                  Event("claim_acquired", "intents", 1, 1, "default")>>)
  <1>1. DOMAIN Beginning = AllTables
    BY DEF Beginning, EmptyStore, AllTables
  <1>2. /\ Beginning["scopes"] = [rows |-> Put(<<>>, "default", TRUE), next |-> 1]
        /\ Beginning["domains"] = Table(<<[scope |-> "default", name |-> "first"]>>)
    BY DEF Beginning, EmptyStore, Tables
  <1>3. Beginning["actors"] = Table(<<[name |-> "ann", scope |-> "default", status |-> "active", key |-> None]>>)
    BY DEF Beginning, EmptyStore, Tables
  <1>4. Beginning["roles"] = Table(<<[name |-> "writer", status |-> "active", policy |-> None]>>)
    BY DEF Beginning, EmptyStore, Tables
  <1>5. /\ Beginning["actions"] = [rows |-> <<>>, next |-> 1]
        /\ Beginning["signals"] = [rows |-> <<>>, next |-> 1]
        /\ Beginning["reports"] = [rows |-> <<>>, next |-> 1]
    BY DEF Beginning, EmptyStore, Tables
  <1>6. Beginning["contracts"] =
          Table(<<[key |-> "root", scope |-> "default", domain |-> None, status |-> "active", version |-> 1,
                   custodian |-> 1, parent |-> None, supersedes |-> None, supersededBy |-> None]>>)
    BY DEF Beginning, EmptyStore, Tables
  <1>7. Beginning["bindings"] =
          Table(<<[actor |-> 1, role |-> 1, surface |-> "mcp", credential |-> "first",
                   provider |-> "provider", status |-> "active"]>>)
    BY DEF Beginning, EmptyStore, Tables
  <1>8. Beginning["sessions"] =
          Table(<<[actor |-> 1, ref |-> "first", surface |-> "cli", provider |-> "provider", transcript |-> None,
                   status |-> "active"]>>)
    BY DEF Beginning, EmptyStore, Tables
  <1>9. Beginning["interpretations"] =
          Table(<<[intent |-> 1, domain |-> 1, actor |-> 1, resolver |-> None, source |-> None, status |-> "clarifying",
                   alignment |-> "uncertain", supersededBy |-> None]>>)
    BY DEF Beginning, EmptyStore, Tables
  <1>10. Beginning["claims"] = Table(<<[table |-> "intents", entity |-> 1, actor |-> 1, status |-> "active"]>>)
    BY DEF Beginning, EmptyStore, Tables
  <1>11. Beginning["intents"] =
          Table([id \in {1, 2} |-> [scope |-> "default", parent |-> IF id = 1 THEN None ELSE 1,
                                    addressed |-> None, status |-> "draft", version |-> 1]])
    BY DEF Beginning, EmptyStore, Tables
  <1>12. Beginning["events"] =
          Table(<<Event("contract_registered", "contracts", 1, 1, "default"),
                  Event("intent_created", "intents", 1, 1, "default"),
                  Event("intent_created", "intents", 2, 1, "default"),
                  Event("interpretation_filed", "interpretations", 1, 1, "default"),
                  Event("claim_acquired", "intents", 1, 1, "default")>>)
    BY DEF Beginning, EmptyStore, Tables
  <1>13. QED
    BY <1>1, <1>2, <1>3, <1>4, <1>5, <1>6, <1>7, <1>8, <1>9, <1>10, <1>11, <1>12, Zenon

\* The rows a table starts with have the first ids.
Starts(s, t, n) ==
    /\ s[t] = [rows |-> s[t].rows, next |-> n + 1]
    /\ s[t].rows = [x \in DOMAIN s[t].rows |-> s[t].rows[x]]
    /\ DOMAIN s[t].rows = 1..n

LEMMA OneRowStarts ==
    ASSUME NEW s, NEW t, NEW row, s[t] = Table(<<row>>)
    PROVE  Starts(s, t, 1) /\ Row(s, t, 1) = row
  BY DEF Table, Starts, Row

LEMMA TwoRowsStart ==
    ASSUME NEW s, NEW t, NEW rows, rows = [id \in {1, 2} |-> rows[id]], s[t] = Table(rows)
    PROVE  Starts(s, t, 2) /\ Row(s, t, 1) = rows[1] /\ Row(s, t, 2) = rows[2]
  <1>1. rows = <<rows[1], rows[2]>>
    OBVIOUS
  <1>2. Len(rows) = 2 /\ DOMAIN rows = 1..2
    <2>1. Len(<<rows[1], rows[2]>>) = 2
      OBVIOUS
    <2>2. QED BY <1>1, <2>1
  <1>3. s[t] = [rows |-> rows, next |-> 3]
    <2>1. 2 + 1 = 3
      OBVIOUS
    <2>2. QED BY <1>2, <2>1, Zenon DEF Table
  <1>4. QED BY <1>2, <1>3 DEF Starts, Row

LEMMA FiveRowsStart ==
    ASSUME NEW s, NEW t, NEW a, NEW b, NEW c, NEW d, NEW e, s[t] = Table(<<a, b, c, d, e>>)
    PROVE  /\ Starts(s, t, 5)
           /\ \A id \in DOMAIN s[t].rows : Row(s, t, id) \in {a, b, c, d, e}
  BY DEF Table, Starts, Row

LEMMA BeginningStarts ==
    /\ \A t \in {"domains", "actors", "roles", "contracts", "bindings", "sessions", "interpretations", "claims"} :
          Starts(Beginning, t, 1)
    /\ Starts(Beginning, "intents", 2)
    /\ Starts(Beginning, "events", 5)
    /\ \A t \in {"actions", "signals", "reports"} : Starts(Beginning, t, 0)
    /\ DOMAIN Beginning["scopes"].rows = {"default"}
  <1>1. /\ Starts(Beginning, "domains", 1) /\ Starts(Beginning, "actors", 1) /\ Starts(Beginning, "roles", 1)
        /\ Starts(Beginning, "contracts", 1) /\ Starts(Beginning, "bindings", 1) /\ Starts(Beginning, "sessions", 1)
        /\ Starts(Beginning, "interpretations", 1) /\ Starts(Beginning, "claims", 1)
    BY BeginningTables, OneRowStarts, Zenon
  <1>2. Starts(Beginning, "intents", 2)
    <2> DEFINE rows == [id \in {1, 2} |-> [scope |-> "default", parent |-> IF id = 1 THEN None ELSE 1,
                                           addressed |-> None, status |-> "draft", version |-> 1]]
    <2>1. Beginning["intents"] = Table(rows)
      BY BeginningTables, Zenon
    <2>2. rows = [id \in {1, 2} |-> rows[id]]
      OBVIOUS
    <2> HIDE DEF rows
    <2>3. QED BY <2>1, <2>2, TwoRowsStart
  <1>3. Starts(Beginning, "events", 5)
    BY BeginningTables, FiveRowsStart, Zenon
  <1>4. \A t \in {"actions", "signals", "reports"} : Starts(Beginning, t, 0)
    BY BeginningTables DEF Starts
  <1>5. DOMAIN Beginning["scopes"].rows = {"default"}
    BY BeginningTables DEF Put
  <1>6. QED BY <1>1, <1>2, <1>3, <1>4, <1>5

LEMMA BeginningShaped == Shaped(Beginning)
  <1>1. \A t \in Tables : \E n \in Nat : Starts(Beginning, t, n)
    <2>1. \A t \in {"domains", "actors", "roles", "contracts", "bindings", "sessions", "interpretations", "claims"} :
              \E n \in Nat : Starts(Beginning, t, n)
      <3>1. 1 \in Nat
        OBVIOUS
      <3>2. QED BY <3>1, BeginningStarts, Zenon
    <2>2. \E n \in Nat : Starts(Beginning, "intents", n)
      <3>1. 2 \in Nat
        OBVIOUS
      <3>2. QED BY <3>1, BeginningStarts, Zenon
    <2>3. \E n \in Nat : Starts(Beginning, "events", n)
      <3>1. 5 \in Nat
        OBVIOUS
      <3>2. QED BY <3>1, BeginningStarts, Zenon
    <2>4. \A t \in {"actions", "signals", "reports"} : \E n \in Nat : Starts(Beginning, t, n)
      <3>1. 0 \in Nat
        OBVIOUS
      <3>2. QED BY <3>1, BeginningStarts, Zenon
    <2>5. QED BY <2>1, <2>2, <2>3, <2>4 DEF Tables
  <1>2. \A t \in Tables : /\ Beginning[t] = [rows |-> Beginning[t].rows, next |-> Beginning[t].next]
                          /\ Beginning[t].rows = [x \in DOMAIN Beginning[t].rows |-> Beginning[t].rows[x]]
                          /\ Beginning[t].next \in Nat
                          /\ \A id \in DOMAIN Beginning[t].rows : id \in Nat /\ id < Beginning[t].next
    <2> TAKE t \in Tables
    <2>1. PICK n \in Nat : Starts(Beginning, t, n)
      BY <1>1
    <2>2. Beginning[t].next = n + 1
      BY <2>1 DEF Starts
    <2>3. QED BY <2>1, <2>2 DEF Starts
  <1>3. /\ Beginning["scopes"] = [rows |-> Beginning["scopes"].rows, next |-> Beginning["scopes"].next]
        /\ Beginning["scopes"].rows = [x \in DOMAIN Beginning["scopes"].rows |-> Beginning["scopes"].rows[x]]
    BY BeginningTables DEF Put
  <1>4. DOMAIN Beginning = AllTables
    BY BeginningTables
  <1>5. QED BY <1>2, <1>3, <1>4 DEF Shaped, AllTables

LEMMA BeginningSound == Sound(Beginning)
  <1> DEFINE b == Beginning
             ann == [name |-> "ann", scope |-> "default", status |-> "active", key |-> None]
             root == [key |-> "root", scope |-> "default", domain |-> None, status |-> "active", version |-> 1,
                      custodian |-> 1, parent |-> None, supersedes |-> None, supersededBy |-> None]
             talk == [actor |-> 1, ref |-> "first", surface |-> "cli", provider |-> "provider", transcript |-> None,
                      status |-> "active"]
             filed == [intent |-> 1, domain |-> 1, actor |-> 1, resolver |-> None, source |-> None,
                       status |-> "clarifying", alignment |-> "uncertain", supersededBy |-> None]
  <1>1. /\ \A t \in {"domains", "actors", "roles", "contracts", "bindings", "sessions", "interpretations", "claims"} :
              DOMAIN b[t].rows = {1}
        /\ DOMAIN b["intents"].rows = {1, 2}
        /\ \A t \in {"actions", "signals", "reports"} : DOMAIN b[t].rows = {}
        /\ DOMAIN b["scopes"].rows = {"default"}
    BY BeginningStarts DEF Starts
  <1>2. /\ Row(b, "domains", 1) = [scope |-> "default", name |-> "first"]
        /\ Row(b, "actors", 1) = ann
        /\ Row(b, "roles", 1) = [name |-> "writer", status |-> "active", policy |-> None]
        /\ Row(b, "contracts", 1) = root
    <2>1. Row(b, "domains", 1) = [scope |-> "default", name |-> "first"]
      BY BeginningTables, OneRowStarts, Zenon
    <2>2. Row(b, "actors", 1) = ann
      BY BeginningTables, OneRowStarts, Zenon
    <2>3. Row(b, "roles", 1) = [name |-> "writer", status |-> "active", policy |-> None]
      BY BeginningTables, OneRowStarts, Zenon
    <2>4. Row(b, "contracts", 1) = root
      BY BeginningTables, OneRowStarts, Zenon
    <2>5. QED BY <2>1, <2>2, <2>3, <2>4
  <1>3. /\ Row(b, "bindings", 1) = [actor |-> 1, role |-> 1, surface |-> "mcp", credential |-> "first",
                                    provider |-> "provider", status |-> "active"]
        /\ Row(b, "sessions", 1) = talk
        /\ Row(b, "interpretations", 1) = filed
        /\ Row(b, "claims", 1) = [table |-> "intents", entity |-> 1, actor |-> 1, status |-> "active"]
    <2>1. Row(b, "bindings", 1) = [actor |-> 1, role |-> 1, surface |-> "mcp", credential |-> "first",
                                    provider |-> "provider", status |-> "active"]
      BY BeginningTables, OneRowStarts, Zenon
    <2>2. Row(b, "sessions", 1) = talk
      BY BeginningTables, OneRowStarts, Zenon
    <2>3. Row(b, "interpretations", 1) = filed
      BY BeginningTables, OneRowStarts, Zenon
    <2>4. Row(b, "claims", 1) = [table |-> "intents", entity |-> 1, actor |-> 1, status |-> "active"]
      BY BeginningTables, OneRowStarts, Zenon
    <2>5. QED BY <2>1, <2>2, <2>3, <2>4
  <1>4. \A id \in {1, 2} :
            Row(b, "intents", id) = [scope |-> "default", parent |-> IF id = 1 THEN None ELSE 1,
                                     addressed |-> None, status |-> "draft", version |-> 1]
    <2> DEFINE rows == [id \in {1, 2} |-> [scope |-> "default", parent |-> IF id = 1 THEN None ELSE 1,
                                           addressed |-> None, status |-> "draft", version |-> 1]]
    <2>1. b["intents"] = Table(rows)
      BY BeginningTables, Zenon
    <2>2. rows = [id \in {1, 2} |-> rows[id]]
      OBVIOUS
    <2> HIDE DEF rows
    <2>3. Row(b, "intents", 1) = rows[1] /\ Row(b, "intents", 2) = rows[2]
      BY <2>1, <2>2, TwoRowsStart
    <2>4. QED BY <2>3 DEF rows
  <1>5. Begun(b)
    BY <1>1 DEF Begun, Has
  <1> HIDE DEF b
  <1>6. \A id \in DOMAIN b["events"].rows : Fits(b, "events", Row(b, "events", id))
    <2> TAKE id \in DOMAIN b["events"].rows
    <2>1. PICK type \in {"contract_registered", "intent_created", "interpretation_filed", "claim_acquired"},
               of \in {"contracts", "intents", "interpretations"}, entity \in {1, 2} :
              Row(b, "events", id) = Event(type, of, entity, 1, "default")
      <3>1. Row(b, "events", id) \in {Event("contract_registered", "contracts", 1, 1, "default"),
                                     Event("intent_created", "intents", 1, 1, "default"),
                                     Event("intent_created", "intents", 2, 1, "default"),
                                     Event("interpretation_filed", "interpretations", 1, 1, "default"),
                                     Event("claim_acquired", "intents", 1, 1, "default")}
        BY BeginningTables, FiveRowsStart, Zenon DEF b
      <3>2. QED BY <3>1, Zenon
    <2>2. ~Sql!Dangling(b, "events", Event(type, of, entity, 1, "default"))
      BY <1>5, EventOfActor DEF Begun
    <2>3. Event(type, of, entity, 1, "default") = [f \in Columns["events"] |-> Event(type, of, entity, 1, "default")[f]]
      BY DEF Event, Columns
    <2>4. QED BY <2>1, <2>2, <2>3 DEF Fits
  <1>7. Fits(b, "domains", Row(b, "domains", 1))
    <2>1. ~Sql!Dangling(b, "domains", [scope |-> "default", name |-> "first"])
      BY <1>5, SqliteData DEF Begun, Sql!Dangling, Sql!ForeignKeys
    <2>2. QED BY <1>2, <2>1 DEF Fits, Columns
  <1>8. Fits(b, "actors", Row(b, "actors", 1))
    <2>1. ann = [f \in Columns["actors"] |-> ann[f]]
      BY DEF Columns
    <2>2. ann.scope = "default" /\ Has(b, "scopes", "default")
      BY <1>5 DEF Begun
    <2>3. QED BY <1>2, <2>1, <2>2, ActorFits
  <1>9. Fits(b, "roles", Row(b, "roles", 1))
    <2>1. ~Sql!Dangling(b, "roles", [name |-> "writer", status |-> "active", policy |-> None])
      BY DEF Sql!Dangling, Sql!ForeignKeys
    <2>2. QED BY <1>2, <2>1 DEF Fits, Columns
  <1>10. Fits(b, "contracts", Row(b, "contracts", 1))
    <2>1. root = [f \in Columns["contracts"] |-> root[f]] /\ root.version \in Nat
      BY DEF Columns
    <2>2. ~Sql!Dangling(b, "contracts", root)
      BY <1>5, ContractDangles DEF Begun
    <2> HIDE DEF root
    <2>3. QED BY <1>2, <2>1, <2>2 DEF Fits
  <1>11. Fits(b, "bindings", Row(b, "bindings", 1))
    <2> DEFINE row == [actor |-> 1, role |-> 1, surface |-> "mcp", credential |-> "first",
                       provider |-> "provider", status |-> "active"]
    <2>1. Has(b, "roles", 1) /\ Has(b, "actors", 1)
      BY <1>1 DEF Has
    <2>2. ~Sql!Dangling(b, "bindings", row)
      BY <2>1, SqliteData DEF Sql!Dangling, Sql!ForeignKeys
    <2>3. row = [f \in Columns["bindings"] |-> row[f]] /\ row.surface = "mcp"
      BY DEF Columns
    <2> HIDE DEF row
    <2>4. Row(b, "bindings", 1) = row
      BY <1>3 DEF row
    <2>5. QED BY <2>2, <2>3, <2>4 DEF Fits
  <1>12. Fits(b, "sessions", Row(b, "sessions", 1))
    <2> DEFINE row == talk
    <2>1. ~Sql!Dangling(b, "sessions", row)
      BY <1>5, SqliteData DEF Begun, Sql!Dangling, Sql!ForeignKeys
    <2>2. row = [f \in Columns["sessions"] |-> row[f]] /\ row.status = "active"
      BY DEF Columns
    <2> HIDE DEF row
    <2>3. Row(b, "sessions", 1) = row
      BY <1>3 DEF row
    <2>4. QED BY <2>1, <2>2, <2>3 DEF Fits
  <1>13. Fits(b, "interpretations", Row(b, "interpretations", 1))
    <2> DEFINE row == filed
    <2>1. ~Sql!Dangling(b, "interpretations", row)
      BY <1>5, InterpretationDangles DEF Begun
    <2>2. row = [f \in Columns["interpretations"] |-> row[f]] /\ row.intent # None
      BY RepositoryParityAssumption DEF Columns
    <2> HIDE DEF row
    <2>3. Row(b, "interpretations", 1) = row
      BY <1>3 DEF row
    <2>4. QED BY <2>1, <2>2, <2>3 DEF Fits
  <1>14. Fits(b, "claims", Row(b, "claims", 1))
    <2> DEFINE row == [table |-> "intents", entity |-> 1, actor |-> 1, status |-> "active"]
    <2>1. ~Sql!Dangling(b, "claims", row)
      BY <1>5, SqliteData DEF Begun, Sql!Dangling, Sql!ForeignKeys
    <2>2. row = [f \in Columns["claims"] |-> row[f]] /\ row.status = "active"
      BY DEF Columns
    <2> HIDE DEF row
    <2>3. Row(b, "claims", 1) = row
      BY <1>3 DEF row
    <2>4. QED BY <2>1, <2>2, <2>3 DEF Fits
  <1>15. \A id \in {1, 2} : Fits(b, "intents", Row(b, "intents", id))
    <2> TAKE id \in {1, 2}
    <2> DEFINE row == [scope |-> "default", parent |-> IF id = 1 THEN None ELSE 1,
                       addressed |-> None, status |-> "draft", version |-> 1]
    <2>1. ~Sql!Dangling(b, "intents", row)
      BY <1>5, IntentDangles DEF Begun
    <2>2. row = [f \in Columns["intents"] |-> row[f]]
      BY DEF Columns
    <2> HIDE DEF row
    <2>3. Row(b, "intents", id) = row
      BY <1>4 DEF row
    <2>4. QED BY <2>1, <2>2, <2>3 DEF Fits
  <1>16. Whole(b)
    BY <1>1, <1>6, <1>7, <1>8, <1>9, <1>10, <1>11, <1>12, <1>13, <1>14, <1>15 DEF Whole, Tables
  <1>17. NamedApart(b)
    BY <1>1 DEF NamedApart
  <1>18. Revised(b)
    <2>1. With(b, "contracts", [key |-> "root"]) = {1}
      BY <1>1, <1>2 DEF With, Row
    <2>2. Row(b, "contracts", 1).key = "root" /\ Row(b, "contracts", 1).status \in Open
      BY <1>2 DEF Open
    <2>3. QED BY <1>1, <2>1, <2>2 DEF Revised
  <1>19. QED BY <1>5, <1>16, <1>17, <1>18 DEF Sound, b

-----------------------------------------------------------------------------
(* The calls                                                               *)

\* A call that the checks refuse changes neither store; one that strays ends the history.
LEMMA CallTogether ==
    ASSUME Together, NEW refusal, NEW ofMemory, NEW ofSqlite, NEW reasons,
           Call(refusal, ofMemory, ofSqlite, reasons),
           refusal[memory] = refusal[sqlite],
           refusal[sqlite] = None /\ reasons = {} => Same(ofMemory, ofSqlite)
    PROVE  Together'
  <1> DEFINE m == Served(memory, refusal[memory], ofMemory)
             q == Served(sqlite, refusal[sqlite], ofSqlite)
  <1>1. /\ memory' = m.store /\ sqlite' = q.store
        /\ answered' = [memory |-> m.answer, sqlite |-> q.answer]
        /\ strayed' = IF refusal[sqlite] # None THEN {} ELSE reasons
    BY DEF Call
  <1>2. Twin(memory, sqlite) /\ Sound(sqlite)
    BY DEF Call, Together
  <1>3. refusal[sqlite] # None \/ reasons = {} => Same(m, q)
    <2>1. CASE refusal[sqlite] # None
      BY <1>2, <2>1, ErrorSame DEF Served
    <2>2. CASE refusal[sqlite] = None
      BY <2>2 DEF Served
    <2>3. QED BY <2>1, <2>2
  <1> HIDE DEF m, q
  <1>4. answered'.memory = m.answer /\ answered'.sqlite = q.answer
    BY <1>1
  <1>5. CASE strayed' = {}
    <2>1. Same(m, q)
      BY <1>1, <1>3, <1>5
    <2>2. m.answer = q.answer /\ Twin(m.store, q.store) /\ Sound(q.store)
      BY <2>1 DEF Same, Agree
    <2>3. Twin(memory', sqlite') /\ Sound(sqlite')
      BY <1>1, <2>2
    <2>4. QED BY <1>4, <2>2, <2>3 DEF Together
  <1>6. CASE strayed' # {}
    BY <1>6 DEF Together
  <1>7. QED BY <1>5, <1>6

LEMMA Uncheckeds ==
    Unchecked[memory] = None /\ Unchecked[sqlite] = None
  BY DEF Unchecked, Stores

LEMMA RegisterIntentTogether ==
    ASSUME Together, registerIntent
    PROVE  Together'
  <1>1. PICK scope \in {None, "other"}, parent \in {None, 1, Unknown}, addressed \in {None, 1},
             status \in {None, "active"}, actor \in {None, 1, Unknown} :
            LET p == [scope |-> Given(scope, "default"), parent |-> parent, addressed |-> addressed, status |-> status]
            IN  Call(Unchecked, Mem!createIntent(memory, p, actor), Sql!createIntent(sqlite, p, actor),
                     Dangles("intents", p) \cup Dangles("events", [actor |-> actor])
                     \cup Where(actor = None, "no actor") \cup Where(scope # None, "scope of the event"))
    BY DEF registerIntent
  <1> DEFINE p == [scope |-> Given(scope, "default"), parent |-> parent, addressed |-> addressed, status |-> status]
             reasons == Dangles("intents", p) \cup Dangles("events", [actor |-> actor])
                        \cup Where(actor = None, "no actor") \cup Where(scope # None, "scope of the event")
  <1>2. ASSUME reasons = {}
        PROVE  Same(Mem!createIntent(memory, p, actor), Sql!createIntent(sqlite, p, actor))
    <2>1. Twin(memory, sqlite) /\ Sound(sqlite)
      BY <1>1 DEF Together, Call
    <2>2. p.scope = "default" /\ actor # None
      BY <1>2 DEF Where, Given
    <2>3. Has(sqlite, "actors", actor)
      <3>1. ~Sql!Dangling(sqlite, "events", [actor |-> actor])
        BY <1>2 DEF Where, Dangles
      <3>2. QED BY <2>2, <3>1, SqliteData DEF Sql!Dangling, Sql!ForeignKeys
    <2>4. ~Sql!Dangling(sqlite, "intents", p)
      BY <1>2 DEF Where, Dangles
    <2> HIDE DEF p
    <2>5. QED BY <2>1, <2>2, <2>3, <2>4, CreateIntentSame
  <1> HIDE DEF p, reasons
  <1>3. Call(Unchecked, Mem!createIntent(memory, p, actor), Sql!createIntent(sqlite, p, actor), reasons)
    BY <1>1, Zenon DEF p, reasons
  <1>4. QED BY <1>2, <1>3, CallTogether, Uncheckeds

LEMMA UpdateIntentTogether ==
    ASSUME Together, updateIntent
    PROVE  Together'
  <1>1. PICK id \in {1, 3, Unknown}, status \in {None, "closed"}, addressed \in {None, 1, Unknown},
             actor \in {None, 1, Unknown} :
            LET updates == Provided([status |-> status, addressed |-> addressed])
            IN  Call(Unchecked, Mem!updateIntent(memory, id, updates, actor),
                     Sql!updateIntent(sqlite, id, updates, actor),
                     IF ~Has(sqlite, "intents", id) THEN {}
                     ELSE Where(Unknown \in {addressed, actor}, "unknown reference") \cup Where(actor = None, "no actor")
                          \cup Where(Row(sqlite, "intents", id).scope # "default", "scope of the event"))
    BY DEF updateIntent
  <1> DEFINE updates == Provided([status |-> status, addressed |-> addressed])
             reasons == IF ~Has(sqlite, "intents", id) THEN {}
                        ELSE Where(Unknown \in {addressed, actor}, "unknown reference")
                             \cup Where(actor = None, "no actor")
                             \cup Where(Row(sqlite, "intents", id).scope # "default", "scope of the event")
  <1>2. ASSUME reasons = {}
        PROVE  Same(Mem!updateIntent(memory, id, updates, actor), Sql!updateIntent(sqlite, id, updates, actor))
    <2>1. Twin(memory, sqlite) /\ Sound(sqlite)
      BY <1>1 DEF Together, Call
    <2>2. CASE ~Has(sqlite, "intents", id)
      <3> HIDE DEF updates
      <3>1. Mem!updateIntent(memory, id, updates, actor) = Error(memory, "NOT_FOUND")
        <4>1. ~Has(memory, "intents", id)
          BY <2>1, <2>2, TwinReads DEF AllTables, Tables
        <4>2. QED BY <4>1, MemoryData, Zenon DEF Mem!updateIntent
      <3>2. Sql!updateIntent(sqlite, id, updates, actor) = Error(sqlite, "NOT_FOUND")
        BY <2>2, SqliteData, Zenon DEF Sql!updateIntent
      <3>3. QED BY <2>1, <3>1, <3>2, ErrorSame
    <2>3. CASE Has(sqlite, "intents", id)
      <3>1. addressed # Unknown /\ actor = 1 /\ Row(sqlite, "intents", id).scope = "default"
        BY <1>2, <2>3 DEF Where
      <3>2. Has(sqlite, "actors", 1)
        BY <2>1 DEF Sound, Begun
      <3>3. 1 # None
        BY RepositoryParityAssumption
      <3>4. /\ DOMAIN updates \subseteq {"status", "addressed"}
            /\ "addressed" \in DOMAIN updates => Has(sqlite, "actors", updates.addressed)
        BY <3>1, <3>2 DEF Provided
      <3> HIDE DEF updates
      <3>5. QED BY <2>1, <3>1, <3>2, <3>3, <3>4, UpdateIntentSame
    <2>4. QED BY <2>2, <2>3
  <1> HIDE DEF updates, reasons
  <1>3. Call(Unchecked, Mem!updateIntent(memory, id, updates, actor),
             Sql!updateIntent(sqlite, id, updates, actor), reasons)
    BY <1>1, Zenon DEF updates, reasons
  <1>4. QED BY <1>2, <1>3, CallTogether, Uncheckeds

LEMMA RegisterInterpretationTogether ==
    ASSUME Together, registerInterpretation
    PROVE  Together'
  <1>1. PICK intent \in {1, 2, Unknown}, domain \in {1, Unknown}, actor \in {1, Unknown},
             resolver \in {None, 1, Unknown}, source \in {None, "source"}, status \in {None, "proposed"} :
            LET p == [intent |-> intent, domain |-> domain, actor |-> actor, resolver |-> resolver, source |-> source,
                      status |-> status]
            IN  Call(Unchecked, Mem!createInterpretation(memory, p), Sql!createInterpretation(sqlite, p),
                     Where(Unknown \in {intent, domain, actor, resolver}, "unknown reference"))
    BY DEF registerInterpretation
  <1> DEFINE p == [intent |-> intent, domain |-> domain, actor |-> actor, resolver |-> resolver, source |-> source,
                   status |-> status]
             reasons == Where(Unknown \in {intent, domain, actor, resolver}, "unknown reference")
  <1>2. ASSUME reasons = {}
        PROVE  Same(Mem!createInterpretation(memory, p), Sql!createInterpretation(sqlite, p))
    <2>1. Twin(memory, sqlite) /\ Sound(sqlite)
      BY <1>1 DEF Together, Call
    <2>2. intent \in {1, 2} /\ domain = 1 /\ actor = 1 /\ resolver \in {None, 1}
      BY <1>2 DEF Where
    <2>3. /\ Has(sqlite, "intents", p.intent) /\ Has(sqlite, "domains", p.domain) /\ Has(sqlite, "actors", p.actor)
          /\ p.resolver = None \/ Has(sqlite, "actors", p.resolver)
      BY <2>1, <2>2 DEF Sound, Begun
    <2> HIDE DEF p
    <2>4. QED BY <2>1, <2>3, CreateInterpretationSame
  <1> HIDE DEF p, reasons
  <1>3. Call(Unchecked, Mem!createInterpretation(memory, p), Sql!createInterpretation(sqlite, p), reasons)
    BY <1>1, Zenon DEF p, reasons
  <1>4. QED BY <1>2, <1>3, CallTogether, Uncheckeds

LEMMA UpdateInterpretationTogether ==
    ASSUME Together, updateInterpretation
    PROVE  Together'
  <1>1. PICK id \in {1, 2, Unknown}, alignment \in {None, "divergent"}, source \in {None, "source"},
             resolver \in {None, 1, Unknown}, actor \in {None, 1, Unknown} :
            LET updates == Provided([alignment |-> alignment, source |-> source, resolver |-> resolver])
            IN  Call(Unchecked, Mem!updateInterpretation(memory, id, updates, actor),
                     Sql!updateInterpretation(sqlite, id, updates, actor),
                     IF ~Has(sqlite, "interpretations", id) THEN {}
                     ELSE Where(actor = None, "no actor") \cup Where(Unknown \in {resolver, actor}, "unknown reference"))
    BY DEF updateInterpretation
  <1> DEFINE updates == Provided([alignment |-> alignment, source |-> source, resolver |-> resolver])
             reasons == IF ~Has(sqlite, "interpretations", id) THEN {}
                        ELSE Where(actor = None, "no actor") \cup Where(Unknown \in {resolver, actor}, "unknown reference")
  <1>2. ASSUME reasons = {}
        PROVE  Same(Mem!updateInterpretation(memory, id, updates, actor),
                    Sql!updateInterpretation(sqlite, id, updates, actor))
    <2>1. Twin(memory, sqlite) /\ Sound(sqlite)
      BY <1>1 DEF Together, Call
    <2>2. /\ DOMAIN updates \subseteq {"alignment", "source", "resolver"}
          /\ "resolver" \in DOMAIN updates => updates.resolver = resolver /\ resolver # None
      BY DEF Provided
    <2>3. Has(sqlite, "interpretations", id) => actor = 1 /\ resolver \in {None, 1}
      BY <1>2 DEF Where
    <2>4. 1 # None /\ Has(sqlite, "actors", 1)
      BY <2>1, RepositoryParityAssumption DEF Sound, Begun
    <2> HIDE DEF updates
    <2>5. QED BY <2>1, <2>2, <2>3, <2>4, UpdateInterpretationSame
  <1> HIDE DEF updates, reasons
  <1>3. Call(Unchecked, Mem!updateInterpretation(memory, id, updates, actor),
             Sql!updateInterpretation(sqlite, id, updates, actor), reasons)
    BY <1>1, Zenon DEF updates, reasons
  <1>4. QED BY <1>2, <1>3, CallTogether, Uncheckeds

LEMMA SupersedeInterpretationTogether ==
    ASSUME Together, supersedeInterpretation
    PROVE  Together'
  <1>1. PICK id \in {1, 2, Unknown}, status \in {None, "proposed"} :
            Call(Unchecked, Mem!supersedeInterpretation(memory, id, status),
                 Sql!supersedeInterpretation(sqlite, id, status),
                 IF ~Has(sqlite, "interpretations", id) THEN {}
                 ELSE Where(Row(sqlite, "interpretations", id).source # None, "source dropped"))
    BY DEF supersedeInterpretation
  <1> DEFINE reasons == IF ~Has(sqlite, "interpretations", id) THEN {}
                        ELSE Where(Row(sqlite, "interpretations", id).source # None, "source dropped")
  <1>2. ASSUME reasons = {}
        PROVE  Same(Mem!supersedeInterpretation(memory, id, status), Sql!supersedeInterpretation(sqlite, id, status))
    <2>1. Twin(memory, sqlite) /\ Sound(sqlite)
      BY <1>1 DEF Together, Call
    <2>2. Has(sqlite, "interpretations", id) => Row(sqlite, "interpretations", id).source = None
      BY <1>2 DEF Where
    <2>3. QED BY <2>1, <2>2, SupersedeInterpretationSame
  <1> HIDE DEF reasons
  <1>3. Call(Unchecked, Mem!supersedeInterpretation(memory, id, status),
             Sql!supersedeInterpretation(sqlite, id, status), reasons)
    BY <1>1, Zenon DEF reasons
  <1>4. QED BY <1>2, <1>3, CallTogether, Uncheckeds

LEMMA ClaimTogether ==
    ASSUME Together, claim
    PROVE  Together'
  <1>1. PICK entity \in {1, Unknown}, actor \in {1, Unknown} :
            Call(Unchecked, Mem!acquireClaim(memory, "intents", entity, actor),
                 Sql!acquireClaim(sqlite, "intents", entity, actor), Where(actor = Unknown, "unknown reference"))
    BY DEF claim
  <1> DEFINE reasons == Where(actor = Unknown, "unknown reference")
  <1>2. ASSUME reasons = {}
        PROVE  Same(Mem!acquireClaim(memory, "intents", entity, actor),
                    Sql!acquireClaim(sqlite, "intents", entity, actor))
    <2>1. Twin(memory, sqlite) /\ Sound(sqlite)
      BY <1>1 DEF Together, Call
    <2>2. actor = 1
      BY <1>2 DEF Where
    <2>3. Has(sqlite, "actors", actor)
      BY <2>1, <2>2 DEF Sound, Begun
    <2>4. QED BY <2>1, <2>3, AcquireClaimSame
  <1> HIDE DEF reasons
  <1>3. Call(Unchecked, Mem!acquireClaim(memory, "intents", entity, actor),
             Sql!acquireClaim(sqlite, "intents", entity, actor), reasons)
    BY <1>1, Zenon DEF reasons
  <1>4. QED BY <1>2, <1>3, CallTogether, Uncheckeds

LEMMA ReleaseClaimTogether ==
    ASSUME Together, releaseClaim
    PROVE  Together'
  <1>1. PICK id \in {1, Unknown} :
            Call(Unchecked, Mem!releaseClaim(memory, id), Sql!releaseClaim(sqlite, id), {})
    BY DEF releaseClaim
  <1>2. Same(Mem!releaseClaim(memory, id), Sql!releaseClaim(sqlite, id))
    BY <1>1, ReleaseClaimSame DEF Together, Call
  <1>3. QED BY <1>1, <1>2, CallTogether, Uncheckeds

LEMMA RegisterScopeTogether ==
    ASSUME Together, registerScope
    PROVE  Together'
  <1>1. Call(Unchecked, Mem!registerScope(memory, "other"), Sql!registerScope(sqlite, "other"), {})
    BY DEF registerScope
  <1>2. Same(Mem!registerScope(memory, "other"), Sql!registerScope(sqlite, "other"))
    BY <1>1, RegisterScopeSame DEF Together, Call
  <1>3. QED BY <1>1, <1>2, CallTogether, Uncheckeds

LEMMA HeartbeatActorSessionTogether ==
    ASSUME Together, heartbeatActorSession
    PROVE  Together'
  <1>1. PICK actor \in {1, 2}, ref \in Refs :
            Call(Unchecked, Mem!heartbeatActorSession(memory, ref, actor),
                 Sql!heartbeatActorSession(sqlite, ref, actor), {})
    BY DEF heartbeatActorSession
  <1>2. Same(Mem!heartbeatActorSession(memory, ref, actor), Sql!heartbeatActorSession(sqlite, ref, actor))
    BY <1>1, HeartbeatActorSessionSame DEF Together, Call
  <1>3. QED BY <1>1, <1>2, CallTogether, Uncheckeds

LEMMA CloseActorSessionTogether ==
    ASSUME Together, closeActorSession
    PROVE  Together'
  <1>1. PICK actor \in {1, 2}, ref \in Refs :
            Call(Unchecked, Mem!closeActorSession(memory, ref, actor), Sql!closeActorSession(sqlite, ref, actor), {})
    BY DEF closeActorSession
  <1>2. Same(Mem!closeActorSession(memory, ref, actor), Sql!closeActorSession(sqlite, ref, actor))
    BY <1>1, CloseActorSessionSame DEF Together, Call
  <1>3. QED BY <1>1, <1>2, CallTogether, Uncheckeds

LEMMA ActionDangles ==
    ASSUME NEW s, NEW x, ~Sql!Dangling(s, "actions", x), x.interpretation # None
    PROVE  Has(s, "interpretations", x.interpretation)
  <1> DEFINE references == Sql!ForeignKeys["actions"]
  <1>1. "interpretation" \in DOMAIN references /\ references["interpretation"] = "interpretations"
    BY DEF Sql!ForeignKeys
  <1> HIDE DEF references
  <1>2. \A f \in DOMAIN references : x[f] = None \/ Has(s, references[f], x[f])
    BY SqliteData DEF Sql!Dangling, references
  <1>3. QED BY <1>1, <1>2

\* The checks of twins agree.
LEMMA ChecksSame ==
    ASSUME NEW m, NEW s, Twin(m, s)
    PROVE  /\ \A id : requireActiveActor(m, id) = requireActiveActor(s, id)
           /\ \A key : requireActiveContractKey(m, key) = requireActiveContractKey(s, key)
           /\ \A key : validateOptionalGoverningContractKey(m, key) = validateOptionalGoverningContractKey(s, key)
           /\ \A id : validateOptionalDomain(m, id) = validateOptionalDomain(s, id)
           /\ \A domain, key : validateReferences(m, domain, key) = validateReferences(s, domain, key)
           /\ \A scope, id : Scoped(m, scope, id) = Scoped(s, scope, id)
           /\ \A kind, parent : validateContractParent(m, kind, parent) = validateContractParent(s, kind, parent)
  <1>1. {"actors", "contracts", "domains"} \subseteq AllTables
    BY DEF AllTables, Tables
  <1>2. /\ \A id : Has(m, "actors", id) = Has(s, "actors", id)
        /\ \A id : Has(m, "domains", id) = Has(s, "domains", id)
        /\ \A id : Row(m, "actors", id) = Row(s, "actors", id)
        /\ \A columns : With(m, "contracts", columns) = With(s, "contracts", columns)
    BY <1>1, TwinReads
  <1>3. \A id : requireActiveActor(m, id) = requireActiveActor(s, id)
    BY <1>2 DEF requireActiveActor
  <1>4. \A key : requireActiveContractKey(m, key) = requireActiveContractKey(s, key)
    BY <1>2, Zenon DEF requireActiveContractKey
  <1>5. \A key : validateOptionalGoverningContractKey(m, key) = validateOptionalGoverningContractKey(s, key)
    BY <1>4, Zenon DEF validateOptionalGoverningContractKey
  <1>6. \A kind, parent : validateContractParent(m, kind, parent) = validateContractParent(s, kind, parent)
    <2> TAKE kind, parent
    <2>1. requireActiveContractKey(m, parent) = requireActiveContractKey(s, parent)
      BY <1>4
    <2>2. QED BY <2>1 DEF validateContractParent
  <1>7. \A id : validateOptionalDomain(m, id) = validateOptionalDomain(s, id)
    BY <1>2 DEF validateOptionalDomain
  <1>8. \A domain, key : validateReferences(m, domain, key) = validateReferences(s, domain, key)
    BY <1>5, <1>7, Zenon DEF validateReferences
  <1>9. \A scope, id : Scoped(m, scope, id) = Scoped(s, scope, id)
    BY <1>2 DEF Scoped
  <1>10. QED BY <1>3, <1>4, <1>5, <1>6, <1>7, <1>8, <1>9

LEMMA ActiveActorThere ==
    ASSUME NEW s, NEW id, requireActiveActor(s, id) = None
    PROVE  Has(s, "actors", id)
  BY RepositoryParityAssumption DEF requireActiveActor, Refusals

LEMMA LogActionTogether ==
    ASSUME Together, logAction
    PROVE  Together'
  <1> DEFINE governing(s, actor, key) ==
                 IF key = None /\ Has(s, "actors", actor) THEN Row(s, "actors", actor).key ELSE key
  <1>1. PICK intent \in {1, 2, Unknown}, interpretation \in {None, 1, Unknown}, actor \in {1, 2},
             domain \in {None, 1, Unknown}, key \in {None, "root", "none"} :
            LET checked == [s \in Stores |-> FirstOf(validateOptionalDomain(s, domain),
                                                    validateOptionalGoverningContractKey(s, governing(s, actor, key)))]
                p(s) == [intent |-> intent, interpretation |-> interpretation, actor |-> actor, domain |-> domain,
                         key |-> governing(s, actor, key)]
            IN  Call(checked, Mem!logAction(memory, p(memory)), Sql!logAction(sqlite, p(sqlite)),
                     Dangles("actions", p(sqlite))
                     \cup Where(/\ Has(sqlite, "interpretations", interpretation)
                                /\ Row(sqlite, "interpretations", interpretation).intent # intent, "another intent"))
    BY DEF logAction
  <1> DEFINE checked == [s \in Stores |-> FirstOf(validateOptionalDomain(s, domain),
                                                 validateOptionalGoverningContractKey(s, governing(s, actor, key)))]
             p(s) == [intent |-> intent, interpretation |-> interpretation, actor |-> actor, domain |-> domain,
                      key |-> governing(s, actor, key)]
             reasons == Dangles("actions", p(sqlite))
                        \cup Where(/\ Has(sqlite, "interpretations", interpretation)
                                   /\ Row(sqlite, "interpretations", interpretation).intent # intent, "another intent")
  <1>2. Twin(memory, sqlite) /\ Sound(sqlite)
    BY <1>1 DEF Together, Call
  <1>3. governing(memory, actor, key) = governing(sqlite, actor, key)
    BY <1>2, TwinReads DEF AllTables, Tables
  <1> HIDE DEF governing
  <1>4. checked[memory] = checked[sqlite] /\ p(memory) = p(sqlite)
    BY <1>2, <1>3, ChecksSame DEF Stores
  <1>5. ASSUME reasons = {}
        PROVE  Same(Mem!logAction(memory, p(memory)), Sql!logAction(sqlite, p(sqlite)))
    <2> DEFINE action == p(sqlite)
    <2>1. action = [f \in Columns["actions"] |-> action[f]] /\ action.interpretation = interpretation /\ action.intent = intent
      BY DEF Columns
    <2>2. /\ ~Sql!Dangling(sqlite, "actions", action)
          /\ Has(sqlite, "interpretations", interpretation) =>
                Row(sqlite, "interpretations", interpretation).intent = intent
      BY <1>5 DEF Dangles, Where
    <2>3. p(memory) = action /\ p(sqlite) = action
      BY <1>4
    <2> HIDE DEF p, action
    <2>4. OfItsIntent(sqlite, action)
      BY <2>1, <2>2, ActionDangles DEF OfItsIntent
    <2>5. Fits(sqlite, "actions", action)
      BY <2>1, <2>2, <2>4 DEF Fits
    <2>6. QED BY <1>2, <2>3, <2>5, LogActionSame
  <1> HIDE DEF p, reasons, checked
  <1>6. Call(checked, Mem!logAction(memory, p(memory)), Sql!logAction(sqlite, p(sqlite)), reasons)
    BY <1>1, Zenon DEF p, reasons, checked
  <1>7. QED BY <1>4, <1>5, <1>6, CallTogether

LEMMA RegisterExpertiseTogether ==
    ASSUME Together, registerExpertise
    PROVE  Together'
  <1>1. PICK intent \in {1, Unknown}, domain \in {1, Unknown}, actor \in {1, Unknown} :
            LET p == [intent |-> intent, domain |-> domain, actor |-> actor]
            IN  Call(Unchecked, Mem!registerExpertiseSignal(memory, p), Sql!registerExpertiseSignal(sqlite, p),
                     Dangles("signals", p))
    BY DEF registerExpertise
  <1> DEFINE p == [intent |-> intent, domain |-> domain, actor |-> actor]
  <1>2. ASSUME Dangles("signals", p) = {}
        PROVE  Same(Mem!registerExpertiseSignal(memory, p), Sql!registerExpertiseSignal(sqlite, p))
    <2>1. Twin(memory, sqlite) /\ Sound(sqlite)
      BY <1>1 DEF Together, Call
    <2>2. p = [f \in Columns["signals"] |-> p[f]]
      BY DEF Columns
    <2> HIDE DEF p
    <2>3. Fits(sqlite, "signals", p)
      BY <1>2, <2>2 DEF Dangles, Where, Fits
    <2>4. QED BY <2>1, <2>3, RegisterExpertiseSame
  <1> HIDE DEF p
  <1>3. Call(Unchecked, Mem!registerExpertiseSignal(memory, p), Sql!registerExpertiseSignal(sqlite, p),
             Dangles("signals", p))
    BY <1>1, Zenon DEF p
  <1>4. QED BY <1>2, <1>3, CallTogether, Uncheckeds

LEMMA RegisterReportTogether ==
    ASSUME Together, registerReport
    PROVE  Together'
  <1>1. PICK scope \in {None, "other"}, domain \in {None, 1, Unknown}, intent \in {None, 1, Unknown},
             actor \in {1, 2, Unknown} :
            LET checked == [s \in Stores |-> requireActiveActor(s, actor)]
                p(s) == [scope |-> Scoped(s, scope, actor), domain |-> domain, intent |-> intent, actor |-> actor]
            IN  Call(checked, Mem!registerReport(memory, p(memory)), Sql!registerReport(sqlite, p(sqlite)),
                     Dangles("reports", p(sqlite)))
    BY DEF registerReport
  <1> DEFINE checked == [s \in Stores |-> requireActiveActor(s, actor)]
             p(s) == [scope |-> Scoped(s, scope, actor), domain |-> domain, intent |-> intent, actor |-> actor]
  <1>2. Twin(memory, sqlite) /\ Sound(sqlite)
    BY <1>1 DEF Together, Call
  <1>3. checked[memory] = checked[sqlite] /\ p(memory) = p(sqlite)
    BY <1>2, ChecksSame DEF Stores
  <1>4. ASSUME Dangles("reports", p(sqlite)) = {}
        PROVE  Same(Mem!registerReport(memory, p(memory)), Sql!registerReport(sqlite, p(sqlite)))
    <2> DEFINE report == p(sqlite)
    <2>1. report = [f \in Columns["reports"] |-> report[f]]
      BY DEF Columns
    <2>2. p(memory) = report /\ p(sqlite) = report
      BY <1>3
    <2> HIDE DEF p, report
    <2>3. Fits(sqlite, "reports", report)
      BY <1>4, <2>1, <2>2 DEF Dangles, Where, Fits
    <2>4. QED BY <1>2, <2>2, <2>3, RegisterReportSame
  <1> HIDE DEF p, checked
  <1>5. Call(checked, Mem!registerReport(memory, p(memory)), Sql!registerReport(sqlite, p(sqlite)),
             Dangles("reports", p(sqlite)))
    BY <1>1, Zenon DEF p, checked
  <1>6. QED BY <1>3, <1>4, <1>5, CallTogether

LEMMA RegisterDomainTogether ==
    ASSUME Together, registerDomain
    PROVE  Together'
  <1>1. PICK scope \in {"default", "other"}, name \in {"first", "second"} :
            LET p == [scope |-> scope, name |-> name]
            IN  Call(Unchecked, Mem!registerDomain(memory, p), Sql!registerDomain(sqlite, p),
                     Dangles("domains", p) \cup Where(With(sqlite, "domains", p) # {}, "name reused"))
    BY DEF registerDomain
  <1> DEFINE p == [scope |-> scope, name |-> name]
             reasons == Dangles("domains", p) \cup Where(With(sqlite, "domains", p) # {}, "name reused")
  <1>2. ASSUME reasons = {}
        PROVE  Same(Mem!registerDomain(memory, p), Sql!registerDomain(sqlite, p))
    <2>1. Twin(memory, sqlite) /\ Sound(sqlite)
      BY <1>1 DEF Together, Call
    <2> HIDE DEF p
    <2>2. ~Sql!Dangling(sqlite, "domains", p) /\ With(sqlite, "domains", p) = {}
      BY <1>2 DEF Dangles, Where
    <2>3. QED BY <2>1, <2>2, RegisterDomainSame, Zenon DEF p
  <1> HIDE DEF p, reasons
  <1>3. Call(Unchecked, Mem!registerDomain(memory, p), Sql!registerDomain(sqlite, p), reasons)
    BY <1>1, Zenon DEF p, reasons
  <1>4. QED BY <1>2, <1>3, CallTogether, Uncheckeds

LEMMA RegisterActorTogether ==
    ASSUME Together, registerActor
    PROVE  Together'
  <1>1. PICK name \in {"ann", "bob"}, scope \in {None, "other"}, key \in {None, "root", "none"} :
            LET checked == [s \in Stores |-> validateOptionalGoverningContractKey(s, key)]
                p == [name |-> name, scope |-> Given(scope, "default"), status |-> None, key |-> key]
            IN  Call(checked, Mem!registerActor(memory, p), Sql!registerActor(sqlite, p),
                     Dangles("actors", p) \cup Where(With(sqlite, "actors", [name |-> name]) # {}, "name reused"))
    BY DEF registerActor
  <1> DEFINE checked == [s \in Stores |-> validateOptionalGoverningContractKey(s, key)]
             p == [name |-> name, scope |-> Given(scope, "default"), status |-> None, key |-> key]
             reasons == Dangles("actors", p) \cup Where(With(sqlite, "actors", [name |-> name]) # {}, "name reused")
  <1>2. Twin(memory, sqlite) /\ Sound(sqlite)
    BY <1>1 DEF Together, Call
  <1>3. checked[memory] = checked[sqlite]
    BY <1>2, ChecksSame DEF Stores
  <1>4. ASSUME reasons = {}
        PROVE  Same(Mem!registerActor(memory, p), Sql!registerActor(sqlite, p))
    <2>1. With(sqlite, "actors", [name |-> name]) = {}
      BY <1>4 DEF Where
    <2>2. Given(scope, "default") = None \/ Has(sqlite, "scopes", Given(scope, "default"))
      <3>1. ~Sql!Dangling(sqlite, "actors", p)
        BY <1>4 DEF Where, Dangles
      <3>2. p.scope = Given(scope, "default")
        OBVIOUS
      <3> HIDE DEF p
      <3>3. QED BY <3>1, <3>2, SqliteData DEF Sql!Dangling, Sql!ForeignKeys
    <2>3. QED BY <1>2, <2>1, <2>2, RegisterActorSame, Zenon
  <1> HIDE DEF p, reasons, checked
  <1>5. Call(checked, Mem!registerActor(memory, p), Sql!registerActor(sqlite, p), reasons)
    BY <1>1, Zenon DEF p, reasons, checked
  <1>6. QED BY <1>3, <1>4, <1>5, CallTogether

LEMMA UpdateActorTogether ==
    ASSUME Together, updateActor
    PROVE  Together'
  <1>1. PICK id \in {1, 2}, name \in {None, "ann", "eve"}, scope \in {None, "other"}, status \in {None, "retired"},
             key \in {None, "root"} :
            LET checked == [s \in Stores |-> validateOptionalGoverningContractKey(s, key)]
                updates == Provided([name |-> name, scope |-> scope, status |-> status, key |-> key])
            IN  Call(checked, Mem!updateActor(memory, id, updates), Sql!updateActor(sqlite, id, updates),
                     IF ~Has(sqlite, "actors", id) THEN {}
                     ELSE Where(With(sqlite, "actors", [name |-> name]) \ {id} # {}, "name reused")
                          \cup Where(scope # None /\ ~Has(sqlite, "scopes", scope), "unknown reference"))
    BY DEF updateActor
  <1> DEFINE checked == [s \in Stores |-> validateOptionalGoverningContractKey(s, key)]
             updates == Provided([name |-> name, scope |-> scope, status |-> status, key |-> key])
             reasons == IF ~Has(sqlite, "actors", id) THEN {}
                        ELSE Where(With(sqlite, "actors", [name |-> name]) \ {id} # {}, "name reused")
                             \cup Where(scope # None /\ ~Has(sqlite, "scopes", scope), "unknown reference")
  <1>2. Twin(memory, sqlite) /\ Sound(sqlite)
    BY <1>1 DEF Together, Call
  <1>3. checked[memory] = checked[sqlite]
    BY <1>2, ChecksSame DEF Stores
  <1>4. ASSUME reasons = {}
        PROVE  Same(Mem!updateActor(memory, id, updates), Sql!updateActor(sqlite, id, updates))
    <2>1. /\ DOMAIN updates \subseteq {"name", "scope", "status", "key"}
          /\ "scope" \in DOMAIN updates => updates.scope = scope /\ scope # None
          /\ "name" \in DOMAIN updates => updates.name = name
      BY DEF Provided
    <2>2. Has(sqlite, "actors", id) => With(sqlite, "actors", [name |-> name]) \subseteq {id} /\ (scope = None \/ Has(sqlite, "scopes", scope))
      BY <1>4 DEF Where
    <2> HIDE DEF updates
    <2>3. Has(sqlite, "actors", id) /\ "name" \in DOMAIN updates =>
              With(sqlite, "actors", [name |-> updates.name]) \subseteq {id}
      BY <2>1, <2>2
    <2>4. QED BY <1>2, <2>1, <2>2, <2>3, UpdateActorSame
  <1> HIDE DEF updates, reasons, checked
  <1>5. Call(checked, Mem!updateActor(memory, id, updates), Sql!updateActor(sqlite, id, updates), reasons)
    BY <1>1, Zenon DEF updates, reasons, checked
  <1>6. QED BY <1>3, <1>4, <1>5, CallTogether

LEMMA RegisterRoleTogether ==
    ASSUME Together, registerRole
    PROVE  Together'
  <1>1. PICK name \in {"writer", "reader"}, key \in {None, "none"}, policy \in {None, "policy"} :
            LET checked == [s \in Stores |-> validateOptionalGoverningContractKey(s, key)]
                p == [name |-> name, status |-> None, policy |-> policy]
            IN  Call(checked, Mem!registerRole(memory, p), Sql!registerRole(sqlite, p),
                     Where(With(sqlite, "roles", [name |-> name]) # {}, "name reused"))
    BY DEF registerRole
  <1> DEFINE checked == [s \in Stores |-> validateOptionalGoverningContractKey(s, key)]
             p == [name |-> name, status |-> None, policy |-> policy]
             reasons == Where(With(sqlite, "roles", [name |-> name]) # {}, "name reused")
  <1>2. Twin(memory, sqlite) /\ Sound(sqlite)
    BY <1>1 DEF Together, Call
  <1>3. checked[memory] = checked[sqlite]
    BY <1>2, ChecksSame DEF Stores
  <1>4. ASSUME reasons = {}
        PROVE  Same(Mem!registerRole(memory, p), Sql!registerRole(sqlite, p))
    <2>1. With(sqlite, "roles", [name |-> name]) = {}
      BY <1>4 DEF Where
    <2>2. QED BY <1>2, <2>1, RegisterRoleSame, Zenon
  <1> HIDE DEF p, reasons, checked
  <1>5. Call(checked, Mem!registerRole(memory, p), Sql!registerRole(sqlite, p), reasons)
    BY <1>1, Zenon DEF p, reasons, checked
  <1>6. QED BY <1>3, <1>4, <1>5, CallTogether

LEMMA BindActorRoleTogether ==
    ASSUME Together, bindActorRole
    PROVE  Together'
  <1>1. PICK actor \in {1, 2}, role \in {1, Unknown}, credential \in Refs \cup {None}, status \in {None, "retired"} :
            LET checked == [s \in Stores |->
                                IF Has(s, "actors", actor) /\ Has(s, "roles", role) THEN None ELSE "NOT_FOUND"]
                p == [actor |-> actor, role |-> role, surface |-> "mcp", credential |-> credential,
                      provider |-> "provider", status |-> status]
                same == With(sqlite, "bindings", [actor |-> actor, role |-> role, credential |-> credential])
            IN  Call(checked, Mem!bindActorRole(memory, p), Sql!bindActorRole(sqlite, p),
                     Where(same # {} /\ credential = None, "bound without a credential")
                     \cup (IF same = {} THEN Skips("bindings") ELSE {}))
    BY DEF bindActorRole
  <1> DEFINE checked == [s \in Stores |->
                            IF Has(s, "actors", actor) /\ Has(s, "roles", role) THEN None ELSE "NOT_FOUND"]
             p == [actor |-> actor, role |-> role, surface |-> "mcp", credential |-> credential,
                   provider |-> "provider", status |-> status]
             same == With(sqlite, "bindings", [actor |-> actor, role |-> role, credential |-> credential])
             reasons == Where(same # {} /\ credential = None, "bound without a credential")
                        \cup (IF same = {} THEN Skips("bindings") ELSE {})
  <1>2. Twin(memory, sqlite) /\ Sound(sqlite)
    BY <1>1 DEF Together, Call
  <1>3. /\ checked[memory] = checked[sqlite]
        /\ checked[sqlite] = None => Has(sqlite, "actors", actor) /\ Has(sqlite, "roles", role)
    <2>1. {"actors", "roles"} \subseteq AllTables
      BY DEF AllTables, Tables
    <2>2. /\ Has(memory, "actors", actor) = Has(sqlite, "actors", actor)
          /\ Has(memory, "roles", role) = Has(sqlite, "roles", role)
      BY <1>2, <2>1, TwinReads
    <2>3. QED BY <2>2, RepositoryParityAssumption DEF Stores, Refusals
  <1>4. ASSUME checked[sqlite] = None, reasons = {}
        PROVE  Same(Mem!bindActorRole(memory, p), Sql!bindActorRole(sqlite, p))
    <2> HIDE DEF checked
    <2>1. Has(sqlite, "actors", actor) /\ Has(sqlite, "roles", role)
      BY <1>3, <1>4
    <2>2. /\ same # {} => credential # None
          /\ same = {} => sqlite["bindings"].next = memory["bindings"].next
      <3> HIDE DEF same
      <3>1. QED BY <1>4 DEF Where, Skips
    <2>3. QED BY <1>2, <2>1, <2>2, BindActorRoleSame, Zenon
  <1> HIDE DEF p, reasons, checked, same
  <1>5. Call(checked, Mem!bindActorRole(memory, p), Sql!bindActorRole(sqlite, p), reasons)
    BY <1>1, Zenon DEF p, reasons, checked, same
  <1>6. QED BY <1>3, <1>4, <1>5, CallTogether

LEMMA OpenActorSessionTogether ==
    ASSUME Together, openActorSession
    PROVE  Together'
  <1>1. PICK actor \in {1, 2}, ref \in Refs, surface \in Surfaces, provider \in {"provider", "another"},
             transcript \in {None, "transcript"} :
            LET checked == [s \in Stores |-> requireActiveActor(s, actor)]
                p == [actor |-> actor, ref |-> ref, surface |-> surface, provider |-> provider,
                      transcript |-> transcript, status |-> "active"]
                same == With(sqlite, "sessions", [actor |-> actor, ref |-> ref])
            IN  Call(checked, Mem!openActorSession(memory, p), Sql!openActorSession(sqlite, p),
                     (UNION {Where(Row(sqlite, "sessions", id).status = "closed", "session reopened")
                             \cup Where(\E f \in {"surface", "provider", "transcript"} : Row(sqlite, "sessions", id)[f] # p[f],
                                        "session of another surface, provider or transcript")
                                 : id \in same})
                     \cup (IF same = {} THEN Skips("sessions") ELSE {}))
    BY DEF openActorSession
  <1> DEFINE checked == [s \in Stores |-> requireActiveActor(s, actor)]
             p == [actor |-> actor, ref |-> ref, surface |-> surface, provider |-> provider,
                   transcript |-> transcript, status |-> "active"]
             same == With(sqlite, "sessions", [actor |-> actor, ref |-> ref])
             ofOne(id) == Where(Row(sqlite, "sessions", id).status = "closed", "session reopened")
                          \cup Where(\E f \in {"surface", "provider", "transcript"} : Row(sqlite, "sessions", id)[f] # p[f],
                                     "session of another surface, provider or transcript")
             ofAll == UNION {ofOne(id) : id \in same}
             skipped == IF same = {} THEN Skips("sessions") ELSE {}
             reasons == ofAll \cup skipped
  <1>2. Twin(memory, sqlite) /\ Sound(sqlite)
    BY <1>1 DEF Together, Call
  <1>3. checked[memory] = checked[sqlite]
    BY <1>2, ChecksSame DEF Stores
  <1>4. ASSUME checked[sqlite] = None, reasons = {}
        PROVE  Same(Mem!openActorSession(memory, p), Sql!openActorSession(sqlite, p))
    <2>1. Has(sqlite, "actors", actor)
      BY <1>4, ActiveActorThere DEF Stores
    <2> HIDE DEF same
    <2>2. \A id \in same : ofOne(id) = {}
      <3>1. ofAll = {}
        <4> HIDE DEF ofAll, skipped
        <4>1. QED BY <1>4
      <3> HIDE DEF ofOne
      <3>2. QED BY <3>1
    <2>3. \A id \in same :
              /\ Row(sqlite, "sessions", id).status # "closed" /\ Row(sqlite, "sessions", id).surface = surface
              /\ Row(sqlite, "sessions", id).provider = provider /\ Row(sqlite, "sessions", id).transcript = transcript
      <3> TAKE id \in same
      <3>1. /\ Row(sqlite, "sessions", id).status # "closed"
            /\ \A f \in {"surface", "provider", "transcript"} : Row(sqlite, "sessions", id)[f] = p[f]
        <4> HIDE DEF p
        <4>1. QED BY <2>2 DEF Where
      <3>2. QED BY <3>1
    <2>4. same = {} => sqlite["sessions"].next = memory["sessions"].next
      <3>1. skipped = {}
        <4> HIDE DEF ofAll, skipped
        <4>1. QED BY <1>4
      <3>2. QED BY <3>1 DEF Where, Skips
    <2>5. QED BY <1>2, <2>1, <2>3, <2>4, OpenActorSessionSame, Zenon DEF same
  <1> HIDE DEF p, reasons, checked, same, ofAll, skipped, ofOne
  <1>5. Call(checked, Mem!openActorSession(memory, p), Sql!openActorSession(sqlite, p), reasons)
    BY <1>1, Zenon DEF p, reasons, checked, same, ofAll, skipped, ofOne
  <1>6. QED BY <1>3, <1>4, <1>5, CallTogether

LEMMA RegisterContractTogether ==
    ASSUME Together, registerContract
    PROVE  Together'
  <1>1. PICK kind \in {"root", "actor"}, key \in {"root", "actor"}, parent \in {None, "root"},
             scope \in {None, "other"}, domain \in {None, 1, Unknown}, governing \in {None, "none"},
             status \in {None, "draft", "retired"}, custodian \in {1, 2} :
            LET checked == [s \in Stores |->
                    FirstOf(validateContractWriteStatus(status),
                            FirstOf(requireActiveActor(s, custodian),
                                    FirstOf(validateContractParent(s, kind, parent),
                                            validateReferences(s, domain, governing))))]
                p(s) == [key |-> key, scope |-> Scoped(s, scope, custodian), domain |-> domain, status |-> status,
                         version |-> 1, custodian |-> custodian, parent |-> parent, supersedes |-> None,
                         supersededBy |-> None]
            IN  Call(checked, Mem!registerContract(memory, p(memory)), Sql!registerContract(sqlite, p(sqlite)),
                     IF Mem!OpenRevisions(sqlite, key) # {} THEN {} ELSE Dangles("contracts", p(sqlite)))
    BY DEF registerContract
  <1> DEFINE checked == [s \in Stores |->
                 FirstOf(validateContractWriteStatus(status),
                         FirstOf(requireActiveActor(s, custodian),
                                 FirstOf(validateContractParent(s, kind, parent),
                                         validateReferences(s, domain, governing))))]
             p(s) == [key |-> key, scope |-> Scoped(s, scope, custodian), domain |-> domain, status |-> status,
                      version |-> 1, custodian |-> custodian, parent |-> parent, supersedes |-> None,
                      supersededBy |-> None]
             reasons == IF Mem!OpenRevisions(sqlite, key) # {} THEN {} ELSE Dangles("contracts", p(sqlite))
             place == Scoped(sqlite, scope, custodian)
  <1>2. Twin(memory, sqlite) /\ Sound(sqlite)
    BY <1>1 DEF Together, Call
  <1>3. checked[memory] = checked[sqlite] /\ p(memory) = p(sqlite)
    BY <1>2, ChecksSame DEF Stores
  <1>4. ASSUME checked[sqlite] = None, reasons = {}
        PROVE  Same(Mem!registerContract(memory, p(memory)), Sql!registerContract(sqlite, p(sqlite)))
    <2>1. validateContractWriteStatus(status) = None /\ requireActiveActor(sqlite, custodian) = None
      BY <1>4 DEF Stores, FirstOf
    <2>2. status \in {None, "draft"}
      BY <2>1, RepositoryParityAssumption DEF validateContractWriteStatus, Refusals
    <2>3. Has(sqlite, "actors", custodian)
      BY <2>1, ActiveActorThere
    <2>4. Mem!OpenRevisions(sqlite, key) = {} =>
              /\ place = None \/ Has(sqlite, "scopes", place)
              /\ domain = None \/ Has(sqlite, "domains", domain)
      <3> HAVE Mem!OpenRevisions(sqlite, key) = {}
      <3>1. ~Sql!Dangling(sqlite, "contracts", p(sqlite))
        BY <1>4 DEF Dangles, Where
      <3>2. p(sqlite).scope = place /\ p(sqlite).domain = domain
        OBVIOUS
      <3> HIDE DEF p, place
      <3>3. QED BY <3>1, <3>2, ContractDangles
    <2> HIDE DEF place
    <2>5. p(sqlite) = [key |-> key, scope |-> place, domain |-> domain, status |-> status, version |-> 1,
                       custodian |-> custodian, parent |-> parent, supersedes |-> None, supersededBy |-> None]
      BY DEF place
    <2> HIDE DEF p
    <2>6. QED BY <1>2, <1>3, <2>2, <2>3, <2>4, <2>5, RegisterContractSame, Zenon
  <1> HIDE DEF p, checked, reasons
  <1>5. Call(checked, Mem!registerContract(memory, p(memory)), Sql!registerContract(sqlite, p(sqlite)), reasons)
    BY <1>1, Zenon DEF p, checked, reasons
  <1>6. QED BY <1>3, <1>4, <1>5, CallTogether

LEMMA SupersedeContractTogether ==
    ASSUME Together, supersedeContract
    PROVE  Together'
  <1>1. PICK id \in {1, 2, Unknown}, domain \in {None, 1, Unknown}, governing \in {None, "none"},
             status \in {None, "draft", "retired"}, custodian \in {1, 2} :
            LET checked == [s \in Stores |->
                    FirstOf(validateContractWriteStatus(status),
                            FirstOf(requireActiveActor(s, custodian), validateReferences(s, domain, governing)))]
                p == [status |-> status, domain |-> domain, custodian |-> custodian]
            IN  Call(checked, Mem!supersedeContract(memory, id, p), Sql!supersedeContract(sqlite, id, p), {})
    BY DEF supersedeContract
  <1> DEFINE checked == [s \in Stores |->
                 FirstOf(validateContractWriteStatus(status),
                         FirstOf(requireActiveActor(s, custodian), validateReferences(s, domain, governing)))]
             p == [status |-> status, domain |-> domain, custodian |-> custodian]
  <1>2. Twin(memory, sqlite) /\ Sound(sqlite)
    BY <1>1 DEF Together, Call
  <1>3. checked[memory] = checked[sqlite]
    BY <1>2, ChecksSame DEF Stores
  <1>4. ASSUME checked[sqlite] = None
        PROVE  Same(Mem!supersedeContract(memory, id, p), Sql!supersedeContract(sqlite, id, p))
    <2>1. /\ validateContractWriteStatus(status) = None /\ requireActiveActor(sqlite, custodian) = None
          /\ validateReferences(sqlite, domain, governing) = None
      BY <1>4 DEF Stores, FirstOf
    <2>2. status \in {None, "draft"}
      BY <2>1, RepositoryParityAssumption DEF validateContractWriteStatus, Refusals
    <2>3. Has(sqlite, "actors", custodian)
      BY <2>1, ActiveActorThere
    <2>4. domain = None \/ Has(sqlite, "domains", domain)
      BY <2>1, RepositoryParityAssumption DEF validateReferences, FirstOf, validateOptionalDomain, Refusals
    <2>5. QED BY <1>2, <2>2, <2>3, <2>4, SupersedeContractSame, Zenon
  <1> HIDE DEF p, checked
  <1>5. Call(checked, Mem!supersedeContract(memory, id, p), Sql!supersedeContract(sqlite, id, p), {})
    BY <1>1, Zenon DEF p, checked
  <1>6. QED BY <1>3, <1>4, <1>5, CallTogether

-----------------------------------------------------------------------------
(* Theorems                                                                *)

\* Until a call strays the two stores are twins and what they hold is sound, and the last call was
\* answered alike: the inductive invariant.
THEOREM StoresStayTogether == Spec => []Together
  <1>1. Init => Together
    <2>1. Twin(Beginning, Beginning)
      BY BeginningShaped DEF Twin
    <2>2. QED BY <2>1, BeginningSound DEF Init, Together
  <1>2. Together /\ [Next]_vars => Together'
    <2> SUFFICES ASSUME Together, [Next]_vars
                 PROVE  Together'
      OBVIOUS
    <2>1. CASE registerIntent \/ updateIntent
      BY <2>1, RegisterIntentTogether, UpdateIntentTogether
    <2>2. CASE registerInterpretation \/ updateInterpretation \/ supersedeInterpretation
      BY <2>2, RegisterInterpretationTogether, UpdateInterpretationTogether, SupersedeInterpretationTogether
    <2>3. CASE logAction \/ claim \/ releaseClaim \/ registerExpertise \/ registerReport
      BY <2>3, LogActionTogether, ClaimTogether, ReleaseClaimTogether, RegisterExpertiseTogether, RegisterReportTogether
    <2>4. CASE registerScope \/ registerDomain \/ registerActor \/ updateActor \/ registerRole
      BY <2>4, RegisterScopeTogether, RegisterDomainTogether, RegisterActorTogether, UpdateActorTogether,
         RegisterRoleTogether
    <2>5. CASE bindActorRole \/ openActorSession \/ heartbeatActorSession \/ closeActorSession
      BY <2>5, BindActorRoleTogether, OpenActorSessionTogether, HeartbeatActorSessionTogether, CloseActorSessionTogether
    <2>6. CASE registerContract \/ supersedeContract
      BY <2>6, RegisterContractTogether, SupersedeContractTogether
    <2>7. CASE UNCHANGED vars
      BY <2>7 DEF Together, vars
    <2>8. QED BY <2>1, <2>2, <2>3, <2>4, <2>5, <2>6, <2>7 DEF Next
  <1>3. QED BY <1>1, <1>2, PTL DEF Spec

\* Whatever has been called, and however often, both repositories answered the last call alike and
\* answer every read alike, unless the last call met one of the reasons named for straying.
THEOREM RepositoriesAgree == Spec => []AnswersAgree
  <1>1. Together => AnswersAgree
    BY ReadsSame DEF Together, Alike, AnswersAgree
  <1>2. QED BY <1>1, StoresStayTogether, PTL
================================================================================
