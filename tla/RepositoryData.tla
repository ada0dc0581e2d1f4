---------------------------- MODULE RepositoryData ------------------------------
(***************************************************************************)
(* The tables both governance repositories keep, and the reads and writes  *)
(* their operations are built from.  A table is a function from ids to     *)
(* rows with the id its next row gets; a row is a record of the columns    *)
(* that conditions, references and filters read.  undefined in the memory  *)
(* repository and NULL in SQLite are both None.                            *)
(***************************************************************************)
EXTENDS Integers, FiniteSets

CONSTANT None

Tables == {"domains", "actors", "roles", "contracts", "bindings", "sessions", "intents",
           "interpretations", "actions", "signals", "claims", "reports", "events"}

EmptyStore == [t \in Tables \cup {"scopes"} |-> [rows |-> <<>>, next |-> 1]]

Has(s, t, id) == id \in DOMAIN s[t].rows
Row(s, t, id) == s[t].rows[id]
Find(s, t, id) == IF Has(s, t, id) THEN Row(s, t, id) ELSE None

Put(f, k, v) == [x \in DOMAIN f \cup {k} |-> IF x = k THEN v ELSE f[x]]
Insert(s, t, row) == [s EXCEPT ![t] = [rows |-> Put(@.rows, @.next, row), next |-> @.next + 1]]
Change(s, t, id, row) == [s EXCEPT ![t].rows[id] = row]

(* { ...row, ...updates } *)
Merge(row, updates) ==
    [f \in DOMAIN row |-> IF f \in DOMAIN updates THEN updates[f] ELSE row[f]]

(* x ?? otherwise *)
Given(x, otherwise) == IF x = None THEN otherwise ELSE x

(* A row's key columns *)
With(s, t, columns) == {id \in DOMAIN s[t].rows : \A f \in DOMAIN columns : Row(s, t, id)[f] = columns[f]}
Least(ids) == CHOOSE id \in ids : \A other \in ids : id <= other

(* The rows a list call's filters let by; a filter that is None was not given *)
Filtered(s, t, filters) ==
    [id \in {id \in DOMAIN s[t].rows :
                 \A f \in DOMAIN filters : filters[f] \in {None, Row(s, t, id)[f]}} |-> Row(s, t, id)]

Open == {"active", "draft"}

Answer(s, a) == [store |-> s, answer |-> a]
Error(s, code) == Answer(s, [error |-> code])
Ok(s, t, id) == Answer(s, [id |-> id, row |-> Row(s, t, id)])

Event(type, t, id, actor, scope) ==
    [type |-> type, table |-> t, entity |-> id, actor |-> actor, scope |-> scope]
================================================================================
