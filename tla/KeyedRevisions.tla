---------------------------- MODULE KeyedRevisions ----------------------------
(***************************************************************************)
(* What the contract registry promises, without requests, rows, races or   *)
(* failures: every key holds one current revision; a key is registered     *)
(* once, under a parent key registered before it, and after that its       *)
(* revision is only ever replaced by the next one, in one step.            *)
(***************************************************************************)
EXTENDS Naturals

CONSTANTS Keys,  \* the contract keys
          Null   \* no parent

VARIABLE head    \* the current revision of each key; version 0: unregistered

Revision == [version : Nat, status : {"draft", "active"},
             parent : Keys \cup {Null}]

Unregistered == [version |-> 0, status |-> "draft", parent |-> Null]

HeadsOK == head \in [Keys -> Revision]

Init == head = [k \in Keys |-> Unregistered]

Registered(k) == head[k].version > 0

\* The first revision of k, at the top of a hierarchy or under a known key.
Register(k, p, s) ==
    /\ ~Registered(k)
    /\ p # Null => Registered(p)
    /\ head' = [head EXCEPT ![k] = [version |-> 1, status |-> s, parent |-> p]]

\* The next revision of k replaces the current one.
Revise(k, s) ==
    /\ Registered(k)
    /\ head' = [head EXCEPT ![k].version = @ + 1, ![k].status = s]

Next == \E k \in Keys, s \in {"draft", "active"} :
            \/ \E p \in Keys \cup {Null} : Register(k, p, s)
            \/ Revise(k, s)

Spec == Init /\ [][Next]_head
=============================================================================
