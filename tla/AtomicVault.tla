------------------------------ MODULE AtomicVault ------------------------------
(***************************************************************************)
(* What the vault promises, without requests, mandates, races or failures: *)
(* every mutation happens at most once, in one step, to the vault as it    *)
(* then is, and the log has the mutations in the order they happened.  A   *)
(* file is the sequence of the mutations whose text it holds.              *)
(***************************************************************************)
EXTENDS Integers, Sequences

CONSTANTS Paths,   \* the paths of files
          NoPath   \* no destination

VARIABLES vault,   \* the mutations whose text each file holds; <<>>: no file
          log      \* the mutations that happened

Init == vault = [p \in Paths |-> <<>>] /\ log = <<>>

\* The mutations that happened, by their numbers.
Done == {log[i].op : i \in DOMAIN log}

\* Mutation `o' happens; `new' is the vault it leaves.
Mutate(o, kind, path, to, new) ==
    /\ log' = Append(log, [op |-> o, kind |-> kind, path |-> path, to |-> to])
    /\ vault' = new

Write(o, p) == Mutate(o, "write", p, NoPath, [vault EXCEPT ![p] = <<o>>])

Extend(o, p) == Mutate(o, "append", p, NoPath, [vault EXCEPT ![p] = Append(@, o)])

Delete(o, p) == Mutate(o, "delete", p, NoPath, [vault EXCEPT ![p] = <<>>])

\* There is a file at p, and it replaces the one at q.
Move(o, p, q) ==
    /\ vault[p] # <<>>
    /\ Mutate(o, "move", p, q,
              IF p = q THEN vault ELSE [vault EXCEPT ![q] = vault[p], ![p] = <<>>])

\* A step is one mutation that was not done before.
Next == \E o \in Done' \ Done, p \in Paths :
           \/ Write(o, p) \/ Extend(o, p) \/ Delete(o, p)
           \/ \E q \in Paths : Move(o, p, q)

Spec == Init /\ [][Next]_<<vault, log>>
=============================================================================
