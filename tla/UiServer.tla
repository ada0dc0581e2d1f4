------------------------------- MODULE UiServer --------------------------------
(***************************************************************************)
(* The UI server (cml-ui) as its two pages see it: intents and claims in   *)
(* the repository, the snapshot GET /api/operator-state composes of them,  *)
(* and the routes a page writes through.  Other processes edit the same    *)
(* database.  Interpretations, actions, reports and expertise signals,     *)
(* which pages write through routes of the same form, are left out, and so *)
(* are the focus events.                                                   *)
(***************************************************************************)
EXTENDS Integers, Sequences, FiniteSets

CONSTANTS ListLimit,  \* how many rows a list of the snapshot has at most: 100
          Picks,      \* bound: the statuses that are written
          MaxIntents, \* bound: intents
          MaxClaims,  \* bound: claims
          MaxEdits    \* bound: edits by other processes

Statuses == {"draft", "active", "closed", "superseded"}

ASSUME UiAssumption == /\ {ListLimit, MaxIntents} \subseteq Nat \ {0}
                       /\ Picks \subseteq Statuses
                       /\ {MaxClaims, MaxEdits} \subseteq Nat

VARIABLES status, \* the intents' statuses; "none": no row
          claims, \* the claims, in order of their ids
          edits   \* edits by other processes so far

server == <<status, claims, edits>>

Ids == 1..MaxIntents

Exists(i) == status[i] # "none"

-----------------------------------------------------------------------------
(* Reads *)

\* The active claims on intents, by their ids.
ActiveClaims == {k \in DOMAIN claims : claims[k].active}

\* A list is cut off at its limit.  It is sorted by times in seconds: which rows of
\* one second come first is left open.
Limited(S) == IF Cardinality(S) <= ListLimit THEN {S}
              ELSE {T \in SUBSET S : Cardinality(T) = ListLimit}

WithStatus(s) == {i \in Ids : status[i] = s}

\* The intents of a snapshot: one list for each status.
Listed == {L \in SUBSET {i \in Ids : Exists(i)} :
             \A s \in {status[i] : i \in Ids} \ {"none"} :
                L \cap WithStatus(s) \in Limited(WithStatus(s))}

\* buildOperatorSurfaceState: the lists are read one after the other, with no other
\* request of this process in between.  What another process may write between two
\* of them is left out.
Snapshots == {[intents |-> [i \in L |-> status[i]], claims |-> [k \in C |-> claims[k].intent]] :
                L \in Listed, C \in Limited(ActiveClaims)}

-----------------------------------------------------------------------------
(* Writes *)

\* POST /api/intents, with the status the page asks for.
CreateIntent(i, s) ==
    /\ ~Exists(i) /\ \A k \in 1..(i - 1) : Exists(k)
    /\ status' = [status EXCEPT ![i] = s]
    /\ UNCHANGED <<claims, edits>>

\* PATCH /api/intents/:id
PatchStatus(i, s) ==
    /\ Exists(i)
    /\ status' = [status EXCEPT ![i] = s]
    /\ UNCHANGED <<claims, edits>>

\* POST /api/claims
CreateClaim(i) ==
    /\ Len(claims) < MaxClaims
    /\ claims' = Append(claims, [intent |-> i, active |-> TRUE])
    /\ UNCHANGED <<status, edits>>

\* POST /api/claims/:id/release, which fails if the claim is not active.
ReleaseClaim(k) ==
    /\ k \in ActiveClaims
    /\ claims' = [claims EXCEPT ![k].active = FALSE]
    /\ UNCHANGED <<status, edits>>

\* POST /api/actions
LogAction(i) == status[i] = "active" /\ UNCHANGED server

\* Another process changes an intent's status, or releases a claim.
OtherProcess ==
    /\ edits < MaxEdits
    /\ edits' = edits + 1
    /\ \/ \E i \in Ids, s \in Picks :
             /\ Exists(i) /\ s # status[i]
             /\ status' = [status EXCEPT ![i] = s]
             /\ claims' = claims
       \/ \E k \in ActiveClaims :
             /\ claims' = [claims EXCEPT ![k].active = FALSE]
             /\ status' = status

ServerInit ==
    /\ \E second \in {"draft", "none"} :
         status = [i \in Ids |-> CASE i = 1 -> "active" [] i = 2 -> second [] OTHER -> "none"]
    /\ claims = <<[intent |-> 1, active |-> TRUE]>>
    /\ edits = 0

=============================================================================
