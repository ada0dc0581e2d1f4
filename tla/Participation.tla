----------------------------- MODULE Participation ------------------------------
(***************************************************************************)
(* Who takes part, and how: the actor, its role, bindings, session, claims *)
(* and reports of the SQLite repository, written by the calls of several   *)
(* processes; and `cml init' and `cml contract import', which provision a  *)
(* database in a sequence of such calls.                                   *)
(*                                                                         *)
(* There is one actor name, one role name, one surface and one session     *)
(* reference; a contract is the status of its newest revision (its own     *)
(* steps are those of ContractRegistry, here one).  Statements of one      *)
(* call are steps: another process may come between two of them, and the   *)
(* call may stop there.                                                    *)
(***************************************************************************)
EXTENDS Integers, Sequences, FiniteSets

CONSTANTS Processes,   \* the processes on the database
          Entities,    \* the entities that are claimed
          MaxCalls,    \* bound: calls
          MaxRows      \* bound: rows of a table

ASSUME ParticipationAssumption ==
       MaxCalls \in Nat /\ MaxRows \in Nat /\ IsFiniteSet(Processes)

VARIABLES made,     \* which of the scope, the domain, the actor and the role there are
          contract, \* the contracts: "none", "active" or "draft" is the newest revision
          actor,    \* the actor's row, as far as conditions read it
          bindings, \* rows of the role bound to the actor, by id
          session,  \* the session row
          claims,   \* claims, by id: the entity and the status
          records,  \* reports and expertise signals, by id
          events,   \* how many events there are of a type and an entity
          job,      \* the call a process is in
          calls     \* calls so far

provision == <<made, contract, bindings>>
tables == <<claims, records, events>>
vars == <<provision, actor, session, tables, job, calls>>

-----------------------------------------------------------------------------
(* Types *)

Rows == {"scope", "domain", "actor", "role"}
Contracts == {"root", "actor-type", "imported"}
Credentials == {"null", "key"}

\* What events are of: a claimed entity, a report or an expertise signal.
Event == ({"claim_acquired", "claim_released"} \X Entities)
            \cup ({"report", "signal"} \X (1..MaxRows))
Null == "null"

Idle == [pc |-> "idle", op |-> "none", at |-> 1, failed |-> FALSE, status |-> "same",
         seen |-> "none", credential |-> Null, row |-> 0, reply |-> "none"]

-----------------------------------------------------------------------------
(* Calls *)

Goto(p, pc) == job' = [job EXCEPT ![p].pc = pc]

Answer(p, reply) == job' = [job EXCEPT ![p].pc = "idle", ![p].reply = reply]

\* A call starts, with its parameters.
Call(p, pc, args) ==
    /\ job[p].pc = "idle"
    /\ calls < MaxCalls
    /\ calls' = calls + 1
    /\ job' = [job EXCEPT ![p] = [args EXCEPT !.pc = pc]]
    /\ UNCHANGED <<provision, actor, session, tables>>

StartInit(p) == Call(p, "find", [Idle EXCEPT !.op = "init"])

StartImport(p) == Call(p, "resolve", [Idle EXCEPT !.op = "import"])

\* An update with a status or without one; to retire is an update.
StartUpdate(p) == \E s \in {"same", "active", "inactive"} :
    Call(p, "update_read", [Idle EXCEPT !.op = "update", !.status = s])

StartBind(p) == \E c \in Credentials, s \in {"active", "inactive"} :
    Call(p, "bind_check", [Idle EXCEPT !.op = "bind", !.credential = c, !.status = s])

StartSession(p) ==
    \/ Call(p, "open_check", [Idle EXCEPT !.op = "open"])
    \/ Call(p, "beat_read", [Idle EXCEPT !.op = "heartbeat"])
    \/ Call(p, "close_read", [Idle EXCEPT !.op = "close"])

StartClaim(p) ==
    \/ /\ actor # "none" /\ Len(claims) < MaxRows
       /\ Call(p, "claim_write", [Idle EXCEPT !.op = "claim"])
    \/ \E k \in DOMAIN claims : Call(p, "release_read", [Idle EXCEPT !.op = "release", !.row = k])

StartReport(p) == Len(records) < MaxRows /\ Call(p, "report_check", [Idle EXCEPT !.op = "report"])

StartSignal(p) ==
    /\ actor # "none" /\ Len(records) < MaxRows
    /\ Call(p, "record_write", [Idle EXCEPT !.op = "signal"])

-----------------------------------------------------------------------------
(* Provisioning: the writes *)

registerScope == made' = made \cup {"scope"} /\ UNCHANGED <<contract, actor, bindings>>

registerDomain == made' = made \cup {"domain"} /\ UNCHANGED <<contract, actor, bindings>>

registerActor == made' = made \cup {"actor"} /\ actor' = "active" /\ UNCHANGED <<contract, bindings>>

\* The role is inserted or updated.
registerRole == made' = made \cup {"role"} /\ UNCHANGED <<contract, actor, bindings>>

registerContract(k) == /\ contract' = [contract EXCEPT ![k] = "active"]
                       /\ UNCHANGED <<made, actor, bindings>>

\* A binding with a credential is inserted or updated.  One without is always
\* inserted: the unique index takes every NULL for another value.
bindActorRole(credential, status) ==
    LET same == {k \in DOMAIN bindings : bindings[k].credential = credential}
        row == [credential |-> credential, status |-> status]
    IN  /\ bindings' = IF credential # Null /\ same # {}
                       THEN [k \in DOMAIN bindings |-> IF k \in same THEN row ELSE bindings[k]]
                       ELSE Append(bindings, row)
        /\ Len(bindings') <= MaxRows
        /\ UNCHANGED <<made, contract, actor>>

Write(thing) ==
    \/ thing = "scope" /\ registerScope
    \/ thing = "domain" /\ registerDomain
    \/ thing = "actor" /\ registerActor
    \/ thing = "role" /\ registerRole
    \/ thing \in Contracts /\ registerContract(thing)
    \/ thing = "binding" /\ bindActorRole(Null, "active")

\* The service's checks of a contract: an active custodian and an active parent.  No
\* revision may be open, and version 1 is taken by the first.
ContractAccepted(k, parents) ==
    actor = "active" /\ contract[k] = "none" /\ \A q \in parents : contract[q] = "active"

\* Would the write of a thing succeed?  Names of actors, and of domains in a scope,
\* are unique; a scope that is there is ignored; a role's contract must be active.
Accepted(thing) ==
    /\ thing \in {"domain", "actor"} => thing \notin made
    /\ thing = "root" => ContractAccepted("root", {})
    /\ thing = "actor-type" => ContractAccepted("actor-type", {"root"})
    /\ thing = "imported" => ContractAccepted("imported", {"actor-type"})
    /\ thing = "role" => contract["root"] = "active"

-----------------------------------------------------------------------------
(* Provisioning: the programs *)

InitOrder == <<"scope", "domain", "actor", "root", "actor-type", "role", "binding">>
ImportOrder == <<"imported", "role">>

\* What handleInit takes as there already.
Found(thing) ==
    CASE thing \in Rows      -> thing \in made
      [] thing \in Contracts -> contract[thing] = "active"
      [] OTHER               -> \E k \in DOMAIN bindings : bindings[k].status = "active"

Advance(p, order, failed) ==
    IF job[p].at = Len(order)
    THEN job' = [job EXCEPT ![p].pc = "idle", ![p].reply = IF failed THEN "error" ELSE "ok"]
    ELSE job' = [job EXCEPT ![p].at = @ + 1, ![p].failed = failed,
                            ![p].pc = IF job[p].op = "init" THEN "find" ELSE "import"]

\* Mutation: a database with an actor is taken as provisioned.
InitFindOnce(p) ==
    /\ job[p].pc = "find"
    /\ IF Found(InitOrder[job[p].at])
       THEN IF InitOrder[job[p].at] = "actor" THEN Answer(p, "ok") ELSE Advance(p, InitOrder, FALSE)
       ELSE Goto(p, "make")
    /\ UNCHANGED <<provision, actor, session, tables, calls>>

\* handleInit looks for a thing ...
InitFind(p) ==
    /\ job[p].pc = "find"
    /\ IF Found(InitOrder[job[p].at]) THEN Advance(p, InitOrder, FALSE) ELSE Goto(p, "make")
    /\ UNCHANGED <<provision, actor, session, tables, calls>>

\* ... and makes it if it was not there; what fails ends it.
InitMake(p) ==
    LET thing == InitOrder[job[p].at]
    IN  /\ job[p].pc = "make"
        /\ \/ Accepted(thing) /\ Write(thing) /\ Advance(p, InitOrder, FALSE)
           \/ ~Accepted(thing) /\ Answer(p, "error") /\ UNCHANGED <<provision, actor>>
        /\ UNCHANGED <<session, tables, calls>>

\* The command line resolves its actor, which must be active.
Resolve(p) ==
    /\ job[p].pc = "resolve"
    /\ IF actor = "active" THEN Goto(p, "import") ELSE Answer(p, "error")
    /\ UNCHANGED <<provision, actor, session, tables, calls>>

\* handleContractImport makes each thing of its file, and reports at the end that
\* some were refused.
Import(p) ==
    LET thing == ImportOrder[job[p].at]
    IN  /\ job[p].pc = "import"
        /\ \/ Accepted(thing) /\ Write(thing) /\ Advance(p, ImportOrder, job[p].failed)
           \/ ~Accepted(thing) /\ Advance(p, ImportOrder, TRUE) /\ UNCHANGED <<provision, actor>>
        /\ UNCHANGED <<session, tables, calls>>

\* The open revision of a contract is superseded by an active or a draft one, by a call
\* of ContractRegistry.
supersedeContract == \E k \in Contracts, status \in {"active", "draft"} :
    /\ contract[k] # "none"
    /\ contract' = [contract EXCEPT ![k] = status]
    /\ UNCHANGED <<made, bindings, actor, session, tables, job, calls>>

-----------------------------------------------------------------------------
(* The actor, its bindings and its session *)

\* updateActor and retireActor read the row ...
UpdateRead(p) ==
    /\ job[p].pc = "update_read"
    /\ IF actor = "none" THEN Answer(p, "error")
       ELSE job' = [job EXCEPT ![p].pc = "update_write", ![p].seen = actor]
    /\ UNCHANGED <<provision, actor, session, tables, calls>>

\* Mutation: a status that is not given is the default one, as it is for a new actor.
UpdateWriteDefault(p) ==
    /\ job[p].pc = "update_write"
    /\ actor' = IF job[p].status = "same" THEN "active" ELSE job[p].status
    /\ Answer(p, "ok")
    /\ UNCHANGED <<provision, session, tables, calls>>

\* ... and write all of it: what is not given is what was read.
UpdateWrite(p) ==
    /\ job[p].pc = "update_write"
    /\ actor' = IF job[p].status = "same" THEN job[p].seen ELSE job[p].status
    /\ Answer(p, "ok")
    /\ UNCHANGED <<provision, session, tables, calls>>

BindCheck(p) ==
    /\ job[p].pc = "bind_check"
    /\ IF {"actor", "role"} \subseteq made THEN Goto(p, "bind_write") ELSE Answer(p, "error")
    /\ UNCHANGED <<provision, actor, session, tables, calls>>

BindWrite(p) ==
    /\ job[p].pc = "bind_write"
    /\ bindActorRole(job[p].credential, job[p].status)
    /\ Answer(p, "ok")
    /\ UNCHANGED <<session, tables, calls>>

OpenCheck(p) ==
    /\ job[p].pc = "open_check"
    /\ IF actor = "active" THEN Goto(p, "open_write") ELSE Answer(p, "error")
    /\ UNCHANGED <<provision, actor, session, tables, calls>>

\* Mutation: the end of the session that is opened again is kept.
openActorSessionEnded(p) ==
    /\ job[p].pc = "open_write"
    /\ session' = [session EXCEPT !.status = "active"]
    /\ Answer(p, "ok")
    /\ UNCHANGED <<provision, actor, tables, calls>>

\* The session is inserted, or the row of its reference made active again.
openActorSession(p) ==
    /\ job[p].pc = "open_write"
    /\ session' = [status |-> "active", ended |-> FALSE]
    /\ Answer(p, "ok")
    /\ UNCHANGED <<provision, actor, tables, calls>>

\* heartbeatActorSession and closeActorSession look for the active session.
SessionRead(p) ==
    /\ job[p].pc \in {"beat_read", "close_read"}
    /\ IF session.status # "active" THEN Answer(p, "error")
       ELSE Goto(p, IF job[p].pc = "beat_read" THEN "beat_write" ELSE "close_write")
    /\ UNCHANGED <<provision, actor, session, tables, calls>>

\* A heartbeat writes the time alone.
heartbeatActorSession(p) ==
    /\ job[p].pc = "beat_write"
    /\ Answer(p, "ok")
    /\ UNCHANGED <<provision, actor, session, tables, calls>>

closeActorSession(p) ==
    /\ job[p].pc = "close_write"
    /\ session' = [status |-> "closed", ended |-> TRUE]
    /\ Answer(p, "ok")
    /\ UNCHANGED <<provision, actor, tables, calls>>

-----------------------------------------------------------------------------
(* Claims and records *)

emitEvent(type, entity) == events' = [events EXCEPT ![<<type, entity>>] = @ + 1]

acquireClaim(p) ==
    \/ /\ job[p].pc = "claim_write"
       /\ Len(claims) < MaxRows
       /\ \E x \in Entities : claims' = Append(claims, [entity |-> x, status |-> "active"])
       /\ job' = [job EXCEPT ![p].pc = "claim_event", ![p].row = Len(claims) + 1]
       /\ UNCHANGED <<provision, actor, session, records, events, calls>>
    \/ /\ job[p].pc = "claim_event"
       /\ emitEvent("claim_acquired", claims[job[p].row].entity)
       /\ Answer(p, "ok")
       /\ UNCHANGED <<provision, actor, session, claims, records, calls>>

\* releaseClaim reads the claim ...
ReleaseRead(p) ==
    /\ job[p].pc = "release_read"
    /\ IF claims[job[p].row].status = "released" THEN Answer(p, "error") ELSE Goto(p, "release_write")
    /\ UNCHANGED <<provision, actor, session, tables, calls>>

\* Mutation: the event first.
ReleaseWriteLast(p) ==
    \/ /\ job[p].pc = "release_write"
       /\ emitEvent("claim_released", claims[job[p].row].entity)
       /\ Goto(p, "release_event")
       /\ UNCHANGED <<provision, actor, session, claims, records, calls>>
    \/ /\ job[p].pc = "release_event"
       /\ claims' = [claims EXCEPT ![job[p].row].status = "released"]
       /\ Answer(p, "ok")
       /\ UNCHANGED <<provision, actor, session, records, events, calls>>

\* ... releases it by its id, and records that its entity was released.
ReleaseWrite(p) ==
    \/ /\ job[p].pc = "release_write"
       /\ claims' = [claims EXCEPT ![job[p].row].status = "released"]
       /\ Goto(p, "release_event")
       /\ UNCHANGED <<provision, actor, session, records, events, calls>>
    \/ /\ job[p].pc = "release_event"
       /\ emitEvent("claim_released", claims[job[p].row].entity)
       /\ Answer(p, "ok")
       /\ UNCHANGED <<provision, actor, session, claims, records, calls>>

\* A report's actor is active; an expertise signal's is not asked for.
ReportCheck(p) ==
    /\ job[p].pc = "report_check"
    /\ IF actor = "active" THEN Goto(p, "record_write") ELSE Answer(p, "error")
    /\ UNCHANGED <<provision, actor, session, tables, calls>>

RecordWrite(p) ==
    \/ /\ job[p].pc = "record_write"
       /\ Len(records) < MaxRows
       /\ records' = Append(records, job[p].op)
       /\ job' = [job EXCEPT ![p].pc = "record_event", ![p].row = Len(records) + 1]
       /\ UNCHANGED <<provision, actor, session, claims, events, calls>>
    \/ /\ job[p].pc = "record_event"
       /\ emitEvent(job[p].op, job[p].row)
       /\ Answer(p, "ok")
       /\ UNCHANGED <<provision, actor, session, claims, records, calls>>

\* The process dies, or a statement finds the database locked.
Stop(p) ==
    /\ job[p].pc # "idle"
    /\ Answer(p, "error")
    /\ UNCHANGED <<provision, actor, session, tables, calls>>

-----------------------------------------------------------------------------

\* A new database, or one that an earlier init has provisioned.
Init ==
    /\ \/ /\ made = {} /\ actor = "none" /\ bindings = <<>>
          /\ contract = [k \in Contracts |-> "none"]
       \/ /\ made = Rows /\ actor = "active"
          /\ bindings = <<[credential |-> Null, status |-> "active"]>>
          /\ contract = [k \in Contracts |-> IF k = "imported" THEN "none" ELSE "active"]
    /\ session = [status |-> "none", ended |-> FALSE]
    /\ claims = <<>> /\ records = <<>> /\ events = [e \in Event |-> 0]
    /\ job = [p \in Processes |-> Idle]
    /\ calls = 0

Next ==
    \/ supersedeContract
    \/ \E p \in Processes :
           \/ StartInit(p) \/ StartImport(p) \/ StartUpdate(p) \/ StartBind(p)
           \/ StartSession(p) \/ StartClaim(p) \/ StartReport(p) \/ StartSignal(p)
           \/ Stop(p)
           \/ InitFind(p) \/ InitMake(p) \/ Resolve(p) \/ Import(p)
           \/ UpdateRead(p) \/ UpdateWrite(p) \/ BindCheck(p) \/ BindWrite(p)
           \/ OpenCheck(p) \/ openActorSession(p) \/ SessionRead(p)
           \/ heartbeatActorSession(p) \/ closeActorSession(p)
           \/ acquireClaim(p) \/ ReleaseRead(p) \/ ReleaseWrite(p)
           \/ ReportCheck(p) \/ RecordWrite(p)

Spec == Init /\ [][Next]_vars

-----------------------------------------------------------------------------
(* Properties *)

There(thing) == CASE thing \in Rows      -> thing \in made
                  [] thing \in Contracts -> contract[thing] # "none"
                  [] OTHER               -> bindings # <<>>

\* An init or an import that answers ok leaves nothing of its sequence out, whatever
\* earlier runs have left behind where they stopped, and whatever runs beside it.
ProgramsComplete ==
    \A p \in Processes : job[p].reply = "ok" =>
        /\ job[p].op = "init" => \A k \in DOMAIN InitOrder : There(InitOrder[k])
        /\ job[p].op = "import" => \A k \in DOMAIN ImportOrder : There(ImportOrder[k])

\* The processes whose release of a claim on `x' was answered ok.
Released(x) == {p \in Processes : /\ job[p].op = "release" /\ job[p].reply = "ok"
                                  /\ claims[job[p].row].entity = x}

\* Every release that was answered ok has an event of its own on the claimed entity, and
\* an event that an entity was released is of one with a released claim, wherever other
\* releases stop.
ReleasesRecorded ==
    \A x \in Entities :
        /\ Cardinality(Released(x)) <= events[<<"claim_released", x>>]
        /\ events[<<"claim_released", x>>] > 0 =>
               \E k \in DOMAIN claims : claims[k] = [entity |-> x, status |-> "released"]

\* A session has an end if and only if it is closed, however often its reference is
\* opened again.
SessionEndsWhenClosed == session.ended = (session.status = "closed")

\* An inactive actor becomes active again by an update that says so, or by one that
\* read it while it was active.
ReactivatedKnowingly ==
    [][actor = "inactive" /\ actor' = "active" =>
          \E p \in Processes : /\ job[p].pc = "update_write" /\ job'[p].pc = "idle"
                               /\ job[p].status = "active"
                                  \/ (job[p].status = "same" /\ job[p].seen = "active")]_vars

=============================================================================
