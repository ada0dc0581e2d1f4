--------------------------- MODULE SqliteRepository -----------------------------
(***************************************************************************)
(* SqliteGovernanceRepository, one call at a time: every operation as a    *)
(* function of the store to the store it leaves and the answer it gives.   *)
(* Statements commit one by one, so a call that throws keeps the writes    *)
(* before the throw; the foreign keys, unique columns and upserts of the   *)
(* schema decide what is refused and what is overwritten.                  *)
(***************************************************************************)
EXTENDS RepositoryData

Throw(s) == Error(s, "THROWN")

-----------------------------------------------------------------------------
(* The schema: references, unique columns, and inserting under them *)

ForeignKeys ==
    [domains |-> [scope |-> "scopes"],
     actors |-> [scope |-> "scopes"],
     roles |-> <<>>,
     contracts |-> [scope |-> "scopes", domain |-> "domains", custodian |-> "actors",
                    supersedes |-> "contracts", supersededBy |-> "contracts"],
     bindings |-> [actor |-> "actors", role |-> "roles"],
     sessions |-> [actor |-> "actors"],
     intents |-> [scope |-> "scopes", addressed |-> "actors", parent |-> "intents"],
     interpretations |-> [intent |-> "intents", domain |-> "domains", actor |-> "actors",
                          resolver |-> "actors", supersededBy |-> "interpretations"],
     actions |-> [intent |-> "intents", interpretation |-> "interpretations", actor |-> "actors",
                  domain |-> "domains"],
     signals |-> [intent |-> "intents", domain |-> "domains", actor |-> "actors"],
     claims |-> [actor |-> "actors"],
     reports |-> [scope |-> "scopes", actor |-> "actors", domain |-> "domains", intent |-> "intents"],
     events |-> [actor |-> "actors"]]

UniqueColumns ==
    [t \in Tables |-> CASE t \in {"actors", "roles"} -> {"name"}
                        [] t = "domains" -> {"scope", "name"}
                        [] t = "contracts" -> {"key", "version"}
                        [] t = "bindings" -> {"actor", "role", "surface", "credential"}
                        [] t = "sessions" -> {"actor", "ref"}
                        [] OTHER -> {}]

\* Two NULLs are not equal
Conflicting(s, t, row) ==
    LET columns == UniqueColumns[t]
    IN IF columns = {} \/ None \in {row[f] : f \in columns} THEN {}
       ELSE With(s, t, [f \in columns |-> row[f]])

\* Mutation: a connection that has not turned its foreign keys on
DanglingUnenforced(s, t, row) == FALSE

Dangling(s, t, row) ==
    LET references == ForeignKeys[t]
    IN \E f \in DOMAIN references : row[f] # None /\ ~Has(s, references[f], row[f])

\* The partial unique index on the keys of open contracts
OpenKeyTaken(s, t, row) ==
    /\ t = "contracts"
    /\ \E id \in With(s, t, [key |-> row.key]) : {Row(s, t, id).status, row.status} \subseteq Open

Refuses(s, t, row) == Dangling(s, t, row) \/ Conflicting(s, t, row) # {} \/ OpenKeyTaken(s, t, row)

Refused(s, t, id, row) ==
    \/ Dangling(s, t, row)
    \/ Conflicting(s, t, row) \ {id} # {}

\* INSERT ... ON CONFLICT DO UPDATE: the row it updates costs an id all the same
Upsert(s, t, row, updated) ==
    LET existing == Conflicting(s, t, row)
        id == Least(existing)
    IN IF existing = {} THEN Insert(s, t, row)
       ELSE [Change(s, t, id, Merge(Row(s, t, id), [f \in updated |-> row[f]])) EXCEPT ![t].next = @ + 1]

emitEvent(s, event) == IF Dangling(s, "events", event) THEN Throw(s) ELSE Answer(Insert(s, "events", event), event)

\* A write followed by its event and the row read back
Announced(s, event, t, id) ==
    LET emitted == emitEvent(s, event)
    IN IF emitted = Throw(s) THEN emitted ELSE Ok(emitted.store, t, id)

Recorded(s, t, row, event) ==
    LET id == s[t].next
    IN IF Refuses(s, t, row) THEN Throw(s) ELSE Announced(Insert(s, t, row), event, t, id)

Created(s, t, row) == IF Refuses(s, t, row) THEN Throw(s) ELSE Ok(Insert(s, t, row), t, s[t].next)

-----------------------------------------------------------------------------
(* Intents *)

\* requireActor throws once the row is written
createIntent(s, p, actor) ==
    LET id == s.intents.next
        row == [scope |-> p.scope, parent |-> p.parent, addressed |-> p.addressed,
                status |-> Given(p.status, "draft"), version |-> 1]
        stored == Insert(s, "intents", row)
    IN CASE Refuses(s, "intents", row) -> Throw(s)
         [] ~Refuses(s, "intents", row) /\ actor = None -> Throw(stored)
         [] OTHER -> Announced(stored, Event("intent_created", "intents", id, actor, p.scope), "intents", id)

getIntent(s, id) ==
    IF ~Has(s, "intents", id) THEN None
    ELSE [intent |-> Row(s, "intents", id),
          interpretations |-> Cardinality(With(s, "interpretations", [intent |-> id])),
          signals |-> With(s, "signals", [intent |-> id]),
          claims |-> With(s, "claims", [table |-> "intents", entity |-> id, status |-> "active"])]

updateIntent(s, id, updates, actor) ==
    IF ~Has(s, "intents", id) THEN Error(s, "NOT_FOUND")
    ELSE LET row == Row(s, "intents", id)
             new == [Merge(row, updates) EXCEPT !.version = row.version + 1]
             stored == Change(s, "intents", id, new)
         IN CASE Refused(s, "intents", id, new) -> Throw(s)
              [] ~Refused(s, "intents", id, new) /\ actor = None -> Throw(stored)
              [] OTHER -> Announced(stored, Event("intent_updated", "intents", id, actor, row.scope), "intents", id)

listIntents(s, f) == Filtered(s, "intents", f)

-----------------------------------------------------------------------------
(* Interpretations *)

createInterpretation(s, p) ==
    Recorded(s, "interpretations",
             [intent |-> p.intent, domain |-> p.domain, actor |-> p.actor, resolver |-> p.resolver,
              source |-> p.source, status |-> Given(p.status, "clarifying"), alignment |-> "uncertain", supersededBy |-> None],
             Event("interpretation_filed", "interpretations", s.interpretations.next, p.actor, "default"))

\* The actions of the interpretation among those of its intent
getInterpretation(s, id) ==
    LET row == Find(s, "interpretations", id)
    IN IF row = None THEN None
       ELSE [row |-> row, intent |-> Row(s, "intents", row.intent),
             actions |-> With(s, "actions", [intent |-> row.intent, interpretation |-> id])]

\* The event of an update no actor is named for is the interpretation's actor's
updateInterpretation(s, id, updates, actor) ==
    IF ~Has(s, "interpretations", id) THEN Error(s, "NOT_FOUND")
    ELSE LET row == Row(s, "interpretations", id)
             new == Merge(row, updates)
         IN IF Refused(s, "interpretations", id, new) THEN Throw(s)
            ELSE Announced(Change(s, "interpretations", id, new),
                           Event("interpretation_updated", "interpretations", id, Given(actor, row.actor), "default"),
                           "interpretations", id)

\* The references are those of a row that is there: nothing in the transaction can be refused
supersedeInterpretation(s, id, newStatus) ==
    IF ~Has(s, "interpretations", id) THEN Error(s, "NOT_FOUND")
    ELSE LET row == Row(s, "interpretations", id)
             new == s.interpretations.next
             replacement == [row EXCEPT !.alignment = "uncertain", !.status = Given(newStatus, "clarifying"),
                                        !.resolver = None, !.supersededBy = None]
             old == [row EXCEPT !.status = "superseded", !.alignment = "superseded", !.supersededBy = new]
             stored == Change(Insert(s, "interpretations", replacement), "interpretations", id, old)
             marked == emitEvent(stored, Event("interpretation_superseded", "interpretations", id, row.actor, "default"))
             filed == emitEvent(marked.store, Event("interpretation_filed", "interpretations", new, row.actor, "default"))
         IN Answer(filed.store, [old |-> old, replacement |-> replacement])

listInterpretations(s, f) == Filtered(s, "interpretations", f)

-----------------------------------------------------------------------------
(* Actions, claims, expertise signals and reports *)

logAction(s, p) ==
    Recorded(s, "actions", p, Event("action_logged", "actions", s.actions.next, p.actor, "default"))

getAction(s, id) == Find(s, "actions", id)
listActions(s, f) == Filtered(s, "actions", f)

acquireClaim(s, t, entity, actor) ==
    Recorded(s, "claims", [table |-> t, entity |-> entity, actor |-> actor, status |-> "active"],
             Event("claim_acquired", t, entity, actor, "default"))

releaseClaim(s, id) ==
    IF ~Has(s, "claims", id) THEN Error(s, "NOT_FOUND")
    ELSE IF Row(s, "claims", id).status = "released" THEN Error(s, "INVALID_TRANSITION")
    ELSE LET claim == Row(s, "claims", id)
         IN Announced(Change(s, "claims", id, [claim EXCEPT !.status = "released"]),
                      Event("claim_released", claim.table, claim.entity, claim.actor, "default"), "claims", id)

listClaims(s, f) == Filtered(s, "claims", f)

registerExpertiseSignal(s, p) ==
    Recorded(s, "signals", p, Event("expertise_signal_registered", "expertise_signals", s.signals.next, p.actor, "default"))

listExpertiseSignals(s, intent) == Filtered(s, "signals", [intent |-> intent])

registerReport(s, p) ==
    Recorded(s, "reports", p, Event("report_created", "reports", s.reports.next, p.actor, p.scope))

getReport(s, id) == Find(s, "reports", id)
listReports(s, f) == Filtered(s, "reports", f)
listEvents(s, f) == Filtered(s, "events", f)

-----------------------------------------------------------------------------
(* Scopes, domains, actors, roles, bindings and sessions *)

registerScope(s, scope) == Answer([s EXCEPT !.scopes.rows = Put(@, scope, TRUE)], [scope |-> scope])
listScopes(s) == DOMAIN s.scopes.rows

registerDomain(s, p) == Created(s, "domains", p)
listDomains(s) == Filtered(s, "domains", <<>>)

registerActor(s, p) == Created(s, "actors", [p EXCEPT !.status = Given(@, "active")])

updateActor(s, id, updates) ==
    IF ~Has(s, "actors", id) THEN Error(s, "NOT_FOUND")
    ELSE LET new == Merge(Row(s, "actors", id), updates)
         IN IF Refused(s, "actors", id, new) THEN Throw(s) ELSE Ok(Change(s, "actors", id, new), "actors", id)

getActorByName(s, name) ==
    LET named == With(s, "actors", [name |-> name]) IN IF named = {} THEN None ELSE Row(s, "actors", Least(named))

listActors(s, f) == Filtered(s, "actors", f)

registerRole(s, p) ==
    LET stored == Upsert(s, "roles", [p EXCEPT !.status = Given(@, "active")], {"status", "policy"})
    IN Ok(stored, "roles", Least(With(stored, "roles", [name |-> p.name])))

getRoleByName(s, name) ==
    LET named == With(s, "roles", [name |-> name]) IN IF named = {} THEN None ELSE Row(s, "roles", Least(named))

listRoles(s, f) == Filtered(s, "roles", f)

\* Mutation: rebinding leaves the status as it was
bindActorRoleKeepingStatus(s, p) ==
    LET row == [p EXCEPT !.status = Given(@, "active")]
        stored == Upsert(s, "bindings", row, {"provider"})
    IN IF Dangling(s, "bindings", row) THEN Throw(s)
       ELSE Ok(stored, "bindings", Least(With(stored, "bindings", [actor |-> p.actor, role |-> p.role,
                                              surface |-> p.surface, credential |-> p.credential])))

\* The row read back is the first with these columns, an older one if the credential is NULL
bindActorRole(s, p) ==
    LET row == [p EXCEPT !.status = Given(@, "active")]
        stored == Upsert(s, "bindings", row, {"provider", "status"})
    IN IF Dangling(s, "bindings", row) THEN Throw(s)
       ELSE Ok(stored, "bindings", Least(With(stored, "bindings", [actor |-> p.actor, role |-> p.role,
                                              surface |-> p.surface, credential |-> p.credential])))

listActorRoleBindings(s, f) == Filtered(s, "bindings", f)

openActorSession(s, p) ==
    LET stored == Upsert(s, "sessions", p, {"status", "surface", "provider", "transcript"})
    IN IF Dangling(s, "sessions", p) THEN Throw(s)
       ELSE Ok(stored, "sessions", Least(With(stored, "sessions", [actor |-> p.actor, ref |-> p.ref])))

ActiveSession(s, actor, ref) == With(s, "sessions", [actor |-> actor, ref |-> ref, status |-> "active"])

heartbeatActorSession(s, ref, actor) ==
    LET active == ActiveSession(s, actor, ref)
    IN IF active = {} THEN Error(s, "NOT_FOUND") ELSE Ok(s, "sessions", Least(active))

closeActorSession(s, ref, actor) ==
    LET active == ActiveSession(s, actor, ref)
    IN IF active = {} THEN Error(s, "NOT_FOUND")
       ELSE Ok([s EXCEPT !.sessions.rows[Least(active)].status = "closed"], "sessions", Least(active))

listActorSessions(s, f) == Filtered(s, "sessions", f)

-----------------------------------------------------------------------------
(* Contracts *)

registerContract(s, p) ==
    IF \E id \in With(s, "contracts", [key |-> p.key]) : Row(s, "contracts", id).status \in Open
    THEN Error(s, "CONFLICT")
    ELSE Recorded(s, "contracts",
                  [p EXCEPT !.status = Given(@, "active"), !.version = Given(@, 1)],
                  Event("contract_registered", "contracts", s.contracts.next, p.custodian, p.scope))

getContractByKey(s, key, status) ==
    LET found == With(s, "contracts", [key |-> key, status |-> Given(status, "active")])
    IN IF found = {} THEN None
       ELSE CHOOSE c \in {Row(s, "contracts", id) : id \in found} :
                \A id \in found : Row(s, "contracts", id).version <= c.version

listContracts(s, f) == Filtered(s, "contracts", f)

\* A refused insert rolls the transaction back and is answered as INVALID_STATE
supersedeContract(s, id, p) ==
    IF ~Has(s, "contracts", id) THEN Error(s, "NOT_FOUND")
    ELSE LET current == Row(s, "contracts", id)
             new == s.contracts.next
             closed == [current EXCEPT !.status = "superseded"]
             replacement == [current EXCEPT !.status = Given(p.status, "active"), !.version = @ + 1,
                                            !.domain = Given(p.domain, @), !.custodian = p.custodian,
                                            !.supersedes = id, !.supersededBy = None]
             old == [closed EXCEPT !.supersededBy = new]
             marked == Change(s, "contracts", id, closed)
             stored == Change(Insert(marked, "contracts", replacement), "contracts", id, old)
             superseded == emitEvent(stored, Event("contract_superseded", "contracts", id, p.custodian, current.scope))
             registered == emitEvent(superseded.store,
                                     Event("contract_registered", "contracts", new, p.custodian, current.scope))
         IN CASE current.status \notin Open -> Error(s, "INVALID_TRANSITION")
              [] current.status \in Open /\ Refuses(marked, "contracts", replacement) -> Error(s, "INVALID_STATE")
              [] OTHER -> Answer(registered.store, [old |-> old, replacement |-> replacement])
================================================================================
