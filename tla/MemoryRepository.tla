--------------------------- MODULE MemoryRepository -----------------------------
(***************************************************************************)
(* InMemoryGovernanceRepository: every operation as a function of the      *)
(* store to the store it leaves and the answer it gives.  It checks no     *)
(* reference and no name, and cannot fail half way.                        *)
(***************************************************************************)
EXTENDS RepositoryData

emitEvent(s, event) == Insert(s, "events", event)

Recorded(s, t, row, event) ==
    LET id == s[t].next IN Ok(emitEvent(Insert(s, t, row), event), t, id)

-----------------------------------------------------------------------------
(* Intents *)

createIntent(s, p, actor) ==
    LET id == s.intents.next
        stored == Insert(s, "intents", [scope |-> p.scope, parent |-> p.parent, addressed |-> p.addressed,
                                        status |-> Given(p.status, "draft"), version |-> 1])
    IN Ok(IF actor = None THEN stored
          ELSE emitEvent(stored, Event("intent_created", "intents", id, actor, "default")), "intents", id)

getIntent(s, id) ==
    IF ~Has(s, "intents", id) THEN None
    ELSE [intent |-> Row(s, "intents", id),
          interpretations |-> Cardinality(With(s, "interpretations", [intent |-> id])),
          signals |-> With(s, "signals", [intent |-> id]),
          claims |-> With(s, "claims", [table |-> "intents", entity |-> id, status |-> "active"])]

updateIntent(s, id, updates, actor) ==
    IF ~Has(s, "intents", id) THEN Error(s, "NOT_FOUND")
    ELSE LET row == Row(s, "intents", id)
             stored == Change(s, "intents", id, [Merge(row, updates) EXCEPT !.version = row.version + 1])
         IN Ok(IF actor = None THEN stored
               ELSE emitEvent(stored, Event("intent_updated", "intents", id, actor, "default")), "intents", id)

listIntents(s, f) == Filtered(s, "intents", f)

-----------------------------------------------------------------------------
(* Interpretations *)

createInterpretation(s, p) ==
    Recorded(s, "interpretations",
             [intent |-> p.intent, domain |-> p.domain, actor |-> p.actor, resolver |-> p.resolver,
              source |-> p.source, status |-> Given(p.status, "clarifying"), alignment |-> "uncertain", supersededBy |-> None],
             Event("interpretation_filed", "interpretations", s.interpretations.next, p.actor, "default"))

getInterpretation(s, id) ==
    LET row == Find(s, "interpretations", id)
    IN IF row = None THEN None
       ELSE IF ~Has(s, "intents", row.intent) THEN None
       ELSE [row |-> row, intent |-> Row(s, "intents", row.intent),
             actions |-> With(s, "actions", [interpretation |-> id])]

updateInterpretation(s, id, updates, actor) ==
    IF ~Has(s, "interpretations", id) THEN Error(s, "NOT_FOUND")
    ELSE LET stored == Change(s, "interpretations", id, Merge(Row(s, "interpretations", id), updates))
         IN Ok(IF actor = None THEN stored
               ELSE emitEvent(stored, Event("interpretation_updated", "interpretations", id, actor, "default")),
               "interpretations", id)

supersedeInterpretation(s, id, newStatus) ==
    IF ~Has(s, "interpretations", id) THEN Error(s, "NOT_FOUND")
    ELSE LET row == Row(s, "interpretations", id)
             new == s.interpretations.next
             replacement == [row EXCEPT !.source = None, !.resolver = None, !.status = Given(newStatus, "clarifying"),
                                        !.alignment = "uncertain", !.supersededBy = None]
             old == [row EXCEPT !.status = "superseded", !.alignment = "superseded", !.supersededBy = new]
             stored == Change(Insert(s, "interpretations", replacement), "interpretations", id, old)
             marked == emitEvent(stored, Event("interpretation_superseded", "interpretations", id, row.actor, "default"))
         IN Answer(emitEvent(marked, Event("interpretation_filed", "interpretations", new, row.actor, "default")),
                   [old |-> old, replacement |-> replacement])

listInterpretations(s, f) == Filtered(s, "interpretations", f)

-----------------------------------------------------------------------------
(* Actions, claims, expertise signals and reports *)

logAction(s, p) ==
    Recorded(s, "actions", p, Event("action_logged", "actions", s.actions.next, p.actor, "default"))

getAction(s, id) == Find(s, "actions", id)
listActions(s, f) == Filtered(s, "actions", f)

acquireClaim(s, t, entity, actor) ==
    Recorded(s, "claims", [table |-> t, entity |-> entity, actor |-> actor, status |-> "active"],
             Event("claim_acquired", t, entity, actor, "default"))

releaseClaim(s, id) ==
    IF ~Has(s, "claims", id) THEN Error(s, "NOT_FOUND")
    ELSE IF Row(s, "claims", id).status # "active" THEN Error(s, "INVALID_TRANSITION")
    ELSE LET claim == Row(s, "claims", id)
         IN Ok(emitEvent(Change(s, "claims", id, [claim EXCEPT !.status = "released"]),
                         Event("claim_released", claim.table, claim.entity, claim.actor, "default")), "claims", id)

listClaims(s, f) == Filtered(s, "claims", f)

registerExpertiseSignal(s, p) ==
    Recorded(s, "signals", p, Event("expertise_signal_registered", "expertise_signals", s.signals.next, p.actor, "default"))

listExpertiseSignals(s, intent) == Filtered(s, "signals", [intent |-> intent])

registerReport(s, p) ==
    Recorded(s, "reports", p, Event("report_created", "reports", s.reports.next, p.actor, p.scope))

getReport(s, id) == Find(s, "reports", id)
listReports(s, f) == Filtered(s, "reports", f)
listEvents(s, f) == Filtered(s, "events", f)

-----------------------------------------------------------------------------
(* Scopes, domains, actors, roles, bindings and sessions *)

registerScope(s, scope) == Answer([s EXCEPT !.scopes.rows = Put(@, scope, TRUE)], [scope |-> scope])
listScopes(s) == DOMAIN s.scopes.rows

Created(s, t, row) == Ok(Insert(s, t, row), t, s[t].next)

registerDomain(s, p) == Created(s, "domains", p)
listDomains(s) == Filtered(s, "domains", <<>>)

registerActor(s, p) == Created(s, "actors", [p EXCEPT !.status = Given(@, "active")])

updateActor(s, id, updates) ==
    IF ~Has(s, "actors", id) THEN Error(s, "NOT_FOUND")
    ELSE Ok(Change(s, "actors", id, Merge(Row(s, "actors", id), updates)), "actors", id)

getActorByName(s, name) ==
    LET named == With(s, "actors", [name |-> name]) IN IF named = {} THEN None ELSE Row(s, "actors", Least(named))

listActors(s, f) == Filtered(s, "actors", f)

registerRole(s, p) == Created(s, "roles", [p EXCEPT !.status = Given(@, "active")])

getRoleByName(s, name) ==
    LET named == With(s, "roles", [name |-> name]) IN IF named = {} THEN None ELSE Row(s, "roles", Least(named))

listRoles(s, f) == Filtered(s, "roles", f)

bindActorRole(s, p) ==
    LET row == [p EXCEPT !.status = Given(@, "active")]
        existing == With(s, "bindings", [actor |-> p.actor, role |-> p.role, surface |-> p.surface,
                                         credential |-> p.credential])
    IN IF existing = {} THEN Created(s, "bindings", row)
       ELSE Ok(Change(s, "bindings", Least(existing), row), "bindings", Least(existing))

listActorRoleBindings(s, f) == Filtered(s, "bindings", f)

ActiveSession(s, actor, ref) == With(s, "sessions", [actor |-> actor, ref |-> ref, status |-> "active"])

openActorSession(s, p) ==
    LET existing == ActiveSession(s, p.actor, p.ref)
    IN IF existing # {} THEN Ok(s, "sessions", Least(existing)) ELSE Created(s, "sessions", p)

heartbeatActorSession(s, ref, actor) ==
    LET active == ActiveSession(s, actor, ref)
    IN IF active = {} THEN Error(s, "NOT_FOUND") ELSE Ok(s, "sessions", Least(active))

closeActorSession(s, ref, actor) ==
    LET active == ActiveSession(s, actor, ref)
    IN IF active = {} THEN Error(s, "NOT_FOUND")
       ELSE Ok([s EXCEPT !.sessions.rows[Least(active)].status = "closed"], "sessions", Least(active))

listActorSessions(s, f) == Filtered(s, "sessions", f)

-----------------------------------------------------------------------------
(* Contracts *)

OpenRevisions(s, key) == {id \in With(s, "contracts", [key |-> key]) : Row(s, "contracts", id).status \in Open}

registerContract(s, p) ==
    IF OpenRevisions(s, p.key) # {} THEN Error(s, "CONFLICT")
    ELSE Recorded(s, "contracts",
                  [p EXCEPT !.status = Given(@, "active"), !.version = Given(@, 1)],
                  Event("contract_registered", "contracts", s.contracts.next, p.custodian, p.scope))

getContractByKey(s, key, status) ==
    LET found == With(s, "contracts", [key |-> key, status |-> Given(status, "active")])
    IN IF found = {} THEN None
       ELSE CHOOSE c \in {Row(s, "contracts", id) : id \in found} :
                \A id \in found : Row(s, "contracts", id).version <= c.version

listContracts(s, f) == Filtered(s, "contracts", f)

supersedeContract(s, id, p) ==
    IF ~Has(s, "contracts", id) THEN Error(s, "NOT_FOUND")
    ELSE LET current == Row(s, "contracts", id)
             new == s.contracts.next
             status == Given(p.status, "active")
             replacement == [current EXCEPT !.status = status, !.version = @ + 1, !.domain = Given(p.domain, @),
                                            !.custodian = p.custodian, !.supersedes = id, !.supersededBy = None]
             old == [current EXCEPT !.status = "superseded", !.supersededBy = new]
             stored == Insert(Change(s, "contracts", id, old), "contracts", replacement)
             marked == emitEvent(stored, Event("contract_superseded", "contracts", id, p.custodian, current.scope))
         IN CASE current.status \notin Open -> Error(s, "INVALID_TRANSITION")
              [] current.status \in Open /\ status \in Open /\ OpenRevisions(s, current.key) \ {id} # {} ->
                     Error(s, "CONFLICT")
              [] OTHER -> Answer(emitEvent(marked, Event("contract_registered", "contracts", new, p.custodian, current.scope)),
                                 [old |-> old, replacement |-> replacement])
================================================================================
