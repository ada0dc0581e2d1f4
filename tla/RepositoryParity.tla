--------------------------- MODULE RepositoryParity -----------------------------
(***************************************************************************)
(* The governance service over its two repositories.  Every call is made   *)
(* of both, from the same beginning; the in-memory repository, which the   *)
(* tests of the service, the orchestrator and the UI run on, stands for    *)
(* the SQLite one where the answers are the same.  Where they are not is   *)
(* named at the call: the history then strays, and ends.                   *)
(*                                                                         *)
(* Left out: times, reasons and snapshots of events (the memory repository *)
(* keeps no snapshot of an intent or an interpretation), columns nothing   *)
(* reads, what getIntent adds to the row in an answer of the SQLite one,   *)
(* and the order rows are listed in: the memory repository lists them as   *)
(* they came, SQLite newest first, so a page that leaves rows out shows    *)
(* others, and only how many it has is compared.  Callers pass values of   *)
(* the types, so no CHECK of the schema refuses one.                       *)
(***************************************************************************)
EXTENDS RepositoryData, Sequences, FiniteSetsExt

CONSTANT MaxCalls \* bound: calls after the common beginning

Refs == {"first", "second"} \* references of sessions, and credentials
Surfaces == {"cli", "mcp"}

\* The errors of the service's checks
Refusals == {"NOT_FOUND", "ACTOR_INACTIVE", "CONTRACT_NOT_FOUND", "INVALID_PARENT", "PARENT_REQUIRED",
             "PARENT_NOT_FOUND", "INVALID_STATUS", "DOMAIN_NOT_FOUND"}

\* undefined and NULL are no id, no name and no error
ASSUME RepositoryParityAssumption ==
    /\ MaxCalls \in Nat
    /\ None \notin Nat \cup Refs \cup Surfaces \cup Refusals

VARIABLES memory,   \* the store of the in-memory repository
          sqlite,   \* the SQLite database
          answered, \* what each answered to the last call
          strayed,  \* why the last call went apart, if it did
          calls     \* calls so far

vars == <<memory, sqlite, answered, strayed, calls>>

Mem == INSTANCE MemoryRepository
Sql == INSTANCE SqliteRepository

Unknown == 9

-----------------------------------------------------------------------------
(* What the service checks before it calls the repository: None or the error *)

requireActiveActor(s, id) ==
    IF ~Has(s, "actors", id) THEN "NOT_FOUND"
    ELSE IF Row(s, "actors", id).status # "active" THEN "ACTOR_INACTIVE" ELSE None

requireActiveContractKey(s, key) ==
    IF With(s, "contracts", [key |-> key, status |-> "active"]) = {} THEN "CONTRACT_NOT_FOUND" ELSE None

validateOptionalGoverningContractKey(s, key) == IF key = None THEN None ELSE requireActiveContractKey(s, key)

validateOptionalDomain(s, id) == IF id = None \/ Has(s, "domains", id) THEN None ELSE "DOMAIN_NOT_FOUND"

validateContractParent(s, kind, parent) ==
    CASE kind = "root" /\ parent # None -> "INVALID_PARENT"
      [] kind = "root" /\ parent = None -> None
      [] kind # "root" /\ parent = None -> "PARENT_REQUIRED"
      [] OTHER -> IF requireActiveContractKey(s, parent) = None THEN None ELSE "PARENT_NOT_FOUND"

validateContractWriteStatus(status) == IF status \in {"superseded", "retired"} THEN "INVALID_STATUS" ELSE None

FirstOf(a, b) == IF a # None THEN a ELSE b

-----------------------------------------------------------------------------
(* A call of both *)

Served(s, refusal, result) == IF refusal # None THEN Error(s, refusal) ELSE result

Where(condition, reason) == IF condition THEN {reason} ELSE {}

\* ofMemory and ofSqlite are what the repositories return, refusal what the service's checks find
Call(refusal, ofMemory, ofSqlite, reasons) ==
    LET m == Served(memory, refusal[memory], ofMemory)
        q == Served(sqlite, refusal[sqlite], ofSqlite)
    IN /\ strayed = {}
       /\ calls < MaxCalls
       /\ calls' = calls + 1
       /\ memory' = m.store
       /\ sqlite' = q.store
       /\ answered' = [memory |-> m.answer, sqlite |-> q.answer]
       /\ strayed' = IF refusal[sqlite] # None THEN {} ELSE reasons

Stores == {memory, sqlite}

Unchecked == [s \in Stores |-> None]

\* The SQLite repository refuses a row that names another there is not
Dangles(t, row) == Where(Sql!Dangling(sqlite, t, row), "unknown reference")

\* An upsert used an id up
Skips(t) == Where(sqlite[t].next # memory[t].next, "id skipped")

\* What is written is in the scope given, or else its actor's
Scoped(s, scope, actor) == IF scope = None /\ Has(s, "actors", actor) THEN Row(s, "actors", actor).scope ELSE scope

Provided(p) == [f \in {f \in DOMAIN p : p[f] # None} |-> p[f]]

-----------------------------------------------------------------------------
(* Intents and interpretations *)

registerIntent ==
    \E scope \in {None, "other"}, parent \in {None, 1, Unknown}, addressed \in {None, 1},
       status \in {None, "active"}, actor \in {None, 1, Unknown} :
        LET p == [scope |-> Given(scope, "default"), parent |-> parent, addressed |-> addressed, status |-> status]
        IN Call(Unchecked, Mem!createIntent(memory, p, actor), Sql!createIntent(sqlite, p, actor),
                Dangles("intents", p) \cup Dangles("events", [actor |-> actor])
                \cup Where(actor = None, "no actor") \cup Where(scope # None, "scope of the event"))

updateIntent ==
    \E id \in {1, 3, Unknown}, status \in {None, "closed"}, addressed \in {None, 1, Unknown}, actor \in {None, 1, Unknown} :
        LET updates == Provided([status |-> status, addressed |-> addressed])
        IN Call(Unchecked, Mem!updateIntent(memory, id, updates, actor), Sql!updateIntent(sqlite, id, updates, actor),
                IF ~Has(sqlite, "intents", id) THEN {}
                ELSE Where(Unknown \in {addressed, actor}, "unknown reference") \cup Where(actor = None, "no actor")
                     \cup Where(Row(sqlite, "intents", id).scope # "default", "scope of the event"))

registerInterpretation ==
    \E intent \in {1, 2, Unknown}, domain \in {1, Unknown}, actor \in {1, Unknown}, resolver \in {None, 1, Unknown},
       source \in {None, "source"}, status \in {None, "proposed"} :
        LET p == [intent |-> intent, domain |-> domain, actor |-> actor, resolver |-> resolver, source |-> source,
                  status |-> status]
        IN Call(Unchecked, Mem!createInterpretation(memory, p), Sql!createInterpretation(sqlite, p),
                Where(Unknown \in {intent, domain, actor, resolver}, "unknown reference"))

updateInterpretation ==
    \E id \in {1, 2, Unknown}, alignment \in {None, "divergent"}, source \in {None, "source"},
       resolver \in {None, 1, Unknown}, actor \in {None, 1, Unknown} :
        LET updates == Provided([alignment |-> alignment, source |-> source, resolver |-> resolver])
        IN Call(Unchecked, Mem!updateInterpretation(memory, id, updates, actor),
                Sql!updateInterpretation(sqlite, id, updates, actor),
                IF ~Has(sqlite, "interpretations", id) THEN {}
                ELSE Where(actor = None, "no actor") \cup Where(Unknown \in {resolver, actor}, "unknown reference"))

supersedeInterpretation ==
    \E id \in {1, 2, Unknown}, status \in {None, "proposed"} :
        Call(Unchecked, Mem!supersedeInterpretation(memory, id, status), Sql!supersedeInterpretation(sqlite, id, status),
             IF ~Has(sqlite, "interpretations", id) THEN {}
             ELSE Where(Row(sqlite, "interpretations", id).source # None, "source dropped"))

-----------------------------------------------------------------------------
(* Actions, claims, expertise signals and reports *)

\* The contract an action is governed by is its actor's unless one is given
logAction ==
    \E intent \in {1, 2, Unknown}, interpretation \in {None, 1, Unknown}, actor \in {1, 2}, domain \in {None, 1, Unknown},
       key \in {None, "root", "none"} :
        LET governing(s) == IF key = None /\ Has(s, "actors", actor) THEN Row(s, "actors", actor).key ELSE key
            checked == [s \in Stores |-> FirstOf(validateOptionalDomain(s, domain),
                                                 validateOptionalGoverningContractKey(s, governing(s)))]
            p(s) == [intent |-> intent, interpretation |-> interpretation, actor |-> actor, domain |-> domain,
                     key |-> governing(s)]
        IN Call(checked, Mem!logAction(memory, p(memory)), Sql!logAction(sqlite, p(sqlite)),
                Dangles("actions", p(sqlite))
                \cup Where(/\ Has(sqlite, "interpretations", interpretation)
                           /\ Row(sqlite, "interpretations", interpretation).intent # intent, "another intent"))

claim ==
    \E entity \in {1, Unknown}, actor \in {1, Unknown} :
        Call(Unchecked, Mem!acquireClaim(memory, "intents", entity, actor),
             Sql!acquireClaim(sqlite, "intents", entity, actor), Where(actor = Unknown, "unknown reference"))

releaseClaim ==
    \E id \in {1, Unknown} : Call(Unchecked, Mem!releaseClaim(memory, id), Sql!releaseClaim(sqlite, id), {})

registerExpertise ==
    \E intent \in {1, Unknown}, domain \in {1, Unknown}, actor \in {1, Unknown} :
        LET p == [intent |-> intent, domain |-> domain, actor |-> actor]
        IN Call(Unchecked, Mem!registerExpertiseSignal(memory, p), Sql!registerExpertiseSignal(sqlite, p),
                Dangles("signals", p))

registerReport ==
    \E scope \in {None, "other"}, domain \in {None, 1, Unknown}, intent \in {None, 1, Unknown}, actor \in {1, 2, Unknown} :
        LET checked == [s \in Stores |-> requireActiveActor(s, actor)]
            p(s) == [scope |-> Scoped(s, scope, actor), domain |-> domain, intent |-> intent, actor |-> actor]
        IN Call(checked, Mem!registerReport(memory, p(memory)), Sql!registerReport(sqlite, p(sqlite)),
                Dangles("reports", p(sqlite)))

-----------------------------------------------------------------------------
(* Scopes, domains, actors, roles, bindings and sessions *)

registerScope == Call(Unchecked, Mem!registerScope(memory, "other"), Sql!registerScope(sqlite, "other"), {})

registerDomain ==
    \E scope \in {"default", "other"}, name \in {"first", "second"} :
        LET p == [scope |-> scope, name |-> name]
        IN Call(Unchecked, Mem!registerDomain(memory, p), Sql!registerDomain(sqlite, p),
                Dangles("domains", p) \cup Where(With(sqlite, "domains", p) # {}, "name reused"))

\* An actor's key stands for its contract key, or else its default one
registerActor ==
    \E name \in {"ann", "bob"}, scope \in {None, "other"}, key \in {None, "root", "none"} :
        LET checked == [s \in Stores |-> validateOptionalGoverningContractKey(s, key)]
            p == [name |-> name, scope |-> Given(scope, "default"), status |-> None, key |-> key]
        IN Call(checked, Mem!registerActor(memory, p), Sql!registerActor(sqlite, p),
                Dangles("actors", p) \cup Where(With(sqlite, "actors", [name |-> name]) # {}, "name reused"))

\* retireActor among the updates
updateActor ==
    \E id \in {1, 2}, name \in {None, "ann", "eve"}, scope \in {None, "other"}, status \in {None, "retired"},
       key \in {None, "root"} :
        LET checked == [s \in Stores |-> validateOptionalGoverningContractKey(s, key)]
            updates == Provided([name |-> name, scope |-> scope, status |-> status, key |-> key])
        IN Call(checked, Mem!updateActor(memory, id, updates), Sql!updateActor(sqlite, id, updates),
                IF ~Has(sqlite, "actors", id) THEN {}
                ELSE Where(With(sqlite, "actors", [name |-> name]) \ {id} # {}, "name reused")
                     \cup Where(scope # None /\ ~Has(sqlite, "scopes", scope), "unknown reference"))

\* A role's policy stands for the columns beside its status
registerRole ==
    \E name \in {"writer", "reader"}, key \in {None, "none"}, policy \in {None, "policy"} :
        LET checked == [s \in Stores |-> validateOptionalGoverningContractKey(s, key)]
            p == [name |-> name, status |-> None, policy |-> policy]
        IN Call(checked, Mem!registerRole(memory, p), Sql!registerRole(sqlite, p),
                Where(With(sqlite, "roles", [name |-> name]) # {}, "name reused"))

bindActorRole ==
    \E actor \in {1, 2}, role \in {1, Unknown}, credential \in Refs \cup {None}, status \in {None, "retired"} :
        LET checked == [s \in Stores |-> IF Has(s, "actors", actor) /\ Has(s, "roles", role) THEN None ELSE "NOT_FOUND"]
            p == [actor |-> actor, role |-> role, surface |-> "mcp", credential |-> credential,
                  provider |-> "provider", status |-> status]
            same == With(sqlite, "bindings", [actor |-> actor, role |-> role, credential |-> credential])
        IN Call(checked, Mem!bindActorRole(memory, p), Sql!bindActorRole(sqlite, p),
                Where(same # {} /\ credential = None, "bound without a credential")
                \cup (IF same = {} THEN Skips("bindings") ELSE {}))

\* The provider is the one given or else the actor's: any
openActorSession ==
    \E actor \in {1, 2}, ref \in Refs, surface \in Surfaces, provider \in {"provider", "another"},
       transcript \in {None, "transcript"} :
        LET checked == [s \in Stores |-> requireActiveActor(s, actor)]
            p == [actor |-> actor, ref |-> ref, surface |-> surface, provider |-> provider, transcript |-> transcript,
                  status |-> "active"]
            same == With(sqlite, "sessions", [actor |-> actor, ref |-> ref])
        IN Call(checked, Mem!openActorSession(memory, p), Sql!openActorSession(sqlite, p),
                (UNION {Where(Row(sqlite, "sessions", id).status = "closed", "session reopened")
                        \cup Where(\E f \in {"surface", "provider", "transcript"} : Row(sqlite, "sessions", id)[f] # p[f],
                                   "session of another surface, provider or transcript")
                            : id \in same})
                \cup (IF same = {} THEN Skips("sessions") ELSE {}))

heartbeatActorSession ==
    \E actor \in {1, 2}, ref \in Refs :
        Call(Unchecked, Mem!heartbeatActorSession(memory, ref, actor), Sql!heartbeatActorSession(sqlite, ref, actor), {})

closeActorSession ==
    \E actor \in {1, 2}, ref \in Refs :
        Call(Unchecked, Mem!closeActorSession(memory, ref, actor), Sql!closeActorSession(sqlite, ref, actor), {})

-----------------------------------------------------------------------------
(* Contracts *)

\* The two last checks of a contract that is written
validateReferences(s, domain, governing) ==
    FirstOf(validateOptionalDomain(s, domain), validateOptionalGoverningContractKey(s, governing))

\* A key that has an open revision is answered before the row is inserted
registerContract ==
    \E kind \in {"root", "actor"}, key \in {"root", "actor"}, parent \in {None, "root"}, scope \in {None, "other"},
       domain \in {None, 1, Unknown}, governing \in {None, "none"}, status \in {None, "draft", "retired"},
       custodian \in {1, 2} :
        LET checked == [s \in Stores |->
                FirstOf(validateContractWriteStatus(status),
                        FirstOf(requireActiveActor(s, custodian),
                                FirstOf(validateContractParent(s, kind, parent),
                                        validateReferences(s, domain, governing))))]
            p(s) == [key |-> key, scope |-> Scoped(s, scope, custodian), domain |-> domain, status |-> status, version |-> 1,
                     custodian |-> custodian, parent |-> parent, supersedes |-> None, supersededBy |-> None]
        IN Call(checked, Mem!registerContract(memory, p(memory)), Sql!registerContract(sqlite, p(sqlite)),
                IF Mem!OpenRevisions(sqlite, key) # {} THEN {} ELSE Dangles("contracts", p(sqlite)))

supersedeContract ==
    \E id \in {1, 2, Unknown}, domain \in {None, 1, Unknown}, governing \in {None, "none"},
       status \in {None, "draft", "retired"}, custodian \in {1, 2} :
        LET checked == [s \in Stores |->
                FirstOf(validateContractWriteStatus(status),
                        FirstOf(requireActiveActor(s, custodian), validateReferences(s, domain, governing)))]
            p == [status |-> status, domain |-> domain, custodian |-> custodian]
        IN Call(checked, Mem!supersedeContract(memory, id, p), Sql!supersedeContract(sqlite, id, p), {})

-----------------------------------------------------------------------------
(* What the service reads *)

\* A page of a list: how many rows, whether there are more, and the rows if the page has all.
\* Which rows a page that has not all of them shows depends on the order, which is left out.
DefaultLimit == 20
EventLimit == 50
MaxLimit == 100
Paged(rows, page, default) ==
    LET total == Cardinality(DOMAIN rows)
        limit == IF page.limit # None /\ page.limit > 0 THEN Min({page.limit, MaxLimit}) ELSE default
        offset == Given(page.offset, 0)
        has_more == offset + limit < total
    IN [count |-> Max({0, Min({limit, total - offset})}), has_more |-> has_more,
        rows |-> IF offset = 0 /\ ~has_more THEN rows ELSE None]

Pages == [offset : {None, 1}, limit : {None, 1}]

Restricted(rows, column, value) ==
    [id \in {id \in DOMAIN rows : value \in {None, rows[id][column]}} |-> rows[id]]

\* The lists the repositories give, by filter; the filters they do not have are the service's
IntentFilters == [scope : {None, "default"}, status : {None, "draft"}]
listIntents(list, page) ==
    [f \in (DOMAIN list) \X {None, 1} |-> Paged(Restricted(list[f[1]], "addressed", f[2]), page, DefaultLimit)]

\* The intents of a parent, and those of none
Parents == [parent : {1, 2}]
listSubIntents(list, page) == [f \in DOMAIN list |-> Paged(list[f], page, DefaultLimit)]

InterpretationFilters == [intent : {None, 1}, status : {None, "superseded"}]
listInterpretations(list, page) ==
    [f \in (DOMAIN list) \X {None, 1} |-> Paged(Restricted(list[f[1]], "actor", f[2]), page, DefaultLimit)]

ActionFilters == [intent : {None, 1}, key : {None, "root"}]
listActions(list, page) == [f \in DOMAIN list |-> Paged(list[f], page, DefaultLimit)]

ClaimFilters == [table : {None, "intents"}, entity : {None, 1}, status : {None, "active"}]
listClaims(list, page) == [f \in DOMAIN list |-> Paged(list[f], page, DefaultLimit)]

EventFilters == [scope : {None, "default"}, table : {None, "intents"}]
listEvents(list, page) == [f \in DOMAIN list |-> Paged(list[f], page, EventLimit)]

\* The history of an entity is filtered after the list
getEntityHistory(list, page) == [id \in {1, 2} |-> Paged(Restricted(list, "entity", id), page, EventLimit)]

ContractFilters == [key : {None, "root"}, status : {None, "active"}, parent : {None, "root"}]
listContracts(list, page) == [f \in DOMAIN list |-> Paged(list[f], page, DefaultLimit)]

SessionFilters == [actor : {None, 1}, status : {None, "active"}]
listActorSessions(list, page) == [f \in DOMAIN list |-> Paged(list[f], page, DefaultLimit)]

ReportFilters == [scope : {None, "default"}, intent : {None, 1}]
listReports(list, page) == [f \in DOMAIN list |-> Paged(list[f], page, DefaultLimit)]

\* Lists that are not paged, and names that are looked up
StatusFilters == [status : {None, "active"}]
ActorNames == {"ann", "bob", "eve"}
RoleNames == {"writer", "reader"}
ContractsSought == {"root", "actor"} \X {None, "draft"}

Ids == {1, 2, 3, Unknown}

MemoryReads(page) ==
    LET s == memory IN
    <<[id \in Ids |-> Mem!getIntent(s, id)], [id \in Ids |-> Mem!getInterpretation(s, id)],
      [id \in Ids |-> Mem!getAction(s, id)], [id \in Ids |-> Mem!getReport(s, id)],
      listIntents([f \in IntentFilters |-> Mem!listIntents(s, f)], page),
      listSubIntents([f \in Parents |-> Mem!listIntents(s, f)], page),
      listInterpretations([f \in InterpretationFilters |-> Mem!listInterpretations(s, f)], page),
      listActions([f \in ActionFilters |-> Mem!listActions(s, f)], page),
      listClaims([f \in ClaimFilters |-> Mem!listClaims(s, f)], page),
      listEvents([f \in EventFilters |-> Mem!listEvents(s, f)], page),
      getEntityHistory(Mem!listEvents(s, [table |-> "interpretations"]), page),
      listContracts([f \in ContractFilters |-> Mem!listContracts(s, f)], page),
      listActorSessions([f \in SessionFilters |-> Mem!listActorSessions(s, f)], page),
      listReports([f \in ReportFilters |-> Mem!listReports(s, f)], page),
      [name \in ActorNames |-> Mem!getActorByName(s, name)], [name \in RoleNames |-> Mem!getRoleByName(s, name)],
      [f \in ContractsSought |-> Mem!getContractByKey(s, f[1], f[2])],
      [f \in StatusFilters |-> Mem!listActors(s, f)], [f \in StatusFilters |-> Mem!listRoles(s, f)],
      [f \in StatusFilters |-> Mem!listActorRoleBindings(s, f)],
      Mem!listExpertiseSignals(s, 1), Mem!listDomains(s), Mem!listScopes(s)>>

SqliteReads(page) ==
    LET s == sqlite IN
    <<[id \in Ids |-> Sql!getIntent(s, id)], [id \in Ids |-> Sql!getInterpretation(s, id)],
      [id \in Ids |-> Sql!getAction(s, id)], [id \in Ids |-> Sql!getReport(s, id)],
      listIntents([f \in IntentFilters |-> Sql!listIntents(s, f)], page),
      listSubIntents([f \in Parents |-> Sql!listIntents(s, f)], page),
      listInterpretations([f \in InterpretationFilters |-> Sql!listInterpretations(s, f)], page),
      listActions([f \in ActionFilters |-> Sql!listActions(s, f)], page),
      listClaims([f \in ClaimFilters |-> Sql!listClaims(s, f)], page),
      listEvents([f \in EventFilters |-> Sql!listEvents(s, f)], page),
      getEntityHistory(Sql!listEvents(s, [table |-> "interpretations"]), page),
      listContracts([f \in ContractFilters |-> Sql!listContracts(s, f)], page),
      listActorSessions([f \in SessionFilters |-> Sql!listActorSessions(s, f)], page),
      listReports([f \in ReportFilters |-> Sql!listReports(s, f)], page),
      [name \in ActorNames |-> Sql!getActorByName(s, name)], [name \in RoleNames |-> Sql!getRoleByName(s, name)],
      [f \in ContractsSought |-> Sql!getContractByKey(s, f[1], f[2])],
      [f \in StatusFilters |-> Sql!listActors(s, f)], [f \in StatusFilters |-> Sql!listRoles(s, f)],
      [f \in StatusFilters |-> Sql!listActorRoleBindings(s, f)],
      Sql!listExpertiseSignals(s, 1), Sql!listDomains(s), Sql!listScopes(s)>>

-----------------------------------------------------------------------------
(* The common beginning: what `cml init' and a first user leave            *)

Table(rows) == [rows |-> rows, next |-> Len(rows) + 1]

Beginning ==
    [EmptyStore EXCEPT
        !.scopes.rows = Put(<<>>, "default", TRUE),
        !.domains = Table(<<[scope |-> "default", name |-> "first"]>>),
        !.actors = Table(<<[name |-> "ann", scope |-> "default", status |-> "active", key |-> None]>>),
        !.roles = Table(<<[name |-> "writer", status |-> "active", policy |-> None]>>),
        !.contracts = Table(<<[key |-> "root", scope |-> "default", domain |-> None, status |-> "active", version |-> 1,
                               custodian |-> 1, parent |-> None, supersedes |-> None, supersededBy |-> None]>>),
        !.bindings = Table(<<[actor |-> 1, role |-> 1, surface |-> "mcp", credential |-> "first",
                              provider |-> "provider", status |-> "active"]>>),
        !.sessions = Table(<<[actor |-> 1, ref |-> "first", surface |-> "cli", provider |-> "provider",
                              transcript |-> None, status |-> "active"]>>),
        !.intents = Table([id \in {1, 2} |-> [scope |-> "default", parent |-> IF id = 1 THEN None ELSE 1,
                                              addressed |-> None, status |-> "draft", version |-> 1]]),
        !.interpretations = Table(<<[intent |-> 1, domain |-> 1, actor |-> 1, resolver |-> None, source |-> None,
                                     status |-> "clarifying", alignment |-> "uncertain", supersededBy |-> None]>>),
        !.claims = Table(<<[table |-> "intents", entity |-> 1, actor |-> 1, status |-> "active"]>>),
        !.events = Table(<<Event("contract_registered", "contracts", 1, 1, "default"),
                           Event("intent_created", "intents", 1, 1, "default"),
                           Event("intent_created", "intents", 2, 1, "default"),
                           Event("interpretation_filed", "interpretations", 1, 1, "default"),
                           Event("claim_acquired", "intents", 1, 1, "default")>>)]

Init ==
    /\ memory = Beginning
    /\ sqlite = Beginning
    /\ answered = [memory |-> None, sqlite |-> None]
    /\ strayed = {}
    /\ calls = 0

Next ==
    \/ registerIntent \/ updateIntent
    \/ registerInterpretation \/ updateInterpretation \/ supersedeInterpretation
    \/ logAction \/ claim \/ releaseClaim \/ registerExpertise \/ registerReport
    \/ registerScope \/ registerDomain \/ registerActor \/ updateActor \/ registerRole
    \/ bindActorRole \/ openActorSession \/ heartbeatActorSession \/ closeActorSession
    \/ registerContract \/ supersedeContract

Spec == Init /\ [][Next]_vars

-----------------------------------------------------------------------------
(* Properties *)

Alike ==
    /\ answered.memory = answered.sqlite
    /\ \A page \in Pages : MemoryReads(page) = SqliteReads(page)

\* Whatever is called, over either repository the service gives the same answers to the call and
\* to every read after it, unless a call strayed: the reasons named at the calls are all there are.
AnswersAgree == strayed = {} => Alike

\* After a call that strayed they do differ, so no reason is named that is none.
StraysDiffer == strayed # {} => ~Alike
================================================================================
