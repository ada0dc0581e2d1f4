# A verified model of the context mediation layer

TLA+ specifications of the context mediation layer (CML), model-checked with TLC and
proved with TLAPS, component by component. Paths are relative to the package in the
repository (`src/governance/service.ts` is the service).

1. The system — 2. The modules — 3. What the runs show — 4. What is proved — 5. Not
modelled — 6. What is left

## 1. The system

CML keeps a governed record of work: *intents*, the *interpretations* actors have of
them, the *actions* taken, *contracts* that govern actors and roles, and a trail of
*events*. Everything durable is in one SQLite file (WAL, foreign keys, no busy timeout).
Several processes share it: each CLI command, the MCP server, the public bridge, the UI
server and SDK users open their own connection; within a process, requests interleave at
every `await`.

| Component | State | Operations | Talks to |
|---|---|---|---|
| Governance service (`governance/service.ts`) | none | validation, then one repository operation | repository |
| SQLite repository (`governance/sqlite-governance-repository.ts`, `schema.ts`) | tables of contracts, intents, interpretations, actions, claims, actors, roles, bindings, sessions, reports, signals, events | per record: create, update, supersede; an event after each | the database file, shared |
| In-memory repository (`governance/repository.ts`) | the same as maps | the same, written a second time | tests |
| Execution orchestrator (`orchestration/execution-orchestrator.ts`) | the locals of each `executeStep` | check mandate, acquire workspace, invoke, fold back, release | repository, workspace service, agent runtime |
| Local workspace service and agent runtime (`runtime/providers/local/`) | maps in memory, directories | create, acquire, release, destroy; invoke, getResult, cancel | orchestrator, operators |
| Vault (`vault/obsidian-vault-service.ts`) with its callers (CLI, SDK, MCP server) | files | write, append, move, delete under an intent, each logged as an action | repository, file system |
| Public bridge (`mcp/public-bridge.ts`) | authorization codes in memory; clients and refresh tokens in a file | register, authorize, exchange, refresh; tool and path policy | MCP server, MCP clients |
| CLI (`cli/index.ts`) | none | `init` and `contract import`, sequences of calls; commands of one call | service, vault |
| UI server and pages (`ui/index.ts`, `ui/runtime.ts`) | the server: none; a page: snapshot, selection, timers, drafts, an undo, an armed button | routes that read and write; gestures, answers, timeouts | service; server |

What is hard, and what makes a component correct:

* **Contracts.** Validation, read, write and events are separate steps; two processes
  may be anywhere in them. Correct: one immutable chain of revisions per key, one open
  revision, no cycle in the hierarchy, a true trail.
* **Intents and interpretations.** Read, merge, write, read back, event. Correct:
  versions name states, snapshots are real states, lineage goes to younger rows;
  acknowledged changes are in the trail.
* **Execution.** Up to fourteen awaits, each write of which may fail, against governance
  edits and operators. Correct: one truthful fold-back per step, no workspace kept, an
  answer in the end.
* **Participation.** Read-then-write by several processes; upserts; programs of seven
  calls that may stop anywhere and are run again. Correct: a program that says ok has
  left nothing out, releases agree with their events, an ended session is a closed one,
  no retired actor returns unasked.
* **Token endpoint.** Single-use codes and rotation over a file that is read and written
  whole by processes that do not lock it. Correct: a code buys one pair, a pair keeps
  its grant.
* **Vault.** The file changes before the action that accounts for it, and the bridge
  judges a path by other rules than the vault resolves it by. Correct: actions are of
  what happened, no piece is lost, the policy holds of the file.
* **UI.** Gestures, answers, timers and other processes in any order. Correct: no
  release without its confirmation, no gesture done twice, own writes visible, drafts
  under their own key.
* **Two repositories.** What is tested runs over one, what is used over the other.
  Correct: the same answers, save where named.

`PROJECT.json` lists every component and, under `hazards`, each place where one of these
bites with the properties that cover it.

## 2. The modules

| Module | Models | Composed of |
|---|---|---|
| `ContractRegistry` | `registerContract`, `supersedeContract`: service validation, repository, events | |
| `KeyedRevisions` | what the registry promises: a current revision per key | refined by `ContractRegistry` |
| `IntentStore` | `createIntent`, `updateIntent` | |
| `InterpretationStore` | `createInterpretation`, `updateInterpretation`, `supersedeInterpretation` | |
| `StepExecution` | `executeStep` with the local workspace service and agent runtime | |
| `Participation` | the actor, its role, bindings, session, claims, reports and signals; `cml init`, `cml contract import` | |
| `PilotOAuth` | the pilot OAuth issuer of the bridge and its store file | |
| `AtomicVault` | what the vault promises: mutations that happen once, in one step each | refined by `VaultMandate` |
| `VaultPaths` | the two readings of a vault path, and the bridge's path policy | |
| `VaultMandate` | mandate, mutation and action, through CLI, SDK and bridge | EXTENDS `VaultPaths` |
| `UiServer` | the UI server's routes, as its pages use them | |
| `MediationCentre` | the script of the Mediation Centre page | EXTENDS `UiServer` |
| `OperatorSidebar` | the script of the operator sidebar | EXTENDS `UiServer` |
| `OperatorPages` | an operator on one of the pages, with others editing the database | both pages and the server |
| `RepositoryData` | tables, rows, filters | |
| `MemoryRepository`, `SqliteRepository` | each operation of one repository as a function of its store | EXTEND `RepositoryData` |
| `RepositoryParity` | the service over both repositories | INSTANCEs both |
| `*_proofs` | theorems (section 4), one module per component; `ContractRegistry_proofs` and `VaultMandate_proofs` also hold the refinements, `HttpSurfaces_proofs` is about `PilotOAuth` and `OperatorPages` | EXTEND their module and TLAPS |
| `MC*` | the symmetry sets and texts of the instances | EXTENDS the module |

### How state and actions correspond to the code

*Stores* (`ContractRegistry`, `IntentStore`, `InterpretationStore`). A variable is a
table, a function of row ids, `rows` of which are in use; `request[c]` holds the locals
of the request client `c` is processing; `pc` is the statement it will execute next. One
action is what runs between two points where others may get in: one statement for
autocommitted SQL, or a whole `BEGIN..COMMIT`, which has no await inside and takes the
write lock at its first statement. `WriteBusy` is a write refused (the lock is held
elsewhere, the disk is full) with the code's own error handling: in a transaction the
rollback, after it an error. `Crash` ends the process of a request.

*`StepExecution`.* A variable is one of the registries, or the trail of one step (the
events that carry its `requestId`), and `step[s]` the locals of one `executeStep`. Steps
of one orchestrator share no state but governance and the crash of their process (each
has its own workspace and invocation). Governance is edited at any time. `stood` and
`lapsed` are history: which parts of its mandate a step has seen stand, and which
lapsed, since it began.

*`Participation`.* `job[p]` is the call process `p` is in; `init` and `import` are calls
too, with `at` their place in the sequence of things to find or make. A contract is the
status of its newest revision: its own steps are those of `ContractRegistry`, here one.
There is one actor name, one role name, one surface and one session reference, since no
statement reads two of them. `Stop` is a death or a refused statement, anywhere.

*`PilotOAuth`.* Once a request body has arrived its handler runs without an await, so
each process has one job at a time; two processes interleave at their reads and writes
of the file. `Truncate` and `Fill` are the two halves of `writeFileSync`; `Torn` is the
file between them. `codes`, `pairs`, `presented`, `redeemed`, `registered` and
`disturbed` are auxiliary: they record what was handed out, and whether a write has met
a file changed under it.

*`VaultMandate`.* A request passes: actor, mandate, the vault's own steps (`append`
looks whether the file exists and then writes; the others are one call of the file
system), and the action. The contract an action is logged under is the call's, else its
actor's, which other calls change meanwhile (`governance`). The profile of the bridge is
a matter of constants: scoped to an actor or not (`BridgeActor`), with a contract key of
its own or not (`BridgeContract`), passing the client's context on or not
(`ClientContext`), with lists of writable paths or all of them writable (`AllWritable`).
A file is the sequence of the pieces written to it; a piece knows its operation and
whether a newline was put before it. A path is a sequence of tokens; `VaultPaths`
translates `safeVaultPath` of the vault and `normalizeVaultPath` of the bridge token by
token, because the bridge forwards the text it was given and not the path it checked.
`AtomicVault` knows operations and files only: `Pieces` forgets the newlines, whose
choice an append makes before it writes, and `Mutations` who asked for what and under
which intent.

*Pages.* `calls[n]` (or `writes[n]`) is the chain of requests the n-th gesture began:
the write, its answer, the read of the state, its answer. A gesture is one action with
everything its handler does before its first await; an answer is one with everything up
to the next. `shown` and `view` are the snapshot a page holds, which may be old;
`status` and `claims` are in the database. `touched` holds the intents whose picker
shows another status than the snapshot, since an earlier change is not answered yet.
Auxiliary are `last` (the release clicked last), `own` and `unsure` (what the page
wrote, and whether answers have overlapped or one was lost), and in the sidebar `typed`,
`expected` and `astray`: for which key a text was typed, what the operator has left
under each, and the keys that a timer or an answer missed or hit by chance.

*Parity.* Every operation is a function from a store to the store it leaves and the
answer it gives; `Call` applies both and compares. Both functions are written from their
own class: `MemoryRepository` from `repository.ts`, `SqliteRepository` from
`sqlite-governance-repository.ts` and the indexes, defaults and foreign keys of
`schema.ts`; the validation before them is the service's. Arguments are of every kind
that makes a difference: given or not, naming a row there is or none, of this scope or
another.

Operators introduced by a comment "Mutation" are variants of the definition below them
that a plausible bug would produce; no specification uses them. They document what each
property is sensitive to (`PROJECT.json`, `mutants`).

**Abstractions.** Columns nothing decides on (titles, bodies, hashes, notes, times) are
left out, or stand together as one (`text` in `IntentStore`). A contract's kind is "root
or not". `retired` contracts are left out: no operation produces one. In
`Participation`, `contract import` imports one contract and one role of it. In
`PilotOAuth` a PKCE challenge is its verifier's hash, so it is the verifier; signed
access tokens are left out, nothing in the issuer reads them back. In `VaultMandate` the
rest of a call's context (`assumedRole`, `invokedSkillRef`, `policyRef`) is payload. In
`UiServer` interpretations, actions, reports and signals are left out: the routes that
write them have the form of the modelled ones, and of an action only the check of its
intent is kept; so is that a refresh which answers with an error empties the sidebar,
and that a snapshot is composed of several reads between which another process may
write. A list of a snapshot has `ListLimit` rows at most, which stands for 100; which
rows a full list has is left to chance, since times of one second are equal. What the
search, the filter and the view make visible is left to chance: any intent of the
snapshot may be a row of the board, or in the drawer. The age of a draft is left to
chance, too: `loadDraft` may find it older than a day whenever it reads it. The
sidebar's claims, addresses, reports and interpretation statuses are written as its
status changes are, and stand with them. In `RepositoryParity` are left out: times,
reasons and snapshots of events, what `getIntent` adds to its row in SQLite, and the
order of lists. One lists as the rows came and the other newest first, so of a page that
leaves rows out only its length and `has_more` are compared. Callers pass values of the
types, so no CHECK of the schema refuses one.

## 3. What the runs show

Bounds are the CONSTANTS of each `.cfg`; every one is named. Two clients or processes
are enough for every race here, since each action reads what one other may have changed;
three rows are a revision, its replacement, and one more.

| Run | Instance | Shows |
|---|---|---|
| `ContractRaces` | 2 clients, 2 keys, 3 rows, contracts governed by none | type correctness, exactly one open revision of every registered key, chains, immutability, validation that still holds at the write, a true trail |
| `ContractGoverned` | 1 client, 2 keys that may govern and parent each other, 3 rows | no cycles; implements `KeyedRevisions` |
| `IntentRaces` | 2 clients, 1 intent, 2 statuses, 3 versions | versions, snapshots, acknowledgements |
| `InterpretationRaces` | 2 clients, 2 intents, 3 rows: a row may be superseded twice | lineage, trail, acknowledgements, what undoes a supersession |
| `StepRaces` | 1 step, 2 intents, 1 interpretation, all faults, edits at any time | one truthful fold-back; an answered step holds no workspace; an agent is invoked only where each part of the mandate stood in the step's time |
| `StepLiveness` | 1 step, edits at any time, directories may fail, runtime never completes | the step is answered and holds nothing |
| `ParticipationRaces` | 2 processes, 2 claimed entities, 3 calls, 3 rows, a new or a provisioned database | complete programs, releases and their events, ends of sessions, reactivation |
| `PilotRaces` | 2 processes, a public and a confidential client, an allowed and a refused URI, 2 verifiers, an own and a foreign scope, 2 codes, 2 refresh tokens, a clock of one tick | single use of codes, grants kept, one token per authorization, what was answered is stored |
| `VaultRaces` | 2 clients, 2 requests, 6 texts in which the two parsers differ, 2 actors, 1 contract, 1 change of actors and contracts; a bridge scoped to an actor, without a contract key | actions are of mutations, bridged mutations are within the policy; implements `AtomicVault` |
| `VaultUnaccounted` | the same | a violation, see below |
| `OperatorPages` | 2 intents, 2 claims, lists of 1 row, 1 status to pick (an undo restores another), 1 foreign edit, 3 gestures with 2 chains under way, or 3 strokes | confirmation, single effect, visible writes, drafts |
| `Parity` | every call with every kind of argument, 2 calls after a common beginning | the repositories agree except after the calls named |

Why these bounds reach the cases. `ContractGoverned` has one client because the
refinement is costly to evaluate and is proved for any number; what it adds is the
governing keys. A lifetime of one tick in `PilotRaces` lets a code or token expire
between any two steps. Three calls in `ParticipationRaces` are an init that stopped, an
init or import that is run again, and one beside them; the initial state may be a
database that is provisioned already. Two requests in `VaultRaces` overlap at every
step; one writes a file that the other moves or deletes. The run has one setting of the
bridge; the theorem is about all of them. Three rows in `InterpretationRaces` are two
supersessions of one interpretation, or a chain of two. Three gestures are a write, its
undo, and a second undo or a release clicked twice with a gesture between; that a
reopened editor sends a second create takes four, so that case of `GesturesActOnce` is
covered by the proof alone. Lists of one row put the second intent or claim beyond the
limit. Two calls of `Parity` are one that prepares and one that differs: the beginning
has an intent with a child, an interpretation of it, a claim, a domain, an actor, a role
with a binding, a session and a root contract, and the property compares after each call
every read there is, so a difference a third call would reveal is already in the second
one's reads.

**Deadlock.** Clients of the stores can always begin a request, and governance can
always be edited, so those runs check it. `ParticipationRaces`, the two vault runs,
`OperatorPages` and `Parity` do not: at the bounds the clients stop.

**Fairness.** Only `StepLiveness` needs any: `WF_vars(Progress(s))`, since Node.js runs
the continuation of a settled promise. Nothing is assumed of `Begin`, of operators or of
governance clients. The property is claimed only where the database takes its writes and
the process lives; otherwise a step may end by exception. The other components promise
no liveness: a request may fail, a process stop, an operator leave.

**Symmetry** is used over clients, processes, keys, texts and verifiers, in safety runs
only; no definition distinguishes them by name.

**A disagreement between the code and its documentation.** `VaultUnaccounted` checks
README.md's "the mutation requires an explicit mandate and is logged back into the
governance store" and finds a behaviour of the code that contradicts it: a vault file is
changed, `logAction` is refused because the governing contract is no longer active, and
the caller is answered ok.

**Conditions in the properties.** Some properties say when they hold, because the code
keeps them only then. `OneTokenPerAuthorization` and `AnsweredIsStored` hold while no
two processes overlapped in the file and none died in a write (`disturbed`): two bridges
on one store lose each other's clients and may bring a redeemed token back.
`CodeBuysOnce` and `PairKeepsItsGrant` hold always. `OwnWritesVisible` holds for an
operator who waits for each answer (`unsure`), and as far as the lists of the snapshot
are not full. `GesturesActOnce` lets two creates be under way once the editor was opened
again during one (`Reopened`). `DraftsExact` says nothing of a key that a timer or an
answer met while another was current, or after its text had changed (`astray`), nor of
the key whose timer runs; of all others it holds through any order of answers, timers
and renderings. `GatedByMandate` says that each part of the mandate stood at some time
of the step, not that they all stood at once, nor that they still do at the invocation.
`UndoneOnlyByStaleUpdate` and `ReactivatedKnowingly` name the one way in which what they
forbid happens. `AnswersAgree` holds while no call strayed; that what is named as
straying is not named too freely is a property of its own, `StraysDiffer`: those calls
do differ.

**Behaviours of the models that no run is kept for**, each a shortest path TLC gives
when the obvious stronger property is asked:

* an update of an intent reverts a racing change of its status;
* an intent without an actor is committed before its attribution is demanded, and has no
  event;
* an update of an interpretation that races its supersession removes the link again; a
  second supersession redirects it;
* a committed supersession of a contract whose events failed is in no event;
* a draft revision may replace an active parent and leave open children under a key
  without an active revision; `init` then fails whenever it is run again;
* a step's mandate is checked once: an agent is invoked after its intent was closed or
  its interpretation superseded;
* a write refused outside a `try` of `executeStep` leaves the workspace acquired;
* an invocation is recorded as failed to start, and runs; a runtime that completes later
  is recorded as failed; a step whose `workspace_acquired` event fails records
  `workspace_failed` and runs in the workspace;
* a role bound without a credential is inserted anew each time; a heartbeat may be
  answered ok for a session closed meanwhile; an update of an actor's name reactivates
  an actor retired meanwhile;
* a bridge that dies between truncating and filling the store leaves a file that no
  process can read;
* two releases of one claim may both be answered ok, each with its event;
* in the pages: `openIntentModal` frees a busy editor, so an operator who opens it again
  by the keyboard may send a second create, and the first one's answer closes the new
  editor; an undo overwrites what others wrote since; answers of two refreshes may be
  applied in the wrong order; a draft's timer that fires after a submission saves the
  submitted text again; a timer or an answer that comes after a change of selection
  saves or discards under the new one.

**Where the repositories stray** (`strayed` in `RepositoryParity`, with the reasons
named at each call):

* *unknown reference*: SQLite refuses a row that names a scope, domain, resolver, actor,
  intent, interpretation or parent there is not, by its foreign keys; the maps take it.
* *name reused*: a name that is taken is refused, or, for a role, overwritten; memory
  adds a second row.
* *no actor*: SQLite throws where an event has no actor, after the row is there.
* *scope of the event*: an event has the scope of its intent in one, the default scope
  in the other.
* *source dropped*: a supersession keeps the interpretation's source in SQLite alone.
* *another intent*: SQLite lists the actions of an interpretation wherever they are,
  memory among those of its intent.
* *bound without a credential*: always a new row in SQLite.
* *session reopened*, *session of another surface, provider or transcript*: SQLite opens
  a reference again in its row, closed or active, with the surface, provider and
  transcript given; memory keeps an active session as it is, and adds a row to a closed
  one.
* *id skipped*: an upsert that finds its row uses up an id in SQLite.

## 4. What is proved

For every value of the constants that the named ASSUME of the module admits (bounds are
natural numbers, `Null` is no member of the sets beside it, public clients are clients,
entries of the bridge's path lists are not empty and do not begin or end with a blank,
and `None`, which stands for undefined and NULL, is no number, reference, surface or
error code), and for any number of processes or clients:

**Contract registry.** All proofs share `TableSteps`, which states the two table changes
row by row.

* `TypeCorrect`: `TypeOK` is inductive because it contains `WellFormed`, which says
  which parameters a request carries at each step; the row a supersession closes is
  known to exist only by that.
* `AtMostOneOpen`: inductive relative to `TypeOK`, from what the unique indexes check at
  each INSERT; none of the earlier reads is needed.
* `RevisionsFormChains`: `RevisionChain` is its own strengthening. The interesting lemma
  is `TargetStillOpen`: a transaction whose target was closed meanwhile conflicts with
  `UNIQUE(key, version)`, since the chain already has the next version.
* `KeysStayOpen`: relative to the two above. With `AtMostOneOpen` it makes
  `ExactlyOneOpen`. `RevisionsNeverEdited`: the action property, from the chain.
* `TrailStaysTrue`, `AcknowledgedContracts`: events are written after the commit they
  report. `TrailInv` adds what a request between its commit and its last event may say
  (`Due`); rows keep what the trail says of them, and closed rows everything (`Kept`).
* `ValidationStands`, `HierarchyHasNoCycle`: with `ValidationHolds` the hierarchy is
  inductive, because what a request validated is a key that *has revisions*, which later
  steps preserve, while *has an active one* they do not.
* `Refinement`: `head[k]` is the open revision of `k`, unique by `AtMostOneOpen` and
  never missing by `KeysStayOpen`.

**Intents** (`IntentStore_proofs`): `VersionsAreNames`, `SnapshotsAreOfTheRow`,
`AcknowledgedIntents`. The invariant adds to the three properties that a row's history
ends with the row (`HistoryEnds`) and what a request may rely on at each statement
(`Knows`): versions never fall and history never shrinks (`Grown`), so what one request
knows survives the others.

**Interpretations** (`InterpretationStore_proofs`): `LineageEnds`, `TrailIsTruthful`,
`AcknowledgedInterpretations`, `OnlyStaleUpdatesUndo`. What a request read of a row's
intent and actor stays true although the status and link it read may be out of date; the
link an update writes back goes to an `Heir`, which is kept because tables only grow.

**Execution** (`StepExecution_proofs`): `StepsFoldBackOnce` (`Story`: what the events
and the actions of a step are at each of its points; no failure writes, and the catch
block takes over only where no end is written yet), from which `StepsAreTyped` also
follows, `OutcomesStayTrue` (`Outcome`: the outcome is chosen where the invocation's
state is read, and a finished invocation stays finished), `WorkspacesAreReturned`
(`Custody`: an acquired workspace is held by a step that will still release it, or whose
exception was thrown), and `MandatesGate` (`Gate`: what a step has passed, it has seen
stand; governance may be edited at any time, so the invariant is about `stood` and
`lapsed`, which no edit takes back). Of liveness, what is safety: `StepsOnlyAdvance`
(whatever fails, an action of `executeStep` brings it nearer to its end, so it has at
most sixteen) and `EndedStepsHoldNothing` (where the database takes every write, a step
that is over holds no workspace); what `EventuallyAnswered` adds is that a step that
runs can always go on, and does.

**Participation** (`Participation_proofs`): `ProgramsAreComplete` (a program that has
come to its n-th thing has left the first n - 1 behind, and nothing is ever taken back:
`Done`, `Grows`), `ReleasesAreRecorded` (`Accounted`: of each entity there are at least
as many release events as answered releases, so two releases answered ok have an event
each), `SessionsEnd`, `Reactivation`.

**Pilot issuer** (`HttpSurfaces_proofs`): `PairsKeepTheirGrant` (every token in the
file, in a process's copy of it and in a pair has the client and scope of the code it
goes back to, and torn or stale copies only lose tokens) and `CodesBuyOnce` (a code is
held by its one issuer, or on its way, or spent: `SpentOnce`).

`AuthorizationsHaveOneToken` and `AnswersAreStored` hold while no write was disturbed,
and need an invariant of their own, `Known`, relative to the one above. Its first part,
`WritesKnown`, says what a process is about to write: what it has read, plus the one
record it adds, less the one it takes and what has expired. Its second, `Undisturbed`,
is about the time before the first overlap: one process at most is between truncating
the file and filling it; each authorization has one owner, a code that is held, a
process on its way with it, or one token in the file (`Owned`), and one process at a
time (`GrantedOnce`); and what was answered is in the file. Every step either keeps this
or sets `disturbed`.

**Vault** (`VaultMandate_proofs`). `VaultIsAtomic`, `LogTellsTruth`,
`BridgeKeepsPolicy`, `BridgeAndVaultAgree`. The invariant says of each request that its
number is its own, and that its mutation has happened if it is about to log it and has
not if it is not (`RequestsOK`); of the mutations that no two are of one request and
that those of the bridge are within its policy (`PerformedOK`); and of the actions that
they are of mutations, under the bridge's key if these came through the bridge
(`ActionsTruthful`, `KeysOK`). With it every step is a mutation of `AtomicVault` or a
stutter: an append, which looked at the file earlier, because `appendFile` adds to
whatever the file is when it runs; and a mutation is new, because its request has
performed none. `BridgeKeepsPolicy` is about every setting of the bridge: scoped or not,
with a contract key of its own or not, passing the client's context or not, all paths
writable or some. Where not all are, `BridgeAndVaultAgree` carries it and is about all
texts and all lists. A text the bridge accepts has no bad part, so that turning its
backslashes and collapsing its slashes, as the vault does, gives the path the bridge
looked at, up to slashes at its start, which the vault refuses, and blanks at its ends,
which it trims. A blank at the start begins no entry. One at the end ends none, so it
matters only to a prefix where no suffix is asked for, and the prefix, which does not
end in a blank, is left by the trimming.

**Pages** (`HttpSurfaces_proofs`): `ReleasesAreConfirmed`, `EveryGestureOnce`,
`OperatorSeesOwnWrites`, `DraftsAreExact`, for any number of gestures, strokes, intents,
claims and foreign edits and any limit of the lists. One inductive invariant carries all
four, since both pages share the database: an armed button is the one clicked last
(`ArmedIsLast`); an undo is of a chain that has ended and is either offered or carried
out (`UndoneOnce`); unless the editor was opened again, it is busy while its one
submission is under way (`BusyWhileCreating`); for an operator who waits, a written
status is visible, or the refresh that will show it is on its way (`OwnOnTheirWay`); and
each draft is the expected one, or will be saved by the timer, or its key is astray,
whichever of the writes is answered and whichever draft a rendering finds too old. The
proof describes each action once by its effect (a gesture starts a call, touches the
page or arms a button; an answer advances one call), and derives each part of the
invariant from the effects.

**Parity** (`RepositoryParity_proofs`): `RepositoriesAgree`, from the inductive
invariant `Together` (`StoresStayTogether`). Until a call strays every answer was the
same and

* the two stores are twins (`Twin`): the same rows in every table, and the same next id
  in each but `bindings` and `sessions`, where an upsert that finds its row uses one up
  in SQLite;
* the database is `Sound`: rows have their columns and refer to rows there are
  (`Whole`), the action of an interpretation is one of its intent, no two actors share a
  name (`NamedApart`), and a key has one open revision, its last, if it was ever
  registered (`Revised`).

`Twin` alone is not inductive. That no unique index and no foreign key refuses what the
in-memory maps take, and that `supersedeContract` finds by key what memory finds by row,
is so only in a sound database. Each operation has its lemmas: that a call which does
not stray satisfies the constraints, or one that does stray breaks them; that on one
store both repositories answer alike and leave the same rows; and that the result is
sound. `CallTogether` puts them together, for every call with every argument.
`ReadsSame` shows every read to depend on what twins share: single rows, and each page
of each list under each filter. `BeginningSound` is the initial state.

**Only model-checked.** `StraysDiffer` of `RepositoryParity`: whether a call that strays
can be told from its answers and the reads depends on the rows the instance begins with
and on the size of a page of a list, so it has no general statement.
`EventuallyAnswered` is liveness under fairness, which, with ENABLED, is out of the
prover's reach. `OkIsAccounted` is not true. Every other property a run checks is a
theorem.

## 5. Not modelled

Listed with reasons in `PROJECT.json`:

* the heartbeat scheduler and the event/audit bus, which nothing but their own tests
  creates; reusable and git-worktree workspaces, which the orchestrator never asks for;
* schema migration, whose result is the initial state of the repository modules;
* the UI server's routes for interpretations, actions' contents, reports, expertise
  signals and focus events, but for the moment a page waits for them;
* inspection and the knowledge interfaces: reads, formatting and declarations;
* the bridge's forwarding of bodies, its metadata documents and the external token
  verifier; its variant without a store file, in which a restart forgets everything;
* the MCP server's and the SDK's other tools and calls, and the CLI's other commands:
  each parses its arguments and makes one call of the service;
* rendering, text and layout of the pages.

## 6. What is left

* An abstract page, a queue of gestures and answers, that both scripts implement.
* The event bus and scheduler, once a program creates them.
