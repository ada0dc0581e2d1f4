---------------------------- MODULE StepExecution ----------------------------
(***************************************************************************)
(* ExecutionOrchestrator.executeStep over the local workspace service, the *)
(* local agent runtime and the SQLite repository.  A step checks its       *)
(* mandate, writes events, holds a workspace, runs an invocation and folds *)
(* the outcome back as an action; each await is a point where governance   *)
(* edits, an operator or another step get in.  Every write to the database *)
(* may be refused: another process holds its lock and there is no timeout. *)
(*                                                                         *)
(* A step is one call of executeStep; its events are those that carry its  *)
(* requestId.  Task, context, output, usage and durations are left out.    *)
(* timeoutMs too: the local runtime stores it and never reads it.          *)
(***************************************************************************)
EXTENDS Integers, Sequences, SequencesExt

CONSTANTS Steps,            \* the calls of executeStep
          Intents,          \* the ids a caller names as intent
          Interpretations,  \* the ids a caller names as interpretation
          Null,             \* a parameter the caller did not pass
          AutoComplete,     \* does the runtime complete an invocation when polled?
          Faults            \* what may fail

ASSUME StepAssumption ==
       /\ Null \notin Interpretations
       /\ AutoComplete \in BOOLEAN
       /\ Faults \subseteq {"create", "write", "crash"}

VARIABLES intents,         \* status of each intent
          interpretations, \* intent and status of each interpretation
          stood,           \* history: what of its mandate has stood since a step began
          lapsed,          \* history: and what of it has not
          workspaces,      \* the workspace each step created
          invocations,     \* the invocation each step started
          trail,           \* the governance events of each step, in order
          actions,         \* the actions each step logged, in order
          step             \* the locals of each executeStep

governance == <<intents, interpretations, stood, lapsed>>
runtime == <<workspaces, invocations>>
records == <<trail, actions>>
vars == <<governance, runtime, records, step>>

-----------------------------------------------------------------------------
(* Types *)

Outcomes == {"completed", "cancelled", "failed", "not_started"}

\* The event the end of an invocation is recorded by: one that did not start failed.
TerminalEvent(outcome) == IF outcome = "not_started" THEN "failed" ELSE outcome

EventTypes == {"requested", "workspace_acquired", "workspace_failed", "started",
               "completed", "cancelled", "failed", "action_logged",
               "workspace_released"}

\* What a step's mandate consists of.
Parts == {"intent", "interpretation"}

\* `held' is whether the local workspaceId is set.
Step == [pc : {"idle", "intent", "interpretation", "requested_event", "create",
               "acquire", "acquired_event", "workspace_failed_event", "invoke",
               "started_event", "result", "terminal_event", "action",
               "action_event", "release", "released_event", "done"},
         intent : Intents, interpretation : Interpretations \cup {Null},
         workspace : BOOLEAN, agentKnown : BOOLEAN, held : BOOLEAN,
         outcome : Outcomes \cup {"none"},
         reply : {"none", "rejected", "ok", "not_ok", "thrown", "lost"}]

TypeOK ==
    /\ intents \in [Intents -> {"absent", "active", "inactive"}]
    /\ interpretations \in [Interpretations ->
           [intent : Intents, status : {"absent", "live", "superseded"}]]
    /\ stood \in [Steps -> SUBSET Parts] /\ lapsed \in [Steps -> SUBSET Parts]
    /\ workspaces \in [Steps -> {"none", "active", "acquired", "archived", "destroyed",
                                 "orphaned"}]
    /\ invocations \in [Steps -> {"none", "running", "completed", "cancelled", "lost"}]
    /\ \A s \in Steps : Len(trail[s]) <= 6 /\ ToSet(trail[s]) \subseteq EventTypes
    /\ \A s \in Steps : ToSet(actions[s]) \subseteq Outcomes
    /\ step \in [Steps -> Step]

-----------------------------------------------------------------------------
(* How the locals of a step change *)

Running(s) == step[s].pc \notin {"idle", "done"}

Update(s, r) == step' = [step EXCEPT ![s] = r]
Goto(s, pc) == Update(s, [step[s] EXCEPT !.pc = pc])
Answer(s, reply) == Update(s, [step[s] EXCEPT !.pc = "done", !.reply = reply])

\* emitEvent: one INSERT.
Emit(s, type) == trail' = [trail EXCEPT ![s] = Append(@, type)] /\ UNCHANGED actions

Workspace(s, status) == workspaces' = [workspaces EXCEPT ![s] = status]
Invocation(s, status) == invocations' = [invocations EXCEPT ![s] = status]

-----------------------------------------------------------------------------
(* executeStep: the mandate *)

Mandate(r) == IF r.interpretation = Null THEN {"intent"} ELSE Parts

Stands(r, part) ==
    IF part = "intent" THEN intents[r.intent] = "active"
    ELSE interpretations[r.interpretation] = [intent |-> r.intent, status |-> "live"]

\* How the mandates of the steps that run are after an edit, or after one begins.
Observe ==
    /\ stood' = [s \in Steps |-> stood[s] \cup
           {part \in Mandate(step'[s]) : Running(s)' /\ Stands(step[s], part)'}]
    /\ lapsed' = [s \in Steps |-> lapsed[s] \cup
           {part \in Mandate(step'[s]) : Running(s)' /\ ~Stands(step[s], part)'}]

Begin(s) ==
    /\ step[s].pc = "idle"
    /\ \E n \in Intents, i \in Interpretations \cup {Null}, w, a \in BOOLEAN :
           Update(s, [step[s] EXCEPT !.pc = "intent", !.intent = n,
                      !.interpretation = i, !.workspace = w, !.agentKnown = a])
    /\ UNCHANGED <<intents, interpretations, runtime, records>>
    /\ Observe

CheckIntent(s) ==
    /\ step[s].pc = "intent"
    /\ IF intents[step[s].intent] # "active" THEN Answer(s, "rejected")
       ELSE Goto(s, IF step[s].interpretation = Null THEN "requested_event"
                    ELSE "interpretation")
    /\ UNCHANGED <<governance, runtime, records>>

\* Mutation: any interpretation that is found will do.
ActionableIfFound(n, i) == interpretations[i].status # "absent"

Actionable(n, i) ==
    /\ interpretations[i].status \notin {"absent", "superseded"}
    /\ interpretations[i].intent = n

CheckInterpretation(s) ==
    LET r == step[s]
    IN  /\ r.pc = "interpretation"
        /\ IF Actionable(r.intent, r.interpretation) THEN Goto(s, "requested_event")
           ELSE Answer(s, "rejected")
        /\ UNCHANGED <<governance, runtime, records>>

EmitRequested(s) ==
    /\ step[s].pc = "requested_event"
    /\ Emit(s, "requested")
    /\ Goto(s, IF step[s].workspace THEN "create" ELSE "invoke")
    /\ UNCHANGED <<governance, runtime>>

-----------------------------------------------------------------------------
(* executeStep: the workspace *)

CreateWorkspace(s) ==
    /\ step[s].pc = "create"
    /\ Workspace(s, "active")
    /\ Goto(s, "acquire")
    /\ UNCHANGED <<governance, invocations, records>>

\* The directory cannot be made.
CreateFails(s) ==
    /\ "create" \in Faults
    /\ step[s].pc = "create"
    /\ Goto(s, "workspace_failed_event")
    /\ UNCHANGED <<governance, runtime, records>>

\* acquire throws when the workspace was released or destroyed meanwhile, and
\* does not mind that it is already acquired.
AcquireWorkspace(s) ==
    /\ step[s].pc = "acquire"
    /\ IF workspaces[s] \in {"active", "acquired"}
       THEN /\ Workspace(s, "acquired")
            /\ Update(s, [step[s] EXCEPT !.pc = "acquired_event", !.held = TRUE])
       ELSE /\ UNCHANGED workspaces
            /\ Goto(s, "workspace_failed_event")
    /\ UNCHANGED <<governance, invocations, records>>

\* Mutation: the handler of the failure runs in any case.
EmitAcquiredFinally(s) ==
    /\ step[s].pc = "acquired_event"
    /\ Emit(s, "workspace_acquired")
    /\ Goto(s, "workspace_failed_event")
    /\ UNCHANGED <<governance, runtime>>

EmitAcquired(s) ==
    /\ step[s].pc = "acquired_event"
    /\ Emit(s, "workspace_acquired")
    /\ Goto(s, "invoke")
    /\ UNCHANGED <<governance, runtime>>

\* The catch block: the step goes on, with `held' as it is.
EmitWorkspaceFailed(s) ==
    /\ step[s].pc = "workspace_failed_event"
    /\ Emit(s, "workspace_failed")
    /\ Goto(s, "invoke")
    /\ UNCHANGED <<governance, runtime>>

-----------------------------------------------------------------------------
(* executeStep: the invocation *)

NotStarted(s) == Update(s, [step[s] EXCEPT !.pc = "terminal_event",
                                           !.outcome = "not_started"])

\* invoke throws on an agent it does not know.
Invoke(s) ==
    /\ step[s].pc = "invoke"
    /\ IF step[s].agentKnown
       THEN Invocation(s, "running") /\ Goto(s, "started_event")
       ELSE UNCHANGED invocations /\ NotStarted(s)
    /\ UNCHANGED <<governance, workspaces, records>>

EmitStarted(s) ==
    /\ step[s].pc = "started_event"
    /\ Emit(s, "started")
    /\ Goto(s, "result")
    /\ UNCHANGED <<governance, runtime>>

\* What getResult leaves of an invocation it polls.
Polled(status) == IF AutoComplete /\ status = "running" THEN "completed" ELSE status

\* Mutation: getResult waits for the end of the invocation.
GetResultWaits(s) ==
    /\ step[s].pc = "result"
    /\ Polled(invocations[s]) # "running"
    /\ Invocation(s, Polled(invocations[s]))
    /\ Update(s, [step[s] EXCEPT !.pc = "terminal_event",
                                 !.outcome = Polled(invocations[s])])
    /\ UNCHANGED <<governance, workspaces, records>>

\* getResult polls once; what is neither completed nor cancelled has failed.
GetResult(s) ==
    LET status == Polled(invocations[s])
    IN  /\ step[s].pc = "result"
        /\ Invocation(s, status)
        /\ Update(s, [step[s] EXCEPT !.pc = "terminal_event",
                      !.outcome = IF status \in {"completed", "cancelled"} THEN status
                                  ELSE "failed"])
        /\ UNCHANGED <<governance, workspaces, records>>

-----------------------------------------------------------------------------
(* executeStep: folding back, on the path of the catch block and on the other *)

EmitTerminal(s) ==
    /\ step[s].pc = "terminal_event"
    /\ Emit(s, TerminalEvent(step[s].outcome))
    /\ Goto(s, "action")
    /\ UNCHANGED <<governance, runtime>>

\* logAction inserts the action, then emits its event.
LogAction(s) ==
    /\ step[s].pc = "action"
    /\ actions' = [actions EXCEPT ![s] = Append(@, step[s].outcome)]
    /\ Goto(s, "action_event")
    /\ UNCHANGED <<governance, runtime, trail>>

\* The answer: ok iff the invocation completed.
Finish(s) == Answer(s, IF step[s].outcome = "completed" THEN "ok" ELSE "not_ok")

\* Mutations: the failure path does not return; it does not release.
EmitActionFallsThrough(s) ==
    /\ step[s].pc = "action_event"
    /\ Emit(s, "action_logged")
    /\ IF step[s].outcome = "not_started" THEN Goto(s, "result")
       ELSE IF step[s].held THEN Goto(s, "release") ELSE Finish(s)
    /\ UNCHANGED <<governance, runtime>>

EmitActionReturnsEarly(s) ==
    /\ step[s].pc = "action_event"
    /\ Emit(s, "action_logged")
    /\ IF step[s].held /\ step[s].outcome # "not_started" THEN Goto(s, "release")
       ELSE Finish(s)
    /\ UNCHANGED <<governance, runtime>>

EmitActionLogged(s) ==
    /\ step[s].pc = "action_event"
    /\ Emit(s, "action_logged")
    /\ IF step[s].held THEN Goto(s, "release") ELSE Finish(s)
    /\ UNCHANGED <<governance, runtime>>

\* What release leaves of a workspace; a step's own is never reusable.
Released(status) == IF status = "destroyed" THEN status ELSE "archived"

ReleaseWorkspace(s) ==
    /\ step[s].pc = "release"
    /\ Workspace(s, Released(workspaces[s]))
    /\ Goto(s, "released_event")
    /\ UNCHANGED <<governance, invocations, records>>

EmitReleased(s) ==
    /\ step[s].pc = "released_event"
    /\ Emit(s, "workspace_released")
    /\ Finish(s)
    /\ UNCHANGED <<governance, runtime>>

-----------------------------------------------------------------------------
(* Failures *)

\* A statement that writes fails.  Each try block of executeStep catches what is
\* written inside it; what is written outside leaves executeStep by exception.
WriteFails(s) ==
    /\ "write" \in Faults
    /\ \/ step[s].pc = "acquired_event" /\ Goto(s, "workspace_failed_event")
       \/ step[s].pc = "started_event" /\ NotStarted(s)
       \/ step[s].pc = "released_event" /\ Finish(s)
       \/ /\ step[s].pc \in {"requested_event", "workspace_failed_event",
                             "terminal_event", "action", "action_event"}
          /\ Answer(s, "thrown")
    /\ UNCHANGED <<governance, runtime, records>>

\* The process dies.  The registries of workspaces and invocations are in its
\* memory; directories already made stay, and the database.
Crash ==
    /\ "crash" \in Faults
    /\ \E s \in Steps : Running(s)
    /\ workspaces' = [s \in Steps |-> IF workspaces[s] \in {"none", "destroyed"}
                                      THEN workspaces[s] ELSE "orphaned"]
    /\ invocations' = [s \in Steps |-> IF invocations[s] = "none" THEN "none" ELSE "lost"]
    /\ step' = [s \in Steps |-> IF Running(s)
                                THEN [step[s] EXCEPT !.pc = "done", !.reply = "lost"]
                                ELSE step[s]]
    /\ UNCHANGED <<governance, records>>

-----------------------------------------------------------------------------
(* The others: governance clients and operators of the runtime services *)

\* registerIntent, updateIntent
SetIntent(n) ==
    /\ \E status \in {"active", "inactive"} \ {intents[n]} :
           intents' = [intents EXCEPT ![n] = status]
    /\ UNCHANGED <<interpretations, runtime, records, step>>
    /\ Observe

\* registerInterpretation, updateInterpretation, supersedeInterpretation
SetInterpretation(i) ==
    /\ \E status \in {"live", "superseded"} \ {interpretations[i].status} :
           interpretations' = [interpretations EXCEPT ![i].status = status]
    /\ UNCHANGED <<intents, runtime, records, step>>
    /\ Observe

\* Mutation: cancel does not look at how the invocation ended.
CancelAny(s) ==
    /\ invocations[s] \in {"running", "completed"}
    /\ Invocation(s, "cancelled")
    /\ UNCHANGED <<governance, workspaces, records, step>>

Cancel(s) ==
    /\ invocations[s] = "running"
    /\ Invocation(s, "cancelled")
    /\ UNCHANGED <<governance, workspaces, records, step>>

OperatorReleases(s) ==
    /\ workspaces[s] \in {"active", "acquired"}
    /\ Workspace(s, Released(workspaces[s]))
    /\ UNCHANGED <<governance, invocations, records, step>>

\* destroy removes a workspace in any status.
OperatorDestroys(s) ==
    /\ workspaces[s] \in {"active", "acquired", "archived"}
    /\ Workspace(s, "destroyed")
    /\ UNCHANGED <<governance, invocations, records, step>>

-----------------------------------------------------------------------------
(* The specification *)

Init ==
    /\ intents \in [Intents -> {"absent", "active", "inactive"}]
    /\ interpretations \in [Interpretations ->
           [intent : Intents, status : {"absent", "live", "superseded"}]]
    /\ stood = [s \in Steps |-> {}] /\ lapsed = [s \in Steps |-> {}]
    /\ workspaces = [s \in Steps |-> "none"]
    /\ invocations = [s \in Steps |-> "none"]
    /\ trail = [s \in Steps |-> <<>>]
    /\ actions = [s \in Steps |-> <<>>]
    /\ step \in [Steps -> {[pc |-> "idle", intent |-> n, interpretation |-> Null,
                            workspace |-> FALSE, agentKnown |-> TRUE, held |-> FALSE,
                            outcome |-> "none", reply |-> "none"] : n \in Intents}]

Progress(s) == \/ CheckIntent(s)
               \/ CheckInterpretation(s)
               \/ EmitRequested(s)
               \/ CreateWorkspace(s)
               \/ CreateFails(s)
               \/ AcquireWorkspace(s)
               \/ EmitAcquired(s)
               \/ EmitWorkspaceFailed(s)
               \/ Invoke(s)
               \/ EmitStarted(s)
               \/ GetResult(s)
               \/ EmitTerminal(s)
               \/ LogAction(s)
               \/ EmitActionLogged(s)
               \/ ReleaseWorkspace(s)
               \/ EmitReleased(s)

Others == \/ \E n \in Intents : SetIntent(n)
          \/ \E i \in Interpretations : SetInterpretation(i)
          \/ \E s \in Steps : Cancel(s) \/ OperatorReleases(s) \/ OperatorDestroys(s)

Next == \/ \E s \in Steps : Begin(s) \/ Progress(s) \/ WriteFails(s)
        \/ Crash
        \/ Others

Spec == Init /\ [][Next]_vars

\* A step that has begun is resumed after each await: Node.js runs the continuation
\* of every settled promise.  Nobody is obliged to begin, edit, cancel or destroy.
FairSpec == Spec /\ \A s \in Steps : WF_vars(Progress(s))

-----------------------------------------------------------------------------
(* Properties *)

Terminal == {"completed", "cancelled", "failed"}

\* However a step goes, its invocation gets at most one terminal event and one
\* action; a step that is answered ok or not ok has both, they agree, and the action's
\* own event comes after them.
FoldedOnce ==
    \A s \in Steps :
        LET t == trail[s]
        IN  /\ \A i, j \in 1..Len(t) : t[i] \in Terminal /\ t[j] \in Terminal => i = j
            /\ Len(actions[s]) <= 1
            /\ actions[s] # <<>> =>
                   \E i \in 1..Len(t) : t[i] = TerminalEvent(actions[s][1])
            /\ step[s].reply \in {"ok", "not_ok"} =>
                   /\ actions[s] # <<>> /\ t[1] = "requested"
                   /\ \E i \in 3..Len(t) : /\ t[i] = "action_logged"
                                           /\ t[i - 1] = TerminalEvent(actions[s][1])

\* The governance record of how an invocation ended stays true of the invocation,
\* whatever operators do to it afterwards and until the process that ran it dies.
OutcomeTruthful ==
    \A s \in Steps : actions[s] # <<>> =>
        CASE actions[s][1] = "completed" -> invocations[s] \in {"completed", "lost"}
          [] actions[s][1] = "cancelled" -> invocations[s] \in {"cancelled", "lost"}
          [] OTHER -> invocations[s] # "completed"

\* A caller that was answered does not leave a workspace acquired behind, and the
\* trail does not say released of one that is.
WorkspaceReturned ==
    \A s \in Steps : \/ step[s].reply \in {"ok", "not_ok", "rejected"}
                     \/ "workspace_released" \in ToSet(trail[s])
                     => workspaces[s] # "acquired"

\* service-orchestrator-lifecycle.test.ts:244, "execution is gated by intent status",
\* and :185, "blocks execution after interpretation is superseded", while clients edit
\* both and the step awaits: an agent is invoked only for a step in whose time each part
\* of the mandate has stood, though it may have lapsed again; and a step is rejected only
\* where some part had lapsed in its time, and then it leaves no trace.
GatedByMandate ==
    \A s \in Steps :
        /\ invocations[s] # "none" => Mandate(step[s]) \subseteq stood[s]
        /\ step[s].reply = "rejected" =>
               /\ lapsed[s] # {}
               /\ trail[s] = <<>> /\ workspaces[s] = "none" /\ invocations[s] = "none"

\* As long as the database takes its writes and the process lives, a step that
\* has begun is answered, and its workspace is not left acquired.
EventuallyAnswered ==
    \A s \in Steps : Running(s) ~> step[s].pc = "done" /\ workspaces[s] # "acquired"

=============================================================================
