-------------------------- MODULE StepExecution_proofs --------------------------
(***************************************************************************)
(* Theorems about StepExecution, for any number of steps, whatever fails,  *)
(* and whatever operators do to workspaces and invocations meanwhile: the  *)
(* recorded outcome is true and recorded once, no workspace stays behind,  *)
(* and agents are invoked only where the mandate has stood in the step's   *)
(* own time, however governance is edited.                                 *)
(***************************************************************************)
EXTENDS StepExecution, TLAPS

\* What the steps' records range over.
Typed ==
    /\ step \in [Steps -> Step]
    /\ workspaces \in [Steps -> {"none", "active", "acquired", "archived", "destroyed",
                                 "orphaned"}]
    /\ invocations \in [Steps -> {"none", "running", "completed", "cancelled", "lost"}]
    /\ trail \in [Steps -> Seq(EventTypes \cup {"none"})]
    /\ actions \in [Steps -> Seq(Outcomes \cup {"none"})]

\* The outcome of a step says how its invocation is.
Agrees(outcome, invocation) ==
    /\ outcome = "completed" => invocation \in {"completed", "lost"}
    /\ outcome = "cancelled" => invocation \in {"cancelled", "lost"}
    /\ outcome \notin {"completed", "cancelled"} => invocation # "completed"

Unresolved == {"idle", "intent", "interpretation", "requested_event", "create", "acquire",
               "acquired_event", "workspace_failed_event", "invoke", "started_event",
               "result"}

Unlogged == Unresolved \cup {"terminal_event", "action"}

Outcome(s) ==
    /\ Agrees(step[s].outcome, invocations[s])
    /\ step[s].pc \in Unresolved => step[s].outcome = "none"
    /\ step[s].pc \in Unlogged => actions[s] = <<>>
    /\ actions[s] # <<>> => actions[s][1] = step[s].outcome

\* Where a step may hold an acquired workspace.
Holding == {"acquired_event", "workspace_failed_event", "invoke", "started_event", "result",
            "terminal_event", "action", "action_event", "release"}

Custody(s) ==
    /\ step[s].reply # "none" => step[s].pc = "done"
    /\ step[s].pc \in {"idle", "intent", "interpretation"} => workspaces[s] = "none"
    /\ workspaces[s] = "acquired" =>
           \/ step[s].pc \in Holding /\ step[s].held
           \/ step[s].pc = "done" /\ step[s].reply = "thrown"
    /\ "workspace_released" \in ToSet(trail[s]) =>
           step[s].pc = "done" /\ workspaces[s] # "acquired"

Inv == Typed /\ \A s \in Steps : Outcome(s) /\ Custody(s)

-----------------------------------------------------------------------------
(* Steps *)

LEMMA ToSetAppend ==
    ASSUME NEW S, NEW seq \in Seq(S), NEW e \in S
    PROVE  /\ Append(seq, e) \in Seq(S) /\ ToSet(Append(seq, e)) = ToSet(seq) \cup {e}
           /\ Append(<<>>, e)[1] = e
  <1>1. /\ Len(Append(seq, e)) = Len(seq) + 1 /\ Append(seq, e) \in Seq(S)
        /\ Append(seq, e)[Len(seq) + 1] = e
        /\ \A k \in 1..Len(seq) : Append(seq, e)[k] = seq[k]
        /\ Len(seq) \in Nat /\ DOMAIN seq = 1..Len(seq)
        /\ DOMAIN Append(seq, e) = 1..(Len(seq) + 1)
    OBVIOUS
  <1>2. 1..(Len(seq) + 1) = 1..Len(seq) \cup {Len(seq) + 1}
    BY <1>1
  <1>3. ToSet(seq) = {seq[k] : k \in 1..Len(seq)}
    BY <1>1 DEF ToSet
  <1>4. ToSet(Append(seq, e)) = {Append(seq, e)[k] : k \in 1..Len(seq) \cup {Len(seq) + 1}}
    BY <1>1, <1>2 DEF ToSet
  <1>5. ToSet(Append(seq, e)) = ToSet(seq) \cup {e}
    BY <1>1, <1>3, <1>4
  <1>6. Append(<<>>, e)[1] = e
    OBVIOUS
  <1>7. QED BY <1>1, <1>5, <1>6

\* The record a step goes on with when it goes to `pc' with an outcome and a reply.
Becomes(s, r, pc, held, outcome, reply) ==
    /\ step' = [step EXCEPT ![s] = r]
    /\ r.pc = pc /\ r.held = held /\ r.outcome = outcome /\ r.reply = reply

Pcs == {"idle", "intent", "interpretation", "requested_event", "create", "acquire",
        "acquired_event", "workspace_failed_event", "invoke", "started_event", "result",
        "terminal_event", "action", "action_event", "release", "released_event", "done"}

LEMMA GotoBecomes ==
    ASSUME Inv, NEW s \in Steps, NEW pc \in Pcs, Goto(s, pc)
    PROVE  \E r \in Step : Becomes(s, r, pc, step[s].held, step[s].outcome, step[s].reply)
  <1>1. step[s] \in Step
    BY DEF Inv, Typed
  <1>2. [step[s] EXCEPT !.pc = pc] \in Step
    BY <1>1 DEF Step, Pcs
  <1>3. Becomes(s, [step[s] EXCEPT !.pc = pc], pc, step[s].held, step[s].outcome,
                step[s].reply)
    BY <1>1 DEF Step, Goto, Update, Becomes
  <1>4. QED BY <1>2, <1>3

LEMMA AnswerBecomes ==
    ASSUME Inv, NEW s \in Steps, NEW reply \in {"rejected", "ok", "not_ok", "thrown"},
           Answer(s, reply)
    PROVE  \E r \in Step : Becomes(s, r, "done", step[s].held, step[s].outcome, reply)
  <1>1. step[s] \in Step
    BY DEF Inv, Typed
  <1>2. [step[s] EXCEPT !.pc = "done", !.reply = reply] \in Step
    BY <1>1 DEF Step
  <1>3. Becomes(s, [step[s] EXCEPT !.pc = "done", !.reply = reply], "done", step[s].held,
                step[s].outcome, reply)
    BY <1>1 DEF Step, Answer, Update, Becomes
  <1>4. QED BY <1>2, <1>3

LEMMA FinishBecomes ==
    ASSUME Inv, NEW s \in Steps, Finish(s)
    PROVE  \E r \in Step, reply \in {"ok", "not_ok"} :
              Becomes(s, r, "done", step[s].held, step[s].outcome, reply)
  <1>1. PICK reply \in {"ok", "not_ok"} : Answer(s, reply)
    BY DEF Finish
  <1>2. QED BY <1>1, AnswerBecomes

LEMMA ResolvedBecomes ==
    ASSUME Inv, NEW s \in Steps, NEW outcome \in Outcomes,
           Update(s, [step[s] EXCEPT !.pc = "terminal_event", !.outcome = outcome])
    PROVE  \E r \in Step :
              Becomes(s, r, "terminal_event", step[s].held, outcome, step[s].reply)
  <1>1. step[s] \in Step
    BY DEF Inv, Typed
  <1>2. [step[s] EXCEPT !.pc = "terminal_event", !.outcome = outcome] \in Step
    BY <1>1 DEF Step
  <1>3. Becomes(s, [step[s] EXCEPT !.pc = "terminal_event", !.outcome = outcome],
                "terminal_event", step[s].held, outcome, step[s].reply)
    BY <1>1 DEF Step, Update, Becomes
  <1>4. QED BY <1>2, <1>3

WorkspaceStates == {"none", "active", "acquired", "archived", "destroyed", "orphaned"}
InvocationStates == {"none", "running", "completed", "cancelled", "lost"}

\* A step changes what is its own, and leaves it sound.
LEMMA OwnStep ==
    ASSUME Inv, NEW s \in Steps, NEW r \in Step, step' = [step EXCEPT ![s] = r],
           NEW w \in WorkspaceStates, workspaces' = [workspaces EXCEPT ![s] = w],
           NEW i \in InvocationStates, invocations' = [invocations EXCEPT ![s] = i],
           NEW t \in Seq(EventTypes \cup {"none"}), trail' = [trail EXCEPT ![s] = t],
           NEW a \in Seq(Outcomes \cup {"none"}), actions' = [actions EXCEPT ![s] = a],
           Outcome(s)', Custody(s)'
    PROVE  Inv'
  <1>1. Typed'
    BY DEF Inv, Typed, WorkspaceStates, InvocationStates
  <1>2. ASSUME NEW q \in Steps PROVE Outcome(q)' /\ Custody(q)'
    <2>1. CASE q # s
      <3>1. /\ step'[q] = step[q] /\ workspaces'[q] = workspaces[q] /\ trail'[q] = trail[q]
            /\ invocations'[q] = invocations[q] /\ actions'[q] = actions[q]
        BY <2>1 DEF Inv, Typed
      <3>2. QED BY <3>1 DEF Inv, Outcome, Custody
    <2>2. QED BY <2>1
  <1>3. QED BY <1>1, <1>2 DEF Inv

\* What is unchanged is changed to what it was.
LEMMA Own ==
    ASSUME Inv, NEW s \in Steps
    PROVE  /\ workspaces = [workspaces EXCEPT ![s] = workspaces[s]]
           /\ invocations = [invocations EXCEPT ![s] = invocations[s]]
           /\ trail = [trail EXCEPT ![s] = trail[s]]
           /\ actions = [actions EXCEPT ![s] = actions[s]]
           /\ step = [step EXCEPT ![s] = step[s]]
           /\ workspaces[s] \in WorkspaceStates /\ invocations[s] \in InvocationStates
           /\ trail[s] \in Seq(EventTypes \cup {"none"})
           /\ actions[s] \in Seq(Outcomes \cup {"none"})
           /\ step[s] \in Step
  BY DEF Inv, Typed, WorkspaceStates, InvocationStates

\* A step that only moves on.
LEMMA Moving ==
    ASSUME Inv, NEW s \in Steps, NEW pc, NEW reply, NEW r \in Step,
           Becomes(s, r, pc, step[s].held, step[s].outcome, reply),
           UNCHANGED <<workspaces, invocations, trail, actions>>,
           pc \in Unresolved => step[s].pc \in Unresolved,
           pc \in Unlogged => step[s].pc \in Unlogged,
           reply # "none" => pc = "done",
           pc \in {"idle", "intent", "interpretation"} => workspaces[s] = "none",
           workspaces[s] = "acquired" => \/ pc \in Holding /\ step[s].held
                                         \/ pc = "done" /\ reply = "thrown",
           "workspace_released" \notin ToSet(trail[s])
    PROVE  Inv'
  <1>1. step'[s] = r /\ r.pc = pc /\ r.outcome = step[s].outcome /\ r.held = step[s].held
        /\ r.reply = reply
    BY DEF Becomes, Inv, Typed
  <1>2. Outcome(s)'
    BY <1>1 DEF Inv, Outcome
  <1>3. Custody(s)'
    BY <1>1 DEF Custody
  <1>4. QED BY <1>2, <1>3, Own, OwnStep DEF Becomes

\* A step that writes an event and moves on.
LEMMA Emitting ==
    ASSUME Inv, NEW s \in Steps, NEW pc, NEW reply, NEW r \in Step,
           Becomes(s, r, pc, step[s].held, step[s].outcome, reply),
           NEW type \in EventTypes \cup {"none"}, Emit(s, type),
           UNCHANGED <<workspaces, invocations>>,
           pc \in Unresolved => step[s].pc \in Unresolved,
           pc \in Unlogged => step[s].pc \in Unlogged,
           reply # "none" => pc = "done",
           pc \in {"idle", "intent", "interpretation"} => workspaces[s] = "none",
           workspaces[s] = "acquired" => \/ pc \in Holding /\ step[s].held
                                         \/ pc = "done" /\ reply = "thrown",
           "workspace_released" \in ToSet(trail[s]) \cup {type} =>
               pc = "done" /\ workspaces[s] # "acquired"
    PROVE  Inv'
  <1>1. step'[s] = r /\ r.pc = pc /\ r.outcome = step[s].outcome /\ r.held = step[s].held
        /\ r.reply = reply
    BY DEF Becomes, Inv, Typed
  <1>2. /\ trail'[s] = Append(trail[s], type) /\ UNCHANGED actions
        /\ trail' = [trail EXCEPT ![s] = Append(trail[s], type)]
    BY DEF Inv, Typed, Emit
  <1>3. /\ ToSet(trail'[s]) = ToSet(trail[s]) \cup {type}
        /\ Append(trail[s], type) \in Seq(EventTypes \cup {"none"})
    BY <1>2, Own, ToSetAppend
  <1>4. Outcome(s)'
    BY <1>1, <1>2 DEF Inv, Outcome
  <1>5. Custody(s)'
    BY <1>1, <1>3 DEF Custody
  <1>6. QED BY <1>2, <1>3, <1>4, <1>5, Own, OwnStep DEF Becomes

\* What holds of a step that is not done.
LEMMA Undone ==
    ASSUME Inv, NEW s \in Steps, step[s].pc # "done"
    PROVE  /\ step[s].reply = "none" /\ "workspace_released" \notin ToSet(trail[s])
           /\ workspaces[s] = "acquired" => step[s].pc \in Holding /\ step[s].held
  BY DEF Inv, Custody

-----------------------------------------------------------------------------
(* executeStep *)

LEMMA BeginInv ==
    ASSUME Inv, NEW s \in Steps, Begin(s)
    PROVE  Inv'
  <1>1. step[s].pc = "idle" /\ UNCHANGED <<workspaces, invocations, trail, actions>>
    BY DEF Begin, runtime, records
  <1>2. PICK n \in Intents, i \in Interpretations \cup {Null}, w \in BOOLEAN, a \in BOOLEAN :
          step' = [step EXCEPT ![s] = [step[s] EXCEPT !.pc = "intent", !.intent = n,
                                       !.interpretation = i, !.workspace = w,
                                       !.agentKnown = a]]
    BY DEF Begin, Update
  <1> DEFINE b == [step[s] EXCEPT !.pc = "intent", !.intent = n, !.interpretation = i,
                                  !.workspace = w, !.agentKnown = a]
  <1>3. b \in Step
    BY Own DEF Step
  <1>4. Becomes(s, b, "intent", step[s].held, step[s].outcome, step[s].reply)
    BY <1>2, Own DEF Becomes, Step
  <1> HIDE DEF b
  <1>5. /\ workspaces[s] = "none" /\ step[s].reply = "none"
        /\ "workspace_released" \notin ToSet(trail[s])
    BY <1>1 DEF Inv, Custody
  <1>6. QED BY <1>1, <1>3, <1>4, <1>5, Moving DEF Unresolved, Unlogged

LEMMA CheckIntentInv ==
    ASSUME Inv, NEW s \in Steps, CheckIntent(s)
    PROVE  Inv'
  <1>1. /\ step[s].pc = "intent" /\ UNCHANGED <<workspaces, invocations, trail, actions>>
        /\ workspaces[s] = "none" /\ "workspace_released" \notin ToSet(trail[s])
        /\ step[s].reply = "none"
    BY DEF CheckIntent, runtime, records, Inv, Custody
  <1>2. CASE Answer(s, "rejected")
    BY <1>1, <1>2, AnswerBecomes, Moving DEF Unresolved, Unlogged
  <1>3. CASE Goto(s, "requested_event")
    BY <1>1, <1>3, GotoBecomes, Moving DEF Unresolved, Unlogged, Pcs
  <1>4. CASE Goto(s, "interpretation")
    BY <1>1, <1>4, GotoBecomes, Moving DEF Unresolved, Unlogged, Pcs
  <1>5. QED BY <1>2, <1>3, <1>4 DEF CheckIntent

LEMMA CheckInterpretationInv ==
    ASSUME Inv, NEW s \in Steps, CheckInterpretation(s)
    PROVE  Inv'
  <1>1. /\ step[s].pc = "interpretation"
        /\ UNCHANGED <<workspaces, invocations, trail, actions>>
        /\ workspaces[s] = "none" /\ "workspace_released" \notin ToSet(trail[s])
        /\ step[s].reply = "none"
    BY DEF CheckInterpretation, runtime, records, Inv, Custody
  <1>2. CASE Answer(s, "rejected")
    BY <1>1, <1>2, AnswerBecomes, Moving DEF Unresolved, Unlogged
  <1>3. CASE Goto(s, "requested_event")
    BY <1>1, <1>3, GotoBecomes, Moving DEF Unresolved, Unlogged, Pcs
  <1>4. QED BY <1>2, <1>3 DEF CheckInterpretation

LEMMA EmitRequestedInv ==
    ASSUME Inv, NEW s \in Steps, EmitRequested(s)
    PROVE  Inv'
  <1>1. step[s].pc = "requested_event" /\ Emit(s, "requested")
        /\ UNCHANGED <<workspaces, invocations>>
    BY DEF EmitRequested, runtime
  <1>2. PICK pc \in {"create", "invoke"}, r \in Step :
          Becomes(s, r, pc, step[s].held, step[s].outcome, step[s].reply)
    BY GotoBecomes DEF EmitRequested, Pcs
  <1>3. QED BY <1>1, <1>2, Undone, Emitting
            DEF Unresolved, Unlogged, Holding, EventTypes

LEMMA CreateWorkspaceInv ==
    ASSUME Inv, NEW s \in Steps, CreateWorkspace(s)
    PROVE  Inv'
  <1>1. /\ step[s].pc = "create" /\ UNCHANGED <<invocations, trail, actions>>
        /\ workspaces' = [workspaces EXCEPT ![s] = "active"]
    BY DEF CreateWorkspace, records, Workspace
  <1>2. PICK r \in Step :
          Becomes(s, r, "acquire", step[s].held, step[s].outcome, step[s].reply)
    BY GotoBecomes DEF CreateWorkspace, Pcs
  <1>3. /\ step'[s] = r /\ r.pc = "acquire" /\ r.outcome = step[s].outcome
        /\ r.reply = step[s].reply /\ workspaces'[s] = "active"
    BY <1>1, <1>2 DEF Becomes, Inv, Typed
  <1>4. Outcome(s)' /\ Custody(s)'
    BY <1>1, <1>3 DEF Inv, Outcome, Custody, Unresolved, Unlogged
  <1>5. QED BY <1>1, <1>2, <1>4, Own, OwnStep DEF Becomes, WorkspaceStates

LEMMA CreateFailsInv ==
    ASSUME Inv, NEW s \in Steps, CreateFails(s)
    PROVE  Inv'
  <1>1. step[s].pc = "create" /\ UNCHANGED <<workspaces, invocations, trail, actions>>
    BY DEF CreateFails, runtime, records
  <1>2. PICK r \in Step : Becomes(s, r, "workspace_failed_event", step[s].held,
                                  step[s].outcome, step[s].reply)
    BY GotoBecomes DEF CreateFails, Pcs
  <1>3. QED BY <1>1, <1>2, Undone, Moving DEF Unresolved, Unlogged, Holding

LEMMA AcquireWorkspaceInv ==
    ASSUME Inv, NEW s \in Steps, AcquireWorkspace(s)
    PROVE  Inv'
  <1>1. step[s].pc = "acquire" /\ UNCHANGED <<invocations, trail, actions>>
    BY DEF AcquireWorkspace, records
  <1>2. CASE workspaces[s] \in {"active", "acquired"}
    <2> DEFINE r == [step[s] EXCEPT !.pc = "acquired_event", !.held = TRUE]
    <2>1. /\ workspaces' = [workspaces EXCEPT ![s] = "acquired"]
          /\ step' = [step EXCEPT ![s] = r]
      BY <1>2 DEF AcquireWorkspace, Workspace, Update
    <2>2. /\ r \in Step /\ r.pc = "acquired_event" /\ r.held
          /\ r.outcome = step[s].outcome /\ r.reply = step[s].reply
      BY Own DEF Step
    <2> HIDE DEF r
    <2>3. step'[s] = r /\ workspaces'[s] = "acquired"
      BY <2>1 DEF Inv, Typed
    <2>4. Outcome(s)' /\ Custody(s)'
      BY <1>1, <2>2, <2>3 DEF Inv, Outcome, Custody, Unresolved, Unlogged, Holding
    <2>5. QED BY <1>1, <2>1, <2>2, <2>4, Own, OwnStep DEF WorkspaceStates
  <1>3. CASE workspaces[s] \notin {"active", "acquired"}
    <2>1. UNCHANGED workspaces
      BY <1>3 DEF AcquireWorkspace
    <2>2. PICK r \in Step : Becomes(s, r, "workspace_failed_event", step[s].held,
                                    step[s].outcome, step[s].reply)
      BY <1>3, GotoBecomes DEF AcquireWorkspace, Pcs
    <2>3. QED BY <1>1, <1>3, <2>1, <2>2, Undone, Moving DEF Unresolved, Unlogged,
                                                  Holding
  <1>4. QED BY <1>2, <1>3

LEMMA EmitAcquiredInv ==
    ASSUME Inv, NEW s \in Steps, EmitAcquired(s)
    PROVE  Inv'
  <1>1. /\ step[s].pc = "acquired_event" /\ Emit(s, "workspace_acquired")
        /\ UNCHANGED <<workspaces, invocations>>
    BY DEF EmitAcquired, runtime
  <1>2. PICK r \in Step :
          Becomes(s, r, "invoke", step[s].held, step[s].outcome, step[s].reply)
    BY GotoBecomes DEF EmitAcquired, Pcs
  <1>3. /\ "invoke" \in Unresolved /\ step[s].pc \in Unresolved
        /\ "invoke" \in Unlogged /\ step[s].pc \in Unlogged
        /\ "invoke" \in Holding /\ "workspace_acquired" \in EventTypes
    BY <1>1 DEF Unresolved, Unlogged, Holding, EventTypes
  <1>4. /\ "workspace_released" \notin ToSet(trail[s]) \cup {"workspace_acquired"}
        /\ step[s].reply = "none"
        /\ workspaces[s] = "acquired" => "invoke" \in Holding /\ step[s].held
    BY <1>1, <1>3, Undone
  <1>5. QED BY <1>1, <1>2, <1>3, <1>4, Emitting DEF Becomes

LEMMA EmitWorkspaceFailedInv ==
    ASSUME Inv, NEW s \in Steps, EmitWorkspaceFailed(s)
    PROVE  Inv'
  <1>1. /\ step[s].pc = "workspace_failed_event" /\ Emit(s, "workspace_failed")
        /\ UNCHANGED <<workspaces, invocations>>
    BY DEF EmitWorkspaceFailed, runtime
  <1>2. PICK r \in Step :
          Becomes(s, r, "invoke", step[s].held, step[s].outcome, step[s].reply)
    BY GotoBecomes DEF EmitWorkspaceFailed, Pcs
  <1>3. /\ "invoke" \in Unresolved /\ step[s].pc \in Unresolved
        /\ "invoke" \in Unlogged /\ step[s].pc \in Unlogged
        /\ "invoke" \in Holding /\ "workspace_failed" \in EventTypes
    BY <1>1 DEF Unresolved, Unlogged, Holding, EventTypes
  <1>4. /\ "workspace_released" \notin ToSet(trail[s]) \cup {"workspace_failed"}
        /\ step[s].reply = "none"
        /\ workspaces[s] = "acquired" => "invoke" \in Holding /\ step[s].held
    BY <1>1, <1>3, Undone
  <1>5. QED BY <1>1, <1>2, <1>3, <1>4, Emitting DEF Becomes

LEMMA EmitStartedInv ==
    ASSUME Inv, NEW s \in Steps, EmitStarted(s)
    PROVE  Inv'
  <1>1. /\ step[s].pc = "started_event" /\ Emit(s, "started")
        /\ UNCHANGED <<workspaces, invocations>>
    BY DEF EmitStarted, runtime
  <1>2. PICK r \in Step :
          Becomes(s, r, "result", step[s].held, step[s].outcome, step[s].reply)
    BY GotoBecomes DEF EmitStarted, Pcs
  <1>3. /\ "result" \in Unresolved /\ step[s].pc \in Unresolved
        /\ "result" \in Unlogged /\ step[s].pc \in Unlogged
        /\ "result" \in Holding /\ "started" \in EventTypes
    BY <1>1 DEF Unresolved, Unlogged, Holding, EventTypes
  <1>4. /\ "workspace_released" \notin ToSet(trail[s]) \cup {"started"}
        /\ step[s].reply = "none"
        /\ workspaces[s] = "acquired" => "result" \in Holding /\ step[s].held
    BY <1>1, <1>3, Undone
  <1>5. QED BY <1>1, <1>2, <1>3, <1>4, Emitting DEF Becomes

\* An invocation that is not completed has the outcome "none", until it has another.
LEMMA NotStartedInv ==
    ASSUME Inv, NEW s \in Steps, step[s].pc \in {"invoke", "started_event"}, NotStarted(s),
           UNCHANGED <<workspaces, invocations, trail, actions>>
    PROVE  Inv'
  <1>1. PICK r \in Step : Becomes(s, r, "terminal_event", step[s].held, "not_started",
                                  step[s].reply)
    BY ResolvedBecomes DEF NotStarted, Outcomes
  <1>2. /\ step'[s] = r /\ r.pc = "terminal_event" /\ r.outcome = "not_started"
        /\ r.held = step[s].held /\ r.reply = step[s].reply
    BY <1>1 DEF Becomes, Inv, Typed
  <1>3. Outcome(s)' /\ Custody(s)'
    BY <1>2 DEF Inv, Outcome, Custody, Agrees, Unresolved, Unlogged, Holding
  <1>4. QED BY <1>1, <1>3, Own, OwnStep DEF Becomes

LEMMA InvokeInv ==
    ASSUME Inv, NEW s \in Steps, Invoke(s)
    PROVE  Inv'
  <1>1. step[s].pc = "invoke" /\ UNCHANGED <<workspaces, trail, actions>>
    BY DEF Invoke, records
  <1>2. CASE step[s].agentKnown
    <2>1. invocations' = [invocations EXCEPT ![s] = "running"]
      BY <1>2 DEF Invoke, Invocation
    <2>2. PICK r \in Step :
            Becomes(s, r, "started_event", step[s].held, step[s].outcome, step[s].reply)
      BY <1>2, GotoBecomes DEF Invoke, Pcs
    <2>3. /\ step'[s] = r /\ r.pc = "started_event" /\ r.outcome = step[s].outcome
          /\ r.held = step[s].held /\ r.reply = step[s].reply
          /\ invocations'[s] = "running"
      BY <2>1, <2>2 DEF Becomes, Inv, Typed
    <2>4. Outcome(s)' /\ Custody(s)'
      BY <1>1, <2>3 DEF Inv, Outcome, Custody, Agrees, Unresolved, Unlogged, Holding
    <2>5. QED BY <1>1, <2>1, <2>2, <2>4, Own, OwnStep DEF Becomes, InvocationStates
  <1>3. CASE ~step[s].agentKnown
    BY <1>1, <1>3, NotStartedInv DEF Invoke
  <1>4. QED BY <1>2, <1>3

LEMMA GetResultInv ==
    ASSUME Inv, NEW s \in Steps, GetResult(s)
    PROVE  Inv'
  <1>1. step[s].pc = "result" /\ UNCHANGED <<workspaces, trail, actions>>
    BY DEF GetResult, records
  <1> DEFINE status == Polled(invocations[s])
             outcome == IF status \in {"completed", "cancelled"} THEN status ELSE "failed"
  <1>2. status \in InvocationStates /\ outcome \in Outcomes
    BY Own DEF Polled, InvocationStates, Outcomes
  <1>3. /\ invocations' = [invocations EXCEPT ![s] = status]
        /\ Update(s, [step[s] EXCEPT !.pc = "terminal_event", !.outcome = outcome])
    BY DEF GetResult, Invocation
  <1>4. Agrees(outcome, status) /\ outcome # "none"
    BY DEF Agrees
  <1> HIDE DEF outcome, status
  <1>5. PICK r \in Step : Becomes(s, r, "terminal_event", step[s].held, outcome,
                                  step[s].reply)
    BY <1>2, <1>3, ResolvedBecomes
  <1>6. /\ step'[s] = r /\ r.pc = "terminal_event" /\ r.outcome = outcome
        /\ r.held = step[s].held /\ r.reply = step[s].reply /\ invocations'[s] = status
    BY <1>3, <1>5 DEF Becomes, Inv, Typed
  <1>7. Outcome(s)' /\ Custody(s)'
    BY <1>1, <1>4, <1>6 DEF Inv, Outcome, Custody, Unresolved, Unlogged, Holding
  <1>8. QED BY <1>1, <1>2, <1>3, <1>5, <1>7, Own, OwnStep DEF Becomes

LEMMA EmitTerminalInv ==
    ASSUME Inv, NEW s \in Steps, EmitTerminal(s)
    PROVE  Inv'
  <1>1. /\ step[s].pc = "terminal_event" /\ UNCHANGED <<workspaces, invocations>>
        /\ Emit(s, TerminalEvent(step[s].outcome))
    BY DEF EmitTerminal, runtime
  <1>2. TerminalEvent(step[s].outcome) \in (EventTypes \cup {"none"}) \ {"workspace_released"}
    BY Own DEF TerminalEvent, EventTypes, Step, Outcomes
  <1>3. PICK r \in Step :
          Becomes(s, r, "action", step[s].held, step[s].outcome, step[s].reply)
    BY GotoBecomes DEF EmitTerminal, Pcs
  <1>4. /\ "action" \notin Unresolved /\ step[s].pc \in Unlogged /\ "action" \in Holding
    BY <1>1 DEF Unresolved, Unlogged, Holding
  <1>5. /\ "workspace_released" \notin ToSet(trail[s]) \cup {TerminalEvent(step[s].outcome)}
        /\ step[s].reply = "none"
        /\ workspaces[s] = "acquired" => "action" \in Holding /\ step[s].held
    BY <1>1, <1>2, <1>4, Undone
  <1>6. QED BY <1>1, <1>2, <1>3, <1>4, <1>5, Emitting

LEMMA LogActionInv ==
    ASSUME Inv, NEW s \in Steps, LogAction(s)
    PROVE  Inv'
  <1> DEFINE logged == Append(actions[s], step[s].outcome)
  <1>1. /\ step[s].pc = "action" /\ UNCHANGED <<workspaces, invocations, trail>>
        /\ actions' = [actions EXCEPT ![s] = logged]
    BY DEF LogAction, runtime
  <1>2. actions[s] = <<>> /\ step[s].outcome \in Outcomes \cup {"none"}
    BY <1>1, Own DEF Inv, Outcome, Unlogged, Unresolved, Step
  <1>3. logged \in Seq(Outcomes \cup {"none"}) /\ logged[1] = step[s].outcome
    BY <1>2, ToSetAppend, Own
  <1> HIDE DEF logged
  <1>4. PICK r \in Step :
          Becomes(s, r, "action_event", step[s].held, step[s].outcome, step[s].reply)
    BY GotoBecomes DEF LogAction, Pcs
  <1>5. /\ step'[s] = r /\ r.pc = "action_event" /\ r.outcome = step[s].outcome
        /\ r.held = step[s].held /\ r.reply = step[s].reply /\ actions'[s] = logged
    BY <1>1, <1>4 DEF Becomes, Inv, Typed
  <1>6. Outcome(s)' /\ Custody(s)'
    BY <1>1, <1>3, <1>5 DEF Inv, Outcome, Custody, Unresolved, Unlogged, Holding
  <1>7. QED BY <1>1, <1>3, <1>4, <1>6, Own, OwnStep DEF Becomes

LEMMA EmitActionLoggedInv ==
    ASSUME Inv, NEW s \in Steps, EmitActionLogged(s)
    PROVE  Inv'
  <1>1. /\ step[s].pc = "action_event" /\ Emit(s, "action_logged")
        /\ UNCHANGED <<workspaces, invocations>>
    BY DEF EmitActionLogged, runtime
  <1>2. CASE step[s].held
    <2>1. PICK r \in Step :
            Becomes(s, r, "release", step[s].held, step[s].outcome, step[s].reply)
      BY <1>2, GotoBecomes DEF EmitActionLogged, Pcs
    <2>2. QED BY <1>1, <1>2, <2>1, Undone, Emitting DEF Unresolved, Unlogged, Holding,
                                               EventTypes
  <1>3. CASE ~step[s].held
    <2>1. PICK r \in Step, reply \in {"ok", "not_ok"} :
            Becomes(s, r, "done", step[s].held, step[s].outcome, reply)
      BY <1>3, FinishBecomes DEF EmitActionLogged
    <2>2. workspaces[s] # "acquired"
      BY <1>1, <1>3 DEF Inv, Custody
    <2>3. QED BY <1>1, <2>1, <2>2, Undone, Emitting DEF Unresolved, Unlogged,
                                               EventTypes
  <1>4. QED BY <1>2, <1>3

LEMMA ReleaseWorkspaceInv ==
    ASSUME Inv, NEW s \in Steps, ReleaseWorkspace(s)
    PROVE  Inv'
  <1>1. /\ step[s].pc = "release" /\ UNCHANGED <<invocations, trail, actions>>
        /\ workspaces' = [workspaces EXCEPT ![s] = Released(workspaces[s])]
    BY DEF ReleaseWorkspace, records, Workspace
  <1>2. Released(workspaces[s]) \in {"archived", "destroyed"}
    BY DEF Released
  <1>3. PICK r \in Step :
          Becomes(s, r, "released_event", step[s].held, step[s].outcome, step[s].reply)
    BY GotoBecomes DEF ReleaseWorkspace, Pcs
  <1>4. /\ step'[s] = r /\ r.pc = "released_event" /\ r.outcome = step[s].outcome
        /\ r.reply = step[s].reply /\ workspaces'[s] = Released(workspaces[s])
    BY <1>1, <1>3 DEF Becomes, Inv, Typed
  <1>5. Outcome(s)' /\ Custody(s)'
    BY <1>1, <1>2, <1>4 DEF Inv, Outcome, Custody, Unresolved, Unlogged
  <1>6. QED BY <1>1, <1>2, <1>3, <1>5, Own, OwnStep DEF Becomes, WorkspaceStates

LEMMA EmitReleasedInv ==
    ASSUME Inv, NEW s \in Steps, EmitReleased(s)
    PROVE  Inv'
  <1>1. /\ step[s].pc = "released_event" /\ Emit(s, "workspace_released")
        /\ UNCHANGED <<workspaces, invocations>>
    BY DEF EmitReleased, runtime
  <1>2. PICK r \in Step, reply \in {"ok", "not_ok"} :
          Becomes(s, r, "done", step[s].held, step[s].outcome, reply)
    BY FinishBecomes DEF EmitReleased
  <1>3. workspaces[s] # "acquired"
    BY <1>1 DEF Inv, Custody, Holding
  <1>4. QED BY <1>1, <1>2, <1>3, Emitting DEF Unresolved, Unlogged, EventTypes

-----------------------------------------------------------------------------
(* Failures, and the others *)

LEMMA WriteFailsInv ==
    ASSUME Inv, NEW s \in Steps, WriteFails(s)
    PROVE  Inv'
  <1>1. UNCHANGED <<workspaces, invocations, trail, actions>>
    BY DEF WriteFails, runtime, records
  <1>2. CASE step[s].pc = "acquired_event" /\ Goto(s, "workspace_failed_event")
    <2>1. PICK r \in Step : Becomes(s, r, "workspace_failed_event", step[s].held,
                                    step[s].outcome, step[s].reply)
      BY <1>2, GotoBecomes DEF Pcs
    <2>2. /\ "workspace_failed_event" \in Holding
          /\ step[s].pc \in Unresolved /\ step[s].pc \in Unlogged
      BY <1>2 DEF Unresolved, Unlogged, Holding
    <2>3. /\ "workspace_released" \notin ToSet(trail[s]) /\ step[s].reply = "none"
          /\ workspaces[s] = "acquired" => step[s].held
      BY <1>2, Undone
    <2>4. QED BY <1>1, <2>1, <2>2, <2>3, Moving
  <1>3. CASE step[s].pc = "started_event" /\ NotStarted(s)
    BY <1>1, <1>3, NotStartedInv
  <1>4. CASE step[s].pc = "released_event" /\ Finish(s)
    <2>1. PICK r \in Step, reply \in {"ok", "not_ok"} :
            Becomes(s, r, "done", step[s].held, step[s].outcome, reply)
      BY <1>4, FinishBecomes
    <2>2. workspaces[s] # "acquired"
      BY <1>4 DEF Inv, Custody, Holding
    <2>3. QED BY <1>1, <1>4, <2>1, <2>2, Undone, Moving DEF Unresolved, Unlogged
  <1>5. CASE /\ step[s].pc \in {"requested_event", "workspace_failed_event",
                                "terminal_event", "action", "action_event"}
             /\ Answer(s, "thrown")
    <2>1. PICK r \in Step : Becomes(s, r, "done", step[s].held, step[s].outcome, "thrown")
      BY <1>5, AnswerBecomes
    <2>2. QED BY <1>1, <1>5, <2>1, Undone, Moving DEF Unresolved, Unlogged
  <1>6. QED BY <1>2, <1>3, <1>4, <1>5 DEF WriteFails

LEMMA CrashInv == Inv /\ Crash => Inv'
  <1> SUFFICES ASSUME Inv, Crash PROVE Inv'
    OBVIOUS
  <1>1. /\ workspaces' = [s \in Steps |-> IF workspaces[s] \in {"none", "destroyed"}
                                          THEN workspaces[s] ELSE "orphaned"]
        /\ invocations' = [s \in Steps |-> IF invocations[s] = "none" THEN "none"
                                           ELSE "lost"]
        /\ step' = [s \in Steps |-> IF Running(s)
                                    THEN [step[s] EXCEPT !.pc = "done", !.reply = "lost"]
                                    ELSE step[s]]
        /\ UNCHANGED <<trail, actions>>
    BY DEF Crash, records
  <1>2. ASSUME NEW s \in Steps
        PROVE  /\ step'[s] \in Step /\ step'[s].outcome = step[s].outcome
               /\ \/ step'[s] = step[s] /\ step[s].pc \in {"idle", "done"}
                  \/ step'[s].pc = "done" /\ step'[s].reply = "lost"
    <2>1. CASE Running(s)
      BY <1>1, <2>1, Own DEF Step
    <2>2. CASE ~Running(s)
      BY <1>1, <2>2, Own DEF Running
    <2>3. QED BY <2>1, <2>2
  <1>3. ASSUME NEW s \in Steps
        PROVE  /\ workspaces'[s] \in {"none", "destroyed", "orphaned"}
               /\ workspaces[s] = "none" => workspaces'[s] = "none"
               /\ invocations'[s] \in {"none", "lost"}
               /\ invocations[s] = "none" => invocations'[s] = "none"
    BY <1>1
  <1>4. Typed'
    <2>1. step' \in [Steps -> Step]
      BY <1>1, <1>2
    <2>2. /\ workspaces' \in [Steps -> WorkspaceStates]
          /\ invocations' \in [Steps -> InvocationStates]
      BY <1>1, <1>3 DEF WorkspaceStates, InvocationStates
    <2>3. QED BY <1>1, <2>1, <2>2 DEF Inv, Typed, WorkspaceStates, InvocationStates
  <1>5. ASSUME NEW s \in Steps PROVE Outcome(s)' /\ Custody(s)'
    <2>1. Agrees(step'[s].outcome, invocations'[s])
      <3>1. Agrees(step[s].outcome, invocations[s]) /\ step'[s].outcome = step[s].outcome
        BY <1>2 DEF Inv, Outcome
      <3>2. invocations'[s] = "lost" \/ (invocations'[s] = "none" /\ invocations[s] = "none")
        BY <1>1
      <3>3. QED BY <3>1, <3>2 DEF Agrees
    <2>2. Outcome(s)'
      BY <1>1, <1>2, <2>1 DEF Inv, Outcome, Unresolved, Unlogged
    <2>3. Custody(s)'
      <3>1. Custody(s) /\ workspaces'[s] # "acquired"
        BY <1>3 DEF Inv
      <3>2. CASE step'[s] = step[s] /\ step[s].pc \in {"idle", "done"}
        BY <1>1, <1>3, <3>1, <3>2 DEF Custody
      <3>3. CASE step'[s].pc = "done" /\ step'[s].reply = "lost"
        BY <1>1, <3>1, <3>3 DEF Custody
      <3>4. QED BY <1>2, <3>2, <3>3
    <2>4. QED BY <2>2, <2>3
  <1>6. QED BY <1>4, <1>5 DEF Inv

LEMMA CancelInv ==
    ASSUME Inv, NEW s \in Steps, Cancel(s)
    PROVE  Inv'
  <1>1. /\ invocations[s] = "running" /\ UNCHANGED <<step, workspaces, trail, actions>>
        /\ invocations' = [invocations EXCEPT ![s] = "cancelled"]
    BY DEF Cancel, Invocation, records
  <1>2. invocations'[s] = "cancelled"
    BY <1>1, Own DEF Inv, Typed
  <1>3. Outcome(s)' /\ Custody(s)'
    BY <1>1, <1>2 DEF Inv, Outcome, Custody, Agrees
  <1>4. QED BY <1>1, <1>3, Own, OwnStep DEF InvocationStates

LEMMA OperatorInv ==
    ASSUME Inv, NEW s \in Steps, OperatorReleases(s) \/ OperatorDestroys(s)
    PROVE  Inv'
  <1>1. UNCHANGED <<step, invocations, trail, actions>>
    BY DEF OperatorReleases, OperatorDestroys, records
  <1>2. PICK w \in {"archived", "destroyed"} : workspaces' = [workspaces EXCEPT ![s] = w]
    BY DEF OperatorReleases, OperatorDestroys, Workspace, Released
  <1>3. workspaces[s] # "none" /\ workspaces'[s] = w
    BY <1>2 DEF OperatorReleases, OperatorDestroys, Inv, Typed
  <1>4. Outcome(s)' /\ Custody(s)'
    BY <1>1, <1>3 DEF Inv, Outcome, Custody
  <1>5. QED BY <1>1, <1>2, <1>4, Own, OwnStep DEF WorkspaceStates

-----------------------------------------------------------------------------
(* The theorems *)

LEMMA InitInv == Init => Inv
  <1> SUFFICES ASSUME Init PROVE Inv
    OBVIOUS
  <1>1. ASSUME NEW s \in Steps
        PROVE  /\ step[s] \in Step /\ step[s].pc = "idle" /\ step[s].outcome = "none"
               /\ step[s].reply = "none"
               /\ workspaces[s] = "none" /\ invocations[s] = "none"
               /\ trail[s] = <<>> /\ actions[s] = <<>>
    <2>1. PICK n \in Intents :
            step[s] = [pc |-> "idle", intent |-> n, interpretation |-> Null,
                       workspace |-> FALSE, agentKnown |-> TRUE, held |-> FALSE,
                       outcome |-> "none", reply |-> "none"]
      BY DEF Init
    <2>2. QED BY <2>1 DEF Init, Step
  <1>2. Typed
    BY <1>1 DEF Init, Typed
  <1>3. ToSet(<<>>) = {}
    BY DEF ToSet
  <1>4. QED BY <1>1, <1>2, <1>3 DEF Inv, Outcome, Custody, Agrees

LEMMA NextInv == Inv /\ [Next]_vars => Inv'
  <1> SUFFICES ASSUME Inv, [Next]_vars PROVE Inv'
    OBVIOUS
  <1>1. ASSUME NEW s \in Steps, Begin(s) \/ Progress(s) \/ WriteFails(s) PROVE Inv'
    BY <1>1, BeginInv, CheckIntentInv, CheckInterpretationInv, EmitRequestedInv,
       CreateWorkspaceInv, CreateFailsInv, AcquireWorkspaceInv, EmitAcquiredInv,
       EmitWorkspaceFailedInv, InvokeInv, EmitStartedInv, GetResultInv, EmitTerminalInv,
       LogActionInv, EmitActionLoggedInv, ReleaseWorkspaceInv, EmitReleasedInv,
       WriteFailsInv DEF Progress
  <1>2. CASE Crash
    BY <1>2, CrashInv
  <1>3. CASE Others
    <2>1. CASE \E n \in Intents : SetIntent(n)
      BY <2>1 DEF SetIntent, runtime, records, Inv, Typed, Outcome, Custody
    <2>2. CASE \E i \in Interpretations : SetInterpretation(i)
      BY <2>2 DEF SetInterpretation, runtime, records, Inv, Typed, Outcome, Custody
    <2>3. CASE \E s \in Steps : Cancel(s) \/ OperatorReleases(s) \/ OperatorDestroys(s)
      BY <2>3, CancelInv, OperatorInv
    <2>4. QED BY <1>3, <2>1, <2>2, <2>3 DEF Others
  <1>4. CASE UNCHANGED vars
    BY <1>4 DEF vars, runtime, records, Inv, Typed, Outcome, Custody
  <1>5. QED BY <1>1, <1>2, <1>3, <1>4 DEF Next

LEMMA Invariance == Spec => []Inv
  BY InitInv, NextInv, PTL DEF Spec

\* What executeStep folds back of an invocation stays true of it: it was polled once,
\* cancel and the crash do not turn an end into another, and nothing completes an
\* invocation that is recorded as failed.
THEOREM OutcomesStayTrue == Spec => []OutcomeTruthful
  <1>1. Inv => OutcomeTruthful
    BY DEF Inv, Outcome, Agrees, OutcomeTruthful
  <1>2. QED BY <1>1, Invariance, PTL

\* executeStep answers after it has released what it held, and its catch blocks do not
\* lose `held': only an exception from outside the try blocks leaves a workspace
\* acquired.
THEOREM WorkspacesAreReturned == Spec => []WorkspaceReturned
  <1>1. Inv => WorkspaceReturned
    <2> SUFFICES ASSUME Inv, NEW s \in Steps,
                        \/ step[s].reply \in {"ok", "not_ok", "rejected"}
                        \/ "workspace_released" \in ToSet(trail[s])
                 PROVE  workspaces[s] # "acquired"
      BY DEF WorkspaceReturned
    <2>1. QED BY DEF Inv, Custody, Holding
  <1>2. QED BY <1>1, Invariance, PTL

-----------------------------------------------------------------------------
(* The mandate *)

Governed ==
    /\ intents \in [Intents -> {"absent", "active", "inactive"}]
    /\ interpretations \in [Interpretations ->
           [intent : Intents, status : {"absent", "live", "superseded"}]]
    /\ stood \in [Steps -> SUBSET Parts] /\ lapsed \in [Steps -> SUBSET Parts]

\* From the check of the intent to the call of invoke.
Cleared == {"interpretation", "requested_event", "create", "acquire", "acquired_event",
            "workspace_failed_event", "invoke"}

FullyCleared == Cleared \ {"interpretation"}

Early == {"idle", "intent", "interpretation"}

Untouched(s) == trail[s] = <<>> /\ workspaces[s] = "none" /\ invocations[s] = "none"

\* While a step runs, how its mandate is now is among what was observed of it.
Observed(s) ==
    Running(s) => \A part \in Mandate(step[s]) :
                      IF Stands(step[s], part) THEN part \in stood[s] ELSE part \in lapsed[s]

Gate(s) ==
    /\ Observed(s)
    /\ step[s].pc = "interpretation" => step[s].interpretation # Null
    /\ step[s].pc \in Cleared => "intent" \in stood[s]
    /\ step[s].pc \in FullyCleared \/ invocations[s] # "none" =>
           Mandate(step[s]) \subseteq stood[s]
    /\ step[s].pc \in Early \/ step[s].reply = "rejected" => Untouched(s)
    /\ step[s].reply = "rejected" => lapsed[s] # {}

GateInv == Governed /\ \A s \in Steps : Gate(s)

\* A step of executeStep that does not move.
LEMMA StaysGate ==
    ASSUME GateInv, UNCHANGED governance, NEW q \in Steps, step'[q] = step[q],
           invocations'[q] # "none" => invocations[q] # "none",
           Untouched(q) => Untouched(q)'
    PROVE  Gate(q)'
  <1>1. Gate(q) /\ UNCHANGED <<intents, interpretations, stood, lapsed>>
    BY DEF GateInv, governance
  <1>2. Observed(q)'
    BY <1>1 DEF Gate, Observed, Running, Stands
  <1>3. QED BY <1>1, <1>2 DEF Gate

\* The record `new' is a step on from `old', past the checks.
Follows(old, new) ==
    /\ new.intent = old.intent /\ new.interpretation = old.interpretation
    /\ new.pc \in Cleared => new.pc \in FullyCleared /\ old.pc \in FullyCleared
    /\ new.pc \notin Early /\ new.reply # "rejected"

LEMMA FollowsGate ==
    ASSUME Inv, GateInv, UNCHANGED governance, NEW s \in Steps, Running(s),
           NEW r, step' = [step EXCEPT ![s] = r], Follows(step[s], r),
           invocations'[s] # "none" => invocations[s] # "none" \/ step[s].pc \in FullyCleared
    PROVE  Gate(s)'
  <1>1. Gate(s) /\ UNCHANGED <<intents, interpretations, stood, lapsed>>
    BY DEF GateInv, governance
  <1>2. step'[s] = r
    BY DEF Inv, Typed
  <1>3. Mandate(step'[s]) = Mandate(step[s])
    BY <1>2 DEF Mandate, Follows
  <1>4. Observed(s)'
    BY <1>1, <1>2, <1>3 DEF Gate, Observed, Stands, Follows
  <1>5. QED BY <1>1, <1>2, <1>3, <1>4 DEF Gate, Follows, Cleared, FullyCleared, Early

LEMMA GotoFollows ==
    ASSUME Inv, NEW s \in Steps, NEW pc, Goto(s, pc), step[s].pc # "done", pc \notin Early,
           pc \in Cleared => pc \in FullyCleared /\ step[s].pc \in FullyCleared
    PROVE  \E r : step' = [step EXCEPT ![s] = r] /\ Follows(step[s], r)
  <1> DEFINE r == [step[s] EXCEPT !.pc = pc]
  <1>1. /\ r.intent = step[s].intent /\ r.interpretation = step[s].interpretation /\ r.pc = pc
        /\ r.reply = "none"
    BY Own, Undone DEF Step
  <1>2. step' = [step EXCEPT ![s] = r]
    BY DEF Goto, Update
  <1>3. QED BY <1>1, <1>2 DEF Follows

LEMMA AnswerFollows ==
    ASSUME Inv, NEW s \in Steps, NEW reply, Answer(s, reply), reply # "rejected"
    PROVE  \E r : step' = [step EXCEPT ![s] = r] /\ Follows(step[s], r)
  <1> DEFINE r == [step[s] EXCEPT !.pc = "done", !.reply = reply]
  <1>1. /\ r.intent = step[s].intent /\ r.interpretation = step[s].interpretation
        /\ r.pc = "done" /\ r.reply = reply
    BY Own DEF Step
  <1>2. step' = [step EXCEPT ![s] = r]
    BY DEF Answer, Update
  <1>3. QED BY <1>1, <1>2 DEF Follows, Cleared, Early

LEMMA ResolvedFollows ==
    ASSUME Inv, NEW s \in Steps, NEW outcome, step[s].pc # "done",
           Update(s, [step[s] EXCEPT !.pc = "terminal_event", !.outcome = outcome])
    PROVE  \E r : step' = [step EXCEPT ![s] = r] /\ Follows(step[s], r)
  <1> DEFINE r == [step[s] EXCEPT !.pc = "terminal_event", !.outcome = outcome]
  <1>1. /\ r.intent = step[s].intent /\ r.interpretation = step[s].interpretation
        /\ r.pc = "terminal_event" /\ r.reply = "none"
    BY Own, Undone DEF Step
  <1>2. step' = [step EXCEPT ![s] = r]
    BY DEF Update
  <1>3. QED BY <1>1, <1>2 DEF Follows, Cleared, Early

\* executeStep past its checks.
Rest(s) == \/ EmitRequested(s) \/ CreateWorkspace(s) \/ CreateFails(s)
           \/ AcquireWorkspace(s) \/ EmitAcquired(s) \/ EmitWorkspaceFailed(s)
           \/ Invoke(s) \/ EmitStarted(s) \/ GetResult(s) \/ EmitTerminal(s)
           \/ LogAction(s) \/ EmitActionLogged(s) \/ ReleaseWorkspace(s)
           \/ EmitReleased(s) \/ WriteFails(s)

LEMMA RestFollows ==
    ASSUME Inv, NEW s \in Steps, Rest(s)
    PROVE  /\ UNCHANGED governance /\ Running(s)
           /\ \E r : step' = [step EXCEPT ![s] = r] /\ Follows(step[s], r)
  <1> DEFINE Followed == \E r : step' = [step EXCEPT ![s] = r] /\ Follows(step[s], r)
  <1> HIDE DEF Followed
  <1>0. UNCHANGED governance /\ step[s].pc \notin {"idle", "done"}
    BY DEF Rest, EmitRequested, CreateWorkspace, CreateFails, AcquireWorkspace, EmitAcquired,
           EmitWorkspaceFailed, Invoke, EmitStarted, GetResult, EmitTerminal, LogAction,
           EmitActionLogged, ReleaseWorkspace, EmitReleased, WriteFails
  <1> SUFFICES Followed
    BY <1>0 DEF Followed, Running
  <1>1. CASE EmitRequested(s)
    BY <1>0, <1>1, GotoFollows DEF EmitRequested, Early, Cleared, FullyCleared, Followed
  <1>2. CASE CreateWorkspace(s)
    BY <1>0, <1>2, GotoFollows DEF CreateWorkspace, Early, Cleared, FullyCleared, Followed
  <1>3. CASE CreateFails(s)
    BY <1>0, <1>3, GotoFollows DEF CreateFails, Early, Cleared, FullyCleared, Followed
  <1>4. CASE AcquireWorkspace(s)
    <2>1. CASE Goto(s, "workspace_failed_event")
      BY <1>0, <1>4, <2>1, GotoFollows DEF AcquireWorkspace, Early, Cleared, FullyCleared, Followed
    <2>2. CASE Update(s, [step[s] EXCEPT !.pc = "acquired_event", !.held = TRUE])
      <3> DEFINE r == [step[s] EXCEPT !.pc = "acquired_event", !.held = TRUE]
      <3>1. /\ r.intent = step[s].intent /\ r.interpretation = step[s].interpretation
            /\ r.pc = "acquired_event" /\ r.reply = "none"
        BY <1>0, Own, Undone DEF Step
      <3>2. step' = [step EXCEPT ![s] = r] /\ step[s].pc = "acquire" /\ UNCHANGED governance
        BY <1>4, <2>2 DEF AcquireWorkspace, Update
      <3>3. QED BY <1>0, <3>1, <3>2 DEF Follows, Early, Cleared, FullyCleared, Followed
    <2>3. QED BY <1>4, <2>1, <2>2 DEF AcquireWorkspace
  <1>5. CASE EmitAcquired(s)
    BY <1>0, <1>5, GotoFollows DEF EmitAcquired, Early, Cleared, FullyCleared, Followed
  <1>6. CASE EmitWorkspaceFailed(s)
    BY <1>0, <1>6, GotoFollows DEF EmitWorkspaceFailed, Early, Cleared, FullyCleared, Followed
  <1>7. CASE Invoke(s)
    <2>1. CASE Goto(s, "started_event")
      BY <1>0, <1>7, <2>1, GotoFollows DEF Invoke, Cleared, Early, Followed
    <2>2. CASE NotStarted(s)
      BY <1>0, <1>7, <2>2, ResolvedFollows DEF Invoke, NotStarted, Followed
    <2>3. QED BY <1>7, <2>1, <2>2 DEF Invoke
  <1>8. CASE EmitStarted(s)
    BY <1>0, <1>8, GotoFollows DEF EmitStarted, Cleared, Early, Followed
  <1>9. CASE GetResult(s)
    BY <1>0, <1>9, ResolvedFollows DEF GetResult, Followed
  <1>10. CASE EmitTerminal(s)
    BY <1>0, <1>10, GotoFollows DEF EmitTerminal, Cleared, Early, Followed
  <1>11. CASE LogAction(s)
    BY <1>0, <1>11, GotoFollows DEF LogAction, Cleared, Early, Followed
  <1>12. CASE EmitActionLogged(s)
    BY <1>0, <1>12, GotoFollows, AnswerFollows DEF EmitActionLogged, Finish, Cleared, Early, Followed
  <1>13. CASE ReleaseWorkspace(s)
    BY <1>0, <1>13, GotoFollows DEF ReleaseWorkspace, Cleared, Early, Followed
  <1>14. CASE EmitReleased(s)
    BY <1>0, <1>14, AnswerFollows DEF EmitReleased, Finish, Followed
  <1>15. CASE WriteFails(s)
    <2>1. CASE step[s].pc = "acquired_event" /\ Goto(s, "workspace_failed_event")
      BY <1>0, <1>15, <2>1, GotoFollows DEF WriteFails, Early, Cleared, FullyCleared, Followed
    <2>2. CASE NotStarted(s)
      BY <1>0, <1>15, <2>2, ResolvedFollows DEF WriteFails, NotStarted, Followed
    <2>3. CASE Finish(s) \/ Answer(s, "thrown")
      BY <1>0, <1>15, <2>3, AnswerFollows DEF WriteFails, Finish, Followed
    <2>4. QED BY <1>15, <2>1, <2>2, <2>3 DEF WriteFails
  <1>16. QED BY <1>1, <1>2, <1>3, <1>4, <1>5, <1>6, <1>7, <1>8, <1>9, <1>10, <1>11, <1>12,
                <1>13, <1>14, <1>15 DEF Rest

\* What they leave of the others, and of the invocation.
LEMMA RestFrame ==
    ASSUME Inv, NEW s \in Steps, Rest(s)
    PROVE  /\ \A q \in Steps \ {s} : /\ workspaces'[q] = workspaces[q] /\ trail'[q] = trail[q]
                                      /\ invocations'[q] = invocations[q]
           /\ invocations'[s] # "none" => invocations[s] # "none" \/ step[s].pc \in FullyCleared
  <1>1. \A q \in Steps \ {s} : workspaces'[q] = workspaces[q]
    BY DEF Rest, EmitRequested, CreateWorkspace, CreateFails, AcquireWorkspace, EmitAcquired,
           EmitWorkspaceFailed, Invoke, EmitStarted, GetResult, EmitTerminal, LogAction,
           EmitActionLogged, ReleaseWorkspace, EmitReleased, WriteFails, Workspace, runtime,
           Inv, Typed
  <1>2. \A q \in Steps \ {s} : trail'[q] = trail[q]
    BY DEF Rest, EmitRequested, CreateWorkspace, CreateFails, AcquireWorkspace, EmitAcquired,
           EmitWorkspaceFailed, Invoke, EmitStarted, GetResult, EmitTerminal, LogAction,
           EmitActionLogged, ReleaseWorkspace, EmitReleased, WriteFails, Emit, records,
           Inv, Typed
  <1>3. CASE Invoke(s)
    BY <1>1, <1>2, <1>3 DEF Invoke, Invocation, Inv, Typed, FullyCleared, Cleared
  <1>4. CASE GetResult(s)
    <2>1. invocations' = [invocations EXCEPT ![s] = Polled(invocations[s])]
      BY <1>4 DEF GetResult, Invocation
    <2>2. Polled("none") = "none"
      BY DEF Polled
    <2>3. QED BY <1>1, <1>2, <2>1, <2>2 DEF Inv, Typed
  <1>5. CASE UNCHANGED invocations
    BY <1>1, <1>2, <1>5
  <1>6. QED BY <1>3, <1>4, <1>5
            DEF Rest, EmitRequested, CreateWorkspace, CreateFails, AcquireWorkspace,
                EmitAcquired, EmitWorkspaceFailed, EmitStarted, EmitTerminal, LogAction,
                EmitActionLogged, ReleaseWorkspace, EmitReleased, WriteFails, runtime

LEMMA RestGate ==
    ASSUME Inv, GateInv, NEW s \in Steps, Rest(s), NEW q \in Steps
    PROVE  Gate(q)'
  <1>1. PICK r : step' = [step EXCEPT ![s] = r] /\ Follows(step[s], r)
    BY RestFollows
  <1>2. UNCHANGED governance /\ Running(s)
    BY RestFollows
  <1>3. CASE q = s
    BY <1>1, <1>2, <1>3, RestFrame, FollowsGate
  <1>4. CASE q # s
    <2>1. step'[q] = step[q]
      BY <1>1, <1>4 DEF Inv, Typed
    <2>2. /\ workspaces'[q] = workspaces[q] /\ trail'[q] = trail[q]
          /\ invocations'[q] = invocations[q]
      BY <1>4, RestFrame
    <2>3. QED BY <1>2, <2>1, <2>2, StaysGate DEF Untouched
  <1>5. QED BY <1>3, <1>4

\* A step is asked whether its mandate stands.
LEMMA ChecksGate ==
    ASSUME Inv, GateInv, NEW s \in Steps, CheckIntent(s) \/ CheckInterpretation(s),
           NEW q \in Steps
    PROVE  Gate(q)'
  <1>1. /\ UNCHANGED governance /\ UNCHANGED <<workspaces, invocations, trail>>
        /\ step[s].pc \in {"intent", "interpretation"}
    BY DEF CheckIntent, CheckInterpretation, runtime, records
  <1>2. UNCHANGED <<intents, interpretations, stood, lapsed>>
    BY <1>1 DEF governance
  <1>3. /\ Gate(s) /\ Observed(s) /\ Running(s) /\ Untouched(s) /\ step[s] \in Step
        /\ step[s].reply = "none"
    BY <1>1, Own, Undone DEF GateInv, Gate, Running, Early
  <1>4. \A part \in Mandate(step[s]) :
           IF Stands(step[s], part) THEN part \in stood[s] ELSE part \in lapsed[s]
    BY <1>3 DEF Observed
  <1>5. CASE q # s
    <2>1. step'[q] = step[q]
      BY <1>5 DEF CheckIntent, CheckInterpretation, Goto, Answer, Update, Inv, Typed
    <2>2. QED BY <1>1, <2>1, StaysGate DEF Untouched
  <1>6. ASSUME Answer(s, "rejected"), NEW part \in Mandate(step[s]), ~Stands(step[s], part)
        PROVE  Gate(s)'
    <2> DEFINE r == [step[s] EXCEPT !.pc = "done", !.reply = "rejected"]
    <2>1. step'[s] = r
      BY <1>6 DEF Answer, Update, Inv, Typed
    <2>2. r.pc = "done" /\ r.reply = "rejected"
      BY <1>3 DEF Step
    <2>3. lapsed'[s] # {}
      BY <1>2, <1>4, <1>6
    <2>4. Untouched(s)' /\ invocations'[s] = "none"
      BY <1>1, <1>3 DEF Untouched
    <2> HIDE DEF r
    <2>5. Observed(s)'
      BY <2>1, <2>2 DEF Observed, Running
    <2>6. QED BY <2>1, <2>2, <2>3, <2>4, <2>5 DEF Gate, Cleared, FullyCleared
  <1>7. ASSUME NEW pc \in {"interpretation", "requested_event"}, Goto(s, pc),
               "intent" \in stood[s],
               pc = "interpretation" => step[s].interpretation # Null,
               pc = "requested_event" => Mandate(step[s]) \subseteq stood[s]
        PROVE  Gate(s)'
    <2> DEFINE r == [step[s] EXCEPT !.pc = pc]
    <2>1. step'[s] = r
      BY <1>7 DEF Goto, Update, Inv, Typed
    <2>2. /\ r.pc = pc /\ r.reply = "none" /\ r.intent = step[s].intent
          /\ r.interpretation = step[s].interpretation
      BY <1>3 DEF Step
    <2>3. Untouched(s)' /\ invocations'[s] = "none"
      BY <1>1, <1>3 DEF Untouched
    <2> HIDE DEF r
    <2>4. Mandate(step'[s]) = Mandate(step[s])
      BY <2>1, <2>2 DEF Mandate
    <2>5. Observed(s)'
      BY <1>2, <1>4, <2>1, <2>2, <2>4 DEF Observed, Stands
    <2>6. QED BY <1>2, <1>7, <2>1, <2>2, <2>3, <2>4, <2>5 DEF Gate, Cleared, FullyCleared
  <1>8. CASE CheckIntent(s)
    <2>1. "intent" \in Mandate(step[s])
      BY DEF Mandate, Parts
    <2>2. CASE intents[step[s].intent] # "active"
      <3>1. ~Stands(step[s], "intent") /\ Answer(s, "rejected")
        BY <1>8, <2>2 DEF Stands, CheckIntent
      <3>2. QED BY <1>5, <1>6, <2>1, <3>1
    <2>3. CASE intents[step[s].intent] = "active"
      <3>1. "intent" \in stood[s]
        BY <1>4, <2>1, <2>3 DEF Stands
      <3>2. step[s].interpretation = Null => Mandate(step[s]) = {"intent"}
        BY DEF Mandate
      <3>3. QED BY <1>5, <1>7, <1>8, <2>3, <3>1, <3>2 DEF CheckIntent
    <2>4. QED BY <2>2, <2>3
  <1>9. CASE CheckInterpretation(s)
    <2>1. /\ step[s].pc = "interpretation" /\ step[s].interpretation # Null
          /\ step[s].interpretation \in Interpretations /\ "intent" \in stood[s]
      BY <1>3, <1>9 DEF CheckInterpretation, Gate, Step, Cleared
    <2>2. Mandate(step[s]) = {"intent", "interpretation"}
      BY <2>1 DEF Mandate, Parts
    <2>3. interpretations[step[s].interpretation] \in
              [intent : Intents, status : {"absent", "live", "superseded"}]
      BY <2>1 DEF GateInv, Governed
    <2>4. Actionable(step[s].intent, step[s].interpretation) <=>
              interpretations[step[s].interpretation] =
                  [intent |-> step[s].intent, status |-> "live"]
      BY <2>3 DEF Actionable
    <2>5. Stands(step[s], "interpretation") <=>
              Actionable(step[s].intent, step[s].interpretation)
      BY <2>4 DEF Stands
    <2>6. CASE Actionable(step[s].intent, step[s].interpretation)
      <3>1. "interpretation" \in stood[s] /\ Goto(s, "requested_event")
        BY <1>4, <1>9, <2>2, <2>5, <2>6 DEF CheckInterpretation
      <3>2. QED BY <1>5, <1>7, <2>1, <2>2, <3>1
    <2>7. CASE ~Actionable(step[s].intent, step[s].interpretation)
      BY <1>5, <1>6, <1>9, <2>2, <2>5, <2>7 DEF CheckInterpretation
    <2>8. QED BY <2>6, <2>7
  <1>10. QED BY <1>8, <1>9

\* An edit, and a step that begins, are observed.
LEMMA ObserveTyped ==
    ASSUME Governed, Observe
    PROVE  /\ stood' \in [Steps -> SUBSET Parts] /\ lapsed' \in [Steps -> SUBSET Parts]
           /\ \A q \in Steps : stood[q] \subseteq stood'[q] /\ lapsed[q] \subseteq lapsed'[q]
           /\ \A q \in Steps : Observed(q)'
  <1>1. \A q \in Steps : Mandate(step'[q]) \subseteq Parts
    BY DEF Mandate, Parts
  <1>2. \A q \in Steps : stood[q] \subseteq Parts /\ lapsed[q] \subseteq Parts
    BY DEF Governed
  <1>3. ASSUME NEW q \in Steps
        PROVE  /\ stood'[q] = stood[q] \cup {part \in Mandate(step'[q]) :
                                               Running(q)' /\ Stands(step[q], part)'}
               /\ lapsed'[q] = lapsed[q] \cup {part \in Mandate(step'[q]) :
                                                 Running(q)' /\ ~Stands(step[q], part)'}
    BY DEF Observe
  <1>4. ASSUME NEW q \in Steps PROVE Observed(q)'
    BY <1>3 DEF Observed
  <1>5. stood' \in [Steps -> SUBSET Parts] /\ lapsed' \in [Steps -> SUBSET Parts]
    BY <1>1, <1>2 DEF Observe
  <1>6. QED BY <1>3, <1>4, <1>5

LEMMA EditsGate ==
    ASSUME Inv, GateInv, UNCHANGED <<step, runtime, records>>, Observe, NEW q \in Steps
    PROVE  Gate(q)'
  <1>1. Gate(q) /\ UNCHANGED <<step, workspaces, invocations, trail>>
    BY DEF GateInv, runtime, records
  <1>2. Observed(q)' /\ stood[q] \subseteq stood'[q] /\ lapsed[q] \subseteq lapsed'[q]
    BY ObserveTyped DEF GateInv
  <1>3. QED BY <1>1, <1>2 DEF Gate, Untouched

LEMMA BeginGate ==
    ASSUME Inv, GateInv, NEW s \in Steps, Begin(s), NEW q \in Steps
    PROVE  Gate(q)'
  <1>1. PICK n \in Intents, i \in Interpretations \cup {Null}, w \in BOOLEAN, a \in BOOLEAN :
            Update(s, [step[s] EXCEPT !.pc = "intent", !.intent = n,
                       !.interpretation = i, !.workspace = w, !.agentKnown = a])
    BY DEF Begin
  <1> DEFINE r == [step[s] EXCEPT !.pc = "intent", !.intent = n,
                   !.interpretation = i, !.workspace = w, !.agentKnown = a]
  <1>2. step[s].pc = "idle" /\ step[s].reply = "none" /\ step[s] \in Step
    BY Own, Undone DEF Begin
  <1>3. r.pc = "intent" /\ r.reply = "none"
    BY <1>2 DEF Step
  <1>4. step' = [step EXCEPT ![s] = r]
    BY <1>1 DEF Update
  <1> HIDE DEF r
  <1>5. step'[s] = r /\ \A p \in Steps \ {s} : step'[p] = step[p]
    BY <1>4 DEF Inv, Typed
  <1>6. Gate(q) /\ UNCHANGED <<workspaces, invocations, trail>>
    BY DEF GateInv, Begin, runtime, records
  <1>7. Observed(q)' /\ stood[q] \subseteq stood'[q] /\ lapsed[q] \subseteq lapsed'[q]
    BY ObserveTyped DEF GateInv, Begin
  <1>8. CASE q = s
    <2>1. Untouched(s) /\ Untouched(s)' /\ invocations'[s] = "none"
      BY <1>2, <1>6, <1>8 DEF Gate, Untouched, Early
    <2>2. QED BY <1>3, <1>5, <1>7, <1>8, <2>1 DEF Gate, Cleared, FullyCleared
  <1>9. CASE q # s
    BY <1>5, <1>6, <1>7, <1>9 DEF Gate, Untouched
  <1>10. QED BY <1>8, <1>9

LEMMA CrashGate ==
    ASSUME Inv, GateInv, Crash, NEW q \in Steps
    PROVE  Gate(q)'
  <1>1. /\ UNCHANGED <<intents, interpretations, stood, lapsed, trail>> /\ Gate(q)
        /\ step[q] \in Step /\ UNCHANGED governance
    BY Own DEF Crash, governance, records, GateInv
  <1>2. /\ workspaces[q] = "none" => workspaces'[q] = "none"
        /\ invocations[q] = "none" <=> invocations'[q] = "none"
    BY DEF Crash
  <1>3. CASE step'[q] = step[q]
    BY <1>1, <1>2, <1>3, StaysGate DEF Untouched
  <1>4. CASE step'[q] = [step[q] EXCEPT !.pc = "done", !.reply = "lost"]
    <2>1. /\ step'[q].pc = "done" /\ step'[q].reply = "lost"
          /\ step'[q].interpretation = step[q].interpretation
      BY <1>1, <1>4 DEF Step
    <2>2. Mandate(step'[q]) = Mandate(step[q])
      BY <2>1 DEF Mandate
    <2>3. Observed(q)'
      BY <2>1 DEF Observed, Running
    <2>4. QED BY <1>1, <1>2, <2>1, <2>2, <2>3 DEF Gate, Cleared, FullyCleared, Early
  <1>5. QED BY <1>3, <1>4 DEF Crash

LEMMA OperatorGate ==
    ASSUME Inv, GateInv, NEW s \in Steps,
           Cancel(s) \/ OperatorReleases(s) \/ OperatorDestroys(s), NEW q \in Steps
    PROVE  Gate(q)'
  <1>1. UNCHANGED <<governance, step, trail>>
    BY DEF Cancel, OperatorReleases, OperatorDestroys, records
  <1>2. /\ invocations[q] = "none" => invocations'[q] = "none"
        /\ workspaces[q] = "none" => workspaces'[q] = "none"
    BY DEF Cancel, OperatorReleases, OperatorDestroys, Invocation, Workspace, Released,
           Inv, Typed
  <1>3. QED BY <1>1, <1>2, StaysGate DEF Untouched

LEMMA GovernedNext == Governed /\ [Next]_vars => Governed'
  <1> SUFFICES ASSUME Governed, [Next]_vars PROVE Governed'
    OBVIOUS
  <1>1. CASE UNCHANGED governance
    BY <1>1 DEF Governed, governance
  <1>2. ASSUME NEW n \in Intents, SetIntent(n) PROVE Governed'
    BY <1>2, ObserveTyped DEF SetIntent, Governed
  <1>3. ASSUME NEW i \in Interpretations, SetInterpretation(i) PROVE Governed'
    <2>1. PICK status \in {"live", "superseded"} :
            interpretations' = [interpretations EXCEPT ![i].status = status]
      BY <1>3 DEF SetInterpretation
    <2>2. [interpretations[i] EXCEPT !.status = status] \in
              [intent : Intents, status : {"absent", "live", "superseded"}]
      BY DEF Governed
    <2>3. QED BY <1>3, <2>1, <2>2, ObserveTyped DEF SetInterpretation, Governed
  <1>4. ASSUME NEW s \in Steps, Begin(s) PROVE Governed'
    BY <1>4, ObserveTyped DEF Begin, Governed
  <1>5. ASSUME NEW s \in Steps, Progress(s) \/ WriteFails(s) PROVE UNCHANGED governance
    BY <1>5 DEF Progress, CheckIntent, CheckInterpretation, EmitRequested, CreateWorkspace,
           CreateFails, AcquireWorkspace, EmitAcquired, EmitWorkspaceFailed, Invoke,
           EmitStarted, GetResult, EmitTerminal, LogAction, EmitActionLogged,
           ReleaseWorkspace, EmitReleased, WriteFails
  <1>6. ASSUME NEW s \in Steps, Cancel(s) \/ OperatorReleases(s) \/ OperatorDestroys(s)
        PROVE  UNCHANGED governance
    BY <1>6 DEF Cancel, OperatorReleases, OperatorDestroys
  <1>7. CASE Crash
    BY <1>1, <1>7 DEF Crash
  <1>8. CASE UNCHANGED vars
    BY <1>1, <1>8 DEF vars
  <1>9. QED BY <1>1, <1>2, <1>3, <1>4, <1>5, <1>6, <1>7, <1>8 DEF Next, Others

LEMMA GateNext == Inv /\ GateInv /\ [Next]_vars => GateInv'
  <1> SUFFICES ASSUME Inv, GateInv, [Next]_vars, NEW q \in Steps PROVE Gate(q)'
    BY GovernedNext DEF GateInv
  <1>1. ASSUME NEW s \in Steps, Begin(s) \/ Progress(s) \/ WriteFails(s) PROVE Gate(q)'
    BY <1>1, BeginGate, ChecksGate, RestGate DEF Progress, Rest
  <1>2. CASE Crash
    BY <1>2, CrashGate
  <1>3. CASE \/ \E n \in Intents : SetIntent(n)
             \/ \E i \in Interpretations : SetInterpretation(i)
    BY <1>3, EditsGate DEF SetIntent, SetInterpretation
  <1>4. ASSUME NEW s \in Steps, Cancel(s) \/ OperatorReleases(s) \/ OperatorDestroys(s)
        PROVE  Gate(q)'
    BY <1>4, OperatorGate
  <1>5. CASE UNCHANGED vars
    <2>1. UNCHANGED <<governance, step, trail, workspaces, invocations>>
      BY <1>5 DEF vars, runtime, records
    <2>2. QED BY <2>1, StaysGate DEF Untouched
  <1>6. QED BY <1>1, <1>2, <1>3, <1>4, <1>5 DEF Next, Others

LEMMA GateInit == Init => GateInv
  <1> SUFFICES ASSUME Init PROVE GateInv
    OBVIOUS
  <1>1. Governed
    BY DEF Init, Governed
  <1>2. ASSUME NEW s \in Steps PROVE Gate(s)
    <2>1. step[s].pc = "idle" /\ step[s].reply = "none"
      BY DEF Init
    <2>2. Untouched(s)
      BY DEF Init, Untouched
    <2>3. QED BY <2>1, <2>2 DEF Gate, Observed, Running, Untouched, Cleared, FullyCleared
  <1>3. QED BY <1>1, <1>2 DEF GateInv

\* The checks of executeStep read the intent and the interpretation in its own time: no
\* agent is invoked for a step in whose time a part of the mandate did not stand at all,
\* and none is rejected whose mandate stood all the time, however clients edit both and
\* whatever fails.  That it still stands when the agent is invoked is not so.
THEOREM MandatesGate == Spec => []GatedByMandate
  <1>1. GateInv => GatedByMandate
    BY DEF GateInv, Gate, Untouched, GatedByMandate
  <1>2. QED BY <1>1, InitInv, NextInv, GateInit, GateNext, PTL DEF Spec

-----------------------------------------------------------------------------
(* Folding back: what the trail and the actions of a step say at each point *)

Begun(t) == Len(t) > 0 /\ t[1] = "requested"
NoEnd(t) == \A i \in 1..Len(t) : t[i] \notin Terminal
OneEnd(t) == \A i, j \in 1..Len(t) : t[i] \in Terminal /\ t[j] \in Terminal => i = j
HasEnd(t, outcome) == \E i \in 1..Len(t) : t[i] = TerminalEvent(outcome)

\* The last event, of two or more, is that of the outcome.
JustEnded(t, outcome) ==
    /\ Len(t) > 1 /\ t[Len(t)] = TerminalEvent(outcome)
    /\ \A i \in 1..(Len(t) - 1) : t[i] \notin Terminal

\* The action's own event follows that of the outcome.
Closed(t, outcome) ==
    \E i \in 3..Len(t) : t[i] = "action_logged" /\ t[i - 1] = TerminalEvent(outcome)

Asking == {"idle", "intent", "interpretation", "requested_event"}

\* The events a step has written at most when it comes to `pc'.
Longest(pc) ==
    CASE pc \in Asking -> 0
      [] pc \in {"create", "acquire", "acquired_event", "workspace_failed_event"} -> 1
      [] pc \in {"invoke", "started_event"} -> 2
      [] pc \in {"result", "terminal_event"} -> 3
      [] pc \in {"action", "action_event"} -> 4
      [] pc \in {"release", "released_event"} -> 5
      [] OTHER -> 6

Fits(t, pc) == t \in Seq(EventTypes) /\ Len(t) <= Longest(pc)

\* What `trail' and `actions' of a step may be, by where the step is.
Story(pc, outcome, reply, t, a) ==
    /\ Fits(t, pc)
    /\ OneEnd(t)
    /\ a = <<>> \/ (a = <<outcome>> /\ outcome \in Outcomes /\ HasEnd(t, outcome))
    /\ pc \in Asking => t = <<>>
    /\ pc \notin Asking \cup {"done"} => Begun(t)
    /\ pc \in Unresolved \cup {"terminal_event"} => NoEnd(t)
    /\ pc \in {"action", "action_event"} => JustEnded(t, outcome)
    /\ pc \in Unlogged => a = <<>>
    /\ pc \notin Unlogged \cup {"done"} => a # <<>>
    /\ pc \in {"release", "released_event"} => Closed(t, outcome)
    /\ pc \notin Unresolved \cup {"done"} => outcome \in Outcomes
    /\ reply \in {"ok", "not_ok"} => /\ pc = "done" /\ a # <<>>
                                     /\ Begun(t) /\ Closed(t, outcome)

Told(s) == Story(step[s].pc, step[s].outcome, step[s].reply, trail[s], actions[s])

FoldInv == \A s \in Steps : Told(s)

Types == EventTypes \cup {"none"}

LEMMA Appended ==
    ASSUME NEW t \in Seq(Types), NEW e \in Types
    PROVE  /\ Append(t, e) \in Seq(Types) /\ Len(t) \in Nat
           /\ Len(Append(t, e)) = Len(t) + 1 /\ Append(t, e)[Len(t) + 1] = e
           /\ \A k \in 1..Len(t) : Append(t, e)[k] = t[k]
  OBVIOUS

\* An event that is no end leaves an end where it is.
LEMMA MoreTrail ==
    ASSUME NEW t \in Seq(Types), NEW e \in Types \ Terminal, NEW outcome \in Outcomes \cup {"none"}
    PROVE  /\ Begun(t) => Begun(Append(t, e))
           /\ NoEnd(t) => NoEnd(Append(t, e))
           /\ OneEnd(t) => OneEnd(Append(t, e))
           /\ HasEnd(t, outcome) => HasEnd(Append(t, e), outcome)
           /\ Closed(t, outcome) => Closed(Append(t, e), outcome)
  <1> DEFINE u == Append(t, e)
  <1>1. /\ Len(t) \in Nat /\ Len(u) = Len(t) + 1 /\ u[Len(t) + 1] = e
        /\ \A k \in 1..Len(t) : u[k] = t[k]
    BY Appended
  <1> HIDE DEF u
  <1>2. Begun(t) => Begun(u)
    BY <1>1 DEF Begun
  <1>3. NoEnd(t) => NoEnd(u)
    BY <1>1 DEF NoEnd
  <1>4. OneEnd(t) => OneEnd(u)
    BY <1>1 DEF OneEnd
  <1>5. HasEnd(t, outcome) => HasEnd(u, outcome)
    BY <1>1 DEF HasEnd
  <1>6. Closed(t, outcome) => Closed(u, outcome)
    <2>1. SUFFICES ASSUME NEW i \in 3..Len(t), t[i] = "action_logged",
                          t[i - 1] = TerminalEvent(outcome)
                   PROVE  Closed(u, outcome)
      BY DEF Closed
    <2>2. i \in 3..Len(u) /\ u[i] = t[i] /\ u[i - 1] = t[i - 1]
      BY <1>1
    <2>3. QED BY <2>1, <2>2 DEF Closed
  <1>7. QED BY <1>2, <1>3, <1>4, <1>5, <1>6 DEF u

\* The event of the outcome, after which there is one end.
LEMMA EndTrail ==
    ASSUME NEW t \in Seq(Types), NEW outcome \in Outcomes, Begun(t), NoEnd(t)
    PROVE  LET u == Append(t, TerminalEvent(outcome))
           IN  Begun(u) /\ JustEnded(u, outcome) /\ OneEnd(u)
  <1> DEFINE u == Append(t, TerminalEvent(outcome))
  <1>1. TerminalEvent(outcome) \in Types
    BY DEF TerminalEvent, Types, EventTypes, Outcomes
  <1>2. /\ Len(t) \in Nat /\ Len(u) = Len(t) + 1 /\ u[Len(t) + 1] = TerminalEvent(outcome)
        /\ \A k \in 1..Len(t) : u[k] = t[k]
    BY <1>1, Appended
  <1> HIDE DEF u
  <1>3. Begun(u)
    BY <1>2 DEF Begun
  <1>4. JustEnded(u, outcome)
    BY <1>2 DEF JustEnded, Begun, NoEnd
  <1>5. OneEnd(u)
    BY <1>2 DEF OneEnd, NoEnd
  <1>6. QED BY <1>3, <1>4, <1>5 DEF u

LEMMA CloseTrail ==
    ASSUME NEW t \in Seq(Types), NEW outcome \in Outcomes, JustEnded(t, outcome)
    PROVE  HasEnd(t, outcome) /\ Closed(Append(t, "action_logged"), outcome)
  <1> DEFINE u == Append(t, "action_logged")
  <1>1. "action_logged" \in Types
    BY DEF Types, EventTypes
  <1>2. /\ Len(t) \in Nat /\ Len(u) = Len(t) + 1 /\ u[Len(t) + 1] = "action_logged"
        /\ \A k \in 1..Len(t) : u[k] = t[k]
    BY <1>1, Appended
  <1> HIDE DEF u
  <1>3. HasEnd(t, outcome)
    BY <1>2 DEF HasEnd, JustEnded
  <1>4. Len(t) + 1 \in 3..Len(u) /\ (Len(t) + 1) - 1 = Len(t) /\ u[Len(t)] = t[Len(t)]
    BY <1>2 DEF JustEnded
  <1>5. Closed(u, outcome)
    BY <1>2, <1>4 DEF Closed, JustEnded
  <1>6. QED BY <1>3, <1>5 DEF u

\* An event more fits where one more is allowed.
LEMMA LongerTrail ==
    ASSUME NEW t, NEW pc, NEW next, NEW e \in EventTypes, Fits(t, pc),
           Longest(pc) \in Nat, Longest(next) \in Nat, Longest(pc) < Longest(next)
    PROVE  Fits(Append(t, e), next)
  <1>1. t \in Seq(EventTypes) /\ Len(t) <= Longest(pc)
    BY DEF Fits
  <1>2. /\ Append(t, e) \in Seq(EventTypes) /\ Len(t) \in Nat
        /\ Len(Append(t, e)) = Len(t) + 1
    BY <1>1
  <1>3. QED BY <1>1, <1>2 DEF Fits

\* A step changes its own story only.
LEMMA Telling ==
    ASSUME Inv, FoldInv, NEW s \in Steps, NEW r \in Step,
           NEW pc, NEW held, NEW outcome, NEW reply, Becomes(s, r, pc, held, outcome, reply),
           NEW t, trail' = [trail EXCEPT ![s] = t],
           NEW a, actions' = [actions EXCEPT ![s] = a],
           Story(pc, outcome, reply, t, a)
    PROVE  FoldInv'
  <1> SUFFICES ASSUME NEW q \in Steps PROVE Told(q)'
    BY DEF FoldInv
  <1>1. CASE q = s
    <2>1. /\ step'[q].pc = pc /\ step'[q].outcome = outcome /\ step'[q].reply = reply
          /\ trail'[q] = t /\ actions'[q] = a
      BY <1>1 DEF Inv, Typed, Becomes
    <2>2. QED BY <2>1 DEF Told
  <1>2. CASE q # s
    <2>1. step'[q] = step[q] /\ trail'[q] = trail[q] /\ actions'[q] = actions[q]
      BY <1>2 DEF Inv, Typed, Becomes
    <2>2. QED BY <2>1 DEF Told, FoldInv
  <1>3. QED BY <1>1, <1>2

\* A step that writes nothing.
LEMMA TellingNothing ==
    ASSUME Inv, FoldInv, NEW s \in Steps, NEW r \in Step,
           NEW pc, NEW held, NEW outcome, NEW reply, Becomes(s, r, pc, held, outcome, reply),
           UNCHANGED <<trail, actions>>,
           Story(pc, outcome, reply, trail[s], actions[s])
    PROVE  FoldInv'
  BY Own, Telling

\* A step that writes an event.
LEMMA TellingEvent ==
    ASSUME Inv, FoldInv, NEW s \in Steps, NEW r \in Step,
           NEW pc, NEW held, NEW outcome, NEW reply, Becomes(s, r, pc, held, outcome, reply),
           NEW type, Emit(s, type),
           Story(pc, outcome, reply, Append(trail[s], type), actions[s])
    PROVE  FoldInv'
  <1>1. trail' = [trail EXCEPT ![s] = Append(trail[s], type)] /\ UNCHANGED actions
    BY DEF Emit, Inv, Typed
  <1>2. QED BY <1>1, Own, Telling

\* What is known of a step before it moves.
LEMMA ToldOf ==
    ASSUME Inv, FoldInv, NEW s \in Steps
    PROVE  /\ Story(step[s].pc, step[s].outcome, step[s].reply, trail[s], actions[s])
           /\ step[s].pc \in Pcs /\ step[s].outcome \in Outcomes \cup {"none"}
           /\ trail[s] \in Seq(Types)
           /\ step[s].pc # "done" => step[s].reply = "none"
  BY Own, Undone DEF FoldInv, Told, Step, Pcs, Types

\* The mandate, and what goes wrong before an invocation, write nothing.
LEMMA BeginFold ==
    ASSUME Inv, FoldInv, NEW s \in Steps, Begin(s)
    PROVE  FoldInv'
  <1>1. step[s].pc = "idle" /\ UNCHANGED <<trail, actions>>
    BY DEF Begin, records
  <1>2. PICK n \in Intents, i \in Interpretations \cup {Null}, w \in BOOLEAN, a \in BOOLEAN :
          step' = [step EXCEPT ![s] = [step[s] EXCEPT !.pc = "intent", !.intent = n,
                                       !.interpretation = i, !.workspace = w,
                                       !.agentKnown = a]]
    BY DEF Begin, Update
  <1> DEFINE b == [step[s] EXCEPT !.pc = "intent", !.intent = n, !.interpretation = i,
                                  !.workspace = w, !.agentKnown = a]
  <1>3. b \in Step
    BY Own DEF Step
  <1>4. Becomes(s, b, "intent", step[s].held, step[s].outcome, step[s].reply)
    BY <1>2, Own DEF Becomes, Step
  <1> HIDE DEF b
  <1>5. Story("intent", step[s].outcome, step[s].reply, trail[s], actions[s])
    BY <1>1, ToldOf DEF Story, Fits, Longest, Asking, Unresolved, Unlogged
  <1>6. QED BY <1>1, <1>3, <1>4, <1>5, TellingNothing

LEMMA CheckFold ==
    ASSUME Inv, FoldInv, NEW s \in Steps, CheckIntent(s) \/ CheckInterpretation(s)
    PROVE  FoldInv'
  <1>1. /\ step[s].pc \in {"intent", "interpretation"} /\ UNCHANGED <<trail, actions>>
        /\ \/ Answer(s, "rejected")
           \/ \E pc \in {"requested_event", "interpretation"} : Goto(s, pc)
    BY DEF CheckIntent, CheckInterpretation, records
  <1>2. CASE Answer(s, "rejected")
    <2>1. Story("done", step[s].outcome, "rejected", trail[s], actions[s])
      BY <1>1, ToldOf DEF Story, Fits, Longest, Asking, Unresolved, Unlogged
    <2>2. QED BY <1>1, <1>2, <2>1, AnswerBecomes, TellingNothing
  <1>3. ASSUME NEW pc \in {"requested_event", "interpretation"}, Goto(s, pc) PROVE FoldInv'
    <2>1. Story(pc, step[s].outcome, step[s].reply, trail[s], actions[s])
      BY <1>1, ToldOf DEF Story, Fits, Longest, Asking, Unresolved, Unlogged
    <2>2. QED BY <1>1, <1>3, <2>1, GotoBecomes, TellingNothing DEF Pcs
  <1>4. QED BY <1>1, <1>2, <1>3

LEMMA EmitRequestedFold ==
    ASSUME Inv, FoldInv, NEW s \in Steps, EmitRequested(s)
    PROVE  FoldInv'
  <1>1. step[s].pc = "requested_event" /\ Emit(s, "requested")
    BY DEF EmitRequested
  <1>2. PICK pc \in {"create", "invoke"}, r \in Step :
          Becomes(s, r, pc, step[s].held, step[s].outcome, step[s].reply)
    BY GotoBecomes DEF EmitRequested, Pcs
  <1>3. trail[s] = <<>> /\ actions[s] = <<>> /\ step[s].reply = "none"
    BY <1>1, ToldOf DEF Story, Fits, Longest, Asking, Unlogged, Unresolved
  <1> DEFINE t == Append(trail[s], "requested")
  <1>4. Len(t) = 1 /\ t[1] = "requested" /\ t \in Seq(EventTypes)
    BY <1>3 DEF EventTypes
  <1> HIDE DEF t
  <1>5. Begun(t) /\ NoEnd(t) /\ OneEnd(t)
    BY <1>4 DEF Begun, NoEnd, OneEnd, Terminal
  <1>6. Story(pc, step[s].outcome, step[s].reply, t, actions[s])
    BY <1>3, <1>4, <1>5 DEF Story, Fits, Longest, Asking, Unresolved, Unlogged
  <1>7. QED BY <1>1, <1>2, <1>6, TellingEvent DEF t

\* The workspace: its two steps and their failure write no event.
LEMMA WorkspaceFold ==
    ASSUME Inv, FoldInv, NEW s \in Steps,
           CreateWorkspace(s) \/ CreateFails(s) \/ AcquireWorkspace(s)
    PROVE  FoldInv'
  <1>1. step[s].pc \in {"create", "acquire"} /\ UNCHANGED <<trail, actions>>
    BY DEF CreateWorkspace, CreateFails, AcquireWorkspace, records
  <1>2. \A pc \in {"acquire", "acquired_event", "workspace_failed_event"} :
            Story(pc, step[s].outcome, step[s].reply, trail[s], actions[s])
    BY <1>1, ToldOf DEF Story, Fits, Longest, Asking, Unresolved, Unlogged
  <1>3. CASE \E pc \in {"acquire", "workspace_failed_event"} : Goto(s, pc)
    BY <1>1, <1>2, <1>3, GotoBecomes, TellingNothing DEF Pcs
  <1>4. CASE Update(s, [step[s] EXCEPT !.pc = "acquired_event", !.held = TRUE])
    <2> DEFINE b == [step[s] EXCEPT !.pc = "acquired_event", !.held = TRUE]
    <2>1. b \in Step /\ Becomes(s, b, "acquired_event", TRUE, step[s].outcome, step[s].reply)
      BY <1>4, Own DEF Step, Becomes, Update
    <2> HIDE DEF b
    <2>2. QED BY <1>1, <1>2, <2>1, TellingNothing
  <1>5. QED BY <1>3, <1>4 DEF CreateWorkspace, CreateFails, AcquireWorkspace

LEMMA EventFold ==
    ASSUME Inv, FoldInv, NEW s \in Steps,
           EmitAcquired(s) \/ EmitWorkspaceFailed(s) \/ EmitStarted(s)
    PROVE  FoldInv'
  <1>1. PICK type \in {"workspace_acquired", "workspace_failed", "started"},
             pc \in {"invoke", "result"} :
          /\ Emit(s, type) /\ Goto(s, pc)
          /\ step[s].pc \in {"acquired_event", "workspace_failed_event", "started_event"}
          /\ step[s].pc = "started_event" => pc = "result"
    BY DEF EmitAcquired, EmitWorkspaceFailed, EmitStarted
  <1>2. PICK r \in Step : Becomes(s, r, pc, step[s].held, step[s].outcome, step[s].reply)
    BY <1>1, GotoBecomes DEF Pcs
  <1>3. type \in Types \ Terminal /\ type \in EventTypes
    BY DEF Types, EventTypes, Terminal
  <1> DEFINE t == Append(trail[s], type)
  <1>4. /\ Begun(trail[s]) /\ NoEnd(trail[s]) /\ OneEnd(trail[s])
        /\ Fits(trail[s], step[s].pc) /\ actions[s] = <<>> /\ step[s].reply = "none"
    BY <1>1, ToldOf DEF Story, Asking, Unresolved, Unlogged
  <1>5. Begun(t) /\ NoEnd(t) /\ OneEnd(t)
    BY <1>3, <1>4, ToldOf, MoreTrail
  <1>6. /\ Longest(step[s].pc) \in Nat /\ Longest(pc) \in Nat
        /\ Longest(step[s].pc) < Longest(pc)
    BY <1>1 DEF Longest, Asking
  <1>7. Fits(t, pc)
    BY <1>3, <1>4, <1>6, LongerTrail
  <1> HIDE DEF t
  <1>8. Story(pc, step[s].outcome, step[s].reply, t, actions[s])
    BY <1>4, <1>5, <1>7 DEF Story, Asking, Unresolved, Unlogged
  <1>9. QED BY <1>1, <1>2, <1>8, TellingEvent DEF t

LEMMA ResolvedFold ==
    ASSUME Inv, FoldInv, NEW s \in Steps, NEW outcome \in Outcomes,
           step[s].pc \in {"invoke", "started_event", "result"},
           Update(s, [step[s] EXCEPT !.pc = "terminal_event", !.outcome = outcome]),
           UNCHANGED <<trail, actions>>
    PROVE  FoldInv'
  <1>1. Story("terminal_event", outcome, step[s].reply, trail[s], actions[s])
    BY ToldOf DEF Story, Fits, Longest, Asking, Unresolved, Unlogged
  <1>2. QED BY <1>1, ResolvedBecomes, TellingNothing

LEMMA InvokeFold ==
    ASSUME Inv, FoldInv, NEW s \in Steps, Invoke(s) \/ GetResult(s)
    PROVE  FoldInv'
  <1>1. CASE Invoke(s) /\ step[s].agentKnown
    <2>1. step[s].pc = "invoke" /\ Goto(s, "started_event") /\ UNCHANGED <<trail, actions>>
      BY <1>1 DEF Invoke, records
    <2>2. Story("started_event", step[s].outcome, step[s].reply, trail[s], actions[s])
      BY <2>1, ToldOf DEF Story, Fits, Longest, Asking, Unresolved, Unlogged
    <2>3. QED BY <2>1, <2>2, GotoBecomes, TellingNothing DEF Pcs
  <1>2. CASE Invoke(s) /\ ~step[s].agentKnown
    BY <1>2, ResolvedFold DEF Invoke, NotStarted, records, Outcomes
  <1>3. CASE GetResult(s)
    <2> DEFINE status == Polled(invocations[s])
               outcome == IF status \in {"completed", "cancelled"} THEN status ELSE "failed"
    <2>1. outcome \in Outcomes
      BY DEF Outcomes
    <2>2. /\ step[s].pc = "result" /\ UNCHANGED <<trail, actions>>
          /\ Update(s, [step[s] EXCEPT !.pc = "terminal_event", !.outcome = outcome])
      BY <1>3 DEF GetResult, records
    <2> HIDE DEF outcome
    <2>3. QED BY <2>1, <2>2, ResolvedFold
  <1>4. QED BY <1>1, <1>2, <1>3

LEMMA EmitTerminalFold ==
    ASSUME Inv, FoldInv, NEW s \in Steps, EmitTerminal(s)
    PROVE  FoldInv'
  <1> DEFINE t == Append(trail[s], TerminalEvent(step[s].outcome))
  <1>1. step[s].pc = "terminal_event" /\ Emit(s, TerminalEvent(step[s].outcome))
    BY DEF EmitTerminal
  <1>2. PICK r \in Step :
          Becomes(s, r, "action", step[s].held, step[s].outcome, step[s].reply)
    BY GotoBecomes DEF EmitTerminal, Pcs
  <1>3. /\ Begun(trail[s]) /\ NoEnd(trail[s]) /\ actions[s] = <<>>
        /\ step[s].outcome \in Outcomes /\ step[s].reply = "none"
    BY <1>1, ToldOf DEF Story, Fits, Longest, Asking, Unresolved, Unlogged
  <1>4. Begun(t) /\ JustEnded(t, step[s].outcome) /\ OneEnd(t)
    BY <1>3, ToldOf, EndTrail
  <1>5. /\ Fits(trail[s], "terminal_event") /\ TerminalEvent(step[s].outcome) \in EventTypes
        /\ Longest("terminal_event") = 3 /\ Longest("action") = 4
    BY <1>1, <1>3, ToldOf
       DEF Story, Longest, Asking, TerminalEvent, EventTypes, Outcomes
  <1>6. Fits(t, "action")
    BY <1>5, LongerTrail
  <1> HIDE DEF t
  <1>7. Story("action", step[s].outcome, step[s].reply, t, actions[s])
    BY <1>3, <1>4, <1>6 DEF Story, Asking, Unresolved, Unlogged
  <1>8. QED BY <1>1, <1>2, <1>7, TellingEvent DEF t

LEMMA LogActionFold ==
    ASSUME Inv, FoldInv, NEW s \in Steps, LogAction(s)
    PROVE  FoldInv'
  <1>1. /\ step[s].pc = "action" /\ UNCHANGED trail
        /\ actions' = [actions EXCEPT ![s] = Append(actions[s], step[s].outcome)]
    BY DEF LogAction, Inv, Typed
  <1>2. PICK r \in Step :
          Becomes(s, r, "action_event", step[s].held, step[s].outcome, step[s].reply)
    BY GotoBecomes DEF LogAction, Pcs
  <1>3. /\ actions[s] = <<>> /\ Begun(trail[s]) /\ OneEnd(trail[s])
        /\ JustEnded(trail[s], step[s].outcome)
        /\ step[s].outcome \in Outcomes /\ step[s].reply = "none"
        /\ Fits(trail[s], "action_event")
    BY <1>1, ToldOf DEF Story, Fits, Longest, Asking, Unresolved, Unlogged
  <1>4. /\ Append(actions[s], step[s].outcome) = <<step[s].outcome>>
        /\ <<step[s].outcome>> # <<>>
    BY <1>3
  <1>5. HasEnd(trail[s], step[s].outcome)
    BY <1>3, ToldOf, CloseTrail
  <1>6. Story("action_event", step[s].outcome, step[s].reply, trail[s], <<step[s].outcome>>)
    BY <1>3, <1>4, <1>5 DEF Story, Asking, Unresolved, Unlogged
  <1>7. /\ trail' = [trail EXCEPT ![s] = trail[s]]
        /\ actions' = [actions EXCEPT ![s] = <<step[s].outcome>>]
    BY <1>1, <1>4, Own
  <1>8. QED BY <1>2, <1>6, <1>7, Telling

LEMMA EmitActionLoggedFold ==
    ASSUME Inv, FoldInv, NEW s \in Steps, EmitActionLogged(s)
    PROVE  FoldInv'
  <1> DEFINE t == Append(trail[s], "action_logged")
  <1>1. step[s].pc = "action_event" /\ Emit(s, "action_logged")
    BY DEF EmitActionLogged
  <1>2. /\ actions[s] = <<step[s].outcome>> /\ Begun(trail[s]) /\ OneEnd(trail[s])
        /\ JustEnded(trail[s], step[s].outcome)
        /\ step[s].outcome \in Outcomes /\ step[s].reply = "none"
    BY <1>1, ToldOf DEF Story, Fits, Longest, Asking, Unresolved, Unlogged
  <1>3. "action_logged" \in Types \ Terminal
    BY DEF Types, EventTypes, Terminal
  <1>4. HasEnd(trail[s], step[s].outcome) /\ Closed(t, step[s].outcome)
    BY <1>2, ToldOf, CloseTrail
  <1>5. Begun(t) /\ OneEnd(t) /\ HasEnd(t, step[s].outcome)
    BY <1>2, <1>3, <1>4, ToldOf, MoreTrail
  <1>6. /\ Fits(trail[s], "action_event") /\ "action_logged" \in EventTypes
        /\ Longest("action_event") = 4 /\ Longest("release") = 5 /\ Longest("done") = 6
    BY <1>1, ToldOf DEF Story, Longest, Asking, EventTypes
  <1>7. Fits(t, "release") /\ Fits(t, "done")
    BY <1>6, LongerTrail
  <1> HIDE DEF t
  <1>8. CASE Goto(s, "release")
    <2>1. Story("release", step[s].outcome, step[s].reply, t, actions[s])
      BY <1>2, <1>4, <1>5, <1>7 DEF Story, Asking, Unresolved, Unlogged
    <2>2. QED BY <1>1, <1>8, <2>1, GotoBecomes, TellingEvent DEF t, Pcs
  <1>9. CASE Finish(s)
    <2>1. \A reply \in {"ok", "not_ok"} : Story("done", step[s].outcome, reply, t, actions[s])
      BY <1>2, <1>4, <1>5, <1>7 DEF Story, Asking, Unresolved, Unlogged
    <2>2. QED BY <1>1, <1>9, <2>1, FinishBecomes, TellingEvent DEF t
  <1>10. QED BY <1>8, <1>9 DEF EmitActionLogged

LEMMA ReleaseWorkspaceFold ==
    ASSUME Inv, FoldInv, NEW s \in Steps, ReleaseWorkspace(s)
    PROVE  FoldInv'
  <1>1. step[s].pc = "release" /\ UNCHANGED <<trail, actions>> /\ Goto(s, "released_event")
    BY DEF ReleaseWorkspace, records
  <1>2. Story("released_event", step[s].outcome, step[s].reply, trail[s], actions[s])
    BY <1>1, ToldOf DEF Story, Fits, Longest, Asking, Unresolved, Unlogged
  <1>3. QED BY <1>1, <1>2, GotoBecomes, TellingNothing DEF Pcs

LEMMA EmitReleasedFold ==
    ASSUME Inv, FoldInv, NEW s \in Steps, EmitReleased(s)
    PROVE  FoldInv'
  <1> DEFINE t == Append(trail[s], "workspace_released")
  <1>1. step[s].pc = "released_event" /\ Emit(s, "workspace_released") /\ Finish(s)
    BY DEF EmitReleased
  <1>2. /\ actions[s] = <<step[s].outcome>> /\ Begun(trail[s]) /\ OneEnd(trail[s])
        /\ HasEnd(trail[s], step[s].outcome) /\ Closed(trail[s], step[s].outcome)
        /\ step[s].outcome \in Outcomes
    BY <1>1, ToldOf DEF Story, Asking, Unresolved, Unlogged
  <1>3. "workspace_released" \in Types \ Terminal
    BY DEF Types, EventTypes, Terminal
  <1>4. /\ Begun(t) /\ OneEnd(t) /\ HasEnd(t, step[s].outcome)
        /\ Closed(t, step[s].outcome)
    BY <1>2, <1>3, ToldOf, MoreTrail
  <1>5. /\ Fits(trail[s], "released_event") /\ "workspace_released" \in EventTypes
        /\ Longest("released_event") = 5 /\ Longest("done") = 6
    BY <1>1, ToldOf DEF Story, Longest, Asking, EventTypes
  <1>6. Fits(t, "done")
    BY <1>5, LongerTrail
  <1> HIDE DEF t
  <1>7. \A reply \in {"ok", "not_ok"} : Story("done", step[s].outcome, reply, t, actions[s])
    BY <1>2, <1>4, <1>6 DEF Story, Asking, Unresolved, Unlogged
  <1>8. QED BY <1>1, <1>7, FinishBecomes, TellingEvent DEF t

\* A write that fails leaves the story as it is: the step goes where the catch block
\* goes, is answered when its workspace is released, or throws.
LEMMA WriteFailsFold ==
    ASSUME Inv, FoldInv, NEW s \in Steps, WriteFails(s)
    PROVE  FoldInv'
  <1>1. UNCHANGED <<trail, actions>>
    BY DEF WriteFails, records
  <1>2. CASE step[s].pc = "acquired_event" /\ Goto(s, "workspace_failed_event")
    <2>1. Story("workspace_failed_event", step[s].outcome, step[s].reply, trail[s], actions[s])
      BY <1>2, ToldOf DEF Story, Fits, Longest, Asking, Unresolved, Unlogged
    <2>2. QED BY <1>1, <1>2, <2>1, GotoBecomes, TellingNothing DEF Pcs
  <1>3. CASE step[s].pc = "started_event" /\ NotStarted(s)
    BY <1>1, <1>3, ResolvedFold DEF NotStarted, Outcomes
  <1>4. CASE step[s].pc = "released_event" /\ Finish(s)
    <2>1. \A reply \in {"ok", "not_ok"} :
              Story("done", step[s].outcome, reply, trail[s], actions[s])
      BY <1>4, ToldOf DEF Story, Fits, Longest, Asking, Unresolved, Unlogged
    <2>2. QED BY <1>1, <1>4, <2>1, FinishBecomes, TellingNothing
  <1>5. CASE step[s].pc # "done" /\ Answer(s, "thrown")
    <2>1. Story("done", step[s].outcome, "thrown", trail[s], actions[s])
      BY <1>5, ToldOf DEF Story, Fits, Longest, Asking, Unresolved, Unlogged
    <2>2. QED BY <1>1, <1>5, <2>1, AnswerBecomes, TellingNothing
  <1>6. QED BY <1>2, <1>3, <1>4, <1>5 DEF WriteFails

LEMMA CrashFold ==
    ASSUME Inv, FoldInv, Crash
    PROVE  FoldInv'
  <1> SUFFICES ASSUME NEW s \in Steps PROVE Told(s)'
    BY DEF FoldInv
  <1>1. UNCHANGED <<trail, actions>> /\ step'[s] = IF Running(s)
                                THEN [step[s] EXCEPT !.pc = "done", !.reply = "lost"]
                                ELSE step[s]
    BY DEF Crash, records
  <1>2. CASE Running(s)
    <2>1. /\ step'[s].pc = "done" /\ step'[s].outcome = step[s].outcome
          /\ step'[s].reply = "lost"
      BY <1>1, <1>2, Own DEF Step
    <2>2. Story("done", step[s].outcome, "lost", trail[s], actions[s])
      BY ToldOf DEF Story, Fits, Longest, Asking, Unresolved, Unlogged
    <2>3. QED BY <1>1, <2>1, <2>2 DEF Told
  <1>3. CASE ~Running(s)
    BY <1>1, <1>3, ToldOf DEF Told
  <1>4. QED BY <1>2, <1>3

LEMMA FoldInit == Init => FoldInv
  <1> SUFFICES ASSUME Init, NEW s \in Steps PROVE Told(s)
    BY DEF FoldInv
  <1>1. /\ step[s].pc = "idle" /\ step[s].outcome = "none" /\ step[s].reply = "none"
        /\ trail[s] = <<>> /\ actions[s] = <<>>
    BY DEF Init
  <1>2. OneEnd(<<>>) /\ NoEnd(<<>>)
    BY DEF OneEnd, NoEnd
  <1>3. QED BY <1>1, <1>2 DEF Told, Story, Fits, Longest, Asking, Unresolved, Unlogged

LEMMA FoldNext == Inv /\ FoldInv /\ [Next]_vars => FoldInv'
  <1> SUFFICES ASSUME Inv, FoldInv, [Next]_vars PROVE FoldInv'
    OBVIOUS
  <1>1. ASSUME NEW s \in Steps, Progress(s) PROVE FoldInv'
    BY <1>1, CheckFold, EmitRequestedFold, WorkspaceFold, EventFold, InvokeFold,
       EmitTerminalFold, LogActionFold, EmitActionLoggedFold, ReleaseWorkspaceFold,
       EmitReleasedFold DEF Progress
  <1>2. CASE UNCHANGED <<trail, actions, step>>
    BY <1>2 DEF FoldInv, Told
  <1>3. CASE Others
    BY <1>2, <1>3 DEF Others, SetIntent, SetInterpretation, Cancel, OperatorReleases,
                      OperatorDestroys, records
  <1>4. CASE UNCHANGED vars
    BY <1>2, <1>4 DEF vars, records
  <1>5. QED BY <1>1, <1>3, <1>4, BeginFold, WriteFailsFold, CrashFold DEF Next

\* However the writes of a step fail, whatever operators do to its invocation and
\* workspace and wherever the process dies, executeStep folds an invocation back once:
\* one terminal event, one action that agrees with it, and both in an answered step.
THEOREM StepsFoldBackOnce == Spec => []FoldedOnce
  <1>1. Inv /\ FoldInv => FoldedOnce
    <2> SUFFICES ASSUME Inv, FoldInv, NEW s \in Steps
                 PROVE  FoldedOnce!(s)
      BY DEF FoldedOnce
    <2>1. Story(step[s].pc, step[s].outcome, step[s].reply, trail[s], actions[s])
      BY ToldOf
    <2>2. OneEnd(trail[s])
      BY <2>1 DEF Story
    <2>3. actions[s] = <<>> \/ (actions[s] = <<step[s].outcome>>
                                /\ HasEnd(trail[s], step[s].outcome))
      BY <2>1 DEF Story
    <2>4. /\ Len(actions[s]) <= 1
          /\ actions[s] # <<>> => /\ actions[s][1] = step[s].outcome
                                  /\ HasEnd(trail[s], step[s].outcome)
      <3>1. CASE actions[s] = <<>>
        BY <3>1
      <3>2. CASE actions[s] = <<step[s].outcome>>
        <4>1. Len(actions[s]) = 1 /\ actions[s][1] = step[s].outcome /\ actions[s] # <<>>
          BY <3>2
        <4>2. QED BY <2>3, <4>1
      <3>3. QED BY <2>3, <3>1, <3>2
    <2>5. step[s].reply \in {"ok", "not_ok"} =>
              /\ actions[s] # <<>> /\ actions[s][1] = step[s].outcome
              /\ Begun(trail[s]) /\ Closed(trail[s], step[s].outcome)
      BY <2>1, <2>4 DEF Story
    <2>6. QED BY <2>2, <2>4, <2>5 DEF OneEnd, HasEnd, Begun, Closed
  <1>2. QED BY <1>1, InitInv, NextInv, FoldInit, FoldNext, PTL DEF Spec

\* Type correctness; in particular no path through executeStep, with its two catch blocks,
\* writes more than six events, and an action always has an outcome.
THEOREM StepsAreTyped == Spec => []TypeOK
  <1>1. Inv /\ FoldInv /\ Governed => TypeOK
    <2> SUFFICES ASSUME Inv, FoldInv, Governed PROVE TypeOK
      OBVIOUS
    <2>1. ASSUME NEW s \in Steps
          PROVE  /\ Len(trail[s]) <= 6 /\ ToSet(trail[s]) \subseteq EventTypes
                 /\ ToSet(actions[s]) \subseteq Outcomes
      <3>1. /\ Story(step[s].pc, step[s].outcome, step[s].reply, trail[s], actions[s])
            /\ step[s].pc \in Pcs
        BY ToldOf
      <3>2. /\ trail[s] \in Seq(EventTypes) /\ Len(trail[s]) <= Longest(step[s].pc)
            /\ Len(trail[s]) \in Nat
        BY <3>1 DEF Story, Fits
      <3>3. Len(trail[s]) <= 6
        BY <3>1, <3>2 DEF Longest, Asking, Pcs
      <3>4. ToSet(trail[s]) \subseteq EventTypes
        BY <3>2 DEF ToSet
      <3>5. actions[s] = <<>> \/ (actions[s] = <<step[s].outcome>> /\ step[s].outcome \in Outcomes)
        BY <3>1 DEF Story, Pcs, Unlogged, Unresolved
      <3>6. ToSet(<<>>) = {} /\ \A o \in Outcomes : ToSet(<<o>>) = {o}
        BY DEF ToSet
      <3>7. QED BY <3>3, <3>4, <3>5, <3>6
    <2>2. QED BY <2>1 DEF TypeOK, Inv, Typed, Governed
  <1>2. Init => Governed
    BY GateInit DEF GateInv
  <1>3. QED BY <1>1, <1>2, GovernedNext, InitInv, NextInv, FoldInit, FoldNext, PTL DEF Spec

-----------------------------------------------------------------------------
(* That a step ends: what of it is safety                                  *)

\* The places of executeStep, in the order of its text.
Stage == [idle |-> 0, intent |-> 1, interpretation |-> 2, requested_event |-> 3,
          create |-> 4, acquire |-> 5, acquired_event |-> 6, workspace_failed_event |-> 7,
          invoke |-> 8, started_event |-> 9, result |-> 10, terminal_event |-> 11,
          action |-> 12, action_event |-> 13, release |-> 14, released_event |-> 15,
          done |-> 16]

Before(p, q) == Stage[p] < Stage[q]

\* The step moves on, the others stay; an exception needs a write that failed.
Advances(s) ==
    \E r \in Step : /\ step' = [step EXCEPT ![s] = r]
                    /\ Before(step[s].pc, r.pc)
                    /\ r.reply = "thrown" => "write" \in Faults

LEMMA GotoAdvances ==
    ASSUME Inv, NEW s \in Steps, NEW pc \in Pcs, Goto(s, pc), step[s].pc # "done",
           Before(step[s].pc, pc)
    PROVE  Advances(s)
  <1>1. PICK r \in Step : Becomes(s, r, pc, step[s].held, step[s].outcome, step[s].reply)
    BY GotoBecomes
  <1>2. step[s].reply = "none"
    BY Undone
  <1>3. QED BY <1>1, <1>2 DEF Becomes, Advances

LEMMA AnswerAdvances ==
    ASSUME Inv, NEW s \in Steps, NEW reply \in {"rejected", "ok", "not_ok", "thrown"},
           Answer(s, reply), step[s].pc # "done", reply = "thrown" => "write" \in Faults
    PROVE  Advances(s)
  <1>1. PICK r \in Step : Becomes(s, r, "done", step[s].held, step[s].outcome, reply)
    BY AnswerBecomes
  <1>2. step[s].pc \in Pcs \ {"done"}
    BY Own DEF Step, Pcs
  <1>3. Before(step[s].pc, "done")
    BY <1>2 DEF Pcs, Before, Stage
  <1>4. QED BY <1>1, <1>3 DEF Becomes, Advances

LEMMA FinishAdvances ==
    ASSUME Inv, NEW s \in Steps, Finish(s), step[s].pc # "done"
    PROVE  Advances(s)
  BY AnswerAdvances DEF Finish

LEMMA ResolvedAdvances ==
    ASSUME Inv, NEW s \in Steps, NEW outcome \in Outcomes,
           Update(s, [step[s] EXCEPT !.pc = "terminal_event", !.outcome = outcome]),
           step[s].pc \in {"invoke", "started_event", "result"}
    PROVE  Advances(s)
  <1>1. PICK r \in Step :
            Becomes(s, r, "terminal_event", step[s].held, outcome, step[s].reply)
    BY ResolvedBecomes
  <1>2. step[s].reply = "none"
    BY Undone
  <1>3. Before(step[s].pc, "terminal_event")
    BY DEF Before, Stage
  <1>4. QED BY <1>1, <1>2, <1>3 DEF Becomes, Advances

LEMMA BeginAdvances ==
    ASSUME Inv, NEW s \in Steps, Begin(s)
    PROVE  Advances(s)
  <1>1. PICK n \in Intents, i \in Interpretations \cup {Null}, w \in BOOLEAN, a \in BOOLEAN :
            Update(s, [step[s] EXCEPT !.pc = "intent", !.intent = n,
                       !.interpretation = i, !.workspace = w, !.agentKnown = a])
    BY DEF Begin
  <1> DEFINE r == [step[s] EXCEPT !.pc = "intent", !.intent = n,
                   !.interpretation = i, !.workspace = w, !.agentKnown = a]
  <1>2. step[s] \in Step /\ step[s].pc = "idle" /\ step[s].reply = "none"
    BY Own, Undone DEF Begin
  <1>3. r \in Step /\ r.pc = "intent" /\ r.reply = "none"
    BY <1>2 DEF Step
  <1>4. Before("idle", "intent")
    BY DEF Before, Stage
  <1>5. step' = [step EXCEPT ![s] = r]
    BY <1>1 DEF Update
  <1> HIDE DEF r
  <1>6. QED BY <1>2, <1>3, <1>4, <1>5 DEF Advances

LEMMA ProgressAdvances ==
    ASSUME Inv, NEW s \in Steps, Progress(s)
    PROVE  Advances(s)
  <1> USE DEF Pcs, Before, Stage
  <1>1. CASE CheckIntent(s)
    BY <1>1, GotoAdvances, AnswerAdvances DEF CheckIntent
  <1>2. CASE CheckInterpretation(s)
    BY <1>2, GotoAdvances, AnswerAdvances DEF CheckInterpretation
  <1>3. CASE EmitRequested(s)
    BY <1>3, GotoAdvances DEF EmitRequested
  <1>4. CASE CreateWorkspace(s) \/ CreateFails(s)
    BY <1>4, GotoAdvances DEF CreateWorkspace, CreateFails
  <1>5. CASE AcquireWorkspace(s)
    <2>1. CASE Goto(s, "workspace_failed_event")
      BY <1>5, <2>1, GotoAdvances DEF AcquireWorkspace
    <2>2. CASE Update(s, [step[s] EXCEPT !.pc = "acquired_event", !.held = TRUE])
      <3> DEFINE r == [step[s] EXCEPT !.pc = "acquired_event", !.held = TRUE]
      <3>1. step[s] \in Step /\ step[s].pc = "acquire" /\ step[s].reply = "none"
        BY <1>5, Own, Undone DEF AcquireWorkspace
      <3>2. r \in Step /\ r.pc = "acquired_event" /\ r.reply = "none"
        BY <3>1 DEF Step
      <3>3. step' = [step EXCEPT ![s] = r]
        BY <2>2 DEF Update
      <3>4. Before("acquire", "acquired_event")
        OBVIOUS
      <3> HIDE DEF r
      <3>5. QED BY <3>1, <3>2, <3>3, <3>4 DEF Advances
    <2>3. QED BY <1>5, <2>1, <2>2 DEF AcquireWorkspace
  <1>6. CASE EmitAcquired(s) \/ EmitWorkspaceFailed(s)
    BY <1>6, GotoAdvances DEF EmitAcquired, EmitWorkspaceFailed
  <1>7. CASE Invoke(s)
    <2>1. CASE Goto(s, "started_event")
      BY <1>7, <2>1, GotoAdvances DEF Invoke
    <2>2. CASE NotStarted(s)
      <3>1. "not_started" \in Outcomes
        BY DEF Outcomes
      <3>2. QED BY <1>7, <2>2, <3>1, ResolvedAdvances DEF Invoke, NotStarted
    <2>3. QED BY <1>7, <2>1, <2>2 DEF Invoke
  <1>8. CASE EmitStarted(s)
    BY <1>8, GotoAdvances DEF EmitStarted
  <1>9. CASE GetResult(s)
    <2>1. PICK outcome \in Outcomes :
              Update(s, [step[s] EXCEPT !.pc = "terminal_event", !.outcome = outcome])
      BY <1>9 DEF GetResult, Outcomes
    <2>2. QED BY <1>9, <2>1, ResolvedAdvances DEF GetResult
  <1>10. CASE EmitTerminal(s) \/ LogAction(s)
    BY <1>10, GotoAdvances DEF EmitTerminal, LogAction
  <1>11. CASE EmitActionLogged(s)
    BY <1>11, GotoAdvances, FinishAdvances DEF EmitActionLogged
  <1>12. CASE ReleaseWorkspace(s)
    BY <1>12, GotoAdvances DEF ReleaseWorkspace
  <1>13. CASE EmitReleased(s)
    BY <1>13, FinishAdvances DEF EmitReleased
  <1>14. QED BY <1>1, <1>2, <1>3, <1>4, <1>5, <1>6, <1>7, <1>8, <1>9, <1>10, <1>11, <1>12,
                <1>13 DEF Progress

LEMMA WriteFailsAdvances ==
    ASSUME Inv, NEW s \in Steps, WriteFails(s)
    PROVE  Advances(s)
  <1>1. CASE step[s].pc = "acquired_event" /\ Goto(s, "workspace_failed_event")
    BY <1>1, GotoAdvances DEF Pcs, Before, Stage
  <1>2. CASE step[s].pc = "started_event" /\ NotStarted(s)
    BY <1>2, ResolvedAdvances DEF NotStarted, Outcomes
  <1>3. CASE step[s].pc = "released_event" /\ Finish(s)
    BY <1>3, FinishAdvances
  <1>4. CASE /\ step[s].pc \in {"requested_event", "workspace_failed_event",
                                "terminal_event", "action", "action_event"}
             /\ Answer(s, "thrown")
    BY <1>4, AnswerAdvances DEF WriteFails
  <1>5. QED BY <1>1, <1>2, <1>3, <1>4 DEF WriteFails

\* A step of the system moves one executeStep on, ends those that run, or leaves all.
LEMMA StepsOfSteps ==
    ASSUME Inv, [Next]_vars
    PROVE  \/ \E s \in Steps : Advances(s)
           \/ Crash
           \/ UNCHANGED step
  <1>1. ASSUME NEW s \in Steps, Begin(s) \/ Progress(s) \/ WriteFails(s)
        PROVE  Advances(s)
    BY <1>1, BeginAdvances, ProgressAdvances, WriteFailsAdvances
  <1>2. CASE Others
    BY <1>2 DEF Others, SetIntent, SetInterpretation, Cancel, OperatorReleases,
                OperatorDestroys
  <1>3. CASE UNCHANGED vars
    BY <1>3 DEF vars
  <1>4. QED BY <1>1, <1>2, <1>3 DEF Next

\* executeStep never goes back: whatever its awaits answer, whichever catch block takes
\* over and whoever interferes, each of its actions brings it nearer to its end, so that it
\* takes at most sixteen.  With the fairness of FairSpec this is why a step is answered.
THEOREM StepsOnlyAdvance ==
    Spec => [][\A s \in Steps : \/ Begin(s) \/ Progress(s) \/ WriteFails(s)
                                \/ step'[s] # step[s]
                                => Before(step[s].pc, step'[s].pc)]_vars
  <1>1. ASSUME Inv, [Next]_vars, NEW s \in Steps,
               Begin(s) \/ Progress(s) \/ WriteFails(s) \/ step'[s] # step[s]
        PROVE  Before(step[s].pc, step'[s].pc)
    <2>1. CASE Begin(s) \/ Progress(s) \/ WriteFails(s)
      <3>1. PICK r \in Step : step' = [step EXCEPT ![s] = r] /\ Before(step[s].pc, r.pc)
        BY <1>1, <2>1, BeginAdvances, ProgressAdvances, WriteFailsAdvances DEF Advances
      <3>2. step'[s] = r
        BY <1>1, <3>1 DEF Inv, Typed
      <3>3. QED BY <3>1, <3>2
    <2>2. CASE step'[s] # step[s]
      <3>1. CASE \E q \in Steps : Advances(q)
        <4>1. PICK q \in Steps, r \in Step :
                  step' = [step EXCEPT ![q] = r] /\ Before(step[q].pc, r.pc)
          BY <3>1 DEF Advances
        <4>2. q = s /\ step'[s] = r
          BY <1>1, <2>2, <4>1 DEF Inv, Typed
        <4>3. QED BY <4>1, <4>2
      <3>2. CASE Crash
        <4>1. /\ step'[s] = [step[s] EXCEPT !.pc = "done", !.reply = "lost"]
              /\ step[s].pc # "done"
          BY <2>2, <3>2 DEF Crash, Running
        <4>2. step[s] \in Step
          BY <1>1, Own
        <4>3. step'[s].pc = "done" /\ step[s].pc \in Pcs \ {"done"}
          BY <4>1, <4>2 DEF Step, Pcs
        <4>4. QED BY <4>3 DEF Pcs, Before, Stage
      <3>3. QED BY <1>1, <2>2, <3>1, <3>2, StepsOfSteps
    <2>3. QED BY <1>1, <2>1, <2>2
  <1>2. Inv /\ [Next]_vars =>
            \A s \in Steps : \/ Begin(s) \/ Progress(s) \/ WriteFails(s)
                             \/ step'[s] # step[s]
                             => Before(step[s].pc, step'[s].pc)
    BY <1>1
  <1>3. QED BY <1>2, Invariance, PTL DEF Spec

Unthrown ==
    /\ "write" \notin Faults
    /\ \A s \in Steps : step[s].reply # "thrown"

\* Where the database takes every write, a step that is over holds no workspace, even if
\* its process died, its directory could not be made or its agent is unknown.
THEOREM EndedStepsHoldNothing ==
    Spec /\ "write" \notin Faults =>
        [](\A s \in Steps : step[s].pc = "done" => workspaces[s] # "acquired")
  <1>1. Inv /\ Unthrown => \A s \in Steps : step[s].pc = "done" => workspaces[s] # "acquired"
    BY DEF Inv, Custody, Holding, Unthrown
  <1>2. Init /\ "write" \notin Faults => Unthrown
    <2> SUFFICES ASSUME Init, "write" \notin Faults, NEW s \in Steps PROVE step[s].reply = "none"
      BY DEF Unthrown
    <2>1. QED BY DEF Init
  <1>3. ASSUME Inv, Unthrown, [Next]_vars PROVE Unthrown'
    <2>1. CASE \E s \in Steps : Advances(s)
      BY <1>3, <2>1 DEF Advances, Unthrown, Inv, Typed
    <2>2. CASE Crash
      <3> SUFFICES ASSUME NEW s \in Steps PROVE step'[s].reply # "thrown"
        BY <1>3 DEF Unthrown
      <3>1. CASE Running(s)
        <4>1. /\ step'[s] = [step[s] EXCEPT !.pc = "done", !.reply = "lost"]
              /\ step[s] \in Step
          BY <1>3, <2>2, <3>1, Own DEF Crash
        <4>2. QED BY <4>1 DEF Step
      <3>2. CASE ~Running(s)
        BY <1>3, <2>2, <3>2 DEF Crash, Unthrown
      <3>3. QED BY <3>1, <3>2
    <2>3. CASE UNCHANGED step
      BY <1>3, <2>3 DEF Unthrown
    <2>4. QED BY <1>3, <2>1, <2>2, <2>3, StepsOfSteps
  <1>4. QED BY <1>1, <1>2, <1>3, Invariance, PTL DEF Spec

=============================================================================
