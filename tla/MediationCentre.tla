---------------------------- MODULE MediationCentre ----------------------------
(***************************************************************************)
(* The script of the Mediation Centre: one operator's page, its gestures,  *)
(* its timers, and its requests, any number of which may be in flight.     *)
(* writeAndRefresh sends a write, waits for its answer, reads the state    *)
(* again and shows a message, with an Undo button if there is something to *)
(* restore.  Nothing orders the answers of two such chains.                *)
(***************************************************************************)
EXTENDS UiServer

CONSTANTS MaxGestures, \* bound: the gestures of the operator
          MaxChains    \* bound: the chains of requests under way at a time

ASSUME CentreAssumption == {MaxGestures, MaxChains} \subseteq Nat

VARIABLES shown,    \* the snapshot the page holds and shows: `state'
          touched,  \* the intents whose status was picked anew since the last rendering
          undo,     \* pendingUndo: a change that may be undone, or NoUndo
          armed,    \* the claim of armedRelease, or 0
          modal,    \* the intent editor
          calls,    \* the chains of requests, by gesture
          gestures, \* gestures so far
          last,     \* the claim whose release was clicked last, with no other click
                    \* since and in time, or 0 (auxiliary)
          own,      \* the status this page last gave an intent, until someone else
                    \* changes it (auxiliary)
          unsure    \* two chains have overlapped or a refresh was lost (auxiliary)

centre == <<shown, touched, undo, armed, modal, calls, gestures, last, own, unsure>>

-----------------------------------------------------------------------------
(* The page *)

NoUndo == [of |-> 0, id |-> 0, value |-> "none"]

\* A chain of requests: where it is, its write, the undo it offers or carries out,
\* and what its last request has read.
NoCall == [pc |-> "none", kind |-> "none", id |-> 0, value |-> "none", undo |-> NoUndo,
           confirmed |-> FALSE, read |-> <<>>]

Send(kind, id, value) ==
    [NoCall EXCEPT !.pc = "sent", !.kind = kind, !.id = id, !.value = value]

InFlight(n) == calls[n].pc \notin {"none", "done", "failed"}

Creating(n) == InFlight(n) /\ calls[n].kind = "create"

Reopened == \E n \in DOMAIN calls : calls[n].kind = "reopen"

\* The claim on the release button of an intent, in its row and in the drawer: the
\* newest of those listed; 0: there is a claim button instead.
ClaimOn(i) ==
    LET on == {k \in DOMAIN shown.claims : shown.claims[k] = i}
    IN  IF on = {} THEN 0 ELSE CHOOSE k \in on : \A j \in on : j <= k

\* render: the rows and the drawer show the snapshot.
Show(snap) == shown' = snap /\ touched' = {}

\* A gesture starts a chain of requests: the first one is sent.
Chain(call) ==
    /\ gestures < MaxGestures
    /\ gestures' = gestures + 1
    /\ Cardinality({m \in DOMAIN calls : InFlight(m)}) < MaxChains
    /\ calls' = [calls EXCEPT ![gestures + 1] = call]
    /\ unsure' = (unsure \/ \E m \in DOMAIN calls : InFlight(m))

\* A gesture that sends nothing.
Gesture(kind) ==
    /\ gestures < MaxGestures
    /\ gestures' = gestures + 1
    /\ calls' = [calls EXCEPT ![gestures + 1] = [NoCall EXCEPT !.pc = "done", !.kind = kind]]
    /\ unsure' = unsure

\* Mutation: the label is put back, and the release stays armed.
DisarmLabelOnly == armed' = armed /\ last' = 0

\* disarmRelease, on every click but one on a release button of the armed claim.
Disarm == armed' = 0 /\ last' = 0

\* A key is no click.
ClickOrKey == Disarm \/ UNCHANGED <<armed, last>>

-----------------------------------------------------------------------------
(* Gestures, on the rows of the board and in the drawer.  The open editor covers  *)
(* them, but the keyboard reaches what lies behind it.                            *)

SelectIntent == \E i \in DOMAIN shown.intents :
    /\ Chain(Send("focus", i, "none"))
    /\ Disarm
    /\ UNCHANGED <<server, shown, touched, undo, modal, own>>

\* A select element, in the row or in the drawer, is given a value other than its
\* last one, which is the one rendered if it has not been touched.
ChangeStatus == \E i \in DOMAIN shown.intents, s \in Picks :
    /\ s # shown.intents[i] \/ i \in touched
    /\ Chain([Send("status", i, s) EXCEPT
              !.undo = [of |-> gestures + 1, id |-> i, value |-> shown.intents[i]]])
    /\ touched' = touched \cup {i}
    /\ ClickOrKey
    /\ UNCHANGED <<server, shown, undo, modal, own>>

\* Mutation: the pending undo is cleared when it has run.
ClickUndoKeeping ==
    /\ undo # NoUndo
    /\ Chain([Send("undo", undo.id, undo.value) EXCEPT !.undo = undo])
    /\ Disarm
    /\ UNCHANGED <<server, shown, touched, undo, modal, own>>

\* The change that is undone is put back to what was displayed before it, whatever
\* the intent's status has become.
ClickUndo ==
    /\ undo # NoUndo
    /\ undo' = NoUndo
    /\ Chain([Send("undo", undo.id, undo.value) EXCEPT !.undo = undo])
    /\ Disarm
    /\ UNCHANGED <<server, shown, touched, modal, own>>

ClickClaim == \E i \in DOMAIN shown.intents :
    /\ ClaimOn(i) = 0
    /\ Chain(Send("claim", i, "none"))
    /\ Disarm
    /\ UNCHANGED <<server, shown, touched, undo, modal, own>>

\* The first click arms, the second releases.
ClickRelease == \E i \in DOMAIN shown.intents :
    LET claim == ClaimOn(i)
    IN  /\ claim # 0
        /\ IF armed # claim
           THEN armed' = claim /\ last' = claim /\ Gesture("arm")
           ELSE /\ Chain([Send("release", claim, "none") EXCEPT !.confirmed = (last = claim)])
                /\ Disarm
        /\ UNCHANGED <<server, shown, touched, undo, modal, own>>

\* The drawer's composer: its button is enabled while it shows an active intent.  The
\* drawer may show any intent: the search, the filter and the view decide which rows
\* are visible, and with the selection which of them that is.
ClickLogAction == \E i \in DOMAIN shown.intents :
    /\ shown.intents[i] = "active"
    /\ Chain(Send("action", i, "none"))
    /\ Disarm
    /\ UNCHANGED <<server, shown, touched, undo, modal, own>>

ClickRefresh ==
    /\ Chain([Send("refresh", 0, "none") EXCEPT !.pc = "refresh"])
    /\ Disarm
    /\ UNCHANGED <<server, shown, touched, undo, modal, own>>

\* openIntentModal: a new editor, whatever the last one was doing.
OpenModal ==
    /\ modal' = "open"
    /\ Gesture(IF \E n \in DOMAIN calls : Creating(n) THEN "reopen" ELSE "open")
    /\ Disarm
    /\ UNCHANGED <<server, shown, touched, undo, own>>

\* closeIntentModal: not while it is busy.
CloseModal ==
    /\ modal = "open"
    /\ modal' = "closed"
    /\ Gesture("close") /\ ClickOrKey
    /\ UNCHANGED <<server, shown, touched, undo, own>>

\* submitIntentModal: a busy editor ignores the button and Ctrl+Enter.
SubmitModal == \E s \in Picks :
    /\ modal = "open"
    /\ modal' = "busy"
    /\ Chain(Send("create", 0, s))
    /\ ClickOrKey
    /\ UNCHANGED <<server, shown, touched, undo, own>>

-----------------------------------------------------------------------------
(* Timers *)

MessageTimeout ==
    /\ undo # NoUndo
    /\ undo' = NoUndo
    /\ UNCHANGED <<server, shown, touched, armed, modal, calls, gestures, last, own,
                   unsure>>

ReleaseTimeout ==
    /\ armed # 0
    /\ Disarm
    /\ UNCHANGED <<server, shown, touched, undo, modal, calls, gestures, own, unsure>>

-----------------------------------------------------------------------------
(* Requests and answers *)

Go(n, pc) == calls' = [calls EXCEPT ![n].pc = pc]

\* A chain that is over leaves what it was for.
Over(n, pc) ==
    calls' = [calls EXCEPT ![n] =
        [NoCall EXCEPT !.pc = pc, !.kind = calls[n].kind, !.confirmed = calls[n].confirmed,
                       !.undo = IF calls[n].kind = "undo" THEN calls[n].undo ELSE NoUndo]]

Kind(n, kinds) == calls[n].pc = "sent" /\ calls[n].kind \in kinds

\* The answer to the focus event, good or bad, lets selectIntent render.
Focused(n) ==
    /\ Kind(n, {"focus"})
    /\ Over(n, "done")
    /\ Show(shown)
    /\ UNCHANGED <<server, undo, armed, modal, gestures, last, own, unsure>>

StatusWritten(n) ==
    /\ Kind(n, {"status", "undo"})
    /\ PatchStatus(calls[n].id, calls[n].value)
    /\ own' = [own EXCEPT ![calls[n].id] = calls[n].value]
    /\ Go(n, "refresh")
    /\ UNCHANGED <<shown, touched, undo, armed, modal, gestures, last, unsure>>

\* A body that could not be saved changes a message only.
Created(n) == \E i \in Ids :
    /\ Kind(n, {"create"})
    /\ CreateIntent(i, calls[n].value)
    /\ own' = [own EXCEPT ![i] = calls[n].value]
    /\ calls' = [calls EXCEPT ![n] = [@ EXCEPT !.pc = "refresh", !.id = i]]
    /\ UNCHANGED <<shown, touched, undo, armed, modal, gestures, last, unsure>>

ClaimWritten(n) ==
    /\ \/ Kind(n, {"claim"}) /\ CreateClaim(calls[n].id)
       \/ Kind(n, {"release"}) /\ ReleaseClaim(calls[n].id)
    /\ Go(n, "refresh")
    /\ UNCHANGED <<shown, touched, undo, armed, modal, gestures, last, own, unsure>>

ActionLogged(n) ==
    /\ Kind(n, {"action"})
    /\ LogAction(calls[n].id)
    /\ Go(n, "refresh")
    /\ UNCHANGED <<shown, touched, undo, armed, modal, gestures, last, own, unsure>>

\* The write is refused, or its answer is lost once it is done: the page shows the
\* error, offers nothing to undo and reads nothing.  An undo that fails does not
\* even render.  Any editor that is busy by now is free again.
WriteFails(n) ==
    /\ calls[n].kind \notin {"focus", "refresh"}
    /\ \/ calls[n].pc = "sent" /\ unsure' = unsure
       \/ calls[n].pc = "refresh" /\ unsure' = TRUE
    /\ Over(n, "failed")
    /\ undo' = NoUndo
    /\ modal' = IF calls[n].kind = "create" /\ modal = "busy" THEN "open" ELSE modal
    /\ IF calls[n].kind = "undo" THEN UNCHANGED <<shown, touched>> ELSE Show(shown)
    /\ UNCHANGED <<server, armed, gestures, last, own>>

\* The page has its answer and asks for the state, which the server reads.
StateRead(n) ==
    /\ calls[n].pc = "refresh"
    /\ \E snap \in Snapshots :
         calls' = [calls EXCEPT ![n] = [@ EXCEPT !.pc = "answered", !.read = snap]]
    /\ UNCHANGED <<server, shown, touched, undo, armed, modal, gestures, last, own,
                   unsure>>

\* What the end of a chain shows besides the state: the message of a write takes
\* the place of any other, with its undo.  An intent that was created closes the
\* editor, even one that was opened since.
Finish(n) ==
    /\ undo' = CASE calls[n].kind = "refresh" -> undo
                 [] calls[n].kind = "status" -> calls[n].undo
                 [] OTHER -> NoUndo
    /\ modal' = IF calls[n].kind = "create" THEN "closed" ELSE modal
    /\ Over(n, "done")
    /\ UNCHANGED <<server, armed, gestures, last, own>>

\* Mutation: the state is rendered before it is taken over.
StateAnsweredOld(n) ==
    /\ calls[n].pc = "answered"
    /\ Show(shown)
    /\ Finish(n)
    /\ UNCHANGED unsure

\* The snapshot is taken over, whenever it arrives.
StateAnswered(n) ==
    /\ calls[n].pc = "answered"
    /\ Show(calls[n].read)
    /\ Finish(n)
    /\ UNCHANGED unsure

\* The state could not be read: the page shows that and keeps what it has.
StateLost(n) ==
    /\ calls[n].pc = "answered"
    /\ Show(shown)
    /\ Finish(n)
    /\ unsure' = TRUE

-----------------------------------------------------------------------------

CentreInit ==
    /\ shown \in Snapshots
    /\ touched = {}
    /\ undo = NoUndo /\ armed = 0 /\ modal = "closed"
    /\ calls = [n \in 1..MaxGestures |-> NoCall]
    /\ gestures = 0 /\ last = 0
    /\ own = [i \in Ids |-> "none"]
    /\ unsure = FALSE

Operate == \/ SelectIntent \/ ChangeStatus \/ ClickUndo
           \/ ClickClaim \/ ClickRelease \/ ClickLogAction \/ ClickRefresh
           \/ OpenModal \/ CloseModal \/ SubmitModal

Answer(n) == \/ Focused(n) \/ StatusWritten(n) \/ Created(n) \/ ClaimWritten(n)
             \/ ActionLogged(n) \/ WriteFails(n)
             \/ StateRead(n)
             \/ StateAnswered(n) \/ StateLost(n)

\* Other processes' edits end what the page knows of its own.
EditedElsewhere ==
    /\ OtherProcess
    /\ own' = [i \in Ids |-> IF status'[i] # status[i] THEN "none" ELSE own[i]]
    /\ UNCHANGED <<shown, touched, undo, armed, modal, calls, gestures, last, unsure>>

CentreStep == \/ Operate \/ MessageTimeout \/ ReleaseTimeout
              \/ \E n \in DOMAIN calls : Answer(n)

-----------------------------------------------------------------------------
(* Properties *)

\* A claim is released by the second of two clicks on its own release buttons, with
\* no other click and no time-out between them.
ReleaseConfirmed ==
    \A n \in DOMAIN calls : calls[n].kind = "release" => calls[n].confirmed

\* A change is undone once at most, however often Undo is clicked while answers are
\* on their way; and two submissions of the intent editor are under way at a time
\* only if the editor was opened again while one was.
GesturesActOnce ==
    \A m, n \in DOMAIN calls : m # n =>
        /\ ~(calls[m].kind = "undo" /\ calls[n].kind = "undo" /\ calls[m].undo = calls[n].undo)
        /\ Creating(m) /\ Creating(n) => Reopened

\* What a page shows of an intent that has status s: this, or a full list without it.
Visible(snap, i, s) ==
    IF i \in DOMAIN snap.intents THEN snap.intents[i] = s
    ELSE Cardinality({k \in DOMAIN snap.intents : snap.intents[k] = s}) >= ListLimit

\* An operator who waits for each answer sees, once the page is at rest, every
\* status this page has written and no one else has changed since, as far as the
\* list of that status goes.
OwnWritesVisible ==
    ~unsure /\ (\A n \in DOMAIN calls : ~InFlight(n)) =>
        \A i \in Ids : own[i] # "none" => Visible(shown, i, own[i])

=============================================================================
