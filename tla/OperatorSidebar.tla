---------------------------- MODULE OperatorSidebar ----------------------------
(***************************************************************************)
(* The script of the operator sidebar in its remote-http mode: a selection,*)
(* an action for it, an editor whose text a timer saves as a draft, and    *)
(* the writes of the page.  The draft of an entity and an action is kept   *)
(* in the browser's local storage, under both, for a day.  The timer and   *)
(* the answers save and discard under whatever is selected when they come. *)
(***************************************************************************)
EXTENDS UiServer

CONSTANT MaxStrokes \* bound: the operator's clicks, keys and edits

ASSUME SidebarAssumption == MaxStrokes \in Nat

VARIABLES view,     \* the snapshot the page holds: `state'
          chosen,   \* `selected'
          action,   \* activeAction
          field,    \* the text in the editor, 0: none
          timer,    \* the text that __draftTimer will save, 0: no timer
          drafts,   \* local storage: the draft under a key, 0: none
          writes,   \* the page's writes, by stroke
          strokes,  \* strokes so far
          typed,    \* the key there was when the text of the timer was typed (auxiliary)
          expected, \* the drafts the operator has left, by key (auxiliary)
          astray    \* the keys a timer or an answer has missed or hit by chance (auxiliary)

sidebar == <<view, chosen, action, field, timer, drafts, writes, strokes, typed, expected,
             astray>>

-----------------------------------------------------------------------------
(* Entities, actions and drafts *)

Nothing == [type |-> "none", of |-> 0]

\* Intent 1 has an interpretation and a divergence group.
Entities == [type : {"intent"}, of : Ids] \cup [type : {"interpretation", "divergence_group"},
                                               of : {1}]

\* The actions renderLogger offers; the first is the default.
Allowed(e) == CASE e.type = "divergence_group" -> <<"resolve", "action">>
                [] e.type = "interpretation"   -> <<"update", "supersede", "action">>
                [] OTHER                       -> <<"update", "action">>

Actions == {"update", "supersede", "resolve", "action"}
Keys == Entities \X Actions

\* Only an active intent accepts actions, if the page knows it.
Blocked(snap, e) == e.of \in DOMAIN snap.intents /\ snap.intents[e.of] # "active"

Normal(snap, e, a) ==
    LET offered == {Allowed(e)[k] : k \in DOMAIN Allowed(e)}
    IN  IF a \notin offered \/ (a = "action" /\ Blocked(snap, e)) THEN Allowed(e)[1] ELSE a

\* The key of a draft.
draftKey == <<chosen, action>>

\* Storage without the draft of a key.
Discard(kept, key) == IF key[1] = Nothing THEN kept ELSE [kept EXCEPT ![key] = 0]

\* loadDraft: what it may leave of the drafts kept, and of those the operator has left.
\* A draft of more than a day is removed as it is read; its age is left to chance.
loadDraft(key, kept, owed) ==
    {[drafts |-> kept, expected |-> owed]} \cup
    {[drafts   |-> Discard(kept, key),
      expected |-> IF owed[key] = kept[key] THEN Discard(owed, key) ELSE owed] :
        k \in {k \in Keys : k = key /\ kept[k] # 0}}

\* renderLogger reads the draft of the action there was, then corrects the action.
\* emitFocus, which comes before it, reads the same draft.
RenderLogger(snap, e, a, kept, owed) ==
    \E after \in loadDraft(<<e, a>>, kept, owed) :
        /\ drafts' = after.drafts /\ expected' = after.expected
        /\ action' = Normal(snap, e, a)
        /\ field' = IF e = Nothing THEN 0 ELSE drafts'[<<e, a>>]

-----------------------------------------------------------------------------
(* Strokes *)

NoWrite == [pc |-> "none", op |-> "none", id |-> 0, value |-> "none", key |-> <<Nothing, "none">>,
            text |-> 0, read |-> <<>>]

Stroke == strokes < MaxStrokes /\ strokes' = strokes + 1

Start(write) == writes' = [writes EXCEPT ![strokes + 1] = write]

\* setSelected: a card, a button, j or k.
setSelected == \E e \in Entities :
    LET a == CASE e.type = "interpretation"   -> "update"
               [] e.type = "divergence_group" -> "resolve"
               [] OTHER                       -> action
    IN  /\ e.type = "intent" => e.of \in DOMAIN view.intents
        /\ Stroke
        /\ chosen' = e
        /\ RenderLogger(view, e, a, drafts, expected)
        /\ UNCHANGED <<server, view, timer, writes, typed, astray>>

\* A pill of the logger that is not disabled, or the keys "n a" and "s".  A tab, a
\* search or a toggle renders as the pill there is.
ChooseAction == \E k \in DOMAIN Allowed(chosen) :
    /\ Stroke
    /\ RenderLogger(view, chosen, Allowed(chosen)[k], drafts, expected)
    /\ UNCHANGED <<server, view, chosen, timer, writes, typed, astray>>

\* An edit, whose text is a new one, restarts the timer: a text that was still to be
\* saved for another key is not saved any more.
Input ==
    /\ Stroke
    /\ field' = strokes + 1
    /\ timer' = strokes + 1
    /\ typed' = draftKey
    /\ expected' = IF chosen = Nothing THEN expected
                   ELSE [expected EXCEPT ![draftKey] = strokes + 1]
    /\ astray' = IF timer # 0 /\ typed # draftKey THEN astray \cup {typed} ELSE astray
    /\ UNCHANGED <<server, view, chosen, action, drafts, writes>>

DiscardClicked ==
    /\ Stroke
    /\ RenderLogger(view, chosen, action, Discard(drafts, draftKey), Discard(expected, draftKey))
    /\ UNCHANGED <<server, view, chosen, timer, writes, typed, astray>>

\* Escape: the draft is discarded with the selection.
Escape ==
    /\ chosen # Nothing
    /\ Stroke
    /\ chosen' = Nothing
    /\ RenderLogger(view, Nothing, action, Discard(drafts, draftKey), Discard(expected, draftKey))
    /\ UNCHANGED <<server, view, timer, writes, typed, astray>>

\* submitLogger: which write an entity and an action make.  Updates and supersessions
\* of interpretations, and of an intent's notes, touch nothing that is modelled.
Written(e, a) == CASE e.type = "divergence_group" /\ a = "resolve" -> "create"
                   [] a = "action"                                 -> "action"
                   [] OTHER                                        -> "none"

\* All but an action need a reason, which the editor's text stands for.
submitLogger ==
    /\ chosen # Nothing
    /\ action # "action" => field # 0
    /\ Stroke
    /\ Start([NoWrite EXCEPT !.pc = "sent", !.op = Written(chosen, action), !.id = chosen.of,
                             !.value = "draft", !.key = draftKey, !.text = field])
    /\ UNCHANGED <<server, view, chosen, action, field, timer, drafts, typed, expected, astray>>

\* The writes that are not of the logger: an intent's status picker, and the keys "n i".
\* A claim, an address, a report or an interpretation's status is written as they are.
OtherWrite ==
    /\ Stroke
    /\ \/ \E i \in DOMAIN view.intents, s \in Picks :
             Start([NoWrite EXCEPT !.pc = "sent", !.op = "status", !.id = i, !.value = s])
       \/ Start([NoWrite EXCEPT !.pc = "sent", !.op = "create", !.value = "draft"])
    /\ UNCHANGED <<server, view, chosen, action, field, timer, drafts, typed, expected, astray>>

-----------------------------------------------------------------------------
(* The timer and the answers *)

\* The text goes to the key there is now, if any, whichever it was typed for, and even
\* if it has been submitted or discarded since.
saveDraft ==
    /\ timer # 0
    /\ timer' = 0
    /\ drafts' = IF chosen = Nothing THEN drafts ELSE [drafts EXCEPT ![draftKey] = timer]
    /\ astray' = IF chosen # Nothing /\ draftKey = typed /\ expected[typed] = timer THEN astray
                 ELSE astray \cup {typed, draftKey}
    /\ UNCHANGED <<server, view, chosen, action, field, writes, strokes, typed, expected>>

ToPc(n, pc) == writes' = [writes EXCEPT ![n].pc = pc]

End(n, pc) == writes' = [writes EXCEPT ![n] = [NoWrite EXCEPT !.pc = pc]]

Page == <<view, chosen, action, field, timer, drafts, strokes, typed, expected, astray>>

\* The server's side of a write of callAction.
Served(n) ==
    /\ writes[n].pc = "sent"
    /\ CASE writes[n].op = "status" -> PatchStatus(writes[n].id, writes[n].value)
         [] writes[n].op = "create" -> \E i \in Ids : CreateIntent(i, writes[n].value)
         [] writes[n].op = "action" -> LogAction(writes[n].id)
         [] OTHER                   -> UNCHANGED server
    /\ ToPc(n, "refresh")
    /\ UNCHANGED Page

\* refreshState asks for the state.
SidebarStateRead(n) ==
    /\ writes[n].pc = "refresh"
    /\ \E snap \in Snapshots :
         writes' = [writes EXCEPT ![n] = [@ EXCEPT !.pc = "answered", !.read = snap]]
    /\ UNCHANGED <<server, Page>>

\* Mutation: the draft goes whether or not the write has been made.
SidebarFailedDiscarding(n) ==
    /\ writes[n].pc \in {"sent", "refresh", "answered"}
    /\ End(n, "failed")
    /\ drafts' = Discard(drafts, IF writes[n].text # 0 THEN draftKey ELSE <<Nothing, "none">>)
    /\ UNCHANGED <<server, view, chosen, action, field, timer, strokes, typed, expected, astray>>

\* A refused write, or a lost answer, is shown and changes nothing on the page.
SidebarFailed(n) ==
    /\ writes[n].pc \in {"sent", "refresh", "answered"}
    /\ End(n, "failed")
    /\ UNCHANGED <<server, Page>>

\* The page renders what it has read.
StateShown(n) ==
    /\ writes[n].pc = "answered" /\ writes[n].key[1] = Nothing
    /\ End(n, "done")
    /\ view' = writes[n].read
    /\ RenderLogger(view', chosen, action, drafts, expected)
    /\ UNCHANGED <<server, chosen, timer, strokes, typed, astray>>

\* For a write of the logger it then discards a draft: the one under the selection
\* and the action there are by then, which may have been given another text since.
LoggerAnswered(n) ==
    LET key == writes[n].key
        now == <<chosen, Normal(writes[n].read, chosen, action)>>
        hit == now = key /\ expected[key] \in {0, writes[n].text}
    IN  /\ writes[n].pc = "answered" /\ key[1] # Nothing
        /\ End(n, "done")
        /\ view' = writes[n].read
        /\ action' = now[2] /\ field' = 0
        /\ \E after \in loadDraft(draftKey, drafts, expected) :
             /\ drafts' = Discard(after.drafts, now)
             /\ expected' = IF expected[key] = writes[n].text THEN Discard(after.expected, key)
                            ELSE after.expected
        /\ astray' = IF hit THEN astray ELSE astray \cup {key, now}
        /\ UNCHANGED <<server, chosen, timer, strokes, typed>>

-----------------------------------------------------------------------------

SidebarInit ==
    /\ view \in Snapshots
    /\ chosen = Nothing /\ action = "update" /\ field = 0
    /\ timer = 0 /\ typed = draftKey
    /\ drafts = [k \in Keys |-> 0]
    /\ writes = [n \in 1..MaxStrokes |-> NoWrite]
    /\ strokes = 0
    /\ expected = drafts /\ astray = {}

Strokes == \/ setSelected \/ ChooseAction \/ Input \/ DiscardClicked \/ Escape
           \/ submitLogger \/ OtherWrite

SidebarAnswer(n) == \/ Served(n) \/ SidebarStateRead(n) \/ SidebarFailed(n)
                    \/ StateShown(n) \/ LoggerAnswered(n)

SidebarStep == Strokes \/ saveDraft \/ \E n \in DOMAIN writes : SidebarAnswer(n)

-----------------------------------------------------------------------------
(* Properties *)

\* Local storage holds the drafts typed and neither submitted nor discarded nor of
\* more than a day, each under the entity and the action it was typed for: but for a
\* text whose timer is running, and for the keys that were not the current one, or
\* held another text by then, when a timer or the answer of a submission came.
DraftsExact ==
    \A k \in Keys :
        \/ drafts[k] = expected[k]
        \/ k \in astray
        \/ timer # 0 /\ k = typed

=============================================================================
