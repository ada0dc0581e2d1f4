-------------------------- MODULE Participation_proofs --------------------------
(***************************************************************************)
(* Theorems about Participation, for any number of processes and any       *)
(* bounds: what a provisioning program that answers ok has left there, the *)
(* record of releases, the end of a session, and who reactivates an actor. *)
(* Every call may stop after any of its statements.                        *)
(***************************************************************************)
EXTENDS Participation, FiniteSetTheorems, TLAPS

Phase(op) == CASE op = "init"      -> {"find", "make"}
               [] op = "import"    -> {"resolve", "import"}
               [] op = "update"    -> {"update_read", "update_write"}
               [] op = "bind"      -> {"bind_check", "bind_write"}
               [] op = "open"      -> {"open_check", "open_write"}
               [] op = "heartbeat" -> {"beat_read", "beat_write"}
               [] op = "close"     -> {"close_read", "close_write"}
               [] op = "claim"     -> {"claim_write", "claim_event"}
               [] op = "release"   -> {"release_read", "release_write", "release_event"}
               [] op = "report"    -> {"report_check", "record_write", "record_event"}
               [] op = "signal"    -> {"record_write", "record_event"}
               [] OTHER            -> {}

Ops == {"none", "init", "import", "update", "bind", "open", "heartbeat", "close", "claim",
        "release", "report", "signal"}

Pcs == {"idle", "find", "make", "resolve", "import", "update_read", "update_write",
        "bind_check", "bind_write", "open_check", "open_write", "beat_read", "beat_write",
        "close_read", "close_write", "claim_write", "claim_event", "release_read",
        "release_write", "release_event", "report_check", "record_write", "record_event"}

Job == [pc : Pcs, op : Ops, at : Nat, failed : BOOLEAN,
        status : {"same", "active", "inactive"}, seen : {"none", "active", "inactive"},
        credential : Credentials, row : Nat, reply : {"none", "ok", "error"}]

Binding == [credential : Credentials, status : {"same", "active", "inactive"}]

Claim == [entity : Entities, status : {"active", "released"}]

Typed ==
    /\ made \subseteq Rows
    /\ contract \in [Contracts -> {"none", "active", "draft"}]
    /\ actor \in {"none", "active", "inactive"}
    /\ "actor" \in made <=> actor # "none"
    /\ bindings \in Seq(Binding)
    /\ session \in [status : {"none", "active", "closed"}, ended : BOOLEAN]
    /\ claims \in Seq(Claim)
    /\ records \in Seq({"report", "signal"})
    /\ events \in [Event -> Nat]
    /\ job \in [Processes -> Job]

\* Events of releases are of entities with a released claim.
ReleasesHappened ==
    \A x \in Entities : events[<<"claim_released", x>>] > 0 =>
        \E k \in DOMAIN claims : claims[k] = [entity |-> x, status |-> "released"]

Releasing(j) ==
    j.op = "release" =>
        /\ j.row \in DOMAIN claims
        /\ j.pc = "release_event" => claims[j.row].status = "released"

\* A program that has come to `at' has left behind what comes before.
Done(order, n) == \A k \in 1..n : There(order[k])

Programming(j) ==
    /\ j.op = "init" =>
           /\ j.at \in 1..7
           /\ j.pc # "idle" => Done(InitOrder, j.at - 1)
           /\ j.reply = "ok" => Done(InitOrder, 7)
    /\ j.op = "import" =>
           /\ j.at \in 1..2
           /\ j.pc # "idle" /\ ~j.failed => Done(ImportOrder, j.at - 1)
           /\ j.reply = "ok" => Done(ImportOrder, 2)

Sound(j) ==
    /\ j.pc # "idle" => j.pc \in Phase(j.op) /\ j.reply = "none"
    /\ j.pc = "update_write" => j.seen # "none" /\ actor # "none"
    /\ Releasing(j)
    /\ Programming(j)

Inv == Typed /\ ReleasesHappened /\ SessionEndsWhenClosed /\ \A p \in Processes : Sound(job[p])

-----------------------------------------------------------------------------
(* Nothing is taken back *)

Grows ==
    /\ actor # "none" => actor' # "none"
    /\ \A thing \in Rows \cup Contracts \cup {"binding"} : There(thing) => There(thing)'
    /\ DOMAIN claims \subseteq DOMAIN claims'
    /\ \A k \in DOMAIN claims : claims[k].status = "released" => claims'[k].status = "released"

LEMMA Orders ==
    /\ Len(InitOrder) = 7 /\ DOMAIN InitOrder = 1..7
    /\ \A k \in 1..7 : InitOrder[k] \in Rows \cup Contracts \cup {"binding"}
    /\ Len(ImportOrder) = 2 /\ DOMAIN ImportOrder = 1..2
    /\ \A k \in 1..2 : ImportOrder[k] \in Rows \cup Contracts \cup {"binding"}
  BY DEF InitOrder, ImportOrder, Rows, Contracts

LEMMA SoundKept ==
    ASSUME NEW j \in Job, Sound(j), Grows
    PROVE  Sound(j)'
  <1>1. Releasing(j)'
    BY DEF Sound, Releasing, Grows
  <1>2. \A n \in 0..7 : Done(InitOrder, n) => Done(InitOrder, n)'
    BY Orders DEF Done, Grows
  <1>3. \A n \in 0..2 : Done(ImportOrder, n) => Done(ImportOrder, n)'
    BY Orders DEF Done, Grows
  <1>4. Programming(j)'
    BY <1>2, <1>3 DEF Sound, Programming, Job
  <1>5. QED BY <1>1, <1>4 DEF Sound, Grows

\* A step of one process, which leaves itself sound and takes nothing back.
LEMMA OneStep ==
    ASSUME Inv, NEW p \in Processes, NEW j \in Job, job' = [job EXCEPT ![p] = j],
           Sound(j)', Grows, Typed', ReleasesHappened', SessionEndsWhenClosed'
    PROVE  Inv'
  <1>1. ASSUME NEW q \in Processes PROVE Sound(job[q])'
    <2>1. CASE q = p
      BY <2>1 DEF Inv, Typed
    <2>2. CASE q # p
      <3>1. job'[q] = job[q] /\ job[q] \in Job /\ Sound(job[q])
        BY <2>2 DEF Inv, Typed
      <3>2. Sound(job[q])'
        BY <3>1, SoundKept DEF Sound, Releasing, Programming, Done
      <3>3. QED BY <3>2
    <2>3. QED BY <2>1, <2>2
  <1>2. QED BY <1>1 DEF Inv

LEMMA Quiet ==
    ASSUME Inv, NEW p \in Processes, NEW j \in Job, job' = [job EXCEPT ![p] = j],
           UNCHANGED <<provision, actor, session, tables>>, Sound(j)
    PROVE  Inv'
  <1>1. UNCHANGED <<made, contract, bindings, actor, session, claims, records, events>>
    BY DEF provision, tables
  <1>2. Sound(j)'
    BY <1>1 DEF Sound, Releasing, Programming, Done, There
  <1>3. Grows
    BY <1>1 DEF Grows, There
  <1>4. Typed'
    BY <1>1 DEF Inv, Typed
  <1>5. ReleasesHappened' /\ SessionEndsWhenClosed'
    BY <1>1 DEF Inv, ReleasesHappened, SessionEndsWhenClosed
  <1>6. QED BY <1>2, <1>3, <1>4, <1>5, OneStep

LEMMA JobTyped ==
    ASSUME Inv, NEW p \in Processes
    PROVE  job[p] \in Job /\ Sound(job[p])
  BY DEF Inv, Typed

\* What a call changes of its record where it goes on, and where it answers.
LEMMA GotoRecord ==
    ASSUME Inv, NEW p \in Processes, NEW pc \in Pcs, Goto(p, pc)
    PROVE  \E j \in Job :
              /\ job' = [job EXCEPT ![p] = j]
              /\ j.pc = pc /\ j.op = job[p].op /\ j.at = job[p].at
              /\ j.failed = job[p].failed /\ j.row = job[p].row /\ j.reply = job[p].reply
  <1> DEFINE j == [job[p] EXCEPT !.pc = pc]
  <1>1. /\ j \in Job /\ j.pc = pc /\ j.op = job[p].op /\ j.at = job[p].at
        /\ j.failed = job[p].failed /\ j.row = job[p].row /\ j.reply = job[p].reply
    BY JobTyped DEF Job
  <1>2. job' = [job EXCEPT ![p] = j]
    BY DEF Goto
  <1>3. QED BY <1>1, <1>2

LEMMA AnswerRecord ==
    ASSUME Inv, NEW p \in Processes, NEW reply \in {"ok", "error"}, Answer(p, reply)
    PROVE  \E j \in Job :
              /\ job' = [job EXCEPT ![p] = j]
              /\ j.pc = "idle" /\ j.op = job[p].op /\ j.at = job[p].at
              /\ j.failed = job[p].failed /\ j.row = job[p].row /\ j.reply = reply
  <1> DEFINE j == [job[p] EXCEPT !.pc = "idle", !.reply = reply]
  <1>1. /\ j \in Job /\ j.pc = "idle" /\ j.op = job[p].op /\ j.at = job[p].at
        /\ j.failed = job[p].failed /\ j.row = job[p].row /\ j.reply = reply
    BY JobTyped DEF Job, Pcs
  <1>2. job' = [job EXCEPT ![p] = j]
    BY DEF Answer
  <1>3. QED BY <1>1, <1>2

\* An error promises nothing.
LEMMA ErrorSound ==
    ASSUME Inv, NEW p \in Processes, NEW j \in Job, j.pc = "idle", j.op = job[p].op,
           j.at = job[p].at, j.row = job[p].row, j.reply = "error"
    PROVE  Sound(j)
  BY JobTyped DEF Sound, Releasing, Programming

LEMMA ErrorInv ==
    ASSUME Inv, NEW p \in Processes, Answer(p, "error"),
           UNCHANGED <<provision, actor, session, tables>>
    PROVE  Inv'
  BY AnswerRecord, ErrorSound, Quiet

\* The calls whose answers promise nothing of the tables.
Plain == {"update", "bind", "open", "heartbeat", "close", "claim", "report", "signal"}

LEMMA PlainSound ==
    ASSUME NEW j \in Job, j.op \in Plain,
           j.pc # "idle" => j.pc \in Phase(j.op) /\ j.reply = "none",
           j.pc = "update_write" => j.seen # "none" /\ actor # "none"
    PROVE  Sound(j)
  BY DEF Sound, Releasing, Programming, Plain

-----------------------------------------------------------------------------
(* Calls *)

LEMMA CallInv ==
    ASSUME Inv, NEW p \in Processes, NEW pc \in Pcs, NEW args \in Job, Call(p, pc, args),
           args.op # "none", pc \in Phase(args.op), pc # "update_write",
           args.reply = "none", args.at = 1,
           args.op = "release" => args.row \in DOMAIN claims /\ pc # "release_event"
    PROVE  Inv'
  <1> DEFINE j == [args EXCEPT !.pc = pc]
  <1>1. /\ job' = [job EXCEPT ![p] = j] /\ UNCHANGED <<provision, actor, session, tables>>
    BY DEF Call
  <1>2. /\ j \in Job /\ j.pc = pc /\ j.op = args.op /\ j.at = 1 /\ j.row = args.row
        /\ j.reply = "none"
    BY DEF Job
  <1> HIDE DEF j
  <1>3. Releasing(j)
    BY <1>2 DEF Releasing
  <1>4. Done(InitOrder, j.at - 1) /\ Done(ImportOrder, j.at - 1)
    BY <1>2 DEF Done
  <1>5. Programming(j)
    BY <1>2, <1>4 DEF Programming
  <1>6. Sound(j)
    BY <1>2, <1>3, <1>5 DEF Sound
  <1>7. QED BY <1>1, <1>2, <1>6, Quiet

LEMMA IdleTyped == Idle \in Job
  BY DEF Idle, Job, Pcs, Ops, Credentials, Null

LEMMA StartsInv ==
    ASSUME Inv, NEW p \in Processes,
           \/ StartInit(p) \/ StartImport(p) \/ StartUpdate(p) \/ StartBind(p)
           \/ StartSession(p) \/ StartClaim(p) \/ StartReport(p) \/ StartSignal(p)
    PROVE  Inv'
  <1>1. ASSUME NEW op \in Ops \ {"none", "release"},
               NEW pc \in Phase(op) \ {"update_write"},
               Call(p, pc, [Idle EXCEPT !.op = op])
        PROVE  Inv'
    <2> DEFINE args == [Idle EXCEPT !.op = op]
    <2>1. args \in Job /\ args.op = op /\ args.reply = "none" /\ args.at = 1
      BY IdleTyped DEF Idle, Job
    <2>2. pc \in Pcs
      BY DEF Phase, Pcs, Ops
    <2> HIDE DEF args
    <2>3. Call(p, pc, args)
      BY <1>1 DEF args
    <2>4. QED BY <2>1, <2>2, <2>3, CallInv
  <1>2. ASSUME StartUpdate(p) PROVE Inv'
    <2>1. PICK st \in {"same", "active", "inactive"} :
            Call(p, "update_read", [Idle EXCEPT !.op = "update", !.status = st])
      BY <1>2 DEF StartUpdate
    <2> DEFINE args == [Idle EXCEPT !.op = "update", !.status = st]
    <2>2. args \in Job /\ args.op = "update" /\ args.reply = "none" /\ args.at = 1
      BY IdleTyped DEF Idle, Job, Ops
    <2> HIDE DEF args
    <2>3. Call(p, "update_read", args)
      BY <2>1 DEF args
    <2>4. QED BY <2>2, <2>3, CallInv DEF Pcs, Phase
  <1>3. ASSUME StartBind(p) PROVE Inv'
    <2>1. PICK c \in Credentials, st \in {"active", "inactive"} :
            Call(p, "bind_check", [Idle EXCEPT !.op = "bind", !.credential = c,
                                               !.status = st])
      BY <1>3 DEF StartBind
    <2> DEFINE args == [Idle EXCEPT !.op = "bind", !.credential = c, !.status = st]
    <2>2. args \in Job /\ args.op = "bind" /\ args.reply = "none" /\ args.at = 1
      BY IdleTyped DEF Idle, Job, Ops
    <2> HIDE DEF args
    <2>3. Call(p, "bind_check", args)
      BY <2>1 DEF args
    <2>4. QED BY <2>2, <2>3, CallInv DEF Pcs, Phase
  <1>4. ASSUME NEW k \in DOMAIN claims,
               Call(p, "release_read", [Idle EXCEPT !.op = "release", !.row = k])
        PROVE  Inv'
    <2> DEFINE args == [Idle EXCEPT !.op = "release", !.row = k]
    <2>1. k \in Nat
      BY DEF Inv, Typed
    <2>2. /\ args \in Job /\ args.op = "release" /\ args.reply = "none" /\ args.at = 1
          /\ args.row = k
      BY <2>1, IdleTyped DEF Idle, Job, Ops
    <2> HIDE DEF args
    <2>3. Call(p, "release_read", args)
      BY <1>4 DEF args
    <2>4. QED BY <2>2, <2>3, CallInv DEF Pcs, Phase
  <1>5. CASE \/ StartInit(p) \/ StartImport(p) \/ StartSession(p) \/ StartReport(p)
             \/ StartSignal(p)
    BY <1>1, <1>5 DEF StartInit, StartImport, StartSession, StartReport, StartSignal, Ops,
                      Phase
  <1>6. CASE StartClaim(p)
    BY <1>1, <1>4, <1>6 DEF StartClaim, Ops, Phase
  <1>7. QED BY <1>2, <1>3, <1>5, <1>6

-----------------------------------------------------------------------------
(* Provisioning *)

Things == Rows \cup Contracts \cup {"binding"}

\* The tables that provisioning writes keep their types and take nothing back.
Provisioned ==
    /\ made' \subseteq Rows
    /\ contract' \in [Contracts -> {"none", "active", "draft"}]
    /\ actor' \in {"none", "active", "inactive"}
    /\ "actor" \in made' <=> actor' # "none"
    /\ actor # "none" => actor' # "none"
    /\ bindings' \in Seq(Binding)
    /\ \A thing \in Things : There(thing) => There(thing)'

LEMMA BindProvisions ==
    ASSUME Inv, NEW c \in Credentials, NEW st \in {"same", "active", "inactive"},
           bindActorRole(c, st), UNCHANGED actor
    PROVE  Provisioned /\ There("binding")'
  <1> DEFINE row == [credential |-> c, status |-> st]
  <1>1. row \in Binding /\ bindings \in Seq(Binding) /\ UNCHANGED <<made, contract>>
    BY DEF bindActorRole, Inv, Typed, Binding
  <1> HIDE DEF row
  <1>2. bindings' \in Seq(Binding) /\ bindings' # <<>>
    <2>1. CASE bindings' = Append(bindings, row)
      BY <1>1, <2>1
    <2>2. CASE bindings' # Append(bindings, row)
      <3>1. PICK k \in DOMAIN bindings : TRUE
        BY <2>2 DEF bindActorRole, row
      <3>2. bindings' = [n \in DOMAIN bindings |->
                            IF n \in {m \in DOMAIN bindings : bindings[m].credential = c}
                            THEN row ELSE bindings[n]]
        BY <2>2 DEF bindActorRole, row
      <3>3. \A n \in DOMAIN bindings : bindings[n] \in Binding
        BY <1>1
      <3>4. DOMAIN bindings = 1..Len(bindings) /\ Len(bindings) \in Nat
        BY <1>1
      <3>5. bindings' \in [1..Len(bindings) -> Binding]
        BY <1>1, <3>2, <3>3, <3>4
      <3>6. bindings' \in Seq(Binding)
        BY <3>4, <3>5
      <3>7. Len(bindings) # 0
        BY <3>1, <3>4
      <3>8. bindings' # <<>>
        BY <3>4, <3>5, <3>7
      <3>9. QED BY <3>6, <3>8
    <2>3. QED BY <2>1, <2>2
  <1>3. QED BY <1>1, <1>2 DEF Provisioned, There, Things, Rows, Contracts, Inv, Typed

LEMMA WriteProvisions ==
    ASSUME Inv, NEW thing \in Things, Accepted(thing), Write(thing)
    PROVE  /\ Provisioned /\ There(thing)'
           /\ actor' = actor \/ (actor = "none" /\ actor' = "active")
  <1>1. CASE thing = "binding"
    <2>1. bindActorRole(Null, "active") /\ UNCHANGED actor
      BY <1>1 DEF Write, Contracts, bindActorRole
    <2>2. QED BY <1>1, <2>1, BindProvisions DEF Credentials, Null, bindActorRole
  <1>2. CASE thing \in Contracts
    <2>1. registerContract(thing)
      BY <1>2 DEF Write, Contracts
    <2>2. QED BY <1>2, <2>1
              DEF registerContract, Provisioned, There, Things, Rows, Contracts, Inv, Typed
  <1>3. CASE thing = "actor"
    <2>1. registerActor
      BY <1>3 DEF Write, Contracts
    <2>2. "actor" \notin made
      BY <1>3 DEF Accepted
    <2>3. QED BY <1>3, <2>1, <2>2
              DEF registerActor, Provisioned, There, Things, Rows, Contracts, Inv, Typed
  <1>4. CASE thing \in {"scope", "domain", "role"}
    <2>1. made' = made \cup {thing} /\ UNCHANGED <<contract, actor, bindings>>
      BY <1>4 DEF Write, Contracts, registerScope, registerDomain, registerRole
    <2>2. QED BY <1>4, <2>1 DEF Provisioned, There, Things, Rows, Contracts, Inv, Typed
  <1>5. QED BY <1>1, <1>2, <1>3, <1>4 DEF Things, Rows, Contracts

LEMMA ProvisionedInv ==
    ASSUME Inv, NEW p \in Processes, NEW j \in Job, job' = [job EXCEPT ![p] = j],
           Provisioned, UNCHANGED <<session, tables>>, Sound(j)'
    PROVE  Inv'
  <1>1. UNCHANGED <<session, claims, records, events>>
    BY DEF tables
  <1>2. Grows
    BY <1>1 DEF Grows, Provisioned, Things
  <1>3. Typed'
    BY <1>1 DEF Inv, Typed, Provisioned
  <1>4. ReleasesHappened' /\ SessionEndsWhenClosed'
    BY <1>1 DEF Inv, ReleasesHappened, SessionEndsWhenClosed
  <1>5. QED BY <1>2, <1>3, <1>4, OneStep

\* The things of both programs.
LEMMA OrdersThings ==
    /\ \A k \in 1..7 : InitOrder[k] \in Things
    /\ \A k \in 1..2 : ImportOrder[k] \in Things
  BY Orders DEF Things

LEMMA InitAdvances ==
    ASSUME Inv, NEW p \in Processes, job[p].pc \in {"find", "make"}, job[p].op = "init",
           Advance(p, InitOrder, FALSE), NEW n \in 1..7, n = job[p].at,
           Done(InitOrder, n - 1)', There(InitOrder[n])'
    PROVE  \E j \in Job : job' = [job EXCEPT ![p] = j] /\ Sound(j)'
  <1>1. job[p] \in Job /\ job[p].reply = "none"
    BY JobTyped DEF Sound
  <1>2. Done(InitOrder, n)'
    <2>1. \A k \in 1..n : k \in 1..(n - 1) \/ k = n
      OBVIOUS
    <2>2. QED BY <2>1 DEF Done
  <1>3. CASE n = 7
    <2>1. PICK j : j = [job[p] EXCEPT !.pc = "idle", !.reply = "ok"]
      OBVIOUS
    <2>2. job' = [job EXCEPT ![p] = j]
      <3>1. job' = [job EXCEPT ![p].pc = "idle", ![p].reply = "ok"]
        BY <1>3, Orders DEF Advance
      <3>2. QED BY <2>1, <3>1
    <2>3. j \in Job /\ j.pc = "idle" /\ j.op = "init" /\ j.at = 7
      BY <1>1, <1>3, <2>1 DEF Job, Pcs
    <2>4. Programming(j)'
      BY <1>2, <1>3, <2>3 DEF Programming
    <2>5. Sound(j)'
      BY <2>3, <2>4 DEF Sound, Releasing
    <2>6. QED BY <2>2, <2>3, <2>5
  <1>4. CASE n # 7
    <2>1. PICK j : j = [job[p] EXCEPT !.at = @ + 1, !.failed = FALSE, !.pc = "find"]
      OBVIOUS
    <2>2. job' = [job EXCEPT ![p] = j]
      BY <1>4, <2>1, Orders DEF Advance, Inv, Typed
    <2>3. /\ j \in Job /\ j.pc = "find" /\ j.op = "init" /\ j.reply = "none"
          /\ j.at = n + 1
      <3>1. n + 1 \in Nat /\ "find" \in Pcs
        BY DEF Pcs
      <3>2. j = [job[p] EXCEPT !.at = n + 1, !.failed = FALSE, !.pc = "find"]
        BY <2>1
      <3>3. QED BY <1>1, <3>1, <3>2 DEF Job
    <2>4. j.at \in 1..7 /\ j.at - 1 = n
      BY <1>4, <2>3
    <2>5. Programming(j)'
      BY <1>2, <2>3, <2>4 DEF Programming
    <2>6. Sound(j)'
      BY <2>3, <2>5 DEF Sound, Releasing, Phase
    <2>7. QED BY <2>2, <2>3, <2>6
  <1>5. QED BY <1>3, <1>4

LEMMA InitFindInv ==
    ASSUME Inv, NEW p \in Processes, InitFind(p)
    PROVE  Inv'
  <1>1. /\ job[p].pc = "find" /\ UNCHANGED <<provision, actor, session, tables>>
        /\ job[p] \in Job /\ Sound(job[p])
    BY JobTyped DEF InitFind
  <1>2. PICK n \in 1..7 : n = job[p].at /\ job[p].op = "init" /\ Done(InitOrder, n - 1)
    BY <1>1 DEF Sound, Phase, Job, Ops, Programming
  <1>3. CASE Goto(p, "make")
    <2>1. PICK j \in Job : /\ job' = [job EXCEPT ![p] = j]
                           /\ j.pc = "make" /\ j.op = "init" /\ j.at = job[p].at
                           /\ j.reply = job[p].reply
      BY <1>2, <1>3, GotoRecord DEF Pcs
    <2>2. Sound(j)
      BY <1>1, <1>2, <2>1 DEF Sound, Releasing, Programming, Phase
    <2>3. QED BY <1>1, <2>1, <2>2, Quiet
  <1>4. CASE Found(InitOrder[job[p].at]) /\ Advance(p, InitOrder, FALSE)
    <2>1. There(InitOrder[n])
      <3>1. \A k \in DOMAIN bindings : bindings # <<>>
        BY DEF Inv, Typed
      <3>2. QED BY <1>2, <1>4, <3>1, Orders DEF Found, There
    <2>2. UNCHANGED <<made, contract, bindings, actor, session, claims, records, events>>
      BY <1>1 DEF provision, tables
    <2>3. Done(InitOrder, n - 1)' /\ There(InitOrder[n])'
      BY <1>2, <2>1, <2>2 DEF Done, There
    <2>4. PICK j \in Job : job' = [job EXCEPT ![p] = j] /\ Sound(j)'
      BY <1>1, <1>2, <1>4, <2>3, InitAdvances
    <2>5. Provisioned
      BY <2>2 DEF Provisioned, There, Inv, Typed
    <2>6. QED BY <1>1, <2>4, <2>5, ProvisionedInv
  <1>5. QED BY <1>3, <1>4 DEF InitFind

LEMMA InitMakeInv ==
    ASSUME Inv, NEW p \in Processes, InitMake(p)
    PROVE  Inv'
  <1>1. /\ job[p].pc = "make" /\ UNCHANGED <<session, tables>>
        /\ job[p] \in Job /\ Sound(job[p])
    BY JobTyped DEF InitMake
  <1>2. PICK n \in 1..7 : n = job[p].at /\ job[p].op = "init" /\ Done(InitOrder, n - 1)
    BY <1>1 DEF Sound, Phase, Job, Ops, Programming
  <1>3. CASE Answer(p, "error") /\ UNCHANGED <<provision, actor>>
    BY <1>1, <1>3, ErrorInv
  <1>4. CASE /\ Accepted(InitOrder[n]) /\ Write(InitOrder[n])
             /\ Advance(p, InitOrder, FALSE)
    <2>1. Provisioned /\ There(InitOrder[n])'
      BY <1>4, OrdersThings, WriteProvisions
    <2>2. Done(InitOrder, n - 1)'
      BY <1>2, <2>1, OrdersThings DEF Done, Provisioned
    <2>3. PICK j \in Job : job' = [job EXCEPT ![p] = j] /\ Sound(j)'
      BY <1>1, <1>2, <1>4, <2>1, <2>2, InitAdvances
    <2>4. QED BY <1>1, <2>1, <2>3, ProvisionedInv
  <1>5. QED BY <1>2, <1>3, <1>4 DEF InitMake

LEMMA ResolveInv ==
    ASSUME Inv, NEW p \in Processes, Resolve(p)
    PROVE  Inv'
  <1>1. /\ job[p].pc = "resolve" /\ UNCHANGED <<provision, actor, session, tables>>
        /\ job[p] \in Job /\ Sound(job[p])
    BY JobTyped DEF Resolve
  <1>2. job[p].op = "import" /\ job[p].reply = "none"
    BY <1>1 DEF Sound, Phase, Job, Ops
  <1>3. CASE Answer(p, "error")
    BY <1>1, <1>3, ErrorInv
  <1>4. CASE Goto(p, "import")
    <2>1. PICK j \in Job : /\ job' = [job EXCEPT ![p] = j]
                           /\ j.pc = "import" /\ j.op = "import" /\ j.at = job[p].at
                           /\ j.failed = job[p].failed /\ j.reply = "none"
      BY <1>2, <1>4, GotoRecord DEF Pcs
    <2>2. Sound(j)
      BY <1>1, <1>2, <2>1 DEF Sound, Releasing, Programming, Phase
    <2>3. QED BY <1>1, <2>1, <2>2, Quiet
  <1>5. QED BY <1>3, <1>4 DEF Resolve

LEMMA ImportAdvances ==
    ASSUME Inv, NEW p \in Processes, job[p].pc = "import", job[p].op = "import",
           NEW failed \in BOOLEAN, Advance(p, ImportOrder, failed),
           NEW n \in 1..2, n = job[p].at, ~failed => Done(ImportOrder, n)'
    PROVE  \E j \in Job : job' = [job EXCEPT ![p] = j] /\ Sound(j)'
  <1>1. job[p] \in Job /\ job[p].reply = "none"
    BY JobTyped DEF Sound
  <1>2. CASE n = 2
    <2>1. PICK reply \in {"ok", "error"} :
            /\ job' = [job EXCEPT ![p].pc = "idle", ![p].reply = reply]
            /\ reply = "ok" => ~failed
      BY <1>2, Orders DEF Advance
    <2>2. PICK j : j = [job[p] EXCEPT !.pc = "idle", !.reply = reply]
      OBVIOUS
    <2>3. job' = [job EXCEPT ![p] = j]
      BY <2>1, <2>2
    <2>4. j \in Job /\ j.pc = "idle" /\ j.op = "import" /\ j.at = 2 /\ j.reply = reply
      BY <1>1, <1>2, <2>2 DEF Job, Pcs
    <2>5. Programming(j)'
      BY <1>2, <2>1, <2>4 DEF Programming
    <2>6. Sound(j)'
      BY <2>4, <2>5 DEF Sound, Releasing
    <2>7. QED BY <2>3, <2>4, <2>6
  <1>3. CASE n = 1
    <2>1. PICK j : j = [job[p] EXCEPT !.at = @ + 1, !.failed = failed, !.pc = "import"]
      OBVIOUS
    <2>2. job' = [job EXCEPT ![p] = j]
      <3>1. job' = [job EXCEPT ![p].at = @ + 1, ![p].failed = failed, ![p].pc = "import"]
        BY <1>3, Orders DEF Advance
      <3>2. QED BY <2>1, <3>1
    <2>3. /\ j \in Job /\ j.pc = "import" /\ j.op = "import" /\ j.reply = "none"
          /\ j.at = n + 1 /\ j.failed = failed
      <3>1. n + 1 \in Nat /\ "import" \in Pcs
        BY DEF Pcs
      <3>2. j = [job[p] EXCEPT !.at = n + 1, !.failed = failed, !.pc = "import"]
        BY <2>1
      <3>3. QED BY <1>1, <3>1, <3>2 DEF Job
    <2>4. j.at \in 1..2 /\ j.at - 1 = n
      BY <1>3, <2>3
    <2>5. Programming(j)'
      BY <2>3, <2>4 DEF Programming
    <2>6. Sound(j)'
      BY <2>3, <2>5 DEF Sound, Releasing, Phase
    <2>7. QED BY <2>2, <2>3, <2>6
  <1>4. QED BY <1>2, <1>3

LEMMA ImportInv ==
    ASSUME Inv, NEW p \in Processes, Import(p)
    PROVE  Inv'
  <1>1. /\ job[p].pc = "import" /\ UNCHANGED <<session, tables>>
        /\ job[p] \in Job /\ Sound(job[p])
    BY JobTyped DEF Import
  <1>2. PICK n \in 1..2 : /\ n = job[p].at /\ job[p].op = "import"
                          /\ ~job[p].failed => Done(ImportOrder, n - 1)
    BY <1>1 DEF Sound, Phase, Job, Ops, Programming
  <1>3. CASE Advance(p, ImportOrder, TRUE) /\ UNCHANGED <<provision, actor>>
    <2>1. UNCHANGED <<made, contract, bindings, actor>>
      BY <1>3 DEF provision
    <2>2. Provisioned
      BY <2>1 DEF Provisioned, There, Inv, Typed
    <2>3. PICK j \in Job : job' = [job EXCEPT ![p] = j] /\ Sound(j)'
      BY <1>1, <1>2, <1>3, ImportAdvances
    <2>4. QED BY <1>1, <2>2, <2>3, ProvisionedInv
  <1>4. CASE /\ Accepted(ImportOrder[n]) /\ Write(ImportOrder[n])
             /\ Advance(p, ImportOrder, job[p].failed)
    <2>1. Provisioned /\ There(ImportOrder[n])'
      BY <1>4, OrdersThings, WriteProvisions
    <2>2. PICK failed \in BOOLEAN : failed = job[p].failed
      BY <1>1 DEF Job
    <2>3. ~failed => Done(ImportOrder, n)'
      <3>1. \A k \in 1..n : k \in 1..(n - 1) \/ k = n
        OBVIOUS
      <3>2. ~failed => \A k \in 1..(n - 1) : There(ImportOrder[k])'
        BY <1>2, <2>1, <2>2, OrdersThings DEF Done, Provisioned
      <3>3. QED BY <2>1, <3>1, <3>2 DEF Done
    <2>4. PICK j \in Job : job' = [job EXCEPT ![p] = j] /\ Sound(j)'
      BY <1>1, <1>2, <1>4, <2>2, <2>3, ImportAdvances
    <2>5. QED BY <1>1, <2>1, <2>4, ProvisionedInv
  <1>5. QED BY <1>2, <1>3, <1>4 DEF Import

LEMMA supersedeContractInv == Inv /\ supersedeContract => Inv'
  <1> SUFFICES ASSUME Inv, supersedeContract PROVE Inv'
    OBVIOUS
  <1>1. PICK k \in Contracts, status \in {"active", "draft"} :
          /\ contract[k] # "none" /\ contract' = [contract EXCEPT ![k] = status]
          /\ UNCHANGED <<made, bindings, actor, session, tables, job>>
    BY DEF supersedeContract
  <1>2. UNCHANGED <<session, claims, records, events>>
    BY <1>1 DEF tables
  <1>3. Grows
    BY <1>1, <1>2 DEF Grows, There, Inv, Typed, Rows, Contracts
  <1>4. Typed'
    BY <1>1, <1>2 DEF Inv, Typed, Contracts
  <1>5. ReleasesHappened' /\ SessionEndsWhenClosed'
    BY <1>2 DEF Inv, ReleasesHappened, SessionEndsWhenClosed
  <1>6. ASSUME NEW p \in Processes PROVE Sound(job[p])'
    <2>1. job'[p] = job[p] /\ job[p] \in Job /\ Sound(job[p])
      BY <1>1, JobTyped
    <2>2. PICK j \in Job : j = job[p]
      BY <2>1
    <2>3. Sound(j)'
      BY <1>3, <2>1, <2>2, SoundKept
    <2>4. QED BY <1>1, <2>2, <2>3
  <1>7. QED BY <1>4, <1>5, <1>6 DEF Inv

-----------------------------------------------------------------------------
(* The other calls *)

\* A process in a call that promises nothing of the tables stays in one.
LEMMA PlainGoto ==
    ASSUME Inv, NEW p \in Processes, NEW pc \in Pcs, Goto(p, pc), job[p].op \in Plain,
           job[p].pc # "idle", pc \in Phase(job[p].op), pc # "update_write"
    PROVE  \E j \in Job : job' = [job EXCEPT ![p] = j] /\ Sound(j) /\ j.op \in Plain
                          /\ j.pc # "idle" /\ j.pc \in Phase(j.op) /\ j.reply = "none"
  <1>1. job[p] \in Job /\ job[p].reply = "none"
    BY JobTyped DEF Sound
  <1>2. PICK j \in Job : /\ job' = [job EXCEPT ![p] = j] /\ j.pc = pc /\ j.op = job[p].op
                         /\ j.reply = "none"
    BY <1>1, GotoRecord
  <1>3. pc # "idle"
    BY DEF Phase
  <1>4. QED BY <1>2, <1>3, PlainSound

LEMMA PlainAnswer ==
    ASSUME Inv, NEW p \in Processes, NEW reply \in {"ok", "error"}, Answer(p, reply),
           job[p].op \in Plain
    PROVE  \E j \in Job : job' = [job EXCEPT ![p] = j] /\ Sound(j) /\ j.op \in Plain
                          /\ j.pc = "idle"
  BY AnswerRecord, PlainSound

\* What a process is in, by where it is.
LEMMA OpOfPc ==
    ASSUME Inv, NEW p \in Processes
    PROVE  /\ job[p].pc \in {"update_read", "update_write"} => job[p].op = "update"
           /\ job[p].pc \in {"bind_check", "bind_write"} => job[p].op = "bind"
           /\ job[p].pc \in {"open_check", "open_write"} => job[p].op = "open"
           /\ job[p].pc \in {"beat_read", "beat_write"} => job[p].op = "heartbeat"
           /\ job[p].pc \in {"close_read", "close_write"} => job[p].op = "close"
           /\ job[p].pc \in {"claim_write", "claim_event"} => job[p].op = "claim"
           /\ job[p].pc \in {"release_read", "release_write", "release_event"} =>
                  job[p].op = "release"
           /\ job[p].pc \in {"report_check", "record_write", "record_event"} =>
                  job[p].op \in {"report", "signal"}
  <1>1. job[p] \in Job /\ (job[p].pc # "idle" => job[p].pc \in Phase(job[p].op))
    BY JobTyped DEF Sound
  <1>2. job[p].pc \in {"update_read", "update_write"} => job[p].op = "update"
    BY <1>1 DEF Phase, Job, Ops
  <1>3. job[p].pc \in {"bind_check", "bind_write"} => job[p].op = "bind"
    BY <1>1 DEF Phase, Job, Ops
  <1>4. job[p].pc \in {"open_check", "open_write"} => job[p].op = "open"
    BY <1>1 DEF Phase, Job, Ops
  <1>5. job[p].pc \in {"beat_read", "beat_write"} => job[p].op = "heartbeat"
    BY <1>1 DEF Phase, Job, Ops
  <1>6. job[p].pc \in {"close_read", "close_write"} => job[p].op = "close"
    BY <1>1 DEF Phase, Job, Ops
  <1>7. job[p].pc \in {"claim_write", "claim_event"} => job[p].op = "claim"
    BY <1>1 DEF Phase, Job, Ops
  <1>8. job[p].pc \in {"release_read", "release_write", "release_event"} =>
           job[p].op = "release"
    BY <1>1 DEF Phase, Job, Ops
  <1>9. job[p].pc \in {"report_check", "record_write", "record_event"} =>
           job[p].op \in {"report", "signal"}
    BY <1>1 DEF Phase, Job, Ops
  <1>10. QED BY <1>2, <1>3, <1>4, <1>5, <1>6, <1>7, <1>8, <1>9

\* The steps that change no table.
LEMMA ChecksInv ==
    ASSUME Inv, NEW p \in Processes,
           \/ UpdateRead(p) \/ BindCheck(p) \/ OpenCheck(p) \/ SessionRead(p)
           \/ heartbeatActorSession(p) \/ ReportCheck(p)
    PROVE  Inv'
  <1>1. UNCHANGED <<provision, actor, session, tables>>
    BY DEF UpdateRead, BindCheck, OpenCheck, SessionRead, heartbeatActorSession, ReportCheck
  <1>2. CASE Answer(p, "error")
    BY <1>1, <1>2, ErrorInv
  <1>3. ASSUME NEW pc \in Pcs, Goto(p, pc), job[p].op \in Plain, job[p].pc # "idle",
               pc \in Phase(job[p].op), pc # "update_write"
        PROVE  Inv'
    BY <1>1, <1>3, PlainGoto, Quiet
  <1>4. CASE BindCheck(p)
    BY <1>2, <1>3, <1>4, OpOfPc DEF BindCheck, Plain, Pcs, Phase
  <1>5. CASE OpenCheck(p)
    BY <1>2, <1>3, <1>5, OpOfPc DEF OpenCheck, Plain, Pcs, Phase
  <1>6. CASE SessionRead(p)
    <2>1. CASE Goto(p, "beat_write") /\ job[p].pc = "beat_read"
      BY <1>3, <2>1, OpOfPc DEF Plain, Pcs, Phase
    <2>2. CASE Goto(p, "close_write") /\ job[p].pc = "close_read"
      BY <1>3, <2>2, OpOfPc DEF Plain, Pcs, Phase
    <2>3. QED BY <1>2, <1>6, <2>1, <2>2 DEF SessionRead
  <1>7. CASE heartbeatActorSession(p)
    BY <1>1, <1>7, OpOfPc, PlainAnswer, Quiet DEF heartbeatActorSession, Plain
  <1>8. CASE ReportCheck(p)
    BY <1>2, <1>3, <1>8, OpOfPc DEF ReportCheck, Plain, Pcs, Phase
  <1>9. CASE UpdateRead(p)
    <2>1. job[p].op = "update" /\ job[p].pc = "update_read" /\ job[p] \in Job
          /\ job[p].reply = "none"
      BY <1>9, OpOfPc, JobTyped DEF UpdateRead, Sound
    <2>2. CASE job' = [job EXCEPT ![p].pc = "update_write", ![p].seen = actor]
      <3>1. PICK j : j = [job[p] EXCEPT !.pc = "update_write", !.seen = actor]
        OBVIOUS
      <3>2. job' = [job EXCEPT ![p] = j]
        BY <2>2, <3>1
      <3>3. /\ j \in Job /\ j.op = "update" /\ j.pc = "update_write" /\ j.reply = "none"
            /\ j.seen = actor /\ actor # "none"
        <4>1. actor # "none"
          BY <1>9, <2>2, <2>1 DEF UpdateRead, Answer, Inv, Typed, Job
        <4>2. QED BY <2>1, <3>1, <4>1 DEF Job, Pcs, Inv, Typed
      <3>4. Sound(j)
        BY <3>3, PlainSound DEF Plain, Phase
      <3>5. QED BY <1>1, <3>2, <3>3, <3>4, Quiet
    <2>3. QED BY <1>2, <1>9, <2>2 DEF UpdateRead
  <1>10. QED BY <1>4, <1>5, <1>6, <1>7, <1>8, <1>9

LEMMA UpdateWriteInv ==
    ASSUME Inv, NEW p \in Processes, UpdateWrite(p)
    PROVE  Inv'
  <1>1. /\ job[p] \in Job /\ job[p].op = "update" /\ Sound(job[p])
        /\ job[p].pc = "update_write"
    BY OpOfPc, JobTyped DEF UpdateWrite
  <1>2. UNCHANGED <<made, contract, bindings, session, claims, records, events>>
    BY DEF UpdateWrite, provision, tables
  <1>3. actor # "none" /\ actor' \in {"active", "inactive"}
    BY <1>1 DEF UpdateWrite, Sound, Job
  <1>4. PICK j \in Job : job' = [job EXCEPT ![p] = j] /\ j.op \in Plain /\ j.pc = "idle"
    BY <1>1, PlainAnswer DEF UpdateWrite, Plain
  <1>5. Sound(j)'
    BY <1>4 DEF Sound, Releasing, Programming, Plain
  <1>6. Grows /\ ReleasesHappened' /\ SessionEndsWhenClosed'
    BY <1>2, <1>3 DEF Grows, There, Inv, ReleasesHappened, SessionEndsWhenClosed
  <1>7. Typed'
    BY <1>2, <1>3, <1>4 DEF Inv, Typed
  <1>8. QED BY <1>4, <1>5, <1>6, <1>7, OneStep

LEMMA BindWriteInv ==
    ASSUME Inv, NEW p \in Processes, BindWrite(p)
    PROVE  Inv'
  <1>1. /\ job[p] \in Job /\ job[p].op = "bind" /\ UNCHANGED <<session, tables>>
        /\ UNCHANGED actor
    BY OpOfPc, JobTyped DEF BindWrite, bindActorRole
  <1>2. Provisioned
    <2>1. bindActorRole(job[p].credential, job[p].status)
      BY DEF BindWrite
    <2>2. QED BY <1>1, <2>1, BindProvisions DEF Job
  <1>3. PICK j \in Job : job' = [job EXCEPT ![p] = j] /\ j.op \in Plain /\ j.pc = "idle"
    BY <1>1, PlainAnswer DEF BindWrite, Plain
  <1>4. Sound(j)'
    BY <1>3 DEF Sound, Releasing, Programming, Plain
  <1>5. QED BY <1>1, <1>2, <1>3, <1>4, ProvisionedInv

LEMMA SessionInv ==
    ASSUME Inv, NEW p \in Processes, openActorSession(p) \/ closeActorSession(p)
    PROVE  Inv'
  <1>1. job[p] \in Job /\ job[p].op \in Plain /\ Answer(p, "ok")
    BY OpOfPc, JobTyped DEF openActorSession, closeActorSession, Plain
  <1>2. UNCHANGED <<made, contract, bindings, actor, claims, records, events>>
    BY DEF openActorSession, closeActorSession, provision, tables
  <1>3. \/ session' = [status |-> "active", ended |-> FALSE]
        \/ session' = [status |-> "closed", ended |-> TRUE]
    BY DEF openActorSession, closeActorSession
  <1>4. PICK j \in Job : job' = [job EXCEPT ![p] = j] /\ j.op \in Plain /\ j.pc = "idle"
    BY <1>1, PlainAnswer
  <1>5. Sound(j)'
    BY <1>4 DEF Sound, Releasing, Programming, Plain
  <1>6. Grows /\ ReleasesHappened'
    BY <1>2 DEF Grows, There, Inv, ReleasesHappened
  <1>7. /\ SessionEndsWhenClosed'
        /\ session' \in [status : {"none", "active", "closed"}, ended : BOOLEAN]
    <2>1. CASE session' = [status |-> "active", ended |-> FALSE]
      BY <2>1 DEF SessionEndsWhenClosed
    <2>2. CASE session' = [status |-> "closed", ended |-> TRUE]
      BY <2>2 DEF SessionEndsWhenClosed
    <2>3. QED BY <1>3, <2>1, <2>2
  <1>8. Typed'
    BY <1>2, <1>4, <1>7 DEF Inv, Typed
  <1>9. QED BY <1>4, <1>5, <1>6, <1>7, <1>8, OneStep

\* A call that appends to a table and goes on to its event, or writes its event.
LEMMA RecordingRecord ==
    ASSUME Inv, NEW p \in Processes, NEW pc \in {"claim_event", "record_event"},
           NEW row \in Nat, job' = [job EXCEPT ![p].pc = pc, ![p].row = row],
           job[p].op \in Plain, pc \in Phase(job[p].op), job[p].pc # "idle"
    PROVE  \E j \in Job : job' = [job EXCEPT ![p] = j] /\ j.op \in Plain
                          /\ j.pc \in Phase(j.op) /\ j.reply = "none" /\ j.pc = pc
  <1>1. job[p] \in Job /\ job[p].reply = "none"
    BY JobTyped DEF Sound
  <1> DEFINE j == [job[p] EXCEPT !.pc = pc, !.row = row]
  <1>2. job' = [job EXCEPT ![p] = j]
    OBVIOUS
  <1>3. j \in Job /\ j.op = job[p].op /\ j.pc = pc /\ j.reply = "none"
    BY <1>1 DEF Job, Pcs
  <1>4. QED BY <1>2, <1>3

LEMMA CountTyped ==
    ASSUME NEW E, NEW f \in [E -> Nat], NEW e
    PROVE  [f EXCEPT ![e] = @ + 1] \in [E -> Nat]
  <1>1. CASE e \in E
    <2>1. PICK n \in Nat : n = f[e] + 1
      BY <1>1
    <2>2. [f EXCEPT ![e] = n] \in [E -> Nat]
      BY <2>1
    <2>3. QED BY <2>1, <2>2
  <1>2. CASE e \notin E
    BY <1>2
  <1>3. QED BY <1>1, <1>2

\* An event that is not of a release leaves the count of releases.
LEMMA EventApart ==
    ASSUME Typed, NEW type, NEW entity, type # "claim_released", emitEvent(type, entity)
    PROVE  /\ events' \in [Event -> Nat]
           /\ \A x \in Entities : events'[<<"claim_released", x>>] = events[<<"claim_released", x>>]
  <1>1. \A x \in Entities : <<type, entity>> # <<"claim_released", x>>
    OBVIOUS
  <1>2. \A x \in Entities : <<"claim_released", x>> \in Event
    BY DEF Event
  <1>3. PICK e : e = <<type, entity>>
    OBVIOUS
  <1>4. events \in [Event -> Nat] /\ events' = [events EXCEPT ![e] = @ + 1]
    BY <1>3 DEF emitEvent, Typed
  <1>5. events' \in [Event -> Nat]
    BY <1>4, CountTyped
  <1>6. QED BY <1>1, <1>2, <1>3, <1>4, <1>5

LEMMA acquireClaimInv ==
    ASSUME Inv, NEW p \in Processes, acquireClaim(p)
    PROVE  Inv'
  <1>1. job[p] \in Job /\ job[p].op = "claim"
    BY OpOfPc, JobTyped DEF acquireClaim
  <1>2. UNCHANGED <<made, contract, bindings, actor, session, records>>
    BY DEF acquireClaim, provision
  <1>3. PICK j \in Job : /\ job' = [job EXCEPT ![p] = j] /\ j.op \in Plain
                         /\ \/ j.pc = "idle"
                            \/ j.pc \in Phase(j.op) /\ j.reply = "none"
                         /\ j.pc # "update_write"
    <2>1. CASE Answer(p, "ok")
      BY <1>1, <2>1, PlainAnswer DEF Plain
    <2>2. CASE /\ job[p].pc = "claim_write"
               /\ job' = [job EXCEPT ![p].pc = "claim_event", ![p].row = Len(claims) + 1]
      <3>1. Len(claims) + 1 \in Nat
        BY DEF Inv, Typed
      <3>2. QED BY <1>1, <2>2, <3>1, RecordingRecord DEF Plain, Phase
    <2>3. QED BY <2>1, <2>2 DEF acquireClaim
  <1>4. Sound(j)'
    BY <1>3 DEF Sound, Releasing, Programming, Plain
  <1>5. /\ claims' \in Seq(Claim) /\ DOMAIN claims \subseteq DOMAIN claims'
        /\ \A k \in DOMAIN claims : claims'[k] = claims[k]
    <2>1. claims \in Seq(Claim)
      BY DEF Inv, Typed
    <2>2. CASE claims' = claims
      BY <2>1, <2>2
    <2>3. CASE \E x \in Entities : claims' = Append(claims, [entity |-> x, status |-> "active"])
      <3>1. PICK row \in Claim : claims' = Append(claims, row)
        BY <2>3 DEF Claim
      <3>2. claims' \in Seq(Claim)
        BY <2>1, <3>1
      <3>3. DOMAIN claims = 1..Len(claims) /\ DOMAIN claims' = 1..(Len(claims) + 1)
            /\ Len(claims) \in Nat
        BY <2>1, <3>1
      <3>4. \A k \in 1..Len(claims) : claims'[k] = claims[k]
        BY <2>1, <3>1
      <3>5. QED BY <3>2, <3>3, <3>4
    <2>4. QED BY <2>2, <2>3 DEF acquireClaim
  <1>6. /\ events' \in [Event -> Nat]
        /\ \A x \in Entities : events'[<<"claim_released", x>>] = events[<<"claim_released", x>>]
    <2>1. CASE UNCHANGED events
      BY <2>1 DEF Inv, Typed
    <2>2. CASE emitEvent("claim_acquired", claims[job[p].row].entity)
      BY <2>2, EventApart DEF Inv
    <2>3. QED BY <2>1, <2>2 DEF acquireClaim
  <1>7. ReleasesHappened'
    BY <1>5, <1>6 DEF Inv, ReleasesHappened
  <1>8. Grows
    BY <1>2, <1>5 DEF Grows, There
  <1>9. Typed' /\ SessionEndsWhenClosed'
    BY <1>2, <1>3, <1>5, <1>6 DEF Inv, Typed, SessionEndsWhenClosed
  <1>10. QED BY <1>3, <1>4, <1>7, <1>8, <1>9, OneStep

LEMMA RecordWriteInv ==
    ASSUME Inv, NEW p \in Processes, RecordWrite(p)
    PROVE  Inv'
  <1>1. job[p] \in Job /\ job[p].op \in {"report", "signal"}
    BY OpOfPc, JobTyped DEF RecordWrite
  <1>2. UNCHANGED <<made, contract, bindings, actor, session, claims>>
    BY DEF RecordWrite, provision
  <1>3. /\ events' \in [Event -> Nat]
        /\ \A x \in Entities : events'[<<"claim_released", x>>] = events[<<"claim_released", x>>]
    <2>1. CASE UNCHANGED events
      BY <2>1 DEF Inv, Typed
    <2>2. CASE emitEvent(job[p].op, job[p].row)
      BY <1>1, <2>2, EventApart DEF Inv
    <2>3. QED BY <2>1, <2>2 DEF RecordWrite
  <1>4. PICK j \in Job : /\ job' = [job EXCEPT ![p] = j] /\ j.op \in Plain
                         /\ \/ j.pc = "idle"
                            \/ j.pc \in Phase(j.op) /\ j.reply = "none"
                         /\ j.pc # "update_write"
    <2>1. CASE Answer(p, "ok")
      BY <1>1, <2>1, PlainAnswer DEF Plain
    <2>2. CASE /\ job[p].pc = "record_write"
               /\ Len(records) < MaxRows
               /\ job' = [job EXCEPT ![p].pc = "record_event", ![p].row = Len(records) + 1]
      <3>1. Len(records) + 1 \in Nat
        BY DEF Inv, Typed
      <3>2. QED BY <1>1, <2>2, <3>1, RecordingRecord DEF Plain, Phase
    <2>3. QED BY <2>1, <2>2 DEF RecordWrite
  <1>5. Sound(j)'
    BY <1>4 DEF Sound, Releasing, Programming, Plain
  <1>6. Grows /\ ReleasesHappened' /\ SessionEndsWhenClosed'
    BY <1>2, <1>3 DEF Grows, There, Inv, ReleasesHappened, SessionEndsWhenClosed
  <1>7. records' \in Seq({"report", "signal"})
    <2>1. records \in Seq({"report", "signal"})
      BY DEF Inv, Typed
    <2>2. records' = records \/ records' = Append(records, job[p].op)
      BY DEF RecordWrite
    <2>3. QED BY <1>1, <2>1, <2>2
  <1>8. Typed'
    BY <1>2, <1>3, <1>4, <1>7 DEF Inv, Typed
  <1>9. QED BY <1>4, <1>5, <1>6, <1>8, OneStep

-----------------------------------------------------------------------------
(* Releases *)

\* A process in a release stays in it, and keeps the claim it read.
LEMMA ReleaseSound ==
    ASSUME Inv, NEW p \in Processes, job[p].op = "release", NEW j \in Job, j.op = "release",
           j.row = job[p].row, j.pc # "idle" => j.pc \in Phase("release") /\ j.reply = "none",
           j.pc = "release_event" => claims[j.row].status = "released"
    PROVE  Sound(j)
  <1>1. j.row \in DOMAIN claims
    BY JobTyped DEF Sound, Releasing
  <1>2. j.pc # "update_write"
    BY DEF Phase
  <1>3. QED BY <1>1, <1>2 DEF Sound, Releasing, Programming

LEMMA ReleaseReadInv ==
    ASSUME Inv, NEW p \in Processes, ReleaseRead(p)
    PROVE  Inv'
  <1>1. /\ job[p] \in Job /\ job[p].op = "release" /\ job[p].reply = "none"
        /\ UNCHANGED <<provision, actor, session, tables>>
    BY OpOfPc, JobTyped DEF ReleaseRead, Sound
  <1>2. CASE Answer(p, "error")
    BY <1>1, <1>2, ErrorInv
  <1>3. CASE Goto(p, "release_write")
    <2>1. PICK j \in Job : /\ job' = [job EXCEPT ![p] = j] /\ j.pc = "release_write"
                           /\ j.op = "release" /\ j.row = job[p].row /\ j.reply = "none"
      BY <1>1, <1>3, GotoRecord DEF Pcs
    <2>2. Sound(j)
      BY <1>1, <2>1, ReleaseSound DEF Phase
    <2>3. QED BY <1>1, <2>1, <2>2, Quiet
  <1>4. QED BY <1>2, <1>3 DEF ReleaseRead

LEMMA ReleaseWriteInv ==
    ASSUME Inv, NEW p \in Processes, ReleaseWrite(p)
    PROVE  Inv'
  <1>1. /\ job[p] \in Job /\ job[p].op = "release" /\ job[p].reply = "none"
        /\ job[p].row \in DOMAIN claims
        /\ job[p].pc = "release_event" => claims[job[p].row].status = "released"
    BY OpOfPc, JobTyped DEF ReleaseWrite, Sound, Releasing
  <1>2. PICK k \in DOMAIN claims : k = job[p].row
    BY <1>1
  <1>3. UNCHANGED <<made, contract, bindings, actor, session, records>>
    BY DEF ReleaseWrite, provision
  <1>4. claims \in Seq(Claim) /\ claims[k] \in Claim /\ claims[k].entity \in Entities
    <2>1. claims \in Seq(Claim)
      BY DEF Inv, Typed
    <2>2. claims[k] \in Claim
      BY <2>1
    <2>3. QED BY <2>1, <2>2 DEF Claim
  <1>5. CASE /\ job[p].pc = "release_write" /\ Goto(p, "release_event") /\ UNCHANGED events
             /\ claims' = [claims EXCEPT ![job[p].row].status = "released"]
    <2>1. PICK j \in Job : /\ job' = [job EXCEPT ![p] = j] /\ j.pc = "release_event"
                           /\ j.op = "release" /\ j.row = k /\ j.reply = "none"
      BY <1>1, <1>2, <1>5, GotoRecord DEF Pcs
    <2>2. /\ claims' \in Seq(Claim) /\ DOMAIN claims' = DOMAIN claims
          /\ claims'[k].status = "released"
          /\ \A n \in DOMAIN claims : n # k => claims'[n] = claims[n]
      <3>1. PICK row \in Claim : row = [claims[k] EXCEPT !.status = "released"]
        BY <1>4 DEF Claim
      <3>2. claims' = [claims EXCEPT ![k] = row]
        BY <1>2, <1>5, <3>1
      <3>3. row.status = "released"
        BY <1>4, <3>1 DEF Claim
      <3>4. QED BY <1>4, <3>2, <3>3
    <2>3. Sound(j)'
      BY <2>1, <2>2 DEF Sound, Releasing, Programming, Phase
    <2>4. Grows
      BY <1>3, <2>2 DEF Grows, There
    <2>5. ReleasesHappened'
      <3>1. SUFFICES ASSUME NEW x \in Entities, events[<<"claim_released", x>>] > 0
                     PROVE  \E n \in DOMAIN claims' :
                                claims'[n] = [entity |-> x, status |-> "released"]
        BY <1>5 DEF ReleasesHappened
      <3>2. PICK n \in DOMAIN claims : claims[n] = [entity |-> x, status |-> "released"]
        BY <3>1 DEF Inv, ReleasesHappened
      <3>3. CASE n # k
        BY <2>2, <3>2, <3>3
      <3>4. CASE n = k
        <4>1. claims'[k] = [claims[k] EXCEPT !.status = "released"]
          BY <1>2, <1>4, <1>5
        <4>2. QED BY <2>2, <3>2, <3>4, <4>1
      <3>5. QED BY <3>3, <3>4
    <2>6. Typed' /\ SessionEndsWhenClosed'
      BY <1>3, <1>5, <2>1, <2>2 DEF Inv, Typed, SessionEndsWhenClosed
    <2>7. QED BY <2>1, <2>3, <2>4, <2>5, <2>6, OneStep
  <1>6. CASE /\ job[p].pc = "release_event" /\ Answer(p, "ok") /\ UNCHANGED claims
             /\ emitEvent("claim_released", claims[job[p].row].entity)
    <2>1. PICK j \in Job : /\ job' = [job EXCEPT ![p] = j] /\ j.pc = "idle"
                           /\ j.op = "release" /\ j.row = k /\ j.reply = "ok"
      BY <1>1, <1>2, <1>6, AnswerRecord
    <2>2. PICK e : e = <<"claim_released", claims[k].entity>>
      OBVIOUS
    <2>3. events \in [Event -> Nat] /\ events' = [events EXCEPT ![e] = @ + 1]
      BY <1>2, <1>6, <2>2 DEF emitEvent, Inv, Typed
    <2>4. events' \in [Event -> Nat]
      BY <2>3, CountTyped
    <2>5. claims[k].status = "released"
      BY <1>1, <1>2, <1>6
    <2>6. ReleasesHappened'
      <3>1. SUFFICES ASSUME NEW x \in Entities, events'[<<"claim_released", x>>] > 0
                     PROVE  \E n \in DOMAIN claims :
                                claims[n] = [entity |-> x, status |-> "released"]
        BY <1>6 DEF ReleasesHappened
      <3>2. CASE x = claims[k].entity
        BY <1>4, <2>5, <3>2 DEF Claim
      <3>3. CASE x # claims[k].entity
        <4>1. PICK f : f = <<"claim_released", x>>
          OBVIOUS
        <4>2. f \in Event /\ f # e
          BY <2>2, <3>3, <4>1 DEF Event
        <4>3. events'[f] = events[f]
          BY <2>3, <4>2
        <4>4. QED BY <3>1, <4>1, <4>3 DEF Inv, ReleasesHappened
      <3>4. QED BY <3>2, <3>3
    <2>7. Sound(j)'
      BY <1>6, <2>1 DEF Sound, Releasing, Programming
    <2>8. Grows
      BY <1>3, <1>6 DEF Grows, There
    <2>9. Typed' /\ SessionEndsWhenClosed'
      BY <1>3, <1>6, <2>1, <2>4 DEF Inv, Typed, SessionEndsWhenClosed
    <2>10. QED BY <2>1, <2>6, <2>7, <2>8, <2>9, OneStep
  <1>7. QED BY <1>5, <1>6 DEF ReleaseWrite

LEMMA StopInv ==
    ASSUME Inv, NEW p \in Processes, Stop(p)
    PROVE  Inv'
  BY ErrorInv DEF Stop

-----------------------------------------------------------------------------
(* The invariant *)

LEMMA InitInv == Init => Inv
  <1> SUFFICES ASSUME Init PROVE Inv
    OBVIOUS
  <1>1. \A p \in Processes : job[p] = Idle
    BY DEF Init
  <1>2. Sound(Idle)
    BY DEF Idle, Sound, Releasing, Programming
  <1>3. \A p \in Processes : Sound(job[p])
    BY <1>1, <1>2 DEF Sound, Releasing, Programming
  <1>4. ReleasesHappened /\ SessionEndsWhenClosed
    <2>1. \A x \in Entities : events[<<"claim_released", x>>] = 0
      BY DEF Init, Event
    <2>2. ASSUME NEW x \in Entities PROVE ~(events[<<"claim_released", x>>] > 0)
      <3>1. events[<<"claim_released", x>>] = 0
        BY <2>1
      <3>2. QED BY <3>1
    <2>3. ReleasesHappened
      BY <2>2 DEF ReleasesHappened
    <2>4. QED BY <2>3 DEF Init, SessionEndsWhenClosed
  <1>5. bindings \in Seq(Binding)
    <2>1. PICK row \in Binding : row = [credential |-> Null, status |-> "active"]
      BY DEF Binding, Null, Credentials
    <2>2. bindings = <<>> \/ bindings = <<row>>
      BY <2>1 DEF Init
    <2>3. <<>> \in Seq(Binding) /\ <<row>> \in Seq(Binding)
      OBVIOUS
    <2>4. QED BY <2>2, <2>3
  <1>6. job \in [Processes -> Job]
    BY IdleTyped DEF Init
  <1>7. Typed
    BY <1>5, <1>6 DEF Init, Typed, Rows, Contracts
  <1>8. QED BY <1>3, <1>4, <1>7 DEF Inv

LEMMA NextInv == Inv /\ [Next]_vars => Inv'
  <1> SUFFICES ASSUME Inv, [Next]_vars PROVE Inv'
    OBVIOUS
  <1>1. CASE supersedeContract
    BY <1>1, supersedeContractInv
  <1>2. ASSUME NEW p \in Processes,
               \/ StartInit(p) \/ StartImport(p) \/ StartUpdate(p) \/ StartBind(p)
               \/ StartSession(p) \/ StartClaim(p) \/ StartReport(p) \/ StartSignal(p)
        PROVE  Inv'
    BY <1>2, StartsInv
  <1>3. ASSUME NEW p \in Processes,
               \/ Stop(p) \/ InitFind(p) \/ InitMake(p) \/ Resolve(p) \/ Import(p)
        PROVE  Inv'
    BY <1>3, StopInv, InitFindInv, InitMakeInv, ResolveInv, ImportInv
  <1>4. ASSUME NEW p \in Processes,
               \/ UpdateRead(p) \/ BindCheck(p) \/ OpenCheck(p) \/ SessionRead(p)
               \/ heartbeatActorSession(p) \/ ReportCheck(p)
        PROVE  Inv'
    BY <1>4, ChecksInv
  <1>5. ASSUME NEW p \in Processes,
               \/ UpdateWrite(p) \/ BindWrite(p) \/ openActorSession(p)
               \/ closeActorSession(p) \/ acquireClaim(p) \/ ReleaseRead(p)
               \/ ReleaseWrite(p) \/ RecordWrite(p)
        PROVE  Inv'
    BY <1>5, UpdateWriteInv, BindWriteInv, SessionInv, acquireClaimInv, ReleaseReadInv,
       ReleaseWriteInv, RecordWriteInv
  <1>6. CASE UNCHANGED vars
    <2>1. UNCHANGED <<made, contract, bindings, actor, session, claims, records, events, job>>
      BY <1>6 DEF vars, provision, tables
    <2>2. Grows
      BY <2>1 DEF Grows, There
    <2>3. Typed' /\ ReleasesHappened' /\ SessionEndsWhenClosed'
      BY <2>1 DEF Inv, Typed, ReleasesHappened, SessionEndsWhenClosed
    <2>4. ASSUME NEW p \in Processes PROVE Sound(job[p])'
      <3>1. PICK j \in Job : j = job[p] /\ Sound(j)
        BY JobTyped
      <3>2. Sound(j)'
        BY <2>2, <3>1, SoundKept
      <3>3. QED BY <2>1, <3>1, <3>2
    <2>5. QED BY <2>3, <2>4 DEF Inv
  <1>7. QED BY <1>1, <1>2, <1>3, <1>4, <1>5, <1>6 DEF Next

LEMMA Invariance == Spec => []Inv
  <1>1. QED BY InitInv, NextInv, PTL DEF Spec

-----------------------------------------------------------------------------
(* Releases answered and releases recorded *)

Accounted ==
    \A x \in Entities : Cardinality(Released(x)) <= events[<<"claim_released", x>>]

\* The processes answered ok stay those, but for one at most, and then the count of
\* events grows.
LEMMA AccountedKept ==
    ASSUME Inv, Inv', Accounted, NEW more \in [Entities -> SUBSET Processes],
           \A x \in Entities :
               /\ Released(x)' \subseteq Released(x) \cup more[x]
               /\ \/ /\ more[x] = {}
                     /\ events'[<<"claim_released", x>>] = events[<<"claim_released", x>>]
                  \/ /\ \E p \in Processes : more[x] = {p}
                     /\ events'[<<"claim_released", x>>] = events[<<"claim_released", x>>] + 1
    PROVE  Accounted'
  <1> SUFFICES ASSUME NEW x \in Entities
               PROVE  Cardinality(Released(x)') <= events'[<<"claim_released", x>>]
    BY DEF Accounted
  <1>1. IsFiniteSet(Released(x)) /\ Released(x) \subseteq Processes
    BY FS_Subset, ParticipationAssumption DEF Released
  <1>2. /\ Cardinality(Released(x)) \in Nat
        /\ Cardinality(Released(x)) <= events[<<"claim_released", x>>]
    BY <1>1, FS_CardinalityType DEF Accounted
  <1>3. <<"claim_released", x>> \in Event
    BY DEF Event
  <1>4. events[<<"claim_released", x>>] \in Nat
    BY <1>3 DEF Inv, Typed
  <1>5. CASE more[x] = {} /\ events'[<<"claim_released", x>>] = events[<<"claim_released", x>>]
    <2>1. Released(x)' \subseteq Released(x)
      BY <1>5
    <2>2. Cardinality(Released(x)') <= Cardinality(Released(x)) /\ IsFiniteSet(Released(x)')
      BY <1>1, <2>1, FS_Subset
    <2>3. QED BY <1>2, <1>4, <1>5, <2>2, FS_CardinalityType
  <1>6. CASE /\ \E p \in Processes : more[x] = {p}
             /\ events'[<<"claim_released", x>>] = events[<<"claim_released", x>>] + 1
    <2>1. PICK p \in Processes : Released(x)' \subseteq Released(x) \cup {p}
      BY <1>6
    <2>2. /\ IsFiniteSet(Released(x) \cup {p})
          /\ Cardinality(Released(x) \cup {p}) <= Cardinality(Released(x)) + 1
      <3>1. /\ IsFiniteSet(Released(x) \cup {p})
            /\ Cardinality(Released(x) \cup {p}) =
                   IF p \in Released(x) THEN Cardinality(Released(x))
                   ELSE Cardinality(Released(x)) + 1
        BY <1>1, FS_AddElement
      <3>2. QED BY <1>2, <3>1
    <2>3. /\ IsFiniteSet(Released(x)')
          /\ Cardinality(Released(x)') <= Cardinality(Released(x) \cup {p})
      BY <2>1, <2>2, FS_Subset
    <2>4. QED BY <1>2, <1>4, <1>6, <2>2, <2>3, FS_CardinalityType
  <1>7. QED BY <1>5, <1>6

\* A step after which its process has no release answered ok, and that writes no event of
\* a release.
LEMMA Unanswered ==
    ASSUME Inv, Inv', Accounted, NEW p \in Processes,
           \A q \in Processes \ {p} : job'[q] = job[q],
           job'[p].op # "release" \/ job'[p].reply # "ok",
           \A k \in DOMAIN claims : claims'[k].entity = claims[k].entity,
           \A x \in Entities : events'[<<"claim_released", x>>] = events[<<"claim_released", x>>]
    PROVE  Accounted'
  <1>1. ASSUME NEW x \in Entities, NEW q \in Released(x)' PROVE q \in Released(x)
    <2>1. q \in Processes \ {p} /\ job'[q] = job[q]
      BY <1>1 DEF Released
    <2>2. job[q].op = "release" /\ job[q].reply = "ok" /\ claims'[job[q].row].entity = x
      BY <1>1, <2>1 DEF Released
    <2>3. job[q].row \in DOMAIN claims
      BY <2>1, <2>2, JobTyped DEF Sound, Releasing
    <2>4. QED BY <2>1, <2>2, <2>3 DEF Released
  <1>2. PICK more : more = [x \in Entities |-> {}]
    OBVIOUS
  <1>3. more \in [Entities -> SUBSET Processes] /\ \A x \in Entities : more[x] = {}
    BY <1>2
  <1>4. QED BY <1>1, <1>3, AccountedKept

\* What becomes of the record of a process whose answer is not that of a release.
LEMMA AnswerOther ==
    ASSUME Inv, NEW p \in Processes, NEW reply \in {"ok", "error"}, Answer(p, reply),
           job[p].op # "release" \/ reply = "error"
    PROVE  /\ \A q \in Processes \ {p} : job'[q] = job[q]
           /\ job'[p].op # "release" \/ job'[p].reply # "ok"
  <1>1. PICK j \in Job : job' = [job EXCEPT ![p] = j] /\ j.op = job[p].op /\ j.reply = reply
    BY AnswerRecord
  <1>2. job'[p] = j /\ \A q \in Processes \ {p} : job'[q] = job[q]
    BY <1>1 DEF Inv, Typed
  <1>3. QED BY <1>1, <1>2

LEMMA GotoOther ==
    ASSUME Inv, NEW p \in Processes, NEW pc \in Pcs, Goto(p, pc), job[p].pc # "idle"
    PROVE  /\ \A q \in Processes \ {p} : job'[q] = job[q]
           /\ job'[p].op # "release" \/ job'[p].reply # "ok"
  <1>1. PICK j \in Job : job' = [job EXCEPT ![p] = j] /\ j.reply = job[p].reply
    BY GotoRecord
  <1>2. job'[p] = j /\ \A q \in Processes \ {p} : job'[q] = job[q]
    BY <1>1 DEF Inv, Typed
  <1>3. job[p].reply = "none"
    BY JobTyped DEF Sound
  <1>4. QED BY <1>1, <1>2, <1>3

\* The steps that go on with a program leave it one.
LEMMA AdvanceOther ==
    ASSUME Inv, NEW p \in Processes, NEW order, NEW failed, Advance(p, order, failed),
           job[p].op # "release"
    PROVE  /\ \A q \in Processes \ {p} : job'[q] = job[q]
           /\ job'[p].op # "release" \/ job'[p].reply # "ok"
  BY JobTyped DEF Advance, Inv, Typed, Job

LEMMA CallOther ==
    ASSUME Inv, NEW p \in Processes, NEW pc, NEW args \in Job, Call(p, pc, args),
           args.reply = "none"
    PROVE  /\ \A q \in Processes \ {p} : job'[q] = job[q]
           /\ job'[p].op # "release" \/ job'[p].reply # "ok"
  BY DEF Call, Inv, Typed, Job

LEMMA StartsAccounted ==
    ASSUME Inv, Inv', Accounted, NEW p \in Processes,
           \/ StartInit(p) \/ StartImport(p) \/ StartUpdate(p) \/ StartBind(p)
           \/ StartSession(p) \/ StartClaim(p) \/ StartReport(p) \/ StartSignal(p)
    PROVE  Accounted'
  <1>1. ASSUME NEW pc, NEW args \in Job, Call(p, pc, args), args.reply = "none"
        PROVE  Accounted'
    <2>1. UNCHANGED <<claims, events>>
      BY <1>1 DEF Call, tables
    <2>2. QED BY <1>1, <2>1, CallOther, Unanswered
  <1>2. ASSUME NEW op \in Ops, NEW pc, Call(p, pc, [Idle EXCEPT !.op = op])
        PROVE  Accounted'
    <2>1. PICK args : args = [Idle EXCEPT !.op = op]
      OBVIOUS
    <2>2. args \in Job /\ args.reply = "none"
      BY <2>1, IdleTyped DEF Idle, Job
    <2>3. QED BY <1>1, <1>2, <2>1, <2>2
  <1>3. ASSUME StartUpdate(p) PROVE Accounted'
    <2>1. PICK st \in {"same", "active", "inactive"} :
            Call(p, "update_read", [Idle EXCEPT !.op = "update", !.status = st])
      BY <1>3 DEF StartUpdate
    <2>2. PICK args : args = [Idle EXCEPT !.op = "update", !.status = st]
      OBVIOUS
    <2>3. args \in Job /\ args.reply = "none"
      BY <2>2, IdleTyped DEF Idle, Job, Ops
    <2>4. QED BY <1>1, <2>1, <2>2, <2>3
  <1>4. ASSUME StartBind(p) PROVE Accounted'
    <2>1. PICK c \in Credentials, st \in {"active", "inactive"} :
            Call(p, "bind_check", [Idle EXCEPT !.op = "bind", !.credential = c,
                                               !.status = st])
      BY <1>4 DEF StartBind
    <2>2. PICK args : args = [Idle EXCEPT !.op = "bind", !.credential = c, !.status = st]
      OBVIOUS
    <2>3. args \in Job /\ args.reply = "none"
      BY <2>2, IdleTyped DEF Idle, Job, Ops
    <2>4. QED BY <1>1, <2>1, <2>2, <2>3
  <1>5. ASSUME NEW k \in DOMAIN claims,
               Call(p, "release_read", [Idle EXCEPT !.op = "release", !.row = k])
        PROVE  Accounted'
    <2>1. k \in Nat
      BY DEF Inv, Typed
    <2>2. PICK args : args = [Idle EXCEPT !.op = "release", !.row = k]
      OBVIOUS
    <2>3. args \in Job /\ args.reply = "none"
      BY <2>1, <2>2, IdleTyped DEF Idle, Job, Ops
    <2>4. QED BY <1>1, <1>5, <2>2, <2>3
  <1>6. CASE \/ StartInit(p) \/ StartImport(p) \/ StartSession(p) \/ StartReport(p)
             \/ StartSignal(p)
    BY <1>2, <1>6 DEF StartInit, StartImport, StartSession, StartReport, StartSignal, Ops
  <1>7. CASE StartClaim(p)
    BY <1>2, <1>5, <1>7 DEF StartClaim, Ops
  <1>8. QED BY <1>3, <1>4, <1>6, <1>7

LEMMA ProvisioningAccounted ==
    ASSUME Inv, Inv', Accounted, NEW p \in Processes,
           InitFind(p) \/ InitMake(p) \/ Resolve(p) \/ Import(p)
    PROVE  Accounted'
  <1>1. /\ UNCHANGED <<claims, events>> /\ job[p].pc # "idle"
        /\ job[p].op # "release"
    <2>1. job[p].pc \in {"find", "make", "resolve", "import"} /\ UNCHANGED <<claims, events>>
      BY DEF InitFind, InitMake, Resolve, Import, tables
    <2>2. QED BY <2>1, JobTyped DEF Sound, Phase
  <1>2. CASE Answer(p, "error")
    BY <1>1, <1>2, AnswerOther, Unanswered
  <1>3. CASE Goto(p, "make") \/ Goto(p, "import")
    BY <1>1, <1>3, GotoOther, Unanswered DEF Pcs
  <1>4. ASSUME NEW order, NEW failed, Advance(p, order, failed) PROVE Accounted'
    BY <1>1, <1>4, AdvanceOther, Unanswered
  <1>5. QED BY <1>2, <1>3, <1>4 DEF InitFind, InitMake, Resolve, Import

LEMMA ChecksAccounted ==
    ASSUME Inv, Inv', Accounted, NEW p \in Processes,
           \/ UpdateRead(p) \/ BindCheck(p) \/ OpenCheck(p) \/ SessionRead(p)
           \/ ReportCheck(p) \/ ReleaseRead(p) \/ Stop(p)
    PROVE  Accounted'
  <1>1. UNCHANGED <<claims, events>> /\ job[p].pc # "idle"
    BY DEF UpdateRead, BindCheck, OpenCheck, SessionRead, ReportCheck, ReleaseRead, Stop, tables
  <1>2. CASE Answer(p, "error")
    BY <1>1, <1>2, AnswerOther, Unanswered
  <1>3. ASSUME NEW pc \in Pcs, Goto(p, pc) PROVE Accounted'
    BY <1>1, <1>3, GotoOther, Unanswered
  <1>4. CASE UpdateRead(p)
    <2>1. CASE job' = [job EXCEPT ![p].pc = "update_write", ![p].seen = actor]
      <3>1. job'[p].op = "update" /\ \A q \in Processes \ {p} : job'[q] = job[q]
        <4>1. job[p].op = "update" /\ job[p] \in Job
          BY <1>4, OpOfPc, JobTyped DEF UpdateRead
        <4>2. PICK j : j = [job[p] EXCEPT !.pc = "update_write", !.seen = actor]
          OBVIOUS
        <4>3. j.op = "update"
          BY <4>1, <4>2 DEF Job
        <4>4. job' = [job EXCEPT ![p] = j]
          BY <2>1, <4>2
        <4>5. QED BY <4>3, <4>4 DEF Inv, Typed
      <3>2. QED BY <1>1, <3>1, Unanswered
    <2>2. QED BY <1>2, <1>4, <2>1 DEF UpdateRead
  <1>5. QED BY <1>2, <1>3, <1>4
            DEF BindCheck, OpenCheck, SessionRead, ReportCheck, ReleaseRead, Stop, Pcs

LEMMA WritesAccounted ==
    ASSUME Inv, Inv', Accounted, NEW p \in Processes,
           \/ UpdateWrite(p) \/ BindWrite(p) \/ openActorSession(p)
           \/ heartbeatActorSession(p) \/ closeActorSession(p)
    PROVE  Accounted'
  <1>1. UNCHANGED <<claims, events>> /\ Answer(p, "ok")
    BY DEF UpdateWrite, BindWrite, openActorSession, heartbeatActorSession, closeActorSession,
           tables
  <1>2. job[p].op # "release"
    BY OpOfPc DEF UpdateWrite, BindWrite, openActorSession, heartbeatActorSession,
                  closeActorSession
  <1>3. QED BY <1>1, <1>2, AnswerOther, Unanswered

LEMMA RecordsAccounted ==
    ASSUME Inv, Inv', Accounted, NEW p \in Processes, acquireClaim(p) \/ RecordWrite(p)
    PROVE  Accounted'
  <1>1. job[p].op # "release" /\ job[p] \in Job /\ job[p].pc # "idle"
    BY OpOfPc, JobTyped DEF acquireClaim, RecordWrite
  <1>2. \A k \in DOMAIN claims : claims'[k].entity = claims[k].entity
    <2>1. claims \in Seq(Claim)
      BY DEF Inv, Typed
    <2>2. CASE claims' = claims
      BY <2>2
    <2>3. CASE \E x \in Entities : claims' = Append(claims, [entity |-> x, status |-> "active"])
      BY <2>1, <2>3
    <2>4. QED BY <2>2, <2>3 DEF acquireClaim, RecordWrite
  <1>3. \A x \in Entities : events'[<<"claim_released", x>>] = events[<<"claim_released", x>>]
    <2>1. CASE UNCHANGED events
      BY <2>1
    <2>2. CASE emitEvent("claim_acquired", claims[job[p].row].entity)
      BY <2>2, EventApart DEF Inv
    <2>3. CASE RecordWrite(p) /\ emitEvent(job[p].op, job[p].row)
      BY <2>3, OpOfPc, EventApart DEF Inv, RecordWrite
    <2>4. QED BY <2>1, <2>2, <2>3 DEF acquireClaim, RecordWrite
  <1>4. CASE Answer(p, "ok")
    BY <1>1, <1>2, <1>3, <1>4, AnswerOther, Unanswered
  <1>5. ASSUME NEW pc, NEW row, job' = [job EXCEPT ![p].pc = pc, ![p].row = row]
        PROVE  Accounted'
    <2>1. job'[p].op # "release" /\ \A q \in Processes \ {p} : job'[q] = job[q]
      BY <1>1, <1>5 DEF Inv, Typed, Job
    <2>2. QED BY <1>2, <1>3, <2>1, Unanswered
  <1>6. QED BY <1>4, <1>5 DEF acquireClaim, RecordWrite

LEMMA ReleaseAccounted ==
    ASSUME Inv, Inv', Accounted, NEW p \in Processes, ReleaseWrite(p)
    PROVE  Accounted'
  <1>1. /\ job[p] \in Job /\ job[p].op = "release" /\ job[p].pc # "idle"
        /\ job[p].row \in DOMAIN claims /\ claims \in Seq(Claim)
    BY OpOfPc, JobTyped DEF ReleaseWrite, Sound, Releasing, Inv, Typed
  <1>2. CASE /\ Goto(p, "release_event") /\ UNCHANGED events
             /\ claims' = [claims EXCEPT ![job[p].row].status = "released"]
    <2>1. \A k \in DOMAIN claims : claims'[k].entity = claims[k].entity
      BY <1>1, <1>2 DEF Claim
    <2>2. QED BY <1>1, <1>2, <2>1, GotoOther, Unanswered DEF Pcs
  <1>3. CASE /\ Answer(p, "ok") /\ UNCHANGED claims
             /\ emitEvent("claim_released", claims[job[p].row].entity)
    <2>1. PICK j \in Job : job' = [job EXCEPT ![p] = j] /\ j.row = job[p].row
      BY <1>3, AnswerRecord
    <2>2. job'[p].row = job[p].row /\ \A q \in Processes \ {p} : job'[q] = job[q]
      BY <2>1 DEF Inv, Typed
    <2>3. PICK y \in Entities : y = claims[job[p].row].entity
      <3>1. claims[job[p].row] \in Claim
        BY <1>1
      <3>2. QED BY <3>1 DEF Claim
    <2>4. PICK more : more = [x \in Entities |-> IF x = y THEN {p} ELSE {}]
      OBVIOUS
    <2>5. more \in [Entities -> SUBSET Processes]
      BY <2>4
    <2>6. PICK e : e = <<"claim_released", y>>
      OBVIOUS
    <2>7. events \in [Event -> Nat] /\ events' = [events EXCEPT ![e] = @ + 1] /\ e \in Event
      BY <1>3, <2>3, <2>6 DEF emitEvent, Inv, Typed, Event
    <2>8. ASSUME NEW x \in Entities
          PROVE  Released(x)' \subseteq Released(x) \cup more[x]
      <3>1. ASSUME NEW q \in Released(x)', q # p PROVE q \in Released(x)
        BY <1>3, <2>2, <3>1 DEF Released
      <3>2. p \in Released(x)' => x = y
        BY <1>3, <2>2, <2>3 DEF Released
      <3>3. QED BY <2>4, <3>1, <3>2
    <2>9. ASSUME NEW x \in Entities, x # y
          PROVE  events'[<<"claim_released", x>>] = events[<<"claim_released", x>>]
      <3>1. PICK f : f = <<"claim_released", x>>
        OBVIOUS
      <3>2. f # e
        BY <2>6, <2>9, <3>1
      <3>3. f \in Event
        BY <3>1 DEF Event
      <3>4. events'[f] = events[f]
        BY <2>7, <3>2, <3>3
      <3>5. QED BY <3>1, <3>4
    <2>10. events'[<<"claim_released", y>>] = events[<<"claim_released", y>>] + 1
      <3>1. events'[e] = events[e] + 1
        BY <2>7
      <3>2. QED BY <2>6, <3>1
    <2>11. QED BY <2>4, <2>5, <2>8, <2>9, <2>10, AccountedKept
  <1>4. QED BY <1>2, <1>3 DEF ReleaseWrite

LEMMA QuietAccounted ==
    ASSUME Inv, Inv', Accounted, UNCHANGED <<claims, events, job>>
    PROVE  Accounted'
  <1>1. \A x \in Entities : Released(x)' = Released(x)
    BY DEF Released
  <1>2. QED BY <1>1 DEF Accounted

LEMMA NextAccounted == Inv /\ Inv' /\ Accounted /\ [Next]_vars => Accounted'
  <1> SUFFICES ASSUME Inv, Inv', Accounted, [Next]_vars PROVE Accounted'
    OBVIOUS
  <1>1. CASE supersedeContract \/ UNCHANGED vars
    <2>1. UNCHANGED <<claims, events, job>>
      BY <1>1 DEF supersedeContract, vars, tables
    <2>2. QED BY <2>1, QuietAccounted
  <1>2. ASSUME NEW p \in Processes,
               \/ StartInit(p) \/ StartImport(p) \/ StartUpdate(p) \/ StartBind(p)
               \/ StartSession(p) \/ StartClaim(p) \/ StartReport(p) \/ StartSignal(p)
        PROVE  Accounted'
    BY <1>2, StartsAccounted
  <1>3. ASSUME NEW p \in Processes, InitFind(p) \/ InitMake(p) \/ Resolve(p) \/ Import(p)
        PROVE  Accounted'
    BY <1>3, ProvisioningAccounted
  <1>4. ASSUME NEW p \in Processes,
               \/ UpdateRead(p) \/ BindCheck(p) \/ OpenCheck(p) \/ SessionRead(p)
               \/ ReportCheck(p) \/ ReleaseRead(p) \/ Stop(p)
        PROVE  Accounted'
    BY <1>4, ChecksAccounted
  <1>5. ASSUME NEW p \in Processes,
               \/ UpdateWrite(p) \/ BindWrite(p) \/ openActorSession(p)
               \/ heartbeatActorSession(p) \/ closeActorSession(p)
               \/ acquireClaim(p) \/ RecordWrite(p) \/ ReleaseWrite(p)
        PROVE  Accounted'
    BY <1>5, WritesAccounted, RecordsAccounted, ReleaseAccounted
  <1>6. QED BY <1>1, <1>2, <1>3, <1>4, <1>5 DEF Next

LEMMA Accounting == Spec => []Accounted
  <1>1. Init => Accounted
    <2> SUFFICES ASSUME Init, NEW x \in Entities
                 PROVE  Cardinality(Released(x)) <= events[<<"claim_released", x>>]
      BY DEF Accounted
    <2>1. Released(x) = {}
      BY DEF Init, Released, Idle
    <2>2. <<"claim_released", x>> \in Event
      BY DEF Event
    <2>3. events[<<"claim_released", x>>] = 0
      BY <2>2 DEF Init
    <2>4. QED BY <2>1, <2>3, FS_EmptySet
  <1>2. QED BY <1>1, Invariance, NextAccounted, PTL DEF Spec

-----------------------------------------------------------------------------
(* The theorems *)

\* `cml init' and `cml contract import' leave nothing of their sequences out where they
\* answer ok, however many runs of them, complete or not, came before or run beside them.
THEOREM ProgramsAreComplete == Spec => []ProgramsComplete
  <1>1. Inv => ProgramsComplete
    <2> SUFFICES ASSUME Inv, NEW p \in Processes, job[p].reply = "ok"
                 PROVE  /\ job[p].op = "init" => \A k \in DOMAIN InitOrder : There(InitOrder[k])
                        /\ job[p].op = "import" =>
                               \A k \in DOMAIN ImportOrder : There(ImportOrder[k])
      BY DEF ProgramsComplete
    <2>1. Programming(job[p])
      BY JobTyped DEF Sound
    <2>2. QED BY <2>1, Orders DEF Programming, Done
  <1>2. QED BY <1>1, Invariance, PTL

\* releaseClaim marks the claim before it writes the event, and claims stay released: the
\* releases that were answered ok have each an event of the claimed entity, and an event
\* that an entity was released is of one with a released claim.
THEOREM ReleasesAreRecorded == Spec => []ReleasesRecorded
  <1>1. Inv /\ Accounted => ReleasesRecorded
    BY DEF Inv, ReleasesHappened, Accounted, ReleasesRecorded
  <1>2. QED BY <1>1, Invariance, Accounting, PTL

\* openActorSession clears the end of the session it opens again, closeActorSession sets
\* it: a session has an end if and only if it is closed.
THEOREM SessionsEnd == Spec => []SessionEndsWhenClosed
  <1>1. Inv => SessionEndsWhenClosed
    BY DEF Inv
  <1>2. QED BY <1>1, Invariance, PTL

\* updateActor writes the status it was given or the one it read; nothing else, not even
\* registerActor, makes an inactive actor active.
THEOREM Reactivation == Spec => ReactivatedKnowingly
  <1> DEFINE Knowingly == actor = "inactive" /\ actor' = "active" =>
          \E p \in Processes : /\ job[p].pc = "update_write" /\ job'[p].pc = "idle"
                               /\ job[p].status = "active"
                                  \/ (job[p].status = "same" /\ job[p].seen = "active")
  <1>1. Inv /\ [Next]_vars => [Knowingly]_vars
    <2> SUFFICES ASSUME Inv, [Next]_vars, actor = "inactive", actor' = "active"
                 PROVE  Knowingly
      OBVIOUS
    <2> HIDE DEF Knowingly
    <2>1. ASSUME NEW p \in Processes, UpdateWrite(p) PROVE Knowingly
      <3>1. job[p] \in Job /\ job[p].pc = "update_write" /\ Answer(p, "ok")
        BY <2>1, JobTyped DEF UpdateWrite
      <3>2. job'[p].pc = "idle"
        BY <3>1, AnswerRecord DEF Inv, Typed
      <3>3. \/ job[p].status = "active"
            \/ job[p].status = "same" /\ job[p].seen = "active"
        BY <2>1 DEF UpdateWrite
      <3>4. QED BY <3>1, <3>2, <3>3 DEF Knowingly
    <2>2. ASSUME NEW p \in Processes, InitMake(p) PROVE Knowingly
      <3>1. PICK n \in 1..7 : n = job[p].at
        BY <2>2, JobTyped DEF InitMake, Sound, Phase, Job, Ops, Programming
      <3>2. CASE Accepted(InitOrder[n]) /\ Write(InitOrder[n])
        <4>1. actor' = actor \/ actor = "none"
          BY <3>2, OrdersThings, WriteProvisions
        <4>2. QED BY <4>1
      <3>3. QED BY <2>2, <3>1, <3>2 DEF InitMake
    <2>3. ASSUME NEW p \in Processes, Import(p) PROVE Knowingly
      <3>1. PICK n \in 1..2 : n = job[p].at
        BY <2>3, JobTyped DEF Import, Sound, Phase, Job, Ops, Programming
      <3>2. CASE Accepted(ImportOrder[n]) /\ Write(ImportOrder[n])
        <4>1. actor' = actor \/ actor = "none"
          BY <3>2, OrdersThings, WriteProvisions
        <4>2. QED BY <4>1
      <3>3. QED BY <2>3, <3>1, <3>2 DEF Import
    <2>4. CASE UNCHANGED actor
      BY <2>4
    <2>5. ASSUME NEW p \in Processes,
                 \/ StartInit(p) \/ StartImport(p) \/ StartUpdate(p) \/ StartBind(p)
                 \/ StartSession(p) \/ StartClaim(p) \/ StartReport(p) \/ StartSignal(p)
          PROVE  UNCHANGED actor
      BY <2>5 DEF StartInit, StartImport, StartUpdate, StartBind, StartSession, StartClaim,
                  StartReport, StartSignal, Call
    <2>6. ASSUME NEW p \in Processes,
                 \/ Stop(p) \/ InitFind(p) \/ Resolve(p) \/ UpdateRead(p) \/ BindCheck(p)
                 \/ BindWrite(p) \/ OpenCheck(p) \/ openActorSession(p) \/ SessionRead(p)
                 \/ heartbeatActorSession(p) \/ closeActorSession(p) \/ acquireClaim(p)
                 \/ ReleaseRead(p) \/ ReleaseWrite(p) \/ ReportCheck(p) \/ RecordWrite(p)
          PROVE  UNCHANGED actor
      BY <2>6 DEF Stop, InitFind, Resolve, UpdateRead, BindCheck, BindWrite, bindActorRole,
                  OpenCheck, openActorSession, SessionRead, heartbeatActorSession,
                  closeActorSession, acquireClaim, ReleaseRead, ReleaseWrite, ReportCheck,
                  RecordWrite
    <2>7. supersedeContract => UNCHANGED actor
      BY DEF supersedeContract
    <2>8. UNCHANGED vars => UNCHANGED actor
      BY DEF vars
    <2>9. QED BY <2>1, <2>2, <2>3, <2>4, <2>5, <2>6, <2>7, <2>8 DEF Next
  <1> HIDE DEF Knowingly
  <1>2. Spec => [][Knowingly]_vars
    BY <1>1, Invariance, PTL DEF Spec
  <1>3. QED BY <1>2 DEF ReactivatedKnowingly, Knowingly

=============================================================================
