--------------------------- MODULE HttpSurfaces_proofs --------------------------
(***************************************************************************)
(* Theorems about what the system serves over HTTP: the pilot OAuth issuer *)
(* of the public bridge (PilotOAuth) and the operator's pages              *)
(* (OperatorPages).  The two share no state.                               *)
(***************************************************************************)
EXTENDS PilotOAuth, OperatorPages, FiniteSetTheorems, TLAPS

-----------------------------------------------------------------------------
(***************************************************************************)
(* Theorems about PilotOAuth, for any number of bridge processes, clients  *)
(* and codes.  A code buys one pair of tokens, and a pair keeps the client *)
(* and the scope of its authorization through all rotations, whatever the  *)
(* processes do to each other's writes of the store file.  An              *)
(* authorization is worth one refresh token, and what was answered is in   *)
(* the file, as long as no two of them overlap in it.                      *)
(***************************************************************************)

\* A grant, or a token, has the client and scope of the code it goes back to.
Granted(g) == /\ g.root \in DOMAIN codes
              /\ g.client = codes[g.root].client
              /\ g.scope = codes[g.root].scope

\* The tokens of a store are granted, and were drawn.
Sound(store) == \A t \in store.tokens : Granted(t) /\ t.id <= tokens

Drawn(j) == \E t \in j.store.tokens : t.id \notin {x.id : x \in j.base.tokens}

\* What a process is about to write or to issue.
JobSound(j) ==
    /\ Sound(j.store)
    /\ j.pc # "idle" /\ j.kind \in {"rotate", "issue"} => Granted(j.grant)
    /\ j.pc = "issue" => j.kind = "issue"
    /\ j.pc \in {"truncate", "fill"} /\ j.kind = "issue" => Drawn(j)

GrantsKept ==
    /\ Sound(file)
    /\ \A p \in Processes : JobSound(job[p])
    /\ \A x \in pairs : Granted(x.token)

ByCode(n) == [kind |-> "code", id |-> n]

Buying(p, n) == job[p].pc # "idle" /\ job[p].grant.origin = ByCode(n)

\* A code is held by the one process that issued it; or on its way to its pair; or
\* spent.
SpentOnce ==
    \A n \in Nat \ {0} :
        /\ \A p, q \in Processes : n \in held[p] /\ n \in held[q] => p = q
        /\ \A p, q \in Processes : Buying(p, n) /\ Buying(q, n) => p = q
        /\ \A x, y \in pairs : x.origin = ByCode(n) /\ y.origin = ByCode(n) => x = y
        /\ \A p, q \in Processes : ~(n \in held[p] /\ Buying(q, n))
        /\ \A p \in Processes, x \in pairs : x.origin = ByCode(n) =>
               n \notin held[p] /\ ~Buying(p, n)
        /\ \A p \in Processes : n \in presented => n \notin held[p]
        /\ \A p \in Processes : Buying(p, n) => n \in DOMAIN codes
        /\ \A x \in pairs : x.origin = ByCode(n) => n \in DOMAIN codes

Inv == TypeOK /\ GrantsKept /\ SpentOnce

-----------------------------------------------------------------------------
(* Writes that do not overlap *)

\* The token an issuing process has drawn, as the one of its store that is new.
New(j) == CHOOSE t \in j.store.tokens : t.id \notin {x.id : x \in j.base.tokens}

Writing(p) == job[p].pc \in {"truncate", "fill"}
Pending(p) == job[p].pc # "idle" /\ job[p].kind = "issue"
Drawing(p) == Writing(p) /\ job[p].kind = "issue"

\* What a write makes of what it has read.
WriteOf(j) ==
    /\ j.kind = "register" => j.store.tokens = j.base.tokens /\ j.base.clients \subseteq j.store.clients
    /\ j.kind = "rotate" =>
         /\ j.store.clients = j.base.clients /\ j.grant.origin.kind = "refresh"
         /\ \E t \in j.base.tokens :
               /\ t.id = j.grant.origin.id /\ t.root = j.grant.root
               /\ j.store.tokens = {x \in j.base.tokens : x.id # t.id}
    /\ j.kind = "issue" =>
         /\ j.store.clients = j.base.clients
         /\ New(j) \in j.store.tokens /\ New(j).root = j.grant.root /\ New(j).id <= tokens
         /\ \A t \in j.store.tokens : t \in j.base.tokens \/ t = New(j)
         /\ \A t \in j.base.tokens : t \in j.store.tokens \/ t.expires <= now
    /\ j.kind # "none"

WritesKnown == \A p \in Processes : Writing(p) => WriteOf(job[p])

\* A root has one owner: the code that is held, the grant a token is to be issued for,
\* or the token in the store.  What was answered is in the store.
Owned(s) ==
    /\ registered \subseteq s.clients
    /\ \A x \in pairs : x.token \in s.tokens \/ x.token.expires <= now \/ x.token.id \in redeemed
    /\ \A t, u \in s.tokens : t.root = u.root => t = u
    /\ \A t \in s.tokens :
         /\ t.root \in DOMAIN codes /\ t.id <= tokens /\ t.id \notin redeemed
         /\ \A p \in Processes : t.root \notin held[p]
         /\ \A p \in Processes : Pending(p) => t.root # job[p].grant.root
         /\ \A p \in Processes : Drawing(p) => t.id # New(job[p]).id

\* A grant is on its way to one token in one process, and a token is redeemed by one.
GrantedOnce ==
    /\ \A p, q \in Processes : p # q /\ Pending(p) /\ Pending(q) =>
         job[p].grant.root # job[q].grant.root /\ job[p].grant.origin # job[q].grant.origin
    /\ \A p, q \in Processes : p # q /\ Drawing(p) /\ Drawing(q) => New(job[p]).id # New(job[q]).id
    /\ \A p \in Processes : Drawing(p) => New(job[p]).id \notin redeemed
    /\ \A p, q \in Processes : Pending(p) => job[p].grant.root \notin held[q]
    /\ \A p \in Processes, x \in pairs : Pending(p) => x.origin # job[p].grant.origin
    /\ \A p \in Processes : Pending(p) /\ job[p].grant.origin.kind = "refresh" =>
         job[p].grant.origin.id \in redeemed
    /\ \A x \in pairs : x.origin.kind = "refresh" => x.origin.id \in redeemed
    /\ \A x, y \in pairs : x.origin = y.origin => x = y
    /\ \A k \in redeemed : k <= tokens

\* As long as nothing has been disturbed: one process at a time is between truncating
\* the file and filling it, and it has read what the others would read.
Undisturbed ==
    ~disturbed =>
        /\ Readable => Owned(file)
        /\ \A p \in Processes : job[p].pc = "fill" => ~Readable /\ Owned(job[p].base)
        /\ \A p, q \in Processes : job[p].pc = "fill" /\ job[q].pc = "fill" => p = q
        /\ GrantedOnce

Known == WritesKnown /\ Undisturbed

-----------------------------------------------------------------------------
(* Types *)

LEMMA Bounds == /\ CodeTtl \in Nat /\ RefreshTtl \in Nat /\ MaxTime \in Nat
                /\ MaxCodes \in Nat /\ MaxTokens \in Nat
  BY PilotAssumption

LEMMA IdleTyped == Idle \in Job /\ NoGrant \in Grant /\ Empty \in Store
  <1>1. NoGrant \in Grant
    BY Bounds DEF NoGrant, Grant, Origin
  <1>2. Empty \in Store
    BY DEF Empty, Store
  <1>3. QED BY <1>1, <1>2 DEF Idle, Job

\* The number the next code gets is new.
LEMMA CodesNumbered ==
    ASSUME TypeOK
    PROVE  \E k \in 0..MaxCodes : /\ codes \in [1..k -> Code] /\ DOMAIN codes = 1..k
                                  /\ Cardinality(DOMAIN codes) = k
  <1>1. PICK k \in 0..MaxCodes : codes \in [1..k -> Code]
    BY DEF TypeOK
  <1>2. DOMAIN codes = 1..k /\ k \in Nat
    BY <1>1, Bounds
  <1>3. Cardinality(1..k) = k
    BY <1>2, FS_Interval
  <1>4. QED BY <1>1, <1>2, <1>3

LEMMA WriteTyped ==
    ASSUME TypeOK, NEW p \in Processes, NEW kind \in {"register", "rotate", "issue"},
           NEW store \in Store, NEW grant \in Grant, Readable, Write(p, kind, store, grant)
    PROVE  job' \in [Processes -> Job]
  <1>1. file \in Store
    BY DEF TypeOK, Readable
  <1>2. QED BY <1>1 DEF TypeOK, Write, Job

LEMMA IssueTyped ==
    ASSUME TypeOK, NEW p \in Processes, NEW grant \in Grant, Issue(p, grant)
    PROVE  job' \in [Processes -> Job]
  BY IdleTyped DEF TypeOK, Issue, Idle, Job

LEMMA RegisterType ==
    ASSUME TypeOK, NEW p \in Processes, Register(p)
    PROVE  TypeOK'
  <1>1. PICK c \in Clients, u \in Uris :
          /\ Readable /\ u \in AllowedUris
          /\ Write(p, "register", [file EXCEPT !.clients = @ \cup {[id |-> c, uri |-> u]}],
                   NoGrant)
    BY DEF Register
  <1>2. [file EXCEPT !.clients = @ \cup {[id |-> c, uri |-> u]}] \in Store
    BY <1>1 DEF TypeOK, Readable, Store, ClientRec
  <1>3. job' \in [Processes -> Job]
    BY <1>1, <1>2, IdleTyped, WriteTyped
  <1>4. QED BY <1>3 DEF Register, TypeOK

LEMMA AuthorizeType ==
    ASSUME TypeOK, NEW p \in Processes, Authorize(p)
    PROVE  /\ TypeOK'
           /\ \E n \in Nat \ {0} :
                 /\ n \notin DOMAIN codes /\ DOMAIN codes' = DOMAIN codes \cup {n}
                 /\ \A k \in DOMAIN codes : codes'[k] = codes[k]
                 /\ held' = [held EXCEPT ![p] = @ \cup {n}]
  <1>1. PICK k \in 0..MaxCodes : /\ codes \in [1..k -> Code] /\ DOMAIN codes = 1..k
                                 /\ Cardinality(DOMAIN codes) = k
    BY CodesNumbered
  <1> DEFINE n == Cardinality(DOMAIN codes) + 1
  <1>2. n = k + 1
    BY <1>1
  <1>3. PICK rec \in file.clients, v \in Verifiers, s \in Scopes :
          /\ Readable /\ s \in OwnScopes /\ n <= MaxCodes
          /\ codes' = [i \in 1..n |->
                          IF i = n THEN [client |-> rec.id, uri |-> rec.uri, verifier |-> v,
                                         scope |-> s, expires |-> now + CodeTtl]
                                   ELSE codes[i]]
          /\ held' = [held EXCEPT ![p] = @ \cup {n}]
    BY DEF Authorize
  <1> HIDE DEF n
  <1>4. k \in Nat /\ n \in Nat \ {0} /\ n \in 0..MaxCodes /\ 1..n = 1..k \cup {n} /\ n \notin 1..k
    <2>1. k \in Nat /\ n = k + 1 /\ n \in Nat \ {0} /\ n \in 0..MaxCodes
      BY <1>3, <1>2, Bounds
    <2>2. \A i : i \in 1..n <=> i \in 1..k \/ i = n
      BY <2>1
    <2>3. QED BY <2>1, <2>2
  <1>5. rec \in ClientRec /\ now + CodeTtl \in Nat
    BY <1>3, Bounds DEF TypeOK, Readable, Store
  <1>6. [client |-> rec.id, uri |-> rec.uri, verifier |-> v, scope |-> s,
         expires |-> now + CodeTtl] \in Code
    BY <1>3, <1>5, PilotAssumption DEF ClientRec, Code
  <1>7. /\ codes' \in [1..n -> Code] /\ DOMAIN codes' = 1..n
        /\ \A i \in 1..k : codes'[i] = codes[i]
    BY <1>1, <1>3, <1>4, <1>6
  <1>8. held' \in [Processes -> SUBSET DOMAIN codes'] /\ presented' \subseteq DOMAIN codes'
    BY <1>1, <1>3, <1>4, <1>7 DEF Authorize, TypeOK
  <1>9. TypeOK'
    BY <1>4, <1>7, <1>8 DEF Authorize, TypeOK
  <1>10. QED BY <1>1, <1>3, <1>4, <1>7, <1>9

LEMMA ExchangeType ==
    ASSUME TypeOK, NEW p \in Processes, Exchange(p)
    PROVE  TypeOK'
  <1>1. PICK n \in DOMAIN codes, c \in Clients :
          /\ presented' = IF n \in held[p] THEN presented \cup {n} ELSE presented
          /\ held' = [held EXCEPT ![p] = @ \ {n}]
          /\ \/ job' = job
             \/ Issue(p, [origin |-> ByCode(n), client |-> c, scope |-> codes[n].scope,
                          root |-> n])
    BY DEF Exchange, ByCode
  <1>2. PICK k \in 0..MaxCodes : codes \in [1..k -> Code] /\ DOMAIN codes = 1..k
    BY CodesNumbered
  <1>3. n \in 0..MaxCodes /\ n \in Nat /\ codes[n].scope \in OwnScopes
    BY <1>1, <1>2, Bounds DEF Code
  <1>4. [origin |-> ByCode(n), client |-> c, scope |-> codes[n].scope, root |-> n] \in Grant
    BY <1>3 DEF Grant, Origin, ByCode
  <1>5. job' \in [Processes -> Job]
    BY <1>1, <1>4, IssueTyped DEF TypeOK
  <1>6. held' \in [Processes -> SUBSET DOMAIN codes] /\ presented' \subseteq DOMAIN codes
    BY <1>1 DEF TypeOK
  <1>7. QED BY <1>5, <1>6 DEF Exchange, TypeOK

LEMMA RefreshType ==
    ASSUME TypeOK, NEW p \in Processes, Refresh(p)
    PROVE  TypeOK'
  <1>1. PICK t \in file.tokens, c \in Clients :
          /\ Readable
          /\ Write(p, "rotate", [file EXCEPT !.tokens = {x \in @ : x.id # t.id}],
                   [origin |-> [kind |-> "refresh", id |-> t.id], client |-> c,
                    scope |-> t.scope, root |-> t.root])
    BY DEF Refresh
  <1>2. file \in Store /\ t \in Token
    BY <1>1 DEF TypeOK, Readable, Store
  <1>3. [file EXCEPT !.tokens = {x \in @ : x.id # t.id}] \in Store
    BY <1>2 DEF Store
  <1>4. [origin |-> [kind |-> "refresh", id |-> t.id], client |-> c,
         scope |-> t.scope, root |-> t.root] \in Grant
    BY <1>2, Bounds DEF Grant, Origin, Token, TokenIds, CodeIds
  <1>5. job' \in [Processes -> Job]
    BY <1>1, <1>3, <1>4, WriteTyped
  <1>6. QED BY <1>5 DEF Refresh, TypeOK

\* What is drawn for a grant that goes back to a code.
Draw(g) == [id |-> tokens + 1, client |-> g.client, scope |-> g.scope,
            expires |-> now + RefreshTtl, root |-> g.root]

LEMMA DrawTyped ==
    ASSUME TypeOK, NEW g \in Grant, Granted(g), tokens < MaxTokens
    PROVE  Draw(g) \in Token
  <1>1. PICK k \in 0..MaxCodes : codes \in [1..k -> Code] /\ DOMAIN codes = 1..k
    BY CodesNumbered
  <1>2. /\ g.root \in CodeIds /\ g.client \in Clients /\ g.scope \in OwnScopes
    BY <1>1, Bounds DEF Granted, Code, CodeIds
  <1>3. tokens + 1 \in TokenIds /\ now + RefreshTtl \in Nat
    BY Bounds DEF TypeOK, TokenIds
  <1>4. QED BY <1>2, <1>3 DEF Draw, Token

LEMMA ReadToIssueType ==
    ASSUME TypeOK, GrantsKept, NEW p \in Processes, ReadToIssue(p)
    PROVE  TypeOK'
  <1> DEFINE g == job[p].grant
             store == [file EXCEPT !.tokens = {t \in @ : t.expires > now} \cup {Draw(g)}]
  <1>1. job[p] \in Job /\ g \in Grant /\ Granted(g)
    BY DEF TypeOK, GrantsKept, JobSound, ReadToIssue, Job
  <1>2. CASE Readable
    <2>1. tokens < MaxTokens /\ tokens' = tokens + 1 /\ Write(p, "issue", store, g)
      BY <1>2 DEF ReadToIssue, Draw
    <2>2. Draw(g) \in Token
      BY <1>1, <2>1, DrawTyped
    <2>3. store \in Store
      BY <1>2, <2>2 DEF TypeOK, Readable, Store
    <2> HIDE DEF store, g
    <2>4. job' \in [Processes -> Job]
      BY <1>1, <1>2, <2>1, <2>3, WriteTyped
    <2>5. tokens' \in 0..MaxTokens
      BY <2>1, Bounds DEF TypeOK
    <2>6. QED BY <2>4, <2>5 DEF ReadToIssue, TypeOK
  <1>3. CASE ~Readable
    <2>1. job' \in [Processes -> Job] /\ tokens' = tokens
      BY <1>3, IdleTyped DEF ReadToIssue, TypeOK
    <2>2. QED BY <2>1 DEF ReadToIssue, TypeOK
  <1>4. QED BY <1>2, <1>3

LEMMA TruncateType ==
    ASSUME TypeOK, NEW p \in Processes, Truncate(p)
    PROVE  TypeOK'
  <1>1. job' \in [Processes -> Job]
    BY DEF Truncate, TypeOK, Job
  <1>2. QED BY <1>1 DEF Truncate, TypeOK

LEMMA FillType ==
    ASSUME TypeOK, GrantsKept, NEW p \in Processes, Fill(p)
    PROVE  TypeOK'
  <1> DEFINE j == job[p]
  <1>1. /\ j \in Job /\ j.pc = "fill" /\ j.grant \in Grant /\ j.grant.origin \in Origin
        /\ j.grant.origin.id \in Nat /\ j.store \in Store
    BY DEF TypeOK, Fill, Job, Grant, Origin
  <1>2. job' \in [Processes -> Job]
    <2>1. CASE j.kind = "rotate"
      BY <1>1, <2>1, IssueTyped DEF Fill
    <2>2. CASE j.kind # "rotate"
      BY <2>2, IdleTyped DEF Fill, TypeOK
    <2>3. QED BY <2>1, <2>2
  <1>3. j.kind = "issue" => New(j) \in j.store.tokens
    BY <1>1 DEF GrantsKept, JobSound, Drawn, New
  <1>4. pairs' \subseteq Pair
    <2>1. CASE j.kind = "issue"
      <3>1. New(j) \in Token
        BY <1>1, <1>3, <2>1 DEF Store
      <3>2. [origin |-> j.grant.origin, token |-> New(j)] \in Pair
        BY <1>1, <3>1 DEF Pair
      <3>3. QED BY <2>1, <3>2 DEF Fill, TypeOK, New
    <2>2. CASE j.kind # "issue"
      BY <2>2 DEF Fill, TypeOK
    <2>3. QED BY <2>1, <2>2
  <1>5. registered' \subseteq ClientRec
    BY <1>1 DEF Fill, TypeOK, Store
  <1>6. redeemed' \subseteq Nat /\ file' \in Store /\ disturbed' \in BOOLEAN
    BY <1>1 DEF Fill, TypeOK
  <1>7. QED BY <1>2, <1>4, <1>5, <1>6 DEF Fill, TypeOK

LEMMA TickType == TypeOK /\ Tick => TypeOK'
  BY Bounds DEF TypeOK, Tick

LEMMA CrashType ==
    ASSUME TypeOK, NEW p \in Processes, Crash(p)
    PROVE  TypeOK'
  <1>1. job' \in [Processes -> Job] /\ held' \in [Processes -> SUBSET DOMAIN codes]
    BY IdleTyped DEF Crash, TypeOK
  <1>2. QED BY <1>1 DEF Crash, TypeOK

-----------------------------------------------------------------------------
(* Grants *)

\* Codes are added and keep what they say.
Extended == /\ DOMAIN codes \subseteq DOMAIN codes'
            /\ \A n \in DOMAIN codes : codes'[n] = codes[n]

LEMMA GrantsStep ==
    ASSUME TypeOK, TypeOK', GrantsKept, Extended, tokens <= tokens',
           \A q \in Processes : job'[q] = job[q] \/ JobSound(job[q])',
           file' = file \/ Sound(file)',
           \A x \in pairs' : x \in pairs \/ Granted(x.token)'
    PROVE  GrantsKept'
  <1>1. tokens \in Nat /\ tokens' \in Nat
    BY Bounds DEF TypeOK
  <1>2. ASSUME NEW g, Granted(g) PROVE Granted(g)'
    BY <1>2 DEF Granted, Extended
  <1>3. ASSUME NEW s \in Store \cup {Torn}, Sound(s) PROVE Sound(s)'
    <2>1. ASSUME NEW t \in s.tokens PROVE Granted(t)' /\ t.id <= tokens'
      <3>1. Granted(t) /\ t.id <= tokens /\ t.id \in Nat
        BY <1>3, <2>1, Bounds DEF Sound, Store, Torn, Token, TokenIds
      <3>2. QED BY <1>1, <1>2, <3>1
    <2>2. QED BY <2>1 DEF Sound
  <1>4. ASSUME NEW j \in Job, JobSound(j) PROVE JobSound(j)'
    <2>1. Sound(j.store)'
      BY <1>3, <1>4 DEF JobSound, Job
    <2>2. j.pc # "idle" /\ j.kind \in {"rotate", "issue"} => Granted(j.grant)'
      BY <1>2, <1>4 DEF JobSound
    <2>3. QED BY <1>4, <2>1, <2>2 DEF JobSound, Drawn
  <1>5. Sound(file)'
    <2>1. CASE file' = file
      <3>1. PICK s \in Store \cup {Torn} : s = file
        BY DEF TypeOK
      <3>2. Sound(s)'
        BY <1>3, <3>1 DEF GrantsKept
      <3>3. QED BY <2>1, <3>1, <3>2 DEF Sound
    <2>2. QED BY <2>1
  <1>6. ASSUME NEW q \in Processes PROVE JobSound(job[q])'
    <2>1. CASE job'[q] = job[q]
      <3>1. PICK j \in Job : j = job[q]
        BY DEF TypeOK
      <3>2. JobSound(j)'
        BY <1>4, <3>1 DEF GrantsKept
      <3>3. QED BY <2>1, <3>1, <3>2 DEF JobSound
    <2>2. QED BY <2>1
  <1>7. ASSUME NEW x \in pairs' PROVE Granted(x.token)'
    BY <1>2, <1>7 DEF GrantsKept
  <1>8. QED BY <1>5, <1>6, <1>7 DEF GrantsKept

\* In a step that issues no code.
LEMMA SameCodes ==
    ASSUME TypeOK, UNCHANGED codes, tokens' \in {tokens, tokens + 1}
    PROVE  Extended /\ tokens <= tokens'
  <1>1. Extended
    BY DEF Extended
  <1>2. tokens \in Nat
    BY Bounds DEF TypeOK
  <1>3. QED BY <1>1, <1>2

LEMMA RegisterGrants ==
    ASSUME Inv, NEW p \in Processes, Register(p)
    PROVE  GrantsKept'
  <1>1. TypeOK /\ TypeOK' /\ GrantsKept /\ Extended /\ tokens <= tokens'
    <2>1. TypeOK /\ GrantsKept
      BY DEF Inv
    <2>2. TypeOK'
      BY <2>1, RegisterType
    <2>3. UNCHANGED codes /\ tokens' \in {tokens, tokens + 1}
      BY DEF Register
    <2>4. QED BY <2>1, <2>2, <2>3, SameCodes
  <1>2. /\ job'[p].store.tokens = file.tokens /\ job'[p].pc = "truncate"
        /\ job'[p].kind = "register"
    BY <1>1 DEF Register, Write, TypeOK, Readable, Store
  <1>3. JobSound(job[p])'
    BY <1>1, <1>2 DEF JobSound, Sound, GrantsKept, Register, Granted
  <1>4. \A q \in Processes : q # p => job'[q] = job[q]
    BY <1>1 DEF Register, Write, TypeOK
  <1>5. QED BY <1>1, <1>3, <1>4, GrantsStep DEF Register

LEMMA AuthorizeGrants ==
    ASSUME Inv, NEW p \in Processes, Authorize(p)
    PROVE  GrantsKept'
  <1>1. TypeOK /\ TypeOK' /\ GrantsKept /\ Extended
    BY AuthorizeType DEF Inv, Extended
  <1>2. UNCHANGED <<file, job, tokens, pairs>> /\ tokens <= tokens'
    BY <1>1, Bounds DEF Authorize, TypeOK
  <1>3. QED BY <1>1, <1>2, GrantsStep

LEMMA ExchangeGrants ==
    ASSUME Inv, NEW p \in Processes, Exchange(p)
    PROVE  GrantsKept'
  <1>1. TypeOK /\ TypeOK' /\ GrantsKept /\ Extended /\ tokens <= tokens'
    <2>1. TypeOK /\ GrantsKept
      BY DEF Inv
    <2>2. TypeOK'
      BY <2>1, ExchangeType
    <2>3. UNCHANGED codes /\ tokens' \in {tokens, tokens + 1}
      BY DEF Exchange
    <2>4. QED BY <2>1, <2>2, <2>3, SameCodes
  <1>2. PICK n \in DOMAIN codes, c \in Clients :
          \/ job' = job
          \/ /\ codes[n].client = c
             /\ Issue(p, [origin |-> ByCode(n), client |-> c, scope |-> codes[n].scope,
                          root |-> n])
    BY DEF Exchange, ByCode
  <1>3. CASE job' = job
    BY <1>1, <1>3, GrantsStep DEF Exchange
  <1>4. CASE job' # job
    <2>1. /\ job'[p].pc = "issue" /\ job'[p].kind = "issue" /\ job'[p].store = Empty
          /\ job'[p].grant.root = n /\ job'[p].grant.client = codes[n].client
          /\ job'[p].grant.scope = codes[n].scope
      <3>1. job'[p] = [Idle EXCEPT !.pc = "issue", !.kind = "issue",
                                   !.grant = [origin |-> ByCode(n), client |-> c,
                                              scope |-> codes[n].scope, root |-> n]]
        BY <1>1, <1>2, <1>4 DEF Issue, TypeOK
      <3>2. codes[n].client = c
        BY <1>2, <1>4
      <3>3. QED BY <3>1, <3>2 DEF Idle
    <2>2. JobSound(job[p])'
      BY <2>1 DEF JobSound, Sound, Empty, Granted, Exchange
    <2>3. \A q \in Processes : q # p => job'[q] = job[q]
      BY <1>1, <1>2, <1>4 DEF Issue, TypeOK
    <2>4. QED BY <1>1, <2>2, <2>3, GrantsStep DEF Exchange
  <1>5. QED BY <1>3, <1>4

LEMMA RefreshGrants ==
    ASSUME Inv, NEW p \in Processes, Refresh(p)
    PROVE  GrantsKept'
  <1>1. TypeOK /\ TypeOK' /\ GrantsKept /\ Extended /\ tokens <= tokens'
    <2>1. TypeOK /\ GrantsKept
      BY DEF Inv
    <2>2. TypeOK'
      BY <2>1, RefreshType
    <2>3. UNCHANGED codes /\ tokens' \in {tokens, tokens + 1}
      BY DEF Refresh
    <2>4. QED BY <2>1, <2>2, <2>3, SameCodes
  <1>2. PICK t \in file.tokens, c \in Clients :
          /\ Readable /\ t.client = c
          /\ Write(p, "rotate", [file EXCEPT !.tokens = {x \in @ : x.id # t.id}],
                   [origin |-> [kind |-> "refresh", id |-> t.id], client |-> c,
                    scope |-> t.scope, root |-> t.root])
    BY DEF Refresh
  <1>3. file \in Store /\ Granted(t)
    BY <1>1, <1>2 DEF TypeOK, Readable, GrantsKept, Sound
  <1>4. /\ job'[p].pc = "truncate" /\ job'[p].kind = "rotate"
        /\ job'[p].store.tokens \subseteq file.tokens
        /\ job'[p].grant.root = t.root /\ job'[p].grant.client = t.client
        /\ job'[p].grant.scope = t.scope
    BY <1>1, <1>2, <1>3 DEF Write, TypeOK, Store
  <1>5. JobSound(job[p])'
    BY <1>1, <1>3, <1>4 DEF JobSound, Sound, GrantsKept, Granted, Refresh
  <1>6. \A q \in Processes : q # p => job'[q] = job[q]
    BY <1>1, <1>2 DEF Write, TypeOK
  <1>7. QED BY <1>1, <1>5, <1>6, GrantsStep DEF Refresh

LEMMA ReadToIssueGrants ==
    ASSUME Inv, NEW p \in Processes, ReadToIssue(p)
    PROVE  GrantsKept'
  <1>1. TypeOK /\ TypeOK' /\ GrantsKept /\ Extended /\ tokens <= tokens'
    <2>1. TypeOK /\ GrantsKept
      BY DEF Inv
    <2>2. TypeOK'
      BY <2>1, ReadToIssueType
    <2>3. UNCHANGED codes /\ tokens' \in {tokens, tokens + 1}
      BY DEF ReadToIssue
    <2>4. QED BY <2>1, <2>2, <2>3, SameCodes
  <1>2. \A q \in Processes : q # p => job'[q] = job[q]
    BY <1>1 DEF ReadToIssue, Write, TypeOK
  <1>3. CASE ~Readable
    <2>1. job'[p].pc = "idle" /\ job'[p].store.tokens = {}
      BY <1>1, <1>3 DEF ReadToIssue, Idle, Empty, TypeOK
    <2>2. JobSound(job[p])'
      BY <2>1 DEF JobSound, Sound
    <2>3. QED BY <1>1, <1>2, <2>2, GrantsStep DEF ReadToIssue
  <1>4. CASE Readable
    <2> DEFINE g == job[p].grant
    <2>1. file \in Store /\ g \in Grant /\ Granted(g) /\ tokens' = tokens + 1
          /\ tokens < MaxTokens
      BY <1>1, <1>4 DEF TypeOK, Readable, GrantsKept, JobSound, ReadToIssue, Job
    <2>2. Write(p, "issue", [file EXCEPT !.tokens = {t \in @ : t.expires > now} \cup {Draw(g)}], g)
      BY <1>4 DEF ReadToIssue, Draw
    <2>3. /\ Granted(Draw(g)) /\ Draw(g).id = tokens + 1
      BY <2>1 DEF Granted, Draw
    <2> HIDE DEF g
    <2>4. /\ job'[p].pc = "truncate" /\ job'[p].kind = "issue" /\ job'[p].grant = g
          /\ job'[p].store.tokens \subseteq file.tokens \cup {Draw(g)}
          /\ Draw(g) \in job'[p].store.tokens
          /\ job'[p].base = file
      BY <1>1, <2>1, <2>2 DEF Write, TypeOK, Store
    <2>5. tokens \in Nat /\ \A t \in file.tokens : Granted(t) /\ t.id <= tokens /\ t.id \in Nat
      BY <1>1, <2>1, Bounds DEF TypeOK, GrantsKept, Sound, Store, Token, TokenIds
    <2>6. Drawn(job[p])'
      BY <2>3, <2>4, <2>5 DEF Drawn
    <2>7. Sound(job[p].store)'
      <3>1. ASSUME NEW t \in job'[p].store.tokens
            PROVE  Granted(t) /\ t.id <= tokens'
        BY <2>1, <2>3, <2>4, <2>5, <3>1
      <3>2. UNCHANGED codes
        BY DEF ReadToIssue
      <3>3. QED BY <3>1, <3>2 DEF Sound, Granted
    <2>8. Granted(job[p].grant)'
      BY <2>1, <2>4 DEF Granted, ReadToIssue
    <2>9. JobSound(job[p])'
      BY <2>4, <2>6, <2>7, <2>8 DEF JobSound
    <2>10. QED BY <1>1, <1>2, <2>9, GrantsStep DEF ReadToIssue
  <1>5. QED BY <1>3, <1>4

LEMMA TruncateGrants ==
    ASSUME Inv, NEW p \in Processes, Truncate(p)
    PROVE  GrantsKept'
  <1>1. TypeOK /\ TypeOK' /\ GrantsKept /\ Extended /\ tokens <= tokens'
    <2>1. TypeOK /\ GrantsKept
      BY DEF Inv
    <2>2. TypeOK'
      BY <2>1, TruncateType
    <2>3. UNCHANGED codes /\ tokens' \in {tokens, tokens + 1}
      BY DEF Truncate
    <2>4. QED BY <2>1, <2>2, <2>3, SameCodes
  <1>2. /\ job'[p].pc = "fill" /\ job'[p].kind = job[p].kind /\ job'[p].grant = job[p].grant
        /\ job'[p].store = job[p].store /\ job'[p].base = job[p].base
        /\ job[p].pc = "truncate"
    BY <1>1 DEF Truncate, TypeOK, Job
  <1>3. JobSound(job[p])'
    BY <1>1, <1>2 DEF GrantsKept, JobSound, Sound, Granted, Drawn, Truncate
  <1>4. \A q \in Processes : q # p => job'[q] = job[q]
    BY <1>1 DEF Truncate, TypeOK
  <1>5. Sound(file)'
    BY DEF Truncate, Sound, Torn
  <1>6. QED BY <1>1, <1>3, <1>4, <1>5, GrantsStep DEF Truncate

LEMMA FillGrants ==
    ASSUME Inv, NEW p \in Processes, Fill(p)
    PROVE  GrantsKept'
  <1> DEFINE j == job[p]
  <1>1. TypeOK /\ TypeOK' /\ GrantsKept /\ Extended /\ tokens <= tokens'
    <2>1. TypeOK /\ GrantsKept
      BY DEF Inv
    <2>2. TypeOK'
      BY <2>1, FillType
    <2>3. UNCHANGED codes /\ tokens' \in {tokens, tokens + 1}
      BY DEF Fill
    <2>4. QED BY <2>1, <2>2, <2>3, SameCodes
  <1>2. /\ j \in Job /\ j.pc = "fill" /\ JobSound(j) /\ file' = j.store
        /\ UNCHANGED <<codes, tokens>>
    BY <1>1 DEF TypeOK, Fill, GrantsKept
  <1>3. Sound(file)'
    BY <1>2 DEF JobSound, Sound, Granted
  <1>4. JobSound(job[p])'
    <2>1. CASE j.kind = "rotate"
      <3>1. job'[p] = [Idle EXCEPT !.pc = "issue", !.kind = "issue", !.grant = j.grant]
        BY <1>1, <2>1 DEF Fill, Issue, TypeOK
      <3>2. /\ job'[p].pc = "issue" /\ job'[p].kind = "issue" /\ job'[p].store = Empty
            /\ job'[p].grant = j.grant
        BY <3>1 DEF Idle
      <3>3. Granted(j.grant)
        BY <1>2, <2>1 DEF JobSound
      <3>4. QED BY <1>2, <3>2, <3>3 DEF JobSound, Sound, Empty, Granted
    <2>2. CASE j.kind # "rotate"
      <3>1. job'[p].pc = "idle" /\ job'[p].store.tokens = {}
        BY <1>1, <2>2 DEF Fill, TypeOK, Idle, Empty
      <3>2. QED BY <3>1 DEF JobSound, Sound
    <2>3. QED BY <2>1, <2>2
  <1>5. \A q \in Processes : q # p => job'[q] = job[q]
    BY <1>1 DEF Fill, Issue, TypeOK
  <1>6. \A x \in pairs' : x \in pairs \/ Granted(x.token)'
    <2>1. CASE j.kind = "issue"
      <3>1. New(j) \in j.store.tokens
        BY <1>2, <2>1 DEF JobSound, Drawn, New
      <3>2. Granted(New(j))
        BY <1>2, <3>1 DEF JobSound, Sound
      <3>3. pairs' = pairs \cup {[origin |-> j.grant.origin, token |-> New(j)]}
        BY <2>1 DEF Fill, New
      <3>4. QED BY <1>2, <3>2, <3>3 DEF Granted
    <2>2. CASE j.kind # "issue"
      BY <2>2 DEF Fill
    <2>3. QED BY <2>1, <2>2
  <1>7. QED BY <1>1, <1>3, <1>4, <1>5, <1>6, GrantsStep

LEMMA CrashGrants ==
    ASSUME Inv, NEW p \in Processes, Crash(p)
    PROVE  GrantsKept'
  <1>1. TypeOK /\ TypeOK' /\ GrantsKept /\ Extended /\ tokens <= tokens'
    <2>1. TypeOK /\ GrantsKept
      BY DEF Inv
    <2>2. TypeOK'
      BY <2>1, CrashType
    <2>3. UNCHANGED codes /\ tokens' \in {tokens, tokens + 1}
      BY DEF Crash
    <2>4. QED BY <2>1, <2>2, <2>3, SameCodes
  <1>2. job'[p].pc = "idle" /\ job'[p].store.tokens = {}
    BY <1>1 DEF Crash, TypeOK, Idle, Empty
  <1>3. JobSound(job[p])'
    BY <1>2 DEF JobSound, Sound
  <1>4. \A q \in Processes : q # p => job'[q] = job[q]
    BY <1>1 DEF Crash, TypeOK
  <1>5. QED BY <1>1, <1>3, <1>4, GrantsStep DEF Crash

LEMMA TickGrants == Inv /\ Tick => GrantsKept'
  BY DEF Inv, Tick, GrantsKept, Sound, JobSound, Drawn, Granted

-----------------------------------------------------------------------------
(* Codes are spent once *)

\* Nothing is issued, presented or sold, and nobody sets out to buy.
LEMMA QuietSpent ==
    ASSUME SpentOnce, UNCHANGED <<codes, presented, pairs>>,
           \A p \in Processes : held'[p] \subseteq held[p],
           \A p \in Processes, n \in Nat \ {0} : Buying(p, n)' => Buying(p, n)
    PROVE  SpentOnce'
  BY DEF SpentOnce

LEMMA RegisterSpent ==
    ASSUME Inv, NEW p \in Processes, Register(p)
    PROVE  SpentOnce'
  <1>1. \A q \in Processes : q # p => job'[q] = job[q]
    BY DEF Inv, Register, Write, TypeOK
  <1>2. job'[p].grant.origin.id = 0
    BY DEF Inv, Register, Write, TypeOK, NoGrant
  <1>3. \A q \in Processes, n \in Nat \ {0} : Buying(q, n)' => Buying(q, n)
    BY <1>1, <1>2 DEF Buying, ByCode
  <1>4. QED BY <1>3, QuietSpent DEF Inv, Register

LEMMA RefreshSpent ==
    ASSUME Inv, NEW p \in Processes, Refresh(p)
    PROVE  SpentOnce'
  <1>1. \A q \in Processes : q # p => job'[q] = job[q]
    BY DEF Inv, Refresh, Write, TypeOK
  <1>2. job'[p].grant.origin.kind = "refresh"
    BY DEF Inv, Refresh, Write, TypeOK
  <1>3. \A q \in Processes, n \in Nat \ {0} : Buying(q, n)' => Buying(q, n)
    BY <1>1, <1>2 DEF Buying, ByCode
  <1>4. QED BY <1>3, QuietSpent DEF Inv, Refresh

LEMMA ReadToIssueSpent ==
    ASSUME Inv, NEW p \in Processes, ReadToIssue(p)
    PROVE  SpentOnce'
  <1>1. \A q \in Processes : q # p => job'[q] = job[q]
    BY DEF Inv, ReadToIssue, Write, TypeOK
  <1>2. job[p].pc = "issue" /\ (job'[p].pc # "idle" => job'[p].grant = job[p].grant)
    BY DEF Inv, ReadToIssue, Write, TypeOK, Idle
  <1>3. \A q \in Processes, n \in Nat \ {0} : Buying(q, n)' => Buying(q, n)
    BY <1>1, <1>2 DEF Buying, ByCode
  <1>4. QED BY <1>3, QuietSpent DEF Inv, ReadToIssue

LEMMA TruncateSpent ==
    ASSUME Inv, NEW p \in Processes, Truncate(p)
    PROVE  SpentOnce'
  <1>1. \A q \in Processes : q # p => job'[q] = job[q]
    BY DEF Inv, Truncate, TypeOK
  <1>2. job[p].pc = "truncate" /\ job'[p].grant = job[p].grant
    BY DEF Inv, Truncate, TypeOK, Job
  <1>3. \A q \in Processes, n \in Nat \ {0} : Buying(q, n)' => Buying(q, n)
    BY <1>1, <1>2 DEF Buying, ByCode
  <1>4. QED BY <1>3, QuietSpent DEF Inv, Truncate

LEMMA CrashSpent ==
    ASSUME Inv, NEW p \in Processes, Crash(p)
    PROVE  SpentOnce'
  <1>1. \A q \in Processes : q # p => job'[q] = job[q]
    BY DEF Inv, Crash, TypeOK
  <1>2. job'[p].pc = "idle"
    BY DEF Inv, Crash, TypeOK, Idle
  <1>3. \A q \in Processes, n \in Nat \ {0} : Buying(q, n)' => Buying(q, n)
    BY <1>1, <1>2 DEF Buying, ByCode
  <1>4. \A q \in Processes : held'[q] \subseteq held[q]
    BY DEF Inv, Crash, TypeOK
  <1>5. QED BY <1>3, <1>4, QuietSpent DEF Inv, Crash

LEMMA TickSpent == Inv /\ Tick => SpentOnce'
  BY QuietSpent DEF Inv, Tick, Buying

LEMMA AuthorizeSpent ==
    ASSUME Inv, NEW p \in Processes, Authorize(p)
    PROVE  SpentOnce'
  <1>1. PICK k \in Nat \ {0} : /\ k \notin DOMAIN codes
                               /\ DOMAIN codes' = DOMAIN codes \cup {k}
                               /\ held' = [held EXCEPT ![p] = @ \cup {k}]
    BY AuthorizeType DEF Inv
  <1>2. UNCHANGED <<job, pairs, presented>>
    BY DEF Authorize
  <1>3. /\ \A q \in Processes : k \notin held[q] /\ held[q] \subseteq DOMAIN codes
        /\ \A q \in Processes, n \in Nat : n # k => (n \in held'[q] <=> n \in held[q])
        /\ \A q \in Processes : k \in held'[q] => q = p
        /\ k \notin presented
    BY <1>1 DEF Inv, TypeOK
  <1>4. \A q \in Processes, n \in Nat \ {0} : Buying(q, n)' <=> Buying(q, n)
    BY <1>2 DEF Buying
  <1>5. QED BY <1>1, <1>2, <1>3, <1>4 DEF Inv, SpentOnce

LEMMA ExchangeSpent ==
    ASSUME Inv, NEW p \in Processes, Exchange(p)
    PROVE  SpentOnce'
  <1>1. PICK k \in DOMAIN codes, c \in Clients :
          /\ presented' = IF k \in held[p] THEN presented \cup {k} ELSE presented
          /\ held' = [held EXCEPT ![p] = @ \ {k}]
          /\ \/ job' = job
             \/ /\ k \in held[p]
                /\ Issue(p, [origin |-> ByCode(k), client |-> c, scope |-> codes[k].scope,
                             root |-> k])
    BY DEF Exchange, ByCode
  <1>2. UNCHANGED <<codes, pairs>>
    BY DEF Exchange
  <1>3. /\ \A q \in Processes : held'[q] \subseteq held[q]
        /\ k \in held[p] => \A q \in Processes : k \notin held'[q]
        /\ k \in Nat \ {0}
    <2>1. k \in Nat \ {0}
      BY Bounds DEF Inv, TypeOK
    <2>2. held'[p] = held[p] \ {k} /\ \A q \in Processes : q # p => held'[q] = held[q]
      BY <1>1 DEF Inv, TypeOK
    <2>3. \A q \in Processes : held'[q] \subseteq held[q]
      BY <2>2
    <2>4. k \in held[p] => \A q \in Processes : q # p => k \notin held[q]
      BY <2>1 DEF Inv, SpentOnce
    <2>5. QED BY <2>1, <2>2, <2>3, <2>4
  <1>4. \A q \in Processes, n \in Nat \ {0} :
           Buying(q, n)' => Buying(q, n) \/ (q = p /\ n = k /\ k \in held[p])
    <2>1. CASE job' = job
      BY <2>1 DEF Buying
    <2>2. CASE job' # job
      <3>1. /\ k \in held[p]
            /\ job'[p] = [Idle EXCEPT !.pc = "issue", !.kind = "issue",
                                      !.grant = [origin |-> ByCode(k), client |-> c,
                                                 scope |-> codes[k].scope, root |-> k]]
            /\ \A q \in Processes : q # p => job'[q] = job[q]
        BY <1>1, <2>2 DEF Issue, Inv, TypeOK
      <3>2. job'[p].grant.origin = ByCode(k)
        BY <3>1 DEF Idle
      <3>3. \A n \in Nat \ {0} : ByCode(k) = ByCode(n) => k = n
        BY DEF ByCode
      <3>4. \A n \in Nat \ {0} : Buying(p, n)' => n = k
        BY <3>2, <3>3 DEF Buying
      <3>5. \A q \in Processes, n \in Nat \ {0} : q # p => (Buying(q, n)' => Buying(q, n))
        BY <3>1 DEF Buying
      <3>6. QED BY <3>1, <3>4, <3>5
    <2>3. QED BY <2>1, <2>2
  <1>5. \A n \in Nat : n \in presented' => n \in presented \/ (n = k /\ k \in held[p])
    BY <1>1
  <1>6. QED BY <1>1, <1>2, <1>3, <1>4, <1>5 DEF Inv, SpentOnce

LEMMA FillSpent ==
    ASSUME Inv, NEW p \in Processes, Fill(p)
    PROVE  SpentOnce'
  <1> DEFINE j == job[p]
  <1>1. UNCHANGED <<codes, held, presented>> /\ j.pc = "fill"
    BY DEF Fill
  <1>2. \A q \in Processes : q # p => job'[q] = job[q]
    BY DEF Inv, Fill, Issue, TypeOK
  <1>3. CASE j.kind = "issue"
    <2>1. job'[p].pc = "idle"
      BY <1>3 DEF Inv, Fill, TypeOK, Idle
    <2>2. pairs' = pairs \cup {[origin |-> j.grant.origin, token |-> New(j)]}
      BY <1>3 DEF Fill, New
    <2>3. \A q \in Processes, n \in Nat \ {0} : Buying(q, n)' => q # p /\ Buying(q, n)
      BY <1>2, <2>1 DEF Buying
    <2>4. \A x \in pairs', n \in Nat \ {0} :
             x.origin = ByCode(n) =>
                 \/ x \in pairs
                 \/ x = [origin |-> j.grant.origin, token |-> New(j)] /\ Buying(p, n)
      BY <1>1, <2>2 DEF Buying
    <2> HIDE DEF j
    <2>5. QED BY <1>1, <2>3, <2>4 DEF Inv, SpentOnce
  <1>4. CASE j.kind # "issue"
    <2>1. pairs' = pairs
      BY <1>4 DEF Fill
    <2>2. job'[p].pc # "idle" => job'[p].grant = j.grant
      <3>1. CASE j.kind = "rotate"
        <4>1. job'[p] = [Idle EXCEPT !.pc = "issue", !.kind = "issue", !.grant = j.grant]
          BY <3>1 DEF Inv, Fill, Issue, TypeOK
        <4>2. QED BY <4>1 DEF Idle
      <3>2. CASE j.kind # "rotate"
        <4>1. job'[p] = Idle
          BY <3>2 DEF Inv, Fill, TypeOK
        <4>2. QED BY <4>1 DEF Idle
      <3>3. QED BY <3>1, <3>2
    <2>3. \A q \in Processes, n \in Nat \ {0} : Buying(q, n)' => Buying(q, n)
      BY <1>1, <1>2, <2>2 DEF Buying
    <2>4. QED BY <1>1, <2>1, <2>3, QuietSpent DEF Inv
  <1>5. QED BY <1>3, <1>4

-----------------------------------------------------------------------------
(* What is written, and who owns a root *)

LEMMA Numbers ==
    ASSUME TypeOK
    PROVE  /\ now \in Nat /\ tokens \in Nat
           /\ \A s \in Store : \A t \in s.tokens : t \in Token /\ t.id \in Nat /\ t.expires \in Nat
           /\ \A x \in pairs : x.token \in Token /\ x.token.expires \in Nat /\ x.token.id \in Nat
  BY Bounds DEF TypeOK, Store, Token, TokenIds, Pair

LEMMA ReadsAreStores ==
    ASSUME TypeOK
    PROVE  /\ Readable => file \in Store
           /\ \A p \in Processes : /\ job[p] \in Job /\ job[p].base \in Store /\ job[p].store \in Store
                                   /\ job[p].base # Torn
  <1>1. \A s \in Store : s # Torn
    <2> SUFFICES ASSUME NEW s \in Store, s = Torn PROVE FALSE
      OBVIOUS
    <2>1. DOMAIN s = {"clients", "tokens"} /\ DOMAIN s = {"clients", "tokens", "torn"}
      BY DEF Store, Torn
    <2>2. QED BY <2>1
  <1>2. QED BY <1>1 DEF TypeOK, Readable, Job

\* A job that stays as it is still knows what it writes.
LEMMA WriteStays ==
    ASSUME TypeOK, TypeOK', now <= now', tokens <= tokens', NEW j \in Job, WriteOf(j)
    PROVE  WriteOf(j)'
  <1>1. \A t \in j.base.tokens : t.expires <= now => t.expires <= now'
    <2>1. j.base \in Store
      BY DEF Job
    <2>2. QED BY <2>1, Numbers, Bounds DEF TypeOK
  <1>2. j.kind = "issue" /\ New(j).id <= tokens => New(j).id <= tokens'
    <2>1. j.store \in Store
      BY DEF Job
    <2>2. SUFFICES ASSUME j.kind = "issue", New(j).id <= tokens PROVE New(j).id <= tokens'
      OBVIOUS
    <2>3. New(j).id \in Nat
      BY <2>1, <2>2, Numbers DEF WriteOf
    <2>4. tokens \in Nat /\ tokens' \in Nat
      BY Bounds DEF TypeOK
    <2>5. QED BY <2>2, <2>3, <2>4
  <1>3. QED BY <1>1, <1>2 DEF WriteOf

LEMMA WritesStay ==
    ASSUME TypeOK, TypeOK', now <= now', tokens <= tokens', WritesKnown, NEW p,
           \A q \in Processes : q # p => job'[q] = job[q],
           p \in Processes /\ Writing(p)' =>
              \/ Writing(p) /\ job'[p] \in {job[p], [job[p] EXCEPT !.pc = "fill"]}
              \/ WriteOf(job[p])'
    PROVE  WritesKnown'
  <1> SUFFICES ASSUME NEW q \in Processes, Writing(q),
                      job'[q] \in {job[q], [job[q] EXCEPT !.pc = "fill"]}
               PROVE  WriteOf(job[q])'
    BY DEF WritesKnown, Writing
  <1>1. PICK j \in Job : j = job[q] /\ WriteOf(j)
    BY DEF TypeOK, WritesKnown
  <1>2. WriteOf(j)'
    BY <1>1, WriteStays
  <1>3. /\ job'[q].store = j.store /\ job'[q].base = j.base /\ job'[q].grant = j.grant
        /\ job'[q].kind = j.kind
    BY <1>1 DEF Job
  <1>4. New(job'[q]) = New(j)
    BY <1>3 DEF New
  <1>5. QED BY <1>2, <1>3, <1>4 DEF WriteOf

\* A step that answers nothing and redeems nothing: no grant is new, and a token that
\* is drawn gets a new number.
LEMMA QuietOwned ==
    ASSUME TypeOK, TypeOK', GrantsKept, WritesKnown, GrantedOnce,
           UNCHANGED <<registered, pairs, redeemed>>, now <= now', tokens' \in {tokens, tokens + 1},
           DOMAIN codes \subseteq DOMAIN codes', NEW p,
           \A q \in Processes : \A n \in DOMAIN codes : n \in held'[q] => n \in held[q],
           \A q \in Processes : Pending(q)' => Pending(q) /\ job'[q].grant = job[q].grant,
           \A q \in Processes : Drawing(q)' =>
              \/ Drawing(q) /\ New(job'[q]) = New(job[q])
              \/ q = p /\ New(job'[q]).id = tokens + 1
    PROVE  GrantedOnce' /\ \A s \in Store : Owned(s) => Owned(s)'
  <1>1. /\ tokens \in Nat /\ tokens' \in Nat /\ now \in Nat /\ now' \in Nat /\ redeemed \subseteq Nat
    BY Bounds DEF TypeOK
  <1>2. \A q \in Processes : Pending(q) => job[q].grant.root \in DOMAIN codes
    BY DEF Pending, GrantsKept, JobSound, Granted
  <1>3. \A q \in Processes : Drawing(q) => New(job[q]).id <= tokens /\ New(job[q]).id \in Nat
    <2> SUFFICES ASSUME NEW q \in Processes, Drawing(q)
                 PROVE  New(job[q]).id <= tokens /\ New(job[q]).id \in Nat
      OBVIOUS
    <2>1. New(job[q]).id <= tokens /\ New(job[q]) \in job[q].store.tokens
      BY DEF WritesKnown, WriteOf, Drawing
    <2>2. QED BY <2>1, Numbers, ReadsAreStores
  <1>4. \A q, r \in Processes : q # r /\ Drawing(q)' /\ Drawing(r)' =>
           New(job'[q]).id # New(job'[r]).id
    BY <1>1, <1>3 DEF GrantedOnce
  <1>5. \A q \in Processes : Drawing(q)' => New(job'[q]).id \notin redeemed'
    BY <1>1, <1>3 DEF GrantedOnce
  <1>6. \A k \in redeemed' : k <= tokens'
    BY <1>1 DEF GrantedOnce
  <1>7. \A q, r \in Processes : Pending(q)' => job'[q].grant.root \notin held'[r]
    BY <1>2 DEF GrantedOnce
  <1>8. \A q, r \in Processes : q # r /\ Pending(q)' /\ Pending(r)' =>
           job'[q].grant.root # job'[r].grant.root /\ job'[q].grant.origin # job'[r].grant.origin
    BY DEF GrantedOnce
  <1>9. \A q \in Processes, x \in pairs' : Pending(q)' => x.origin # job'[q].grant.origin
    BY DEF GrantedOnce
  <1>10. \A q \in Processes : Pending(q)' /\ job'[q].grant.origin.kind = "refresh" =>
           job'[q].grant.origin.id \in redeemed'
    BY DEF GrantedOnce
  <1>11. GrantedOnce'
    BY <1>4, <1>5, <1>6, <1>7, <1>8, <1>9, <1>10 DEF GrantedOnce
  <1>12. ASSUME NEW s \in Store, Owned(s)
         PROVE  Owned(s)'
    <2>1. \A t \in s.tokens : t.id \in Nat /\ t.id <= tokens
      BY <1>12, Numbers DEF Owned
    <2>2. \A x \in pairs' : x.token \in s.tokens \/ x.token.expires <= now' \/ x.token.id \in redeemed'
      BY <1>1, <1>12, Numbers DEF Owned
    <2>3. \A t \in s.tokens :
            /\ t.root \in DOMAIN codes' /\ t.id <= tokens' /\ t.id \notin redeemed'
            /\ \A q \in Processes : t.root \notin held'[q]
            /\ \A q \in Processes : Pending(q)' => t.root # job'[q].grant.root
            /\ \A q \in Processes : Drawing(q)' => t.id # New(job'[q]).id
      BY <1>1, <1>12, <2>1 DEF Owned
    <2>4. QED BY <1>12, <2>2, <2>3 DEF Owned
  <1>13. QED BY <1>11, <1>12

\* Such a step of the process p.
Quiet(p) ==
    /\ UNCHANGED <<registered, pairs, redeemed>> /\ now <= now' /\ tokens' \in {tokens, tokens + 1}
    /\ disturbed => disturbed'
    /\ DOMAIN codes \subseteq DOMAIN codes'
    /\ \A q \in Processes : \A n \in DOMAIN codes : n \in held'[q] => n \in held[q]
    /\ \A q \in Processes : q # p => job'[q] = job[q]
    /\ Pending(p)' => Pending(p) /\ job'[p].grant = job[p].grant
    /\ Drawing(p)' => \/ Drawing(p) /\ New(job'[p]) = New(job[p])
                      \/ New(job'[p]).id = tokens + 1

LEMMA QuietKeeps ==
    ASSUME TypeOK, TypeOK', GrantsKept, WritesKnown, GrantedOnce, NEW p, Quiet(p)
    PROVE  GrantedOnce' /\ \A s \in Store : Owned(s) => Owned(s)'
  <1>1. \A q \in Processes : Pending(q)' => Pending(q) /\ job'[q].grant = job[q].grant
    BY DEF Quiet, Pending
  <1>2. \A q \in Processes : Drawing(q)' => \/ Drawing(q) /\ New(job'[q]) = New(job[q])
                                            \/ q = p /\ New(job'[q]).id = tokens + 1
    BY DEF Quiet, Drawing, Writing
  <1>3. QED BY <1>1, <1>2, QuietOwned DEF Quiet

\* If it leaves the file alone, too, then what was undisturbed remains so.
LEMMA QuietUndisturbed ==
    ASSUME TypeOK, TypeOK', GrantsKept, WritesKnown, Undisturbed, NEW p, Quiet(p),
           file' = file, p \in Processes /\ job'[p].pc = "fill" => job'[p] = job[p]
    PROVE  Undisturbed'
  <1> SUFFICES ASSUME ~disturbed'
               PROVE  /\ Readable' => Owned(file)'
                      /\ \A q \in Processes :
                            job'[q].pc = "fill" => ~Readable' /\ Owned(job[q].base)'
                      /\ \A q, r \in Processes :
                            job'[q].pc = "fill" /\ job'[r].pc = "fill" => q = r
                      /\ GrantedOnce'
    BY DEF Undisturbed
  <1>1. ~disturbed /\ GrantedOnce /\ (Readable' <=> Readable)
    BY DEF Undisturbed, Quiet, Readable
  <1>2. GrantedOnce' /\ \A s \in Store : Owned(s) => Owned(s)'
    BY <1>1, QuietKeeps
  <1>3. \A q \in Processes : job'[q].pc = "fill" => job'[q] = job[q]
    BY DEF Quiet
  <1>4. ASSUME Readable PROVE Owned(file)'
    <2>1. PICK s \in Store : s = file /\ Owned(s)
      BY <1>1, <1>4, ReadsAreStores DEF Undisturbed
    <2>2. Owned(s)'
      BY <1>2, <2>1
    <2>3. QED BY <2>1, <2>2 DEF Owned
  <1>5. ASSUME NEW q \in Processes, job'[q].pc = "fill" PROVE Owned(job[q].base)'
    <2>1. PICK s \in Store : s = job[q].base /\ Owned(s) /\ job'[q].base = s
      BY <1>1, <1>3, <1>5, ReadsAreStores DEF Undisturbed
    <2>2. Owned(s)'
      BY <1>2, <2>1
    <2>3. QED BY <2>1, <2>2 DEF Owned
  <1>6. QED BY <1>1, <1>2, <1>3, <1>4, <1>5 DEF Undisturbed

LEMMA TickKnown == Inv /\ Inv' /\ Known /\ Tick => Known'
  <1> SUFFICES ASSUME Inv, Inv', Known, Tick PROVE Known'
    OBVIOUS
  <1>1. PICK p : p \notin Processes
    BY NoSetContainsEverything
  <1>2. now <= now' /\ now \in Nat /\ tokens \in Nat
    BY Bounds DEF Inv, TypeOK, Tick
  <1>3. job' = job
    BY DEF Tick
  <1>4. Quiet(p)
    BY <1>2, <1>3 DEF Tick, Quiet, Pending, Drawing, Writing
  <1>5. WritesKnown'
    BY <1>1, <1>2, <1>3, WritesStay DEF Inv, Known, Tick
  <1>6. Undisturbed'
    BY <1>1, <1>4, QuietUndisturbed DEF Inv, Known, Tick
  <1>7. QED BY <1>5, <1>6 DEF Known

LEMMA RegisterKnown ==
    ASSUME Inv, Inv', Known, NEW p \in Processes, Register(p)
    PROVE  Known'
  <1>1. PICK c \in Clients, u \in Uris :
          /\ Readable /\ job[p].pc = "idle"
          /\ Write(p, "register", [file EXCEPT !.clients = @ \cup {[id |-> c, uri |-> u]}], NoGrant)
    BY DEF Register
  <1>2. file \in Store
    BY <1>1, ReadsAreStores DEF Inv
  <1>3. /\ job'[p].pc = "truncate" /\ job'[p].kind = "register" /\ job'[p].base = file
        /\ job'[p].store = [file EXCEPT !.clients = @ \cup {[id |-> c, uri |-> u]}]
        /\ \A q \in Processes : q # p => job'[q] = job[q]
    BY <1>1 DEF Inv, TypeOK, Write
  <1>4. WriteOf(job[p])'
    BY <1>2, <1>3 DEF WriteOf, Store
  <1>5. UNCHANGED <<now, file, codes, held, tokens, pairs, registered, redeemed, disturbed>>
        /\ now \in Nat /\ tokens \in Nat
    BY Bounds DEF Register, Inv, TypeOK
  <1>6. Quiet(p)
    BY <1>3, <1>5 DEF Quiet, Pending, Drawing
  <1>7. WritesKnown'
    BY <1>3, <1>4, <1>5, WritesStay DEF Inv, Known
  <1>8. Undisturbed'
    BY <1>3, <1>5, <1>6, QuietUndisturbed DEF Inv, Known
  <1>9. QED BY <1>7, <1>8 DEF Known

LEMMA AuthorizeKnown ==
    ASSUME Inv, Inv', Known, NEW p \in Processes, Authorize(p)
    PROVE  Known'
  <1>1. PICK n \in Nat \ {0} : /\ n \notin DOMAIN codes /\ DOMAIN codes' = DOMAIN codes \cup {n}
                               /\ held' = [held EXCEPT ![p] = @ \cup {n}]
    BY AuthorizeType DEF Inv
  <1>2. UNCHANGED <<now, file, job, tokens, pairs, registered, redeemed, disturbed>>
        /\ now \in Nat /\ tokens \in Nat
    BY Bounds DEF Authorize, Inv, TypeOK
  <1>3. \A q \in Processes : \A k \in DOMAIN codes : k \in held'[q] => k \in held[q]
    BY <1>1 DEF Inv, TypeOK
  <1>4. Quiet(p)
    BY <1>1, <1>2, <1>3 DEF Quiet, Pending, Drawing, Writing
  <1>5. WritesKnown'
    BY <1>2, WritesStay DEF Inv, Known, Writing
  <1>6. Undisturbed'
    BY <1>2, <1>4, QuietUndisturbed DEF Inv, Known
  <1>7. QED BY <1>5, <1>6 DEF Known

LEMMA RefreshKnown ==
    ASSUME Inv, Inv', Known, NEW p \in Processes, Refresh(p)
    PROVE  Known'
  <1>1. PICK t \in file.tokens, c \in Clients :
          /\ Readable /\ job[p].pc = "idle"
          /\ Write(p, "rotate", [file EXCEPT !.tokens = {x \in @ : x.id # t.id}],
                   [origin |-> [kind |-> "refresh", id |-> t.id], client |-> c,
                    scope |-> t.scope, root |-> t.root])
    BY DEF Refresh
  <1>2. file \in Store
    BY <1>1, ReadsAreStores DEF Inv
  <1>3. /\ job'[p].pc = "truncate" /\ job'[p].kind = "rotate" /\ job'[p].base = file
        /\ job'[p].store = [file EXCEPT !.tokens = {x \in @ : x.id # t.id}]
        /\ job'[p].grant.origin.kind = "refresh" /\ job'[p].grant.origin.id = t.id
        /\ job'[p].grant.root = t.root
        /\ \A q \in Processes : q # p => job'[q] = job[q]
    BY <1>1 DEF Inv, TypeOK, Write
  <1>4. WriteOf(job[p])'
    BY <1>1, <1>2, <1>3 DEF WriteOf, Store
  <1>5. UNCHANGED <<now, file, codes, held, tokens, pairs, registered, redeemed, disturbed>>
        /\ now \in Nat /\ tokens \in Nat
    BY Bounds DEF Refresh, Inv, TypeOK
  <1>6. Quiet(p)
    BY <1>3, <1>5 DEF Quiet, Pending, Drawing
  <1>7. WritesKnown'
    BY <1>3, <1>4, <1>5, WritesStay DEF Inv, Known
  <1>8. Undisturbed'
    BY <1>3, <1>5, <1>6, QuietUndisturbed DEF Inv, Known
  <1>9. QED BY <1>7, <1>8 DEF Known

LEMMA ReadToIssueKnown ==
    ASSUME Inv, Inv', Known, NEW p \in Processes, ReadToIssue(p)
    PROVE  Known'
  <1> DEFINE g == job[p].grant
  <1>1. UNCHANGED <<now, file, codes, held, pairs, registered, redeemed, disturbed>>
        /\ now \in Nat /\ tokens \in Nat /\ job[p].pc = "issue" /\ job[p].kind = "issue"
    BY Bounds DEF ReadToIssue, Inv, TypeOK, GrantsKept, JobSound
  <1>2. CASE Readable
    <2>1. file \in Store
      BY <1>2, ReadsAreStores DEF Inv
    <2> DEFINE d == Draw(g)
               old == {t \in file.tokens : t.expires > now}
    <2>2. tokens' = tokens + 1 /\ Write(p, "issue", [file EXCEPT !.tokens = old \cup {d}], g)
      BY <1>2 DEF ReadToIssue, Draw
    <2>3. d.id = tokens + 1 /\ d.root = g.root
      BY DEF Draw
    <2> HIDE DEF d, old, g
    <2>4. /\ job'[p].pc = "truncate" /\ job'[p].kind = "issue" /\ job'[p].base = file
          /\ job'[p].store = [file EXCEPT !.tokens = old \cup {d}] /\ job'[p].grant = g
          /\ \A q \in Processes : q # p => job'[q] = job[q]
      BY <2>2 DEF Inv, TypeOK, Write
    <2>5. job'[p].store.tokens = old \cup {d} /\ job'[p].store.clients = file.clients
      BY <2>1, <2>4 DEF Store
    <2>6. d.id \notin {x.id : x \in file.tokens}
      <3>1. \A x \in file.tokens : x.id \in Nat /\ x.id <= tokens
        BY <2>1, Numbers DEF Inv, GrantsKept, Sound
      <3>2. QED BY <1>1, <2>3, <3>1
    <2>7. New(job'[p]) = d
      <3>1. \A t \in old \cup {d} : t.id \notin {x.id : x \in file.tokens} <=> t = d
        BY <2>6 DEF old
      <3>2. QED BY <2>4, <2>5, <3>1 DEF New
    <2>8. WriteOf(job[p])'
      <3>1. \A t \in file.tokens : t \in old \/ t.expires <= now
        BY <1>1, <2>1, Numbers DEF Inv, old
      <3>2. \A t \in old : t \in file.tokens
        BY DEF old
      <3>3. New(job'[p]) \in job'[p].store.tokens /\ New(job'[p]).root = job'[p].grant.root
            /\ New(job'[p]).id <= tokens'
        BY <1>1, <2>2, <2>3, <2>4, <2>5, <2>7
      <3>4. QED BY <1>1, <2>4, <2>5, <2>7, <3>1, <3>2, <3>3 DEF WriteOf
    <2>9. Quiet(p)
      BY <1>1, <2>2, <2>3, <2>4, <2>7 DEF Quiet, Pending, g
    <2>10. WritesKnown'
      BY <1>1, <2>2, <2>4, <2>8, WritesStay DEF Inv, Known
    <2>11. Undisturbed'
      BY <1>1, <2>4, <2>9, QuietUndisturbed DEF Inv, Known
    <2>12. QED BY <2>10, <2>11 DEF Known
  <1>3. CASE ~Readable
    <2>1. tokens' = tokens /\ job'[p] = Idle /\ \A q \in Processes : q # p => job'[q] = job[q]
      BY <1>3 DEF ReadToIssue, Inv, TypeOK
    <2>2. job'[p].pc = "idle"
      BY <2>1 DEF Idle
    <2>3. Quiet(p)
      BY <1>1, <2>1, <2>2 DEF Quiet, Pending, Drawing, Writing
    <2>4. WritesKnown'
      BY <1>1, <2>1, <2>2, WritesStay DEF Inv, Known, Writing
    <2>5. Undisturbed'
      BY <1>1, <2>2, <2>3, QuietUndisturbed DEF Inv, Known
    <2>6. QED BY <2>4, <2>5 DEF Known
  <1>4. QED BY <1>2, <1>3

LEMMA CrashKnown ==
    ASSUME Inv, Inv', Known, NEW p \in Processes, Crash(p)
    PROVE  Known'
  <1>1. UNCHANGED <<now, file, codes, tokens, pairs, registered, redeemed>>
        /\ now \in Nat /\ tokens \in Nat /\ (disturbed => disturbed')
    BY Bounds DEF Crash, Inv, TypeOK
  <1>2. job'[p] = Idle /\ \A q \in Processes : q # p => job'[q] = job[q]
    BY DEF Crash, Inv, TypeOK
  <1>3. job'[p].pc = "idle"
    BY <1>2 DEF Idle
  <1>4. \A q \in Processes : held'[q] \subseteq held[q]
    BY DEF Crash, Inv, TypeOK
  <1>5. Quiet(p)
    BY <1>1, <1>2, <1>3, <1>4 DEF Quiet, Pending, Drawing, Writing
  <1>6. WritesKnown'
    BY <1>1, <1>2, <1>3, WritesStay DEF Inv, Known, Writing
  <1>7. Undisturbed'
    BY <1>1, <1>3, <1>5, QuietUndisturbed DEF Inv, Known
  <1>8. QED BY <1>6, <1>7 DEF Known

LEMMA TruncateKnown ==
    ASSUME Inv, Inv', Known, NEW p \in Processes, Truncate(p)
    PROVE  Known'
  <1>1. UNCHANGED <<now, codes, held, tokens, pairs, registered, redeemed>> /\ file' = Torn
        /\ disturbed' = (disturbed \/ file # job[p].base) /\ job[p].pc = "truncate"
        /\ now \in Nat /\ tokens \in Nat
    BY Bounds DEF Truncate, Inv, TypeOK
  <1>2. job'[p] = [job[p] EXCEPT !.pc = "fill"] /\ \A q \in Processes : q # p => job'[q] = job[q]
    BY DEF Truncate, Inv, TypeOK
  <1>3. PICK j \in Job : j = job[p]
    BY DEF Inv, TypeOK
  <1>4. /\ job'[p].pc = "fill" /\ job'[p].kind = j.kind /\ job'[p].store = j.store
        /\ job'[p].base = j.base /\ job'[p].grant = j.grant
    BY <1>2, <1>3 DEF Job
  <1>5. New(job'[p]) = New(job[p])
    BY <1>3, <1>4 DEF New
  <1>6. Quiet(p)
    <2>1. disturbed => disturbed'
      BY Zenon DEF Truncate
    <2>2. /\ Pending(p)' => Pending(p) /\ job'[p].grant = job[p].grant
          /\ Drawing(p)' => Drawing(p)
      BY <1>1, <1>3, <1>4 DEF Pending, Drawing, Writing
    <2>3. QED BY <1>1, <1>2, <1>5, <2>1, <2>2 DEF Quiet
  <1>7. WritesKnown'
    BY <1>1, <1>2, WritesStay DEF Inv, Known, Writing
  <1>8. ASSUME ~disturbed'
        PROVE  /\ Readable' => Owned(file)'
               /\ \A q \in Processes :
                     job'[q].pc = "fill" => ~Readable' /\ Owned(job[q].base)'
               /\ \A q, r \in Processes :
                     job'[q].pc = "fill" /\ job'[r].pc = "fill" => q = r
               /\ GrantedOnce'
    <2>1. ~disturbed /\ file = job[p].base
      BY <1>1, <1>8
    <2>2. PICK s \in Store : s = file /\ Readable
      BY <2>1, ReadsAreStores DEF Inv, Readable
    <2>3. Owned(s) /\ GrantedOnce /\ \A q \in Processes : job[q].pc # "fill"
      BY <2>1, <2>2 DEF Known, Undisturbed
    <2>4. Owned(s)' /\ GrantedOnce'
      BY <1>6, <2>3, QuietKeeps DEF Inv, Known
    <2>5. ~Readable' /\ \A q \in Processes : job'[q].pc = "fill" => q = p
      BY <1>1, <1>2, <2>3 DEF Readable
    <2>6. job'[p].base = s
      BY <1>3, <1>4, <2>1, <2>2
    <2>7. Owned(job[p].base)'
      BY <2>4, <2>6 DEF Owned
    <2>8. QED BY <2>4, <2>5, <2>7
  <1>9. QED BY <1>7, <1>8 DEF Known, Undisturbed

LEMMA ExchangeKnown ==
    ASSUME Inv, Inv', Known, NEW p \in Processes, Exchange(p)
    PROVE  Known'
  <1>1. PICK k \in DOMAIN codes, c \in Clients :
          /\ held' = [held EXCEPT ![p] = @ \ {k}] /\ job[p].pc = "idle"
          /\ \/ job' = job
             \/ /\ k \in held[p]
                /\ Issue(p, [origin |-> ByCode(k), client |-> c, scope |-> codes[k].scope,
                             root |-> k])
    BY DEF Exchange, ByCode
  <1>2. UNCHANGED <<now, file, codes, tokens, pairs, registered, redeemed, disturbed>>
        /\ now \in Nat /\ tokens \in Nat
    BY Bounds DEF Exchange, Inv, TypeOK
  <1>3. \A q \in Processes : held'[q] \subseteq held[q]
    BY <1>1 DEF Inv, TypeOK
  <1>4. CASE job' = job
    <2>1. Quiet(p)
      BY <1>2, <1>3, <1>4 DEF Quiet, Pending, Drawing, Writing
    <2>2. WritesKnown'
      BY <1>2, <1>4, WritesStay DEF Inv, Known, Writing
    <2>3. Undisturbed'
      BY <1>2, <1>4, <2>1, QuietUndisturbed DEF Inv, Known
    <2>4. QED BY <2>2, <2>3 DEF Known
  <1>5. CASE job' # job
    <2> DEFINE g == [origin |-> ByCode(k), client |-> c, scope |-> codes[k].scope, root |-> k]
    <2>1. k \in held[p] /\ \A q \in Processes : q # p => job'[q] = job[q]
      BY <1>1, <1>5 DEF Issue, Inv, TypeOK
    <2>1a. job'[p] = [Idle EXCEPT !.pc = "issue", !.kind = "issue", !.grant = g]
      BY <1>1, <1>5 DEF Issue, Inv, TypeOK
    <2>2. /\ job'[p].pc = "issue" /\ job'[p].kind = "issue" /\ job'[p].grant.root = k
          /\ job'[p].grant.origin = ByCode(k)
      BY <2>1a DEF Idle
    <2> HIDE DEF g
    <2>3. WritesKnown'
      BY <1>2, <2>1, <2>2, WritesStay DEF Inv, Known, Writing
    <2>4. k \in Nat \ {0}
      BY Bounds DEF Inv, TypeOK
    <2>5. /\ \A q \in Processes : k \notin held'[q] /\ ~Buying(q, k)
          /\ \A x \in pairs : x.origin # ByCode(k)
      BY <1>1, <2>1, <2>4 DEF Inv, SpentOnce, TypeOK
    <2>6. ASSUME ~disturbed
          PROVE  GrantedOnce' /\ \A s \in Store : Owned(s) => Owned(s)'
      <3>1. GrantedOnce
        BY <2>6 DEF Known, Undisturbed
      <3>2. /\ ~Drawing(p)'
            /\ \A q \in Processes : q # p => (Drawing(q)' <=> Drawing(q)) /\ (Pending(q)' <=> Pending(q))
        BY <2>1, <2>2 DEF Drawing, Pending, Writing
      <3>3. \A q \in Processes : Pending(q) => /\ job[q].grant.root # k
                                               /\ job[q].grant.origin # ByCode(k)
        BY <2>1, <2>5, <3>1 DEF GrantedOnce, Pending, Buying
      <3>4. \A q, r \in Processes : q # r /\ Pending(q)' /\ Pending(r)' =>
              job'[q].grant.root # job'[r].grant.root /\ job'[q].grant.origin # job'[r].grant.origin
        BY <2>1, <2>2, <3>1, <3>2, <3>3 DEF GrantedOnce
      <3>5. /\ \A q, r \in Processes : q # r /\ Drawing(q)' /\ Drawing(r)' =>
                  New(job'[q]).id # New(job'[r]).id
            /\ \A q \in Processes : Drawing(q)' => New(job'[q]).id \notin redeemed'
        BY <1>2, <2>1, <3>1, <3>2 DEF GrantedOnce
      <3>6. \A q, r \in Processes : Pending(q)' => job'[q].grant.root \notin held'[r]
        BY <1>3, <2>1, <2>2, <2>5, <3>1, <3>2 DEF GrantedOnce
      <3>7. \A q \in Processes, x \in pairs' : Pending(q)' => x.origin # job'[q].grant.origin
        BY <1>2, <2>1, <2>2, <2>5, <3>1, <3>2 DEF GrantedOnce
      <3>8. \A q \in Processes : Pending(q)' /\ job'[q].grant.origin.kind = "refresh" =>
              job'[q].grant.origin.id \in redeemed'
        BY <1>2, <2>1, <2>2, <3>1, <3>2 DEF GrantedOnce, ByCode
      <3>9. GrantedOnce'
        BY <1>2, <3>1, <3>4, <3>5, <3>6, <3>7, <3>8 DEF GrantedOnce
      <3>10. ASSUME NEW s \in Store, Owned(s) PROVE Owned(s)'
        <4>1. \A t \in s.tokens :
                 /\ \A q \in Processes : t.root \notin held'[q]
                 /\ \A q \in Processes : Pending(q)' => t.root # job'[q].grant.root
                 /\ \A q \in Processes : Drawing(q)' => t.id # New(job'[q]).id
          BY <1>3, <2>1, <2>2, <3>2, <3>10 DEF Owned
        <4>2. QED BY <1>2, <3>10, <4>1 DEF Owned
      <3>11. QED BY <3>9, <3>10
    <2>7. ASSUME ~disturbed'
          PROVE  /\ Readable' => Owned(file)'
                 /\ \A q \in Processes :
                       job'[q].pc = "fill" => ~Readable' /\ Owned(job[q].base)'
                 /\ \A q, r \in Processes :
                       job'[q].pc = "fill" /\ job'[r].pc = "fill" => q = r
                 /\ GrantedOnce'
      <3>1. ~disturbed /\ (Readable' <=> Readable)
        BY <1>2, <2>7 DEF Readable
      <3>2. Readable => Owned(file)'
        <4> SUFFICES ASSUME Readable PROVE Owned(file)'
          OBVIOUS
        <4>1. PICK s \in Store : s = file /\ Owned(s)
          BY <3>1, ReadsAreStores DEF Inv, Known, Undisturbed
        <4>2. Owned(s)'
          BY <2>6, <3>1, <4>1
        <4>3. QED BY <1>2, <4>1, <4>2 DEF Owned
      <3>3. ASSUME NEW q \in Processes, job'[q].pc = "fill"
            PROVE  q # p /\ job[q].pc = "fill" /\ ~Readable' /\ Owned(job[q].base)'
        <4>1. q # p /\ job'[q] = job[q]
          BY <2>1, <2>2, <3>3
        <4>2. PICK s \in Store : s = job[q].base /\ Owned(s) /\ ~Readable
          BY <3>1, <3>3, <4>1, ReadsAreStores DEF Inv, Known, Undisturbed
        <4>3. Owned(s)'
          BY <2>6, <3>1, <4>2
        <4>4. job'[q].base = s
          BY <4>1, <4>2
        <4>5. Owned(job[q].base)'
          BY <4>3, <4>4 DEF Owned
        <4>6. QED BY <3>1, <3>3, <4>1, <4>2, <4>5
      <3>4. QED BY <2>6, <3>1, <3>2, <3>3 DEF Known, Undisturbed
    <2>8. QED BY <2>3, <2>7 DEF Known, Undisturbed
  <1>6. QED BY <1>4, <1>5

\* The three ways a write ends, with b what it has read.
LEMMA RegisterFills ==
    ASSUME Inv, WritesKnown, GrantedOnce, NEW p \in Processes, Fill(p), job[p].kind = "register",
           NEW b \in Store, b = job[p].base, Owned(b), NEW s \in Store, s = job[p].store
    PROVE  GrantedOnce' /\ Owned(s)'
  <1>1. UNCHANGED <<now, codes, held, tokens, pairs, redeemed>>
        /\ registered' = registered \cup (s.clients \ b.clients)
    BY DEF Fill
  <1>2. job'[p] = Idle /\ \A q \in Processes : q # p => job'[q] = job[q]
    BY DEF Fill, Inv, TypeOK
  <1>3. s.tokens = b.tokens /\ b.clients \subseteq s.clients
    BY DEF WritesKnown, Writing, WriteOf, Fill
  <1>4. ~Pending(p)' /\ ~Drawing(p)'
    BY <1>2 DEF Pending, Drawing, Writing, Idle
  <1>5. \A q \in Processes : q # p => (Pending(q)' <=> Pending(q)) /\ (Drawing(q)' <=> Drawing(q))
    BY <1>2 DEF Pending, Drawing, Writing
  <1>6. GrantedOnce'
    BY <1>1, <1>2, <1>4, <1>5 DEF GrantedOnce
  <1>7. Owned(s)'
    BY <1>1, <1>2, <1>3, <1>4, <1>5 DEF Owned
  <1>8. QED BY <1>6, <1>7

LEMMA RotationFills ==
    ASSUME Inv, WritesKnown, GrantedOnce, NEW p \in Processes, Fill(p), job[p].kind = "rotate",
           NEW b \in Store, b = job[p].base, Owned(b), NEW s \in Store, s = job[p].store
    PROVE  GrantedOnce' /\ Owned(s)'
  <1> DEFINE g == job[p].grant
  <1>1. UNCHANGED <<now, codes, held, tokens, pairs, registered>>
        /\ redeemed' = redeemed \cup {g.origin.id}
    BY DEF Fill
  <1>2. job'[p] = [Idle EXCEPT !.pc = "issue", !.kind = "issue", !.grant = g]
    BY DEF Fill, Issue, Inv, TypeOK
  <1>3. \A q \in Processes : q # p => job'[q] = job[q]
    BY DEF Fill, Issue, Inv, TypeOK
  <1>4. job'[p].pc = "issue" /\ job'[p].kind = "issue" /\ job'[p].grant = g
    BY <1>2 DEF Idle
  <1>5. g.origin \in Origin
    BY DEF Inv, TypeOK, Job, Grant
  <1>6. WriteOf(job[p])
    BY DEF WritesKnown, Writing, Fill
  <1>7. PICK t \in b.tokens : /\ t.id = g.origin.id /\ t.root = g.root
                             /\ s.tokens = {x \in b.tokens : x.id # t.id}
                             /\ s.clients = b.clients /\ g.origin.kind = "refresh"
    BY <1>6 DEF WriteOf
  <1> HIDE DEF g
  <1>8. \A q \in Processes : q # p => (Pending(q)' <=> Pending(q)) /\ (Drawing(q)' <=> Drawing(q))
    BY <1>3 DEF Pending, Drawing, Writing
  <1>9. ~Drawing(p)' /\ ~Pending(p)
    BY <1>4 DEF Drawing, Writing, Pending
  <1>10. /\ t.id \notin redeemed /\ t.id <= tokens /\ \A q \in Processes : t.root \notin held[q]
         /\ \A q \in Processes : Pending(q) => job[q].grant.root # t.root
         /\ \A q \in Processes : Drawing(q) => New(job[q]).id # t.id
    BY DEF Owned
  <1>11. \A q \in Processes : Pending(q) => job[q].grant.origin # g.origin
    BY <1>7, <1>10 DEF GrantedOnce
  <1>12. \A x \in pairs : x.origin # g.origin
    BY <1>7, <1>10 DEF GrantedOnce
  <1>13. GrantedOnce'
    <2>1. \A q, r \in Processes : q # r /\ Pending(q)' /\ Pending(r)' =>
            job'[q].grant.root # job'[r].grant.root /\ job'[q].grant.origin # job'[r].grant.origin
      BY <1>3, <1>4, <1>7, <1>8, <1>10, <1>11 DEF GrantedOnce
    <2>2. /\ \A q, r \in Processes : q # r /\ Drawing(q)' /\ Drawing(r)' =>
                New(job'[q]).id # New(job'[r]).id
          /\ \A q \in Processes : Drawing(q)' => New(job'[q]).id \notin redeemed'
      BY <1>1, <1>3, <1>7, <1>8, <1>9, <1>10 DEF GrantedOnce
    <2>3. \A q, r \in Processes : Pending(q)' => job'[q].grant.root \notin held'[r]
      BY <1>1, <1>3, <1>4, <1>7, <1>8, <1>10 DEF GrantedOnce
    <2>4. \A q \in Processes, x \in pairs' : Pending(q)' => x.origin # job'[q].grant.origin
      BY <1>1, <1>3, <1>4, <1>8, <1>12 DEF GrantedOnce
    <2>5. \A q \in Processes : Pending(q)' /\ job'[q].grant.origin.kind = "refresh" =>
            job'[q].grant.origin.id \in redeemed'
      BY <1>1, <1>3, <1>4, <1>8 DEF GrantedOnce
    <2>6. \A k \in redeemed' : k <= tokens'
      BY <1>1, <1>7, <1>10 DEF GrantedOnce
    <2>7. QED BY <1>1, <2>1, <2>2, <2>3, <2>4, <2>5, <2>6 DEF GrantedOnce
  <1>14. Owned(s)'
    <2>1. \A x \in s.tokens : x \in b.tokens /\ x.id # t.id /\ x.root # t.root
      BY <1>7 DEF Owned
    <2>2. \A x \in pairs' : \/ x.token \in s.tokens \/ x.token.expires <= now'
                            \/ x.token.id \in redeemed'
      BY <1>1, <1>7 DEF Owned
    <2>3. \A x \in s.tokens :
             /\ x.root \in DOMAIN codes' /\ x.id <= tokens' /\ x.id \notin redeemed'
             /\ \A q \in Processes : x.root \notin held'[q]
             /\ \A q \in Processes : Pending(q)' => x.root # job'[q].grant.root
             /\ \A q \in Processes : Drawing(q)' => x.id # New(job'[q]).id
      BY <1>1, <1>3, <1>4, <1>7, <1>8, <1>9, <2>1 DEF Owned
    <2>4. QED BY <1>1, <1>7, <2>1, <2>2, <2>3 DEF Owned
  <1>15. QED BY <1>13, <1>14

LEMMA IssueFills ==
    ASSUME Inv, WritesKnown, GrantedOnce, NEW p \in Processes, Fill(p), job[p].kind = "issue",
           NEW b \in Store, b = job[p].base, Owned(b), NEW s \in Store, s = job[p].store
    PROVE  GrantedOnce' /\ Owned(s)'
  <1> DEFINE g == job[p].grant
             d == New(job[p])
  <1>1. UNCHANGED <<now, codes, held, tokens, redeemed, registered>>
        /\ pairs' = pairs \cup {[origin |-> g.origin, token |-> d]}
    BY DEF Fill, New
  <1>2. job'[p] = Idle /\ \A q \in Processes : q # p => job'[q] = job[q]
    BY DEF Fill, Inv, TypeOK
  <1>3. WriteOf(job[p]) /\ Pending(p) /\ Drawing(p) /\ Granted(g)
    BY DEF WritesKnown, Writing, Fill, Pending, Drawing, Inv, GrantsKept, JobSound
  <1>4. /\ s.clients = b.clients /\ d \in s.tokens /\ d.root = g.root /\ d.id <= tokens
        /\ \A t \in s.tokens : t \in b.tokens \/ t = d
        /\ \A t \in b.tokens : t \in s.tokens \/ t.expires <= now
    BY <1>3 DEF WriteOf
  <1>5. ~Pending(p)' /\ ~Drawing(p)'
    BY <1>2 DEF Pending, Drawing, Writing, Idle
  <1>6. \A q \in Processes : q # p => (Pending(q)' <=> Pending(q)) /\ (Drawing(q)' <=> Drawing(q))
    BY <1>2 DEF Pending, Drawing, Writing
  <1>7. /\ d.id \notin redeemed /\ g.root \in DOMAIN codes
        /\ \A q \in Processes : g.root \notin held[q]
        /\ \A q \in Processes : q # p /\ Pending(q) =>
              job[q].grant.root # g.root /\ job[q].grant.origin # g.origin
        /\ \A q \in Processes : q # p /\ Drawing(q) => New(job[q]).id # d.id
        /\ \A x \in pairs : x.origin # g.origin
        /\ g.origin.kind = "refresh" => g.origin.id \in redeemed
    BY <1>3 DEF GrantedOnce, Granted
  <1>8. \A t \in b.tokens : t.root # g.root
    BY <1>3 DEF Owned
  <1> HIDE DEF g, d
  <1>9. GrantedOnce'
    <2>1. \A q \in Processes, x \in pairs' : Pending(q)' => x.origin # job'[q].grant.origin
      BY <1>1, <1>2, <1>5, <1>6, <1>7 DEF GrantedOnce
    <2>2. \A x \in pairs' : x.origin.kind = "refresh" => x.origin.id \in redeemed'
      BY <1>1, <1>7 DEF GrantedOnce
    <2>3. \A x, y \in pairs' : x.origin = y.origin => x = y
      BY <1>1, <1>7 DEF GrantedOnce
    <2>4. /\ \A q, r \in Processes : q # r /\ Pending(q)' /\ Pending(r)' =>
                /\ job'[q].grant.root # job'[r].grant.root
                /\ job'[q].grant.origin # job'[r].grant.origin
          /\ \A q, r \in Processes : q # r /\ Drawing(q)' /\ Drawing(r)' =>
                New(job'[q]).id # New(job'[r]).id
          /\ \A q \in Processes : Drawing(q)' => New(job'[q]).id \notin redeemed'
          /\ \A q, r \in Processes : Pending(q)' => job'[q].grant.root \notin held'[r]
          /\ \A q \in Processes : Pending(q)' /\ job'[q].grant.origin.kind = "refresh" =>
                job'[q].grant.origin.id \in redeemed'
      BY <1>1, <1>2, <1>5, <1>6 DEF GrantedOnce
    <2>5. QED BY <1>1, <2>1, <2>2, <2>3, <2>4 DEF GrantedOnce
  <1>10. Owned(s)'
    <2>1. \A x \in pairs' : \/ x.token \in s.tokens \/ x.token.expires <= now'
                            \/ x.token.id \in redeemed'
      BY <1>1, <1>4 DEF Owned
    <2>2. \A t, u \in s.tokens : t.root = u.root => t = u
      BY <1>4, <1>8 DEF Owned
    <2>3. \A t \in s.tokens :
             /\ t.root \in DOMAIN codes' /\ t.id <= tokens' /\ t.id \notin redeemed'
             /\ \A q \in Processes : t.root \notin held'[q]
             /\ \A q \in Processes : Pending(q)' => t.root # job'[q].grant.root
             /\ \A q \in Processes : Drawing(q)' => t.id # New(job'[q]).id
      BY <1>1, <1>2, <1>4, <1>5, <1>6, <1>7 DEF Owned
    <2>4. QED BY <1>1, <1>4, <2>1, <2>2, <2>3 DEF Owned
  <1>11. QED BY <1>9, <1>10

LEMMA FillKnown ==
    ASSUME Inv, Inv', Known, NEW p \in Processes, Fill(p)
    PROVE  Known'
  <1>1. /\ job[p].pc = "fill" /\ file' = job[p].store /\ UNCHANGED <<now, tokens>>
        /\ now \in Nat /\ tokens \in Nat
    BY Bounds DEF Fill, Inv, TypeOK
  <1>2. job'[p].pc \in {"idle", "issue"} /\ \A q \in Processes : q # p => job'[q] = job[q]
    <2>1. \A q \in Processes : q # p => job'[q] = job[q]
      BY DEF Fill, Issue, Inv, TypeOK
    <2>2. CASE job[p].kind = "rotate"
      <3>1. job'[p] = [Idle EXCEPT !.pc = "issue", !.kind = "issue", !.grant = job[p].grant]
        BY <2>2 DEF Fill, Issue, Inv, TypeOK
      <3>2. QED BY <2>1, <3>1 DEF Idle
    <2>3. CASE job[p].kind # "rotate"
      BY <2>1, <2>3 DEF Fill, Inv, TypeOK, Idle
    <2>4. QED BY <2>2, <2>3
  <1>3. WritesKnown'
    BY <1>1, <1>2, WritesStay DEF Inv, Known, Writing
  <1>4. ASSUME ~disturbed'
        PROVE  /\ Readable' => Owned(file)'
               /\ \A q \in Processes : job'[q].pc # "fill"
               /\ GrantedOnce'
    <2>1. ~disturbed
      BY <1>4, Zenon DEF Fill
    <2>2. /\ Owned(job[p].base) /\ GrantedOnce
          /\ \A q \in Processes : job[q].pc = "fill" => q = p
      BY <1>1, <2>1 DEF Known, Undisturbed
    <2>3. PICK b \in Store : b = job[p].base /\ Owned(b)
      BY <2>2, ReadsAreStores DEF Inv
    <2>4. PICK s \in Store : s = job[p].store
      BY ReadsAreStores DEF Inv
    <2>5. job[p].kind \in {"register", "rotate", "issue"}
      BY <1>1 DEF Inv, TypeOK, Job, Known, WritesKnown, Writing, WriteOf
    <2>6. GrantedOnce' /\ Owned(s)'
      BY <2>2, <2>3, <2>4, <2>5, RegisterFills, RotationFills, IssueFills DEF Known
    <2>7. Owned(file)'
      BY <1>1, <2>4, <2>6 DEF Owned
    <2>8. QED BY <1>2, <2>2, <2>6, <2>7
  <1>5. QED BY <1>3, <1>4 DEF Known, Undisturbed

-----------------------------------------------------------------------------
(* The theorems *)

LEMMA InitInv == Init => Inv
  <1> SUFFICES ASSUME Init PROVE Inv
    OBVIOUS
  <1>1. codes \in [1..0 -> Code] /\ DOMAIN codes = {}
    BY DEF Init
  <1>2. TypeOK
    <2>1. 0 \in 0..MaxCodes /\ 0 \in 0..MaxTime /\ 0 \in 0..MaxTokens
      BY Bounds
    <2>2. \E n \in 0..MaxCodes : codes \in [1..n -> Code]
      BY <1>1, <2>1
    <2>3. /\ file \in Store \cup {Torn} /\ job \in [Processes -> Job]
          /\ held \in [Processes -> SUBSET DOMAIN codes]
      BY IdleTyped DEF Init
    <2>4. QED BY <2>1, <2>2, <2>3 DEF Init, TypeOK
  <1>3. \A p \in Processes : job[p].pc = "idle" /\ job[p].store.tokens = {}
    BY DEF Init, Idle, Empty
  <1>4. GrantsKept
    BY <1>3 DEF Init, GrantsKept, JobSound, Sound, Empty
  <1>5. SpentOnce
    BY <1>3 DEF Init, SpentOnce, Buying
  <1>6. QED BY <1>2, <1>4, <1>5 DEF Inv

LEMMA NextInv == Inv /\ [Next]_vars => Inv'
  <1> SUFFICES ASSUME Inv, [Next]_vars PROVE Inv'
    OBVIOUS
  <1>1. TypeOK /\ GrantsKept
    BY DEF Inv
  <1>2. CASE Tick
    BY <1>1, <1>2, TickType, TickGrants, TickSpent DEF Inv
  <1>3. ASSUME NEW p \in Processes, Register(p) PROVE Inv'
    BY <1>1, <1>3, RegisterType, RegisterGrants, RegisterSpent DEF Inv
  <1>4. ASSUME NEW p \in Processes, Authorize(p) PROVE Inv'
    BY <1>1, <1>4, AuthorizeType, AuthorizeGrants, AuthorizeSpent DEF Inv
  <1>5. ASSUME NEW p \in Processes, Exchange(p) PROVE Inv'
    BY <1>1, <1>5, ExchangeType, ExchangeGrants, ExchangeSpent DEF Inv
  <1>6. ASSUME NEW p \in Processes, Refresh(p) PROVE Inv'
    BY <1>1, <1>6, RefreshType, RefreshGrants, RefreshSpent DEF Inv
  <1>7. ASSUME NEW p \in Processes, ReadToIssue(p) PROVE Inv'
    BY <1>1, <1>7, ReadToIssueType, ReadToIssueGrants, ReadToIssueSpent DEF Inv
  <1>8. ASSUME NEW p \in Processes, Truncate(p) PROVE Inv'
    BY <1>1, <1>8, TruncateType, TruncateGrants, TruncateSpent DEF Inv
  <1>9. ASSUME NEW p \in Processes, Fill(p) PROVE Inv'
    BY <1>1, <1>9, FillType, FillGrants, FillSpent DEF Inv
  <1>10. ASSUME NEW p \in Processes, Crash(p) PROVE Inv'
    BY <1>1, <1>10, CrashType, CrashGrants, CrashSpent DEF Inv
  <1>11. CASE UNCHANGED vars
    BY <1>11 DEF vars, Inv, TypeOK, GrantsKept, Sound, JobSound, Drawn, Granted,
                 SpentOnce, Buying
  <1>12. QED BY <1>2, <1>3, <1>4, <1>5, <1>6, <1>7, <1>8, <1>9, <1>10, <1>11 DEF Next

LEMMA Invariance == Spec => []Inv
  BY InitInv, NextInv, PTL DEF Spec

LEMMA InitKnown == Init => Known
  <1> SUFFICES ASSUME Init PROVE Known
    OBVIOUS
  <1>1. \A p \in Processes : job[p].pc = "idle"
    BY DEF Init, Idle
  <1>2. file.clients = {} /\ file.tokens = {}
    BY DEF Init, Empty
  <1>3. GrantedOnce
    BY <1>1 DEF Init, GrantedOnce, Pending, Drawing, Writing
  <1>4. Owned(file)
    BY <1>2 DEF Init, Owned
  <1>5. QED BY <1>1, <1>3, <1>4 DEF Known, WritesKnown, Writing, Undisturbed

LEMMA NextKnown == Inv /\ Inv' /\ Known /\ [Next]_vars => Known'
  <1> SUFFICES ASSUME Inv, Inv', Known, [Next]_vars PROVE Known'
    OBVIOUS
  <1>1. CASE UNCHANGED vars
    BY <1>1 DEF vars, Known, WritesKnown, WriteOf, Writing, Undisturbed, Readable, Owned,
                GrantedOnce, Pending, Drawing
  <1>2. QED
    BY <1>1, TickKnown, RegisterKnown, AuthorizeKnown, ExchangeKnown, RefreshKnown,
       ReadToIssueKnown, TruncateKnown, FillKnown, CrashKnown DEF Next

LEMMA KnownHolds == Spec => []Known
  BY InitKnown, NextKnown, Invariance, PTL DEF Spec

\* Every pair is its authorization's, through any number of rotations by any
\* processes: handlePilotRefreshToken passes on what the presented record says, and
\* finds it by its client as well as its hash.
THEOREM PairsKeepTheirGrant == Spec => []PairKeepsItsGrant
  <1>1. Inv => PairKeepsItsGrant
    BY DEF Inv, GrantsKept, Granted, PairKeepsItsGrant
  <1>2. QED BY <1>1, Invariance, PTL

LEMMA AtMostOne ==
    ASSUME NEW S, \A x, y \in S : x = y
    PROVE  \/ S = {} /\ Cardinality(S) = 0
           \/ S # {} /\ Cardinality(S) = 1
  <1>1. CASE S = {}
    BY <1>1, FS_EmptySet
  <1>2. CASE S # {}
    <2>1. PICK x : S = {x}
      BY <1>2
    <2>2. QED BY <1>2, <2>1, FS_Singleton
  <1>3. QED BY <1>1, <1>2

\* However processes race and crash, a code buys one pair and only when it is first
\* presented: handlePilotAuthorizationCodeToken deletes it before it looks at it.
THEOREM CodesBuyOnce == Spec => []CodeBuysOnce
  <1>1. Inv => CodeBuysOnce
    <2> SUFFICES ASSUME Inv, NEW n \in DOMAIN codes
                 PROVE  LET bought == {x \in pairs : x.origin = [kind |-> "code", id |-> n]}
                            buying == {p \in Processes :
                                         /\ job[p].pc # "idle"
                                         /\ job[p].grant.origin = [kind |-> "code", id |-> n]}
                        IN  /\ Cardinality(bought) + Cardinality(buying) <= 1
                            /\ n \in presented => \A p \in Processes : n \notin held[p]
      BY DEF CodeBuysOnce
    <2> DEFINE bought == {x \in pairs : x.origin = ByCode(n)}
               buying == {p \in Processes : Buying(p, n)}
    <2>1. n \in Nat \ {0}
      BY Bounds DEF Inv, TypeOK
    <2>2. /\ \A x, y \in bought : x = y
          /\ \A p, q \in buying : p = q
          /\ bought = {} \/ buying = {}
          /\ n \in presented => \A p \in Processes : n \notin held[p]
      BY <2>1 DEF Inv, SpentOnce
    <2>3. \/ bought = {} /\ Cardinality(bought) = 0
          \/ bought # {} /\ Cardinality(bought) = 1
      BY <2>2, AtMostOne
    <2>4. \/ buying = {} /\ Cardinality(buying) = 0
          \/ buying # {} /\ Cardinality(buying) = 1
      BY <2>2, AtMostOne
    <2>5. Cardinality(bought) + Cardinality(buying) <= 1
      BY <2>2, <2>3, <2>4
    <2>6. QED BY <2>2, <2>5 DEF Buying, ByCode
  <1>2. QED BY <1>1, Invariance, PTL

\* handlePilotRefreshToken removes a token before issuePilotTokens draws the next:
\* while no two processes overlap in the file, and none dies in a write, a code is
\* worth one refresh token, through rotations and crashes between their two writes.
THEOREM AuthorizationsHaveOneToken == Spec => []OneTokenPerAuthorization
  <1>1. Known => OneTokenPerAuthorization
    BY DEF Known, Undisturbed, Owned, GrantedOnce, OneTokenPerAuthorization
  <1>2. QED BY <1>1, KnownHolds, PTL

\* Then, too, each rewriting of the whole file keeps what was answered: registered
\* clients, and the tokens that are neither expired nor redeemed.
THEOREM AnswersAreStored == Spec => []AnsweredIsStored
  <1>1. Known => AnsweredIsStored
    BY DEF Known, Undisturbed, Owned, AnsweredIsStored
  <1>2. QED BY <1>1, KnownHolds, PTL

-----------------------------------------------------------------------------
(***************************************************************************)
(* Theorems about the operator's two pages, for every number of gestures,  *)
(* strokes, chains of requests, intents and claims, every limit of a list, *)
(* and every number of edits by other processes.                           *)
(***************************************************************************)

-----------------------------------------------------------------------------
(* The inductive invariant *)

CallFields == {"pc", "kind", "id", "value", "undo", "confirmed", "read"}

Gestured == 1..MaxGestures

\* What the steps need of types: the domains of functions and records, and numbers.
Shaped ==
    /\ DOMAIN status = Ids /\ DOMAIN own = Ids
    /\ DOMAIN calls = Gestured /\ \A n \in Gestured : DOMAIN calls[n] = CallFields
    /\ DOMAIN drafts = Keys /\ DOMAIN expected = Keys
    /\ gestures \in Nat /\ strokes \in Nat /\ unsure \in BOOLEAN
    /\ page \in {"centre", "sidebar"}

\* An armed release is the one clicked last.
ArmedIsLast == armed # 0 => last = armed

Undone(u) == u.of \in Gestured /\ calls[u.of].kind = "status" /\ calls[u.of].pc = "done"

\* An undo is of a change whose chain has ended, and is offered or carried out once.
UndoneOnce ==
    /\ \A n \in Gestured : n > gestures => calls[n] = NoCall
    /\ \A n \in Gestured : InFlight(n) /\ calls[n].kind = "status" => calls[n].undo.of = n
    /\ \A n \in Gestured : calls[n].kind = "undo" => Undone(calls[n].undo)
    /\ undo # NoUndo => Undone(undo)
    /\ undo # NoUndo =>
         \A n \in Gestured : calls[n].kind = "undo" => calls[n].undo.of # undo.of
    /\ \A m, n \in Gestured : m # n /\ calls[m].kind = "undo" /\ calls[n].kind = "undo" =>
         calls[m].undo.of # calls[n].undo.of

\* The editor is busy while its one submission is under way, unless it was opened
\* again meanwhile.
BusyWhileCreating ==
    ~Reopened => /\ \A n \in Gestured : Creating(n) => modal = "busy"
                 /\ \A m, n \in Gestured : Creating(m) /\ Creating(n) => m = n

Sees(snap) == \A i \in Ids : own[i] # "none" => Visible(snap, i, own[i])

\* The page's own statuses are those of the server; while the operator waits for
\* each answer, they are displayed, or on their way in the one chain there is.
OwnOnTheirWay ==
    /\ \A i \in Ids : own[i] # "none" => status[i] = own[i]
    /\ page = "sidebar" => \A i \in Ids : own[i] = "none"
    /\ ~unsure =>
         /\ \A m, n \in Gestured : InFlight(m) /\ InFlight(n) => m = n
         /\ Sees(shown) \/ \E n \in Gestured : calls[n].pc \in {"refresh", "answered"}
         /\ \A n \in Gestured : calls[n].pc = "answered" => Sees(calls[n].read)

PagesInv == /\ Shaped /\ ArmedIsLast /\ ReleaseConfirmed /\ UndoneOnce /\ BusyWhileCreating
            /\ OwnOnTheirWay /\ DraftsExact

-----------------------------------------------------------------------------
(* Records of requests *)

LEMMA CallSet ==
    ASSUME NEW r, DOMAIN r = CallFields, NEW pc, NEW x
    PROVE  /\ LET q == [r EXCEPT !.pc = pc] IN
              DOMAIN q = CallFields /\ q.pc = pc /\ q.kind = r.kind /\ q.undo = r.undo
              /\ q.confirmed = r.confirmed /\ q.read = r.read
           /\ LET q == [r EXCEPT !.pc = pc, !.id = x] IN
              DOMAIN q = CallFields /\ q.pc = pc /\ q.kind = r.kind /\ q.undo = r.undo
              /\ q.confirmed = r.confirmed /\ q.read = r.read
           /\ LET q == [r EXCEPT !.pc = pc, !.read = x] IN
              DOMAIN q = CallFields /\ q.pc = pc /\ q.kind = r.kind /\ q.undo = r.undo
              /\ q.confirmed = r.confirmed /\ q.read = x
  BY DEF CallFields

LEMMA SendFields ==
    ASSUME NEW kind, NEW id, NEW value
    PROVE  LET q == Send(kind, id, value) IN
              DOMAIN q = CallFields /\ q.pc = "sent" /\ q.kind = kind
  BY DEF CallFields, Send, NoCall

LEMMA NoCallFields == DOMAIN NoCall = CallFields /\ NoCall.pc = "none" /\ NoCall.kind = "none"
  BY DEF CallFields, NoCall

LEMMA CallSetSend ==
    ASSUME NEW r, DOMAIN r = CallFields, NEW x
    PROVE  /\ LET q == [r EXCEPT !.undo = x] IN
              DOMAIN q = CallFields /\ q.pc = r.pc /\ q.kind = r.kind /\ q.undo = x
           /\ LET q == [r EXCEPT !.confirmed = x] IN
              DOMAIN q = CallFields /\ q.pc = r.pc /\ q.kind = r.kind /\ q.confirmed = x
  BY DEF CallFields

\* The record of a gesture that sends nothing.
LEMMA DoneFields ==
    ASSUME NEW kind
    PROVE  LET q == [NoCall EXCEPT !.pc = "done", !.kind = kind] IN
              DOMAIN q = CallFields /\ q.pc = "done" /\ q.kind = kind
  BY DEF CallFields, NoCall

\* The record of a chain that is over.
Ended(r, pc) == [NoCall EXCEPT !.pc = pc, !.kind = r.kind, !.confirmed = r.confirmed,
                               !.undo = IF r.kind = "undo" THEN r.undo ELSE NoUndo]

LEMMA EndedFields ==
    ASSUME NEW r, NEW pc
    PROVE  /\ DOMAIN Ended(r, pc) = CallFields /\ Ended(r, pc).pc = pc
           /\ Ended(r, pc).kind = r.kind /\ Ended(r, pc).confirmed = r.confirmed
           /\ r.kind = "undo" => Ended(r, pc).undo = r.undo
  BY DEF CallFields, NoCall, Ended

-----------------------------------------------------------------------------
(* What a gesture does *)

\* What the editor becomes.
Edits(kind) ==
    CASE kind = "create" -> modal = "open" /\ modal' = "busy"
      [] kind = "open"   -> modal' = "open" /\ \A n \in Gestured : ~Creating(n)
      [] kind = "reopen" -> modal' = "open"
      [] kind = "close"  -> modal = "open" /\ modal' = "closed"
      [] OTHER           -> modal' = modal

\* The first request of a chain is sent, or there is nothing to send.
Starts(call) ==
    /\ DOMAIN call = CallFields /\ call.pc \in {"sent", "refresh", "done"}
    /\ call.pc = "done" => call.kind \in {"arm", "open", "reopen", "close"}
    /\ gestures + 1 \in Gestured /\ gestures' = gestures + 1
    /\ calls' = [calls EXCEPT ![gestures + 1] = call]
    /\ unsure' = (unsure \/ (call.pc # "done" /\ \E m \in DOMAIN calls : InFlight(m)))
    /\ call.kind = "release" => call.confirmed
    /\ call.kind = "status" => call.undo.of = gestures + 1
    /\ IF call.kind = "undo" THEN undo # NoUndo /\ call.undo = undo /\ undo' = NoUndo
                             ELSE undo' = undo
    /\ Edits(call.kind)

\* A release stays armed or is armed by its click.
Arms == armed' # 0 => (armed' = armed /\ last' = last) \/ last' = armed'

LEMMA ChainStarts ==
    ASSUME Shaped, NEW call, Chain(call), DOMAIN call = CallFields,
           call.pc \in {"sent", "refresh"},
           call.kind = "release" => call.confirmed,
           call.kind = "status" => call.undo.of = gestures + 1,
           IF call.kind = "undo" THEN undo # NoUndo /\ call.undo = undo /\ undo' = NoUndo
                                 ELSE undo' = undo,
           Edits(call.kind)
    PROVE  Starts(call)
  <1>1. gestures + 1 \in Gestured
    BY CentreAssumption DEF Shaped, Chain, Gestured
  <1>2. QED BY <1>1 DEF Chain, Starts

LEMMA GestureStarts ==
    ASSUME Shaped, NEW kind \in {"arm", "open", "reopen", "close"}, Gesture(kind),
           undo' = undo, Edits(kind)
    PROVE  Starts([NoCall EXCEPT !.pc = "done", !.kind = kind])
  <1> DEFINE call == [NoCall EXCEPT !.pc = "done", !.kind = kind]
  <1>1. DOMAIN call = CallFields /\ call.pc = "done" /\ call.kind = kind
    BY DoneFields
  <1>2. gestures + 1 \in Gestured
    BY CentreAssumption DEF Shaped, Gesture, Gestured
  <1>3. gestures' = gestures + 1 /\ unsure' = unsure /\ calls' = [calls EXCEPT ![gestures + 1] = call]
    BY DEF Gesture
  <1>4. unsure' = (unsure \/ (call.pc # "done" /\ \E m \in DOMAIN calls : InFlight(m)))
    BY <1>1, <1>3 DEF Shaped
  <1> HIDE DEF call
  <1>5. Starts(call)
    BY <1>1, <1>2, <1>3, <1>4 DEF Starts
  <1>6. QED BY <1>5 DEF call

LEMMA OperateEffect ==
    ASSUME Shaped, ArmedIsLast, Operate
    PROVE  /\ \E call : Starts(call)
           /\ Arms
           /\ UNCHANGED <<server, shown, own>>
  <1>1. CASE SelectIntent
    <2>1. PICK i \in DOMAIN shown.intents : Chain(Send("focus", i, "none"))
      BY <1>1 DEF SelectIntent
    <2>2. Starts(Send("focus", i, "none"))
      BY <1>1, <2>1, SendFields, ChainStarts DEF SelectIntent, Edits
    <2>3. QED BY <1>1, <2>2 DEF SelectIntent, Disarm, Arms
  <1>2. CASE ChangeStatus
    <2> DEFINE call(i, s) == [Send("status", i, s) EXCEPT
              !.undo = [of |-> gestures + 1, id |-> i, value |-> shown.intents[i]]]
    <2>1. PICK i, s : Chain(call(i, s))
      BY <1>2 DEF ChangeStatus
    <2>2. DOMAIN call(i, s) = CallFields /\ call(i, s).pc = "sent" /\ call(i, s).kind = "status"
          /\ call(i, s).undo.of = gestures + 1
      BY SendFields, CallSetSend
    <2>3. undo' = undo /\ modal' = modal
      BY <1>2 DEF ChangeStatus
    <2>4. Starts(call(i, s))
      <3> HIDE DEF call
      <3> QED BY <2>1, <2>2, <2>3, ChainStarts DEF Edits
    <2>5. QED BY <1>2, <2>4 DEF ChangeStatus, ClickOrKey, Disarm, Arms
  <1>3. CASE ClickUndo
    <2> DEFINE call == [Send("undo", undo.id, undo.value) EXCEPT !.undo = undo]
    <2>1. DOMAIN call = CallFields /\ call.pc = "sent" /\ call.kind = "undo" /\ call.undo = undo
      BY SendFields, CallSetSend
    <2>2. Chain(call) /\ Disarm /\ undo # NoUndo /\ undo' = NoUndo
          /\ UNCHANGED <<server, shown, modal, own>>
      BY <1>3 DEF ClickUndo
    <2>3. Starts(call)
      <3> HIDE DEF call
      <3> QED BY <2>1, <2>2, ChainStarts DEF Edits
    <2>4. QED BY <2>2, <2>3 DEF Disarm, Arms
  <1>4. CASE ClickClaim
    <2>1. PICK i : Chain(Send("claim", i, "none"))
      BY <1>4 DEF ClickClaim
    <2>2. Starts(Send("claim", i, "none"))
      BY <1>4, <2>1, SendFields, ChainStarts DEF ClickClaim, Edits
    <2>3. QED BY <1>4, <2>2 DEF ClickClaim, Disarm, Arms
  <1>5. CASE ClickRelease
    <2>0. UNCHANGED <<server, shown, undo, modal, own>>
      BY <1>5 DEF ClickRelease
    <2>1. ASSUME NEW claim, armed' = claim, last' = claim, Gesture("arm")
          PROVE  Arms /\ \E call : Starts(call)
      BY <2>0, <2>1, GestureStarts DEF Arms, Edits
    <2>2. ASSUME NEW claim, claim # 0, armed = claim, Disarm,
                 Chain([Send("release", claim, "none") EXCEPT !.confirmed = (last = claim)])
          PROVE  Arms /\ \E call : Starts(call)
      <3> DEFINE call == [Send("release", claim, "none") EXCEPT !.confirmed = TRUE]
      <3>1. DOMAIN call = CallFields /\ call.pc = "sent" /\ call.kind = "release"
            /\ call.confirmed
        BY SendFields, CallSetSend
      <3>2. (last = claim) = TRUE
        BY <2>2 DEF ArmedIsLast
      <3>3. Chain(call)
        BY <2>2, <3>2, Zenon
      <3>4. Starts(call)
        <4> HIDE DEF call
        <4> QED BY <2>0, <3>1, <3>3, ChainStarts DEF Edits
      <3>5. QED BY <2>2, <3>4 DEF Disarm, Arms
    <2>3. PICK i : LET claim == ClaimOn(i)
                   IN  /\ claim # 0
                       /\ IF armed # claim
                          THEN armed' = claim /\ last' = claim /\ Gesture("arm")
                          ELSE /\ Chain([Send("release", claim, "none") EXCEPT
                                          !.confirmed = (last = claim)])
                               /\ Disarm
      BY <1>5, Zenon DEF ClickRelease
    <2>4. Arms /\ \E call : Starts(call)
      <3> DEFINE claim == ClaimOn(i)
      <3> HIDE DEF claim
      <3>1. /\ claim # 0
            /\ IF armed # claim
               THEN armed' = claim /\ last' = claim /\ Gesture("arm")
               ELSE /\ Chain([Send("release", claim, "none") EXCEPT !.confirmed = (last = claim)])
                    /\ Disarm
        BY <2>3, Zenon DEF claim
      <3>2. CASE armed # claim
        BY <2>1, <3>1, <3>2, Zenon
      <3>3. CASE armed = claim
        BY <2>2, <3>1, <3>3, Zenon
      <3>4. QED BY <3>2, <3>3
    <2>5. QED BY <2>0, <2>4
  <1>6. CASE ClickLogAction
    <2>1. PICK i : Chain(Send("action", i, "none"))
      BY <1>6 DEF ClickLogAction
    <2>2. Starts(Send("action", i, "none"))
      BY <1>6, <2>1, SendFields, ChainStarts DEF ClickLogAction, Edits
    <2>3. QED BY <1>6, <2>2 DEF ClickLogAction, Disarm, Arms
  <1>7. CASE ClickRefresh
    <2> DEFINE call == [Send("refresh", 0, "none") EXCEPT !.pc = "refresh"]
    <2>1. DOMAIN call = CallFields /\ call.pc = "refresh" /\ call.kind = "refresh"
      BY SendFields, CallSet
    <2>2. Chain(call) /\ Disarm /\ UNCHANGED <<server, shown, undo, modal, own>>
      BY <1>7 DEF ClickRefresh
    <2>3. Starts(call)
      <3> HIDE DEF call
      <3> QED BY <2>1, <2>2, ChainStarts DEF Edits
    <2>4. QED BY <2>2, <2>3 DEF Disarm, Arms
  <1>8. CASE OpenModal
    <2>1. modal' = "open" /\ UNCHANGED <<server, shown, undo, own>> /\ Disarm
      BY <1>8 DEF OpenModal
    <2>2. CASE \E n \in DOMAIN calls : Creating(n)
      <3>1. Gesture("reopen")
        BY <1>8, <2>2 DEF OpenModal
      <3>2. QED BY <2>1, <3>1, GestureStarts DEF Edits, Disarm, Arms
    <2>3. CASE ~\E n \in DOMAIN calls : Creating(n)
      <3>1. Gesture("open")
        BY <1>8, <2>3 DEF OpenModal
      <3>2. QED BY <2>1, <2>3, <3>1, GestureStarts DEF Edits, Disarm, Arms, Shaped
    <2>4. QED BY <2>2, <2>3
  <1>9. CASE CloseModal
    BY <1>9, GestureStarts DEF CloseModal, Edits, ClickOrKey, Disarm, Arms
  <1>10. CASE SubmitModal
    <2>1. PICK s : Chain(Send("create", 0, s))
      BY <1>10 DEF SubmitModal
    <2>2. Starts(Send("create", 0, s))
      BY <1>10, <2>1, SendFields, ChainStarts DEF SubmitModal, Edits
    <2>3. QED BY <1>10, <2>2 DEF SubmitModal, ClickOrKey, Disarm, Arms
  <1>11. QED
    BY <1>1, <1>2, <1>3, <1>4, <1>5, <1>6, <1>7, <1>8, <1>9, <1>10 DEF Operate

-----------------------------------------------------------------------------
(* What an answer does *)

\* Chain n goes on, as another record of the same write.
Advances(n, call) ==
    /\ n \in Gestured /\ InFlight(n)
    /\ DOMAIN call = CallFields /\ call.pc # "none"
    /\ call.kind = calls[n].kind /\ call.confirmed = calls[n].confirmed
    /\ call.kind = "undo" \/ call.pc \notin {"done", "failed"} => call.undo = calls[n].undo
    /\ calls' = [calls EXCEPT ![n] = call]
    /\ UNCHANGED <<gestures, armed, last>>
    /\ IF call.pc \in {"done", "failed"} /\ call.kind = "create" THEN modal' # "busy"
                                                               ELSE modal' = modal
    /\ \/ undo' \in {undo, NoUndo}
       \/ call.kind = "status" /\ call.pc = "done" /\ undo' = calls[n].undo

\* The statuses that chain n writes, reads or shows with this answer.
Waits(n, call) ==
    /\ calls[n].pc \notin {"refresh", "answered"} /\ call.pc # "answered"
    /\ UNCHANGED <<status, own, shown, unsure>>

Writes(n, call) ==
    /\ call.pc = "refresh"
    /\ UNCHANGED <<shown, unsure>>
    /\ \E i, v : status' = [status EXCEPT ![i] = v] /\ own' = [own EXCEPT ![i] = v]

Reads(n, call) ==
    /\ call.pc = "answered" /\ call.read \in Snapshots
    /\ UNCHANGED <<status, own, shown, unsure>>

Shows(n, call) ==
    /\ calls[n].pc = "answered" /\ call.pc = "done" /\ shown' = calls[n].read
    /\ UNCHANGED <<status, own, unsure>>

Loses == unsure' = TRUE /\ UNCHANGED <<status, own>>

LEMMA AnswerEffect ==
    ASSUME Shaped, NEW n \in DOMAIN calls, Answer(n)
    PROVE  \E call : /\ Advances(n, call)
                     /\ \/ Waits(n, call) \/ Writes(n, call) \/ Reads(n, call)
                        \/ Shows(n, call) \/ Loses
  <1> DEFINE r == calls[n]
             to(pc) == [r EXCEPT !.pc = pc]
  <1>0. n \in Gestured /\ DOMAIN r = CallFields
    BY DEF Shaped
  <1>a. DOMAIN to("refresh") = CallFields /\ to("refresh").pc = "refresh"
        /\ to("refresh").kind = r.kind
        /\ to("refresh").undo = r.undo /\ to("refresh").confirmed = r.confirmed
    BY <1>0, CallSet
  <1>1. CASE Focused(n)
    <2>1. /\ r.pc = "sent" /\ r.kind = "focus"
          /\ calls' = [calls EXCEPT ![n] = Ended(r, "done")]
          /\ UNCHANGED <<server, shown, undo, armed, modal, gestures, last, own, unsure>>
      BY <1>1 DEF Focused, Kind, Over, Ended, Show
    <2>2. Advances(n, Ended(r, "done"))
      BY <1>0, <2>1, EndedFields DEF Advances, InFlight
    <2>3. Waits(n, Ended(r, "done"))
      BY <2>1, EndedFields DEF Waits, server
    <2>4. QED BY <2>2, <2>3
  <1>2. CASE StatusWritten(n)
    <2>1. /\ r.pc = "sent" /\ calls' = [calls EXCEPT ![n] = to("refresh")]
          /\ PatchStatus(r.id, r.value)
          /\ own' = [own EXCEPT ![r.id] = r.value]
          /\ UNCHANGED <<shown, undo, armed, modal, gestures, last, unsure>>
      BY <1>2 DEF StatusWritten, Kind, Go
    <2> HIDE DEF to
    <2>2. Advances(n, to("refresh"))
      BY <1>0, <1>a, <2>1 DEF Advances, InFlight
    <2>3. QED BY <1>a, <2>1, <2>2 DEF Writes, PatchStatus
  <1>3. CASE Created(n)
    <2>1. PICK i \in Ids :
            /\ r.pc = "sent" /\ calls' = [calls EXCEPT ![n] = [r EXCEPT !.pc = "refresh", !.id = i]]
            /\ CreateIntent(i, r.value)
            /\ own' = [own EXCEPT ![i] = r.value]
            /\ UNCHANGED <<shown, undo, armed, modal, gestures, last, unsure>>
      BY <1>3 DEF Created, Kind
    <2> DEFINE q == [r EXCEPT !.pc = "refresh", !.id = i]
    <2>2. DOMAIN q = CallFields /\ q.pc = "refresh" /\ q.kind = r.kind
          /\ q.undo = r.undo /\ q.confirmed = r.confirmed
      BY <1>0, CallSet
    <2> HIDE DEF q
    <2>3. Advances(n, q)
      BY <1>0, <2>1, <2>2 DEF Advances, InFlight, q
    <2>4. QED BY <2>1, <2>2, <2>3 DEF Writes, CreateIntent
  <1>4. CASE ClaimWritten(n) \/ ActionLogged(n)
    <2>1. /\ r.pc = "sent" /\ calls' = [calls EXCEPT ![n] = to("refresh")]
          /\ UNCHANGED <<status, shown, undo, armed, modal, gestures, last, own, unsure>>
      BY <1>4 DEF ClaimWritten, ActionLogged, Kind, Go, CreateClaim, ReleaseClaim, LogAction, server
    <2> HIDE DEF to
    <2>2. Advances(n, to("refresh"))
      BY <1>0, <1>a, <2>1 DEF Advances, InFlight
    <2>3. QED BY <1>a, <2>1, <2>2 DEF Waits
  <1>5. CASE WriteFails(n)
    <2>1. /\ \/ r.pc = "sent" /\ unsure' = unsure
             \/ r.pc = "refresh" /\ unsure' = TRUE
          /\ calls' = [calls EXCEPT ![n] = Ended(r, "failed")]
          /\ modal' = IF r.kind = "create" /\ modal = "busy" THEN "open" ELSE modal
          /\ undo' = NoUndo
          /\ UNCHANGED <<server, shown, armed, gestures, last, own>>
      BY <1>5 DEF WriteFails, Over, Ended, Show
    <2>2. Advances(n, Ended(r, "failed"))
      BY <1>0, <2>1, EndedFields DEF Advances, InFlight
    <2>3. Waits(n, Ended(r, "failed")) \/ Loses
      BY <2>1, EndedFields DEF Waits, Loses, server
    <2>4. QED BY <2>2, <2>3
  <1>6. CASE StateRead(n)
    <2>1. PICK snap \in Snapshots :
            /\ r.pc = "refresh"
            /\ calls' = [calls EXCEPT ![n] = [r EXCEPT !.pc = "answered", !.read = snap]]
            /\ UNCHANGED <<server, shown, undo, armed, modal, gestures, last, own, unsure>>
      BY <1>6 DEF StateRead
    <2> DEFINE q == [r EXCEPT !.pc = "answered", !.read = snap]
    <2>2. DOMAIN q = CallFields /\ q.pc = "answered" /\ q.kind = r.kind /\ q.read = snap
          /\ q.undo = r.undo /\ q.confirmed = r.confirmed
      BY <1>0, CallSet
    <2> HIDE DEF q
    <2>3. Advances(n, q)
      BY <1>0, <2>1, <2>2 DEF Advances, InFlight, q
    <2>4. Reads(n, q)
      BY <2>1, <2>2 DEF Reads, server
    <2>5. QED BY <2>3, <2>4
  <1>7. CASE StateAnswered(n) \/ StateLost(n)
    <2>1. r.pc = "answered" /\ Finish(n)
      BY <1>7 DEF StateAnswered, StateLost
    <2>2. /\ calls' = [calls EXCEPT ![n] = Ended(r, "done")]
          /\ undo' = CASE r.kind = "refresh" -> undo
                       [] r.kind = "status" -> r.undo
                       [] OTHER -> NoUndo
          /\ modal' = IF r.kind = "create" THEN "closed" ELSE modal
          /\ UNCHANGED <<server, armed, gestures, last, own>>
      BY <2>1 DEF Finish, Over, Ended
    <2>3. (shown' = r.read /\ unsure' = unsure) \/ unsure' = TRUE
      BY <1>7 DEF StateAnswered, StateLost, Show
    <2>4. Advances(n, Ended(r, "done"))
      BY <1>0, <2>1, <2>2, EndedFields DEF Advances, InFlight
    <2>5. Shows(n, Ended(r, "done")) \/ Loses
      BY <2>1, <2>2, <2>3, EndedFields DEF Shows, Loses, server
    <2>6. QED BY <2>4, <2>5
  <1>8. QED
    BY <1>1, <1>2, <1>3, <1>4, <1>5, <1>6, <1>7 DEF Answer

-----------------------------------------------------------------------------
(* Undo and the editor *)

LEMMA StartsOnce ==
    ASSUME Shaped, UndoneOnce, BusyWhileCreating, NEW call, Starts(call)
    PROVE  UndoneOnce' /\ BusyWhileCreating'
  <1> DEFINE k == gestures + 1
  <1>1. /\ k \in Gestured /\ k # gestures /\ calls[k] = NoCall /\ calls[k].kind = "none"
        /\ calls'[k] = call
        /\ \A m \in Gestured : m # k => calls'[m] = calls[m]
    BY NoCallFields DEF Starts, Shaped, UndoneOnce
  <1>2. \A u : Undone(u) => Undone(u)' /\ u.of # k
    BY <1>1 DEF Undone
  <1>3. \A n \in Gestured : n > gestures' => calls'[n] = NoCall
    BY <1>1 DEF UndoneOnce, Starts, Gestured, Shaped
  <1>4. \A n \in Gestured : InFlight(n)' /\ calls'[n].kind = "status" => calls'[n].undo.of = n
    BY <1>1 DEF UndoneOnce, Starts, InFlight
  <1>5. \A n \in Gestured : calls'[n].kind = "undo" => Undone(calls'[n].undo)
    BY <1>1 DEF UndoneOnce, Starts
  <1>6. \A n \in Gestured : calls'[n].kind = "undo" => Undone(calls[n].undo)'
    <2>1. SUFFICES ASSUME NEW n \in Gestured, calls'[n].kind = "undo"
                   PROVE  Undone(calls[n].undo)'
      BY DEF Gestured
    <2>2. Undone(calls'[n].undo)
      BY <1>5, <2>1
    <2>3. QED BY <1>1, <2>2 DEF Undone
  <1>7. undo' # NoUndo => Undone(undo)'
    BY <1>1 DEF UndoneOnce, Starts, Undone
  <1>8. undo' # NoUndo =>
         \A n \in Gestured : calls'[n].kind = "undo" => calls'[n].undo.of # undo'.of
    BY <1>1 DEF UndoneOnce, Starts
  <1>9. \A m, n \in Gestured : m # n /\ calls'[m].kind = "undo" /\ calls'[n].kind = "undo" =>
         calls'[m].undo.of # calls'[n].undo.of
    BY <1>1 DEF UndoneOnce, Starts
  <1>10. BusyWhileCreating'
    <2>1. ASSUME ~Reopened'
          PROVE  /\ ~Reopened /\ call.kind # "reopen"
      BY <1>1, <2>1 DEF Reopened, Shaped, Starts
    <2>2. Edits(call.kind) /\ (call.pc = "done" => call.kind # "create")
      BY DEF Starts
    <2>3. \A n \in Gestured : n # k => (Creating(n)' <=> Creating(n))
      BY <1>1 DEF Creating, InFlight
    <2>4. \A n \in Gestured : n = k /\ Creating(n)' => call.kind = "create"
      BY <1>1 DEF Creating, InFlight
    <2>5. ASSUME ~Reopened'
          PROVE  /\ \A n \in Gestured : Creating(n)' => modal' = "busy"
                 /\ \A m, n \in Gestured : Creating(m)' /\ Creating(n)' => m = n
      <3>1. /\ \A n \in Gestured : Creating(n) => modal = "busy"
            /\ \A m, n \in Gestured : Creating(m) /\ Creating(n) => m = n
        BY <2>1, <2>5 DEF BusyWhileCreating
      <3>2. CASE call.kind = "create"
        <4>1. modal = "open" /\ modal' = "busy"
          BY <2>2, <3>2 DEF Edits
        <4>2. QED BY <2>3, <3>1, <4>1
      <3>3. CASE call.kind # "create"
        <4>1. \A n \in Gestured : Creating(n)' => Creating(n)
          BY <2>3, <2>4, <3>3
        <4>2. modal' = modal \/ (\A n \in Gestured : ~Creating(n)) \/ modal = "open"
          BY <2>1, <2>2, <2>5, <3>3 DEF Edits
        <4>3. QED BY <3>1, <4>1, <4>2
      <3>4. QED BY <3>2, <3>3
    <2>6. QED BY <2>5 DEF BusyWhileCreating, Gestured
  <1>11. QED
    BY <1>3, <1>4, <1>6, <1>7, <1>8, <1>9, <1>10 DEF UndoneOnce, Gestured

LEMMA AdvancesOnce ==
    ASSUME Shaped, UndoneOnce, BusyWhileCreating, NEW n, NEW call, Advances(n, call)
    PROVE  UndoneOnce' /\ BusyWhileCreating'
  <1>1. /\ n \in Gestured /\ n <= gestures
        /\ calls[n].pc \notin {"none", "done", "failed"} /\ calls'[n] = call
        /\ call.kind = calls[n].kind
        /\ \A m \in Gestured : m # n => calls'[m] = calls[m]
    BY NoCallFields DEF Advances, Shaped, UndoneOnce, InFlight, Gestured
  <1>2. \A m \in Gestured : /\ calls'[m].kind = calls[m].kind
                            /\ calls[m].kind = "undo" => calls'[m].undo = calls[m].undo
    BY <1>1 DEF Advances
  <1>3. \A u : Undone(u) => Undone(u)' /\ u.of # n
    BY <1>1, <1>2 DEF Undone
  <1>4. \A m \in Gestured : m > gestures' => calls'[m] = NoCall
    BY <1>1 DEF UndoneOnce, Advances, Gestured, Shaped
  <1>5. \A m \in Gestured : InFlight(m)' /\ calls'[m].kind = "status" => calls'[m].undo.of = m
    BY <1>1 DEF UndoneOnce, Advances, InFlight
  <1>6. \A m \in Gestured : calls'[m].kind = "undo" => Undone(calls[m].undo)'
    <2>1. SUFFICES ASSUME NEW m \in Gestured, calls'[m].kind = "undo"
                   PROVE  Undone(calls[m].undo)'
      BY DEF Gestured
    <2>2. Undone(calls[m].undo)
      BY <1>2, <2>1 DEF UndoneOnce
    <2>3. QED BY <1>1, <1>2, <2>1, <2>2 DEF Undone
  <1> DEFINE offer == /\ undo' # NoUndo => Undone(undo)'
                      /\ undo' # NoUndo => \A m \in Gestured :
                           calls'[m].kind = "undo" => calls'[m].undo.of # undo'.of
  <1>7. ASSUME undo' \in {undo, NoUndo} PROVE offer
    <2>1. undo' # NoUndo => Undone(undo)'
      BY <1>1, <1>2, <1>7 DEF UndoneOnce, Undone
    <2>2. undo' # NoUndo =>
           \A m \in Gestured : calls'[m].kind = "undo" => calls'[m].undo.of # undo'.of
      BY <1>2, <1>7 DEF UndoneOnce
    <2>3. QED BY <2>1, <2>2
  <1>8. ASSUME call.kind = "status", call.pc = "done", undo' = calls[n].undo PROVE offer
    <2>1. undo'.of = n
      BY <1>1, <1>8 DEF UndoneOnce, InFlight
    <2>2. Undone(undo)'
      BY <1>1, <1>8, <2>1 DEF Undone, Gestured
    <2>3. \A m \in Gestured : calls'[m].kind = "undo" => calls'[m].undo.of # n
      BY <1>2, <1>3 DEF UndoneOnce
    <2>4. QED BY <2>1, <2>2, <2>3
  <1>9. offer
    BY <1>7, <1>8 DEF Advances
  <1>10. \A m, j \in Gestured : m # j /\ calls'[m].kind = "undo" /\ calls'[j].kind = "undo" =>
           calls'[m].undo.of # calls'[j].undo.of
    BY <1>2 DEF UndoneOnce
  <1>11. BusyWhileCreating'
    <2>1. Reopened' <=> Reopened
      BY <1>2 DEF Reopened, Shaped, Advances
    <2>2. \A m \in Gestured : Creating(m)' => Creating(m)
      BY <1>1, <1>2 DEF Creating, InFlight
    <2>3. modal' = modal \/ (call.kind = "create" /\ ~InFlight(n)')
      BY <1>1 DEF Advances, InFlight
    <2>4. QED BY <1>1, <2>1, <2>2, <2>3 DEF BusyWhileCreating, Creating, InFlight, Gestured
  <1>12. QED
    BY <1>4, <1>5, <1>6, <1>9, <1>10, <1>11 DEF UndoneOnce, Gestured

\* The message's time-out, and the release's.
LEMMA ElapsesOnce ==
    ASSUME Shaped, UndoneOnce, BusyWhileCreating, UNCHANGED <<calls, gestures, modal>>,
           undo' \in {undo, NoUndo}
    PROVE  UndoneOnce' /\ BusyWhileCreating'
  <1>1. UndoneOnce'
    BY DEF UndoneOnce, Undone, InFlight, Gestured, Shaped
  <1>2. BusyWhileCreating'
    BY DEF BusyWhileCreating, Creating, InFlight, Reopened, Gestured
  <1>3. QED BY <1>1, <1>2

-----------------------------------------------------------------------------
(* The statuses the page has given *)

LEMMA OwnStarts ==
    ASSUME Shaped, UndoneOnce, OwnOnTheirWay, NEW call, Starts(call),
           UNCHANGED <<page, status, shown, own>>
    PROVE  OwnOnTheirWay'
  <1>1. Sees(shown)' = Sees(shown)
    BY DEF Sees, Visible, Ids
  <1>2. /\ \A i \in Ids : own'[i] # "none" => status'[i] = own'[i]
        /\ page' = "sidebar" => \A i \in Ids : own'[i] = "none"
    BY DEF OwnOnTheirWay
  <1>3. calls'[gestures + 1] = call /\ \A m \in Gestured : m # gestures + 1 => calls'[m] = calls[m]
    BY DEF Starts, Shaped
  <1>4. ASSUME ~unsure'
        PROVE  /\ \A m, n \in Gestured : InFlight(m)' /\ InFlight(n)' => m = n
               /\ Sees(shown)' \/ \E n \in Gestured : calls'[n].pc \in {"refresh", "answered"}
               /\ \A n \in Gestured : calls'[n].pc = "answered" => Sees(calls[n].read)'
    <2>1. CASE call.pc = "done"
      <3>1. ~unsure
        BY <1>4 DEF Starts
      <3>2. calls[gestures + 1].pc = "none"
        BY NoCallFields DEF UndoneOnce, Starts, Shaped
      <3>3. \A n \in Gestured : InFlight(n)' => n # gestures + 1 /\ InFlight(n)
        BY <1>3, <2>1 DEF InFlight
      <3>4. \A snap : Sees(snap) => Sees(snap)'
        BY DEF Sees, Visible
      <3>5. \A n \in Gestured : calls'[n].pc = "answered" => Sees(calls[n].read)'
        BY <1>3, <2>1, <3>1, <3>4 DEF OwnOnTheirWay
      <3>6. \A m, n \in Gestured : InFlight(m)' /\ InFlight(n)' => m = n
        BY <3>1, <3>3 DEF OwnOnTheirWay
      <3>7. QED BY <1>1, <1>3, <3>1, <3>2, <3>5, <3>6 DEF OwnOnTheirWay
    <2>2. CASE call.pc # "done"
      <3>1. ~unsure /\ \A m \in Gestured : ~InFlight(m)
        BY <1>4, <2>2 DEF Starts, Shaped
      <3>2. Sees(shown)
        BY <3>1 DEF OwnOnTheirWay, InFlight
      <3>3. \A m \in Gestured : m # gestures + 1 => ~InFlight(m)'
        BY <1>3, <3>1 DEF InFlight
      <3>4. \A m \in Gestured : calls'[m].pc # "answered"
        BY <1>3, <3>3 DEF Starts, InFlight
      <3>5. QED BY <1>1, <3>2, <3>3, <3>4
    <2>3. QED BY <2>1, <2>2
  <1>5. QED BY <1>2, <1>4 DEF OwnOnTheirWay, Ids, Gestured

\* A list leaves a row out only if it is full.
LEMMA SnapshotSees ==
    ASSUME \A i \in Ids : own[i] # "none" => status[i] = own[i], NEW snap \in Snapshots
    PROVE  Sees(snap)
  <1>1. PICK L \in Listed : snap.intents = [i \in L |-> status[i]]
    BY DEF Snapshots
  <1>2. SUFFICES ASSUME NEW i \in Ids, own[i] # "none"
                 PROVE  Visible(snap, i, own[i])
    BY DEF Sees
  <1>3. status[i] = own[i] /\ L \subseteq Ids
    BY <1>1, <1>2 DEF Listed
  <1>4. CASE i \in L
    BY <1>1, <1>3, <1>4 DEF Visible
  <1>5. CASE i \notin L
    <2> DEFINE s == own[i]
               cut == L \cap WithStatus(s)
    <2>1. s \in {status[j] : j \in Ids} \ {"none"}
      BY <1>2, <1>3
    <2>2. cut \in Limited(WithStatus(s))
      BY <1>1, <2>1 DEF Listed
    <2>3. i \in WithStatus(s) /\ i \notin cut
      BY <1>3, <1>5 DEF WithStatus
    <2>4. Cardinality(cut) = ListLimit
      BY <2>2, <2>3 DEF Limited
    <2>5. {k \in DOMAIN snap.intents : snap.intents[k] = s} = cut
      BY <1>1, <1>3 DEF WithStatus
    <2>6. i \notin DOMAIN snap.intents
      BY <1>1, <1>5
    <2>7. QED BY <2>4, <2>5, <2>6, UiAssumption DEF Visible
  <1>6. QED BY <1>4, <1>5

LEMMA OwnAdvances ==
    ASSUME Shaped, OwnOnTheirWay, page = "centre", page' = page,
           NEW n, NEW call, Advances(n, call),
           \/ Waits(n, call) \/ Writes(n, call) \/ Reads(n, call) \/ Shows(n, call) \/ Loses
    PROVE  OwnOnTheirWay'
  <1>1. /\ n \in Gestured /\ InFlight(n) /\ calls'[n] = call
        /\ \A m \in Gestured : m # n => calls'[m] = calls[m]
    BY DEF Advances, Shaped
  <1>2. \A i \in Ids : own'[i] # "none" => status'[i] = own'[i]
    BY DEF OwnOnTheirWay, Waits, Writes, Reads, Shows, Loses, Shaped
  <1>3. ASSUME ~unsure'
        PROVE  /\ \A m, k \in Gestured : InFlight(m)' /\ InFlight(k)' => m = k
               /\ Sees(shown)' \/ \E m \in Gestured : calls'[m].pc \in {"refresh", "answered"}
               /\ \A m \in Gestured : calls'[m].pc = "answered" => Sees(calls[m].read)'
    <2>1. ~unsure /\ \A m \in Gestured : m # n => ~InFlight(m)
      BY <1>1, <1>3 DEF Waits, Writes, Reads, Shows, Loses, OwnOnTheirWay
    <2>2. \A m \in Gestured : m # n => ~InFlight(m)' /\ calls'[m].pc # "answered"
      BY <1>1, <2>1 DEF InFlight
    <2>3. Sees(shown)' \/ call.pc \in {"refresh", "answered"}
      <3>1. CASE Waits(n, call)
        BY <1>1, <2>1, <3>1 DEF Waits, OwnOnTheirWay, InFlight, Sees, Visible
      <3>2. CASE Shows(n, call)
        BY <1>1, <2>1, <3>2 DEF Shows, OwnOnTheirWay, Sees, Visible
      <3>3. QED BY <1>3, <3>1, <3>2 DEF Writes, Reads, Loses
    <2>4. call.pc = "answered" => Sees(call.read)'
      <3>1. ASSUME call.pc = "answered"
            PROVE  call.read \in Snapshots /\ own' = own /\ status' = status
        BY <1>3, <3>1 DEF Waits, Writes, Reads, Shows, Loses
      <3>2. call.pc = "answered" => Sees(call.read)
        BY <3>1, SnapshotSees DEF OwnOnTheirWay
      <3>3. QED BY <3>1, <3>2 DEF Sees, Visible
    <2>5. QED BY <1>1, <2>2, <2>3, <2>4
  <1>4. QED BY <1>2, <1>3 DEF OwnOnTheirWay, Ids, Gestured

LEMMA OwnElsewhere ==
    ASSUME Shaped, OwnOnTheirWay, EditedElsewhere, page' = page
    PROVE  OwnOnTheirWay'
  <1>1. \A i \in Ids : own'[i] # "none" => own'[i] = own[i] /\ status'[i] = status[i]
    BY DEF EditedElsewhere, Ids
  <1>2. \A snap : Sees(snap) => Sees(snap)'
    BY <1>1 DEF Sees, Visible
  <1>3. calls' = calls /\ unsure' = unsure /\ shown' = shown
    BY DEF EditedElsewhere
  <1>4. /\ \A i \in Ids : own'[i] # "none" => status'[i] = own'[i]
        /\ page' = "sidebar" => \A i \in Ids : own'[i] = "none"
    BY <1>1 DEF OwnOnTheirWay
  <1>5. ASSUME ~unsure'
        PROVE  /\ \A m, n \in Gestured : InFlight(m)' /\ InFlight(n)' => m = n
               /\ Sees(shown)' \/ \E n \in Gestured : calls'[n].pc \in {"refresh", "answered"}
               /\ \A n \in Gestured : calls'[n].pc = "answered" => Sees(calls[n].read)'
    BY <1>2, <1>3, <1>5 DEF OwnOnTheirWay, InFlight, Sees
  <1>6. QED BY <1>4, <1>5 DEF OwnOnTheirWay, Ids, Gestured

-----------------------------------------------------------------------------
(* The sidebar's drafts *)

Drawers == DOMAIN drafts = Keys /\ DOMAIN expected = Keys

\* Where storage holds what the operator expects, it still does after a draft was
\* loaded, aged or not.
LEMMA LoadKeeps ==
    ASSUME NEW kept, NEW owed, NEW key, DOMAIN kept = Keys, DOMAIN owed = Keys,
           NEW after \in loadDraft(key, kept, owed)
    PROVE  /\ DOMAIN after.drafts = Keys /\ DOMAIN after.expected = Keys
           /\ \A k \in Keys : kept[k] = owed[k] => after.drafts[k] = after.expected[k]
           /\ \A k \in Keys : after.expected[k] \in {0, owed[k]}
  BY DEF loadDraft, Discard

LEMMA DiscardKeeps ==
    ASSUME NEW kept, NEW key, DOMAIN kept = Keys
    PROVE  /\ DOMAIN Discard(kept, key) = Keys
           /\ \A k \in Keys : Discard(kept, key)[k] =
                IF k = key /\ key[1] # Nothing THEN 0 ELSE kept[k]
  BY DEF Discard

LEMMA RenderKeeps ==
    ASSUME NEW snap, NEW e, NEW a, NEW kept, NEW owed, DOMAIN kept = Keys, DOMAIN owed = Keys,
           RenderLogger(snap, e, a, kept, owed), UNCHANGED <<timer, typed, astray>>,
           \A k \in Keys : kept[k] = owed[k] \/ k \in astray \/ (timer # 0 /\ k = typed)
    PROVE  Drawers' /\ DraftsExact'
  <1>1. PICK after \in loadDraft(<<e, a>>, kept, owed) :
          drafts' = after.drafts /\ expected' = after.expected
    BY DEF RenderLogger
  <1>2. QED BY <1>1, LoadKeeps DEF Drawers, DraftsExact, Keys

LEMMA StrokeKeeps ==
    ASSUME Drawers, DraftsExact, strokes \in Nat, Strokes
    PROVE  Drawers' /\ DraftsExact'
  <1>1. CASE setSelected \/ ChooseAction
    BY <1>1, RenderKeeps DEF setSelected, ChooseAction, Drawers, DraftsExact
  <1>2. CASE Input
    <2>1. /\ drafts' = drafts /\ timer' # 0 /\ typed' = draftKey
          /\ expected' = IF chosen = Nothing THEN expected
                         ELSE [expected EXCEPT ![draftKey] = strokes + 1]
          /\ astray' = IF timer # 0 /\ typed # draftKey THEN astray \cup {typed} ELSE astray
      BY <1>2 DEF Input, Stroke
    <2>2. Drawers'
      BY <2>1 DEF Drawers, Keys
    <2>3. \A k \in Keys : k # draftKey => expected'[k] = expected[k]
      BY <2>1 DEF Drawers
    <2>4. QED BY <2>1, <2>2, <2>3 DEF DraftsExact, Keys
  <1>3. CASE DiscardClicked \/ Escape
    <2> DEFINE kept == Discard(drafts, draftKey)
               owed == Discard(expected, draftKey)
    <2>1. /\ DOMAIN kept = Keys /\ DOMAIN owed = Keys
          /\ \A k \in Keys : kept[k] = owed[k] \/ k \in astray \/ (timer # 0 /\ k = typed)
      BY DiscardKeeps DEF Drawers, DraftsExact
    <2>2. UNCHANGED <<timer, typed, astray>> /\ \E e : RenderLogger(view, e, action, kept, owed)
      BY <1>3 DEF DiscardClicked, Escape
    <2> HIDE DEF kept, owed
    <2>3. QED BY <2>1, <2>2, RenderKeeps
  <1>4. CASE submitLogger \/ OtherWrite
    BY <1>4 DEF submitLogger, OtherWrite, Drawers, DraftsExact, Keys
  <1>5. QED BY <1>1, <1>2, <1>3, <1>4 DEF Strokes

\* The timer saves what is expected where it was typed, or goes astray.
LEMMA SaveKeeps ==
    ASSUME Drawers, DraftsExact, saveDraft
    PROVE  Drawers' /\ DraftsExact'
  <1>1. CASE chosen # Nothing /\ draftKey = typed /\ expected[typed] = timer
    BY <1>1 DEF saveDraft, Drawers, DraftsExact, Keys
  <1>2. CASE ~(chosen # Nothing /\ draftKey = typed /\ expected[typed] = timer)
    BY <1>2 DEF saveDraft, Drawers, DraftsExact, Keys
  <1>3. QED BY <1>1, <1>2

LEMMA AnswerKeeps ==
    ASSUME Drawers, DraftsExact, NEW n, SidebarAnswer(n)
    PROVE  Drawers' /\ DraftsExact'
  <1>1. CASE Served(n) \/ SidebarStateRead(n) \/ SidebarFailed(n)
    BY <1>1 DEF Served, SidebarStateRead, SidebarFailed, Page, Drawers, DraftsExact, Keys
  <1>2. CASE StateShown(n)
    BY <1>2, RenderKeeps DEF StateShown, Drawers, DraftsExact
  <1>3. CASE LoggerAnswered(n)
    <2> DEFINE key == writes[n].key
               there == <<chosen, Normal(writes[n].read, chosen, action)>>
               text == writes[n].text
               hit == there = key /\ expected[key] \in {0, text}
    <2>1. PICK after \in loadDraft(draftKey, drafts, expected) :
            /\ drafts' = Discard(after.drafts, there)
            /\ expected' = IF expected[key] = text THEN Discard(after.expected, key)
                           ELSE after.expected
      BY <1>3 DEF LoggerAnswered
    <2>2. /\ key[1] # Nothing /\ UNCHANGED <<timer, typed>>
          /\ astray' = IF hit THEN astray ELSE astray \cup {key, there}
      BY <1>3 DEF LoggerAnswered
    <2> HIDE DEF key, there, text
    <2>3. /\ DOMAIN after.drafts = Keys /\ DOMAIN after.expected = Keys
          /\ \A k \in Keys : drafts[k] = expected[k] => after.drafts[k] = after.expected[k]
          /\ \A k \in Keys : after.expected[k] \in {0, expected[k]}
      BY LoadKeeps DEF Drawers
    <2>4. Drawers'
      BY <2>1, <2>3, DiscardKeeps DEF Drawers, Keys
    <2>5. \A k \in Keys : k \notin {key, there} =>
            drafts'[k] = after.drafts[k] /\ expected'[k] = after.expected[k]
      BY <2>1, <2>3, DiscardKeeps
    <2>6. ASSUME hit, key \in Keys PROVE drafts'[key] = 0 /\ expected'[key] = 0
      BY <2>1, <2>2, <2>3, <2>6, DiscardKeeps
    <2>7. QED BY <2>2, <2>3, <2>4, <2>5, <2>6 DEF DraftsExact, Keys
  <1>4. QED BY <1>1, <1>2, <1>3 DEF SidebarAnswer

LEMMA SidebarStepKeeps ==
    ASSUME Drawers, DraftsExact, strokes \in Nat, SidebarStep
    PROVE  Drawers' /\ DraftsExact'
  BY StrokeKeeps, SaveKeeps, AnswerKeeps DEF SidebarStep

LEMMA SidebarRests ==
    ASSUME Drawers, DraftsExact, UNCHANGED sidebar
    PROVE  Drawers' /\ DraftsExact'
  BY DEF Drawers, DraftsExact, sidebar, Keys

\* The page's writes change statuses of intents there are.
LEMMA SidebarServes ==
    ASSUME SidebarStep, strokes \in Nat
    PROVE  DOMAIN status' = DOMAIN status /\ strokes' \in Nat
  <1>1. CASE Strokes \/ saveDraft
    <2>1. server' = server
      BY <1>1 DEF Strokes, setSelected, ChooseAction, Input, DiscardClicked, Escape, submitLogger,
                  OtherWrite, saveDraft
    <2>2. strokes' \in {strokes, strokes + 1}
      BY <1>1 DEF Strokes, setSelected, ChooseAction, Input, DiscardClicked, Escape, submitLogger,
                  OtherWrite, saveDraft, Stroke
    <2>3. QED BY <2>1, <2>2 DEF server
  <1>2. ASSUME NEW n, SidebarAnswer(n)
        PROVE  DOMAIN status' = DOMAIN status /\ strokes' = strokes
    <2>1. CASE Served(n)
      BY <2>1 DEF Served, PatchStatus, CreateIntent, LogAction, Page, server
    <2>2. CASE ~Served(n)
      BY <1>2, <2>2 DEF SidebarAnswer, SidebarStateRead, SidebarFailed, StateShown,
                        LoggerAnswered, Page, server
    <2>3. QED BY <2>1, <2>2
  <1>3. QED BY <1>1, <1>2 DEF SidebarStep

-----------------------------------------------------------------------------
(* The invariant is inductive *)

LEMMA InvInit == PagesInit => PagesInv
  <1> SUFFICES ASSUME PagesInit PROVE PagesInv
    OBVIOUS
  <1> USE DEF PagesInit, CentreInit, SidebarInit, ServerInit
  <1>1. /\ calls = [n \in Gestured |-> NoCall] /\ \A n \in Gestured : calls[n] = NoCall
        /\ \A i \in Ids : own[i] = "none"
    BY DEF Gestured
  <1>2. Shaped
    BY <1>1, NoCallFields DEF Shaped
  <1>3. ArmedIsLast /\ ReleaseConfirmed
    BY <1>1, NoCallFields DEF ArmedIsLast, ReleaseConfirmed
  <1>4. UndoneOnce /\ BusyWhileCreating
    BY <1>1, NoCallFields DEF UndoneOnce, BusyWhileCreating, Creating, InFlight
  <1>5. OwnOnTheirWay
    BY <1>1, NoCallFields DEF OwnOnTheirWay, Sees, InFlight
  <1>6. DraftsExact
    BY DEF DraftsExact
  <1>7. QED BY <1>2, <1>3, <1>4, <1>5, <1>6 DEF PagesInv

LEMMA CentreKeeps == PagesInv /\ OnCentre => PagesInv'
  <1> SUFFICES ASSUME PagesInv, OnCentre PROVE PagesInv'
    OBVIOUS
  <1>1. /\ Shaped /\ ArmedIsLast /\ ReleaseConfirmed /\ UndoneOnce /\ BusyWhileCreating
        /\ OwnOnTheirWay /\ DraftsExact /\ Drawers /\ strokes \in Nat
    BY DEF PagesInv, Shaped, Drawers
  <1>2. page = "centre" /\ UNCHANGED <<page, sidebar>>
    BY DEF OnCentre
  <1>3. Drawers' /\ DraftsExact' /\ strokes' = strokes
    BY <1>1, <1>2, SidebarRests DEF sidebar
  <1>4. ASSUME NEW call, Starts(call), Arms, UNCHANGED <<server, shown, own>>
        PROVE  PagesInv'
    <2>1. UNCHANGED <<status, edits>>
      BY <1>4 DEF server
    <2>2. /\ gestures + 1 \in Gestured /\ calls'[gestures + 1] = call
          /\ \A n \in Gestured : n # gestures + 1 => calls'[n] = calls[n]
      BY <1>1, <1>4 DEF Starts, Shaped
    <2>3. Shaped'
      BY <1>1, <1>2, <1>3, <1>4, <2>1, <2>2 DEF Shaped, Starts, Drawers, Gestured, Ids
    <2>4. ArmedIsLast'
      BY <1>1, <1>4 DEF Arms, ArmedIsLast
    <2>5. ReleaseConfirmed'
      BY <1>1, <1>4, <2>2, <2>3 DEF ReleaseConfirmed, Starts, Shaped
    <2>6. QED
      BY <1>1, <1>2, <1>3, <1>4, <2>1, <2>3, <2>4, <2>5, StartsOnce, OwnStarts DEF PagesInv
  <1>5. ASSUME UNCHANGED <<calls, gestures, modal, unsure, server, shown, own>>,
               undo' \in {undo, NoUndo}, Arms
        PROVE  PagesInv'
    <2>1. status' = status
      BY <1>5 DEF server
    <2>2. Shaped'
      BY <1>1, <1>2, <1>3, <1>5, <2>1 DEF Shaped, Drawers, Gestured, Ids
    <2>3. ArmedIsLast' /\ ReleaseConfirmed'
      BY <1>1, <1>5 DEF Arms, ArmedIsLast, ReleaseConfirmed
    <2>4. OwnOnTheirWay'
      BY <1>1, <1>2, <1>5, <2>1 DEF OwnOnTheirWay, Sees, Visible, InFlight, Ids, Gestured
    <2>5. QED BY <1>1, <1>3, <1>5, <2>2, <2>3, <2>4, ElapsesOnce DEF PagesInv
  <1>6. ASSUME NEW n, NEW call, Advances(n, call),
               \/ Waits(n, call) \/ Writes(n, call) \/ Reads(n, call) \/ Shows(n, call)
               \/ Loses
        PROVE  PagesInv'
    <2>1. /\ n \in Gestured /\ calls'[n] = call /\ UNCHANGED <<gestures, armed, last>>
          /\ \A m \in Gestured : m # n => calls'[m] = calls[m]
      BY <1>1, <1>6 DEF Advances, Shaped
    <2>2. DOMAIN status' = Ids /\ DOMAIN own' = Ids /\ unsure' \in BOOLEAN
      BY <1>1, <1>6 DEF Waits, Writes, Reads, Shows, Loses, Shaped
    <2>3. Shaped'
      BY <1>1, <1>2, <1>3, <1>6, <2>1, <2>2 DEF Shaped, Advances, Drawers, Gestured, Ids
    <2>4. ArmedIsLast'
      BY <1>1, <2>1 DEF ArmedIsLast
    <2>5. ReleaseConfirmed'
      BY <1>1, <1>6, <2>1, <2>3 DEF ReleaseConfirmed, Advances, Shaped
    <2>6. QED
      BY <1>1, <1>2, <1>3, <1>6, <2>1, <2>3, <2>4, <2>5, AdvancesOnce, OwnAdvances DEF PagesInv
  <1>7. CASE Operate
    BY <1>1, <1>4, <1>7, OperateEffect
  <1>8. CASE MessageTimeout \/ ReleaseTimeout
    BY <1>5, <1>8 DEF MessageTimeout, ReleaseTimeout, Arms, Disarm
  <1>9. CASE \E n \in DOMAIN calls : Answer(n)
    BY <1>1, <1>6, <1>9, AnswerEffect
  <1>10. QED BY <1>7, <1>8, <1>9 DEF OnCentre, CentreStep

\* While the operator is on the sidebar, the Mediation Centre is at rest, and has
\* given no status.
LEMMA SidebarKeeps == PagesInv /\ OnSidebar => PagesInv'
  <1> SUFFICES ASSUME PagesInv, OnSidebar PROVE PagesInv'
    OBVIOUS
  <1>1. /\ Shaped /\ ArmedIsLast /\ ReleaseConfirmed /\ UndoneOnce /\ BusyWhileCreating
        /\ OwnOnTheirWay /\ DraftsExact /\ Drawers /\ strokes \in Nat
    BY DEF PagesInv, Shaped, Drawers
  <1>2. page = "sidebar" /\ page' = page
        /\ UNCHANGED <<shown, undo, armed, modal, calls, gestures, last, own, unsure>>
    BY DEF OnSidebar, centre
  <1>3. ArmedIsLast' /\ ReleaseConfirmed' /\ UndoneOnce' /\ BusyWhileCreating'
    BY <1>1, <1>2 DEF ArmedIsLast, ReleaseConfirmed, UndoneOnce, Undone, BusyWhileCreating,
                      Creating, InFlight, Reopened, Gestured
  <1>4. OwnOnTheirWay'
    BY <1>1, <1>2 DEF OwnOnTheirWay, Sees, Visible, InFlight, Ids, Gestured
  <1>5. Drawers' /\ DraftsExact' /\ DOMAIN status' = DOMAIN status /\ strokes' \in Nat
    BY <1>1, SidebarStepKeeps, SidebarServes DEF OnSidebar
  <1>6. Shaped'
    BY <1>1, <1>2, <1>5 DEF Shaped, Drawers, Gestured, Ids
  <1>7. QED BY <1>3, <1>4, <1>5, <1>6 DEF PagesInv

LEMMA ElsewhereKeeps == PagesInv /\ Elsewhere => PagesInv'
  <1> SUFFICES ASSUME PagesInv, Elsewhere PROVE PagesInv'
    OBVIOUS
  <1>1. /\ Shaped /\ ArmedIsLast /\ ReleaseConfirmed /\ UndoneOnce /\ BusyWhileCreating
        /\ OwnOnTheirWay /\ DraftsExact /\ Drawers /\ strokes \in Nat
    BY DEF PagesInv, Shaped, Drawers
  <1>2. EditedElsewhere /\ page' = page /\ UNCHANGED sidebar
    BY DEF Elsewhere
  <1>3. UNCHANGED <<undo, armed, modal, calls, gestures, last, unsure>>
    BY <1>2 DEF EditedElsewhere
  <1>4. DOMAIN status' = DOMAIN status /\ DOMAIN own' = Ids
    BY <1>2 DEF EditedElsewhere, OtherProcess
  <1>5. Drawers' /\ DraftsExact' /\ strokes' = strokes
    BY <1>1, <1>2, SidebarRests DEF sidebar
  <1>6. Shaped'
    BY <1>1, <1>2, <1>3, <1>4, <1>5 DEF Shaped, Drawers, Gestured, Ids
  <1>7. ArmedIsLast' /\ ReleaseConfirmed' /\ UndoneOnce' /\ BusyWhileCreating'
    BY <1>1, <1>3 DEF ArmedIsLast, ReleaseConfirmed, UndoneOnce, Undone, BusyWhileCreating,
                      Creating, InFlight, Reopened, Gestured
  <1>8. QED BY <1>1, <1>2, <1>5, <1>6, <1>7, OwnElsewhere DEF PagesInv

LEMMA StutterKeeps == PagesInv /\ UNCHANGED pagesVars => PagesInv'
  <1> SUFFICES ASSUME PagesInv, UNCHANGED pagesVars PROVE PagesInv'
    OBVIOUS
  <1> USE DEF pagesVars, server, centre, sidebar, PagesInv
  <1>1. Shaped'
    BY DEF Shaped, Gestured, Ids, Keys, Entities
  <1>2. ArmedIsLast' /\ ReleaseConfirmed' /\ UndoneOnce' /\ BusyWhileCreating'
    BY DEF ArmedIsLast, ReleaseConfirmed, UndoneOnce, Undone, BusyWhileCreating,
           Creating, InFlight, Reopened, Gestured
  <1>3. OwnOnTheirWay'
    BY DEF OwnOnTheirWay, Sees, Visible, InFlight, Ids, Gestured
  <1>4. DraftsExact'
    BY DEF DraftsExact, Keys, Entities, Ids
  <1>5. QED BY <1>1, <1>2, <1>3, <1>4

LEMMA InvHolds == PagesSpec => []PagesInv
  <1>1. PagesInv /\ [PagesNext]_pagesVars => PagesInv'
    BY CentreKeeps, SidebarKeeps, ElsewhereKeeps, StutterKeeps DEF PagesNext
  <1>2. QED BY InvInit, <1>1, PTL DEF PagesSpec

-----------------------------------------------------------------------------
(* Theorems *)

\* A claim is released by the second of two clicks on its own release buttons
\* (armedRelease, clickRelease): none between them, none before a time-out.
THEOREM ReleasesAreConfirmed == PagesSpec => []ReleaseConfirmed
  <1>1. PagesInv => ReleaseConfirmed
    BY DEF PagesInv
  <1>2. QED BY <1>1, InvHolds, PTL

\* pendingUndo and intentModalBusy: however the answers come, a change is undone once
\* at most, and two submissions of the editor are under way at a time only after
\* openIntentModal has reset intentModalBusy while the first one was.
THEOREM EveryGestureOnce == PagesSpec => []GesturesActOnce
  <1>1. PagesInv => GesturesActOnce
    BY DEF PagesInv, Shaped, UndoneOnce, BusyWhileCreating, GesturesActOnce
  <1>2. QED BY <1>1, InvHolds, PTL

\* writeAndRefresh: an operator who waits for each answer sees what the page has
\* written, unless someone else has changed it since, or the list of a hundred is full.
THEOREM OperatorSeesOwnWrites == PagesSpec => []OwnWritesVisible
  <1>1. PagesInv => OwnWritesVisible
    BY DEF PagesInv, Shaped, OwnOnTheirWay, InFlight, Sees, OwnWritesVisible
  <1>2. QED BY <1>1, InvHolds, PTL

\* __draftTimer, loadDraft, discardDraft and submitLogger: the sidebar saves, ages and
\* discards each draft under the key it was typed for, but for the keys that a timer
\* or an answer met when they were not the current one, or held another text by then.
THEOREM DraftsAreExact == PagesSpec => []DraftsExact
  <1>1. PagesInv => DraftsExact
    BY DEF PagesInv
  <1>2. QED BY <1>1, InvHolds, PTL
=================================================================================
