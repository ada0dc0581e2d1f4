------------------------------ MODULE PilotOAuth -------------------------------
(***************************************************************************)
(* The pilot OAuth issuer of the public MCP bridge: dynamic registration,  *)
(* authorization codes with PKCE, and refresh tokens that are rotated.     *)
(* Codes live in the memory of the process that issued them.  Clients and  *)
(* refresh tokens live in one JSON file, which every handler reads and     *)
(* rewrites as a whole; the bridge processes given the same path share it. *)
(*                                                                         *)
(* Once a request's body has arrived its handler runs without an await, so *)
(* a process has one job at a time; the jobs of two processes interleave   *)
(* at their reads and writes of the file.  A write truncates the file and  *)
(* then fills it.                                                          *)
(***************************************************************************)
EXTENDS Integers, FiniteSets

CONSTANTS Processes,  \* the bridge processes that share the store file
          Clients,    \* the random client ids registrations draw
          Public,     \* clients registered with token_endpoint_auth_method none
          Uris,       \* the redirect URIs clients ask for
          AllowedUris,\* those that are HTTPS or local
          Verifiers,  \* PKCE verifiers; a challenge is its verifier's hash
          Scopes,     \* the scope strings requests ask for
          OwnScopes,  \* those made of the issuer's scopes
          CodeTtl, RefreshTtl, \* lifetimes of codes and of refresh tokens
          MaxTime,    \* bound: the clock
          MaxCodes,   \* bound: codes issued
          MaxTokens   \* bound: refresh tokens issued

ASSUME PilotAssumption ==
       /\ Public \subseteq Clients
       /\ AllowedUris \subseteq Uris /\ OwnScopes \subseteq Scopes
       /\ {CodeTtl, RefreshTtl, MaxTime, MaxCodes, MaxTokens} \subseteq Nat \ {0}

VARIABLES now,       \* the clock, in seconds
          file,      \* the store file
          codes,     \* every code issued, by number (auxiliary)
          held,      \* the codes in the memory of each process
          job,       \* the request each process is handling
          tokens,    \* refresh tokens drawn so far
          pairs,     \* the token pairs answered (auxiliary)
          registered,\* the clients whose registration was answered (auxiliary)
          presented, \* the codes presented at their issuer (auxiliary)
          redeemed,  \* the refresh tokens a process has removed (auxiliary)
          disturbed  \* a write met a file that had changed under it, or was cut
                     \* short (auxiliary)

vars == <<now, file, codes, held, job, tokens, pairs, registered, presented,
          redeemed, disturbed>>

-----------------------------------------------------------------------------
(* Types *)

CodeIds == 1..MaxCodes
TokenIds == 1..MaxTokens

ClientRec == [id : Clients, uri : AllowedUris]
Code == [client : Clients, uri : Uris, verifier : Verifiers, scope : OwnScopes,
         expires : Nat]

\* root: the code at the origin of the token (auxiliary).
Token == [id : TokenIds, client : Clients, scope : OwnScopes, expires : Nat, root : CodeIds]

\* What a token was exchanged for: a code, or an earlier refresh token.
Origin == [kind : {"code", "refresh"}, id : Nat]
Pair == [origin : Origin, token : Token]

\* The contents of the file.  Torn: truncated and not yet filled.
Store == [clients : SUBSET ClientRec, tokens : SUBSET Token]
Empty == [clients |-> {}, tokens |-> {}]
Torn == [clients |-> {}, tokens |-> {}, torn |-> TRUE]

\* grant: what the job is to issue a token for.
Grant == [origin : Origin, client : Clients \cup {"none"}, scope : OwnScopes \cup {"none"},
          root : 0..MaxCodes]
NoGrant == [origin |-> [kind |-> "code", id |-> 0], client |-> "none", scope |-> "none",
            root |-> 0]

\* store: what the job read, then what it writes.  base: what it read.
Job == [pc : {"idle", "truncate", "fill", "issue"},
        kind : {"none", "register", "rotate", "issue"},
        store : Store, base : Store, grant : Grant]
Idle == [pc |-> "idle", kind |-> "none", store |-> Empty, base |-> Empty, grant |-> NoGrant]

TypeOK ==
    /\ now \in 0..MaxTime
    /\ file \in Store \cup {Torn}
    /\ \E n \in 0..MaxCodes : codes \in [1..n -> Code]
    /\ held \in [Processes -> SUBSET DOMAIN codes]
    /\ job \in [Processes -> Job]
    /\ tokens \in 0..MaxTokens
    /\ pairs \subseteq Pair
    /\ registered \subseteq ClientRec
    /\ presented \subseteq DOMAIN codes /\ redeemed \subseteq Nat
    /\ disturbed \in BOOLEAN

-----------------------------------------------------------------------------
(* The store file *)

\* readPilotStore: a file that does not parse throws, and the handler answers 400
\* without a change.
Readable == file # Torn

\* The token requests of the client `c' that get past authenticatePilotClient.
Authentic(c, secret) == /\ \E rec \in file.clients : rec.id = c
                        /\ c \in Public \/ secret

Write(p, kind, store, grant) ==
    job' = [job EXCEPT ![p] = [pc |-> "truncate", kind |-> kind, store |-> store,
                               base |-> file, grant |-> grant]]

-----------------------------------------------------------------------------
(* Handlers *)

\* handlePilotRegistration, up to its write.
Register(p) ==
    \E c \in Clients, u \in Uris :
        /\ job[p].pc = "idle" /\ Readable
        /\ u \in AllowedUris
        /\ \A q \in Processes : \A rec \in registered \cup file.clients \cup job[q].store.clients :
              rec.id # c
        /\ Write(p, "register", [file EXCEPT !.clients = @ \cup {[id |-> c, uri |-> u]}], NoGrant)
        /\ UNCHANGED <<now, file, codes, held, tokens, pairs, registered, presented,
                       redeemed, disturbed>>

\* validatePilotAuthorizationParams, then handlePilotAuthorization: the form was
\* submitted with the access key.
Authorize(p) ==
    \E rec \in file.clients, v \in Verifiers, s \in Scopes :
        LET n == Cardinality(DOMAIN codes) + 1
            code == [client |-> rec.id, uri |-> rec.uri, verifier |-> v, scope |-> s,
                     expires |-> now + CodeTtl]
        IN  /\ job[p].pc = "idle" /\ Readable
            /\ s \in OwnScopes
            /\ n <= MaxCodes
            /\ codes' = [k \in 1..n |-> IF k = n THEN code ELSE codes[k]]
            /\ held' = [held EXCEPT ![p] = @ \cup {n}]
            /\ UNCHANGED <<now, file, job, tokens, pairs, registered, presented, redeemed,
                           disturbed>>

Issue(p, grant) ==
    job' = [job EXCEPT ![p] = [Idle EXCEPT !.pc = "issue", !.kind = "issue", !.grant = grant]]

\* Mutation: a code is deleted when it is exchanged, not when it is presented.
ExchangeDeletingLate(p) ==
    \E n \in DOMAIN codes, c \in Clients, u \in Uris, v \in Verifiers :
        /\ job[p].pc = "idle" /\ Readable /\ Authentic(c, TRUE)
        /\ presented' = IF n \in held[p] THEN presented \cup {n} ELSE presented
        /\ IF n \in held[p] /\ codes[n].client = c /\ codes[n].verifier = v
              /\ codes[n].uri = u /\ codes[n].expires > now
           THEN /\ held' = [held EXCEPT ![p] = @ \ {n}]
                /\ Issue(p, [origin |-> [kind |-> "code", id |-> n], client |-> c,
                             scope |-> codes[n].scope, root |-> n])
           ELSE UNCHANGED <<held, job>>
        /\ UNCHANGED <<now, file, codes, tokens, pairs, registered, redeemed, disturbed>>

\* handlePilotAuthorizationCodeToken: the code leaves the map before it is
\* validated.
Exchange(p) ==
    \E n \in DOMAIN codes, c \in Clients, u \in Uris, v \in Verifiers, secret \in BOOLEAN :
        LET code == codes[n]
            valid == /\ n \in held[p]
                     /\ code.client = c /\ code.uri = u /\ code.expires > now
                     /\ code.verifier = v
        IN  /\ job[p].pc = "idle" /\ Readable /\ Authentic(c, secret)
            /\ presented' = IF n \in held[p] THEN presented \cup {n} ELSE presented
            /\ held' = [held EXCEPT ![p] = @ \ {n}]
            /\ IF valid
               THEN Issue(p, [origin |-> [kind |-> "code", id |-> n], client |-> c,
                              scope |-> code.scope, root |-> n])
               ELSE job' = job
            /\ UNCHANGED <<now, file, codes, tokens, pairs, registered, redeemed, disturbed>>

\* Mutations: the token is found by its hash alone; it is not removed.
RefreshForAnyone(p) ==
    \E t \in file.tokens, c \in Clients :
        /\ job[p].pc = "idle" /\ Readable /\ Authentic(c, TRUE)
        /\ t.expires > now
        /\ Write(p, "rotate", [file EXCEPT !.tokens = {x \in @ : x.id # t.id}],
                 [origin |-> [kind |-> "refresh", id |-> t.id], client |-> c,
                  scope |-> t.scope, root |-> t.root])
        /\ UNCHANGED <<now, file, codes, held, tokens, pairs, registered, presented,
                       redeemed, disturbed>>

RefreshKeepingOld(p) ==
    \E t \in file.tokens :
        /\ job[p].pc = "idle" /\ Readable /\ Authentic(t.client, TRUE)
        /\ t.expires > now
        /\ Write(p, "rotate", file,
                 [origin |-> [kind |-> "refresh", id |-> t.id], client |-> t.client,
                  scope |-> t.scope, root |-> t.root])
        /\ UNCHANGED <<now, file, codes, held, tokens, pairs, registered, presented,
                       redeemed, disturbed>>

\* handlePilotRefreshToken, up to its write: the presented token is removed.
Refresh(p) ==
    \E t \in file.tokens, c \in Clients, secret \in BOOLEAN :
        /\ job[p].pc = "idle" /\ Readable /\ Authentic(c, secret)
        /\ t.client = c /\ t.expires > now
        /\ Write(p, "rotate", [file EXCEPT !.tokens = {x \in @ : x.id # t.id}],
                 [origin |-> [kind |-> "refresh", id |-> t.id], client |-> c,
                  scope |-> t.scope, root |-> t.root])
        /\ UNCHANGED <<now, file, codes, held, tokens, pairs, registered, presented,
                       redeemed, disturbed>>

\* Mutation: the store that is written back holds the new token alone.
ReadToIssueForgetting(p) ==
    /\ job[p].pc = "issue" /\ Readable /\ tokens < MaxTokens
    /\ Write(p, "issue",
             [file EXCEPT !.tokens = {[id |-> tokens + 1, client |-> job[p].grant.client,
                                       scope |-> job[p].grant.scope,
                                       expires |-> now + RefreshTtl,
                                       root |-> job[p].grant.root]}],
             job[p].grant)
    /\ tokens' = tokens + 1
    /\ UNCHANGED <<now, file, codes, held, pairs, registered, presented, redeemed, disturbed>>

\* issuePilotTokens: the store is read again, what has expired is dropped.
ReadToIssue(p) ==
    LET g == job[p].grant
        new == [id |-> tokens + 1, client |-> g.client, scope |-> g.scope,
                expires |-> now + RefreshTtl, root |-> g.root]
    IN  /\ job[p].pc = "issue"
        /\ IF Readable
           THEN /\ tokens < MaxTokens
                /\ tokens' = tokens + 1
                /\ Write(p, "issue",
                         [file EXCEPT !.tokens = {t \in @ : t.expires > now} \cup {new}], g)
           ELSE /\ job' = [job EXCEPT ![p] = Idle]
                /\ tokens' = tokens
        /\ UNCHANGED <<now, file, codes, held, pairs, registered, presented, redeemed,
                       disturbed>>

\* writePilotStore: writeFileSync opens the file with truncation ...
Truncate(p) ==
    /\ job[p].pc = "truncate"
    /\ file' = Torn
    /\ disturbed' = (disturbed \/ file # job[p].base)
    /\ job' = [job EXCEPT ![p].pc = "fill"]
    /\ UNCHANGED <<now, codes, held, tokens, pairs, registered, presented, redeemed>>

\* ... and writes.  The handler answers, or goes on to issue a pair.
Fill(p) ==
    LET j == job[p]
        new == CHOOSE t \in j.store.tokens : t.id \notin {x.id : x \in j.base.tokens}
    IN  /\ j.pc = "fill"
        /\ file' = j.store
        /\ disturbed' = (disturbed \/ Readable)
        /\ IF j.kind = "rotate" THEN Issue(p, j.grant)
                                ELSE job' = [job EXCEPT ![p] = Idle]
        /\ redeemed' = IF j.kind = "rotate" THEN redeemed \cup {j.grant.origin.id}
                                            ELSE redeemed
        /\ pairs' = IF j.kind = "issue"
                    THEN pairs \cup {[origin |-> j.grant.origin, token |-> new]}
                    ELSE pairs
        /\ registered' = IF j.kind = "register"
                         THEN registered \cup (j.store.clients \ j.base.clients)
                         ELSE registered
        /\ UNCHANGED <<now, codes, held, tokens, presented>>

-----------------------------------------------------------------------------
(* Time and failures *)

Tick == /\ now < MaxTime
        /\ now' = now + 1
        /\ UNCHANGED <<file, codes, held, job, tokens, pairs, registered, presented,
                       redeemed, disturbed>>

\* A process dies, and another is started in its place.
Crash(p) ==
    /\ job' = [job EXCEPT ![p] = Idle]
    /\ held' = [held EXCEPT ![p] = {}]
    /\ disturbed' = (disturbed \/ job[p].pc = "fill")
    /\ UNCHANGED <<now, file, codes, tokens, pairs, registered, presented, redeemed>>

-----------------------------------------------------------------------------
(* The specification *)

Init ==
    /\ now = 0 /\ file = Empty
    /\ codes = <<>> /\ held = [p \in Processes |-> {}]
    /\ job = [p \in Processes |-> Idle]
    /\ tokens = 0
    /\ pairs = {} /\ registered = {} /\ presented = {} /\ redeemed = {}
    /\ disturbed = FALSE

Next == \/ Tick
        \/ \E p \in Processes : \/ Register(p) \/ Authorize(p)
                                \/ Exchange(p) \/ Refresh(p) \/ ReadToIssue(p)
                                \/ Truncate(p) \/ Fill(p) \/ Crash(p)

Spec == Init /\ [][Next]_vars

-----------------------------------------------------------------------------
(* Properties *)

\* However processes race, crash and lose each other's writes, a code buys one
\* pair, and only at its first presentation: a code that was presented, well or
\* badly, and is not on its way to its pair buys nothing any more.
CodeBuysOnce ==
    \A n \in DOMAIN codes :
        LET bought == {x \in pairs : x.origin = [kind |-> "code", id |-> n]}
            buying == {p \in Processes : /\ job[p].pc # "idle"
                                         /\ job[p].grant.origin = [kind |-> "code", id |-> n]}
        IN  /\ Cardinality(bought) + Cardinality(buying) <= 1
            /\ n \in presented => \A p \in Processes : n \notin held[p]

\* A pair, however many rotations after the authorization and whichever processes
\* made them, is the client's that was authorized, for the scope it was granted.
PairKeepsItsGrant ==
    \A x \in pairs : /\ x.token.client = codes[x.token.root].client
                     /\ x.token.scope = codes[x.token.root].scope

\* As long as no two processes have overlapped in the file and none has died in a
\* write, an authorization is at any time worth one refresh token at most, also
\* after a crash in the middle of a rotation, and no token buys two pairs.
OneTokenPerAuthorization ==
    ~disturbed /\ Readable =>
        /\ \A s, t \in file.tokens : s.root = t.root => s = t
        /\ \A x, y \in pairs : x.origin = y.origin => x = y

\* And then what was answered can be used: a client that was registered is known,
\* and the refresh token of a pair is in the file until it expires or is redeemed.
AnsweredIsStored ==
    ~disturbed /\ Readable =>
        /\ registered \subseteq file.clients
        /\ \A x \in pairs : \/ x.token \in file.tokens
                            \/ x.token.expires <= now
                            \/ x.token.id \in redeemed

=============================================================================
