----------------------- MODULE SessionsRestartProofs -----------------------
(***************************************************************************)
(* Proofs about SessionsRestart: what a restart of the Redis server in the *)
(* middle of the requests can do to a session, and what it cannot, for any *)
(* number of threads, sessions and restarts.  The steps of Sessions keep   *)
(* the invariant of SessionsProofs with the keys that restarts brought     *)
(* back or took away as parameters; what is new is the dump.               *)
(***************************************************************************)
EXTENDS SessionsRestart, SessionsProofs

\* The dump has the type of the store.
DumpType ==
    /\ dump.secrets \in [Keys -> Entry(Secrets) \cup {None}]
    /\ dump.tokens \in [Keys -> Entry(Token) \cup {None}]

\* What the dump holds under a key is what its session, or the login that is
\* still filling it, may find there: the dump is older than the store, and no
\* step changes an entry so that an older copy of it would be wrong.
Dumped ==
    /\ \A k \in Keys \ drawn : dump.tokens[k] = None /\ dump.secrets[k] = None
    /\ \A s \in issued : SessionEntries(s, dump.secrets[s.key], dump.tokens[s.key])
    /\ \A t \in Threads :
          LoginEntries(req[t], dump.secrets[req[t].key], dump.tokens[req[t].key])

RestartInv == TypeInv /\ IInv(revived, lost) /\ DumpType /\ Dumped

\* The database is empty at first, and so is the dump.
LEMMA RestartInitInv == RestartInit => RestartInv
<1> SUFFICES ASSUME RestartInit PROVE RestartInv
    OBVIOUS
<1>1. Init /\ dump.secrets = [k \in Keys |-> None] /\ dump.tokens = [k \in Keys |-> None]
    BY DEF RestartInit, Store
<1>2. TypeInv /\ DumpType
    BY <1>1, InitType DEF DumpType
<1>3. IInv(revived, lost)
    <2>1. PICK R, L : R = revived /\ L = lost
        OBVIOUS
    <2>2. IInv(R, L)
        BY <1>1, InitInv
    <2> QED BY <2>1, <2>2
<1>4. \A t \in Threads : req[t] = Idle
    BY <1>1 DEF Init
<1>5. \A t \in Threads : LoginEntries(req[t], dump.secrets[req[t].key], dump.tokens[req[t].key])
    BY <1>4 DEF LoginEntries, Idle, KeyPcs, LoginPcs
<1>6. Dumped
    BY <1>1, <1>5 DEF Dumped, Init
<1> QED BY <1>2, <1>3, <1>6 DEF RestartInv

\* The requests other than a login never get to a place of LoginView.
LEMMA OtherStep ==
    ASSUME TypeInv, NEW t \in Threads, Refresh(t) \/ Logout(t) \/ Api(t) \/ Crash(t)
    PROVE  /\ req'[t].pc \notin LoginPcs
           /\ \A u \in Threads : u # t => req'[u] = req[u]
           /\ UNCHANGED <<drawn, issued>>
<1>1. ASSUME NEW r, Become(t, r), r.pc \notin LoginPcs
      PROVE  /\ req'[t].pc \notin LoginPcs
             /\ \A u \in Threads : u # t => req'[u] = req[u]
    BY <1>1, BecomeReq
<1>2. Idle.pc \notin LoginPcs
    BY DEF Idle, LoginPcs
<1>3. \A p, c, s, ref, sec : Presents(p, c, s, ref, sec).pc = p
    BY PresentsFields
<1>4. {"refreshDecode", "refreshCreate", "refreshSet", "refreshExpire", "logoutAccess",
       "mwAccess", "viewSecret", "viewAccess", "served", "nouser"} \cap LoginPcs = {}
    BY DEF LoginPcs
<1> DEFINE Reading(p, token) == [req[t] EXCEPT !.pc = p, !.token = token]
           Looking(p, secret) == [req[t] EXCEPT !.pc = p, !.secret = secret]
           Going(p) == [req[t] EXCEPT !.pc = p]
           Checking(p, n) == [req[t] EXCEPT !.pc = p, !.checked = n]
           Dating(p, token) == [req[t] EXCEPT !.pc = p, !.token = token, !.checked = 0]
<1>5. /\ \A p, token : Reading(p, token).pc = p
      /\ \A p, secret : Looking(p, secret).pc = p
      /\ \A p : Going(p).pc = p
      /\ \A p, n : Checking(p, n).pc = p
      /\ \A p, token : Dating(p, token).pc = p
    BY Typing DEF Request
<1>6. UNCHANGED <<drawn, issued>>
    BY DEF Refresh, RefreshGetSecret, RefreshDecode, RefreshCreateToken, RefreshSetAccess,
           RefreshExpireAccess,
           Logout, LogoutExpireSecret, LogoutExpireAccess,
           Api, MiddlewareGetSecret, MiddlewareGetAccess, ViewGetSecret, ViewGetAccess,
           EndRequest, Crash, clientVars
<1>7. CASE Refresh(t)
    <2>1. ASSUME NEW c, RefreshGetSecret(t, c)
          PROVE  \E r : Become(t, r) /\ r.pc \notin LoginPcs
        BY <2>1, <1>3, <1>4 DEF RefreshGetSecret
    <2>2. CASE RefreshDecode(t) \/ RefreshCreateToken(t) \/ RefreshSetAccess(t)
        <3>1. \/ \E n : Become(t, Checking("refreshCreate", n))
              \/ \E token : Become(t, Dating("refreshSet", token))
              \/ Become(t, Going("refreshExpire"))
              \/ Become(t, Idle)
            BY <2>2 DEF RefreshDecode, RefreshCreateToken, RefreshSetAccess, Goto
        <3> HIDE DEF Reading, Looking, Going, Checking, Dating
        <3>2. \E r : Become(t, r) /\ r.pc \notin LoginPcs
            BY <3>1, <1>2, <1>4, <1>5
        <3> QED BY <3>2, <1>1, <1>6
    <2>3. CASE RefreshExpireAccess(t)
        BY <2>3, <1>2, <1>1, <1>6 DEF RefreshExpireAccess
    <2> QED BY <1>7, <2>1, <2>2, <2>3, <1>1, <1>6 DEF Refresh
<1>8. CASE Logout(t)
    BY <1>1, <1>2, <1>3, <1>4, <1>6, <1>8 DEF Logout, LogoutExpireSecret, LogoutExpireAccess
<1>9. CASE Api(t)
    <2>1. ASSUME NEW c, MiddlewareGetSecret(t, c)
          PROVE  \E r : Become(t, r) /\ r.pc \notin LoginPcs
        BY <2>1, <1>3, <1>4 DEF MiddlewareGetSecret
    <2>2. CASE MiddlewareGetAccess(t) \/ ViewGetAccess(t)
        <3>1. \/ \E token, p : /\ p \in {"viewSecret", "served"}
                               /\ Become(t, Reading(p, token))
              \/ Become(t, Going("nouser"))
              \/ Become(t, Idle)
            BY <2>2 DEF MiddlewareGetAccess, ViewGetAccess, Goto
        <3> HIDE DEF Reading, Looking, Going
        <3>2. \E r : Become(t, r) /\ r.pc \notin LoginPcs
            BY <3>1, <1>2, <1>4, <1>5
        <3> QED BY <3>2, <1>1, <1>6
    <2>3. CASE ViewGetSecret(t)
        <3>1. \E secret : Become(t, Looking("viewAccess", secret))
            BY <2>3 DEF ViewGetSecret
        <3> HIDE DEF Reading, Looking, Going
        <3>2. \E r : Become(t, r) /\ r.pc \notin LoginPcs
            BY <3>1, <1>4, <1>5
        <3> QED BY <3>2, <1>1, <1>6
    <2>4. CASE EndRequest(t)
        BY <2>4, <1>2, <1>1, <1>6 DEF EndRequest
    <2> QED BY <1>9, <2>1, <2>2, <2>3, <2>4, <1>1, <1>6 DEF Api
<1>10. CASE Crash(t)
    BY <1>1, <1>2, <1>6, <1>10 DEF Crash
<1> QED BY <1>7, <1>8, <1>9, <1>10

\* A step of a login does to the dump's entries what the invariant asks: the
\* dump cannot hold what the login has not written yet.
LEMMA LoginDumped ==
    ASSUME NoCollision, RestartInv, NEW t \in Threads, Login(t), dump' = dump
    PROVE  Dumped'
<1> USE DEF RestartInv
<1>t. req[t] \in Request /\ Shape(req[t]) /\ LoginTokens(req[t])
    BY Typing DEF IInv
<1> DEFINE Entries(r) == LoginEntries(r, dump.secrets[r.key], dump.tokens[r.key])
<1>1. ASSUME NEW r, Become(t, r), Entries(r), drawn \subseteq drawn', issued' = issued
      PROVE  Dumped'
    <2>1. \A u \in Threads : req'[u] = IF u = t THEN r ELSE req[u]
        BY <1>1, BecomeReq
    <2>2. \A u \in Threads :
              LoginEntries(req'[u], dump.secrets[req'[u].key], dump.tokens[req'[u].key])
        BY <1>1, <2>1 DEF Dumped
    <2> QED BY <1>1, <2>2 DEF Dumped, LoginEntries, SessionEntries, Lasting
<1>2. ASSUME NEW c \in Clients, NEW u \in Users, LoginCreateAccess(t, c, u)
      PROVE  Dumped'
    <2>1. PICK s : Become(t, [Idle EXCEPT !.pc = "createRefresh", !.client = c,
                                          !.token = CreateToken(u, s, ACCESS_AGE)])
        BY <1>2 DEF LoginCreateAccess
    <2> DEFINE r == [Idle EXCEPT !.pc = "createRefresh", !.client = c,
                                 !.token = CreateToken(u, s, ACCESS_AGE)]
    <2>2. r.pc = "createRefresh"
        BY DEF Idle
    <2> HIDE DEF r
    <2>3. Entries(r)
        BY <2>2 DEF LoginEntries, KeyPcs, LoginPcs
    <2> QED BY <1>1, <1>2, <2>1, <2>3 DEF LoginCreateAccess, clientVars, r
<1>3. CASE LoginCreateRefresh(t)
    <2> DEFINE r == [req[t] EXCEPT !.pc = "pick",
                        !.refresh = CreateToken(req[t].token.id, req[t].token.secret, REFRESH_AGE)]
    <2>1. Become(t, r) /\ UNCHANGED <<drawn, issued>>
        BY <1>3 DEF LoginCreateRefresh, clientVars
    <2>2. r.pc = "pick"
        BY <1>t DEF Request
    <2> HIDE DEF r
    <2>3. Entries(r)
        BY <2>2 DEF LoginEntries, KeyPcs, LoginPcs
    <2> QED BY <1>1, <2>1, <2>3
<1>4. CASE LoginPickKey(t)
    <2>1. PICK k \in Keys \ drawn :
            /\ drawn' = drawn \cup {k}
            /\ \/ req' = req
               \/ Become(t, [req[t] EXCEPT !.pc = "setAccess", !.key = k])
        BY <1>4 DEF LoginPickKey, RandomKey, NoCollision
    <2>2. issued' = issued
        BY <1>4 DEF LoginPickKey, clientVars
    <2>3. CASE req' = req
        BY <2>1, <2>2, <2>3 DEF Dumped, LoginEntries, SessionEntries, Lasting
    <2>4. CASE Become(t, [req[t] EXCEPT !.pc = "setAccess", !.key = k])
        <3> DEFINE r == [req[t] EXCEPT !.pc = "setAccess", !.key = k]
        <3>1. r.pc = "setAccess" /\ r.key = k
            BY <1>t DEF Request
        <3> HIDE DEF r
        <3>2. Entries(r)
            BY <2>1, <3>1 DEF LoginEntries, Dumped
        <3> QED BY <1>1, <2>1, <2>2, <2>4, <3>2 DEF r
    <2> QED BY <2>1, <2>3, <2>4
<1>5. ASSUME NEW p \in {"expireAccess", "setSecret", "expireSecret", "issue"}, Goto(t, p),
             p = "expireAccess" => req[t].pc = "setAccess",
             p = "setSecret" => req[t].pc = "expireAccess",
             p = "expireSecret" => req[t].pc = "setSecret",
             p = "issue" => req[t].pc = "expireSecret",
             drawn' = drawn, issued' = issued
      PROVE  Dumped'
    <2> DEFINE r == [req[t] EXCEPT !.pc = p]
    <2>1. r.pc = p /\ r.key = req[t].key /\ r.token = req[t].token /\ r.refresh = req[t].refresh
        BY <1>t DEF Request
    <2>2. Become(t, r)
        BY <1>5 DEF Goto
    <2> HIDE DEF r
    <2>3. LoginEntries(req[t], dump.secrets[req[t].key], dump.tokens[req[t].key])
        BY DEF Dumped
    <2>4. req[t].pc \in KeyPcs
        BY <1>5 DEF KeyPcs, LoginPcs
    <2>5. Entries(r)
        BY <1>5, <2>1, <2>3, <2>4 DEF LoginEntries, Lasting
    <2> QED BY <1>1, <1>5, <2>2, <2>5
<1>6. CASE LoginRespond(t)
    <2> DEFINE s == [key |-> req[t].key, refresh |-> req[t].refresh]
    <2>1. /\ req[t].pc = "issue" /\ Become(t, Idle)
          /\ issued' = issued \cup {s}
          /\ drawn' = drawn
        BY <1>6 DEF LoginRespond, At
    <2>2. s.key = req[t].key /\ s.refresh = req[t].refresh
        OBVIOUS
    <2> HIDE DEF s
    <2>3. LoginEntries(req[t], dump.secrets[req[t].key], dump.tokens[req[t].key])
        BY DEF Dumped
    <2>4. req[t].pc \in KeyPcs /\ req[t].pc \in LoginPcs
        BY <2>1 DEF KeyPcs, LoginPcs
    <2>5. SessionEntries(s, dump.secrets[s.key], dump.tokens[s.key])
        BY <1>t, <2>1, <2>2, <2>3, <2>4 DEF SessionEntries, LoginEntries, LoginTokens
    <2>6. \A u \in Threads : req'[u] = IF u = t THEN Idle ELSE req[u]
        BY <2>1, BecomeReq
    <2>7. Entries(Idle)
        BY DEF LoginEntries, Idle, KeyPcs, LoginPcs
    <2>8. \A u \in Threads :
              LoginEntries(req'[u], dump.secrets[req'[u].key], dump.tokens[req'[u].key])
        BY <2>6, <2>7 DEF Dumped
    <2>9. \A s2 \in issued' : SessionEntries(s2, dump.secrets[s2.key], dump.tokens[s2.key])
        BY <2>1, <2>5 DEF Dumped
    <2> QED BY <2>1, <2>8, <2>9 DEF Dumped, LoginEntries, SessionEntries, Lasting
<1>7. CASE LoginSetAccess(t) \/ LoginExpireAccess(t) \/ LoginSetSecret(t) \/ LoginExpireSecret(t)
    <2>1. UNCHANGED <<drawn, issued>>
        BY <1>7 DEF LoginSetAccess, LoginExpireAccess, LoginSetSecret, LoginExpireSecret, clientVars
    <2> QED BY <1>5, <1>7, <2>1
        DEF LoginSetAccess, LoginExpireAccess, LoginSetSecret, LoginExpireSecret, At
<1> QED BY <1>3, <1>2, <1>4, <1>6, <1>7 DEF Login

\* A step of Sessions keeps the dump right.
LEMMA NextDumped ==
    ASSUME NoCollision, RestartInv, [Next]_vars, dump' = dump
    PROVE  Dumped'
<1> USE DEF RestartInv
<1>1. ASSUME NEW t \in Threads, Refresh(t) \/ Logout(t) \/ Api(t) \/ Crash(t)
      PROVE  Dumped'
    <2>1. /\ req'[t].pc \notin LoginPcs
          /\ \A u \in Threads : u # t => req'[u] = req[u]
          /\ UNCHANGED <<drawn, issued>>
        BY <1>1, OtherStep
    <2>2. \A u \in Threads :
              LoginEntries(req'[u], dump.secrets[req'[u].key], dump.tokens[req'[u].key])
        BY <2>1 DEF Dumped, LoginEntries, KeyPcs, LoginPcs
    <2> QED BY <2>1, <2>2 DEF Dumped, LoginEntries, SessionEntries, Lasting
<1>2. CASE Tick \/ UNCHANGED vars
    <2>1. UNCHANGED <<drawn, issued, req>>
        BY <1>2 DEF Tick, vars, clientVars
    <2> QED BY <2>1 DEF Dumped, LoginEntries, SessionEntries, Lasting
<1> QED BY <1>1, <1>2, LoginDumped DEF Next

\* A step of Sessions keeps the invariant: the keys brought back or taken away
\* stay the same.
LEMMA NextRestartInv ==
    ASSUME NoCollision, RestartInv, [Next]_vars, UNCHANGED restartVars
    PROVE  RestartInv'
<1>1. TypeInv'
    BY NextType DEF RestartInv
<1>2. IInv(revived, lost)'
    <2>1. PICK R, L : R = revived /\ L = lost
        OBVIOUS
    <2>2. IInv(R, L)
        BY <2>1 DEF RestartInv
    <2>3. IInv(R, L)'
        BY <2>2, NextInv DEF RestartInv
    <2>4. revived' = R /\ lost' = L
        BY <2>1 DEF restartVars
    <2>5. Unshared' /\ Handed'
        BY <2>3 DEF IInv
    <2>6. Stored(revived, lost)'
        BY <2>3, <2>4 DEF IInv, Stored, StoredFor
    <2>7. ASSUME NEW t \in Threads
          PROVE  (LoginTokens(req[t]) /\ LoginStore(req[t], lost)
                      /\ Presented(req[t]) /\ Late(req[t], revived))'
        <3>1. (LoginTokens(req[t]) /\ LoginStore(req[t], L) /\ Presented(req[t]) /\ Late(req[t], R))'
            BY <2>3 DEF IInv
        <3> QED BY <2>4, <3>1 DEF LoginStore, Late
    <2> QED BY <2>5, <2>6, <2>7 DEF IInv
<1>3. Dumped' /\ DumpType'
    <2>1. dump' = dump
        BY DEF restartVars
    <2> QED BY <2>1, NextDumped DEF RestartInv, DumpType
<1> QED BY <1>1, <1>2, <1>3 DEF RestartInv

\* A dump of the store is as good as the store.
LEMMA SaveDumpInv ==
    ASSUME RestartInv, SaveDump
    PROVE  RestartInv'
<1>1. /\ dump' = [secrets |-> secretKeys, tokens |-> accessKeys]
      /\ UNCHANGED <<now, secretKeys, accessKeys, drawn, held, issued, loggedOut, req, revived, lost>>
    BY DEF SaveDump, Store, vars
<1>2. dump'.secrets = secretKeys /\ dump'.tokens = accessKeys
    BY <1>1
<1>3. TypeInv'
    BY <1>1 DEF RestartInv, TypeInv, TypeOK
<1>4. IInv(revived, lost)'
    BY <1>1 DEF RestartInv, IInv, Unshared, Handed, Stored, StoredFor, LoginTokens, LoginStore,
                Presented, Late
<1>5. DumpType'
    BY <1>1, <1>2, Typing DEF RestartInv, DumpType
<1>6. Dumped'
    <2>1. \A k \in Keys \ drawn : accessKeys[k] = None /\ secretKeys[k] = None
        BY DEF RestartInv, IInv, Stored
    <2>2. \A s \in issued : SessionEntries(s, secretKeys[s.key], accessKeys[s.key])
        BY DEF RestartInv, IInv, Stored, StoredFor
    <2>3. \A t \in Threads : LoginEntries(req[t], secretKeys[req[t].key], accessKeys[req[t].key])
        BY DEF RestartInv, IInv, LoginStore
    <2> QED BY <1>1, <1>2, <2>1, <2>2, <2>3 DEF Dumped, LoginEntries, SessionEntries, Lasting
<1> QED BY <1>3, <1>4, <1>5, <1>6 DEF RestartInv

\* What loading a dump gives: entries of the dump, or nothing.
LEMMA LoadedEntries ==
    ASSUME NEW V, NEW map \in [Keys -> Entry(V) \cup {None}], NEW k \in Keys
    PROVE  Loaded(map)[k] \in {None, map[k]}
BY DEF Loaded, Purge

\* A restart leaves every session with entries that fit it; a key that it
\* brings back after a logout is in revived, one that it takes away is in lost.
LEMMA RestartRedisInv ==
    ASSUME RestartInv, RestartRedis
    PROVE  RestartInv'
<1>1. /\ secretKeys' = Loaded(dump.secrets)
      /\ accessKeys' = Loaded(dump.tokens)
      /\ revived' = revived \cup {k \in loggedOut : ExistsIn(secretKeys', k)}
      /\ lost' = lost \cup {k \in Keys : GetFrom(secretKeys, k) \notin {None, GetFrom(secretKeys', k)}}
      /\ UNCHANGED <<now, drawn, held, issued, loggedOut, req, dump>>
    BY DEF RestartRedis, clientVars
<1>2. DumpType /\ Dumped /\ IInv(revived, lost) /\ TypeInv
    BY DEF RestartInv
<1>3. \A k \in Keys : secretKeys'[k] \in {None, dump.secrets[k]} /\ accessKeys'[k] \in {None, dump.tokens[k]}
    BY <1>1, <1>2, LoadedEntries DEF DumpType
<1>4. /\ secretKeys' \in [Keys -> Entry(Secrets) \cup {None}]
      /\ accessKeys' \in [Keys -> Entry(Token) \cup {None}]
    BY <1>1, <1>2, PurgeType DEF DumpType, Loaded
<1>5. TypeInv'
    BY <1>1, <1>2, <1>4 DEF TypeInv, TypeOK
<1>6. Unshared' /\ Handed'
    BY <1>1, <1>2 DEF IInv, Unshared, Handed
<1>7. \A k \in Keys : secretKeys[k] # None => GetFrom(secretKeys, k) # None
    <2>1. \A k \in Keys : secretKeys[k] # None => secretKeys[k].val \in Secrets
        BY <1>2, Typing DEF Entry
    <2> QED BY <2>1, NoneAssumption DEF GetFrom
<1>8. \A k \in Keys : secretKeys[k] # None /\ k \notin lost' => secretKeys'[k] # None
    BY <1>1, <1>7 DEF GetFrom
<1>9. ASSUME NEW s \in issued PROVE StoredFor(s, revived, lost)'
    <2>1. /\ StoredFor(s, revived, lost) /\ s.key \in Keys
          /\ SessionEntries(s, dump.secrets[s.key], dump.tokens[s.key])
        BY <1>2, Typing DEF IInv, Stored, Dumped
    <2>2. SessionEntries(s, secretKeys'[s.key], accessKeys'[s.key])
        BY <1>3, <2>1 DEF SessionEntries
    <2>3. s.key \in loggedOut /\ s.key \notin revived' => secretKeys'[s.key] = None
        BY <1>1 DEF ExistsIn
    <2>4. s.key \notin loggedOut /\ s.key \notin lost' /\ now <= s.refresh.exp => secretKeys'[s.key] # None
        BY <1>1, <1>8, <2>1 DEF StoredFor
    <2> QED BY <1>1, <2>2, <2>3, <2>4 DEF StoredFor, SessionEntries, Lasting
<1>10. Stored(revived, lost)'
    <2>1. \A k \in Keys \ drawn : accessKeys'[k] = None /\ secretKeys'[k] = None
        BY <1>2, <1>3 DEF Dumped
    <2> QED BY <1>1, <1>9, <2>1 DEF Stored
<1>11. ASSUME NEW t \in Threads PROVE LoginStore(req[t], lost)'
    <2>1. /\ LoginStore(req[t], lost) /\ Shape(req[t])
          /\ LoginEntries(req[t], dump.secrets[req[t].key], dump.tokens[req[t].key])
        BY <1>2, Typing DEF IInv, Dumped
    <2>2. CASE req[t].pc \in KeyPcs
        <3>1. req[t].key \in Keys
            BY <2>1, <2>2 DEF Shape, KeyPcs
        <3>2. LoginEntries(req[t], secretKeys'[req[t].key], accessKeys'[req[t].key])
            BY <1>3, <2>1, <3>1 DEF LoginEntries
        <3> QED BY <1>1, <1>8, <2>1, <3>1, <3>2 DEF LoginStore, LoginEntries, Lasting
    <2>3. CASE req[t].pc \notin KeyPcs
        BY <1>1, <2>3 DEF LoginStore, LoginEntries, KeyPcs, LoginPcs
    <2> QED BY <2>2, <2>3
<1>12. ASSUME NEW t \in Threads
       PROVE  (LoginTokens(req[t]) /\ Presented(req[t]) /\ Late(req[t], revived))'
    BY <1>1, <1>2 DEF IInv, LoginTokens, Presented, Late
<1>13. IInv(revived, lost)'
    BY <1>6, <1>10, <1>11, <1>12 DEF IInv
<1>14. DumpType' /\ Dumped'
    BY <1>1, <1>2 DEF DumpType, Dumped, LoginEntries, SessionEntries, Lasting
<1> QED BY <1>5, <1>13, <1>14 DEF RestartInv

\* The invariant holds in every reachable state.
LEMMA RestartInvariant ==
    ASSUME NoCollision
    PROVE  RestartSpec => []RestartInv
<1>1. RestartInv /\ [RestartNext]_<<vars, restartVars>> => RestartInv'
    BY NextRestartInv, SaveDumpInv, RestartRedisInv, NoCollision DEF RestartNext
<1> QED BY <1>1, RestartInitInv, PTL DEF RestartSpec

-----------------------------------------------------------------------------
(* The properties of SessionsRestart. *)

\* A request that began after the logout of its key_name is admitted only if a
\* restart of the Redis server brought the secret back from an older dump.
THEOREM LogoutHoldsUnlessRevived ==
    ASSUME NoCollision
    PROVE  RestartSpec => []RevivedOnlyByRestart
<1>1. RestartInv => RevivedOnlyByRestart
    BY DEF RestartInv, IInv, Late, RevivedOnlyByRestart, Admitted
<1> QED BY <1>1, RestartInvariant, NoCollision, PTL

\* A session that is neither logged out nor expired can be refreshed unless a
\* restart took its secret away.
THEOREM RefreshableAcrossRestarts ==
    ASSUME NoCollision
    PROVE  RestartSpec => []RefreshableUnlessLost
<1>1. RestartInv => RefreshableUnlessLost
    BY DEF RestartInv, IInv, Stored, StoredFor, SessionEntries, RefreshableUnlessLost, GetFrom
<1> QED BY <1>1, RestartInvariant, NoCollision, PTL

\* No restart lengthens a session: a token that comes back from a dump is one
\* of the session's, so that no request is served later than the age of an
\* access token after the refresh token expired, plus the time that the refresh
\* which created the token took between jwt.decode and create_token.
THEOREM LifetimeAcrossRestarts ==
    ASSUME NoCollision
    PROVE  RestartSpec => ServedWithinLifetime
<1> DEFINE A == \A t \in Threads : ~At(t, "served") /\ req'[t].pc = "served"
                     => now <= req'[t].sess.refresh.exp + req'[t].token.pause + ACCESS_AGE
<1>1. RestartInv /\ [RestartNext]_<<vars, restartVars>> => [A]_vars
    <2>1. ASSUME RestartInv, Next PROVE A
        <3>1. PICK R, L : R = revived /\ L = lost
            OBVIOUS
        <3>2. TypeInv /\ IInv(R, L)
            BY <2>1, <3>1 DEF RestartInv
        <3> QED BY <2>1, <3>2, ServedStep
    <2>2. SaveDump => UNCHANGED vars
        BY DEF SaveDump
    <2>3. RestartRedis => A
        BY DEF RestartRedis, At
    <2>4. UNCHANGED <<vars, restartVars>> => UNCHANGED vars
        OBVIOUS
    <2> HIDE DEF A
    <2> QED BY <2>1, <2>2, <2>3, <2>4 DEF RestartNext
<1> QED BY <1>1, RestartInvariant, NoCollision, PTL DEF RestartSpec, ServedWithinLifetime
=============================================================================
