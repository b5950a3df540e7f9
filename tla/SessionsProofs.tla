--------------------------- MODULE SessionsProofs ---------------------------
(***************************************************************************)
(* Proofs about Sessions, for every set of users, clients, keys, secrets   *)
(* and threads, every pair of ages and every bound on the clock.           *)
(***************************************************************************)
EXTENDS Sessions, TLAPS

-----------------------------------------------------------------------------
(* The store's operators preserve the type of a map. *)

\* SET keeps the type of a map.
LEMMA SetInType ==
    ASSUME NEW K, NEW V, NEW map \in [K -> Entry(V) \cup {None}], NEW k \in K, NEW v \in V
    PROVE  SetIn(map, k, v) \in [K -> Entry(V) \cup {None}]
BY DEF SetIn, Entry, Persistent

\* EXPIRE keeps the type of a map.
LEMMA ExpireInType ==
    ASSUME NEW K, NEW V, NEW map \in [K -> Entry(V) \cup {None}], NEW k \in K,
           NEW ttl \in Nat, NEW t \in Nat
    PROVE  ExpireIn(map, k, ttl, t) \in [K -> Entry(V) \cup {None}]
<1>1. CASE map[k] = None
    BY <1>1 DEF ExpireIn
<1>2. CASE map[k] # None
    <2>1. map[k] \in Entry(V)
        BY <1>2
    <2>2. [val |-> map[k].val, exp |-> t + ttl] \in Entry(V)
        BY <2>1 DEF Entry
    <2> QED BY <1>2, <2>2 DEF ExpireIn
<1> QED BY <1>1, <1>2

\* GET returns a stored value or None.
LEMMA GetFromType ==
    ASSUME NEW K, NEW V, NEW map \in [K -> Entry(V) \cup {None}], NEW k \in K
    PROVE  GetFrom(map, k) \in V \cup {None}
BY DEF GetFrom, Entry

\* Dropping what has expired keeps the type of a map.
LEMMA PurgeType ==
    ASSUME NEW K, NEW V, NEW map \in [K -> Entry(V) \cup {None}], NEW t
    PROVE  Purge(map, t) \in [K -> Entry(V) \cup {None}]
BY DEF Purge

-----------------------------------------------------------------------------
(* Type correctness.  TypeOK is not inductive: LoginSetAccess stores         *)
(* req[t].token under req[t].key, which is typed only because a login that   *)
(* has come that far has a token and a key.                                  *)

PresentPcs == RefreshPcs \cup ApiPcs \cup {"logoutAccess"}

\* The fields that are not None at each place of a request.
Shape(r) ==
    /\ r.pc \in LoginPcs => r.client \in Clients /\ r.token \in Token
    /\ r.pc \in LoginPcs \ {"createRefresh"} => r.refresh \in Token
    /\ r.pc \in LoginPcs \ {"createRefresh", "pick"} => r.key \in Keys
    /\ r.pc \in PresentPcs =>
          r.client \in Clients /\ r.sess \in Session /\ r.key \in Keys /\ r.key = r.sess.key
    /\ r.pc \in RefreshPcs => r.refresh \in Token
    /\ r.pc = "refreshCreate" => r.secret \in Secrets
    /\ r.pc \in {"refreshSet", "viewSecret", "viewAccess", "served"} => r.token \in Token

TypeInv == TypeOK /\ \A t \in Threads : Shape(req[t])

\* A thread without a request has the type and the shape of one.
LEMMA IdleShape == Idle \in Request /\ Shape(Idle)
BY DEF Idle, Request, Pc, Shape, LoginPcs, RefreshPcs, ApiPcs, PresentPcs

\* The initial state is typed.
LEMMA InitType == Init => TypeInv
<1> SUFFICES ASSUME Init PROVE TypeInv
    OBVIOUS
<1>1. \A t \in Threads : req[t] = Idle
    BY DEF Init
<1>2. TypeOK
    BY IdleShape DEF Init, TypeOK
<1> QED BY <1>1, <1>2, IdleShape DEF TypeInv

\* The request with which client c presents session s.
LEMMA PresentShape ==
    ASSUME TypeInv, NEW c \in Clients, NEW s \in Session, NEW ref \in Token \cup {None},
           NEW sec \in Secrets \cup {None},
           NEW p \in {"refreshDecode", "mwAccess", "logoutAccess"},
           p = "refreshDecode" => ref \in Token
    PROVE  Presents(p, c, s, ref, sec) \in Request /\ Shape(Presents(p, c, s, ref, sec))
<1> DEFINE r(late) == [Idle EXCEPT !.pc = p, !.client = c, !.sess = s, !.key = s.key,
                                   !.refresh = ref, !.secret = sec, !.late = late]
<1>1. s.key \in Keys
    BY DEF Session
<1>2. \A late \in BOOLEAN : r(late) \in Request /\ Shape(r(late))
    BY <1>1 DEF Idle, Request, Shape, LoginPcs, RefreshPcs, ApiPcs, PresentPcs, Pc
<1>3. Presents(p, c, s, ref, sec) = r(s.key \in loggedOut)
    BY DEF Presents
<1>4. (s.key \in loggedOut) \in BOOLEAN
    OBVIOUS
<1> HIDE DEF r
<1> QED BY <1>2, <1>3, <1>4, Zenon

\* A step of thread t that gives its request a typed and well-shaped value.
LEMMA BecomeType ==
    ASSUME TypeInv, NEW t \in Threads, NEW r \in Request, Shape(r), Become(t, r)
    PROVE  req' \in [Threads -> Request] /\ \A u \in Threads : Shape(req'[u])
<1>1. req \in [Threads -> Request]
    BY DEF TypeInv, TypeOK
<1>2. \A u \in Threads : req'[u] = IF u = t THEN r ELSE req[u]
    BY <1>1 DEF Become
<1> QED BY <1>1, <1>2 DEF Become, TypeInv

\* Every step keeps the types and the shapes.
LEMMA NextType == TypeInv /\ [Next]_vars => TypeInv'
<1> SUFFICES ASSUME TypeInv, [Next]_vars PROVE TypeInv'
    OBVIOUS
<1> USE AgeAssumption
<1> DEFINE NewReq == req' \in [Threads -> Request] /\ \A u \in Threads : Shape(req'[u])
<1>t. /\ TypeOK
      /\ \A u \in Threads : req[u] \in Request /\ Shape(req[u])
    BY DEF TypeInv, TypeOK
<1>LoginCreateAccess. ASSUME NEW t \in Threads, NEW c \in Clients, NEW u \in Users,
             LoginCreateAccess(t, c, u)
      PROVE  TypeInv'
    <2>1. PICK s \in Secrets :
              /\ drawn' = drawn \cup {s}
              /\ Become(t, [Idle EXCEPT !.pc = "createRefresh", !.client = c,
                                  !.token = CreateToken(u, s, ACCESS_AGE)])
        BY <1>LoginCreateAccess DEF LoginCreateAccess, RandomKey
    <2> DEFINE r == [Idle EXCEPT !.pc = "createRefresh", !.client = c,
                                  !.token = CreateToken(u, s, ACCESS_AGE)]
    <2>2. CreateToken(u, s, ACCESS_AGE) \in Token
        BY <1>t DEF CreateToken, Token, TypeOK
    <2>3. r \in Request /\ Shape(r)
        BY <2>2 DEF Idle, Request, Shape, LoginPcs, RefreshPcs, ApiPcs, PresentPcs, Pc
    <2>4. NewReq
        BY <2>1, <2>3, BecomeType
    <2> QED BY <1>LoginCreateAccess, <1>t, <2>1, <2>4 DEF LoginCreateAccess, TypeOK, TypeInv, storeVars, clientVars
<1>LoginCreateRefresh. ASSUME NEW t \in Threads,
             LoginCreateRefresh(t)
      PROVE  TypeInv'
    <2> DEFINE refresh == CreateToken(req[t].token.id, req[t].token.secret, REFRESH_AGE)
               r == [req[t] EXCEPT !.pc = "pick", !.refresh = refresh]
    <2>1. req[t].pc = "createRefresh" /\ Become(t, r)
        BY <1>LoginCreateRefresh DEF LoginCreateRefresh, At
    <2>2. req[t].token \in Token /\ req[t].client \in Clients
        BY <1>t, <2>1 DEF Shape, LoginPcs
    <2>3. refresh \in Token
        BY <1>t, <2>2 DEF CreateToken, Token, TypeOK
    <2>4. r \in Request /\ r.pc = "pick" /\ r.refresh = refresh /\ r.token = req[t].token
              /\ r.client = req[t].client
        BY <1>t, <2>3 DEF Request, Pc, LoginPcs
    <2>5. Shape(r)
        BY <2>2, <2>3, <2>4 DEF Shape, LoginPcs, RefreshPcs, ApiPcs, PresentPcs
    <2>6. NewReq
        BY <2>1, <2>4, <2>5, BecomeType
    <2> QED BY <1>LoginCreateRefresh, <1>t, <2>6 DEF LoginCreateRefresh, TypeOK, TypeInv, storeVars, clientVars
<1>LoginPickKey. ASSUME NEW t \in Threads,
             LoginPickKey(t)
      PROVE  TypeInv'
    <2>1. PICK k \in Keys :
              /\ drawn' = drawn \cup {k}
              /\ \/ req' = req
                 \/ Become(t, [req[t] EXCEPT !.pc = "setAccess", !.key = k])
        BY <1>LoginPickKey DEF LoginPickKey, RandomKey
    <2> DEFINE r == [req[t] EXCEPT !.pc = "setAccess", !.key = k]
    <2>2. r \in Request /\ Shape(r)
        BY <1>LoginPickKey, <1>t, ZenonT(60) DEF LoginPickKey, At, Request, Shape, LoginPcs, RefreshPcs, ApiPcs, PresentPcs, Pc
    <2>3. NewReq
        BY <1>t, <2>1, <2>2, BecomeType DEF TypeInv, TypeOK
    <2> QED BY <1>LoginPickKey, <1>t, <2>1, <2>3 DEF LoginPickKey, TypeOK, TypeInv, storeVars, clientVars
<1>LoginSetAccess. ASSUME NEW t \in Threads,
             LoginSetAccess(t)
      PROVE  TypeInv'
    <2>1. /\ req[t].key \in Keys
          /\ req[t].token \in Token
          /\ req[t].refresh \in Token
          /\ Become(t, [req[t] EXCEPT !.pc = "expireAccess"])
        BY <1>LoginSetAccess, <1>t DEF LoginSetAccess, Goto, At, Shape, LoginPcs, RefreshPcs, ApiPcs, PresentPcs, Pc
    <2>2. [req[t] EXCEPT !.pc = "expireAccess"] \in Request /\ Shape([req[t] EXCEPT !.pc = "expireAccess"])
        BY <1>LoginSetAccess, <1>t DEF LoginSetAccess, At, Request, Shape, LoginPcs, RefreshPcs, ApiPcs, PresentPcs, Pc
    <2>3. NewReq
        BY <2>1, <2>2, BecomeType
    <2>4. SetIn(accessKeys, req[t].key, req[t].token) \in [Keys -> Entry(Token) \cup {None}]
        BY <1>t, <2>1, SetInType DEF TypeOK, Token
    <2> QED BY <1>LoginSetAccess, <1>t, <2>3, <2>4 DEF LoginSetAccess, TypeOK, TypeInv, storeVars, clientVars
<1>LoginExpireAccess. ASSUME NEW t \in Threads,
             LoginExpireAccess(t)
      PROVE  TypeInv'
    <2>1. /\ req[t].key \in Keys
          /\ req[t].token \in Token
          /\ req[t].refresh \in Token
          /\ Become(t, [req[t] EXCEPT !.pc = "setSecret"])
        BY <1>LoginExpireAccess, <1>t DEF LoginExpireAccess, Goto, At, Shape, LoginPcs, RefreshPcs, ApiPcs, PresentPcs, Pc
    <2>2. [req[t] EXCEPT !.pc = "setSecret"] \in Request /\ Shape([req[t] EXCEPT !.pc = "setSecret"])
        BY <1>LoginExpireAccess, <1>t DEF LoginExpireAccess, At, Request, Shape, LoginPcs, RefreshPcs, ApiPcs, PresentPcs, Pc
    <2>3. NewReq
        BY <2>1, <2>2, BecomeType
    <2>4. ExpireIn(accessKeys, req[t].key, ACCESS_AGE, now) \in [Keys -> Entry(Token) \cup {None}]
        BY <1>t, <2>1, ExpireInType DEF TypeOK, Token
    <2> QED BY <1>LoginExpireAccess, <1>t, <2>3, <2>4 DEF LoginExpireAccess, TypeOK, TypeInv, storeVars, clientVars
<1>LoginSetSecret. ASSUME NEW t \in Threads,
             LoginSetSecret(t)
      PROVE  TypeInv'
    <2>1. /\ req[t].key \in Keys
          /\ req[t].token \in Token
          /\ req[t].refresh \in Token
          /\ Become(t, [req[t] EXCEPT !.pc = "expireSecret"])
        BY <1>LoginSetSecret, <1>t DEF LoginSetSecret, Goto, At, Shape, LoginPcs, RefreshPcs, ApiPcs, PresentPcs, Pc
    <2>2. [req[t] EXCEPT !.pc = "expireSecret"] \in Request /\ Shape([req[t] EXCEPT !.pc = "expireSecret"])
        BY <1>LoginSetSecret, <1>t DEF LoginSetSecret, At, Request, Shape, LoginPcs, RefreshPcs, ApiPcs, PresentPcs, Pc
    <2>3. NewReq
        BY <2>1, <2>2, BecomeType
    <2>4. SetIn(secretKeys, req[t].key, req[t].refresh.secret) \in [Keys -> Entry(Secrets) \cup {None}]
        BY <1>t, <2>1, SetInType DEF TypeOK, Token
    <2> QED BY <1>LoginSetSecret, <1>t, <2>3, <2>4 DEF LoginSetSecret, TypeOK, TypeInv, storeVars, clientVars
<1>LoginExpireSecret. ASSUME NEW t \in Threads,
             LoginExpireSecret(t)
      PROVE  TypeInv'
    <2>1. /\ req[t].key \in Keys
          /\ req[t].token \in Token
          /\ req[t].refresh \in Token
          /\ Become(t, [req[t] EXCEPT !.pc = "issue"])
        BY <1>LoginExpireSecret, <1>t DEF LoginExpireSecret, Goto, At, Shape, LoginPcs, RefreshPcs, ApiPcs, PresentPcs, Pc
    <2>2. [req[t] EXCEPT !.pc = "issue"] \in Request /\ Shape([req[t] EXCEPT !.pc = "issue"])
        BY <1>LoginExpireSecret, <1>t DEF LoginExpireSecret, At, Request, Shape, LoginPcs, RefreshPcs, ApiPcs, PresentPcs, Pc
    <2>3. NewReq
        BY <2>1, <2>2, BecomeType
    <2>4. ExpireIn(secretKeys, req[t].key, REFRESH_AGE, now) \in [Keys -> Entry(Secrets) \cup {None}]
        BY <1>t, <2>1, ExpireInType DEF TypeOK, Token
    <2> QED BY <1>LoginExpireSecret, <1>t, <2>3, <2>4 DEF LoginExpireSecret, TypeOK, TypeInv, storeVars, clientVars
<1>LoginRespond. ASSUME NEW t \in Threads,
             LoginRespond(t)
      PROVE  TypeInv'
    <2>1. NewReq
        BY <1>LoginRespond, IdleShape, BecomeType DEF LoginRespond
    <2>2. [key |-> req[t].key, refresh |-> req[t].refresh] \in Session
        BY <1>LoginRespond, <1>t DEF LoginRespond, At, Shape, Session, LoginPcs, RefreshPcs, ApiPcs, PresentPcs, Pc
    <2> QED BY <1>LoginRespond, <1>t, <2>1, <2>2 DEF LoginRespond, TypeOK, TypeInv, storeVars, clientVars
<1>RefreshGetSecret. ASSUME NEW t \in Threads, NEW c \in Clients,
             RefreshGetSecret(t, c)
      PROVE  TypeInv'
    <2>1. PICK s \in held[c], s2 \in held[c] :
            Become(t, Presents("refreshDecode", c, s, s2.refresh, GetFrom(secretKeys, s.key)))
        BY <1>RefreshGetSecret DEF RefreshGetSecret
    <2> DEFINE r == Presents("refreshDecode", c, s, s2.refresh, GetFrom(secretKeys, s.key))
    <2>2. s \in Session /\ s2 \in Session
        BY <1>t DEF TypeOK
    <2>3. s.key \in Keys /\ s2.refresh \in Token
        BY <2>2 DEF Session
    <2>4. GetFrom(secretKeys, s.key) \in Secrets \cup {None}
        BY <1>t, <2>3, GetFromType DEF TypeOK
    <2>5. r \in Request /\ Shape(r)
        BY <2>2, <2>3, <2>4, PresentShape
    <2>6. NewReq
        BY <2>1, <2>5, BecomeType
    <2> QED BY <1>RefreshGetSecret, <1>t, <2>6 DEF RefreshGetSecret, TypeOK, TypeInv, storeVars, clientVars
<1>RefreshDecode. ASSUME NEW t \in Threads,
             RefreshDecode(t)
      PROVE  TypeInv'
    <2> DEFINE r == [req[t] EXCEPT !.pc = "refreshCreate", !.checked = now]
    <2>1. NewReq
        <3>1. CASE Decodes(req[t].refresh, req[t].secret)
            <4>1. Become(t, r) /\ req[t].pc = "refreshDecode"
                BY <1>RefreshDecode, <3>1 DEF RefreshDecode, At
            <4>2. req[t].secret \in Secrets
                BY <1>t, <3>1 DEF Decodes, Request
            <4>3. /\ r \in Request /\ r.pc = "refreshCreate" /\ r.secret = req[t].secret
                  /\ r.client = req[t].client /\ r.sess = req[t].sess
                  /\ r.key = req[t].key /\ r.refresh = req[t].refresh
                BY <1>t DEF Request, Pc, RefreshPcs, TypeOK
            <4> HIDE DEF r
            <4>4. Shape(r)
                BY <1>t, <4>1, <4>2, <4>3 DEF Shape, LoginPcs, RefreshPcs, ApiPcs, PresentPcs
            <4> QED BY <4>1, <4>3, <4>4, BecomeType
        <3>2. CASE ~Decodes(req[t].refresh, req[t].secret)
            BY <1>RefreshDecode, <3>2, IdleShape, BecomeType DEF RefreshDecode
        <3> QED BY <3>1, <3>2
    <2> QED BY <1>RefreshDecode, <1>t, <2>1 DEF RefreshDecode, TypeOK, TypeInv, storeVars, clientVars
<1>RefreshCreateToken. ASSUME NEW t \in Threads,
             RefreshCreateToken(t)
      PROVE  TypeInv'
    <2> DEFINE r == [req[t] EXCEPT !.pc = "refreshSet", !.token = RefreshedToken(t), !.checked = 0]
    <2>1. req[t].pc = "refreshCreate" /\ Become(t, r)
        BY <1>RefreshCreateToken DEF RefreshCreateToken, At
    <2>2. RefreshedToken(t) \in Token
        <3>1. /\ req[t].refresh \in Token /\ req[t].secret \in Secrets
              /\ req[t].checked \in Nat /\ now \in Nat
            BY <1>t, <2>1 DEF Shape, Request, RefreshPcs, TypeOK
        <3>2. CreateToken(req[t].refresh.id, req[t].secret, ACCESS_AGE) \in Token
            BY <3>1 DEF CreateToken, Token
        <3> QED BY <3>1, <3>2 DEF RefreshedToken, Token
    <2>3. /\ r \in Request /\ r.pc = "refreshSet" /\ r.token = RefreshedToken(t)
          /\ r.client = req[t].client /\ r.sess = req[t].sess
          /\ r.key = req[t].key /\ r.refresh = req[t].refresh
        BY <1>t, <2>2 DEF Request, Pc, RefreshPcs
    <2> HIDE DEF r
    <2>4. Shape(r)
        BY <1>t, <2>1, <2>2, <2>3 DEF Shape, LoginPcs, RefreshPcs, ApiPcs, PresentPcs
    <2>5. NewReq
        BY <2>1, <2>3, <2>4, BecomeType
    <2> QED BY <1>RefreshCreateToken, <1>t, <2>5 DEF RefreshCreateToken, TypeOK, TypeInv, storeVars, clientVars
<1>RefreshSetAccess. ASSUME NEW t \in Threads,
             RefreshSetAccess(t)
      PROVE  TypeInv'
    <2>1. /\ req[t].key \in Keys
          /\ req[t].token \in Token
          /\ req[t].refresh \in Token
          /\ Become(t, [req[t] EXCEPT !.pc = "refreshExpire"])
        BY <1>RefreshSetAccess, <1>t DEF RefreshSetAccess, Goto, At, Shape, LoginPcs, RefreshPcs, ApiPcs, PresentPcs, Pc
    <2>2. [req[t] EXCEPT !.pc = "refreshExpire"] \in Request /\ Shape([req[t] EXCEPT !.pc = "refreshExpire"])
        BY <1>RefreshSetAccess, <1>t DEF RefreshSetAccess, At, Request, Shape, LoginPcs, RefreshPcs, ApiPcs, PresentPcs, Pc
    <2>3. NewReq
        BY <2>1, <2>2, BecomeType
    <2>4. SetIn(accessKeys, req[t].key, req[t].token) \in [Keys -> Entry(Token) \cup {None}]
        BY <1>t, <2>1, SetInType DEF TypeOK, Token
    <2> QED BY <1>RefreshSetAccess, <1>t, <2>3, <2>4 DEF RefreshSetAccess, TypeOK, TypeInv, storeVars, clientVars
<1>RefreshExpireAccess. ASSUME NEW t \in Threads,
             RefreshExpireAccess(t)
      PROVE  TypeInv'
    <2>1. NewReq
        BY <1>RefreshExpireAccess, IdleShape, BecomeType DEF RefreshExpireAccess
    <2>2. req[t].key \in Keys
        BY <1>RefreshExpireAccess, <1>t DEF RefreshExpireAccess, At, Shape, LoginPcs, RefreshPcs, ApiPcs, PresentPcs, Pc
    <2>3. accessKeys' \in [Keys -> Entry(Token) \cup {None}]
        BY <1>RefreshExpireAccess, <1>t, <2>2, ExpireInType DEF RefreshExpireAccess, TypeOK
    <2> QED BY <1>RefreshExpireAccess, <1>t, <2>1, <2>3 DEF RefreshExpireAccess, TypeOK, TypeInv, storeVars, clientVars
<1>LogoutExpireSecret. ASSUME NEW t \in Threads, NEW c \in Clients,
             LogoutExpireSecret(t, c)
      PROVE  TypeInv'
    <2>1. PICK s \in held[c] :
            /\ secretKeys' = ExpireIn(secretKeys, s.key, 0, now)
            /\ loggedOut' = loggedOut \cup {s.key}
            /\ Become(t, Presents("logoutAccess", c, s, None, None))
        BY <1>LogoutExpireSecret DEF LogoutExpireSecret
    <2> DEFINE r == Presents("logoutAccess", c, s, None, None)
    <2>2. s \in Session /\ s.key \in Keys
        BY <1>t DEF TypeOK, Session
    <2>3. r \in Request /\ Shape(r)
        BY <2>2, PresentShape
    <2>4. NewReq
        BY <2>1, <2>3, BecomeType
    <2>5. secretKeys' \in [Keys -> Entry(Secrets) \cup {None}]
        BY <1>t, <2>1, <2>2, ExpireInType DEF TypeOK
    <2> QED BY <1>LogoutExpireSecret, <1>t, <2>1, <2>2, <2>4, <2>5 DEF LogoutExpireSecret, TypeOK, TypeInv, storeVars, clientVars
<1>LogoutExpireAccess. ASSUME NEW t \in Threads,
             LogoutExpireAccess(t)
      PROVE  TypeInv'
    <2>1. NewReq
        BY <1>LogoutExpireAccess, IdleShape, BecomeType DEF LogoutExpireAccess
    <2>2. req[t].key \in Keys
        BY <1>LogoutExpireAccess, <1>t DEF LogoutExpireAccess, At, Shape, LoginPcs, RefreshPcs, ApiPcs, PresentPcs, Pc
    <2>3. accessKeys' \in [Keys -> Entry(Token) \cup {None}]
        BY <1>LogoutExpireAccess, <1>t, <2>2, ExpireInType DEF LogoutExpireAccess, TypeOK
    <2>4. held' \in [Clients -> SUBSET Session]
        BY <1>LogoutExpireAccess, <1>t DEF LogoutExpireAccess, TypeOK
    <2> QED BY <1>LogoutExpireAccess, <1>t, <2>1, <2>3, <2>4 DEF LogoutExpireAccess, TypeOK, TypeInv, storeVars, clientVars
<1>MiddlewareGetSecret. ASSUME NEW t \in Threads, NEW c \in Clients,
             MiddlewareGetSecret(t, c)
      PROVE  TypeInv'
    <2>1. PICK s \in held[c] :
            Become(t, Presents("mwAccess", c, s, None, GetFrom(secretKeys, s.key)))
        BY <1>MiddlewareGetSecret DEF MiddlewareGetSecret
    <2> DEFINE r == Presents("mwAccess", c, s, None, GetFrom(secretKeys, s.key))
    <2>2. s \in Session /\ s.key \in Keys
        BY <1>t DEF TypeOK, Session
    <2>3. GetFrom(secretKeys, s.key) \in Secrets \cup {None}
        BY <1>t, <2>2, GetFromType DEF TypeOK
    <2>4. r \in Request /\ Shape(r)
        BY <2>2, <2>3, PresentShape
    <2>5. NewReq
        BY <2>1, <2>4, BecomeType
    <2> QED BY <1>MiddlewareGetSecret, <1>t, <2>5 DEF MiddlewareGetSecret, TypeOK, TypeInv, storeVars, clientVars
<1>MiddlewareGetAccess. ASSUME NEW t \in Threads,
             MiddlewareGetAccess(t)
      PROVE  TypeInv'
    <2> DEFINE token == GetFrom(accessKeys, req[t].key)
               r(p) == [req[t] EXCEPT !.pc = p, !.token = token]
    <2>1. req[t].key \in Keys
        BY <1>MiddlewareGetAccess, <1>t DEF MiddlewareGetAccess, At, Shape, LoginPcs, RefreshPcs, ApiPcs, PresentPcs, Pc
    <2>2. token \in Token \cup {None}
        BY <1>t, <2>1, GetFromType DEF TypeOK
    <2>3. ASSUME Decodes(token, req[t].secret), NEW p \in {"viewSecret", "served"}
          PROVE  r(p) \in Request /\ Shape(r(p))
        BY <1>MiddlewareGetAccess, <1>t, <2>2, <2>3, ZenonT(60)
        DEF MiddlewareGetAccess, At, Decodes, Request, Shape, LoginPcs, RefreshPcs, ApiPcs, PresentPcs, Pc
    <2>4. NewReq
        <3>1. CASE Decodes(token, req[t].secret)
            <4>1. PICK p \in {"viewSecret", "served"} : Become(t, r(p))
                BY <1>MiddlewareGetAccess, <3>1 DEF MiddlewareGetAccess
            <4> QED BY <3>1, <4>1, <2>3, BecomeType
        <3>2. CASE ~Decodes(token, req[t].secret)
            BY <1>MiddlewareGetAccess, <3>2, IdleShape, BecomeType DEF MiddlewareGetAccess
        <3> QED BY <3>1, <3>2
    <2> QED BY <1>MiddlewareGetAccess, <1>t, <2>4 DEF MiddlewareGetAccess, TypeOK, TypeInv, storeVars, clientVars
<1>ViewGetSecret. ASSUME NEW t \in Threads,
             ViewGetSecret(t)
      PROVE  TypeInv'
    <2> DEFINE r == [req[t] EXCEPT !.pc = "viewAccess",
                                !.secret = GetFrom(secretKeys, req[t].key)]
    <2>1. req[t].key \in Keys
        BY <1>ViewGetSecret, <1>t DEF ViewGetSecret, At, Shape, LoginPcs, RefreshPcs, ApiPcs, PresentPcs, Pc
    <2>2. GetFrom(secretKeys, req[t].key) \in Secrets \cup {None}
        BY <1>t, <2>1, GetFromType DEF TypeOK
    <2>3. r \in Request /\ Shape(r)
        BY <1>ViewGetSecret, <1>t, <2>2, ZenonT(60) DEF ViewGetSecret, At, Request, Shape, LoginPcs, RefreshPcs, ApiPcs, PresentPcs, Pc
    <2>4. NewReq
        BY <1>ViewGetSecret, <2>3, BecomeType DEF ViewGetSecret
    <2> QED BY <1>ViewGetSecret, <1>t, <2>4 DEF ViewGetSecret, TypeOK, TypeInv, storeVars, clientVars
<1>ViewGetAccess. ASSUME NEW t \in Threads,
             ViewGetAccess(t)
      PROVE  TypeInv'
    <2> DEFINE token == GetFrom(accessKeys, req[t].key)
               served == [req[t] EXCEPT !.pc = "served", !.token = token]
               nouser == [req[t] EXCEPT !.pc = "nouser"]
    <2>1. req[t].key \in Keys
        BY <1>ViewGetAccess, <1>t DEF ViewGetAccess, At, Shape, LoginPcs, RefreshPcs, ApiPcs, PresentPcs, Pc
    <2>2. token \in Token \cup {None}
        BY <1>t, <2>1, GetFromType DEF TypeOK
    <2>3. nouser \in Request /\ Shape(nouser)
        BY <1>ViewGetAccess, <1>t, ZenonT(60) DEF ViewGetAccess, At, Request, Shape, LoginPcs, RefreshPcs, ApiPcs, PresentPcs, Pc
    <2>4. ASSUME token # None PROVE served \in Request /\ Shape(served)
        BY <1>ViewGetAccess, <1>t, <2>2, <2>4, ZenonT(60) DEF ViewGetAccess, At, Request, Shape, LoginPcs, RefreshPcs, ApiPcs, PresentPcs, Pc
    <2>5. \/ Become(t, nouser)
          \/ token # None /\ Become(t, served)
          \/ Become(t, Idle)
        BY <1>ViewGetAccess DEF ViewGetAccess, Goto
    <2>6. NewReq
        BY <2>3, <2>4, <2>5, IdleShape, BecomeType
    <2> QED BY <1>ViewGetAccess, <1>t, <2>6 DEF ViewGetAccess, TypeOK, TypeInv, storeVars, clientVars
<1>EndRequest. ASSUME NEW t \in Threads,
             EndRequest(t)
      PROVE  TypeInv'
    <2>1. NewReq
        BY <1>EndRequest, IdleShape, BecomeType DEF EndRequest
    <2> QED BY <1>EndRequest, <1>t, <2>1 DEF EndRequest, TypeOK, TypeInv, storeVars, clientVars
<1>Crash. ASSUME NEW t \in Threads,
             Crash(t)
      PROVE  TypeInv'
    <2>1. NewReq
        BY <1>Crash, IdleShape, BecomeType DEF Crash
    <2> QED BY <1>Crash, <1>t, <2>1 DEF Crash, TypeOK, TypeInv, storeVars, clientVars
<1>Tick. CASE Tick
    BY <1>Tick, <1>t, PurgeType DEF Tick, TypeOK, TypeInv, storeVars, clientVars
<1>stutter. CASE UNCHANGED vars
    BY <1>stutter, <1>t DEF vars, TypeOK, TypeInv
<1> QED
    BY <1>LoginCreateAccess, <1>LoginCreateRefresh, <1>LoginPickKey, <1>LoginSetAccess, <1>LoginExpireAccess,
       <1>LoginSetSecret, <1>LoginExpireSecret, <1>LoginRespond, <1>RefreshGetSecret,
       <1>RefreshDecode, <1>RefreshCreateToken, <1>RefreshSetAccess, <1>RefreshExpireAccess,
       <1>LogoutExpireSecret,
       <1>LogoutExpireAccess, <1>MiddlewareGetSecret, <1>MiddlewareGetAccess,
       <1>ViewGetSecret, <1>ViewGetAccess, <1>EndRequest, <1>Crash, <1>Tick, <1>stutter
    DEF Next, Login, Refresh, Logout, Api

\* The variables keep the types given at their declaration: in particular no
\* view ever stores None, or anything but a token, under an access key.
THEOREM TypeCorrect == Spec => []TypeOK
<1>1. TypeInv => TypeOK
    BY DEF TypeInv
<1> QED BY <1>1, InitType, NextType, PTL DEF Spec

-----------------------------------------------------------------------------
(* The inductive invariant behind the safety properties.  It says who may    *)
(* have written which entry of the store.                                    *)

\* A login owns its key_name from the moment it has drawn it.
KeyPcs == LoginPcs \ {"createRefresh", "pick"}

\* What generateRandomKey() has returned belongs to one login only.
Unshared ==
    /\ \A s \in issued : s.key \in drawn /\ s.refresh.secret \in drawn
    /\ \A s1, s2 \in issued :
          s1.key = s2.key \/ s1.refresh.secret = s2.refresh.secret => s1 = s2
    /\ \A t \in Threads : req[t].pc \in LoginPcs =>
          /\ req[t].token.secret \in drawn
          /\ \A s \in issued : s.refresh.secret # req[t].token.secret
          /\ \A u \in Threads \ {t} :
                req[u].pc \in LoginPcs => req[u].token.secret # req[t].token.secret
    /\ \A t \in Threads : req[t].pc \in KeyPcs =>
          /\ req[t].key \in drawn
          /\ \A s \in issued : s.key # req[t].key
          /\ \A u \in Threads \ {t} : req[u].pc \in KeyPcs => req[u].key # req[t].key

\* Clients hold sessions that a login issued, and log out only such.
Handed ==
    /\ \A c \in Clients : held[c] \subseteq issued
    /\ \A k \in loggedOut : \E s \in issued : s.key = k

\* A key that has no expiry, or one that is not before t.
Lasting(entry, t) == entry.exp = Persistent \/ entry.exp >= t

\* An access token for the session that refresh token ref belongs to: of the
\* same user, and created by a refresh that found ref not expired.
GrantedBy(token, ref) ==
    /\ token.id = ref.id
    /\ token.exp <= ref.exp + token.pause + ACCESS_AGE

\* The entries that may be found under the keys of session s: its own secret,
\* kept at least as long as the refresh token, and tokens of its own user.
SessionEntries(s, secret, access) ==
    /\ access # None => GrantedBy(access.val, s.refresh)
    /\ secret # None => secret.val = s.refresh.secret /\ Lasting(secret, s.refresh.exp)

\* The secret of a session is removed by its logout, unless the key is one of
\* rev, and otherwise kept until the refresh token expires, unless the key is
\* one of gone.  In Sessions itself rev and gone are empty; in SessionsRestart
\* they are the keys that a restart of the store has brought back or taken away.
StoredFor(s, rev, gone) ==
    /\ SessionEntries(s, secretKeys[s.key], accessKeys[s.key])
    /\ s.key \in loggedOut /\ s.key \notin rev => secretKeys[s.key] = None
    /\ s.key \notin loggedOut /\ s.key \notin gone /\ now <= s.refresh.exp =>
          secretKeys[s.key] # None

Stored(rev, gone) ==
    /\ \A k \in Keys \ drawn : accessKeys[k] = None /\ secretKeys[k] = None
    /\ \A s \in issued : StoredFor(s, rev, gone)

\* A login that has not answered yet, after it created its tokens...
LoginTokens(r) ==
    /\ r.pc = "createRefresh" => r.token.pause = 0 /\ r.token.exp <= now + ACCESS_AGE
    /\ r.pc \in LoginPcs \ {"createRefresh"} =>
          /\ r.token.secret = r.refresh.secret
          /\ GrantedBy(r.token, r.refresh)
          /\ r.refresh.exp <= now + REFRESH_AGE

\* ...the entries that may be found under its key...
LoginEntries(r, secret, access) ==
    /\ r.pc \in KeyPcs /\ access # None => access.val = r.token
    /\ r.pc \in {"setAccess", "expireAccess", "setSecret"} => secret = None
    /\ r.pc = "expireSecret" /\ secret # None =>
          secret.val = r.refresh.secret /\ secret.exp = Persistent
    /\ r.pc = "issue" /\ secret # None =>
          secret.val = r.refresh.secret /\ Lasting(secret, r.refresh.exp)

\* ...and those that must be.
LoginStore(r, gone) ==
    /\ LoginEntries(r, secretKeys[r.key], accessKeys[r.key])
    /\ r.pc = "expireSecret" /\ r.key \notin gone => secretKeys[r.key] # None
    /\ r.pc = "issue" /\ r.key \notin gone /\ now <= r.refresh.exp => secretKeys[r.key] # None

\* A request that presents a session.
Presented(r) ==
    r.pc \in PresentPcs =>
        /\ r.sess \in issued
        /\ r.pc \in {"refreshDecode", "mwAccess", "viewAccess"} =>
              r.secret \in {None, r.sess.refresh.secret}
        /\ r.pc = "refreshDecode" => \E s \in issued : r.refresh = s.refresh
        /\ r.pc = "refreshCreate" =>
              r.refresh = r.sess.refresh /\ r.checked <= r.sess.refresh.exp
        /\ r.pc = "refreshSet" => GrantedBy(r.token, r.sess.refresh)
        /\ r.pc \in {"viewSecret", "viewAccess", "served"} => r.token.id = r.sess.refresh.id

\* A request that began after a logout of its key_name has not seen a secret,
\* unless the key is one of rev.
Late(r, rev) ==
    r.late => /\ r.pc \in PresentPcs
              /\ r.key \in loggedOut
              /\ \/ r.key \in rev
                 \/ r.pc \in {"mwAccess", "refreshDecode", "logoutAccess"} /\ r.secret = None

IInv(rev, gone) ==
    /\ Unshared
    /\ Handed
    /\ Stored(rev, gone)
    /\ \A t \in Threads : LoginTokens(req[t]) /\ LoginStore(req[t], gone)
                              /\ Presented(req[t]) /\ Late(req[t], rev)

\* The theorems below hold as long as generateRandomKey() does not repeat a
\* string: LoginView looks for a key and stores it in separate commands, so that
\* two logins that drew the same one would share it.
NoCollision == "collision" \notin Faults

\* The initial state has no sessions, so that it satisfies the invariant.
LEMMA InitInv ==
    ASSUME NEW rev, NEW gone, Init
    PROVE  IInv(rev, gone)
<1>1. \A t \in Threads : req[t] = Idle
    BY DEF Init
<1>2. Unshared /\ Handed /\ Stored(rev, gone)
    BY <1>1 DEF Init, Unshared, Handed, Stored, Idle, LoginPcs, KeyPcs
<1>3. \A t \in Threads : LoginTokens(req[t]) /\ LoginStore(req[t], gone)
    BY <1>1 DEF LoginTokens, LoginStore, LoginEntries, Idle, LoginPcs, KeyPcs
<1>4. \A t \in Threads : Presented(req[t]) /\ Late(req[t], rev)
    BY <1>1 DEF Presented, Late, Idle, PresentPcs, RefreshPcs, ApiPcs
<1> QED BY <1>2, <1>3, <1>4 DEF IInv

\* The typing facts that the steps below use.
LEMMA Typing ==
    ASSUME TypeInv
    PROVE  /\ now \in Nat
           /\ secretKeys \in [Keys -> Entry(Secrets) \cup {None}]
           /\ accessKeys \in [Keys -> Entry(Token) \cup {None}]
           /\ \A s \in issued : s \in Session /\ s.key \in Keys /\ s.refresh \in Token
           /\ req \in [Threads -> Request]
           /\ \A t \in Threads : req[t] \in Request /\ Shape(req[t])
BY DEF TypeInv, TypeOK, Session

\* What Become does to the requests of the threads.
LEMMA BecomeReq ==
    ASSUME TypeInv, NEW t \in Threads, NEW r, Become(t, r)
    PROVE  \A u \in Threads : req'[u] = IF u = t THEN r ELSE req[u]
BY DEF TypeInv, TypeOK, Become

\* A step that changes neither the store nor what was handed out.
LEMMA QuietStep ==
    ASSUME NEW rev, NEW gone, TypeInv, IInv(rev, gone), NEW t \in Threads, NEW r, Become(t, r),
           r.pc \notin LoginPcs, Presented(r), Late(r, rev),
           UNCHANGED <<now, storeVars, drawn, clientVars>>
    PROVE  IInv(rev, gone)'
<1> USE DEF storeVars, clientVars
<1>1. \A u \in Threads : req'[u] = IF u = t THEN r ELSE req[u]
    BY BecomeReq
<1>2. Unshared'
    BY <1>1 DEF IInv, Unshared, KeyPcs
<1>3. Handed' /\ Stored(rev, gone)'
    BY DEF IInv, Handed, Stored, StoredFor
<1>4. ASSUME NEW u \in Threads
      PROVE  (LoginTokens(req[u]) /\ LoginStore(req[u], gone))'
    BY <1>1 DEF IInv, LoginTokens, LoginStore, LoginEntries, KeyPcs, LoginPcs
<1>5. ASSUME NEW u \in Threads
      PROVE  (Presented(req[u]) /\ Late(req[u], rev))'
    BY <1>1 DEF IInv, Presented, Late
<1> QED BY <1>2, <1>3, <1>4, <1>5 DEF IInv

\* A thread without a request satisfies what the invariant asks of requests.
LEMMA IdleInv ==
    ASSUME NEW rev
    PROVE  Idle.pc \notin LoginPcs /\ Presented(Idle) /\ Late(Idle, rev)
BY DEF Idle, Presented, Late, LoginPcs, PresentPcs, RefreshPcs, ApiPcs

\* The fields of a request that presents the key_name of a session.
LEMMA PresentsFields ==
    ASSUME NEW p, NEW c, NEW s, NEW ref, NEW sec
    PROVE  LET r == Presents(p, c, s, ref, sec)
           IN  /\ r.pc = p /\ r.sess = s /\ r.key = s.key
               /\ r.refresh = ref /\ r.secret = sec
               /\ r.late => s.key \in loggedOut
BY DEF Presents, Idle

\* A request that reads the secret of the session it presents first.
LEMMA PresentsInv ==
    ASSUME NEW rev, NEW gone, TypeInv, IInv(rev, gone), NEW c, NEW s \in issued, NEW s2 \in issued,
           NEW p \in {"refreshDecode", "mwAccess"}, NEW ref, p = "refreshDecode" => ref = s2.refresh
    PROVE  LET r == Presents(p, c, s, ref, GetFrom(secretKeys, s.key))
           IN  r.pc \notin LoginPcs /\ Presented(r) /\ Late(r, rev)
<1> DEFINE r == Presents(p, c, s, ref, GetFrom(secretKeys, s.key))
<1>1. /\ r.pc = p /\ r.sess = s /\ r.key = s.key
      /\ r.refresh = ref /\ r.secret = GetFrom(secretKeys, s.key)
      /\ r.late => s.key \in loggedOut
    BY PresentsFields
<1> HIDE DEF r
<1>2. StoredFor(s, rev, gone)
    BY DEF IInv, Stored
<1>3. GetFrom(secretKeys, s.key) \in {None, s.refresh.secret}
    BY <1>2 DEF StoredFor, SessionEntries, GetFrom
<1>4. s.key \in loggedOut /\ s.key \notin rev => GetFrom(secretKeys, s.key) = None
    BY <1>2 DEF StoredFor, GetFrom
<1>5. Presented(r)
    BY <1>1, <1>3 DEF Presented
<1>6. Late(r, rev)
    BY <1>1, <1>4 DEF Late, PresentPcs, RefreshPcs, ApiPcs
<1>7. r.pc \notin LoginPcs
    BY <1>1 DEF LoginPcs
<1> QED BY <1>5, <1>6, <1>7 DEF r

\* A client holds only sessions that LoginView has answered with.
LEMMA HeldIssued ==
    ASSUME NEW rev, NEW gone, IInv(rev, gone), NEW c \in Clients, NEW s \in held[c]
    PROVE  s \in issued
BY DEF IInv, Handed

\* RefreshToken reads the secret: the request presents a session that was issued.
LEMMA RefreshGetSecretInv ==
    ASSUME NEW rev, NEW gone, TypeInv, IInv(rev, gone), NEW t \in Threads, NEW c \in Clients, RefreshGetSecret(t, c)
    PROVE  IInv(rev, gone)'
<1>1. PICK s \in held[c], s2 \in held[c] :
        Become(t, Presents("refreshDecode", c, s, s2.refresh, GetFrom(secretKeys, s.key)))
    BY DEF RefreshGetSecret
<1> DEFINE r == Presents("refreshDecode", c, s, s2.refresh, GetFrom(secretKeys, s.key))
<1>2. s \in issued /\ s2 \in issued
    BY HeldIssued
<1>3. r.pc \notin LoginPcs /\ Presented(r) /\ Late(r, rev)
    BY <1>2, PresentsInv
<1> HIDE DEF r
<1> QED BY <1>1, <1>3, QuietStep DEF RefreshGetSecret, r

\* The middleware reads the secret: likewise.
LEMMA MiddlewareGetSecretInv ==
    ASSUME NEW rev, NEW gone, TypeInv, IInv(rev, gone), NEW t \in Threads, NEW c \in Clients, MiddlewareGetSecret(t, c)
    PROVE  IInv(rev, gone)'
<1>1. PICK s \in held[c] :
        Become(t, Presents("mwAccess", c, s, None, GetFrom(secretKeys, s.key)))
    BY DEF MiddlewareGetSecret
<1> DEFINE r == Presents("mwAccess", c, s, None, GetFrom(secretKeys, s.key))
<1>2. s \in issued
    BY HeldIssued
<1>3. r.pc \notin LoginPcs /\ Presented(r) /\ Late(r, rev)
    BY <1>2, PresentsInv
<1> HIDE DEF r
<1> QED BY <1>1, <1>3, QuietStep DEF MiddlewareGetSecret, r

\* The token found under the key of a presented session is one of its user's,
\* and it is no older than the session allows.
LEMMA TokenFound ==
    ASSUME NEW rev, NEW gone, TypeInv, IInv(rev, gone), NEW t \in Threads, req[t].pc \in PresentPcs,
           GetFrom(accessKeys, req[t].key) # None
    PROVE  LET token == GetFrom(accessKeys, req[t].key)
           IN  /\ token \in Token
               /\ GrantedBy(token, req[t].sess.refresh)
<1>1. req[t].sess \in issued /\ req[t].key = req[t].sess.key /\ req[t].key \in Keys
    BY Typing DEF IInv, Presented, Shape
<1>2. StoredFor(req[t].sess, rev, gone)
    BY <1>1 DEF IInv, Stored
<1>3. GetFrom(accessKeys, req[t].key) \in Token \cup {None}
    BY <1>1, Typing, GetFromType
<1>4. accessKeys[req[t].key] # None
    BY DEF GetFrom
<1> QED BY <1>1, <1>2, <1>3, <1>4 DEF StoredFor, SessionEntries, GetFrom

\* The middleware reads the token and decodes it.
LEMMA MiddlewareGetAccessInv ==
    ASSUME NEW rev, NEW gone, TypeInv, IInv(rev, gone), NEW t \in Threads, MiddlewareGetAccess(t)
    PROVE  IInv(rev, gone)'
<1> DEFINE token == GetFrom(accessKeys, req[t].key)
           r(p) == [req[t] EXCEPT !.pc = p, !.token = token]
<1>1. CASE Decodes(token, req[t].secret)
    <2>1. PICK p \in {"viewSecret", "served"} : Become(t, r(p))
        BY <1>1 DEF MiddlewareGetAccess
    <2>2. token # None /\ req[t].secret # None /\ req[t].pc = "mwAccess"
        BY <1>1 DEF Decodes, MiddlewareGetAccess, At
    <2>3. token.id = req[t].sess.refresh.id
        BY <2>2, TokenFound DEF PresentPcs, ApiPcs, GrantedBy
    <2>4. /\ r(p).pc = p /\ r(p).token = token
          /\ r(p).sess = req[t].sess /\ r(p).key = req[t].key /\ r(p).late = req[t].late
        BY Typing DEF Request
    <2>5. Presented(req[t]) /\ Late(req[t], rev) /\ req[t].pc \in PresentPcs
        BY <2>2 DEF IInv, PresentPcs, ApiPcs
    <2> HIDE DEF r
    <2>6. Presented(r(p))
        BY <2>3, <2>4, <2>5 DEF Presented
    <2>7. Late(r(p), rev)
        BY <2>2, <2>4, <2>5 DEF Late, PresentPcs, ApiPcs
    <2>8. r(p).pc \notin LoginPcs
        BY <2>4 DEF LoginPcs
    <2> QED BY <2>1, <2>6, <2>7, <2>8, QuietStep DEF MiddlewareGetAccess
<1>2. CASE ~Decodes(token, req[t].secret)
    BY <1>2, IdleInv, QuietStep DEF MiddlewareGetAccess
<1> QED BY <1>1, <1>2

\* getUser reads the secret a second time.
LEMMA ViewGetSecretInv ==
    ASSUME NEW rev, NEW gone, TypeInv, IInv(rev, gone), NEW t \in Threads, ViewGetSecret(t)
    PROVE  IInv(rev, gone)'
<1> DEFINE r == [req[t] EXCEPT !.pc = "viewAccess", !.secret = GetFrom(secretKeys, req[t].key)]
<1>1. req[t].pc = "viewSecret" /\ Become(t, r)
    BY DEF ViewGetSecret, At
<1>2. Presented(req[t]) /\ Late(req[t], rev) /\ req[t].pc \in PresentPcs
    BY <1>1 DEF IInv, PresentPcs, ApiPcs
<1>3. req[t].sess \in issued /\ req[t].key = req[t].sess.key
    BY <1>2, Typing DEF Presented, Shape
<1>4. GetFrom(secretKeys, req[t].key) \in {None, req[t].sess.refresh.secret}
    BY <1>3 DEF IInv, Stored, StoredFor, SessionEntries, GetFrom
<1>5. /\ r.pc = "viewAccess" /\ r.secret = GetFrom(secretKeys, req[t].key)
      /\ r.sess = req[t].sess /\ r.token = req[t].token /\ r.late = req[t].late
      /\ r.key = req[t].key
    BY Typing DEF Request
<1> HIDE DEF r
<1>6. Presented(r)
    BY <1>1, <1>2, <1>4, <1>5 DEF Presented
<1>7. Late(r, rev)
    BY <1>1, <1>2, <1>5 DEF Late, PresentPcs, ApiPcs
<1>8. r.pc \notin LoginPcs
    BY <1>5 DEF LoginPcs
<1> QED BY <1>1, <1>6, <1>7, <1>8, QuietStep DEF ViewGetSecret

\* getUser reads the token a second time and decodes it.
LEMMA ViewGetAccessInv ==
    ASSUME NEW rev, NEW gone, TypeInv, IInv(rev, gone), NEW t \in Threads, ViewGetAccess(t)
    PROVE  IInv(rev, gone)'
<1> DEFINE token == GetFrom(accessKeys, req[t].key)
           served == [req[t] EXCEPT !.pc = "served", !.token = token]
           nouser == [req[t] EXCEPT !.pc = "nouser"]
<1>1. req[t].pc = "viewAccess"
    BY DEF ViewGetAccess, At
<1>2. /\ Presented(req[t]) /\ req[t].pc \in PresentPcs
      /\ req[t].late => req[t].key \in loggedOut /\ req[t].key \in rev
    BY <1>1 DEF IInv, Late, PresentPcs, ApiPcs
<1>3. /\ nouser.pc = "nouser" /\ nouser.sess = req[t].sess
      /\ nouser.key = req[t].key /\ nouser.late = req[t].late
      /\ served.pc = "served" /\ served.sess = req[t].sess
      /\ served.key = req[t].key /\ served.late = req[t].late
      /\ served.token = token
    BY <1>2, Typing DEF Request
<1>4. token # None => token.id = req[t].sess.refresh.id
    BY <1>2, TokenFound DEF GrantedBy
<1>5. \/ Become(t, nouser)
      \/ token # None /\ Become(t, served)
      \/ Become(t, Idle)
    BY DEF ViewGetAccess, Goto
<1> HIDE DEF served, nouser
<1>6. nouser.pc \notin LoginPcs /\ Presented(nouser) /\ Late(nouser, rev)
    BY <1>2, <1>3 DEF Presented, Late, LoginPcs, RefreshPcs, PresentPcs, ApiPcs
<1>7. token # None => served.pc \notin LoginPcs /\ Presented(served) /\ Late(served, rev)
    BY <1>2, <1>3, <1>4 DEF Presented, Late, LoginPcs, RefreshPcs, PresentPcs, ApiPcs
<1>8. UNCHANGED <<now, storeVars, drawn, clientVars>>
    BY DEF ViewGetAccess
<1> QED BY <1>5, <1>6, <1>7, <1>8, IdleInv, QuietStep

\* A step of a request that presents a session and writes its access entry.
LEMMA AccessStep ==
    ASSUME NEW rev, NEW gone, TypeInv, IInv(rev, gone), NEW t \in Threads, req[t].pc \in PresentPcs,
           NEW r, Become(t, r), r.pc \notin LoginPcs, Presented(r), Late(r, rev),
           \A k \in Keys : k # req[t].key => accessKeys'[k] = accessKeys[k],
           accessKeys'[req[t].key] # None =>
               GrantedBy(accessKeys'[req[t].key].val, req[t].sess.refresh),
           \A c \in Clients : held'[c] \subseteq held[c],
           UNCHANGED <<now, secretKeys, drawn, issued, loggedOut>>
    PROVE  IInv(rev, gone)'
<1>1. \A u \in Threads : req'[u] = IF u = t THEN r ELSE req[u]
    BY BecomeReq
<1>2. /\ req[t].sess \in issued
      /\ req[t].key = req[t].sess.key
      /\ req[t].key \in drawn
    BY Typing DEF IInv, Presented, Shape, Unshared
<1>3. Unshared'
    BY <1>1 DEF IInv, Unshared, KeyPcs
<1>4. Handed'
    BY DEF IInv, Handed
<1>5. \A k \in Keys \ drawn : accessKeys'[k] = None /\ secretKeys'[k] = None
    BY <1>2 DEF IInv, Stored
<1>6. ASSUME NEW s \in issued PROVE StoredFor(s, rev, gone)'
    <2>1. StoredFor(s, rev, gone) /\ s.key \in Keys
        BY Typing DEF IInv, Stored
    <2>2. CASE s.key = req[t].key
        <3>1. s = req[t].sess
            BY <1>2, <2>2 DEF IInv, Unshared
        <3> QED BY <2>1, <3>1, <2>2 DEF StoredFor, SessionEntries
    <2>3. CASE s.key # req[t].key
        BY <2>1, <2>3 DEF StoredFor
    <2> QED BY <2>2, <2>3
<1>7. Stored(rev, gone)'
    BY <1>5, <1>6 DEF Stored
<1>8. ASSUME NEW u \in Threads
      PROVE  (LoginTokens(req[u]) /\ LoginStore(req[u], gone))'
    <2>1. CASE u = t
        BY <1>1, <2>1 DEF LoginTokens, LoginStore, LoginEntries, KeyPcs, LoginPcs
    <2>2. CASE u # t
        <3>1. LoginTokens(req[u]) /\ LoginStore(req[u], gone) /\ req'[u] = req[u]
            BY <1>1, <2>2 DEF IInv
        <3>2. req[u].pc \in KeyPcs => req[u].key \in Keys /\ req[u].key # req[t].key
            BY <1>2, Typing DEF IInv, Unshared, Shape, KeyPcs
        <3> QED BY <3>1, <3>2 DEF LoginTokens, LoginStore, LoginEntries, KeyPcs, LoginPcs
    <2> QED BY <2>1, <2>2
<1>9. ASSUME NEW u \in Threads
      PROVE  (Presented(req[u]) /\ Late(req[u], rev))'
    BY <1>1 DEF IInv, Presented, Late
<1> QED BY <1>3, <1>4, <1>7, <1>8, <1>9 DEF IInv

\* EXPIRE changes at most the expiry of one entry.
LEMMA ExpireInAt ==
    ASSUME NEW K, NEW V, NEW map \in [K -> Entry(V) \cup {None}], NEW k \in K,
           NEW ttl \in Nat, NEW t \in Nat
    PROVE  /\ \A l \in K : l # k => ExpireIn(map, k, ttl, t)[l] = map[l]
           /\ ExpireIn(map, k, ttl, t)[k] # None =>
                 map[k] # None /\ ExpireIn(map, k, ttl, t)[k].val = map[k].val
BY DEF ExpireIn

\* RefreshToken verifies the refresh token: it is the one of the session, and it
\* has not expired yet.
LEMMA RefreshDecodeInv ==
    ASSUME NEW rev, NEW gone, TypeInv, IInv(rev, gone), NEW t \in Threads, RefreshDecode(t)
    PROVE  IInv(rev, gone)'
<1> DEFINE r == [req[t] EXCEPT !.pc = "refreshCreate", !.checked = now]
<1>1. CASE Decodes(req[t].refresh, req[t].secret)
    <2>1. req[t].pc = "refreshDecode" /\ Become(t, r)
        BY <1>1 DEF RefreshDecode, At
    <2>2. req[t].pc \in PresentPcs /\ Presented(req[t]) /\ Late(req[t], rev)
        BY <2>1 DEF IInv, PresentPcs, RefreshPcs
    <2>3. req[t].sess \in issued
        BY <2>2 DEF Presented
    <2>4. PICK s \in issued : req[t].refresh = s.refresh
        BY <2>1, <2>2 DEF Presented
    <2>5. s = req[t].sess
        BY <1>1, <2>1, <2>2, <2>3, <2>4 DEF Decodes, Presented, IInv, Unshared
    <2>6. now <= req[t].sess.refresh.exp
        BY <1>1, <2>4, <2>5 DEF Decodes
    <2>7. /\ r.pc = "refreshCreate" /\ r.sess = req[t].sess /\ r.refresh = req[t].refresh
          /\ r.key = req[t].key /\ r.late = req[t].late /\ r.checked = now
        BY Typing DEF Request
    <2> HIDE DEF r
    <2>8. Presented(r) /\ r.pc \notin LoginPcs
        BY <2>3, <2>4, <2>5, <2>6, <2>7 DEF Presented, LoginPcs
    <2>9. Late(r, rev)
        BY <1>1, <2>2, <2>7 DEF Late, Decodes, PresentPcs, RefreshPcs
    <2> QED BY <2>1, <2>8, <2>9, QuietStep DEF RefreshDecode
<1>2. CASE ~Decodes(req[t].refresh, req[t].secret)
    BY <1>2, IdleInv, QuietStep DEF RefreshDecode
<1> QED BY <1>1, <1>2

\* RefreshToken dates the new token by a second look at the clock: pause is the
\* time between the two.
LEMMA RefreshCreateTokenInv ==
    ASSUME NEW rev, NEW gone, TypeInv, IInv(rev, gone), NEW t \in Threads, RefreshCreateToken(t)
    PROVE  IInv(rev, gone)'
<1> DEFINE r == [req[t] EXCEPT !.pc = "refreshSet", !.token = RefreshedToken(t), !.checked = 0]
<1>1. req[t].pc = "refreshCreate" /\ Become(t, r)
    BY DEF RefreshCreateToken, At
<1>2. req[t].pc \in PresentPcs /\ Presented(req[t]) /\ Late(req[t], rev)
    BY <1>1 DEF IInv, PresentPcs, RefreshPcs
<1>3. /\ req[t].sess \in issued
      /\ req[t].refresh = req[t].sess.refresh
      /\ req[t].checked <= req[t].sess.refresh.exp
    BY <1>1, <1>2 DEF Presented
<1>4. RefreshedToken(t) = [id |-> req[t].refresh.id, secret |-> req[t].secret,
                           exp |-> now + ACCESS_AGE, pause |-> now - req[t].checked]
    BY DEF RefreshedToken, CreateToken
<1>5. now \in Nat /\ req[t].checked \in Nat /\ req[t].sess.refresh.exp \in Nat
    BY <1>3, Typing DEF Request, Token
<1>6. GrantedBy(RefreshedToken(t), req[t].sess.refresh)
    BY <1>3, <1>4, <1>5, AgeAssumption DEF GrantedBy
<1>7. /\ r.pc = "refreshSet" /\ r.sess = req[t].sess /\ r.token = RefreshedToken(t)
      /\ r.key = req[t].key /\ r.late = req[t].late
    BY Typing DEF Request
<1> HIDE DEF r
<1>8. Presented(r) /\ r.pc \notin LoginPcs
    BY <1>3, <1>6, <1>7 DEF Presented, LoginPcs
<1>9. Late(r, rev)
    BY <1>1, <1>2, <1>7 DEF Late, PresentPcs, RefreshPcs
<1> QED BY <1>1, <1>8, <1>9, QuietStep DEF RefreshCreateToken

\* RefreshToken stores the token under the key of the session.
LEMMA RefreshSetAccessInv ==
    ASSUME NEW rev, NEW gone, TypeInv, IInv(rev, gone), NEW t \in Threads, RefreshSetAccess(t)
    PROVE  IInv(rev, gone)'
<1> DEFINE r == [req[t] EXCEPT !.pc = "refreshExpire"]
<1>1. /\ req[t].pc = "refreshSet" /\ Become(t, r)
      /\ accessKeys' = SetIn(accessKeys, req[t].key, req[t].token)
    BY DEF RefreshSetAccess, At, Goto
<1>2. req[t].pc \in PresentPcs /\ Presented(req[t]) /\ Late(req[t], rev)
    BY <1>1 DEF IInv, PresentPcs, RefreshPcs
<1>3. /\ req[t].sess \in issued /\ req[t].key \in Keys
      /\ GrantedBy(req[t].token, req[t].sess.refresh)
    BY <1>1, <1>2, Typing DEF Presented, Shape
<1>4. /\ r.pc = "refreshExpire" /\ r.sess = req[t].sess
      /\ r.key = req[t].key /\ r.late = req[t].late
    BY Typing DEF Request
<1> HIDE DEF r
<1>5. Presented(r) /\ r.pc \notin LoginPcs
    BY <1>3, <1>4 DEF Presented, LoginPcs
<1>6. Late(r, rev)
    BY <1>1, <1>2, <1>4 DEF Late, PresentPcs, RefreshPcs
<1>7. /\ \A k \in Keys : k # req[t].key => accessKeys'[k] = accessKeys[k]
      /\ accessKeys'[req[t].key].val = req[t].token
    BY <1>1, <1>3, Typing DEF SetIn
<1>8. /\ UNCHANGED <<now, secretKeys, drawn, issued, loggedOut>>
      /\ \A c \in Clients : held'[c] \subseteq held[c]
    BY DEF RefreshSetAccess, clientVars
<1> QED BY <1>1, <1>2, <1>3, <1>5, <1>6, <1>7, <1>8, AccessStep

\* RefreshToken gives the stored token its lifetime.
LEMMA RefreshExpireAccessInv ==
    ASSUME NEW rev, NEW gone, TypeInv, IInv(rev, gone), NEW t \in Threads, RefreshExpireAccess(t)
    PROVE  IInv(rev, gone)'
<1>1. req[t].pc \in PresentPcs /\ Become(t, Idle)
    BY DEF RefreshExpireAccess, At, PresentPcs, RefreshPcs
<1>2. /\ req[t].sess \in issued /\ req[t].key = req[t].sess.key /\ req[t].key \in Keys
    BY <1>1, Typing DEF IInv, Presented, Shape
<1>3. /\ \A k \in Keys : k # req[t].key => accessKeys'[k] = accessKeys[k]
      /\ accessKeys'[req[t].key] # None =>
            /\ accessKeys[req[t].key] # None
            /\ accessKeys'[req[t].key].val = accessKeys[req[t].key].val
    <2>1. accessKeys' = ExpireIn(accessKeys, req[t].key, ACCESS_AGE, now)
        BY DEF RefreshExpireAccess
    <2>2. ACCESS_AGE \in Nat /\ now \in Nat /\ accessKeys \in [Keys -> Entry(Token) \cup {None}]
        BY Typing, AgeAssumption
    <2>3. PICK map \in [Keys -> Entry(Token) \cup {None}] : map = accessKeys
        BY <2>2
    <2>4. PICK k \in Keys : k = req[t].key
        BY <1>2
    <2>5. PICK t0 \in Nat : t0 = now
        BY <2>2
    <2>6. /\ \A l \in Keys : l # k => ExpireIn(map, k, ACCESS_AGE, t0)[l] = map[l]
          /\ ExpireIn(map, k, ACCESS_AGE, t0)[k] # None =>
                map[k] # None /\ ExpireIn(map, k, ACCESS_AGE, t0)[k].val = map[k].val
        BY <2>2, ExpireInAt
    <2>7. accessKeys' = ExpireIn(map, k, ACCESS_AGE, t0)
        BY <2>1, <2>3, <2>4, <2>5
    <2> QED BY <2>3, <2>4, <2>6, <2>7
<1>4. accessKeys'[req[t].key] # None =>
            GrantedBy(accessKeys'[req[t].key].val, req[t].sess.refresh)
    BY <1>2, <1>3 DEF IInv, Stored, StoredFor, SessionEntries
<1>5. /\ UNCHANGED <<now, secretKeys, drawn, issued, loggedOut>>
      /\ \A c \in Clients : held'[c] \subseteq held[c]
    BY DEF RefreshExpireAccess, clientVars
<1> QED BY <1>1, <1>3, <1>4, <1>5, IdleInv, AccessStep

\* LogoutView removes the access token.
LEMMA LogoutExpireAccessInv ==
    ASSUME NEW rev, NEW gone, TypeInv, IInv(rev, gone), NEW t \in Threads, LogoutExpireAccess(t)
    PROVE  IInv(rev, gone)'
<1>1. req[t].pc \in PresentPcs /\ Become(t, Idle)
    BY DEF LogoutExpireAccess, At, PresentPcs
<1>2. /\ req[t].sess \in issued /\ req[t].key = req[t].sess.key /\ req[t].key \in Keys
    BY <1>1, Typing DEF IInv, Presented, Shape
<1>3. /\ \A k \in Keys : k # req[t].key => accessKeys'[k] = accessKeys[k]
      /\ accessKeys'[req[t].key] # None =>
            /\ accessKeys[req[t].key] # None
            /\ accessKeys'[req[t].key].val = accessKeys[req[t].key].val
    <2>1. accessKeys' = ExpireIn(accessKeys, req[t].key, 0, now)
        BY DEF LogoutExpireAccess
    <2>2. 0 \in Nat /\ now \in Nat /\ accessKeys \in [Keys -> Entry(Token) \cup {None}]
        BY Typing
    <2> QED BY <1>2, <2>1, <2>2, ExpireInAt
<1>4. accessKeys'[req[t].key] # None =>
            GrantedBy(accessKeys'[req[t].key].val, req[t].sess.refresh)
    BY <1>2, <1>3 DEF IInv, Stored, StoredFor, SessionEntries
<1>5. \A c \in Clients : held'[c] \subseteq held[c]
    BY DEF LogoutExpireAccess, TypeInv, TypeOK
<1>6. UNCHANGED <<now, secretKeys, drawn, issued, loggedOut>>
    BY DEF LogoutExpireAccess
<1> QED BY <1>1, <1>3, <1>4, <1>5, <1>6, IdleInv, AccessStep

\* LogoutView removes the secret, which no login will store again.
LEMMA LogoutExpireSecretInv ==
    ASSUME NEW rev, NEW gone, TypeInv, IInv(rev, gone), NEW t \in Threads, NEW c \in Clients, LogoutExpireSecret(t, c)
    PROVE  IInv(rev, gone)'
<1>1. PICK s \in held[c] :
        /\ secretKeys' = ExpireIn(secretKeys, s.key, 0, now)
        /\ loggedOut' = loggedOut \cup {s.key}
        /\ Become(t, Presents("logoutAccess", c, s, None, None))
    BY DEF LogoutExpireSecret
<1>2. UNCHANGED <<now, accessKeys, drawn, held, issued>>
    BY DEF LogoutExpireSecret
<1> DEFINE r == Presents("logoutAccess", c, s, None, None)
<1>3. /\ r.pc = "logoutAccess" /\ r.sess = s /\ r.key = s.key /\ r.secret = None
      /\ r.late => s.key \in loggedOut
    BY PresentsFields
<1> HIDE DEF r
<1>4. \A u \in Threads : req'[u] = IF u = t THEN r ELSE req[u]
    BY <1>1, BecomeReq DEF r
<1>5. s \in issued /\ s.key \in Keys
    BY HeldIssued, Typing
<1>6. /\ \A k \in Keys : k # s.key => secretKeys'[k] = secretKeys[k]
      /\ secretKeys'[s.key] = None
    BY <1>1, <1>5, Typing DEF ExpireIn
<1>7. Unshared'
    BY <1>2, <1>3, <1>4 DEF IInv, Unshared, KeyPcs, LoginPcs
<1>8. Handed'
    BY <1>1, <1>2, <1>5 DEF IInv, Handed
<1>9. \A k \in Keys \ drawn : accessKeys'[k] = None /\ secretKeys'[k] = None
    BY <1>2, <1>6 DEF IInv, Stored
<1>10. ASSUME NEW s2 \in issued PROVE StoredFor(s2, rev, gone)'
    <2>1. StoredFor(s2, rev, gone) /\ s2.key \in Keys
        BY Typing DEF IInv, Stored
    <2> QED BY <1>1, <1>2, <1>6, <2>1 DEF StoredFor, SessionEntries
<1>11. Stored(rev, gone)'
    BY <1>2, <1>9, <1>10 DEF Stored
<1>12. ASSUME NEW u \in Threads
       PROVE  (LoginTokens(req[u]) /\ LoginStore(req[u], gone))'
    <2>1. CASE u = t
        BY <1>3, <1>4, <2>1 DEF LoginTokens, LoginStore, LoginEntries, KeyPcs, LoginPcs
    <2>2. CASE u # t
        <3>1. LoginTokens(req[u]) /\ LoginStore(req[u], gone) /\ req'[u] = req[u]
            BY <1>4, <2>2 DEF IInv
        <3>2. req[u].pc \in KeyPcs => req[u].key \in Keys /\ req[u].key # s.key
            BY <1>5, Typing DEF IInv, Unshared, Shape, KeyPcs
        <3> QED BY <1>2, <1>6, <3>1, <3>2 DEF LoginTokens, LoginStore, LoginEntries, KeyPcs, LoginPcs
    <2> QED BY <2>1, <2>2
<1>13. ASSUME NEW u \in Threads
       PROVE  (Presented(req[u]) /\ Late(req[u], rev))'
    BY <1>1, <1>2, <1>3, <1>4, <1>5 DEF IInv, Presented, Late, PresentPcs
<1> QED BY <1>7, <1>8, <1>11, <1>12, <1>13 DEF IInv

\* LoginView draws a secret nobody has and signs the access token with it.
LEMMA LoginCreateAccessInv ==
    ASSUME NEW rev, NEW gone, NoCollision, TypeInv, IInv(rev, gone), NEW t \in Threads, NEW c \in Clients, NEW u \in Users,
           LoginCreateAccess(t, c, u)
    PROVE  IInv(rev, gone)'
<1>1. PICK s \in Secrets \ drawn :
        /\ drawn' = drawn \cup {s}
        /\ Become(t, [Idle EXCEPT !.pc = "createRefresh", !.client = c,
                                  !.token = CreateToken(u, s, ACCESS_AGE)])
    BY DEF LoginCreateAccess, RandomKey, NoCollision
<1> DEFINE r == [Idle EXCEPT !.pc = "createRefresh", !.client = c,
                             !.token = CreateToken(u, s, ACCESS_AGE)]
<1>2. UNCHANGED <<now, secretKeys, accessKeys, held, issued, loggedOut>>
    BY DEF LoginCreateAccess, storeVars, clientVars
<1>3. r.pc = "createRefresh" /\ ~r.late /\ r.token = CreateToken(u, s, ACCESS_AGE)
    BY DEF Idle
<1>4. r.token.secret = s /\ r.token.exp = now + ACCESS_AGE /\ r.token.pause = 0
    BY <1>3 DEF CreateToken
<1> HIDE DEF r
<1>5. \A v \in Threads : req'[v] = IF v = t THEN r ELSE req[v]
    BY <1>1, BecomeReq DEF r
<1>6. Unshared'
    BY <1>1, <1>2, <1>3, <1>4, <1>5 DEF IInv, Unshared, KeyPcs
<1>7. Handed' /\ Stored(rev, gone)'
    BY <1>1, <1>2 DEF IInv, Handed, Stored, StoredFor
<1>8. ASSUME NEW v \in Threads
      PROVE  (LoginTokens(req[v]) /\ LoginStore(req[v], gone))'
    <2>1. CASE v = t
        BY <1>2, <1>3, <1>4, <1>5, <2>1, Typing, AgeAssumption
        DEF LoginTokens, LoginStore, LoginEntries, KeyPcs, LoginPcs
    <2>2. CASE v # t
        BY <1>2, <1>5, <2>2 DEF IInv, LoginTokens, LoginStore
    <2> QED BY <2>1, <2>2
<1>9. ASSUME NEW v \in Threads
      PROVE  (Presented(req[v]) /\ Late(req[v], rev))'
    BY <1>2, <1>3, <1>5 DEF IInv, Presented, Late, PresentPcs, RefreshPcs, ApiPcs
<1> QED BY <1>6, <1>7, <1>8, <1>9 DEF IInv

\* LoginView dates the refresh token no earlier than the access token.
LEMMA LoginCreateRefreshInv ==
    ASSUME NEW rev, NEW gone, TypeInv, IInv(rev, gone), NEW t \in Threads, LoginCreateRefresh(t)
    PROVE  IInv(rev, gone)'
<1> DEFINE refresh == CreateToken(req[t].token.id, req[t].token.secret, REFRESH_AGE)
           r == [req[t] EXCEPT !.pc = "pick", !.refresh = refresh]
<1>1. /\ req[t].pc = "createRefresh" /\ Become(t, r)
      /\ UNCHANGED <<now, secretKeys, accessKeys, drawn, held, issued, loggedOut>>
    BY DEF LoginCreateRefresh, At, storeVars, clientVars
<1>2. /\ r.pc = "pick" /\ r.refresh = refresh
      /\ r.token = req[t].token /\ r.late = req[t].late
    BY Typing DEF Request
<1>3. /\ refresh.id = req[t].token.id /\ refresh.secret = req[t].token.secret
      /\ refresh.exp = now + REFRESH_AGE
    BY DEF CreateToken
<1> HIDE DEF r, refresh
<1>4. \A v \in Threads : req'[v] = IF v = t THEN r ELSE req[v]
    BY <1>1, BecomeReq
<1>5. /\ req[t].token.pause = 0 /\ req[t].token.exp <= now + ACCESS_AGE
      /\ req[t].token.exp \in Nat /\ now \in Nat
    BY <1>1, Typing DEF IInv, LoginTokens, Shape, LoginPcs, Token
<1>6. GrantedBy(r.token, r.refresh) /\ r.token.secret = r.refresh.secret
          /\ r.refresh.exp <= now + REFRESH_AGE
    BY <1>2, <1>3, <1>5, AgeAssumption DEF GrantedBy
<1>7. Unshared'
    BY <1>1, <1>2, <1>4 DEF IInv, Unshared, KeyPcs, LoginPcs
<1>8. Handed' /\ Stored(rev, gone)'
    BY <1>1 DEF IInv, Handed, Stored, StoredFor
<1>9. ASSUME NEW v \in Threads
      PROVE  (LoginTokens(req[v]) /\ LoginStore(req[v], gone))'
    <2>1. CASE v = t
        BY <1>1, <1>2, <1>4, <1>6, <2>1
        DEF LoginTokens, LoginStore, LoginEntries, KeyPcs, LoginPcs
    <2>2. CASE v # t
        BY <1>1, <1>4, <2>2 DEF IInv, LoginTokens, LoginStore
    <2> QED BY <2>1, <2>2
<1>10. ~req[t].late
    BY <1>1 DEF IInv, Late, PresentPcs, RefreshPcs, ApiPcs
<1>11. ASSUME NEW v \in Threads
       PROVE  (Presented(req[v]) /\ Late(req[v], rev))'
    BY <1>1, <1>2, <1>4, <1>10 DEF IInv, Presented, Late, PresentPcs, RefreshPcs, ApiPcs
<1> QED BY <1>7, <1>8, <1>9, <1>11 DEF IInv

\* LoginView draws a key_name nobody has.
LEMMA LoginPickKeyInv ==
    ASSUME NEW rev, NEW gone, NoCollision, TypeInv, IInv(rev, gone), NEW t \in Threads, LoginPickKey(t)
    PROVE  IInv(rev, gone)'
<1>1. PICK k \in Keys \ drawn :
        /\ drawn' = drawn \cup {k}
        /\ IF ExistsIn(secretKeys, k)
           THEN UNCHANGED req
           ELSE Become(t, [req[t] EXCEPT !.pc = "setAccess", !.key = k])
    BY DEF LoginPickKey, RandomKey, NoCollision
<1> DEFINE r == [req[t] EXCEPT !.pc = "setAccess", !.key = k]
<1>2. /\ UNCHANGED <<now, secretKeys, accessKeys, held, issued, loggedOut>>
      /\ req[t].pc = "pick"
    BY DEF LoginPickKey, storeVars, clientVars, At
<1>3. accessKeys[k] = None /\ secretKeys[k] = None
    BY DEF IInv, Stored
<1>4. Become(t, r)
    BY <1>1, <1>3 DEF ExistsIn
<1>5. /\ r.pc = "setAccess" /\ r.key = k /\ r.refresh = req[t].refresh
      /\ r.token = req[t].token /\ r.late = req[t].late
    BY Typing DEF Request
<1> HIDE DEF r
<1>6. \A v \in Threads : req'[v] = IF v = t THEN r ELSE req[v]
    BY <1>4, BecomeReq
<1>7. Unshared'
    BY <1>1, <1>2, <1>5, <1>6 DEF IInv, Unshared, KeyPcs, LoginPcs
<1>8. Handed' /\ Stored(rev, gone)'
    BY <1>1, <1>2 DEF IInv, Handed, Stored, StoredFor
<1>9. ASSUME NEW v \in Threads
      PROVE  (LoginTokens(req[v]) /\ LoginStore(req[v], gone))'
    BY <1>2, <1>3, <1>5, <1>6 DEF IInv, LoginTokens, LoginStore, LoginEntries, KeyPcs, LoginPcs
<1>10. ASSUME NEW v \in Threads
       PROVE  (Presented(req[v]) /\ Late(req[v], rev))'
    BY <1>2, <1>5, <1>6 DEF IInv, Presented, Late, PresentPcs, RefreshPcs, ApiPcs
<1> QED BY <1>7, <1>8, <1>9, <1>10 DEF IInv

\* A login that writes under the key it owns.
LEMMA LoginWriteStep ==
    ASSUME NEW rev, NEW gone, TypeInv, IInv(rev, gone), NEW t \in Threads, req[t].pc \in KeyPcs,
           NEW p \in KeyPcs, Goto(t, p),
           \A k \in Keys : k # req[t].key =>
               accessKeys'[k] = accessKeys[k] /\ secretKeys'[k] = secretKeys[k],
           LoginStore(req[t], gone)',
           UNCHANGED <<now, drawn, held, issued, loggedOut>>
    PROVE  IInv(rev, gone)'
<1> DEFINE r == [req[t] EXCEPT !.pc = p]
<1>1. \A u \in Threads : req'[u] = IF u = t THEN r ELSE req[u]
    BY BecomeReq DEF Goto
<1>2. /\ r.pc = p /\ r.key = req[t].key /\ r.refresh = req[t].refresh
      /\ r.token = req[t].token /\ r.late = req[t].late
    BY Typing DEF Request
<1> HIDE DEF r
<1>3. /\ req[t].key \in Keys /\ req[t].key \in drawn
      /\ \A s \in issued : s.key # req[t].key
      /\ req[t].pc \in LoginPcs /\ p \in LoginPcs /\ p \notin PresentPcs
      /\ ~req[t].late
    BY Typing DEF Shape, IInv, Unshared, Late, KeyPcs, LoginPcs, PresentPcs, RefreshPcs, ApiPcs
<1>4. Unshared'
    BY <1>1, <1>2, <1>3 DEF IInv, Unshared
<1>5. Handed'
    BY DEF IInv, Handed
<1>6. Stored(rev, gone)'
    <2>1. ASSUME NEW s \in issued PROVE StoredFor(s, rev, gone)'
        BY <1>3, Typing DEF IInv, Stored, StoredFor
    <2>2. \A k \in Keys \ drawn : accessKeys'[k] = None /\ secretKeys'[k] = None
        BY <1>3 DEF IInv, Stored
    <2> QED BY <2>1, <2>2 DEF Stored
<1>7. ASSUME NEW u \in Threads
      PROVE  (LoginTokens(req[u]) /\ LoginStore(req[u], gone))'
    <2>1. p # "createRefresh" /\ req[t].pc # "createRefresh"
        BY DEF KeyPcs
    <2>2. LoginTokens(req[u])'
        BY <1>1, <1>2, <1>3, <2>1 DEF IInv, LoginTokens
    <2>3. CASE u # t
        <3>1. LoginStore(req[u], gone) /\ req'[u] = req[u]
            BY <1>1, <2>3 DEF IInv
        <3>2. req[u].pc \in KeyPcs => req[u].key \in Keys /\ req[u].key # req[t].key
            BY <2>3, Typing DEF IInv, Unshared, Shape, KeyPcs
        <3>3. LoginStore(req[u], gone)'
            BY <3>1, <3>2 DEF LoginStore, LoginEntries, KeyPcs, LoginPcs
        <3> QED BY <2>2, <3>3
    <2> QED BY <2>2, <2>3
<1>8. ASSUME NEW u \in Threads
      PROVE  (Presented(req[u]) /\ Late(req[u], rev))'
    BY <1>1, <1>2, <1>3 DEF IInv, Presented, Late
<1> QED BY <1>4, <1>5, <1>6, <1>7, <1>8 DEF IInv

\* LoginView stores the access token under its own key_name.
LEMMA LoginSetAccessInv ==
    ASSUME NEW rev, NEW gone, TypeInv, IInv(rev, gone), NEW t \in Threads, LoginSetAccess(t)
    PROVE  IInv(rev, gone)'
<1>1. /\ req[t].pc = "setAccess" /\ Goto(t, "expireAccess")
      /\ accessKeys' = SetIn(accessKeys, req[t].key, req[t].token)
      /\ UNCHANGED <<now, secretKeys, drawn, held, issued, loggedOut>>
    BY DEF LoginSetAccess, At, clientVars
<1>2. /\ req[t].pc \in KeyPcs /\ "expireAccess" \in KeyPcs
      /\ req[t].key \in Keys /\ LoginStore(req[t], gone)
    BY <1>1, Typing DEF KeyPcs, LoginPcs, Shape, IInv
<1>3. req'[t] = [req[t] EXCEPT !.pc = "expireAccess"]
    BY <1>1, Typing DEF Goto, Become
<1>4. /\ req'[t].pc = "expireAccess" /\ req'[t].key = req[t].key
      /\ req'[t].token = req[t].token
    BY <1>3, Typing DEF Request
<1>5. /\ accessKeys'[req[t].key].val = req[t].token
      /\ \A k \in Keys : k # req[t].key => accessKeys'[k] = accessKeys[k]
    BY <1>1, <1>2, Typing DEF SetIn
<1>6. LoginStore(req[t], gone)'
    BY <1>1, <1>2, <1>4, <1>5 DEF LoginStore, LoginEntries
<1> QED BY <1>1, <1>2, <1>5, <1>6, LoginWriteStep

\* LoginView gives the access token its lifetime.
LEMMA LoginExpireAccessInv ==
    ASSUME NEW rev, NEW gone, TypeInv, IInv(rev, gone), NEW t \in Threads, LoginExpireAccess(t)
    PROVE  IInv(rev, gone)'
<1>1. /\ req[t].pc = "expireAccess" /\ Goto(t, "setSecret")
      /\ accessKeys' = ExpireIn(accessKeys, req[t].key, ACCESS_AGE, now)
      /\ UNCHANGED <<now, secretKeys, drawn, held, issued, loggedOut>>
    BY DEF LoginExpireAccess, At, clientVars
<1>2. /\ req[t].pc \in KeyPcs /\ "setSecret" \in KeyPcs
      /\ req[t].key \in Keys /\ LoginStore(req[t], gone)
    BY <1>1, Typing DEF KeyPcs, LoginPcs, Shape, IInv
<1>3. req'[t] = [req[t] EXCEPT !.pc = "setSecret"]
    BY <1>1, Typing DEF Goto, Become
<1>4. /\ req'[t].pc = "setSecret" /\ req'[t].key = req[t].key
      /\ req'[t].token = req[t].token
    BY <1>3, Typing DEF Request
<1>5. /\ accessKeys'[req[t].key] # None =>
            /\ accessKeys[req[t].key] # None
            /\ accessKeys'[req[t].key].val = accessKeys[req[t].key].val
      /\ \A k \in Keys : k # req[t].key => accessKeys'[k] = accessKeys[k]
    BY <1>1, <1>2, Typing, AgeAssumption, ExpireInAt
<1>6. LoginStore(req[t], gone)'
    BY <1>1, <1>2, <1>4, <1>5 DEF LoginStore, LoginEntries
<1> QED BY <1>1, <1>2, <1>5, <1>6, LoginWriteStep

\* LoginView stores the secret under its own key_name.
LEMMA LoginSetSecretInv ==
    ASSUME NEW rev, NEW gone, TypeInv, IInv(rev, gone), NEW t \in Threads, LoginSetSecret(t)
    PROVE  IInv(rev, gone)'
<1>1. /\ req[t].pc = "setSecret" /\ Goto(t, "expireSecret")
      /\ secretKeys' = SetIn(secretKeys, req[t].key, req[t].refresh.secret)
      /\ UNCHANGED <<now, accessKeys, drawn, held, issued, loggedOut>>
    BY DEF LoginSetSecret, At, clientVars
<1>2. /\ req[t].pc \in KeyPcs /\ "expireSecret" \in KeyPcs
      /\ req[t].key \in Keys /\ LoginStore(req[t], gone)
      /\ req[t].refresh \in Token
    BY <1>1, Typing DEF KeyPcs, LoginPcs, Shape, IInv
<1>3. req'[t] = [req[t] EXCEPT !.pc = "expireSecret"]
    BY <1>1, Typing DEF Goto, Become
<1>4. /\ req'[t].pc = "expireSecret" /\ req'[t].key = req[t].key
      /\ req'[t].token = req[t].token /\ req'[t].refresh = req[t].refresh
    BY <1>3, Typing DEF Request
<1>5. /\ secretKeys'[req[t].key] = [val |-> req[t].refresh.secret, exp |-> Persistent]
      /\ \A k \in Keys : k # req[t].key => secretKeys'[k] = secretKeys[k]
    BY <1>1, <1>2, Typing DEF SetIn
<1>6. secretKeys'[req[t].key] # None
    <2>1. [val |-> req[t].refresh.secret, exp |-> Persistent] \in Entry(Secrets)
        BY <1>2 DEF Entry, Token
    <2> QED BY <1>5, <2>1, NoneAssumption
<1>7. LoginStore(req[t], gone)'
    BY <1>1, <1>2, <1>4, <1>5, <1>6 DEF LoginStore, LoginEntries
<1> QED BY <1>1, <1>2, <1>5, <1>7, LoginWriteStep

\* LoginView gives the secret a lifetime that ends no earlier than the refresh token.
LEMMA LoginExpireSecretInv ==
    ASSUME NEW rev, NEW gone, TypeInv, IInv(rev, gone), NEW t \in Threads, LoginExpireSecret(t)
    PROVE  IInv(rev, gone)'
<1>1. /\ req[t].pc = "expireSecret" /\ Goto(t, "issue")
      /\ secretKeys' = ExpireIn(secretKeys, req[t].key, REFRESH_AGE, now)
      /\ UNCHANGED <<now, accessKeys, drawn, held, issued, loggedOut>>
    BY DEF LoginExpireSecret, At, clientVars
<1>2. /\ req[t].pc \in KeyPcs /\ "issue" \in KeyPcs
      /\ req[t].key \in Keys /\ LoginStore(req[t], gone) /\ LoginTokens(req[t])
      /\ req[t].refresh \in Token
    BY <1>1, Typing DEF KeyPcs, LoginPcs, Shape, IInv
<1>3. req'[t] = [req[t] EXCEPT !.pc = "issue"]
    BY <1>1, Typing DEF Goto, Become
<1>4. /\ req'[t].pc = "issue" /\ req'[t].key = req[t].key
      /\ req'[t].token = req[t].token /\ req'[t].refresh = req[t].refresh
    BY <1>3, Typing DEF Request
<1>5. /\ \A k \in Keys : k # req[t].key => secretKeys'[k] = secretKeys[k]
      /\ secretKeys[req[t].key] = None => secretKeys'[req[t].key] = None
    BY <1>1, <1>2, Typing DEF ExpireIn
<1>6. ASSUME secretKeys[req[t].key] # None
      PROVE  secretKeys'[req[t].key] = [val |-> req[t].refresh.secret, exp |-> now + REFRESH_AGE]
    <2>1. secretKeys[req[t].key].val = req[t].refresh.secret
        BY <1>1, <1>2, <1>6 DEF LoginStore, LoginEntries
    <2> QED BY <1>1, <1>2, <1>6, <2>1, Typing, AgeAssumption DEF ExpireIn
<1>7. secretKeys[req[t].key] # None => secretKeys'[req[t].key] # None
    <2>1. [val |-> req[t].refresh.secret, exp |-> now + REFRESH_AGE] \in Entry(Secrets)
        BY <1>2, Typing, AgeAssumption DEF Entry, Token
    <2> QED BY <1>6, <2>1, NoneAssumption
<1>8. req[t].refresh.exp <= now + REFRESH_AGE
    BY <1>1, <1>2 DEF LoginTokens, KeyPcs
<1>9. LoginStore(req[t], gone)'
    BY <1>1, <1>2, <1>4, <1>5, <1>6, <1>7, <1>8 DEF LoginStore, LoginEntries, Lasting, KeyPcs
<1> QED BY <1>1, <1>2, <1>5, <1>9, LoginWriteStep

\* The login answers: its key and secret become those of an issued session.
LEMMA LoginRespondInv ==
    ASSUME NEW rev, NEW gone, TypeInv, IInv(rev, gone), NEW t \in Threads, LoginRespond(t)
    PROVE  IInv(rev, gone)'
<1> DEFINE s == [key |-> req[t].key, refresh |-> req[t].refresh]
<1>1. /\ req[t].pc = "issue" /\ Become(t, Idle)
      /\ held' = [held EXCEPT ![req[t].client] = @ \cup {s}]
      /\ issued' = issued \cup {s}
      /\ UNCHANGED <<now, secretKeys, accessKeys, drawn, loggedOut>>
    BY DEF LoginRespond, At, storeVars
<1>2. s.key = req[t].key /\ s.refresh = req[t].refresh
    OBVIOUS
<1>3. /\ req[t].pc \in KeyPcs /\ req[t].pc \in LoginPcs
      /\ LoginStore(req[t], gone) /\ LoginTokens(req[t])
    BY <1>1 DEF IInv, KeyPcs, LoginPcs
<1> HIDE DEF s
<1>4. \A u \in Threads : req'[u] = IF u = t THEN Idle ELSE req[u]
    BY <1>1, BecomeReq
<1>5. Idle.pc \notin LoginPcs /\ Idle.pc \notin KeyPcs /\ Idle.pc \notin PresentPcs /\ ~Idle.late
    BY DEF Idle, LoginPcs, KeyPcs, PresentPcs, RefreshPcs, ApiPcs
<1>6. Unshared'
    <2>1. /\ s.key \in drawn /\ s.refresh.secret \in drawn
          /\ \A s2 \in issued : s2.key # s.key /\ s2.refresh.secret # s.refresh.secret
          /\ \A u \in Threads \ {t} : req[u].pc \in LoginPcs => req[u].token.secret # s.refresh.secret
          /\ \A u \in Threads \ {t} : req[u].pc \in KeyPcs => req[u].key # s.key
        <3>1. req[t].token.secret = s.refresh.secret
            BY <1>1, <1>2, <1>3 DEF LoginTokens
        <3> QED BY <1>2, <1>3, <3>1 DEF IInv, Unshared
    <2> QED BY <1>1, <1>4, <1>5, <2>1 DEF IInv, Unshared
<1>7. Handed'
    BY <1>1 DEF IInv, Handed, TypeInv, TypeOK
<1>8. Stored(rev, gone)'
    <2>1. s.key \notin loggedOut
        BY <1>2, <1>3 DEF IInv, Unshared, Handed
    <2>2. accessKeys[s.key] # None => GrantedBy(accessKeys[s.key].val, s.refresh)
        BY <1>1, <1>2, <1>3 DEF LoginStore, LoginEntries, LoginTokens
    <2>3. StoredFor(s, rev, gone)
        BY <1>1, <1>2, <1>3, <2>1, <2>2 DEF StoredFor, SessionEntries, LoginStore, LoginEntries
    <2>4. \A s2 \in issued' : StoredFor(s2, rev, gone)
        BY <1>1, <2>3 DEF IInv, Stored
    <2> QED BY <1>1, <2>4 DEF IInv, Stored, StoredFor
<1>9. ASSUME NEW u \in Threads
      PROVE  (LoginTokens(req[u]) /\ LoginStore(req[u], gone))'
    BY <1>1, <1>4, <1>5 DEF IInv, LoginTokens, LoginStore, LoginEntries, KeyPcs, LoginPcs
<1>10. ASSUME NEW u \in Threads
       PROVE  (Presented(req[u]) /\ Late(req[u], rev))'
    BY <1>1, <1>4, <1>5 DEF IInv, Presented, Late
<1> QED BY <1>6, <1>7, <1>8, <1>9, <1>10 DEF IInv

\* The clock drops a secret only after the refresh token it signed has expired.
LEMMA TickInv ==
    ASSUME NEW rev, NEW gone, TypeInv, IInv(rev, gone), Tick
    PROVE  IInv(rev, gone)'
<1>1. /\ now' = now + 1
      /\ \A k \in Keys :
            /\ accessKeys'[k] = IF ExpiredAt(accessKeys[k], now + 1) THEN None ELSE accessKeys[k]
            /\ secretKeys'[k] = IF ExpiredAt(secretKeys[k], now + 1) THEN None ELSE secretKeys[k]
      /\ UNCHANGED <<drawn, held, issued, loggedOut, req>>
    BY Typing DEF Tick, Purge, clientVars
<1>2. Unshared' /\ Handed'
    BY <1>1 DEF IInv, Unshared, Handed
<1>3. ASSUME NEW s \in issued PROVE StoredFor(s, rev, gone)'
    <2>1. StoredFor(s, rev, gone) /\ s.key \in Keys /\ s.refresh.exp \in Nat
        BY Typing DEF IInv, Stored, Token
    <2>2. secretKeys[s.key] # None => secretKeys[s.key].exp \in Int
        BY <2>1, Typing DEF Entry, Persistent
    <2> QED BY <1>1, <2>1, <2>2, Typing DEF StoredFor, SessionEntries, Lasting, ExpiredAt
<1>4. Stored(rev, gone)'
    BY <1>1, <1>3 DEF IInv, Stored
<1>5. ASSUME NEW u \in Threads
      PROVE  (LoginTokens(req[u]) /\ LoginStore(req[u], gone))'
    <2>1. LoginTokens(req[u]) /\ LoginStore(req[u], gone) /\ req'[u] = req[u]
        BY <1>1 DEF IInv
    <2>2. req[u].pc \in KeyPcs => req[u].key \in Keys
        BY Typing DEF Shape, KeyPcs
    <2>3. /\ req[u].pc \in LoginPcs => req[u].token.exp \in Nat
          /\ req[u].pc \in LoginPcs \ {"createRefresh"} => req[u].refresh.exp \in Nat
        BY Typing DEF Shape, Token
    <2>4. LoginTokens(req[u])'
        BY <1>1, <2>1, <2>3, Typing, AgeAssumption DEF LoginTokens, LoginPcs
    <2>5. \A k \in Keys : secretKeys[k] # None => secretKeys[k].exp \in Int
        BY Typing DEF Entry, Persistent
    <2>6. LoginStore(req[u], gone)'
        BY <1>1, <2>1, <2>2, <2>3, <2>5, Typing
        DEF LoginStore, LoginEntries, Lasting, ExpiredAt, KeyPcs, LoginPcs
    <2> QED BY <2>4, <2>6
<1>6. ASSUME NEW u \in Threads
      PROVE  (Presented(req[u]) /\ Late(req[u], rev))'
    BY <1>1 DEF IInv, Presented, Late
<1> QED BY <1>2, <1>4, <1>5, <1>6 DEF IInv

\* Every step preserves the invariant.
LEMMA NextInv ==
    ASSUME NEW rev, NEW gone, NoCollision, TypeInv, IInv(rev, gone), [Next]_vars
    PROVE  IInv(rev, gone)'
<1>1. ASSUME NEW t \in Threads, EndRequest(t) \/ Crash(t) PROVE IInv(rev, gone)'
    BY <1>1, IdleInv, QuietStep DEF EndRequest, Crash
<1>2. CASE UNCHANGED vars
    BY <1>2 DEF vars, IInv, Unshared, Handed, Stored, StoredFor, LoginTokens, LoginStore,
                Presented, Late
<1> QED
    BY <1>1, <1>2, LoginCreateAccessInv, LoginCreateRefreshInv, LoginPickKeyInv, LoginSetAccessInv,
       LoginExpireAccessInv, LoginSetSecretInv, LoginExpireSecretInv, LoginRespondInv,
       RefreshGetSecretInv, RefreshDecodeInv, RefreshCreateTokenInv, RefreshSetAccessInv,
       RefreshExpireAccessInv,
       LogoutExpireSecretInv, LogoutExpireAccessInv, MiddlewareGetSecretInv,
       MiddlewareGetAccessInv, ViewGetSecretInv, ViewGetAccessInv, TickInv
    DEF Next, Login, Refresh, Logout, Api

\* The inductive invariant holds in every reachable state.
LEMMA Invariant ==
    ASSUME NoCollision
    PROVE  Spec => [](TypeInv /\ IInv({}, {}))
<1>1. Init => TypeInv /\ IInv({}, {})
    BY InitType, InitInv
<1>2. (TypeInv /\ IInv({}, {})) /\ [Next]_vars => (TypeInv /\ IInv({}, {}))'
    BY NextType, NextInv, NoCollision
<1> QED BY <1>1, <1>2, PTL DEF Spec

\* The only steps that bring a request to "served" or "nouser" are the two that
\* read an access token.
LEMMA EndingStep ==
    ASSUME TypeInv, Next, NEW t \in Threads, NEW q \in {"served", "nouser"},
           ~At(t, q), req'[t].pc = q
    PROVE  MiddlewareGetAccess(t) \/ ViewGetAccess(t)
<1>1. ASSUME NEW u \in Threads, NEW r, Become(u, r), r.pc # q
      PROVE  FALSE
    BY <1>1, BecomeReq DEF At
<1>2. ASSUME NEW u \in Threads, NEW p \in Pc \ {"served", "nouser"}, Goto(u, p)
      PROVE  FALSE
    <2>1. [req[u] EXCEPT !.pc = p].pc = p
        BY Typing DEF Request
    <2> QED BY <1>1, <1>2, <2>1 DEF Goto
<1>3. Idle.pc # q
    BY DEF Idle
<1>4. ASSUME NEW u \in Threads, Login(u) PROVE FALSE
    <2>1. ASSUME NEW c, NEW id, LoginCreateAccess(u, c, id) PROVE FALSE
        BY <2>1, <1>1 DEF LoginCreateAccess, Idle
    <2>2. CASE LoginCreateRefresh(u)
        <3>1. \A k : [req[u] EXCEPT !.pc = "pick", !.refresh = k].pc = "pick"
            BY Typing DEF Request
        <3> QED BY <2>2, <1>1, <3>1 DEF LoginCreateRefresh
    <2>3. CASE LoginPickKey(u)
        <3>1. \A k : [req[u] EXCEPT !.pc = "setAccess", !.key = k].pc = "setAccess"
            BY Typing DEF Request
        <3> QED BY <2>3, <1>1, <3>1 DEF LoginPickKey, At
    <2>4. CASE LoginSetAccess(u) \/ LoginExpireAccess(u) \/ LoginSetSecret(u)
                    \/ LoginExpireSecret(u)
        BY <2>4, <1>2 DEF LoginSetAccess, LoginExpireAccess, LoginSetSecret,
                          LoginExpireSecret, Pc, LoginPcs
    <2>5. CASE LoginRespond(u)
        BY <2>5, <1>1, <1>3 DEF LoginRespond
    <2> QED BY <1>4, <2>2, <2>1, <2>3, <2>4, <2>5 DEF Login
<1>5. ASSUME NEW u \in Threads, Refresh(u) \/ Logout(u) PROVE FALSE
    <2>1. ASSUME NEW c, RefreshGetSecret(u, c) PROVE FALSE
        BY <2>1, <1>1, PresentsFields DEF RefreshGetSecret
    <2>2. CASE RefreshDecode(u) \/ RefreshCreateToken(u)
        <3>1. /\ \A k : [req[u] EXCEPT !.pc = "refreshCreate", !.checked = k].pc = "refreshCreate"
              /\ \A k : [req[u] EXCEPT !.pc = "refreshSet", !.token = k, !.checked = 0].pc
                            = "refreshSet"
            BY Typing DEF Request
        <3> QED BY <2>2, <1>1, <1>3, <3>1 DEF RefreshDecode, RefreshCreateToken
    <2>3. CASE RefreshSetAccess(u)
        BY <2>3, <1>2 DEF RefreshSetAccess, Pc, RefreshPcs
    <2>4. CASE RefreshExpireAccess(u) \/ LogoutExpireAccess(u)
        BY <2>4, <1>1, <1>3 DEF RefreshExpireAccess, LogoutExpireAccess
    <2>5. ASSUME NEW c, LogoutExpireSecret(u, c) PROVE FALSE
        BY <2>5, <1>1, PresentsFields DEF LogoutExpireSecret
    <2> QED BY <1>5, <2>3, <2>1, <2>2, <2>4, <2>5 DEF Refresh, Logout
<1>6. ASSUME NEW u \in Threads, Api(u)
      PROVE  MiddlewareGetAccess(t) \/ ViewGetAccess(t)
    <2>1. ASSUME NEW c, MiddlewareGetSecret(u, c) PROVE FALSE
        BY <2>1, <1>1, PresentsFields DEF MiddlewareGetSecret
    <2>2. CASE ViewGetSecret(u)
        <3>1. \A k : [req[u] EXCEPT !.pc = "viewAccess", !.secret = k].pc = "viewAccess"
            BY Typing DEF Request
        <3> QED BY <2>2, <1>1, <3>1 DEF ViewGetSecret
    <2>3. CASE EndRequest(u)
        BY <2>3, <1>1, <1>3 DEF EndRequest
    <2>4. CASE MiddlewareGetAccess(u) \/ ViewGetAccess(u)
        <3>1. PICK r : Become(u, r)
            BY <2>4 DEF MiddlewareGetAccess, ViewGetAccess, Goto
        <3>2. u # t => req'[t] = req[t]
            BY <3>1, BecomeReq
        <3> QED BY <2>4, <3>2 DEF At
    <2> QED BY <1>6, <2>1, <2>2, <2>3, <2>4 DEF Api
<1>7. ASSUME NEW u \in Threads, Crash(u) PROVE FALSE
    BY <1>7, <1>1, <1>3 DEF Crash
<1>8. CASE Tick
    BY <1>8 DEF Tick, At
<1> QED BY <1>4, <1>5, <1>6, <1>7, <1>8 DEF Next

\* A request is served only if the token it has just read decodes, and that
\* token is one of its session.
LEMMA ServedStep ==
    ASSUME NEW rev, NEW gone, TypeInv, IInv(rev, gone), Next, NEW t \in Threads,
           ~At(t, "served"), req'[t].pc = "served"
    PROVE  now <= req'[t].sess.refresh.exp + req'[t].token.pause + ACCESS_AGE
<1> DEFINE token == GetFrom(accessKeys, req[t].key)
           r(p) == [req[t] EXCEPT !.pc = p, !.token = token]
<1>1. MiddlewareGetAccess(t) \/ ViewGetAccess(t)
    BY EndingStep
<1>2. /\ req[t].pc \in {"mwAccess", "viewAccess"} /\ Decodes(token, req[t].secret)
      /\ \E p \in {"viewSecret", "served"} : Become(t, r(p))
    <2>1. Idle.pc # "served" /\ [req[t] EXCEPT !.pc = "nouser"].pc # "served"
        BY Typing DEF Idle, Request
    <2> QED BY <1>1, <2>1, BecomeReq DEF MiddlewareGetAccess, ViewGetAccess, Goto, At
<1>3. req'[t].sess = req[t].sess /\ req'[t].token = token
    <2>1. PICK p \in {"viewSecret", "served"} : Become(t, r(p))
        BY <1>2
    <2>2. req'[t] = r(p)
        BY <2>1, BecomeReq
    <2> QED BY <2>2, Typing DEF Request
<1> HIDE DEF token, r
<1>4. req[t].pc \in PresentPcs /\ token # None /\ now <= token.exp
    BY <1>2 DEF Decodes, PresentPcs, ApiPcs
<1>5. token \in Token /\ GrantedBy(token, req[t].sess.refresh)
    BY <1>4, TokenFound DEF token
<1>6. req[t].sess \in Session
    BY <1>4, Typing DEF Shape
<1>7. /\ now \in Nat /\ token.exp \in Nat /\ token.pause \in Int
      /\ req[t].sess.refresh.exp \in Nat /\ ACCESS_AGE \in Nat
    BY <1>5, <1>6, Typing, AgeAssumption DEF Token, Session
<1>8. token.exp <= req[t].sess.refresh.exp + token.pause + ACCESS_AGE
    BY <1>5 DEF GrantedBy
<1>9. now <= req[t].sess.refresh.exp + token.pause + ACCESS_AGE
    BY <1>4, <1>7, <1>8
<1> QED BY <1>3, <1>9

\* A request ends without a user only if getUser has just found the secret or
\* the token missing.
LEMMA NoUserStep ==
    ASSUME TypeInv, Next, NEW t \in Threads, ~At(t, "nouser"), req'[t].pc = "nouser"
    PROVE  ViewGetAccess(t) /\ (req[t].secret = None \/ GetFrom(accessKeys, req[t].key) = None)
<1>1. MiddlewareGetAccess(t) \/ ViewGetAccess(t)
    BY EndingStep
<1>2. \A p, token : p # "nouser" => [req[t] EXCEPT !.pc = p, !.token = token].pc # "nouser"
    BY Typing DEF Request
<1>3. Idle.pc # "nouser"
    BY DEF Idle
<1>4. ASSUME NEW r, Become(t, r) PROVE r.pc = "nouser"
    BY <1>4, BecomeReq
<1>5. ~MiddlewareGetAccess(t)
    <2>1. ASSUME NEW token, NEW p \in {"viewSecret", "served"},
                 Become(t, [req[t] EXCEPT !.pc = p, !.token = token])
          PROVE  FALSE
        BY <2>1, <1>2, <1>4
    <2> QED BY <2>1, <1>3, <1>4 DEF MiddlewareGetAccess
<1>6. CASE ViewGetAccess(t)
    <2>1. ASSUME NEW token, Become(t, [req[t] EXCEPT !.pc = "served", !.token = token])
          PROVE  FALSE
        BY <2>1, <1>2, <1>4
    <2> QED BY <1>6, <2>1, <1>3, <1>4 DEF ViewGetAccess
<1> QED BY <1>1, <1>5, <1>6

-----------------------------------------------------------------------------
(* The safety properties of Sessions. *)

\* LogoutView is effective at once and for good, for any number of requests
\* and refreshes under way and whatever crashes.
THEOREM LogoutEffective ==
    ASSUME NoCollision
    PROVE  Spec => []NoServiceAfterLogout
<1>1. IInv({}, {}) => NoServiceAfterLogout
    BY DEF IInv, Late, NoServiceAfterLogout, Admitted
<1> QED BY <1>1, Invariant, NoCollision, PTL

\* Every request that is served is served as the user of the session whose
\* key_name it presents.
THEOREM Isolation ==
    ASSUME NoCollision
    PROVE  Spec => []SessionIsolation
<1>1. IInv({}, {}) => SessionIsolation
    BY DEF IInv, Presented, SessionIsolation, At, PresentPcs, ApiPcs
<1> QED BY <1>1, Invariant, NoCollision, PTL

\* Until its refresh token expires, a session that nobody logged out can be
\* refreshed.
THEOREM Refreshable ==
    ASSUME NoCollision
    PROVE  Spec => []SessionRefreshable
<1>1. IInv({}, {}) => SessionRefreshable
    BY DEF IInv, Stored, StoredFor, SessionEntries, SessionRefreshable, GetFrom
<1> QED BY <1>1, Invariant, NoCollision, PTL

\* No request is served later than the age of an access token after the refresh
\* token of its session has expired, plus the time that the refresh which created
\* its token took between jwt.decode and create_token.
THEOREM Lifetime ==
    ASSUME NoCollision
    PROVE  Spec => ServedWithinLifetime
<1>1. TypeInv /\ IInv({}, {}) /\ [Next]_vars
          => [\A t \in Threads : ~At(t, "served") /\ req'[t].pc = "served"
                 => now <= req'[t].sess.refresh.exp + req'[t].token.pause + ACCESS_AGE]_vars
    BY ServedStep
<1> QED BY <1>1, Invariant, NoCollision, PTL DEF Spec, ServedWithinLifetime

-----------------------------------------------------------------------------
(* What getUser may rely on.  The middleware has seen a token that had not   *)
(* expired; the entry it was read from may be replaced by a refresh, but it  *)
(* does not go away before that token would have expired.                    *)

\* An access entry outlives the token in it, which is at most ACCESS_AGE ahead.
AccessEntry(entry) ==
    entry # None => Lasting(entry, entry.val.exp) /\ entry.val.exp <= now + ACCESS_AGE

\* The entries and the requests that touch them.
UserSeen(r) ==
    /\ r.pc \in LoginPcs \cup {"refreshSet"} => r.token.exp <= now + ACCESS_AGE
    /\ r.pc = "logoutAccess" => r.key \in loggedOut
    /\ r.pc \in {"viewSecret", "viewAccess"} =>
          /\ r.token.exp <= now + ACCESS_AGE
          /\ \/ r.key \in loggedOut
             \/ now > r.token.exp
             \/ accessKeys[r.key] # None /\ Lasting(accessKeys[r.key], r.token.exp)
    /\ r.pc = "viewAccess" /\ r.secret = None =>
          r.key \in loggedOut \/ now > r.sess.refresh.exp

AccessInv ==
    /\ \A k \in Keys : AccessEntry(accessKeys[k])
    /\ \A t \in Threads : UserSeen(req[t])

\* A step of thread t.  An access entry that it touches either belongs to a
\* session that is logged out or is given a full lifetime.
LEMMA AccessInvStep ==
    ASSUME TypeInv, TypeInv', AccessInv, NEW t \in Threads, NEW r, Become(t, r),
           UserSeen(req[t])',
           \A k \in Keys : AccessEntry(accessKeys[k])',
           \A k \in Keys : \/ accessKeys'[k] = accessKeys[k]
                           \/ k \in loggedOut
                           \/ accessKeys'[k] # None /\ Lasting(accessKeys'[k], now + ACCESS_AGE),
           now' = now, loggedOut \subseteq loggedOut'
    PROVE  AccessInv'
<1>1. ASSUME NEW u \in Threads \ {t} PROVE UserSeen(req[u])'
    <2>1. req'[u] = req[u] /\ UserSeen(req[u]) /\ req[u] \in Request /\ Shape(req[u])
        BY BecomeReq, Typing DEF AccessInv
    <2>2. CASE req[u].pc \in {"viewSecret", "viewAccess"}
        <3>1. req[u].key \in Keys /\ req[u].token.exp \in Nat /\ req[u].token.exp <= now + ACCESS_AGE
            BY <2>1, <2>2 DEF Shape, PresentPcs, ApiPcs, Token, UserSeen
        <3>2. accessKeys'[req[u].key] # None => accessKeys'[req[u].key].exp \in Int
            BY <3>1 DEF TypeInv, TypeOK, Entry, Persistent
        <3>3. accessKeys'[req[u].key] # None /\ Lasting(accessKeys'[req[u].key], now + ACCESS_AGE)
                  => Lasting(accessKeys'[req[u].key], req[u].token.exp)
            BY <3>1, <3>2, Typing, AgeAssumption DEF Lasting
        <3> QED BY <2>1, <2>2, <3>1, <3>3 DEF UserSeen, LoginPcs
    <2>3. CASE req[u].pc \notin {"viewSecret", "viewAccess"}
        BY <2>1, <2>3 DEF UserSeen
    <2> QED BY <2>2, <2>3
<1> QED BY <1>1 DEF AccessInv

\* A step that does not write an access entry.
LEMMA AccessInvQuiet ==
    ASSUME TypeInv, TypeInv', AccessInv, NEW t \in Threads, NEW r, Become(t, r),
           UserSeen(req[t])', now' = now, accessKeys' = accessKeys, loggedOut \subseteq loggedOut'
    PROVE  AccessInv'
<1>1. \A k \in Keys : AccessEntry(accessKeys[k])'
    BY DEF AccessInv, AccessEntry
<1> QED BY <1>1, AccessInvStep

\* SET gives the entry no expiry; EXPIRE a full lifetime, if it is there.
LEMMA AccessWritten ==
    ASSUME TypeInv, AccessInv, NEW k \in Keys, now' = now,
           \/ accessKeys' = ExpireIn(accessKeys, k, ACCESS_AGE, now)
           \/ \E token \in Token : /\ token.exp <= now + ACCESS_AGE
                                   /\ accessKeys' = SetIn(accessKeys, k, token)
    PROVE  /\ \A l \in Keys : AccessEntry(accessKeys[l])'
           /\ \A l \in Keys : \/ accessKeys'[l] = accessKeys[l]
                              \/ l \in loggedOut
                              \/ /\ accessKeys'[l] # None
                                 /\ Lasting(accessKeys'[l], now + ACCESS_AGE)
<1>1. \A l \in Keys : l # k => accessKeys'[l] = accessKeys[l]
    BY Typing DEF ExpireIn, SetIn
<1>2. CASE accessKeys'[k] = accessKeys[k]
    BY <1>1, <1>2 DEF AccessInv, AccessEntry
<1>3. CASE accessKeys'[k] # accessKeys[k]
    <2>1. CASE accessKeys' = ExpireIn(accessKeys, k, ACCESS_AGE, now)
        <3>1. accessKeys[k] # None
            BY <1>3, <2>1 DEF ExpireIn
        <3>2. accessKeys'[k] = [val |-> accessKeys[k].val, exp |-> now + ACCESS_AGE]
            BY <2>1, <3>1, Typing, AgeAssumption DEF ExpireIn
        <3>3. accessKeys[k] \in Entry(Token)
            BY <3>1, Typing
        <3>4. [val |-> accessKeys[k].val, exp |-> now + ACCESS_AGE] \in Entry(Token)
            BY <3>3, Typing, AgeAssumption DEF Entry
        <3>5. accessKeys'[k] # None
            BY <3>2, <3>4, NoneAssumption DEF Token
        <3>6. accessKeys[k].val.exp <= now + ACCESS_AGE
            BY <3>1 DEF AccessInv, AccessEntry
        <3>7. Lasting(accessKeys'[k], now + ACCESS_AGE)
            BY <3>2, Typing, AgeAssumption DEF Lasting
        <3>8. AccessEntry(accessKeys[k])'
            BY <3>2, <3>6, Typing, AgeAssumption DEF AccessEntry, Lasting
        <3> QED BY <1>1, <3>5, <3>7, <3>8 DEF AccessInv, AccessEntry
    <2>2. ASSUME NEW token \in Token, token.exp <= now + ACCESS_AGE,
                 accessKeys' = SetIn(accessKeys, k, token)
          PROVE  /\ AccessEntry(accessKeys[k])' /\ accessKeys'[k] # None
                 /\ Lasting(accessKeys'[k], now + ACCESS_AGE)
        <3>1. accessKeys'[k] = [val |-> token, exp |-> Persistent]
            BY <2>2, Typing DEF SetIn
        <3>2. [val |-> token, exp |-> Persistent] \in Entry(Token)
            BY DEF Entry
        <3> QED BY <2>2, <3>1, <3>2, NoneAssumption DEF AccessEntry, Lasting, Token
    <2> QED BY <1>1, <2>1, <2>2 DEF AccessInv, AccessEntry
<1> QED BY <1>2, <1>3

\* A thread without a request has seen nothing.
LEMMA UserSeenIdle ==
    ASSUME TypeInv, NEW t \in Threads, Become(t, Idle)
    PROVE  UserSeen(req[t])'
<1>1. req'[t] = Idle
    BY BecomeReq
<1> QED BY <1>1 DEF UserSeen, Idle, LoginPcs

\* The steps of LoginView.
LEMMA LoginAccess ==
    ASSUME TypeInv, TypeInv', AccessInv, NEW t \in Threads, Login(t)
    PROVE  AccessInv'
<1>t. now \in Nat /\ req[t] \in Request /\ Shape(req[t]) /\ UserSeen(req[t])
    BY Typing DEF AccessInv
<1>1. ASSUME NEW p \in LoginPcs, Goto(t, p), req[t].pc \in LoginPcs, now' = now
      PROVE  Become(t, [req[t] EXCEPT !.pc = p]) /\ UserSeen(req[t])'
    <2>1. req'[t] = [req[t] EXCEPT !.pc = p]
        BY <1>1, BecomeReq DEF Goto
    <2>2. req'[t].pc = p /\ req'[t].token = req[t].token
        BY <1>t, <2>1 DEF Request
    <2> QED BY <1>t, <1>1, <2>2 DEF UserSeen, LoginPcs, Goto
<1>2. ASSUME NEW c \in Clients, NEW u \in Users, LoginCreateAccess(t, c, u)
      PROVE  AccessInv'
    <2>1. PICK s : Become(t, [Idle EXCEPT !.pc = "createRefresh", !.client = c,
                                          !.token = CreateToken(u, s, ACCESS_AGE)])
        BY <1>2 DEF LoginCreateAccess
    <2> DEFINE r == [Idle EXCEPT !.pc = "createRefresh", !.client = c,
                                 !.token = CreateToken(u, s, ACCESS_AGE)]
    <2>2. r.pc = "createRefresh" /\ r.token.exp = now + ACCESS_AGE
        BY DEF Idle, CreateToken
    <2> HIDE DEF r
    <2>3. req'[t] = r
        BY <2>1, BecomeReq DEF r
    <2>4. UNCHANGED <<now, accessKeys, loggedOut>>
        BY <1>2 DEF LoginCreateAccess, storeVars, clientVars
    <2>5. UserSeen(req[t])'
        BY <1>t, <2>2, <2>3, <2>4, AgeAssumption DEF UserSeen, LoginPcs
    <2> QED BY <2>1, <2>4, <2>5, AccessInvQuiet
<1>3. CASE LoginCreateRefresh(t)
    <2> DEFINE refresh == CreateToken(req[t].token.id, req[t].token.secret, REFRESH_AGE)
               r == [req[t] EXCEPT !.pc = "pick", !.refresh = refresh]
    <2>1. /\ req[t].pc = "createRefresh" /\ Become(t, r)
          /\ UNCHANGED <<now, accessKeys, loggedOut>>
        BY <1>3 DEF LoginCreateRefresh, At, storeVars, clientVars
    <2>2. r.pc = "pick" /\ r.token = req[t].token
        BY <1>t DEF Request
    <2> HIDE DEF r
    <2>3. UserSeen(req[t])'
        BY <1>t, <2>1, <2>2, BecomeReq DEF UserSeen, LoginPcs
    <2> QED BY <2>1, <2>3, AccessInvQuiet
<1>4. CASE LoginPickKey(t)
    <2>1. PICK k : \/ req' = req
                   \/ Become(t, [req[t] EXCEPT !.pc = "setAccess", !.key = k])
        BY <1>4 DEF LoginPickKey
    <2>2. UNCHANGED <<now, accessKeys, loggedOut>>
        BY <1>4 DEF LoginPickKey, storeVars, clientVars
    <2>3. CASE req' = req
        BY <2>2, <2>3 DEF AccessInv, UserSeen, AccessEntry
    <2>4. CASE Become(t, [req[t] EXCEPT !.pc = "setAccess", !.key = k])
        <3>1. req'[t] = [req[t] EXCEPT !.pc = "setAccess", !.key = k]
            BY <2>4, BecomeReq
        <3>2. req'[t].pc = "setAccess" /\ req'[t].token = req[t].token
            BY <1>t, <3>1 DEF Request
        <3>3. req[t].pc \in LoginPcs
            BY <1>4 DEF LoginPickKey, At, LoginPcs
        <3>4. UserSeen(req[t])'
            BY <1>t, <2>2, <3>2, <3>3 DEF UserSeen, LoginPcs
        <3> QED BY <2>2, <2>4, <3>4, AccessInvQuiet
    <2> QED BY <2>1, <2>3, <2>4
<1>5. CASE LoginSetAccess(t)
    <2>1. /\ req[t].pc = "setAccess" /\ Goto(t, "expireAccess")
          /\ accessKeys' = SetIn(accessKeys, req[t].key, req[t].token)
          /\ UNCHANGED <<now, loggedOut>>
        BY <1>5 DEF LoginSetAccess, At, clientVars
    <2>2. /\ req[t].pc \in LoginPcs /\ "expireAccess" \in LoginPcs
          /\ req[t].key \in Keys /\ req[t].token \in Token
        BY <1>t, <2>1 DEF Shape, LoginPcs
    <2>3. req[t].token.exp <= now + ACCESS_AGE
        BY <1>t, <2>2 DEF UserSeen
    <2> QED BY <1>1, <2>1, <2>2, <2>3, AccessWritten, AccessInvStep
<1>6. CASE LoginExpireAccess(t)
    <2>1. /\ req[t].pc = "expireAccess" /\ Goto(t, "setSecret")
          /\ accessKeys' = ExpireIn(accessKeys, req[t].key, ACCESS_AGE, now)
          /\ UNCHANGED <<now, loggedOut>>
        BY <1>6 DEF LoginExpireAccess, At, clientVars
    <2>2. req[t].pc \in LoginPcs /\ "setSecret" \in LoginPcs /\ req[t].key \in Keys
        BY <1>t, <2>1 DEF Shape, LoginPcs
    <2> QED BY <1>1, <2>1, <2>2, AccessWritten, AccessInvStep
<1>7. CASE LoginSetSecret(t) \/ LoginExpireSecret(t)
    <2>1. PICK p \in {"expireSecret", "issue"} : Goto(t, p)
        BY <1>7 DEF LoginSetSecret, LoginExpireSecret
    <2>2. UNCHANGED <<now, accessKeys, loggedOut>> /\ req[t].pc \in LoginPcs
        BY <1>7 DEF LoginSetSecret, LoginExpireSecret, clientVars, At, LoginPcs
    <2>3. p \in LoginPcs
        BY DEF LoginPcs
    <2> QED BY <1>1, <2>1, <2>2, <2>3, AccessInvQuiet
<1>8. CASE LoginRespond(t)
    BY <1>8, UserSeenIdle, AccessInvQuiet DEF LoginRespond, storeVars
<1> QED BY <1>3, <1>2, <1>4, <1>5, <1>6, <1>7, <1>8 DEF Login

\* The steps of RefreshToken.
LEMMA RefreshAccess ==
    ASSUME TypeInv, TypeInv', AccessInv, NEW t \in Threads, Refresh(t)
    PROVE  AccessInv'
<1>t. now \in Nat /\ req[t] \in Request /\ Shape(req[t]) /\ UserSeen(req[t])
    BY Typing DEF AccessInv
<1>1. ASSUME NEW c \in Clients, RefreshGetSecret(t, c) PROVE AccessInv'
    <2>1. PICK s, s2 :
              Become(t, Presents("refreshDecode", c, s, s2.refresh, GetFrom(secretKeys, s.key)))
        BY <1>1 DEF RefreshGetSecret
    <2>2. req'[t].pc = "refreshDecode"
        BY <2>1, BecomeReq, PresentsFields
    <2>3. UserSeen(req[t])'
        BY <2>2 DEF UserSeen, LoginPcs
    <2> QED BY <1>1, <2>1, <2>3, AccessInvQuiet DEF RefreshGetSecret, storeVars, clientVars
<1>2. CASE RefreshDecode(t)
    <2> DEFINE r == [req[t] EXCEPT !.pc = "refreshCreate", !.checked = now]
    <2>1. PICK q \in {r, Idle} : Become(t, q)
        BY <1>2 DEF RefreshDecode
    <2>2. r.pc = "refreshCreate" /\ Idle.pc = "idle"
        BY <1>t DEF Request, Idle
    <2> HIDE DEF r
    <2>3. UserSeen(req[t])'
        BY <2>1, <2>2, BecomeReq DEF UserSeen, LoginPcs
    <2> QED BY <1>2, <2>1, <2>3, AccessInvQuiet DEF RefreshDecode, storeVars, clientVars
<1>3. CASE RefreshCreateToken(t)
    <2> DEFINE r == [req[t] EXCEPT !.pc = "refreshSet", !.token = RefreshedToken(t), !.checked = 0]
    <2>1. Become(t, r) /\ UNCHANGED <<now, accessKeys, loggedOut>>
        BY <1>3 DEF RefreshCreateToken, storeVars, clientVars
    <2>2. r.pc = "refreshSet" /\ r.token.exp = now + ACCESS_AGE
        BY <1>t DEF Request, RefreshedToken, CreateToken
    <2> HIDE DEF r
    <2>3. UserSeen(req[t])'
        BY <1>t, <2>1, <2>2, BecomeReq, AgeAssumption DEF UserSeen, LoginPcs
    <2> QED BY <2>1, <2>3, AccessInvQuiet
<1>4. CASE RefreshSetAccess(t)
    <2>1. /\ accessKeys' = SetIn(accessKeys, req[t].key, req[t].token)
          /\ Become(t, [req[t] EXCEPT !.pc = "refreshExpire"])
          /\ UNCHANGED <<now, loggedOut>>
          /\ req[t].pc = "refreshSet"
        BY <1>4 DEF RefreshSetAccess, Goto, clientVars, At
    <2>2. req[t].key \in Keys /\ req[t].token \in Token /\ req[t].token.exp <= now + ACCESS_AGE
        BY <1>t, <2>1 DEF Shape, RefreshPcs, PresentPcs, UserSeen
    <2>3. [req[t] EXCEPT !.pc = "refreshExpire"].pc = "refreshExpire"
        BY <1>t DEF Request
    <2>4. UserSeen(req[t])'
        BY <2>1, <2>3, BecomeReq DEF UserSeen, LoginPcs
    <2> QED BY <2>1, <2>2, <2>4, AccessWritten, AccessInvStep
<1>5. CASE RefreshExpireAccess(t)
    <2>1. /\ req[t].pc = "refreshExpire" /\ Become(t, Idle)
          /\ accessKeys' = ExpireIn(accessKeys, req[t].key, ACCESS_AGE, now)
          /\ UNCHANGED <<now, loggedOut>>
        BY <1>5 DEF RefreshExpireAccess, At, clientVars
    <2>2. req[t].key \in Keys
        BY <1>t, <2>1 DEF Shape, RefreshPcs, PresentPcs
    <2> QED BY <2>1, <2>2, UserSeenIdle, AccessWritten, AccessInvStep
<1> QED BY <1>1, <1>2, <1>5, <1>3, <1>4 DEF Refresh

\* The steps of LogoutView: it removes the access entry only of a key that is
\* already logged out.
LEMMA LogoutAccess ==
    ASSUME TypeInv, TypeInv', AccessInv, NEW t \in Threads, Logout(t)
    PROVE  AccessInv'
<1>t. now \in Nat /\ req[t] \in Request /\ Shape(req[t]) /\ UserSeen(req[t])
    BY Typing DEF AccessInv
<1>1. ASSUME NEW c \in Clients, LogoutExpireSecret(t, c) PROVE AccessInv'
    <2>1. PICK s : /\ loggedOut' = loggedOut \cup {s.key}
                   /\ Become(t, Presents("logoutAccess", c, s, None, None))
        BY <1>1 DEF LogoutExpireSecret
    <2>2. req'[t].pc = "logoutAccess" /\ req'[t].key = s.key
        BY <2>1, BecomeReq, PresentsFields
    <2>3. UserSeen(req[t])'
        BY <2>1, <2>2 DEF UserSeen, LoginPcs
    <2> QED BY <1>1, <2>1, <2>3, AccessInvQuiet DEF LogoutExpireSecret
<1>2. CASE LogoutExpireAccess(t)
    <2>1. /\ req[t].pc = "logoutAccess" /\ Become(t, Idle)
          /\ accessKeys' = ExpireIn(accessKeys, req[t].key, 0, now)
          /\ UNCHANGED <<now, loggedOut>>
        BY <1>2 DEF LogoutExpireAccess, At
    <2>2. req[t].key \in Keys /\ req[t].key \in loggedOut
        BY <1>t, <2>1 DEF Shape, PresentPcs, UserSeen
    <2>3. /\ \A k \in Keys : k # req[t].key => accessKeys'[k] = accessKeys[k]
          /\ accessKeys'[req[t].key] = None
        BY <2>1, <2>2, Typing DEF ExpireIn
    <2>4. \A k \in Keys : AccessEntry(accessKeys[k])'
        BY <2>1, <2>3 DEF AccessInv, AccessEntry
    <2> QED BY <2>1, <2>2, <2>3, <2>4, UserSeenIdle, AccessInvStep
<1> QED BY <1>1, <1>2 DEF Logout

\* The middleware admits a request with a token that is stored and not expired.
LEMMA MiddlewareAccess ==
    ASSUME TypeInv, TypeInv', AccessInv, NEW t \in Threads, MiddlewareGetAccess(t)
    PROVE  AccessInv'
<1> DEFINE token == GetFrom(accessKeys, req[t].key)
           r(p) == [req[t] EXCEPT !.pc = p, !.token = token]
<1>1. req[t].pc = "mwAccess" /\ UNCHANGED <<now, accessKeys, loggedOut>>
    BY DEF MiddlewareGetAccess, At, storeVars, clientVars
<1>2. CASE Decodes(token, req[t].secret)
    <2>1. PICK p \in {"viewSecret", "served"} : Become(t, r(p))
        BY <1>2 DEF MiddlewareGetAccess
    <2>2. r(p).pc = p /\ r(p).key = req[t].key /\ r(p).token = token
        BY Typing DEF Request
    <2> HIDE DEF r
    <2>3. req'[t] = r(p)
        BY <2>1, BecomeReq
    <2>4. req[t].key \in Keys
        BY <1>1, Typing DEF Shape, PresentPcs, ApiPcs
    <2>5. accessKeys[req[t].key] # None /\ token = accessKeys[req[t].key].val
        BY <1>2 DEF Decodes, GetFrom
    <2>6. Lasting(accessKeys[req[t].key], token.exp) /\ token.exp <= now + ACCESS_AGE
        BY <2>4, <2>5 DEF AccessInv, AccessEntry
    <2> HIDE DEF token
    <2>7. UserSeen(req[t])'
        BY <1>1, <2>2, <2>3, <2>5, <2>6 DEF UserSeen, LoginPcs
    <2> QED BY <1>1, <2>1, <2>7, AccessInvQuiet
<1>3. CASE ~Decodes(token, req[t].secret)
    BY <1>1, <1>3, UserSeenIdle, AccessInvQuiet DEF MiddlewareGetAccess
<1> QED BY <1>2, <1>3

\* getUser reads the secret: it is there unless the session has ended.
LEMMA ViewSecretAccess ==
    ASSUME TypeInv, TypeInv', IInv({}, {}), AccessInv, NEW t \in Threads, ViewGetSecret(t)
    PROVE  AccessInv'
<1> DEFINE r == [req[t] EXCEPT !.pc = "viewAccess", !.secret = GetFrom(secretKeys, req[t].key)]
<1>1. /\ req[t].pc = "viewSecret" /\ Become(t, r)
      /\ UNCHANGED <<now, secretKeys, accessKeys, loggedOut>>
    BY DEF ViewGetSecret, At, storeVars, clientVars
<1>2. /\ r.pc = "viewAccess" /\ r.secret = GetFrom(secretKeys, req[t].key)
      /\ r.key = req[t].key /\ r.sess = req[t].sess /\ r.token = req[t].token
    BY Typing DEF Request
<1> HIDE DEF r
<1>3. req'[t] = r
    BY <1>1, BecomeReq
<1>4. req[t].sess \in issued /\ req[t].key = req[t].sess.key /\ req[t].key \in Keys
    BY <1>1, Typing DEF IInv, Presented, Shape, PresentPcs, ApiPcs
<1>5. secretKeys[req[t].key] # None => GetFrom(secretKeys, req[t].key) # None
    <2>1. secretKeys[req[t].key] # None => secretKeys[req[t].key].val \in Secrets
        BY <1>4, Typing DEF Entry
    <2> QED BY <2>1, NoneAssumption DEF GetFrom
<1>6. GetFrom(secretKeys, req[t].key) = None
          => req[t].key \in loggedOut \/ ~(now <= req[t].sess.refresh.exp)
    BY <1>4, <1>5 DEF IInv, Stored, StoredFor
<1>7. now \in Nat /\ req[t].sess.refresh.exp \in Nat
    BY <1>4, Typing DEF Token
<1>8. UserSeen(req[t])
    BY DEF AccessInv
<1>9. UserSeen(req[t])'
    BY <1>1, <1>2, <1>3, <1>6, <1>7, <1>8 DEF UserSeen, LoginPcs
<1> QED BY <1>1, <1>9, AccessInvQuiet

\* The steps of a request for a search endpoint.
LEMMA ApiAccess ==
    ASSUME TypeInv, TypeInv', IInv({}, {}), AccessInv, NEW t \in Threads, Api(t)
    PROVE  AccessInv'
<1>1. ASSUME NEW c \in Clients, MiddlewareGetSecret(t, c) PROVE AccessInv'
    <2>1. PICK s : Become(t, Presents("mwAccess", c, s, None, GetFrom(secretKeys, s.key)))
        BY <1>1 DEF MiddlewareGetSecret
    <2>2. req'[t].pc = "mwAccess"
        BY <2>1, BecomeReq, PresentsFields
    <2>3. UserSeen(req[t])'
        BY <2>2 DEF UserSeen, LoginPcs
    <2> QED BY <1>1, <2>1, <2>3, AccessInvQuiet DEF MiddlewareGetSecret, storeVars, clientVars
<1>2. CASE ViewGetAccess(t)
    <2> DEFINE served == [req[t] EXCEPT !.pc = "served", !.token = GetFrom(accessKeys, req[t].key)]
               nouser == [req[t] EXCEPT !.pc = "nouser"]
    <2>1. PICK r \in {served, nouser, Idle} : Become(t, r)
        BY <1>2 DEF ViewGetAccess, Goto
    <2>2. served.pc = "served" /\ nouser.pc = "nouser" /\ Idle.pc = "idle"
        BY Typing DEF Request, Idle
    <2> HIDE DEF served, nouser
    <2>3. UserSeen(req[t])'
        BY <2>1, <2>2, BecomeReq DEF UserSeen, LoginPcs
    <2> QED BY <1>2, <2>1, <2>3, AccessInvQuiet DEF ViewGetAccess, storeVars, clientVars
<1>3. CASE EndRequest(t)
    BY <1>3, UserSeenIdle, AccessInvQuiet DEF EndRequest, storeVars, clientVars
<1> QED BY <1>1, <1>2, <1>3, MiddlewareAccess, ViewSecretAccess DEF Api

\* Time passes: an access entry goes when its token has expired.
LEMMA TickAccess ==
    ASSUME TypeInv, AccessInv, Tick
    PROVE  AccessInv'
<1>1. /\ now' = now + 1
      /\ \A k \in Keys : accessKeys'[k] = IF ExpiredAt(accessKeys[k], now + 1) THEN None
                                          ELSE accessKeys[k]
      /\ UNCHANGED <<loggedOut, req>>
    BY Typing DEF Tick, Purge, clientVars
<1>2. \A k \in Keys : accessKeys[k] # None =>
          accessKeys[k].exp \in Int /\ accessKeys[k].val.exp \in Nat
    BY Typing DEF Entry, Persistent, Token
<1>3. ASSUME NEW k \in Keys PROVE AccessEntry(accessKeys[k])'
    BY <1>1, <1>2, Typing, AgeAssumption DEF AccessInv, AccessEntry
<1>4. ASSUME NEW u \in Threads PROVE UserSeen(req[u])'
    <2>1. req'[u] = req[u] /\ UserSeen(req[u]) /\ Shape(req[u])
        BY <1>1, Typing DEF AccessInv
    <2>2. req[u].pc \in LoginPcs \cup {"refreshSet"} => req[u].token.exp \in Nat
        BY <2>1 DEF Shape, Token
    <2>3. CASE req[u].pc \in {"viewSecret", "viewAccess"}
        <3>1. /\ req[u].key \in Keys /\ req[u].token.exp \in Nat
              /\ req[u].sess.refresh.exp \in Nat
            BY <2>1, <2>3 DEF Shape, PresentPcs, ApiPcs, Token, Session
        <3>2. /\ req[u].token.exp <= now' + ACCESS_AGE
              /\ now > req[u].token.exp => now' > req[u].token.exp
              /\ now > req[u].sess.refresh.exp => now' > req[u].sess.refresh.exp
            BY <1>1, <2>1, <2>3, <3>1, Typing, AgeAssumption DEF UserSeen
        <3>3. accessKeys[req[u].key] # None /\ Lasting(accessKeys[req[u].key], req[u].token.exp) =>
                  \/ now' > req[u].token.exp
                  \/ accessKeys'[req[u].key] = accessKeys[req[u].key]
            BY <1>1, <1>2, <3>1, Typing DEF Lasting, ExpiredAt
        <3> QED BY <1>1, <2>1, <2>3, <3>2, <3>3 DEF UserSeen, LoginPcs
    <2>4. CASE req[u].pc \notin {"viewSecret", "viewAccess"}
        BY <1>1, <2>1, <2>2, <2>4, Typing, AgeAssumption DEF UserSeen
    <2> QED BY <2>3, <2>4
<1> QED BY <1>3, <1>4 DEF AccessInv

\* Every step preserves AccessInv.
LEMMA NextAccess ==
    ASSUME TypeInv, TypeInv', IInv({}, {}), AccessInv, [Next]_vars
    PROVE  AccessInv'
<1>1. ASSUME NEW t \in Threads, Crash(t) PROVE AccessInv'
    BY <1>1, UserSeenIdle, AccessInvQuiet DEF Crash, storeVars, clientVars
<1>2. CASE UNCHANGED vars
    BY <1>2 DEF vars, AccessInv, UserSeen, AccessEntry
<1> QED BY <1>1, <1>2, LoginAccess, RefreshAccess, LogoutAccess, ApiAccess, TickAccess DEF Next

\* AccessInv holds in every reachable state.
LEMMA AccessInvariant ==
    ASSUME NoCollision
    PROVE  Spec => []AccessInv
<1>1. Init => AccessInv
    <2> SUFFICES ASSUME Init PROVE AccessInv
        OBVIOUS
    <2>1. \A t \in Threads : req[t] = Idle
        BY DEF Init
    <2>2. \A t \in Threads : UserSeen(req[t])
        BY <2>1 DEF UserSeen, Idle, LoginPcs
    <2> QED BY <2>2 DEF Init, AccessInv, AccessEntry
<1>2. TypeInv /\ TypeInv' /\ IInv({}, {}) /\ AccessInv /\ [Next]_vars => AccessInv'
    BY NextAccess
<1> QED BY <1>1, <1>2, Invariant, NoCollision, PTL DEF Spec

\* getUser finds no user in an admitted request only if the session was logged
\* out, or its access token or its refresh token expired, after the middleware
\* looked: the SET and EXPIRE of concurrent refreshes never hide the user.
THEOREM UserFoundUntilSessionEnd ==
    ASSUME NoCollision
    PROVE  Spec => UserLostOnlyAtSessionEnd
<1>1. ASSUME TypeInv, AccessInv, Next, NEW t \in Threads,
             ~At(t, "nouser"), req'[t].pc = "nouser"
      PROVE  \/ req[t].key \in loggedOut
             \/ now > req[t].token.exp
             \/ now > req[t].sess.refresh.exp
    <2>1. ViewGetAccess(t) /\ (req[t].secret = None \/ GetFrom(accessKeys, req[t].key) = None)
        BY <1>1, NoUserStep
    <2>2. req[t].pc = "viewAccess" /\ req[t].key \in Keys /\ UserSeen(req[t])
        BY <1>1, <2>1, Typing DEF ViewGetAccess, At, Shape, PresentPcs, ApiPcs, AccessInv
    <2>3. accessKeys[req[t].key] # None => GetFrom(accessKeys, req[t].key) # None
        <3>1. accessKeys[req[t].key] # None => accessKeys[req[t].key].val \in Token
            BY <1>1, <2>2, Typing DEF Entry
        <3> QED BY <3>1, NoneAssumption DEF GetFrom, Token
    <2> QED BY <2>1, <2>2, <2>3 DEF UserSeen
<1>2. TypeInv /\ AccessInv /\ [Next]_vars =>
          [\A t \in Threads :
              ~At(t, "nouser") /\ req'[t].pc = "nouser"
                  => \/ req[t].key \in loggedOut
                     \/ now > req[t].token.exp
                     \/ now > req[t].sess.refresh.exp]_vars
    BY <1>1
<1> QED BY <1>2, Invariant, AccessInvariant, NoCollision, PTL DEF Spec, UserLostOnlyAtSessionEnd
=============================================================================
