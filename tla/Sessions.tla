------------------------------ MODULE Sessions ------------------------------
(***************************************************************************)
(* Sessions of the web application: LoginView, RefreshToken and LogoutView *)
(* of users/views.py, the authentication middleware of users/middleware.py *)
(* and getUser of searchingApp/views.py, all working on the token store.   *)
(*                                                                         *)
(* A request is handled by a server thread, and every Redis command it     *)
(* issues is a step of its own: setValue is a SET followed by an EXPIRE,   *)
(* the middleware reads the secret and then the token, the view reads both *)
(* again.  So is every look at the clock that a later one may contradict:  *)
(* the two create_token calls of a login, jwt.decode and create_token in a *)
(* refresh.  Other threads, and the clock, run in between.  The only       *)
(* session data a client keeps are the two cookies of LoginView's response.*)
(*                                                                         *)
(* The keys key_name + "_secret" and key_name + "_access" of one Redis     *)
(* database are two maps here, indexed by key_name: the suffixes keep the  *)
(* two families of keys apart.  The unit of time is a parameter; the ages  *)
(* are in that unit.                                                       *)
(***************************************************************************)
EXTENDS TokenStore

CONSTANTS
    Users,         \* e-mail addresses of registered users
    Clients,       \* browsers or API programs
    Keys,          \* the values generateRandomKey() can return for a key_name
    Secrets,       \* the values generateRandomKey() can return for a secret_key
    Threads,       \* server threads: the requests handled at the same time
    ACCESS_AGE,    \* ACCESS_AGE_MINUTES
    REFRESH_AGE,   \* REFRESH_AGE_MINUTES
    MaxTime,       \* bound on the clock
    Faults         \* subset of {"crash", "collision"}

ASSUME AgeAssumption ==
    /\ ACCESS_AGE \in Nat \ {0}
    /\ REFRESH_AGE \in Nat \ {0}
    /\ MaxTime \in Nat

ASSUME NoneAssumption ==
    /\ None \notin Users \cup Clients \cup Keys \cup Secrets
    /\ None \notin [id : Users, secret : Secrets, exp : Nat, pause : Int]
    /\ None \notin Entry(Secrets)
    /\ None \notin Entry([id : Users, secret : Secrets, exp : Nat, pause : Int])
    /\ None \notin [key : Keys, refresh : [id : Users, secret : Secrets, exp : Nat, pause : Int]]

VARIABLES
    now,           \* the clock
    secretKeys,    \* secretKeys[k]: the store's entry for k + "_secret"
    accessKeys,    \* accessKeys[k]: the store's entry for k + "_access"
    drawn,         \* every string generateRandomKey() has returned so far
    held,          \* held[c]: the sessions whose cookies client c can present
    issued,        \* history: every session LoginView has answered with
    loggedOut,     \* history: the keys whose secret a logout has removed
    req            \* req[t]: the request thread t is handling

vars == <<now, secretKeys, accessKeys, drawn, held, issued, loggedOut, req>>
storeVars == <<secretKeys, accessKeys>>
clientVars == <<held, issued, loggedOut>>

-----------------------------------------------------------------------------
(* Tokens, sessions and requests *)

\* A JSON web token: its claims and the key it is signed with.  The field pause
\* is history: how long the refresh that created an access token had taken since
\* it verified the refresh token.
Token == [id : Users, secret : Secrets, exp : Nat, pause : Int]

\* Mutation: the age is subtracted.
CreateTokenInThePast(id, secret, age) ==
    [id |-> id, secret |-> secret, exp |-> now - age, pause |-> 0]

\* create_token(user_id, secret_key, age_limit)
CreateToken(id, secret, age) ==
    [id |-> id, secret |-> secret, exp |-> now + age, pause |-> 0]

\* Mutation: the signature is not verified.
DecodesUnverified(token, secret) == token # None /\ secret # None /\ now <= token.exp

\* Mutation: "exp" is not verified.
DecodesExpired(token, secret) == token # None /\ secret # None /\ token.secret = secret

\* jwt.decode(token, secret_key) returns the payload; otherwise it raises,
\* for a missing key, a wrong signature or a passed "exp".
Decodes(token, secret) ==
    /\ token # None
    /\ secret # None
    /\ token.secret = secret
    /\ now <= token.exp

\* The cookies "jwt" and "refresh" that LoginView sets.
Session == [key : Keys, refresh : Token]

\* The place of a request in the code: what it does next, a look at the clock
\* or a Redis command.
LoginPcs == {"createRefresh", "pick", "setAccess", "expireAccess", "setSecret",
             "expireSecret", "issue"}
RefreshPcs == {"refreshDecode", "refreshCreate", "refreshSet", "refreshExpire"}
ApiPcs == {"mwAccess", "viewSecret", "viewAccess", "served", "nouser"}
Pc == {"idle", "logoutAccess"} \cup LoginPcs \cup RefreshPcs \cup ApiPcs

Request == [pc      : Pc,
            client  : Clients \cup {None},
            sess    : Session \cup {None},   \* the session whose key_name is presented
            key     : Keys \cup {None},      \* key_name
            refresh : Token \cup {None},     \* the refresh token created or presented
            secret  : Secrets \cup {None},   \* secret_key as last read
            token   : Token \cup {None},     \* the access token created or last read
            checked : Nat,                   \* history: when RefreshToken decoded refresh
            late    : BOOLEAN]               \* began after a logout of key_name

Idle == [pc |-> "idle", client |-> None, sess |-> None, key |-> None,
         refresh |-> None, secret |-> None, token |-> None, checked |-> 0,
         late |-> FALSE]

\* A request of client c that presents key_name of session s, after its first
\* Redis command.
Presents(p, c, s, refresh, secret) ==
    [Idle EXCEPT !.pc = p, !.client = c, !.sess = s, !.key = s.key,
                 !.refresh = refresh, !.secret = secret, !.late = s.key \in loggedOut]

\* generateRandomKey(): 46^10 strings, so that a repetition counts as a fault.
RandomKey(S) == IF "collision" \in Faults THEN S ELSE S \ drawn

At(t, p) == req[t].pc = p
Become(t, request) == req' = [req EXCEPT ![t] = request]
Goto(t, p) == Become(t, [req[t] EXCEPT !.pc = p])

Init ==
    /\ now = 0
    /\ secretKeys = [k \in Keys |-> None]
    /\ accessKeys = [k \in Keys |-> None]
    /\ drawn = {}
    /\ held = [c \in Clients |-> {}]
    /\ issued = {}
    /\ loggedOut = {}
    /\ req = [t \in Threads |-> Idle]

-----------------------------------------------------------------------------
(* LoginView.post, for credentials that check_password accepts.  The other *)
(* paths answer 401 and touch nothing of this state.                       *)

\* secret_key is drawn, and access_token is dated and signed with it.
LoginCreateAccess(t, c, u) ==
    /\ At(t, "idle")
    /\ \E s \in RandomKey(Secrets) :
        /\ drawn' = drawn \cup {s}
        /\ Become(t, [Idle EXCEPT !.pc = "createRefresh", !.client = c,
                                  !.token = CreateToken(u, s, ACCESS_AGE)])
    /\ UNCHANGED <<now, storeVars, clientVars>>

\* refresh_token is dated, before the key is chosen and anything is stored.
LoginCreateRefresh(t) ==
    LET refresh == CreateToken(req[t].token.id, req[t].token.secret, REFRESH_AGE) IN
    /\ At(t, "createRefresh")
    /\ Become(t, [req[t] EXCEPT !.pc = "pick", !.refresh = refresh])
    /\ UNCHANGED <<now, storeVars, drawn, clientVars>>

\* while checkForExistence(key_name + "_secret"): another key_name
LoginPickKey(t) ==
    /\ At(t, "pick")
    /\ \E k \in RandomKey(Keys) :
        /\ drawn' = drawn \cup {k}
        /\ IF ExistsIn(secretKeys, k)
           THEN UNCHANGED req
           ELSE Become(t, [req[t] EXCEPT !.pc = "setAccess", !.key = k])
    /\ UNCHANGED <<now, storeVars, clientVars>>

\* setValue(access_key, access_token, ...): r.set
LoginSetAccess(t) ==
    /\ At(t, "setAccess")
    /\ accessKeys' = SetIn(accessKeys, req[t].key, req[t].token)
    /\ Goto(t, "expireAccess")
    /\ UNCHANGED <<now, secretKeys, drawn, clientVars>>

\* setValue(access_key, ...): r.expire
LoginExpireAccess(t) ==
    /\ At(t, "expireAccess")
    /\ accessKeys' = ExpireIn(accessKeys, req[t].key, ACCESS_AGE, now)
    /\ Goto(t, "setSecret")
    /\ UNCHANGED <<now, secretKeys, drawn, clientVars>>

\* setValue(key_name + "_secret", secret_key, ...): r.set
LoginSetSecret(t) ==
    /\ At(t, "setSecret")
    /\ secretKeys' = SetIn(secretKeys, req[t].key, req[t].refresh.secret)
    /\ Goto(t, "expireSecret")
    /\ UNCHANGED <<now, accessKeys, drawn, clientVars>>

\* Mutation: the secret lives one unit less than the refresh token.
LoginExpireSecretEarly(t) ==
    /\ At(t, "expireSecret")
    /\ secretKeys' = ExpireIn(secretKeys, req[t].key, REFRESH_AGE - 1, now)
    /\ Goto(t, "issue")
    /\ UNCHANGED <<now, accessKeys, drawn, clientVars>>

\* setValue(key_name + "_secret", ...): r.expire
LoginExpireSecret(t) ==
    /\ At(t, "expireSecret")
    /\ secretKeys' = ExpireIn(secretKeys, req[t].key, REFRESH_AGE, now)
    /\ Goto(t, "issue")
    /\ UNCHANGED <<now, accessKeys, drawn, clientVars>>

\* The response carries both cookies to the client.
LoginRespond(t) ==
    LET s == [key |-> req[t].key, refresh |-> req[t].refresh] IN
    /\ At(t, "issue")
    /\ held' = [held EXCEPT ![req[t].client] = @ \cup {s}]
    /\ issued' = issued \cup {s}
    /\ Become(t, Idle)
    /\ UNCHANGED <<now, storeVars, drawn, loggedOut>>

-----------------------------------------------------------------------------
(* RefreshToken.post.  A request without one of the cookies is answered    *)
(* 401; the two cookies need not stem from the same login.                 *)

\* getValue(key_name + "_secret")
RefreshGetSecret(t, c) ==
    /\ At(t, "idle")
    /\ \E s, s2 \in held[c] :
        Become(t, Presents("refreshDecode", c, s, s2.refresh, GetFrom(secretKeys, s.key)))
    /\ UNCHANGED <<now, storeVars, drawn, clientVars>>

\* jwt.decode(token, secret_key): the payload, or an exception
RefreshDecode(t) ==
    /\ At(t, "refreshDecode")
    /\ IF Decodes(req[t].refresh, req[t].secret)
       THEN Become(t, [req[t] EXCEPT !.pc = "refreshCreate", !.checked = now])
       ELSE Become(t, Idle)
    /\ UNCHANGED <<now, storeVars, drawn, clientVars>>

\* The token that create_token(payload['id'], secret_key, ...) returns now.
RefreshedToken(t) ==
    [CreateToken(req[t].refresh.id, req[t].secret, ACCESS_AGE)
        EXCEPT !.pause = now - req[t].checked]

\* access_token = create_token(...): it is dated when it is created, which may
\* be later than the moment at which the refresh token was verified
RefreshCreateToken(t) ==
    /\ At(t, "refreshCreate")
    /\ Become(t, [req[t] EXCEPT !.pc = "refreshSet", !.token = RefreshedToken(t),
                                !.checked = 0])
    /\ UNCHANGED <<now, storeVars, drawn, clientVars>>

\* setValue(key_name + "_access", access_token, ...): r.set
RefreshSetAccess(t) ==
    /\ At(t, "refreshSet")
    /\ accessKeys' = SetIn(accessKeys, req[t].key, req[t].token)
    /\ Goto(t, "refreshExpire")
    /\ UNCHANGED <<now, secretKeys, drawn, clientVars>>

\* Mutation: the entry lives one unit less than the token.
RefreshExpireAccessEarly(t) ==
    /\ At(t, "refreshExpire")
    /\ accessKeys' = ExpireIn(accessKeys, req[t].key, ACCESS_AGE - 1, now)
    /\ Become(t, Idle)
    /\ UNCHANGED <<now, secretKeys, drawn, clientVars>>

\* r.expire, and the response
RefreshExpireAccess(t) ==
    /\ At(t, "refreshExpire")
    /\ accessKeys' = ExpireIn(accessKeys, req[t].key, ACCESS_AGE, now)
    /\ Become(t, Idle)
    /\ UNCHANGED <<now, secretKeys, drawn, clientVars>>

-----------------------------------------------------------------------------
(* LogoutView.post *)

\* Mutation: logout drops the access token only.
LogoutKeepsSecret(t, c) ==
    /\ At(t, "idle")
    /\ \E s \in held[c] :
        /\ loggedOut' = loggedOut \cup {s.key}
        /\ Become(t, Presents("logoutAccess", c, s, None, None))
    /\ UNCHANGED <<now, storeVars, drawn, held, issued>>

\* scheduleExpire(key_name + "_secret", 0)
LogoutExpireSecret(t, c) ==
    /\ At(t, "idle")
    /\ \E s \in held[c] :
        /\ secretKeys' = ExpireIn(secretKeys, s.key, 0, now)
        /\ loggedOut' = loggedOut \cup {s.key}
        /\ Become(t, Presents("logoutAccess", c, s, None, None))
    /\ UNCHANGED <<now, accessKeys, drawn, held, issued>>

\* scheduleExpire(key_name + "_access", 0), and the response: a browser obeys
\* delete_cookie, a client that kept the values of the login response need not.
LogoutExpireAccess(t) ==
    /\ At(t, "logoutAccess")
    /\ accessKeys' = ExpireIn(accessKeys, req[t].key, 0, now)
    /\ \/ held' = [held EXCEPT ![req[t].client] = @ \ {req[t].sess}]
       \/ UNCHANGED held
    /\ Become(t, Idle)
    /\ UNCHANGED <<now, secretKeys, drawn, issued, loggedOut>>

-----------------------------------------------------------------------------
(* A request for one of the search endpoints: the middleware's             *)
(* process_request, then the view.  Without the cookie it raises.          *)

\* middleware: secret_key = getValue(key_name + "_secret")
MiddlewareGetSecret(t, c) ==
    /\ At(t, "idle")
    /\ \E s \in held[c] :
        Become(t, Presents("mwAccess", c, s, None, GetFrom(secretKeys, s.key)))
    /\ UNCHANGED <<now, storeVars, drawn, clientVars>>

\* middleware: token = getValue(key_name + "_access") and jwt.decode.  The
\* views that call getUser go on to it; textSearch and videosWithDateFilter
\* serve the request without looking the user up.
MiddlewareGetAccess(t) ==
    LET token == GetFrom(accessKeys, req[t].key) IN
    /\ At(t, "mwAccess")
    /\ IF Decodes(token, req[t].secret)
       THEN \E p \in {"viewSecret", "served"} :
               Become(t, [req[t] EXCEPT !.pc = p, !.token = token])
       ELSE Become(t, Idle)
    /\ UNCHANGED <<now, storeVars, drawn, clientVars>>

\* getUser: secret_key = getValue(key_name + "_secret")
ViewGetSecret(t) ==
    /\ At(t, "viewSecret")
    /\ Become(t, [req[t] EXCEPT !.pc = "viewAccess",
                                !.secret = GetFrom(secretKeys, req[t].key)])
    /\ UNCHANGED <<now, storeVars, drawn, clientVars>>

\* getUser: token = getValue(key_name + "_access"), then None, an exception,
\* or the user named by the payload
ViewGetAccess(t) ==
    LET token == GetFrom(accessKeys, req[t].key) IN
    /\ At(t, "viewAccess")
    /\ IF req[t].secret = None \/ token = None
       THEN Goto(t, "nouser")
       ELSE IF Decodes(token, req[t].secret)
            THEN Become(t, [req[t] EXCEPT !.pc = "served", !.token = token])
            ELSE Become(t, Idle)
    /\ UNCHANGED <<now, storeVars, drawn, clientVars>>

\* The view has answered.
EndRequest(t) ==
    /\ req[t].pc \in {"served", "nouser"}
    /\ Become(t, Idle)
    /\ UNCHANGED <<now, storeVars, drawn, clientVars>>

-----------------------------------------------------------------------------
(* The environment *)

\* Time passes; the store drops what has expired.
Tick ==
    /\ now < MaxTime
    /\ now' = now + 1
    /\ secretKeys' = Purge(secretKeys, now + 1)
    /\ accessKeys' = Purge(accessKeys, now + 1)
    /\ UNCHANGED <<drawn, clientVars, req>>

\* A request ends between two Redis commands: the process is killed, or the
\* client library raises ConnectionError.  What it has written stays.
Crash(t) ==
    /\ "crash" \in Faults
    /\ req[t].pc \notin {"idle", "served", "nouser"}
    /\ Become(t, Idle)
    /\ UNCHANGED <<now, storeVars, drawn, clientVars>>

Login(t) ==
    \/ \E c \in Clients, u \in Users : LoginCreateAccess(t, c, u)
    \/ LoginCreateRefresh(t)
    \/ LoginPickKey(t)
    \/ LoginSetAccess(t)
    \/ LoginExpireAccess(t)
    \/ LoginSetSecret(t)
    \/ LoginExpireSecret(t)
    \/ LoginRespond(t)

Refresh(t) ==
    \/ \E c \in Clients : RefreshGetSecret(t, c)
    \/ RefreshDecode(t)
    \/ RefreshCreateToken(t)
    \/ RefreshSetAccess(t)
    \/ RefreshExpireAccess(t)

Logout(t) ==
    \/ \E c \in Clients : LogoutExpireSecret(t, c)
    \/ LogoutExpireAccess(t)

Api(t) ==
    \/ \E c \in Clients : MiddlewareGetSecret(t, c)
    \/ MiddlewareGetAccess(t)
    \/ ViewGetSecret(t)
    \/ ViewGetAccess(t)
    \/ EndRequest(t)

Next ==
    \/ \E t \in Threads : Login(t) \/ Refresh(t) \/ Logout(t) \/ Api(t) \/ Crash(t)
    \/ Tick

Spec == Init /\ [][Next]_vars

-----------------------------------------------------------------------------
(* Properties *)

\* The variables have the types the comments at their declaration give.
TypeOK ==
    /\ now \in Nat
    /\ secretKeys \in [Keys -> Entry(Secrets) \cup {None}]
    /\ accessKeys \in [Keys -> Entry(Token) \cup {None}]
    /\ drawn \subseteq Keys \cup Secrets
    /\ held \in [Clients -> SUBSET Session]
    /\ issued \subseteq Session
    /\ loggedOut \subseteq Keys
    /\ req \in [Threads -> Request]

\* The request of thread t got past jwt.decode in the middleware or in
\* RefreshToken.
Admitted(t) ==
    req[t].pc \in {"viewSecret", "viewAccess", "served", "nouser",
                   "refreshCreate", "refreshSet", "refreshExpire"}

\* LogoutView is effective at once and for good: a request that begins after
\* the logout of its key_name is neither admitted by the middleware nor able
\* to refresh the access token, whatever refreshes were under way.
NoServiceAfterLogout == \A t \in Threads : req[t].late => ~Admitted(t)

\* A request that presents the key_name of a session is served as the user
\* who logged that session in (middleware, getUser), also when the same
\* client mixes the cookies of two logins in a refresh.
SessionIsolation ==
    \A t \in Threads : At(t, "served") => req[t].token.id = req[t].sess.refresh.id

\* Until its refresh token expires, a session that nobody logged out can be
\* refreshed: the secret that signed the token is still stored (the order of
\* create_token and setValue in LoginView).
SessionRefreshable ==
    \A s \in issued :
        s.key \notin loggedOut /\ now <= s.refresh.exp
            => GetFrom(secretKeys, s.key) = s.refresh.secret

\* A session ends: after its refresh token expired a request is served for no
\* longer than the age of an access token, plus the time that passed, in the
\* refresh that created the token it is served with, between jwt.decode of the
\* refresh token and create_token.  RefreshToken dates the new token by a second
\* look at the clock, so that a thread held up there extends the session by as
\* much, and nothing else does: not the number of refreshes, not a late SET that
\* replaces a newer token, not a thread that dies before the EXPIRE of setValue.
ServedWithinLifetime ==
    [][\A t \in Threads :
          ~At(t, "served") /\ req'[t].pc = "served"
              => now <= req'[t].sess.refresh.exp + req'[t].token.pause + ACCESS_AGE]_vars

\* getUser finds no user in a request that the middleware has admitted only if
\* the session was logged out, or its access token or its refresh token
\* expired, between the two looks at the store; in particular the SET/EXPIRE
\* of a concurrent refresh never hides the user.
UserLostOnlyAtSessionEnd ==
    [][\A t \in Threads :
          ~At(t, "nouser") /\ req'[t].pc = "nouser"
              => \/ req[t].key \in loggedOut
                 \/ now > req[t].token.exp
                 \/ now > req[t].sess.refresh.exp]_vars

=============================================================================
