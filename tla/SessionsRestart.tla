-------------------------- MODULE SessionsRestart --------------------------
(***************************************************************************)
(* The sessions of module Sessions when the Redis server stops without a   *)
(* save and is started again: the token store goes back to the latest dump *)
(* (module RedisPersistence), less what has expired since, in the middle   *)
(* of whatever the server threads are doing.  A thread's next command then *)
(* works on the restored keys, or raises ConnectionError (Crash).          *)
(*                                                                         *)
(* A dump holds the keys as they were when the child that wrote it was     *)
(* forked; a dump that is not complete by the time of the restart does not *)
(* count.                                                                  *)
(***************************************************************************)
EXTENDS Sessions

CONSTANT MaxRestarts   \* bound on the restarts of the Redis server

ASSUME RestartAssumption == MaxRestarts \in Nat

VARIABLES
    dump,       \* the keys in dump.rdb
    restarts,   \* the number of restarts so far
    revived,    \* history: keys a restart has brought back after their logout
    lost        \* history: keys whose secret a restart has taken away or replaced

restartVars == <<dump, restarts, revived, lost>>

\* The keys of the database.
Store(secrets, tokens) == [secrets |-> secrets, tokens |-> tokens]

RestartInit ==
    /\ Init
    /\ dump = Store([k \in Keys |-> None], [k \in Keys |-> None])
    /\ restarts = 0
    /\ revived = {}
    /\ lost = {}

\* A save of which the dump will be used.
SaveDump ==
    /\ restarts < MaxRestarts
    /\ dump' = Store(secretKeys, accessKeys)
    /\ UNCHANGED <<vars, restarts, revived, lost>>

\* rdbLoadRio: a key keeps the expire time it was saved with, and one whose
\* time has passed is not loaded.
Loaded(map) == Purge(map, now)

\* The server is killed and comes back.
RestartRedis ==
    /\ restarts < MaxRestarts
    /\ restarts' = restarts + 1
    /\ secretKeys' = Loaded(dump.secrets)
    /\ accessKeys' = Loaded(dump.tokens)
    /\ revived' = revived \cup {k \in loggedOut : ExistsIn(secretKeys', k)}
    /\ lost' = lost \cup {k \in Keys : GetFrom(secretKeys, k) \notin {None, GetFrom(secretKeys', k)}}
    /\ UNCHANGED <<now, drawn, clientVars, req, dump>>

RestartNext ==
    \/ Next /\ UNCHANGED restartVars
    \/ SaveDump
    \/ RestartRedis

RestartSpec == RestartInit /\ [][RestartNext]_<<vars, restartVars>>

-----------------------------------------------------------------------------
(* Properties *)

\* A logout holds for good unless the Redis server is restarted from a dump
\* that is older than the logout: only then can a later request with the same
\* key_name be admitted, or refresh the access token.
RevivedOnlyByRestart ==
    \A t \in Threads : req[t].late /\ Admitted(t) => req[t].key \in revived

\* A session that is neither logged out nor expired can be refreshed unless a
\* restart took its secret away, which may happen before LoginView has
\* answered; a secret that the dump has is as good as before.
RefreshableUnlessLost ==
    \A s \in issued :
        s.key \notin loggedOut \cup lost /\ now <= s.refresh.exp
            => GetFrom(secretKeys, s.key) = s.refresh.secret

=============================================================================
