--------------------------- MODULE RedisKeyspace ---------------------------
(***************************************************************************)
(* The part of the Redis server (db.c, expire.c, t_string.c) behind        *)
(* users/TokenManager.py: a database is a dict of values and a second dict *)
(* of expire times.  A key whose time has passed stays in both until a     *)
(* command looks it up (expireIfNeeded) or the active expire cycle reaches *)
(* it; the cycle walks over the buckets with a cursor and does a bounded   *)
(* amount of work each time it runs.                                       *)
(*                                                                         *)
(* The server executes commands and cycles one at a time, on one thread,   *)
(* and reads the clock once per command.  It is a master, it is neither    *)
(* loading nor paused, and all keys hold strings, as the application uses  *)
(* it.  Key k sits in bucket k of the expires table.                       *)
(***************************************************************************)
EXTENDS TokenStore

CONSTANTS
    NKeys,     \* the number of keys, and of buckets
    Values,    \* the strings that are stored
    MaxScan,   \* the most buckets one call of the active cycle scans
    MaxTTL,    \* bound on the argument of EXPIRE
    MaxTime    \* bound on the clock

ASSUME KeyspaceAssumption ==
    /\ NKeys \in Nat \ {0}
    /\ MaxScan \in 1..NKeys
    /\ MaxTTL \in Nat
    /\ MaxTime \in Nat
    /\ None \notin Values
    /\ None \notin Nat
    /\ None \notin Entry(Values)

Keys == 0..(NKeys - 1)

VARIABLES
    now,       \* mstime()
    dict,      \* dict[k]: the value of k in db->dict, or None
    expires,   \* expires[k]: the time of k in db->expires, or None
    cursor,    \* db->expires_cursor, modulo the size of the table
    reply      \* the last command and the reply to it

vars == <<now, dict, expires, cursor, reply>>

\* A database: the values of the two tables.
Db == [dict |-> dict, expires |-> expires]
Become(db) == dict' = db.dict /\ expires' = db.expires

Init ==
    /\ now = 0
    /\ dict = [k \in Keys |-> None]
    /\ expires = [k \in Keys |-> None]
    /\ cursor = 0
    /\ reply = <<"none", None, None>>

-----------------------------------------------------------------------------
(* db.c: the tables *)

\* Mutation: the expire time stays behind.
DbDeleteDictOnly(db, k) == [dict    |-> [db.dict EXCEPT ![k] = None],
                            expires |-> db.expires]

\* dbSyncDelete: the entry leaves both tables.
DbDelete(db, k) == [dict    |-> [db.dict EXCEPT ![k] = None],
                    expires |-> [db.expires EXCEPT ![k] = None]]

\* dbAdd and dbOverwrite leave the same table behind.
DbSet(db, k, v) == [dict    |-> [db.dict EXCEPT ![k] = v],
                    expires |-> db.expires]

RemoveExpire(db, k) == [dict    |-> db.dict,
                        expires |-> [db.expires EXCEPT ![k] = None]]

SetExpire(db, k, when) == [dict    |-> db.dict,
                           expires |-> [db.expires EXCEPT ![k] = when]]

KeyIsExpired(db, k) == db.expires[k] # None /\ now > db.expires[k]

\* expireIfNeeded: every lookup, for reading or writing, starts with it.
ExpireIfNeeded(db, k) == IF KeyIsExpired(db, k) THEN DbDelete(db, k) ELSE db

LookupKey(db, k) == db.dict[k]

\* Mutation: as with keepttl.
GenericSetKeyKeepTtl(db, k, v) == DbSet(ExpireIfNeeded(db, k), k, v)

\* genericSetKey without keepttl: an old expire time is dropped.
GenericSetKey(db, k, v) == RemoveExpire(DbSet(ExpireIfNeeded(db, k), k, v), k)

-----------------------------------------------------------------------------
(* The commands *)

\* SET key value, without options
SetCommand(k, v) ==
    /\ Become(GenericSetKey(Db, k, v))
    /\ reply' = <<"set", k, "OK">>
    /\ UNCHANGED <<now, cursor>>

\* GET key
GetCommand(k) ==
    LET db == ExpireIfNeeded(Db, k) IN
    /\ Become(db)
    /\ reply' = <<"get", k, LookupKey(db, k)>>
    /\ UNCHANGED <<now, cursor>>

\* EXISTS key
ExistsCommand(k) ==
    LET db == ExpireIfNeeded(Db, k) IN
    /\ Become(db)
    /\ reply' = <<"exists", k, IF LookupKey(db, k) # None THEN "1" ELSE "0">>
    /\ UNCHANGED <<now, cursor>>

\* EXPIRE key ttl: a time that is not in the future deletes the key.
ExpireCommand(k, ttl) ==
    LET db == ExpireIfNeeded(Db, k)
        when == now + ttl IN
    /\ IF LookupKey(db, k) = None
       THEN /\ Become(db)
            /\ reply' = <<"expire", k, "0">>
       ELSE /\ IF when <= now THEN Become(DbDelete(db, k)) ELSE Become(SetExpire(db, k, when))
            /\ reply' = <<"expire", k, "1">>
    /\ UNCHANGED <<now, cursor>>

-----------------------------------------------------------------------------
(* expire.c: the active cycle *)

\* activeExpireCycleTryExpire, for the keys in S
TryExpire(db, S) ==
    LET gone == {k \in S : KeyIsExpired(db, k)} IN
    [dict    |-> [k \in Keys |-> IF k \in gone THEN None ELSE db.dict[k]],
     expires |-> [k \in Keys |-> IF k \in gone THEN None ELSE db.expires[k]]]

\* Mutation: the cursor does not wrap around.
ActiveExpireCycleRunaway ==
    /\ \E k \in Keys : expires[k] # None
    /\ cursor < NKeys
    /\ cursor' = cursor + 1
    /\ UNCHANGED <<now, dict, expires, reply>>

\* Mutation: every cycle starts at the first bucket.
ActiveExpireCycleStuck ==
    /\ \E k \in Keys : expires[k] # None
    /\ \E n \in 1..MaxScan : Become(TryExpire(Db, 0..(n - 1)))
    /\ UNCHANGED <<now, cursor, reply>>

\* One call: if any key has an expire time, it scans some buckets from the
\* cursor on, which stays behind the last one, and deletes what has expired.
\* How many is a matter of the samples and of the time limit.
ActiveExpireCycle ==
    /\ \E k \in Keys : expires[k] # None
    /\ \E n \in 1..MaxScan :
        /\ Become(TryExpire(Db, {(cursor + i) % NKeys : i \in 0..(n - 1)}))
        /\ cursor' = (cursor + n) % NKeys
    /\ UNCHANGED <<now, reply>>

Tick ==
    /\ now < MaxTime
    /\ now' = now + 1
    /\ UNCHANGED <<dict, expires, cursor, reply>>

Next ==
    \/ \E k \in Keys, v \in Values : SetCommand(k, v)
    \/ \E k \in Keys : GetCommand(k)
    \/ \E k \in Keys : ExistsCommand(k)
    \/ \E k \in Keys, ttl \in 0..MaxTTL : ExpireCommand(k, ttl)
    \/ ActiveExpireCycle
    \/ Tick

Spec == Init /\ [][Next]_vars

\* serverCron runs the slow cycle server.hz times a second.
FairSpec == Spec /\ WF_vars(ActiveExpireCycle)

-----------------------------------------------------------------------------
(* Properties *)

\* The variables have the types the comments at their declaration give.
TypeOK ==
    /\ now \in Nat
    /\ dict \in [Keys -> Values \cup {None}]
    /\ expires \in [Keys -> Nat \cup {None}]
    /\ cursor \in Keys
    /\ reply \in {"none", "set", "get", "exists", "expire"}
                  \X (Keys \cup {None}) \X (Values \cup {None, "OK", "0", "1"})

\* A key of the expires table is in the main table: getExpire and
\* removeExpire abort the server otherwise.
ExpiresInDict == \A k \in Keys : expires[k] # None => dict[k] # None

\* What the clients can observe: a key in the tables counts only until its
\* time has passed.
VisibleEntry(k) ==
    IF dict[k] = None \/ KeyIsExpired(Db, k) THEN None
    ELSE [val |-> dict[k], exp |-> IF expires[k] = None THEN Persistent ELSE expires[k]]

visible == [k \in Keys |-> VisibleEntry(k)]

Abstract == INSTANCE TokenMap WITH map <- visible

\* Lazy and active expiry cannot be told from entries that disappear at the
\* tick at which they expire: no reply ever shows an expired value, and none
\* misses one that has not expired.
ImplementsTokenMap == Abstract!Spec

\* "keys are eventually removed when expired even if no access is performed on
\* them" (the comment of activeExpireCycle).
ExpiredKeysReclaimed ==
    \A k \in Keys : KeyIsExpired(Db, k) ~> ~KeyIsExpired(Db, k)

=============================================================================
