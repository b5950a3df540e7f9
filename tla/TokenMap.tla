------------------------------ MODULE TokenMap ------------------------------
(***************************************************************************)
(* The abstract token store as a state machine: what a client of Redis can *)
(* observe of the four commands users/TokenManager.py sends.  An entry is  *)
(* gone at the very tick at which it has expired, there is no second table *)
(* and no background activity.  RedisKeyspace implements it.               *)
(***************************************************************************)
EXTENDS TokenStore

CONSTANTS
    Keys,      \* the keys of the database
    Values,    \* the strings that are stored
    MaxTTL,    \* bound on the argument of EXPIRE
    MaxTime    \* bound on the clock

VARIABLES
    now,       \* the clock
    map,       \* map[k]: the entry of k
    reply      \* the last command and the server's reply to it

vars == <<now, map, reply>>

Init ==
    /\ now = 0
    /\ map = [k \in Keys |-> None]
    /\ reply = <<"none", None, None>>

\* r.set(key, value)
Set(k, v) ==
    /\ map' = SetIn(map, k, v)
    /\ reply' = <<"set", k, "OK">>
    /\ UNCHANGED now

\* r.expire(key, ttl)
Expire(k, ttl) ==
    /\ map' = ExpireIn(map, k, ttl, now)
    /\ reply' = <<"expire", k, IF ExistsIn(map, k) THEN "1" ELSE "0">>
    /\ UNCHANGED now

\* r.get(key)
Get(k) ==
    /\ reply' = <<"get", k, GetFrom(map, k)>>
    /\ UNCHANGED <<now, map>>

\* r.exists(key)
Exists(k) ==
    /\ reply' = <<"exists", k, IF ExistsIn(map, k) THEN "1" ELSE "0">>
    /\ UNCHANGED <<now, map>>

Tick ==
    /\ now < MaxTime
    /\ now' = now + 1
    /\ map' = Purge(map, now + 1)
    /\ UNCHANGED reply

Next ==
    \/ \E k \in Keys, v \in Values : Set(k, v)
    \/ \E k \in Keys, ttl \in 0..MaxTTL : Expire(k, ttl)
    \/ \E k \in Keys : Get(k) \/ Exists(k)
    \/ Tick

Spec == Init /\ [][Next]_vars

=============================================================================
