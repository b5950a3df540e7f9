----------------------------- MODULE TokenStore -----------------------------
(***************************************************************************)
(* What the token store promises to the web application: a map from keys   *)
(* to values in which an entry may carry the absolute time at which it     *)
(* disappears.  users/TokenManager.py reaches it through the commands SET, *)
(* EXPIRE, GET and EXISTS of the Redis server that is kept in the          *)
(* repository; module RedisKeyspace shows that Redis' dict/expires pair    *)
(* with lazy and active expiry behaves like this map.                      *)
(*                                                                         *)
(* The operators take the map and the time as arguments, so that the       *)
(* specifications that own those variables can share them.                 *)
(***************************************************************************)
EXTENDS Integers

CONSTANT None   \* Python's None: the nil reply, an absent entry, a missing cookie

\* The expiry of an entry that is never removed (getExpire's -1).
Persistent == -1

\* An entry of the map.
Entry(Val) == [val : Val, exp : Nat \cup {Persistent}]

\* SET k v: whatever was there, including its expiry, is replaced.
SetIn(map, k, v) == [map EXCEPT ![k] = [val |-> v, exp |-> Persistent]]

\* EXPIRE k ttl at time t: nothing happens to a missing key, a ttl that is
\* not in the future deletes the key at once.
ExpireIn(map, k, ttl, t) ==
    IF map[k] = None THEN map
    ELSE [map EXCEPT ![k] = IF ttl <= 0 THEN None
                            ELSE [val |-> map[k].val, exp |-> t + ttl]]

\* GET k and EXISTS k.
GetFrom(map, k) == IF map[k] = None THEN None ELSE map[k].val

ExistsIn(map, k) == map[k] # None

\* An entry is gone once the clock is past its expiry, and not before.
ExpiredAt(entry, t) ==
    /\ entry # None
    /\ entry.exp # Persistent
    /\ t > entry.exp

\* The map as it is seen when the clock shows t.
Purge(map, t) ==
    [k \in DOMAIN map |-> IF ExpiredAt(map[k], t) THEN None ELSE map[k]]

=============================================================================
