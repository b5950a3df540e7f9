------------------------ MODULE RedisKeyspaceProofs ------------------------
(***************************************************************************)
(* Proofs about RedisKeyspace, for any number of keys: the two tables stay *)
(* consistent, and with lazy and active expiry they implement the map of   *)
(* TokenMap that Sessions is built on.                                     *)
(***************************************************************************)
EXTENDS RedisKeyspace, TLAPS

\* The typing of the tables as far as the refinement needs it.
TablesOK ==
    /\ now \in Nat
    /\ dict \in [Keys -> Values \cup {None}]
    /\ expires \in [Keys -> Nat \cup {None}]

-----------------------------------------------------------------------------
(* What each operation does to the tables, key by key. *)

\* expireIfNeeded removes the key from both tables, or does nothing.
LEMMA ExpireIfNeededTables ==
    ASSUME TablesOK, NEW k \in Keys
    PROVE  LET db == ExpireIfNeeded(Db, k)
           IN  \/ KeyIsExpired(Db, k) /\ db.dict = [dict EXCEPT ![k] = None]
                                       /\ db.expires = [expires EXCEPT ![k] = None]
               \/ ~KeyIsExpired(Db, k) /\ db.dict = dict /\ db.expires = expires
BY DEF ExpireIfNeeded, DbDelete, Db

\* SET leaves a key with its value and without an expire time.
LEMMA SetTables ==
    ASSUME TablesOK, NEW k \in Keys, NEW v \in Values, SetCommand(k, v)
    PROVE  dict' = [dict EXCEPT ![k] = v] /\ expires' = [expires EXCEPT ![k] = None]
<1> DEFINE db == ExpireIfNeeded(Db, k)
<1>1. dict' = [db.dict EXCEPT ![k] = v] /\ expires' = [db.expires EXCEPT ![k] = None]
    BY DEF SetCommand, Become, GenericSetKey, RemoveExpire, DbSet
<1> HIDE DEF db
<1> QED BY <1>1, ExpireIfNeededTables DEF TablesOK, db

\* The visible entry of a key as a function of the variables.
LEMMA VisibleAt ==
    ASSUME NEW k \in Keys
    PROVE  visible[k] = IF dict[k] = None \/ (expires[k] # None /\ now > expires[k]) THEN None
                        ELSE [val |-> dict[k],
                              exp |-> IF expires[k] = None THEN Persistent ELSE expires[k]]
BY DEF visible, VisibleEntry, KeyIsExpired, Db

\* The same in the next state.
LEMMA VisibleAtPrime ==
    ASSUME NEW k \in Keys
    PROVE  visible'[k] =
             IF dict'[k] = None \/ (expires'[k] # None /\ now' > expires'[k]) THEN None
             ELSE [val |-> dict'[k],
                   exp |-> IF expires'[k] = None THEN Persistent ELSE expires'[k]]
BY DEF visible, VisibleEntry, KeyIsExpired, Db

\* A step after which every key looks as before does not change the map.
LEMMA VisibleSame ==
    ASSUME \A k \in Keys : visible'[k] = visible[k]
    PROVE  visible' = visible
BY DEF visible

\* A lookup removes nothing that can be seen, and finds what can be seen.
LEMMA LookupTables ==
    ASSUME TablesOK, NEW k \in Keys, now' = now,
           dict' = ExpireIfNeeded(Db, k).dict, expires' = ExpireIfNeeded(Db, k).expires
    PROVE  /\ visible' = visible
           /\ LookupKey(ExpireIfNeeded(Db, k), k) = Abstract!GetFrom(visible, k)
           /\ LookupKey(ExpireIfNeeded(Db, k), k) # None <=> visible[k] # None
<1>1. \/ /\ expires[k] # None /\ now > expires[k]
         /\ dict' = [dict EXCEPT ![k] = None]
         /\ expires' = [expires EXCEPT ![k] = None]
      \/ /\ ~(expires[k] # None /\ now > expires[k])
         /\ dict' = dict /\ expires' = expires
    BY ExpireIfNeededTables DEF KeyIsExpired, Db
<1>2. ASSUME NEW l \in Keys PROVE visible'[l] = visible[l]
    <2>1. \/ dict'[l] = dict[l] /\ expires'[l] = expires[l]
          \/ dict'[l] = None /\ expires[l] # None /\ now > expires[l]
        BY <1>1 DEF TablesOK
    <2>2. CASE dict'[l] = dict[l] /\ expires'[l] = expires[l]
        BY <2>2, VisibleAt, VisibleAtPrime
    <2>3. CASE dict'[l] = None /\ expires[l] # None /\ now > expires[l]
        BY <2>3, VisibleAt, VisibleAtPrime
    <2> QED BY <2>1, <2>2, <2>3
<1>3. LookupKey(ExpireIfNeeded(Db, k), k) = dict'[k]
    BY DEF LookupKey
<1>4. ASSUME visible[k] # None PROVE dict'[k] = visible[k].val /\ dict'[k] # None
    <2>1. dict[k] # None /\ ~(expires[k] # None /\ now > expires[k])
        BY <1>4, VisibleAt
    <2>2. visible[k] = [val |-> dict[k],
                        exp |-> IF expires[k] = None THEN Persistent ELSE expires[k]]
        BY <2>1, VisibleAt
    <2> QED BY <1>1, <2>1, <2>2
<1>5. ASSUME visible[k] = None PROVE dict'[k] = None
    <2>1. dict[k] # None => [val |-> dict[k], exp |-> Persistent] \in Entry(Values)
        BY DEF TablesOK, Entry
    <2>2. dict[k] # None /\ expires[k] # None => [val |-> dict[k], exp |-> expires[k]] \in Entry(Values)
        BY DEF TablesOK, Entry
    <2> QED BY <1>1, <1>5, <2>1, <2>2, VisibleAt, KeyspaceAssumption DEF TablesOK
<1> QED BY <1>2, <1>3, <1>4, <1>5, VisibleSame DEF Abstract!GetFrom

-----------------------------------------------------------------------------
(* The tables stay typed and consistent. *)

Inv == TypeOK /\ ExpiresInDict

\* The inductive invariant contains the types of both tables.
LEMMA InvTables == Inv => TablesOK
BY DEF Inv, TypeOK, TablesOK

\* A lookup keeps the tables typed and consistent.
LEMMA LookupInv ==
    ASSUME Inv, NEW k \in Keys
    PROVE  LET db == ExpireIfNeeded(Db, k)
           IN  /\ db.dict \in [Keys -> Values \cup {None}]
               /\ db.expires \in [Keys -> Nat \cup {None}]
               /\ \A l \in Keys : db.expires[l] # None => db.dict[l] # None
<1> DEFINE db == ExpireIfNeeded(Db, k)
<1>1. \/ db.dict = [dict EXCEPT ![k] = None] /\ db.expires = [expires EXCEPT ![k] = None]
      \/ db.dict = dict /\ db.expires = expires
    BY InvTables, ExpireIfNeededTables
<1> HIDE DEF db
<1> QED BY <1>1 DEF Inv, TypeOK, ExpiresInDict, db

\* Each key the cycle tries is deleted from both tables, if it has expired, or
\* stays in both.
LEMMA TryExpireTables ==
    ASSUME NEW S, Become(TryExpire(Db, S))
    PROVE  /\ DOMAIN dict' = Keys /\ dict' = [k \in Keys |-> dict'[k]]
           /\ DOMAIN expires' = Keys /\ expires' = [k \in Keys |-> expires'[k]]
           /\ \A k \in Keys : \/ dict'[k] = dict[k] /\ expires'[k] = expires[k]
                              \/ dict'[k] = None /\ expires'[k] = None /\ KeyIsExpired(Db, k)
<1> DEFINE gone == {k \in S : KeyIsExpired(Db, k)}
<1>1. \A k \in gone : KeyIsExpired(Db, k)
    OBVIOUS
<1>2. /\ dict' = [k \in Keys |-> IF k \in gone THEN None ELSE dict[k]]
      /\ expires' = [k \in Keys |-> IF k \in gone THEN None ELSE expires[k]]
    BY DEF Become, TryExpire, Db
<1> HIDE DEF gone
<1> QED BY <1>1, <1>2

\* Both tables are empty at the start.
LEMMA InitInv == Init => Inv
BY KeyspaceAssumption DEF Init, Inv, TypeOK, ExpiresInDict, Keys

\* Every command, every cycle and every tick preserves the invariant.
LEMMA NextInv == Inv /\ [Next]_vars => Inv'
<1> SUFFICES ASSUME Inv, [Next]_vars PROVE Inv'
    OBVIOUS
<1> USE KeyspaceAssumption
<1>1. ASSUME NEW k \in Keys, NEW v \in Values, SetCommand(k, v) PROVE Inv'
    <2>1. dict' = [dict EXCEPT ![k] = v] /\ expires' = [expires EXCEPT ![k] = None]
        BY <1>1, InvTables, SetTables
    <2>2. ExpiresInDict'
        BY <2>1 DEF Inv, TypeOK, ExpiresInDict
    <2> QED BY <1>1, <2>1, <2>2 DEF SetCommand, Inv, TypeOK
<1>2. ASSUME NEW k \in Keys, GetCommand(k) PROVE Inv'
    <2> DEFINE db == ExpireIfNeeded(Db, k)
    <2>1. dict' = db.dict /\ expires' = db.expires /\ reply' = <<"get", k, db.dict[k]>>
        BY <1>2 DEF GetCommand, Become, LookupKey
    <2>2. /\ db.dict \in [Keys -> Values \cup {None}]
          /\ db.expires \in [Keys -> Nat \cup {None}]
          /\ \A l \in Keys : db.expires[l] # None => db.dict[l] # None
        BY LookupInv
    <2> HIDE DEF db
    <2> QED BY <1>2, <2>1, <2>2 DEF GetCommand, Inv, TypeOK, ExpiresInDict
<1>3. ASSUME NEW k \in Keys, ExistsCommand(k) PROVE Inv'
    <2> DEFINE db == ExpireIfNeeded(Db, k)
    <2>1. /\ dict' = db.dict /\ expires' = db.expires
          /\ \E r \in {"0", "1"} : reply' = <<"exists", k, r>>
        BY <1>3 DEF ExistsCommand, Become
    <2>2. /\ db.dict \in [Keys -> Values \cup {None}]
          /\ db.expires \in [Keys -> Nat \cup {None}]
          /\ \A l \in Keys : db.expires[l] # None => db.dict[l] # None
        BY LookupInv
    <2> HIDE DEF db
    <2> QED BY <1>3, <2>1, <2>2 DEF ExistsCommand, Inv, TypeOK, ExpiresInDict
<1>4. ASSUME NEW k \in Keys, NEW ttl \in 0..MaxTTL, ExpireCommand(k, ttl) PROVE Inv'
    <2> DEFINE db == ExpireIfNeeded(Db, k)
    <2>1. \/ dict' = db.dict /\ expires' = db.expires
          \/ dict' = [db.dict EXCEPT ![k] = None] /\ expires' = [db.expires EXCEPT ![k] = None]
          \/ /\ db.dict[k] # None
             /\ dict' = db.dict /\ expires' = [db.expires EXCEPT ![k] = now + ttl]
        BY <1>4 DEF ExpireCommand, Become, LookupKey, DbDelete, SetExpire
    <2>2. \E r \in {"0", "1"} : reply' = <<"expire", k, r>>
        BY <1>4 DEF ExpireCommand
    <2>3. /\ db.dict \in [Keys -> Values \cup {None}]
          /\ db.expires \in [Keys -> Nat \cup {None}]
          /\ \A l \in Keys : db.expires[l] # None => db.dict[l] # None
        BY LookupInv
    <2>4. now + ttl \in Nat
        BY DEF Inv, TypeOK
    <2> HIDE DEF db
    <2>5. dict' \in [Keys -> Values \cup {None}] /\ expires' \in [Keys -> Nat \cup {None}]
        BY <2>1, <2>3, <2>4
    <2>6. ExpiresInDict'
        BY <2>1, <2>3, <2>4 DEF ExpiresInDict
    <2> QED BY <1>4, <2>2, <2>5, <2>6 DEF ExpireCommand, Inv, TypeOK
<1>5. CASE ActiveExpireCycle
    <2>1. PICK n \in 1..MaxScan :
              /\ Become(TryExpire(Db, {(cursor + i) % NKeys : i \in 0..(n - 1)}))
              /\ cursor' = (cursor + n) % NKeys
        BY <1>5 DEF ActiveExpireCycle
    <2>2. /\ DOMAIN dict' = Keys /\ dict' = [k \in Keys |-> dict'[k]]
          /\ DOMAIN expires' = Keys /\ expires' = [k \in Keys |-> expires'[k]]
          /\ \A k \in Keys : \/ dict'[k] = dict[k] /\ expires'[k] = expires[k]
                             \/ dict'[k] = None /\ expires'[k] = None
        BY <2>1, TryExpireTables
    <2>3. cursor' \in Keys
        <3>1. cursor + n \in Int
            BY DEF Inv, TypeOK, Keys
        <3> QED BY <2>1, <3>1 DEF Keys
    <2>4. dict' \in [Keys -> Values \cup {None}] /\ expires' \in [Keys -> Nat \cup {None}]
        BY <2>2 DEF Inv, TypeOK
    <2>5. ExpiresInDict'
        BY <2>2 DEF Inv, ExpiresInDict
    <2> QED BY <1>5, <2>3, <2>4, <2>5 DEF ActiveExpireCycle, Inv, TypeOK
<1>6. CASE Tick
    BY <1>6 DEF Tick, Inv, TypeOK, ExpiresInDict
<1>7. CASE UNCHANGED vars
    BY <1>7 DEF vars, Inv, TypeOK, ExpiresInDict
<1> QED BY <1>1, <1>2, <1>3, <1>4, <1>5, <1>6, <1>7 DEF Next

\* The tables, the cursor and the replies have their types: in particular the
\* cursor of the active cycle stays within the buckets.
THEOREM TypeCorrect == Spec => []TypeOK
<1>1. Inv => TypeOK
    BY DEF Inv
<1> QED BY <1>1, InitInv, NextInv, PTL DEF Spec

\* getExpire and removeExpire never find an expire time without its key, on
\* which they would abort the server.
THEOREM TablesConsistent == Spec => []ExpiresInDict
<1>1. Inv => ExpiresInDict
    BY DEF Inv
<1> QED BY <1>1, InitInv, NextInv, PTL DEF Spec

-----------------------------------------------------------------------------
(* Refinement: every step of Redis is a step of TokenMap, or none. *)

\* Two maps over the keys are equal if they are equal at every key.
LEMMA VisibleEquals ==
    ASSUME NEW m, m = [l \in Keys |-> m[l]], \A l \in Keys : visible'[l] = m[l]
    PROVE  visible' = m
BY DEF visible

\* SET is the abstract Set, whatever expired entry it meets.
LEMMA SetRefines ==
    ASSUME TablesOK, NEW k \in Keys, NEW v \in Values, SetCommand(k, v)
    PROVE  Abstract!Set(k, v)
<1>1. dict' = [dict EXCEPT ![k] = v] /\ expires' = [expires EXCEPT ![k] = None] /\ now' = now
    BY SetTables DEF SetCommand
<1> DEFINE m == [visible EXCEPT ![k] = [val |-> v, exp |-> Persistent]]
<1>2. ASSUME NEW l \in Keys PROVE visible'[l] = m[l]
    <2>1. CASE l = k
        <3>1. dict'[k] = v /\ expires'[k] = None /\ v # None
            BY <1>1, KeyspaceAssumption DEF TablesOK
        <3>2. visible'[k] = [val |-> v, exp |-> Persistent]
            BY <3>1, VisibleAtPrime
        <3>3. m[k] = [val |-> v, exp |-> Persistent]
            BY DEF visible
        <3> QED BY <2>1, <3>2, <3>3
    <2>2. CASE l # k
        <3>1. dict'[l] = dict[l] /\ expires'[l] = expires[l]
            BY <1>1, <2>2 DEF TablesOK
        <3>2. visible'[l] = visible[l]
            BY <1>1, <3>1, VisibleAt, VisibleAtPrime, ZenonT(60)
        <3> QED BY <2>2, <3>2 DEF visible
    <2> QED BY <2>1, <2>2
<1>3. m = [l \in Keys |-> m[l]]
    BY DEF visible
<1>4. visible' = m
    BY <1>2, <1>3, VisibleEquals
<1> QED BY <1>4 DEF SetCommand, Abstract!Set, Abstract!SetIn, Abstract!Persistent, Persistent

\* GET is the abstract Get: the lazy deletion cannot be seen.
LEMMA GetRefines ==
    ASSUME TablesOK, NEW k \in Keys, GetCommand(k)
    PROVE  Abstract!Get(k)
<1>1. /\ dict' = ExpireIfNeeded(Db, k).dict /\ expires' = ExpireIfNeeded(Db, k).expires
      /\ now' = now /\ reply' = <<"get", k, LookupKey(ExpireIfNeeded(Db, k), k)>>
    BY DEF GetCommand, Become
<1> QED BY <1>1, LookupTables DEF Abstract!Get

\* EXISTS is the abstract Exists.
LEMMA ExistsRefines ==
    ASSUME TablesOK, NEW k \in Keys, ExistsCommand(k)
    PROVE  Abstract!Exists(k)
<1>1. /\ dict' = ExpireIfNeeded(Db, k).dict /\ expires' = ExpireIfNeeded(Db, k).expires
      /\ now' = now
      /\ reply' = <<"exists", k, IF LookupKey(ExpireIfNeeded(Db, k), k) # None THEN "1" ELSE "0">>
    BY DEF ExistsCommand, Become
<1> QED BY <1>1, LookupTables DEF Abstract!Exists, Abstract!ExistsIn

\* The active cycle deletes only what is invisible: it is a stuttering step.
LEMMA CycleRefines ==
    ASSUME TablesOK, ActiveExpireCycle
    PROVE  UNCHANGED <<now, visible, reply>>
<1>1. PICK n \in 1..MaxScan :
          Become(TryExpire(Db, {(cursor + i) % NKeys : i \in 0..(n - 1)}))
    BY DEF ActiveExpireCycle
<1>2. ASSUME NEW l \in Keys PROVE visible'[l] = visible[l]
    <2>1. \/ dict'[l] = dict[l] /\ expires'[l] = expires[l]
          \/ dict'[l] = None /\ expires[l] # None /\ now > expires[l]
        BY <1>1, TryExpireTables DEF KeyIsExpired, Db
    <2>2. now' = now
        BY DEF ActiveExpireCycle
    <2>3. CASE dict'[l] = dict[l] /\ expires'[l] = expires[l]
        BY <2>2, <2>3, VisibleAt, VisibleAtPrime
    <2>4. CASE dict'[l] = None /\ expires[l] # None /\ now > expires[l]
        BY <2>4, VisibleAt, VisibleAtPrime
    <2> QED BY <2>1, <2>3, <2>4
<1> QED BY <1>2, VisibleSame DEF ActiveExpireCycle

\* EXPIRE is the abstract Expire, also when it deletes the key at once.
LEMMA ExpireRefines ==
    ASSUME TablesOK, NEW k \in Keys, NEW ttl \in 0..MaxTTL, ExpireCommand(k, ttl)
    PROVE  Abstract!Expire(k, ttl)
<1> USE KeyspaceAssumption
<1> DEFINE db == ExpireIfNeeded(Db, k)
<1>1. now \in Nat /\ ttl \in Nat /\ now' = now
    BY DEF TablesOK, ExpireCommand
<1>2. \/ KeyIsExpired(Db, k) /\ db.dict = [dict EXCEPT ![k] = None]
                              /\ db.expires = [expires EXCEPT ![k] = None]
      \/ ~KeyIsExpired(Db, k) /\ db.dict = dict /\ db.expires = expires
    BY ExpireIfNeededTables
<1>3. CASE db.dict[k] = None
    <2>1. dict' = db.dict /\ expires' = db.expires /\ reply' = <<"expire", k, "0">>
        BY <1>3 DEF ExpireCommand, Become, LookupKey
    <2>2. visible' = visible /\ visible[k] = None
        BY <1>1, <1>3, <2>1, LookupTables DEF LookupKey
    <2> QED BY <1>1, <2>1, <2>2 DEF Abstract!Expire, Abstract!ExpireIn, Abstract!ExistsIn
<1>4. CASE db.dict[k] # None
    <2>1. db.dict = dict /\ db.expires = expires /\ ~KeyIsExpired(Db, k)
        BY <1>2, <1>4 DEF TablesOK
    <2>2. dict[k] # None /\ ~(expires[k] # None /\ now > expires[k])
        BY <1>4, <2>1 DEF KeyIsExpired, Db
    <2>3. visible[k] = [val |-> dict[k],
                        exp |-> IF expires[k] = None THEN Persistent ELSE expires[k]]
        BY <2>2, VisibleAt
    <2>4. visible[k] \in Entry(Values)
        BY <2>2, <2>3 DEF TablesOK, Entry
    <2>5. visible[k] # None /\ visible[k].val = dict[k]
        BY <2>3, <2>4
    <2>6. reply' = <<"expire", k, "1">>
        BY <1>4 DEF ExpireCommand, LookupKey
    <2> DEFINE m == [visible EXCEPT ![k] = IF ttl <= 0 THEN None
                                           ELSE [val |-> visible[k].val, exp |-> now + ttl]]
    <2>7. \/ ttl <= 0 /\ dict' = [dict EXCEPT ![k] = None] /\ expires' = [expires EXCEPT ![k] = None]
          \/ ttl > 0 /\ dict' = dict /\ expires' = [expires EXCEPT ![k] = now + ttl]
        BY <1>1, <1>4, <2>1 DEF ExpireCommand, Become, LookupKey, DbDelete, SetExpire
    <2>8. ASSUME NEW l \in Keys PROVE visible'[l] = m[l]
        <3>1. CASE l # k
            <4>1. dict'[l] = dict[l] /\ expires'[l] = expires[l]
                BY <2>7, <3>1 DEF TablesOK
            <4>2. visible'[l] = visible[l]
                BY <1>1, <4>1, VisibleAt, VisibleAtPrime
            <4> QED BY <3>1, <4>2 DEF visible
        <3>2. CASE l = k /\ ttl <= 0
            <4>1. dict'[k] = None
                BY <2>7, <3>2, <1>1 DEF TablesOK
            <4>2. visible'[k] = None
                BY <4>1, VisibleAtPrime
            <4>3. m[k] = None
                BY <3>2 DEF visible
            <4> QED BY <3>2, <4>2, <4>3
        <3>3. CASE l = k /\ ttl > 0
            <4>1. dict'[k] = dict[k] /\ expires'[k] = now + ttl
                BY <2>7, <3>3, <1>1 DEF TablesOK
            <4>2. expires'[k] # None /\ ~(now' > expires'[k])
                BY <1>1, <4>1, <3>3
            <4>3. visible'[k] = [val |-> dict[k], exp |-> now + ttl]
                BY <2>2, <4>1, <4>2, VisibleAtPrime
            <4>4. m[k] = [val |-> dict[k], exp |-> now + ttl]
                <5>1. ~(ttl <= 0)
                    BY <1>1, <3>3
                <5>2. m[k] = [val |-> visible[k].val, exp |-> now + ttl]
                    BY <5>1 DEF visible
                <5> QED BY <5>2, <2>5
            <4> QED BY <3>3, <4>3, <4>4
        <3> QED BY <1>1, <3>1, <3>2, <3>3
    <2>9. m = [l \in Keys |-> m[l]]
        BY DEF visible
    <2>10. visible' = m
        BY <2>8, <2>9, VisibleEquals
    <2> QED BY <1>1, <2>5, <2>6, <2>10 DEF Abstract!Expire, Abstract!ExpireIn, Abstract!ExistsIn
<1> QED BY <1>3, <1>4

\* A tick hides the entries that expire: the abstract map purges them.
LEMMA TickRefines ==
    ASSUME TablesOK, Tick
    PROVE  Abstract!Tick
<1> USE KeyspaceAssumption
<1>1. /\ now \in Nat /\ now < MaxTime /\ now' = now + 1
      /\ dict' = dict /\ expires' = expires /\ reply' = reply
    BY DEF Tick, TablesOK
<1> DEFINE m == [l \in Keys |-> IF Abstract!ExpiredAt(visible[l], now + 1) THEN None ELSE visible[l]]
<1>2. ASSUME NEW l \in Keys PROVE visible'[l] = m[l]
    <2>1. expires[l] \in Nat \cup {None}
        BY DEF TablesOK
    <2>2. CASE dict[l] = None \/ (expires[l] # None /\ now > expires[l])
        <3>1. visible[l] = None
            BY <2>2, VisibleAt
        <3>2. dict'[l] = None \/ (expires'[l] # None /\ now' > expires'[l])
            BY <1>1, <2>1, <2>2
        <3>3. visible'[l] = None
            BY <3>2, VisibleAtPrime
        <3> QED BY <3>1, <3>3 DEF Abstract!ExpiredAt
    <2>3. CASE ~(dict[l] = None \/ (expires[l] # None /\ now > expires[l]))
        <3>1. visible[l] = [val |-> dict[l],
                            exp |-> IF expires[l] = None THEN Persistent ELSE expires[l]]
            BY <2>3, VisibleAt
        <3>2. visible[l] \in Entry(Values)
            BY <2>1, <2>3, <3>1 DEF TablesOK, Entry
        <3>3. visible[l] # None
            BY <3>2
        <3>4. visible[l].exp = IF expires[l] = None THEN Persistent ELSE expires[l]
            BY <3>1
        <3>5. Abstract!ExpiredAt(visible[l], now + 1) <=> expires'[l] # None /\ now' > expires'[l]
            BY <1>1, <2>1, <3>3, <3>4 DEF Abstract!ExpiredAt, Abstract!Persistent, Persistent
        <3>6. CASE expires'[l] # None /\ now' > expires'[l]
            BY <3>5, <3>6, VisibleAtPrime
        <3>7. CASE ~(expires'[l] # None /\ now' > expires'[l])
            <4>1. visible'[l] = [val |-> dict[l],
                                 exp |-> IF expires[l] = None THEN Persistent ELSE expires[l]]
                BY <1>1, <2>3, <3>7, VisibleAtPrime
            <4> QED BY <3>1, <3>5, <3>7, <4>1
        <3> QED BY <3>6, <3>7
    <2> QED BY <2>2, <2>3
<1>3. visible' = m
    BY <1>2, VisibleEquals
<1>4. m = Abstract!Purge(visible, now + 1)
    BY DEF Abstract!Purge, visible
<1> QED BY <1>1, <1>3, <1>4 DEF Abstract!Tick

\* Every step is an abstract step or leaves the abstract state alone.
LEMMA NextRefines == Inv /\ [Next]_vars => [Abstract!Next]_(Abstract!vars)
<1> SUFFICES ASSUME Inv, [Next]_vars PROVE [Abstract!Next]_(Abstract!vars)
    OBVIOUS
<1>1. TablesOK
    BY InvTables
<1>2. ASSUME NEW k \in Keys, NEW v \in Values, SetCommand(k, v) PROVE Abstract!Next
    BY <1>1, <1>2, SetRefines DEF Abstract!Next
<1>3. ASSUME NEW k \in Keys, GetCommand(k) PROVE Abstract!Next
    BY <1>1, <1>3, GetRefines DEF Abstract!Next
<1>4. ASSUME NEW k \in Keys, ExistsCommand(k) PROVE Abstract!Next
    BY <1>1, <1>4, ExistsRefines DEF Abstract!Next
<1>5. ASSUME NEW k \in Keys, NEW ttl \in 0..MaxTTL, ExpireCommand(k, ttl) PROVE Abstract!Next
    BY <1>1, <1>5, ExpireRefines DEF Abstract!Next
<1>6. CASE ActiveExpireCycle
    BY <1>1, <1>6, CycleRefines DEF Abstract!vars
<1>7. CASE Tick
    BY <1>1, <1>7, TickRefines DEF Abstract!Next
<1>8. CASE UNCHANGED vars
    <2>1. dict' = dict /\ expires' = expires /\ now' = now /\ reply' = reply
        BY <1>8 DEF vars
    <2>2. visible' = visible
        BY <2>1, VisibleAt, VisibleAtPrime, VisibleSame
    <2> QED BY <2>1, <2>2 DEF Abstract!vars
<1> QED BY <1>2, <1>3, <1>4, <1>5, <1>6, <1>7, <1>8 DEF Next

\* The empty tables show the empty map.
LEMMA InitRefines == Init => Abstract!Init
BY DEF Init, Abstract!Init, visible, VisibleEntry

\* Redis' two tables, with expiry on access and in the background, implement
\* the map whose entries disappear at the tick at which they expire.
THEOREM Refinement == Spec => ImplementsTokenMap
BY InitInv, NextInv, InitRefines, NextRefines, PTL DEF Spec, ImplementsTokenMap, Abstract!Spec
=============================================================================
