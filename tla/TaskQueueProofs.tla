-------------------------- MODULE TaskQueueProofs --------------------------
(***************************************************************************)
(* Proofs about RedisLists and TaskQueue, for any number of lists, workers *)
(* and messages, any prefetch and any number of kills, shutdowns and       *)
(* restores.  First what the commands do to the lists and the blocked      *)
(* clients, then what the workers make of it.                              *)
(***************************************************************************)
EXTENDS TaskQueue, FiniteSetTheorems, SequenceTheorems, TLAPS

-----------------------------------------------------------------------------
(* Sequences *)

\* The element is in the sequence; it is there at most once.
Occurs(s, m) == \E i \in DOMAIN s : s[i] = m
AtMostOnce(s, m) == \A i, j \in DOMAIN s : s[i] = m /\ s[j] = m => i = j

\* A sequence becomes longer by one element at either end.
LEMMA Longer ==
    ASSUME NEW S, NEW s \in Seq(S), NEW e \in S, NEW r, r = <<e>> \o s \/ r = Append(s, e), NEW m
    PROVE  /\ r \in Seq(S) /\ r # <<>>
           /\ Occurs(r, m) <=> Occurs(s, m) \/ m = e
           /\ AtMostOnce(s, m) /\ (m = e => ~Occurs(s, m)) => AtMostOnce(r, m)
<1>1. CASE r = <<e>> \o s
    <2>1. <<e>> \in Seq(S) /\ Len(<<e>>) = 1 /\ <<e>>[1] = e
        OBVIOUS
    <2>2. r \in Seq(S) /\ Len(r) = Len(s) + 1 /\ DOMAIN r = 1..(Len(s) + 1) /\ DOMAIN s = 1..Len(s)
        BY <1>1, <2>1, ConcatProperties, LenProperties
    <2>3. r[1] = e /\ \A i \in 1..Len(s) : r[i + 1] = s[i]
        BY <1>1, <2>1
    <2>4. Len(s) \in Nat
        BY LenProperties
    <2>5. \A i \in 1..(Len(s) + 1) : i = 1 \/ (i - 1 \in 1..Len(s) /\ r[i] = s[i - 1])
        BY <2>3, <2>4
    <2>6. Occurs(r, m) <=> Occurs(s, m) \/ m = e
        <3>1. ASSUME NEW i \in 1..Len(s) PROVE i + 1 \in 1..(Len(s) + 1)
            BY <2>4
        <3>2. 1 \in 1..(Len(s) + 1)
            BY <2>4
        <3>3. ASSUME NEW i \in 1..(Len(s) + 1), r[i] = m PROVE Occurs(s, m) \/ m = e
            BY <2>2, <2>3, <2>5, <3>3 DEF Occurs
        <3>4. ASSUME NEW i \in 1..Len(s), s[i] = m PROVE Occurs(r, m)
            BY <2>2, <2>3, <3>1, <3>4 DEF Occurs
        <3>5. m = e => Occurs(r, m)
            BY <2>2, <2>3, <3>2 DEF Occurs
        <3> QED BY <2>2, <3>3, <3>4, <3>5 DEF Occurs
    <2>7. ASSUME AtMostOnce(s, m), m = e => ~Occurs(s, m) PROVE AtMostOnce(r, m)
        <3>1. SUFFICES ASSUME NEW i \in DOMAIN r, NEW j \in DOMAIN r, r[i] = m, r[j] = m
                       PROVE  i = j
            BY DEF AtMostOnce
        <3>2. i - 1 \in 1..Len(s) /\ j - 1 \in 1..Len(s) => i = j
            BY <2>2, <2>5, <2>7, <3>1 DEF AtMostOnce
        <3> QED BY <2>2, <2>3, <2>5, <2>7, <3>1, <3>2, ZenonT(60) DEF Occurs
    <2>8. r # <<>>
        BY <2>2, <2>4
    <2> QED BY <2>2, <2>6, <2>7, <2>8
<1>2. CASE r = Append(s, e)
    <2>1. /\ r \in Seq(S) /\ Len(r) = Len(s) + 1 /\ DOMAIN r = 1..(Len(s) + 1) /\ DOMAIN s = 1..Len(s)
          /\ r[Len(s) + 1] = e /\ \A i \in 1..Len(s) : r[i] = s[i]
        BY <1>2, AppendProperties, LenProperties
    <2>2. Len(s) \in Nat
        BY LenProperties
    <2>3. \A i \in 1..(Len(s) + 1) : i = Len(s) + 1 \/ i \in 1..Len(s)
        BY <2>2
    <2>4. Occurs(r, m) <=> Occurs(s, m) \/ m = e
        <3>1. Len(s) + 1 \in 1..(Len(s) + 1) /\ \A i \in 1..Len(s) : i \in 1..(Len(s) + 1)
            BY <2>2
        <3> QED BY <2>1, <2>3, <3>1 DEF Occurs
    <2>5. ASSUME AtMostOnce(s, m), m = e => ~Occurs(s, m) PROVE AtMostOnce(r, m)
        BY <2>1, <2>3, <2>5 DEF AtMostOnce, Occurs
    <2>6. r # <<>>
        BY <2>1, <2>2
    <2> QED BY <2>1, <2>4, <2>5, <2>6
<1> QED BY <1>1, <1>2

\* The places of a sequence of length n without its last.
LEMMA Boundary ==
    ASSUME NEW n \in Nat, n # 0
    PROVE  /\ \A i \in 1..n : i = n \/ i \in 1..(n - 1)
           /\ n \in 1..n
           /\ \A i \in 1..(n - 1) : i \in 1..n /\ i # n
OBVIOUS

\* A sequence loses its last element, or its first.
LEMMA Shorter ==
    ASSUME NEW S, NEW s \in Seq(S), s # <<>>,
           NEW r, NEW e, \/ r = SubSeq(s, 1, Len(s) - 1) /\ e = s[Len(s)]
                         \/ r = Tail(s) /\ e = Head(s),
           NEW m
    PROVE  /\ r \in Seq(S) /\ e \in S
           /\ Occurs(s, e)
           /\ Occurs(s, m) <=> Occurs(r, m) \/ m = e
           /\ AtMostOnce(s, m) => AtMostOnce(r, m) /\ (m = e => ~Occurs(r, m))
<1>1. Len(s) \in Nat /\ Len(s) # 0 /\ DOMAIN s = 1..Len(s) /\ \A i \in 1..Len(s) : s[i] \in S
    BY LenProperties, ElementOfSeq, EmptySeq
<1>2. CASE r = SubSeq(s, 1, Len(s) - 1) /\ e = s[Len(s)]
    <2>1. /\ r \in Seq(S) /\ Len(r) = Len(s) - 1 /\ DOMAIN r = 1..(Len(s) - 1)
          /\ \A i \in 1..(Len(s) - 1) : r[i] = s[i]
        <3>1. /\ 1 \in 1..(Len(s) + 1) /\ Len(s) - 1 \in 0..Len(s)
              /\ (Len(s) - 1) - 1 + 1 = Len(s) - 1
            BY <1>1
        <3> QED BY <1>1, <1>2, <3>1
    <2>2. /\ \A i \in 1..Len(s) : i = Len(s) \/ i \in 1..(Len(s) - 1)
          /\ Len(s) \in 1..Len(s)
          /\ \A i \in 1..(Len(s) - 1) : i \in 1..Len(s) /\ i # Len(s)
        BY <1>1, Boundary
    <2>3. Len(s) \in 1..Len(s) /\ \A i \in 1..(Len(s) - 1) : i \in 1..Len(s) /\ i # Len(s)
        BY <2>2
    <2>4. Occurs(s, e) /\ e \in S
        BY <1>1, <1>2, <2>3 DEF Occurs
    <2>5. Occurs(s, m) <=> Occurs(r, m) \/ m = e
        BY <1>1, <1>2, <2>1, <2>2, <2>3 DEF Occurs
    <2>6. AtMostOnce(s, m) => AtMostOnce(r, m) /\ (m = e => ~Occurs(r, m))
        BY <1>1, <1>2, <2>1, <2>3 DEF Occurs, AtMostOnce
    <2> QED BY <2>1, <2>4, <2>5, <2>6
<1>3. CASE r = Tail(s) /\ e = Head(s)
    <2>1. /\ r \in Seq(S) /\ Len(r) = Len(s) - 1 /\ DOMAIN r = 1..(Len(s) - 1)
          /\ e = s[1] /\ \A i \in 1..(Len(s) - 1) : r[i] = s[i + 1]
        BY <1>1, <1>3, HeadTailProperties, LenProperties
    <2>2. \A i \in 1..Len(s) : i = 1 \/ (i - 1 \in 1..(Len(s) - 1) /\ s[i] = r[i - 1])
        BY <1>1, <2>1
    <2>3. 1 \in 1..Len(s) /\ \A i \in 1..(Len(s) - 1) : i + 1 \in 1..Len(s) /\ i + 1 # 1
        BY <1>1
    <2>4. Occurs(s, e) /\ e \in S
        BY <1>1, <2>1, <2>3 DEF Occurs
    <2>5. Occurs(s, m) <=> Occurs(r, m) \/ m = e
        <3>1. ASSUME NEW i \in 1..Len(s), s[i] = m PROVE Occurs(r, m) \/ m = e
            BY <2>1, <2>2, <3>1 DEF Occurs
        <3>2. ASSUME NEW i \in 1..(Len(s) - 1), r[i] = m PROVE Occurs(s, m)
            BY <1>1, <2>1, <2>3, <3>2 DEF Occurs
        <3>3. m = e => Occurs(s, m)
            BY <2>4
        <3> QED BY <1>1, <2>1, <3>1, <3>2, <3>3 DEF Occurs
    <2>6. ASSUME AtMostOnce(s, m) PROVE AtMostOnce(r, m) /\ (m = e => ~Occurs(r, m))
        <3>1. ASSUME NEW i \in DOMAIN r, NEW j \in DOMAIN r, r[i] = m, r[j] = m PROVE i = j
            <4>1. i + 1 = j + 1
                BY <1>1, <2>1, <2>3, <2>6, <3>1 DEF AtMostOnce
            <4> QED BY <2>1, <3>1, <4>1
        <3>2. m = e => ~Occurs(r, m)
            BY <1>1, <2>1, <2>3, <2>6 DEF AtMostOnce, Occurs
        <3> QED BY <3>1, <3>2 DEF AtMostOnce
    <2> QED BY <2>1, <2>4, <2>5, <2>6
<1> QED BY <1>2, <1>3

\* A sequence has an element unless it is empty.
LEMMA SomeElement ==
    ASSUME NEW S, NEW s \in Seq(S)
    PROVE  s # <<>> <=> \E m \in S : Occurs(s, m)
<1>1. Len(s) \in Nat /\ DOMAIN s = 1..Len(s) /\ \A i \in 1..Len(s) : s[i] \in S
    BY LenProperties, ElementOfSeq
<1>2. ASSUME s # <<>> PROVE \E m \in S : Occurs(s, m)
    <2>1. Len(s) # 0
        BY <1>2, EmptySeq
    <2>2. Len(s) \in 1..Len(s)
        BY <1>1, <2>1
    <2> QED BY <1>1, <2>2 DEF Occurs
<1>3. ASSUME NEW m, Occurs(s, m) PROVE s # <<>>
    BY <1>3 DEF Occurs
<1> QED BY <1>2, <1>3

\* The places of a sequence of length n after place i.
LEMMA After ==
    ASSUME NEW n \in Nat, NEW i \in 1..n
    PROVE  n - (i + 1) + 1 = n - i /\ (~(i + 1 <= n) => n - i = 0)
OBVIOUS

\* listDelNode takes the one node of client c off a queue of clients.
LEMMA UnlinkProperties ==
    ASSUME NEW S, NEW q \in Seq(S), NEW c, Occurs(q, c), AtMostOnce(q, c), NEW d
    PROVE  /\ Unlink(q, c) \in Seq(S)
           /\ Occurs(Unlink(q, c), d) <=> Occurs(q, d) /\ d # c
           /\ AtMostOnce(q, d) => AtMostOnce(Unlink(q, c), d)
<1> DEFINE i == CHOOSE i \in DOMAIN q : q[i] = c
           n == Len(q)
           r == Unlink(q, c)
<1>1. i \in DOMAIN q /\ q[i] = c
    BY DEF Occurs
<1>2. n \in Nat /\ DOMAIN q = 1..n /\ i \in 1..n
    BY <1>1, LenProperties
<1>3. r = SubSeq(q, 1, i - 1) \o SubSeq(q, i + 1, n)
    BY DEF Unlink
<1> HIDE DEF i, r
<1>4. /\ SubSeq(q, 1, i - 1) \in Seq(S) /\ Len(SubSeq(q, 1, i - 1)) = i - 1
      /\ \A j \in 1..(i - 1) : SubSeq(q, 1, i - 1)[j] = q[j]
    BY <1>2
<1>5. /\ SubSeq(q, i + 1, n) \in Seq(S) /\ Len(SubSeq(q, i + 1, n)) = n - i
      /\ \A j \in 1..(n - i) : SubSeq(q, i + 1, n)[j] = q[i + j]
    <2>1. \A j \in (i + 1)..n : q[j] \in S
        BY <1>2, ElementOfSeq
    <2>2. /\ SubSeq(q, i + 1, n) \in Seq(S)
          /\ Len(SubSeq(q, i + 1, n)) = IF i + 1 <= n THEN n - (i + 1) + 1 ELSE 0
          /\ \A j \in 1..(n - (i + 1) + 1) : SubSeq(q, i + 1, n)[j] = q[(i + 1) + j - 1]
        BY <1>2, <2>1, SubSeqProperties
    <2>3. n - (i + 1) + 1 = n - i /\ (~(i + 1 <= n) => n - i = 0)
        BY <1>2, After
    <2>4. \A j \in 1..(n - i) : (i + 1) + j - 1 = i + j
        BY <1>2
    <2> QED BY <2>2, <2>3, <2>4
<1>6. /\ r \in Seq(S) /\ Len(r) = n - 1 /\ DOMAIN r = 1..(n - 1)
      /\ \A j \in 1..(n - 1) : r[j] = IF j < i THEN q[j] ELSE q[j + 1]
    <2>1. r \in Seq(S) /\ Len(r) = (i - 1) + (n - i)
        BY <1>3, <1>4, <1>5, ConcatProperties
    <2>2. Len(r) = n - 1
        BY <1>2, <2>1
    <2>3. \A j \in 1..((i - 1) + (n - i)) :
              r[j] = IF j <= i - 1 THEN SubSeq(q, 1, i - 1)[j] ELSE SubSeq(q, i + 1, n)[j - (i - 1)]
        <3>1. PICK a \in Seq(S) : a = SubSeq(q, 1, i - 1)
            BY <1>4
        <3>2. PICK b \in Seq(S) : b = SubSeq(q, i + 1, n)
            BY <1>5
        <3>3. \A j \in 1..(Len(a) + Len(b)) : (a \o b)[j] = IF j <= Len(a) THEN a[j] ELSE b[j - Len(a)]
            BY ConcatProperties
        <3>4. r = a \o b /\ Len(a) = i - 1 /\ Len(b) = n - i
            BY <1>3, <1>4, <1>5, <3>1, <3>2
        <3> QED BY <3>1, <3>2, <3>3, <3>4
    <2>4. ASSUME NEW j \in 1..(n - 1) PROVE r[j] = IF j < i THEN q[j] ELSE q[j + 1]
        <3>1. j \in 1..((i - 1) + (n - i)) /\ (j <= i - 1 <=> j < i)
            BY <1>2, <2>4
        <3>2. CASE j < i
            <4>1. j \in 1..(i - 1)
                BY <1>2, <2>4, <3>2
            <4> QED BY <1>4, <2>3, <3>1, <3>2, <4>1
        <3>3. CASE ~(j < i)
            <4>1. j - (i - 1) \in 1..(n - i) /\ i + (j - (i - 1)) = j + 1
                BY <1>2, <2>4, <3>3
            <4> QED BY <1>5, <2>3, <3>1, <3>3, <4>1
        <3> QED BY <3>2, <3>3
    <2> QED BY <2>1, <2>2, <2>4, LenProperties
<1> HIDE DEF n
<1>7. \A j \in 1..n : j = i \/ (j \in 1..(n - 1) /\ j < i) \/ (j - 1 \in 1..(n - 1) /\ ~(j - 1 < i) /\ (j - 1) + 1 = j)
    BY <1>2
<1>8. \A j \in 1..(n - 1) : j \in 1..n /\ j + 1 \in 1..n /\ (~(j < i) => j + 1 # i)
    BY <1>2
<1>9. Occurs(r, d) <=> Occurs(q, d) /\ d # c
    <2>1. ASSUME NEW j \in 1..(n - 1), r[j] = d PROVE Occurs(q, d) /\ d # c
        BY <1>1, <1>2, <1>6, <1>8, <2>1, SMTT(30) DEF Occurs, AtMostOnce
    <2>2. ASSUME NEW j \in 1..n, q[j] = d, d # c PROVE Occurs(r, d)
        BY <1>1, <1>2, <1>6, <1>7, <2>2 DEF Occurs
    <2> QED BY <1>2, <1>6, <2>1, <2>2 DEF Occurs
<1>10. ASSUME AtMostOnce(q, d) PROVE AtMostOnce(r, d)
    <2> SUFFICES ASSUME NEW j \in 1..(n - 1), NEW k \in 1..(n - 1), r[j] = d, r[k] = d PROVE j = k
        BY <1>6 DEF AtMostOnce
    <2>1. (IF j < i THEN j ELSE j + 1) = (IF k < i THEN k ELSE k + 1)
        BY <1>2, <1>6, <1>8, <1>10 DEF AtMostOnce
    <2> QED BY <1>2, <2>1
<1> QED BY <1>6, <1>9, <1>10 DEF r

-----------------------------------------------------------------------------
(* The invariant of the lists. *)

ListsType ==
    /\ lists \in [Lists -> Seq(Elements)]
    /\ blockingKeys \in [Lists -> Seq(Clients)]
    /\ bpopKeys \in [Clients -> SUBSET Lists]
    /\ reply \in [Clients -> Elements \cup {Nil, NoReply}]

\* blocking_keys and bpop.keys describe the same waiting.
Registered ==
    /\ \A l \in Lists, c \in Clients : AtMostOnce(blockingKeys[l], c)
    /\ \A l \in Lists, c \in Clients : l \in bpopKeys[c] <=> Occurs(blockingKeys[l], c)

WaitingUnanswered == \A c \in Clients : Blocked(c) => reply[c] = NoReply

ListsInv == ListsType /\ Registered /\ WaitingUnanswered /\ NoOneWaitsInVain

-----------------------------------------------------------------------------
(* What the commands do, in a state that satisfies the invariant. *)

\* The queues of clients, without client c.
Without(c) ==
    [k \in Lists |-> IF k \in bpopKeys[c] THEN Unlink(blockingKeys[k], c) ELSE blockingKeys[k]]

\* The keys of the clients, none for client c.
WithoutKeys(c) == [bpopKeys EXCEPT ![c] = {}]

\* Client c waits for nothing any more.
Detached(c) == blockingKeys' = Without(c) /\ bpopKeys' = WithoutKeys(c)

\* A push adds the element at one end, and nobody waits for the list,
Pushed(l, e) ==
    /\ blockingKeys[l] = <<>>
    /\ \E r \in {<<e>> \o lists[l], Append(lists[l], e)} : lists' = [lists EXCEPT ![l] = r]
    /\ UNCHANGED <<blockingKeys, bpopKeys, reply>>

\* or hands it to a client that waits.
Served(c, e) ==
    /\ Blocked(c)
    /\ Detached(c)
    /\ reply' = [reply EXCEPT ![c] = e]
    /\ UNCHANGED lists

\* BRPOP takes the element at the tail of a list,
Popped(c, l) ==
    /\ ~Blocked(c) /\ reply[c] = NoReply
    /\ lists[l] # <<>>
    /\ lists' = [lists EXCEPT ![l] = SubSeq(lists[l], 1, Len(lists[l]) - 1)]
    /\ reply' = [reply EXCEPT ![c] = lists[l][Len(lists[l])]]
    /\ UNCHANGED <<blockingKeys, bpopKeys>>

\* or blocks on lists that are all empty.
Waits(c, keys) ==
    /\ ~Blocked(c) /\ reply[c] = NoReply
    /\ \A l \in keys : lists[l] = <<>>
    /\ blockingKeys' = [l \in Lists |-> IF l \in keys THEN Append(blockingKeys[l], c)
                                        ELSE blockingKeys[l]]
    /\ bpopKeys' = [bpopKeys EXCEPT ![c] = keys]
    /\ UNCHANGED <<lists, reply>>

\* A client that blocks is released with a reply that is no element.
Released(c) ==
    /\ \/ Blocked(c) /\ Detached(c)
       \/ ~Blocked(c) /\ UNCHANGED <<blockingKeys, bpopKeys>>
    /\ \E r \in {Nil, NoReply} : reply' = [reply EXCEPT ![c] = r]
    /\ UNCHANGED lists

\* unblockClient changes blocking_keys and the keys of the client alone.
LEMMA UnblockRecord ==
    \A L, R, l, c :
        Unblock([lists |-> L, blocking |-> blockingKeys, bpop |-> bpopKeys, reply |-> R], l, c)
            = [lists |-> L, blocking |-> Without(c), bpop |-> WithoutKeys(c),
               reply |-> R]
<1> TAKE L, R, l, c
<1>1. PICK db : db = [lists |-> L, blocking |-> blockingKeys, bpop |-> bpopKeys, reply |-> R]
    OBVIOUS
<1>2. db.blocking = blockingKeys /\ db.bpop = bpopKeys
    BY <1>1
<1>3. Unblock(db, l, c) = [db EXCEPT !.blocking = Without(c), !.bpop[c] = {}]
    BY <1>2, Zenon DEF Unblock, Without
<1> QED BY <1>1, <1>3 DEF WithoutKeys

\* LPUSH and RPUSH.
LEMMA PushCommand ==
    ASSUME ListsInv, NEW l \in Lists, NEW e \in Elements, LPush(l, e) \/ RPush(l, e)
    PROVE  Pushed(l, e) \/ \E c \in Clients : Served(c, e)
<1>1. PICK s \in {<<e>> \o lists[l], Append(lists[l], e)} : Become(Push(Db, l, s))
    BY DEF LPush, RPush
<1>2. /\ lists \in [Lists -> Seq(Elements)] /\ blockingKeys \in [Lists -> Seq(Clients)]
      /\ bpopKeys \in [Clients -> SUBSET Lists] /\ reply \in [Clients -> Elements \cup {Nil, NoReply}]
    BY DEF ListsInv, ListsType
<1> DEFINE added == [Db EXCEPT !.lists[l] = s]
<1>3. /\ added.lists = [lists EXCEPT ![l] = s] /\ added.blocking = blockingKeys
      /\ added.bpop = bpopKeys /\ added.reply = reply
    BY DEF Db
<1>4. Db.lists = lists
    BY DEF Db
<1>5. CASE blockingKeys[l] = <<>>
    <2>1. Push(Db, l, s) = added
        BY <1>3, <1>5 DEF Push, ServeBlocked
    <2> HIDE DEF added
    <2>2. lists' = [lists EXCEPT ![l] = s] /\ UNCHANGED <<blockingKeys, bpopKeys, reply>>
        BY <1>1, <1>3, <2>1 DEF Become
    <2> QED BY <1>5, <2>2 DEF Pushed
<1>6. CASE blockingKeys[l] # <<>>
    <2>1. PICK c : c = Head(blockingKeys[l])
        OBVIOUS
    <2>2. lists[l] = <<>>
        BY <1>6 DEF ListsInv, NoOneWaitsInVain
    <2>3. s = <<e>>
        BY <1>1, <2>2
    <2>4. c \in Clients /\ Occurs(blockingKeys[l], c)
        <3>1. blockingKeys[l] \in Seq(Clients)
            BY <1>2
        <3>2. Len(blockingKeys[l]) \in Nat /\ Len(blockingKeys[l]) # 0
            BY <1>6, <3>1, LenProperties, EmptySeq
        <3>3. c = blockingKeys[l][1]
            BY <1>6, <2>1, <3>1, HeadTailProperties
        <3>4. 1 \in 1..Len(blockingKeys[l]) /\ DOMAIN blockingKeys[l] = 1..Len(blockingKeys[l])
            BY <3>1, <3>2, LenProperties
        <3>5. c \in Clients
            BY <3>1, <3>3, <3>4, ElementOfSeq
        <3> QED BY <3>3, <3>4, <3>5 DEF Occurs
    <2>5. l \in bpopKeys[c]
        BY <2>4 DEF ListsInv, Registered
    <2>6. Push(Db, l, s) = ServeBlocked(added, l)
        BY <1>4, <2>2 DEF Push
    <2> HIDE DEF added
    <2>7. added.lists[l] = <<e>>
        BY <1>2, <1>3, <2>3
    <2>8. Len(<<e>>) = 1 /\ <<e>>[1] = e /\ SubSeq(<<e>>, 1, 0) = <<>>
        OBVIOUS
    <2>9. ServeBlocked(added, l)
              = [Unblock(added, l, c) EXCEPT !.lists[l] = <<>>, !.reply[c] = e]
        <3>1. SubSeq(added.lists[l], 1, Len(added.lists[l]) - 1) = <<>>
            BY <2>7, <2>8
        <3>2. added.lists[l][Len(added.lists[l])] = e
            BY <2>7, <2>8
        <3>3. Head(added.blocking[l]) = c /\ added.blocking[l] # <<>>
            BY <1>3, <1>6, <2>1
        <3> QED BY <3>1, <3>2, <3>3, Zenon DEF ServeBlocked
    <2>10. PICK L : L = [lists EXCEPT ![l] = s]
        OBVIOUS
    <2>11. added = [lists |-> L, blocking |-> blockingKeys, bpop |-> bpopKeys, reply |-> reply]
        BY <2>10 DEF added, Db
    <2>12. Unblock(added, l, c)
               = [lists |-> L, blocking |-> Without(c), bpop |-> WithoutKeys(c),
                  reply |-> reply]
        <3>1. Unblock([lists |-> L, blocking |-> blockingKeys, bpop |-> bpopKeys, reply |-> reply], l, c)
                  = [lists |-> L, blocking |-> Without(c), bpop |-> WithoutKeys(c), reply |-> reply]
            BY UnblockRecord, SMT
        <3> QED BY <2>11, <3>1, Zenon
    <2>13. /\ lists' = [L EXCEPT ![l] = <<>>] /\ reply' = [reply EXCEPT ![c] = e]
           /\ blockingKeys' = Without(c) /\ bpopKeys' = WithoutKeys(c)
        BY <1>1, <2>6, <2>9, <2>12 DEF Become
    <2>14. lists' = lists
        BY <1>2, <2>2, <2>13, <2>10
    <2>15. Served(c, e)
        BY <2>5, <2>13, <2>14 DEF Served, Detached, Blocked
    <2> QED BY <2>4, <2>15
<1> QED BY <1>5, <1>6

\* BRPOP, for lists that exist.
LEMMA PopCommand ==
    ASSUME ListsType, NEW c \in Clients, NEW keys \in Seq(Lists), BRPop(c, keys)
    PROVE  \/ \E l \in Lists : Popped(c, l)
           \/ Waits(c, {keys[i] : i \in DOMAIN keys})
<1> DEFINE all == {keys[i] : i \in DOMAIN keys}
<1>1. ~Blocked(c) /\ reply[c] = NoReply
    BY DEF BRPop
<1>2. ASSUME \A i \in DOMAIN keys : lists[keys[i]] = <<>>, Become(BlockForKeys(Db, c, all))
      PROVE  Waits(c, all)
    <2>1. \A l \in all : lists[l] = <<>>
        BY <1>2
    <2> DEFINE b == [l \in Lists |-> IF l \in all THEN Append(blockingKeys[l], c) ELSE blockingKeys[l]]
    <2> HIDE DEF all
    <2>2. BlockForKeys(Db, c, all) = [Db EXCEPT !.blocking = b, !.bpop[c] = all]
        <3>1. Db.blocking = blockingKeys
            BY DEF Db
        <3> QED BY <3>1, Zenon DEF BlockForKeys
    <2> HIDE DEF b
    <2>3. /\ lists' = lists /\ blockingKeys' = b
          /\ bpopKeys' = [bpopKeys EXCEPT ![c] = all] /\ reply' = reply
        BY <1>2, <2>2 DEF Become, Db
    <2> QED BY <1>1, <2>1, <2>3 DEF Waits, b
<1>3. ASSUME NEW i \in DOMAIN keys, lists[keys[i]] # <<>>,
             Become([Db EXCEPT !.lists[keys[i]] = SubSeq(@, 1, Len(@) - 1),
                               !.reply[c] = lists[keys[i]][Len(lists[keys[i]])]])
      PROVE  \E l \in Lists : Popped(c, l)
    <2>1. PICK l \in Lists : l = keys[i]
        BY LenProperties, ElementOfSeq
    <2>2. Popped(c, l)
        BY <1>1, <1>3, <2>1 DEF Become, Db, Popped
    <2> QED BY <2>2
<1> QED BY <1>2, <1>3 DEF BRPop

\* A timeout, and the end of a connection.
LEMMA ReleaseCommand ==
    ASSUME NEW c \in Clients, BlockTimeout(c) \/ FreeClient(c)
    PROVE  Released(c)
<1>1. CASE Blocked(c)
    <2>1. PICK l \in bpopKeys[c], r \in {Nil, NoReply} : Become([Unblock(Db, l, c) EXCEPT !.reply[c] = r])
        BY <1>1 DEF BlockTimeout, FreeClient
    <2>2. Unblock(Db, l, c)
              = [lists |-> lists, blocking |-> Without(c), bpop |-> WithoutKeys(c),
                 reply |-> reply]
        BY UnblockRecord DEF Db
    <2>3. /\ lists' = lists /\ reply' = [reply EXCEPT ![c] = r]
          /\ blockingKeys' = Without(c) /\ bpopKeys' = WithoutKeys(c)
        BY <2>1, <2>2 DEF Become
    <2> QED BY <1>1, <2>3 DEF Released, Detached
<1>2. CASE ~Blocked(c)
    BY <1>2 DEF BlockTimeout, FreeClient, Become, Db, Released
<1> QED BY <1>1, <1>2

-----------------------------------------------------------------------------
(* They keep the invariant of the lists. *)

\* A client is taken off all queues that it is in.
LEMMA DetachKeeps ==
    ASSUME ListsInv, NEW c \in Clients, Detached(c)
    PROVE  /\ blockingKeys' \in [Lists -> Seq(Clients)]
           /\ bpopKeys' \in [Clients -> SUBSET Lists]
           /\ Registered'
           /\ \A l \in Lists : blockingKeys'[l] # <<>> => blockingKeys[l] # <<>>
           /\ \A d \in Clients : Blocked(d)' <=> Blocked(d) /\ d # c
<1>1. /\ blockingKeys \in [Lists -> Seq(Clients)] /\ bpopKeys \in [Clients -> SUBSET Lists]
      /\ \A l \in Lists, d \in Clients : AtMostOnce(blockingKeys[l], d)
      /\ \A l \in Lists, d \in Clients : l \in bpopKeys[d] <=> Occurs(blockingKeys[l], d)
    BY DEF ListsInv, ListsType, Registered
<1>2. /\ bpopKeys' \in [Clients -> SUBSET Lists] /\ bpopKeys'[c] = {}
      /\ \A d \in Clients \ {c} : bpopKeys'[d] = bpopKeys[d]
    BY <1>1 DEF Detached, WithoutKeys
<1>3. /\ blockingKeys' = [l \in Lists |-> blockingKeys'[l]]
      /\ \A l \in Lists : blockingKeys'[l] = IF l \in bpopKeys[c] THEN Unlink(blockingKeys[l], c)
                                             ELSE blockingKeys[l]
    BY DEF Detached, Without
<1>4. ASSUME NEW l \in Lists, NEW d \in Clients
      PROVE  /\ blockingKeys'[l] \in Seq(Clients)
             /\ AtMostOnce(blockingKeys'[l], d)
             /\ Occurs(blockingKeys'[l], d) <=> Occurs(blockingKeys[l], d) /\ d # c
    <2>1. CASE l \in bpopKeys[c]
        <3>1. /\ Occurs(blockingKeys[l], c) /\ AtMostOnce(blockingKeys[l], c)
              /\ AtMostOnce(blockingKeys[l], d) /\ blockingKeys[l] \in Seq(Clients)
            BY <1>1, <2>1
        <3> QED BY <1>3, <2>1, <3>1, UnlinkProperties
    <2>2. CASE l \notin bpopKeys[c]
        BY <1>1, <1>3, <2>2
    <2> QED BY <2>1, <2>2
<1>5. blockingKeys' \in [Lists -> Seq(Clients)]
    BY <1>3, <1>4
<1>6. Registered'
    BY <1>1, <1>2, <1>4 DEF Registered
<1>7. ASSUME NEW l \in Lists, blockingKeys'[l] # <<>> PROVE blockingKeys[l] # <<>>
    <2>1. blockingKeys'[l] \in Seq(Clients) /\ blockingKeys[l] \in Seq(Clients)
        BY <1>1, <1>4
    <2>2. PICK d \in Clients : Occurs(blockingKeys'[l], d)
        BY <1>7, <2>1, SomeElement
    <2>3. Occurs(blockingKeys[l], d)
        BY <1>4, <2>2
    <2> QED BY <2>1, <2>3, SomeElement
<1>8. ASSUME NEW d \in Clients PROVE Blocked(d)' <=> Blocked(d) /\ d # c
    BY <1>2 DEF Blocked
<1> QED BY <1>2, <1>5, <1>6, <1>7, <1>8

\* A push keeps it: the one client that leaves its queues was the one served.
LEMMA PushKeeps ==
    ASSUME ListsInv, NEW l \in Lists, NEW e \in Elements,
           Pushed(l, e) \/ \E c \in Clients : Served(c, e)
    PROVE  ListsInv'
<1>1. /\ lists \in [Lists -> Seq(Elements)] /\ reply \in [Clients -> Elements \cup {Nil, NoReply}]
    BY DEF ListsInv, ListsType
<1>2. CASE Pushed(l, e)
    <2>1. PICK r \in {<<e>> \o lists[l], Append(lists[l], e)} : lists' = [lists EXCEPT ![l] = r]
        BY <1>2 DEF Pushed
    <2>2. r \in Seq(Elements)
        <3>1. lists[l] \in Seq(Elements) /\ <<e>> \in Seq(Elements)
            BY <1>1
        <3>2. <<e>> \o lists[l] \in Seq(Elements)
            BY <3>1, ConcatProperties
        <3>3. Append(lists[l], e) \in Seq(Elements)
            BY <3>1, AppendProperties
        <3> QED BY <3>2, <3>3
    <2>3. lists' \in [Lists -> Seq(Elements)] /\ \A k \in Lists \ {l} : lists'[k] = lists[k]
        BY <1>1, <2>1, <2>2
    <2>4. UNCHANGED <<blockingKeys, bpopKeys, reply>> /\ blockingKeys[l] = <<>>
        BY <1>2 DEF Pushed
    <2>5. ListsType' /\ Registered' /\ WaitingUnanswered'
        BY <2>3, <2>4 DEF ListsInv, ListsType, Registered, WaitingUnanswered, Blocked
    <2>6. NoOneWaitsInVain'
        BY <2>3, <2>4 DEF ListsInv, NoOneWaitsInVain
    <2> QED BY <2>5, <2>6 DEF ListsInv
<1>3. ASSUME NEW c \in Clients, Served(c, e) PROVE ListsInv'
    <2>1. /\ blockingKeys' \in [Lists -> Seq(Clients)]
          /\ bpopKeys' \in [Clients -> SUBSET Lists]
          /\ Registered'
          /\ \A k \in Lists : blockingKeys'[k] # <<>> => blockingKeys[k] # <<>>
          /\ \A d \in Clients : Blocked(d)' <=> Blocked(d) /\ d # c
        BY <1>3, DetachKeeps DEF Served
    <2>2. lists' = lists /\ reply' = [reply EXCEPT ![c] = e]
        BY <1>3 DEF Served
    <2>3. ListsType'
        BY <1>1, <2>1, <2>2 DEF ListsType
    <2>4. WaitingUnanswered'
        BY <1>1, <2>1, <2>2 DEF ListsInv, WaitingUnanswered
    <2>5. NoOneWaitsInVain'
        BY <2>1, <2>2 DEF ListsInv, NoOneWaitsInVain
    <2> QED BY <2>1, <2>3, <2>4, <2>5 DEF ListsInv
<1> QED BY <1>2, <1>3

\* So does the end of a wait without an element.
LEMMA ReleaseKeeps ==
    ASSUME ListsInv, NEW c \in Clients, Released(c)
    PROVE  ListsInv'
<1>1. /\ lists \in [Lists -> Seq(Elements)] /\ reply \in [Clients -> Elements \cup {Nil, NoReply}]
    BY DEF ListsInv, ListsType
<1>2. /\ blockingKeys' \in [Lists -> Seq(Clients)]
      /\ bpopKeys' \in [Clients -> SUBSET Lists]
      /\ Registered'
      /\ \A k \in Lists : blockingKeys'[k] # <<>> => blockingKeys[k] # <<>>
      /\ \A d \in Clients : Blocked(d)' => Blocked(d) /\ d # c
    <2>1. CASE Blocked(c) /\ Detached(c)
        BY <2>1, DetachKeeps
    <2>2. CASE ~Blocked(c) /\ UNCHANGED <<blockingKeys, bpopKeys>>
        BY <2>2 DEF ListsInv, ListsType, Registered, Blocked
    <2> QED BY <2>1, <2>2 DEF Released
<1>3. PICK r \in {Nil, NoReply} : reply' = [reply EXCEPT ![c] = r]
    BY DEF Released
<1>4. lists' = lists
    BY DEF Released
<1>5. ListsType'
    BY <1>1, <1>2, <1>3, <1>4 DEF ListsType
<1>6. WaitingUnanswered'
    BY <1>1, <1>2, <1>3 DEF ListsInv, WaitingUnanswered
<1>7. NoOneWaitsInVain'
    BY <1>2, <1>4 DEF ListsInv, NoOneWaitsInVain
<1> QED BY <1>2, <1>5, <1>6, <1>7 DEF ListsInv

\* BRPOP that finds an element.
LEMMA PopKeeps ==
    ASSUME ListsInv, NEW c \in Clients, NEW l \in Lists, Popped(c, l)
    PROVE  ListsInv' /\ lists[l][Len(lists[l])] \in Elements
<1>1. /\ lists \in [Lists -> Seq(Elements)] /\ reply \in [Clients -> Elements \cup {Nil, NoReply}]
    BY DEF ListsInv, ListsType
<1>2. PICK r, e : r = SubSeq(lists[l], 1, Len(lists[l]) - 1) /\ e = lists[l][Len(lists[l])]
    OBVIOUS
<1>3. lists[l] \in Seq(Elements) /\ lists[l] # <<>>
    BY <1>1 DEF Popped
<1>4. r \in Seq(Elements) /\ e \in Elements
    BY <1>2, <1>3, Shorter
<1>5. lists' = [lists EXCEPT ![l] = r] /\ reply' = [reply EXCEPT ![c] = e]
    BY <1>2 DEF Popped
<1>6. ~Blocked(c) /\ UNCHANGED <<blockingKeys, bpopKeys>>
    BY DEF Popped
<1>7. ListsType'
    BY <1>1, <1>4, <1>5, <1>6 DEF ListsInv, ListsType
<1>8. Registered'
    BY <1>6 DEF ListsInv, Registered
<1>9. WaitingUnanswered'
    BY <1>1, <1>5, <1>6 DEF ListsInv, WaitingUnanswered, Blocked
<1>10. NoOneWaitsInVain'
    BY <1>1, <1>3, <1>5, <1>6 DEF ListsInv, NoOneWaitsInVain
<1> QED BY <1>2, <1>4, <1>7, <1>8, <1>9, <1>10 DEF ListsInv

\* BRPOP that finds none: the client was in no queue and is now in those of its
\* lists, all of which are empty.
LEMMA WaitKeeps ==
    ASSUME ListsInv, NEW c \in Clients, NEW keys \in SUBSET Lists, Waits(c, keys)
    PROVE  ListsInv'
<1>1. /\ blockingKeys \in [Lists -> Seq(Clients)] /\ bpopKeys \in [Clients -> SUBSET Lists]
      /\ \A l \in Lists, d \in Clients : AtMostOnce(blockingKeys[l], d)
      /\ \A l \in Lists, d \in Clients : l \in bpopKeys[d] <=> Occurs(blockingKeys[l], d)
    BY DEF ListsInv, ListsType, Registered
<1>2. /\ bpopKeys' \in [Clients -> SUBSET Lists] /\ bpopKeys'[c] = keys /\ bpopKeys[c] = {}
      /\ \A d \in Clients \ {c} : bpopKeys'[d] = bpopKeys[d]
    BY <1>1 DEF Waits, Blocked
<1>3. /\ blockingKeys' = [l \in Lists |-> blockingKeys'[l]]
      /\ \A l \in Lists : blockingKeys'[l] = IF l \in keys THEN Append(blockingKeys[l], c)
                                             ELSE blockingKeys[l]
    BY DEF Waits
<1>4. ASSUME NEW l \in Lists, NEW d \in Clients
      PROVE  /\ blockingKeys'[l] \in Seq(Clients)
             /\ AtMostOnce(blockingKeys'[l], d)
             /\ Occurs(blockingKeys'[l], d) <=> Occurs(blockingKeys[l], d) \/ (l \in keys /\ d = c)
    <2>1. CASE l \in keys
        <3>1. ~Occurs(blockingKeys[l], c) /\ AtMostOnce(blockingKeys[l], d) /\ blockingKeys[l] \in Seq(Clients)
            BY <1>1, <1>2
        <3>2. PICK q, r : q = blockingKeys[l] /\ r = Append(q, c)
            OBVIOUS
        <3>3. /\ r \in Seq(Clients) /\ r # <<>>
              /\ Occurs(r, d) <=> Occurs(q, d) \/ d = c
              /\ AtMostOnce(q, d) /\ (d = c => ~Occurs(q, d)) => AtMostOnce(r, d)
            <4>1. q \in Seq(Clients) /\ (r = <<c>> \o q \/ r = Append(q, c))
                BY <3>1, <3>2
            <4> QED BY <4>1, Longer
        <3>4. blockingKeys'[l] = r
            BY <1>3, <2>1, <3>2
        <3> QED BY <2>1, <3>1, <3>2, <3>3, <3>4
    <2>2. CASE l \notin keys
        BY <1>1, <1>3, <2>2
    <2> QED BY <2>1, <2>2
<1>5. blockingKeys' \in [Lists -> Seq(Clients)]
    BY <1>3, <1>4
<1>6. Registered'
    BY <1>1, <1>2, <1>4 DEF Registered
<1>7. lists' = lists /\ reply' = reply /\ reply[c] = NoReply /\ \A l \in keys : lists[l] = <<>>
    BY DEF Waits
<1>8. ListsType'
    BY <1>2, <1>5, <1>7 DEF ListsInv, ListsType
<1>9. WaitingUnanswered'
    BY <1>2, <1>7 DEF ListsInv, WaitingUnanswered, Blocked
<1>10. NoOneWaitsInVain'
    BY <1>3, <1>7 DEF ListsInv, NoOneWaitsInVain
<1> QED BY <1>6, <1>8, <1>9, <1>10 DEF ListsInv

-----------------------------------------------------------------------------
(* The invariant of the queue. *)

QueueType ==
    /\ sent \in 0..MaxMessages
    /\ unacked \subseteq Elements
    /\ worker \in [Workers -> Worker]
    /\ begun \in [Elements -> Nat]

\* A worker that has stopped has no connection, and what runs was begun.
WorkerInv ==
    \A w \in Workers :
        /\ Is(w, "down") => ~Blocked(w) /\ reply[w] = NoReply
        /\ worker[w].runs # None => begun[worker[w].runs] > 0

InLists(m) == \E l \in Lists : Occurs(lists[l], m)
InReplies(m) == \E w \in Workers : reply[w] = m
InKept(m) == \E w \in Workers : Occurs(worker[w].kept, m)

\* A message that is not exposed is in one place at most: in a list, on its way
\* to a worker, with a worker, or begun.
OnePlace(m) ==
    /\ m > sent => begun[m] = 0
    /\ begun[m] <= 1
    /\ m > sent \/ begun[m] > 0 => ~InLists(m) /\ ~InReplies(m) /\ ~InKept(m)
    /\ InLists(m) => ~InReplies(m) /\ ~InKept(m)
    /\ InReplies(m) => ~InKept(m)
    /\ \A k, l \in Lists : Occurs(lists[k], m) /\ Occurs(lists[l], m) => k = l
    /\ \A l \in Lists : AtMostOnce(lists[l], m)
    /\ \A v, w \in Workers : reply[v] = m /\ reply[w] = m => v = w
    /\ \A v, w \in Workers : Occurs(worker[v].kept, m) /\ Occurs(worker[w].kept, m) => v = w
    /\ \A w \in Workers : AtMostOnce(worker[w].kept, m)

Once == \A m \in Elements \ exposed : OnePlace(m)

IInv == ListsInv /\ QueueType /\ WorkerInv /\ LostOnlyInPop /\ Once

\* A worker runs the message and has not acknowledged it.
RunsUnacked(w, m) == worker[w].runs = m /\ ~worker[w].acked

\* A message in the hash is neither in a list nor on its way, and if it was
\* begun, the worker that runs it is about to acknowledge it.
Hashed(m) ==
    m \in unacked => /\ m <= sent
                     /\ ~InLists(m) /\ ~InReplies(m)
                     /\ begun[m] > 0 => \E w \in Workers : RunsUnacked(w, m)

\* This holds of all messages that are not exposed; a dead worker runs none.
HashInv ==
    /\ \A m \in Elements \ exposed : Hashed(m)
    /\ \A w \in Workers : worker[w].state \in {"dead", "down"} => worker[w].runs = None

-----------------------------------------------------------------------------
(* Where a message is, before and after a command. *)

\* The message is in no more places of the lists and the replies than before.
ListsFewer(m) ==
    /\ \A l \in Lists : Occurs(lists'[l], m) => Occurs(lists[l], m)
    /\ \A l \in Lists : AtMostOnce(lists[l], m) => AtMostOnce(lists'[l], m)
    /\ \A w \in Workers : reply'[w] = m => reply[w] = m

\* It is neither lost from the queue nor from the replies.
ListsMore(m) ==
    /\ Occurs(lists[Queue], m) => Occurs(lists'[Queue], m)
    /\ \A w \in Workers : reply[w] = m => reply'[w] = m

\* It is with no more workers than before, and not begun again.
KeptFewer(m) ==
    /\ \A w \in Workers : Occurs(worker'[w].kept, m) => Occurs(worker[w].kept, m)
    /\ \A w \in Workers : AtMostOnce(worker[w].kept, m) => AtMostOnce(worker'[w].kept, m)
    /\ begun'[m] = begun[m]

\* The lists of the configuration.
LEMMA ConfiguredLists ==
    Queue \in Lists /\ Polled \in Seq(Lists) /\ {Polled[i] : i \in DOMAIN Polled} \in SUBSET Lists
<1>1. Polled \in Seq(Lists) /\ Queue \in {Polled[i] : i \in DOMAIN Polled}
    BY QueueAssumption
<1>2. \A i \in DOMAIN Polled : Polled[i] \in Lists
    BY <1>1, LenProperties, ElementOfSeq
<1> QED BY <1>1, <1>2

\* A reply that is a message is neither of the other replies, and 0 is none.
LEMMA ProperMessages ==
    ASSUME NEW m \in Elements
    PROVE  m # Nil /\ m # NoReply /\ m # None /\ m \in Nat /\ m <= MaxMessages
BY ListsAssumption, QueueAssumption DEF None

\* A push moves no other message.
LEMMA PushOthers ==
    ASSUME ListsInv, NEW l \in Lists, NEW e \in Elements,
           Pushed(l, e) \/ \E c \in Clients : Served(c, e),
           NEW m \in Elements, m # e
    PROVE  ListsFewer(m) /\ ListsMore(m)
<1>1. lists \in [Lists -> Seq(Elements)] /\ reply \in [Clients -> Elements \cup {Nil, NoReply}]
    BY DEF ListsInv, ListsType
<1>2. CASE Pushed(l, e)
    <2>1. PICK r \in {<<e>> \o lists[l], Append(lists[l], e)} : lists' = [lists EXCEPT ![l] = r]
        BY <1>2 DEF Pushed
    <2>2. PICK s : /\ s = lists[l] /\ s \in Seq(Elements)
                   /\ r = <<e>> \o s \/ r = Append(s, e)
        BY <1>1, <2>1
    <2>3. /\ Occurs(r, m) <=> Occurs(s, m) \/ m = e
          /\ AtMostOnce(s, m) /\ (m = e => ~Occurs(s, m)) => AtMostOnce(r, m)
        BY <2>2, Longer
    <2>4. (Occurs(r, m) <=> Occurs(s, m)) /\ (AtMostOnce(s, m) => AtMostOnce(r, m))
        BY <2>3
    <2>5. lists'[l] = r /\ \A k \in Lists \ {l} : lists'[k] = lists[k]
        BY <1>1, <2>1
    <2>6. reply' = reply
        BY <1>2 DEF Pushed
    <2> QED BY <2>2, <2>3, <2>4, <2>5, <2>6, ConfiguredLists DEF ListsFewer, ListsMore
<1>3. ASSUME NEW c \in Clients, Served(c, e) PROVE ListsFewer(m) /\ ListsMore(m)
    <2>1. lists' = lists /\ reply' = [reply EXCEPT ![c] = e] /\ reply[c] = NoReply
        BY <1>3 DEF Served, ListsInv, WaitingUnanswered
    <2>2. \A w \in Workers : reply'[w] = m <=> reply[w] = m
        BY <1>1, <2>1, ProperMessages DEF Workers
    <2> QED BY <2>1, <2>2 DEF ListsFewer, ListsMore
<1> QED BY <1>2, <1>3

\* The message that is pushed is in the list, or with the client served.
LEMMA PushIt ==
    ASSUME ListsInv, NEW l \in Lists, NEW e \in Elements,
           Pushed(l, e) \/ \E c \in Clients : Served(c, e)
    PROVE  \/ /\ Occurs(lists'[l], e) /\ reply' = reply
              /\ \A k \in Lists \ {l} : lists'[k] = lists[k]
              /\ ~Occurs(lists[l], e) /\ AtMostOnce(lists[l], e) => AtMostOnce(lists'[l], e)
           \/ \E c \in Clients : /\ lists' = lists /\ Blocked(c) /\ reply'[c] = e
                                 /\ \A v \in Clients \ {c} : reply'[v] = reply[v]
<1>1. lists \in [Lists -> Seq(Elements)] /\ reply \in [Clients -> Elements \cup {Nil, NoReply}]
    BY DEF ListsInv, ListsType
<1>2. CASE Pushed(l, e)
    <2>1. PICK r \in {<<e>> \o lists[l], Append(lists[l], e)} : lists' = [lists EXCEPT ![l] = r]
        BY <1>2 DEF Pushed
    <2>2. PICK s : /\ s = lists[l] /\ s \in Seq(Elements)
                   /\ r = <<e>> \o s \/ r = Append(s, e)
        BY <1>1, <2>1
    <2>3. ASSUME NEW m, m = e
          PROVE  /\ Occurs(r, m) <=> Occurs(s, m) \/ m = e
                 /\ AtMostOnce(s, m) /\ (m = e => ~Occurs(s, m)) => AtMostOnce(r, m)
        BY <2>2, Longer
    <2>4. Occurs(r, e) /\ (AtMostOnce(s, e) /\ ~Occurs(s, e) => AtMostOnce(r, e))
        BY <2>3
    <2>5. lists'[l] = r /\ \A k \in Lists \ {l} : lists'[k] = lists[k]
        BY <1>1, <2>1
    <2>6. reply' = reply
        BY <1>2 DEF Pushed
    <2> QED BY <2>2, <2>3, <2>4, <2>5, <2>6
<1>3. ASSUME NEW c \in Clients, Served(c, e)
      PROVE  /\ lists' = lists /\ Blocked(c) /\ reply'[c] = e
             /\ \A v \in Clients \ {c} : reply'[v] = reply[v]
    BY <1>1, <1>3 DEF Served
<1> QED BY <1>2, <1>3

\* A pop moves the last message of a list to the client, and no other.
LEMMA PopMoves ==
    ASSUME ListsInv, NEW c \in Clients, NEW l \in Lists, Popped(c, l), NEW m \in Elements
    PROVE  LET e == lists[l][Len(lists[l])] IN
           /\ m # e => ListsFewer(m) /\ ListsMore(m)
           /\ m = e => /\ Occurs(lists[l], m) /\ reply'[c] = m
                       /\ \A v \in Clients \ {c} : reply'[v] = reply[v]
                       /\ \A k \in Lists \ {l} : lists'[k] = lists[k]
                       /\ AtMostOnce(lists[l], m) => ~Occurs(lists'[l], m) /\ AtMostOnce(lists'[l], m)
<1>1. lists \in [Lists -> Seq(Elements)] /\ reply \in [Clients -> Elements \cup {Nil, NoReply}]
    BY DEF ListsInv, ListsType
<1>2. PICK s, r, e : s = lists[l] /\ r = SubSeq(s, 1, Len(s) - 1) /\ e = s[Len(s)]
    OBVIOUS
<1>3. s \in Seq(Elements) /\ s # <<>>
    BY <1>1, <1>2 DEF Popped
<1>4. /\ Occurs(s, e)
      /\ Occurs(s, m) <=> Occurs(r, m) \/ m = e
      /\ AtMostOnce(s, m) => AtMostOnce(r, m) /\ (m = e => ~Occurs(r, m))
    <2>1. \/ r = SubSeq(s, 1, Len(s) - 1) /\ e = s[Len(s)]
          \/ r = Tail(s) /\ e = Head(s)
        BY <1>2
    <2> QED BY <1>3, <2>1, Shorter
<1>5. /\ lists' = [lists EXCEPT ![l] = r] /\ reply' = [reply EXCEPT ![c] = e]
      /\ reply[c] = NoReply
    BY <1>2 DEF Popped
<1>6. /\ lists'[l] = r /\ \A k \in Lists \ {l} : lists'[k] = lists[k]
      /\ reply'[c] = e /\ \A v \in Clients \ {c} : reply'[v] = reply[v]
    BY <1>1, <1>5
<1>7. ASSUME m # e PROVE ListsFewer(m) /\ ListsMore(m)
    <2>1. \A w \in Workers : reply'[w] = m <=> reply[w] = m
        BY <1>5, <1>6, <1>7, ProperMessages DEF Workers
    <2>2. \A k \in Lists : /\ Occurs(lists'[k], m) <=> Occurs(lists[k], m)
                           /\ AtMostOnce(lists[k], m) => AtMostOnce(lists'[k], m)
        BY <1>2, <1>4, <1>6, <1>7
    <2> QED BY <2>1, <2>2, ConfiguredLists DEF ListsFewer, ListsMore
<1>8. ASSUME m = e
      PROVE  /\ Occurs(lists[l], m) /\ reply'[c] = m
             /\ \A v \in Clients \ {c} : reply'[v] = reply[v]
             /\ \A k \in Lists \ {l} : lists'[k] = lists[k]
             /\ AtMostOnce(lists[l], m) => ~Occurs(lists'[l], m) /\ AtMostOnce(lists'[l], m)
    BY <1>2, <1>4, <1>6, <1>8
<1> QED BY <1>2, <1>7, <1>8

\* A client that is released hands no message to anyone; if it was waiting,
\* no message is gone either.
LEMMA ReleaseOthers ==
    ASSUME ListsInv, NEW c \in Clients, Released(c), NEW m \in Elements
    PROVE  /\ ListsFewer(m)
           /\ lists' = lists /\ \A v \in Clients \ {c} : reply'[v] = reply[v]
           /\ Blocked(c) => ListsMore(m)
<1>1. lists \in [Lists -> Seq(Elements)] /\ reply \in [Clients -> Elements \cup {Nil, NoReply}]
    BY DEF ListsInv, ListsType
<1>2. PICK r \in {Nil, NoReply} : reply' = [reply EXCEPT ![c] = r]
    BY DEF Released
<1>3. lists' = lists
    BY DEF Released
<1>4. m # r
    BY ProperMessages
<1>5. reply'[c] = r /\ \A v \in Clients \ {c} : reply'[v] = reply[v]
    BY <1>1, <1>2
<1>6. ListsFewer(m)
    BY <1>3, <1>4, <1>5 DEF ListsFewer, Workers
<1>7. Blocked(c) => reply[c] = NoReply
    BY DEF ListsInv, WaitingUnanswered
<1>8. Blocked(c) => ListsMore(m)
    BY <1>3, <1>5, <1>7, ProperMessages DEF ListsMore, Workers
<1> QED BY <1>3, <1>5, <1>6, <1>8

\* A message that is in no more places than before is in one place at most.
LEMMA FewerKeeps ==
    ASSUME QueueType, QueueType', NEW m \in Elements, OnePlace(m), sent <= sent',
           ListsFewer(m), KeptFewer(m)
    PROVE  OnePlace(m)'
<1>1. sent \in Nat /\ sent' \in Nat /\ m \in Nat
    BY ProperMessages, QueueAssumption DEF QueueType
<1>2. m > sent' => m > sent
    BY <1>1
<1>3. (InLists(m)' => InLists(m)) /\ (InReplies(m)' => InReplies(m)) /\ (InKept(m)' => InKept(m))
    BY DEF InLists, InReplies, InKept, ListsFewer, KeptFewer
<1>4. begun'[m] = begun[m]
    BY DEF KeptFewer
<1>5. (begun[m] <= 1)' /\ (m > sent => begun[m] = 0)'
    BY <1>2, <1>4 DEF OnePlace
<1>6. (m > sent \/ begun[m] > 0 => ~InLists(m) /\ ~InReplies(m) /\ ~InKept(m))'
    BY <1>2, <1>3, <1>4 DEF OnePlace
<1>7. (InLists(m) => ~InReplies(m) /\ ~InKept(m))' /\ (InReplies(m) => ~InKept(m))'
    BY <1>3 DEF OnePlace
<1>8. /\ \A k, l \in Lists : Occurs(lists'[k], m) /\ Occurs(lists'[l], m) => k = l
      /\ \A l \in Lists : AtMostOnce(lists'[l], m)
      /\ \A v, w \in Workers : reply'[v] = m /\ reply'[w] = m => v = w
    BY DEF OnePlace, ListsFewer
<1>9. /\ \A v, w \in Workers : Occurs(worker'[v].kept, m) /\ Occurs(worker'[w].kept, m) => v = w
      /\ \A w \in Workers : AtMostOnce(worker'[w].kept, m)
    BY DEF OnePlace, KeptFewer
<1> QED BY <1>5, <1>6, <1>7, <1>8, <1>9 DEF OnePlace
-----------------------------------------------------------------------------
(* The steps. *)

\* The task has not been lost silently.
Known(m) == m \in unacked \/ m \in dropped \/ begun[m] > 0 \/ Occurs(lists[Queue], m) \/ OnItsWay(m)

\* The connection of the worker waits for nothing and has no reply.
Idle(w) == ~Blocked(w) /\ reply[w] = NoReply

\* The invariant, taken apart.
LEMMA Facts ==
    ASSUME IInv
    PROVE  /\ lists \in [Lists -> Seq(Elements)]
           /\ reply \in [Workers -> Elements \cup {Nil, NoReply}]
           /\ sent \in Nat /\ sent <= MaxMessages /\ MaxMessages \in Nat
           /\ unacked \subseteq Elements
           /\ worker \in [Workers -> Worker]
           /\ begun \in [Elements -> Nat]
           /\ 1..sent \subseteq Elements
           /\ \A w \in Workers : Is(w, "down") => Idle(w)
           /\ \A w \in Workers : worker[w].runs # None => begun[worker[w].runs] > 0
           /\ \A m \in 1..sent : Known(m)
           /\ \A m \in Elements \ exposed : OnePlace(m)
<1>1. MaxMessages \in Nat /\ Elements = 1..MaxMessages
    BY QueueAssumption
<1>2. sent \in Nat /\ sent <= MaxMessages /\ 1..sent \subseteq Elements
    BY <1>1 DEF IInv, QueueType
<1>3. \A m \in 1..sent : Known(m)
    BY DEF IInv, LostOnlyInPop, Known, Occurs, InQueue
<1>4. /\ \A w \in Workers : Is(w, "down") => Idle(w)
      /\ \A w \in Workers : worker[w].runs # None => begun[worker[w].runs] > 0
    BY DEF IInv, WorkerInv, Idle
<1> QED BY <1>1, <1>2, <1>3, <1>4 DEF IInv, ListsInv, ListsType, QueueType, Once, Workers

\* The invariant, put together after a step.  A message that was not put back
\* is in no more places than before, or its new places are accounted for.
LEMMA Together ==
    ASSUME IInv, ListsInv', QueueType', exposed \subseteq exposed', sent <= sent',
           \A w \in Workers : /\ Is(w, "down")' => Idle(w)'
                              /\ worker'[w].runs # None => begun'[worker'[w].runs] > 0,
           \A m \in 1..sent' : Known(m)',
           \A m \in Elements \ exposed' : OnePlace(m)' \/ (ListsFewer(m) /\ KeptFewer(m))
    PROVE  IInv'
<1>1. WorkerInv'
    BY DEF WorkerInv, Idle
<1>2. LostOnlyInPop'
    BY DEF LostOnlyInPop, Known, Occurs, InQueue
<1>3. Once'
    <2> SUFFICES ASSUME NEW m \in Elements \ exposed', ListsFewer(m), KeptFewer(m) PROVE OnePlace(m)'
        BY DEF Once
    <2>1. QueueType /\ OnePlace(m)
        BY DEF IInv, Once
    <2> QED BY <2>1, FewerKeeps
<1> QED BY <1>1, <1>2, <1>3 DEF IInv

\* What a push to the queue gives.
LEMMA PushToQueue ==
    ASSUME IInv, NEW e \in Elements, LPush(Queue, e) \/ RPush(Queue, e)
    PROVE  /\ ListsInv'
           /\ \A w \in Workers : Idle(w) => Idle(w)'
           /\ \A m \in Elements \ {e} : ListsFewer(m) /\ ListsMore(m)
           /\ \/ Occurs(lists'[Queue], e)
              \/ \E c \in Workers : reply'[c] = e /\ ~Is(c, "down")
<1>1. ListsInv /\ \A w \in Workers : Is(w, "down") => Idle(w)
    BY Facts DEF IInv
<1>2. Pushed(Queue, e) \/ \E c \in Clients : Served(c, e)
    BY <1>1, PushCommand, ConfiguredLists
<1>3. ListsInv'
    BY <1>1, <1>2, PushKeeps, ConfiguredLists
<1>4. \A m \in Elements \ {e} : ListsFewer(m) /\ ListsMore(m)
    BY <1>1, <1>2, PushOthers, ConfiguredLists
<1>5. \A w \in Workers : Idle(w) => Idle(w)'
    <2>1. CASE Pushed(Queue, e)
        BY <2>1 DEF Pushed, Idle, Blocked
    <2>2. ASSUME NEW c \in Clients, Served(c, e), NEW w \in Workers, Idle(w) PROVE Idle(w)'
        <3>1. Blocked(c) /\ Detached(c) /\ reply' = [reply EXCEPT ![c] = e]
            BY <2>2 DEF Served
        <3>2. w # c
            BY <2>2, <3>1 DEF Idle
        <3>3. \A d \in Clients : Blocked(d)' <=> Blocked(d) /\ d # c
            BY <1>1, <3>1, DetachKeeps
        <3>4. reply'[w] = reply[w]
            BY <3>1, <3>2, Facts DEF Workers
        <3> QED BY <2>2, <3>3, <3>4 DEF Idle, Workers
    <2> QED BY <1>2, <2>1, <2>2
<1>6. Occurs(lists'[Queue], e) \/ \E c \in Clients : Blocked(c) /\ reply'[c] = e
    BY <1>1, <1>2, PushIt, ConfiguredLists
<1>7. ASSUME NEW c \in Clients, Blocked(c) PROVE ~Is(c, "down")
    BY <1>1, <1>7 DEF Idle, Workers
<1> QED BY <1>3, <1>4, <1>5, <1>6, <1>7 DEF Workers
\* The message pushed to the queue is known, whoever is served.
LEMMA PushedKnown ==
    ASSUME IInv, NEW e \in Elements,
           LPush(Queue, e) \/ RPush(Queue, e), dropped' = dropped \cup ToTheDead(reply'),
           \A w \in Workers : worker'[w].state = worker[w].state
    PROVE  Known(e)'
<1>1. CASE Occurs(lists'[Queue], e)
    BY <1>1 DEF Known
<1>2. ASSUME NEW c \in Workers, reply'[c] = e, ~Is(c, "down") PROVE Known(e)'
    <2>1. worker[c].state \in {"up", "stopping", "dead"}
        BY <1>2, Facts DEF Worker, Is
    <2>2. CASE worker[c].state = "dead"
        BY <1>2, <2>2 DEF ToTheDead, Is, Known
    <2>3. CASE worker[c].state \in {"up", "stopping"}
        <3>1. OnItsWay(e)'
            BY <1>2, <2>3 DEF OnItsWay
        <3> QED BY <3>1 DEF Known
    <2> QED BY <2>1, <2>2, <2>3
<1> QED BY <1>1, <1>2, PushToQueue

\* A message that a command of another leaves where it is stays known.
LEMMA OthersKnown ==
    ASSUME NEW m \in Elements, Known(m), ListsMore(m), m \in unacked => m \in unacked',
           dropped \subseteq dropped', begun'[m] = begun[m],
           \A w \in Workers : worker'[w].state = worker[w].state
    PROVE  Known(m)'
BY DEF Known, ListsMore, OnItsWay

\* A message that was nowhere and is pushed to the queue is in one place.
LEMMA PushOnePlace ==
    ASSUME IInv, NEW e \in Elements, LPush(Queue, e) \/ RPush(Queue, e),
           ~InLists(e), ~InReplies(e), \A l \in Lists : AtMostOnce(lists[l], e),
           ~InKept(e)', \A w \in Workers : AtMostOnce(worker'[w].kept, e),
           begun'[e] = 0, ~(e > sent')
    PROVE  OnePlace(e)'
<1>1. (\A l \in Lists : ~Occurs(lists[l], e)) /\ (\A w \in Workers : reply[w] # e)
    BY DEF InLists, InReplies
<1>2. Pushed(Queue, e) \/ \E c \in Clients : Served(c, e)
    BY PushCommand, ConfiguredLists DEF IInv
<1>3. \/ /\ Occurs(lists'[Queue], e) /\ reply' = reply
         /\ \A k \in Lists \ {Queue} : lists'[k] = lists[k]
         /\ ~Occurs(lists[Queue], e) /\ AtMostOnce(lists[Queue], e) => AtMostOnce(lists'[Queue], e)
      \/ \E c \in Clients : /\ lists' = lists /\ Blocked(c) /\ reply'[c] = e
                            /\ \A v \in Clients \ {c} : reply'[v] = reply[v]
    BY <1>2, PushIt, ConfiguredLists DEF IInv
<1>4. /\ InLists(e)' => ~InReplies(e)'
      /\ \A k, l \in Lists : Occurs(lists'[k], e) /\ Occurs(lists'[l], e) => k = l
      /\ \A l \in Lists : AtMostOnce(lists'[l], e)
      /\ \A v, w \in Workers : reply'[v] = e /\ reply'[w] = e => v = w
    <2>1. CASE /\ reply' = reply
               /\ \A k \in Lists \ {Queue} : lists'[k] = lists[k]
               /\ ~Occurs(lists[Queue], e) /\ AtMostOnce(lists[Queue], e) => AtMostOnce(lists'[Queue], e)
        BY <1>1, <2>1, ConfiguredLists DEF InReplies
    <2>2. ASSUME NEW c \in Clients, lists' = lists, \A v \in Clients \ {c} : reply'[v] = reply[v]
          PROVE  /\ ~InLists(e)'
                 /\ \A k, l \in Lists : Occurs(lists'[k], e) /\ Occurs(lists'[l], e) => k = l
                 /\ \A l \in Lists : AtMostOnce(lists'[l], e)
                 /\ \A v, w \in Workers : reply'[v] = e /\ reply'[w] = e => v = w
        BY <1>1, <2>2 DEF InLists, Workers
    <2> QED BY <1>3, <2>1, <2>2
<1>5. \A v, w \in Workers : Occurs(worker'[v].kept, e) /\ Occurs(worker'[w].kept, e) => v = w
    BY DEF InKept
<1> QED BY <1>4, <1>5 DEF OnePlace

\* .delay: the message is new.
LEMMA DelayStep ==
    ASSUME IInv, Delay
    PROVE  IInv'
<1>1. PICK e : e = sent + 1
    OBVIOUS
<1>2. /\ e \in Elements /\ sent' = e /\ e \in Nat /\ e <= MaxMessages
      /\ UNCHANGED <<unacked, worker, begun, exposed>>
      /\ LPush(Queue, e) /\ dropped' = dropped \cup ToTheDead(reply')
    BY <1>1, Facts, QueueAssumption DEF Delay
<1>3. /\ ListsInv' /\ \A w \in Workers : Idle(w) => Idle(w)'
      /\ \A m \in Elements \ {e} : ListsFewer(m) /\ ListsMore(m)
    BY <1>2, PushToQueue
<1>4. QueueType'
    BY <1>2, Facts DEF QueueType
<1>5. \A w \in Workers : /\ Is(w, "down")' => Idle(w)'
                         /\ worker'[w].runs # None => begun'[worker'[w].runs] > 0
    BY <1>2, <1>3, Facts DEF Is
<1>6. ASSUME NEW m \in 1..sent' PROVE Known(m)'
    <2>1. CASE m = e
        <3>1. Known(e)'
            BY <1>2, PushedKnown
        <3> QED BY <2>1, <3>1
    <2>2. CASE m # e
        <3>1. m \in 1..sent
            BY <1>1, <1>2, <2>2, Facts
        <3>2. Known(m) /\ m \in Elements
            BY <3>1, Facts
        <3> QED BY <1>2, <1>3, <2>2, <3>2, OthersKnown
    <2> QED BY <2>1, <2>2
<1>7. ASSUME NEW m \in Elements \ exposed' PROVE OnePlace(m)' \/ (ListsFewer(m) /\ KeptFewer(m))
    <2>1. CASE m # e
        BY <1>2, <1>3, <2>1 DEF KeptFewer
    <2>2. CASE m = e
        <3>1. OnePlace(e)
            BY <1>2, <2>2, Facts
        <3>2. e > sent
            BY <1>1, Facts
        <3>3. begun[e] = 0 /\ ~InLists(e) /\ ~InReplies(e) /\ ~InKept(e)
            BY <3>1, <3>2 DEF OnePlace
        <3>4. \A l \in Lists : AtMostOnce(lists[l], e)
            BY <3>1 DEF OnePlace
        <3>5. ~InKept(e)' /\ begun'[e] = 0 /\ ~(e > sent')
            BY <1>2, <3>3 DEF InKept
        <3>6. \A w \in Workers : AtMostOnce(worker'[w].kept, e)
            BY <1>2, <3>1 DEF OnePlace
        <3>7. OnePlace(e)'
            BY <1>2, <3>3, <3>4, <3>5, <3>6, PushOnePlace
        <3> QED BY <2>2, <3>7
    <2> QED BY <2>1, <2>2
<1>8. exposed \subseteq exposed' /\ sent <= sent'
    BY <1>1, <1>2, Facts
<1> QED BY <1>3, <1>4, <1>5, <1>6, <1>7, <1>8, Together

\* The message that is popped leaves its only place for the reply to the client.
LEMMA PopOnePlace ==
    ASSUME IInv, NEW w \in Workers, NEW l \in Lists, Popped(w, l), UNCHANGED queueVars,
           NEW e \in Elements, e = lists[l][Len(lists[l])], OnePlace(e)
    PROVE  OnePlace(e)'
<1>1. /\ Occurs(lists[l], e) /\ reply'[w] = e
      /\ \A v \in Workers \ {w} : reply'[v] = reply[v]
      /\ \A k \in Lists \ {l} : lists'[k] = lists[k]
      /\ AtMostOnce(lists[l], e) => ~Occurs(lists'[l], e) /\ AtMostOnce(lists'[l], e)
    BY PopMoves DEF IInv, Workers
<1>2. UNCHANGED <<sent, worker, begun>>
    BY DEF queueVars
<1>3. InLists(e)
    BY <1>1 DEF InLists
<1>4. ~InReplies(e) /\ ~InKept(e) /\ ~(e > sent) /\ ~(begun[e] > 0)
    BY <1>3 DEF OnePlace
<1>5. /\ \A k \in Lists : AtMostOnce(lists[k], e)
      /\ \A k, j \in Lists : Occurs(lists[k], e) /\ Occurs(lists[j], e) => k = j
    BY DEF OnePlace
<1>6. \A k \in Lists : ~Occurs(lists'[k], e) /\ AtMostOnce(lists'[k], e)
    BY <1>1, <1>5
<1>7. ~InLists(e)' /\ ~InKept(e)' /\ ~(e > sent') /\ ~(begun'[e] > 0) /\ begun'[e] <= 1
    BY <1>2, <1>4, <1>6 DEF InLists, InKept, OnePlace
<1>8. \A v, u \in Workers : reply'[v] = e /\ reply'[u] = e => v = u
    BY <1>1, <1>4 DEF InReplies
<1>9. \A v, u \in Workers : Occurs(worker'[v].kept, e) /\ Occurs(worker'[u].kept, e) => v = u
    BY <1>2 DEF OnePlace
<1>10. \A v \in Workers : AtMostOnce(worker'[v].kept, e)
    BY <1>2 DEF OnePlace
<1> QED BY <1>6, <1>7, <1>8, <1>9, <1>10 DEF OnePlace

\* BRPOP of a worker that runs.
LEMMA PollStep ==
    ASSUME IInv, NEW w \in Workers, Poll(w)
    PROVE  IInv'
<1>1. UNCHANGED queueVars /\ worker[w].state = "up" /\ BRPop(w, Polled)
    BY DEF Poll, Is
<1>2. UNCHANGED <<sent, unacked, worker, begun, exposed, dropped>>
    BY <1>1 DEF queueVars
<1>3. QueueType' /\ exposed \subseteq exposed' /\ sent <= sent'
    BY <1>2, Facts DEF QueueType
<1>4. ListsInv /\ w \in Clients
    BY DEF IInv, Workers
<1>5. ASSUME ListsInv', \A v \in Workers \ {w} : Idle(v) => Idle(v)',
             \A m \in Elements : \/ ListsFewer(m) /\ ListsMore(m)
                                 \/ reply'[w] = m /\ (OnePlace(m) => OnePlace(m)')
      PROVE  IInv'
    <2>1. \A v \in Workers : /\ Is(v, "down")' => Idle(v)'
                             /\ worker'[v].runs # None => begun'[worker'[v].runs] > 0
        BY <1>1, <1>2, <1>5, Facts DEF Is
    <2>2. ASSUME NEW m \in 1..sent' PROVE Known(m)'
        <3>1. m \in Elements /\ Known(m)
            BY <1>2, Facts
        <3>2. CASE ListsMore(m)
            BY <1>2, <3>1, <3>2, OthersKnown
        <3>3. CASE reply'[w] = m
            BY <1>1, <1>2, <3>3 DEF Known, OnItsWay
        <3> QED BY <1>5, <3>1, <3>2, <3>3
    <2>3. ASSUME NEW m \in Elements \ exposed' PROVE OnePlace(m)' \/ (ListsFewer(m) /\ KeptFewer(m))
        <3>1. OnePlace(m) /\ KeptFewer(m)
            BY <1>2, Facts DEF KeptFewer
        <3> QED BY <1>5, <3>1
    <2> QED BY <1>3, <1>5, <2>1, <2>2, <2>3, Together
<1>6. ASSUME NEW l \in Lists, Popped(w, l) PROVE IInv'
    <2>1. PICK e : e = lists[l][Len(lists[l])]
        OBVIOUS
    <2>2. ListsInv' /\ e \in Elements
        BY <1>4, <1>6, <2>1, PopKeeps
    <2>3. \A m \in Elements : m # e => ListsFewer(m) /\ ListsMore(m)
        BY <1>4, <1>6, <2>1, PopMoves
    <2>4. reply'[w] = e /\ \A v \in Workers \ {w} : reply'[v] = reply[v]
        BY <1>4, <1>6, <2>1, <2>2, PopMoves DEF Workers
    <2>5. \A v \in Workers \ {w} : Idle(v) => Idle(v)'
        BY <1>6, <2>4 DEF Idle, Blocked, Popped
    <2>6. OnePlace(e) => OnePlace(e)'
        BY <1>1, <1>6, <2>1, <2>2, PopOnePlace
    <2> QED BY <1>5, <2>2, <2>3, <2>4, <2>5, <2>6
<1>7. ASSUME NEW keys \in SUBSET Lists, Waits(w, keys) PROVE IInv'
    <2>1. ListsInv'
        BY <1>4, <1>7, WaitKeeps
    <2>2. lists' = lists /\ reply' = reply
        BY <1>7 DEF Waits
    <2>3. \A v \in Workers \ {w} : bpopKeys'[v] = bpopKeys[v]
        BY <1>4, <1>7 DEF Waits, ListsInv, ListsType, Workers
    <2>4. \A v \in Workers \ {w} : Idle(v) => Idle(v)'
        BY <2>2, <2>3 DEF Idle, Blocked
    <2>5. \A m \in Elements : ListsFewer(m) /\ ListsMore(m)
        BY <2>2 DEF ListsFewer, ListsMore
    <2> QED BY <1>5, <2>1, <2>4, <2>5
<1> QED BY <1>1, <1>4, <1>6, <1>7, PopCommand, ConfiguredLists DEF ListsInv

\* The poll ends without a message.
LEMMA PollTimeoutStep ==
    ASSUME IInv, NEW w \in Workers, PollTimeout(w)
    PROVE  IInv'
<1>1. UNCHANGED <<sent, unacked, worker, begun, exposed, dropped>> /\ Blocked(w)
    BY DEF PollTimeout, BlockTimeout, queueVars
<1>2. ListsInv /\ w \in Clients
    BY DEF IInv, Workers
<1>3. Released(w)
    BY <1>2, ReleaseCommand DEF PollTimeout
<1>4. ListsInv'
    BY <1>2, <1>3, ReleaseKeeps
<1>5. \A m \in Elements : ListsFewer(m) /\ ListsMore(m)
    BY <1>1, <1>2, <1>3, ReleaseOthers
<1>6. QueueType' /\ exposed \subseteq exposed' /\ sent <= sent'
    BY <1>1, Facts DEF QueueType
<1>7. ASSUME NEW v \in Workers PROVE /\ Is(v, "down")' => Idle(v)'
                                     /\ worker'[v].runs # None => begun'[worker'[v].runs] > 0
    <2>1. Is(v, "down")' => Idle(v) /\ v # w
        BY <1>1, Facts DEF Is, Idle
    <2>2. v # w => reply'[v] = reply[v]
        BY <1>3, Facts DEF Released, Workers
    <2>3. v # w => bpopKeys'[v] = bpopKeys[v]
        BY <1>1, <1>2, <1>3 DEF Released, Detached, WithoutKeys, ListsInv, ListsType, Workers
    <2>4. Is(v, "down")' => Idle(v)'
        BY <2>1, <2>2, <2>3 DEF Idle, Blocked
    <2> QED BY <1>1, <2>4, Facts
<1>8. ASSUME NEW m \in 1..sent' PROVE Known(m)'
    <2>1. m \in Elements /\ Known(m)
        BY <1>1, Facts
    <2> QED BY <1>1, <1>5, <2>1, OthersKnown
<1>9. \A m \in Elements \ exposed' : ListsFewer(m) /\ KeptFewer(m)
    BY <1>1, <1>5 DEF KeptFewer
<1> QED BY <1>4, <1>6, <1>7, <1>8, <1>9, Together

\* A step of one worker that sends no command to the lists, begins nothing and
\* receives nothing.  What leaves the hash was begun, and a reply that the
\* worker will not read is noted as dropped.
LEMMA WorkerStep ==
    ASSUME IInv, NEW w \in Workers, NEW r \in Worker, worker' = [worker EXCEPT ![w] = r],
           UNCHANGED <<lists, blockingKeys, bpopKeys, reply, sent, begun>>,
           exposed \subseteq exposed',
           r.kept = worker[w].kept \/ r.kept = <<>>,
           r.runs = worker[w].runs \/ r.runs = None,
           r.state = "down" => Idle(w),
           unacked' \subseteq unacked, dropped \subseteq dropped',
           \A m \in unacked \ unacked' : begun[m] > 0,
           \/ r.state \in {"up", "stopping"}
           \/ reply[w] \notin Elements
           \/ reply[w] \in dropped'
    PROVE  IInv'
<1>1. worker'[w] = r /\ \A v \in Workers \ {w} : worker'[v] = worker[v]
    BY Facts
<1>2. ListsInv'
    BY DEF IInv, ListsInv, ListsType, Registered, WaitingUnanswered, NoOneWaitsInVain, Blocked
<1>3. worker' \in [Workers -> Worker]
    BY Facts
<1>4. QueueType' /\ exposed \subseteq exposed' /\ sent <= sent'
    BY <1>3, Facts DEF QueueType
<1>5. \A v \in Workers : Idle(v) => Idle(v)'
    BY DEF Idle, Blocked
<1>6. ASSUME NEW v \in Workers
      PROVE  /\ Is(v, "down")' => Idle(v)'
             /\ worker'[v].runs # None => begun'[worker'[v].runs] > 0
    <2>1. CASE v = w
        BY <1>1, <1>5, <2>1, Facts DEF Is
    <2>2. CASE v # w
        BY <1>1, <1>5, <2>2, Facts DEF Is
    <2> QED BY <2>1, <2>2
<1>7. ASSUME NEW m \in 1..sent' PROVE Known(m)'
    <2>1. m \in Elements /\ Known(m)
        BY Facts
    <2>2. CASE m \in unacked
        BY <2>2 DEF Known
    <2>3. CASE m \in dropped \/ begun[m] > 0 \/ Occurs(lists[Queue], m)
        BY <2>3 DEF Known
    <2>4. ASSUME NEW v \in Workers, reply[v] = m, worker[v].state \in {"up", "stopping"} PROVE Known(m)'
        <3>1. CASE v = w
            BY <1>1, <2>1, <2>4, <3>1 DEF Known, OnItsWay
        <3>2. CASE v # w
            BY <1>1, <2>4, <3>2 DEF Known, OnItsWay
        <3> QED BY <3>1, <3>2
    <2> QED BY <2>1, <2>2, <2>3, <2>4 DEF Known, OnItsWay
<1>8. ASSUME NEW m \in Elements PROVE ListsFewer(m) /\ KeptFewer(m)
    <2>1. ~Occurs(<<>>, m) /\ AtMostOnce(<<>>, m)
        BY DEF Occurs, AtMostOnce
    <2>2. ASSUME NEW v \in Workers
          PROVE  /\ Occurs(worker'[v].kept, m) => Occurs(worker[v].kept, m)
                 /\ AtMostOnce(worker[v].kept, m) => AtMostOnce(worker'[v].kept, m)
        BY <1>1, <2>1
    <2> QED BY <2>2 DEF ListsFewer, KeptFewer
<1> QED BY <1>2, <1>4, <1>6, <1>7, <1>8, Together

\* Acknowledging what was begun.
LEMMA AckStep ==
    ASSUME IInv, NEW w \in Workers, Ack(w)
    PROVE  IInv'
<1>1. PICK r : r = [worker[w] EXCEPT !.acked = TRUE]
    OBVIOUS
<1>2. worker[w] \in Worker
    BY Facts
<1>3. r \in Worker /\ r.kept = worker[w].kept /\ r.runs = worker[w].runs /\ r.state = worker[w].state
    BY <1>1, <1>2 DEF Worker
<1>4. /\ worker' = [worker EXCEPT ![w] = r] /\ unacked' = unacked \ {worker[w].runs}
      /\ UNCHANGED <<lists, blockingKeys, bpopKeys, reply, sent, begun, exposed, dropped>>
      /\ worker[w].state \in {"up", "stopping"}
    BY <1>1 DEF Ack, SetWorker, listVars
<1>5. ASSUME NEW m \in unacked \ unacked' PROVE begun[m] > 0
    <2>1. m \in Elements /\ m = worker[w].runs
        BY <1>4, Facts
    <2> QED BY <2>1, Facts, ProperMessages
<1> QED BY <1>3, <1>4, <1>5, WorkerStep

\* The end of a task.
LEMMA FinishStep ==
    ASSUME IInv, NEW w \in Workers, Finish(w)
    PROVE  IInv'
<1>1. PICK r : r = [worker[w] EXCEPT !.runs = None]
    OBVIOUS
<1>2. worker[w] \in Worker
    BY Facts
<1>3. r \in Worker /\ r.kept = worker[w].kept /\ r.runs = None /\ r.state = worker[w].state
    BY <1>1, <1>2 DEF Worker
<1>4. /\ worker' = [worker EXCEPT ![w] = r] /\ worker[w].state \in {"up", "stopping"}
      /\ UNCHANGED <<lists, blockingKeys, bpopKeys, reply, sent, unacked, begun, exposed, dropped>>
    BY <1>1 DEF Finish, SetWorker, listVars
<1> QED BY <1>3, <1>4, WorkerStep

\* A worker is told to stop, or has stopped.
LEMMA StopStep ==
    ASSUME IInv, NEW w \in Workers, WarmShutdown(w) \/ Exit(w)
    PROVE  IInv'
<1>1. PICK st \in {"stopping", "down"} :
          /\ worker' = [worker EXCEPT ![w] = [worker[w] EXCEPT !.state = st]]
          /\ st = "down" => Idle(w)
    BY DEF WarmShutdown, Exit, SetWorker, Idle
<1>2. UNCHANGED <<lists, blockingKeys, bpopKeys, reply, sent, unacked, begun, exposed, dropped>>
    BY DEF WarmShutdown, Exit, listVars
<1>3. PICK r : r = [worker[w] EXCEPT !.state = st]
    OBVIOUS
<1>4. worker[w] \in Worker
    BY Facts
<1>5. r \in Worker /\ r.kept = worker[w].kept /\ r.runs = worker[w].runs /\ r.state = st
    BY <1>3, <1>4 DEF Worker
<1>6. st \in {"up", "stopping"} \/ reply[w] \notin Elements
    BY <1>1, ListsAssumption DEF Idle
<1>7. worker' = [worker EXCEPT ![w] = r]
    BY <1>1, <1>3
<1> QED BY <1>1, <1>2, <1>5, <1>6, <1>7, WorkerStep

\* A worker is killed, or started again.
LEMMA KillStep ==
    ASSUME IInv, NEW w \in Workers, Kill(w) \/ StartWorker(w)
    PROVE  IInv'
<1>1. PICK r \in {Fresh, [Fresh EXCEPT !.state = "dead"]} :
          /\ worker' = [worker EXCEPT ![w] = r]
          /\ r.state = "up" \/ dropped' = dropped \cup ({reply[w]} \cap Elements)
    BY DEF Kill, StartWorker, SetWorker, Fresh
<1>2. /\ UNCHANGED <<lists, blockingKeys, bpopKeys, reply, sent, unacked, begun>>
      /\ dropped \subseteq dropped' /\ exposed \subseteq exposed'
    BY DEF Kill, StartWorker, listVars
<1>3. r \in Worker /\ r.kept = <<>> /\ r.runs = None /\ r.state \in {"up", "dead"}
    <2>1. <<>> \in Seq(Elements)
        OBVIOUS
    <2>2. CASE r = Fresh
        BY <2>1, <2>2 DEF Fresh, Worker
    <2>3. CASE r = [Fresh EXCEPT !.state = "dead"]
        <3>1. r = [state |-> "dead", kept |-> <<>>, runs |-> None, acked |-> TRUE]
            BY <2>3 DEF Fresh
        <3> QED BY <2>1, <3>1 DEF Worker
    <2> QED BY <2>2, <2>3
<1>4. \/ r.state \in {"up", "stopping"}
      \/ reply[w] \notin Elements
      \/ reply[w] \in dropped'
    BY <1>1
<1> QED BY <1>1, <1>2, <1>3, <1>4, WorkerStep

\* The server finds that a worker is dead; what its reply held was noted when
\* the worker died or the reply was written.
LEMMA DisconnectStep ==
    ASSUME IInv, NEW w \in Workers, Disconnect(w)
    PROVE  IInv'
<1>1. PICK r : r = [worker[w] EXCEPT !.state = "down"]
    OBVIOUS
<1>2. /\ worker' = [worker EXCEPT ![w] = r] /\ worker[w].state = "dead" /\ FreeClient(w)
      /\ UNCHANGED <<sent, unacked, begun, exposed, dropped>>
    BY <1>1 DEF Disconnect, SetWorker, Is
<1>3. worker[w] \in Worker
    BY Facts
<1>4. r \in Worker /\ r.kept = worker[w].kept /\ r.runs = worker[w].runs /\ r.state = "down"
    BY <1>1, <1>3 DEF Worker
<1>5. worker' \in [Workers -> Worker] /\ worker'[w] = r /\ \A v \in Workers \ {w} : worker'[v] = worker[v]
    BY <1>2, <1>4, Facts
<1>6. ListsInv /\ w \in Clients
    BY DEF IInv, Workers
<1>7. Released(w)
    BY <1>2, <1>6, ReleaseCommand
<1>8. ListsInv'
    BY <1>6, <1>7, ReleaseKeeps
<1>9. lists' = lists /\ \A v \in Workers \ {w} : reply'[v] = reply[v]
    BY <1>7, Facts DEF Released, Workers
<1>10. QueueType' /\ exposed \subseteq exposed' /\ sent <= sent'
    BY <1>2, <1>5, Facts DEF QueueType
<1>11. Idle(w)'
    <2>1. reply'[w] = NoReply
        <3>1. CASE Blocked(w)
            <4>1. PICK l \in bpopKeys[w] : Become([Unblock(Db, l, w) EXCEPT !.reply[w] = NoReply])
                BY <1>2, <3>1 DEF FreeClient
            <4>2. Unblock([lists |-> lists, blocking |-> blockingKeys, bpop |-> bpopKeys, reply |-> reply], l, w)
                      = [lists |-> lists, blocking |-> Without(w), bpop |-> WithoutKeys(w), reply |-> reply]
                BY UnblockRecord, SMT
            <4>3. Unblock(Db, l, w)
                      = [lists |-> lists, blocking |-> Without(w), bpop |-> WithoutKeys(w), reply |-> reply]
                BY <4>2, Zenon DEF Db
            <4>4. reply' = [reply EXCEPT ![w] = NoReply]
                BY <4>1, <4>3 DEF Become
            <4> QED BY <4>4, Facts
        <3>2. CASE ~Blocked(w)
            BY <1>2, <3>2, Facts DEF FreeClient, Become, Db
        <3> QED BY <3>1, <3>2
    <2>2. ~Blocked(w)'
        <3>1. CASE Blocked(w)
            BY <1>6, <1>7, <3>1, DetachKeeps DEF Released
        <3>2. CASE ~Blocked(w)
            BY <1>7, <3>2 DEF Released, Blocked
        <3> QED BY <3>1, <3>2
    <2> QED BY <2>1, <2>2 DEF Idle
<1>12. ASSUME NEW v \in Workers
       PROVE  /\ Is(v, "down")' => Idle(v)'
              /\ worker'[v].runs # None => begun'[worker'[v].runs] > 0
    <2>1. CASE v = w
        BY <1>2, <1>4, <1>5, <1>11, <2>1, Facts
    <2>2. CASE v # w
        <3>1. bpopKeys'[v] = bpopKeys[v]
            BY <1>6, <1>7, <2>2 DEF Released, Detached, WithoutKeys, ListsInv, ListsType, Workers
        <3>2. Idle(v) => Idle(v)'
            BY <1>9, <2>2, <3>1 DEF Idle, Blocked
        <3> QED BY <1>2, <1>5, <2>2, <3>2, Facts DEF Is
    <2> QED BY <2>1, <2>2
<1>13. ASSUME NEW m \in 1..sent' PROVE Known(m)'
    <2>1. m \in Elements /\ Known(m)
        BY <1>2, Facts
    <2>2. CASE m \in unacked \/ m \in dropped \/ begun[m] > 0 \/ Occurs(lists[Queue], m)
        BY <1>2, <1>9, <2>2 DEF Known
    <2>3. ASSUME NEW v \in Workers, reply[v] = m, worker[v].state \in {"up", "stopping"} PROVE Known(m)'
        <3>1. v # w
            BY <1>2, <2>3
        <3> QED BY <1>5, <1>9, <2>3, <3>1 DEF Known, OnItsWay
    <2> QED BY <2>1, <2>2, <2>3 DEF Known, OnItsWay
<1>14. ASSUME NEW m \in Elements PROVE ListsFewer(m) /\ KeptFewer(m)
    <2>1. ListsFewer(m)
        BY <1>6, <1>7, ReleaseOthers
    <2>2. \A v \in Workers : worker'[v].kept = worker[v].kept
        BY <1>4, <1>5
    <2> QED BY <1>2, <2>1, <2>2 DEF KeptFewer
<1> QED BY <1>8, <1>10, <1>12, <1>13, <1>14, Together

\* The reply arrives, and a message in it is noted in the hash.
LEMMA ReceiveStep ==
    ASSUME IInv, NEW w \in Workers, Receive(w)
    PROVE  IInv'
<1>1. /\ worker[w].state \in {"up", "stopping"} /\ reply[w] # NoReply
      /\ reply' = [reply EXCEPT ![w] = NoReply]
      /\ UNCHANGED <<lists, blockingKeys, bpopKeys, sent, begun, exposed, dropped>>
    BY DEF Receive
<1>2. reply'[w] = NoReply /\ \A v \in Workers \ {w} : reply'[v] = reply[v]
    BY <1>1, Facts
<1>3. ListsInv'
    <2>1. ListsType'
        BY <1>1 DEF IInv, ListsInv, ListsType
    <2>2. Registered' /\ NoOneWaitsInVain'
        BY <1>1 DEF IInv, ListsInv, Registered, NoOneWaitsInVain
    <2>3. WaitingUnanswered'
        BY <1>1, <1>2 DEF IInv, ListsInv, WaitingUnanswered, Blocked, Workers
    <2> QED BY <2>1, <2>2, <2>3 DEF ListsInv
<1>4. \A v \in Workers : Idle(v) => Idle(v)'
    BY <1>1, <1>2 DEF Idle, Blocked
<1>5. exposed \subseteq exposed' /\ sent <= sent'
    BY <1>1, Facts
<1>6. \A m \in Elements : ListsFewer(m)
    BY <1>1, <1>2, ProperMessages DEF ListsFewer
<1>7. CASE reply[w] = Nil
    <2>1. UNCHANGED <<unacked, worker>>
        BY <1>7 DEF Receive
    <2>2. QueueType'
        BY <1>1, <2>1, Facts DEF QueueType
    <2>3. \A v \in Workers : /\ Is(v, "down")' => Idle(v)'
                             /\ worker'[v].runs # None => begun'[worker'[v].runs] > 0
        BY <1>1, <1>4, <2>1, Facts DEF Is
    <2>4. ASSUME NEW m \in 1..sent' PROVE Known(m)'
        <3>1. m \in Elements /\ Known(m)
            BY <1>1, Facts
        <3>2. ListsMore(m)
            BY <1>1, <1>2, <1>7, <3>1, ProperMessages DEF ListsMore
        <3> QED BY <1>1, <2>1, <3>1, <3>2, OthersKnown
    <2>5. \A m \in Elements : KeptFewer(m)
        BY <1>1, <2>1 DEF KeptFewer
    <2> QED BY <1>3, <1>5, <1>6, <2>2, <2>3, <2>4, <2>5, Together
<1>8. CASE reply[w] # Nil
    <2>1. PICK e \in Elements : e = reply[w]
        BY <1>1, <1>8, Facts
    <2>2. PICK k, r : k = Append(worker[w].kept, e) /\ r = [worker[w] EXCEPT !.kept = k]
        OBVIOUS
    <2>3. worker' = [worker EXCEPT ![w] = r] /\ unacked' = unacked \cup {e}
        BY <1>8, <2>1, <2>2 DEF Receive, SetWorker
    <2>4. worker[w] \in Worker /\ worker[w].kept \in Seq(Elements)
        BY Facts DEF Worker
    <2>5. k \in Seq(Elements)
        BY <2>2, <2>4, AppendProperties
    <2>6. r \in Worker /\ r.kept = k /\ r.runs = worker[w].runs /\ r.state = worker[w].state
        BY <2>2, <2>4, <2>5 DEF Worker
    <2>7. worker' \in [Workers -> Worker] /\ worker'[w] = r /\ \A v \in Workers \ {w} : worker'[v] = worker[v]
        BY <2>3, <2>6, Facts
    <2>8. QueueType'
        BY <1>1, <2>3, <2>7, Facts DEF QueueType
    <2>9. ASSUME NEW v \in Workers
          PROVE  /\ Is(v, "down")' => Idle(v)'
                 /\ worker'[v].runs # None => begun'[worker'[v].runs] > 0
        BY <1>1, <1>4, <2>6, <2>7, Facts DEF Is
    <2>10. \A v \in Workers : worker'[v].state = worker[v].state
        BY <2>6, <2>7
    <2>11. ASSUME NEW m \in 1..sent' PROVE Known(m)'
        <3>1. m \in Elements /\ Known(m)
            BY <1>1, Facts
        <3>2. CASE m = e
            BY <2>3, <3>2 DEF Known
        <3>3. CASE m # e
            <4>1. ListsMore(m)
                BY <1>1, <1>2, <2>1, <3>3 DEF ListsMore
            <4> QED BY <1>1, <2>3, <2>10, <3>1, <4>1, OthersKnown
        <3> QED BY <3>2, <3>3
    <2>12. ASSUME NEW m \in Elements
           PROVE  /\ Occurs(k, m) <=> Occurs(worker[w].kept, m) \/ m = e
                  /\ AtMostOnce(worker[w].kept, m) /\ (m = e => ~Occurs(worker[w].kept, m)) => AtMostOnce(k, m)
        <3>1. PICK s : s = worker[w].kept
            OBVIOUS
        <3>2. s \in Seq(Elements) /\ (k = <<e>> \o s \/ k = Append(s, e))
            BY <2>2, <2>4, <3>1
        <3>3. /\ k \in Seq(Elements) /\ k # <<>>
              /\ Occurs(k, m) <=> Occurs(s, m) \/ m = e
              /\ AtMostOnce(s, m) /\ (m = e => ~Occurs(s, m)) => AtMostOnce(k, m)
            BY <3>2, Longer
        <3> QED BY <3>1, <3>3
    <2>13. ASSUME NEW m \in Elements, m # e PROVE KeptFewer(m)
        BY <1>1, <2>6, <2>7, <2>12, <2>13 DEF KeptFewer
    <2>14. ASSUME OnePlace(e) PROVE OnePlace(e)'
        <3>1. InReplies(e)
            BY <2>1 DEF InReplies
        <3>2. ~InLists(e) /\ ~InKept(e) /\ ~(e > sent) /\ ~(begun[e] > 0)
            BY <2>14, <3>1 DEF OnePlace
        <3>3. \A v \in Workers : ~Occurs(worker[v].kept, e) /\ AtMostOnce(worker[v].kept, e)
            BY <2>14, <3>2 DEF InKept, OnePlace
        <3>4. /\ AtMostOnce(worker'[w].kept, e)
              /\ \A v \in Workers \ {w} : ~Occurs(worker'[v].kept, e) /\ AtMostOnce(worker'[v].kept, e)
            BY <2>6, <2>7, <2>12, <3>3
        <3>5. ~InReplies(e)'
            BY <1>2, <2>1, <2>14, ProperMessages DEF InReplies, OnePlace
        <3>6. ~InLists(e)' /\ ~(e > sent') /\ ~(begun'[e] > 0) /\ begun'[e] <= 1
            BY <1>1, <2>14, <3>2 DEF InLists, OnePlace
        <3>7. /\ \A j, l \in Lists : Occurs(lists'[j], e) /\ Occurs(lists'[l], e) => j = l
              /\ \A l \in Lists : AtMostOnce(lists'[l], e)
            BY <1>1, <2>14 DEF OnePlace
        <3>8. \A u, v \in Workers : reply'[u] # e
            BY <3>5 DEF InReplies
        <3>9. \A u, v \in Workers : Occurs(worker'[u].kept, e) /\ Occurs(worker'[v].kept, e) => u = v
            BY <3>4
        <3>10. \A v \in Workers : AtMostOnce(worker'[v].kept, e)
            BY <3>4
        <3> QED BY <3>5, <3>6, <3>7, <3>8, <3>9, <3>10 DEF OnePlace
    <2>15. ASSUME NEW m \in Elements \ exposed' PROVE OnePlace(m)' \/ (ListsFewer(m) /\ KeptFewer(m))
        <3>1. OnePlace(m)
            BY <1>1, Facts
        <3> QED BY <1>6, <2>13, <2>14, <3>1
    <2> QED BY <1>3, <1>5, <2>8, <2>9, <2>11, <2>15, Together
<1> QED BY <1>7, <1>8

\* The first message that a worker keeps.
LEMMA FirstKept ==
    ASSUME IInv, NEW w \in Workers, worker[w].kept # <<>>
    PROVE  /\ Head(worker[w].kept) \in Elements
           /\ Tail(worker[w].kept) \in Seq(Elements)
           /\ Occurs(worker[w].kept, Head(worker[w].kept))
           /\ \A m \in Elements :
                 /\ Occurs(Tail(worker[w].kept), m) => Occurs(worker[w].kept, m)
                 /\ AtMostOnce(worker[w].kept, m) =>
                       /\ AtMostOnce(Tail(worker[w].kept), m)
                       /\ m = Head(worker[w].kept) => ~Occurs(Tail(worker[w].kept), m)
<1>1. PICK s, r, e : s = worker[w].kept /\ r = Tail(s) /\ e = Head(s)
    OBVIOUS
<1>2. s \in Seq(Elements) /\ s # <<>>
    BY <1>1, Facts DEF Worker
<1>3. \/ r = SubSeq(s, 1, Len(s) - 1) /\ e = s[Len(s)]
      \/ r = Tail(s) /\ e = Head(s)
    BY <1>1
<1>4. ASSUME NEW m
      PROVE  /\ r \in Seq(Elements) /\ e \in Elements
             /\ Occurs(s, e)
             /\ Occurs(s, m) <=> Occurs(r, m) \/ m = e
             /\ AtMostOnce(s, m) => AtMostOnce(r, m) /\ (m = e => ~Occurs(r, m))
    BY <1>2, <1>3, Shorter
<1>5. r \in Seq(Elements) /\ e \in Elements /\ Occurs(s, e)
    BY <1>4
<1> QED BY <1>1, <1>4, <1>5

\* A task begins; its message is in no other place if it was not put back.
LEMMA BeginStep ==
    ASSUME IInv, NEW w \in Workers, Begin(w)
    PROVE  IInv'
<1>1. PICK e, k, r : /\ e = Head(worker[w].kept) /\ k = Tail(worker[w].kept)
                     /\ r = [worker[w] EXCEPT !.kept = k, !.runs = e, !.acked = FALSE]
    OBVIOUS
<1>2. worker[w].kept # <<>> /\ worker[w].state = "up"
    BY DEF Begin, Is
<1>3. /\ e \in Elements /\ k \in Seq(Elements) /\ Occurs(worker[w].kept, e)
      /\ \A m \in Elements : /\ Occurs(k, m) => Occurs(worker[w].kept, m)
                             /\ AtMostOnce(worker[w].kept, m) => AtMostOnce(k, m) /\ (m = e => ~Occurs(k, m))
    BY <1>1, <1>2, FirstKept
<1>4. /\ worker' = [worker EXCEPT ![w] = r] /\ begun' = [begun EXCEPT ![e] = @ + 1]
      /\ UNCHANGED <<lists, blockingKeys, bpopKeys, reply, sent, unacked, exposed, dropped>>
    BY <1>1 DEF Begin, SetWorker, listVars
<1>5. worker[w] \in Worker
    BY Facts
<1>6. r \in Worker /\ r.kept = k /\ r.runs = e /\ r.state = worker[w].state
    BY <1>1, <1>3, <1>5 DEF Worker
<1>7. worker' \in [Workers -> Worker] /\ worker'[w] = r /\ \A v \in Workers \ {w} : worker'[v] = worker[v]
    BY <1>4, <1>6, Facts
<1>8. /\ begun' \in [Elements -> Nat] /\ begun'[e] = begun[e] + 1 /\ begun'[e] > 0
      /\ \A m \in Elements \ {e} : begun'[m] = begun[m]
    BY <1>3, <1>4, Facts
<1>9. ListsInv'
    BY <1>4 DEF IInv, ListsInv, ListsType, Registered, WaitingUnanswered, NoOneWaitsInVain, Blocked
<1>10. QueueType' /\ exposed \subseteq exposed' /\ sent <= sent'
    BY <1>4, <1>7, <1>8, Facts DEF QueueType
<1>11. \A m \in Elements : begun[m] > 0 => begun'[m] > 0
    BY <1>8
<1>12. ASSUME NEW v \in Workers
       PROVE  /\ Is(v, "down")' => Idle(v)'
              /\ worker'[v].runs # None => begun'[worker'[v].runs] > 0
    <2>1. CASE v = w
        BY <1>2, <1>6, <1>7, <1>8, <2>1 DEF Is
    <2>2. CASE v # w
        <3>1. worker'[v] = worker[v] /\ (Idle(v) => Idle(v)')
            BY <1>4, <1>7, <2>2 DEF Idle, Blocked
        <3>2. worker[v].runs # None => worker[v].runs \in Elements /\ begun[worker[v].runs] > 0
            BY Facts DEF Worker
        <3> QED BY <1>11, <3>1, <3>2, Facts DEF Is
    <2> QED BY <2>1, <2>2
<1>13. \A v \in Workers : worker'[v].state = worker[v].state
    BY <1>6, <1>7
<1>14. \A m \in Elements : ListsFewer(m) /\ ListsMore(m)
    BY <1>4 DEF ListsFewer, ListsMore
<1>15. ASSUME NEW m \in 1..sent' PROVE Known(m)'
    <2>1. m \in Elements /\ Known(m)
        BY <1>4, Facts
    <2>2. CASE m = e
        BY <1>8, <2>2 DEF Known
    <2>3. CASE m # e
        BY <1>4, <1>8, <1>13, <1>14, <2>1, <2>3, OthersKnown
    <2> QED BY <2>2, <2>3
<1>16. ASSUME NEW m \in Elements, m # e PROVE KeptFewer(m)
    BY <1>3, <1>6, <1>7, <1>8, <1>16 DEF KeptFewer
<1>17. ASSUME OnePlace(e) PROVE OnePlace(e)'
    <2>1. InKept(e)
        BY <1>3 DEF InKept
    <2>2. ~InLists(e) /\ ~InReplies(e) /\ ~(e > sent) /\ ~(begun[e] > 0)
        BY <1>17, <2>1 DEF OnePlace
    <2>3. begun[e] \in Nat
        BY <1>3, Facts
    <2>4. begun'[e] = 1
        BY <1>8, <2>2, <2>3
    <2>5. \A v \in Workers : AtMostOnce(worker[v].kept, e) /\ (Occurs(worker[v].kept, e) => v = w)
        BY <1>3, <1>17 DEF OnePlace
    <2>6. \A v \in Workers : ~Occurs(worker'[v].kept, e) /\ AtMostOnce(worker'[v].kept, e)
        BY <1>3, <1>6, <1>7, <2>5
    <2>7. ~InLists(e)' /\ ~InReplies(e)' /\ ~InKept(e)' /\ ~(e > sent')
        BY <1>4, <2>2, <2>6 DEF InLists, InReplies, InKept
    <2>8. /\ \A j, l \in Lists : Occurs(lists'[j], e) /\ Occurs(lists'[l], e) => j = l
          /\ \A l \in Lists : AtMostOnce(lists'[l], e)
          /\ \A u, v \in Workers : reply'[u] = e /\ reply'[v] = e => u = v
        BY <1>4, <1>17 DEF OnePlace
    <2> QED BY <2>4, <2>6, <2>7, <2>8 DEF OnePlace
<1>18. ASSUME NEW m \in Elements \ exposed' PROVE OnePlace(m)' \/ (ListsFewer(m) /\ KeptFewer(m))
    <2>1. OnePlace(m)
        BY <1>4, Facts
    <2> QED BY <1>14, <1>16, <1>17, <2>1
<1> QED BY <1>9, <1>10, <1>12, <1>15, <1>18, Together

\* A message that is in the hash is put back; its worker may be rid of it.
\* Unless it is exposed, nobody has begun it and nobody keeps it any more.
LEMMA PutBackStep ==
    ASSUME IInv, HashInv, NEW e \in unacked, RPush(Queue, e), unacked' = unacked \ {e},
           exposed \subseteq exposed', dropped' = dropped \cup ToTheDead(reply'),
           UNCHANGED <<sent, begun>>, worker' \in [Workers -> Worker],
           \A w \in Workers : /\ worker'[w].state = worker[w].state
                              /\ worker'[w].runs = worker[w].runs,
           \A m \in Elements : KeptFewer(m),
           e \notin exposed' => begun[e] = 0 /\ ~InKept(e)'
    PROVE  IInv'
<1>1. e \in Elements
    BY Facts
<1>2. /\ ListsInv' /\ \A w \in Workers : Idle(w) => Idle(w)'
      /\ \A m \in Elements \ {e} : ListsFewer(m) /\ ListsMore(m)
    BY <1>1, PushToQueue
<1>3. QueueType' /\ exposed \subseteq exposed' /\ sent <= sent'
    BY Facts DEF QueueType
<1>4. \A w \in Workers : /\ Is(w, "down")' => Idle(w)'
                         /\ worker'[w].runs # None => begun'[worker'[w].runs] > 0
    BY <1>2, Facts DEF Is
<1>5. ASSUME NEW m \in 1..sent' PROVE Known(m)'
    <2>1. m \in Elements /\ Known(m)
        BY Facts
    <2>2. CASE m = e
        <3>1. Known(e)'
            BY <1>1, PushedKnown
        <3> QED BY <2>2, <3>1
    <2>3. CASE m # e
        <3>1. ListsMore(m) /\ begun'[m] = begun[m] /\ (m \in unacked => m \in unacked') /\ dropped \subseteq dropped'
            BY <1>2, <2>1, <2>3
        <3> QED BY <2>1, <3>1, OthersKnown
    <2> QED BY <2>2, <2>3
<1>6. ASSUME NEW m \in Elements \ exposed' PROVE OnePlace(m)' \/ (ListsFewer(m) /\ KeptFewer(m))
    <2>1. CASE m # e
        BY <1>2, <2>1
    <2>2. CASE m = e
        <3>1. OnePlace(e) /\ Hashed(e)
            BY <2>2, Facts DEF HashInv
        <3>2. ~InLists(e) /\ ~InReplies(e) /\ e <= sent
            BY <3>1 DEF Hashed
        <3>3. ~InKept(e)' /\ begun'[e] = 0
            BY <2>2
        <3>4. ~(e > sent')
            BY <3>2, Facts, ProperMessages
        <3>5. \A l \in Lists : AtMostOnce(lists[l], e)
            BY <3>1 DEF OnePlace
        <3>6. \A w \in Workers : AtMostOnce(worker'[w].kept, e)
            BY <1>1, <3>1 DEF OnePlace, KeptFewer
        <3>7. OnePlace(e)'
            BY <1>1, <3>2, <3>3, <3>4, <3>5, <3>6, PushOnePlace
        <3> QED BY <2>2, <3>7
    <2> QED BY <2>1, <2>2
<1> QED BY <1>2, <1>3, <1>4, <1>5, <1>6, Together

\* restore_visible.
LEMMA RestoreVisibleStep ==
    ASSUME IInv, HashInv, NEW e \in Elements, RestoreVisible(e)
    PROVE  IInv'
<1>1. /\ e \in unacked /\ RPush(Queue, e) /\ unacked' = unacked \ {e}
      /\ dropped' = dropped \cup ToTheDead(reply')
      /\ UNCHANGED <<sent, worker, begun>>
    BY DEF RestoreVisible, RestoreByTag
<1>2. exposed \subseteq exposed' /\ (e \notin exposed' => ~Held(e))
    BY DEF RestoreVisible
<1>3. \A m \in Elements : KeptFewer(m)
    BY <1>1 DEF KeptFewer
<1>4. ASSUME e \notin exposed' PROVE begun[e] = 0 /\ ~InKept(e)'
    <2>1. ~InKept(e) /\ \A w \in Workers : ~RunsUnacked(w, e)
        BY <1>2, <1>4 DEF Held, InKept, Occurs, RunsUnacked
    <2>2. Hashed(e)
        BY <1>2, <1>4 DEF HashInv
    <2>3. ~(begun[e] > 0) /\ begun[e] \in Nat
        BY <1>1, <2>1, <2>2, Facts DEF Hashed
    <2> QED BY <1>1, <2>1, <2>3 DEF InKept
<1> QED BY <1>1, <1>2, <1>3, <1>4, PutBackStep, Facts

\* A worker that stops puts back what it keeps.
LEMMA RestoreUnackedStep ==
    ASSUME IInv, HashInv, NEW w \in Workers, RestoreUnacked(w)
    PROVE  IInv'
<1>1. PICK e, k, r : /\ e = Head(worker[w].kept) /\ k = Tail(worker[w].kept)
                     /\ r = [worker[w] EXCEPT !.kept = k]
    OBVIOUS
<1>2. worker[w].kept # <<>> /\ worker[w].state = "stopping"
    BY DEF RestoreUnacked, Is
<1>3. /\ e \in Elements /\ k \in Seq(Elements) /\ Occurs(worker[w].kept, e)
      /\ \A m \in Elements : /\ Occurs(k, m) => Occurs(worker[w].kept, m)
                             /\ AtMostOnce(worker[w].kept, m) => AtMostOnce(k, m) /\ (m = e => ~Occurs(k, m))
    BY <1>1, <1>2, FirstKept
<1>4. /\ worker' = [worker EXCEPT ![w] = r] /\ RestoreByTag(e) /\ UNCHANGED <<sent, begun, exposed>>
    BY <1>1 DEF RestoreUnacked, SetWorker
<1>5. worker[w] \in Worker
    BY Facts
<1>6. r \in Worker /\ r.kept = k /\ r.runs = worker[w].runs /\ r.state = worker[w].state
    BY <1>1, <1>3, <1>5 DEF Worker
<1>7. worker' \in [Workers -> Worker] /\ worker'[w] = r /\ \A v \in Workers \ {w} : worker'[v] = worker[v]
    BY <1>4, <1>6, Facts
<1>8. \A v \in Workers : worker'[v].state = worker[v].state /\ worker'[v].runs = worker[v].runs
    BY <1>6, <1>7
<1>9. \A m \in Elements : KeptFewer(m)
    BY <1>3, <1>4, <1>6, <1>7 DEF KeptFewer
<1>10. CASE e \in unacked
    <2>1. ASSUME e \notin exposed PROVE begun[e] = 0 /\ ~InKept(e)'
        <3>1. OnePlace(e) /\ InKept(e) /\ begun[e] \in Nat
            BY <1>3, <2>1, Facts DEF InKept
        <3>2. begun[e] = 0
            BY <3>1 DEF OnePlace
        <3>3. \A v \in Workers : AtMostOnce(worker[v].kept, e) /\ (Occurs(worker[v].kept, e) => v = w)
            BY <1>3, <3>1 DEF OnePlace
        <3>4. \A v \in Workers : ~Occurs(worker'[v].kept, e)
            BY <1>3, <1>6, <1>7, <3>3
        <3> QED BY <3>2, <3>4 DEF InKept
    <2>2. /\ RPush(Queue, e) /\ unacked' = unacked \ {e} /\ dropped' = dropped \cup ToTheDead(reply')
        BY <1>4, <1>10 DEF RestoreByTag
    <2> QED BY <1>4, <1>7, <1>8, <1>9, <1>10, <2>1, <2>2, PutBackStep
<1>11. CASE e \notin unacked
    <2>1. UNCHANGED <<lists, blockingKeys, bpopKeys, reply, unacked, exposed, dropped>>
        BY <1>4, <1>11 DEF RestoreByTag, listVars
    <2>2. ListsInv'
        BY <2>1 DEF IInv, ListsInv, ListsType, Registered, WaitingUnanswered, NoOneWaitsInVain, Blocked
    <2>3. QueueType' /\ exposed \subseteq exposed' /\ sent <= sent'
        BY <1>4, <1>7, <2>1, Facts DEF QueueType
    <2>4. \A v \in Workers : /\ Is(v, "down")' => Idle(v)'
                             /\ worker'[v].runs # None => begun'[worker'[v].runs] > 0
        BY <1>4, <1>8, <2>1, Facts DEF Is, Idle, Blocked
    <2>5. \A m \in Elements : ListsFewer(m) /\ ListsMore(m)
        BY <2>1 DEF ListsFewer, ListsMore
    <2>6. ASSUME NEW m \in 1..sent' PROVE Known(m)'
        <3>1. m \in Elements /\ Known(m)
            BY <1>4, Facts
        <3> QED BY <1>4, <1>8, <2>1, <2>5, <3>1, OthersKnown
    <2> QED BY <1>9, <2>2, <2>3, <2>4, <2>5, <2>6, Together
<1> QED BY <1>10, <1>11

-----------------------------------------------------------------------------
(* The hash. *)

\* The invariant of the hash, put together after a step.
LEMMA HashTogether ==
    ASSUME IInv, HashInv, exposed \subseteq exposed', sent <= sent', QueueType',
           \A m \in Elements \ exposed' :
              m \in unacked' => \/ Hashed(m)'
                                \/ /\ m \in unacked /\ ListsFewer(m) /\ begun'[m] = begun[m]
                                   /\ \A w \in Workers : RunsUnacked(w, m) => RunsUnacked(w, m)',
           \A w \in Workers : worker'[w].state \in {"dead", "down"} => worker'[w].runs = None
    PROVE  HashInv'
<1>1. ASSUME NEW m \in Elements \ exposed', m \in unacked, ListsFewer(m), begun'[m] = begun[m],
             \A w \in Workers : RunsUnacked(w, m) => RunsUnacked(w, m)'
      PROVE  Hashed(m)'
    <2>1. /\ m <= sent /\ ~InLists(m) /\ ~InReplies(m)
          /\ begun[m] > 0 => \E w \in Workers : RunsUnacked(w, m)
        BY <1>1 DEF HashInv, Hashed
    <2>2. ~InLists(m)' /\ ~InReplies(m)'
        BY <1>1, <2>1 DEF InLists, InReplies, ListsFewer
    <2>3. m <= sent'
        <3>1. sent \in Nat /\ sent' \in Nat /\ m \in Nat
            BY Facts, ProperMessages, QueueAssumption DEF QueueType
        <3> QED BY <2>1, <3>1
    <2>4. begun'[m] > 0 => \E w \in Workers : RunsUnacked(w, m)'
        BY <1>1, <2>1
    <2> QED BY <2>2, <2>3, <2>4 DEF Hashed
<1>2. ASSUME NEW m \in Elements \ exposed' PROVE Hashed(m)'
    <2>1. CASE m \notin unacked'
        BY <2>1 DEF Hashed
    <2>2. CASE m \in unacked'
        BY <1>1, <2>2
    <2> QED BY <2>1, <2>2
<1> QED BY <1>2 DEF HashInv

\* The steps that leave the hash, the workers and what was begun alone.
LEMMA HashLists ==
    ASSUME IInv, HashInv, QueueType', UNCHANGED <<worker, begun, exposed>>,
           sent <= sent', unacked' \subseteq unacked,
           \A m \in Elements \ exposed : m \in unacked' => ListsFewer(m)
    PROVE  HashInv'
<1>1. \A w \in Workers : worker'[w].state \in {"dead", "down"} => worker'[w].runs = None
    BY DEF HashInv
<1>2. \A m \in Elements : \A w \in Workers : RunsUnacked(w, m) => RunsUnacked(w, m)'
    BY DEF RunsUnacked
<1>3. \A m \in Elements : begun'[m] = begun[m]
    OBVIOUS
<1> QED BY <1>1, <1>2, <1>3, HashTogether

\* .delay: a message that is new is not in the hash.
LEMMA HashDelay ==
    ASSUME IInv, HashInv, IInv', Delay
    PROVE  HashInv'
<1>1. PICK e : e = sent + 1
    OBVIOUS
<1>2. /\ e \in Elements /\ sent' = e /\ LPush(Queue, e)
      /\ UNCHANGED <<unacked, worker, begun, exposed>>
    BY <1>1, Facts, QueueAssumption DEF Delay
<1>3. sent \in Nat /\ sent <= sent' /\ ~(e <= sent)
    BY <1>1, <1>2, Facts
<1>4. \A m \in Elements \ {e} : ListsFewer(m)
    BY <1>2, PushToQueue
<1>5. e \notin exposed => e \notin unacked
    BY <1>2, <1>3 DEF HashInv, Hashed
<1> QED BY <1>2, <1>3, <1>4, <1>5, HashLists DEF IInv

\* BRPOP: the message that is popped was in a list.
LEMMA HashPoll ==
    ASSUME IInv, HashInv, IInv', NEW w \in Workers, Poll(w)
    PROVE  HashInv'
<1>1. BRPop(w, Polled) /\ UNCHANGED <<sent, unacked, worker, begun, exposed>>
    BY DEF Poll, queueVars
<1>2. ListsInv /\ w \in Clients
    BY DEF IInv, Workers
<1>3. sent <= sent'
    BY <1>1, Facts
<1>4. ASSUME NEW l \in Lists, Popped(w, l), NEW m \in Elements \ exposed, m \in unacked' PROVE ListsFewer(m)
    <2>1. m \in unacked /\ Hashed(m)
        BY <1>1, <1>4 DEF HashInv
    <2>2. ~Occurs(lists[l], m)
        BY <1>4, <2>1 DEF Hashed, InLists
    <2>3. PICK e : e = lists[l][Len(lists[l])]
        OBVIOUS
    <2>4. (m # e => ListsFewer(m)) /\ (m = e => Occurs(lists[l], m))
        BY <1>2, <1>4, <2>3, PopMoves
    <2> QED BY <2>2, <2>4
<1>5. ASSUME NEW keys \in SUBSET Lists, Waits(w, keys), NEW m \in Elements PROVE ListsFewer(m)
    BY <1>5 DEF Waits, ListsFewer
<1>6. \A m \in Elements \ exposed : m \in unacked' => ListsFewer(m)
    BY <1>1, <1>2, <1>4, <1>5, PopCommand, ConfiguredLists DEF ListsInv
<1> QED BY <1>1, <1>3, <1>6, HashLists DEF IInv

\* The timeout of BRPOP, and the end of a connection.
LEMMA HashRelease ==
    ASSUME IInv, HashInv, IInv', NEW w \in Workers, PollTimeout(w) \/ Disconnect(w)
    PROVE  HashInv'
<1>1. UNCHANGED <<sent, unacked, begun, exposed>>
    BY DEF PollTimeout, Disconnect, queueVars
<1>2. ListsInv /\ w \in Clients
    BY DEF IInv, Workers
<1>3. Released(w)
    BY <1>2, ReleaseCommand DEF PollTimeout, Disconnect
<1>4. \A m \in Elements : ListsFewer(m)
    BY <1>2, <1>3, ReleaseOthers
<1>5. ASSUME NEW v \in Workers
      PROVE  /\ worker'[v].runs = worker[v].runs /\ worker'[v].acked = worker[v].acked
             /\ worker'[v].state = worker[v].state \/ worker[v].state = "dead"
    <2>1. CASE PollTimeout(w)
        BY <2>1 DEF PollTimeout, queueVars
    <2>2. CASE Disconnect(w)
        <3>1. /\ worker' = [worker EXCEPT ![w] = [worker[w] EXCEPT !.state = "down"]]
              /\ worker[w].state = "dead"
            BY <2>2 DEF Disconnect, SetWorker, Is
        <3>2. worker \in [Workers -> Worker] /\ worker[w] \in Worker
            BY Facts
        <3>3. CASE v = w
            BY <3>1, <3>2, <3>3 DEF Worker
        <3>4. CASE v # w
            BY <3>1, <3>2, <3>4
        <3> QED BY <3>3, <3>4
    <2> QED BY <2>1, <2>2
<1>6. \A v \in Workers : worker'[v].state \in {"dead", "down"} => worker'[v].runs = None
    BY <1>5 DEF HashInv
<1>7. \A m \in Elements : begun'[m] = begun[m] /\ \A v \in Workers : RunsUnacked(v, m) => RunsUnacked(v, m)'
    BY <1>1, <1>5 DEF RunsUnacked
<1>8. sent <= sent' /\ QueueType'
    BY <1>1, Facts DEF IInv
<1> QED BY <1>1, <1>4, <1>6, <1>7, <1>8, HashTogether

\* The message that is noted in the hash was in the reply, and nowhere else.
LEMMA HashReceive ==
    ASSUME IInv, HashInv, IInv', NEW w \in Workers, Receive(w)
    PROVE  HashInv'
<1>1. /\ reply[w] # NoReply /\ reply' = [reply EXCEPT ![w] = NoReply]
      /\ UNCHANGED <<lists, sent, begun, exposed>>
    BY DEF Receive
<1>2. reply'[w] = NoReply /\ \A v \in Workers \ {w} : reply'[v] = reply[v]
    BY <1>1, Facts
<1>3. \A m \in Elements : ListsFewer(m)
    BY <1>1, <1>2, ProperMessages DEF ListsFewer
<1>4. \A v \in Workers : /\ worker'[v].runs = worker[v].runs /\ worker'[v].acked = worker[v].acked
                         /\ worker'[v].state = worker[v].state
    <2>1. CASE reply[w] = Nil
        BY <2>1 DEF Receive
    <2>2. CASE reply[w] # Nil
        <3>1. PICK k : worker' = [worker EXCEPT ![w] = [worker[w] EXCEPT !.kept = k]]
            BY <2>2 DEF Receive, SetWorker
        <3>2. worker \in [Workers -> Worker] /\ worker[w] \in Worker
            BY Facts
        <3>3. worker'[w] = [worker[w] EXCEPT !.kept = k] /\ \A v \in Workers \ {w} : worker'[v] = worker[v]
            BY <3>1, <3>2
        <3> QED BY <3>2, <3>3 DEF Worker
    <2> QED BY <2>1, <2>2
<1>5. \A v \in Workers : worker'[v].state \in {"dead", "down"} => worker'[v].runs = None
    BY <1>4 DEF HashInv
<1>6. \A m \in Elements : begun'[m] = begun[m] /\ \A v \in Workers : RunsUnacked(v, m) => RunsUnacked(v, m)'
    BY <1>1, <1>4 DEF RunsUnacked
<1>7. ASSUME NEW m \in Elements \ exposed', m \in unacked', m \notin unacked PROVE Hashed(m)'
    <2>1. reply[w] = m /\ OnePlace(m)
        BY <1>1, <1>7, Facts DEF Receive
    <2>2. InReplies(m)
        BY <2>1 DEF InReplies
    <2>3. ~InLists(m) /\ ~(m > sent) /\ ~(begun[m] > 0)
        BY <2>1, <2>2 DEF OnePlace
    <2>4. \A v \in Workers \ {w} : reply[v] # m
        BY <2>1 DEF OnePlace
    <2>5. ~InLists(m)' /\ ~InReplies(m)' /\ ~(begun'[m] > 0)
        BY <1>1, <1>2, <2>3, <2>4, ProperMessages DEF InLists, InReplies
    <2>6. m <= sent'
        <3>1. m \in Nat /\ sent \in Nat /\ sent' = sent
            BY <1>1, Facts, ProperMessages
        <3> QED BY <2>3, <3>1
    <2> QED BY <2>5, <2>6 DEF Hashed
<1>8. sent <= sent' /\ QueueType' /\ exposed \subseteq exposed'
    BY <1>1, Facts DEF IInv
<1> QED BY <1>3, <1>5, <1>6, <1>7, <1>8, HashTogether

\* A task begins, unacknowledged; its worker ran nothing before.
LEMMA HashBegin ==
    ASSUME IInv, HashInv, IInv', NEW w \in Workers, Begin(w)
    PROVE  HashInv'
<1>1. PICK e, k, r : /\ e = Head(worker[w].kept) /\ k = Tail(worker[w].kept)
                     /\ r = [worker[w] EXCEPT !.kept = k, !.runs = e, !.acked = FALSE]
    OBVIOUS
<1>2. /\ worker[w].kept # <<>> /\ worker[w].state = "up" /\ worker[w].runs = None
      /\ worker' = [worker EXCEPT ![w] = r] /\ begun' = [begun EXCEPT ![e] = @ + 1]
      /\ UNCHANGED <<lists, reply, sent, unacked, exposed>>
    BY <1>1 DEF Begin, SetWorker, Is, listVars
<1>3. e \in Elements /\ worker[w] \in Worker /\ worker \in [Workers -> Worker]
    BY <1>1, <1>2, FirstKept, Facts
<1>4. r.runs = e /\ r.acked = FALSE /\ r.state = "up"
    BY <1>1, <1>2, <1>3 DEF Worker
<1>5. worker'[w] = r /\ \A v \in Workers \ {w} : worker'[v] = worker[v]
    BY <1>2, <1>3
<1>6. \A v \in Workers : worker'[v].state \in {"dead", "down"} => worker'[v].runs = None
    BY <1>4, <1>5 DEF HashInv
<1>7. \A m \in Elements : ListsFewer(m)
    BY <1>2 DEF ListsFewer
<1>8. ASSUME NEW m \in Elements, m # e
      PROVE  begun'[m] = begun[m] /\ \A v \in Workers : RunsUnacked(v, m) => RunsUnacked(v, m)'
    <2>1. begun'[m] = begun[m]
        BY <1>2, <1>3, <1>8, Facts
    <2>2. ~RunsUnacked(w, m)
        BY <1>2, ProperMessages DEF RunsUnacked
    <2> QED BY <1>5, <2>1, <2>2 DEF RunsUnacked
<1>9. ASSUME e \in Elements \ exposed', e \in unacked' PROVE Hashed(e)'
    <2>1. Hashed(e) /\ e \in unacked
        BY <1>2, <1>9 DEF HashInv
    <2>2. e <= sent' /\ ~InLists(e)' /\ ~InReplies(e)'
        BY <1>2, <2>1 DEF Hashed, InLists, InReplies
    <2>3. RunsUnacked(w, e)'
        BY <1>4, <1>5 DEF RunsUnacked
    <2> QED BY <2>2, <2>3 DEF Hashed
<1>10. sent <= sent' /\ QueueType' /\ exposed \subseteq exposed'
    BY <1>2, Facts DEF IInv
<1>11. ASSUME NEW m \in Elements \ exposed', m \in unacked'
       PROVE  \/ Hashed(m)'
              \/ /\ m \in unacked /\ ListsFewer(m) /\ begun'[m] = begun[m]
                 /\ \A v \in Workers : RunsUnacked(v, m) => RunsUnacked(v, m)'
    <2>1. CASE m = e
        BY <1>9, <1>11, <2>1
    <2>2. CASE m # e
        BY <1>2, <1>7, <1>8, <1>11, <2>2
    <2> QED BY <2>1, <2>2
<1> QED BY <1>6, <1>10, <1>11, HashTogether

\* A worker acknowledges, ends its task, is stopped, killed or started.  What
\* it ran and had not acknowledged leaves the hash, or is exposed.
LEMMA HashWorker ==
    ASSUME IInv, HashInv, IInv', NEW w \in Workers,
           Ack(w) \/ Finish(w) \/ WarmShutdown(w) \/ Exit(w) \/ Kill(w) \/ StartWorker(w)
    PROVE  HashInv'
<1>1. /\ UNCHANGED <<lists, reply, sent, begun>>
      /\ exposed \subseteq exposed' /\ unacked' \subseteq unacked
    BY DEF Ack, Finish, WarmShutdown, Exit, Kill, StartWorker, listVars
<1>2. worker \in [Workers -> Worker] /\ worker[w] \in Worker
    BY Facts
<1>3. PICK r : worker' = [worker EXCEPT ![w] = r]
    BY DEF Ack, Finish, WarmShutdown, Exit, Kill, StartWorker, SetWorker
<1>4. worker'[w] = r /\ \A v \in Workers \ {w} : worker'[v] = worker[v]
    BY <1>2, <1>3
<1>5. ASSUME NEW m \in Elements \ exposed', m \in unacked', RunsUnacked(w, m) PROVE RunsUnacked(w, m)'
    <2>1. worker[w].runs = m /\ ~worker[w].acked /\ m # None
        BY <1>5, ProperMessages DEF RunsUnacked
    <2>2. ~Ack(w)
        BY <1>5, <2>1 DEF Ack
    <2>3. ~Finish(w)
        BY <2>1 DEF Finish
    <2>4. ~Exit(w)
        BY <2>1 DEF Exit
    <2>5. ~Kill(w)
        BY <1>5, <2>1 DEF Kill
    <2>6. ~StartWorker(w)
        BY <2>1 DEF StartWorker, Is, HashInv
    <2>7. worker' = [worker EXCEPT ![w] = [worker[w] EXCEPT !.state = "stopping"]]
        BY <2>2, <2>3, <2>4, <2>5, <2>6 DEF WarmShutdown, SetWorker
    <2>8. worker'[w] = [worker[w] EXCEPT !.state = "stopping"]
        BY <1>2, <2>7
    <2>9. worker'[w].runs = worker[w].runs /\ worker'[w].acked = worker[w].acked
        BY <1>2, <2>8 DEF Worker
    <2> QED BY <2>1, <2>9 DEF RunsUnacked
<1>6. ASSUME worker'[w].state \in {"dead", "down"} PROVE worker'[w].runs = None
    <2>1. CASE Ack(w) \/ Finish(w) \/ WarmShutdown(w)
        <3>1. PICK b, c, d : worker'[w] = [worker[w] EXCEPT !.acked = b, !.runs = c, !.state = d]
                             /\ d \in {"up", "stopping"}
            <4>1. CASE Ack(w)
                <5>1. worker'[w] = [worker[w] EXCEPT !.acked = TRUE] /\ worker[w].state \in {"up", "stopping"}
                    BY <1>2, <4>1 DEF Ack, SetWorker
                <5>2. [worker[w] EXCEPT !.acked = TRUE]
                         = [worker[w] EXCEPT !.acked = TRUE, !.runs = worker[w].runs, !.state = worker[w].state]
                    BY <1>2 DEF Worker
                <5> QED BY <5>1, <5>2
            <4>2. CASE Finish(w)
                <5>1. worker'[w] = [worker[w] EXCEPT !.runs = None] /\ worker[w].state \in {"up", "stopping"}
                    BY <1>2, <4>2 DEF Finish, SetWorker
                <5>2. [worker[w] EXCEPT !.runs = None]
                         = [worker[w] EXCEPT !.acked = worker[w].acked, !.runs = None, !.state = worker[w].state]
                    BY <1>2 DEF Worker
                <5> QED BY <5>1, <5>2
            <4>3. CASE WarmShutdown(w)
                <5>1. worker'[w] = [worker[w] EXCEPT !.state = "stopping"]
                    BY <1>2, <4>3 DEF WarmShutdown, SetWorker
                <5>2. [worker[w] EXCEPT !.state = "stopping"]
                         = [worker[w] EXCEPT !.acked = worker[w].acked, !.runs = worker[w].runs, !.state = "stopping"]
                    BY <1>2 DEF Worker
                <5> QED BY <5>1, <5>2
            <4> QED BY <2>1, <4>1, <4>2, <4>3
        <3>2. worker'[w].state = d
            BY <1>2, <3>1 DEF Worker
        <3> QED BY <1>6, <3>1, <3>2
    <2>2. CASE Exit(w)
        <3>1. worker'[w] = [worker[w] EXCEPT !.state = "down"] /\ worker[w].runs = None
            BY <1>2, <2>2 DEF Exit, SetWorker
        <3> QED BY <1>2, <3>1 DEF Worker
    <2>3. CASE Kill(w) \/ StartWorker(w)
        <3>1. worker'[w] = Fresh \/ worker'[w] = [Fresh EXCEPT !.state = "dead"]
            BY <1>2, <2>3 DEF Kill, StartWorker, SetWorker
        <3> QED BY <3>1 DEF Fresh
    <2> QED BY <2>1, <2>2, <2>3
<1>7. \A v \in Workers : worker'[v].state \in {"dead", "down"} => worker'[v].runs = None
    BY <1>4, <1>6 DEF HashInv
<1>8. \A m \in Elements : ListsFewer(m) /\ begun'[m] = begun[m]
    BY <1>1 DEF ListsFewer
<1>9. ASSUME NEW m \in Elements \ exposed', m \in unacked', NEW v \in Workers, RunsUnacked(v, m)
      PROVE  RunsUnacked(v, m)'
    <2>1. CASE v = w
        BY <1>5, <1>9, <2>1
    <2>2. CASE v # w
        BY <1>4, <1>9, <2>2 DEF RunsUnacked
    <2> QED BY <2>1, <2>2
<1>10. sent <= sent' /\ QueueType'
    BY <1>1, Facts DEF IInv
<1> QED BY <1>1, <1>7, <1>8, <1>9, <1>10, HashTogether

\* The message that is put back leaves the hash.
LEMMA HashRestore ==
    ASSUME IInv, HashInv, IInv', NEW e \in Elements, RestoreByTag(e), UNCHANGED <<sent, begun>>,
           exposed \subseteq exposed',
           \A v \in Workers : /\ worker'[v].runs = worker[v].runs /\ worker'[v].acked = worker[v].acked
                              /\ worker'[v].state = worker[v].state
    PROVE  HashInv'
<1>1. \A m \in Elements : m \in unacked' => m \in unacked /\ ListsFewer(m)
    <2>1. CASE e \in unacked
        <3>1. RPush(Queue, e) /\ unacked' = unacked \ {e}
            BY <2>1 DEF RestoreByTag
        <3>2. \A m \in Elements \ {e} : ListsFewer(m)
            BY <3>1, PushToQueue
        <3> QED BY <3>1, <3>2
    <2>2. CASE e \notin unacked
        BY <2>2 DEF RestoreByTag, listVars, ListsFewer
    <2> QED BY <2>1, <2>2
<1>2. \A v \in Workers : worker'[v].state \in {"dead", "down"} => worker'[v].runs = None
    BY DEF HashInv
<1>3. \A m \in Elements : begun'[m] = begun[m] /\ \A v \in Workers : RunsUnacked(v, m) => RunsUnacked(v, m)'
    BY DEF RunsUnacked
<1>4. sent <= sent' /\ QueueType'
    BY Facts DEF IInv
<1> QED BY <1>1, <1>2, <1>3, <1>4, HashTogether

\* Both ways to put a message back.
LEMMA HashPutBack ==
    ASSUME IInv, HashInv, IInv',
           (\E w \in Workers : RestoreUnacked(w)) \/ \E m \in Elements : RestoreVisible(m)
    PROVE  HashInv'
<1>1. ASSUME NEW w \in Workers, RestoreUnacked(w) PROVE HashInv'
    <2>1. PICK e, k : e = Head(worker[w].kept) /\ k = Tail(worker[w].kept)
        OBVIOUS
    <2>2. /\ worker[w].kept # <<>> /\ RestoreByTag(e) /\ UNCHANGED <<sent, begun, exposed>>
          /\ worker' = [worker EXCEPT ![w] = [worker[w] EXCEPT !.kept = k]]
        BY <1>1, <2>1 DEF RestoreUnacked, SetWorker
    <2>3. e \in Elements /\ worker \in [Workers -> Worker] /\ worker[w] \in Worker
        BY <2>1, <2>2, FirstKept, Facts
    <2>4. worker'[w] = [worker[w] EXCEPT !.kept = k] /\ \A v \in Workers \ {w} : worker'[v] = worker[v]
        BY <2>2, <2>3
    <2>5. \A v \in Workers : /\ worker'[v].runs = worker[v].runs /\ worker'[v].acked = worker[v].acked
                             /\ worker'[v].state = worker[v].state
        BY <2>3, <2>4 DEF Worker
    <2> QED BY <2>2, <2>3, <2>5, HashRestore
<1>2. ASSUME NEW e \in Elements, RestoreVisible(e) PROVE HashInv'
    <2>1. RestoreByTag(e) /\ UNCHANGED <<sent, begun, worker>> /\ exposed \subseteq exposed'
        BY <1>2 DEF RestoreVisible
    <2> QED BY <2>1, HashRestore
<1> QED BY <1>1, <1>2

-----------------------------------------------------------------------------
(* The theorems. *)

\* The invariant holds when the queue is empty and all workers are started.
LEMMA InitInv == Init => IInv
<1> SUFFICES ASSUME Init PROVE IInv
    OBVIOUS
<1>1. /\ lists = [l \in Lists |-> <<>>] /\ blockingKeys = [l \in Lists |-> <<>>]
      /\ bpopKeys = [c \in Clients |-> {}] /\ reply = [c \in Clients |-> NoReply]
      /\ sent = 0 /\ unacked = {} /\ begun = [m \in Elements |-> 0]
      /\ worker = [w \in Workers |-> Fresh]
    BY DEF Init, ListsInit
<1>2. \A m : ~Occurs(<<>>, m) /\ AtMostOnce(<<>>, m)
    BY DEF Occurs, AtMostOnce
<1>3. <<>> \in Seq(Elements) /\ <<>> \in Seq(Clients)
    OBVIOUS
<1>4. Fresh \in Worker /\ Fresh.kept = <<>> /\ Fresh.runs = None /\ Fresh.state = "up"
    BY <1>3 DEF Fresh, Worker
<1>5. ListsType
    BY <1>1, <1>3 DEF ListsType
<1>6. Registered
    BY <1>1, <1>2 DEF Registered
<1>7. WaitingUnanswered /\ NoOneWaitsInVain
    BY <1>1 DEF WaitingUnanswered, NoOneWaitsInVain, Blocked
<1>8. QueueType
    BY <1>1, <1>4, QueueAssumption DEF QueueType
<1>9. WorkerInv
    BY <1>1, <1>4 DEF WorkerInv, Is
<1>10. LostOnlyInPop
    BY <1>1 DEF LostOnlyInPop
<1>11. ASSUME NEW m \in Elements PROVE OnePlace(m)
    <2>1. ~InLists(m) /\ ~InReplies(m) /\ ~InKept(m)
        BY <1>1, <1>2, <1>4, ProperMessages DEF InLists, InReplies, InKept, Workers
    <2>2. /\ \A l \in Lists : ~Occurs(lists[l], m) /\ AtMostOnce(lists[l], m)
          /\ \A w \in Workers : ~Occurs(worker[w].kept, m) /\ AtMostOnce(worker[w].kept, m)
          /\ \A w \in Workers : reply[w] # m
        BY <1>1, <1>2, <1>4, ProperMessages DEF Workers
    <2>3. begun[m] = 0
        BY <1>1
    <2> QED BY <2>1, <2>2, <2>3 DEF OnePlace
<1> QED BY <1>5, <1>6, <1>7, <1>8, <1>9, <1>10, <1>11 DEF IInv, ListsInv, Once

\* Every step keeps it.
LEMMA NextInv == IInv /\ HashInv /\ [Next]_vars => IInv'
<1> SUFFICES ASSUME IInv, HashInv, [Next]_vars PROVE IInv'
    OBVIOUS
<1>1. CASE Delay
    BY <1>1, DelayStep
<1>2. ASSUME NEW w \in Workers,
             \/ Poll(w) \/ PollTimeout(w) \/ Receive(w)
             \/ Begin(w) \/ Ack(w) \/ Finish(w)
             \/ WarmShutdown(w) \/ RestoreUnacked(w) \/ Exit(w)
             \/ Kill(w) \/ Disconnect(w) \/ StartWorker(w)
      PROVE  IInv'
    BY <1>2, PollStep, PollTimeoutStep, ReceiveStep, BeginStep, AckStep, FinishStep, StopStep,
       RestoreUnackedStep, KillStep, DisconnectStep
<1>3. ASSUME NEW m \in Elements, RestoreVisible(m) PROVE IInv'
    BY <1>3, RestoreVisibleStep
<1>4. CASE UNCHANGED vars
    <2>1. UNCHANGED <<lists, blockingKeys, bpopKeys, reply, sent, unacked, worker, begun, exposed, dropped>>
        BY <1>4 DEF vars, listVars, queueVars
    <2>2. ListsInv'
        BY <2>1 DEF IInv, ListsInv, ListsType, Registered, WaitingUnanswered, NoOneWaitsInVain, Blocked
    <2>3. QueueType' /\ exposed \subseteq exposed' /\ sent <= sent'
        BY <2>1, Facts DEF QueueType
    <2>4. \A v \in Workers : /\ Is(v, "down")' => Idle(v)'
                             /\ worker'[v].runs # None => begun'[worker'[v].runs] > 0
        BY <2>1, Facts DEF Is, Idle, Blocked
    <2>5. \A m \in 1..sent' : Known(m)'
        BY <2>1, Facts DEF Known, OnItsWay
    <2>6. \A m \in Elements : ListsFewer(m) /\ KeptFewer(m)
        BY <2>1 DEF ListsFewer, KeptFewer
    <2> QED BY <2>2, <2>3, <2>4, <2>5, <2>6, Together
<1> QED BY <1>1, <1>2, <1>3, <1>4 DEF Next

\* Every step keeps the invariant of the hash.
LEMMA NextHash == IInv /\ HashInv /\ IInv' /\ [Next]_vars => HashInv'
<1> SUFFICES ASSUME IInv, HashInv, IInv', [Next]_vars PROVE HashInv'
    OBVIOUS
<1>1. CASE UNCHANGED vars
    <2>1. UNCHANGED <<lists, reply, sent, unacked, worker, begun, exposed>>
        BY <1>1 DEF vars, listVars, queueVars
    <2>2. sent <= sent' /\ QueueType' /\ \A m \in Elements : ListsFewer(m)
        BY <2>1, Facts DEF IInv, ListsFewer
    <2> QED BY <2>1, <2>2, HashLists
<1>2. ASSUME NEW w \in Workers,
             \/ Poll(w) \/ PollTimeout(w) \/ Receive(w)
             \/ Begin(w) \/ Ack(w) \/ Finish(w)
             \/ WarmShutdown(w) \/ RestoreUnacked(w) \/ Exit(w)
             \/ Kill(w) \/ Disconnect(w) \/ StartWorker(w)
      PROVE  HashInv'
    BY <1>2, HashPoll, HashRelease, HashReceive, HashBegin, HashWorker, HashPutBack
<1> QED BY <1>1, <1>2, HashDelay, HashPutBack DEF Next

\* Both invariants hold always.
LEMMA Invariance == Spec => []IInv /\ []HashInv
<1>1. Init => HashInv
    <2> SUFFICES ASSUME Init PROVE HashInv
        OBVIOUS
    <2>1. unacked = {} /\ worker = [w \in Workers |-> Fresh]
        BY DEF Init
    <2> QED BY <2>1 DEF HashInv, Hashed, Fresh
<1> QED BY <1>1, InitInv, NextInv, NextHash, PTL DEF Spec

\* The variables keep their types, through every kill, timeout and restore.
THEOREM TypeCorrect == Spec => []TypeOK
<1>1. IInv => TypeOK
    BY DEF IInv, ListsInv, ListsType, QueueType, TypeOK
<1> QED BY <1>1, Invariance, PTL

\* No client sleeps beside a list that has an element: BRPOP blocks only if all
\* of its lists are empty, and a push that creates one serves a client instead.
THEOREM NoVainWaiting == Spec => []NoOneWaitsInVain
<1>1. IInv => NoOneWaitsInVain
    BY DEF IInv, ListsInv
<1> QED BY <1>1, Invariance, PTL

\* blocking_keys and bpop.keys agree, which unblockClientWaitingData relies on
\* when it removes the client from every queue.
THEOREM RegistrationConsistent == Spec => []BlockedClientsRegistered
<1>1. ASSUME IInv PROVE BlockedClientsRegistered
    <2>1. ASSUME NEW l \in Lists, NEW c \in Clients
          PROVE  Cardinality({i \in DOMAIN blockingKeys[l] : blockingKeys[l][i] = c})
                     = IF l \in bpopKeys[c] THEN 1 ELSE 0
        <3> DEFINE places == {i \in DOMAIN blockingKeys[l] : blockingKeys[l][i] = c}
        <3>1. /\ AtMostOnce(blockingKeys[l], c)
              /\ l \in bpopKeys[c] <=> Occurs(blockingKeys[l], c)
            BY <1>1 DEF IInv, ListsInv, Registered
        <3>2. CASE l \in bpopKeys[c]
            <4>1. PICK i \in DOMAIN blockingKeys[l] : blockingKeys[l][i] = c
                BY <3>1, <3>2 DEF Occurs
            <4>2. places = {i}
                BY <3>1, <4>1 DEF AtMostOnce
            <4> HIDE DEF places
            <4>3. Cardinality(places) = 1
                BY <4>2, FS_Singleton
            <4> QED BY <3>2, <4>3 DEF places
        <3>3. CASE l \notin bpopKeys[c]
            <4>1. places = {}
                BY <3>1, <3>3 DEF Occurs
            <4> HIDE DEF places
            <4>2. Cardinality(places) = 0
                BY <4>1, FS_EmptySet
            <4> QED BY <3>3, <4>2 DEF places
        <3> QED BY <3>2, <3>3
    <2>2. \A c \in Clients : Blocked(c) => reply[c] = NoReply
        BY <1>1 DEF IInv, ListsInv, WaitingUnanswered
    <2> QED BY <2>1, <2>2 DEF BlockedClientsRegistered
<1> QED BY <1>1, Invariance, PTL

\* A task is lost only with a worker that was killed while its message was on
\* the way to it, whatever the number of workers, kills and restores.
THEOREM LossOnlyInPop == Spec => []LostOnlyInPop
<1>1. IInv => LostOnlyInPop
    BY DEF IInv
<1> QED BY <1>1, Invariance, PTL

\* A task is begun at most once, through every stop and restore, unless it was
\* put back while a worker had it or its worker was killed before the ack.
THEOREM RunOnce == Spec => []RunsOnceUnlessExposed
<1>1. IInv => RunsOnceUnlessExposed
    BY DEF IInv, Once, OnePlace, RunsOnceUnlessExposed
<1> QED BY <1>1, Invariance, PTL
=============================================================================
