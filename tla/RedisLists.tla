----------------------------- MODULE RedisLists -----------------------------
(***************************************************************************)
(* The lists of the Redis server and the clients that block on them        *)
(* (t_list.c, blocked.c, timeout.c): LPUSH, RPUSH and BRPOP, which the     *)
(* broker of the Celery workers is made of.                                *)
(*                                                                         *)
(* The server executes one command at a time and serves the blocked        *)
(* clients before it looks at the next one, so that a push, the key that   *)
(* it makes ready and the replies to those clients are one step.  A list   *)
(* without elements is a key that does not exist.  All keys are lists, and *)
(* all blocked clients wait in BRPOP.                                      *)
(***************************************************************************)
EXTENDS Integers, Sequences, FiniteSets

CONSTANTS
    Lists,       \* the keys
    Elements,    \* what is pushed
    Clients,     \* the connections that call BRPOP
    Nil,         \* the null reply of BRPOP after its timeout
    NoReply      \* the client has no reply to read

ASSUME ListsAssumption == Nil \notin Elements /\ NoReply \notin Elements /\ Nil # NoReply

VARIABLES
    lists,          \* lists[l]: the elements, from the head to the tail
    blockingKeys,   \* db->blocking_keys[l]: the clients blocked on l, first come first
    bpopKeys,       \* c->bpop.keys: the lists client c is blocked on
    reply           \* reply[c]: the reply to BRPOP that c has not read yet

listVars == <<lists, blockingKeys, bpopKeys, reply>>

\* The values of these variables, and the step to others.
Db == [lists |-> lists, blocking |-> blockingKeys, bpop |-> bpopKeys, reply |-> reply]
Become(db) ==
    /\ lists' = db.lists
    /\ blockingKeys' = db.blocking
    /\ bpopKeys' = db.bpop
    /\ reply' = db.reply

ListsInit ==
    /\ lists = [l \in Lists |-> <<>>]
    /\ blockingKeys = [l \in Lists |-> <<>>]
    /\ bpopKeys = [c \in Clients |-> {}]
    /\ reply = [c \in Clients |-> NoReply]

Blocked(c) == bpopKeys[c] # {}

-----------------------------------------------------------------------------
(* blocked.c *)

\* listDelNode, for the node that blockForKeys has added for c
Unlink(queue, c) ==
    LET i == CHOOSE i \in DOMAIN queue : queue[i] = c
    IN  SubSeq(queue, 1, i - 1) \o SubSeq(queue, i + 1, Len(queue))

\* Mutation: the client is taken off one list only.
UnblockFrom(db, l, c) ==
    [db EXCEPT !.blocking[l] = Unlink(@, c), !.bpop[c] = {}]

\* unblockClient, for client c that was waiting for l, possibly among others
Unblock(db, l, c) ==
    [db EXCEPT !.blocking = [k \in Lists |-> IF k \in db.bpop[c] THEN Unlink(@[k], c) ELSE @[k]],
               !.bpop[c] = {}]

\* serveClientsBlockedOnListKey: the client that has blocked first gets the
\* element at the tail.  The list has just been created by a push of one
\* element, so that there is none left for the next client.
ServeBlocked(db, l) ==
    LET s == db.lists[l]
        c == Head(db.blocking[l]) IN
    IF db.blocking[l] = <<>> THEN db
    ELSE [Unblock(db, l, c) EXCEPT !.lists[l] = SubSeq(s, 1, Len(s) - 1),
                                   !.reply[c] = s[Len(s)]]

\* blockForKeys
BlockForKeys(db, c, keys) ==
    [db EXCEPT !.blocking = [l \in Lists |-> IF l \in keys THEN Append(@[l], c) ELSE @[l]],
               !.bpop[c] = keys]

-----------------------------------------------------------------------------
(* The commands *)

\* Mutation: a push makes no key ready.
PushUnsignalled(db, l, s) == [db EXCEPT !.lists[l] = s]

\* The list l becomes s by a push.  dbAdd signals a key that did not exist; an
\* element that joins others signals nothing.
Push(db, l, s) ==
    IF db.lists[l] = <<>>
    THEN ServeBlocked([db EXCEPT !.lists[l] = s], l)
    ELSE [db EXCEPT !.lists[l] = s]

\* LPUSH l e
LPush(l, e) == Become(Push(Db, l, <<e>> \o lists[l]))

\* RPUSH l e
RPush(l, e) == Become(Push(Db, l, Append(lists[l], e)))

\* Mutation: the reply is the key, which precedes the element in the array.
BRPopKey(c, keys) ==
    /\ ~Blocked(c)
    /\ reply[c] = NoReply
    /\ \E l \in {keys[i] : i \in DOMAIN keys} :
          /\ lists[l] # <<>>
          /\ Become([Db EXCEPT !.lists[l] = SubSeq(@, 1, Len(@) - 1), !.reply[c] = l])

\* BRPOP: the last element of the first list that has one; if there is none,
\* the client blocks.
BRPop(c, keys) ==
    /\ ~Blocked(c)
    /\ reply[c] = NoReply
    /\ \/ \E i \in DOMAIN keys :
             LET l == keys[i] IN
             /\ lists[l] # <<>>
             /\ \A k \in 1..(i - 1) : lists[keys[k]] = <<>>
             /\ Become([Db EXCEPT !.lists[l] = SubSeq(@, 1, Len(@) - 1),
                                  !.reply[c] = lists[l][Len(lists[l])]])
       \/ /\ \A i \in DOMAIN keys : lists[keys[i]] = <<>>
          /\ Become(BlockForKeys(Db, c, {keys[i] : i \in DOMAIN keys}))

\* handleBlockedClientsTimeout
BlockTimeout(c) ==
    /\ Blocked(c)
    /\ \E l \in bpopKeys[c] : Become([Unblock(Db, l, c) EXCEPT !.reply[c] = Nil])

\* freeClient, when the server finds the connection closed; a reply that was
\* not read is gone.
FreeClient(c) ==
    IF Blocked(c)
    THEN \E l \in bpopKeys[c] : Become([Unblock(Db, l, c) EXCEPT !.reply[c] = NoReply])
    ELSE Become([Db EXCEPT !.reply[c] = NoReply])

-----------------------------------------------------------------------------
(* Properties *)

\* No client sleeps beside a list that has an element.  A push to such a list
\* would not wake it either: only a key that is created becomes ready.
NoOneWaitsInVain ==
    \A l \in Lists : blockingKeys[l] # <<>> => lists[l] = <<>>

\* The two sides of blocking agree: a client is in the queue of a list, once,
\* if and only if the list is among the keys it is blocked on, and it has no
\* reply then (unblockClientWaitingData asserts the former).
BlockedClientsRegistered ==
    /\ \A l \in Lists : \A c \in Clients :
          Cardinality({i \in DOMAIN blockingKeys[l] : blockingKeys[l][i] = c})
              = IF l \in bpopKeys[c] THEN 1 ELSE 0
    /\ \A c \in Clients : Blocked(c) => reply[c] = NoReply

=============================================================================
