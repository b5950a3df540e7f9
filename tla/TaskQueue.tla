----------------------------- MODULE TaskQueue -----------------------------
(***************************************************************************)
(* The way of a task from .delay() in a view, or from the beat schedule of *)
(* youtubeRecords/celery.py, through the broker in Redis (module           *)
(* RedisLists) to a Celery worker that runs it.  Celery and kombu are not  *)
(* in the repository; what they do is taken from how the application       *)
(* configures and starts them (settings.py, celery.py) and from celery.log.*)
(*                                                                         *)
(* A worker asks for the next message with BRPOP, notes it in the hash     *)
(* "unacked" when it has arrived, keeps it until its process is free, and  *)
(* acknowledges it when the task has begun (acks_late is not set), not     *)
(* when it has ended.  A worker that is told to stop puts back what it has *)
(* not begun ("Restoring 1 unacknowledged message(s)", celery.log:61); one *)
(* that is killed (celery.py:2) leaves it in the hash, and any worker puts *)
(* it back after the visibility timeout.  Messages are numbered in the     *)
(* order in which they are sent.                                           *)
(***************************************************************************)
EXTENDS RedisLists

CONSTANTS
    Queue,        \* the list "celery"
    Polled,       \* the lists a worker names in BRPOP, in this order
    Prefetch,     \* the messages a worker keeps at most
    MaxMessages,  \* bound on the messages
    MaxStops,     \* bound on the workers that are killed or told to stop
    MaxSlow       \* bound on the messages a worker keeps for too long

ASSUME QueueAssumption ==
    /\ Polled \in Seq(Lists)
    /\ Queue \in {Polled[i] : i \in DOMAIN Polled}
    /\ Prefetch \in Nat \ {0}
    /\ MaxStops \in Nat
    /\ MaxSlow \in Nat
    /\ MaxMessages \in Nat
    /\ Elements = 1..MaxMessages

Workers == Clients

VARIABLES
    sent,      \* the messages 1..sent have been sent
    unacked,   \* the hash of messages that are delivered and not acknowledged
    worker,    \* worker[w]: its state, the messages it keeps and the one it runs
    stops,     \* the number of workers stopped so far
    slow,      \* the number of messages kept for too long so far
    begun,     \* history: begun[m]: how often m was begun
    exposed,   \* history: the messages that were put back while a worker had
               \* them, or whose worker was killed after it had begun them and
               \* before it had acknowledged them
    dropped    \* history: the messages that went to a worker that was dead, or
               \* died before it had noted them

queueVars == <<sent, unacked, worker, stops, slow, begun, exposed, dropped>>
vars == <<listVars, queueVars>>

None == 0
Worker == [state : {"up", "stopping", "dead", "down"}, kept : Seq(Elements),
           runs : Elements \cup {None}, acked : BOOLEAN]
Fresh == [state |-> "up", kept |-> <<>>, runs |-> None, acked |-> TRUE]

Is(w, state) == worker[w].state = state
SetWorker(w, r) == worker' = [worker EXCEPT ![w] = r]

Init ==
    /\ ListsInit
    /\ sent = 0
    /\ unacked = {}
    /\ worker = [w \in Workers |-> Fresh]
    /\ stops = 0
    /\ slow = 0
    /\ begun = [m \in Elements |-> 0]
    /\ exposed = {}
    /\ dropped = {}

-----------------------------------------------------------------------------
(* Sending and receiving *)

\* What a push or a pop hands to a dead worker is gone.
ToTheDead(r) == {r[w] : w \in {w \in Workers : Is(w, "dead")}} \cap Elements

\* .delay(...) in a view, or a task of beat_schedule
Delay ==
    /\ sent < MaxMessages
    /\ sent' = sent + 1
    /\ LPush(Queue, sent + 1)
    /\ dropped' = dropped \cup ToTheDead(reply')
    /\ UNCHANGED <<unacked, worker, stops, slow, begun, exposed>>

\* The worker polls while it may keep more messages.
Poll(w) ==
    /\ Is(w, "up")
    /\ Len(worker[w].kept) < Prefetch
    /\ BRPop(w, Polled)
    /\ UNCHANGED queueVars

\* Its poll ends without a message after a second.
PollTimeout(w) ==
    /\ BlockTimeout(w)
    /\ UNCHANGED queueVars

\* Mutation: messages need no acknowledgement.
ReceiveNoAck(w) ==
    /\ worker[w].state \in {"up", "stopping"}
    /\ reply[w] # NoReply
    /\ reply' = [reply EXCEPT ![w] = NoReply]
    /\ IF reply[w] = Nil THEN UNCHANGED worker
       ELSE SetWorker(w, [worker[w] EXCEPT !.kept = Append(@, reply[w])])
    /\ UNCHANGED <<lists, blockingKeys, bpopKeys, sent, unacked, stops, slow, begun, exposed, dropped>>

\* The reply arrives: HSET unacked.
Receive(w) ==
    /\ worker[w].state \in {"up", "stopping"}
    /\ reply[w] # NoReply
    /\ reply' = [reply EXCEPT ![w] = NoReply]
    /\ IF reply[w] = Nil THEN UNCHANGED <<unacked, worker>>
       ELSE /\ unacked' = unacked \cup {reply[w]}
            /\ SetWorker(w, [worker[w] EXCEPT !.kept = Append(@, reply[w])])
    /\ UNCHANGED <<lists, blockingKeys, bpopKeys, sent, stops, slow, begun, exposed, dropped>>

-----------------------------------------------------------------------------
(* Running *)

\* The pool process begins the first of the messages kept.
Begin(w) ==
    LET m == Head(worker[w].kept) IN
    /\ Is(w, "up")
    /\ worker[w].runs = None
    /\ worker[w].kept # <<>>
    /\ SetWorker(w, [worker[w] EXCEPT !.kept = Tail(@), !.runs = m, !.acked = FALSE])
    /\ begun' = [begun EXCEPT ![m] = @ + 1]
    /\ UNCHANGED <<listVars, sent, unacked, stops, slow, exposed, dropped>>

\* The main process is told so and acknowledges: HDEL unacked.
Ack(w) ==
    /\ worker[w].state \in {"up", "stopping"}
    /\ ~worker[w].acked
    /\ unacked' = unacked \ {worker[w].runs}
    /\ SetWorker(w, [worker[w] EXCEPT !.acked = TRUE])
    /\ UNCHANGED <<listVars, sent, stops, slow, begun, exposed, dropped>>

\* The task returns or raises; neither is retried.
Finish(w) ==
    /\ worker[w].state \in {"up", "stopping"}
    /\ worker[w].runs # None
    /\ worker[w].acked
    /\ SetWorker(w, [worker[w] EXCEPT !.runs = None])
    /\ UNCHANGED <<listVars, sent, unacked, stops, slow, begun, exposed, dropped>>

-----------------------------------------------------------------------------
(* Stopping, and putting back *)

\* Mutation: the message stays in the hash.
RestoreByTagKeeps(m) ==
    IF m \in unacked
    THEN /\ RPush(Queue, m)
         /\ dropped' = dropped \cup ToTheDead(reply')
         /\ UNCHANGED unacked
    ELSE UNCHANGED <<listVars, unacked, dropped>>

\* If the message is still in the hash, it goes back to the end of the list
\* that is popped.
RestoreByTag(m) ==
    IF m \in unacked
    THEN /\ RPush(Queue, m)
         /\ unacked' = unacked \ {m}
         /\ dropped' = dropped \cup ToTheDead(reply')
    ELSE UNCHANGED <<listVars, unacked, dropped>>

\* pkill -f "celery worker": it polls and begins no more, and ends its task.
WarmShutdown(w) ==
    /\ Is(w, "up")
    /\ stops < MaxStops
    /\ stops' = stops + 1
    /\ SetWorker(w, [worker[w] EXCEPT !.state = "stopping"])
    /\ UNCHANGED <<listVars, sent, unacked, slow, begun, exposed, dropped>>

\* Then it puts back what it keeps, one by one,
RestoreUnacked(w) ==
    /\ Is(w, "stopping")
    /\ worker[w].runs = None
    /\ ~Blocked(w) /\ reply[w] = NoReply
    /\ worker[w].kept # <<>>
    /\ RestoreByTag(Head(worker[w].kept))
    /\ SetWorker(w, [worker[w] EXCEPT !.kept = Tail(@)])
    /\ UNCHANGED <<sent, stops, slow, begun, exposed>>

\* and exits.
Exit(w) ==
    /\ Is(w, "stopping")
    /\ worker[w].runs = None
    /\ ~Blocked(w) /\ reply[w] = NoReply
    /\ worker[w].kept = <<>>
    /\ SetWorker(w, [worker[w] EXCEPT !.state = "down"])
    /\ UNCHANGED <<listVars, sent, unacked, stops, slow, begun, exposed, dropped>>

\* kill -9: all of its processes are gone.  The server does not know yet.
Kill(w) ==
    /\ worker[w].state \in {"up", "stopping"}
    /\ stops < MaxStops
    /\ stops' = stops + 1
    /\ SetWorker(w, [Fresh EXCEPT !.state = "dead"])
    /\ dropped' = dropped \cup ({reply[w]} \cap Elements)
    /\ exposed' = IF worker[w].acked THEN exposed ELSE exposed \cup {worker[w].runs}
    /\ UNCHANGED <<listVars, sent, unacked, slow, begun>>

\* The server closes the connection.
Disconnect(w) ==
    /\ Is(w, "dead")
    /\ FreeClient(w)
    /\ SetWorker(w, [worker[w] EXCEPT !.state = "down"])
    /\ UNCHANGED <<sent, unacked, stops, slow, begun, exposed, dropped>>

\* The worker is started again.
StartWorker(w) ==
    /\ Is(w, "down")
    /\ SetWorker(w, Fresh)
    /\ UNCHANGED <<listVars, sent, unacked, stops, slow, begun, exposed, dropped>>

\* A worker that runs has the message, begun or not, and has not acknowledged it.
Held(m) ==
    \E w \in Workers :
        \/ m \in {worker[w].kept[i] : i \in DOMAIN worker[w].kept}
        \/ worker[w].runs = m /\ ~worker[w].acked

\* restore_visible: a worker finds a message that has been in the hash for
\* longer than the visibility timeout, whether its worker is dead or slow.
RestoreVisible(m) ==
    /\ \E w \in Workers : Is(w, "up")
    /\ m \in unacked
    /\ IF Held(m)
       THEN /\ slow < MaxSlow
            /\ slow' = slow + 1
            /\ exposed' = exposed \cup {m}
       ELSE UNCHANGED <<slow, exposed>>
    /\ RestoreByTag(m)
    /\ UNCHANGED <<sent, worker, stops, begun>>

Next ==
    \/ Delay
    \/ \E w \in Workers :
          \/ Poll(w) \/ PollTimeout(w) \/ Receive(w)
          \/ Begin(w) \/ Ack(w) \/ Finish(w)
          \/ WarmShutdown(w) \/ RestoreUnacked(w) \/ Exit(w)
          \/ Kill(w) \/ Disconnect(w) \/ StartWorker(w)
    \/ \E m \in Elements : RestoreVisible(m)

\* The workers that run carry on and look for messages to restore; tasks end;
\* a worker that has stopped need not be started again.
Fairness ==
    /\ \A w \in Workers :
          /\ WF_vars(Poll(w)) /\ WF_vars(PollTimeout(w)) /\ WF_vars(Receive(w))
          /\ WF_vars(Begin(w)) /\ WF_vars(Ack(w)) /\ WF_vars(Finish(w))
          /\ WF_vars(RestoreUnacked(w))
    /\ \A m \in Elements : WF_vars(RestoreVisible(m))

Spec == Init /\ [][Next]_vars /\ Fairness

-----------------------------------------------------------------------------
(* Properties *)

\* The variables have the types the comments at their declaration give.
TypeOK ==
    /\ lists \in [Lists -> Seq(Elements)]
    /\ reply \in [Clients -> Elements \cup {Nil, NoReply}]
    /\ sent \in 0..MaxMessages
    /\ unacked \subseteq Elements
    /\ worker \in [Workers -> Worker]
    /\ begun \in [Elements -> Nat]

InQueue(m) == \E i \in DOMAIN lists[Queue] : lists[Queue][i] = m

\* The message is on its way to a worker that runs.
OnItsWay(m) == \E w \in Workers : reply[w] = m /\ worker[w].state \in {"up", "stopping"}

\* A task is never lost silently: one that was sent is in the queue, on its way
\* to a worker, in the hash from which it will be restored, or was begun.  It
\* is lost only if a worker was killed between the pop and the note in the
\* hash, or before the server found its connection closed.
LostOnlyInPop ==
    \A m \in 1..sent :
        m \in unacked \/ m \in dropped \/ begun[m] > 0 \/ InQueue(m) \/ OnItsWay(m)

\* A task runs once, however often it was put back by workers that stopped, or
\* by others after its worker was killed.  It may run again only if it was put
\* back while a worker still had it (the visibility timeout also strikes a
\* worker that is merely slow), or if its worker was killed in the moment
\* between beginning and acknowledging it.
RunsOnceUnlessExposed == \A m \in Elements : m \notin exposed => begun[m] <= 1

\* Every task that is sent is begun, by a worker that runs, unless it is lost
\* as above; also one that a killed or a stopped worker was keeping.
SentTasksBegin ==
    \A m \in Elements :
        m <= sent ~> begun[m] > 0 \/ m \in dropped \/ \A w \in Workers : ~Is(w, "up")

=============================================================================
