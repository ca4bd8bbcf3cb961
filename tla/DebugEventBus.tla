---------------------------- MODULE DebugEventBus ----------------------------
(***************************************************************************)
(* The fan-out of submitted events to debug stream clients, the class      *)
(* DebugEventBus of api/routes.py, with the three kinds of code that use   *)
(* it:                                                                     *)
(*  - the ingest handlers publish one line per event; they run on threads  *)
(*    of the pool;                                                         *)
(*  - the streams of the clients are coroutines of the event loop; they    *)
(*    all run on the main thread, one at a time, and give way only where   *)
(*    they wait;                                                           *)
(*  - EventCollectorServer.handle_exit is a signal handler: it closes the  *)
(*    bus on the main thread too, on top of whatever that thread is doing. *)
(* All of them take the same lock, which is not reentrant.                 *)
(***************************************************************************)
EXTENDS Integers, Sequences, FiniteSets, SequencesExt

CONSTANTS
    Publisher,     \* handler threads
    Client,        \* stream requests
    Lines,         \* Lines[p]: how many lines publisher p has to publish
    queue_size,    \* capacity of a subscriber's queue
    history_size,  \* how many lines the bus remembers
    SignalPoints,  \* where the main thread may be interrupted: a subset of
                   \* {"unlocked", "locked"}, "locked" inside a critical section
    Free, Main, Handler   \* holders of the lock that are not publishers

ASSUME DebugEventBusAssumption ==
    /\ Lines \in [Publisher -> Nat]
    /\ queue_size \in Nat \ {0} /\ history_size \in Nat \ {0}
    /\ SignalPoints \subseteq {"unlocked", "locked"}
    /\ {Free, Main, Handler} \cap Publisher = {}
    /\ Free # Main /\ Free # Handler /\ Main # Handler

(* A line is the n-th that a publisher publishes.                          *)
Line == {l \in Publisher \X Nat : l[2] \in 1 .. Lines[l[1]]}

VARIABLES
    lock,         \* who holds _lock
    closed,       \* _closed
    history,      \* _history, a deque of at most history_size lines
    subscribers,  \* _subscribers
    queue,        \* queue[c]: the queue that subscribe gave to c
    pub,          \* pub[p]: where thread p is in publish
    count,        \* count[p]: how many lines p has begun to publish
    targets,      \* targets[p]: the subscribers p has still to serve
    stream,       \* stream[c]: where the stream of c is
    handler,      \* where the signal handler is
    received,     \* received[c]: what c was sent
    log,          \* every line put into the history, in that order
    since,        \* since[c]: how much of the log was forgotten when c subscribed
    missed        \* missed[c]: lines dropped because the queue of c was full

shared  == <<closed, history, subscribers, queue, log, since, missed>>
threads == <<pub, count, targets>>
vars == <<lock, shared, threads, stream, handler, received>>

(* Not running on the main thread: asleep for want of a line, or held by a *)
(* client that does not read what it is sent.                              *)
Waiting == {"off", "asleep", "sending", "ended"}
Running == {"subscribe", "subscribe_locked", "check", "check_locked", "get",
            "unsubscribe", "unsubscribe_locked"}

TypeOK ==
    /\ lock \in {Free, Main, Handler} \cup Publisher
    /\ closed \in BOOLEAN
    /\ history \in Seq(Line) /\ Len(history) <= history_size
    /\ subscribers \subseteq Client
    /\ queue \in [Client -> Seq(Line)] /\ \A c \in Client : Len(queue[c]) <= queue_size
    /\ pub \in [Publisher -> {"idle", "locked", "put"}]
    /\ count \in [Publisher -> Nat] /\ \A p \in Publisher : count[p] <= Lines[p]
    /\ targets \in [Publisher -> SUBSET Client]
    /\ stream \in [Client -> Waiting \cup Running]
    /\ handler \in {"none", "close", "locked", "done"}
    /\ received \in [Client -> Seq(Line)]
    /\ log \in Seq(Line)
    /\ since \in [Client -> Nat]
    /\ missed \in [Client -> SUBSET Line]

Init ==
    /\ lock = Free /\ closed = FALSE /\ history = <<>> /\ subscribers = {}
    /\ queue = [c \in Client |-> <<>>]
    /\ pub = [p \in Publisher |-> "idle"]
    /\ count = [p \in Publisher |-> 0]
    /\ targets = [p \in Publisher |-> {}]
    /\ stream = [c \in Client |-> "off"]
    /\ handler = "none"
    /\ received = [c \in Client |-> <<>>]
    /\ log = <<>>
    /\ since = [c \in Client |-> 0]
    /\ missed = [c \in Client |-> {}]

-----------------------------------------------------------------------------
(* publish, on a thread of the pool.                                       *)

(* The last n elements, and the first n.                                   *)
LastOf(s, n)  == SubSeq(s, IF Len(s) > n THEN Len(s) - n + 1 ELSE 1, Len(s))
FirstOf(s, n) == SubSeq(s, 1, IF Len(s) > n THEN n ELSE Len(s))

CurrentLine(p) == <<p, count[p]>>

(* Variants as a plausible bug would write them; each shows that a         *)
(* property notices.                                                       *)

PutNowaitLive(p, c) ==   \* the live set of subscribers is served, not the copy
    /\ pub[p] = "put" /\ c \in subscribers
    /\ Len(queue[c]) < queue_size
    /\ queue' = [queue EXCEPT ![c] = Append(@, CurrentLine(p))]
    /\ targets' = [targets EXCEPT ![p] = @ \ {c}]
    /\ UNCHANGED <<lock, closed, history, subscribers, log, since, missed, pub, count, stream,
                   handler, received>>

PutBlocking(p, c) ==   \* put instead of put_nowait
    /\ pub[p] = "put" /\ c \in targets[p]
    /\ Len(queue[c]) < queue_size
    /\ queue' = [queue EXCEPT ![c] = Append(@, CurrentLine(p))]
    /\ targets' = [targets EXCEPT ![p] = @ \ {c}]
    /\ UNCHANGED <<lock, closed, history, subscribers, log, since, missed, pub, count, stream,
                   handler, received>>

PublishLock(p) ==
    /\ pub[p] = "idle" /\ count[p] < Lines[p]
    /\ lock = Free
    /\ lock' = p
    /\ pub' = [pub EXCEPT ![p] = "locked"]
    /\ count' = [count EXCEPT ![p] = @ + 1]
    /\ UNCHANGED <<shared, targets, stream, handler, received>>

(* The subscribers are copied under the lock and served without it.        *)
PublishBody(p) ==
    /\ pub[p] = "locked"
    /\ lock' = Free
    /\ IF closed
       THEN /\ pub' = [pub EXCEPT ![p] = "idle"]
            /\ UNCHANGED <<history, log, targets>>
       ELSE /\ history' = LastOf(Append(history, CurrentLine(p)), history_size)
            /\ log' = Append(log, CurrentLine(p))
            /\ targets' = [targets EXCEPT ![p] = subscribers]
            /\ pub' = [pub EXCEPT ![p] = "put"]
    /\ UNCHANGED <<closed, subscribers, queue, since, missed, count, stream, handler, received>>

(* put_nowait to one subscriber, in any order: a full queue drops the line.*)
PutNowait(p, c) ==
    /\ pub[p] = "put" /\ c \in targets[p]
    /\ IF Len(queue[c]) < queue_size
       THEN queue' = [queue EXCEPT ![c] = Append(@, CurrentLine(p))] /\ UNCHANGED missed
       ELSE missed' = [missed EXCEPT ![c] = @ \cup {CurrentLine(p)}] /\ UNCHANGED queue
    /\ targets' = [targets EXCEPT ![p] = @ \ {c}]
    /\ UNCHANGED <<lock, closed, history, subscribers, log, since, pub, count, stream,
                   handler, received>>

PublishReturn(p) ==
    /\ pub[p] = "put" /\ targets[p] = {}
    /\ pub' = [pub EXCEPT ![p] = "idle"]
    /\ UNCHANGED <<lock, shared, count, targets, stream, handler, received>>

Publish(p) ==
    \/ PublishLock(p) \/ PublishBody(p) \/ PublishReturn(p)
    \/ \E c \in Client : PutNowait(p, c)

-----------------------------------------------------------------------------
(* The main thread: the coroutine of one client at a time.                 *)

(* The loop is free to resume a coroutine: none runs, no handler does.     *)
LoopFree == /\ \A c \in Client : stream[c] \in Waiting
            /\ handler \in {"none", "done"}

Goto(c, label) == stream' = [stream EXCEPT ![c] = label]

(* The coroutine itself is not interrupted by the handler.                 *)
Runs(c, label) == stream[c] = label /\ handler \in {"none", "done"}

Resume(c, from, to) ==
    /\ LoopFree /\ stream[c] = from
    /\ Goto(c, to)
    /\ UNCHANGED <<lock, shared, threads, handler, received>>

(* Variants as a plausible bug would write them.                           *)

CancelWithoutFinally(c) ==   \* a cancelled stream does not unsubscribe
    Resume(c, "asleep", "ended") \/ Resume(c, "sending", "ended")

ExpireAsleep(c) ==   \* only the streams that sleep are cancelled at the end
    handler = "done" /\ Resume(c, "asleep", "unsubscribe")

SubscribeBodyWithoutReplay(c) ==   \* the history is not replayed
    /\ Runs(c, "subscribe_locked")
    /\ lock' = Free
    /\ Goto(c, "check")
    /\ subscribers' = subscribers \cup {c}
    /\ since' = [since EXCEPT ![c] = Len(log) - Len(history)]
    /\ UNCHANGED <<closed, history, queue, log, missed, threads, handler, received>>

CheckBodyIgnoringClosed(c) ==   \* while True
    /\ Runs(c, "check_locked")
    /\ lock' = Free
    /\ Goto(c, "get")
    /\ UNCHANGED <<shared, threads, handler, received>>

(* The stream is requested.                                                *)
Open(c) == Resume(c, "off", "subscribe")

(* The idle sleep is over.                                                 *)
Wake(c) == Resume(c, "asleep", "check")

(* A line is on its way; send waits while the client does not read.        *)
SendReturns(c) == Resume(c, "sending", "check")

(* A stream is cancelled at either wait: its client went away.             *)
Cancel(c) == Resume(c, "asleep", "unsubscribe") \/ Resume(c, "sending", "unsubscribe")

(* timeout_graceful_shutdown, after an interrupt: the server cancels what  *)
(* has not ended by itself.                                                *)
Expire(c) == handler = "done" /\ Cancel(c)

Lock(c, from, to) ==
    /\ Runs(c, from)
    /\ lock = Free
    /\ lock' = Main
    /\ Goto(c, to)
    /\ UNCHANGED <<shared, threads, handler, received>>

SubscribeLock(c)   == Lock(c, "subscribe", "subscribe_locked")
CheckLock(c)       == Lock(c, "check", "check_locked")
UnsubscribeLock(c) == Lock(c, "unsubscribe", "unsubscribe_locked")

(* The history is replayed, oldest line first, until the queue is full.    *)
SubscribeBody(c) ==
    /\ Runs(c, "subscribe_locked")
    /\ lock' = Free
    /\ Goto(c, "check")
    /\ IF closed
       THEN UNCHANGED <<queue, subscribers, since, missed>>
       ELSE /\ queue' = [queue EXCEPT ![c] = FirstOf(history, queue_size)]
            /\ missed' = [missed EXCEPT ![c] =
                             ToSet(history) \ ToSet(FirstOf(history, queue_size))]
            /\ subscribers' = subscribers \cup {c}
            /\ since' = [since EXCEPT ![c] = Len(log) - Len(history)]
    /\ UNCHANGED <<closed, history, log, threads, handler, received>>

(* while not bus.is_closed()                                               *)
CheckBody(c) ==
    /\ Runs(c, "check_locked")
    /\ lock' = Free
    /\ Goto(c, IF closed THEN "unsubscribe" ELSE "get")
    /\ UNCHANGED <<shared, threads, handler, received>>

(* A line is sent, or the coroutine sleeps: both wait.                     *)
GetNowait(c) ==
    /\ Runs(c, "get")
    /\ IF queue[c] # <<>>
       THEN /\ received' = [received EXCEPT ![c] = Append(@, Head(queue[c]))]
            /\ queue' = [queue EXCEPT ![c] = Tail(@)]
            /\ Goto(c, "sending")
       ELSE UNCHANGED <<received, queue>> /\ Goto(c, "asleep")
    /\ UNCHANGED <<lock, closed, history, subscribers, log, since, missed, threads, handler>>

UnsubscribeBody(c) ==
    /\ Runs(c, "unsubscribe_locked")
    /\ lock' = Free
    /\ subscribers' = subscribers \ {c}
    /\ Goto(c, "ended")
    /\ UNCHANGED <<closed, history, queue, log, since, missed, threads, handler, received>>

(* What a stream does because of its client, or of the server's clock.     *)
ClientStep(c) == Open(c) \/ SendReturns(c) \/ Cancel(c) \/ Expire(c)

(* What a stream does of its own accord, whatever its client does.         *)
StreamStep(c) ==
    \/ Wake(c)
    \/ SubscribeLock(c) \/ SubscribeBody(c)
    \/ CheckLock(c) \/ CheckBody(c) \/ GetNowait(c)
    \/ UnsubscribeLock(c) \/ UnsubscribeBody(c)

-----------------------------------------------------------------------------
(* handle_exit: an interrupt arrives at the main thread, once.             *)

Signal ==
    /\ handler = "none"
    /\ (IF lock = Main THEN "locked" ELSE "unlocked") \in SignalPoints
    /\ handler' = "close"
    /\ UNCHANGED <<lock, shared, threads, stream, received>>

CloseLock ==
    /\ handler = "close"
    /\ lock = Free
    /\ lock' = Handler
    /\ handler' = "locked"
    /\ UNCHANGED <<shared, threads, stream, received>>

CloseBody ==
    /\ handler = "locked"
    /\ closed' = TRUE
    /\ lock' = Free
    /\ handler' = "done"
    /\ UNCHANGED <<history, subscribers, queue, log, since, missed, threads, stream, received>>

-----------------------------------------------------------------------------

Next ==
    \/ \E p \in Publisher : Publish(p)
    \/ \E c \in Client : ClientStep(c) \/ StreamStep(c)
    \/ Signal \/ CloseLock \/ CloseBody

Spec == Init /\ [][Next]_vars

(* Every thread gets the processor, a lock that is free again and again is *)
(* got (SF), and the loop resumes every coroutine whose sleep is over.     *)
(* Nobody has to open a stream, to read from it, to leave it or to send a  *)
(* signal, and the timeout of the shutdown may be as long as one likes.    *)
Fairness ==
    /\ \A p \in Publisher : SF_vars(Publish(p))
    /\ \A c \in Client : SF_vars(StreamStep(c))
    /\ SF_vars(CloseLock) /\ WF_vars(CloseBody)

FairSpec == Spec /\ Fairness

-----------------------------------------------------------------------------
(* Properties.                                                             *)

(* The order in which a client is sent lines.                              *)
Sent(c) == received[c] \o queue[c]

(* A client gets the lines of one publisher (of one batch) in their order, *)
(* and none of them twice, although some come from the replayed history    *)
(* and some from publishers that had copied the subscribers.               *)
EachLineOnceInOrder ==
    \A c \in Client : \A i, j \in 1 .. Len(Sent(c)) :
        i < j /\ Sent(c)[i][1] = Sent(c)[j][1] => Sent(c)[i][2] < Sent(c)[j][2]

(* No line falls between the replay and the live fan-out: from the oldest  *)
(* line remembered when it subscribed, a client has been sent every line,  *)
(* is about to be, or its queue was full.                                  *)
NoLineFallsBetween ==
    \A c \in subscribers : \A i \in since[c] + 1 .. Len(log) :
        \/ log[i] \in ToSet(Sent(c)) \cup missed[c]
        \/ \E p \in Publisher : /\ pub[p] = "put" /\ CurrentLine(p) = log[i]
                                /\ c \in targets[p]

(* The bus keeps no queue of a stream that has ended or never began.       *)
NoLeakedSubscriber == \A c \in subscribers : stream[c] \notin {"off", "ended"}

(* Debug streaming does not block ingestion: every publisher gets through  *)
(* all its lines, whatever the clients do or do not read.                  *)
PublishersFinish ==
    <>[](\A p \in Publisher : pub[p] = "idle" /\ count[p] = Lines[p])

(* One interrupt is enough: without waiting for the timeout it ends every  *)
(* stream that was open, but for one whose client has stopped reading for  *)
(* good in the middle of a line.                                           *)
InterruptEndsStreams ==
    \A c \in Client :
        handler # "none" /\ stream[c] # "off"
            ~> stream[c] = "ended" \/ [](stream[c] = "sending")

(* The timeout ends that one too: if it strikes at last, no client keeps   *)
(* the server from stopping.                                               *)
ShutdownEndsStreams ==
    (\A c \in Client : SF_vars(Expire(c))) =>
        \A c \in Client : handler # "none" /\ stream[c] # "off" ~> stream[c] = "ended"
=============================================================================
