------------------------------- MODULE DebugPage -------------------------------
(***************************************************************************)
(* The script of the debug page, DEBUG_PAGE_HTML in api/routes.py.  The    *)
(* page merges two sources into one buffer: the stream, which replays the  *)
(* history of the bus to every new connection, and the history itself,     *)
(* fetched by the Refresh button.  A fetch is answered some time after the *)
(* server has read the history; lines and clicks come in between.          *)
(*                                                                         *)
(* The server is reduced to what the page sees of it: a history of bounded *)
(* length and one bounded queue per connection, both filled by Publish     *)
(* (DebugEventBus has the details).  Time is in ticks of a clock that page *)
(* and server share.                                                       *)
(***************************************************************************)
EXTENDS Integers, Sequences, SequencesExt

CONSTANTS
    EventId, CorrelationId,
    CorrelationOf,  \* CorrelationOf[id]: the correlation_id of the event
    history_size,   \* of the bus
    queue_size,     \* of the connection
    MaxMessages,    \* 1000 in the script
    MaxShown,       \* 200 in the script
    Second,         \* ticks in a second
    Window,         \* ticks in the 15 minutes of the default time window
    InputTime,      \* what may be typed into a time field
    MaxTime,        \* bound of the clock
    MaxPublished,   \* bound of the log
    Unset,          \* an empty input field
    NoFetch         \* no history request in flight

ASSUME DebugPageAssumption ==
    /\ CorrelationOf \in [EventId -> CorrelationId]
    /\ {history_size, queue_size, MaxMessages, MaxShown, Second} \subseteq Nat \ {0}
    /\ {Window, MaxTime, MaxPublished} \subseteq Nat
    /\ InputTime \subseteq Int \cup {Unset}
    /\ Unset \notin Int \cup CorrelationId

VARIABLES
    clock,
    log,             \* every debug event published: its event_id, streamed_at
    history,         \* the bus: which of them it remembers
    connected,       \* connect is reading a stream
    queue,           \* what is on its way to the page
    snapshot,        \* the response of /debug/history on its way, or NoFetch
    messages,        \* the page: its buffer
    correlation, from, to,            \* its input fields
    fromFollowsNow, toFollowsNow,
    asOf,            \* when the page last looked at the clock
    (* History.                                                            *)
    complete,        \* nothing dropped or cleared since it connected, or since
                     \* the server read the history it was last refreshed with
    covered          \* nothing of it since it read the response on its way

server == <<log, history>>
stream == <<connected, queue>>
inputs == <<correlation, from, to, fromFollowsNow, toFollowsNow, asOf>>
account == <<complete, covered>>
vars == <<clock, server, stream, snapshot, messages, inputs, account>>

(* A message is the place of a debug event in the log.                     *)
Same(m, n) == log[m].event_id = log[n].event_id

(* One turn of the loop in mergeMessages: the event is new, or it is seen. *)
AddUnseen(merged, n) ==
    IF \E i \in 1 .. Len(merged) : Same(merged[i], n) THEN merged ELSE Append(merged, n)

(* The buffer after each turn.                                             *)
Merging(buffer, incoming) ==
    LET merged[i \in 0 .. Len(incoming)] ==
            IF i = 0 THEN buffer ELSE AddUnseen(merged[i - 1], incoming[i])
    IN  merged

-----------------------------------------------------------------------------
(* Variants as a plausible bug would write them.                           *)

LastOf(s, n)  == SubSeq(s, IF Len(s) > n THEN Len(s) - n + 1 ELSE 1, Len(s))

MergeUnseen(buffer, incoming) ==   \* seen is not extended in the loop
    LastOf(buffer \o SelectSeq(incoming, LAMBDA n : \A i \in 1 .. Len(buffer) : ~Same(buffer[i], n)),
           MaxMessages)

MergePop(buffer, incoming) ==   \* messages.pop() for messages.shift()
    LET merged == Merging(buffer, incoming)[Len(incoming)] IN
    SubSeq(merged, 1, IF Len(merged) > MaxMessages THEN MaxMessages ELSE Len(merged))

FollowNowFromOnly ==   \* the end of the window stays where it was
    /\ from' = IF fromFollowsNow THEN ((clock - Window) \div Second) * Second ELSE from
    /\ asOf' = clock
    /\ UNCHANGED to

RestLost(lines) == <<>>   \* buffer = "" instead of lines.pop()

-----------------------------------------------------------------------------
(* Functions of the script.                                                *)

(* A date as the value of an input field: milliseconds are cut off.        *)
localInputValue(time) == (time \div Second) * Second

(* What is left unread of the stream when one line has been taken off.     *)
Rest(lines) == Tail(lines)

(* New messages go to the end, unless their event is there or comes twice; *)
(* the oldest places are given up.                                         *)
mergeMessages(buffer, incoming) ==
    LastOf(Merging(buffer, incoming)[Len(incoming)], MaxMessages)

(* What the filter of filteredMessages asks of a message.                  *)
InView(n) ==
    /\ correlation \in {Unset, CorrelationOf[log[n].event_id]}
    /\ from # Unset => log[n].streamed_at >= from
    /\ to # Unset => log[n].streamed_at <= to

AddInView(kept, n) == IF InView(n) THEN Append(kept, n) ELSE kept

(* The messages kept of the first ones.                                    *)
Filtering ==
    LET kept[i \in 0 .. Len(messages)] ==
            IF i = 0 THEN <<>> ELSE AddInView(kept[i - 1], messages[i])
    IN  kept

filteredMessages == Filtering[Len(messages)]

(* appendEvent puts each message above the others and takes the lowest     *)
(* ones off the page when there are too many.                              *)
appendEvents(visible) == LastOf(visible, MaxShown)

(* What render leaves on the page, which it makes anew after every change. *)
Shown == appendEvents(filteredMessages)

(* The window moves on, as far as it was not edited.                       *)
FollowNow ==
    /\ from' = IF fromFollowsNow THEN localInputValue(clock - Window) ELSE from
    /\ to' = IF toFollowsNow THEN localInputValue(clock) ELSE to
    /\ asOf' = clock

resetWindow ==
    /\ from' = localInputValue(clock - Window) /\ to' = localInputValue(clock)
    /\ fromFollowsNow' = TRUE /\ toFollowsNow' = TRUE
    /\ asOf' = clock

-----------------------------------------------------------------------------

(* The page is loaded: resetWindow, then run.                              *)
Init ==
    /\ clock = 0
    /\ log = <<>> /\ history = <<>>
    /\ connected = FALSE /\ queue = <<>>
    /\ snapshot = NoFetch
    /\ messages = <<>>
    /\ correlation = Unset
    /\ from = localInputValue(0 - Window) /\ to = localInputValue(0)
    /\ fromFollowsNow = TRUE /\ toFollowsNow = TRUE
    /\ asOf = 0
    /\ complete = FALSE /\ covered = FALSE

Tick ==
    /\ clock < MaxTime
    /\ clock' = clock + 1
    /\ UNCHANGED <<server, stream, snapshot, messages, inputs, account>>

(* History: something is lost to the page.                                 *)
LosesTrack == complete' = FALSE /\ covered' = FALSE

(* The server.                                                             *)

(* An event is submitted, for the first time or again: bus.publish.        *)
Publish(id) ==
    /\ Len(log) < MaxPublished
    /\ LET n == Len(log) + 1 IN
       /\ log' = Append(log, [event_id |-> id, streamed_at |-> clock])
       /\ history' = LastOf(Append(history, n), history_size)
       /\ IF connected /\ Len(queue) < queue_size
          THEN queue' = Append(queue, n) /\ UNCHANGED account
          ELSE LosesTrack /\ UNCHANGED queue
    /\ UNCHANGED <<clock, connected, snapshot, messages, inputs>>

(* The connection breaks; what was on its way is lost.                     *)
Disconnect ==
    /\ connected
    /\ connected' = FALSE /\ queue' = <<>>
    /\ LosesTrack
    /\ UNCHANGED <<clock, server, snapshot, messages, inputs>>

(* A new server process remembers nothing.                                 *)
Restart ==
    /\ history' = <<>>
    /\ connected' = FALSE /\ queue' = <<>>
    /\ LosesTrack
    /\ UNCHANGED <<clock, log, snapshot, messages, inputs>>

(* The stream.                                                             *)

(* fetch("/debug/stream"): the bus subscribes the page and replays.        *)
connect ==
    /\ ~connected
    /\ connected' = TRUE
    /\ queue' = SubSeq(history, 1, IF Len(history) > queue_size THEN queue_size ELSE Len(history))
    /\ complete' = (Len(history) <= queue_size) /\ covered' = FALSE
    /\ UNCHANGED <<clock, server, snapshot, messages, inputs>>

(* One line of the stream: merged, the window moved on, rendered.          *)
ReadLine ==
    /\ queue # <<>>
    /\ messages' = mergeMessages(messages, <<Head(queue)>>)
    /\ queue' = Rest(queue)
    /\ FollowNow
    /\ UNCHANGED <<clock, server, connected, snapshot, correlation, fromFollowsNow,
                   toFollowsNow, account>>

(* The buttons and the fields.                                             *)

(* Refresh is clicked and the server reads its history; the button is      *)
(* disabled until the response has been dealt with.                        *)
FetchHistory ==
    /\ snapshot = NoFetch
    /\ snapshot' = history
    /\ covered' = connected
    /\ UNCHANGED <<clock, server, stream, messages, inputs, complete>>

refreshHistory ==
    /\ snapshot # NoFetch
    /\ messages' = mergeMessages(messages, snapshot)
    /\ snapshot' = NoFetch
    /\ FollowNow
    /\ complete' = (complete \/ covered) /\ covered' = FALSE
    /\ UNCHANGED <<clock, server, stream, correlation, fromFollowsNow, toFollowsNow>>

RefreshFails ==
    /\ snapshot # NoFetch
    /\ snapshot' = NoFetch
    /\ covered' = FALSE
    /\ UNCHANGED <<clock, server, stream, messages, inputs, complete>>

Clear ==
    /\ messages' = <<>>
    /\ LosesTrack
    /\ UNCHANGED <<clock, server, stream, snapshot, inputs>>

Reset ==
    /\ correlation' = Unset
    /\ resetWindow
    /\ UNCHANGED <<clock, server, stream, snapshot, messages, account>>

EditCorrelation(value) ==
    /\ correlation' = value
    /\ UNCHANGED <<clock, server, stream, snapshot, messages, from, to, fromFollowsNow,
                   toFollowsNow, asOf, account>>

EditFrom(value) ==
    /\ from' = value /\ fromFollowsNow' = FALSE
    /\ UNCHANGED <<clock, server, stream, snapshot, messages, correlation, to,
                   toFollowsNow, asOf, account>>

EditTo(value) ==
    /\ to' = value /\ toFollowsNow' = FALSE
    /\ UNCHANGED <<clock, server, stream, snapshot, messages, correlation, from,
                   fromFollowsNow, asOf, account>>

Next ==
    \/ Tick \/ Disconnect \/ Restart
    \/ \E id \in EventId : Publish(id)
    \/ connect \/ ReadLine
    \/ FetchHistory \/ refreshHistory \/ RefreshFails
    \/ Clear \/ Reset
    \/ \E value \in CorrelationId \cup {Unset} : EditCorrelation(value)
    \/ \E value \in InputTime : EditFrom(value) \/ EditTo(value)

Spec == Init /\ [][Next]_vars

-----------------------------------------------------------------------------
(* Properties.                                                             *)

(* The page never holds an event twice, although the replay, the stream    *)
(* and the history overlap and an event may be submitted again; and it     *)
(* never holds more than it may.                                           *)
NoEventTwice ==
    /\ Len(messages) <= MaxMessages
    /\ \A i, j \in 1 .. Len(messages) : Same(messages[i], messages[j]) => i = j

(* A page that has read its stream to the end misses nothing that the bus  *)
(* remembers, over any number of reconnections, unless its queue was full, *)
(* it was cleared or its buffer is full; and a refresh makes up for what   *)
(* was dropped or cleared before the server read the history.              *)
CaughtUp ==
    connected /\ queue = <<>> /\ complete /\ Len(messages) < MaxMessages =>
        \A n \in ToSet(history) : \E m \in ToSet(messages) : Same(m, n)

(* The first k places are given up; the rest keeps its order.              *)
GivesUp(k) ==
    /\ Len(messages) - k <= Len(messages')
    /\ \A i \in 1 .. Len(messages) - k : messages'[i] = messages[i + k]

(* A line has been taken off the stream, and the stream goes on.           *)
LineRead == connected /\ connected' /\ queue # <<>> /\ queue' = Tail(queue)

(* No event leaves the page but by Clear or because the buffer is full;    *)
(* what a full buffer gives up is what came to the page first, and never   *)
(* the line that has just been read.                                       *)
OldestLeaveWhenFull ==
    [][/\ \/ messages' = <<>>
          \/ \E k \in 0 .. Len(messages) : GivesUp(k) /\ (k > 0 => Len(messages') = MaxMessages)
       /\ LineRead => \E m \in ToSet(messages') : Same(m, Head(queue))]_vars

(* The window as it is by default, with no correlation chosen.             *)
Following == fromFollowsNow /\ toFollowsNow /\ correlation = Unset

(* A message is on the page, or as many that came after it are.            *)
ShownOrPushedOut(i) ==
    \/ messages[i] \in ToSet(Shown)
    \/ Len(Shown) = MaxShown /\ \A j \in 1 .. i : messages[j] \notin ToSet(Shown)

(* With it, the page shows what it was sent in the last 15 minutes, as far *)
(* as it is at least a second old.                                         *)
SettledIsShown ==
    Following => \A i \in 1 .. Len(messages) :
        log[messages[i]].streamed_at \in asOf - Window .. asOf - Second => ShownOrPushedOut(i)

(* "The default time window tracks the last 15 minutes" (SPEC.md:31): an   *)
(* event that has just been streamed is in it.                             *)
LastQuarterIsShown ==
    Following => \A i \in 1 .. Len(messages) :
        log[messages[i]].streamed_at \in asOf - Window .. asOf => ShownOrPushedOut(i)
=============================================================================
