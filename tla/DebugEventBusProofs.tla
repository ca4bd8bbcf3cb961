------------------------- MODULE DebugEventBusProofs -------------------------
(***************************************************************************)
(* Proofs about DebugEventBus, for any number of publishers, lines and     *)
(* clients and any sizes of the queues and of the history.                 *)
(***************************************************************************)
EXTENDS DebugEventBus, SequenceTheorems, TLAPS

-----------------------------------------------------------------------------
(* Sequences.                                                              *)

LEMMA AppendSet ==
  ASSUME NEW S, NEW s \in Seq(S), NEW e \in S
  PROVE  ToSet(Append(s, e)) = ToSet(s) \cup {e}
<1>1. ASSUME NEW x PROVE x \in ToSet(Append(s, e)) <=> x \in ToSet(s) \cup {e}
  <2>1. /\ DOMAIN s = 1 .. Len(s) /\ DOMAIN Append(s, e) = 1 .. Len(s) + 1
        /\ \A i \in 1 .. Len(s) : Append(s, e)[i] = s[i]
        /\ Append(s, e)[Len(s) + 1] = e /\ Len(s) \in Nat
    OBVIOUS
  <2>2. QED
    BY <2>1 DEF ToSet
<1>2. QED
  BY <1>1

LEMMA HeadMoves ==
  ASSUME NEW S, NEW r \in Seq(S), NEW q \in Seq(S), q # <<>>
  PROVE  Append(r, Head(q)) \o Tail(q) = r \o q
<1>1. /\ Head(q) \in S /\ Tail(q) \in Seq(S) /\ <<Head(q)>> \in Seq(S)
      /\ <<Head(q)>> \o Tail(q) = q
  <2>1. /\ Head(q) \in S /\ Tail(q) \in Seq(S) /\ <<Head(q)>> \in Seq(S)
        /\ Len(Tail(q)) = Len(q) - 1 /\ Len(q) \in Nat \ {0}
        /\ \A i \in 1 .. Len(q) - 1 : Tail(q)[i] = q[i + 1]
        /\ Len(<<Head(q)>>) = 1 /\ <<Head(q)>>[1] = q[1]
    OBVIOUS
  <2>2. /\ <<Head(q)>> \o Tail(q) \in Seq(S)
        /\ Len(<<Head(q)>> \o Tail(q)) = Len(q)
        /\ \A i \in 1 .. Len(q) : (<<Head(q)>> \o Tail(q))[i] = q[i]
    BY <2>1, ConcatProperties
  <2>3. QED
    BY <2>2, SeqEqual
<1>2. QED
  BY <1>1, AppendIsConcat, ConcatAssociative

LEMMA AppendMoves ==
  ASSUME NEW S, NEW r \in Seq(S), NEW q \in Seq(S), NEW e \in S
  PROVE  r \o Append(q, e) = Append(r \o q, e)
<1>1. <<e>> \in Seq(S) /\ r \o q \in Seq(S)
  OBVIOUS
<1>2. QED
  BY <1>1, AppendIsConcat, ConcatAssociative

(* FirstOf is a beginning, LastOf an end.                                  *)
LEMMA FirstOfPrefix ==
  ASSUME NEW S, NEW s \in Seq(S), NEW n \in Nat
  PROVE  /\ FirstOf(s, n) \in Seq(S) /\ Len(FirstOf(s, n)) <= n
         /\ Len(FirstOf(s, n)) <= Len(s)
         /\ \A i \in 1 .. Len(FirstOf(s, n)) : FirstOf(s, n)[i] = s[i]
<1> DEFINE k == IF Len(s) > n THEN n ELSE Len(s)
<1>1. k \in Nat /\ k <= n /\ k <= Len(s) /\ \A i \in 1 .. k : s[i] \in S
  OBVIOUS
<1>2. FirstOf(s, n) = SubSeq(s, 1, k)
  BY DEF FirstOf
<1> HIDE DEF k
<1>3. /\ SubSeq(s, 1, k) \in Seq(S) /\ Len(SubSeq(s, 1, k)) = (IF 1 <= k THEN k - 1 + 1 ELSE 0)
      /\ \A i \in 1 .. k - 1 + 1 : SubSeq(s, 1, k)[i] = s[1 + i - 1]
  BY <1>1, SubSeqProperties
<1>4. Len(SubSeq(s, 1, k)) = k /\ \A i \in 1 .. k : SubSeq(s, 1, k)[i] = s[i]
  BY <1>1, <1>3
<1>5. QED
  BY <1>1, <1>2, <1>3, <1>4

LEMMA LastOfSuffix ==
  ASSUME NEW S, NEW s \in Seq(S), NEW n \in Nat \ {0}
  PROVE  /\ LastOf(s, n) \in Seq(S) /\ Len(LastOf(s, n)) <= n
         /\ Len(LastOf(s, n)) <= Len(s)
         /\ \A i \in 1 .. Len(LastOf(s, n)) : LastOf(s, n)[i] = s[Len(s) - Len(LastOf(s, n)) + i]
<1> DEFINE m == IF Len(s) > n THEN Len(s) - n + 1 ELSE 1
           k == Len(s) - m + 1
<1>1. m \in Nat /\ Len(s) \in Nat /\ 1 <= m /\ k \in Nat /\ k <= n /\ k <= Len(s)
      /\ \A i \in m .. Len(s) : s[i] \in S
  OBVIOUS
<1>2. LastOf(s, n) = SubSeq(s, m, Len(s))
  BY DEF LastOf
<1>3. k = Len(s) - m + 1
  OBVIOUS
<1> HIDE DEF m, k
<1>4. /\ SubSeq(s, m, Len(s)) \in Seq(S)
      /\ Len(SubSeq(s, m, Len(s))) = (IF m <= Len(s) THEN Len(s) - m + 1 ELSE 0)
      /\ \A i \in 1 .. Len(s) - m + 1 : SubSeq(s, m, Len(s))[i] = s[m + i - 1]
  BY <1>1, SubSeqProperties
<1>5. Len(SubSeq(s, m, Len(s))) = k
  BY <1>1, <1>3, <1>4
<1>6. \A i \in 1 .. k : m + i - 1 = Len(s) - k + i
  BY <1>1, <1>3
<1>7. QED
  BY <1>1, <1>2, <1>3, <1>4, <1>5, <1>6

-----------------------------------------------------------------------------
(* Types.                                                                  *)

(* A publisher that is not idle has a line; the history is the end of the  *)
(* log.                                                                    *)
Began == \A p \in Publisher : pub[p] # "idle" => count[p] >= 1

EndOf(t, s) == /\ Len(t) <= Len(s)
               /\ \A i \in 1 .. Len(t) : t[i] = s[Len(s) - Len(t) + i]

TypeInv == TypeOK /\ Began /\ EndOf(history, log)

LEMMA LineOf ==
  ASSUME TypeInv, NEW p \in Publisher, pub[p] # "idle"
  PROVE  CurrentLine(p) \in Line /\ CurrentLine(p)[1] = p /\ CurrentLine(p)[2] = count[p]
  BY DebugEventBusAssumption DEF TypeInv, TypeOK, Began, CurrentLine, Line

(* What a sequence holds, it holds in the same places after an append.     *)
LEMMA AppendKeeps ==
  ASSUME NEW S, NEW s \in Seq(S), NEW i \in 1 .. Len(s)
  PROVE  s[i] \in S /\ \A e : Append(s, e)[i] = s[i]
  OBVIOUS

(* Appending to both and forgetting from the front keeps an end an end.    *)
LEMMA EndsAlike ==
  ASSUME NEW S, NEW s \in Seq(S), NEW t \in Seq(S), NEW e \in S, NEW n \in Nat \ {0}, EndOf(t, s)
  PROVE  EndOf(LastOf(Append(t, e), n), Append(s, e))
<1> DEFINE a == Append(t, e)
           b == Append(s, e)
           u == LastOf(a, n)
<1>1. /\ a \in Seq(S) /\ Len(a) = Len(t) + 1 /\ Len(b) = Len(s) + 1
      /\ \A i \in 1 .. Len(t) : a[i] = t[i]
      /\ \A i \in 1 .. Len(s) : b[i] = s[i]
      /\ a[Len(t) + 1] = e /\ b[Len(s) + 1] = e
      /\ Len(t) \in Nat /\ Len(s) \in Nat
  BY AppendProperties
<1> HIDE DEF a, b
<1>2. /\ u \in Seq(S) /\ Len(u) <= Len(t) + 1 /\ Len(u) \in Nat
      /\ \A i \in 1 .. Len(u) : u[i] = a[Len(t) + 1 - Len(u) + i]
  <2>0. a \in Seq(S)
    BY <1>1
  <2>1. /\ u \in Seq(S) /\ Len(u) <= Len(a)
        /\ \A i \in 1 .. Len(u) : u[i] = a[Len(a) - Len(u) + i]
    BY <2>0, LastOfSuffix
  <2> HIDE DEF u
  <2>2. Len(u) \in Nat
    BY <2>1
  <2>3. QED
    BY <1>1, <2>1, <2>2
<1> HIDE DEF u
<1>3. ASSUME NEW j \in 1 .. Len(t) + 1 PROVE a[j] = b[Len(s) - Len(t) + j]
  <2>1. CASE j = Len(t) + 1
    BY <1>1, <2>1
  <2>2. CASE j # Len(t) + 1
    <3>1. j \in 1 .. Len(t) /\ Len(s) - Len(t) + j \in 1 .. Len(s)
      BY <1>1, <2>2 DEF EndOf
    <3>2. t[j] = s[Len(s) - Len(t) + j]
      BY <3>1 DEF EndOf
    <3>3. QED
      BY <1>1, <3>1, <3>2
  <2>3. QED
    BY <2>1, <2>2
<1>4. ASSUME NEW i \in 1 .. Len(u) PROVE u[i] = b[Len(s) + 1 - Len(u) + i]
  <2>1. Len(t) + 1 - Len(u) + i \in 1 .. Len(t) + 1
    BY <1>1, <1>2
  <2>2. Len(s) - Len(t) + (Len(t) + 1 - Len(u) + i) = Len(s) + 1 - Len(u) + i
    BY <1>1, <1>2
  <2>3. QED
    BY <1>2, <1>3, <2>1, <2>2
<1>5. Len(u) <= Len(s) + 1
  BY <1>1, <1>2 DEF EndOf
<1>6. EndOf(u, b)
  BY <1>1, <1>4, <1>5 DEF EndOf
<1>7. QED
  BY <1>6 DEF u, a, b

LEMMA PublishType ==
  ASSUME TypeInv, NEW p \in Publisher, Publish(p)
  PROVE  TypeInv'
<1> USE DEF TypeInv, TypeOK, Began, shared, threads
<1>1. CASE PublishLock(p)
  <2>1. /\ count' = [count EXCEPT ![p] = count[p] + 1] /\ count[p] \in Nat /\ Lines[p] \in Nat
        /\ count[p] < Lines[p]
    BY <1>1, DebugEventBusAssumption DEF PublishLock
  <2>2. /\ count' \in [Publisher -> Nat] /\ \A q \in Publisher : count'[q] <= Lines[q]
        /\ count'[p] >= 1 /\ \A q \in Publisher \ {p} : count'[q] = count[q]
    BY <2>1
  <2>3. QED
    BY <1>1, <2>2 DEF PublishLock
<1>2. CASE PublishBody(p)
  <2>1. CASE closed
    BY <1>2, <2>1 DEF PublishBody
  <2>2. CASE ~closed
    <3>1. /\ Append(history, CurrentLine(p)) \in Seq(Line)
          /\ Append(log, CurrentLine(p)) \in Seq(Line)
      BY <1>2, LineOf DEF PublishBody
    <3>2. /\ LastOf(Append(history, CurrentLine(p)), history_size) \in Seq(Line)
          /\ Len(LastOf(Append(history, CurrentLine(p)), history_size)) <= history_size
      BY <3>1, LastOfSuffix, DebugEventBusAssumption
    <3>3. EndOf(history', log')
      <4>1. /\ history' = LastOf(Append(history, CurrentLine(p)), history_size)
            /\ log' = Append(log, CurrentLine(p)) /\ CurrentLine(p) \in Line
        BY <1>2, <2>2, LineOf DEF PublishBody
      <4>2. EndOf(LastOf(Append(history, CurrentLine(p)), history_size), Append(log, CurrentLine(p)))
        BY <4>1, EndsAlike, DebugEventBusAssumption
      <4>3. QED
        BY <4>1, <4>2
    <3>4. history' \in Seq(Line) /\ Len(history') <= history_size /\ log' \in Seq(Line)
      BY <1>2, <2>2, <3>1, <3>2 DEF PublishBody
    <3>5. EndOf(history, log)'
      BY <3>3 DEF EndOf
    <3>6. QED
      BY <1>2, <2>2, <3>4, <3>5 DEF PublishBody
  <2>3. QED
    BY <2>1, <2>2
<1>3. CASE PublishReturn(p)
  BY <1>3 DEF PublishReturn
<1>4. ASSUME NEW c \in Client, PutNowait(p, c)
      PROVE  TypeInv'
  <2>1. /\ CurrentLine(p) \in Line /\ targets' \in [Publisher -> SUBSET Client]
    BY <1>4, LineOf DEF PutNowait
  <2>2. CASE Len(queue[c]) < queue_size
    <3>1. /\ Append(queue[c], CurrentLine(p)) \in Seq(Line)
          /\ Len(Append(queue[c], CurrentLine(p))) <= queue_size
      BY <2>1, <2>2, DebugEventBusAssumption
    <3>2. queue' \in [Client -> Seq(Line)] /\ \A d \in Client : Len(queue'[d]) <= queue_size
      BY <1>4, <2>2, <3>1 DEF PutNowait
    <3>3. QED
      BY <1>4, <2>1, <2>2, <3>2 DEF PutNowait
  <2>3. CASE ~(Len(queue[c]) < queue_size)
    <3>0. missed[c] \cup {CurrentLine(p)} \in SUBSET Line
      BY <2>1
    <3>1. missed' \in [Client -> SUBSET Line] /\ UNCHANGED queue
      BY <1>4, <2>3, <3>0 DEF PutNowait
    <3>2. QED
      BY <1>4, <2>1, <3>1 DEF PutNowait
  <2>4. QED
    BY <2>2, <2>3
<1>5. QED
  BY <1>1, <1>2, <1>3, <1>4 DEF Publish

LEMMA StreamType ==
  ASSUME TypeInv, NEW c \in Client, ClientStep(c) \/ StreamStep(c)
  PROVE  TypeInv'
<1> USE DEF TypeInv, TypeOK, Began, shared, threads, Goto, Waiting, Running
<1>1. CASE ClientStep(c) \/ Wake(c)
  BY <1>1 DEF ClientStep, Open, SendReturns, Cancel, Expire, Wake, Resume
<1>2. CASE SubscribeLock(c) \/ CheckLock(c) \/ UnsubscribeLock(c)
  BY <1>2 DEF SubscribeLock, CheckLock, UnsubscribeLock, Lock
<1>3. CASE SubscribeBody(c)
  <2>1. /\ FirstOf(history, queue_size) \in Seq(Line)
        /\ Len(FirstOf(history, queue_size)) <= queue_size
    BY FirstOfPrefix, DebugEventBusAssumption
  <2>2. queue' \in [Client -> Seq(Line)] /\ \A d \in Client : Len(queue'[d]) <= queue_size
    BY <1>3, <2>1 DEF SubscribeBody
  <2>3. ToSet(history) \ ToSet(FirstOf(history, queue_size)) \in SUBSET Line
    BY DEF ToSet
  <2>4. missed' \in [Client -> SUBSET Line]
    BY <1>3, <2>3 DEF SubscribeBody
  <2>5. Len(log) - Len(history) \in Nat
    BY DEF EndOf
  <2>6. since' \in [Client -> Nat]
    BY <1>3, <2>5 DEF SubscribeBody
  <2>7. QED
    BY <1>3, <2>2, <2>4, <2>6 DEF SubscribeBody
<1>4. CASE CheckBody(c) \/ UnsubscribeBody(c)
  BY <1>4 DEF CheckBody, UnsubscribeBody
<1>5. CASE GetNowait(c)
  <2>1. /\ received' \in [Client -> Seq(Line)] /\ queue' \in [Client -> Seq(Line)]
        /\ \A d \in Client : Len(queue'[d]) <= queue_size
    <3>1. CASE queue[c] = <<>>
      BY <1>5, <3>1 DEF GetNowait
    <3>2. CASE queue[c] # <<>>
      <4>1. /\ Append(received[c], Head(queue[c])) \in Seq(Line) /\ Tail(queue[c]) \in Seq(Line)
            /\ Len(Tail(queue[c])) <= queue_size
        BY <3>2, DebugEventBusAssumption
      <4>2. QED
        BY <1>5, <3>2, <4>1 DEF GetNowait
    <3>3. QED
      BY <3>1, <3>2
  <2>2. QED
    BY <1>5, <2>1 DEF GetNowait
<1>6. QED
  BY <1>1, <1>2, <1>3, <1>4, <1>5 DEF StreamStep

LEMMA HandlerType ==
  ASSUME TypeInv, Signal \/ CloseLock \/ CloseBody
  PROVE  TypeInv' /\ UNCHANGED <<history, subscribers, queue, log, since, missed, threads, stream, received>>
  BY DEF TypeInv, TypeOK, Began, shared, threads, Signal, CloseLock, CloseBody

LEMMA BusTypeInit == Init => TypeInv
<1> SUFFICES ASSUME Init PROVE TypeInv
  OBVIOUS
<1>1. <<>> \in Seq(Line) /\ Len(<<>>) = 0
  OBVIOUS
<1>2. history = <<>> /\ log = <<>> /\ EndOf(history, log)
  BY <1>1 DEF Init, EndOf
<1>3. /\ queue \in [Client -> Seq(Line)] /\ received \in [Client -> Seq(Line)]
      /\ \A c \in Client : Len(queue[c]) = 0
  BY <1>1 DEF Init
<1>4. TypeOK
  <2>1. /\ history \in Seq(Line) /\ log \in Seq(Line) /\ Len(history) <= history_size
        /\ \A c \in Client : Len(queue[c]) <= queue_size
    BY <1>1, <1>2, <1>3, DebugEventBusAssumption
  <2>2. count \in [Publisher -> Nat] /\ \A p \in Publisher : count[p] <= Lines[p]
    BY DebugEventBusAssumption DEF Init
  <2>3. /\ since \in [Client -> Nat] /\ missed \in [Client -> SUBSET Line]
        /\ targets \in [Publisher -> SUBSET Client] /\ subscribers \subseteq Client
    BY DEF Init
  <2>4. /\ lock \in {Free, Main, Handler} \cup Publisher /\ closed \in BOOLEAN
        /\ pub \in [Publisher -> {"idle", "locked", "put"}]
        /\ stream \in [Client -> Waiting \cup Running]
        /\ handler \in {"none", "close", "locked", "done"}
    BY DEF Init, Waiting
  <2>5. QED
    BY <1>3, <2>1, <2>2, <2>3, <2>4 DEF TypeOK
<1>5. QED
  BY <1>2, <1>4 DEF Init, TypeInv, Began

LEMMA BusTypeStep == TypeInv /\ [Next]_vars => TypeInv'
<1>1. TypeInv /\ UNCHANGED vars => TypeInv'
  BY DEF TypeInv, TypeOK, Began, vars, shared, threads
<1>2. QED
  BY <1>1, PublishType, StreamType, HandlerType DEF Next

(* The variables keep their types: queues and history stay within their    *)
(* sizes, and no publisher publishes more than it has.                     *)
THEOREM BusTypes == Spec => []TypeOK
  BY BusTypeInit, BusTypeStep, PTL DEF Spec, TypeInv

-----------------------------------------------------------------------------
(* The lock.                                                               *)

InSection == {"subscribe_locked", "check_locked", "unsubscribe_locked"}

LockInv ==
    /\ \A p \in Publisher : pub[p] = "locked" => lock = p
    /\ \A c \in Client : stream[c] \in InSection => lock = Main
    /\ handler = "locked" => lock = Handler
    /\ \A c \in Client, d \in Client : stream[c] \notin Waiting /\ stream[d] \notin Waiting => c = d

(* No two of the publishers, the streams and the signal handler are inside *)
(* a critical section of the bus together.                                 *)
Excluded ==
    /\ \A p \in Publisher, q \in Publisher : pub[p] = "locked" /\ pub[q] = "locked" => p = q
    /\ \A c \in Client, d \in Client : stream[c] \in InSection /\ stream[d] \in InSection => c = d
    /\ \A p \in Publisher, c \in Client : ~(pub[p] = "locked" /\ stream[c] \in InSection)
    /\ handler = "locked" => /\ \A p \in Publisher : pub[p] # "locked"
                             /\ \A c \in Client : stream[c] \notin InSection

LEMMA LockStep == TypeInv /\ LockInv /\ [Next]_vars => LockInv'
<1> SUFFICES ASSUME TypeInv, LockInv, [Next]_vars PROVE LockInv'
  OBVIOUS
<1> USE DebugEventBusAssumption DEF LockInv, shared, threads, InSection, Waiting
<1>0. /\ pub \in [Publisher -> {"idle", "locked", "put"}]
      /\ stream \in [Client -> Waiting \cup Running]
      /\ handler \in {"none", "close", "locked", "done"}
  BY DEF TypeInv, TypeOK
<1>1. ASSUME NEW p \in Publisher, Publish(p) PROVE LockInv'
  BY <1>0, <1>1 DEF Publish, PublishLock, PublishBody, PublishReturn, PutNowait
<1>2. ASSUME NEW c \in Client, ClientStep(c) \/ Wake(c) PROVE LockInv'
  BY <1>0, <1>2 DEF ClientStep, Open, SendReturns, Cancel, Expire, Wake, Resume, LoopFree, Goto
<1>3. ASSUME NEW c \in Client, SubscribeLock(c) \/ CheckLock(c) \/ UnsubscribeLock(c)
      PROVE  LockInv'
  BY <1>0, <1>3 DEF SubscribeLock, CheckLock, UnsubscribeLock, Lock, Runs, Goto, Running
<1>4. ASSUME NEW c \in Client, SubscribeBody(c) \/ CheckBody(c) \/ UnsubscribeBody(c)
      PROVE  LockInv'
  BY <1>0, <1>4 DEF SubscribeBody, CheckBody, UnsubscribeBody, Runs, Goto, Running
<1>5. ASSUME NEW c \in Client, GetNowait(c) PROVE LockInv'
  <2>1. /\ UNCHANGED <<lock, pub, handler>> /\ stream[c] = "get"
        /\ \E to \in {"sending", "asleep"} : stream' = [stream EXCEPT ![c] = to]
    BY <1>5 DEF GetNowait, Goto, Runs
  <2>2. QED
    BY <1>0, <2>1
<1>6. CASE Signal \/ CloseLock \/ CloseBody
  BY <1>0, <1>6 DEF Signal, CloseLock, CloseBody
<1>7. CASE UNCHANGED vars
  BY <1>7 DEF vars
<1>8. QED
  BY <1>1, <1>2, <1>3, <1>4, <1>5, <1>6, <1>7 DEF Next, StreamStep

(* The critical sections of the threads of the pool, the coroutines and    *)
(* the signal handler exclude each other.                                  *)
THEOREM SectionsExclude == Spec => []Excluded
<1>1. Init => LockInv
  BY DEF Init, LockInv, InSection, Waiting
<1>2. LockInv => Excluded
  BY DebugEventBusAssumption DEF LockInv, Excluded, InSection, Waiting
<1>3. QED
  BY <1>1, <1>2, BusTypeInit, BusTypeStep, LockStep, PTL DEF Spec

-----------------------------------------------------------------------------
(* The streams.                                                            *)

Fresh == {"off", "subscribe", "subscribe_locked"}

(* Only a stream that is past subscribe and not past unsubscribe has a     *)
(* queue the bus knows; only one that is past subscribe is in a copy or    *)
(* has been given anything.                                                *)
StreamInv ==
    /\ \A c \in subscribers : stream[c] \notin Fresh \cup {"ended"}
    /\ \A p \in Publisher : \A c \in targets[p] : stream[c] \notin Fresh
    /\ \A c \in Client : stream[c] \in Fresh => received[c] = <<>> /\ queue[c] = <<>>

LEMMA StreamInvStep == TypeInv /\ StreamInv /\ [Next]_vars => StreamInv'
<1> SUFFICES ASSUME TypeInv, StreamInv, [Next]_vars PROVE StreamInv'
  OBVIOUS
<1> USE DEF StreamInv, shared, threads, Fresh
<1>0. /\ stream \in [Client -> Waiting \cup Running] /\ subscribers \subseteq Client
      /\ targets \in [Publisher -> SUBSET Client]
      /\ queue \in [Client -> Seq(Line)] /\ received \in [Client -> Seq(Line)]
  BY DEF TypeInv, TypeOK
<1>1. ASSUME NEW p \in Publisher, PublishLock(p) \/ PublishReturn(p) PROVE StreamInv'
  BY <1>0, <1>1 DEF PublishLock, PublishReturn
<1>2. ASSUME NEW p \in Publisher, PublishBody(p) PROVE StreamInv'
  BY <1>0, <1>2 DEF PublishBody
<1>3. ASSUME NEW p \in Publisher, NEW c \in Client, PutNowait(p, c) PROVE StreamInv'
  <2>1. stream[c] \notin Fresh
    BY <1>3 DEF PutNowait
  <2>2. \A d \in Client \ {c} : queue'[d] = queue[d]
    BY <1>0, <1>3 DEF PutNowait
  <2>3. \A q \in Publisher : targets'[q] \subseteq targets[q]
    BY <1>0, <1>3 DEF PutNowait
  <2>4. QED
    BY <1>3, <2>1, <2>2, <2>3 DEF PutNowait
<1>4. ASSUME NEW c \in Client, ClientStep(c) \/ Wake(c) PROVE StreamInv'
  BY <1>0, <1>4 DEF ClientStep, Open, SendReturns, Cancel, Expire, Wake, Resume, Goto
<1>5. ASSUME NEW c \in Client, SubscribeLock(c) \/ CheckLock(c) \/ UnsubscribeLock(c)
      PROVE  StreamInv'
  BY <1>0, <1>5 DEF SubscribeLock, CheckLock, UnsubscribeLock, Lock, Runs, Goto
<1>6. ASSUME NEW c \in Client, SubscribeBody(c) PROVE StreamInv'
  <2>1. /\ stream'[c] = "check" /\ subscribers' \subseteq subscribers \cup {c}
        /\ \A d \in Client \ {c} : stream'[d] = stream[d] /\ queue'[d] = queue[d]
        /\ UNCHANGED <<targets, received>>
    BY <1>0, <1>6 DEF SubscribeBody, Goto
  <2>2. QED
    BY <1>0, <2>1
<1>7. ASSUME NEW c \in Client, CheckBody(c) \/ UnsubscribeBody(c) PROVE StreamInv'
  BY <1>0, <1>7 DEF CheckBody, UnsubscribeBody, Runs, Goto
<1>8. ASSUME NEW c \in Client, GetNowait(c) PROVE StreamInv'
  <2>1. /\ stream[c] = "get" /\ stream'[c] \in {"asleep", "sending"}
        /\ \A d \in Client \ {c} : UNCHANGED <<stream[d], queue[d], received[d]>>
        /\ UNCHANGED <<targets, subscribers>>
    BY <1>0, <1>8 DEF GetNowait, Runs, Goto
  <2>2. QED
    BY <1>0, <2>1
<1>9. CASE Signal \/ CloseLock \/ CloseBody
  BY <1>9, HandlerType
<1>10. CASE UNCHANGED vars
  BY <1>10 DEF vars
<1>11. QED
  BY <1>1, <1>2, <1>3, <1>4, <1>5, <1>6, <1>7, <1>8, <1>9, <1>10 DEF Next, StreamStep, Publish

LEMMA StreamInvInit == Init => StreamInv
  BY DEF Init, StreamInv

(* The bus never keeps the queue of a stream that has ended, however it    *)
(* ended.                                                                  *)
THEOREM NoLeakedSubscriberEver == Spec => []NoLeakedSubscriber
<1>1. StreamInv => NoLeakedSubscriber
  BY DEF StreamInv, NoLeakedSubscriber, Fresh
<1>2. QED
  BY <1>1, BusTypeInit, BusTypeStep, StreamInvInit, StreamInvStep, PTL DEF Spec

-----------------------------------------------------------------------------
(* What a client is sent.                                                  *)

LEMMA SentType ==
  ASSUME TypeInv
  PROVE  \A c \in Client : /\ Sent(c) \in Seq(Line) /\ received[c] \in Seq(Line)
                           /\ queue[c] \in Seq(Line)
  BY ConcatProperties DEF TypeInv, TypeOK, Sent

(* A put adds its line at the end or has it missed; ...                    *)
LEMMA SentPut ==
  ASSUME TypeInv, NEW p \in Publisher, NEW c \in Client, PutNowait(p, c)
  PROVE  /\ \/ Sent(c)' = Append(Sent(c), CurrentLine(p)) /\ UNCHANGED missed
            \/ Sent(c)' = Sent(c) /\ missed'[c] = missed[c] \cup {CurrentLine(p)}
         /\ \A d \in Client \ {c} : Sent(d)' = Sent(d) /\ missed'[d] = missed[d]
<1>1. CurrentLine(p) \in Line /\ received[c] \in Seq(Line) /\ queue[c] \in Seq(Line)
  BY LineOf, SentType DEF PutNowait
<1>2. /\ \/ queue'[c] = Append(queue[c], CurrentLine(p)) /\ UNCHANGED missed
         \/ queue'[c] = queue[c] /\ missed'[c] = missed[c] \cup {CurrentLine(p)}
      /\ \A d \in Client \ {c} : queue'[d] = queue[d] /\ missed'[d] = missed[d]
      /\ UNCHANGED received
  BY DEF PutNowait, TypeInv, TypeOK
<1>3. received[c] \o Append(queue[c], CurrentLine(p)) = Append(received[c] \o queue[c], CurrentLine(p))
  <2>1. \A r \in Seq(Line), q \in Seq(Line), e \in Line : r \o Append(q, e) = Append(r \o q, e)
    BY AppendMoves
  <2>2. QED
    BY <1>1, <2>1, Zenon
<1>4. QED
  BY <1>2, <1>3 DEF Sent

(* ... taking a line from the queue is no change, ...                      *)
LEMMA SentGet ==
  ASSUME TypeInv, NEW c \in Client, GetNowait(c)
  PROVE  \A d \in Client : Sent(d)' = Sent(d)
<1>1. /\ \A d \in Client \ {c} : received'[d] = received[d] /\ queue'[d] = queue[d]
      /\ \/ queue[c] # <<>> /\ received'[c] = Append(received[c], Head(queue[c]))
                            /\ queue'[c] = Tail(queue[c])
         \/ received'[c] = received[c] /\ queue'[c] = queue[c]
  BY DEF GetNowait, TypeInv, TypeOK
<1>2. queue[c] # <<>> => Append(received[c], Head(queue[c])) \o Tail(queue[c]) = received[c] \o queue[c]
  BY SentType, HeadMoves
<1>3. QED
  BY <1>1, <1>2 DEF Sent

(* ... subscribing gives the beginning of the history.                     *)
LEMMA SentSubscribe ==
  ASSUME TypeInv, StreamInv, NEW c \in Client, SubscribeBody(c)
  PROVE  /\ \A d \in Client \ {c} : Sent(d)' = Sent(d) /\ missed'[d] = missed[d] /\ since'[d] = since[d]
         /\ \/ Sent(c)' = Sent(c) /\ UNCHANGED <<subscribers, since, missed>>
            \/ /\ Sent(c)' = FirstOf(history, queue_size)
               /\ missed'[c] = ToSet(history) \ ToSet(FirstOf(history, queue_size))
               /\ since'[c] = Len(log) - Len(history)
               /\ subscribers' = subscribers \cup {c}
<1>1. received'[c] = <<>> /\ UNCHANGED received /\ c \notin subscribers
  BY DEF SubscribeBody, StreamInv, Runs, Fresh
<1>2. FirstOf(history, queue_size) \in Seq(Line)
  BY FirstOfPrefix, DebugEventBusAssumption DEF TypeInv, TypeOK
<1>3. <<>> \o FirstOf(history, queue_size) = FirstOf(history, queue_size)
  BY <1>2, ConcatEmptySeq
<1>4. CASE closed
  BY <1>1, <1>4 DEF SubscribeBody, Sent
<1>5. CASE ~closed
  BY <1>1, <1>3, <1>5 DEF SubscribeBody, Sent, TypeInv, TypeOK
<1>6. QED
  BY <1>4, <1>5

(* Every other step leaves all of it.                                      *)
LEMMA SentSame ==
  ASSUME UNCHANGED <<queue, received>>
  PROVE  \A c \in Client : Sent(c)' = Sent(c)
  BY DEF Sent

Covered(c, l) ==
    \/ l \in ToSet(Sent(c)) \cup missed[c]
    \/ \E p \in Publisher : pub[p] = "put" /\ CurrentLine(p) = l /\ c \in targets[p]

Begin(c) == c \in subscribers' \ subscribers

LEMMA CoveredStays ==
  ASSUME TypeInv, StreamInv, Next, NEW c \in Client, ~Begin(c), c \in subscribers', NEW l \in Line,
         Covered(c, l)
  PROVE  Covered(c, l)' /\ since'[c] = since[c]
<1> USE DEF shared, threads, Begin
<1>0. c \in subscribers /\ stream[c] \notin Fresh
  BY DEF StreamInv
<1>1. ASSUME UNCHANGED <<queue, received, missed, since>>,
             \A p \in Publisher : pub[p] = "put" /\ c \in targets[p]
                => pub'[p] = "put" /\ CurrentLine(p)' = CurrentLine(p) /\ c \in targets'[p]
      PROVE  Covered(c, l)' /\ since'[c] = since[c]
  BY <1>1, SentSame DEF Covered
<1>2. ASSUME NEW p \in Publisher, PublishLock(p) \/ PublishBody(p) \/ PublishReturn(p)
      PROVE  Covered(c, l)' /\ since'[c] = since[c]
  <2>1. \A q \in Publisher : pub[q] = "put" /\ c \in targets[q]
           => pub'[q] = "put" /\ CurrentLine(q)' = CurrentLine(q) /\ c \in targets'[q]
    BY <1>2 DEF PublishLock, PublishBody, PublishReturn, CurrentLine, TypeInv, TypeOK
  <2>2. QED
    BY <1>1, <1>2, <2>1 DEF PublishLock, PublishBody, PublishReturn
<1>3. ASSUME NEW p \in Publisher, NEW d \in Client, PutNowait(p, d)
      PROVE  Covered(c, l)' /\ since'[c] = since[c]
  <2>1. /\ UNCHANGED <<pub, count, since>>
        /\ \A q \in Publisher : c \in targets[q] /\ ~(q = p /\ c = d) => c \in targets'[q]
        /\ \A q \in Publisher : CurrentLine(q)' = CurrentLine(q)
    BY <1>3 DEF PutNowait, CurrentLine, TypeInv, TypeOK
  <2>2. CurrentLine(p) \in Line /\ Sent(c) \in Seq(Line)
    BY <1>3, LineOf, SentType DEF PutNowait
  <2>3. /\ ToSet(Sent(c)) \cup missed[c] \subseteq ToSet(Sent(c))' \cup missed'[c]
        /\ c = d => CurrentLine(p) \in ToSet(Sent(c))' \cup missed'[c]
    <3>1. ToSet(Append(Sent(c), CurrentLine(p))) = ToSet(Sent(c)) \cup {CurrentLine(p)}
      <4>1. \A s \in Seq(Line), e \in Line : ToSet(Append(s, e)) = ToSet(s) \cup {e}
        BY AppendSet
      <4>2. QED
        BY <2>2, <4>1
    <3>2. CASE c = d
      <4>1. \/ Sent(c)' = Append(Sent(c), CurrentLine(p)) /\ UNCHANGED missed
            \/ Sent(c)' = Sent(c) /\ missed'[c] = missed[c] \cup {CurrentLine(p)}
        BY <1>3, <3>2, SentPut
      <4>2. CASE Sent(c)' = Append(Sent(c), CurrentLine(p)) /\ UNCHANGED missed
        <5>1. ToSet(Sent(c))' = ToSet(Sent(c)) \cup {CurrentLine(p)} /\ missed'[c] = missed[c]
          BY <3>1, <4>2
        <5>2. QED
          BY <5>1, Zenon
      <4>3. CASE Sent(c)' = Sent(c) /\ missed'[c] = missed[c] \cup {CurrentLine(p)}
        <5>1. ToSet(Sent(c))' = ToSet(Sent(c))
          BY <4>3
        <5>2. QED
          BY <4>3, <5>1, Zenon
      <4>4. QED
        BY <4>1, <4>2, <4>3
    <3>3. CASE c # d
      BY <1>3, <3>3, SentPut
    <3>4. QED
      BY <3>2, <3>3
  <2>4. QED
    BY <2>1, <2>3 DEF Covered
<1>4. ASSUME NEW d \in Client, GetNowait(d)
      PROVE  Covered(c, l)' /\ since'[c] = since[c]
  BY <1>4, SentGet DEF GetNowait, Covered, CurrentLine
<1>5. ASSUME NEW d \in Client, SubscribeBody(d)
      PROVE  Covered(c, l)' /\ since'[c] = since[c]
  <2>1. c # d
    BY <1>0, <1>5 DEF SubscribeBody, Runs, Fresh
  <2>2. QED
    BY <1>5, <2>1, SentSubscribe DEF SubscribeBody, Covered, CurrentLine
<1>6. ASSUME NEW d \in Client, \/ ClientStep(d) \/ Wake(d)
                               \/ SubscribeLock(d) \/ CheckLock(d) \/ UnsubscribeLock(d)
                               \/ CheckBody(d) \/ UnsubscribeBody(d)
      PROVE  Covered(c, l)' /\ since'[c] = since[c]
  <2>1. UNCHANGED <<queue, received, missed, since, pub, count, targets>>
    BY <1>6 DEF ClientStep, Open, SendReturns, Cancel, Expire, Wake, Resume, SubscribeLock,
                CheckLock, UnsubscribeLock, Lock,
                CheckBody, UnsubscribeBody
  <2>2. QED
    BY <1>1, <2>1 DEF CurrentLine
<1>7. CASE Signal \/ CloseLock \/ CloseBody
  BY <1>1, <1>7, HandlerType DEF CurrentLine
<1>8. QED
  BY <1>2, <1>3, <1>4, <1>5, <1>6, <1>7 DEF Next, StreamStep, Publish

(* How the log grows.                                                      *)
LEMMA LogGrows ==
  ASSUME TypeInv, Next
  PROVE  \/ UNCHANGED <<log, history>>
         \/ \E p \in Publisher :
               /\ pub[p] = "locked" /\ pub'[p] = "put" /\ targets'[p] = subscribers
               /\ log' = Append(log, CurrentLine(p)) /\ UNCHANGED <<count, subscribers>>
<1> USE DEF shared, threads
<1>1. ASSUME NEW p \in Publisher, PublishBody(p)
      PROVE  \/ UNCHANGED <<log, history>>
             \/ /\ pub[p] = "locked" /\ pub'[p] = "put" /\ targets'[p] = subscribers
                /\ log' = Append(log, CurrentLine(p)) /\ UNCHANGED <<count, subscribers>>
  BY <1>1 DEF PublishBody, TypeInv, TypeOK
<1>2. ASSUME NEW p \in Publisher, Publish(p), ~PublishBody(p) PROVE UNCHANGED <<log, history>>
  BY <1>2 DEF Publish, PublishLock, PublishReturn, PutNowait
<1>3. ASSUME NEW c \in Client, ClientStep(c) \/ StreamStep(c) PROVE UNCHANGED <<log, history>>
  BY <1>3 DEF ClientStep, Open, SendReturns, Cancel, Expire, StreamStep, Wake, Resume,
              SubscribeLock, CheckLock, UnsubscribeLock, Lock,
              SubscribeBody, CheckBody, UnsubscribeBody, GetNowait
<1>4. CASE Signal \/ CloseLock \/ CloseBody
  BY <1>4, HandlerType
<1>5. QED
  BY <1>1, <1>2, <1>3, <1>4 DEF Next

(* Only subscribe lets a client in.                                        *)
LEMMA BeginSubscribes ==
  ASSUME TypeInv, Next, NEW c \in Client, Begin(c)
  PROVE  SubscribeBody(c) /\ UNCHANGED log
<1> USE DEF shared, threads, Begin
<1>1. ASSUME NEW p \in Publisher, Publish(p) PROVE FALSE
  BY <1>1 DEF Publish, PublishLock, PublishBody, PublishReturn, PutNowait
<1>2. ASSUME NEW d \in Client, ClientStep(d) \/ StreamStep(d)
      PROVE  d = c /\ SubscribeBody(c)
  BY <1>2 DEF ClientStep, Open, SendReturns, Cancel, Expire, StreamStep, Wake, Resume,
              SubscribeLock, CheckLock, UnsubscribeLock, Lock,
              SubscribeBody, CheckBody, UnsubscribeBody, GetNowait
<1>3. CASE Signal \/ CloseLock \/ CloseBody
  BY <1>3, HandlerType
<1>4. QED
  BY <1>1, <1>2, <1>3 DEF Next, SubscribeBody

GapInv == \A c \in subscribers : \A i \in since[c] + 1 .. Len(log) : Covered(c, log[i])

LEMMA GapStep == TypeInv /\ StreamInv /\ GapInv /\ [Next]_vars => GapInv'
<1> SUFFICES ASSUME TypeInv, TypeInv', StreamInv, GapInv, [Next]_vars PROVE GapInv'
  BY BusTypeStep
<1>1. CASE UNCHANGED vars
  BY <1>1 DEF GapInv, Covered, Sent, CurrentLine, vars, shared, threads
<1>2. CASE Next
  <2> SUFFICES ASSUME NEW c \in subscribers', NEW i \in since'[c] + 1 .. Len(log')
               PROVE  Covered(c, log[i])'
    BY DEF GapInv
  <2>0. /\ c \in Client /\ log \in Seq(Line) /\ log' \in Seq(Line) /\ Len(log) \in Nat
        /\ since'[c] \in Nat /\ since[c] \in Nat /\ history \in Seq(Line)
    BY DEF TypeInv, TypeOK
  <2>1. CASE Begin(c)
    <3>1. SubscribeBody(c) /\ log' = log
      BY <1>2, <2>0, <2>1, BeginSubscribes
    <3>2. /\ Sent(c)' = FirstOf(history, queue_size) /\ since'[c] = Len(log) - Len(history)
          /\ missed'[c] = ToSet(history) \ ToSet(FirstOf(history, queue_size))
      BY <2>0, <2>1, <3>1, SentSubscribe DEF Begin
    <3>3. i - since'[c] \in 1 .. Len(history) /\ history[i - since'[c]] = log[i]
      <4>1. /\ Len(history) \in Nat /\ Len(history) <= Len(log)
            /\ \A j \in 1 .. Len(history) : history[j] = log[Len(log) - Len(history) + j]
        <5>1. EndOf(history, log) /\ Len(history) \in Nat
          BY <2>0 DEF TypeInv
        <5>2. QED
          BY <5>1 DEF EndOf
      <4>2. PICK k \in Nat, m \in Nat : k = Len(log) /\ m = Len(history)
        BY <2>0, <4>1
      <4>3. i \in k - m + 1 .. k /\ since'[c] = k - m
        BY <3>1, <3>2, <4>2
      <4>4. i - since'[c] \in 1 .. m /\ k - m + (i - since'[c]) = i
        BY <4>2, <4>3
      <4>5. QED
        BY <4>1, <4>2, <4>4
    <3>4. log[i] \in ToSet(history)
      BY <2>0, <3>3 DEF ToSet
    <3>5. ToSet(Sent(c))' = ToSet(FirstOf(history, queue_size))
      BY <3>2
    <3>6. QED
      BY <3>1, <3>2, <3>4, <3>5 DEF Covered
  <2>2. CASE ~Begin(c)
    <3>0. c \in subscribers
      BY <2>2 DEF Begin
    <3>1. CASE i \in 1 .. Len(log)
      <4>1. log[i] \in Line /\ log'[i] = log[i]
        <5>1. log' = log \/ \E p \in Publisher : log' = Append(log, CurrentLine(p))
          BY <1>2, LogGrows
        <5>2. QED
          BY <2>0, <3>1, <5>1, AppendKeeps
      <4>2. CASE since'[c] = since[c]
        <5>1. Covered(c, log[i])
          <6>1. i \in since[c] + 1 .. Len(log)
            BY <2>0, <3>1, <4>2
          <6>2. QED
            BY <3>0, <6>1 DEF GapInv
        <5>2. PICK l \in Line : l = log[i]
          BY <4>1
        <5>3. Covered(c, l)'
          BY <1>2, <2>0, <2>2, <5>1, <5>2, CoveredStays
        <5>4. QED
          BY <4>1, <5>2, <5>3
      <4>3. CASE since'[c] # since[c]
        <5>1. ASSUME NEW d \in Client, SubscribeBody(d) PROVE FALSE
          BY <3>0, <4>3, <5>1, <2>0, SentSubscribe DEF StreamInv, SubscribeBody, Runs, Fresh
        <5>2. QED
          BY <1>2, <4>3, <5>1, HandlerType
          DEF Next, Publish, PublishLock, PublishBody, PublishReturn, PutNowait, ClientStep,
              Open, SendReturns, Cancel, Expire,
              StreamStep, Wake, Resume, SubscribeLock, CheckLock, UnsubscribeLock, Lock,
   CheckBody,
              UnsubscribeBody, GetNowait, shared, threads
      <4>4. QED
        BY <4>2, <4>3
    <3>2. CASE i \notin 1 .. Len(log)
      <4>1. PICK p \in Publisher :
               /\ pub[p] = "locked" /\ pub'[p] = "put" /\ targets'[p] = subscribers
               /\ log' = Append(log, CurrentLine(p)) /\ UNCHANGED <<count, subscribers>>
        BY <1>2, <2>0, <3>2, LogGrows
      <4>2. i = Len(log) + 1 /\ CurrentLine(p) \in Line
        BY <2>0, <3>2, <4>1, LineOf
      <4>3. log'[i] = CurrentLine(p) /\ CurrentLine(p)' = CurrentLine(p)
        BY <2>0, <4>1, <4>2 DEF CurrentLine
      <4>4. QED
        BY <3>0, <4>1, <4>3 DEF Covered
    <3>3. QED
      BY <3>1, <3>2
  <2>3. QED
    BY <2>1, <2>2
<1>3. QED
  BY <1>1, <1>2

(* Between the replay of the history and the live fan-out no line is lost  *)
(* to a client but for a full queue.                                       *)
THEOREM NoLineFallsBetweenEver == Spec => []NoLineFallsBetween
<1>1. Init => GapInv
  BY DEF Init, GapInv
<1>2. GapInv => NoLineFallsBetween
  BY DEF GapInv, Covered, NoLineFallsBetween
<1>3. QED
  BY <1>1, <1>2, BusTypeInit, BusTypeStep, StreamInvInit, StreamInvStep, GapStep, PTL DEF Spec

-----------------------------------------------------------------------------
(* The order of the lines.                                                 *)

(* The lines of each publisher ascend; all of them are at most at its      *)
(* count n, and before it for the publishers in P.                         *)
Ascending(s) ==
    \A i, j \in 1 .. Len(s) : i < j /\ s[i][1] = s[j][1] => s[i][2] < s[j][2]

Past(s, n, P) ==
    \A i \in 1 .. Len(s) : /\ s[i][2] <= n[s[i][1]]
                           /\ s[i][1] \in P => s[i][2] < n[s[i][1]]

LEMMA LineParts ==
  ASSUME NEW s \in Seq(Line)
  PROVE  \A i \in 1 .. Len(s) : s[i] \in Line /\ s[i][1] \in Publisher /\ s[i][2] \in Nat
<1>1. \A l \in Line : l[1] \in Publisher /\ l[2] \in Nat
  BY DEF Line
<1>2. \A i \in 1 .. Len(s) : s[i] \in Line
  OBVIOUS
<1>3. QED
  BY <1>1, <1>2

LEMMA PastKept ==
  ASSUME NEW s \in Seq(Line), NEW n \in [Publisher -> Nat], NEW m \in [Publisher -> Nat],
         NEW P, NEW Q, Past(s, n, P), \A q \in Publisher : n[q] <= m[q],
         \A q \in Q : q \in Publisher => q \in P \/ n[q] < m[q]
  PROVE  Past(s, m, Q)
<1> SUFFICES ASSUME NEW i \in 1 .. Len(s)
             PROVE  s[i][2] <= m[s[i][1]] /\ (s[i][1] \in Q => s[i][2] < m[s[i][1]])
  BY DEF Past
<1>1. s[i][1] \in Publisher /\ s[i][2] \in Nat
  BY LineParts
<1>2. s[i][2] <= n[s[i][1]] /\ (s[i][1] \in P => s[i][2] < n[s[i][1]])
  BY DEF Past
<1>3. QED
  BY <1>1, <1>2

LEMMA PartOrdered ==
  ASSUME NEW s \in Seq(Line), NEW t \in Seq(Line), NEW k \in Nat, NEW n, NEW P,
         Ascending(s), Past(s, n, P), k + Len(t) <= Len(s), \A i \in 1 .. Len(t) : t[i] = s[k + i]
  PROVE  Ascending(t) /\ Past(t, n, P)
<1>1. \A i \in 1 .. Len(t) : k + i \in 1 .. Len(s) /\ t[i] = s[k + i]
  OBVIOUS
<1>2. Ascending(t)
  <2> SUFFICES ASSUME NEW i \in 1 .. Len(t), NEW j \in 1 .. Len(t), i < j, t[i][1] = t[j][1]
               PROVE  t[i][2] < t[j][2]
    BY DEF Ascending
  <2>1. k + i < k + j
    OBVIOUS
  <2>2. QED
    BY <1>1, <2>1 DEF Ascending
<1>3. Past(t, n, P)
  BY <1>1 DEF Past
<1>4. QED
  BY <1>2, <1>3

LEMMA AppendOrdered ==
  ASSUME NEW s \in Seq(Line), NEW p \in Publisher, NEW n \in [Publisher -> Nat], NEW P, NEW Q,
         <<p, n[p]>> \in Line, Ascending(s), Past(s, n, P), p \in P, Q \subseteq P \ {p}
  PROVE  /\ Ascending(Append(s, <<p, n[p]>>))
         /\ Past(Append(s, <<p, n[p]>>), n, Q)
<1> DEFINE e == <<p, n[p]>>
           t == Append(s, e)
<1>1. /\ t \in Seq(Line) /\ Len(t) = Len(s) + 1 /\ Len(s) \in Nat
      /\ \A i \in 1 .. Len(s) : t[i] = s[i]
      /\ t[Len(s) + 1] = e
  BY AppendProperties
<1>2. e[1] = p /\ e[2] = n[p] /\ n[p] \in Nat
  OBVIOUS
<1> HIDE DEF e, t
<1>3. \A i \in 1 .. Len(s) : s[i][1] = p => s[i][2] < n[p]
  BY DEF Past
<1>4. Ascending(t)
  <2> SUFFICES ASSUME NEW i \in 1 .. Len(t), NEW j \in 1 .. Len(t), i < j, t[i][1] = t[j][1]
               PROVE  t[i][2] < t[j][2]
    BY DEF Ascending
  <2>1. i \in 1 .. Len(s) /\ t[i] = s[i]
    BY <1>1
  <2>2. CASE j \in 1 .. Len(s)
    BY <1>1, <2>1, <2>2 DEF Ascending
  <2>3. CASE j = Len(s) + 1
    BY <1>1, <1>2, <1>3, <2>1, <2>3
  <2>4. QED
    BY <1>1, <2>2, <2>3
<1>5. Past(t, n, Q)
  <2> SUFFICES ASSUME NEW i \in 1 .. Len(t)
               PROVE  t[i][2] <= n[t[i][1]] /\ (t[i][1] \in Q => t[i][2] < n[t[i][1]])
    BY DEF Past
  <2>1. CASE i \in 1 .. Len(s)
    <3>1. t[i] = s[i] /\ (s[i][1] \in Q => s[i][1] \in P)
      BY <1>1, <2>1
    <3>2. s[i][2] <= n[s[i][1]] /\ (s[i][1] \in P => s[i][2] < n[s[i][1]])
      BY <2>1 DEF Past
    <3>3. QED
      BY <3>1, <3>2
  <2>2. CASE i = Len(s) + 1
    BY <1>1, <1>2, <2>2
  <2>3. QED
    BY <1>1, <2>1, <2>2
<1>6. QED
  BY <1>4, <1>5 DEF e, t

(* The publishers whose current line is still to come, to the log and to c.*)
ToLog == {p \in Publisher : pub[p] = "locked"}
To(c) == {p \in Publisher : pub[p] = "locked" \/ (pub[p] = "put" /\ c \in targets[p])}

OrderInv ==
    /\ Ascending(log) /\ Past(log, count, ToLog)
    /\ \A c \in Client : Ascending(Sent(c)) /\ Past(Sent(c), count, To(c))

(* Nothing is sent or logged: what was past stays past, if no publisher    *)
(* comes back to a line it has begun.                                      *)
LEMMA OrderQuiet ==
  ASSUME TypeInv, TypeInv', OrderInv, UNCHANGED log, \A c \in Client : Sent(c)' = Sent(c),
         \A q \in Publisher : count[q] <= count'[q],
         \A q \in ToLog' : q \in ToLog \/ count[q] < count'[q],
         \A c \in Client : \A q \in To(c)' : q \in To(c) \/ count[q] < count'[q]
  PROVE  OrderInv'
<1>1. /\ count \in [Publisher -> Nat] /\ count' \in [Publisher -> Nat] /\ log \in Seq(Line)
      /\ \A c \in Client : Sent(c) \in Seq(Line)
  BY SentType DEF TypeInv, TypeOK
<1>2. Ascending(log)' /\ Past(log', count', ToLog')
  BY <1>1, PastKept DEF OrderInv
<1>3. ASSUME NEW c \in Client PROVE Ascending(Sent(c))' /\ Past(Sent(c)', count', To(c)')
  <2>1. Ascending(Sent(c)) /\ Past(Sent(c), count, To(c)) /\ Sent(c)' = Sent(c)
    BY DEF OrderInv
  <2>2. Past(Sent(c), count', To(c)')
    BY <1>1, <2>1, PastKept
  <2>3. QED
    BY <2>1, <2>2
<1>4. QED
  BY <1>2, <1>3 DEF OrderInv

LEMMA OrderPublish ==
  ASSUME TypeInv, TypeInv', StreamInv, OrderInv, NEW p \in Publisher, Publish(p)
  PROVE  OrderInv'
<1> USE DEF shared, threads
<1>0. /\ count \in [Publisher -> Nat] /\ log \in Seq(Line)
      /\ pub \in [Publisher -> {"idle", "locked", "put"}]
      /\ targets \in [Publisher -> SUBSET Client]
      /\ \A c \in Client : Sent(c) \in Seq(Line)
  BY SentType DEF TypeInv, TypeOK
<1>1. CASE PublishLock(p)
  <2>1. /\ UNCHANGED <<log, queue, received, targets>> /\ count'[p] = count[p] + 1 /\ pub'[p] = "locked"
        /\ \A q \in Publisher \ {p} : count'[q] = count[q] /\ pub'[q] = pub[q]
    BY <1>0, <1>1 DEF PublishLock
  <2>2. /\ \A q \in Publisher : count[q] <= count'[q]
        /\ \A q \in ToLog' : q \in ToLog \/ count[q] < count'[q]
        /\ \A c \in Client : \A q \in To(c)' : q \in To(c) \/ count[q] < count'[q]
    BY <1>0, <2>1 DEF ToLog, To
  <2>3. QED
    BY <2>1, <2>2, SentSame, OrderQuiet
<1>2. CASE PublishReturn(p) \/ (PublishBody(p) /\ closed)
  <2>1. UNCHANGED <<log, queue, received, targets, count>> /\ pub' = [pub EXCEPT ![p] = "idle"]
    BY <1>2 DEF PublishReturn, PublishBody
  <2>2. /\ \A q \in Publisher : count[q] <= count'[q]
        /\ \A q \in ToLog' : q \in ToLog
        /\ \A c \in Client : \A q \in To(c)' : q \in To(c)
    BY <1>0, <2>1 DEF ToLog, To
  <2>3. QED
    BY <2>1, <2>2, SentSame, OrderQuiet
<1>3. CASE PublishBody(p) /\ ~closed
  <2>1. /\ UNCHANGED <<queue, received, count>> /\ log' = Append(log, CurrentLine(p))
        /\ pub[p] = "locked" /\ pub' = [pub EXCEPT ![p] = "put"]
        /\ targets' = [targets EXCEPT ![p] = subscribers]
    BY <1>3 DEF PublishBody
  <2>2. CurrentLine(p) \in Line
    BY <2>1, LineOf
  <2>3. p \in ToLog /\ ToLog' \subseteq ToLog \ {p} /\ \A c \in Client : To(c)' \subseteq To(c)
    BY <1>0, <2>1 DEF ToLog, To
  <2>4. Ascending(log) /\ Past(log, count, ToLog)
    BY DEF OrderInv
  <2>5. Ascending(log') /\ Past(log', count, ToLog')
    BY <1>0, <2>1, <2>2, <2>3, <2>4, AppendOrdered DEF CurrentLine
  <2>6. ASSUME NEW c \in Client PROVE Ascending(Sent(c)') /\ Past(Sent(c)', count, To(c)')
    <3>1. Ascending(Sent(c)) /\ Past(Sent(c), count, To(c)) /\ Sent(c)' = Sent(c)
      BY <2>1, SentSame DEF OrderInv
    <3>2. \A q \in Publisher : count[q] <= count[q]
      BY <1>0
    <3>3. Past(Sent(c), count, To(c)')
      BY <1>0, <2>3, <3>1, <3>2, PastKept
    <3>4. QED
      BY <3>1, <3>3
  <2>7. QED
    BY <2>1, <2>5, <2>6 DEF OrderInv
<1>4. ASSUME NEW c \in Client, PutNowait(p, c) PROVE OrderInv'
  <2>1. /\ UNCHANGED <<log, count, pub>> /\ pub[p] = "put" /\ c \in targets[p]
        /\ targets' = [targets EXCEPT ![p] = targets[p] \ {c}]
    BY <1>4 DEF PutNowait
  <2>2. CurrentLine(p) \in Line
    BY <2>1, LineOf
  <2>3. /\ ToLog' = ToLog /\ p \in To(c) /\ To(c)' \subseteq To(c) \ {p}
        /\ \A d \in Client : To(d)' \subseteq To(d)
    BY <1>0, <2>1 DEF ToLog, To
  <2>4. \A q \in Publisher : count[q] <= count[q]
    BY <1>0
  <2>5. ASSUME NEW d \in Client, Sent(d)' = Sent(d)
        PROVE  Ascending(Sent(d)') /\ Past(Sent(d)', count, To(d)')
    <3>1. Ascending(Sent(d)) /\ Past(Sent(d), count, To(d))
      BY DEF OrderInv
    <3>2. Past(Sent(d), count, To(d)')
      BY <1>0, <2>3, <2>4, <3>1, PastKept
    <3>3. QED
      BY <2>5, <3>1, <3>2
  <2>6. ASSUME Sent(c)' = Append(Sent(c), CurrentLine(p))
        PROVE  Ascending(Sent(c)') /\ Past(Sent(c)', count, To(c)')
    <3>1. Ascending(Sent(c)) /\ Past(Sent(c), count, To(c))
      BY DEF OrderInv
    <3>2. PICK s \in Seq(Line) : s = Sent(c)
      BY <1>0
    <3>3. /\ Ascending(Append(s, <<p, count[p]>>))
          /\ Past(Append(s, <<p, count[p]>>), count, To(c)')
      BY <1>0, <2>2, <2>3, <3>1, <3>2, AppendOrdered DEF CurrentLine
    <3>4. Sent(c)' = Append(s, <<p, count[p]>>)
      BY <2>6, <3>2 DEF CurrentLine
    <3>5. QED
      BY <3>3, <3>4
  <2>7. \A d \in Client : Ascending(Sent(d)') /\ Past(Sent(d)', count, To(d)')
    BY <1>4, <2>5, <2>6, SentPut
  <2>8. QED
    BY <2>1, <2>3, <2>7 DEF OrderInv
<1>5. QED
  BY <1>1, <1>2, <1>3, <1>4 DEF Publish

LEMMA OrderSubscribe ==
  ASSUME TypeInv, TypeInv', StreamInv, OrderInv, NEW c \in Client, SubscribeBody(c)
  PROVE  OrderInv'
<1> USE DEF shared, threads
<1>0. /\ count \in [Publisher -> Nat] /\ log \in Seq(Line) /\ history \in Seq(Line)
      /\ \A d \in Client : Sent(d) \in Seq(Line)
  BY SentType DEF TypeInv, TypeOK
<1>1. /\ UNCHANGED <<log, count, pub, targets>> /\ ToLog' = ToLog /\ \A d \in Client : To(d)' = To(d)
      /\ stream[c] \in Fresh
  BY DEF SubscribeBody, Runs, Fresh, ToLog, To
<1>2. To(c) \subseteq ToLog
  BY <1>1 DEF StreamInv, To, ToLog
<1>3. /\ Ascending(log) /\ Past(log, count, ToLog)
      /\ \A d \in Client : Ascending(Sent(d)) /\ Past(Sent(d), count, To(d))
  BY DEF OrderInv
<1>4. Ascending(history) /\ Past(history, count, ToLog)
  <2>1. Len(history) \in Nat /\ Len(log) \in Nat /\ Len(history) <= Len(log)
        /\ \A i \in 1 .. Len(history) : history[i] = log[Len(log) - Len(history) + i]
    <3>1. EndOf(history, log)
      BY DEF TypeInv
    <3>2. Len(history) \in Nat /\ Len(log) \in Nat
      BY <1>0
    <3>3. QED
      BY <3>1, <3>2 DEF EndOf
  <2>2. PICK k \in Nat : k = Len(log) - Len(history)
    BY <2>1
  <2>3. k + Len(history) <= Len(log) /\ \A i \in 1 .. Len(history) : history[i] = log[k + i]
    BY <2>1, <2>2
  <2>4. QED
    BY <1>0, <1>3, <2>3, PartOrdered
<1>5. /\ FirstOf(history, queue_size) \in Seq(Line)
      /\ Ascending(FirstOf(history, queue_size)) /\ Past(FirstOf(history, queue_size), count, ToLog)
  <2> DEFINE f == FirstOf(history, queue_size)
  <2>1. /\ f \in Seq(Line) /\ Len(f) <= Len(history)
        /\ \A i \in 1 .. Len(f) : f[i] = history[i]
    BY <1>0, FirstOfPrefix, DebugEventBusAssumption
  <2> HIDE DEF f
  <2>2. 0 \in Nat /\ 0 + Len(f) <= Len(history) /\ \A i \in 1 .. Len(f) : f[i] = history[0 + i]
    BY <2>1
  <2>3. Ascending(f) /\ Past(f, count, ToLog)
    BY <1>0, <1>4, <2>1, <2>2, PartOrdered
  <2>4. QED
    BY <2>1, <2>3 DEF f
<1>6. \A q \in Publisher : count[q] <= count[q]
  BY <1>0
<1>7. Past(FirstOf(history, queue_size), count, To(c))
  BY <1>0, <1>2, <1>5, <1>6, PastKept
<1>8. \A d \in Client : Ascending(Sent(d)') /\ Past(Sent(d)', count, To(d))
  BY <1>3, <1>5, <1>7, SentSubscribe
<1>9. QED
  BY <1>1, <1>3, <1>8 DEF OrderInv

LEMMA OrderStep == TypeInv /\ StreamInv /\ OrderInv /\ [Next]_vars => OrderInv'
<1> SUFFICES ASSUME TypeInv, TypeInv', StreamInv, OrderInv, [Next]_vars PROVE OrderInv'
  BY BusTypeStep
<1> USE DEF shared, threads
<1>0. \A q \in Publisher : count[q] <= count[q]
  BY DEF TypeInv, TypeOK
<1>1. ASSUME UNCHANGED <<log, count, pub, targets>>, \A c \in Client : Sent(c)' = Sent(c)
      PROVE  OrderInv'
  BY <1>0, <1>1, OrderQuiet DEF ToLog, To
<1>2. ASSUME NEW c \in Client, GetNowait(c) PROVE OrderInv'
  BY <1>1, <1>2, SentGet DEF GetNowait
<1>3. ASSUME NEW c \in Client, \/ ClientStep(c) \/ Wake(c)
                               \/ SubscribeLock(c) \/ CheckLock(c) \/ UnsubscribeLock(c)
                               \/ CheckBody(c) \/ UnsubscribeBody(c)
      PROVE  OrderInv'
  <2>1. UNCHANGED <<queue, received, log, pub, count, targets>>
    BY <1>3 DEF ClientStep, Open, SendReturns, Cancel, Expire, Wake, Resume, SubscribeLock,
                CheckLock, UnsubscribeLock, Lock,
                CheckBody, UnsubscribeBody
  <2>2. QED
    BY <1>1, <2>1, SentSame
<1>4. CASE Signal \/ CloseLock \/ CloseBody
  BY <1>1, <1>4, HandlerType, SentSame
<1>5. CASE UNCHANGED vars
  BY <1>1, <1>5, SentSame DEF vars
<1>6. QED
  BY <1>2, <1>3, <1>4, <1>5, OrderPublish, OrderSubscribe DEF Next, StreamStep

(* A client gets the lines of each publisher in order and none twice.      *)
THEOREM EachLineOnceInOrderAlways == Spec => []EachLineOnceInOrder
<1>1. Init => OrderInv
  <2> SUFFICES ASSUME Init PROVE OrderInv
    OBVIOUS
  <2>1. log = <<>> /\ \A c \in Client : Sent(c) = <<>>
    BY DEF Init, Sent
  <2>2. Len(<<>>) = 0
    OBVIOUS
  <2>3. QED
    BY <2>1, <2>2 DEF OrderInv, Ascending, Past
<1>2. OrderInv => EachLineOnceInOrder
  BY DEF OrderInv, Ascending, EachLineOnceInOrder
<1>3. QED
  BY <1>1, <1>2, BusTypeInit, BusTypeStep, StreamInvInit, StreamInvStep, OrderStep, PTL DEF Spec
=============================================================================
