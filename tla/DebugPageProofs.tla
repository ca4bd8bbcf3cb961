---------------------------- MODULE DebugPageProofs ----------------------------
(***************************************************************************)
(* Proofs about DebugPage, for any sizes of the buffer, the view, the      *)
(* history and the queue, any window and any length of the log.            *)
(***************************************************************************)
EXTENDS DebugPage, SequenceTheorems, WellFoundedInduction, TLAPS

-----------------------------------------------------------------------------
(* Induction over the natural numbers, for a set of numbers.               *)

NatLess == {ss \in Nat \X Nat : ss[1] < ss[2]}

LEMMA NatLessWellFounded == IsWellFoundedOn(NatLess, Nat)
  BY NatLessThanWellFounded DEF OpToRel, NatLess

(* What holds of 0, and of a number's successor if of the number, holds up *)
(* to any bound.                                                           *)
LEMMA Counting ==
  ASSUME NEW N \in Nat, NEW G, 0 \in G, \A n \in 0 .. N - 1 : n \in G => n + 1 \in G
  PROVE  0 .. N \subseteq G
<1>1. ASSUME (0 .. N) \ G # {} PROVE FALSE
  <2>1. (0 .. N) \ G \subseteq Nat
    OBVIOUS
  <2>2. PICK n \in (0 .. N) \ G : \A m \in (0 .. N) \ G : ~ (<<m, n>> \in NatLess)
    BY <1>1, <2>1, NatLessWellFounded, WFMin
  <2>3. n # 0 /\ n - 1 \in 0 .. N - 1
    BY <2>2
  <2>4. n - 1 \notin G
    BY <2>3
  <2>5. <<n - 1, n>> \in NatLess
    BY <2>3 DEF NatLess
  <2>6. QED
    BY <2>2, <2>3, <2>4, <2>5
<1>2. QED
  BY <1>1

-----------------------------------------------------------------------------
(* The end of a sequence.                                                  *)

(* LastOf keeps what fits, and what it keeps are the last elements.        *)
LEMMA LastOfFacts ==
  ASSUME NEW S, NEW s \in Seq(S), NEW n \in Nat
  PROVE  /\ LastOf(s, n) \in Seq(S)
         /\ Len(s) <= n => LastOf(s, n) = s
         /\ Len(s) > n => /\ Len(LastOf(s, n)) = n
                          /\ \A i \in 1 .. n : LastOf(s, n)[i] = s[Len(s) - n + i]
<1>1. Len(s) \in Nat /\ \A i \in 1 .. Len(s) : s[i] \in S
  OBVIOUS
<1>2. CASE Len(s) <= n
  <2>1. ~ (Len(s) > n)
    BY <1>1, <1>2
  <2>2. LastOf(s, n) = SubSeq(s, 1, Len(s))
    BY <2>1, Zenon DEF LastOf
  <2>3. SubSeq(s, 1, Len(s)) = s
    BY SubSeqFull
  <2>4. LastOf(s, n) = s
    BY <2>2, <2>3
  <2>5. QED
    BY <2>1, <2>4
<1>3. CASE Len(s) > n
  <2>1. LastOf(s, n) = SubSeq(s, Len(s) - n + 1, Len(s))
    BY <1>1, <1>3 DEF LastOf
  <2> DEFINE from_ == Len(s) - n + 1
  <2>2. from_ \in Int /\ Len(s) \in Int /\ \A i \in from_ .. Len(s) : s[i] \in S
    BY <1>1, <1>3
  <2>3. Len(s) - from_ + 1 = n /\ (from_ <= Len(s) \/ n = 0)
    BY <1>1
  <2>4. /\ SubSeq(s, from_, Len(s)) \in Seq(S)
        /\ Len(SubSeq(s, from_, Len(s))) = IF from_ <= Len(s) THEN Len(s) - from_ + 1 ELSE 0
        /\ \A i \in 1 .. Len(s) - from_ + 1 : SubSeq(s, from_, Len(s))[i] = s[from_ + i - 1]
    <3> HIDE DEF from_
    <3>1. QED
      BY <2>2, SubSeqProperties
  <2>5. /\ LastOf(s, n) \in Seq(S) /\ Len(LastOf(s, n)) = n
        /\ \A i \in 1 .. n : LastOf(s, n)[i] = s[from_ + i - 1]
    <3> HIDE DEF from_
    <3>1. SubSeq(s, from_, Len(s)) = LastOf(s, n)
      BY <2>1 DEF from_
    <3>2. QED
      BY <2>3, <2>4, <3>1
  <2>6. \A i \in 1 .. n : from_ + i - 1 = Len(s) - n + i
    BY <1>1
  <2>7. QED
    <3> HIDE DEF from_
    <3>1. QED
      BY <1>1, <1>3, <2>5, <2>6
<1>4. QED
  BY <1>1, <1>2, <1>3

-----------------------------------------------------------------------------
(* The loop of mergeMessages.                                              *)

(* The loop is well defined: there is a buffer after each turn.            *)
LEMMA MergingDefined ==
  ASSUME NEW buffer, NEW incoming, Len(incoming) \in Nat
  PROVE  Merging(buffer, incoming) =
            [i \in 0 .. Len(incoming) |->
                IF i = 0 THEN buffer
                ELSE AddUnseen(Merging(buffer, incoming)[i - 1], incoming[i])]
<1> DEFINE Turns(n, g) == g = [i \in 0 .. n |->
                              IF i = 0 THEN buffer ELSE AddUnseen(g[i - 1], incoming[i])]
           G == {n \in Nat : \E g : Turns(n, g)}
<1>1. 0 \in G
  <2>1. Turns(0, [i \in {0} |-> buffer])
    OBVIOUS
  <2>2. QED
    BY <2>1
<1>2. ASSUME NEW n \in 0 .. Len(incoming) - 1, n \in G PROVE n + 1 \in G
  <2>1. PICK g : Turns(n, g)
    BY <1>2
  <2> DEFINE h == [i \in 0 .. n + 1 |-> IF i = n + 1 THEN AddUnseen(g[n], incoming[n + 1])
                                        ELSE g[i]]
  <2>2. ASSUME NEW i \in 0 .. n + 1
        PROVE  h[i] = IF i = 0 THEN buffer ELSE AddUnseen(h[i - 1], incoming[i])
    <3>1. CASE i = n + 1
      BY <3>1
    <3>2. CASE i # n + 1
      <4>1. i \in 0 .. n
        BY <3>2
      <4>2. g[i] = IF i = 0 THEN buffer ELSE AddUnseen(g[i - 1], incoming[i])
        BY <2>1, <4>1
      <4>3. i # 0 => h[i - 1] = g[i - 1]
        BY <4>1
      <4>4. QED
        BY <3>2, <4>1, <4>2, <4>3
    <3>3. QED
      BY <3>1, <3>2
  <2>3. Turns(n + 1, h)
    BY <2>2
  <2>4. (\E g_ : Turns(n + 1, g_)) /\ n + 1 \in Nat
    <3> HIDE DEF Turns, h
    <3>1. QED
      BY <2>3
  <2>5. QED
    BY <2>4
<1>3. \E g : Turns(Len(incoming), g)
  <2>1. 0 .. Len(incoming) \subseteq G
    <3> HIDE DEF G
    <3>1. QED
      BY <1>1, <1>2, Counting
  <2>2. QED
    BY <2>1
<1>4. Merging(buffer, incoming) = CHOOSE g : Turns(Len(incoming), g)
  BY DEF Merging
<1>5. Turns(Len(incoming), Merging(buffer, incoming))
  BY <1>3, <1>4
<1>6. QED
  BY <1>5

(* Nothing comes twice.                                                    *)
Distinct(s) == \A i, j \in 1 .. Len(s) : Same(s[i], s[j]) => i = j

(* s is the beginning of t.                                                *)
Begins(s, t) == Len(s) <= Len(t) /\ \A i \in 1 .. Len(s) : t[i] = s[i]

Holds(s, n) == \E i \in 1 .. Len(s) : Same(s[i], n)

(* One turn keeps what there is, brings the event in and doubles nothing.  *)
LEMMA AddUnseenFacts ==
  ASSUME NEW S, NEW m \in Seq(S), NEW n \in S
  PROVE  /\ AddUnseen(m, n) \in Seq(S)
         /\ Begins(m, AddUnseen(m, n))
         /\ Holds(AddUnseen(m, n), n)
         /\ Distinct(m) => Distinct(AddUnseen(m, n))
<1>1. CASE Holds(m, n)
  <2>1. AddUnseen(m, n) = m
    BY <1>1 DEF AddUnseen, Holds
  <2>2. QED
    BY <1>1, <2>1 DEF Begins
<1>2. CASE ~ Holds(m, n)
  <2> DEFINE a == Append(m, n)
  <2>1. AddUnseen(m, n) = a
    BY <1>2 DEF AddUnseen, Holds
  <2>2. /\ a \in Seq(S) /\ Len(m) \in Nat /\ Len(a) = Len(m) + 1
        /\ \A i \in 1 .. Len(m) : a[i] = m[i]
        /\ a[Len(m) + 1] = n
    BY AppendProperties
  <2> HIDE DEF a
  <2>3. Begins(m, a)
    BY <2>2 DEF Begins
  <2>4. Same(n, n)
    BY DEF Same
  <2>5. Holds(a, n)
    BY <2>2, <2>4 DEF Holds
  <2>6. ASSUME Distinct(m) PROVE Distinct(a)
    <3> SUFFICES ASSUME NEW i \in 1 .. Len(a), NEW j \in 1 .. Len(a), Same(a[i], a[j])
                 PROVE  i = j
      BY DEF Distinct
    <3>1. CASE i <= Len(m) /\ j <= Len(m)
      BY <2>2, <2>6, <3>1 DEF Distinct
    <3>2. CASE i <= Len(m) /\ j = Len(m) + 1
      BY <1>2, <2>2, <3>2 DEF Holds
    <3>3. CASE i = Len(m) + 1 /\ j <= Len(m)
      <4>1. Same(m[j], n)
        BY <2>2, <3>3 DEF Same
      <4>2. QED
        BY <1>2, <2>2, <3>3, <4>1 DEF Holds
    <3>4. QED
      BY <2>2, <3>1, <3>2, <3>3
  <2>7. QED
    BY <2>1, <2>2, <2>3, <2>5, <2>6
<1>3. QED
  BY <1>1, <1>2

(* What has been merged in after the first k turns.                        *)
MergedSoFar(S, buffer, incoming, k, m) ==
    /\ m \in Seq(S)
    /\ Begins(buffer, m)
    /\ \A j \in 1 .. k : Holds(m, incoming[j])
    /\ Distinct(buffer) => Distinct(m)

LEMMA MergingFacts ==
  ASSUME NEW S, NEW buffer \in Seq(S), NEW incoming \in Seq(S)
  PROVE  MergedSoFar(S, buffer, incoming, Len(incoming),
                     Merging(buffer, incoming)[Len(incoming)])
<1> DEFINE f == Merging(buffer, incoming)
           G == {k \in Nat : MergedSoFar(S, buffer, incoming, k, f[k])}
<1>1. Len(incoming) \in Nat /\ \A k \in 1 .. Len(incoming) : incoming[k] \in S
  OBVIOUS
<1>2. /\ f[0] = buffer
      /\ \A k \in 1 .. Len(incoming) : f[k] = AddUnseen(f[k - 1], incoming[k])
  <2>1. f = [i \in 0 .. Len(incoming) |->
               IF i = 0 THEN buffer ELSE AddUnseen(f[i - 1], incoming[i])]
    BY <1>1, MergingDefined
  <2> HIDE DEF f
  <2>2. QED
    BY <1>1, <2>1
<1> HIDE DEF f
<1>3. 0 \in G
  BY <1>2 DEF MergedSoFar, Begins
<1>4. ASSUME NEW k \in 0 .. Len(incoming) - 1, k \in G PROVE k + 1 \in G
  <2> DEFINE m == f[k]
             n == incoming[k + 1]
             a == AddUnseen(m, n)
  <2>1. /\ k + 1 \in 1 .. Len(incoming) /\ (k + 1) - 1 = k
        /\ MergedSoFar(S, buffer, incoming, k, m)
    BY <1>1, <1>4
  <2>2. f[k + 1] = a /\ n \in S
    BY <1>1, <1>2, <2>1
  <2>3. m \in Seq(S)
    BY <2>1 DEF MergedSoFar
  <2> HIDE DEF m, n
  <2>4. a \in Seq(S) /\ Begins(m, a) /\ Holds(a, n) /\ (Distinct(m) => Distinct(a))
    BY <2>2, <2>3, AddUnseenFacts
  <2> HIDE DEF a
  <2>5. Len(buffer) \in Nat /\ Len(m) \in Nat /\ Len(a) \in Nat
    BY <2>3, <2>4
  <2>6. Begins(buffer, a)
    BY <2>1, <2>4, <2>5 DEF Begins, MergedSoFar
  <2>7. ASSUME NEW j \in 1 .. k + 1 PROVE Holds(a, incoming[j])
    <3>1. CASE j = k + 1
      BY <2>4, <3>1 DEF n
    <3>2. CASE j \in 1 .. k
      <4>1. PICK i \in 1 .. Len(m) : Same(m[i], incoming[j])
        BY <2>1, <3>2 DEF MergedSoFar, Holds
      <4>2. i \in 1 .. Len(a) /\ a[i] = m[i]
        BY <2>4, <2>5 DEF Begins
      <4>3. QED
        BY <4>1, <4>2 DEF Holds
    <3>3. QED
      BY <3>1, <3>2
  <2>8. MergedSoFar(S, buffer, incoming, k + 1, a)
    BY <2>1, <2>4, <2>6, <2>7 DEF MergedSoFar
  <2>9. QED
    BY <2>2, <2>8
<1>5. Len(incoming) \in G
  <2> HIDE DEF G
  <2>1. 0 .. Len(incoming) \subseteq G
    BY <1>1, <1>3, <1>4, Counting
  <2>2. QED
    BY <1>1, <2>1
<1>6. QED
  BY <1>5 DEF f

(* What mergeMessages leaves: no more than the buffer may hold, nothing    *)
(* twice, and, unless it is full, all that was there and all that came.    *)
LEMMA MergeFacts ==
  ASSUME NEW S, NEW buffer \in Seq(S), NEW incoming \in Seq(S)
  PROVE  LET merged == mergeMessages(buffer, incoming) IN
         /\ merged \in Seq(S)
         /\ Len(merged) <= MaxMessages
         /\ Distinct(buffer) => Distinct(merged)
         /\ \/ Len(merged) = MaxMessages
            \/ /\ Begins(buffer, merged)
               /\ \A j \in 1 .. Len(incoming) : Holds(merged, incoming[j])
<1> DEFINE m == Merging(buffer, incoming)[Len(incoming)]
           r == mergeMessages(buffer, incoming)
<1>1. MergedSoFar(S, buffer, incoming, Len(incoming), m)
  BY MergingFacts
<1>2. r = LastOf(m, MaxMessages)
  BY DEF mergeMessages
<1> HIDE DEF m, r
<1>3. MaxMessages \in Nat
  BY DebugPageAssumption
<1>4. m \in Seq(S) /\ Len(m) \in Nat
  BY <1>1 DEF MergedSoFar
<1>5. /\ r \in Seq(S)
      /\ Len(m) <= MaxMessages => r = m
      /\ Len(m) > MaxMessages =>
            /\ Len(r) = MaxMessages
            /\ \A i \in 1 .. MaxMessages : r[i] = m[Len(m) - MaxMessages + i]
  BY <1>2, <1>3, <1>4, LastOfFacts
<1>6. CASE Len(m) <= MaxMessages
  BY <1>1, <1>5, <1>6 DEF MergedSoFar, r
<1>7. CASE Len(m) > MaxMessages
  <2>1. Distinct(m) => Distinct(r)
    <3> SUFFICES ASSUME Distinct(m),
                        NEW i \in 1 .. MaxMessages, NEW j \in 1 .. MaxMessages,
                        Same(r[i], r[j])
                 PROVE  i = j
      BY <1>5, <1>7 DEF Distinct
    <3> DEFINE d == Len(m) - MaxMessages
    <3>1. d + i \in 1 .. Len(m) /\ d + j \in 1 .. Len(m) /\ r[i] = m[d + i] /\ r[j] = m[d + j]
      BY <1>3, <1>4, <1>5, <1>7
    <3>2. d + i = d + j
      <4> HIDE DEF d
      <4>1. QED
        BY <3>1 DEF Distinct
    <3>3. QED
      BY <1>3, <1>4, <3>2
  <2>2. QED
    BY <1>1, <1>3, <1>5, <1>7, <2>1 DEF MergedSoFar, r
<1>8. QED
  BY <1>3, <1>4, <1>6, <1>7

-----------------------------------------------------------------------------
(* The types of the page's state and the bounds of its sequences.          *)

Messages == Seq(1 .. Len(log))

PageTypeOK ==
    /\ clock \in Nat /\ asOf \in Nat
    /\ log \in Seq([event_id : EventId, streamed_at : Nat])
    /\ history \in Messages /\ queue \in Messages /\ messages \in Messages
    /\ snapshot \in Messages \cup {NoFetch}
    /\ connected \in BOOLEAN /\ complete \in BOOLEAN /\ covered \in BOOLEAN
    /\ fromFollowsNow \in BOOLEAN /\ toFollowsNow \in BOOLEAN
    /\ correlation \in CorrelationId \cup {Unset}
    /\ from \in Int \cup {Unset} /\ to \in Int \cup {Unset}

(* The message, or one of the same event, is on its way or on the page.    *)
Reaches(n) == n \in ToSet(queue) \/ Holds(messages, n)

(* While the page has lost nothing, what the bus remembers reaches it; and *)
(* if nothing was lost since the server read the response on its way, what *)
(* does not is in the response.                                            *)
Accounted ==
    connected /\ Len(messages) < MaxMessages =>
        \A n \in ToSet(history) :
            /\ complete => Reaches(n)
            /\ covered => Reaches(n) \/ n \in ToSet(snapshot)

(* A field that has not been edited is where the last look at the clock    *)
(* put it.                                                                 *)
WindowFollows ==
    /\ fromFollowsNow => from = localInputValue(asOf - Window)
    /\ toFollowsNow => to = localInputValue(asOf)

PageInv == PageTypeOK /\ NoEventTwice /\ Accounted /\ WindowFollows

(* Cutting the milliseconds off moves a time back by less than a second.   *)
LEMMA CutOff ==
  ASSUME NEW t \in Int
  PROVE  localInputValue(t) \in Int /\ localInputValue(t) \in t - Second + 1 .. t
  BY DebugPageAssumption DEF localInputValue

(* What it is to be a sequence of messages.                                *)
LEMMA MessagesFacts ==
  ASSUME NEW s \in Messages
  PROVE  /\ Len(s) \in Nat /\ DOMAIN s = 1 .. Len(s)
         /\ \A i \in 1 .. Len(s) : s[i] \in 1 .. Len(log)
  BY DEF Messages

LEMMA PageInit == Init => PageInv
<1> SUFFICES ASSUME Init PROVE PageInv
  OBVIOUS
<1> USE DEF Init
<1>1. PageTypeOK
  <2>1. Window \in Nat /\ 0 - Window \in Int
    BY DebugPageAssumption
  <2>2. from \in Int /\ to \in Int
    BY <2>1, CutOff
  <2>3. <<>> \in Messages /\ <<>> \in Seq([event_id : EventId, streamed_at : Nat])
    BY DEF Messages
  <2>4. QED
    BY <2>2, <2>3 DEF PageTypeOK
<1>2. NoEventTwice
  BY DebugPageAssumption DEF NoEventTwice
<1>3. QED
  BY <1>1, <1>2 DEF PageInv, Accounted, WindowFollows

-----------------------------------------------------------------------------
(* The log grows only at its end, so messages mean what they meant.        *)

LEMMA LogGrows ==
  ASSUME PageTypeOK, NEW id \in EventId, Publish(id)
  PROVE  /\ log' \in Seq([event_id : EventId, streamed_at : Nat])
         /\ Len(log') = Len(log) + 1 /\ Len(log) \in Nat
         /\ \A n \in 1 .. Len(log) : log'[n] = log[n]
         /\ Messages \subseteq Messages'
<1>1. [event_id |-> id, streamed_at |-> clock] \in [event_id : EventId, streamed_at : Nat]
  BY DEF PageTypeOK
<1>2. /\ log' \in Seq([event_id : EventId, streamed_at : Nat])
      /\ Len(log') = Len(log) + 1 /\ Len(log) \in Nat
      /\ \A n \in 1 .. Len(log) : log'[n] = log[n]
  BY <1>1, AppendProperties DEF PageTypeOK, Publish
<1>3. 1 .. Len(log) \subseteq 1 .. Len(log')
  BY <1>2
<1>4. QED
  BY <1>2, <1>3, SeqMonotonic DEF Messages

(* Publish, for the types.                                                 *)
LEMMA PublishType ==
  ASSUME PageTypeOK, NEW id \in EventId, Publish(id)
  PROVE  PageTypeOK'
<1> DEFINE n == Len(log) + 1
<1>1. /\ log' \in Seq([event_id : EventId, streamed_at : Nat])
      /\ Len(log') = n /\ n \in 1 .. Len(log')
      /\ Messages \subseteq Messages'
  <2>1. /\ log' \in Seq([event_id : EventId, streamed_at : Nat])
        /\ Len(log') = n /\ Len(log) \in Nat
        /\ Messages \subseteq Messages'
    BY LogGrows, Zenon
  <2>2. QED
    BY <2>1
<1>2. history \in Messages' /\ queue \in Messages' /\ messages \in Messages'
      /\ snapshot \in Messages' \cup {NoFetch}
  BY <1>1 DEF PageTypeOK
<1>3. Append(history, n) \in Messages' /\ Append(queue, n) \in Messages'
  BY <1>1, <1>2, AppendProperties DEF Messages
<1>4. history' \in Messages'
  <2>1. history' = LastOf(Append(history, n), history_size) /\ history_size \in Nat
    BY DebugPageAssumption DEF Publish
  <2>2. QED
    BY <1>3, <2>1, LastOfFacts DEF Messages
<1>5. queue' \in Messages' /\ complete' \in BOOLEAN
  BY <1>2, <1>3 DEF Publish, PageTypeOK, LosesTrack, account
<1>6. covered' \in BOOLEAN
  BY DEF Publish, PageTypeOK, LosesTrack, account
<1>7. QED
  BY <1>1, <1>2, <1>4, <1>5, <1>6 DEF Publish, PageTypeOK, inputs

(* A merge, for the types and the two clauses of NoEventTwice.             *)
LEMMA MergeType ==
  ASSUME PageTypeOK, NEW incoming \in Messages, UNCHANGED log,
         messages' = mergeMessages(messages, incoming)
  PROVE  /\ messages' \in Messages
         /\ NoEventTwice => NoEventTwice'
<1>1. messages \in Messages
  BY DEF PageTypeOK
<1>2. /\ messages' \in Messages
      /\ Len(messages') <= MaxMessages
      /\ Distinct(messages) => Distinct(messages')
  BY <1>1, MergeFacts DEF Messages
<1>3. QED
  BY <1>2 DEF NoEventTwice, Distinct, Same

LEMMA FollowNowType ==
  ASSUME PageTypeOK, FollowNow
  PROVE  from' \in Int \cup {Unset} /\ to' \in Int \cup {Unset} /\ asOf' \in Nat
<1>1. clock \in Nat /\ clock - Window \in Int
  BY DebugPageAssumption DEF PageTypeOK
<1>2. localInputValue(clock - Window) \in Int /\ localInputValue(clock) \in Int
  BY <1>1, CutOff
<1>3. QED
  BY <1>1, <1>2 DEF FollowNow, PageTypeOK

LEMMA PageTypeStep == PageTypeOK /\ [Next]_vars => PageTypeOK'
<1> SUFFICES ASSUME PageTypeOK, [Next]_vars PROVE PageTypeOK'
  OBVIOUS
<1> USE DEF server, stream, inputs, account, LosesTrack
<1>0. <<>> \in Messages
  BY DEF Messages
<1>1. CASE UNCHANGED vars
  BY <1>1 DEF vars, PageTypeOK, Messages
<1>2. CASE Tick
  BY <1>2 DEF Tick, PageTypeOK, Messages
<1>3. CASE Disconnect
  BY <1>0, <1>3 DEF Disconnect, PageTypeOK, Messages
<1>4. CASE Restart
  BY <1>0, <1>4 DEF Restart, PageTypeOK, Messages
<1>5. ASSUME NEW id \in EventId, Publish(id) PROVE PageTypeOK'
  BY <1>5, PublishType
<1>6. CASE connect
  <2> DEFINE k == IF Len(history) > queue_size THEN queue_size ELSE Len(history)
  <2>1. history \in Messages /\ Len(history) \in Nat /\ queue_size \in Nat
    BY DebugPageAssumption DEF PageTypeOK, Messages
  <2>2. k \in Nat /\ k <= Len(history)
    BY <2>1
  <2>3. \A i \in 1 .. k : history[i] \in 1 .. Len(log)
    BY <2>1, <2>2 DEF Messages
  <2>4. SubSeq(history, 1, k) \in Messages
    <3> HIDE DEF k
    <3>1. QED
      BY <2>2, <2>3, SubSeqProperties DEF Messages
  <2>5. complete' \in BOOLEAN /\ covered' = FALSE
    <3>1. complete' = (Len(history) <= queue_size)
      BY <1>6, Zenon DEF connect
    <3>2. (Len(history) <= queue_size) \in BOOLEAN
      OBVIOUS
    <3>3. covered' = FALSE
      BY <1>6, Zenon DEF connect
    <3>4. QED
      BY <3>1, <3>2, <3>3, Zenon
  <2>6. queue' \in Messages /\ connected' = TRUE /\ UNCHANGED <<clock, server, snapshot, messages, inputs>>
    BY <1>6, <2>4 DEF connect
  <2>7. QED
    BY <2>5, <2>6 DEF PageTypeOK, Messages
<1>7. CASE ReadLine
  <2>1. queue \in Messages /\ queue # <<>>
    BY <1>7 DEF ReadLine, PageTypeOK
  <2>2. Head(queue) \in 1 .. Len(log) /\ Tail(queue) \in Messages
    BY <2>1, HeadTailProperties DEF Messages
  <2>3. <<Head(queue)>> \in Messages
    BY <2>2 DEF Messages
  <2>4. messages' \in Messages /\ queue' \in Messages
    BY <1>7, <2>2, <2>3, MergeType DEF ReadLine, Rest
  <2>5. from' \in Int \cup {Unset} /\ to' \in Int \cup {Unset} /\ asOf' \in Nat
    BY <1>7, FollowNowType DEF ReadLine
  <2>6. QED
    BY <1>7, <2>4, <2>5 DEF ReadLine, PageTypeOK, Messages
<1>8. CASE FetchHistory
  BY <1>8 DEF FetchHistory, PageTypeOK, Messages
<1>9. CASE refreshHistory
  <2>1. snapshot \in Messages
    BY <1>9 DEF refreshHistory, PageTypeOK
  <2>2. messages' \in Messages
    BY <1>9, <2>1, MergeType DEF refreshHistory
  <2>3. from' \in Int \cup {Unset} /\ to' \in Int \cup {Unset} /\ asOf' \in Nat
    BY <1>9, FollowNowType DEF refreshHistory
  <2>4. QED
    BY <1>9, <2>2, <2>3 DEF refreshHistory, PageTypeOK, Messages
<1>10. CASE RefreshFails
  BY <1>10 DEF RefreshFails, PageTypeOK, Messages
<1>11. CASE Clear
  BY <1>0, <1>11 DEF Clear, PageTypeOK, Messages
<1>12. CASE Reset
  <2>1. clock \in Nat /\ clock - Window \in Int
    BY DebugPageAssumption DEF PageTypeOK
  <2>2. localInputValue(clock - Window) \in Int /\ localInputValue(clock) \in Int
    BY <2>1, CutOff
  <2>3. QED
    BY <1>12, <2>1, <2>2 DEF Reset, resetWindow, PageTypeOK, Messages
<1>13. ASSUME NEW value \in CorrelationId \cup {Unset}, EditCorrelation(value) PROVE PageTypeOK'
  BY <1>13 DEF EditCorrelation, PageTypeOK, Messages
<1>14. ASSUME NEW value \in InputTime, EditFrom(value) \/ EditTo(value) PROVE PageTypeOK'
  <2>1. value \in Int \cup {Unset}
    BY DebugPageAssumption
  <2>2. QED
    BY <1>14, <2>1 DEF EditFrom, EditTo, PageTypeOK, Messages
<1>15. QED
  BY <1>1, <1>2, <1>3, <1>4, <1>5, <1>6, <1>7, <1>8, <1>9, <1>10, <1>11, <1>12, <1>13, <1>14
     DEF Next

-----------------------------------------------------------------------------
(* No event twice.                                                         *)

LEMMA TwiceStep == PageTypeOK /\ NoEventTwice /\ [Next]_vars => NoEventTwice'
<1> SUFFICES ASSUME PageTypeOK, NoEventTwice, [Next]_vars PROVE NoEventTwice'
  OBVIOUS
<1> USE DEF server, stream, inputs, account, LosesTrack
<1>1. CASE UNCHANGED messages /\ UNCHANGED log
  BY <1>1 DEF NoEventTwice, Same
<1>2. ASSUME NEW id \in EventId, Publish(id) PROVE NoEventTwice'
  <2>1. \A n \in 1 .. Len(log) : log'[n] = log[n]
    BY <1>2, LogGrows
  <2>2. messages' = messages /\ \A i \in 1 .. Len(messages) : messages[i] \in 1 .. Len(log)
    <3>1. messages \in Messages
      BY DEF PageTypeOK
    <3>2. messages' = messages
      BY <1>2 DEF Publish
    <3>3. QED
      BY <3>1, <3>2, MessagesFacts
  <2>3. ASSUME NEW i \in 1 .. Len(messages), NEW j \in 1 .. Len(messages),
               Same(messages[i], messages[j])'
        PROVE  i = j
    <3>1. messages[i] \in 1 .. Len(log) /\ messages[j] \in 1 .. Len(log)
      BY <2>2
    <3>2. Same(messages[i], messages[j])
      BY <2>1, <2>2, <2>3, <3>1 DEF Same
    <3>3. QED
      BY <3>2 DEF NoEventTwice
  <2>4. QED
    BY <2>2, <2>3 DEF NoEventTwice
<1>3. CASE ReadLine
  <2>1. queue \in Messages /\ queue # <<>>
    BY <1>3 DEF ReadLine, PageTypeOK
  <2>2. <<Head(queue)>> \in Messages
    BY <2>1, HeadTailProperties DEF Messages
  <2>3. QED
    BY <1>3, <2>2, MergeType DEF ReadLine
<1>4. CASE refreshHistory
  <2>1. snapshot \in Messages
    BY <1>4 DEF refreshHistory, PageTypeOK
  <2>2. QED
    BY <1>4, <2>1, MergeType DEF refreshHistory
<1>5. CASE Clear
  BY <1>5, DebugPageAssumption DEF Clear, NoEventTwice
<1>6. QED
  BY <1>1, <1>2, <1>3, <1>4, <1>5 DEF Next, vars, Tick, Disconnect, Restart, connect,
     FetchHistory, RefreshFails, Reset, EditCorrelation, EditFrom, EditTo

-----------------------------------------------------------------------------
(* The window.                                                             *)

LEMMA WindowStep == WindowFollows /\ [Next]_vars => WindowFollows'
<1> SUFFICES ASSUME WindowFollows, [Next]_vars PROVE WindowFollows'
  OBVIOUS
<1> USE DEF server, stream, inputs, WindowFollows, localInputValue
<1>1. CASE UNCHANGED inputs
  BY <1>1
<1>2. CASE FollowNow /\ UNCHANGED <<fromFollowsNow, toFollowsNow>>
  BY <1>2 DEF FollowNow
<1>3. CASE Reset
  BY <1>3 DEF Reset, resetWindow
<1>4. ASSUME NEW value, EditCorrelation(value) \/ EditFrom(value) \/ EditTo(value)
      PROVE  WindowFollows'
  BY <1>4 DEF EditCorrelation, EditFrom, EditTo
<1>5. QED
  BY <1>1, <1>2, <1>3, <1>4 DEF Next, vars, Tick, Disconnect, Restart, Publish, connect,
     ReadLine, FetchHistory, refreshHistory, RefreshFails, Clear

-----------------------------------------------------------------------------
(* Nothing missed.                                                         *)

(* What a merge that does not fill the buffer leaves of what was there,    *)
(* and that it brings in what came.                                        *)
LEMMA MergeHolds ==
  ASSUME PageTypeOK, NEW incoming \in Messages, UNCHANGED log,
         messages' = mergeMessages(messages, incoming), Len(messages') < MaxMessages
  PROVE  /\ Len(messages) < MaxMessages
         /\ \A n : Holds(messages, n) => Holds(messages', n)
         /\ \A j \in 1 .. Len(incoming) : Holds(messages', incoming[j])
<1>1. messages \in Messages
  BY DEF PageTypeOK
<1>2. /\ messages' \in Messages
      /\ \/ Len(messages') = MaxMessages
         \/ /\ Begins(messages, messages')
            /\ \A j \in 1 .. Len(incoming) : Holds(messages', incoming[j])
  BY <1>1, MergeFacts DEF Messages
<1>3. Len(messages) \in Nat /\ Len(messages') \in Nat /\ MaxMessages \in Nat
  BY <1>1, <1>2, DebugPageAssumption DEF Messages
<1>4. /\ Begins(messages, messages')
      /\ \A j \in 1 .. Len(incoming) : Holds(messages', incoming[j])
  BY <1>2, <1>3
<1>5. Len(messages) < MaxMessages
  BY <1>3, <1>4 DEF Begins
<1>6. ASSUME NEW n, Holds(messages, n) PROVE Holds(messages', n)
  <2>1. PICK i \in 1 .. Len(messages) : Same(messages[i], n)
    BY <1>6 DEF Holds
  <2>2. i \in 1 .. Len(messages') /\ messages'[i] = messages[i]
    BY <1>3, <1>4 DEF Begins
  <2>3. QED
    BY <2>1, <2>2 DEF Holds
<1>7. QED
  BY <1>4, <1>5, <1>6

(* A line that is not dropped comes to the page, and what reached it does. *)
LEMMA PublishKeeps ==
  ASSUME PageTypeOK, NEW id \in EventId, Publish(id), queue' # queue, NEW n \in ToSet(history')
  PROVE  \/ Reaches(n)'
         \/ n \in ToSet(history) /\ ~ Reaches(n)
<1> DEFINE new == Len(log) + 1
<1>1. /\ history' = LastOf(Append(history, new), history_size)
      /\ queue' = Append(queue, new)
      /\ messages' = messages
  BY DEF Publish
<1>2. /\ Len(log) \in Nat /\ \A m \in 1 .. Len(log) : log'[m] = log[m]
      /\ history_size \in Nat
  BY LogGrows, DebugPageAssumption
<1>3. history \in Seq(Nat) /\ queue \in Seq(Nat) /\ new \in Nat
  BY <1>2, SeqMonotonic DEF PageTypeOK, Messages
<1>4. /\ Append(history, new) \in Seq(Nat) /\ Append(queue, new) \in Seq(Nat)
      /\ Len(history) \in Nat /\ Len(queue) \in Nat
      /\ Len(Append(history, new)) = Len(history) + 1 /\ Len(Append(queue, new)) = Len(queue) + 1
      /\ \A i \in 1 .. Len(history) : Append(history, new)[i] = history[i]
      /\ \A i \in 1 .. Len(queue) : Append(queue, new)[i] = queue[i]
      /\ Append(history, new)[Len(history) + 1] = new
      /\ Append(queue, new)[Len(queue) + 1] = new
  BY <1>3, AppendProperties
<1>5. n \in ToSet(Append(history, new))
  <2> DEFINE a == Append(history, new)
  <2>1. /\ Len(a) \in Nat /\ a \in Seq(Nat) /\ history' = LastOf(a, history_size)
    BY <1>1, <1>4
  <2> HIDE DEF a
  <2>2. /\ history' \in Seq(Nat)
        /\ Len(a) <= history_size => history' = a
        /\ Len(a) > history_size => /\ Len(history') = history_size
                                   /\ \A i \in 1 .. history_size : history'[i] = a[Len(a) - history_size + i]
    <3> DEFINE l == LastOf(a, history_size)
    <3>1. a \in Seq(Nat) /\ history_size \in Nat
      BY <1>2, <2>1
    <3>2. /\ l \in Seq(Nat)
          /\ Len(a) <= history_size => l = a
          /\ Len(a) > history_size => /\ Len(l) = history_size
                                     /\ \A i \in 1 .. history_size : l[i] = a[Len(a) - history_size + i]
      BY <3>1, LastOfFacts
    <3> HIDE DEF l
    <3>3. history' = l
      BY <2>1 DEF l
    <3>4. QED
      BY <3>2, <3>3
  <2>3. PICK i \in 1 .. Len(history') : n = history'[i]
    BY <2>2 DEF ToSet
  <2>4. \E j \in 1 .. Len(a) : n = a[j]
    <3>1. CASE Len(a) <= history_size
      BY <2>2, <2>3, <3>1
    <3>2. CASE Len(a) > history_size
      <4>1. Len(a) - history_size + i \in 1 .. Len(a)
        BY <1>2, <2>1, <2>2, <2>3, <3>2
      <4>2. QED
        BY <2>2, <2>3, <3>2, <4>1
    <3>3. QED
      BY <1>2, <2>1, <3>1, <3>2
  <2>5. n \in ToSet(a)
    BY <2>1, <2>4 DEF ToSet
  <2>6. QED
    BY <2>5 DEF a
<1>6. CASE n = new
  <2>1. DOMAIN queue' = 1 .. Len(queue) + 1 /\ queue'[Len(queue) + 1] = new
    BY <1>1, <1>4
  <2>2. Len(queue) + 1 \in DOMAIN queue'
    BY <1>4, <2>1
  <2>3. n \in ToSet(queue')
    BY <1>6, <2>1, <2>2, Zenon DEF ToSet
  <2>4. QED
    BY <2>3 DEF Reaches
<1>7. CASE n # new
  <2>1. PICK i \in 1 .. Len(history) + 1 : n = Append(history, new)[i]
    BY <1>4, <1>5 DEF ToSet
  <2>2. i \in 1 .. Len(history) /\ n = history[i]
    BY <1>4, <1>7, <2>1
  <2>3. n \in ToSet(history) /\ n \in 1 .. Len(log)
    <3>1. history \in Messages
      BY DEF PageTypeOK
    <3>2. i \in DOMAIN history /\ history[i] \in 1 .. Len(log)
      BY <2>2, <3>1, MessagesFacts
    <3>3. QED
      BY <2>2, <3>2, Zenon DEF ToSet
  <2>5. CASE n \in ToSet(queue)
    <3>1. PICK j \in 1 .. Len(queue) : n = queue[j]
      BY <1>3, <2>5 DEF ToSet
    <3>2. DOMAIN queue' = 1 .. Len(queue) + 1 /\ queue'[j] = n
      BY <1>1, <1>4, <3>1
    <3>3. j \in DOMAIN queue'
      BY <1>4, <3>1, <3>2
    <3>4. n \in ToSet(queue')
      BY <3>2, <3>3, Zenon DEF ToSet
    <3>5. QED
      BY <3>4 DEF Reaches
  <2>6. CASE Holds(messages, n)
    <3>1. messages \in Messages
      BY DEF PageTypeOK
    <3>2. \A j \in 1 .. Len(messages) : messages[j] \in 1 .. Len(log)
      BY <3>1, MessagesFacts
    <3>3. QED
      BY <1>1, <1>2, <2>3, <2>6, <3>2 DEF Reaches, Holds, Same
  <2>7. QED
    BY <2>3, <2>5, <2>6 DEF Reaches
<1>8. QED
  BY <1>6, <1>7

(* A line that is read reaches the page, and so does what reached it.      *)
LEMMA LineKeeps ==
  ASSUME PageTypeOK, ReadLine, (Len(messages) < MaxMessages)', NEW n, Reaches(n)
  PROVE  Reaches(n)' /\ Len(messages) < MaxMessages
<1>1. queue \in Messages /\ queue # <<>>
  BY DEF ReadLine, PageTypeOK
<1> DEFINE line == <<Head(queue)>>
<1>2. /\ line \in Messages /\ Len(line) = 1 /\ line[1] = Head(queue)
  BY <1>1, HeadTailProperties DEF Messages
<1> HIDE DEF line
<1>3. log' = log /\ queue' = Tail(queue) /\ messages' = mergeMessages(messages, line)
  BY DEF ReadLine, Rest, line, server
<1>4. /\ Len(messages) < MaxMessages
      /\ Holds(messages, n) => Holds(messages', n)
      /\ Holds(messages', Head(queue))
  <2>1. Len(messages') < MaxMessages
    OBVIOUS
  <2>2. /\ Len(messages) < MaxMessages
        /\ Holds(messages, n) => Holds(messages', n)
        /\ \A j \in 1 .. Len(line) : Holds(messages', line[j])
    BY <1>2, <1>3, <2>1, MergeHolds
  <2>3. QED
    BY <1>2, <2>2
<1>5. CASE n \in ToSet(queue)
  <2>1. PICK i \in DOMAIN queue : n = queue[i]
    BY <1>5 DEF ToSet
  <2>2. /\ Len(queue) \in Nat /\ DOMAIN queue = 1 .. Len(queue) /\ Head(queue) = queue[1]
        /\ DOMAIN Tail(queue) = 1 .. Len(queue) - 1
        /\ \A k \in 1 .. Len(queue) - 1 : Tail(queue)[k] = queue[k + 1]
    BY <1>1 DEF Messages
  <2>3. CASE i = 1
    <3>1. Holds(messages', n)
      BY <1>4, <2>1, <2>2, <2>3
    <3>2. QED
      BY <1>3, <1>4, <3>1 DEF Reaches, Holds, Same
  <2>4. CASE i # 1
    <3>1. i - 1 \in DOMAIN Tail(queue) /\ Tail(queue)[i - 1] = n
      BY <2>1, <2>2, <2>4
    <3>2. QED
      BY <1>3, <1>4, <3>1 DEF Reaches, ToSet
  <2>5. QED
    BY <2>3, <2>4
<1>6. CASE Holds(messages, n)
  BY <1>3, <1>4, <1>6 DEF Reaches, Holds, Same
<1>7. QED
  BY <1>5, <1>6 DEF Reaches

LEMMA AccountedStep == PageTypeOK /\ Accounted /\ [Next]_vars => Accounted'
<1> SUFFICES ASSUME PageTypeOK, Accounted, [Next]_vars PROVE Accounted'
  OBVIOUS
<1> USE DEF server, stream, inputs, account, LosesTrack
<1>1. CASE UNCHANGED <<server, stream, snapshot, messages, account>>
  BY <1>1 DEF Accounted, Reaches, Holds, Same
<1>2. CASE complete' = FALSE /\ covered' = FALSE
  BY <1>2 DEF Accounted
<1>3. ASSUME NEW id \in EventId, Publish(id) PROVE Accounted'
  <2>1. CASE connected /\ Len(queue) < queue_size
    <3>1. queue' = Append(queue, Len(log) + 1) /\ UNCHANGED account
      BY <1>3, <2>1 DEF Publish
    <3>2. queue' # queue
      <4>1. queue \in Seq(1 .. Len(log)) /\ Len(queue) \in Nat
        BY DEF PageTypeOK, Messages
      <4>2. Len(Append(queue, Len(log) + 1)) = Len(queue) + 1
        BY <4>1
      <4>3. QED
        BY <3>1, <4>1, <4>2
    <3>3. UNCHANGED <<connected, messages, snapshot, complete, covered>>
      BY <1>3, <3>1 DEF Publish
    <3> SUFFICES ASSUME connected', (Len(messages) < MaxMessages)', NEW n \in ToSet(history')
                 PROVE  /\ complete' => Reaches(n)'
                        /\ covered' => Reaches(n)' \/ n \in ToSet(snapshot')
      BY DEF Accounted
    <3>4. Reaches(n)' \/ (n \in ToSet(history) /\ ~ Reaches(n))
      BY <1>3, <3>2, PublishKeeps
    <3>5. QED
      BY <3>3, <3>4 DEF Accounted
  <2>2. CASE ~ (connected /\ Len(queue) < queue_size)
    BY <1>2, <1>3, <2>2 DEF Publish
  <2>3. QED
    BY <2>1, <2>2
<1>4. CASE connect
  <2> SUFFICES ASSUME complete' PROVE ToSet(history) \subseteq ToSet(queue')
    BY <1>4 DEF connect, Accounted, Reaches
  <2>1. history \in Messages /\ Len(history) \in Nat /\ queue_size \in Nat
    BY DebugPageAssumption DEF PageTypeOK, Messages
  <2>2. ~ (Len(history) > queue_size)
    <3>1. Len(history) <= queue_size
      BY <1>4, Zenon DEF connect
    <3>2. QED
      BY <2>1, <3>1
  <2>3. queue' = SubSeq(history, 1, Len(history))
    <3>1. queue' = SubSeq(history, 1, IF Len(history) > queue_size THEN queue_size
                                      ELSE Len(history))
      BY <1>4 DEF connect
    <3>2. QED
      BY <2>2, <3>1, Zenon
  <2>4. queue' = history
    BY <2>1, <2>3, SubSeqFull DEF Messages
  <2>5. QED
    BY <2>4
<1>5. CASE ReadLine
  <2> SUFFICES ASSUME connected', (Len(messages) < MaxMessages)', NEW n \in ToSet(history')
               PROVE  /\ complete' => Reaches(n)'
                      /\ covered' => Reaches(n)' \/ n \in ToSet(snapshot')
    BY DEF Accounted
  <2>1. UNCHANGED <<connected, history, snapshot, complete, covered>>
    BY <1>5 DEF ReadLine
  <2>2. CASE Reaches(n)
    BY <1>5, <2>2, LineKeeps
  <2>3. CASE ~ Reaches(n)
    <3>1. Len(messages) < MaxMessages
      <4>1. queue \in Messages /\ queue # <<>>
        BY <1>5 DEF ReadLine, PageTypeOK
      <4>2. 1 \in DOMAIN queue
        BY <4>1 DEF Messages
      <4>3. Reaches(queue[1])
        BY <4>2 DEF Reaches, ToSet
      <4>4. QED
        BY <1>5, <4>3, LineKeeps
    <3>2. QED
      BY <2>1, <2>3, <3>1 DEF Accounted
  <2>4. QED
    BY <2>2, <2>3
<1>6. CASE FetchHistory
  BY <1>6 DEF FetchHistory, Accounted, Reaches, Holds, Same
<1>7. CASE refreshHistory
  <2> SUFFICES ASSUME connected', (Len(messages) < MaxMessages)', NEW n \in ToSet(history'),
                      complete'
               PROVE  Reaches(n)'
    BY <1>7 DEF Accounted, refreshHistory
  <2>1. /\ snapshot \in Messages /\ messages' = mergeMessages(messages, snapshot)
        /\ log' = log /\ queue' = queue /\ connected /\ n \in ToSet(history)
    BY <1>7 DEF refreshHistory, PageTypeOK
  <2>2. /\ Len(messages) < MaxMessages
        /\ Holds(messages, n) => Holds(messages', n)
        /\ \A j \in 1 .. Len(snapshot) : Holds(messages', snapshot[j])
    BY <2>1, MergeHolds
  <2>3. complete \/ covered
    BY <1>7 DEF refreshHistory
  <2>4. n \in ToSet(queue) \/ Holds(messages, n) \/ n \in ToSet(snapshot)
    BY <2>1, <2>2, <2>3 DEF Accounted, Reaches
  <2>5. n \in ToSet(snapshot) => Holds(messages', n)
    <3>1. DOMAIN snapshot = 1 .. Len(snapshot)
      BY <2>1 DEF Messages
    <3>2. QED
      BY <2>2, <3>1 DEF ToSet
  <2>6. n \in ToSet(queue') \/ Holds(messages', n)
    BY <2>1, <2>2, <2>4, <2>5
  <2>7. QED
    BY <2>1, <2>6 DEF Reaches, Holds, Same
<1>8. CASE RefreshFails
  BY <1>8 DEF RefreshFails, Accounted, Reaches, Holds, Same
<1>9. QED
  BY <1>1, <1>2, <1>3, <1>4, <1>5, <1>6, <1>7, <1>8 DEF Next, vars, Tick, Disconnect, Restart,
     Clear, Reset, resetWindow, EditCorrelation, EditFrom, EditTo

-----------------------------------------------------------------------------

LEMMA PageStep == PageInv /\ [Next]_vars => PageInv'
  BY PageTypeStep, TwiceStep, AccountedStep, WindowStep DEF PageInv

LEMMA PageInvariant == Spec => []PageInv
<1>1. Init => PageInv
  BY PageInit
<1>2. PageInv /\ [Next]_vars => PageInv'
  BY PageStep
<1>3. QED
  BY <1>1, <1>2, PTL DEF Spec

(* The page's state has its types, whatever the inputs are set to.         *)
THEOREM PageTypeCorrect == Spec => []PageTypeOK
<1>1. PageInv => PageTypeOK
  BY DEF PageInv
<1>2. QED
  BY <1>1, PageInvariant, PTL

(* The page never holds an event twice nor more than it may, however the   *)
(* replay of a connection, its stream and late histories overlap.          *)
THEOREM PageHoldsNoEventTwice == Spec => []NoEventTwice
<1>1. PageInv => NoEventTwice
  BY DEF PageInv
<1>2. QED
  BY <1>1, PageInvariant, PTL

(* A page that has read its stream to the end misses nothing that the bus  *)
(* remembers.                                                              *)
THEOREM PageCatchesUp == Spec => []CaughtUp
<1>1. PageInv => CaughtUp
  <2> SUFFICES ASSUME PageInv, connected, queue = <<>>, complete, Len(messages) < MaxMessages,
                      NEW n \in ToSet(history)
               PROVE  \E m \in ToSet(messages) : Same(m, n)
    BY DEF CaughtUp
  <2>1. n \notin ToSet(queue)
    BY DEF ToSet
  <2>2. Holds(messages, n)
    BY <2>1 DEF PageInv, Accounted, Reaches
  <2>3. DOMAIN messages = 1 .. Len(messages)
    BY DEF PageInv, PageTypeOK, Messages
  <2>4. QED
    BY <2>2, <2>3 DEF Holds, ToSet
<1>2. QED
  BY <1>1, PageInvariant, PTL

-----------------------------------------------------------------------------
(* What leaves the page.                                                   *)

(* A merge gives up only the first places of what was there.               *)
LEMMA MergeGivesUp ==
  ASSUME NEW S, NEW buffer \in Seq(S), NEW incoming \in Seq(S), NEW merged,
         merged = mergeMessages(buffer, incoming)
  PROVE  \E k \in 0 .. Len(buffer) :
            /\ Len(buffer) - k <= Len(merged)
            /\ \A i \in 1 .. Len(buffer) - k : merged[i] = buffer[i + k]
            /\ k > 0 => Len(merged) = MaxMessages
<1> DEFINE m == Merging(buffer, incoming)[Len(incoming)]
<1>1. m \in Seq(S) /\ Begins(buffer, m)
  BY MergingFacts DEF MergedSoFar
<1>2. merged = LastOf(m, MaxMessages) /\ MaxMessages \in Nat
  BY DebugPageAssumption DEF mergeMessages
<1> HIDE DEF m
<1>3. /\ Len(m) <= MaxMessages => merged = m
      /\ Len(m) > MaxMessages =>
            /\ Len(merged) = MaxMessages
            /\ \A i \in 1 .. MaxMessages : merged[i] = m[Len(m) - MaxMessages + i]
  <2>1. /\ Len(m) <= MaxMessages => LastOf(m, MaxMessages) = m
        /\ Len(m) > MaxMessages =>
              /\ Len(LastOf(m, MaxMessages)) = MaxMessages
              /\ \A i \in 1 .. MaxMessages :
                    LastOf(m, MaxMessages)[i] = m[Len(m) - MaxMessages + i]
    BY ONLY <1>1, <1>2, LastOfFacts
  <2> QED
    BY ONLY <1>2, <2>1
<1>4. /\ Len(buffer) \in Nat /\ Len(m) \in Nat /\ Len(buffer) <= Len(m)
      /\ \A i \in 1 .. Len(buffer) : m[i] = buffer[i]
  BY <1>1 DEF Begins
<1>5. CASE Len(m) <= MaxMessages
  <2>1. /\ 0 \in 0 .. Len(buffer) /\ Len(buffer) - 0 <= Len(merged)
        /\ \A i \in 1 .. Len(buffer) - 0 : merged[i] = buffer[i + 0]
    BY <1>3, <1>4, <1>5
  <2>2. QED
    BY <2>1
<1>6. CASE Len(m) > MaxMessages
  <2> DEFINE d == Len(m) - MaxMessages
  <2>1. d \in Nat /\ Len(merged) = MaxMessages
        /\ \A i \in 1 .. MaxMessages : merged[i] = m[d + i]
    BY <1>2, <1>3, <1>4, <1>6
  <2>2. CASE d <= Len(buffer)
    <3>1. d \in 0 .. Len(buffer) /\ Len(buffer) - d <= Len(merged)
      BY <1>2, <1>4, <2>1, <2>2
    <3>2. ASSUME NEW i \in 1 .. Len(buffer) - d PROVE merged[i] = buffer[i + d]
      <4>1. i \in 1 .. MaxMessages /\ d + i \in 1 .. Len(buffer) /\ d + i = i + d
        BY <1>2, <1>4, <2>1, <2>2
      <4>2. merged[i] = m[d + i] /\ m[d + i] = buffer[d + i]
        <5> HIDE DEF d
        <5>1. QED
          BY <1>4, <2>1, <4>1
      <4>3. QED
        BY <4>1, <4>2
    <3> HIDE DEF d
    <3>3. QED
      BY <2>1, <3>1, <3>2
  <2>3. CASE ~ (d <= Len(buffer))
    <3>1. /\ Len(buffer) \in 0 .. Len(buffer) /\ Len(buffer) - Len(buffer) <= Len(merged)
          /\ 1 .. Len(buffer) - Len(buffer) = {}
      BY <1>2, <1>4, <2>1
    <3>2. QED
      BY <2>1, <3>1
  <2>4. QED
    BY <2>2, <2>3
<1>7. QED
  BY <1>2, <1>4, <1>5, <1>6

(* A single message is there when it has been merged in.                   *)
LEMMA MergeOne ==
  ASSUME NEW S, NEW buffer \in Seq(S), NEW n \in S, Len(buffer) <= MaxMessages
  PROVE  Holds(mergeMessages(buffer, <<n>>), n)
<1> DEFINE line == <<n>>
           m == AddUnseen(buffer, n)
           r == mergeMessages(buffer, line)
<1>1. line \in Seq(S) /\ Len(line) = 1 /\ line[1] = n
  OBVIOUS
<1> HIDE DEF line
<1>2. r = LastOf(m, MaxMessages)
  <2> DEFINE f == Merging(buffer, line)
  <2>0. f = [i \in 0 .. Len(line) |-> IF i = 0 THEN buffer ELSE AddUnseen(f[i - 1], line[i])]
    <3>1. Len(line) \in Nat
      BY <1>1
    <3>2. QED
      BY <3>1, MergingDefined
  <2>1. f = [i \in 0 .. 1 |-> IF i = 0 THEN buffer ELSE AddUnseen(f[i - 1], line[i])]
    <3> HIDE DEF f
    <3>1. QED
      BY <1>1, <2>0
  <2>2. r = LastOf(f[1], MaxMessages)
    BY <1>1 DEF mergeMessages
  <2> HIDE DEF f, r
  <2>3. f[0] = buffer
    BY <2>1
  <2>4. f[1] = AddUnseen(f[1 - 1], line[1])
    BY <2>1
  <2>5. 1 - 1 = 0
    OBVIOUS
  <2>6. f[1] = m
    BY <1>1, <2>3, <2>4, <2>5, Zenon
  <2>7. QED
    BY <2>2, <2>6
<1>3. m \in Seq(S) /\ MaxMessages \in Nat \ {0}
  BY AddUnseenFacts, DebugPageAssumption
<1> HIDE DEF r
<1>4. CASE Holds(buffer, n)
  <2>1. m = buffer
    BY <1>4 DEF AddUnseen, Holds
  <2>2. r = buffer
    BY <1>2, <1>3, <2>1, LastOfFacts
  <2>3. QED
    BY <1>4, <2>2 DEF r, line
<1>5. CASE ~ Holds(buffer, n)
  <2>1. m = Append(buffer, n)
    BY <1>5 DEF AddUnseen, Holds
  <2>2. Len(m) = Len(buffer) + 1 /\ Len(buffer) \in Nat /\ m[Len(buffer) + 1] = n
    BY <2>1, AppendProperties
  <2> HIDE DEF m
  <2>3. /\ Len(m) <= MaxMessages => r = m
        /\ Len(m) > MaxMessages =>
              /\ Len(r) = MaxMessages
              /\ \A i \in 1 .. MaxMessages : r[i] = m[Len(m) - MaxMessages + i]
    BY <1>2, <1>3, LastOfFacts
  <2>4. \E i \in 1 .. Len(r) : r[i] = n
    <3>1. CASE Len(m) <= MaxMessages
      BY <2>2, <2>3, <3>1
    <3>2. CASE Len(m) > MaxMessages
      <4>1. MaxMessages \in 1 .. MaxMessages /\ Len(m) - MaxMessages + MaxMessages = Len(buffer) + 1
        BY <1>3, <2>2
      <4>2. r[MaxMessages] = n /\ Len(r) = MaxMessages
        BY <2>2, <2>3, <3>2, <4>1
      <4>3. QED
        BY <4>1, <4>2
    <3>3. QED
      BY <1>3, <2>2, <3>1, <3>2
  <2>5. Holds(r, n)
    BY <2>4 DEF Holds, Same
  <2>6. QED
    BY <2>5 DEF r, line
<1>6. QED
  BY <1>4, <1>5

(* No event leaves the page but by Clear or because the buffer is full;    *)
(* what a full buffer gives up is what came to the page first, and never   *)
(* the line that has just been read.                                       *)
THEOREM PageKeepsEvents == Spec => OldestLeaveWhenFull
<1> DEFINE Kept == \/ messages' = <<>>
                   \/ \E k \in 0 .. Len(messages) :
                         GivesUp(k) /\ (k > 0 => Len(messages') = MaxMessages)
           Read == LineRead => \E m \in ToSet(messages') : Same(m, Head(queue))
<1>1. ASSUME PageTypeOK, NEW incoming \in Messages, messages' = mergeMessages(messages, incoming)
      PROVE  Kept
  <2>1. messages \in Seq(1 .. Len(log)) /\ incoming \in Seq(1 .. Len(log))
    BY <1>1 DEF PageTypeOK, Messages
  <2>2. \E k \in 0 .. Len(messages) :
            /\ Len(messages) - k <= Len(messages')
            /\ \A i \in 1 .. Len(messages) - k : messages'[i] = messages[i + k]
            /\ k > 0 => Len(messages') = MaxMessages
    BY <1>1, <2>1, MergeGivesUp
  <2>3. QED
    BY <2>2 DEF GivesUp
<1>2. ASSUME PageTypeOK, [Next]_vars PROVE Kept
  <2> USE <1>2 DEF server, stream, inputs, account
  <2>1. CASE UNCHANGED messages
    <3>1. Len(messages) \in Nat
      BY DEF PageTypeOK, Messages
    <3>2. 0 \in 0 .. Len(messages) /\ GivesUp(0)
      BY <2>1, <3>1 DEF GivesUp
    <3>3. QED
      BY <3>2
  <2>2. CASE ReadLine
    <3>1. queue \in Messages /\ queue # <<>>
      BY <2>2 DEF ReadLine, PageTypeOK
    <3>2. <<Head(queue)>> \in Messages
      BY <3>1, HeadTailProperties DEF Messages
    <3> HIDE DEF Kept
    <3>3. QED
      BY <2>2, <3>2, <1>1 DEF ReadLine
  <2>3. CASE refreshHistory
    <3>1. snapshot \in Messages
      BY <2>3 DEF refreshHistory, PageTypeOK
    <3> HIDE DEF Kept
    <3>2. QED
      BY <2>3, <3>1, <1>1 DEF refreshHistory
  <2>4. CASE Clear
    BY <2>4 DEF Clear
  <2>5. QED
    <3> HIDE DEF Kept
    <3>1. QED
      BY <2>1, <2>2, <2>3, <2>4 DEF Next, vars, Tick, Disconnect, Restart, Publish, connect,
         FetchHistory, RefreshFails, Reset, EditCorrelation, EditFrom, EditTo
<1>3. ASSUME PageTypeOK, NoEventTwice, [Next]_vars PROVE Read
  <2> SUFFICES ASSUME LineRead PROVE \E m \in ToSet(messages') : Same(m, Head(queue))
    OBVIOUS
  <2>1. queue \in Messages /\ queue # <<>> /\ connected /\ connected' /\ queue' = Tail(queue)
    BY <1>3 DEF LineRead, PageTypeOK
  <2>2. Len(queue) \in Nat \ {0} /\ Len(queue') = Len(queue) - 1 /\ Head(queue) \in 1 .. Len(log)
    <3>1. queue \in Seq(1 .. Len(log)) /\ queue # <<>>
      BY <2>1 DEF Messages
    <3>2. Head(queue) \in 1 .. Len(log) /\ Len(Tail(queue)) = Len(queue) - 1
      BY <3>1, HeadTailProperties
    <3>3. Len(queue) \in Nat \ {0}
      BY <3>1, EmptySeq
    <3>4. QED
      BY <2>1, <3>2, <3>3
  <2>3. queue' # queue /\ queue \in Seq(1 .. Len(log))
    <3>1. Len(queue) # Len(queue')
      BY <2>2
    <3>2. queue' # queue
      BY <3>1, Zenon
    <3>3. QED
      BY <2>1, <3>2, Zenon DEF Messages
  <2>4. ReadLine
    <3>1. ASSUME NEW id \in EventId, Publish(id) PROVE FALSE
      <4>1. queue' = queue \/ queue' = Append(queue, Len(log) + 1)
        BY <3>1 DEF Publish
      <4>2. Len(Append(queue, Len(log) + 1)) = Len(queue) + 1
        BY <2>3
      <4>3. QED
        BY <2>2, <2>3, <4>1, <4>2
    <3>2. ~ connect
      BY <2>1 DEF connect
    <3>3. QED
      BY <1>3, <2>1, <2>3, <3>1, <3>2 DEF Next, vars, server, stream, inputs, account, Tick,
         Disconnect, Restart, FetchHistory, refreshHistory, RefreshFails, Clear, Reset,
         EditCorrelation, EditFrom, EditTo
  <2>5. Holds(messages', Head(queue))
    <3>1. /\ messages \in Seq(1 .. Len(log)) /\ Len(messages) <= MaxMessages
          /\ messages' = mergeMessages(messages, <<Head(queue)>>)
      BY <1>3, <2>4 DEF PageTypeOK, Messages, NoEventTwice, ReadLine
    <3>2. QED
      BY <2>2, <3>1, MergeOne
  <2>6. messages' \in Messages
    <3>1. PageTypeOK'
      BY <1>3, PageTypeStep
    <3>2. log' = log
      BY <2>4 DEF ReadLine, server
    <3>3. QED
      BY <3>1, <3>2 DEF PageTypeOK, Messages
  <2>7. QED
    BY <2>5, <2>6 DEF Holds, ToSet, Messages
<1>4. PageInv /\ [Next]_vars => [Kept /\ Read]_vars
  BY <1>2, <1>3 DEF PageInv
<1>5. QED
  BY <1>4, PageInvariant, PTL DEF Spec, OldestLeaveWhenFull

-----------------------------------------------------------------------------
(* The view.                                                               *)

(* The filter is well defined.                                             *)
LEMMA FilteringDefined ==
  ASSUME Len(messages) \in Nat
  PROVE  Filtering = [i \in 0 .. Len(messages) |->
                        IF i = 0 THEN <<>> ELSE AddInView(Filtering[i - 1], messages[i])]
<1> DEFINE Turns(n, g) == g = [i \in 0 .. n |->
                              IF i = 0 THEN <<>> ELSE AddInView(g[i - 1], messages[i])]
           G == {n \in Nat : \E g : Turns(n, g)}
<1>1. 0 \in G
  <2>1. Turns(0, [i \in {0} |-> <<>>])
    OBVIOUS
  <2>2. QED
    BY <2>1
<1>2. ASSUME NEW n \in 0 .. Len(messages) - 1, n \in G PROVE n + 1 \in G
  <2>1. PICK g : Turns(n, g)
    BY <1>2
  <2> DEFINE h == [i \in 0 .. n + 1 |-> IF i = n + 1 THEN AddInView(g[n], messages[n + 1])
                                        ELSE g[i]]
  <2>2. ASSUME NEW i \in 0 .. n + 1
        PROVE  h[i] = IF i = 0 THEN <<>> ELSE AddInView(h[i - 1], messages[i])
    <3>1. CASE i = n + 1
      BY <3>1
    <3>2. CASE i # n + 1
      <4>1. i \in 0 .. n
        BY <3>2
      <4>2. g[i] = IF i = 0 THEN <<>> ELSE AddInView(g[i - 1], messages[i])
        BY <2>1, <4>1
      <4>3. i # 0 => h[i - 1] = g[i - 1]
        BY <4>1
      <4>4. QED
        BY <3>2, <4>1, <4>2, <4>3
    <3>3. QED
      BY <3>1, <3>2
  <2>3. Turns(n + 1, h)
    BY <2>2
  <2>4. (\E g_ : Turns(n + 1, g_)) /\ n + 1 \in Nat
    <3> HIDE DEF Turns, h
    <3>1. QED
      BY <2>3
  <2>5. QED
    BY <2>4
<1>3. \E g : Turns(Len(messages), g)
  <2>1. 0 .. Len(messages) \subseteq G
    <3> HIDE DEF G
    <3>1. QED
      BY <1>1, <1>2, Counting
  <2>2. QED
    BY <2>1
<1>4. Filtering = CHOOSE g : Turns(Len(messages), g)
  BY DEF Filtering
<1>5. Turns(Len(messages), Filtering)
  BY <1>3, <1>4
<1>6. QED
  BY <1>5

(* place tells where in the buffer the messages of the view come from: in  *)
(* the same order, and all of the first k that are in view.                *)
Places(k, kept, place) ==
    /\ place \in [1 .. Len(kept) -> 1 .. k]
    /\ \A p \in 1 .. Len(kept) : kept[p] = messages[place[p]]
    /\ \A p, q \in 1 .. Len(kept) : p < q => place[p] < place[q]
    /\ \A i \in 1 .. k : InView(messages[i]) => \E p \in 1 .. Len(kept) : place[p] = i

LEMMA FilterFacts ==
  ASSUME NEW S, messages \in Seq(S)
  PROVE  /\ filteredMessages \in Seq(S)
         /\ \E place : Places(Len(messages), filteredMessages, place)
<1> DEFINE f == Filtering
           G == {k \in Nat : f[k] \in Seq(S) /\ \E place : Places(k, f[k], place)}
<1>1. Len(messages) \in Nat /\ \A k \in 1 .. Len(messages) : messages[k] \in S
  OBVIOUS
<1>2. /\ f[0] = <<>>
      /\ \A k \in 1 .. Len(messages) : f[k] = AddInView(f[k - 1], messages[k])
  <2>1. f = [i \in 0 .. Len(messages) |->
               IF i = 0 THEN <<>> ELSE AddInView(f[i - 1], messages[i])]
    BY <1>1, FilteringDefined
  <2> HIDE DEF f
  <2>2. QED
    BY <1>1, <2>1
<1> HIDE DEF f
<1>3. 0 \in G
  <2> DEFINE none == [p \in 1 .. 0 |-> 0]
  <2>1. Len(<<>>) = 0 /\ <<>> \in Seq(S) /\ 1 .. 0 = {}
    OBVIOUS
  <2>2. none \in [1 .. 0 -> 1 .. 0]
    BY <2>1
  <2> HIDE DEF none
  <2>3. Places(0, <<>>, none)
    BY <2>1, <2>2 DEF Places
  <2>4. QED
    BY <1>2, <2>1, <2>3
<1>4. ASSUME NEW k \in 0 .. Len(messages) - 1, k \in G PROVE k + 1 \in G
  <2> DEFINE kept == f[k]
             n == messages[k + 1]
  <2>1. PICK place : Places(k, kept, place)
    BY <1>4
  <2>2. /\ k + 1 \in 1 .. Len(messages) /\ (k + 1) - 1 = k /\ k \in Nat
        /\ kept \in Seq(S) /\ n \in S /\ f[k + 1] = AddInView(kept, n)
    BY <1>1, <1>2, <1>4
  <2> HIDE DEF kept
  <2>3. Len(kept) \in Nat
    BY <2>2
  <2>4. CASE InView(n)
    <3> DEFINE new == Append(kept, n)
               to_ == [p \in 1 .. Len(kept) + 1 |-> IF p = Len(kept) + 1 THEN k + 1 ELSE place[p]]
    <3>1. f[k + 1] = new
      BY <2>2, <2>4 DEF AddInView
    <3>2. /\ new \in Seq(S) /\ Len(new) = Len(kept) + 1
          /\ \A p \in 1 .. Len(kept) : new[p] = kept[p]
          /\ new[Len(kept) + 1] = n
      BY <2>2, AppendProperties
    <3> HIDE DEF new
    <3>3. /\ to_ \in [1 .. Len(kept) + 1 -> 1 .. k + 1]
          /\ \A p \in 1 .. Len(kept) : to_[p] = place[p] /\ place[p] \in 1 .. k
          /\ to_[Len(kept) + 1] = k + 1
      <4>1. \A p \in 1 .. Len(kept) : place[p] \in 1 .. k
        BY <2>1 DEF Places
      <4>2. \A p \in 1 .. Len(kept) + 1 : p # Len(kept) + 1 => p \in 1 .. Len(kept)
        BY <2>3
      <4>3. QED
        BY <2>2, <2>3, <4>1, <4>2
    <3> HIDE DEF to_
    <3>4. \A p \in 1 .. Len(new) : p \in 1 .. Len(kept) \/ p = Len(kept) + 1
      BY <2>3, <3>2
    <3>5. \A p \in 1 .. Len(new) : new[p] = messages[to_[p]]
      BY <2>1, <3>2, <3>3, <3>4 DEF Places
    <3>6. ASSUME NEW p \in 1 .. Len(new), NEW q \in 1 .. Len(new), p < q PROVE to_[p] < to_[q]
      <4>1. p \in 1 .. Len(kept)
        BY <2>3, <3>2, <3>6
      <4>2. CASE q \in 1 .. Len(kept)
        BY <2>1, <3>3, <3>6, <4>1, <4>2 DEF Places
      <4>3. CASE q = Len(kept) + 1
        <5>1. to_[p] \in 1 .. k /\ to_[q] = k + 1
          BY <3>3, <4>1, <4>3
        <5>2. QED
          BY <2>2, <5>1
      <4>4. QED
        BY <3>4, <4>2, <4>3
    <3>7. ASSUME NEW i \in 1 .. k + 1, InView(messages[i])
          PROVE  \E p \in 1 .. Len(new) : to_[p] = i
      <4>1. CASE i = k + 1
        <5>1. Len(kept) + 1 \in 1 .. Len(new)
          BY <2>3, <3>2
        <5>2. QED
          BY <3>3, <4>1, <5>1
      <4>2. CASE i \in 1 .. k
        <5>1. PICK p \in 1 .. Len(kept) : place[p] = i
          BY <2>1, <3>7, <4>2 DEF Places
        <5>2. p \in 1 .. Len(new) /\ to_[p] = i
          BY <2>3, <3>2, <3>3, <5>1
        <5>3. QED
          BY <5>2
      <4>3. QED
        BY <2>2, <4>1, <4>2
    <3>8. Places(k + 1, new, to_)
      BY <3>2, <3>3, <3>5, <3>6, <3>7 DEF Places
    <3>9. QED
      BY <2>2, <3>1, <3>2, <3>8
  <2>5. CASE ~ InView(n)
    <3>1. f[k + 1] = kept
      BY <2>2, <2>5 DEF AddInView
    <3>2. Places(k + 1, kept, place)
      BY <2>1, <2>2, <2>5 DEF Places
    <3>3. QED
      BY <2>2, <3>1, <3>2
  <2>6. QED
    BY <2>4, <2>5
<1>5. Len(messages) \in G
  <2> HIDE DEF G
  <2>1. 0 .. Len(messages) \subseteq G
    BY <1>1, <1>3, <1>4, Counting
  <2>2. QED
    BY <1>1, <2>1
<1>6. QED
  BY <1>5 DEF f, filteredMessages

(* What is in view is on the page, unless as many that came after it are.  *)
LEMMA InViewIsShown ==
  ASSUME PageTypeOK, NoEventTwice, NEW i \in 1 .. Len(messages), InView(messages[i])
  PROVE  ShownOrPushedOut(i)
<1> DEFINE kept == filteredMessages
           S == 1 .. Len(log)
<1>1. messages \in Seq(S) /\ Len(messages) \in Nat
  BY DEF PageTypeOK, Messages
<1>2. kept \in Seq(S)
  BY <1>1, FilterFacts
<1>3. PICK place : Places(Len(messages), kept, place)
  BY <1>1, FilterFacts
<1>4. Shown = LastOf(kept, MaxShown) /\ MaxShown \in Nat
  BY DebugPageAssumption DEF Shown, appendEvents
<1> HIDE DEF kept
<1>5. /\ Shown \in Seq(S)
      /\ Len(kept) <= MaxShown => Shown = kept
      /\ Len(kept) > MaxShown =>
            /\ Len(Shown) = MaxShown
            /\ \A q \in 1 .. MaxShown : Shown[q] = kept[Len(kept) - MaxShown + q]
  BY <1>2, <1>4, LastOfFacts
<1>6. Len(kept) \in Nat /\ DOMAIN Shown = 1 .. Len(Shown)
  BY <1>2, <1>5
<1>7. PICK p \in 1 .. Len(kept) : place[p] = i /\ kept[p] = messages[i]
  BY <1>3 DEF Places
<1>8. CASE Len(kept) <= MaxShown
  BY <1>5, <1>6, <1>7, <1>8 DEF ShownOrPushedOut, ToSet
<1>9. CASE Len(kept) > MaxShown
  <2> DEFINE d == Len(kept) - MaxShown
  <2>1. d \in Nat /\ Len(Shown) = MaxShown /\ \A q \in 1 .. MaxShown : Shown[q] = kept[d + q]
    BY <1>4, <1>5, <1>6, <1>9
  <2>2. CASE p > d
    <3>1. p - d \in 1 .. MaxShown /\ d + (p - d) = p
      BY <1>4, <1>6, <1>7, <2>2
    <3>2. Shown[p - d] = messages[i] /\ p - d \in DOMAIN Shown
      BY <1>6, <1>7, <2>1, <3>1
    <3>3. messages[i] \in ToSet(Shown)
      BY <3>2, Zenon DEF ToSet
    <3>4. QED
      BY <3>3 DEF ShownOrPushedOut
  <2>3. CASE ~ (p > d)
    <3>1. ASSUME NEW j \in 1 .. i, messages[j] \in ToSet(Shown) PROVE FALSE
      <4>1. PICK q \in 1 .. MaxShown : messages[j] = kept[d + q]
        BY <1>6, <2>1, <3>1 DEF ToSet
      <4>2. d + q \in 1 .. Len(kept) /\ p < d + q
        BY <1>4, <1>6, <1>7, <2>1, <2>3
      <4>3. /\ place[d + q] \in 1 .. Len(messages)
            /\ messages[j] = messages[place[d + q]]
            /\ i < place[d + q]
        <5> HIDE DEF d
        <5>1. QED
          BY <1>3, <1>7, <4>1, <4>2 DEF Places
      <4>4. j \in 1 .. Len(messages) /\ j # place[d + q]
        <5> DEFINE x == place[d + q]
        <5>1. x \in 1 .. Len(messages) /\ i < x /\ i \in Nat /\ j \in Nat /\ j <= i /\ 1 <= j
          BY <1>1, <4>3
        <5> HIDE DEF x
        <5>2. j \in 1 .. Len(messages) /\ j # x
          BY <1>1, <5>1
        <5>3. QED
          BY <5>2 DEF x
      <4>5. Same(messages[j], messages[place[d + q]])
        BY <4>3 DEF Same
      <4>6. QED
        BY <4>3, <4>4, <4>5 DEF NoEventTwice
    <3>2. QED
      BY <2>1, <3>1 DEF ShownOrPushedOut
  <2>4. QED
    BY <2>2, <2>3
<1>10. QED
  BY <1>4, <1>6, <1>8, <1>9

(* With the default window the page shows what it was sent in the last 15  *)
(* minutes, as far as it is at least a second old.                         *)
THEOREM PageShowsTheWindow == Spec => []SettledIsShown
<1>1. PageInv => SettledIsShown
  <2> SUFFICES ASSUME PageInv, Following, NEW i \in 1 .. Len(messages),
                      log[messages[i]].streamed_at \in asOf - Window .. asOf - Second
               PROVE  ShownOrPushedOut(i)
    BY DEF SettledIsShown
  <2>1. PageTypeOK /\ NoEventTwice /\ WindowFollows
    BY DEF PageInv
  <2>2. Second \in Nat \ {0} /\ Window \in Nat /\ asOf \in Nat
    BY <2>1, DebugPageAssumption DEF PageTypeOK
  <2>3. from = localInputValue(asOf - Window) /\ to = localInputValue(asOf)
    BY <2>1 DEF Following, WindowFollows
  <2>4. from \in Int /\ from <= asOf - Window /\ to \in Int /\ to > asOf - Second
    <3>1. asOf - Window \in Int /\ asOf \in Int
      BY <2>2
    <3>2. /\ from \in Int /\ from \in asOf - Window - Second + 1 .. asOf - Window
          /\ to \in Int /\ to \in asOf - Second + 1 .. asOf
      BY <2>3, <3>1, CutOff
    <3>3. QED
      BY <2>2, <3>2
  <2>5. /\ log[messages[i]].streamed_at \in Int
        /\ log[messages[i]].streamed_at >= from /\ log[messages[i]].streamed_at <= to
    BY <2>2, <2>4
  <2>6. InView(messages[i])
    BY <2>5 DEF InView, Following
  <2>7. QED
    BY <2>1, <2>6, InViewIsShown
<1>2. QED
  BY <1>1, PageInvariant, PTL
=============================================================================
