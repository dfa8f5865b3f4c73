------------------------ MODULE EventPipelineProofs ------------------------
(***************************************************************************)
(* Proofs about EventPipeline, for queues and ring buffers of every size   *)
(* and any number of events: no event is lost without a reason, none is    *)
(* duplicated, and the output is in the order of submission.               *)
(*                                                                         *)
(* The argument is that the stages of the pipeline, read from the output   *)
(* back to the ring buffer, are one increasing sequence.  A step appends   *)
(* the next event to it, moves a boundary between two stages, or removes a *)
(* part of it and records why.                                             *)
(***************************************************************************)
EXTENDS EventPipeline, SequenceTheorems, TLAPS

Increasing(s) == \A i, j \in 1 .. Len(s) : i < j => s[i] < s[j]

Stages == output \o Pending \o m_main_queue \o InHand \o ring
Dropped == rejected \union discarded \union unwritten

TypeInv ==
    /\ submitted \in Nat
    /\ output \in Seq(Nat) /\ ring \in Seq(Nat)
    /\ m_main_queue \in Seq(Nat) /\ m_thread_queue \in Seq(Nat)
    /\ polled \in Nat

\* The inductive invariant.
PipelineInv ==
    /\ TypeInv
    /\ Increasing(Stages)
    /\ ToSet(Stages) \union Dropped = 1 .. submitted
    /\ ToSet(Stages) \intersect Dropped = {}
    /\ m_running => discarded = {}

-----------------------------------------------------------------------------
\* Lemmas about sequences.

\* What a concatenation contains.
LEMMA ConcatToSet ==
  ASSUME NEW s \in Seq(Nat), NEW t \in Seq(Nat)
  PROVE  /\ s \o t \in Seq(Nat)
         /\ ToSet(s \o t) = ToSet(s) \union ToSet(t)
<1>1. /\ s \o t \in Seq(Nat)
      /\ Len(s \o t) = Len(s) + Len(t)
      /\ \A i \in 1 .. Len(s) + Len(t) :
           (s \o t)[i] = IF i <= Len(s) THEN s[i] ELSE t[i - Len(s)]
  BY ConcatProperties
<1>2. ASSUME NEW i \in 1 .. Len(t)
      PROVE  (s \o t)[Len(s) + i] = t[i] /\ Len(s) + i \in 1 .. Len(s \o t)
  BY <1>1
<1>3. ASSUME NEW i \in 1 .. Len(s)
      PROVE  (s \o t)[i] = s[i] /\ i \in 1 .. Len(s \o t)
  BY <1>1
<1>4. ASSUME NEW i \in 1 .. Len(s \o t)
      PROVE  (s \o t)[i] \in ToSet(s) \union ToSet(t)
  <2>1. CASE i <= Len(s)
    BY <1>1, <2>1 DEF ToSet
  <2>2. CASE i > Len(s)
    <3>1. i - Len(s) \in 1 .. Len(t) /\ (s \o t)[i] = t[i - Len(s)]
      BY <1>1, <2>2
    <3>2. QED
      BY <3>1 DEF ToSet
  <2>3. QED
    BY <2>1, <2>2, <1>1
<1>5. ToSet(s \o t) \subseteq ToSet(s) \union ToSet(t)
  BY <1>1, <1>4 DEF ToSet
<1>6. ToSet(s) \subseteq ToSet(s \o t)
  BY <1>1, <1>3 DEF ToSet
<1>7. ToSet(t) \subseteq ToSet(s \o t)
  <2> SUFFICES ASSUME NEW i \in DOMAIN t
               PROVE  t[i] \in ToSet(s \o t)
    BY Zenon DEF ToSet
  <2>1. (s \o t)[Len(s) + i] = t[i] /\ Len(s) + i \in DOMAIN (s \o t)
    BY <1>1, <1>2
  <2>2. QED
    BY <2>1 DEF ToSet
<1>8. QED
  BY <1>1, <1>5, <1>6, <1>7

\* An increasing sequence has no element twice.
LEMMA IncreasingIsInjective ==
  ASSUME NEW s \in Seq(Nat), Increasing(s)
  PROVE  IsInjective(s)
BY DEF Increasing, IsInjective

\* Parts of an increasing sequence are increasing, and what comes later is
\* larger.
LEMMA IncreasingParts ==
  ASSUME NEW s \in Seq(Nat), NEW t \in Seq(Nat)
  PROVE  Increasing(s \o t) <=>
           /\ Increasing(s) /\ Increasing(t)
           /\ \A x \in ToSet(s), y \in ToSet(t) : x < y
<1>1. /\ s \o t \in Seq(Nat)
      /\ Len(s \o t) = Len(s) + Len(t)
      /\ \A i \in 1 .. Len(s) : (s \o t)[i] = s[i]
      /\ \A i \in 1 .. Len(t) : (s \o t)[Len(s) + i] = t[i]
  BY ConcatProperties
<1>2. ASSUME Increasing(s \o t)
      PROVE  /\ Increasing(s) /\ Increasing(t)
             /\ \A x \in ToSet(s), y \in ToSet(t) : x < y
  <2>1. ASSUME NEW i \in 1 .. Len(s), NEW j \in 1 .. Len(s), i < j
        PROVE  s[i] < s[j]
    <3>1. i \in 1 .. Len(s \o t) /\ j \in 1 .. Len(s \o t)
      BY <1>1
    <3>2. QED
      BY <1>1, <1>2, <2>1, <3>1 DEF Increasing
  <2>2. ASSUME NEW i \in 1 .. Len(t), NEW j \in 1 .. Len(t), i < j
        PROVE  t[i] < t[j]
    <3>1. Len(s) + i \in 1 .. Len(s \o t) /\ Len(s) + j \in 1 .. Len(s \o t) /\ Len(s) + i < Len(s) + j
      BY <1>1, <2>2
    <3>2. QED
      BY <1>1, <1>2, <3>1 DEF Increasing
  <2>3. ASSUME NEW i \in 1 .. Len(s), NEW j \in 1 .. Len(t)
        PROVE  s[i] < t[j]
    <3>1. i \in 1 .. Len(s \o t) /\ Len(s) + j \in 1 .. Len(s \o t) /\ i < Len(s) + j
      BY <1>1
    <3>2. QED
      BY <1>1, <1>2, <3>1 DEF Increasing
  <2>4. QED
    BY <2>1, <2>2, <2>3 DEF Increasing, ToSet
<1>3. ASSUME Increasing(s), Increasing(t), \A x \in ToSet(s), y \in ToSet(t) : x < y
      PROVE  Increasing(s \o t)
  <2> SUFFICES ASSUME NEW i \in 1 .. Len(s \o t), NEW j \in 1 .. Len(s \o t), i < j
               PROVE  (s \o t)[i] < (s \o t)[j]
    BY DEF Increasing
  <2>1. CASE j <= Len(s)
    BY <1>1, <1>3, <2>1 DEF Increasing
  <2>2. CASE i <= Len(s) /\ j > Len(s)
    <3>1. j - Len(s) \in 1 .. Len(t) /\ Len(s) + (j - Len(s)) = j
      BY <1>1, <2>2
    <3>2. (s \o t)[i] = s[i] /\ (s \o t)[j] = t[j - Len(s)]
      BY <1>1, <2>2, <3>1
    <3>3. QED
      BY <1>3, <2>2, <3>1, <3>2 DEF ToSet
  <2>3. CASE i > Len(s)
    <3>1. /\ j - Len(s) \in 1 .. Len(t) /\ Len(s) + (j - Len(s)) = j
          /\ i - Len(s) \in 1 .. Len(t) /\ Len(s) + (i - Len(s)) = i
      BY <1>1, <2>3
    <3>2. (s \o t)[i] = t[i - Len(s)] /\ (s \o t)[j] = t[j - Len(s)]
      BY <1>1, <3>1
    <3>3. i - Len(s) < j - Len(s)
      BY <1>1, <2>3
    <3>4. t[i - Len(s)] < t[j - Len(s)]
      BY <1>3, <3>1, <3>3 DEF Increasing
    <3>5. QED
      BY <3>2, <3>4
  <2>4. Len(s) \in Nat /\ i \in Nat /\ j \in Nat
    BY <1>1
  <2>5. j <= Len(s) \/ (i <= Len(s) /\ j > Len(s)) \/ i > Len(s)
    BY <2>4
  <2>6. QED
    BY <2>1, <2>2, <2>3, <2>5
<1>4. QED
  BY <1>2, <1>3

\* Removing a part from the middle of an increasing sequence leaves an
\* increasing sequence of all the other elements.
LEMMA Removal ==
  ASSUME NEW a \in Seq(Nat), NEW b \in Seq(Nat), NEW c \in Seq(Nat),
         Increasing(a \o b \o c)
  PROVE  /\ Increasing(a \o c)
         /\ ToSet(a \o b \o c) = ToSet(a \o c) \union ToSet(b)
         /\ ToSet(a \o c) \intersect ToSet(b) = {}
<1>1. a \o b \in Seq(Nat) /\ ToSet(a \o b) = ToSet(a) \union ToSet(b)
  BY ConcatToSet
<1>2. ToSet(a \o b \o c) = ToSet(a \o b) \union ToSet(c)
  BY <1>1, ConcatToSet
<1>3. ToSet(a \o c) = ToSet(a) \union ToSet(c)
  BY ConcatToSet
<1>4. Increasing(a \o b) /\ Increasing(c)
      /\ \A x \in ToSet(a \o b), y \in ToSet(c) : x < y
  BY <1>1, IncreasingParts
<1>5. Increasing(a) /\ Increasing(b) /\ \A x \in ToSet(a), y \in ToSet(b) : x < y
  BY <1>4, IncreasingParts
<1>6. Increasing(a \o c)
  BY <1>1, <1>4, <1>5, IncreasingParts
<1>7. ToSet(a) \subseteq Nat /\ ToSet(b) \subseteq Nat /\ ToSet(c) \subseteq Nat
  BY DEF ToSet
<1>8. ASSUME NEW x \in ToSet(a) \union ToSet(c), x \in ToSet(b)
      PROVE  FALSE
  <2>1. x < x
    BY <1>1, <1>4, <1>5, <1>8
  <2>2. QED
    BY <1>7, <1>8, <2>1
<1>9. QED
  BY <1>1, <1>2, <1>3, <1>6, <1>8

-----------------------------------------------------------------------------
\* What a step does to the stages.

LEMMA StagesType ==
  ASSUME TypeInv
  PROVE  /\ Pending \in Seq(Nat) /\ InHand \in Seq(Nat) /\ Stages \in Seq(Nat)
         /\ output \o Pending \in Seq(Nat)
         /\ output \o Pending \o m_main_queue \in Seq(Nat)
         /\ output \o Pending \o m_main_queue \o InHand \in Seq(Nat)
<1>1. Pending \in Seq(Nat) /\ InHand \in Seq(Nat)
  BY DEF TypeInv, Pending, InHand
<1>2. output \o Pending \in Seq(Nat)
  BY <1>1, ConcatToSet DEF TypeInv
<1>3. output \o Pending \o m_main_queue \in Seq(Nat)
  BY <1>2, ConcatToSet DEF TypeInv
<1>4. output \o Pending \o m_main_queue \o InHand \in Seq(Nat)
  BY <1>1, <1>3, ConcatToSet
<1>5. Stages \in Seq(Nat)
  BY <1>4, ConcatToSet DEF TypeInv, Stages
<1>6. QED
  BY <1>1, <1>2, <1>3, <1>4, <1>5

\* A write gets some part of the batch out, from its beginning.
LEMMA BulkWriteCount ==
  ASSUME TypeInv, efficientBulkWrite
  PROVE  \E n \in 0 .. Len(m_thread_queue) :
           /\ output' = output \o SubSeq(m_thread_queue, 1, n)
           /\ unwritten' = unwritten \union
                ToSet(SubSeq(m_thread_queue, n + 1, Len(m_thread_queue)))
<1>1. Len(m_thread_queue) \in 0 .. Len(m_thread_queue)
  BY DEF TypeInv
<1>2. (IF WriteErrors THEN 0 .. Len(m_thread_queue) ELSE {Len(m_thread_queue)})
        \subseteq 0 .. Len(m_thread_queue)
  BY <1>1
<1>3. QED
  BY <1>2, Zenon DEF efficientBulkWrite

LEMMA TypeStep ==
  ASSUME TypeInv, [Next]_vars
  PROVE  TypeInv'
<1> USE DEF TypeInv
<1>1. CASE submit_event
  BY <1>1 DEF submit_event, handler, fates
<1>2. CASE signalHandler
  BY <1>2 DEF signalHandler, handler, fates
<1>3. CASE Poller
  <2>1. CASE ringbufferWorker \/ PollReturns
    BY <2>1 DEF ringbufferWorker, PollReturns, fates
  <2>2. CASE eventReceivedCallback
    <3>1. Head(ring) \in Nat /\ Tail(ring) \in Seq(Nat)
      BY <2>2, HeadTailProperties DEF eventReceivedCallback
    <3>2. QED
      BY <2>2, <3>1 DEF eventReceivedCallback
  <2>3. CASE Push
    <3>1. Append(m_main_queue, polled) \in Seq(Nat)
      BY AppendProperties
    <3>2. QED
      BY <2>3, <3>1 DEF Push
  <2>4. QED
    BY <1>3, <2>1, <2>2, <2>3 DEF Poller
<1>4. CASE consumerWorker \/ Swap \/ Drain \/ BatchDone
  <2>1. <<>> \in Seq(Nat)
    BY EmptySeq
  <2>2. QED
    BY <1>4, <2>1 DEF consumerWorker, Swap, Drain, SwapAnd, BatchDone, fates
<1>5. CASE efficientBulkWrite
  <2>1. PICK n \in 0 .. Len(m_thread_queue) : output' = output \o SubSeq(m_thread_queue, 1, n)
    BY <1>5, BulkWriteCount
  <2>2. SubSeq(m_thread_queue, 1, n) \in Seq(Nat)
    BY SubSeqProperties
  <2>3. output' \in Seq(Nat)
    BY <2>1, <2>2, ConcatToSet
  <2>4. QED
    BY <1>5, <2>3 DEF efficientBulkWrite
<1>6. CASE distributeMessages
  BY <1>6 DEF distributeMessages, fates
<1>7. CASE AsyncWorker
  BY <1>7 DEF AsyncWorker, WorkerLocks, workerLoop, WorkerBlocks, processItem, Worker, handler, fates
<1>8. CASE MainThread
  BY <1>8 DEF MainThread, waitForExitSignal, bpfDetach, destroy, JoinPoller, JoinConsumer,
              stop, JoinWorker, handler, fates
<1>9. CASE UNCHANGED vars
  BY <1>9 DEF vars, handler, fates
<1>10. QED
  BY <1>1, <1>2, <1>3, <1>4, <1>5, <1>6, <1>7, <1>8, <1>9 DEF Next, Consumer

\* A step that leaves all of the pipeline in its order.
Kept == Stages' = Stages /\ Dropped' = Dropped /\ submitted' = submitted

\* A step that drops a part of it.
Cut ==
    \E a, b, c \in Seq(Nat) :
        /\ Stages = a \o b \o c /\ Stages' = a \o c
        /\ Dropped' = Dropped \union ToSet(b) /\ submitted' = submitted

LEMMA Associative ==
  \A s, t, u \in Seq(Nat) : (s \o t) \o u = s \o (t \o u)
<1> SUFFICES ASSUME NEW s \in Seq(Nat), NEW t \in Seq(Nat), NEW u \in Seq(Nat)
             PROVE  (s \o t) \o u = s \o (t \o u)
  OBVIOUS
<1>1. QED
  OBVIOUS

\* A sequence is what comes up to a position and what comes after it.
LEMMA SplitAt ==
  ASSUME NEW s \in Seq(Nat), NEW n \in 0 .. Len(s)
  PROVE  /\ SubSeq(s, 1, n) \in Seq(Nat) /\ SubSeq(s, n + 1, Len(s)) \in Seq(Nat)
         /\ SubSeq(s, 1, n) \o SubSeq(s, n + 1, Len(s)) = s
<1> DEFINE l == SubSeq(s, 1, n)
           r == SubSeq(s, n + 1, Len(s))
<1>1. l \in Seq(Nat) /\ Len(l) = n /\ \A i \in 1 .. n : l[i] = s[i]
  BY SubSeqProperties
<1>2. r \in Seq(Nat) /\ Len(r) = Len(s) - n /\ \A i \in 1 .. Len(s) - n : r[i] = s[n + i]
  BY SubSeqProperties
<1> HIDE DEF l, r
<1>3. /\ l \o r \in Seq(Nat) /\ Len(l \o r) = Len(s)
      /\ \A i \in 1 .. Len(s) : (l \o r)[i] = IF i <= n THEN l[i] ELSE r[i - n]
  BY <1>1, <1>2, ConcatProperties
<1>4. \A i \in 1 .. Len(s) : (l \o r)[i] = s[i]
  BY <1>1, <1>2, <1>3
<1>5. l \o r = s
  BY <1>3, <1>4, SeqEqual
<1>6. QED
  BY <1>1, <1>2, <1>5 DEF l, r

LEMMA HeadFirst ==
  ASSUME NEW s \in Seq(Nat), s # <<>>
  PROVE  Head(s) \in Nat /\ Tail(s) \in Seq(Nat) /\ s = <<Head(s)>> \o Tail(s)
<1>1. /\ Head(s) \in Nat /\ Tail(s) \in Seq(Nat) /\ Len(Tail(s)) = Len(s) - 1
      /\ \A i \in 1 .. Len(Tail(s)) : Tail(s)[i] = s[i + 1]
  BY HeadTailProperties
<1>2. <<Head(s)>> \in Seq(Nat) /\ Len(<<Head(s)>>) = 1 /\ <<Head(s)>>[1] = Head(s)
  BY <1>1
<1>3. /\ <<Head(s)>> \o Tail(s) \in Seq(Nat)
      /\ Len(<<Head(s)>> \o Tail(s)) = 1 + Len(Tail(s))
      /\ \A i \in 1 .. 1 + Len(Tail(s)) :
           (<<Head(s)>> \o Tail(s))[i] = IF i <= 1 THEN <<Head(s)>>[i] ELSE Tail(s)[i - 1]
  BY <1>1, <1>2, ConcatProperties
<1>4. Len(s) \in Nat /\ Len(s) = 1 + Len(Tail(s)) /\ Head(s) = s[1]
  BY <1>1
<1>5. ASSUME NEW i \in 1 .. Len(s)
      PROVE  s[i] = (<<Head(s)>> \o Tail(s))[i]
  BY <1>1, <1>2, <1>3, <1>4
<1>6. QED
  BY <1>1, <1>3, <1>4, <1>5, SeqEqual

LEMMA CallbackStep ==
  ASSUME TypeInv, eventReceivedCallback
  PROVE  IF m_running THEN Kept ELSE Cut
<1> DEFINE X == output \o Pending \o m_main_queue
           h == <<Head(ring)>>
           r == Tail(ring)
<1>1. X \in Seq(Nat) /\ X' = X /\ InHand = <<>>
  BY StagesType DEF eventReceivedCallback, Pending, InHand
<1>2. h \in Seq(Nat) /\ r \in Seq(Nat) /\ ring = h \o r /\ ring' = r /\ ring \in Seq(Nat)
  BY HeadFirst DEF eventReceivedCallback, TypeInv
<1>3. X \o <<>> = X
  BY <1>1, ConcatEmptySeq
<1>4. Stages = (X \o h) \o r
  <2>1. Stages = X \o (h \o r)
    BY <1>1, <1>2, <1>3 DEF Stages
  <2>2. QED
    BY <1>1, <1>2, <2>1, Associative
<1>5. CASE m_running
  <2>1. InHand' = h
    BY <1>5 DEF InHand, eventReceivedCallback
  <2>2. Stages' = (X \o h) \o r
    BY <1>1, <1>2, <2>1 DEF Stages
  <2>3. QED
    BY <1>4, <1>5, <2>2 DEF Kept, eventReceivedCallback, Dropped
<1>6. CASE ~m_running
  <2>1. InHand' = <<>>
    BY <1>6 DEF InHand, eventReceivedCallback
  <2>2. Stages' = X \o r
    BY <1>1, <1>2, <1>3, <2>1 DEF Stages
  <2>3. ToSet(h) = {Head(ring)}
    BY <1>2 DEF ToSet
  <2>4. Dropped' = Dropped \union ToSet(h) /\ submitted' = submitted
    BY <1>6, <2>3 DEF eventReceivedCallback, Dropped
  <2>5. QED
    BY <1>1, <1>2, <1>4, <1>6, <2>2, <2>4 DEF Cut
<1>7. QED
  BY <1>5, <1>6

LEMMA PushStep ==
  ASSUME TypeInv, Push
  PROVE  Kept \/ Cut
<1> DEFINE P == output \o Pending
           X == P \o m_main_queue
           h == <<polled>>
<1>1. /\ P \in Seq(Nat) /\ X \in Seq(Nat) /\ h \in Seq(Nat) /\ polled \in Nat
      /\ P' = P /\ ring' = ring /\ InHand = h /\ InHand' = <<>>
      /\ ring \in Seq(Nat) /\ m_main_queue \in Seq(Nat)
  BY StagesType DEF Push, Pending, InHand, TypeInv
<1>2. Stages = (X \o h) \o ring
  BY <1>1 DEF Stages
<1>3. CASE Len(m_main_queue) >= MaxQueue
  <2>1. Stages' = (X \o <<>>) \o ring
    BY <1>1, <1>3 DEF Stages, Push
  <2>2. Stages' = X \o ring
    BY <1>1, <2>1, ConcatEmptySeq
  <2>3. ToSet(h) = {polled}
    BY <1>1 DEF ToSet
  <2>4. Dropped' = Dropped \union ToSet(h) /\ submitted' = submitted
    BY <1>3, <2>3 DEF Push, Dropped
  <2>5. QED
    BY <1>1, <1>2, <2>2, <2>4 DEF Cut
<1>4. CASE ~(Len(m_main_queue) >= MaxQueue)
  <2>1. m_main_queue' = m_main_queue \o h
    BY <1>1, <1>4, AppendIsConcat DEF Push
  <2>2. P \o (m_main_queue \o h) = X \o h
    BY <1>1, Associative
  <2>3. X \o h \in Seq(Nat)
    BY <1>1, ConcatToSet
  <2>4. (X \o h) \o <<>> = X \o h
    BY <2>3, ConcatEmptySeq
  <2>5. Stages' = (X \o h) \o ring
    BY <1>1, <2>1, <2>2, <2>4 DEF Stages
  <2>6. QED
    BY <1>2, <1>4, <2>5 DEF Kept, Push, Dropped
<1>5. QED
  BY <1>3, <1>4

LEMMA SwapStep ==
  ASSUME TypeInv, Swap \/ Drain
  PROVE  Kept
<1>1. Pending = <<>> /\ Pending' = m_main_queue /\ m_main_queue' = <<>>
  BY DEF Swap, Drain, SwapAnd, Pending
<1>2. output' = output /\ InHand' = InHand /\ ring' = ring
  BY DEF Swap, Drain, SwapAnd, InHand, fates
<1>3. output \o <<>> = output
  BY ConcatEmptySeq DEF TypeInv
<1>4. output \o m_main_queue \in Seq(Nat)
  BY ConcatToSet DEF TypeInv
<1>5. (output \o m_main_queue) \o <<>> = output \o m_main_queue
  BY <1>4, ConcatEmptySeq
<1>6. Stages' = Stages
  BY <1>1, <1>2, <1>3, <1>5 DEF Stages
<1>7. QED
  BY <1>6 DEF Kept, Swap, Drain, SwapAnd, Dropped, fates

LEMMA WriteStep ==
  ASSUME TypeInv, efficientBulkWrite
  PROVE  Cut
<1> DEFINE T == m_thread_queue
           c == (m_main_queue \o InHand) \o ring
<1>1. PICK n \in 0 .. Len(T) :
        /\ output' = output \o SubSeq(T, 1, n)
        /\ unwritten' = unwritten \union ToSet(SubSeq(T, n + 1, Len(T)))
  BY BulkWriteCount
<1> DEFINE s1 == SubSeq(T, 1, n)
           s2 == SubSeq(T, n + 1, Len(T))
<1>2. T \in Seq(Nat)
  BY DEF TypeInv
<1>3. s1 \in Seq(Nat) /\ s2 \in Seq(Nat) /\ s1 \o s2 = T
  BY <1>2, SplitAt
<1> HIDE DEF s1, s2, c
<1>4. /\ Pending = T /\ Pending' = <<>> /\ InHand' = InHand /\ ring' = ring
      /\ m_main_queue' = m_main_queue /\ submitted' = submitted
      /\ rejected' = rejected /\ discarded' = discarded
  BY DEF efficientBulkWrite, Pending, InHand
<1>5. InHand \in Seq(Nat) /\ ring \in Seq(Nat) /\ m_main_queue \in Seq(Nat) /\ output \in Seq(Nat)
      /\ T \in Seq(Nat)
  BY StagesType DEF TypeInv
<1>6. ASSUME NEW s \in Seq(Nat)
      PROVE  ((s \o m_main_queue) \o InHand) \o ring = s \o c
  <2>1. s \o m_main_queue \in Seq(Nat) /\ m_main_queue \o InHand \in Seq(Nat)
    BY <1>5, ConcatToSet
  <2>2. (s \o m_main_queue) \o InHand = s \o (m_main_queue \o InHand)
    BY <1>5, Associative
  <2>3. (s \o (m_main_queue \o InHand)) \o ring = s \o ((m_main_queue \o InHand) \o ring)
    BY <1>5, <2>1, Associative, Zenon
  <2>4. QED
    BY <2>2, <2>3, Zenon DEF c
<1>7. output \o T \in Seq(Nat) /\ output \o s1 \in Seq(Nat) /\ c \in Seq(Nat)
  <2>1. m_main_queue \o InHand \in Seq(Nat)
    BY <1>5, ConcatToSet
  <2>2. QED
    BY <1>3, <1>5, <2>1, ConcatToSet DEF c
<1>8. Stages = (output \o T) \o c
  BY <1>4, <1>6, <1>7 DEF Stages
<1>9. output \o T = (output \o s1) \o s2
  <2>1. output \in Seq(Nat) /\ s1 \in Seq(Nat) /\ s2 \in Seq(Nat)
    BY <1>3, <1>5
  <2> HIDE DEF T
  <2>2. (output \o s1) \o s2 = output \o (s1 \o s2)
    BY <2>1, Associative
  <2>3. QED
    BY <1>3, <2>2, Zenon
<1>10. Stages' = (output \o s1) \o c
  <2>1. (output \o s1) \o <<>> = output \o s1
    BY <1>7, ConcatEmptySeq
  <2>2. Stages' = (((output \o s1) \o m_main_queue) \o InHand) \o ring
    BY <1>1, <1>4, <2>1 DEF Stages, s1
  <2>3. QED
    BY <1>6, <1>7, <2>2
<1>11. Dropped' = Dropped \union ToSet(s2)
  BY <1>1, <1>4 DEF Dropped, s2
<1>12. QED
  BY <1>3, <1>4, <1>7, <1>8, <1>9, <1>10, <1>11 DEF Cut

\* A hook's event goes to the end of the pipeline.
LEMMA SubmitStep ==
  ASSUME TypeInv, submit_event
  PROVE  /\ submitted' = submitted + 1 /\ Dropped' = Dropped
         /\ Stages' = Stages \o <<submitted + 1>>
<1> DEFINE X == ((output \o Pending) \o m_main_queue) \o InHand
           e == <<submitted + 1>>
<1>1. X \in Seq(Nat) /\ e \in Seq(Nat) /\ ring \in Seq(Nat)
  BY StagesType DEF TypeInv
<1>2. X' = X
  BY DEF submit_event, handler, fates, Pending, InHand
<1>3. ring' = ring \o e
  BY AppendIsConcat DEF submit_event, TypeInv
<1>4. Stages = X \o ring /\ Stages' = X \o (ring \o e)
  BY <1>2, <1>3 DEF Stages
<1>5. (X \o ring) \o e = X \o (ring \o e)
  BY <1>1, Associative, Zenon
<1>6. QED
  BY <1>4, <1>5 DEF submit_event, Dropped, fates

\* Every step is of one of the three kinds.
LEMMA StepKinds ==
  ASSUME TypeInv, [Next]_vars
  PROVE  submit_event \/ Kept \/ Cut
<1>1. CASE signalHandler
  BY <1>1 DEF signalHandler, handler, fates, Kept, Stages, Dropped, Pending, InHand
<1>2. CASE Poller
  <2>1. CASE ringbufferWorker \/ PollReturns
    BY <2>1 DEF ringbufferWorker, PollReturns, fates, Kept, Stages, Dropped, Pending, InHand
  <2>2. QED
    BY <1>2, <2>1, CallbackStep, PushStep DEF Poller
<1>3. CASE Consumer
  <2>1. CASE consumerWorker \/ distributeMessages \/ BatchDone
    BY <2>1 DEF consumerWorker, distributeMessages, BatchDone, fates, Kept, Stages, Dropped,
                Pending, InHand
  <2>2. QED
    BY <1>3, <2>1, SwapStep, WriteStep DEF Consumer
<1>4. CASE AsyncWorker
  BY <1>4 DEF AsyncWorker, WorkerLocks, workerLoop, WorkerBlocks, processItem, Worker,
              handler, fates, Kept, Stages, Dropped, Pending, InHand
<1>5. CASE MainThread
  BY <1>5 DEF MainThread, waitForExitSignal, bpfDetach, destroy, JoinPoller, JoinConsumer,
              stop, JoinWorker, handler, fates, Kept, Stages, Dropped, Pending, InHand
<1>6. CASE UNCHANGED vars
  BY <1>6 DEF vars, handler, fates, Kept, Stages, Dropped, Pending, InHand
<1>7. QED
  BY <1>1, <1>2, <1>3, <1>4, <1>5, <1>6 DEF Next

\* Nothing is discarded while the handler runs.
LEMMA DiscardStep ==
  ASSUME m_running => discarded = {}, [Next]_vars
  PROVE  m_running' => discarded' = {}
BY DEF Next, vars, submit_event, signalHandler, Poller, ringbufferWorker, PollReturns,
       eventReceivedCallback, Push, Consumer, consumerWorker, Swap, Drain, SwapAnd,
       efficientBulkWrite, distributeMessages, BatchDone, AsyncWorker, WorkerLocks, workerLoop,
       WorkerBlocks, processItem, Worker, MainThread, waitForExitSignal, bpfDetach, destroy,
       JoinPoller, JoinConsumer, stop, JoinWorker, handler, fates, async

LEMMA PipelineStep ==
  ASSUME PipelineInv, [Next]_vars
  PROVE  PipelineInv'
<1>1. TypeInv' /\ (m_running' => discarded' = {})
  BY TypeStep, DiscardStep DEF PipelineInv
<1>2. TypeInv /\ Stages \in Seq(Nat) /\ submitted \in Nat
  BY StagesType DEF PipelineInv, TypeInv
<1>3. CASE submit_event
  <2> DEFINE e == <<submitted + 1>>
  <2>1. e \in Seq(Nat) /\ ToSet(e) = {submitted + 1} /\ Increasing(e)
    BY <1>2 DEF ToSet, Increasing
  <2>2. submitted' = submitted + 1 /\ Dropped' = Dropped /\ Stages' = Stages \o e
    BY <1>2, <1>3, SubmitStep
  <2> HIDE DEF e
  <2>3. ToSet(Stages') = ToSet(Stages) \union {submitted + 1}
    BY <1>2, <2>1, <2>2, ConcatToSet
  <2>4. \A x \in ToSet(Stages), y \in ToSet(e) : x < y
    BY <1>2, <2>1 DEF PipelineInv
  <2>5. Increasing(Stages')
    BY <1>2, <2>1, <2>2, <2>4, IncreasingParts DEF PipelineInv
  <2>6. ToSet(Stages') \union Dropped' = 1 .. submitted'
    BY <1>2, <2>2, <2>3 DEF PipelineInv
  <2>7. ToSet(Stages') \intersect Dropped' = {}
    BY <1>2, <2>2, <2>3 DEF PipelineInv
  <2>8. QED
    BY <1>1, <2>5, <2>6, <2>7 DEF PipelineInv, ToSet, Increasing
<1>4. CASE Kept
  BY <1>1, <1>4 DEF Kept, PipelineInv, Increasing, ToSet
<1>5. CASE Cut
  <2>1. PICK a, b, c \in Seq(Nat) :
          /\ Stages = a \o b \o c /\ Stages' = a \o c
          /\ Dropped' = Dropped \union ToSet(b) /\ submitted' = submitted
    BY <1>5 DEF Cut
  <2>2. /\ Increasing(a \o c)
        /\ ToSet(a \o b \o c) = ToSet(a \o c) \union ToSet(b)
        /\ ToSet(a \o c) \intersect ToSet(b) = {}
    BY <2>1, Removal DEF PipelineInv
  <2>3. ToSet(Stages') \union Dropped' = 1 .. submitted'
    BY <2>1, <2>2 DEF PipelineInv
  <2>4. ToSet(Stages') \intersect Dropped' = {}
    BY <2>1, <2>2 DEF PipelineInv
  <2>5. QED
    BY <1>1, <2>1, <2>2, <2>3, <2>4 DEF PipelineInv, ToSet, Increasing
<1>6. QED
  BY <1>2, <1>3, <1>4, <1>5, StepKinds

LEMMA PipelineCorrect == Spec => []PipelineInv
<1>1. Init => PipelineInv
  BY DEF Init, PipelineInv, TypeInv, Increasing, Stages, Pending, InHand, Dropped, ToSet
<1>2. PipelineInv /\ [Next]_vars => PipelineInv'
  BY PipelineStep
<1>3. QED
  BY <1>1, <1>2, PTL DEF Spec

-----------------------------------------------------------------------------
\* Every event that a hook submitted is in exactly one stage of the pipeline
\* or was dropped for a stated reason, and none is in it twice: through the
\* bounded queue, the swaps of the consumer, failing writes and the shutdown.
THEOREM AccountingCorrect == Spec => []AccountedFor
<1>1. PipelineInv => AccountedFor
  <2> SUFFICES ASSUME PipelineInv PROVE AccountedFor
    OBVIOUS
  <2>1. Stages \in Seq(Nat) /\ IsInjective(Stages)
    BY StagesType, IncreasingIsInjective DEF PipelineInv
  <2>2. QED
    BY <2>1 DEF AccountedFor, PipelineInv, Stages, Dropped
<1>2. QED
  BY <1>1, PipelineCorrect, PTL

\* What a write adds is newer than what was written, in order, and was
\* submitted.
LEMMA WriteIsOrdered ==
  ASSUME PipelineInv, efficientBulkWrite, output' # output
  PROVE  Abstract!Write
<1>1. TypeInv /\ output \in Seq(Nat) /\ output' \in Seq(Nat) /\ m_thread_queue \in Seq(Nat)
  <2>1. [Next]_vars
    BY DEF Next, Consumer
  <2>2. QED
    BY <2>1, TypeStep DEF PipelineInv, TypeInv
<1>2. PICK n \in 0 .. Len(m_thread_queue) : output' = output \o SubSeq(m_thread_queue, 1, n)
  BY <1>1, BulkWriteCount
<1> DEFINE t == SubSeq(m_thread_queue, 1, n)
<1>3. t \in Seq(Nat) /\ output' = output \o t
  BY <1>1, <1>2, SplitAt
<1> HIDE DEF t
<1>4. t # <<>>
  BY <1>1, <1>3, ConcatEmptySeq
<1>5. Len(t) \in Nat /\ Len(t) >= 1 /\ Len(output) \in Nat
  BY <1>1, <1>3, <1>4, EmptySeq
<1>6. /\ Len(output') = Len(output) + Len(t)
      /\ \A i \in 1 .. Len(output) : output'[i] = output[i]
      /\ \A i \in 1 .. Len(t) : output'[Len(output) + i] = t[i]
  BY <1>1, <1>3, ConcatProperties
<1>7. Increasing(output') /\ \A i \in 1 .. Len(output') : output'[i] <= submitted
  <2>1. PipelineInv'
    <3>1. [Next]_vars
      BY DEF Next, Consumer
    <3>2. QED
      BY <3>1, PipelineStep
  <2>2. submitted' = submitted
    BY DEF efficientBulkWrite
  <2>3. TypeInv'
    BY <2>1 DEF PipelineInv
  <2>4. Pending' = <<>> /\ output' \o <<>> = output'
    <3>1. Pending' = <<>>
      BY DEF efficientBulkWrite, Pending
    <3>2. QED
      BY <1>1, <3>1, ConcatEmptySeq
  <2> DEFINE rest == (m_main_queue' \o InHand') \o ring'
  <2>5. /\ m_main_queue' \in Seq(Nat) /\ InHand' \in Seq(Nat) /\ ring' \in Seq(Nat)
        /\ m_main_queue' \o InHand' \in Seq(Nat)
    <3>1. m_main_queue' \in Seq(Nat) /\ ring' \in Seq(Nat) /\ polled' \in Nat
      BY <2>3 DEF TypeInv
    <3>2. InHand' \in Seq(Nat)
      BY <3>1 DEF InHand
    <3>3. QED
      BY <3>1, <3>2, ConcatToSet
  <2>6. rest \in Seq(Nat)
    BY <2>5, ConcatToSet
  <2>7. Stages' = output' \o rest
    <3>1. (output' \o m_main_queue') \o InHand' = output' \o (m_main_queue' \o InHand')
      BY <1>1, <2>5, Associative
    <3>2. (output' \o (m_main_queue' \o InHand')) \o ring' = output' \o rest
      BY <1>1, <2>5, Associative
    <3>3. Stages' = ((output' \o m_main_queue') \o InHand') \o ring'
      BY <2>4 DEF Stages
    <3>4. QED
      BY <3>1, <3>2, <3>3, Zenon
  <2> HIDE DEF rest
  <2>8. Increasing(output' \o rest) /\ ToSet(output' \o rest) \subseteq 1 .. submitted
    BY <2>1, <2>2, <2>7 DEF PipelineInv, Increasing, ToSet
  <2>9. Increasing(output') /\ ToSet(output') \subseteq 1 .. submitted
    BY <1>1, <2>6, <2>8, IncreasingParts, ConcatToSet
  <2>10. ASSUME NEW i \in 1 .. Len(output')
         PROVE  output'[i] <= submitted
    <3>1. output'[i] \in 1 .. submitted
      BY <1>1, <2>9 DEF ToSet
    <3>2. QED
      BY <3>1
  <2>11. QED
    BY <2>9, <2>10
<1>8. Len(output') > Len(output) /\ output'[Len(output')] <= submitted
  BY <1>5, <1>6, <1>7
<1>9. SubSeq(output', 1, Len(output)) = output
  <2>1. /\ SubSeq(output', 1, Len(output)) \in Seq(Nat)
        /\ Len(SubSeq(output', 1, Len(output))) = Len(output)
        /\ \A i \in 1 .. Len(output) : SubSeq(output', 1, Len(output))[i] = output'[i]
    BY <1>1, <1>5, <1>6, SubSeqProperties
  <2>2. QED
    BY <1>1, <1>6, <2>1, SeqEqual
<1>10. ASSUME NEW i \in 1 .. Len(output'), NEW j \in 1 .. Len(output'), i < j
       PROVE  output'[i] < output'[j]
  BY <1>7, <1>10 DEF Increasing
<1>11. output'[Len(output) + 1] > Abstract!Newest
  <2>1. output'[Len(output) + 1] \in 1 .. submitted
    <3>1. output'[Len(output) + 1] = t[1] /\ t[1] \in Nat
      BY <1>3, <1>5, <1>6
    <3>2. ToSet(Pending) \subseteq 1 .. submitted
      <4>1. ToSet(Stages) \subseteq 1 .. submitted
        BY DEF PipelineInv
      <4>2. Pending \in Seq(Nat) /\ InHand \in Seq(Nat) /\ m_main_queue \in Seq(Nat)
            /\ ring \in Seq(Nat)
        BY <1>1, StagesType DEF TypeInv
      <4>3. ToSet(Pending) \subseteq ToSet(output \o Pending)
        BY <1>1, <4>2, ConcatToSet
      <4>4. ToSet(output \o Pending) \subseteq ToSet(output \o Pending \o m_main_queue)
        BY <1>1, <4>2, StagesType, ConcatToSet
      <4>5. ToSet(output \o Pending \o m_main_queue) \subseteq
              ToSet(output \o Pending \o m_main_queue \o InHand)
        BY <1>1, <4>2, StagesType, ConcatToSet
      <4>6. ToSet(output \o Pending \o m_main_queue \o InHand) \subseteq ToSet(Stages)
        BY <1>1, <4>2, StagesType, ConcatToSet DEF Stages
      <4>7. QED
        BY <4>1, <4>3, <4>4, <4>5, <4>6
    <3>3. t[1] \in ToSet(Pending)
      <4>1. t[1] = m_thread_queue[1] /\ 1 \in DOMAIN m_thread_queue
        BY <1>1, <1>2, <1>4, <1>5, SubSeqProperties DEF t
      <4>2. Pending = m_thread_queue
        BY DEF efficientBulkWrite, Pending
      <4>3. QED
        BY <4>1, <4>2 DEF ToSet
    <3>4. QED
      BY <3>1, <3>2, <3>3
  <2>2. CASE output = <<>>
    BY <2>1, <2>2 DEF Abstract!Newest
  <2>3. CASE output # <<>>
    <3>1. Len(output) \in 1 .. Len(output') /\ Len(output) + 1 \in 1 .. Len(output')
      BY <1>1, <1>5, <1>6, <2>3, EmptySeq
    <3>2. output'[Len(output)] < output'[Len(output) + 1]
      BY <1>5, <1>10, <3>1
    <3>3. output'[Len(output)] = output[Len(output)] /\ output[Len(output)] \in Nat
      BY <1>1, <1>6, <2>3, EmptySeq
    <3>4. QED
      BY <2>1, <2>3, <3>2, <3>3 DEF Abstract!Newest
  <2>4. QED
    BY <2>2, <2>3
<1>12. \A i \in Len(output) + 1 .. Len(output') - 1 : output'[i] < output'[i + 1]
  BY <1>5, <1>6, <1>10
<1>13. QED
  BY <1>8, <1>9, <1>11, <1>12 DEF Abstract!Write, efficientBulkWrite

\* The output is in the order of submission, each event at most once and only
\* events that were submitted: the pipeline of four threads implements the
\* specification OrderedOutput.
THEOREM OutputCorrect == Spec => OutputIsOrdered
<1>1. Init => Abstract!Init
  BY DEF Init, Abstract!Init
<1>2. PipelineInv /\ [Next]_vars => [Abstract!Submit \/ Abstract!Write]_<<submitted, output>>
  <2> SUFFICES ASSUME PipelineInv, [Next]_vars
               PROVE  Abstract!Submit \/ Abstract!Write \/ UNCHANGED <<submitted, output>>
    OBVIOUS
  <2>1. CASE submit_event
    BY <2>1 DEF submit_event, fates, Abstract!Submit
  <2>2. CASE efficientBulkWrite
    BY <2>2, WriteIsOrdered DEF efficientBulkWrite
  <2>3. CASE signalHandler \/ Poller
    BY <2>3 DEF signalHandler, Poller, ringbufferWorker, PollReturns, eventReceivedCallback,
                Push, fates
  <2>4. CASE consumerWorker \/ Swap \/ Drain \/ distributeMessages \/ BatchDone
    BY <2>4 DEF consumerWorker, Swap, Drain, SwapAnd, distributeMessages, BatchDone, fates
  <2>5. CASE AsyncWorker
    BY <2>5 DEF AsyncWorker, WorkerLocks, workerLoop, WorkerBlocks, processItem, Worker, fates
  <2>6. CASE MainThread
    BY <2>6 DEF MainThread, waitForExitSignal, bpfDetach, destroy, JoinPoller, JoinConsumer,
                stop, JoinWorker, fates
  <2>7. CASE UNCHANGED vars
    BY <2>7 DEF vars, fates
  <2>8. QED
    BY <2>1, <2>2, <2>3, <2>4, <2>5, <2>6, <2>7 DEF Next, Consumer
<1>3. QED
  BY <1>1, <1>2, PipelineCorrect, PTL DEF Spec, OutputIsOrdered, Abstract!Spec
=============================================================================
