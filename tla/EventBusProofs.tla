--------------------------- MODULE EventBusProofs ----------------------------
(***************************************************************************)
(* Theorems about EventBus, for every number of events and workers, and    *)
(* every handler, read size and bound of the stream, with their proofs.    *)
(* All of it is safety: Kept says what no step takes back, BatchMove what  *)
(* can happen to the entries a worker holds.                               *)
(***************************************************************************)
EXTENDS EventBus, FiniteSetTheorems, SequenceTheorems, TLAPS

\* A worker has a batch exactly while it is handling, and has written rows of
\* its first entry only then.
WorkerShape ==
  \A w \in Workers :
    /\ worker[w] = "handling" <=> batch[w] # <<>>
    /\ worker[w] # "handling" => workerRow[w] = 0

\* Nothing is delivered past the cursor, nor before there is a group.
CursorLeads ==
  /\ origin = NoGroup => cursor = NoGroup
  /\ \A i \in Delivered : i <= cursor

\* An event has at most one entry: it is added on the way out of "committed".
OneEntryPerEvent ==
  /\ \A i \in Entries : web[stream[i]] \in {"published", "fallback", "done", "cut"}
  /\ \A i, j \in Entries : stream[i] = stream[j] => i = j

\* An entry in a batch has been delivered, and is in no batch twice.
HeldOnce ==
  /\ \A w \in Workers : \A k \in DOMAIN batch[w] : batch[w][k] \in Delivered
  /\ \A v, w \in Workers : \A k \in DOMAIN batch[v], l \in DOMAIN batch[w] :
       batch[v][k] = batch[w][l] => v = w /\ k = l

\* A worker's count of rows written says what has been written.
WrittenSoFar ==
  \A w \in Workers : worker[w] = "handling" =>
    \A k \in 1..workerRow[w] : copies[Current(w)][k] > 0 \/ Current(w) \in failed

\* Entry i has been delivered, and whoever holds it is past its k-th row.
Reached(i, k) ==
  /\ i \in Delivered
  /\ \A w \in Workers : \A l \in DOMAIN batch[w] :
       batch[w][l] = i => l = 1 /\ k <= workerRow[w]

StreamPart(e, k) == IF \E i \in Entries : stream[i] = e /\ Reached(i, k) THEN 1 ELSE 0
WebPart(e, k) == IF FellBack(e) /\ k <= webRow[e] THEN 1 ELSE 0

\* Each copy is put down to the request or to the workers, once.
CopiesCounted ==
  \A e \in Events, k \in 1..Rows : copies[e][k] <= StreamPart(e, k) + WebPart(e, k)

-----------------------------------------------------------------------------
(***************************************************************************)
(* What one XREADGROUP delivers is a stretch of the stream that begins     *)
(* after the cursor and ends at the new one.                               *)
(***************************************************************************)
LEMMA DeliverFacts ==
  ASSUME BusTypeOK, Deliver
  PROVE  \E lo, hi \in Nat :
           /\ cursor < lo /\ 0 < lo /\ lo <= hi /\ hi <= Len(stream)
           /\ NextEntries = lo..hi
           /\ Cardinality(NextEntries) = hi - lo + 1
           /\ cursor' = hi
           /\ \A i \in Unread : lo <= i
<1> DEFINE n == Len(stream)
           lo == IF cursor < trimmed THEN trimmed + 1 ELSE cursor + 1
           hi == IF n < lo + Count - 1 THEN n ELSE lo + Count - 1
<1>1. n \in Nat /\ Entries = 1..n
  BY DEF BusTypeOK, Entries
<1>2. origin \in Nat
  BY <1>1 DEF BusTypeOK, Deliver
<1>3. cursor \in Nat /\ trimmed \in Nat /\ trimmed <= n
  BY <1>1, <1>2 DEF BusTypeOK
<1>4. lo \in Nat /\ 0 < lo /\ cursor < lo /\ Count \in Nat \ {0}
  BY <1>3, EventBusAssumption
<1>5. Unread = lo..n
  BY <1>1, <1>3 DEF Unread
<1>6. hi \in Nat /\ \A i \in Unread : lo <= i
  BY <1>1, <1>4, <1>5
<1> HIDE DEF lo
<1>7. NextEntries = lo..hi
  <2>1. \A i \in lo..n : {j \in Unread : j <= i} = lo..i
    BY <1>1, <1>4, <1>5
  <2>2. \A i \in lo..n : Cardinality(lo..i) = i - lo + 1
    BY <1>1, <1>4, FS_Interval
  <2>3. \A i \in lo..n : Cardinality({j \in Unread : j <= i}) = i - lo + 1
    BY <2>1, <2>2
  <2>4. NextEntries = {i \in lo..n : i - lo + 1 <= Count}
    BY <1>5, <2>3 DEF NextEntries
  <2> QED
    BY <1>1, <1>4, <2>4
<1> HIDE DEF hi
<1>8. lo <= hi /\ hi <= n
  <2>1. lo <= hi
    BY <1>4, <1>6, <1>7 DEF Deliver
  <2> QED
    BY <1>1, <1>4, <1>6, <2>1 DEF hi
<1>9. Cardinality(NextEntries) = hi - lo + 1
  BY <1>4, <1>6, <1>7, <1>8, FS_Interval
<1>10. cursor' = hi
  <2>1. cursor' = CHOOSE i \in lo..hi : \A j \in lo..hi : j <= i
    BY <1>7 DEF Deliver
  <2>2. hi \in lo..hi /\ \A j \in lo..hi : j <= hi
    BY <1>4, <1>6, <1>8
  <2>3. \A i \in lo..hi : (\A j \in lo..hi : j <= i) => i = hi
    BY <1>4, <1>6, <1>8
  <2> QED
    BY <2>1, <2>2, <2>3
<1> QED
  BY <1>4, <1>6, <1>7, <1>8, <1>9, <1>10

(***************************************************************************)
(* What is written stays: rows, entries, deliveries, logged failures, a    *)
(* request's falling back.                                                 *)
(***************************************************************************)
Kept ==
  /\ Entries \subseteq Entries'
  /\ \A i \in Entries : stream'[i] = stream[i]
  /\ Delivered \subseteq Delivered'
  /\ acked \subseteq acked'
  /\ failed \subseteq failed'
  /\ \A e \in Events : FellBack(e) => FellBack(e)'
  /\ \A e \in Events : webRow[e] <= webRow'[e]
  /\ \A e \in Events, k \in 1..Rows : copies[e][k] <= copies'[e][k]

LEMMA StreamGrows ==
  ASSUME BusTypeOK, NEW e \in Events, Xadd(e)
  PROVE  /\ stream' \in Seq(Events) /\ Len(stream') = Len(stream) + 1
         /\ \A i \in Entries : i \in Entries' /\ stream'[i] = stream[i]
         /\ Entries' = Entries \cup {Len(stream')}
         /\ Len(stream') \notin Entries
         /\ stream'[Len(stream')] = e
         /\ trimmed' \in 0..Len(stream')
<1>1. stream \in Seq(Events) /\ stream' = Append(stream, e) /\ Len(stream) \in Nat
  BY DEF BusTypeOK, Xadd
<1>2. Len(stream') = Len(stream) + 1
  BY <1>1
<1>3. trimmed' \in 0..Len(stream')
  BY <1>1, <1>2, EventBusAssumption DEF BusTypeOK, Xadd
<1> QED
  BY <1>1, <1>2, <1>3 DEF Entries

LEMMA WebKeeps ==
  ASSUME BusTypeOK, NEW e \in Events, WebStep(e)
  PROVE  Kept
<1> USE DEF Kept, FellBack, Delivered, Entries, webVars, redisVars, workerVars
<1>0. Rows \in Nat
  BY EventBusAssumption
<1>1. /\ web \in [Events -> WebState] /\ webRow \in [Events -> 0..Rows]
      /\ copies \in [Events -> [1..Rows -> Nat]]
  BY DEF BusTypeOK
<1>2. CASE Commit(e)
  BY <1>0, <1>1, <1>2 DEF Commit
<1>3. CASE PublishAnswered(e) \/ PublishTimesOut(e)
  <2>1. Xadd(e)
    BY <1>3 DEF PublishAnswered, PublishTimesOut
  <2> QED
    BY <1>0, <1>1, <1>3, <2>1, StreamGrows DEF PublishAnswered, PublishTimesOut, Xadd
<1>4. CASE PublishFails(e)
  BY <1>0, <1>1, <1>4 DEF PublishFails
<1>5. CASE FallbackWrites(e)
  BY <1>0, <1>1, <1>5 DEF FallbackWrites, NextRow, WriteRow
<1>6. CASE FallbackRaises(e)
  BY <1>0, <1>1, <1>6 DEF FallbackRaises, NextRow
<1>7. CASE FallbackEnds(e)
  BY <1>0, <1>1, <1>7 DEF FallbackEnds
<1>8. CASE WebDies(e)
  BY <1>0, <1>1, <1>8 DEF WebDies
<1> QED
  BY <1>2, <1>3, <1>4, <1>5, <1>6, <1>7, <1>8 DEF WebStep, Publish

LEMMA WorkerKeeps ==
  ASSUME BusTypeOK, NEW w \in Workers, WorkerStep(w)
  PROVE  Kept
<1> USE DEF Kept, FellBack, Delivered, Entries, webVars, redisVars, workerVars
<1>0. Rows \in Nat
  BY EventBusAssumption
<1>1. webRow \in [Events -> 0..Rows] /\ copies \in [Events -> [1..Rows -> Nat]]
  BY DEF BusTypeOK
<1>2. CASE StartWorker(w) \/ Signal(w) \/ StopIdle(w) \/ WorkerDies(w)
  BY <1>0, <1>1, <1>2 DEF StartWorker, Signal, StopIdle, WorkerDies
<1>3. CASE Read(w) \/ ReadAnswerLost(w)
  BY <1>0, <1>1, <1>3 DEF Read, ReadAnswerLost, Deliver
<1>4. CASE WorkerWrites(w)
  BY <1>0, <1>1, <1>4 DEF WorkerWrites, WriteRow
<1>5. CASE WorkerHandlerRaises(w)
  BY <1>0, <1>1, <1>5 DEF WorkerHandlerRaises
<1>6. CASE Ack(w)
  BY <1>0, <1>1, <1>6 DEF Ack
<1> QED
  BY <1>2, <1>3, <1>4, <1>5, <1>6 DEF WorkerStep

-----------------------------------------------------------------------------
(***************************************************************************)
(* The types.                                                              *)
(***************************************************************************)
LEMMA WebTypes ==
  ASSUME BusTypeOK, NEW e \in Events, WebStep(e)
  PROVE  BusTypeOK'
<1> USE DEF BusTypeOK, Entries, webVars, redisVars, workerVars
<1>0. Rows \in Nat
  BY EventBusAssumption
<1>1. CASE Commit(e)
  BY <1>1 DEF Commit, WebState
<1>2. CASE PublishAnswered(e) \/ PublishTimesOut(e)
  <2>1. Xadd(e)
    BY <1>2 DEF PublishAnswered, PublishTimesOut
  <2>2. /\ stream' \in Seq(Events) /\ Len(stream') = Len(stream) + 1
        /\ trimmed' \in 0..Len(stream') /\ Len(stream) \in Nat
    BY <2>1, StreamGrows
  <2>3. web' \in [Events -> WebState] /\ UNCHANGED <<webRow, workerVars, copies, failed>>
    BY <1>2 DEF PublishAnswered, PublishTimesOut, WebState
  <2>4. UNCHANGED <<origin, cursor, pending, acked>>
    BY <2>1 DEF Xadd
  <2> QED
    BY <2>2, <2>3, <2>4 DEF NoGroup
<1>3. CASE PublishFails(e)
  BY <1>3 DEF PublishFails, WebState
<1>4. CASE FallbackWrites(e)
  BY <1>0, <1>4 DEF FallbackWrites, NextRow, WriteRow
<1>5. CASE FallbackRaises(e)
  BY <1>0, <1>5 DEF FallbackRaises, NextRow
<1>6. CASE FallbackEnds(e)
  BY <1>6 DEF FallbackEnds, WebState
<1>7. CASE WebDies(e)
  BY <1>7 DEF WebDies, WebState
<1> QED
  BY <1>1, <1>2, <1>3, <1>4, <1>5, <1>6, <1>7 DEF WebStep, Publish

LEMMA HeadIsEntry ==
  ASSUME BusTypeOK, WorkerShape, HeldOnce, NEW w \in Workers, worker[w] = "handling"
  PROVE  /\ batch[w] \in Seq(Nat) /\ batch[w] # <<>> /\ Len(batch[w]) \in Nat \ {0}
         /\ 1 \in DOMAIN batch[w] /\ Head(batch[w]) = batch[w][1]
         /\ Head(batch[w]) \in Delivered /\ Head(batch[w]) \in Entries
         /\ Current(w) \in Events
<1>1. batch[w] \in Seq(Nat) /\ batch[w] # <<>>
  BY DEF BusTypeOK, WorkerShape
<1>2. Len(batch[w]) \in Nat \ {0} /\ 1 \in DOMAIN batch[w] /\ Head(batch[w]) = batch[w][1]
  BY <1>1, EmptySeq
<1>3. Head(batch[w]) \in Delivered
  BY <1>2 DEF HeldOnce
<1>4. Head(batch[w]) \in Entries
  BY <1>3 DEF BusTypeOK, Delivered
<1>5. stream[Head(batch[w])] \in Events
  BY <1>4 DEF BusTypeOK, Entries
<1> QED
  BY <1>1, <1>2, <1>3, <1>4, <1>5 DEF Current

LEMMA WorkerTypes ==
  ASSUME BusTypeOK, WorkerShape, HeldOnce, NEW w \in Workers, WorkerStep(w)
  PROVE  BusTypeOK'
<1> USE DEF BusTypeOK, Entries, webVars, redisVars, workerVars
<1>0. Rows \in Nat /\ Len(stream) \in Nat
  BY EventBusAssumption
<1>1. CASE StartWorker(w)
  <2>1. UNCHANGED <<webVars, stream, trimmed, pending, acked,
                    stopping, batch, workerRow, copies, failed>>
    BY <1>1 DEF StartWorker
  <2>2. worker' \in [Workers -> {"down", "listening", "handling"}]
    BY <1>1 DEF StartWorker
  <2>3. origin' \in {NoGroup} \cup 0..Len(stream') /\ cursor' \in origin'..Len(stream')
    <3>1. CASE origin = NoGroup
      BY <1>0, <1>1, <2>1, <3>1 DEF StartWorker
    <3>2. CASE origin # NoGroup
      BY <1>1, <2>1, <3>2 DEF StartWorker, GroupCursor
    <3> QED
      BY <3>1, <3>2
  <2> QED
    BY <2>1, <2>2, <2>3
<1>2. CASE Read(w) \/ ReadAnswerLost(w)
  <2>0. Deliver
    BY <1>2 DEF Read, ReadAnswerLost
  <2>1. PICK lo, hi \in Nat :
          /\ cursor < lo /\ 0 < lo /\ lo <= hi /\ hi <= Len(stream)
          /\ NextEntries = lo..hi
          /\ Cardinality(NextEntries) = hi - lo + 1
          /\ cursor' = hi
    BY <2>0, DeliverFacts
  <2>2. pending' = pending \cup (lo..hi) /\ UNCHANGED <<stream, trimmed, origin, acked>>
    BY <2>0, <2>1 DEF Deliver
  <2>3. pending' \cup acked' \subseteq Entries'
    BY <1>0, <2>1, <2>2
  <2>4. cursor' \in origin'..Len(stream')
    BY <1>0, <2>1, <2>2 DEF NoGroup
  <2>5. batch' \in [Workers -> Seq(Nat)] /\ worker' \in [Workers -> {"down", "listening", "handling"}]
    <3>1. CASE ReadAnswerLost(w)
      BY <3>1 DEF ReadAnswerLost
    <3>2. CASE Read(w)
      <4> DEFINE b == [k \in 1..(hi - lo + 1) |-> hi - (hi - lo + 1) + k]
      <4>1. batch' = [batch EXCEPT ![w] = b]
        BY <2>1, <3>2 DEF Read
      <4>2. b \in Seq(Nat)
        <5>1. hi - lo + 1 \in Nat
          BY <2>1
        <5>2. \A k \in 1..(hi - lo + 1) : hi - (hi - lo + 1) + k \in Nat
          BY <2>1
        <5> QED
          BY <5>1, <5>2, IsASeq
      <4> QED
        BY <3>2, <4>1, <4>2 DEF Read
    <3> QED
      BY <1>2, <3>1, <3>2
  <2>6. UNCHANGED <<webVars, stopping, workerRow, copies, failed>>
    BY <1>2 DEF Read, ReadAnswerLost
  <2> QED
    BY <2>2, <2>3, <2>4, <2>5, <2>6
<1>3. CASE WorkerWrites(w)
  <2>1. Current(w) \in Events /\ worker[w] = "handling"
    BY <1>3, HeadIsEntry DEF WorkerWrites
  <2>2. workerRow[w] \in Nat /\ workerRow[w] < Rows
    BY <1>3 DEF WorkerWrites, NextRow
  <2>3. copies' \in [Events -> [1..Rows -> Nat]]
    BY <1>0, <1>3, <2>1, <2>2 DEF WorkerWrites, WriteRow
  <2>4. workerRow' \in [Workers -> 0..Rows]
    BY <1>0, <1>3, <2>2 DEF WorkerWrites
  <2>5. UNCHANGED <<webVars, redisVars, worker, stopping, batch, failed>>
    BY <1>3 DEF WorkerWrites
  <2> QED
    BY <2>3, <2>4, <2>5
<1>4. CASE WorkerHandlerRaises(w)
  <2>1. Current(w) \in Events
    BY <1>4, HeadIsEntry DEF WorkerHandlerRaises
  <2>2. failed' \subseteq Events
    BY <1>4, <2>1 DEF WorkerHandlerRaises
  <2>3. workerRow' \in [Workers -> 0..Rows]
    BY <1>0, <1>4 DEF WorkerHandlerRaises
  <2>4. UNCHANGED <<webVars, redisVars, worker, stopping, batch, copies>>
    BY <1>4 DEF WorkerHandlerRaises
  <2> QED
    BY <2>2, <2>3, <2>4
<1>5. CASE Ack(w)
  <2>1. /\ batch[w] \in Seq(Nat) /\ batch[w] # <<>>
        /\ Head(batch[w]) \in Entries
    BY <1>5, HeadIsEntry DEF Ack
  <2>2. Tail(batch[w]) \in Seq(Nat)
    BY <2>1
  <2>3. pending' \cup acked' \subseteq Entries'
    BY <1>5, <2>1 DEF Ack
  <2>4. UNCHANGED <<webVars, stream, trimmed, origin, cursor, copies, failed>>
    BY <1>5 DEF Ack
  <2>5. /\ worker' \in [Workers -> {"down", "listening", "handling"}]
        /\ stopping' \in [Workers -> BOOLEAN]
        /\ workerRow' \in [Workers -> 0..Rows]
        /\ batch' \in [Workers -> Seq(Nat)]
    BY <1>0, <1>5, <2>2 DEF Ack
  <2> QED
    BY <2>3, <2>4, <2>5
<1>6. CASE Signal(w)
  BY <1>6 DEF Signal
<1>7. CASE StopIdle(w)
  BY <1>7 DEF StopIdle
<1>8. CASE WorkerDies(w)
  BY <1>0, <1>8 DEF WorkerDies
<1> QED
  BY <1>1, <1>2, <1>3, <1>4, <1>5, <1>6, <1>7, <1>8 DEF WorkerStep

-----------------------------------------------------------------------------
(***************************************************************************)
(* The four things that happen to a batch: it is left alone, dropped,      *)
(* relieved of its first entry, or read.                                   *)
(***************************************************************************)
BatchLeft(w) ==
  /\ batch'[w] = batch[w]
  /\ workerRow[w] <= workerRow'[w]
  /\ worker'[w] = "handling" <=> worker[w] = "handling"
  /\ worker[w] # "handling" => workerRow'[w] = 0
BatchDropped(w) == batch'[w] = <<>> /\ workerRow'[w] = 0 /\ worker'[w] # "handling"
BatchAcked(w) ==
  /\ worker[w] = "handling"
  /\ batch'[w] = Tail(batch[w])
  /\ workerRow'[w] = 0
  /\ worker'[w] = "handling" <=> Tail(batch[w]) # <<>>
BatchRead(w) ==
  /\ worker[w] # "handling" /\ worker'[w] = "handling"
  /\ workerRow'[w] = workerRow[w]
  /\ \E lo, hi \in Nat :
       /\ cursor < lo /\ lo <= hi
       /\ lo..hi \subseteq Delivered'
       /\ batch'[w] = [k \in 1..(hi - lo + 1) |-> hi - (hi - lo + 1) + k]

BatchMove(w) == BatchLeft(w) \/ BatchDropped(w) \/ BatchAcked(w) \/ BatchRead(w)

LEMMA TailFacts ==
  ASSUME NEW s \in Seq(Nat), s # <<>>
  PROVE  /\ Tail(s) # <<>> <=> Len(s) > 1
         /\ \A k \in DOMAIN Tail(s) : k + 1 \in DOMAIN s /\ k >= 1 /\ Tail(s)[k] = s[k + 1]
<1>1. Len(s) \in Nat \ {0} /\ DOMAIN s = 1..Len(s)
  BY EmptySeq
<1>2. Tail(s) \in Seq(Nat) /\ Len(Tail(s)) = Len(s) - 1 /\ DOMAIN Tail(s) = 1..(Len(s) - 1)
  BY <1>1
<1>3. Tail(s) # <<>> <=> Len(Tail(s)) # 0
  BY <1>2, EmptySeq
<1>4. \A k \in 1..(Len(s) - 1) : Tail(s)[k] = s[k + 1]
  BY <1>1
<1> QED
  BY <1>1, <1>2, <1>3, <1>4

LEMMA WebLeavesBatches ==
  ASSUME BusTypeOK, WorkerShape, NEW e \in Events, WebStep(e), NEW w \in Workers
  PROVE  BatchLeft(w)
<1>1. UNCHANGED workerVars
  BY DEF WebStep, Commit, Publish, PublishAnswered, PublishTimesOut, PublishFails,
         FallbackWrites, FallbackRaises, FallbackEnds, WebDies
<1>2. workerRow[w] \in Nat
  BY EventBusAssumption DEF BusTypeOK
<1> QED
  BY <1>1, <1>2 DEF BatchLeft, WorkerShape, workerVars

\* Only the worker that takes the step moves its batch.
LEMMA WorkerMovesBatch ==
  ASSUME BusTypeOK, WorkerShape, HeldOnce, NEW w \in Workers, WorkerStep(w)
  PROVE  /\ BatchMove(w)
         /\ \A v \in Workers \ {w} : BatchLeft(v)
<1>0. /\ worker \in [Workers -> {"down", "listening", "handling"}]
      /\ batch \in [Workers -> Seq(Nat)] /\ workerRow \in [Workers -> 0..Rows]
      /\ Rows \in Nat
      /\ \A v \in Workers : workerRow[v] \in Nat /\ workerRow[v] <= Rows
      /\ \A v \in Workers : worker[v] # "handling" => workerRow[v] = 0
      /\ \A v \in Workers : worker[v] = "handling" <=> batch[v] # <<>>
  BY EventBusAssumption DEF BusTypeOK, WorkerShape
<1> USE <1>0 DEF BatchMove, workerVars
<1>1. CASE StartWorker(w) \/ ReadAnswerLost(w) \/ Signal(w) \/ StopIdle(w)
  <2>1. UNCHANGED <<batch, workerRow>>
    BY <1>1 DEF StartWorker, ReadAnswerLost, Signal, StopIdle
  <2>2. \A v \in Workers : worker'[v] = "handling" <=> worker[v] = "handling"
    BY <1>1 DEF StartWorker, ReadAnswerLost, Signal, StopIdle
  <2> QED
    BY <2>1, <2>2 DEF BatchLeft
<1>2. CASE Read(w)
  <2>1. \A v \in Workers \ {w} : BatchLeft(v)
    BY <1>2 DEF Read, BatchLeft
  <2>2. BatchRead(w)
    <3>1. PICK lo, hi \in Nat :
            /\ cursor < lo /\ 0 < lo /\ lo <= hi /\ hi <= Len(stream)
            /\ NextEntries = lo..hi
            /\ Cardinality(NextEntries) = hi - lo + 1
            /\ cursor' = hi
      BY <1>2, DeliverFacts DEF Read
    <3>2. lo..hi \subseteq Delivered'
      BY <1>2, <3>1 DEF Read, Deliver, Delivered
    <3>3. batch'[w] = [k \in 1..(hi - lo + 1) |-> hi - (hi - lo + 1) + k]
      BY <1>2, <3>1 DEF Read
    <3>4. worker[w] # "handling" /\ worker'[w] = "handling" /\ workerRow'[w] = workerRow[w]
      BY <1>2 DEF Read
    <3> QED
      BY <3>1, <3>2, <3>3, <3>4 DEF BatchRead
  <2> QED
    BY <2>1, <2>2
<1>3. CASE WorkerWrites(w) \/ WorkerHandlerRaises(w)
  BY <1>3 DEF WorkerWrites, WorkerHandlerRaises, BatchLeft
<1>4. CASE Ack(w)
  <2>1. \A v \in Workers \ {w} : BatchLeft(v)
    BY <1>4 DEF Ack, BatchLeft
  <2>2. Len(batch[w]) > 1 <=> Tail(batch[w]) # <<>>
    BY <1>4, TailFacts DEF Ack
  <2>3. BatchAcked(w)
    BY <1>4, <2>2 DEF Ack, BatchAcked
  <2> QED
    BY <2>1, <2>3
<1>5. CASE WorkerDies(w)
  BY <1>5 DEF WorkerDies, BatchLeft, BatchDropped
<1> QED
  BY <1>1, <1>2, <1>3, <1>4, <1>5 DEF WorkerStep

LEMMA EveryBatchMoves ==
  ASSUME BusTypeOK, WorkerShape, HeldOnce, BusNext
  PROVE  /\ \A w \in Workers : BatchMove(w)
         /\ \A v, w \in Workers : v = w \/ BatchLeft(v) \/ BatchLeft(w)
<1>1. ASSUME NEW e \in Events, WebStep(e)
      PROVE  \A w \in Workers : BatchLeft(w)
  BY <1>1, WebLeavesBatches
<1>2. ASSUME NEW w \in Workers, WorkerStep(w)
      PROVE  BatchMove(w) /\ \A v \in Workers \ {w} : BatchLeft(v)
  BY <1>2, WorkerMovesBatch
<1> QED
  BY <1>1, <1>2 DEF BusNext, BatchMove

LEMMA WorkerShapeStep ==
  ASSUME BusTypeOK, WorkerShape, HeldOnce, BusNext
  PROVE  WorkerShape'
<1> SUFFICES ASSUME NEW w \in Workers
             PROVE  /\ worker'[w] = "handling" <=> batch'[w] # <<>>
                    /\ worker'[w] # "handling" => workerRow'[w] = 0
  BY DEF WorkerShape
<1>1. BatchMove(w)
  BY EveryBatchMoves
<1>2. CASE BatchLeft(w) \/ BatchDropped(w) \/ BatchAcked(w)
  BY <1>2 DEF BatchLeft, BatchDropped, BatchAcked, WorkerShape
<1>3. CASE BatchRead(w)
  <2>1. PICK lo, hi \in Nat :
          lo <= hi /\ batch'[w] = [k \in 1..(hi - lo + 1) |-> hi - (hi - lo + 1) + k]
    BY <1>3 DEF BatchRead
  <2>2. 1 \in DOMAIN batch'[w]
    BY <2>1
  <2>3. batch'[w] # <<>>
    BY <2>2, EmptySeq
  <2> QED
    BY <1>3, <2>3 DEF BatchRead
<1> QED
  BY <1>1, <1>2, <1>3 DEF BatchMove

-----------------------------------------------------------------------------
\* One lemma per part of the invariant.
LEMMA CursorLeadsStep ==
  ASSUME BusTypeOK, WorkerShape, HeldOnce, CursorLeads, BusNext
  PROVE  CursorLeads'
<1> USE DEF CursorLeads, Delivered, webVars, redisVars, workerVars
<1>0. /\ Len(stream) \in Nat /\ Delivered \subseteq 1..Len(stream)
      /\ cursor \in Int /\ origin \in Int
  BY DEF BusTypeOK, Entries, NoGroup
<1>1. ASSUME NEW e \in Events, WebStep(e)
      PROVE  CursorLeads'
  BY <1>1 DEF WebStep, Commit, Publish, PublishAnswered, PublishTimesOut, PublishFails,
         FallbackWrites, FallbackRaises, FallbackEnds, WebDies, Xadd
<1>2. ASSUME NEW w \in Workers, WorkerStep(w)
      PROVE  CursorLeads'
  <2>1. CASE StartWorker(w)
    <3>1. CASE origin = NoGroup
      <4>1. Delivered = {}
        BY <1>0, <3>1 DEF NoGroup
      <4> QED
        BY <1>0, <2>1, <3>1, <4>1 DEF StartWorker, NoGroup
    <3> QED
      BY <2>1, <3>1 DEF StartWorker, GroupCursor
  <2>2. CASE Read(w) \/ ReadAnswerLost(w)
    <3>1. Deliver
      BY <2>2 DEF Read, ReadAnswerLost
    <3>2. PICK lo, hi \in Nat :
            /\ cursor < lo /\ lo <= hi /\ NextEntries = lo..hi /\ cursor' = hi
      BY <3>1, DeliverFacts
    <3>3. Delivered' = Delivered \cup (lo..hi) /\ origin' = origin /\ origin # NoGroup
      BY <3>1, <3>2 DEF Deliver
    <3> QED
      BY <1>0, <3>2, <3>3
  <2>3. CASE Ack(w)
    <3>1. Head(batch[w]) \in Delivered
      BY <2>3, HeadIsEntry DEF Ack
    <3> QED
      BY <2>3, <3>1 DEF Ack
  <2>4. CASE \/ WorkerWrites(w) \/ WorkerHandlerRaises(w)
             \/ Signal(w) \/ StopIdle(w) \/ WorkerDies(w)
    BY <2>4 DEF WorkerWrites, WorkerHandlerRaises, Signal, StopIdle, WorkerDies
  <2> QED
    BY <1>2, <2>1, <2>2, <2>3, <2>4 DEF WorkerStep
<1> QED
  BY <1>1, <1>2 DEF BusNext

LEMMA OneEntryStep ==
  ASSUME BusTypeOK, OneEntryPerEvent, BusNext
  PROVE  OneEntryPerEvent'
<1> USE DEF OneEntryPerEvent, Entries, webVars, redisVars, workerVars
<1>0. web \in [Events -> WebState] /\ \A i \in Entries : stream[i] \in Events
  BY DEF BusTypeOK
<1>1. ASSUME NEW e \in Events, WebStep(e)
      PROVE  OneEntryPerEvent'
  <2>1. CASE PublishAnswered(e) \/ PublishTimesOut(e)
    <3>1. Xadd(e) /\ web[e] = "committed"
      BY <2>1 DEF PublishAnswered, PublishTimesOut
    <3>2. web' = [web EXCEPT ![e] = "published"] \/ web' = [web EXCEPT ![e] = "fallback"]
      BY <2>1 DEF PublishAnswered, PublishTimesOut
    <3>3. \A i \in Entries : stream[i] # e
      BY <3>1
    <3>4. /\ \A i \in Entries : stream'[i] = stream[i]
          /\ Entries' = Entries \cup {Len(stream')} /\ stream'[Len(stream')] = e
      BY <3>1, StreamGrows
    <3>5. web'[e] \in {"published", "fallback"} /\ \A f \in Events \ {e} : web'[f] = web[f]
      BY <1>0, <3>2
    <3>6. \A i \in Entries' : web'[stream'[i]] \in {"published", "fallback", "done", "cut"}
      <4>1. \A i \in Entries : stream'[i] \in Events \ {e} /\ web'[stream'[i]] = web[stream[i]]
        BY <1>0, <3>3, <3>4, <3>5
      <4>2. \A i \in Entries : web'[stream'[i]] \in {"published", "fallback", "done", "cut"}
        BY <4>1
      <4>3. web'[stream'[Len(stream')]] \in {"published", "fallback", "done", "cut"}
        BY <3>4, <3>5
      <4> QED
        BY <3>4, <4>2, <4>3
    <3>7. \A i, j \in Entries' : stream'[i] = stream'[j] => i = j
      BY <3>3, <3>4
    <3> QED
      BY <3>6, <3>7
  <2>2. CASE \/ Commit(e) \/ PublishFails(e) \/ FallbackWrites(e) \/ FallbackRaises(e)
             \/ FallbackEnds(e) \/ WebDies(e)
    <3>1. stream' = stream
      BY <2>2 DEF Commit, PublishFails, FallbackWrites, FallbackRaises, FallbackEnds, WebDies
    <3>2. \A f \in Events : web[f] \in {"published", "fallback", "done", "cut"}
                              => web'[f] \in {"published", "fallback", "done", "cut"}
      BY <1>0, <2>2 DEF Commit, PublishFails, FallbackWrites, FallbackRaises, FallbackEnds, WebDies
    <3> QED
      BY <1>0, <3>1, <3>2
  <2> QED
    BY <1>1, <2>1, <2>2 DEF WebStep, Publish
<1>2. ASSUME NEW w \in Workers, WorkerStep(w)
      PROVE  OneEntryPerEvent'
  <2>1. UNCHANGED <<stream, web>>
    BY <1>2 DEF WorkerStep, StartWorker, Read, ReadAnswerLost, Deliver, WorkerWrites,
           WorkerHandlerRaises, Ack, Signal, StopIdle, WorkerDies
  <2> QED
    BY <2>1
<1> QED
  BY <1>1, <1>2 DEF BusNext

\* After a step, what a worker holds it held before, one place further back at
\* most, or it has just read it.
Shifted(w, d) ==
  \A k \in DOMAIN batch'[w] : k + d \in DOMAIN batch[w] /\ batch'[w][k] = batch[w][k + d]
JustRead(w) ==
  /\ \A k \in DOMAIN batch'[w] : batch'[w][k] \in Delivered' /\ batch'[w][k] > cursor
  /\ \A k, l \in DOMAIN batch'[w] : batch'[w][k] = batch'[w][l] => k = l

LEMMA BatchOrigin ==
  ASSUME BusTypeOK, WorkerShape, NEW w \in Workers, BatchMove(w)
  PROVE  \/ Shifted(w, 0) \/ Shifted(w, 1)
         \/ (JustRead(w) /\ ~BatchLeft(w))
<1>0. batch[w] \in Seq(Nat) /\ cursor \in Int
  BY DEF BusTypeOK, NoGroup
<1>1. CASE BatchLeft(w)
  <2>1. \A k \in DOMAIN batch[w] : k + 0 = k
    BY <1>0
  <2> QED
    BY <1>1, <2>1 DEF BatchLeft, Shifted
<1>2. CASE BatchDropped(w)
  BY <1>2 DEF BatchDropped, Shifted
<1>3. CASE BatchAcked(w)
  BY <1>0, <1>3, TailFacts DEF BatchAcked, Shifted, WorkerShape
<1>4. CASE BatchRead(w)
  <2>1. PICK lo, hi \in Nat :
          /\ cursor < lo /\ lo <= hi /\ lo..hi \subseteq Delivered'
          /\ batch'[w] = [k \in 1..(hi - lo + 1) |-> hi - (hi - lo + 1) + k]
    BY <1>4 DEF BatchRead
  <2>2. \A k \in DOMAIN batch'[w] : k \in Int /\ batch'[w][k] \in lo..hi /\ batch'[w][k] = lo - 1 + k
    BY <2>1
  <2>3. \A k \in DOMAIN batch'[w] : batch'[w][k] \in Delivered' /\ batch'[w][k] > cursor
    BY <1>0, <2>1, <2>2
  <2>4. \A k, l \in DOMAIN batch'[w] : batch'[w][k] = batch'[w][l] => k = l
    BY <2>2
  <2> QED
    BY <1>4, <2>3, <2>4 DEF BatchRead, BatchLeft, JustRead
<1> QED
  BY <1>1, <1>2, <1>3, <1>4 DEF BatchMove

LEMMA HeldOnceStep ==
  ASSUME BusTypeOK, WorkerShape, HeldOnce, CursorLeads, BusNext, BusTypeOK', Delivered \subseteq Delivered'
  PROVE  HeldOnce'
<1>0. /\ \A w \in Workers : Shifted(w, 0) \/ Shifted(w, 1) \/ (JustRead(w) /\ ~BatchLeft(w))
      /\ \A v, w \in Workers : v = w \/ BatchLeft(v) \/ BatchLeft(w)
  BY EveryBatchMoves, BatchOrigin
<1>1. \A w \in Workers : \A k \in DOMAIN batch[w] : batch[w][k] \in Delivered
  BY DEF HeldOnce
<1>2. ASSUME NEW w \in Workers, NEW k \in DOMAIN batch'[w]
      PROVE  batch'[w][k] \in Delivered'
  BY <1>0, <1>1, <1>2 DEF Shifted, JustRead
<1>3. ASSUME NEW v \in Workers, NEW w \in Workers, NEW k \in DOMAIN batch'[v],
             NEW l \in DOMAIN batch'[w], batch'[v][k] = batch'[w][l]
      PROVE  v = w /\ k = l
  <2>0. \A u \in Workers : BatchLeft(u) => Shifted(u, 0)
    <3>1. \A u \in Workers : \A m \in DOMAIN batch[u] : m + 0 = m
      BY DEF BusTypeOK
    <3> QED
      BY <3>1 DEF BatchLeft, Shifted
  <2>1. \A u \in Workers : \A m \in DOMAIN batch[u] : m \in Nat /\ batch[u][m] <= cursor
    <3>1. ASSUME NEW u \in Workers
          PROVE  \A m \in DOMAIN batch[u] : m \in Nat
      <4>1. batch[u] \in Seq(Nat)
        BY DEF BusTypeOK
      <4> QED
        BY <4>1
    <3> QED
      BY <1>1, <3>1 DEF CursorLeads
  <2>2. \A u \in Workers : Shifted(u, 0) \/ Shifted(u, 1) =>
          \A m \in DOMAIN batch'[u] : batch'[u][m] <= cursor
    BY <2>1 DEF Shifted
  <2>3. k \in Nat /\ l \in Nat /\ batch'[v][k] \in Nat /\ cursor \in Int
    <3>1. batch'[v] \in Seq(Nat) /\ batch'[w] \in Seq(Nat)
      BY DEF BusTypeOK
    <3>2. cursor \in Int
      BY DEF BusTypeOK, NoGroup
    <3> QED
      BY <3>1, <3>2
  <2>4. ASSUME NEW c \in Nat, NEW d \in Nat, Shifted(v, c), Shifted(w, d)
        PROVE  v = w /\ k + c = l + d
    <3>1. k + c \in DOMAIN batch[v] /\ batch'[v][k] = batch[v][k + c]
      BY <2>4 DEF Shifted
    <3>2. l + d \in DOMAIN batch[w] /\ batch'[w][l] = batch[w][l + d]
      BY <2>4 DEF Shifted
    <3> QED
      <4>1. batch[v][k + c] = batch[w][l + d]
        BY <1>3, <3>1, <3>2
      <4> QED
        BY <3>1, <3>2, <4>1 DEF HeldOnce
  <2>5. CASE v = w
    <3>1. CASE Shifted(v, 0)
      BY <2>3, <2>4, <2>5, <3>1
    <3>2. CASE Shifted(v, 1)
      BY <2>3, <2>4, <2>5, <3>2
    <3>3. CASE JustRead(v)
      BY <1>3, <2>5, <3>3 DEF JustRead
    <3> QED
      BY <1>0, <3>1, <3>2, <3>3
  <2>6. CASE v # w
    <3>1. CASE (Shifted(v, 0) \/ Shifted(v, 1)) /\ (Shifted(w, 0) \/ Shifted(w, 1))
      BY <2>4, <2>6, <3>1
    <3>2. CASE JustRead(v) /\ ~BatchLeft(v)
      <4>1. batch'[w][l] <= cursor
        BY <1>0, <2>0, <2>2, <2>6, <3>2
      <4>2. batch'[v][k] > cursor
        BY <3>2 DEF JustRead
      <4> QED
        BY <1>3, <2>3, <4>1, <4>2
    <3>3. CASE JustRead(w) /\ ~BatchLeft(w)
      <4>1. batch'[v][k] <= cursor
        BY <1>0, <2>0, <2>2, <2>6, <3>3
      <4>2. batch'[w][l] > cursor
        BY <3>3 DEF JustRead
      <4> QED
        BY <1>3, <2>3, <4>1, <4>2
    <3> QED
      BY <1>0, <3>1, <3>2, <3>3
  <2> QED
    BY <2>5, <2>6
<1> QED
  BY <1>2, <1>3 DEF HeldOnce

-----------------------------------------------------------------------------
\* Rows are counted up by the two actions that write them, and by no other.
LEMMA RowsMove ==
  ASSUME BusTypeOK, BusNext, NEW w \in Workers
  PROVE  \/ WorkerWrites(w) \/ WorkerHandlerRaises(w)
         \/ workerRow'[w] = workerRow[w] \/ workerRow'[w] = 0
<1>0. workerRow \in [Workers -> 0..Rows]
  BY DEF BusTypeOK
<1>1. ASSUME NEW e \in Events, WebStep(e)
      PROVE  workerRow' = workerRow
  BY <1>1 DEF WebStep, Commit, Publish, PublishAnswered, PublishTimesOut, PublishFails,
         FallbackWrites, FallbackRaises, FallbackEnds, WebDies, workerVars
<1>2. ASSUME NEW v \in Workers, WorkerStep(v), v # w
      PROVE  workerRow'[w] = workerRow[w]
  BY <1>0, <1>2 DEF WorkerStep, StartWorker, Read, ReadAnswerLost, WorkerWrites,
         WorkerHandlerRaises, Ack, Signal, StopIdle, WorkerDies, workerVars
<1>3. ASSUME WorkerStep(w)
      PROVE  \/ WorkerWrites(w) \/ WorkerHandlerRaises(w)
             \/ workerRow'[w] = workerRow[w] \/ workerRow'[w] = 0
  BY <1>0, <1>3 DEF WorkerStep, StartWorker, Read, ReadAnswerLost,
         Ack, Signal, StopIdle, WorkerDies, workerVars
<1> QED
  BY <1>1, <1>2, <1>3 DEF BusNext

LEMMA WrittenSoFarStep ==
  ASSUME BusTypeOK, BusTypeOK', WorkerShape, HeldOnce, WrittenSoFar, BusNext, Kept
  PROVE  WrittenSoFar'
<1> SUFFICES ASSUME NEW w \in Workers, worker'[w] = "handling", NEW k \in 1..workerRow'[w]
             PROVE  copies'[Current(w)'][k] > 0 \/ Current(w)' \in failed'
  BY DEF WrittenSoFar
<1>0. workerRow[w] \in Nat /\ workerRow'[w] \in Nat /\ k \in 1..Rows /\ k \in Nat /\ k # 0
  BY EventBusAssumption DEF BusTypeOK
<1>1. BatchLeft(w) /\ worker[w] = "handling"
  <2>1. workerRow'[w] # 0
    BY <1>0
  <2> QED
    BY <2>1, EveryBatchMoves DEF BatchMove, BatchLeft, BatchDropped, BatchAcked, BatchRead,
       WorkerShape
<1>2. Current(w)' = Current(w) /\ Current(w) \in Events
  BY <1>1, HeadIsEntry DEF BatchLeft, Current, Kept
<1>3. /\ copies[Current(w)][k] \in Nat /\ copies'[Current(w)][k] \in Nat
      /\ copies[Current(w)][k] <= copies'[Current(w)][k]
      /\ failed \subseteq failed'
  BY <1>0, <1>2 DEF BusTypeOK, Kept
<1>4. CASE k \in 1..workerRow[w]
  <2>1. copies[Current(w)][k] > 0 \/ Current(w) \in failed
    BY <1>1, <1>4 DEF WrittenSoFar
  <2> QED
    BY <1>2, <1>3, <2>1
<1>5. CASE WorkerWrites(w) /\ k \notin 1..workerRow[w]
  <2>1. k = workerRow[w] + 1
    BY <1>0, <1>5 DEF WorkerWrites, BusTypeOK
  <2>2. copies' = [copies EXCEPT ![Current(w)][k] = @ + 1]
    BY <1>5, <2>1 DEF WorkerWrites, WriteRow
  <2>3. copies'[Current(w)][k] = copies[Current(w)][k] + 1
    BY <1>0, <1>2, <2>2 DEF BusTypeOK
  <2> QED
    BY <1>2, <1>3, <2>3
<1>6. CASE WorkerHandlerRaises(w)
  BY <1>2, <1>6 DEF WorkerHandlerRaises
<1> QED
  BY <1>0, <1>4, <1>5, <1>6, RowsMove

LEMMA AckedStep ==
  ASSUME BusTypeOK, BusTypeOK', WorkerShape, HeldOnce, WrittenSoFar, AckedIsHandled,
         BusNext, Kept
  PROVE  AckedIsHandled'
<1>0. Rows \in Nat
  BY EventBusAssumption
<1> DEFINE Written(e) == \A k \in 1..Rows : copies'[e][k] > 0
<1>1. \A e \in Events : Notified(e) => Written(e)
  <2>1. \A e \in Events, k \in 1..Rows :
          /\ copies[e][k] \in Nat /\ copies'[e][k] \in Nat
          /\ copies[e][k] <= copies'[e][k]
    BY DEF Kept, BusTypeOK
  <2> QED
    BY <2>1 DEF Notified
<1>2. \A i \in acked : Written(stream[i]) \/ stream[i] \in failed'
  <2>1. \A i \in acked : stream[i] \in Events
    BY DEF BusTypeOK, Entries
  <2>2. failed \subseteq failed'
    BY DEF Kept
  <2> HIDE DEF Written
  <2> QED
    BY <1>1, <2>1, <2>2 DEF AckedIsHandled
<1>3. \A i \in acked : stream'[i] = stream[i]
  BY DEF Kept, BusTypeOK
<1>4. ASSUME NEW i \in acked' \ acked
      PROVE  Written(stream'[i]) \/ stream'[i] \in failed'
  <2>1. PICK w \in Workers : Ack(w)
    <3>1. ASSUME NEW e \in Events, WebStep(e)
          PROVE  acked' = acked
      BY <3>1 DEF WebStep, Commit, Publish, PublishAnswered, PublishTimesOut, PublishFails,
         FallbackWrites, FallbackRaises, FallbackEnds, WebDies, Xadd, redisVars
    <3>2. ASSUME NEW w \in Workers, WorkerStep(w), ~Ack(w)
          PROVE  acked' = acked
      BY <3>2 DEF WorkerStep, StartWorker, Read, ReadAnswerLost, Deliver, WorkerWrites,
         WorkerHandlerRaises, Signal, StopIdle, WorkerDies, redisVars
    <3> QED
      BY <1>4, <3>1, <3>2 DEF BusNext
  <2>2. i = Head(batch[w]) /\ worker[w] = "handling" /\ Current(w) \in Events
    BY <1>4, <2>1, HeadIsEntry DEF Ack
  <2>3. stream'[i] = Current(w) /\ UNCHANGED <<copies, failed>>
    BY <2>1, <2>2 DEF Ack, Current
  <2>4. workerRow[w] = Rows
    <3>1. workerRow[w] \in 0..Rows /\ ~(workerRow[w] < Rows)
      BY <2>1 DEF Ack, Finished, NextRow, BusTypeOK
    <3> QED
      BY <1>0, <3>1
  <2>5. Notified(Current(w)) \/ Current(w) \in failed
    BY <2>2, <2>4 DEF WrittenSoFar, Notified
  <2> QED
    BY <2>2, <2>3, <2>5 DEF Notified
<1> QED
  <2>1. \A i \in acked' : Written(stream'[i]) \/ stream'[i] \in failed'
    <3> HIDE DEF Written
    <3> QED
      BY <1>2, <1>3, <1>4
  <2> QED
    BY <2>1 DEF AckedIsHandled, Notified

-----------------------------------------------------------------------------
(***************************************************************************)
(* Where copies are counted: only a write adds one, and neither part of    *)
(* the count is ever taken back.                                           *)
(***************************************************************************)
LEMMA ReachedStays ==
  ASSUME BusTypeOK, BusTypeOK', WorkerShape, HeldOnce, CursorLeads, BusNext, Kept,
         NEW i \in Delivered, NEW k \in 1..Rows, Reached(i, k)
  PROVE  Reached(i, k)'
<1>1. i \in Delivered' /\ i <= cursor /\ i \in Int /\ cursor \in Int
  <2>1. i \in Entries /\ Len(stream) \in Nat
    BY DEF BusTypeOK, Delivered
  <2>2. i \in Int
    BY <2>1 DEF BusTypeOK, Entries
  <2>3. cursor \in Int
    BY DEF BusTypeOK, NoGroup
  <2> QED
    BY <2>2, <2>3 DEF Kept, CursorLeads
<1>2. ASSUME NEW w \in Workers, NEW l \in DOMAIN batch'[w], batch'[w][l] = i
      PROVE  l = 1 /\ k <= workerRow'[w]
  <2>0. /\ batch[w] \in Seq(Nat) /\ batch'[w] \in Seq(Nat) /\ k \in Nat
        /\ workerRow[w] \in Nat /\ workerRow'[w] \in Nat
    BY EventBusAssumption DEF BusTypeOK
  <2>1. \A m \in DOMAIN batch[w] : batch[w][m] = i => m = 1 /\ k <= workerRow[w]
    BY DEF Reached
  <2>2. CASE BatchLeft(w)
    BY <1>2, <2>0, <2>1, <2>2 DEF BatchLeft
  <2>3. CASE BatchDropped(w)
    BY <1>2, <2>3, EmptySeq DEF BatchDropped
  <2>4. CASE BatchAcked(w)
    <3>1. l + 1 \in DOMAIN batch[w] /\ l >= 1 /\ batch[w][l + 1] = i
      BY <1>2, <2>0, <2>4, TailFacts DEF BatchAcked, WorkerShape
    <3>2. l + 1 = 1
      BY <2>1, <3>1
    <3> QED
      BY <2>0, <3>1, <3>2
  <2>5. CASE BatchRead(w)
    <3>1. PICK lo, hi \in Nat :
            /\ cursor < lo /\ lo <= hi
            /\ batch'[w] = [m \in 1..(hi - lo + 1) |-> hi - (hi - lo + 1) + m]
      BY <2>5 DEF BatchRead
    <3>2. batch'[w][l] \in lo..hi
      BY <3>1
    <3> QED
      BY <1>1, <1>2, <3>1, <3>2
  <2> QED
    BY <2>2, <2>3, <2>4, <2>5, EveryBatchMoves DEF BatchMove
<1> QED
  BY <1>1, <1>2 DEF Reached

LEMMA PartsStay ==
  ASSUME BusTypeOK, BusTypeOK', WorkerShape, HeldOnce, CursorLeads, BusNext, Kept,
         NEW e \in Events, NEW k \in 1..Rows
  PROVE  /\ StreamPart(e, k) \in {0, 1} /\ StreamPart(e, k)' \in {0, 1}
         /\ WebPart(e, k) \in {0, 1} /\ WebPart(e, k)' \in {0, 1}
         /\ StreamPart(e, k) <= StreamPart(e, k)'
         /\ WebPart(e, k) <= WebPart(e, k)'
<1>1. /\ StreamPart(e, k) \in {0, 1} /\ StreamPart(e, k)' \in {0, 1}
      /\ WebPart(e, k) \in {0, 1} /\ WebPart(e, k)' \in {0, 1}
  BY DEF StreamPart, WebPart
<1>2. ASSUME NEW i \in Entries, stream[i] = e, Reached(i, k)
      PROVE  i \in Entries' /\ stream'[i] = e /\ Reached(i, k)'
  <2>1. i \in Delivered
    BY <1>2 DEF Reached
  <2>2. Reached(i, k)'
    BY <1>2, <2>1, ReachedStays
  <2> QED
    BY <1>2, <2>2 DEF Kept
<1>3. StreamPart(e, k) = 1 => StreamPart(e, k)' = 1
  BY <1>2 DEF StreamPart
<1>4. WebPart(e, k) = 1 => WebPart(e, k)' = 1
  <2>1. /\ webRow[e] \in Nat /\ webRow'[e] \in Nat /\ k \in Nat /\ webRow[e] <= webRow'[e]
        /\ FellBack(e) => FellBack(e)'
    BY EventBusAssumption DEF BusTypeOK, Kept
  <2> QED
    BY <2>1 DEF WebPart
<1> QED
  BY <1>1, <1>3, <1>4

LEMMA WritersOfCopies ==
  ASSUME BusTypeOK, BusNext
  PROVE  \/ copies' = copies
         \/ \E e \in Events : FallbackWrites(e)
         \/ \E w \in Workers : WorkerWrites(w)
<1>1. ASSUME NEW e \in Events, WebStep(e), ~FallbackWrites(e)
      PROVE  copies' = copies
  BY <1>1 DEF WebStep, Commit, Publish, PublishAnswered, PublishTimesOut, PublishFails,
         FallbackRaises, FallbackEnds, WebDies
<1>2. ASSUME NEW w \in Workers, WorkerStep(w), ~WorkerWrites(w)
      PROVE  copies' = copies
  BY <1>2 DEF WorkerStep, StartWorker, Read, ReadAnswerLost,
         WorkerHandlerRaises, Ack, Signal, StopIdle, WorkerDies
<1> QED
  BY <1>1, <1>2 DEF BusNext

\* A worker's write is the first that counts for its entry and row.
LEMMA WorkerWriteCounts ==
  ASSUME BusTypeOK, WorkerShape, HeldOnce, OneEntryPerEvent,
         NEW w \in Workers, WorkerWrites(w),
         NEW e \in Events, e = Current(w), NEW k \in Nat, k = workerRow[w] + 1
  PROVE  StreamPart(e, k) = 0 /\ StreamPart(e, k)' = 1
<1>1. PICK h \in Entries : /\ 1 \in DOMAIN batch[w] /\ h = batch[w][1]
                           /\ h = Head(batch[w]) /\ h \in Delivered
  BY HeadIsEntry DEF WorkerWrites
<1>2. /\ UNCHANGED <<stream, pending, acked, batch>>
      /\ workerRow'[w] = k
  BY DEF WorkerWrites, redisVars, BusTypeOK
<1>3. \A i \in Entries : stream[i] = e => ~Reached(i, k)
  <2>1. \A i \in Entries : stream[i] = e => i = h
    BY <1>1 DEF OneEntryPerEvent, Current
  <2>2. ~(k <= workerRow[w])
    BY EventBusAssumption DEF BusTypeOK
  <2>3. ~Reached(h, k)
    BY <1>1, <2>2 DEF Reached
  <2> QED
    BY <2>1, <2>3
<1>4. Reached(h, k)'
  <2>1. h \in Delivered'
    BY <1>1, <1>2 DEF Delivered
  <2>2. \A v \in Workers : \A l \in DOMAIN batch[v] : batch[v][l] = h => v = w /\ l = 1
    BY <1>1 DEF HeldOnce
  <2> QED
    BY <1>2, <2>1, <2>2 DEF Reached
<1>5. h \in Entries' /\ stream'[h] = e
  BY <1>1, <1>2 DEF Entries, Current
<1>6. StreamPart(e, k) = 0
  BY <1>3 DEF StreamPart
<1>7. StreamPart(e, k)' = 1
  BY <1>4, <1>5 DEF StreamPart
<1> QED
  BY <1>6, <1>7

LEMMA FallbackWriteCounts ==
  ASSUME BusTypeOK, NEW e \in Events, FallbackWrites(e),
         NEW k \in Nat, k = webRow[e] + 1
  PROVE  WebPart(e, k) = 0 /\ WebPart(e, k)' = 1
<1>1. webRow[e] \in Nat /\ webRow'[e] = k /\ web'[e] = "fallback"
  BY EventBusAssumption DEF FallbackWrites, BusTypeOK
<1>2. ~(k <= webRow[e]) /\ k <= webRow'[e]
  BY <1>1
<1> QED
  BY <1>1, <1>2 DEF WebPart, FellBack

\* One more copy of row k for e, and one more counted for it.
LEMMA CountFollows ==
  ASSUME BusTypeOK, CopiesCounted,
         NEW e \in Events, NEW k \in 1..Rows, WriteRow(e, k),
         \A f \in Events, l \in 1..Rows :
           /\ StreamPart(f, l) \in {0, 1} /\ StreamPart(f, l)' \in {0, 1}
           /\ WebPart(f, l) \in {0, 1} /\ WebPart(f, l)' \in {0, 1}
           /\ StreamPart(f, l) <= StreamPart(f, l)'
           /\ WebPart(f, l) <= WebPart(f, l)',
         StreamPart(e, k) + WebPart(e, k) < StreamPart(e, k)' + WebPart(e, k)'
  PROVE  CopiesCounted'
<1> SUFFICES ASSUME NEW f \in Events, NEW l \in 1..Rows
             PROVE  copies'[f][l] <= StreamPart(f, l)' + WebPart(f, l)'
  BY DEF CopiesCounted
<1>1. copies[f][l] \in Nat /\ copies[f][l] <= StreamPart(f, l) + WebPart(f, l)
  BY DEF BusTypeOK, CopiesCounted
<1>2. CASE f = e /\ l = k
  <2>1. copies'[f][l] = copies[f][l] + 1
    BY <1>2 DEF WriteRow, BusTypeOK
  <2> QED
    BY <1>1, <1>2, <2>1
<1>3. CASE ~(f = e /\ l = k)
  <2>1. copies'[f][l] = copies[f][l]
    BY <1>3 DEF WriteRow, BusTypeOK
  <2> QED
    BY <1>1, <2>1
<1> QED
  BY <1>2, <1>3

LEMMA CopiesCountedStep ==
  ASSUME BusTypeOK, BusTypeOK', WorkerShape, HeldOnce, CursorLeads, OneEntryPerEvent,
         CopiesCounted, BusNext, Kept
  PROVE  CopiesCounted'
<1>1. \A f \in Events, l \in 1..Rows :
        /\ StreamPart(f, l) \in {0, 1} /\ StreamPart(f, l)' \in {0, 1}
        /\ WebPart(f, l) \in {0, 1} /\ WebPart(f, l)' \in {0, 1}
        /\ StreamPart(f, l) <= StreamPart(f, l)'
        /\ WebPart(f, l) <= WebPart(f, l)'
  BY PartsStay
<1>2. CASE copies' = copies
  <2> SUFFICES ASSUME NEW f \in Events, NEW l \in 1..Rows
               PROVE  copies'[f][l] <= StreamPart(f, l)' + WebPart(f, l)'
    BY DEF CopiesCounted
  <2>1. copies[f][l] <= StreamPart(f, l) + WebPart(f, l)
    BY DEF CopiesCounted
  <2>2. copies[f][l] \in Nat
    <3>1. copies \in [Events -> [1..Rows -> Nat]]
      BY DEF BusTypeOK
    <3> QED
      BY <3>1
  <2> QED
    BY <1>1, <1>2, <2>1, <2>2
<1>3. ASSUME NEW e \in Events, FallbackWrites(e)
      PROVE  CopiesCounted'
  <2>1. PICK k \in 1..Rows : k = webRow[e] + 1
    BY <1>3, EventBusAssumption DEF FallbackWrites, NextRow, BusTypeOK
  <2>2. k \in Nat /\ WriteRow(e, k)
    BY <1>3, <2>1 DEF FallbackWrites
  <2>3. WebPart(e, k) = 0 /\ WebPart(e, k)' = 1
    BY <1>3, <2>1, <2>2, FallbackWriteCounts
  <2>4. StreamPart(e, k) + WebPart(e, k) < StreamPart(e, k)' + WebPart(e, k)'
    BY <1>1, <2>3
  <2> QED
    BY <1>1, <2>2, <2>4, CountFollows
<1>4. ASSUME NEW w \in Workers, WorkerWrites(w)
      PROVE  CopiesCounted'
  <2>1. PICK k \in 1..Rows : k = workerRow[w] + 1
    BY <1>4, EventBusAssumption DEF WorkerWrites, NextRow, BusTypeOK
  <2>2. PICK e \in Events : e = Current(w)
    BY <1>4, HeadIsEntry DEF WorkerWrites
  <2>3. k \in Nat /\ WriteRow(e, k)
    BY <1>4, <2>1, <2>2 DEF WorkerWrites
  <2>4. StreamPart(e, k) = 0 /\ StreamPart(e, k)' = 1
    BY <1>4, <2>1, <2>2, <2>3, WorkerWriteCounts
  <2>5. StreamPart(e, k) + WebPart(e, k) < StreamPart(e, k)' + WebPart(e, k)'
    BY <1>1, <2>4
  <2> QED
    BY <1>1, <2>3, <2>5, CountFollows
<1> QED
  BY <1>2, <1>3, <1>4, WritersOfCopies

-----------------------------------------------------------------------------
\* The inductive invariant.
BusInv ==
  /\ BusTypeOK
  /\ WorkerShape
  /\ CursorLeads
  /\ OneEntryPerEvent
  /\ HeldOnce
  /\ WrittenSoFar
  /\ CopiesCounted
  /\ AckedIsHandled

LEMMA BusInvInit == BusInit => BusInv
<1> SUFFICES ASSUME BusInit PROVE BusInv
  OBVIOUS
<1>0. Rows \in Nat
  BY EventBusAssumption
<1>1. stream = <<>> /\ Len(stream) = 0 /\ Entries = {} /\ Delivered = {}
  BY DEF BusInit, Entries, Delivered
<1>2. \A w \in Workers : batch[w] = <<>> /\ DOMAIN batch[w] = {}
  BY DEF BusInit
<1>3. BusTypeOK
  <2>1. /\ stream \in Seq(Events) /\ trimmed \in 0..Len(stream)
        /\ origin \in {NoGroup} \cup 0..Len(stream) /\ cursor \in origin..Len(stream)
    BY <1>1 DEF BusInit, NoGroup
  <2>2. pending \cup acked \subseteq Entries /\ failed \subseteq Events
    BY DEF BusInit
  <2>3. /\ worker \in [Workers -> {"down", "listening", "handling"}]
        /\ stopping \in [Workers -> BOOLEAN]
        /\ batch \in [Workers -> Seq(Nat)]
        /\ workerRow \in [Workers -> 0..Rows]
    BY <1>0 DEF BusInit
  <2>4. /\ web \in [Events -> WebState] /\ webRow \in [Events -> 0..Rows]
        /\ copies \in [Events -> [1..Rows -> Nat]]
    BY <1>0 DEF BusInit, WebState
  <2> QED
    BY <2>1, <2>2, <2>3, <2>4 DEF BusTypeOK
<1>4. WorkerShape /\ WrittenSoFar
  BY DEF BusInit, WorkerShape, WrittenSoFar
<1>5. CursorLeads /\ OneEntryPerEvent
  BY <1>1 DEF BusInit, CursorLeads, OneEntryPerEvent
<1>6. HeldOnce
  BY <1>2 DEF HeldOnce
<1>7. AckedIsHandled
  BY DEF BusInit, AckedIsHandled
<1>8. CopiesCounted
  <2>1. \A e \in Events, k \in 1..Rows : copies[e][k] = 0
    BY DEF BusInit
  <2>2. \A e \in Events, k \in 1..Rows : StreamPart(e, k) \in {0, 1} /\ WebPart(e, k) \in {0, 1}
    BY DEF StreamPart, WebPart
  <2> QED
    BY <2>1, <2>2 DEF CopiesCounted
<1> QED
  BY <1>3, <1>4, <1>5, <1>6, <1>7, <1>8 DEF BusInv

LEMMA BusInvStep == BusInv /\ [BusNext]_busVars => BusInv'
<1> SUFFICES ASSUME BusInv, [BusNext]_busVars PROVE BusInv'
  OBVIOUS
<1> USE DEF BusInv
<1>1. CASE BusNext
  <2>1. BusTypeOK' /\ Kept
    BY <1>1, WebTypes, WorkerTypes, WebKeeps, WorkerKeeps DEF BusNext
  <2>2. WorkerShape'
    BY <1>1, WorkerShapeStep
  <2>3. CursorLeads'
    BY <1>1, CursorLeadsStep
  <2>4. OneEntryPerEvent'
    BY <1>1, OneEntryStep
  <2>5. HeldOnce'
    BY <1>1, <2>1, HeldOnceStep DEF Kept
  <2>6. WrittenSoFar' /\ AckedIsHandled'
    BY <1>1, <2>1, WrittenSoFarStep, AckedStep
  <2>7. CopiesCounted'
    BY <1>1, <2>1, CopiesCountedStep
  <2> QED
    BY <2>1, <2>2, <2>3, <2>4, <2>5, <2>6, <2>7
<1>2. CASE UNCHANGED busVars
  <2> USE <1>2 DEF busVars, webVars, redisVars, workerVars
  <2>1. BusTypeOK'
    BY DEF BusTypeOK, Entries
  <2>2. WorkerShape' /\ CursorLeads' /\ OneEntryPerEvent' /\ HeldOnce'
    BY DEF WorkerShape, CursorLeads, OneEntryPerEvent, HeldOnce, Delivered, Entries
  <2>3. WrittenSoFar' /\ AckedIsHandled'
    BY DEF WrittenSoFar, AckedIsHandled, Notified, Current
  <2>4. CopiesCounted'
    BY DEF CopiesCounted, StreamPart, WebPart, Reached, FellBack, Delivered, Entries
  <2> QED
    BY <2>1, <2>2, <2>3, <2>4
<1> QED
  BY <1>1, <1>2

LEMMA BusInvariant == BusSpec => []BusInv
  BY BusInvInit, BusInvStep, PTL DEF BusSpec

(***************************************************************************)
(* Every reachable state is well typed: whatever crashes, a worker holds   *)
(* entries of the stream only, and nothing is delivered that is not there. *)
(***************************************************************************)
THEOREM BusTypeCorrect == BusSpec => []BusTypeOK
<1>1. BusInv => BusTypeOK
  BY DEF BusInv
<1> QED
  BY <1>1, BusInvariant, PTL

(***************************************************************************)
(* No notification is recorded twice, unless XADD went through without an  *)
(* answer in time, for any number of workers, restarted at any moment.     *)
(***************************************************************************)
THEOREM NoCopyTooMany == BusSpec => []CopiesBounded
<1>1. BusInv => CopiesBounded
  <2> SUFFICES ASSUME BusInv, NEW e \in Events, NEW k \in 1..Rows
               PROVE  copies[e][k] <= Promised(e)
    BY DEF CopiesBounded
  <2>1. copies[e][k] \in Nat /\ copies[e][k] <= StreamPart(e, k) + WebPart(e, k)
    BY DEF BusInv, BusTypeOK, CopiesCounted
  <2>2. StreamPart(e, k) <= (IF \E i \in Entries : stream[i] = e THEN 1 ELSE 0)
    BY DEF StreamPart
  <2>3. WebPart(e, k) <= (IF FellBack(e) THEN 1 ELSE 0)
    BY DEF WebPart
  <2>4. StreamPart(e, k) \in {0, 1} /\ WebPart(e, k) \in {0, 1}
    BY DEF StreamPart, WebPart
  <2> QED
    BY <2>1, <2>2, <2>3, <2>4 DEF Promised
<1> QED
  BY <1>1, BusInvariant, PTL

(***************************************************************************)
(* Nothing is acknowledged that no handler has dealt with.                 *)
(***************************************************************************)
THEOREM NoAckUnhandled == BusSpec => []AckedIsHandled
<1>1. BusInv => AckedIsHandled
  BY DEF BusInv
<1> QED
  BY <1>1, BusInvariant, PTL
-----------------------------------------------------------------------------
(***************************************************************************)
(* Where an event that nobody was told of can be: an event answered for by *)
(* Redis is in the stream, the cursor leaves nothing behind that could     *)
(* still be read, and a fallback's count says what it has written.         *)
(***************************************************************************)
PublishedIsInStream ==
  \A e \in Events : web[e] = "published" => \E i \in Entries : stream[i] = e

CursorSweeps ==
  \A i \in Entries : i <= cursor => i \in Delivered \/ i <= trimmed \/ i <= origin

FallbackSoFar ==
  \A e \in Events :
    /\ \A k \in 1..webRow[e] : copies[e][k] > 0 \/ e \in failed
    /\ web[e] = "done" => webRow[e] = Rows

WhereEventsAre == PublishedIsInStream /\ CursorSweeps /\ FallbackSoFar

LEMMA PublishedStep ==
  ASSUME BusInv, PublishedIsInStream, BusNext
  PROVE  PublishedIsInStream'
<1>1. BusTypeOK /\ Kept
  BY WebKeeps, WorkerKeeps DEF BusInv, BusNext
<1>2. web \in [Events -> WebState]
  BY <1>1 DEF BusTypeOK
<1>3. ASSUME NEW e \in Events, PublishAnswered(e)
      PROVE  PublishedIsInStream'
  <2>1. \E i \in Entries' : stream'[i] = e
    BY <1>1, <1>3, StreamGrows DEF PublishAnswered
  <2>2. \A f \in Events \ {e} : web'[f] = web[f]
    BY <1>2, <1>3 DEF PublishAnswered
  <2> QED
    BY <1>1, <2>1, <2>2 DEF PublishedIsInStream, Kept
<1>4. ASSUME \A e \in Events : web'[e] = "published" => web[e] = "published"
      PROVE  PublishedIsInStream'
  BY <1>1, <1>4 DEF PublishedIsInStream, Kept
<1>5. ASSUME NEW e \in Events, WebStep(e), ~PublishAnswered(e)
      PROVE  PublishedIsInStream'
  <2>1. \A f \in Events : web'[f] = "published" => web[f] = "published"
    BY <1>2, <1>5
    DEF WebStep, Commit, Publish, PublishTimesOut, PublishFails,
        FallbackWrites, FallbackRaises, FallbackEnds, WebDies
  <2> QED
    BY <1>4, <2>1
<1>6. ASSUME NEW w \in Workers, WorkerStep(w)
      PROVE  PublishedIsInStream'
  <2>1. web' = web
    BY <1>6 DEF WorkerStep, StartWorker, Read, ReadAnswerLost, WorkerWrites,
           WorkerHandlerRaises, Ack, Signal, StopIdle, WorkerDies, webVars
  <2> QED
    BY <1>4, <2>1
<1> QED
  BY <1>3, <1>5, <1>6 DEF BusNext

LEMMA CursorSweepsStep ==
  ASSUME BusInv, CursorSweeps, BusNext
  PROVE  CursorSweeps'
<1>1. BusTypeOK /\ Kept
  BY WebKeeps, WorkerKeeps DEF BusInv, BusNext
<1>2. /\ Len(stream) \in Nat /\ Entries = 1..Len(stream)
      /\ cursor \in Int /\ origin \in Int /\ trimmed \in Nat /\ cursor <= Len(stream)
  BY <1>1 DEF BusTypeOK, Entries, NoGroup
<1>3. ASSUME UNCHANGED <<stream, origin, cursor>>, trimmed' \in Nat, trimmed <= trimmed'
      PROVE  CursorSweeps'
  BY <1>1, <1>2, <1>3 DEF CursorSweeps, Kept, Entries
<1>4. ASSUME NEW e \in Events, Xadd(e)
      PROVE  CursorSweeps'
  <2>1. /\ Entries' = Entries \cup {Len(stream')} /\ Len(stream') = Len(stream) + 1
        /\ trimmed' \in Nat
    BY <1>1, <1>4, StreamGrows
  <2>2. trimmed <= trimmed' /\ UNCHANGED <<origin, cursor>>
    BY <1>2, <1>4, <2>1, EventBusAssumption DEF Xadd
  <2> QED
    BY <1>1, <1>2, <2>1, <2>2 DEF CursorSweeps, Kept
<1>5. ASSUME Deliver
      PROVE  CursorSweeps'
  <2>1. PICK lo, hi \in Nat :
          /\ NextEntries = lo..hi /\ cursor' = hi
          /\ \A i \in Unread : lo <= i
    BY <1>1, <1>5, DeliverFacts
  <2>2. Delivered' = Delivered \cup (lo..hi) /\ UNCHANGED <<stream, trimmed, origin>>
    BY <1>5, <2>1 DEF Deliver, Delivered
  <2>3. ASSUME NEW i \in Entries, i <= hi, ~(i <= cursor), ~(i <= trimmed)
        PROVE  i \in lo..hi
    <3>1. i \in Unread
      BY <1>2, <2>3 DEF Unread
    <3> QED
      BY <1>2, <2>1, <2>3, <3>1
  <2> QED
    BY <2>1, <2>2, <2>3 DEF CursorSweeps, Entries
<1>6. ASSUME NEW e \in Events, WebStep(e)
      PROVE  CursorSweeps'
  <2>1. CASE PublishAnswered(e) \/ PublishTimesOut(e)
    BY <1>4, <2>1 DEF PublishAnswered, PublishTimesOut
  <2>2. CASE ~(PublishAnswered(e) \/ PublishTimesOut(e))
    <3>1. UNCHANGED redisVars
      BY <1>6, <2>2 DEF WebStep, Commit, Publish, PublishFails, FallbackWrites,
         FallbackRaises, FallbackEnds, WebDies
    <3> QED
      BY <1>2, <1>3, <3>1 DEF redisVars
  <2> QED
    BY <2>1, <2>2
<1>7. ASSUME NEW w \in Workers, WorkerStep(w)
      PROVE  CursorSweeps'
  <2>1. CASE StartWorker(w)
    BY <1>2, <2>1 DEF StartWorker, GroupCursor, CursorSweeps, Entries, Delivered
  <2>2. CASE Read(w) \/ ReadAnswerLost(w)
    BY <1>5, <2>2 DEF Read, ReadAnswerLost
  <2>3. CASE \/ WorkerWrites(w) \/ WorkerHandlerRaises(w) \/ Ack(w)
             \/ Signal(w) \/ StopIdle(w) \/ WorkerDies(w)
    <3>1. UNCHANGED <<stream, trimmed, origin, cursor>>
      BY <2>3 DEF WorkerWrites, WorkerHandlerRaises, Ack, Signal, StopIdle, WorkerDies,
                  redisVars
    <3> QED
      BY <1>2, <1>3, <3>1
  <2> QED
    BY <1>7, <2>1, <2>2, <2>3 DEF WorkerStep
<1> QED
  BY <1>6, <1>7 DEF BusNext

LEMMA FallbackSoFarStep ==
  ASSUME BusInv, BusTypeOK', FallbackSoFar, BusNext
  PROVE  FallbackSoFar'
<1>0. Rows \in Nat
  BY EventBusAssumption
<1>1. /\ web \in [Events -> WebState] /\ webRow \in [Events -> 0..Rows]
      /\ copies \in [Events -> [1..Rows -> Nat]]
      /\ copies' \in [Events -> [1..Rows -> Nat]]
  BY DEF BusInv, BusTypeOK
<1>2. Kept
  BY WebKeeps, WorkerKeeps DEF BusInv, BusNext
\* A row that was written stays written.
<1>3. ASSUME NEW f \in Events, NEW k \in 1..webRow[f]
      PROVE  copies'[f][k] > 0 \/ f \in failed'
  <2>1. k \in 1..Rows
    BY <1>0, <1>1
  <2>2. copies[f][k] \in Nat /\ copies'[f][k] \in Nat /\ copies[f][k] <= copies'[f][k]
    BY <1>1, <1>2, <2>1 DEF Kept
  <2>3. failed \subseteq failed' /\ (copies[f][k] > 0 \/ f \in failed)
    BY <1>2 DEF Kept, FallbackSoFar
  <2> QED
    BY <2>2, <2>3
<1>4. ASSUME webRow' = webRow, \A f \in Events : web'[f] = "done" => web[f] = "done"
      PROVE  FallbackSoFar'
  BY <1>3, <1>4 DEF FallbackSoFar
<1>5. ASSUME NEW e \in Events, FallbackWrites(e)
      PROVE  FallbackSoFar'
  <2>1. /\ webRow' = [webRow EXCEPT ![e] = webRow[e] + 1] /\ webRow[e] < Rows
        /\ web' = web /\ web[e] # "done"
        /\ copies' = [copies EXCEPT ![e][webRow[e] + 1] = @ + 1]
    BY <1>5 DEF FallbackWrites, NextRow, WriteRow
  <2>2. copies'[e][webRow[e] + 1] > 0
    BY <1>0, <1>1, <2>1
  <2>3. \A k \in 1..webRow'[e] : k \in 1..webRow[e] \/ k = webRow[e] + 1
    BY <1>1, <2>1
  <2>4. \A f \in Events \ {e} : webRow'[f] = webRow[f]
    BY <1>1, <2>1
  <2> QED
    BY <1>3, <2>1, <2>2, <2>3, <2>4 DEF FallbackSoFar
<1>6. ASSUME NEW e \in Events, FallbackRaises(e)
      PROVE  FallbackSoFar'
  <2>1. /\ webRow' = [webRow EXCEPT ![e] = Rows] /\ failed' = failed \cup {e}
        /\ web' = web
    BY <1>6 DEF FallbackRaises
  <2>2. webRow'[e] = Rows /\ \A f \in Events \ {e} : webRow'[f] = webRow[f]
    BY <1>1, <2>1
  <2> QED
    BY <1>3, <2>1, <2>2 DEF FallbackSoFar
<1>7. ASSUME NEW e \in Events, FallbackEnds(e)
      PROVE  FallbackSoFar'
  <2>1. webRow[e] = Rows
    BY <1>0, <1>1, <1>7 DEF FallbackEnds, NextRow
  <2>2. webRow' = webRow /\ \A f \in Events \ {e} : web'[f] = web[f]
    BY <1>1, <1>7 DEF FallbackEnds
  <2> QED
    BY <1>3, <2>1, <2>2 DEF FallbackSoFar
<1>8. ASSUME NEW e \in Events, Commit(e) \/ Publish(e) \/ WebDies(e)
      PROVE  FallbackSoFar'
  <2>1. webRow' = webRow
    BY <1>8 DEF Commit, Publish, PublishAnswered, PublishTimesOut, PublishFails, WebDies
  <2>2. \A f \in Events : web'[f] = "done" => web[f] = "done"
    BY <1>1, <1>8
    DEF Commit, Publish, PublishAnswered, PublishTimesOut, PublishFails, WebDies
  <2> QED
    BY <1>4, <2>1, <2>2
<1>9. ASSUME NEW w \in Workers, WorkerStep(w)
      PROVE  FallbackSoFar'
  <2>1. UNCHANGED <<web, webRow>>
    BY <1>9 DEF WorkerStep, StartWorker, Read, ReadAnswerLost, WorkerWrites,
           WorkerHandlerRaises, Ack, Signal, StopIdle, WorkerDies, webVars
  <2> QED
    BY <1>4, <2>1
<1> QED
  BY <1>5, <1>6, <1>7, <1>8, <1>9 DEF BusNext, WebStep

LEMMA WhereEventsAreStep ==
  BusInv /\ BusInv' /\ WhereEventsAre /\ [BusNext]_busVars => WhereEventsAre'
<1> SUFFICES ASSUME BusInv, BusInv', WhereEventsAre, [BusNext]_busVars
             PROVE  WhereEventsAre'
  OBVIOUS
<1>1. CASE BusNext
  <2>1. BusTypeOK'
    BY DEF BusInv
  <2> QED
    BY <1>1, <2>1, PublishedStep, CursorSweepsStep, FallbackSoFarStep DEF WhereEventsAre
<1>2. CASE UNCHANGED busVars
  BY <1>2 DEF busVars, webVars, redisVars, WhereEventsAre, PublishedIsInStream,
              CursorSweeps, FallbackSoFar, Entries, Delivered
<1> QED
  BY <1>1, <1>2

(***************************************************************************)
(* No committed event is forgotten, for any number of workers: what is not *)
(* notified and not lost in one of the ways named is still before a        *)
(* process that lives, or in the stream after the cursor.                  *)
(***************************************************************************)
THEOREM NobodyForgets == BusSpec => []NothingForgotten
<1>1. BusInv /\ WhereEventsAre => NothingForgotten
  <2> SUFFICES ASSUME BusInv, WhereEventsAre, NEW e \in Events,
                      web[e] # "idle", ~Excused(e), ~UnderWay(e)
               PROVE  Notified(e)
    BY DEF NothingForgotten
  <2>1. web[e] \in {"published", "done"}
    BY DEF BusInv, BusTypeOK, WebState, Excused, UnderWay
  <2>2. CASE web[e] = "done"
    BY <2>2 DEF WhereEventsAre, FallbackSoFar, Notified, Excused
  <2>3. CASE web[e] = "published"
    <3>1. PICK i \in Entries : stream[i] = e
      BY <2>3 DEF WhereEventsAre, PublishedIsInStream
    <3>2. i \in Delivered
      <4>1. i \in Nat /\ cursor \in Int /\ origin \in Int /\ trimmed \in Nat
        BY DEF BusInv, BusTypeOK, Entries, NoGroup
      <4>2. i <= cursor \/ i <= trimmed
        BY <3>1, <4>1 DEF UnderWay, Unread
      <4> QED
        BY <3>1, <4>2 DEF WhereEventsAre, CursorSweeps, Excused, PassedOver
    <3>3. i \notin Held
      BY <3>1 DEF UnderWay
    <3>4. i \in acked
      BY <3>1, <3>2, <3>3 DEF Excused, Abandoned, Delivered
    <3> QED
      BY <3>1, <3>4 DEF BusInv, AckedIsHandled, Excused
  <2> QED
    BY <2>1, <2>2, <2>3
<1>2. BusInit => WhereEventsAre
  BY DEF BusInit, WhereEventsAre, PublishedIsInStream, CursorSweeps, FallbackSoFar, Entries
<1> QED
  BY <1>1, <1>2, BusInvariant, WhereEventsAreStep, PTL DEF BusSpec

=============================================================================
