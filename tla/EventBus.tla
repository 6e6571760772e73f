------------------------------ MODULE EventBus -------------------------------
(***************************************************************************)
(* From a committed transaction to the notification rows: publish after    *)
(* commit, the Redis stream with its consumer group or the synchronous     *)
(* fallback, the event workers, dispatch and notify.                       *)
(*                                                                         *)
(* A handler is the number of Notification rows it writes, each committed  *)
(* on its own: notify catches what a channel raises and records it, so a   *)
(* row is written either way; when the writing itself raises, dispatch     *)
(* logs that and the rest of the handler is skipped.                       *)
(*                                                                         *)
(* Redis is external: the stream with its bound, the group's cursor and    *)
(* the entries delivered and not yet acknowledged.                         *)
(***************************************************************************)
EXTENDS Integers, Sequences, FiniteSets

CONSTANTS
  Events,     \* events that get published
  Workers,    \* run_event_worker processes
  Rows,       \* Notification rows a handler writes
  Count,      \* entries per read (--count)
  MaxLen      \* maxlen of the stream

ASSUME EventBusAssumption ==
  Rows \in Nat \ {0} /\ Count \in Nat \ {0} /\ MaxLen \in Nat \ {0}

VARIABLES
  web,        \* what the web process does with an event
  webRow,     \* rows its fallback dispatch has written so far
  stream,     \* every entry ever added, oldest first
  trimmed,    \* how many of the oldest ones have been dropped
  origin,     \* the entry after which the group was created; NoGroup before
  cursor,     \* the last entry delivered to the group
  pending,    \* entries delivered and not acknowledged
  acked,      \* entries acknowledged
  worker,     \* what a worker process does
  stopping,   \* a worker that has got SIGTERM or SIGINT
  batch,      \* the entries a worker has read and not finished
  workerRow,  \* rows written so far for the first of them
  copies,     \* Notification rows: how many of each
  failed      \* events one of whose handler runs has raised (logged)

webVars == <<web, webRow>>
redisVars == <<stream, trimmed, origin, cursor, pending, acked>>
workerVars == <<worker, stopping, batch, workerRow>>
busVars == <<webVars, redisVars, workerVars, copies, failed>>

NoGroup == -1

\* idle: not committed.  committed: on_commit is due.  published: XADD was
\* answered.  fallback, done, cut: XADD was not; dispatch runs in the request,
\* has ended, was cut off.  lost: the process died before XADD.
WebState == {"idle", "committed", "published", "fallback", "done", "cut", "lost"}

FellBack(e) == web[e] \in {"fallback", "done", "cut"}

Entries == DOMAIN stream
Delivered == pending \cup acked

BusTypeOK ==
  /\ web \in [Events -> WebState]
  /\ webRow \in [Events -> 0..Rows]
  /\ stream \in Seq(Events)
  /\ trimmed \in 0..Len(stream)
  /\ origin \in {NoGroup} \cup 0..Len(stream)
  /\ cursor \in origin..Len(stream)
  /\ pending \cup acked \subseteq Entries
  /\ worker \in [Workers -> {"down", "listening", "handling"}]
  /\ stopping \in [Workers -> BOOLEAN]
  /\ batch \in [Workers -> Seq(Nat)]
  /\ workerRow \in [Workers -> 0..Rows]
  /\ copies \in [Events -> [1..Rows -> Nat]]
  /\ failed \subseteq Events

BusInit ==
  /\ web = [e \in Events |-> "idle"]
  /\ webRow = [e \in Events |-> 0]
  /\ stream = <<>>
  /\ trimmed = 0
  /\ origin = NoGroup
  /\ cursor = NoGroup
  /\ pending = {}
  /\ acked = {}
  /\ worker = [w \in Workers |-> "down"]
  /\ stopping = [w \in Workers |-> FALSE]
  /\ batch = [w \in Workers |-> <<>>]
  /\ workerRow = [w \in Workers |-> 0]
  /\ copies = [e \in Events |-> [k \in 1..Rows |-> 0]]
  /\ failed = {}

-----------------------------------------------------------------------------
(***************************************************************************)
(* Seeded faults: what a slip would make of a definition below.  No        *)
(* specification uses them.                                                *)
(***************************************************************************)
\* publish swallowing the error without falling back.
PublishFailsSilently(e) ==
  /\ web[e] = "committed"
  /\ web' = [web EXCEPT ![e] = "done"]
  /\ UNCHANGED <<webRow, redisVars, workerVars, copies, failed>>

\* --from-start rewinding a group that exists.
GroupCursorRewound(c) == 0

\* Every start putting the group at the end of the stream (SETID with "$").
GroupCursorAtEnd(c) == Len(stream)

\* XACK before dispatch.
FinishedAlways(w) == TRUE

\* A handler that goes on after its last row.
NextRowTooFar(k) == k <= Rows
-----------------------------------------------------------------------------
(***************************************************************************)
(* The web process.                                                        *)
(***************************************************************************)
\* The transaction that queued the event commits; Django then runs on_commit.
Commit(e) ==
  /\ web[e] = "idle"
  /\ web' = [web EXCEPT ![e] = "committed"]
  /\ UNCHANGED <<webRow, redisVars, workerVars, copies, failed>>

\* XADD: one more entry; with approximate=True some of the surplus goes.
Xadd(e) ==
  /\ stream' = Append(stream, e)
  /\ trimmed' \in {trimmed} \cup trimmed..(Len(stream') - MaxLen)
  /\ UNCHANGED <<origin, cursor, pending, acked>>

PublishAnswered(e) ==
  /\ web[e] = "committed"
  /\ Xadd(e)
  /\ web' = [web EXCEPT ![e] = "published"]
  /\ UNCHANGED <<webRow, workerVars, copies, failed>>

\* Redis took the entry, but its answer did not come within socket_timeout.
PublishTimesOut(e) ==
  /\ web[e] = "committed"
  /\ Xadd(e)
  /\ web' = [web EXCEPT ![e] = "fallback"]
  /\ UNCHANGED <<webRow, workerVars, copies, failed>>

\* Redis cannot be reached.
PublishFails(e) ==
  /\ web[e] = "committed"
  /\ web' = [web EXCEPT ![e] = "fallback"]
  /\ UNCHANGED <<webRow, redisVars, workerVars, copies, failed>>

\* A handler, whoever runs it, has rows to write after its k-th; it writes one.
NextRow(k) == k < Rows
WriteRow(e, k) == copies' = [copies EXCEPT ![e][k] = @ + 1]

\* dispatch in the request, one row at a time; a handler that raises is logged.
FallbackWrites(e) ==
  /\ web[e] = "fallback" /\ NextRow(webRow[e])
  /\ WriteRow(e, webRow[e] + 1)
  /\ webRow' = [webRow EXCEPT ![e] = @ + 1]
  /\ UNCHANGED <<web, redisVars, workerVars, failed>>

FallbackRaises(e) ==
  /\ web[e] = "fallback" /\ NextRow(webRow[e])
  /\ webRow' = [webRow EXCEPT ![e] = Rows]
  /\ failed' = failed \cup {e}
  /\ UNCHANGED <<web, redisVars, workerVars, copies>>

FallbackEnds(e) ==
  /\ web[e] = "fallback" /\ ~NextRow(webRow[e])
  /\ web' = [web EXCEPT ![e] = "done"]
  /\ UNCHANGED <<webRow, redisVars, workerVars, copies, failed>>

\* The web process dies after the commit.
WebDies(e) ==
  /\ \/ web[e] = "committed" /\ web' = [web EXCEPT ![e] = "lost"]
     \/ web[e] = "fallback" /\ web' = [web EXCEPT ![e] = "cut"]
  /\ UNCHANGED <<webRow, redisVars, workerVars, copies, failed>>

-----------------------------------------------------------------------------
(***************************************************************************)
(* run_event_worker.                                                       *)
(***************************************************************************)
\* XGROUP CREATE fails with BUSYGROUP when the group exists: its cursor stays.
GroupCursor(c) == c

\* Starting creates the group, at the end of the stream or, with --from-start,
\* at its beginning.
StartWorker(w) ==
  /\ worker[w] = "down"
  /\ worker' = [worker EXCEPT ![w] = "listening"]
  /\ \/ /\ origin = NoGroup
        /\ origin' \in {0, Len(stream)}
        /\ cursor' = origin'
     \/ /\ origin # NoGroup
        /\ cursor' = GroupCursor(cursor)
        /\ UNCHANGED origin
  /\ UNCHANGED <<webVars, stream, trimmed, pending, acked,
                 stopping, batch, workerRow, copies, failed>>

\* What XREADGROUP > delivers: the entries after the cursor that are still
\* there, at most Count of them.
Unread == {i \in Entries : i > cursor /\ i > trimmed}
NextEntries == {i \in Unread : Cardinality({j \in Unread : j <= i}) <= Count}

Deliver ==
  /\ origin # NoGroup
  /\ NextEntries # {}
  /\ cursor' = CHOOSE i \in NextEntries : \A j \in NextEntries : j <= i
  /\ pending' = pending \cup NextEntries
  /\ UNCHANGED <<stream, trimmed, origin, acked>>

Read(w) ==
  /\ worker[w] = "listening"
  /\ Deliver
  /\ batch' = [batch EXCEPT ![w] =
       [k \in 1..Cardinality(NextEntries) |-> cursor' - Cardinality(NextEntries) + k]]
  /\ worker' = [worker EXCEPT ![w] = "handling"]
  /\ UNCHANGED <<webVars, stopping, workerRow, copies, failed>>

\* The connection breaks under the answer: a read error, and the worker reads
\* again, for new entries only.
ReadAnswerLost(w) ==
  /\ worker[w] = "listening"
  /\ Deliver
  /\ UNCHANGED <<webVars, workerVars, copies, failed>>

\* The event at hand.
Current(w) == stream[Head(batch[w])]

WorkerWrites(w) ==
  /\ worker[w] = "handling" /\ NextRow(workerRow[w])
  /\ WriteRow(Current(w), workerRow[w] + 1)
  /\ workerRow' = [workerRow EXCEPT ![w] = @ + 1]
  /\ UNCHANGED <<webVars, redisVars, worker, stopping, batch, failed>>

WorkerHandlerRaises(w) ==
  /\ worker[w] = "handling" /\ NextRow(workerRow[w])
  /\ workerRow' = [workerRow EXCEPT ![w] = Rows]
  /\ failed' = failed \cup {Current(w)}
  /\ UNCHANGED <<webVars, redisVars, worker, stopping, batch, copies>>

\* XACK, whether the handler raised or not; the loop looks at the signal's flag
\* only after the whole batch.
Finished(w) == ~NextRow(workerRow[w])

Ack(w) ==
  /\ worker[w] = "handling" /\ Finished(w)
  /\ pending' = pending \ {Head(batch[w])}
  /\ acked' = acked \cup {Head(batch[w])}
  /\ batch' = [batch EXCEPT ![w] = Tail(@)]
  /\ workerRow' = [workerRow EXCEPT ![w] = 0]
  /\ worker' = [worker EXCEPT ![w] =
       IF Len(batch[w]) > 1 THEN "handling" ELSE IF stopping[w] THEN "down" ELSE "listening"]
  /\ stopping' = [stopping EXCEPT ![w] = @ /\ worker'[w] # "down"]
  /\ UNCHANGED <<webVars, stream, trimmed, origin, cursor, copies, failed>>

Signal(w) ==
  /\ worker[w] # "down"
  /\ stopping' = [stopping EXCEPT ![w] = TRUE]
  /\ UNCHANGED <<webVars, redisVars, worker, batch, workerRow, copies, failed>>

\* A read that brings nothing (--block) lets the loop see the flag.
StopIdle(w) ==
  /\ worker[w] = "listening" /\ stopping[w]
  /\ worker' = [worker EXCEPT ![w] = "down"]
  /\ stopping' = [stopping EXCEPT ![w] = FALSE]
  /\ UNCHANGED <<webVars, redisVars, batch, workerRow, copies, failed>>

\* Killed, or XACK raised, which nothing catches.
WorkerDies(w) ==
  /\ worker[w] # "down"
  /\ worker' = [worker EXCEPT ![w] = "down"]
  /\ stopping' = [stopping EXCEPT ![w] = FALSE]
  /\ batch' = [batch EXCEPT ![w] = <<>>]
  /\ workerRow' = [workerRow EXCEPT ![w] = 0]
  /\ UNCHANGED <<webVars, redisVars, copies, failed>>

-----------------------------------------------------------------------------
Publish(e) == PublishAnswered(e) \/ PublishTimesOut(e) \/ PublishFails(e)

WebStep(e) ==
  \/ Commit(e) \/ Publish(e) \/ WebDies(e)
  \/ FallbackWrites(e) \/ FallbackRaises(e) \/ FallbackEnds(e)

WorkerStep(w) ==
  \/ StartWorker(w) \/ Read(w) \/ ReadAnswerLost(w)
  \/ WorkerWrites(w) \/ WorkerHandlerRaises(w) \/ Ack(w)
  \/ Signal(w) \/ StopIdle(w) \/ WorkerDies(w)

BusNext == (\E e \in Events : WebStep(e)) \/ (\E w \in Workers : WorkerStep(w))

(***************************************************************************)
(* A process that lives goes on: a due on_commit callback runs, dispatch   *)
(* goes through its handler, the worker's loop turns.  No fairness for     *)
(* commits, crashes, errors, signals, and none for starting a worker.      *)
(***************************************************************************)
BusFairness ==
  /\ \A e \in Events : /\ WF_busVars(Publish(e))
                       /\ WF_busVars(FallbackWrites(e))
                       /\ WF_busVars(FallbackEnds(e))
  /\ \A w \in Workers : /\ WF_busVars(Read(w))
                        /\ WF_busVars(WorkerWrites(w))
                        /\ WF_busVars(Ack(w))

BusSpec == BusInit /\ [][BusNext]_busVars /\ BusFairness

-----------------------------------------------------------------------------
(***************************************************************************)
(* A notification is recorded at most once, and twice only when XADD       *)
(* succeeded without being answered in time, so that the stream has the    *)
(* event and the request dispatches it too; crashes, lost answers and      *)
(* restarts add no copy.                                                   *)
(***************************************************************************)
Promised(e) == (IF \E i \in Entries : stream[i] = e THEN 1 ELSE 0)
                 + (IF FellBack(e) THEN 1 ELSE 0)

CopiesBounded ==
  \A e \in Events, k \in 1..Rows : copies[e][k] <= Promised(e)

Notified(e) == \A k \in 1..Rows : copies[e][k] > 0

(***************************************************************************)
(* An entry is acknowledged only once its handler has written every row or *)
(* has raised: whatever kills a worker, an entry it has not dealt with     *)
(* stays in the group's pending list, where it can be seen.                *)
(***************************************************************************)
AckedIsHandled == \A i \in acked : Notified(stream[i]) \/ stream[i] \in failed

\* What a worker holds; what no read will bring any more; what was read and is
\* held by nobody.
Held == UNION {{batch[w][k] : k \in DOMAIN batch[w]} : w \in Workers}

PassedOver(i) == i \notin Delivered /\ (i <= trimmed \/ i <= origin)
Abandoned(i) == i \in pending \ Held

\* The ways to lose an event: the process died before XADD or under the fallback;
\* a handler raised; the stream dropped the entry, or the group was created after
\* it, before a worker had read it; the worker that had read it died, or never
\* saw the answer.
Excused(e) ==
  \/ web[e] \in {"lost", "cut"}
  \/ e \in failed
  \/ \E i \in Entries : stream[i] = e /\ (PassedOver(i) \/ Abandoned(i))

\* on_commit is due, the fallback runs, a worker holds the entry, or it is in the
\* stream, where the group has yet to read it.
UnderWay(e) ==
  \/ web[e] \in {"committed", "fallback"}
  \/ \E i \in Entries : stream[i] = e /\ i \in Held \cup Unread

(***************************************************************************)
(* No committed event is forgotten: it is notified, or it is lost in one   *)
(* of the ways named, or somebody still has to do with it.  (No other way  *)
(* leads to silence: not an unreachable Redis, a late answer, a restart, a *)
(* signal.)                                                                *)
(***************************************************************************)
NothingForgotten ==
  \A e \in Events : web[e] # "idle" => Notified(e) \/ Excused(e) \/ UnderWay(e)

(***************************************************************************)
(* And if some worker stays up, nothing is under way for ever.             *)
(***************************************************************************)
SomeWorkerStays == \E w \in Workers : <>[](worker[w] # "down")

EventuallyNotified ==
  SomeWorkerStays =>
    \A e \in Events : (web[e] = "committed") ~> (Notified(e) \/ Excused(e))

==============================================================================
