----------------------------- MODULE TrackingDB -----------------------------
(***************************************************************************)
(* The background writer of src/quor/tracking/db.py: record(), flush() and *)
(* close() enqueue on a SimpleQueue; one worker thread connects, creates   *)
(* the schema, then stages INSERTs and commits them in batches.            *)
(*                                                                         *)
(* A record is its position in the order of the record() calls.  The       *)
(* sqlite3 connection is `staged' (the open transaction) and `committed'   *)
(* (what survives the process).  Time is counted in ticks of the batch     *)
(* interval, and only matters relative to the armed deadline.              *)
(***************************************************************************)
EXTENDS Integers, Sequences

CONSTANTS
    BatchMaxSize,      \* _BATCH_MAX_SIZE
    BatchInterval,     \* _BATCH_MAX_INTERVAL_SECONDS, in ticks
    SchemaAttempts,    \* the tries of _init_schema
    MaxRecords,        \* bound: record() calls
    MaxFlushes         \* bound: flush() calls

ASSUME TrackingAssumption ==
    /\ BatchMaxSize \in Nat \ {0}
    /\ BatchInterval \in Nat
    /\ SchemaAttempts \in Nat \ {0}
    /\ MaxRecords \in Nat
    /\ MaxFlushes \in Nat

VARIABLES
    queue,       \* items put and not yet taken by the worker, oldest first
    issued,      \* number of record() calls so far; records are 1..issued
    thread,      \* where the worker thread is
    attempt,     \* tries of _init_schema so far
    schema,      \* the tables exist in the database file
    staged,      \* records INSERTed in the open transaction
    committed,   \* records in the database file
    dropped,     \* records given up with a "tracking write error" warning
    pending,     \* the worker's count of staged records
    deadline,    \* ticks left before the batch must be committed, or NoDeadline
    age,         \* ticks since the oldest staged record was staged (observer)
    flushes,     \* one entry per flush() call: its answer, and issued when called
    closing      \* the same for close()

clientVars == <<issued, flushes, closing>>
diskVars   == <<schema, staged, committed, dropped>>
batchVars  == <<pending, deadline, age>>
vars == <<queue, thread, attempt, clientVars, diskVars, batchVars>>

NoDeadline == -1

RecordItem(r) == [kind |-> "record", id |-> r]
EventItem(f)  == [kind |-> "event", id |-> f]
StopItem      == [kind |-> "stop", id |-> 0]

Items == [kind : {"record"}, id : 1..MaxRecords]
         \cup [kind : {"event"}, id : 1..MaxFlushes]
         \cup {StopItem}

Unused == [answer |-> "none", upTo |-> 0]

Settled == committed \cup dropped

Init ==
    /\ queue = <<>>
    /\ issued = 0
    /\ thread = "connecting"
    /\ attempt = 0
    /\ schema \in BOOLEAN       \* an earlier process may have created it
    /\ staged = {}
    /\ committed = {}
    /\ dropped = {}
    /\ pending = 0
    /\ deadline = NoDeadline
    /\ age = 0
    /\ flushes = [f \in 1..MaxFlushes |-> Unused]
    /\ closing = Unused

-----------------------------------------------------------------------------
(* The callers' threads.                                                   *)

Record ==
    /\ issued < MaxRecords
    /\ thread # "killed"
    /\ issued' = issued + 1
    /\ queue' = Append(queue, RecordItem(issued + 1))
    /\ UNCHANGED <<thread, attempt, flushes, closing, diskVars, batchVars>>

Flush(f) ==
    /\ flushes[f] = Unused
    /\ \A g \in 1..(f - 1) : flushes[g] # Unused
    /\ thread # "killed"
    /\ flushes' = [flushes EXCEPT ![f] = [answer |-> "waiting", upTo |-> issued]]
    /\ queue' = Append(queue, EventItem(f))
    /\ UNCHANGED <<thread, attempt, issued, closing, diskVars, batchVars>>

(* done.wait(timeout) gives up; the Event stays in the queue.              *)
FlushTimeout(f) ==
    /\ flushes[f].answer = "waiting"
    /\ thread # "killed"
    /\ flushes' = [flushes EXCEPT ![f].answer = "false"]
    /\ UNCHANGED <<queue, thread, attempt, issued, closing, diskVars, batchVars>>

Close ==
    /\ closing = Unused
    /\ thread # "killed"
    /\ closing' = [answer |-> "waiting", upTo |-> issued]
    /\ queue' = Append(queue, StopItem)
    /\ UNCHANGED <<thread, attempt, issued, flushes, diskVars, batchVars>>

ThreadAlive == thread \in {"connecting", "running"}

(* join(timeout) returns, then is_alive() decides the answer.              *)
CloseReturn ==
    /\ closing.answer = "waiting"
    /\ thread # "killed"
    /\ closing' = [closing EXCEPT !.answer = IF ThreadAlive THEN "false" ELSE "true"]
    /\ UNCHANGED <<queue, thread, attempt, issued, flushes, diskVars, batchVars>>

-----------------------------------------------------------------------------
(* The worker thread: _connect and _init_schema.                           *)

SchemaApplied ==
    /\ thread = "connecting"
    /\ schema' = TRUE
    /\ thread' = "running"
    /\ UNCHANGED <<queue, attempt, staged, committed, dropped, clientVars, batchVars>>

(* OperationalError: rollback, then retry or, at the last attempt, raise.  *)
SchemaLocked ==
    /\ thread = "connecting"
    /\ attempt' = attempt + 1
    /\ thread' = IF attempt + 1 = SchemaAttempts THEN "failed" ELSE thread
    /\ UNCHANGED <<queue, clientVars, diskVars, batchVars>>

(* Any other exception of _connect: warn and return.                       *)
ConnectFails ==
    /\ thread = "connecting"
    /\ thread' = "failed"
    /\ UNCHANGED <<queue, attempt, clientVars, diskVars, batchVars>>

-----------------------------------------------------------------------------
(* The worker thread: one iteration of its loop each.                      *)

(* Mutant: the transaction is closed without a commit.                     *)
DiscardStaged == staged' = {} /\ committed' = committed

CommitStaged ==
    /\ committed' = committed \cup staged
    /\ staged' = {}

ResetBatch ==
    /\ pending' = 0
    /\ deadline' = NoDeadline
    /\ age' = 0

TakeItem(kind) ==
    /\ thread = "running"
    /\ queue # <<>>
    /\ Head(queue).kind = kind
    /\ queue' = Tail(queue)

(* queue.Empty: the batch interval has passed with nothing new.            *)
CommitOnInterval ==
    /\ thread = "running"
    /\ queue = <<>>
    /\ deadline = 0
    /\ CommitStaged
    /\ ResetBatch
    /\ UNCHANGED <<queue, thread, attempt, schema, dropped, clientVars>>

(* Mutants: the deadline is pushed back by every record; is never armed;   *)
(* is armed one tick late.                                                 *)
RearmedDeadline == BatchInterval
UnarmedDeadline == deadline
LateDeadline == IF deadline = NoDeadline THEN BatchInterval + 1 ELSE deadline

(* deadline is set by the first record staged after a reset.               *)
ArmedDeadline == IF deadline = NoDeadline THEN BatchInterval ELSE deadline

(* A record is staged; the batch is not full yet.                          *)
StageRecord ==
    /\ TakeItem("record")
    /\ pending + 1 < BatchMaxSize
    /\ staged' = staged \cup {Head(queue).id}
    /\ pending' = pending + 1
    /\ deadline' = ArmedDeadline
    /\ age' = IF staged = {} THEN 0 ELSE age
    /\ UNCHANGED <<thread, attempt, schema, committed, dropped, clientVars>>

(* A record is staged and fills the batch: commit.                         *)
StageAndCommit ==
    /\ TakeItem("record")
    /\ pending + 1 >= BatchMaxSize
    /\ committed' = committed \cup staged \cup {Head(queue).id}
    /\ staged' = {}
    /\ ResetBatch
    /\ UNCHANGED <<thread, attempt, schema, dropped, clientVars>>

(* Mutant: a record whose INSERT failed is put back in the queue.          *)
StageFailsAndRequeues ==
    /\ thread = "running"
    /\ queue # <<>>
    /\ Head(queue).kind = "record"
    /\ queue' = Append(Tail(queue), Head(queue))
    /\ UNCHANGED <<thread, attempt, clientVars, diskVars, batchVars>>

(* The INSERT raises: the record is dropped with a warning.                *)
StageFails ==
    /\ TakeItem("record")
    /\ dropped' = dropped \cup {Head(queue).id}
    /\ UNCHANGED <<thread, attempt, schema, staged, committed, clientVars, batchVars>>

(* The commit of a full batch raises after the INSERT went through: a busy *)
(* database keeps the transaction open, an I/O error rolls it back.  The   *)
(* count and the deadline are not reset.                                   *)
BatchCommitFails ==
    /\ TakeItem("record")
    /\ pending + 1 >= BatchMaxSize
    /\ \/ /\ staged' = staged \cup {Head(queue).id}
          /\ dropped' = dropped
       \/ /\ staged' = {}
          /\ dropped' = dropped \cup staged \cup {Head(queue).id}
    /\ pending' = pending + 1
    /\ deadline' = ArmedDeadline
    /\ age' = IF staged = {} \/ staged' = {} THEN 0 ELSE age
    /\ UNCHANGED <<thread, attempt, schema, committed, clientVars>>

(* Mutant: the worker commits and never sets the Event.                    *)
NotServed(answer) == answer

(* Setting an Event whose caller timed out changes nothing.                *)
Served(answer) == IF answer = "waiting" THEN "true" ELSE answer

(* A flush() Event: commit, then set it.  The count and the deadline of    *)
(* the batch just committed are left as they were.                         *)
AnswerFlush ==
    /\ TakeItem("event")
    /\ CommitStaged
    /\ age' = 0
    /\ flushes' = [flushes EXCEPT ![Head(queue).id].answer = Served(@)]
    /\ UNCHANGED <<thread, attempt, schema, dropped, pending, deadline, issued, closing>>

Stop ==
    /\ TakeItem("stop")
    /\ CommitStaged
    /\ age' = 0
    /\ thread' = "stopped"
    /\ UNCHANGED <<attempt, schema, dropped, pending, deadline, clientVars>>

(* The three commits outside the try block raise: the exception ends the   *)
(* thread and the open transaction is lost with its connection.            *)
UnguardedCommitFails ==
    /\ \/ TakeItem("event")
       \/ TakeItem("stop")
       \/ thread = "running" /\ queue = <<>> /\ deadline = 0 /\ queue' = queue
    /\ thread' = "died"
    /\ staged' = {}
    /\ age' = 0
    /\ UNCHANGED <<attempt, schema, committed, dropped, pending, deadline, clientVars>>

-----------------------------------------------------------------------------
(* The environment.                                                        *)

Tick ==
    /\ thread = "running"
    /\ deadline > 0
    /\ deadline' = deadline - 1
    /\ age' = IF staged = {} THEN 0 ELSE age + 1
    /\ UNCHANGED <<queue, thread, attempt, clientVars, diskVars, pending>>

(* A hard kill: the queue and the open transaction are lost.               *)
Kill ==
    /\ thread # "killed"
    /\ thread' = "killed"
    /\ queue' = <<>>
    /\ staged' = {}
    /\ age' = 0
    /\ UNCHANGED <<attempt, schema, committed, dropped, clientVars, pending, deadline>>

Worker ==
    \/ SchemaApplied \/ SchemaLocked \/ ConnectFails
    \/ CommitOnInterval \/ StageRecord \/ StageAndCommit \/ StageFails
    \/ BatchCommitFails \/ AnswerFlush \/ Stop \/ UnguardedCommitFails

Next ==
    \/ Record
    \/ \E f \in 1..MaxFlushes : Flush(f) \/ FlushTimeout(f)
    \/ Close
    \/ CloseReturn
    \/ Worker
    \/ Tick
    \/ Kill

Spec == Init /\ [][Next]_vars

(* The operating system runs the worker thread and time passes; nothing is *)
(* assumed of the callers.                                                 *)
FairSpec == Spec /\ WF_vars(Worker) /\ WF_vars(Tick)

-----------------------------------------------------------------------------
(* Every variable keeps its type.                                          *)
TypeOK ==
    /\ queue \in Seq(Items)
    /\ issued \in 0..MaxRecords
    /\ thread \in {"connecting", "running", "failed", "stopped", "died", "killed"}
    /\ attempt \in 0..SchemaAttempts
    /\ schema \in BOOLEAN
    /\ staged \subseteq 1..MaxRecords
    /\ committed \subseteq 1..MaxRecords
    /\ dropped \subseteq 1..MaxRecords
    /\ pending \in Nat
    /\ deadline \in {NoDeadline} \cup 0..BatchInterval
    /\ age \in Nat
    /\ flushes \in [1..MaxFlushes ->
                      [answer : {"none", "waiting", "true", "false"}, upTo : 0..MaxRecords]]
    /\ closing \in [answer : {"none", "waiting", "true", "false"}, upTo : 0..MaxRecords]

(* flush() "must observe every record enqueued so far": once it answered   *)
(* TRUE, every record enqueued before the call is in the database or was   *)
(* dropped with a warning, whatever happens to the process afterwards.     *)
FlushedRecordsAreSettled ==
    \A f \in 1..MaxFlushes :
        flushes[f].answer = "true" => 1..flushes[f].upTo \subseteq Settled /\ schema

(* close() answers TRUE after a worker that reached _STOP only when every  *)
(* record enqueued before the call is settled.                             *)
StoppedWorkerSettledAll ==
    closing.answer = "true" /\ thread = "stopped"
        => 1..closing.upTo \subseteq Settled /\ schema

(* The documented promise of close(): TRUE only "once the worker has       *)
(* genuinely caught up (including, for a brand-new instance, having        *)
(* created the schema)".                                                   *)
CloseTrueMeansCaughtUp ==
    closing.answer = "true" => 1..closing.upTo \subseteq Settled /\ schema

(* While the worker loops, no staged record is held without a commit       *)
(* scheduled, whichever of flush, failed commit and refill came before.    *)
StagedRowsHaveADeadline ==
    thread = "running" /\ staged # {} => deadline # NoDeadline

(* "Commit at most this long after the first not-yet-committed INSERT":    *)
(* the armed deadline is never later than one interval after the oldest    *)
(* staged record, although flush() leaves an old deadline armed and later  *)
(* records never move it.                                                  *)
DeadlineCountsFromOldestRow ==
    staged # {} /\ thread = "running" => age + deadline <= BatchInterval

(* Rows reach the database in the order of the record() calls: what is     *)
(* committed is older than what is staged, and both are older than what is *)
(* queued, so a crash loses a suffix of the history and never a hole other *)
(* than a dropped record.                                                  *)
QueuedRecords == {queue[i].id : i \in {j \in DOMAIN queue : queue[j].kind = "record"}}

CommitOrder ==
    /\ \A c \in committed, s \in staged : c < s
    /\ \A old \in committed \cup staged \cup dropped, new \in QueuedRecords : old < new

(* No record disappears without a warning while the worker is alive: it is *)
(* settled, in the open transaction or in the queue.                       *)
NothingLostSilently ==
    ThreadAlive => 1..issued = Settled \cup staged \cup QueuedRecords

(* The strengthening that makes the invariants above inductive: where each *)
(* kind of item stands in the queue relative to the records it promises.   *)
IsRecord(i) == queue[i].kind = "record"

QueueInOrder ==
    \A i, j \in DOMAIN queue : i < j /\ IsRecord(i) /\ IsRecord(j) => queue[i].id < queue[j].id

EventsFollowTheirRecords ==
    \A i \in DOMAIN queue :
        queue[i].kind = "event" =>
            /\ flushes[queue[i].id].answer # "none"
            /\ \A j \in DOMAIN queue :
                   i < j /\ IsRecord(j) => flushes[queue[i].id].upTo < queue[j].id

StopFollowsItsRecords ==
    \A i \in DOMAIN queue :
        queue[i].kind = "stop" =>
            /\ closing.answer # "none"
            /\ \A j \in DOMAIN queue : i < j /\ IsRecord(j) => closing.upTo < queue[j].id

OnlyIssuedRecords ==
    /\ \A r \in staged \cup Settled \cup QueuedRecords : r <= issued
    /\ \A f \in 1..MaxFlushes : flushes[f].upTo <= issued
    /\ closing.upTo <= issued
    /\ dropped \cap (staged \cup committed) = {}

WorkerHistory ==
    /\ thread = "running" => schema
    /\ thread = "connecting" => staged = {} /\ attempt < SchemaAttempts
    /\ thread = "stopped" =>
          closing.answer # "none" /\ 1..closing.upTo \subseteq Settled /\ schema

IInv ==
    /\ TypeOK
    /\ QueueInOrder
    /\ EventsFollowTheirRecords
    /\ StopFollowsItsRecords
    /\ OnlyIssuedRecords
    /\ WorkerHistory
    /\ CommitOrder
    /\ NothingLostSilently
    /\ FlushedRecordsAreSettled
    /\ StagedRowsHaveADeadline
    /\ DeadlineCountsFromOldestRow

-----------------------------------------------------------------------------
(* Every record is eventually settled, unless the worker is gone.          *)
EveryRecordSettles ==
    \A r \in 1..MaxRecords :
        r <= issued ~> r \in Settled \/ ~ThreadAlive

(* A waiting flush() is eventually served or timed out, unless the worker  *)
(* is gone.                                                                *)
EveryFlushIsServed ==
    \A f \in 1..MaxFlushes :
        flushes[f].answer = "waiting" ~> flushes[f].answer # "waiting" \/ ~ThreadAlive

-----------------------------------------------------------------------------
(* The writer implements the durable log: every flush() that answered TRUE *)
(* is one of its acknowledgements, and a kill at any point loses nothing   *)
(* that was acknowledged.                                                  *)
Acknowledged ==
    {flushes[f].upTo : f \in {g \in 1..MaxFlushes : flushes[g].answer = "true"}}

Log == INSTANCE DurableLog WITH
           accepted <- issued, stored <- committed,
           givenUp <- dropped, acked <- Acknowledged

ImplementsLog == Log!LogSpec
=============================================================================
