-------------------------- MODULE TrackingDBProofs --------------------------
(***************************************************************************)
(* The safety of the background writer, for every batch size, interval,    *)
(* number of schema attempts, of records and of flushes; and, for every    *)
(* table it may leave behind and every run, that the reports add up.       *)
(***************************************************************************)
EXTENDS TrackingDB, AlgorithmCases, OperatorTheorems, TLAPS

(* A put at the tail adds at most its own record to the queued ones.       *)
LEMMA PutQueues ==
    ASSUME NEW item \in Items, queue \in Seq(Items), queue' = Append(queue, item)
    PROVE  /\ queue' \in Seq(Items)
           /\ DOMAIN queue = 1..Len(queue) /\ Len(queue) \in Nat
           /\ DOMAIN queue' = 1..(Len(queue) + 1)
           /\ \A i \in 1..Len(queue) : queue'[i] = queue[i]
           /\ queue'[Len(queue) + 1] = item
           /\ QueuedRecords' = QueuedRecords \cup
                                 (IF item.kind = "record" THEN {item.id} ELSE {})
<1>1. /\ queue' \in Seq(Items)
      /\ Len(queue') = Len(queue) + 1
      /\ \A i \in 1..Len(queue) : queue'[i] = queue[i]
      /\ queue'[Len(queue) + 1] = item
  OBVIOUS
<1>2. DOMAIN queue = 1..Len(queue) /\ DOMAIN queue' = 1..(Len(queue) + 1)
  BY <1>1
<1>3. ASSUME NEW r PROVE r \in QueuedRecords' <=>
        r \in QueuedRecords \cup (IF item.kind = "record" THEN {item.id} ELSE {})
  <2>1. r \in QueuedRecords' <=>
          \E i \in 1..(Len(queue) + 1) : queue'[i].kind = "record" /\ queue'[i].id = r
    BY <1>2 DEF QueuedRecords
  <2>2. r \in QueuedRecords <=>
          \E i \in 1..Len(queue) : queue[i].kind = "record" /\ queue[i].id = r
    BY <1>2 DEF QueuedRecords
  <2>3. Len(queue) \in Nat
    OBVIOUS
  <2> QED BY <1>1, <2>1, <2>2, <2>3
<1> QED BY <1>1, <1>2, <1>3

(* A get at the head removes at most its own record, and the items behind  *)
(* it move up by one.                                                      *)
LEMMA GetDequeues ==
    ASSUME queue \in Seq(Items), queue # <<>>, queue' = Tail(queue)
    PROVE  /\ queue' \in Seq(Items)
           /\ Head(queue) \in Items
           /\ Head(queue) = queue[1]
           /\ Len(queue) \in Nat \ {0}
           /\ Len(queue') = Len(queue) - 1
           /\ DOMAIN queue = 1..Len(queue) /\ DOMAIN queue' = 1..Len(queue')
           /\ \A i \in 1..Len(queue') : queue'[i] = queue[i + 1]
           /\ QueuedRecords = QueuedRecords' \cup
                 (IF Head(queue).kind = "record" THEN {Head(queue).id} ELSE {})
<1>1. /\ queue' \in Seq(Items)
      /\ Head(queue) \in Items
      /\ Head(queue) = queue[1]
      /\ Len(queue) \in Nat \ {0}
      /\ Len(queue') = Len(queue) - 1
      /\ \A i \in 1..Len(queue') : queue'[i] = queue[i + 1]
  OBVIOUS
<1>2. DOMAIN queue = 1..Len(queue) /\ DOMAIN queue' = 1..Len(queue')
  BY <1>1
<1>3. ASSUME NEW r PROVE r \in QueuedRecords <=> r \in QueuedRecords' \cup
                 (IF Head(queue).kind = "record" THEN {Head(queue).id} ELSE {})
  <2>1. r \in QueuedRecords' <=>
          \E i \in 1..Len(queue') : queue'[i].kind = "record" /\ queue'[i].id = r
    BY <1>2 DEF QueuedRecords
  <2>2. r \in QueuedRecords <=>
          \E i \in 1..Len(queue) : queue[i].kind = "record" /\ queue[i].id = r
    BY <1>2 DEF QueuedRecords
  <2>3. (\E i \in 1..Len(queue) : queue[i].kind = "record" /\ queue[i].id = r)
          <=> \/ queue[1].kind = "record" /\ queue[1].id = r
              \/ \E i \in 1..Len(queue') : queue[i + 1].kind = "record" /\ queue[i + 1].id = r
    <3>1. \A i \in 2..Len(queue) : i - 1 \in 1..Len(queue') /\ (i - 1) + 1 = i
      BY <1>1
    <3>2. 1 \in 1..Len(queue) /\ \A i \in 1..Len(queue') : i + 1 \in 1..Len(queue)
      BY <1>1
    <3>3. \A i \in 1..Len(queue) : i = 1 \/ i \in 2..Len(queue)
      BY <1>1
    <3> QED BY <3>1, <3>2, <3>3
  <2> QED BY <1>1, <2>1, <2>2, <2>3
<1> QED BY <1>1, <1>2, <1>3

-----------------------------------------------------------------------------
USE TrackingAssumption

(* The constants' sets, and the shape of an item.                          *)
LEMMA ItemShape ==
    \A item \in Items :
        /\ item.kind \in {"record", "event", "stop"}
        /\ item.kind = "record" => item.id \in 1..MaxRecords
        /\ item.kind = "event" => item.id \in 1..MaxFlushes
BY DEF Items, StopItem

(* The records of the queue are the record items in it. *)
LEMMA QueuedAreRecords ==
    ASSUME queue \in Seq(Items) PROVE QueuedRecords \subseteq 1..MaxRecords
<1>1. \A i \in DOMAIN queue : queue[i] \in Items
  OBVIOUS
<1> QED BY <1>1, ItemShape DEF QueuedRecords

(* The writer starts in a state of the inductive invariant.                *)
LEMMA InitIInv == Init => IInv
<1> SUFFICES ASSUME Init PROVE IInv
  OBVIOUS
<1>1. DOMAIN queue = {} /\ QueuedRecords = {} /\ queue \in Seq(Items)
  BY DEF Init, QueuedRecords
<1>2. TypeOK
  BY <1>1 DEF Init, TypeOK, NoDeadline, Unused
<1> QED
  BY <1>1, <1>2
  DEF Init, IInv, QueueInOrder, EventsFollowTheirRecords, StopFollowsItsRecords,
      OnlyIssuedRecords, WorkerHistory, CommitOrder, NothingLostSilently, Settled,
      FlushedRecordsAreSettled, StagedRowsHaveADeadline, DeadlineCountsFromOldestRow,
      Unused, ThreadAlive

(* Where a put or a get leaves the queue's promises.                       *)
QueueInv == QueueInOrder /\ EventsFollowTheirRecords /\ StopFollowsItsRecords

(* An appended record is newer than every promise made so far; an appended *)
(* Event or _STOP promises the records before it.                          *)
LEMMA PutKeepsQueueInv ==
    ASSUME TypeOK, QueueInv, OnlyIssuedRecords,
           NEW item \in Items, queue' = Append(queue, item),
           item.kind = "record" => item.id = issued + 1,
           item.kind = "event" => flushes'[item.id].answer # "none",
           item.kind = "stop" => closing'.answer # "none",
           \A f \in 1..MaxFlushes :
               flushes[f].answer # "none" => flushes'[f] = flushes[f],
           closing.answer # "none" => closing' = closing
    PROVE  QueueInv'
<1>1. /\ DOMAIN queue = 1..Len(queue) /\ Len(queue) \in Nat
      /\ DOMAIN queue' = 1..(Len(queue) + 1)
      /\ \A i \in 1..Len(queue) : queue'[i] = queue[i]
      /\ queue'[Len(queue) + 1] = item
  BY PutQueues DEF TypeOK
<1>2. \A i \in 1..Len(queue) : queue[i] \in Items
  BY <1>1 DEF TypeOK
<1>3. \A i \in 1..Len(queue) : queue[i].kind = "record" => queue[i].id <= issued
  BY <1>1 DEF OnlyIssuedRecords, QueuedRecords
<1>4. QueueInOrder'
  BY <1>1, <1>2, <1>3, ItemShape DEF QueueInv, QueueInOrder, IsRecord, TypeOK
<1>5. EventsFollowTheirRecords'
  <2> SUFFICES ASSUME NEW i \in DOMAIN queue', queue'[i].kind = "event"
               PROVE  /\ flushes'[queue'[i].id].answer # "none"
                      /\ \A j \in DOMAIN queue' : i < j /\ IsRecord(j)'
                            => flushes'[queue'[i].id].upTo < queue'[j].id
    BY DEF EventsFollowTheirRecords, IsRecord
  <2>1. CASE i = Len(queue) + 1
    BY <2>1, <1>1
  <2>2. CASE i \in 1..Len(queue)
    <3>1. queue'[i] = queue[i] /\ queue[i].id \in 1..MaxFlushes
      BY <2>2, <1>1, <1>2, ItemShape
    <3>2. /\ flushes[queue[i].id].answer # "none"
          /\ flushes'[queue[i].id] = flushes[queue[i].id]
          /\ \A j \in 1..Len(queue) : i < j /\ queue[j].kind = "record"
                => flushes[queue[i].id].upTo < queue[j].id
      BY <3>1, <2>2, <1>1 DEF QueueInv, EventsFollowTheirRecords, IsRecord
    <3>3. /\ flushes[queue[i].id].upTo \in Nat
          /\ flushes[queue[i].id].upTo < issued + 1
      <4> DEFINE f == queue[i].id
      <4>1. f \in 1..MaxFlushes
        BY <3>1
      <4> HIDE DEF f
      <4>2. flushes[f].upTo \in 0..MaxRecords /\ MaxRecords \in Nat /\ issued \in 0..MaxRecords
        BY <4>1, TrackingAssumption DEF TypeOK
      <4>3. flushes[f].upTo <= issued
        BY <4>1 DEF OnlyIssuedRecords
      <4>4. flushes[f].upTo \in Nat /\ flushes[f].upTo < issued + 1
        BY <4>2, <4>3
      <4> QED BY <4>4 DEF f
    <3> QED BY <3>1, <3>2, <3>3, <1>1 DEF IsRecord
  <2> QED BY <2>1, <2>2, <1>1
<1>6. StopFollowsItsRecords'
  <2> SUFFICES ASSUME NEW i \in DOMAIN queue', queue'[i].kind = "stop"
               PROVE  /\ closing'.answer # "none"
                      /\ \A j \in DOMAIN queue' : i < j /\ IsRecord(j)'
                            => closing'.upTo < queue'[j].id
    BY DEF StopFollowsItsRecords, IsRecord
  <2>1. CASE i = Len(queue) + 1
    BY <2>1, <1>1
  <2>2. CASE i \in 1..Len(queue)
    <3>1. /\ queue'[i] = queue[i] /\ closing.answer # "none" /\ closing' = closing
          /\ \A j \in 1..Len(queue) : i < j /\ queue[j].kind = "record"
                => closing.upTo < queue[j].id
      BY <2>2, <1>1 DEF QueueInv, StopFollowsItsRecords, IsRecord
    <3>2. closing.upTo \in Nat /\ closing.upTo < issued + 1
      BY DEF OnlyIssuedRecords, TypeOK
    <3> QED BY <3>1, <3>2, <1>1 DEF IsRecord
  <2> QED BY <2>1, <2>2, <1>1
<1> QED BY <1>4, <1>5, <1>6 DEF QueueInv

(* A get keeps them, and what it takes is older than what stays: a record  *)
(* precedes the queued ones, an Event or _STOP promises none of them.      *)
LEMMA GetKeepsQueueInv ==
    ASSUME TypeOK, QueueInv, queue # <<>>, queue' = Tail(queue),
           \A f \in 1..MaxFlushes :
               /\ flushes'[f].upTo = flushes[f].upTo
               /\ flushes[f].answer # "none" => flushes'[f].answer # "none",
           closing' = closing
    PROVE  /\ QueueInv'
           /\ Head(queue).kind = "record" =>
                 \A r \in QueuedRecords' : Head(queue).id < r
           /\ Head(queue).kind = "event" =>
                 \A r \in QueuedRecords' : flushes[Head(queue).id].upTo < r
           /\ Head(queue).kind = "stop" =>
                 closing.answer # "none" /\ \A r \in QueuedRecords' : closing.upTo < r
<1>1. /\ Head(queue) = queue[1]
      /\ Len(queue) \in Nat \ {0}
      /\ Len(queue') = Len(queue) - 1
      /\ DOMAIN queue = 1..Len(queue) /\ DOMAIN queue' = 1..Len(queue')
      /\ \A i \in 1..Len(queue') : queue'[i] = queue[i + 1]
  BY GetDequeues DEF TypeOK
<1>2. \A i \in 1..Len(queue') : i + 1 \in DOMAIN queue /\ 1 < i + 1
  BY <1>1
<1>3. \A i \in DOMAIN queue : queue[i] \in Items
  BY <1>1 DEF TypeOK
<1>4. QueueInOrder'
  BY <1>1, <1>2 DEF QueueInv, QueueInOrder, IsRecord
<1>5. EventsFollowTheirRecords'
  <2> SUFFICES ASSUME NEW i \in DOMAIN queue', queue'[i].kind = "event"
               PROVE  /\ flushes'[queue'[i].id].answer # "none"
                      /\ \A j \in DOMAIN queue' : i < j /\ queue'[j].kind = "record"
                            => flushes'[queue'[i].id].upTo < queue'[j].id
    BY DEF EventsFollowTheirRecords, IsRecord
  <2>1. queue'[i] = queue[i + 1] /\ queue[i + 1].id \in 1..MaxFlushes
    BY <1>1, <1>2, <1>3, ItemShape
  <2>2. /\ flushes[queue[i + 1].id].answer # "none"
        /\ \A j \in DOMAIN queue : i + 1 < j /\ queue[j].kind = "record"
              => flushes[queue[i + 1].id].upTo < queue[j].id
    BY <1>1, <1>2, <2>1 DEF QueueInv, EventsFollowTheirRecords, IsRecord
  <2>3. /\ flushes'[queue[i + 1].id].answer # "none"
        /\ flushes'[queue[i + 1].id].upTo = flushes[queue[i + 1].id].upTo
    BY <2>1, <2>2
  <2>4. ASSUME NEW j \in DOMAIN queue', i < j, queue'[j].kind = "record"
        PROVE  flushes[queue[i + 1].id].upTo < queue'[j].id
    <3>1. queue'[j] = queue[j + 1] /\ j + 1 \in DOMAIN queue /\ i + 1 < j + 1
      BY <1>1, <1>2, <2>4
    <3> QED BY <2>2, <2>4, <3>1
  <2> QED BY <2>1, <2>3, <2>4
<1>6. StopFollowsItsRecords'
  BY <1>1, <1>2 DEF QueueInv, StopFollowsItsRecords, IsRecord
<1>7. \A r \in QueuedRecords' :
         \E j \in DOMAIN queue : 1 < j /\ IsRecord(j) /\ queue[j].id = r
  BY <1>1, <1>2 DEF QueuedRecords, IsRecord
<1>8. 1 \in DOMAIN queue
  BY <1>1
<1> QED BY <1>1, <1>4, <1>5, <1>6, <1>7, <1>8
        DEF QueueInv, QueueInOrder, EventsFollowTheirRecords, StopFollowsItsRecords, IsRecord
-----------------------------------------------------------------------------
(* The rest of the invariant, about where the records are.                 *)
DataInv ==
    /\ OnlyIssuedRecords
    /\ WorkerHistory
    /\ CommitOrder
    /\ NothingLostSilently
    /\ FlushedRecordsAreSettled
    /\ StagedRowsHaveADeadline
    /\ DeadlineCountsFromOldestRow

(* The invariant as types, queue part and data part. *)
LEMMA IInvParts == IInv <=> TypeOK /\ QueueInv /\ DataInv
BY DEF IInv, QueueInv, DataInv

(* The same after a step. *)
LEMMA IInvPartsPrimed == IInv' <=> TypeOK' /\ QueueInv' /\ DataInv'
BY DEF IInv, QueueInv, DataInv

(* record() appends the newest record.                                     *)
LEMMA RecordStep == IInv /\ Record => IInv'
<1> SUFFICES ASSUME IInv, Record PROVE IInv'
  OBVIOUS
<1> USE IInvParts
<1> DEFINE item == RecordItem(issued + 1)
<1>1. item \in Items /\ item.kind = "record" /\ item.id = issued + 1
  BY DEF Items, RecordItem, Record, TypeOK
<1>2. queue' = Append(queue, item) /\ queue \in Seq(Items)
  BY DEF Record, TypeOK
<1> HIDE DEF item
<1>3. queue' \in Seq(Items) /\ QueuedRecords' = QueuedRecords \cup {issued + 1}
  BY <1>1, <1>2, PutQueues
<1>4. TypeOK'
  BY <1>3 DEF TypeOK, Record, diskVars, batchVars
<1>5. QueueInv'
  BY <1>1, <1>2, PutKeepsQueueInv DEF DataInv, Record
<1>6. DataInv'
  <2> USE <1>3 DEF DataInv, Record, diskVars, batchVars
  <2>1. OnlyIssuedRecords'
    BY QueuedAreRecords, SMTT(30) DEF OnlyIssuedRecords, Settled, TypeOK
  <2>2. WorkerHistory'
    BY DEF WorkerHistory, Settled
  <2>3. CommitOrder'
    BY DEF CommitOrder, OnlyIssuedRecords, Settled, TypeOK
  <2>4. NothingLostSilently'
    <3>1. 1..(issued + 1) = (1..issued) \cup {issued + 1}
      BY DEF TypeOK
    <3> QED BY <3>1 DEF NothingLostSilently, Settled, ThreadAlive
  <2>5. FlushedRecordsAreSettled'
    BY DEF FlushedRecordsAreSettled, Settled
  <2>6. StagedRowsHaveADeadline' /\ DeadlineCountsFromOldestRow'
    BY DEF StagedRowsHaveADeadline, DeadlineCountsFromOldestRow
  <2> QED BY <2>1, <2>2, <2>3, <2>4, <2>5, <2>6
<1> QED BY <1>4, <1>5, <1>6, IInvPartsPrimed

(* flush() and close() append a promise about the records issued so far.   *)
LEMMA FlushStep ==
    ASSUME IInv, NEW f \in 1..MaxFlushes, Flush(f) PROVE IInv'
<1> USE IInvParts
<1> DEFINE item == EventItem(f)
<1>1. item \in Items /\ item.kind = "event" /\ item.id = f
  BY DEF Items, EventItem
<1>2. queue' = Append(queue, item) /\ queue \in Seq(Items)
  BY DEF Flush, TypeOK
<1> HIDE DEF item
<1>3. queue' \in Seq(Items) /\ QueuedRecords' = QueuedRecords
  BY <1>1, <1>2, PutQueues
<1>4. /\ flushes[f].answer = "none"
      /\ flushes'[f] = [answer |-> "waiting", upTo |-> issued]
      /\ \A g \in 1..MaxFlushes : g # f => flushes'[g] = flushes[g]
  BY DEF Flush, Unused, TypeOK
<1>5. TypeOK'
  BY <1>3 DEF TypeOK, Flush, diskVars, batchVars
<1>6. QueueInv'
  BY <1>1, <1>2, <1>4, PutKeepsQueueInv DEF DataInv, Flush
<1>7. DataInv'
  <2> USE <1>3, <1>4 DEF DataInv, Flush, diskVars, batchVars
  <2>1. OnlyIssuedRecords'
    BY DEF OnlyIssuedRecords, Settled, TypeOK
  <2>2. WorkerHistory' /\ CommitOrder' /\ NothingLostSilently'
    BY DEF WorkerHistory, CommitOrder, NothingLostSilently, Settled, ThreadAlive
  <2>3. FlushedRecordsAreSettled'
    BY DEF FlushedRecordsAreSettled, Settled
  <2>4. StagedRowsHaveADeadline' /\ DeadlineCountsFromOldestRow'
    BY DEF StagedRowsHaveADeadline, DeadlineCountsFromOldestRow
  <2> QED BY <2>1, <2>2, <2>3, <2>4
<1> QED BY <1>5, <1>6, <1>7, IInvPartsPrimed

(* close() puts _STOP behind every record issued so far. *)
LEMMA CloseStep == IInv /\ Close => IInv'
<1> SUFFICES ASSUME IInv, Close PROVE IInv'
  OBVIOUS
<1> USE IInvParts
<1>1. StopItem \in Items /\ StopItem.kind = "stop"
  BY DEF Items, StopItem
<1>2. queue' = Append(queue, StopItem) /\ queue \in Seq(Items)
  BY DEF Close, TypeOK
<1>3. queue' \in Seq(Items) /\ QueuedRecords' = QueuedRecords
  BY <1>1, <1>2, PutQueues
<1>4. closing.answer = "none" /\ closing' = [answer |-> "waiting", upTo |-> issued]
  BY DEF Close, Unused
<1>5. TypeOK'
  BY <1>3 DEF TypeOK, Close, diskVars, batchVars
<1>6. QueueInv'
  BY <1>1, <1>2, <1>4, PutKeepsQueueInv DEF DataInv, Close
<1>7. DataInv'
  <2> USE <1>3, <1>4 DEF DataInv, Close, diskVars, batchVars
  <2>1. OnlyIssuedRecords'
    BY DEF OnlyIssuedRecords, Settled, TypeOK
  <2>2. WorkerHistory' /\ CommitOrder' /\ NothingLostSilently'
    BY DEF WorkerHistory, CommitOrder, NothingLostSilently, Settled, ThreadAlive
  <2>3. FlushedRecordsAreSettled'
    BY DEF FlushedRecordsAreSettled, Settled
  <2>4. StagedRowsHaveADeadline' /\ DeadlineCountsFromOldestRow'
    BY DEF StagedRowsHaveADeadline, DeadlineCountsFromOldestRow
  <2> QED BY <2>1, <2>2, <2>3, <2>4
<1> QED BY <1>5, <1>6, <1>7, IInvPartsPrimed

(* The steps that leave the queue alone keep its promises.                 *)
LEMMA SameQueue ==
    ASSUME QueueInv, queue' = queue, queue \in Seq(Items),
           \A f \in 1..MaxFlushes :
               /\ flushes'[f].upTo = flushes[f].upTo
               /\ flushes[f].answer # "none" => flushes'[f].answer # "none",
           closing'.upTo = closing.upTo,
           closing.answer # "none" => closing'.answer # "none"
    PROVE  QueueInv' /\ QueuedRecords' = QueuedRecords
<1>1. \A i \in DOMAIN queue : queue[i] \in Items
  OBVIOUS
<1>2. QueueInOrder'
  BY DEF QueueInv, QueueInOrder, IsRecord
<1>3. EventsFollowTheirRecords'
  BY <1>1, ItemShape DEF QueueInv, EventsFollowTheirRecords, IsRecord
<1>4. StopFollowsItsRecords'
  BY DEF QueueInv, StopFollowsItsRecords, IsRecord
<1> QED BY <1>2, <1>3, <1>4 DEF QueueInv, QueuedRecords

(* A caller that returns only writes its own answer. *)
LEMMA CallersReturnStep ==
    ASSUME IInv, CloseReturn \/ \E f \in 1..MaxFlushes : FlushTimeout(f)
    PROVE  IInv'
<1> USE IInvParts
<1> DEFINE Harmless == \A f \in 1..MaxFlushes :
         /\ flushes'[f].upTo = flushes[f].upTo
         /\ flushes[f].answer # "none" => flushes'[f].answer # "none"
         /\ flushes'[f].answer = "true" => flushes[f].answer = "true"
<1>a. ASSUME CloseReturn PROVE TypeOK' /\ Harmless
  <2>1. closing' \in [answer : {"none", "waiting", "true", "false"}, upTo : 0..MaxRecords]
    BY <1>a DEF TypeOK, CloseReturn
  <2> QED BY <1>a, <2>1 DEF TypeOK, CloseReturn, diskVars, batchVars
<1>b. ASSUME NEW f \in 1..MaxFlushes, FlushTimeout(f) PROVE TypeOK' /\ Harmless
  <2>1. /\ flushes' = [flushes EXCEPT ![f] = [flushes[f] EXCEPT !.answer = "false"]]
        /\ flushes[f].answer = "waiting"
    BY <1>b DEF FlushTimeout
  <2>2. [flushes[f] EXCEPT !.answer = "false"]
           = [answer |-> "false", upTo |-> flushes[f].upTo]
    BY DEF TypeOK
  <2>3. flushes' \in [1..MaxFlushes ->
               [answer : {"none", "waiting", "true", "false"}, upTo : 0..MaxRecords]]
    BY <2>1, <2>2 DEF TypeOK
  <2>4. Harmless
    BY <2>1, <2>2 DEF TypeOK
  <2> QED BY <1>b, <2>3, <2>4 DEF TypeOK, FlushTimeout, diskVars, batchVars
<1>1. TypeOK' /\ Harmless
  BY <1>a, <1>b
<1> HIDE DEF Harmless
<1>2. \A f \in 1..MaxFlushes :
         /\ flushes'[f].upTo = flushes[f].upTo
         /\ flushes[f].answer # "none" => flushes'[f].answer # "none"
         /\ flushes'[f].answer = "true" => flushes[f].answer = "true"
  BY <1>1 DEF Harmless
<1>3. closing'.upTo = closing.upTo /\ (closing.answer # "none" => closing'.answer # "none")
  BY DEF CloseReturn, FlushTimeout, TypeOK
<1>4. /\ queue' = queue /\ issued' = issued /\ thread' = thread /\ attempt' = attempt
      /\ UNCHANGED <<diskVars, batchVars>>
  BY DEF CloseReturn, FlushTimeout
<1>5. QueueInv' /\ QueuedRecords' = QueuedRecords
  BY <1>2, <1>3, <1>4, SameQueue DEF TypeOK
<1>6. DataInv'
  <2> USE <1>2, <1>3, <1>4, <1>5 DEF DataInv, diskVars, batchVars
  <2>1. OnlyIssuedRecords'
    BY DEF OnlyIssuedRecords, Settled
  <2>2. WorkerHistory' /\ CommitOrder' /\ NothingLostSilently'
    BY DEF WorkerHistory, CommitOrder, NothingLostSilently, Settled, ThreadAlive
  <2>3. FlushedRecordsAreSettled'
    BY DEF FlushedRecordsAreSettled, Settled
  <2>4. StagedRowsHaveADeadline' /\ DeadlineCountsFromOldestRow'
    BY DEF StagedRowsHaveADeadline, DeadlineCountsFromOldestRow
  <2> QED BY <2>1, <2>2, <2>3, <2>4
<1> QED BY <1>1, <1>5, <1>6, IInvPartsPrimed

-----------------------------------------------------------------------------
(* The worker thread.                                                      *)
LEMMA ConnectStep ==
    ASSUME IInv, SchemaApplied \/ SchemaLocked \/ ConnectFails
    PROVE  IInv'
<1> USE IInvParts
<1>1. /\ queue' = queue /\ UNCHANGED <<clientVars, batchVars>>
      /\ UNCHANGED <<staged, committed, dropped>>
      /\ schema' = TRUE \/ (schema' = schema /\ thread' # "running")
      /\ thread = "connecting" /\ thread' \in {"connecting", "running", "failed"}
  <2>1. CASE SchemaApplied
    BY <2>1 DEF SchemaApplied
  <2>2. CASE SchemaLocked
    BY <2>2 DEF SchemaLocked, diskVars
  <2>3. CASE ConnectFails
    BY <2>3 DEF ConnectFails, diskVars
  <2> QED BY <2>1, <2>2, <2>3
<1>2. attempt' \in 0..SchemaAttempts
  BY DEF SchemaApplied, SchemaLocked, ConnectFails, DataInv, TypeOK, WorkerHistory
<1>3. TypeOK'
  BY <1>1, <1>2 DEF TypeOK, clientVars, batchVars
<1>4. QueueInv' /\ QueuedRecords' = QueuedRecords
  BY <1>1, SameQueue DEF TypeOK, clientVars
<1>5. staged = {}
  BY <1>1 DEF DataInv, WorkerHistory
<1>6. DataInv'
  <2> USE <1>1, <1>4, <1>5 DEF DataInv, clientVars, batchVars
  <2>1. OnlyIssuedRecords'
    BY DEF OnlyIssuedRecords, Settled
  <2>2. WorkerHistory'
    BY <1>2 DEF WorkerHistory, Settled, TypeOK, SchemaApplied, SchemaLocked, ConnectFails
  <2>3. CommitOrder' /\ NothingLostSilently'
    BY DEF CommitOrder, NothingLostSilently, Settled, ThreadAlive
  <2>4. FlushedRecordsAreSettled'
    BY DEF FlushedRecordsAreSettled, Settled
  <2>5. StagedRowsHaveADeadline' /\ DeadlineCountsFromOldestRow'
    BY DEF StagedRowsHaveADeadline, DeadlineCountsFromOldestRow
  <2> QED BY <2>1, <2>2, <2>3, <2>4, <2>5
<1> QED BY <1>3, <1>4, <1>6, IInvPartsPrimed

(* queue.Empty: everything issued and staged is committed. *)
LEMMA CommitOnIntervalStep == IInv /\ CommitOnInterval => IInv'
<1> SUFFICES ASSUME IInv, CommitOnInterval PROVE IInv'
  OBVIOUS
<1> USE IInvParts DEF CommitOnInterval, CommitStaged, ResetBatch
<1>1. TypeOK'
  BY DEF TypeOK, clientVars
<1>2. QueueInv' /\ QueuedRecords' = QueuedRecords
  BY SameQueue DEF TypeOK, clientVars
<1>3. QueuedRecords = {}
  BY DEF QueuedRecords
<1>4. DataInv'
  <2> USE <1>2, <1>3 DEF DataInv, clientVars
  <2>1. OnlyIssuedRecords'
    BY DEF OnlyIssuedRecords, Settled
  <2>2. WorkerHistory' /\ CommitOrder'
    BY DEF WorkerHistory, CommitOrder, Settled
  <2>3. NothingLostSilently'
    BY DEF NothingLostSilently, Settled, ThreadAlive
  <2>4. FlushedRecordsAreSettled'
    BY DEF FlushedRecordsAreSettled, Settled
  <2>5. StagedRowsHaveADeadline' /\ DeadlineCountsFromOldestRow'
    BY DEF StagedRowsHaveADeadline, DeadlineCountsFromOldestRow
  <2> QED BY <2>1, <2>2, <2>3, <2>4, <2>5
<1> QED BY <1>1, <1>2, <1>4, IInvPartsPrimed

(* The next item, and what is known of it: a record is newer than every    *)
(* one placed so far and older than the queued ones.                       *)
LEMMA TakeFacts ==
    ASSUME IInv, NEW kind, TakeItem(kind),
           \A f \in 1..MaxFlushes :
               /\ flushes'[f].upTo = flushes[f].upTo
               /\ flushes[f].answer # "none" => flushes'[f].answer # "none",
           closing' = closing
    PROVE  /\ queue' \in Seq(Items) /\ Head(queue) \in Items /\ Head(queue).kind = kind
           /\ QueueInv'
           /\ QueuedRecords' \subseteq 1..issued
           /\ \A r \in staged \cup Settled, q \in QueuedRecords' : r < q
           /\ kind = "record" =>
                 /\ QueuedRecords = QueuedRecords' \cup {Head(queue).id}
                 /\ Head(queue).id \in 1..issued
                 /\ \A r \in staged \cup Settled : r < Head(queue).id
                 /\ \A q \in QueuedRecords' : Head(queue).id < q
           /\ kind # "record" => QueuedRecords = QueuedRecords'
           /\ kind = "event" =>
                 /\ Head(queue).id \in 1..MaxFlushes
                 /\ \A q \in QueuedRecords' : flushes[Head(queue).id].upTo < q
           /\ kind = "stop" =>
                 closing.answer # "none" /\ \A q \in QueuedRecords' : closing.upTo < q
<1> USE IInvParts
<1>1. queue # <<>> /\ Head(queue).kind = kind /\ queue' = Tail(queue) /\ queue \in Seq(Items)
  BY DEF TakeItem, TypeOK
<1>2. /\ queue' \in Seq(Items) /\ Head(queue) \in Items
      /\ QueuedRecords = QueuedRecords' \cup (IF kind = "record" THEN {Head(queue).id} ELSE {})
  BY <1>1, GetDequeues
<1>3. /\ QueueInv'
      /\ kind = "record" => \A q \in QueuedRecords' : Head(queue).id < q
      /\ kind = "event" => \A q \in QueuedRecords' : flushes[Head(queue).id].upTo < q
      /\ kind = "stop" => closing.answer # "none" /\ \A q \in QueuedRecords' : closing.upTo < q
  BY <1>1, GetKeepsQueueInv
<1>4. QueuedRecords \subseteq 1..issued
  BY <1>1, QueuedAreRecords DEF DataInv, OnlyIssuedRecords, TypeOK
<1>5. \A r \in staged \cup Settled, q \in QueuedRecords : r < q
  BY DEF DataInv, CommitOrder, Settled
<1> QED BY <1>1, <1>2, <1>3, <1>4, <1>5, ItemShape

(* A staged record is newer than all that are settled or staged. *)
LEMMA StageRecordStep == IInv /\ StageRecord => IInv'
<1> SUFFICES ASSUME IInv, StageRecord PROVE IInv'
  OBVIOUS
<1> USE IInvParts
<1> DEFINE r == Head(queue).id
<1>1. /\ TakeItem("record")
      /\ staged' = staged \cup {r} /\ pending' = pending + 1 /\ deadline' = ArmedDeadline
      /\ age' = IF staged = {} THEN 0 ELSE age
      /\ UNCHANGED <<thread, attempt, schema, committed, dropped, issued, flushes, closing>>
  BY DEF StageRecord, clientVars
<1>2. /\ queue' \in Seq(Items) /\ QueueInv'
      /\ QueuedRecords' \subseteq 1..issued
      /\ QueuedRecords = QueuedRecords' \cup {r}
      /\ r \in 1..issued
      /\ \A s \in staged \cup Settled : s < r
      /\ \A q \in QueuedRecords' : r < q
      /\ \A s \in staged \cup Settled, q \in QueuedRecords' : s < q
  BY <1>1, TakeFacts
<1> HIDE DEF r
<1>3. thread = "running"
  BY <1>1 DEF TakeItem
<1>4. TypeOK'
  BY <1>1, <1>2, SMTT(30) DEF TypeOK, ArmedDeadline, NoDeadline
<1>5. DataInv'
  <2> USE <1>1, <1>2, <1>3 DEF DataInv
  <2>1. OnlyIssuedRecords'
    BY DEF OnlyIssuedRecords, Settled
  <2>2. WorkerHistory'
    BY DEF WorkerHistory, Settled
  <2>3. CommitOrder'
    BY DEF CommitOrder, Settled
  <2>4. NothingLostSilently'
    BY DEF NothingLostSilently, Settled, ThreadAlive
  <2>5. FlushedRecordsAreSettled'
    BY DEF FlushedRecordsAreSettled, Settled
  <2>6. StagedRowsHaveADeadline'
    BY DEF StagedRowsHaveADeadline, ArmedDeadline, NoDeadline, TypeOK
  <2>7. DeadlineCountsFromOldestRow'
    <3>1. CASE staged = {}
      BY <3>1 DEF DeadlineCountsFromOldestRow, ArmedDeadline, NoDeadline, TypeOK
    <3>2. CASE staged # {}
      <4>1. age' = age /\ deadline' = deadline
        BY <3>2 DEF StagedRowsHaveADeadline, ArmedDeadline
      <4> QED BY <3>2, <4>1 DEF DeadlineCountsFromOldestRow
    <3> QED BY <3>1, <3>2
  <2> QED BY <2>1, <2>2, <2>3, <2>4, <2>5, <2>6, <2>7
<1> QED BY <1>2, <1>4, <1>5, IInvPartsPrimed

(* The record that fills the batch goes with it. *)
LEMMA StageAndCommitStep == IInv /\ StageAndCommit => IInv'
<1> SUFFICES ASSUME IInv, StageAndCommit PROVE IInv'
  OBVIOUS
<1> USE IInvParts
<1> DEFINE r == Head(queue).id
<1>1. /\ TakeItem("record")
      /\ committed' = committed \cup staged \cup {r} /\ staged' = {}
      /\ pending' = 0 /\ deadline' = NoDeadline /\ age' = 0
      /\ UNCHANGED <<thread, attempt, schema, dropped, issued, flushes, closing>>
  BY DEF StageAndCommit, ResetBatch, clientVars
<1>2. /\ queue' \in Seq(Items) /\ QueueInv'
      /\ QueuedRecords' \subseteq 1..issued
      /\ QueuedRecords = QueuedRecords' \cup {r}
      /\ r \in 1..issued
      /\ \A s \in staged \cup Settled : s < r
      /\ \A q \in QueuedRecords' : r < q
      /\ \A s \in staged \cup Settled, q \in QueuedRecords' : s < q
  BY <1>1, TakeFacts
<1> HIDE DEF r
<1>3. thread = "running"
  BY <1>1 DEF TakeItem
<1>4. TypeOK'
  BY <1>1, <1>2, SMTT(30) DEF TypeOK
<1>5. DataInv'
  <2> USE <1>1, <1>2, <1>3 DEF DataInv
  <2>1. OnlyIssuedRecords'
    BY DEF OnlyIssuedRecords, Settled
  <2>2. WorkerHistory'
    BY DEF WorkerHistory, Settled
  <2>3. CommitOrder'
    BY DEF CommitOrder, Settled
  <2>4. NothingLostSilently'
    BY DEF NothingLostSilently, Settled, ThreadAlive
  <2>5. FlushedRecordsAreSettled'
    BY DEF FlushedRecordsAreSettled, Settled
  <2>6. StagedRowsHaveADeadline' /\ DeadlineCountsFromOldestRow'
    BY DEF StagedRowsHaveADeadline, DeadlineCountsFromOldestRow
  <2> QED BY <2>1, <2>2, <2>3, <2>4, <2>5, <2>6
<1> QED BY <1>2, <1>4, <1>5, IInvPartsPrimed

(* A dropped record is the oldest of the queue. *)
LEMMA StageFailsStep == IInv /\ StageFails => IInv'
<1> SUFFICES ASSUME IInv, StageFails PROVE IInv'
  OBVIOUS
<1> USE IInvParts
<1> DEFINE r == Head(queue).id
<1>1. /\ TakeItem("record")
      /\ dropped' = dropped \cup {r}
      /\ UNCHANGED <<thread, attempt, schema, staged, committed, issued, flushes, closing>>
      /\ UNCHANGED <<pending, deadline, age>>
  BY DEF StageFails, clientVars, batchVars
<1>2. /\ queue' \in Seq(Items) /\ QueueInv'
      /\ QueuedRecords' \subseteq 1..issued
      /\ QueuedRecords = QueuedRecords' \cup {r}
      /\ r \in 1..issued
      /\ \A s \in staged \cup Settled : s < r
      /\ \A q \in QueuedRecords' : r < q
      /\ \A s \in staged \cup Settled, q \in QueuedRecords' : s < q
  BY <1>1, TakeFacts
<1> HIDE DEF r
<1>3. thread = "running"
  BY <1>1 DEF TakeItem
<1>4. TypeOK'
  BY <1>1, <1>2, SMTT(30) DEF TypeOK
<1>5. DataInv'
  <2> USE <1>1, <1>2, <1>3 DEF DataInv
  <2>1. OnlyIssuedRecords'
    BY DEF OnlyIssuedRecords, Settled
  <2>2. WorkerHistory'
    BY DEF WorkerHistory, Settled
  <2>3. CommitOrder'
    BY DEF CommitOrder, Settled
  <2>4. NothingLostSilently'
    BY DEF NothingLostSilently, Settled, ThreadAlive
  <2>5. FlushedRecordsAreSettled'
    BY DEF FlushedRecordsAreSettled, Settled
  <2>6. StagedRowsHaveADeadline' /\ DeadlineCountsFromOldestRow'
    BY DEF StagedRowsHaveADeadline, DeadlineCountsFromOldestRow
  <2> QED BY <2>1, <2>2, <2>3, <2>4, <2>5, <2>6
<1> QED BY <1>2, <1>4, <1>5, IInvPartsPrimed

(* A failed commit leaves the batch staged or drops all of it. *)
LEMMA BatchCommitFailsStep == IInv /\ BatchCommitFails => IInv'
<1> SUFFICES ASSUME IInv, BatchCommitFails PROVE IInv'
  OBVIOUS
<1> USE IInvParts
<1> DEFINE r == Head(queue).id
<1>1. /\ TakeItem("record")
      /\ \/ staged' = staged \cup {r} /\ dropped' = dropped
         \/ staged' = {} /\ dropped' = dropped \cup staged \cup {r}
      /\ pending' = pending + 1 /\ deadline' = ArmedDeadline
      /\ age' = IF staged = {} \/ staged' = {} THEN 0 ELSE age
      /\ UNCHANGED <<thread, attempt, schema, committed, issued, flushes, closing>>
  BY DEF BatchCommitFails, clientVars
<1>2. /\ queue' \in Seq(Items) /\ QueueInv'
      /\ QueuedRecords' \subseteq 1..issued
      /\ QueuedRecords = QueuedRecords' \cup {r}
      /\ r \in 1..issued
      /\ \A s \in staged \cup Settled : s < r
      /\ \A q \in QueuedRecords' : r < q
      /\ \A s \in staged \cup Settled, q \in QueuedRecords' : s < q
  BY <1>1, TakeFacts
<1> HIDE DEF r
<1>3. thread = "running"
  BY <1>1 DEF TakeItem
<1>4. TypeOK'
  BY <1>1, <1>2, SMTT(30) DEF TypeOK, ArmedDeadline, NoDeadline
<1>5. DataInv'
  <2> USE <1>1, <1>2, <1>3 DEF DataInv
  <2>1. OnlyIssuedRecords'
    <3>1. r \notin staged \cup Settled
      BY DEF TypeOK
    <3>2. committed \cap staged = {}
      BY DEF CommitOrder, TypeOK
    <3>3. dropped' \cap (staged' \cup committed') = {}
      BY <3>1, <3>2 DEF OnlyIssuedRecords, Settled
    <3> QED BY <3>3 DEF OnlyIssuedRecords, Settled
  <2>2. WorkerHistory'
    BY DEF WorkerHistory, Settled
  <2>3. CommitOrder'
    BY DEF CommitOrder, Settled
  <2>4. NothingLostSilently'
    BY DEF NothingLostSilently, Settled, ThreadAlive
  <2>5. FlushedRecordsAreSettled'
    BY DEF FlushedRecordsAreSettled, Settled
  <2>6. StagedRowsHaveADeadline'
    BY DEF StagedRowsHaveADeadline, ArmedDeadline, NoDeadline, TypeOK
  <2>7. DeadlineCountsFromOldestRow'
    <3>1. CASE staged = {} \/ staged' = {}
      <4>1. age' = 0 /\ ArmedDeadline <= BatchInterval
        BY <3>1, SMTT(30) DEF ArmedDeadline, NoDeadline, TypeOK
      <4>2. deadline' \in Int /\ deadline' = ArmedDeadline
        BY DEF ArmedDeadline, NoDeadline, TypeOK
      <4> QED BY <4>1, <4>2 DEF DeadlineCountsFromOldestRow
    <3>2. CASE staged # {} /\ staged' # {}
      <4>1. age' = age /\ deadline' = deadline
        BY <3>2 DEF StagedRowsHaveADeadline, ArmedDeadline
      <4> QED BY <3>2, <4>1 DEF DeadlineCountsFromOldestRow
    <3> QED BY <3>1, <3>2
  <2> QED BY <2>1, <2>2, <2>3, <2>4, <2>5, <2>6, <2>7
<1> QED BY <1>2, <1>4, <1>5, IInvPartsPrimed

(* flush() is answered: everything it promises was taken before its Event, *)
(* so it is settled or in the transaction that is committed first.         *)
LEMMA AnswerFlushStep == IInv /\ AnswerFlush => IInv'
<1> SUFFICES ASSUME IInv, AnswerFlush PROVE IInv'
  OBVIOUS
<1> USE IInvParts
<1> DEFINE f == Head(queue).id
<1>1. /\ TakeItem("event")
      /\ committed' = committed \cup staged /\ staged' = {}
      /\ age' = 0
      /\ flushes' = [flushes EXCEPT ![f].answer = Served(@)]
      /\ UNCHANGED <<thread, attempt, schema, dropped, pending, deadline, issued, closing>>
  BY DEF AnswerFlush, CommitStaged
<1>2. \A g \in 1..MaxFlushes :
         /\ flushes'[g].upTo = flushes[g].upTo
         /\ flushes[g].answer # "none" => flushes'[g].answer # "none"
         /\ g # f => flushes'[g] = flushes[g]
  BY <1>1 DEF Served, TypeOK
<1>3. /\ queue' \in Seq(Items) /\ QueueInv'
      /\ QueuedRecords' = QueuedRecords
      /\ QueuedRecords' \subseteq 1..issued
      /\ f \in 1..MaxFlushes
      /\ \A q \in QueuedRecords' : flushes[f].upTo < q
      /\ \A s \in staged \cup Settled, q \in QueuedRecords' : s < q
  BY <1>1, <1>2, TakeFacts
<1>4. flushes' \in [1..MaxFlushes ->
                      [answer : {"none", "waiting", "true", "false"}, upTo : 0..MaxRecords]]
  <2>1. flushes[f] \in [answer : {"none", "waiting", "true", "false"}, upTo : 0..MaxRecords]
    BY <1>3 DEF TypeOK
  <2>2. [flushes[f] EXCEPT !.answer = Served(flushes[f].answer)]
          \in [answer : {"none", "waiting", "true", "false"}, upTo : 0..MaxRecords]
    BY <2>1 DEF Served
  <2>3. flushes' = [flushes EXCEPT ![f] = [flushes[f] EXCEPT !.answer = Served(flushes[f].answer)]]
    BY <1>1, <1>3 DEF TypeOK
  <2> HIDE DEF f
  <2> QED BY <1>3, <2>2, <2>3 DEF TypeOK
<1> HIDE DEF f
<1>5. thread = "running"
  BY <1>1 DEF TakeItem
<1>6. TypeOK'
  BY <1>1, <1>3, <1>4 DEF TypeOK
<1>7. DataInv'
  <2> USE <1>1, <1>3, <1>5 DEF DataInv
  <2>1. OnlyIssuedRecords'
    BY <1>2 DEF OnlyIssuedRecords, Settled
  <2>2. WorkerHistory'
    BY DEF WorkerHistory, Settled
  <2>3. CommitOrder'
    BY DEF CommitOrder, Settled
  <2>4. NothingLostSilently'
    BY DEF NothingLostSilently, Settled, ThreadAlive
  <2>5. FlushedRecordsAreSettled'
    <3>1. 1..flushes[f].upTo \subseteq Settled' /\ schema
      <4>1. 1..issued = Settled \cup staged \cup QueuedRecords
        BY DEF NothingLostSilently, ThreadAlive
      <4>2. flushes[f].upTo \in 0..issued
        BY DEF OnlyIssuedRecords, TypeOK
      <4>3. \A r \in 1..flushes[f].upTo : r \in 1..issued /\ r \notin QueuedRecords
        BY <4>2 DEF TypeOK
      <4> QED BY <4>1, <4>3 DEF Settled, WorkerHistory
    <3>2. \A g \in 1..MaxFlushes : g # f /\ flushes'[g].answer = "true"
             => 1..flushes[g].upTo \subseteq Settled' /\ schema
      BY <1>2 DEF FlushedRecordsAreSettled, Settled
    <3> QED BY <1>2, <3>1, <3>2 DEF FlushedRecordsAreSettled
  <2>6. StagedRowsHaveADeadline' /\ DeadlineCountsFromOldestRow'
    BY DEF StagedRowsHaveADeadline, DeadlineCountsFromOldestRow
  <2> QED BY <2>1, <2>2, <2>3, <2>4, <2>5, <2>6
<1> QED BY <1>3, <1>6, <1>7, IInvPartsPrimed

(* The same for close(): _STOP is behind every record it promises.         *)
LEMMA StopStep == IInv /\ Stop => IInv'
<1> SUFFICES ASSUME IInv, Stop PROVE IInv'
  OBVIOUS
<1> USE IInvParts
<1>1. /\ TakeItem("stop")
      /\ committed' = committed \cup staged /\ staged' = {}
      /\ age' = 0 /\ thread' = "stopped"
      /\ UNCHANGED <<attempt, schema, dropped, pending, deadline, issued, flushes, closing>>
  BY DEF Stop, CommitStaged, clientVars
<1>2. /\ queue' \in Seq(Items) /\ QueueInv'
      /\ QueuedRecords' = QueuedRecords
      /\ QueuedRecords' \subseteq 1..issued
      /\ closing.answer # "none" /\ \A q \in QueuedRecords' : closing.upTo < q
      /\ \A s \in staged \cup Settled, q \in QueuedRecords' : s < q
  BY <1>1, TakeFacts
<1>3. thread = "running"
  BY <1>1 DEF TakeItem
<1>4. TypeOK'
  BY <1>1, <1>2 DEF TypeOK
<1>5. DataInv'
  <2> USE <1>1, <1>2, <1>3 DEF DataInv
  <2>1. OnlyIssuedRecords'
    BY DEF OnlyIssuedRecords, Settled
  <2>2. WorkerHistory'
    <3>1. 1..issued = Settled \cup staged \cup QueuedRecords
      BY DEF NothingLostSilently, ThreadAlive
    <3>2. closing.upTo \in 0..issued
      BY DEF OnlyIssuedRecords, TypeOK
    <3>3. \A r \in 1..closing.upTo : r \in 1..issued /\ r \notin QueuedRecords
      BY <3>2 DEF TypeOK
    <3> QED BY <3>1, <3>3 DEF Settled, WorkerHistory
  <2>3. CommitOrder'
    BY DEF CommitOrder, Settled
  <2>4. NothingLostSilently'
    BY DEF NothingLostSilently, ThreadAlive
  <2>5. FlushedRecordsAreSettled'
    BY DEF FlushedRecordsAreSettled, Settled
  <2>6. StagedRowsHaveADeadline' /\ DeadlineCountsFromOldestRow'
    BY DEF StagedRowsHaveADeadline, DeadlineCountsFromOldestRow
  <2> QED BY <2>1, <2>2, <2>3, <2>4, <2>5, <2>6
<1> QED BY <1>2, <1>4, <1>5, IInvPartsPrimed

(* An exception of an unguarded commit ends the thread.                    *)
LEMMA UnguardedCommitFailsStep == IInv /\ UnguardedCommitFails => IInv'
<1> SUFFICES ASSUME IInv, UnguardedCommitFails PROVE IInv'
  OBVIOUS
<1> USE IInvParts
<1>1. /\ thread' = "died" /\ staged' = {} /\ age' = 0
      /\ UNCHANGED <<attempt, schema, committed, dropped, pending, deadline>>
      /\ UNCHANGED <<issued, flushes, closing>>
  BY DEF UnguardedCommitFails, clientVars
<1>2. /\ queue' \in Seq(Items) /\ QueueInv'
      /\ QueuedRecords' \subseteq 1..issued
      /\ \A s \in Settled, q \in QueuedRecords' : s < q
  <2>1. CASE TakeItem("event")
    BY <2>1, <1>1, TakeFacts
  <2>2. CASE TakeItem("stop")
    BY <2>2, <1>1, TakeFacts
  <2>3. CASE queue' = queue
    <3>1. QueueInv' /\ QueuedRecords' = QueuedRecords /\ queue' \in Seq(Items)
      BY <2>3, <1>1, SameQueue DEF TypeOK
    <3>2. QueuedRecords \subseteq 1..issued
      BY QueuedAreRecords DEF TypeOK, DataInv, OnlyIssuedRecords
    <3> QED BY <3>1, <3>2 DEF DataInv, CommitOrder, Settled
  <2> QED BY <2>1, <2>2, <2>3 DEF UnguardedCommitFails
<1>3. TypeOK'
  BY <1>1, <1>2 DEF TypeOK
<1>4. DataInv'
  <2> USE <1>1, <1>2 DEF DataInv
  <2>1. OnlyIssuedRecords'
    <3>1. \A r \in QueuedRecords' : r <= issued
      BY DEF TypeOK
    <3> QED BY <3>1 DEF OnlyIssuedRecords, Settled
  <2>2. WorkerHistory' /\ CommitOrder' /\ NothingLostSilently'
    BY DEF WorkerHistory, CommitOrder, NothingLostSilently, Settled, ThreadAlive
  <2>3. FlushedRecordsAreSettled'
    BY DEF FlushedRecordsAreSettled, Settled
  <2>4. StagedRowsHaveADeadline' /\ DeadlineCountsFromOldestRow'
    BY DEF StagedRowsHaveADeadline, DeadlineCountsFromOldestRow
  <2> QED BY <2>1, <2>2, <2>3, <2>4
<1> QED BY <1>2, <1>3, <1>4, IInvPartsPrimed

(* Time brings the deadline nearer as the staged rows age. *)
LEMMA TickStep == IInv /\ Tick => IInv'
<1> SUFFICES ASSUME IInv, Tick PROVE IInv'
  OBVIOUS
<1> USE IInvParts DEF Tick, clientVars, diskVars
<1>1. TypeOK'
  <2>1. deadline' \in 0..BatchInterval
    BY SMTT(30) DEF TypeOK, NoDeadline
  <2>2. age' \in Nat
    BY DEF TypeOK
  <2> QED BY <2>1, <2>2 DEF TypeOK
<1>2. QueueInv' /\ QueuedRecords' = QueuedRecords
  BY SameQueue DEF TypeOK
<1>3. DataInv'
  <2> USE <1>2 DEF DataInv
  <2>1. OnlyIssuedRecords' /\ WorkerHistory' /\ CommitOrder'
    BY DEF OnlyIssuedRecords, WorkerHistory, CommitOrder, Settled
  <2>2. NothingLostSilently' /\ FlushedRecordsAreSettled'
    BY DEF NothingLostSilently, FlushedRecordsAreSettled, Settled, ThreadAlive
  <2>3. StagedRowsHaveADeadline'
    BY DEF StagedRowsHaveADeadline, NoDeadline, TypeOK
  <2>4. DeadlineCountsFromOldestRow'
    BY SMTT(30) DEF DeadlineCountsFromOldestRow, TypeOK, NoDeadline
  <2> QED BY <2>1, <2>2, <2>3, <2>4
<1> QED BY <1>1, <1>2, <1>3, IInvPartsPrimed

(* A kill empties the queue and the open transaction. *)
LEMMA KillStep == IInv /\ Kill => IInv'
<1> SUFFICES ASSUME IInv, Kill PROVE IInv'
  OBVIOUS
<1> USE IInvParts DEF Kill, clientVars
<1>1. DOMAIN queue' = {} /\ QueuedRecords' = {} /\ queue' \in Seq(Items)
  BY DEF QueuedRecords
<1>2. TypeOK'
  BY <1>1 DEF TypeOK
<1>3. QueueInv'
  BY <1>1 DEF QueueInv, QueueInOrder, EventsFollowTheirRecords, StopFollowsItsRecords
<1>4. DataInv'
  BY <1>1 DEF DataInv, OnlyIssuedRecords, WorkerHistory, CommitOrder, NothingLostSilently,
     FlushedRecordsAreSettled, StagedRowsHaveADeadline, DeadlineCountsFromOldestRow,
     Settled, ThreadAlive
<1> QED BY <1>2, <1>3, <1>4, IInvPartsPrimed

(* Nothing changes. *)
LEMMA StutterStep == IInv /\ UNCHANGED vars => IInv'
<1> SUFFICES ASSUME IInv, UNCHANGED vars PROVE IInv'
  OBVIOUS
<1> USE IInvParts DEF vars, clientVars, diskVars, batchVars
<1>1. TypeOK'
  BY DEF TypeOK
<1>2. QueueInv' /\ QueuedRecords' = QueuedRecords
  BY SameQueue DEF TypeOK
<1>3. DataInv'
  BY <1>2 DEF DataInv, OnlyIssuedRecords, WorkerHistory, CommitOrder, NothingLostSilently,
     FlushedRecordsAreSettled, StagedRowsHaveADeadline, DeadlineCountsFromOldestRow,
     Settled, ThreadAlive
<1> QED BY <1>1, <1>2, <1>3, IInvPartsPrimed

-----------------------------------------------------------------------------
(* Every state of the background writer satisfies the inductive invariant. *)
THEOREM Invariance == Spec => []IInv
<1>1. IInv /\ [Next]_vars => IInv'
  <2> SUFFICES ASSUME IInv, [Next]_vars PROVE IInv'
    OBVIOUS
  <2>1. CASE Record
    BY <2>1, RecordStep
  <2>2. CASE \E f \in 1..MaxFlushes : Flush(f)
    BY <2>2, FlushStep
  <2>3. CASE \E f \in 1..MaxFlushes : FlushTimeout(f)
    BY <2>3, CallersReturnStep
  <2>4. CASE Close
    BY <2>4, CloseStep
  <2>5. CASE CloseReturn
    BY <2>5, CallersReturnStep
  <2>6. CASE Worker
    BY <2>6, ConnectStep, CommitOnIntervalStep, StageRecordStep, StageAndCommitStep,
       StageFailsStep, BatchCommitFailsStep, AnswerFlushStep, StopStep,
       UnguardedCommitFailsStep
    DEF Worker
  <2>7. CASE Tick
    BY <2>7, TickStep
  <2>8. CASE Kill
    BY <2>8, KillStep
  <2>9. CASE UNCHANGED vars
    BY <2>9, StutterStep
  <2> QED BY <2>1, <2>2, <2>3, <2>4, <2>5, <2>6, <2>7, <2>8, <2>9 DEF Next
<1> QED BY InitIInv, <1>1, PTL DEF Spec

(* Every variable keeps its type, whatever the constants.                  *)
THEOREM TypeCorrect == Spec => []TypeOK
<1>1. IInv => TypeOK
  BY DEF IInv
<1> QED BY <1>1, Invariance, PTL

(* flush() answering TRUE is never a lie: what was enqueued before it is   *)
(* in the database or was warned about, also after a kill.                 *)
THEOREM FlushIsHonest == Spec => []FlushedRecordsAreSettled
<1>1. IInv => FlushedRecordsAreSettled
  BY DEF IInv
<1> QED BY <1>1, Invariance, PTL

(* close() is honest when the worker reached _STOP; the theorem does not   *)
(* hold without that condition.                                            *)
THEOREM CloseAfterStopIsHonest == Spec => []StoppedWorkerSettledAll
<1>1. IInv => StoppedWorkerSettledAll
  BY DEF IInv, WorkerHistory, StoppedWorkerSettledAll
<1> QED BY <1>1, Invariance, PTL

(* Rows reach the database in the order of record(), none silently lost    *)
(* by a live worker, and no staged row waits without a deadline.           *)
THEOREM OrderAndDeadlines ==
    Spec => [](CommitOrder /\ NothingLostSilently
               /\ StagedRowsHaveADeadline /\ DeadlineCountsFromOldestRow)
<1>1. IInv => CommitOrder /\ NothingLostSilently
              /\ StagedRowsHaveADeadline /\ DeadlineCountsFromOldestRow
  BY DEF IInv
<1> QED BY <1>1, Invariance, PTL

-----------------------------------------------------------------------------
(* The writer implements the durable log: every step is a step of the log  *)
(* or leaves it alone.                                                     *)
THEOREM Refinement == Spec => ImplementsLog
<1>1. Init => Log!LogInit
  BY DEF Init, Log!LogInit, Acknowledged, Unused
<1>2. IInv /\ [Next]_vars => [Log!LogNext]_(Log!logVars)
  <2> SUFFICES ASSUME IInv, [Next]_vars
               PROVE  Log!LogNext \/ UNCHANGED Log!logVars
    OBVIOUS
  <2> USE IInvParts DEF Log!logVars
  <2>1. CASE Record
    BY <2>1 DEF Record, Log!LogNext, Log!Accept, Acknowledged, diskVars
  <2>2. ASSUME NEW f \in 1..MaxFlushes, Flush(f) \/ FlushTimeout(f)
        PROVE  UNCHANGED Log!logVars
    <3>1. /\ \A g \in 1..MaxFlushes : g # f => flushes'[g] = flushes[g]
          /\ flushes'[f].answer # "true" /\ flushes[f].answer # "true"
          /\ UNCHANGED <<issued, committed, dropped>>
      <4>1. CASE Flush(f)
        BY <4>1 DEF Flush, Unused, diskVars, TypeOK
      <4>2. CASE FlushTimeout(f)
        BY <4>2 DEF FlushTimeout, diskVars, TypeOK
      <4> QED BY <2>2, <4>1, <4>2
    <3>2. Acknowledged' = Acknowledged
      BY <3>1 DEF Acknowledged
    <3> QED BY <3>1, <3>2
  <2>3. CASE \/ Close \/ CloseReturn \/ SchemaApplied \/ SchemaLocked \/ ConnectFails
             \/ StageRecord \/ UnguardedCommitFails \/ Tick \/ Kill \/ UNCHANGED vars
    <3>1. UNCHANGED <<issued, committed, dropped, flushes>>
      BY <2>3 DEF Close, CloseReturn, SchemaApplied, SchemaLocked, ConnectFails,
         StageRecord, UnguardedCommitFails, Tick, Kill, vars, clientVars, diskVars
    <3> QED BY <3>1 DEF Acknowledged
  <2>4. ASSUME NEW batch, batch \subseteq 1..issued, issued' = issued,
               batch \cap Settled = {},
               \/ dropped' = dropped \cup batch /\ committed' = committed /\ flushes' = flushes
               \/ /\ committed' = committed \cup batch /\ dropped' = dropped
                  /\ \A new \in batch, old \in committed : old < new
                  /\ \/ Acknowledged' = Acknowledged
                     \/ \E upTo \in 0..issued : /\ Acknowledged' = Acknowledged \cup {upTo}
                                               /\ 1..upTo \subseteq Settled'
        PROVE  Log!LogNext
    <3>1. batch \in SUBSET (1..issued)
      BY <2>4
    <3>2. flushes' = flushes => Acknowledged' = Acknowledged
      BY DEF Acknowledged
    <3> QED BY <2>4, <3>1, <3>2
            DEF Log!LogNext, Log!Store, Log!GiveUp, Log!Acknowledge, Settled
  <2>5. /\ staged \subseteq 1..issued /\ staged \cap Settled = {}
        /\ \A new \in staged, old \in committed : old < new
    BY DEF DataInv, OnlyIssuedRecords, CommitOrder, Settled, TypeOK
  <2>6. CASE CommitOnInterval \/ Stop
    <3>1. /\ committed' = committed \cup staged /\ dropped' = dropped
          /\ issued' = issued /\ flushes' = flushes
      BY <2>6 DEF CommitOnInterval, Stop, CommitStaged, clientVars
    <3>2. Acknowledged' = Acknowledged
      BY <3>1 DEF Acknowledged
    <3> QED BY <2>4, <2>5, <3>1, <3>2
  <2>7. CASE StageAndCommit \/ StageFails \/ BatchCommitFails
    <3> DEFINE r == Head(queue).id
    <3>1. TakeItem("record") /\ UNCHANGED <<issued, flushes, closing>>
      BY <2>7 DEF StageAndCommit, StageFails, BatchCommitFails, clientVars
    <3>2. r \in 1..issued /\ \A s \in staged \cup Settled : s < r
      BY <3>1, TakeFacts
    <3>3. \/ committed' = committed \cup (staged \cup {r}) /\ dropped' = dropped
          \/ dropped' = dropped \cup {r} /\ committed' = committed
          \/ dropped' = dropped \cup (staged \cup {r}) /\ committed' = committed
          \/ UNCHANGED <<committed, dropped>>
      BY <2>7 DEF StageAndCommit, StageFails, BatchCommitFails
    <3> HIDE DEF r
    <3>4. Acknowledged' = Acknowledged
      BY <3>1 DEF Acknowledged
    <3>5. r \notin Settled
      BY <3>2 DEF TypeOK
    <3>6. /\ {r} \subseteq 1..issued /\ staged \cup {r} \subseteq 1..issued
          /\ {r} \cap Settled = {} /\ (staged \cup {r}) \cap Settled = {}
      BY <2>5, <3>2, <3>5
    <3>7. \A new \in staged \cup {r}, old \in committed : old < new
      BY <2>5, <3>2 DEF Settled
    <3>8. CASE UNCHANGED <<committed, dropped>>
      BY <3>1, <3>4, <3>8
    <3>9. CASE committed' = committed \cup (staged \cup {r}) /\ dropped' = dropped
      BY <2>4, <3>1, <3>4, <3>6, <3>7, <3>9
    <3>10. CASE dropped' = dropped \cup {r} /\ committed' = committed
      BY <2>4, <3>1, <3>6, <3>10
    <3>11. CASE dropped' = dropped \cup (staged \cup {r}) /\ committed' = committed
      BY <2>4, <3>1, <3>6, <3>11
    <3> QED BY <3>3, <3>8, <3>9, <3>10, <3>11
  <2>8. CASE AnswerFlush
    <3> DEFINE f == Head(queue).id
    <3>1. /\ TakeItem("event") /\ UNCHANGED <<issued, dropped, closing>>
          /\ committed' = committed \cup staged
          /\ flushes' = [flushes EXCEPT ![f].answer = Served(@)]
      BY <2>8 DEF AnswerFlush, CommitStaged
    <3>2. \A g \in 1..MaxFlushes :
             /\ flushes'[g].upTo = flushes[g].upTo
             /\ flushes[g].answer # "none" => flushes'[g].answer # "none"
             /\ g # f => flushes'[g] = flushes[g]
             /\ flushes[g].answer = "true" => flushes'[g].answer = "true"
      BY <3>1 DEF Served, TypeOK
    <3>3. f \in 1..MaxFlushes
      BY <3>1, <3>2, TakeFacts
    <3> HIDE DEF f
    <3>4. IInv'
      BY <2>8, AnswerFlushStep
    <3>5. flushes[f].upTo \in 0..issued
      BY <3>3 DEF DataInv, OnlyIssuedRecords, TypeOK
    <3>6. CASE flushes'[f].answer = "true"
      <4>1. Acknowledged' = Acknowledged \cup {flushes[f].upTo}
        BY <3>2, <3>3, <3>6 DEF Acknowledged
      <4>2. 1..flushes[f].upTo \subseteq Settled'
        BY <3>2, <3>3, <3>4, <3>6 DEF IInv, FlushedRecordsAreSettled
      <4> QED BY <2>4, <2>5, <3>1, <3>5, <4>1, <4>2
    <3>7. CASE flushes'[f].answer # "true"
      <4>1. Acknowledged' = Acknowledged
        BY <3>2, <3>3, <3>7 DEF Acknowledged
      <4> QED BY <2>4, <2>5, <3>1, <4>1
    <3> QED BY <3>6, <3>7
  <2> QED BY <2>1, <2>2, <2>3, <2>6, <2>7, <2>8 DEF Next, Worker
<1> QED BY <1>1, <1>2, Invariance, PTL DEF Spec, ImplementsLog, Log!LogSpec
-----------------------------------------------------------------------------
(* A table as the writer leaves it: finitely many rows, tokens counted. *)
Table(rows) ==
    /\ IsFiniteSet(DOMAIN rows)
    /\ \A i \in DOMAIN rows : /\ rows[i].original \in Nat /\ rows[i].final \in Nat
                              /\ rows[i].filter \in Int

SavedBy(rows) == [i \in DOMAIN rows |-> rows[i].original - rows[i].final]

(* The reports add up what Sum does.                                       *)
LEMMA ReportSum ==
    ASSUME NEW S, IsFiniteSet(S), NEW f, DOMAIN f = S, \A x \in S : f[x] \in Int
    PROVE  Reports!SumFunction(f) = Sum(f, S)
<1>1. Reports!SumFunction(f) = SumFunction(f)
  BY DEF Reports!SumFunction, Reports!SumFunctionOnSet, Reports!FoldFunctionOnSet, Reports!MapThenFoldSet,
         SumFunction, SumFunctionOnSet, FoldFunctionOnSet, MapThenFoldSet
<1> QED BY <1>1, SumFunctionIsSum

(* The figures of one total. *)
LEMMA TotalsAgree ==
    ASSUME NEW rows, Table(rows), NEW t, t = Reports!TotalsOf(rows)
    PROVE  /\ t.total = Cardinality(DOMAIN rows)
           /\ t.saved = Sum(SavedBy(rows), DOMAIN rows)
           /\ t.saved = t.savings - t.overhead
           /\ t.saved = t.before - t.after
           /\ t.eligible <= t.before
<1> DEFINE D == DOMAIN rows
           saved == SavedBy(rows)
           before == [i \in D |-> rows[i].original]
           after == [i \in D |-> rows[i].final]
           eligible == [i \in D |-> IF rows[i].passthrough THEN 0 ELSE rows[i].original]
           bare == [i \in D |-> IF rows[i].passthrough THEN rows[i].original ELSE 0]
           savings == [i \in D |-> IF rows[i].original - rows[i].final > 0
                                   THEN rows[i].original - rows[i].final ELSE 0]
           overhead == [i \in D |-> IF rows[i].original - rows[i].final < 0
                                    THEN -(rows[i].original - rows[i].final) ELSE 0]
<1>1. /\ t.total = Cardinality(D)
      /\ t.saved = Reports!SumFunction(saved)
      /\ t.before = Reports!SumFunction(before)
      /\ t.after = Reports!SumFunction(after)
      /\ t.eligible = Reports!SumFunction(eligible)
      /\ t.savings = Reports!SumFunction(savings)
      /\ t.overhead = Reports!SumFunction(overhead)
  <2> USE DEF Reports!TotalsOf, Reports!SumOf, Reports!SumOver, Reports!Saved, Reports!Count, SavedBy
  <2>1. t.total = Cardinality(D)
    BY DEF Reports!Cardinality, Cardinality
  <2>2. t.saved = Reports!SumFunction(saved)
    OBVIOUS
  <2>3. t.before = Reports!SumFunction(before)
    OBVIOUS
  <2>4. t.after = Reports!SumFunction(after)
    OBVIOUS
  <2>5. t.eligible = Reports!SumFunction(eligible)
    OBVIOUS
  <2>6. t.savings = Reports!SumFunction(savings)
    OBVIOUS
  <2>7. t.overhead = Reports!SumFunction(overhead)
    OBVIOUS
  <2> QED BY <2>1, <2>2, <2>3, <2>4, <2>5, <2>6, <2>7
<1>2. \A i \in D : /\ saved[i] \in Int /\ before[i] \in Nat /\ after[i] \in Nat /\ eligible[i] \in Nat
                   /\ savings[i] \in Nat /\ overhead[i] \in Nat /\ bare[i] \in Nat
                   /\ saved[i] = before[i] - after[i]
                   /\ saved[i] = savings[i] - overhead[i]
                   /\ eligible[i] = before[i] - bare[i]
  BY DEF Table, SavedBy
<1>3. /\ IsFiniteSet(D)
      /\ DOMAIN saved = D /\ DOMAIN before = D /\ DOMAIN after = D /\ DOMAIN eligible = D
      /\ DOMAIN savings = D /\ DOMAIN overhead = D /\ DOMAIN bare = D
  BY DEF Table, SavedBy
<1> HIDE DEF D, saved, before, after, eligible, bare, savings, overhead
<1>4. /\ t.saved = Sum(saved, D) /\ t.before = Sum(before, D) /\ t.after = Sum(after, D)
      /\ t.eligible = Sum(eligible, D) /\ t.savings = Sum(savings, D) /\ t.overhead = Sum(overhead, D)
  <2>1. /\ Reports!SumFunction(saved) = Sum(saved, D) /\ Reports!SumFunction(before) = Sum(before, D)
        /\ Reports!SumFunction(after) = Sum(after, D)
    BY <1>2, <1>3, ReportSum
  <2>2. /\ Reports!SumFunction(eligible) = Sum(eligible, D)
        /\ Reports!SumFunction(savings) = Sum(savings, D)
        /\ Reports!SumFunction(overhead) = Sum(overhead, D)
    BY <1>2, <1>3, ReportSum
  <2> QED BY <1>1, <2>1, <2>2
<1>5. /\ IsLess(saved, before, after, D) /\ IsLess(saved, savings, overhead, D)
      /\ IsLess(eligible, before, bare, D)
  BY <1>2 DEF IsLess
<1>6. /\ Sum(saved, D) = Sum(before, D) - Sum(after, D)
      /\ Sum(saved, D) = Sum(savings, D) - Sum(overhead, D)
      /\ Sum(eligible, D) = Sum(before, D) - Sum(bare, D)
  BY <1>3, <1>5, SumOfDifferences
<1>7. Sum(before, D) \in Nat /\ Sum(bare, D) \in Nat
  BY <1>2, <1>3, SumType
<1>8. t.eligible <= t.before
  BY <1>4, <1>6, <1>7
<1> QED BY <1>1, <1>4, <1>6, <1>8 DEF saved, D

(* Groups that rep names, by what is added up in each of them.             *)
GroupsOf(D, T, rep, part) ==
    /\ IsFiniteSet(D)
    /\ \A x \in D : rep[x] \in T
    /\ \A t \in T : \E x \in D : rep[x] = t
    /\ \A t \in T : part[t] = {x \in D : rep[x] = t}

(* Report lines that each tell of one group tell of all the rows. *)
LEMMA GroupsAddUp ==
    ASSUME NEW D, NEW T, NEW rep, NEW part, GroupsOf(D, T, rep, part),
           NEW f, \A x \in D : f[x] \in Int,
           NEW w, DOMAIN w = T, \A t \in T : w[t] = Sum(f, part[t])
    PROVE  /\ IsFiniteSet(T)
           /\ Reports!SumFunction(w) = Sum(f, D)
<1> DEFINE name == [x \in D |-> rep[x]]
<1>1. name \in Surjection(D, T)
  BY DEF GroupsOf, Surjection
<1>2. IsFiniteSet(D) /\ IsFiniteSet(T)
  BY <1>1, FS_Surjection DEF GroupsOf
<1>3. \A t \in T : w[t] \in Int
  <2> TAKE t \in T
  <2>1. part[t] \in SUBSET D /\ IsFiniteSet(part[t])
    BY <1>2, FS_Subset DEF GroupsOf
  <2>2. \A x \in part[t] : f[x] \in Int
    BY <2>1
  <2> QED BY <2>1, <2>2, SumIsInt
<1>4. Reports!SumFunction(w) = Sum(w, T)
  BY <1>2, <1>3, ReportSum
<1>5. Sum(w, T) = Sum(f, D)
  BY <1>2, SumByFibres DEF GroupsOf
<1> QED BY <1>2, <1>4, <1>5

(* The lines may also count the rows of their groups. *)
LEMMA GroupsCountUp ==
    ASSUME NEW D, NEW T, NEW rep, NEW part, GroupsOf(D, T, rep, part),
           NEW w, DOMAIN w = T, \A t \in T : w[t] = Cardinality(part[t])
    PROVE  /\ IsFiniteSet(T)
           /\ Reports!SumFunction(w) = Cardinality(D)
<1> DEFINE f == [x \in D |-> 1]
<1>1. IsFiniteSet(D) /\ \A x \in D : f[x] \in Int /\ f[x] = 1
  BY DEF GroupsOf
<1>2. \A t \in T : part[t] \in SUBSET D /\ IsFiniteSet(part[t]) /\ \A x \in part[t] : f[x] = 1
  BY <1>1, FS_Subset DEF GroupsOf
<1> HIDE DEF f
<1>3. Sum(f, D) = Cardinality(D)
  BY <1>1, SumOfOnes
<1>4. \A t \in T : w[t] = Sum(f, part[t])
  BY <1>2, SumOfOnes
<1>5. IsFiniteSet(T) /\ Reports!SumFunction(w) = Sum(f, D)
  <2> HIDE <1>2
  <2> QED BY <1>1, <1>4, GroupsAddUp
<1> QED BY <1>3, <1>5

(* The rows of a table that are in S. *)
RowsIn(rows, S) == [i \in S |-> rows[i]]

(* The reports count what Cardinality does.                                *)
LEMMA ReportCount ==
    ASSUME NEW S PROVE Reports!Cardinality(S) = Cardinality(S)
BY DEF Reports!Cardinality, Cardinality

(* Some rows of a table are one, and its figures are sums over them.       *)
LEMMA PartOfTable ==
    ASSUME NEW rows, Table(rows), NEW S, S \subseteq DOMAIN rows, NEW k, k = RowsIn(rows, S)
    PROVE  /\ Table(k) /\ DOMAIN k = S /\ IsFiniteSet(S)
           /\ \A i \in S : k[i] = rows[i]
           /\ Reports!Count(k) = Cardinality(S)
           /\ Reports!TotalsOf(k).total = Cardinality(S)
           /\ Reports!TotalsOf(k).saved = Sum(SavedBy(rows), S)
<1>1. DOMAIN k = S /\ \A i \in S : k[i] = rows[i]
  BY DEF RowsIn
<1>2. Table(k) /\ IsFiniteSet(S)
  BY <1>1, FS_Subset DEF Table
<1>3. \A i \in S : SavedBy(rows)[i] \in Int /\ SavedBy(k)[i] = SavedBy(rows)[i]
  BY <1>1 DEF Table, SavedBy
<1>4. Sum(SavedBy(k), S) = Sum(SavedBy(rows), S)
  BY <1>2, <1>3, SumsAgree
<1>5. Reports!Count(k) = Cardinality(S)
  BY <1>1, ReportCount DEF Reports!Count
<1> QED BY <1>1, <1>2, <1>4, <1>5, TotalsAgree

(* The window of a report: rows of the table, all of them in the project.  *)
LEMMA ScopedRows ==
    ASSUME NEW rows, Table(rows), NEW path, NEW now, NEW days
    PROVE  \E S \in SUBSET DOMAIN rows :
             /\ Reports!Scoped(rows, path, now, days) = RowsIn(rows, S)
             /\ \A i \in S : Reports!InProject(path.segments, rows[i].path.segments)
<1> DEFINE S == {i \in DOMAIN rows :
                    /\ Reports!InProject(path.segments, rows[i].path.segments)
                    /\ Reports!InDays(rows[i].at, now, days)}
<1>1. Reports!Scoped(rows, path, now, days) = RowsIn(rows, S)
  BY DEF Reports!Scoped, Reports!Where, Reports!RestrictValues, Reports!Restrict, Reports!normalize_project_path,
         RowsIn
<1> QED BY <1>1

(* The rows a report line is about.                                        *)
RowsOf(rows, l) == {i \in DOMAIN rows : rows[i].filter = l}
CallsOf(rows, tool) == {i \in DOMAIN rows : Reports!Tool(rows[i]) = tool}
ReadsOf(rows, file) == {i \in DOMAIN rows : rows[i].file = file}

(* A line chooses the rows it is about.                                    *)
LEMMA ChosenRows ==
    ASSUME NEW rows, NEW x
    PROVE  /\ Reports!Labelled(rows, x) = RowsIn(rows, RowsOf(rows, x))
           /\ Reports!OfTool(rows, x) = RowsIn(rows, CallsOf(rows, x))
           /\ Reports!OfFile(rows, x) = RowsIn(rows, ReadsOf(rows, x))
<1> USE DEF Reports!Where, Reports!RestrictValues, Reports!Restrict, RowsIn
<1>1. Reports!Labelled(rows, x) = RowsIn(rows, RowsOf(rows, x))
  BY DEF Reports!Labelled, Reports!Label, RowsOf
<1>2. Reports!OfTool(rows, x) = RowsIn(rows, CallsOf(rows, x))
  BY DEF Reports!OfTool, CallsOf
<1>3. Reports!OfFile(rows, x) = RowsIn(rows, ReadsOf(rows, x))
  BY DEF Reports!OfFile, ReadsOf
<1> QED BY <1>1, <1>2, <1>3

(* The rows the gain report counts. *)
RowsExecuted(rows) == {i \in DOMAIN rows : rows[i].filter \notin Reports!SYNTHESIS_FILTER_LABELS}

(* The gain report chooses those of no synthesis label.                    *)
LEMMA ExecutedRows ==
    ASSUME NEW rows
    PROVE  Reports!Executed(rows) = RowsIn(rows, RowsExecuted(rows))
BY DEF Reports!Executed, Reports!Where, Reports!RestrictValues, Reports!Restrict, Reports!Label,
       RowsIn, RowsExecuted

(* What a usage says of its rows.                                          *)
LEMMA UsageTells ==
    ASSUME NEW l, NEW rows, NEW total
    PROVE  LET u == Reports!UsageOf(l, rows, total)
           IN  /\ u.label = l /\ u.count = Reports!Count(rows) /\ u.saved = Reports!TotalsOf(rows).saved
BY DEF Reports!UsageOf

(* The labels of a table are those of its rows, finitely many.             *)
LEMMA LabelsAreFew ==
    ASSUME NEW rows, Table(rows)
    PROVE  /\ Reports!LabelsIn(rows) = {rows[i].filter : i \in DOMAIN rows}
           /\ IsFiniteSet(Reports!LabelsIn(rows)) /\ Cardinality(Reports!LabelsIn(rows)) \in Nat
           /\ Reports!LabelsIn(rows) \subseteq Int
           /\ Cardinality(DOMAIN rows) \in Nat /\ IsFiniteSet(DOMAIN rows)
<1> DEFINE f == [i \in DOMAIN rows |-> rows[i].filter]
<1>1. Reports!LabelsIn(rows) = {rows[i].filter : i \in DOMAIN rows}
  BY DEF Reports!LabelsIn, Reports!Label, Reports!Range
<1>2. f \in Surjection(DOMAIN rows, Reports!LabelsIn(rows))
  BY <1>1 DEF Surjection
<1>3. IsFiniteSet(Reports!LabelsIn(rows))
  BY <1>2, FS_Surjection DEF Table
<1> QED BY <1>1, <1>3, FS_CardinalityType DEF Table

(* What a line of the filters report says.                                 *)
LEMMA UsageOfLabel ==
    ASSUME NEW rows, Table(rows), NEW l
    PROVE  /\ Reports!FilterUsage(rows, l).label = l
           /\ Reports!FilterUsage(rows, l).count = Cardinality(RowsOf(rows, l))
           /\ Reports!FilterUsage(rows, l).count \in Nat
           /\ Reports!FilterUsage(rows, l).saved = Sum(SavedBy(rows), RowsOf(rows, l))
<1> DEFINE S == RowsOf(rows, l)
<1>1. S \subseteq DOMAIN rows /\ Reports!Labelled(rows, l) = RowsIn(rows, S)
  BY ChosenRows DEF RowsOf
<1> HIDE DEF S
<1>2. /\ IsFiniteSet(S) /\ Reports!Count(RowsIn(rows, S)) = Cardinality(S)
      /\ Reports!TotalsOf(RowsIn(rows, S)).saved = Sum(SavedBy(rows), S)
  BY <1>1, PartOfTable
<1>3. Reports!FilterUsage(rows, l) = Reports!UsageOf(l, RowsIn(rows, S), Reports!Count(rows))
  BY <1>1 DEF Reports!FilterUsage
<1>4. Cardinality(S) \in Nat
  BY <1>2, FS_CardinalityType
<1> QED BY <1>2, <1>3, <1>4, UsageTells DEF S

LabelsListed(rows) ==
    [k \in 1 .. Cardinality(Reports!LabelsIn(rows)) |-> Reports!LabelAt(rows, k)]

(* The lines of the filters report: one for each label, no label twice.    *)
LEMMA EveryLabelIsListed ==
    ASSUME NEW rows, Table(rows), NEW n, n = Cardinality(Reports!LabelsIn(rows)),
           NEW at, at = LabelsListed(rows)
    PROVE  /\ \A k \in 1 .. n : at[k] \in Reports!LabelsIn(rows)
           /\ \A l \in Reports!LabelsIn(rows) : \E k \in 1 .. n : at[k] = l
           /\ \A j, k \in 1 .. n : at[j] = at[k] => j = k
<1> DEFINE S == Reports!LabelsIn(rows)
           count == [l \in S |-> Reports!FilterUsage(rows, l).count]
           r == {p \in S \X S : count[p[1]] > count[p[2]] \/ (count[p[1]] = count[p[2]] /\ p[1] < p[2])}
<1>1. IsFiniteSet(S) /\ n \in Nat /\ S \subseteq Int /\ \A l \in S : count[l] \in Nat
  BY LabelsAreFew, UsageOfLabel
<1>2. ASSUME NEW l \in S PROVE Reports!ListedBefore(rows, l) = Ahead(S, r, l)
  BY <1>2 DEF Reports!ListedBefore, Ahead
<1>3. \A k \in 1 .. n : at[k] = CHOOSE l \in S : Cardinality(Reports!ListedBefore(rows, l)) = k - 1
  BY ReportCount DEF Reports!LabelAt, LabelsListed
<1> HIDE DEF S, count
<1>4. \A l \in S : <<l, l>> \notin r
  BY <1>1
<1>5. \A i, j, k \in S : <<i, j>> \in r /\ <<j, k>> \in r => <<i, k>> \in r
  BY <1>1
<1>6. \A i, j \in S : i = j \/ <<i, j>> \in r \/ <<j, i>> \in r
  BY <1>1
<1> HIDE DEF r
<1>7. ASSUME NEW k \in 1 .. n
      PROVE  at[k] \in S /\ Cardinality(Reports!ListedBefore(rows, at[k])) = k - 1
  <2>1. k \in 1 .. Cardinality(S)
    BY DEF S
  <2>2. PICK i \in S : 1 + Cardinality(Ahead(S, r, i)) = k
    BY <1>1, <1>4, <1>5, <1>6, <2>1, EveryPlaceIsTaken
  <2>3. Cardinality(Ahead(S, r, i)) \in Nat
    <3>1. Ahead(S, r, i) \in SUBSET S
      BY DEF Ahead
    <3> QED BY <1>1, <3>1, FS_Subset, FS_CardinalityType
  <2>4. Cardinality(Reports!ListedBefore(rows, i)) = k - 1
    BY <1>2, <2>2, <2>3
  <2> QED BY <1>3, <2>4
<1>8. \A j, k \in 1 .. n : at[j] = at[k] => j = k
  <2> TAKE j \in 1 .. n, k \in 1 .. n
  <2> HAVE at[j] = at[k]
  <2>1. j - 1 = k - 1
    BY <1>7
  <2> QED BY <1>1, <2>1
<1>9. \A l \in S : \E k \in 1 .. n : at[k] = l
  <2>1. at \in Injection(1 .. n, S)
    BY <1>7, <1>8 DEF LabelsListed, Injection, IsInjective
  <2>2. IsFiniteSet(1 .. n) /\ Cardinality(1 .. n) = Cardinality(S)
    BY <1>1, FS_Interval DEF S
  <2>3. at \in Surjection(1 .. n, S)
    BY <1>1, <2>1, <2>2, FS_Injection
  <2> QED BY <2>3 DEF Surjection
<1> QED BY <1>7, <1>8, <1>9 DEF S

(* The lines of the filters report, and those the gain report counts too.  *)
LinesOf(rows) == [k \in 1 .. Cardinality(Reports!LabelsIn(rows)) |->
                     Reports!FilterUsage(rows, Reports!LabelAt(rows, k))]
RealLines(filters) == {u \in Reports!Range(filters) : u.label \notin Reports!SYNTHESIS_FILTER_LABELS}

(* Every row is told of by one line. *)
LEMMA LineOfARow ==
    ASSUME NEW rows, Table(rows), NEW filters, filters = LinesOf(rows)
    PROVE  /\ DOMAIN filters = 1 .. Cardinality(Reports!LabelsIn(rows))
           /\ \A k \in DOMAIN filters :
                 /\ filters[k] = Reports!FilterUsage(rows, filters[k].label)
                 /\ \E i \in DOMAIN rows : rows[i].filter = filters[k].label
           /\ \A i \in DOMAIN rows : \E k \in DOMAIN filters : filters[k].label = rows[i].filter
           /\ \A j, k \in DOMAIN filters : filters[j].label = filters[k].label => j = k
<1> DEFINE n == Cardinality(Reports!LabelsIn(rows))
           at == LabelsListed(rows)
<1>1. DOMAIN filters = 1 .. n /\ \A k \in 1 .. n : filters[k] = Reports!FilterUsage(rows, at[k])
  BY DEF LinesOf, LabelsListed
<1>2. \A k \in 1 .. n : filters[k].label = at[k]
  BY <1>1, UsageOfLabel
<1>3. /\ \A k \in 1 .. n : at[k] \in Reports!LabelsIn(rows)
      /\ \A l \in Reports!LabelsIn(rows) : \E k \in 1 .. n : at[k] = l
      /\ \A j, k \in 1 .. n : at[j] = at[k] => j = k
  BY EveryLabelIsListed
<1>4. Reports!LabelsIn(rows) = {rows[i].filter : i \in DOMAIN rows}
  BY LabelsAreFew
<1> HIDE DEF at, n
<1>5. \A k \in 1 .. n : \E i \in DOMAIN rows : rows[i].filter = at[k]
  BY <1>3, <1>4
<1>6. \A i \in DOMAIN rows : \E k \in 1 .. n : at[k] = rows[i].filter
  BY <1>3, <1>4
<1> QED BY <1>1, <1>2, <1>3, <1>5, <1>6 DEF n

(* The real lines account for the rows that were executed.                 *)
LEMMA RealLinesAddUp ==
    ASSUME NEW rows, Table(rows), NEW real, real = RealLines(LinesOf(rows)),
           NEW gain, gain = Reports!TotalsOf(Reports!Executed(rows))
    PROVE  /\ Reports!SumFunction([u \in real |-> u.count]) = gain.total
           /\ Reports!SumFunction([u \in real |-> u.saved]) = gain.saved
<1> DEFINE D == RowsExecuted(rows)
           filters == LinesOf(rows)
           rep == [i \in D |-> Reports!FilterUsage(rows, rows[i].filter)]
           part == [u \in real |-> RowsOf(rows, u.label)]
           count == [u \in real |-> u.count]
           saved == [u \in real |-> u.saved]
<1>1. /\ D \subseteq DOMAIN rows /\ gain = Reports!TotalsOf(RowsIn(rows, D))
      /\ \A i \in DOMAIN rows : i \in D <=> rows[i].filter \notin Reports!SYNTHESIS_FILTER_LABELS
  BY ExecutedRows DEF RowsExecuted
<1>2. IsFiniteSet(D) /\ gain.total = Cardinality(D) /\ gain.saved = Sum(SavedBy(rows), D)
  BY <1>1, PartOfTable
<1>3. \A u : u \in real <=> /\ \E k \in DOMAIN filters : u = filters[k]
                            /\ u.label \notin Reports!SYNTHESIS_FILTER_LABELS
  BY DEF RealLines, Reports!Range
<1> HIDE DEF D, filters
<1>4. /\ \A k \in DOMAIN filters :
            /\ filters[k] = Reports!FilterUsage(rows, filters[k].label)
            /\ \E i \in DOMAIN rows : rows[i].filter = filters[k].label
      /\ \A i \in DOMAIN rows : \E k \in DOMAIN filters : filters[k].label = rows[i].filter
  BY LineOfARow DEF filters
<1>5. \A u \in real : /\ u = Reports!FilterUsage(rows, u.label)
                      /\ \E i \in D : rows[i].filter = u.label
  BY <1>1, <1>3, <1>4
<1>6. \A i \in D : Reports!FilterUsage(rows, rows[i].filter).label = rows[i].filter
  BY UsageOfLabel
<1>7. \A i \in D : Reports!FilterUsage(rows, rows[i].filter) \in real
  BY <1>1, <1>3, <1>4, <1>6
<1>8. GroupsOf(D, real, rep, part)
  <2>1. \A u \in real : \E i \in D : rep[i] = u
    BY <1>5
  <2>2. \A u \in real : part[u] = {i \in D : rep[i] = u}
    <3> TAKE u \in real
    <3>1. \A i \in D : rep[i] = u <=> rows[i].filter = u.label
      BY <1>5, <1>6
    <3>2. part[u] = {i \in DOMAIN rows : rows[i].filter = u.label}
      BY DEF RowsOf
    <3>3. u.label \notin Reports!SYNTHESIS_FILTER_LABELS
      BY <1>3
    <3> QED BY <1>1, <3>1, <3>2, <3>3
  <2>3. \A i \in D : rep[i] \in real
    BY <1>7
  <2> QED BY <1>2, <2>1, <2>2, <2>3 DEF GroupsOf
<1>9. \A u \in real : count[u] = Cardinality(part[u]) /\ saved[u] = Sum(SavedBy(rows), part[u])
  <2> TAKE u \in real
  <2> DEFINE v == Reports!FilterUsage(rows, u.label)
  <2>1. v.count = Cardinality(RowsOf(rows, u.label)) /\ v.saved = Sum(SavedBy(rows), RowsOf(rows, u.label))
    BY UsageOfLabel
  <2>2. u = v
    BY <1>5
  <2> QED BY <2>1, <2>2
<1>10. \A i \in D : SavedBy(rows)[i] \in Int
  BY <1>1 DEF SavedBy, Table
<1>11. DOMAIN count = real /\ DOMAIN saved = real
  OBVIOUS
<1> HIDE DEF rep, part, count, saved
<1>12. Reports!SumFunction(count) = Cardinality(D)
  BY <1>8, <1>9, <1>11, GroupsCountUp
<1>13. Reports!SumFunction(saved) = Sum(SavedBy(rows), D)
  BY <1>8, <1>9, <1>10, <1>11, GroupsAddUp
<1> QED BY <1>2, <1>12, <1>13 DEF count, saved

(* All the lines account for all the rows.                                 *)
LEMMA LinesCountUp ==
    ASSUME NEW rows, Table(rows), NEW filters, filters = LinesOf(rows)
    PROVE  Reports!SumFunction([k \in DOMAIN filters |-> filters[k].count]) = Cardinality(DOMAIN rows)
<1> DEFINE D == DOMAIN rows
           T == DOMAIN filters
           rep == [i \in D |-> CHOOSE k \in T : filters[k].label = rows[i].filter]
           part == [k \in T |-> RowsOf(rows, filters[k].label)]
           count == [k \in T |-> filters[k].count]
<1>1. /\ \A k \in T : /\ filters[k] = Reports!FilterUsage(rows, filters[k].label)
                      /\ \E i \in D : rows[i].filter = filters[k].label
      /\ \A i \in D : \E k \in T : filters[k].label = rows[i].filter
      /\ \A j, k \in T : filters[j].label = filters[k].label => j = k
  BY LineOfARow
<1>2. \A i \in D : rep[i] \in T /\ filters[rep[i]].label = rows[i].filter
  BY <1>1
<1>3. \A k \in T : part[k] = {i \in D : rows[i].filter = filters[k].label}
  BY DEF RowsOf
<1>4. \A k \in T : count[k] = Cardinality(part[k])
  <2> TAKE k \in T
  <2> DEFINE u == filters[k]
             v == Reports!FilterUsage(rows, u.label)
  <2>1. v.count = Cardinality(RowsOf(rows, u.label))
    BY UsageOfLabel
  <2>2. u = v
    BY <1>1
  <2> QED BY <2>1, <2>2
<1>5. IsFiniteSet(D) /\ DOMAIN count = T
  BY DEF Table
<1> HIDE DEF rep, part, count, T, D
<1>6. GroupsOf(D, T, rep, part)
  <2>1. \A k \in T : \E i \in D : rep[i] = k
    BY <1>1, <1>2
  <2>2. \A k \in T : part[k] = {i \in D : rep[i] = k}
    BY <1>1, <1>2, <1>3
  <2> QED BY <1>2, <1>5, <2>1, <2>2 DEF GroupsOf
<1>7. Reports!SumFunction(count) = Cardinality(D)
  BY <1>4, <1>5, <1>6, GroupsCountUp
<1> QED BY <1>7 DEF count, D, T

ToolLines(rows) == {Reports!ToolUsage(rows, tool) : tool \in {Reports!Tool(r) : r \in Reports!Range(rows)}}
FileLines(rows) == {Reports!FileUsage(rows, file) : file \in {r.file : r \in Reports!Range(rows)}}

(* The tools of the gain report account for every row once.                *)
LEMMA ToolLinesCountUp ==
    ASSUME NEW rows, Table(rows), NEW tools, tools = ToolLines(rows)
    PROVE  Reports!SumFunction([t \in tools |-> t.operations]) = Cardinality(DOMAIN rows)
<1> DEFINE D == DOMAIN rows
           line(tool) == Reports!ToolUsage(rows, tool)
           rep == [i \in D |-> Reports!ToolUsage(rows, Reports!Tool(rows[i]))]
           part == [t \in tools |-> CallsOf(rows, t.tool)]
           count == [t \in tools |-> t.operations]
<1>1. ASSUME NEW tool
      PROVE  line(tool).tool = tool /\ line(tool).operations = Cardinality(CallsOf(rows, tool))
  <2>1. CallsOf(rows, tool) \subseteq D
    BY DEF CallsOf
  <2>2. Reports!OfTool(rows, tool) = RowsIn(rows, CallsOf(rows, tool))
    BY ChosenRows
  <2>3. Reports!Count(Reports!OfTool(rows, tool)) = Cardinality(CallsOf(rows, tool))
    BY <2>1, <2>2, PartOfTable
  <2> QED BY <2>3 DEF Reports!ToolUsage
<1>2. \A t : t \in tools <=> \E i \in D : t = line(Reports!Tool(rows[i]))
  BY DEF ToolLines, Reports!Range
<1>3. \A i \in D : rep[i] = line(Reports!Tool(rows[i]))
  OBVIOUS
<1>4. \A t \in tools : part[t] = {i \in D : Reports!Tool(rows[i]) = t.tool} /\ count[t] = t.operations
  BY DEF CallsOf
<1>5. \A t \in tools : part[t] = CallsOf(rows, t.tool)
  OBVIOUS
<1>6. DOMAIN count = tools /\ IsFiniteSet(D)
  BY DEF Table
<1> HIDE DEF rep, part, count, line
<1>7. \A t \in tools : count[t] = Cardinality(part[t]) /\ t = line(t.tool)
  BY <1>1, <1>2, <1>4, <1>5
<1>8. GroupsOf(D, tools, rep, part)
  <2>1. \A i \in D : rep[i] \in tools
    BY <1>2, <1>3
  <2>2. \A t \in tools : \E i \in D : rep[i] = t
    BY <1>2, <1>3
  <2>3. \A t \in tools : part[t] = {i \in D : rep[i] = t}
    <3> TAKE t \in tools
    <3>1. \A i \in D : rep[i] = t <=> Reports!Tool(rows[i]) = t.tool
      BY <1>1, <1>3, <1>7
    <3> QED BY <1>4, <3>1
  <2> QED BY <1>6, <2>1, <2>2, <2>3 DEF GroupsOf
<1>9. Reports!SumFunction(count) = Cardinality(D)
  BY <1>6, <1>7, <1>8, GroupsCountUp
<1> QED BY <1>9 DEF count

(* So do the files that were read, and any of them count no more. *)
LEMMA FileLinesCountUp ==
    ASSUME NEW rows, Table(rows), NEW some, some \subseteq FileLines(rows)
    PROVE  /\ Reports!SumFunction([u \in some |-> u.operations]) \in Int
           /\ Reports!SumFunction([u \in some |-> u.operations]) <= Cardinality(DOMAIN rows)
<1> DEFINE D == DOMAIN rows
           files == FileLines(rows)
           line(file) == Reports!FileUsage(rows, file)
           rep == [i \in D |-> Reports!FileUsage(rows, rows[i].file)]
           part == [u \in files |-> ReadsOf(rows, u.file)]
           count == [u \in files |-> u.operations]
           those == [u \in some |-> u.operations]
<1>1. ASSUME NEW file
      PROVE  line(file).file = file /\ line(file).operations = Cardinality(ReadsOf(rows, file))
  <2>1. ReadsOf(rows, file) \subseteq D
    BY DEF ReadsOf
  <2>2. Reports!OfFile(rows, file) = RowsIn(rows, ReadsOf(rows, file))
    BY ChosenRows
  <2>3. Reports!Count(Reports!OfFile(rows, file)) = Cardinality(ReadsOf(rows, file))
    BY <2>1, <2>2, PartOfTable
  <2> QED BY <2>3 DEF Reports!FileUsage
<1>2. \A u : u \in files <=> \E i \in D : u = line(rows[i].file)
  BY DEF FileLines, Reports!Range
<1>3. \A i \in D : rep[i] = line(rows[i].file)
  OBVIOUS
<1>4. \A u \in files : part[u] = {i \in D : rows[i].file = u.file} /\ count[u] = u.operations
  BY DEF ReadsOf
<1>5. \A u \in files : part[u] = ReadsOf(rows, u.file)
  OBVIOUS
<1>6. DOMAIN count = files /\ DOMAIN those = some /\ IsFiniteSet(D)
  BY DEF Table
<1>7. some \in SUBSET files /\ \A u \in some : those[u] = count[u]
  OBVIOUS
<1> HIDE DEF rep, part, count, line, files, those
<1>8. \A u \in files : count[u] = Cardinality(part[u]) /\ u = line(u.file)
  BY <1>1, <1>2, <1>4, <1>5
<1>9. GroupsOf(D, files, rep, part)
  <2>1. \A i \in D : rep[i] \in files
    BY <1>2, <1>3
  <2>2. \A u \in files : \E i \in D : rep[i] = u
    BY <1>2, <1>3
  <2>3. \A u \in files : part[u] = {i \in D : rep[i] = u}
    <3> TAKE u \in files
    <3>1. \A i \in D : rep[i] = u <=> rows[i].file = u.file
      BY <1>1, <1>3, <1>8
    <3> QED BY <1>4, <3>1
  <2> QED BY <1>6, <2>1, <2>2, <2>3 DEF GroupsOf
<1>10. IsFiniteSet(files) /\ Reports!SumFunction(count) = Cardinality(D)
  BY <1>6, <1>8, <1>9, GroupsCountUp
<1>11. \A u \in files : count[u] \in Nat
  <2> TAKE u \in files
  <2>1. part[u] \in SUBSET D
    BY <1>4
  <2> QED BY <1>6, <1>8, <2>1, FS_Subset, FS_CardinalityType
<1>12. /\ Reports!SumFunction(count) = Sum(count, files)
       /\ Reports!SumFunction(those) = Sum(those, some)
  <2>1. IsFiniteSet(some)
    BY <1>7, <1>10, FS_Subset
  <2>2. \A u \in files : count[u] \in Int
    BY <1>11
  <2>3. \A u \in some : those[u] \in Int
    BY <1>7, <2>2
  <2> QED BY <1>6, <1>10, <2>1, <2>2, <2>3, ReportSum
<1>13. Sum(those, some) = Sum(count, some)
  <2>1. IsFiniteSet(some) /\ \A u \in some : count[u] \in Int /\ those[u] = count[u]
    BY <1>7, <1>10, <1>11, FS_Subset
  <2> QED BY <2>1, SumsAgree
<1>14. Sum(count, some) <= Sum(count, files)
  BY <1>7, <1>10, <1>11, SumIsMonotonic
<1>15. Reports!SumFunction(those) \in Int /\ Reports!SumFunction(those) <= Cardinality(D)
  <2>1. Sum(count, some) \in Nat
    BY <1>7, <1>10, <1>11, FS_Subset, SumType
  <2> QED BY <1>10, <1>12, <1>13, <1>14, <2>1
<1> QED BY <1>15 DEF those

RowsReadFrom(rows) == {i \in DOMAIN rows : Reports!NamesAFile(rows[i])}

(* The reads of a window are some of its rows.                             *)
LEMMA ReadsOfAWindow ==
    ASSUME NEW rows, NEW path, NEW now, NEW days, NEW scope, scope = Reports!Scoped(rows, path, now, days)
    PROVE  Reports!FileReads(rows, path, now, days) = RowsIn(scope, RowsReadFrom(scope))
BY DEF Reports!FileReads, Reports!Where, Reports!RestrictValues, Reports!Restrict, RowsIn, RowsReadFrom

(* The report of files lists some of them.                                 *)
LEMMA ChosenFiles ==
    ASSUME NEW rows, NEW path, NEW now, NEW days, NEW limit,
           NEW file \in Reports!query_gain_by_file(rows, path, now, days, limit)
    PROVE  file \subseteq FileLines(Reports!FileReads(rows, path, now, days))
BY DEF Reports!query_gain_by_file, Reports!TopSets, FileLines

(* The reports of one window of any table agree.                           *)
THEOREM ReportsOfAWindowAgree ==
    ASSUME NEW rows, Table(rows), NEW path, NEW now, NEW days
    PROVE  Reports!ReportsAgree(rows, path, now, days)
<1> DEFINE scope == Reports!Scoped(rows, path, now, days)
           gain == Reports!query_gain(rows, path, now, days).totals
           analytics == Reports!query_filter_analytics(rows, path, now, days)
           tools == Reports!query_gain_by_tool(rows, path, now, days)
           real == {u \in Reports!Range(analytics.filters) : u.label \notin Reports!SYNTHESIS_FILTER_LABELS}
           reads == Reports!FileReads(rows, path, now, days)
<1>1. Table(scope)
  <2>1. PICK S \in SUBSET DOMAIN rows : Reports!Scoped(rows, path, now, days) = RowsIn(rows, S)
    BY ScopedRows
  <2> QED BY <2>1, PartOfTable
<1>2. gain = Reports!TotalsOf(Reports!Executed(scope))
  BY DEF Reports!query_gain
<1>3. /\ analytics.total = Cardinality(DOMAIN scope)
      /\ analytics.filters = LinesOf(scope)
  <2>1. analytics.total = Reports!Count(scope) /\ analytics.filters = LinesOf(scope)
    BY ReportCount DEF Reports!query_filter_analytics, LinesOf
  <2> QED BY <2>1, ReportCount DEF Reports!Count
<1>4. tools = ToolLines(scope)
  BY DEF Reports!query_gain_by_tool, ToolLines
<1>5. real = RealLines(LinesOf(scope))
  BY <1>3 DEF RealLines
<1>6. /\ Table(Reports!Executed(scope))
      /\ Table(reads) /\ Cardinality(DOMAIN reads) <= Cardinality(DOMAIN scope)
  <2>1. /\ RowsExecuted(scope) \subseteq DOMAIN scope /\ RowsReadFrom(scope) \subseteq DOMAIN scope
        /\ IsFiniteSet(DOMAIN scope)
    BY <1>1 DEF RowsExecuted, RowsReadFrom, Table
  <2>2. Reports!Executed(scope) = RowsIn(scope, RowsExecuted(scope))
    BY ExecutedRows
  <2>3. reads = RowsIn(scope, RowsReadFrom(scope))
    BY ReadsOfAWindow
  <2>4. Table(Reports!Executed(scope)) /\ Table(reads) /\ DOMAIN reads = RowsReadFrom(scope)
    BY <1>1, <2>1, <2>2, <2>3, PartOfTable
  <2> QED BY <2>1, <2>4, FS_Subset
<1>7. \A file \in Reports!query_gain_by_file(rows, path, now, days, 10) : file \subseteq FileLines(reads)
  BY ChosenFiles
<1> HIDE DEF scope, gain, analytics, tools, real, reads
<1>8. /\ gain.saved = gain.savings - gain.overhead
      /\ gain.saved = gain.before - gain.after /\ gain.eligible <= gain.before
  BY <1>2, <1>6, TotalsAgree
<1>9. /\ gain.total = Reports!SumFunction([u \in real |-> u.count])
      /\ gain.saved = Reports!SumFunction([u \in real |-> u.saved])
  BY <1>1, <1>2, <1>5, RealLinesAddUp
<1>10. analytics.total = Reports!SumFunction([t \in tools |-> t.operations])
  BY <1>1, <1>3, <1>4, ToolLinesCountUp
<1>11. Reports!SumFunction([k \in DOMAIN analytics.filters |-> analytics.filters[k].count]) = analytics.total
  BY <1>1, <1>3, LinesCountUp
<1>12. ASSUME NEW file \in Reports!query_gain_by_file(rows, path, now, days, 10)
       PROVE  Reports!SumFunction([u \in file |-> u.operations]) <= analytics.total
  <2> DEFINE sum == Reports!SumFunction([u \in file |-> u.operations])
  <2>0. sum \in Int /\ sum <= Cardinality(DOMAIN reads)
    BY <1>6, <1>7, FileLinesCountUp
  <2> HIDE DEF sum
  <2>2. Cardinality(DOMAIN reads) \in Nat /\ Cardinality(DOMAIN scope) \in Nat
    BY <1>1, <1>6, FS_CardinalityType DEF Table
  <2>3. sum <= analytics.total
    BY <1>3, <1>6, <2>0, <2>2
  <2> QED BY <2>3 DEF sum
<1> QED
  BY <1>8, <1>9, <1>10, <1>11, <1>12
  DEF Reports!ReportsAgree, Reports!SumOf, Reports!SumOver, gain, analytics, tools, real

(* A report for a project is about what was run in it or below it.         *)
THEOREM ReportsStayInTheProject ==
    ASSUME NEW rows, Table(rows), NEW Segments, NEW path, path.segments \in Seq(Segments),
           NEW now, NEW days
    PROVE  Reports!ReportStaysInProject(rows, path, now, days)
<1> DEFINE scope == Reports!Scoped(rows, path, now, days)
<1>1. PICK S \in SUBSET DOMAIN rows :
        /\ scope = RowsIn(rows, S)
        /\ \A i \in S : Reports!InProject(path.segments, rows[i].path.segments)
  BY ScopedRows
<1> HIDE DEF scope
<1>2. \A r \in Reports!Range(scope) : Reports!InProject(path.segments, r.path.segments)
  BY <1>1 DEF RowsIn, Reports!Range
<1>3. SubSeq(path.segments, 1, Len(path.segments)) = path.segments
  OBVIOUS
<1> QED BY <1>2, <1>3 DEF Reports!ReportStaysInProject, Reports!InProject, Reports!IsPrefix, scope

(* The reports take the greatest as Max does.                              *)
LEMMA ReportMax ==
    ASSUME NEW S PROVE Reports!Max(S) = Max(S)
BY DEF Reports!Max, Max

(* What the stages of a run report: each starts from what the one before   *)
(* it left, and one that failed or was skipped left the tokens alone.      *)
StageTrace(results, original, n) ==
    /\ original \in Nat /\ DOMAIN results = 1 .. n
    /\ \A i \in 1 .. n :
          /\ results[i].error \in BOOLEAN /\ results[i].was_skipped \in BOOLEAN
          /\ results[i].before \in Nat /\ results[i].after \in Nat
          /\ results[i].before = IF i = 1 THEN original ELSE results[i - 1].after
          /\ results[i].error \/ results[i].was_skipped => results[i].after = results[i].before

StatsType == [executions : Nat, skipped : Nat, failed : Nat, saved : Int]

(* What one stage adds to the figures of its type. *)
LEMMA AddTells ==
    ASSUME NEW s \in StatsType, NEW r,
           r.error \in BOOLEAN, r.was_skipped \in BOOLEAN, r.before \in Nat, r.after \in Nat,
           r.error \/ r.was_skipped => r.after = r.before
    PROVE  /\ Reports!add(s, r) \in StatsType
           /\ Reports!add(s, r).saved = s.saved + (r.before - r.after)
<1>1. CASE r.error
  BY <1>1 DEF Reports!add, StatsType
<1>2. CASE ~r.error /\ r.was_skipped
  BY <1>2 DEF Reports!add, StatsType
<1>3. CASE ~r.error /\ ~r.was_skipped
  <2>1. Reports!Untraced \notin {r.before, r.after}
    BY DEF Reports!Untraced
  <2>2. Reports!add(s, r) = [s EXCEPT !.executions = @ + 1, !.saved = @ + r.before - r.after]
    BY <1>3, <2>1 DEF Reports!add
  <2>3. /\ s = [executions |-> s.executions, skipped |-> s.skipped, failed |-> s.failed, saved |-> s.saved]
        /\ s.executions \in Nat /\ s.skipped \in Nat /\ s.failed \in Nat /\ s.saved \in Int
    BY DEF StatsType
  <2>4. Reports!add(s, r) = [executions |-> s.executions + 1, skipped |-> s.skipped, failed |-> s.failed,
                             saved |-> s.saved + r.before - r.after]
    BY <2>2, <2>3
  <2>5. s.saved + r.before - r.after \in Int /\ s.saved + r.before - r.after = s.saved + (r.before - r.after)
    BY <2>3
  <2> QED BY <2>3, <2>4, <2>5 DEF StatsType
<1> QED BY <1>1, <1>2, <1>3

(* The figures of a type after each of the stages.                         *)
StatsInTurn(at, results, type, n) ==
    /\ at[0] = Reports!NoStats
    /\ \A k \in 1 .. n : at[k] = IF results[k].type = type THEN Reports!add(at[k - 1], results[k]) ELSE at[k - 1]
    /\ Reports!StatsOf(results, type) = at[n]

(* There are such figures.                                                 *)
LEMMA StatsFoldInTurn ==
    ASSUME NEW n \in Nat, NEW original, NEW results, StageTrace(results, original, n), NEW type
    PROVE  \E at : StatsInTurn(at, results, type, n)
<1> DEFINE S == 1 .. n
           base == Reports!NoStats
           Step(r, s) == IF r.type = type THEN Reports!add(s, r) ELSE s
           step == [k \in S |-> [s \in StatsType |-> Step(results[k], s)]]
           pick == [s \in SUBSET S |-> Max(s)]
           Runs(g) == g = [s \in SUBSET S |->
                             IF s = {} THEN base ELSE Step(results[Max(s)], g[s \ {Max(s)}])]
           it == CHOOSE g : Runs(g)
<1>1. IsFiniteSet(S)
  BY FS_Interval
<1>2. \A s \in SUBSET S : s # {} => Max(s) \in s
  BY MaxIsAmongThem
<1>3. Picks(pick, S)
  BY <1>2 DEF Picks
<1>4. step \in [S -> [StatsType -> StatsType]] /\ base \in StatsType
  <2>1. \A k \in S : \A s \in StatsType : Step(results[k], s) \in StatsType
    BY AddTells DEF StageTrace
  <2>2. base \in StatsType
    BY DEF Reports!NoStats, StatsType
  <2> HIDE DEF Step
  <2> QED BY <2>1, <2>2
<1>5. PICK g : Folds(g, step, base, pick, SUBSET S)
  <2> HIDE DEF step, pick, S
  <2> QED BY <1>1, <1>3, FolderExists
<1>6. \A s \in SUBSET S : g[s] \in StatsType
  <2> HIDE DEF step, pick, S, base
  <2> QED BY <1>1, <1>3, <1>4, <1>5, FoldStays
<1>7. Runs(g)
  <2> HIDE DEF Step, base
  <2>1. \A s \in SUBSET S :
          g[s] = IF s = {} THEN base ELSE step[pick[s]][g[s \ {pick[s]}]]
    BY <1>5 DEF Folds
  <2>2. \A s \in SUBSET S : s # {} => Max(s) \in S /\ g[s \ {Max(s)}] \in StatsType
    BY <1>2, <1>6
  <2>3. \A s \in SUBSET S :
          g[s] = IF s = {} THEN base ELSE Step(results[Max(s)], g[s \ {Max(s)}])
    BY <2>1, <2>2
  <2>4. g = [s \in SUBSET S |-> g[s]]
    BY <1>5 DEF Folds
  <2> QED BY <2>3, <2>4
<1>8. Runs(it)
  BY <1>7
<1>9. Reports!StatsOf(results, type) = it[S]
  <2>1. DOMAIN results = S
    BY DEF StageTrace
  <2> QED BY <2>1 DEF Reports!StatsOf, Reports!FoldLeft, Reports!MapThenFoldSet, Reports!Max, Max
<1> HIDE DEF it
<1>10. \A s \in SUBSET S :
          it[s] = IF s = {} THEN base ELSE Step(results[Max(s)], it[s \ {Max(s)}])
  BY <1>8
<1> DEFINE at == [k \in 0 .. n |-> it[1 .. k]]
<1> HIDE DEF Step, base
<1>11. at[0] = base
  <2>1. at[0] = it[{}]
    OBVIOUS
  <2> QED BY <1>10, <2>1
<1>12. ASSUME NEW k \in 1 .. n PROVE at[k] = Step(results[k], at[k - 1])
  <2> DEFINE s == 1 .. k
  <2>1. s \in SUBSET (1 .. n) /\ k \in s /\ s # {} /\ k \in 0 .. n /\ k - 1 \in 0 .. n
    <3>1. k \in Nat /\ 1 <= k /\ k <= n /\ k \in s /\ k \in 0 .. n /\ k - 1 \in 0 .. n
      OBVIOUS
    <3>2. \A x \in s : x \in 1 .. n
      BY <3>1
    <3> QED BY <3>1, <3>2
  <2>4. s \ {k} = 1 .. k - 1
    OBVIOUS
  <2>2. Max(s) = k
    <3>1. Max(s) \in s /\ \A x \in s : x <= Max(s)
      <4> HIDE DEF s
      <4> QED BY <2>1, MaxIsAmongThem
    <3>2. k <= Max(s) /\ Max(s) \in 1 .. k
      BY <2>1, <3>1
    <3> HIDE DEF s
    <3> QED BY <3>2
  <2>3. at[k] = it[s] /\ at[k - 1] = it[1 .. k - 1]
    BY <2>1
  <2>5. s \in SUBSET S
    BY <2>1 DEF S
  <2> HIDE DEF s, at
  <2>6. it[s] = Step(results[Max(s)], it[s \ {Max(s)}])
    BY <1>10, <2>1, <2>5
  <2> QED BY <2>2, <2>3, <2>4, <2>6
<1>13. at[n] = it[S]
  BY DEF S
<1> HIDE DEF at
<1>14. StatsInTurn(at, results, type, n)
  BY <1>9, <1>11, <1>12, <1>13 DEF StatsInTurn, Step, base
<1> QED BY <1>14

(* The tokens each stage took away.                                        *)
TakenBy(results) == [i \in DOMAIN results |-> results[i].before - results[i].after]
StagesOf(results, type) == {i \in DOMAIN results : results[i].type = type}

(* The figures of a type say what its stages took away.                    *)
LEMMA StatsAddUp ==
    ASSUME NEW n \in Nat, NEW original, NEW results, StageTrace(results, original, n), NEW type
    PROVE  Reports!StatsOf(results, type).saved = Sum(TakenBy(results), StagesOf(results, type))
<1> DEFINE taken == TakenBy(results)
           Done(k) == {i \in 1 .. k : results[i].type = type}
<1>1. PICK at : StatsInTurn(at, results, type, n)
  BY StatsFoldInTurn
<1> DEFINE Good == {k \in 0 .. n : at[k] \in StatsType /\ at[k].saved = Sum(taken, Done(k))}
<1>2. \A i \in 1 .. n : taken[i] = results[i].before - results[i].after /\ taken[i] \in Int
  BY DEF TakenBy, StageTrace
<1>3. 0 \in Good
  <2>1. Done(0) = {}
    OBVIOUS
  <2>2. at[0] \in StatsType /\ at[0].saved = 0
    BY <1>1 DEF StatsInTurn, Reports!NoStats, StatsType
  <2> QED BY <2>1, <2>2, SumEmpty
<1>4. ASSUME NEW k \in 0 .. n - 1, k \in Good PROVE k + 1 \in Good
  <2>1. k + 1 \in 1 .. n /\ k + 1 \in 0 .. n /\ (k + 1) - 1 = k /\ k \in Nat
    OBVIOUS
  <2> DEFINE j == k + 1
             D == Done(j)
  <2>2. at[j] = IF results[j].type = type THEN Reports!add(at[k], results[j]) ELSE at[k]
    BY <1>1, <2>1 DEF StatsInTurn
  <2>3. at[k] \in StatsType /\ at[k].saved = Sum(taken, Done(k))
    BY <1>4
  <2>4. CASE results[j].type = type
    <3>1. /\ Reports!add(at[k], results[j]) \in StatsType
          /\ Reports!add(at[k], results[j]).saved = at[k].saved + (results[j].before - results[j].after)
      BY <2>1, <2>3, AddTells DEF StageTrace
    <3>2. j \in D /\ D \ {j} = Done(k) /\ D \in SUBSET (1 .. n)
      BY <2>1, <2>4
    <3>3. IsFiniteSet(D) /\ \A i \in D : taken[i] \in Int
      <4> HIDE DEF D, taken
      <4>1. IsFiniteSet(1 .. n) /\ \A i \in 1 .. n : taken[i] \in Int
        BY <1>2, FS_Interval
      <4> QED BY <3>2, <4>1, FS_Subset
    <3> HIDE DEF D, taken
    <3>4. Sum(taken, D) = Sum(taken, D \ {j}) + taken[j]
      BY <3>2, <3>3, SumOfOneMore
    <3>5. at[j] \in StatsType /\ at[j].saved = Sum(taken, D)
      BY <1>2, <2>1, <2>2, <2>3, <2>4, <3>1, <3>2, <3>4
    <3> QED BY <2>1, <3>5 DEF D
  <2>5. CASE results[j].type # type
    <3>1. D = Done(k)
      BY <2>1, <2>5
    <3> QED BY <2>1, <2>2, <2>3, <2>5, <3>1
  <2> QED BY <2>4, <2>5
<1> HIDE DEF Good
<1>5. \A k \in 0 .. n : k \in Good
  BY <1>3, <1>4, UpTo
<1>6. n \in Good
  BY <1>5
<1>7. Done(n) = StagesOf(results, type)
  BY DEF StagesOf, StageTrace
<1> QED BY <1>1, <1>6, <1>7 DEF Good, StatsInTurn

(* The tokens after each of the stages. *)
LevelsOf(results, original, n) == [k \in 0 .. n |-> IF k = 0 THEN original ELSE results[k].after]
RanOf(results) == {i \in DOMAIN results : ~results[i].error /\ ~results[i].was_skipped}

(* What is taken away is the difference between the first and the last.    *)
LEMMA TakenIsTheDifference ==
    ASSUME NEW n \in Nat, NEW original, NEW results, StageTrace(results, original, n),
           NEW level, level = LevelsOf(results, original, n)
    PROVE  original - Sum(TakenBy(results), 1 .. n) = level[n]
<1> DEFINE taken == TakenBy(results)
           Good == {k \in 0 .. n : original - Sum(taken, 1 .. k) = level[k]}
<1>1. /\ original \in Nat /\ \A k \in 0 .. n : level[k] \in Nat
      /\ level[0] = original
      /\ \A i \in 1 .. n : taken[i] = level[i - 1] - level[i] /\ taken[i] \in Int
  <2>1. \A i \in 1 .. n : i - 1 \in 0 .. n /\ i \in 0 .. n
    OBVIOUS
  <2> QED BY <2>1 DEF TakenBy, StageTrace, LevelsOf
<1>2. 0 \in Good
  <2>1. 1 .. 0 = {}
    OBVIOUS
  <2> QED BY <1>1, <2>1, SumEmpty
<1>3. ASSUME NEW k \in 0 .. n - 1, k \in Good PROVE k + 1 \in Good
  <2> DEFINE D == 1 .. k + 1
  <2>1. k + 1 \in 1 .. n /\ k + 1 \in 0 .. n /\ k \in 0 .. n /\ (k + 1) - 1 = k
    OBVIOUS
  <2>2. k + 1 \in D /\ D \ {k + 1} = 1 .. k /\ D \in SUBSET (1 .. n) /\ 1 .. k \in SUBSET (1 .. n)
    BY <2>1
  <2>3. IsFiniteSet(D) /\ IsFiniteSet(1 .. k)
    BY FS_Interval
  <2>4. \A i \in D : taken[i] \in Int
    BY <1>1, <2>2
  <2> HIDE DEF D, taken
  <2>5. Sum(taken, D) = Sum(taken, D \ {k + 1}) + taken[k + 1]
    BY <2>2, <2>3, <2>4, SumOfOneMore
  <2>6. Sum(taken, 1 .. k) \in Int
    BY <2>2, <2>3, <2>4, SumIsInt
  <2>7. taken[k + 1] = level[k] - level[k + 1] /\ level[k] \in Nat /\ level[k + 1] \in Nat
    BY <1>1, <2>1
  <2>8. original - Sum(taken, 1 .. k) = level[k]
    BY <1>3
  <2>9. original - Sum(taken, D) = level[k + 1]
    <3> DEFINE all == Sum(taken, D)
               rest == Sum(taken, 1 .. k)
    <3>1. all = rest + taken[k + 1] /\ rest \in Int
      BY <2>2, <2>5, <2>6
    <3>2. original - rest = level[k] /\ original \in Nat
      BY <1>1, <2>8
    <3> HIDE DEF all, rest
    <3>3. original - all = level[k + 1]
      BY <2>7, <3>1, <3>2
    <3> QED BY <3>3 DEF all
  <2> QED BY <2>1, <2>9 DEF D
<1> HIDE DEF Good
<1>4. \A k \in 0 .. n : k \in Good
  BY <1>2, <1>3, UpTo
<1> QED BY <1>4 DEF Good

(* The last stage that ran left what the run ends with.                    *)
LEMMA LastStageThatRan ==
    ASSUME NEW n \in Nat, NEW original, NEW results, StageTrace(results, original, n),
           NEW level, level = LevelsOf(results, original, n), NEW ran, ran = RanOf(results)
    PROVE  level[n] = IF ran = {} THEN original ELSE results[Max(ran)].after
<1> DEFINE m == IF ran = {} THEN 0 ELSE Max(ran)
           Good == {k \in 0 .. n : k >= m => level[k] = level[m]}
<1>1. /\ ran \in SUBSET (1 .. n)
      /\ \A i \in 1 .. n : i \notin ran => results[i].error \/ results[i].was_skipped
  BY DEF RanOf, StageTrace
<1>2. m \in 0 .. n /\ \A i \in ran : i <= m
  <2>1. CASE ran = {}
    BY <2>1
  <2>2. CASE ran # {}
    <3>1. Max(ran) \in ran /\ \A i \in ran : i <= Max(ran)
      BY <1>1, <2>2, MaxIsAmongThem
    <3> QED BY <1>1, <2>2, <3>1
  <2> QED BY <2>1, <2>2
<1>3. \A i \in 1 .. n : i \notin ran => level[i] = level[i - 1]
  <2> TAKE i \in 1 .. n
  <2> HAVE i \notin ran
  <2>1. i - 1 \in 0 .. n /\ i \in 0 .. n
    OBVIOUS
  <2>2. results[i].after = results[i].before
    BY <1>1 DEF StageTrace
  <2>3. results[i].before = IF i = 1 THEN original ELSE results[i - 1].after
    BY DEF StageTrace
  <2> QED BY <2>1, <2>2, <2>3 DEF LevelsOf
<1> HIDE DEF m
<1>4. 0 \in Good
  BY <1>2
<1>5. ASSUME NEW k \in 0 .. n - 1, k \in Good PROVE k + 1 \in Good
  <2>1. k + 1 \in 1 .. n /\ k + 1 \in 0 .. n /\ (k + 1) - 1 = k
    OBVIOUS
  <2>2. CASE k + 1 > m
    <3>1. k + 1 \notin ran /\ k >= m
      BY <1>2, <2>2
    <3> QED BY <1>3, <1>5, <2>1, <3>1
  <2>3. CASE k + 1 <= m
    BY <1>2, <2>1, <2>3
  <2> QED BY <1>2, <2>1, <2>2, <2>3
<1> HIDE DEF Good
<1>6. \A k \in 0 .. n : k \in Good
  BY <1>4, <1>5, UpTo
<1>7. level[n] = level[m]
  BY <1>2, <1>6 DEF Good
<1>8. CASE ran = {}
  BY <1>7, <1>8 DEF m, LevelsOf
<1>9. CASE ran # {}
  <2>1. m = Max(ran) /\ m \in 1 .. n
    BY <1>1, <1>9, MaxIsAmongThem DEF m
  <2>2. level[m] = results[m].after
    BY <1>2, <2>1 DEF LevelsOf
  <2> QED BY <1>7, <1>9, <2>1, <2>2
<1> QED BY <1>8, <1>9

(* The types of a run account for all that was taken away.                 *)
LEMMA TypesAddUp ==
    ASSUME NEW n \in Nat, NEW original, NEW results, StageTrace(results, original, n),
           NEW stats, stats = Reports!snapshot(results),
           NEW lines, lines = {type \in DOMAIN stats : stats[type].saved # 0}
    PROVE  Reports!SumFunction([type \in lines |-> stats[type].saved]) = Sum(TakenBy(results), 1 .. n)
<1> DEFINE S == 1 .. n
           T == DOMAIN stats
           rep == [i \in S |-> results[i].type]
           part == [type \in T |-> StagesOf(results, type)]
           w == [type \in T |-> stats[type].saved]
           shown == [type \in lines |-> stats[type].saved]
           none == T \ lines
<1>1. /\ DOMAIN results = S /\ IsFiniteSet(S)
      /\ \A i \in S : TakenBy(results)[i] \in Int
  <2>1. DOMAIN results = S
    BY DEF StageTrace
  <2>2. \A i \in S : TakenBy(results)[i] \in Int
    BY <2>1 DEF StageTrace, TakenBy
  <2>3. 1 \in Int /\ n \in Int
    OBVIOUS
  <2>4. IsFiniteSet(S)
    BY <2>3, FS_Interval
  <2> QED BY <2>1, <2>2, <2>4
<1>2. /\ \A type : type \in T <=> \E i \in S : results[i].type = type
      /\ \A type \in T : stats[type] = Reports!StatsOf(results, type)
  <2>1. stats = [type \in {r.type : r \in Reports!Range(results)} |-> Reports!StatsOf(results, type)]
    BY DEF Reports!snapshot
  <2>2. T = {r.type : r \in Reports!Range(results)}
    BY <2>1
  <2>3. Reports!Range(results) = {results[i] : i \in S}
    BY <1>1 DEF Reports!Range
  <2>4. \A type \in T : stats[type] = Reports!StatsOf(results, type)
    BY <2>1, <2>2
  <2> QED BY <2>2, <2>3, <2>4
<1>3. \A type \in T : w[type] = Sum(TakenBy(results), part[type])
  BY <1>2, StatsAddUp
<1>4. /\ \A type \in T : part[type] = {i \in S : rep[i] = type}
      /\ \A i \in S : rep[i] \in T
  <2>1. \A type \in T : part[type] = {i \in S : results[i].type = type}
    BY <1>1 DEF StagesOf
  <2> QED BY <1>2, <2>1
<1>5. IsFiniteSet(T)
  <2>1. rep \in Surjection(S, T)
    BY <1>2 DEF Surjection
  <2> QED BY <1>1, <2>1, FS_Surjection
<1>6. \A type \in T : w[type] \in Int
  <2> TAKE type \in T
  <2>1. part[type] \in SUBSET S /\ IsFiniteSet(part[type])
    <3> HIDE DEF part, S
    <3>1. part[type] \in SUBSET S
      BY <1>4
    <3> QED BY <1>1, <3>1, FS_Subset
  <2> HIDE DEF part, w
  <2>2. \A i \in part[type] : TakenBy(results)[i] \in Int
    BY <1>1, <2>1
  <2> QED BY <1>3, <2>1, <2>2, SumIsInt
<1>7. /\ lines \in SUBSET T /\ none \in SUBSET T /\ lines \intersect none = {} /\ lines \union none = T
      /\ \A type \in lines : shown[type] = w[type]
      /\ \A type \in none : w[type] = 0
      /\ DOMAIN shown = lines
  OBVIOUS
<1> HIDE DEF S, T, rep, part, w, shown, none
<1>8. Sum(w, T) = Sum(TakenBy(results), S)
  BY <1>1, <1>3, <1>4, <1>5, SumByFibres
<1>9. Sum(w, T) = Sum(w, lines)
  <2>1. Sum(w, T) = Sum(w, lines) + Sum(w, none)
    BY <1>5, <1>6, <1>7, SumOfApart
  <2>2. IsFiniteSet(none) /\ IsFiniteSet(lines)
    BY <1>5, <1>7, FS_Subset
  <2>3. Sum(w, none) = 0
    BY <1>7, <2>2, SumOfZeros
  <2>4. Sum(w, lines) \in Int
    BY <1>6, <1>7, <2>2, SumIsInt
  <2> QED BY <2>1, <2>3, <2>4
<1>10. Sum(shown, lines) = Sum(w, lines) /\ Reports!SumFunction(shown) = Sum(shown, lines)
  <2>1. IsFiniteSet(lines) /\ \A type \in lines : w[type] \in Int /\ shown[type] = w[type] /\ shown[type] \in Int
    BY <1>5, <1>6, <1>7, FS_Subset
  <2>2. Sum(shown, lines) = Sum(w, lines)
    BY <2>1, SumsAgree
  <2> QED BY <1>7, <2>1, <2>2, ReportSum
<1> QED BY <1>8, <1>9, <1>10 DEF S, shown

(* A summary of a run ends where its last stage left the text.             *)
THEOREM SummariesEndAtTheOutput ==
    ASSUME NEW n \in Nat, NEW original, NEW results, StageTrace(results, original, n)
    PROVE  Reports!SummaryEndsAtOutput(original, results)
<1> DEFINE stats == Reports!snapshot(results)
           lines == {type \in DOMAIN stats : stats[type].saved # 0}
           ran == RanOf(results)
           level == LevelsOf(results, original, n)
           final == Reports!build_compression_summary(original, results).final
<1>1. final = original - Reports!SumFunction([type \in lines |-> stats[type].saved])
  BY DEF Reports!build_compression_summary, Reports!SumOver
<1>2. Reports!SumFunction([type \in lines |-> stats[type].saved]) = Sum(TakenBy(results), 1 .. n)
  <2> HIDE DEF stats
  <2> QED BY TypesAddUp DEF stats
<1>3. final = level[n]
  BY <1>1, <1>2, TakenIsTheDifference
<1>4. level[n] = IF ran = {} THEN original ELSE results[Max(ran)].after
  BY LastStageThatRan
<1> HIDE DEF final
<1> QED BY <1>3, <1>4, ReportMax DEF Reports!SummaryEndsAtOutput, RanOf, final

(* Stages of any number, each with what it leaves if it runs.              *)
GivenStages(stages, n) ==
    /\ DOMAIN stages = 1 .. n
    /\ \A i \in 1 .. n : /\ stages[i].error \in BOOLEAN /\ stages[i].was_skipped \in BOOLEAN
                         /\ stages[i].left \in Nat

RanUpTo(stages, k) == {i \in 1 .. k : ~stages[i].error /\ ~stages[i].was_skipped}

(* The trace of such stages is one.                                        *)
LEMMA TracedIsATrace ==
    ASSUME NEW n \in Nat, NEW stages, GivenStages(stages, n), NEW tokens \in Nat
    PROVE  StageTrace(Traced(stages, tokens), tokens, n)
<1> DEFINE results == Traced(stages, tokens)
           L(k) == Left(stages, tokens, k)
<1>1. \A k \in 0 .. n : L(k) = IF RanUpTo(stages, k) = {} THEN tokens ELSE stages[Max(RanUpTo(stages, k))].left
  BY DEF Left, RanUpTo
<1>2. \A k \in 0 .. n : L(k) \in Nat
  <2> TAKE k \in 0 .. n
  <2>1. RanUpTo(stages, k) \in SUBSET (1 .. n)
    BY DEF RanUpTo
  <2>2. RanUpTo(stages, k) # {} => Max(RanUpTo(stages, k)) \in 1 .. n
    BY <2>1, MaxIsAmongThem
  <2> HIDE DEF L
  <2> QED BY <1>1, <2>2 DEF GivenStages
<1>3. L(0) = tokens
  <2>1. RanUpTo(stages, 0) = {} /\ 0 \in 0 .. n
    BY DEF RanUpTo
  <2> HIDE DEF L
  <2> QED BY <1>1, <2>1
<1>4. ASSUME NEW i \in 1 .. n, stages[i].error \/ stages[i].was_skipped PROVE L(i) = L(i - 1)
  <2>1. i \in 0 .. n /\ i - 1 \in 0 .. n
    OBVIOUS
  <2>2. RanUpTo(stages, i) = RanUpTo(stages, i - 1)
    <3>1. \A x : x \in 1 .. i /\ x # i <=> x \in 1 .. i - 1
      OBVIOUS
    <3> QED BY <1>4, <3>1 DEF RanUpTo, GivenStages
  <2> HIDE DEF L
  <2> QED BY <1>1, <2>1, <2>2
<1>5. DOMAIN results = 1 .. n
      /\ \A i \in 1 .. n : /\ results[i].error = stages[i].error /\ results[i].was_skipped = stages[i].was_skipped
                           /\ results[i].before = L(i - 1) /\ results[i].after = L(i)
  BY DEF Traced, GivenStages
<1> HIDE DEF L, results
<1>6. \A i \in 1 .. n :
         /\ i - 1 \in 0 .. n /\ i \in 0 .. n
         /\ i # 1 => i - 1 \in 1 .. n
  OBVIOUS
<1>7. \A i \in 1 .. n : results[i].before = IF i = 1 THEN tokens ELSE results[i - 1].after
  <2> TAKE i \in 1 .. n
  <2>1. CASE i = 1
    <3>1. i - 1 = 0
      BY <2>1
    <3> QED BY <1>3, <1>5, <2>1, <3>1
  <2>2. CASE i # 1
    BY <1>5, <1>6, <2>2
  <2> QED BY <2>1, <2>2
<1>8. \A i \in 1 .. n : /\ results[i].error \in BOOLEAN /\ results[i].was_skipped \in BOOLEAN
                        /\ results[i].before \in Nat /\ results[i].after \in Nat
  BY <1>2, <1>5, <1>6 DEF GivenStages
<1>9. \A i \in 1 .. n : results[i].error \/ results[i].was_skipped => results[i].after = results[i].before
  BY <1>4, <1>5
<1>10. StageTrace(results, tokens, n)
  BY <1>5, <1>7, <1>8, <1>9 DEF StageTrace
<1> QED BY <1>10 DEF results

(* The reports add up, over any table and for any stages.                  *)
THEOREM ReportsAlwaysAddUp ==
    ASSUME family = "rows" => Table(input),
           family = "stages" => \E n \in Nat : GivenStages(input, n)
    PROVE  ReportsAddUp
<1>1. ASSUME family = "rows", NEW p \in Projects, NEW path, path = [segments |-> p]
      PROVE  /\ Reports!ReportsAgree(input, path, 6, 2)
             /\ Reports!ReportStaysInProject(input, path, 6, 2)
  <2>1. path.segments \in Seq({"m_p", "mxp", "sub"})
    <3> DEFINE Segs == {"m_p", "mxp", "sub"}
    <3>1. "m_p" \in Segs /\ "mxp" \in Segs /\ "sub" \in Segs
      OBVIOUS
    <3> HIDE DEF Segs
    <3>2. <<"m_p">> \in Seq(Segs) /\ <<"mxp">> \in Seq(Segs) /\ <<"m_p", "sub">> \in Seq(Segs)
      BY <3>1
    <3> QED BY <1>1, <3>2 DEF Projects, Segs
  <2> QED BY <1>1, <2>1, ReportsOfAWindowAgree, ReportsStayInTheProject
<1>2. ASSUME family = "stages" PROVE Reports!SummaryEndsAtOutput(2, Traced(input, 2))
  <2>1. PICK n \in Nat : GivenStages(input, n)
    BY <1>2
  <2>2. StageTrace(Traced(input, 2), 2, n)
    BY <2>1, TracedIsATrace
  <2> QED BY <2>2, SummariesEndAtTheOutput
<1> QED BY <1>1, <1>2 DEF ReportsAddUp
=============================================================================
