----------------------------- MODULE TeeProofs -----------------------------
(***************************************************************************)
(* The safety of the tee, for every number of processes and of contents,   *)
(* every size of a content, and every ceiling, age and throttle.           *)
(***************************************************************************)
EXTENDS Tee, OperatorTheorems, TLAPS

USE TeeAssumption

(* What was written at time t is there, no older than that, or the ceiling *)
(* took it, for as long as the retention window lasts from then on.        *)
Covered(d, t) == clock - t <= MaxAge => logs[d] >= t \/ d \in evicted

(* The promise holds from the write on, before the footer is shown; no     *)
(* process sweeps or promises by a time that is still to come.             *)
FooterInv ==
    /\ \A p \in Procs :
         /\ pc[p] \in {"sweep", "wrote", "footer"} => seen[p] <= clock
         /\ pc[p] \in {"wrote", "footer"} =>
                content[p] \in Digests /\ Covered(content[p], seen[p])
    /\ \A d \in Digests : promised[d] # Never => Covered(d, promised[d])

IInv == TypeOK /\ FooterInv /\ SwitchFollowsCounter
-----------------------------------------------------------------------------
(* The size pass removes rows that the sweep was given.                    *)
LEMMA TrimmedAreRows ==
    ASSUME NEW S \in SUBSET Digests, NEW rows \in SweepOrders(S)
    PROVE  Trimmed(rows) \subseteq S
<1>1. rows \in [1 .. Cardinality(S) -> S]
  BY DEF SweepOrders, OldestFirst, SetToSeqs
<1> QED BY <1>1 DEF Trimmed

(* The larger of two stamps is one of them.                                *)
LEMMA MaxOfTwo ==
    ASSUME NEW a \in Int, NEW b \in Int
    PROVE  Max({a, b}) = IF a >= b THEN a ELSE b
BY DEF Max

(* A first process of a new database satisfies the invariant.              *)
LEMMA InitIInv == Init => IInv
<1> SUFFICES ASSUME Init PROVE IInv
  OBVIOUS
<1>1. TypeOK
  <2>1. /\ {MaxClock, MaxAborts, MaxResets} \subseteq Nat
        /\ clock = 0 /\ aborts = 0 /\ resets = 0
    BY DEF Init
  <2>2. clock \in 0 .. MaxClock /\ aborts \in 0 .. MaxAborts /\ resets \in 0 .. MaxResets
    BY <2>1
  <2>3. -1 \in -1 .. clock
    BY <2>1
  <2> QED BY <2>2, <2>3 DEF Init, TypeOK, Stages, Never
<1>2. FooterInv
  BY DEF Init, FooterInv
<1>3. SwitchFollowsCounter
  <2>1. failures = 0 /\ MaxFailures \in Nat \ {0}
    BY DEF Init
  <2> QED BY <2>1 DEF SwitchFollowsCounter
<1> QED BY <1>1, <1>2, <1>3 DEF IInv

(* A sweep keeps what the retention window covers, or lets the ceiling     *)
(* take it.                                                                *)
LEMMA SweepKeepsYoung ==
    ASSUME IInv, NEW p \in Procs, Sweep(p)
    PROVE  /\ logs' \in [Digests -> -1 .. clock]
           /\ evicted' \subseteq Digests
           /\ \A d \in Digests, t \in Nat : Covered(d, t) => Covered(d, t)'
<1>1. PICK rows \in SweepOrders(Fresh(seen[p])) :
        /\ logs' = [d \in Digests |->
                       IF d \in Fresh(seen[p]) \ Trimmed(rows) THEN logs[d] ELSE Never]
        /\ evicted' = evicted \union Trimmed(rows)
  BY DEF Sweep
<1>2. Fresh(seen[p]) \subseteq Digests
  BY DEF Fresh, Stored
<1>3. Trimmed(rows) \subseteq Fresh(seen[p])
  BY <1>2, TrimmedAreRows
<1>4. clock \in Nat /\ clock' = clock /\ logs \in [Digests -> -1 .. clock]
  BY DEF IInv, TypeOK, Sweep
<1>5. logs' \in [Digests -> -1 .. clock] /\ evicted' \subseteq Digests
  BY <1>1, <1>2, <1>3, <1>4 DEF Never, IInv, TypeOK
<1>6. ASSUME NEW d \in Digests, NEW t \in Nat, Covered(d, t)
      PROVE  Covered(d, t)'
  <2> SUFFICES ASSUME clock - t <= MaxAge, d \notin evicted'
               PROVE  logs'[d] >= t
    BY <1>4 DEF Covered
  <2>1. logs[d] >= t
    BY <1>1, <1>6 DEF Covered
  <2>2. seen[p] \in Nat /\ seen[p] <= clock
    BY DEF IInv, TypeOK, FooterInv, Sweep
  <2>3. d \in Fresh(seen[p])
    <3>1. logs[d] # Never /\ logs[d] >= seen[p] - MaxAge
      BY <1>4, <2>1, <2>2 DEF Never
    <3> QED BY <3>1 DEF Fresh, Stored
  <2>4. logs'[d] = logs[d]
    BY <1>1, <2>3
  <2> QED BY <2>1, <2>4
<1> QED BY <1>5, <1>6

(* Every step keeps the promise of every footer that may still be shown.   *)
LEMMA StepIInv == IInv /\ [Next]_vars => IInv'
<1> SUFFICES ASSUME IInv, [Next]_vars PROVE IInv'
  OBVIOUS
<1> USE DEF store, status, bounds, Goto, Leave
<1>0. TypeOK /\ FooterInv /\ SwitchFollowsCounter
  BY DEF IInv
<1>1. /\ clock \in Nat /\ MaxAge \in Int /\ logs \in [Digests -> -1 .. clock]
      /\ promised \in [Digests -> -1 .. clock] /\ seen \in [Procs -> Nat]
  BY <1>0 DEF TypeOK
<1>2. ASSUME UNCHANGED <<clock, logs, evicted>>
      PROVE  \A d, t : Covered(d, t)' <=> Covered(d, t)
  BY <1>2 DEF Covered
<1>3. ASSUME NEW p \in Procs,
             \/ BeginDispatch(p) \/ SweepFails(p) \/ NothingToTee(p) \/ CheckStatus(p)
             \/ WriteFails(p) \/ ReadFailures(p) \/ RecordRaises(p) \/ Abandon(p)
      PROVE  IInv'
  <2> USE <1>3 DEF BeginDispatch, SweepFails, NothingToTee, CheckStatus, WriteFails,
                   ReadFailures, RecordRaises, Abandon
  <2>1. UNCHANGED <<clock, logs, evicted, cleaned, failures, disabled, promised, resets>>
    OBVIOUS
  <2>2. TypeOK'
    BY <1>0, <2>1 DEF TypeOK, Stages
  <2>3. FooterInv'
    <3>1. ASSUME NEW q \in Procs, pc'[q] \in {"sweep", "wrote", "footer"} PROVE seen'[q] <= clock
      BY <1>0, <1>1, <3>1 DEF FooterInv, TypeOK
    <3>2. ASSUME NEW q \in Procs, pc'[q] \in {"wrote", "footer"}
          PROVE  pc[q] = pc'[q] /\ content[q] = content'[q] /\ seen[q] = seen'[q]
      BY <1>0, <3>2 DEF TypeOK
    <3> QED BY <1>0, <1>2, <2>1, <3>1, <3>2 DEF FooterInv
  <2> QED BY <1>0, <2>1, <2>2, <2>3 DEF IInv, SwitchFollowsCounter
<1>4. ASSUME NEW p \in Procs, Sweep(p) PROVE IInv'
  <2>1. UNCHANGED <<clock, failures, disabled, content, promised, aborts, resets>>
    BY <1>4 DEF Sweep
  <2>2. TypeOK'
    <3>1. cleaned' \in -1 .. clock
      BY <1>0, <1>1, <1>4 DEF Sweep, FooterInv, TypeOK
    <3> QED BY <1>0, <1>4, <2>1, <3>1, SweepKeepsYoung DEF IInv, TypeOK, Sweep, Stages
  <2>3. FooterInv'
    <3>1. \A q \in Procs : pc'[q] \in {"sweep", "wrote", "footer"} =>
             pc[q] = pc'[q] /\ seen'[q] = seen[q]
      BY <1>0, <1>4 DEF Sweep, TypeOK
    <3>2. ASSUME NEW q \in Procs, pc'[q] \in {"wrote", "footer"}
          PROVE  content'[q] \in Digests /\ Covered(content[q], seen[q])'
      <4>1. content[q] \in Digests /\ Covered(content[q], seen[q]) /\ seen[q] \in Nat
        BY <1>0, <1>1, <3>1, <3>2 DEF FooterInv
      <4>2. content'[q] = content[q] /\ seen'[q] = seen[q]
        BY <2>1, <3>1, <3>2
      <4>3. clock - seen[q] <= MaxAge => logs'[content[q]] >= seen[q] \/ content[q] \in evicted'
        BY <1>4, <2>1, <4>1, SweepKeepsYoung DEF Covered
      <4> QED BY <2>1, <4>1, <4>2, <4>3 DEF Covered
    <3>3. ASSUME NEW d \in Digests, promised'[d] # Never PROVE Covered(d, promised[d])'
      <4>1. promised[d] \in Nat /\ Covered(d, promised[d]) /\ promised'[d] = promised[d]
        BY <1>0, <1>1, <2>1, <3>3 DEF FooterInv, Never
      <4>2. clock - promised[d] <= MaxAge => logs'[d] >= promised[d] \/ d \in evicted'
        BY <1>4, <2>1, <4>1, SweepKeepsYoung DEF Covered
      <4> QED BY <2>1, <4>1, <4>2 DEF Covered
    <3> QED BY <1>0, <2>1, <3>1, <3>2, <3>3 DEF FooterInv
  <2> QED BY <1>0, <2>1, <2>2, <2>3 DEF IInv, SwitchFollowsCounter
<1>5. ASSUME NEW p \in Procs, WriteTee(p) PROVE IInv'
  <2>1. PICK d \in Digests :
          /\ logs' = [logs EXCEPT ![d] = clock] /\ evicted' = evicted \ {d}
          /\ content' = [content EXCEPT ![p] = d]
    BY <1>5 DEF WriteTee, LastUsed
  <2>2. /\ UNCHANGED <<clock, cleaned, failures, disabled, promised, aborts, resets>>
        /\ seen' = [seen EXCEPT ![p] = clock] /\ pc' = [pc EXCEPT ![p] = "wrote"]
    BY <1>5 DEF WriteTee
  <2>3. TypeOK'
    BY <1>0, <1>1, <2>1, <2>2 DEF TypeOK, Stages
  <2>4. ASSUME NEW e \in Digests, NEW t \in Nat, t <= clock, Covered(e, t)
        PROVE  clock' - t <= MaxAge => logs'[e] >= t \/ e \in evicted'
    BY <1>1, <2>1, <2>2, <2>4 DEF Covered
  <2>5. FooterInv'
    <3>1. ASSUME NEW q \in Procs, pc'[q] \in {"sweep", "wrote", "footer"} PROVE seen'[q] <= clock
      BY <1>0, <1>1, <2>2, <3>1 DEF FooterInv, TypeOK
    <3>2. ASSUME NEW q \in Procs, pc'[q] \in {"wrote", "footer"}
          PROVE  content'[q] \in Digests /\ Covered(content[q], seen[q])'
      <4>1. CASE q = p
        <5>1. content'[q] = d /\ seen'[q] = clock /\ logs'[d] = clock
          BY <1>0, <1>1, <2>1, <2>2, <4>1 DEF TypeOK
        <5> QED BY <1>1, <5>1 DEF Covered
      <4>2. CASE q # p
        <5>1. /\ content'[q] = content[q] /\ seen'[q] = seen[q] /\ seen[q] <= clock
              /\ content[q] \in Digests /\ Covered(content[q], seen[q])
          BY <1>0, <1>1, <2>1, <2>2, <3>2, <4>2 DEF TypeOK, FooterInv
        <5>2. clock' - seen[q] <= MaxAge => logs'[content[q]] >= seen[q] \/ content[q] \in evicted'
          BY <1>1, <2>4, <5>1
        <5> QED BY <5>1, <5>2 DEF Covered
      <4> QED BY <4>1, <4>2
    <3>3. ASSUME NEW e \in Digests, promised'[e] # Never PROVE Covered(e, promised[e])'
      <4>1. /\ promised'[e] = promised[e] /\ promised[e] \in Nat /\ promised[e] <= clock
            /\ Covered(e, promised[e])
        BY <1>0, <1>1, <2>2, <3>3 DEF FooterInv, Never
      <4>2. clock' - promised[e] <= MaxAge => logs'[e] >= promised[e] \/ e \in evicted'
        BY <2>4, <4>1
      <4> QED BY <4>1, <4>2 DEF Covered
    <3> QED BY <2>2, <3>1, <3>2, <3>3 DEF FooterInv
  <2> QED BY <1>0, <2>2, <2>3, <2>5 DEF IInv, SwitchFollowsCounter
<1>6. ASSUME NEW p \in Procs, ShowFooter(p) PROVE IInv'
  <2>1. UNCHANGED <<clock, logs, cleaned, failures, disabled, evicted, aborts, resets>>
    BY <1>6 DEF ShowFooter
  <2>2. /\ seen[p] \in Nat /\ seen[p] <= clock /\ content[p] \in Digests
        /\ Covered(content[p], seen[p])
    BY <1>0, <1>1, <1>6 DEF ShowFooter, FooterInv
  <2>3. \A d \in Digests :
          promised'[d] = promised[d] \/ (d = content[p] /\ promised'[d] = seen[p])
    <3>1. Max({promised[content[p]], seen[p]}) \in {promised[content[p]], seen[p]}
      BY <1>1, <2>2, MaxOfTwo
    <3> QED BY <1>1, <1>6, <2>2, <3>1 DEF ShowFooter
  <2>4. promised' \in [Digests -> -1 .. clock]
    <3>1. DOMAIN promised' = Digests /\ promised' = [d \in Digests |-> promised'[d]]
      BY <1>1, <1>6 DEF ShowFooter
    <3> QED BY <1>1, <2>2, <2>3, <3>1
  <2>5. TypeOK'
    BY <1>0, <1>6, <2>1, <2>4 DEF ShowFooter, TypeOK, Stages
  <2>6. FooterInv'
    <3>1. \A q \in Procs : pc'[q] \in {"sweep", "wrote", "footer"} =>
             pc[q] = pc'[q] /\ seen'[q] = seen[q] /\ content'[q] = content[q]
      BY <1>0, <1>6 DEF ShowFooter, TypeOK
    <3>2. \A d \in Digests : promised'[d] # Never => Covered(d, promised'[d])
      BY <1>0, <2>2, <2>3 DEF FooterInv
    <3> QED BY <1>0, <1>2, <2>1, <3>1, <3>2 DEF FooterInv
  <2> QED BY <1>0, <2>1, <2>5, <2>6 DEF IInv, SwitchFollowsCounter
<1>7. ASSUME NEW p \in Procs, RecordSuccess(p) \/ RecordFailure(p) PROVE IInv'
  <2> USE <1>7 DEF RecordSuccess, RecordFailure, Counted, Disables
  <2>1. UNCHANGED <<clock, logs, cleaned, promised, evicted, aborts, resets>>
    OBVIOUS
  <2>2. TypeOK'
    <3>1. failures' \in Nat /\ disabled' \in BOOLEAN
      <4>1. CASE RecordSuccess(p)
        BY <1>0, <4>1 DEF TypeOK
      <4>2. CASE RecordFailure(p)
        <5>1. failures' = seen[p] + 1 /\ disabled' = (seen[p] + 1 >= MaxFailures)
          BY <4>2
        <5>2. seen[p] + 1 \in Nat
          BY <1>1
        <5> QED BY <5>1, <5>2
      <4> QED BY <1>7, <4>1, <4>2
    <3>2. /\ pc' \in [Procs -> Stages] /\ content' \in [Procs -> Digests \union {NoContent}]
          /\ seen' \in [Procs -> Nat]
      BY <1>0 DEF TypeOK, Stages
    <3> QED BY <1>0, <2>1, <3>1, <3>2 DEF TypeOK
  <2>3. FooterInv'
    <3>1. \A q \in Procs : pc'[q] \in {"sweep", "wrote", "footer"} =>
             /\ pc[q] = pc'[q] \/ (pc[q] = "wrote" /\ pc'[q] = "footer")
             /\ seen'[q] = seen[q] /\ content'[q] = content[q]
      BY <1>0 DEF TypeOK
    <3> QED BY <1>0, <1>2, <2>1, <3>1 DEF FooterInv
  <2>4. SwitchFollowsCounter'
    <3>1. failures' = 0 \/ (failures' = seen[p] + 1 /\ disabled' = (seen[p] + 1 >= MaxFailures))
      OBVIOUS
    <3>2. failures' >= MaxFailures => failures' # 0
      <4>1. MaxFailures \in Nat \ {0}
        OBVIOUS
      <4> QED BY <4>1
    <3> QED BY <3>1, <3>2 DEF SwitchFollowsCounter
  <2> QED BY <2>2, <2>3, <2>4 DEF IInv
<1>8. CASE ResetTee \/ UNCHANGED vars
  <2>1. UNCHANGED <<clock, logs, cleaned, pc, content, seen, promised, evicted, aborts>>
    BY <1>8 DEF ResetTee, vars
  <2>2. TypeOK' /\ SwitchFollowsCounter'
    <3>1. CASE ResetTee
      <4>1. failures' = 0 /\ disabled' = FALSE /\ resets' \in 0 .. MaxResets
        BY <1>0, <3>1 DEF ResetTee, TypeOK
      <4>2. ~(0 >= MaxFailures) /\ MaxFailures \in Nat \ {0}
        OBVIOUS
      <4> QED BY <1>0, <2>1, <4>1, <4>2 DEF TypeOK, SwitchFollowsCounter
    <3>2. CASE UNCHANGED vars
      BY <1>0, <3>2 DEF vars, TypeOK, SwitchFollowsCounter
    <3> QED BY <1>8, <3>1, <3>2
  <2>3. FooterInv'
    BY <1>0, <1>2, <2>1 DEF FooterInv
  <2> QED BY <2>2, <2>3 DEF IInv
<1>9. CASE Tick
  <2>1. clock' = clock + 1 /\ UNCHANGED <<logs, failures, disabled, pc, content, seen, promised, evicted>>
    BY <1>9 DEF Tick
  <2>2. TypeOK'
    BY <1>0, <1>1, <1>9 DEF Tick, TypeOK
  <2>3. \A d \in Digests, t \in Nat : Covered(d, t) => Covered(d, t)'
    BY <1>1, <2>1 DEF Covered
  <2>4. FooterInv'
    <3>1. \A q \in Procs : pc[q] \in {"sweep", "wrote", "footer"} => seen[q] <= clock'
      BY <1>0, <1>1, <2>1 DEF FooterInv
    <3>2. \A d \in Digests : promised[d] # Never => promised[d] \in Nat
      BY <1>1 DEF Never
    <3> QED BY <1>0, <1>1, <2>1, <2>3, <3>1, <3>2 DEF FooterInv
  <2> QED BY <1>0, <2>1, <2>2, <2>4 DEF IInv, SwitchFollowsCounter
<1> QED BY <1>3, <1>4, <1>5, <1>6, <1>7, <1>8, <1>9 DEF Next, Dispatch
-----------------------------------------------------------------------------
(* The invariant is inductive.                                             *)
LEMMA Invariance == Spec => []IInv
<1> QED BY InitIInv, StepIInv, PTL DEF Spec

(* Every variable has its type, and no stamp lies ahead of the clock.      *)
THEOREM TypeIsInvariant == Spec => []TypeOK
<1>1. IInv => TypeOK
  BY DEF IInv
<1> QED BY <1>1, Invariance, PTL

(* What a footer names can be shown for as long as the retention window    *)
(* lasts, unless the size ceiling took it.                                 *)
THEOREM FootersHold == Spec => []FooterHolds
<1>1. ASSUME IInv PROVE FooterHolds
  <2> SUFFICES ASSUME NEW d \in Digests, promised[d] # Never, clock - promised[d] <= MaxAge
               PROVE  logs[d] # Never \/ d \in evicted
    BY DEF FooterHolds, Stored
  <2>1. promised[d] \in Nat /\ Covered(d, promised[d])
    BY <1>1 DEF IInv, TypeOK, FooterInv, Never
  <2> QED BY <2>1 DEF Covered, Never
<1> QED BY <1>1, Invariance, PTL

(* The counter never stands at the limit with the switch open.             *)
THEOREM SwitchIsClosed == Spec => []SwitchFollowsCounter
<1>1. IInv => SwitchFollowsCounter
  BY DEF IInv
<1> QED BY <1>1, Invariance, PTL
-----------------------------------------------------------------------------
(* Bytes is a sum: it is a number, and more rows have no fewer bytes.      *)
LEMMA BytesOfRows ==
    ASSUME NEW S \in SUBSET Digests
    PROVE  /\ IsFiniteSet(S) /\ Bytes(S) \in Nat
           /\ \A T \in SUBSET S : Bytes(T) <= Bytes(S)
<1>1. IsFiniteSet(S) /\ \A d \in S : Size[d] \in Nat
  BY FS_Subset
<1>2. \A T \in SUBSET S : Bytes(T) = Sum(Size, T)
  BY DEF Bytes, Sum
<1> QED BY <1>1, <1>2, SumType, SumIsMonotonic

(* The rows a sweep orders are those it was given, each of them once.      *)
LEMMA RowsAreInOrder ==
    ASSUME NEW S \in SUBSET Digests, NEW rows \in SweepOrders(S)
    PROVE  /\ Cardinality(S) \in Nat
           /\ rows \in [1 .. Cardinality(S) -> S]
           /\ \A i, j \in 1 .. Cardinality(S) : rows[i] = rows[j] => i = j
           /\ \A i, j \in 1 .. Cardinality(S) : i < j => logs[rows[i]] <= logs[rows[j]]
           /\ \A d \in S : \E i \in 1 .. Cardinality(S) : rows[i] = d
           /\ Len(rows) = Cardinality(S)
<1> DEFINE n == Cardinality(S)
<1>1. IsFiniteSet(S) /\ n \in Nat
  BY BytesOfRows, FS_CardinalityType
<1>2. /\ rows \in [1 .. n -> S]
      /\ \A i, j \in 1 .. n : i # j => rows[i] # rows[j]
      /\ \A i, j \in 1 .. Len(rows) : i < j => logs[rows[i]] <= logs[rows[j]]
  BY DEF SweepOrders, OldestFirst, SetToSeqs
<1>3. Len(rows) = n
  BY <1>1, <1>2
<1>4. \A d \in S : \E i \in 1 .. n : rows[i] = d
  <2>1. IsFiniteSet(1 .. n) /\ Cardinality(1 .. n) = n
    BY <1>1, FS_Interval
  <2>2. rows \in Injection(1 .. n, S)
    BY <1>2 DEF Injection, IsInjective
  <2>3. rows \in Surjection(1 .. n, S)
    BY <1>1, <2>1, <2>2, FS_Injection
  <2> QED BY <2>3 DEF Surjection
<1> QED BY <1>1, <1>2, <1>3, <1>4

(* Where the size pass stops: the rows before m go and the rows from m on  *)
(* stay, m being the first place from which on they fit under the ceiling. *)
LEMMA TrimmedIsAPrefix ==
    ASSUME NEW S \in SUBSET Digests, NEW rows \in SweepOrders(S)
    PROVE  \E m \in 1 .. Cardinality(S) + 1 :
             /\ Trimmed(rows) = {rows[i] : i \in 1 .. m - 1}
             /\ S \ Trimmed(rows) = {rows[i] : i \in m .. Cardinality(S)}
             /\ Bytes({rows[i] : i \in m .. Cardinality(S)}) <= MaxBytes
             /\ m > 1 => Bytes({rows[i] : i \in m - 1 .. Cardinality(S)}) > MaxBytes
<1> DEFINE n == Cardinality(S)
           From(i) == {rows[k] : k \in i .. n}
           Fits == {i \in 1 .. n + 1 : Bytes(From(i)) <= MaxBytes}
<1>1. /\ n \in Nat /\ rows \in [1 .. n -> S] /\ Len(rows) = n
      /\ \A i, j \in 1 .. n : rows[i] = rows[j] => i = j
      /\ \A d \in S : \E i \in 1 .. n : rows[i] = d
  BY RowsAreInOrder
<1>2. \A i \in 1 .. n + 1 : From(i) \in SUBSET S /\ Bytes(From(i)) \in Nat
  BY <1>1, BytesOfRows
<1>3. ASSUME NEW i \in 1 .. n + 1, NEW j \in 1 .. n + 1, i <= j
      PROVE  Bytes(From(j)) <= Bytes(From(i))
  <2>1. From(j) \in SUBSET From(i)
    BY <1>1, <1>3
  <2>2. From(i) \in SUBSET Digests
    BY <1>2
  <2> HIDE DEF From
  <2> QED BY <2>1, <2>2, BytesOfRows
<1>4. n + 1 \in Fits
  <2>1. From(n + 1) = {}
    BY <1>1
  <2>2. Bytes({}) = 0
    <3>1. Bytes({}) = Sum(Size, {})
      BY DEF Bytes, Sum
    <3> QED BY <3>1, SumEmpty
  <2>3. n + 1 \in 1 .. n + 1 /\ 0 <= MaxBytes
    BY <1>1
  <2> HIDE DEF From
  <2> QED BY <2>1, <2>2, <2>3
<1>5. PICK m \in Fits : \A i \in Fits : m <= i
  <2>1. Fits \subseteq Nat
    BY <1>1
  <2> QED BY <1>4, <2>1, LeastNumber
<1>6. \A i \in 1 .. n : Bytes(From(i)) > MaxBytes <=> i < m
  <2> TAKE i \in 1 .. n
  <2>1. CASE i < m
    <3>1. i \notin Fits /\ i \in 1 .. n + 1
      BY <1>1, <1>5, <2>1
    <3> QED BY <1>2, <2>1, <3>1
  <2>2. CASE m <= i
    <3>1. Bytes(From(i)) <= Bytes(From(m)) /\ Bytes(From(m)) <= MaxBytes
      BY <1>1, <1>3, <1>5, <2>2
    <3>2. Bytes(From(i)) \in Nat /\ Bytes(From(m)) \in Nat /\ MaxBytes \in Nat /\ m \in Nat
      <4>1. m \in 1 .. n + 1 /\ i \in 1 .. n + 1 /\ MaxBytes \in Nat /\ m \in Nat
        BY <1>1, <1>5
      <4> HIDE DEF From
      <4> QED BY <1>2, <4>1
    <3>3. ~(Bytes(From(i)) > MaxBytes)
      <4> HIDE DEF From
      <4> QED BY <3>1, <3>2
    <3>4. ~(i < m)
      BY <2>2, <3>2
    <3> QED BY <3>3, <3>4
  <2> QED BY <1>1, <1>5, <2>1, <2>2
<1>7. Trimmed(rows) = {rows[i] : i \in {j \in 1 .. n : Bytes(From(j)) > MaxBytes}}
  BY <1>1 DEF Trimmed
<1> HIDE DEF From
<1>8. Trimmed(rows) = {rows[i] : i \in 1 .. m - 1}
  BY <1>1, <1>5, <1>6, <1>7
<1>9. S \ Trimmed(rows) = {rows[i] : i \in m .. n}
  BY <1>1, <1>5, <1>6, <1>7
<1>10. m > 1 => Bytes(From(m - 1)) > MaxBytes
  BY <1>1, <1>5, <1>6
<1> QED BY <1>5, <1>8, <1>9, <1>10 DEF From

(* Only a sweep removes rows; what it removes is past its age or was       *)
(* trimmed, and what it leaves are the young rows that were not.           *)
LEMMA OnlySweepsRemove ==
    ASSUME IInv, [Next]_vars, Gone # {}
    PROVE  \E p \in Procs : \E rows \in SweepOrders(Fresh(seen[p])) :
             /\ Stored \ Gone = Fresh(seen[p]) \ Trimmed(rows)
             /\ Trimmed(rows) = {d \in Gone : \E q \in Procs : /\ pc[q] = "sweep" /\ pc'[q] = "run"
                                                            /\ d \in Fresh(seen[q])}
<1> USE DEF store, status, bounds, Goto, Leave
<1>1. logs \in [Digests -> -1 .. clock] /\ pc \in [Procs -> Stages] /\ clock \in Nat
  BY DEF IInv, TypeOK
<1>2. logs' # logs
  BY DEF Gone, Stored
<1>3. ~ \E p \in Procs : WriteTee(p)
  <2> SUFFICES ASSUME NEW p \in Procs, WriteTee(p) PROVE FALSE
    OBVIOUS
  <2>1. PICK d \in Digests : logs' = [logs EXCEPT ![d] = clock]
    BY DEF WriteTee, LastUsed
  <2>2. \A e \in Digests : logs[e] # Never => logs'[e] # Never
    BY <1>1, <2>1 DEF Never
  <2> QED BY <2>2 DEF Gone, Stored
<1>4. PICK p \in Procs : Sweep(p)
  BY <1>2, <1>3 DEF Next, Dispatch, BeginDispatch, SweepFails, CheckStatus, NothingToTee,
     RecordSuccess, ShowFooter, WriteFails, ReadFailures, RecordFailure, RecordRaises,
     Abandon, ResetTee, Tick, vars
<1>5. PICK rows \in SweepOrders(Fresh(seen[p])) :
        logs' = [d \in Digests |->
                   IF d \in Fresh(seen[p]) \ Trimmed(rows) THEN logs[d] ELSE Never]
  BY <1>4 DEF Sweep
<1>6. Fresh(seen[p]) \subseteq Stored /\ Stored \subseteq Digests
  BY DEF Fresh, Stored
<1>7. Trimmed(rows) \subseteq Fresh(seen[p])
  BY <1>6, TrimmedAreRows
<1>8. \A d \in Stored : d \in Gone <=> d \notin Fresh(seen[p]) \ Trimmed(rows)
  BY <1>5, <1>6 DEF Gone, Stored
<1>9. \A q \in Procs : pc[q] = "sweep" /\ pc'[q] = "run" <=> q = p
  BY <1>1, <1>4 DEF Sweep
<1>10. Gone \subseteq Stored
  BY DEF Gone
<1> QED BY <1>6, <1>7, <1>8, <1>9, <1>10

(* A sweep takes young rows only down to the ceiling, never a younger one  *)
(* while an older one stays, and never one more than it must.              *)
THEOREM SweepsTakeTheOldest == Spec => EvictsOnlyWhatItMust
<1> DEFINE young == {d \in Gone : \E p \in Procs : pc[p] = "sweep" /\ pc'[p] = "run"
                                        /\ d \in Fresh(seen[p])}
           stays == Stored \ Gone
           OnlyWhatItMust ==
             Gone # {} =>
               /\ Bytes(stays) <= MaxBytes
               /\ \A d \in young, k \in stays : logs[d] <= logs[k]
               /\ young # {} => \E d \in young : Bytes(stays \union {d}) > MaxBytes
<1>1. ASSUME IInv, [Next]_vars PROVE OnlyWhatItMust
  <2> SUFFICES ASSUME Gone # {}
               PROVE  /\ Bytes(stays) <= MaxBytes
                      /\ \A d \in young, k \in stays : logs[d] <= logs[k]
                      /\ young # {} => \E d \in young : Bytes(stays \union {d}) > MaxBytes
    OBVIOUS
  <2>0. PICK p \in Procs : \E r \in SweepOrders(Fresh(seen[p])) :
          stays = Fresh(seen[p]) \ Trimmed(r) /\ young = Trimmed(r)
    BY <1>1, OnlySweepsRemove
  <2>1. PICK rows \in SweepOrders(Fresh(seen[p])) :
          stays = Fresh(seen[p]) \ Trimmed(rows) /\ young = Trimmed(rows)
    BY <2>0
  <2> DEFINE S == Fresh(seen[p])
             n == Cardinality(S)
  <2>2. S \in SUBSET Digests /\ rows \in SweepOrders(S)
    BY DEF Fresh, Stored
  <2> HIDE DEF S, young, stays
  <2>3. /\ n \in Nat
        /\ \A i, j \in 1 .. n : i < j => logs[rows[i]] <= logs[rows[j]]
    BY <2>2, RowsAreInOrder
  <2>4. PICK m \in 1 .. n + 1 :
          /\ Trimmed(rows) = {rows[i] : i \in 1 .. m - 1}
          /\ S \ Trimmed(rows) = {rows[i] : i \in m .. n}
          /\ Bytes({rows[i] : i \in m .. n}) <= MaxBytes
          /\ m > 1 => Bytes({rows[i] : i \in m - 1 .. n}) > MaxBytes
    BY <2>2, TrimmedIsAPrefix
  <2>5. young = {rows[i] : i \in 1 .. m - 1} /\ stays = {rows[i] : i \in m .. n}
    BY <2>1, <2>4 DEF S
  <2>6. Bytes(stays) <= MaxBytes
    BY <2>4, <2>5
  <2>7. ASSUME NEW d \in young, NEW k \in stays PROVE logs[d] <= logs[k]
    <3>1. PICK i \in 1 .. m - 1 : d = rows[i]
      BY <2>5
    <3>2. PICK j \in m .. n : k = rows[j]
      BY <2>5
    <3>3. i \in 1 .. n /\ j \in 1 .. n /\ i < j
      BY <2>3, <2>4
    <3> QED BY <2>3, <3>1, <3>2, <3>3
  <2>8. ASSUME young # {} PROVE \E d \in young : Bytes(stays \union {d}) > MaxBytes
    <3>1. m > 1 /\ m - 1 \in 1 .. m - 1
      BY <2>3, <2>4, <2>5, <2>8
    <3>2. rows[m - 1] \in young
      BY <2>5, <3>1
    <3>3. stays \union {rows[m - 1]} = {rows[i] : i \in m - 1 .. n}
      <4>1. \A i \in m - 1 .. n : i = m - 1 \/ i \in m .. n
        BY <2>3, <2>4
      <4>2. \A i \in m .. n : i \in m - 1 .. n
        BY <2>3, <2>4
      <4>3. m - 1 \in m - 1 .. n
        BY <2>3, <2>4
      <4> QED BY <2>5, <4>1, <4>2, <4>3
    <3> QED BY <2>4, <3>1, <3>2, <3>3
  <2> QED BY <2>6, <2>7, <2>8
<1>2. IInv /\ [Next]_vars => [OnlyWhatItMust]_vars
  BY <1>1
<1>3. EvictsOnlyWhatItMust <=> [][OnlyWhatItMust]_vars
  BY PTL DEF EvictsOnlyWhatItMust
<1> HIDE DEF OnlyWhatItMust
<1> QED BY <1>2, <1>3, Invariance, PTL DEF Spec
=============================================================================
