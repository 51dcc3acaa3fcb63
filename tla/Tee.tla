-------------------------------- MODULE Tee --------------------------------
(***************************************************************************)
(* The tee of quor/pipeline/tee.py as quor/engine/dispatcher.py uses it:   *)
(* the raw output of a command kept in tee_state.db under its hash, a      *)
(* throttled cleanup by age and size, and the switch that turns the tee    *)
(* off after MAX_CONSECUTIVE_TEE_FAILURES failed writes.                   *)
(*                                                                         *)
(* Every dispatch is a process of its own and they share one database, so  *)
(* each SQLite transaction is an action and a process may be overtaken     *)
(* between two of them: the count of failures is read outside the          *)
(* transaction that writes it, the status before the write it permits.     *)
(* `promised` and `evicted` are observers: the writes a footer was shown   *)
(* for, and the rows the size ceiling took.                                *)
(***************************************************************************)
EXTENDS Integers, FiniteSets, FiniteSetsExt, SequencesExt

CONSTANTS
    Procs,          \* processes that dispatch commands
    Digests,        \* content hashes
    NoContent,      \* a process with nothing written
    Size,           \* [Digests -> Nat \ {0}]: bytes of each content
    MaxBytes,       \* tee_max_bytes
    MaxAge,         \* max_age_days
    Throttle,       \* throttle_hours
    MaxFailures,    \* MAX_CONSECUTIVE_TEE_FAILURES
    MaxClock,       \* bound on time
    MaxAborts,      \* bound on the dispatches that die or raise midway
    MaxResets,      \* bound on doctor --reset-tee
    WritesWork      \* BOOLEAN: a write_tee() may succeed

ASSUME TeeAssumption ==
    /\ IsFiniteSet(Digests) /\ NoContent \notin Digests
    /\ Size \in [Digests -> Nat \ {0}]
    /\ {MaxBytes, MaxAge, Throttle, MaxClock, MaxAborts, MaxResets} \subseteq Nat
    /\ MaxFailures \in Nat \ {0}
    /\ WritesWork \in BOOLEAN

Never == -1
Stages == {"idle", "sweep", "run", "write", "wrote", "footer", "failed", "counted"}

VARIABLES
    clock,
    logs,       \* tee_logs: last_used_at of each stored content, or Never
    cleaned,    \* tee_cleanup.last_cleanup_at, or Never
    failures,   \* tee_status.consecutive_failures
    disabled,   \* tee_status.disabled
    pc,         \* where each process is in its dispatch
    content,    \* the content each dispatch has written
    seen,       \* the time or count a process read earlier
    promised,   \* when the latest footer shown for a content was written
    evicted,    \* contents the size ceiling took since they were written
    aborts, resets

store == <<logs, cleaned>>
status == <<failures, disabled>>
bounds == <<aborts, resets>>
vars == <<clock, logs, cleaned, failures, disabled, pc, content, seen,
          promised, evicted, aborts, resets>>
-----------------------------------------------------------------------------
Stored == {d \in Digests : logs[d] # Never}

Bytes(S) == FoldSet(LAMBDA d, sum : sum + Size[d], 0, S)

Fresh(now) == {d \in Stored : logs[d] >= now - MaxAge}

(* The loop of _sweep after the age pass: oldest rows first (in any order  *)
(* within one age), until the total is back within the ceiling.            *)
OldestFirst(S) ==
    {rows \in SetToSeqs(S) : \A i \in 1 .. Len(rows), j \in 1 .. Len(rows) :
                                 i < j => logs[rows[i]] <= logs[rows[j]]}

(* A slip: ORDER BY last_used_at DESC. *)
NewestFirst(S) == {Reverse(rows) : rows \in OldestFirst(S)}

SweepOrders(S) == OldestFirst(S)

(* A row goes as long as it and the rows after it exceed the ceiling.      *)
Trimmed(rows) ==
    {rows[i] : i \in {j \in DOMAIN rows :
        Bytes({rows[k] : k \in j .. Len(rows)}) > MaxBytes}}

(* A slip: a hit of a stored content keeps its old last_used_at. *)
KeepFirstUse(d) == IF logs[d] = Never THEN clock ELSE logs[d]

(* A slip: naive local time read where the sweep reads UTC. *)
LocalTime(d) == clock + 1

(* write_tee: insert, or refresh last_used_at of the row that is there. *)
LastUsed(d) == clock

(* A slip: the count is kept and the switch forgotten. *)
DisableNever(count) == FALSE

Disables(count) == count >= MaxFailures

(* A slip: the upsert writes the value of a first failure. *)
FirstFailure(count) == 1

(* The counter after one more failure, count being what was read before. *)
Counted(count) == count + 1

Goto(p, stage) == pc' = [pc EXCEPT ![p] = stage]

(* The dispatch is over, its locals are gone. *)
Leave(p) ==
    /\ Goto(p, "idle")
    /\ content' = [content EXCEPT ![p] = NoContent]
    /\ seen' = [seen EXCEPT ![p] = 0]
-----------------------------------------------------------------------------
Init ==
    /\ clock = 0
    /\ logs = [d \in Digests |-> Never]
    /\ cleaned = Never
    /\ failures = 0
    /\ disabled = FALSE
    /\ pc = [p \in Procs |-> "idle"]
    /\ content = [p \in Procs |-> NoContent]
    /\ seen = [p \in Procs |-> 0]
    /\ promised = [d \in Digests |-> Never]
    /\ evicted = {}
    /\ aborts = 0
    /\ resets = 0

(* run_dispatch begins: cleanup_tee() reads last_cleanup_at and the clock. *)
BeginDispatch(p) ==
    /\ pc[p] = "idle"
    /\ IF cleaned # Never /\ clock - cleaned < Throttle
       THEN Goto(p, "run") /\ UNCHANGED seen
       ELSE Goto(p, "sweep") /\ seen' = [seen EXCEPT ![p] = clock]
    /\ UNCHANGED <<clock, store, status, content, promised, evicted, bounds>>

(* _sweep and the new last_cleanup_at, in one transaction.  Both use the   *)
(* time read before the throttle check.                                    *)
Sweep(p) ==
    /\ pc[p] = "sweep"
    /\ \E rows \in SweepOrders(Fresh(seen[p])) :
          /\ logs' = [d \in Digests |->
                        IF d \in Fresh(seen[p]) \ Trimmed(rows) THEN logs[d] ELSE Never]
          /\ evicted' = evicted \union Trimmed(rows)
    /\ cleaned' = seen[p]
    /\ Goto(p, "run")
    /\ seen' = [seen EXCEPT ![p] = 0]
    /\ UNCHANGED <<clock, status, content, promised, bounds>>

(* The cleanup raised: _cleanup_tee_safe warns and the dispatch goes on. *)
SweepFails(p) ==
    /\ pc[p] = "sweep"
    /\ Goto(p, "run")
    /\ seen' = [seen EXCEPT ![p] = 0]
    /\ UNCHANGED <<clock, store, status, content, promised, evicted, bounds>>

(* The tee is off for the user or the filter, or the output is the raw one. *)
NothingToTee(p) ==
    /\ pc[p] = "run"
    /\ Leave(p)
    /\ UNCHANGED <<clock, store, status, promised, evicted, bounds>>

(* get_tee_status().disabled *)
CheckStatus(p) ==
    /\ pc[p] = "run"
    /\ IF disabled THEN Leave(p) ELSE Goto(p, "write") /\ UNCHANGED <<content, seen>>
    /\ UNCHANGED <<clock, store, status, promised, evicted, bounds>>

WriteTee(p) ==
    /\ pc[p] = "write"
    /\ WritesWork
    /\ \E d \in Digests :
          /\ logs' = [logs EXCEPT ![d] = LastUsed(d)]
          /\ evicted' = evicted \ {d}
          /\ content' = [content EXCEPT ![p] = d]
    /\ seen' = [seen EXCEPT ![p] = clock]
    /\ Goto(p, "wrote")
    /\ UNCHANGED <<clock, cleaned, status, promised, bounds>>

(* write_tee() raised an OSError or a sqlite3.Error. *)
WriteFails(p) ==
    /\ pc[p] = "write"
    /\ Goto(p, "failed")
    /\ UNCHANGED <<clock, store, status, content, seen, promised, evicted, bounds>>

(* record_tee_success: the counter, not the switch. *)
RecordSuccess(p) ==
    /\ pc[p] = "wrote"
    /\ failures' = 0
    /\ Goto(p, "footer")
    /\ UNCHANGED <<clock, store, disabled, content, seen, promised, evicted, bounds>>

(* The footer goes out where it costs no more than the filter saved. *)
ShowFooter(p) ==
    /\ pc[p] = "footer"
    /\ \/ promised' = [promised EXCEPT ![content[p]] = Max({@, seen[p]})]
       \/ UNCHANGED promised
    /\ Leave(p)
    /\ UNCHANGED <<clock, store, status, evicted, bounds>>

(* record_tee_failure reads the counter ... *)
ReadFailures(p) ==
    /\ pc[p] = "failed"
    /\ seen' = [seen EXCEPT ![p] = failures]
    /\ Goto(p, "counted")
    /\ UNCHANGED <<clock, store, status, content, promised, evicted, bounds>>

(* ... and writes counter and switch from what it read. *)
RecordFailure(p) ==
    /\ pc[p] = "counted"
    /\ failures' = Counted(seen[p])
    /\ disabled' = Disables(Counted(seen[p]))
    /\ Leave(p)
    /\ UNCHANGED <<clock, store, promised, evicted, bounds>>

(* record_tee_failure raised too, for it writes the same database:         *)
(* _apply_tee warns and returns, and nothing was counted.                  *)
RecordRaises(p) ==
    /\ pc[p] = "counted"
    /\ Leave(p)
    /\ UNCHANGED <<clock, store, status, promised, evicted, bounds>>

(* The process is killed, or a later database call of its dispatch raises. *)
Abandon(p) ==
    /\ pc[p] # "idle"
    /\ aborts < MaxAborts
    /\ aborts' = aborts + 1
    /\ Leave(p)
    /\ UNCHANGED <<clock, store, status, promised, evicted, resets>>

(* quor doctor --reset-tee *)
ResetTee ==
    /\ resets < MaxResets
    /\ resets' = resets + 1
    /\ failures' = 0
    /\ disabled' = FALSE
    /\ UNCHANGED <<clock, store, pc, content, seen, promised, evicted, aborts>>

Tick ==
    /\ clock < MaxClock
    /\ clock' = clock + 1
    /\ UNCHANGED <<store, status, pc, content, seen, promised, evicted, bounds>>

Dispatch(p) ==
    \/ BeginDispatch(p) \/ Sweep(p) \/ SweepFails(p)
    \/ CheckStatus(p) \/ NothingToTee(p)
    \/ WriteTee(p) \/ RecordSuccess(p) \/ ShowFooter(p)
    \/ WriteFails(p) \/ ReadFailures(p) \/ RecordFailure(p) \/ RecordRaises(p)

Next == (\E p \in Procs : Dispatch(p) \/ Abandon(p)) \/ ResetTee \/ Tick

Spec == Init /\ [][Next]_vars

(* A process that runs goes on, commands keep being dispatched, output     *)
(* worth a tee keeps coming (CheckStatus is taken again and again), and    *)
(* the count of failures can be written now and then.                      *)
FairSpec ==
    /\ Spec
    /\ \A p \in Procs : /\ WF_vars(Dispatch(p))
                        /\ SF_vars(CheckStatus(p))
                        /\ SF_vars(RecordFailure(p))
-----------------------------------------------------------------------------
(* The types of the state; no stamp lies ahead of the clock. *)
TypeOK ==
    /\ clock \in 0 .. MaxClock
    /\ logs \in [Digests -> -1 .. clock]
    /\ cleaned \in -1 .. clock
    /\ failures \in Nat
    /\ disabled \in BOOLEAN
    /\ pc \in [Procs -> Stages]
    /\ content \in [Procs -> Digests \union {NoContent}]
    /\ seen \in [Procs -> Nat]
    /\ promised \in [Digests -> -1 .. clock]
    /\ evicted \subseteq Digests
    /\ aborts \in 0 .. MaxAborts
    /\ resets \in 0 .. MaxResets

(* The footer's promise: output a footer named can be shown again for as   *)
(* long as the retention window lasts from the moment it was written,      *)
(* unless the size ceiling took it.  Other dispatches store, refresh and   *)
(* sweep meanwhile (tee.py: "a content-addressed dedup hit does not go     *)
(* stale").                                                                *)
FooterHolds ==
    \A d \in Digests :
        promised[d] # Never /\ clock - promised[d] <= MaxAge
            => d \in Stored \union evicted

(* Whatever removes rows removes what is past its age, and beyond that only *)
(* the oldest, only down to the ceiling, and never with a younger row gone  *)
(* while an older one stays.                                                *)
Gone == {d \in Stored : logs'[d] = Never}

EvictsOnlyWhatItMust ==
    [][Gone # {} =>
          LET young == {d \in Gone : \E p \in Procs : pc[p] = "sweep" /\ pc'[p] = "run"
                                        /\ d \in Fresh(seen[p])}
              stays == Stored \ Gone
          IN  /\ Bytes(stays) <= MaxBytes
              /\ \A d \in young, k \in stays : logs[d] <= logs[k]
              /\ young # {} => \E d \in young : Bytes(stays \union {d}) > MaxBytes]_vars

(* The switch is closed only with a counter that reached the limit, and a  *)
(* counter at the limit with the switch open exists nowhere: the two       *)
(* columns are written together.                                           *)
SwitchFollowsCounter == failures >= MaxFailures => disabled

(* tee.py:333: reset_tee_state() is "the only way tee re-enables after an  *)
(* adaptive disable".                                                      *)
OnlyResetReenables == [][disabled /\ ~disabled' => resets' = resets + 1]_vars

(* When no write succeeds the tee turns itself off and stays off, though   *)
(* concurrent dispatches may overwrite each other's count (tee.py:         *)
(* "stops attempting writes entirely").                                    *)
FailingTeeStopsItself == <>[]disabled
=============================================================================
