---------------------------- MODULE SharedState ----------------------------
(***************************************************************************)
(* The small state files that every quor process of a user shares: the     *)
(* telemetry rows and the throttle stamps of their retention, the counter  *)
(* of the onboarding tips, and the directories of repository intelligence  *)
(* with the nudge state inside them.                                       *)
(*                                                                         *)
(* Nothing locks them.  Reading a file, replacing it and committing a      *)
(* transaction are each one step, and every process may stop between two   *)
(* of its steps.  An instant counts units; a day has UnitsPerDay of them.  *)
(* `recorded`, `raced`, `shown`, `disturbed` and `evicted` are observers.  *)
(***************************************************************************)
EXTENDS Integers, FiniteSets, FiniteSetsExt, TLC

CONSTANTS
    Processes, Repos,
    UnitsPerDay,
    TelemetryDays,      \* telemetry_max_age_days
    Throttle,           \* throttle_hours, the same in both sweeps
    IntelAge,           \* repo_intel_max_age_days, in units
    Sizes, MaxBytes,    \* bytes of a built cache, repo_intel_max_bytes
    MaxOnboarding,      \* MAX_ONBOARDING_COMMANDS
    MaxShows,           \* MAX_NEVER_BUILT_SHOWS
    CheckInterval,      \* STALE_CHECK_INTERVAL
    MaxTime, MaxJobs,   \* bounds on the clock and on the jobs started
    Never, Nobody

ASSUME SharedAssumption ==
    /\ UnitsPerDay \in Nat \ {0} /\ TelemetryDays \in Nat \ {0}
    /\ Throttle \in Nat \ {0} /\ IntelAge \in Nat /\ CheckInterval \in Nat
    /\ Sizes \in [Repos -> Nat] /\ MaxBytes \in Nat
    /\ MaxOnboarding \in Nat /\ MaxShows \in Nat
    /\ MaxTime \in Nat /\ MaxJobs \in Nat
    /\ Never \notin Int /\ Nobody \notin Repos

VARIABLES
    clock,
    rows,               \* recorded_at of the invocations in quor.db
    stamp,              \* last_telemetry_cleanup_timestamp in tee_state.db
    intelStamp,         \* last_cleanup_at of repo_intel_cleanup in tee_state.db
    count,              \* onboarding_count.txt
    dir,                \* the cache directory of each repository
    pc, mem,            \* each process: next step, and what it has read
    jobs, recorded, raced, shown, disturbed, evicted

telemetry == <<rows, stamp>>
tips == <<count, recorded, raced>>
caches == <<intelStamp, dir, shown, disturbed, evicted>>
vars == <<clock, rows, stamp, intelStamp, count, dir, pc, mem, jobs, recorded, raced,
          shown, disturbed, evicted>>
-----------------------------------------------------------------------------
NoDir == [built |-> FALSE, shows |-> 0, checked |-> Never, touched |-> Never]

Exists(r) == dir[r].touched # Never

Idle == [repo |-> Nobody, seen |-> NoDir, at |-> Never, unseen |-> {}, kept |-> {},
         number |-> 0]

Init ==
    /\ clock = 0 /\ rows = {} /\ stamp = Never /\ intelStamp = Never
    /\ count = 0 /\ dir = [r \in Repos |-> NoDir]
    /\ pc = [p \in Processes |-> "idle"] /\ mem = [p \in Processes |-> Idle]
    /\ jobs = 0 /\ recorded = 0 /\ raced = FALSE
    /\ shown = [r \in Repos |-> 0] /\ disturbed = {} /\ evicted = {}

Goto(p, step) == pc' = [pc EXCEPT ![p] = step]

Done(p) == Goto(p, "idle") /\ mem' = [mem EXCEPT ![p] = Idle]

Start(p, step, m) ==
    /\ pc[p] = "idle" /\ jobs < MaxJobs
    /\ jobs' = jobs + 1
    /\ Goto(p, step) /\ mem' = [mem EXCEPT ![p] = m]

Recently(last, interval) == last # Never /\ clock - last < interval

Tick ==
    /\ clock < MaxTime /\ clock' = clock + 1
    /\ UNCHANGED <<pc, mem, jobs, telemetry, tips, caches>>

(* A process is killed, or an exception ends its job: what it read is gone. *)
Stop(p) ==
    /\ pc[p] # "idle" /\ Done(p)
    /\ UNCHANGED <<clock, jobs, telemetry, tips, caches>>
-----------------------------------------------------------------------------
(* The writer of the tracking database inserts a row. *)
TrackRow ==
    /\ rows' = rows \union {clock}
    /\ UNCHANGED <<clock, stamp, pc, mem, jobs, tips, caches>>

Day(t) == IF t < 0 THEN -1 ELSE t \div UnitsPerDay

(* `recorded_at < datetime('now', '-N days')` compares texts: one has a    *)
(* "T" between date and time, the other a space, and "T" is the greater.   *)
BeforeCutoff(recorded_at, now) == Day(recorded_at) < Day(now - TelemetryDays * UnitsPerDay)

(* prune_stale_invocations: `now` and the throttle are read first. *)
PruneRead(p) ==
    /\ pc[p] = "idle" /\ ~Recently(stamp, Throttle)
    /\ Start(p, "prune", [Idle EXCEPT !.at = clock])
    /\ UNCHANGED <<clock, telemetry, tips, caches>>

(* A slip: the stamp is written although the delete failed. *)
StampsAlways(deleted) == TRUE

Stamps(deleted) == deleted

(* The delete and its commit, in quor.db; it may find the file locked. *)
PruneDelete(p) ==
    /\ pc[p] = "prune"
    /\ \E deleted \in BOOLEAN :
         /\ rows' = IF deleted THEN {t \in rows : ~BeforeCutoff(t, clock)} ELSE rows
         /\ IF Stamps(deleted) THEN Goto(p, "stamp") /\ UNCHANGED mem ELSE Done(p)
    /\ UNCHANGED <<clock, stamp, jobs, tips, caches>>

(* The stamp and its commit, in tee_state.db. *)
PruneStamp(p) ==
    /\ pc[p] = "stamp"
    /\ stamp' = mem[p].at /\ Done(p)
    /\ UNCHANGED <<clock, rows, jobs, tips, caches>>
-----------------------------------------------------------------------------
(* record_filtered_command *)
OnboardRead(p) ==
    /\ Start(p, "onboard", [Idle EXCEPT !.number = count])
    /\ raced' = (raced \/ \E q \in Processes \ {p} : pc[q] = "onboard")
    /\ UNCHANGED <<clock, count, recorded, telemetry, caches>>

(* A slip: the counter rests once the tips have ended. *)
CountedUpTo(n) == IF n < MaxOnboarding THEN n + 1 ELSE n

Counted(n) == n + 1

OnboardWrite(p) ==
    /\ pc[p] = "onboard"
    /\ count' = Counted(mem[p].number)
    /\ recorded' = recorded + 1
    /\ Done(p)
    /\ UNCHANGED <<clock, raced, jobs, telemetry, caches>>
-----------------------------------------------------------------------------
(* compute_hook_nudge: is there a state file ... *)
Nudge(p) ==
    /\ \E r \in Repos :
         /\ Start(p, IF dir[r].built THEN "stale" ELSE "unbuilt", [Idle EXCEPT !.repo = r])
         /\ disturbed' = IF \E q \in Processes \ {p} : mem[q].repo = r
                         THEN disturbed \union {r} ELSE disturbed
    /\ UNCHANGED <<clock, intelStamp, dir, shown, evicted, telemetry, tips>>

(* ... then the nudge state is read, and may say that nothing is due ... *)
Due(p) ==
    IF pc[p] = "unbuilt" THEN dir[mem[p].repo].shows < MaxShows
    ELSE ~Recently(dir[mem[p].repo].checked, CheckInterval)

LoadNudge(p) ==
    /\ pc[p] \in {"unbuilt", "stale"}
    /\ IF Due(p)
       THEN /\ Goto(p, IF pc[p] = "unbuilt" THEN "save_shown" ELSE "save_check")
            /\ mem' = [mem EXCEPT ![p].seen = dir[mem[p].repo]]
       ELSE Done(p)
    /\ UNCHANGED <<clock, jobs, telemetry, tips, caches>>

(* Slips: the count is written as it was read; the state keeps when the    *)
(* next check is due.                                                      *)
Uncounted(seen) == [shows |-> seen.shows, checked |-> seen.checked]
NextDue(seen) == [shows |-> seen.shows, checked |-> clock + CheckInterval]

NudgeShown(seen) == [shows |-> seen.shows + 1, checked |-> seen.checked]
NudgeChecked(seen) == [shows |-> seen.shows, checked |-> clock]

(* ... and it is saved before anything is shown; the directory is made     *)
(* when it is missing.                                                     *)
SaveNudge(p, state) ==
    dir' = [dir EXCEPT ![mem[p].repo] = [@ EXCEPT !.shows = state.shows,
                                         !.checked = state.checked, !.touched = clock]]

SaveShown(p) ==
    /\ pc[p] = "save_shown"
    /\ SaveNudge(p, NudgeShown(mem[p].seen))
    /\ shown' = [shown EXCEPT ![mem[p].repo] = @ + 1]
    /\ Done(p)
    /\ UNCHANGED <<clock, jobs, intelStamp, disturbed, evicted, telemetry, tips>>

(* Whether HEAD moved far enough for a tip is left to git. *)
SaveCheck(p) ==
    /\ pc[p] = "save_check"
    /\ SaveNudge(p, NudgeChecked(mem[p].seen))
    /\ Done(p)
    /\ UNCHANGED <<clock, jobs, intelStamp, shown, disturbed, evicted, telemetry, tips>>
-----------------------------------------------------------------------------
(* ensure_repo_intelligence: cleanup_repo_intel reads the throttle ... *)
Map(p) ==
    /\ \E r \in Repos :
         Start(p, IF Recently(intelStamp, Throttle) THEN "build" ELSE "visit",
               [Idle EXCEPT !.repo = r, !.at = clock,
                            !.unseen = {d \in Repos : Exists(d)}])
    /\ UNCHANGED <<clock, telemetry, tips, caches>>

(* ... _sweep visits the directories in any order: one too old goes at     *)
(* once, the others are noted with their freshest file and their size ...  *)
Remove(r) ==
    /\ dir' = [dir EXCEPT ![r] = NoDir]
    /\ disturbed' = disturbed \union {r}

Bytes(d) == IF dir[d].built THEN Sizes[d] ELSE 0

Visit(p) ==
    /\ pc[p] = "visit" /\ mem[p].unseen # {}
    /\ \E d \in mem[p].unseen :
         LET seen == [repo |-> d, touched |-> dir[d].touched, size |-> Bytes(d)]
         IN  IF ~Exists(d)
             THEN mem' = [mem EXCEPT ![p].unseen = @ \ {d}] /\ UNCHANGED <<dir, disturbed>>
             ELSE IF seen.touched < mem[p].at - IntelAge
             THEN mem' = [mem EXCEPT ![p].unseen = @ \ {d}] /\ Remove(d)
             ELSE /\ mem' = [mem EXCEPT ![p].unseen = @ \ {d}, ![p].kept = @ \union {seen}]
                  /\ UNCHANGED <<dir, disturbed>>
    /\ UNCHANGED <<clock, pc, jobs, intelStamp, shown, evicted, telemetry, tips>>

(* ... the oldest go first until the rest fits ... *)
Kept(p) == MapThenSumSet(LAMBDA s : s.size, mem[p].kept)

(* A slip: the list is sorted the other way. *)
Freshest(kept) == {s \in kept : \A t \in kept : t.touched <= s.touched}

Oldest(kept) == {s \in kept : \A t \in kept : s.touched <= t.touched}

Evict(p) ==
    /\ pc[p] = "visit" /\ mem[p].unseen = {}
    /\ Kept(p) > MaxBytes
    /\ \E s \in Oldest(mem[p].kept) :
         /\ mem' = [mem EXCEPT ![p].kept = @ \ {s}]
         /\ Remove(s.repo)
         /\ evicted' = {<<s.touched, t.touched>> : t \in mem[p].kept \ {s}}
    /\ UNCHANGED <<clock, pc, jobs, intelStamp, shown, telemetry, tips>>

(* ... and the stamp ends the cleanup. *)
Swept(p) ==
    /\ pc[p] = "visit" /\ mem[p].unseen = {} /\ Kept(p) <= MaxBytes
    /\ intelStamp' = mem[p].at
    /\ Goto(p, "build") /\ mem' = [mem EXCEPT ![p].unseen = {}, ![p].kept = {}]
    /\ UNCHANGED <<clock, jobs, dir, shown, disturbed, evicted, telemetry, tips>>

(* The cleanup failed: the command goes on without it. *)
CleanFails(p) ==
    /\ pc[p] = "visit"
    /\ Goto(p, "build") /\ mem' = [mem EXCEPT ![p].unseen = {}, ![p].kept = {}]
    /\ UNCHANGED <<clock, jobs, telemetry, tips, caches>>

(* RepoIntelCache models what is built. *)
Build(p) ==
    /\ pc[p] = "build"
    /\ dir' = [dir EXCEPT ![mem[p].repo] = [@ EXCEPT !.built = TRUE, !.touched = clock]]
    /\ Done(p)
    /\ UNCHANGED <<clock, jobs, intelStamp, shown, disturbed, evicted, telemetry, tips>>
-----------------------------------------------------------------------------
Next ==
    \/ Tick \/ TrackRow
    \/ \E p \in Processes :
         \/ Stop(p)
         \/ PruneRead(p) \/ PruneDelete(p) \/ PruneStamp(p)
         \/ OnboardRead(p) \/ OnboardWrite(p)
         \/ Nudge(p) \/ LoadNudge(p) \/ SaveShown(p) \/ SaveCheck(p)
         \/ Map(p) \/ Visit(p) \/ Evict(p) \/ Swept(p) \/ CleanFails(p) \/ Build(p)

Spec == Init /\ [][Next]_vars
-----------------------------------------------------------------------------
Instants == 0..MaxTime
Dirs == [built : BOOLEAN, shows : Nat, checked : Instants \union {Never},
         touched : Instants \union {Never}]

Steps == {"idle", "prune", "stamp", "onboard", "unbuilt", "stale", "save_shown",
          "save_check", "visit", "build"}

Memories == [repo : Repos \union {Nobody}, seen : Dirs, at : Instants \union {Never},
             unseen : SUBSET Repos, number : Nat,
             kept : SUBSET [repo : Repos, touched : Instants, size : Nat]]

(* The state files hold what their readers parse, and the stamps lie in   *)
(* the past.                                                               *)
TypeOK ==
    /\ pc \in [Processes -> Steps] /\ mem \in [Processes -> Memories]
    /\ jobs \in Nat /\ recorded \in Nat /\ raced \in BOOLEAN
    /\ shown \in [Repos -> Nat] /\ disturbed \subseteq Repos
    /\ clock \in Instants /\ rows \subseteq 0..clock
    /\ stamp \in (0..clock) \union {Never} /\ intelStamp \in (0..clock) \union {Never}
    /\ count \in Nat /\ dir \in [Repos -> Dirs]
    /\ \A r \in Repos : Exists(r) \/ dir[r] = NoDir
    /\ \A p \in Processes : pc[p] = "idle" => mem[p] = Idle

(* prune_stale_invocations (db.py:665): a throttle stamp is only left by a *)
(* sweep whose delete was committed, so no row is left that was recorded   *)
(* on a day before the cutoff day of the last stamp, whatever process      *)
(* failed or was killed between the two databases.                         *)
StampedMeansSwept ==
    stamp # Never => \A t \in rows : Day(t) >= Day(stamp - TelemetryDays * UnitsPerDay)

(* db.py:639 "Delete `invocations` rows older than `max_age_days`": what a *)
(* sweep leaves is not older than that.                                    *)
NoRowOutlivesItsAge ==
    stamp # Never => \A t \in rows : t >= stamp - TelemetryDays * UnitsPerDay

(* onboarding.py: as long as no two processes were between reading and    *)
(* writing the counter at once, the file is the true count of filtered     *)
(* commands, also after the tips have ended and across killed processes.   *)
CountIsTrue == ~raced => count = recorded

(* nudge.py: nudges that follow each other on one repository, whose        *)
(* directory was not removed, show the tip at most MAX_NEVER_BUILT_SHOWS   *)
(* times, builds and killed processes in between included.                 *)
SerialTipsAreBounded == \A r \in Repos \ disturbed : shown[r] <= MaxShows

(* intel_cleanup._sweep: a cache is never evicted for space while one that *)
(* was touched longer ago stays.                                           *)
OldestGoFirst == \A pair \in evicted : pair[1] <= pair[2]
=============================================================================
