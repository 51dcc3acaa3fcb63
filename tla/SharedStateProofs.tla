------------------------- MODULE SharedStateProofs -------------------------
(***************************************************************************)
(* The safety of the shared state files, for every number of processes and *)
(* of repositories, every age, throttle, size and limit.                   *)
(***************************************************************************)
EXTENDS SharedState, TLAPS

USE SharedAssumption

(* No row of a day before the cutoff day of a sweep begun at time t.       *)
SweptUpTo(t) == \A row \in rows : Day(row) >= Day(t - TelemetryDays * UnitsPerDay)

(* From the commit of the delete on, and for as long as the stamp that     *)
(* follows it stands, what a sweep promised holds.                         *)
StampInv ==
    /\ \A p \in Processes :
         /\ pc[p] \in {"prune", "stamp"} => mem[p].at \in 0 .. clock
         /\ pc[p] = "stamp" => SweptUpTo(mem[p].at)
    /\ stamp # Never => SweptUpTo(stamp)

(* Until two processes met, the one between its read and its write knows   *)
(* the true count.                                                         *)
CountInv ==
    ~raced =>
      /\ count = recorded
      /\ \A p \in Processes : pc[p] = "onboard" =>
           /\ mem[p].number = count
           /\ \A q \in Processes \ {p} : pc[q] # "onboard"

Nudging(p) == pc[p] \in {"unbuilt", "stale", "save_shown", "save_check"}

(* Two nudges at work on one repository disturb it; on any other, the file *)
(* counts what was shown and the one nudge at work has read it.            *)
NudgeInv ==
    /\ \A p \in Processes : Nudging(p) => mem[p].repo \in Repos
    /\ \A p, q \in Processes : p # q /\ Nudging(p) /\ Nudging(q) /\ mem[p].repo = mem[q].repo
                                 => mem[p].repo \in disturbed
    /\ \A r \in Repos \ disturbed : shown[r] = dir[r].shows /\ shown[r] <= MaxShows
    /\ \A p \in Processes : mem[p].repo \notin disturbed =>
         /\ pc[p] \in {"save_shown", "save_check"} => mem[p].seen.shows = dir[mem[p].repo].shows
         /\ pc[p] = "save_shown" => mem[p].seen.shows < MaxShows

(* A map knows its repository and began in the past.                       *)
MapInv ==
    \A p \in Processes : pc[p] \in {"visit", "build"} =>
        mem[p].repo \in Repos /\ mem[p].at \in 0 .. clock

IInv == TypeOK /\ MapInv /\ StampInv /\ CountInv /\ NudgeInv /\ OldestGoFirst
-----------------------------------------------------------------------------
(* A later instant is of no earlier day.                                   *)
LEMMA DayIsMonotonic ==
    ASSUME NEW a \in Int, NEW b \in Int, a <= b
    PROVE  Day(a) \in Int /\ Day(b) \in Int /\ Day(a) <= Day(b)
<1> DEFINE U == UnitsPerDay
<1>1. U \in Nat /\ U > 0
  OBVIOUS
<1> HIDE DEF U
<1>2. CASE a < 0
  <2>1. b >= 0 => b \div U \in Nat
    BY <1>1
  <2> QED BY <1>2, <2>1 DEF Day, U
<1>3. CASE a >= 0
  <2> DEFINE x == a \div U
             y == b \div U
  <2>1. /\ x \in Int /\ U * x <= a /\ a < U * x + U
        /\ y \in Int /\ U * y <= b /\ b < U * y + U
    BY <1>1, <1>3
  <2> HIDE DEF x, y
  <2>2. x <= y
    <3> SUFFICES ASSUME y + 1 <= x PROVE FALSE
      BY <2>1
    <3>1. U * (y + 1) <= U * x
      BY <1>1, <2>1
    <3>2. U * (y + 1) = U * y + U
      BY <1>1, <2>1
    <3> QED BY <1>1, <2>1, <3>1, <3>2
  <2> QED BY <1>3, <2>1, <2>2 DEF Day, U, x, y
<1> QED BY <1>2, <1>3

(* The cutoff of a sweep is an instant no later than the sweep.            *)
LEMMA CutoffIsEarlier ==
    ASSUME NEW t \in Int
    PROVE  /\ t - TelemetryDays * UnitsPerDay \in Int
           /\ t - TelemetryDays * UnitsPerDay <= t
<1>1. TelemetryDays * UnitsPerDay \in Nat
  OBVIOUS
<1> QED BY <1>1

(* The first process of a user finds no state file.                        *)
LEMMA InitIInv == Init => IInv
<1> SUFFICES ASSUME Init PROVE IInv
  OBVIOUS
<1> USE DEF Init, Idle, NoDir
<1>1. TypeOK
  <2>1. Idle \in Memories /\ NoDir \in Dirs
    BY DEF Memories, Dirs
  <2>2. clock \in Instants /\ rows \subseteq 0 .. clock
    BY DEF Instants
  <2>3. dir \in [Repos -> Dirs] /\ \A r \in Repos : dir[r] = NoDir
    BY <2>1
  <2>4. pc \in [Processes -> Steps] /\ mem \in [Processes -> Memories]
    BY <2>1 DEF Steps
  <2> HIDE DEF Idle, NoDir
  <2> QED BY <2>2, <2>3, <2>4 DEF TypeOK, Idle, NoDir
<1>2. MapInv /\ StampInv /\ CountInv /\ NudgeInv /\ OldestGoFirst
  BY DEF MapInv, StampInv, CountInv, NudgeInv, OldestGoFirst, Nudging
<1> QED BY <1>1, <1>2 DEF IInv

(* What a job may read and remember keeps the types of the memories.       *)
LEMMA IdleMemory ==
    /\ Idle \in Memories /\ NoDir \in Dirs
    /\ "idle" \in Steps
BY DEF Idle, NoDir, Memories, Dirs, Steps

(* A directory is written by a job that touches it, or removed whole.      *)
LEMMA DirIsWritten ==
    ASSUME TypeOK, NEW r \in Repos, NEW d \in Dirs, d.touched # Never \/ d = NoDir,
           dir' = [dir EXCEPT ![r] = d]
    PROVE  dir' \in [Repos -> Dirs] /\ \A q \in Repos : Exists(q)' \/ dir'[q] = NoDir
BY DEF TypeOK, Exists

(* A nudge that is saved.                                                  *)
LEMMA NudgeIsSaved ==
    ASSUME IInv, NEW p \in Processes, Nudging(p), NEW state,
           state.shows \in Nat, state.checked \in Instants \union {Never}, SaveNudge(p, state)
    PROVE  /\ dir' \in [Repos -> Dirs] /\ \A q \in Repos : Exists(q)' \/ dir'[q] = NoDir
           /\ mem[p].repo \in Repos
           /\ \A q \in Repos : dir'[q].shows = IF q = mem[p].repo THEN state.shows
                                                                 ELSE dir[q].shows
<1> DEFINE r == mem[p].repo
           d == [dir[r] EXCEPT !.shows = state.shows, !.checked = state.checked,
                               !.touched = clock]
<1>1. r \in Repos /\ TypeOK
  BY DEF IInv, NudgeInv
<1>2. dir[r] \in Dirs /\ clock \in Instants /\ clock # Never /\ dir \in [Repos -> Dirs]
  BY <1>1 DEF TypeOK, Instants
<1>3. d \in Dirs /\ d.touched # Never /\ d.shows = state.shows
  BY <1>2 DEF Dirs
<1>4. dir' = [dir EXCEPT ![r] = d]
  BY DEF SaveNudge
<1> HIDE DEF d
<1> QED BY <1>1, <1>2, <1>3, <1>4, DirIsWritten

(* Every step keeps the types.                                             *)
LEMMA StepTypeOK == IInv /\ [Next]_vars => TypeOK'
<1> SUFFICES ASSUME IInv, [Next]_vars PROVE TypeOK'
  OBVIOUS
<1> USE DEF telemetry, tips, caches, Goto, Done, Start
<1>0. TypeOK /\ MapInv /\ StampInv /\ NudgeInv
  BY DEF IInv
<1>1. CASE Tick
  BY <1>0, <1>1 DEF Tick, TypeOK, Instants, Exists
<1>2. CASE TrackRow
  BY <1>0, <1>2 DEF TrackRow, TypeOK, Instants, Exists
<1>3. ASSUME NEW p \in Processes, Stop(p) PROVE TypeOK'
  BY <1>0, <1>3, IdleMemory, ZenonT(60) DEF Stop, TypeOK, Exists
<1>4. ASSUME NEW p \in Processes, PruneRead(p) PROVE TypeOK'
  BY <1>0, <1>4, IdleMemory, SMTT(60) DEF PruneRead, TypeOK, Exists, Steps, Memories, Instants
<1>5. ASSUME NEW p \in Processes, PruneDelete(p) PROVE TypeOK'
  BY <1>0, <1>5, IdleMemory, ZenonT(60) DEF PruneDelete, TypeOK, Exists, Steps
<1>6. ASSUME NEW p \in Processes, PruneStamp(p) PROVE TypeOK'
  BY <1>0, <1>6, IdleMemory, ZenonT(60) DEF PruneStamp, TypeOK, Exists, StampInv
<1>7. ASSUME NEW p \in Processes, OnboardRead(p) PROVE TypeOK'
  BY <1>0, <1>7, IdleMemory, SMTT(60) DEF OnboardRead, TypeOK, Exists, Steps, Memories
<1>8. ASSUME NEW p \in Processes, OnboardWrite(p) PROVE TypeOK'
  BY <1>0, <1>8, IdleMemory, SMTT(60) DEF OnboardWrite, Counted, TypeOK, Exists, Memories
<1>9. ASSUME NEW p \in Processes, Nudge(p) PROVE TypeOK'
  BY <1>0, <1>9, IdleMemory, SMTT(60) DEF Nudge, TypeOK, Exists, Steps, Memories
<1>10. ASSUME NEW p \in Processes, LoadNudge(p) PROVE TypeOK'
  <2>1. pc' \in [Processes -> Steps]
    BY <1>0, <1>10, IdleMemory DEF LoadNudge, TypeOK, Steps
  <2>2. mem[p].repo \in Repos /\ dir[mem[p].repo] \in Dirs /\ mem[p] \in Memories
    BY <1>0, <1>10 DEF LoadNudge, TypeOK, NudgeInv, Nudging
  <2>3. [mem[p] EXCEPT !.seen = dir[mem[p].repo]] \in Memories
    BY <2>2 DEF Memories
  <2>4. mem' \in [Processes -> Memories]
    BY <1>0, <1>10, <2>3, IdleMemory DEF LoadNudge, TypeOK
  <2>5. \A q \in Processes : pc'[q] = "idle" => mem'[q] = Idle
    BY <1>0, <1>10 DEF LoadNudge, TypeOK
  <2> QED BY <1>0, <1>10, <2>1, <2>4, <2>5 DEF LoadNudge, TypeOK, Exists
<1>11. ASSUME NEW p \in Processes, SaveShown(p) PROVE TypeOK'
  <2>1. mem[p].repo \in Repos /\ mem[p].seen \in Dirs
    BY <1>0, <1>11 DEF SaveShown, TypeOK, Memories, NudgeInv, Nudging
  <2>2. NudgeShown(mem[p].seen).shows \in Nat /\ NudgeShown(mem[p].seen).checked \in Instants \union {Never}
    BY <2>1 DEF NudgeShown, Dirs
  <2>3. dir' \in [Repos -> Dirs] /\ \A q \in Repos : Exists(q)' \/ dir'[q] = NoDir
    BY <1>11, <2>2, NudgeIsSaved DEF SaveShown, Nudging
  <2>4. shown' \in [Repos -> Nat]
    BY <1>0, <1>11, <2>1 DEF SaveShown, TypeOK
  <2> QED BY <1>0, <1>11, <2>3, <2>4, IdleMemory DEF SaveShown, TypeOK
<1>12. ASSUME NEW p \in Processes, SaveCheck(p) PROVE TypeOK'
  <2>1. mem[p].repo \in Repos /\ mem[p].seen \in Dirs /\ clock \in Instants
    BY <1>0, <1>12 DEF SaveCheck, TypeOK, Memories, NudgeInv, Nudging
  <2>2. NudgeChecked(mem[p].seen).shows \in Nat /\ NudgeChecked(mem[p].seen).checked \in Instants \union {Never}
    BY <2>1 DEF NudgeChecked, Dirs
  <2>3. dir' \in [Repos -> Dirs] /\ \A q \in Repos : Exists(q)' \/ dir'[q] = NoDir
    BY <1>12, <2>2, NudgeIsSaved DEF SaveCheck, Nudging
  <2> QED BY <1>0, <1>12, <2>1, <2>3, IdleMemory DEF SaveCheck, TypeOK
<1>13. ASSUME NEW p \in Processes, Map(p) PROVE TypeOK'
  <2>1. PICK r \in Repos :
          Start(p, IF Recently(intelStamp, Throttle) THEN "build" ELSE "visit",
                [Idle EXCEPT !.repo = r, !.at = clock, !.unseen = {d \in Repos : Exists(d)}])
    BY <1>13 DEF Map
  <2>2. [Idle EXCEPT !.repo = r, !.at = clock, !.unseen = {d \in Repos : Exists(d)}] \in Memories
    BY <1>0, IdleMemory DEF TypeOK, Memories
  <2>3. mem' \in [Processes -> Memories] /\ jobs' \in Nat /\ pc' \in [Processes -> Steps]
    BY <1>0, <2>1, <2>2 DEF TypeOK, Steps
  <2>4. \A q \in Processes : pc'[q] = "idle" => mem'[q] = Idle
    BY <1>0, <2>1 DEF TypeOK
  <2> QED BY <1>0, <1>13, <2>3, <2>4 DEF Map, TypeOK, Exists
<1>14. ASSUME NEW p \in Processes, Visit(p) PROVE TypeOK'
  <2>1. PICK d \in mem[p].unseen :
          LET seen == [repo |-> d, touched |-> dir[d].touched, size |-> Bytes(d)]
          IN  IF ~Exists(d)
              THEN mem' = [mem EXCEPT ![p].unseen = @ \ {d}] /\ UNCHANGED <<dir, disturbed>>
              ELSE IF seen.touched < mem[p].at - IntelAge
              THEN mem' = [mem EXCEPT ![p].unseen = @ \ {d}] /\ Remove(d)
              ELSE /\ mem' = [mem EXCEPT ![p].unseen = @ \ {d}, ![p].kept = @ \union {seen}]
                   /\ UNCHANGED <<dir, disturbed>>
    BY <1>14 DEF Visit
  <2> DEFINE note == [repo |-> d, touched |-> dir[d].touched, size |-> Bytes(d)]
  <2>2. mem[p] \in Memories /\ d \in Repos /\ dir[d] \in Dirs
    BY <1>0 DEF TypeOK, Memories
  <2>3. Exists(d) => note \in [repo : Repos, touched : Instants, size : Nat]
    BY <2>2 DEF Exists, Dirs, Bytes
  <2> HIDE DEF note
  <2>4. /\ [mem[p] EXCEPT !.unseen = @ \ {d}] \in Memories
        /\ Exists(d) => [mem[p] EXCEPT !.unseen = @ \ {d}, !.kept = @ \union {note}] \in Memories
    BY <2>2, <2>3 DEF Memories
  <2>5. \/ mem' = [mem EXCEPT ![p] = [mem[p] EXCEPT !.unseen = @ \ {d}]]
        \/ /\ mem' = [mem EXCEPT ![p] = [mem[p] EXCEPT !.unseen = @ \ {d}, !.kept = @ \union {note}]]
           /\ Exists(d)
    BY <1>0, <2>1 DEF TypeOK, note
  <2>6. mem' \in [Processes -> Memories] /\ \A q \in Processes \ {p} : mem'[q] = mem[q]
    BY <1>0, <2>4, <2>5, SMTT(30) DEF TypeOK
  <2>7. /\ dir' \in [Repos -> Dirs] /\ \A q \in Repos : Exists(q)' \/ dir'[q] = NoDir
        /\ disturbed' \subseteq Repos
    BY <1>0, <2>1, <2>2, IdleMemory, DirIsWritten DEF Remove, TypeOK, Exists
  <2> QED BY <1>0, <1>14, <2>6, <2>7 DEF Visit, TypeOK
<1>15. ASSUME NEW p \in Processes, Evict(p) PROVE TypeOK'
  <2>1. PICK s \in Oldest(mem[p].kept) :
          mem' = [mem EXCEPT ![p].kept = @ \ {s}] /\ Remove(s.repo)
    BY <1>15 DEF Evict
  <2>2. mem[p] \in Memories /\ s.repo \in Repos
    BY <1>0 DEF TypeOK, Memories, Oldest
  <2>3. [mem[p] EXCEPT !.kept = @ \ {s}] \in Memories
    BY <2>2 DEF Memories
  <2>4. mem' \in [Processes -> Memories] /\ \A q \in Processes \ {p} : mem'[q] = mem[q]
    BY <1>0, <2>1, <2>3 DEF TypeOK
  <2>5. /\ dir' \in [Repos -> Dirs] /\ \A q \in Repos : Exists(q)' \/ dir'[q] = NoDir
        /\ disturbed' \subseteq Repos
    BY <1>0, <2>1, <2>2, IdleMemory, DirIsWritten DEF Remove, TypeOK
  <2> QED BY <1>0, <1>15, <2>4, <2>5 DEF Evict, TypeOK
<1>16. ASSUME NEW p \in Processes, Swept(p) \/ CleanFails(p) PROVE TypeOK'
  <2>1. mem[p] \in Memories
    BY <1>0 DEF TypeOK
  <2>2. [mem[p] EXCEPT !.unseen = {}, !.kept = {}] \in Memories
    BY <2>1 DEF Memories
  <2>3. mem' = [mem EXCEPT ![p] = [mem[p] EXCEPT !.unseen = {}, !.kept = {}]]
    BY <1>0, <1>16 DEF Swept, CleanFails, TypeOK
  <2>4. mem' \in [Processes -> Memories] /\ pc' \in [Processes -> Steps]
    BY <1>0, <1>16, <2>2, <2>3 DEF Swept, CleanFails, TypeOK, Steps
  <2>5. \A q \in Processes : pc'[q] = "idle" => mem'[q] = Idle
    BY <1>0, <1>16, <2>3 DEF Swept, CleanFails, TypeOK
  <2>6. intelStamp' \in (0 .. clock) \union {Never}
    BY <1>0, <1>16 DEF Swept, CleanFails, TypeOK, MapInv
  <2> QED BY <1>0, <1>16, <2>4, <2>5, <2>6 DEF Swept, CleanFails, TypeOK, Exists
<1>17. ASSUME NEW p \in Processes, Build(p) PROVE TypeOK'
  <2> DEFINE r == mem[p].repo
             d == [dir[r] EXCEPT !.built = TRUE, !.touched = clock]
  <2>1. r \in Repos /\ dir[r] \in Dirs /\ clock \in Instants /\ clock # Never
    BY <1>0, <1>17 DEF Build, TypeOK, MapInv, Instants
  <2>2. d \in Dirs /\ d.touched # Never
    BY <2>1 DEF Dirs
  <2>3. dir' = [dir EXCEPT ![r] = d]
    BY <1>17 DEF Build
  <2> HIDE DEF d
  <2>4. dir' \in [Repos -> Dirs] /\ \A q \in Repos : Exists(q)' \/ dir'[q] = NoDir
    BY <1>0, <2>1, <2>2, <2>3, DirIsWritten
  <2> QED BY <1>0, <1>17, <2>4, IdleMemory DEF Build, TypeOK
<1>18. CASE UNCHANGED vars
  BY <1>0, <1>18 DEF vars, TypeOK, Exists
<1> QED BY <1>1, <1>2, <1>3, <1>4, <1>5, <1>6, <1>7, <1>8, <1>9, <1>10, <1>11, <1>12,
           <1>13, <1>14, <1>15, <1>16, <1>17, <1>18 DEF Next

(* Every step keeps what a map and a sweep have begun with, and what a     *)
(* sweep promised.                                                         *)
LEMMA StepStampInv == IInv /\ [Next]_vars => MapInv' /\ StampInv'
<1> SUFFICES ASSUME IInv, [Next]_vars PROVE MapInv' /\ StampInv'
  OBVIOUS
<1> USE DEF telemetry, tips, caches, Goto, Done, Start
<1>0. /\ TypeOK /\ MapInv /\ StampInv /\ clock \in Nat /\ Never \notin Int
      /\ pc \in [Processes -> Steps] /\ mem \in [Processes -> Memories]
  BY DEF IInv, TypeOK, Instants
<1>1. ASSUME NEW t, UNCHANGED rows
      PROVE  SweptUpTo(t)' <=> SweptUpTo(t)
  BY <1>1 DEF SweptUpTo
<1>2. CASE Tick
  <2>1. clock' = clock + 1 /\ UNCHANGED <<rows, stamp, pc, mem>>
    BY <1>2 DEF Tick
  <2>2. \A t \in 0 .. clock : t \in 0 .. clock'
    BY <1>0, <2>1
  <2> QED BY <1>0, <1>1, <2>1, <2>2 DEF StampInv, MapInv
<1>3. CASE TrackRow
  <2>1. rows' = rows \union {clock} /\ UNCHANGED <<clock, stamp, pc, mem>>
    BY <1>3 DEF TrackRow
  <2>2. ASSUME NEW t \in 0 .. clock, SweptUpTo(t) PROVE SweptUpTo(t)'
    <3>1. Day(clock) >= Day(t - TelemetryDays * UnitsPerDay)
      <4> DEFINE c == t - TelemetryDays * UnitsPerDay
      <4>1. c \in Int /\ c <= t /\ t \in Int /\ clock \in Int /\ t <= clock
        BY <1>0, CutoffIsEarlier
      <4> HIDE DEF c
      <4>2. c <= clock
        BY <4>1
      <4>3. Day(c) \in Int /\ Day(clock) \in Int /\ Day(c) <= Day(clock)
        BY <4>1, <4>2, DayIsMonotonic
      <4>4. Day(clock) >= Day(c)
        BY <4>3
      <4> QED BY <4>4 DEF c
    <3> QED BY <2>1, <2>2, <3>1 DEF SweptUpTo
  <2>3. stamp # Never => stamp \in 0 .. clock
    BY <1>0 DEF TypeOK
  <2> QED BY <1>0, <2>1, <2>2, <2>3 DEF StampInv, MapInv
<1>4. ASSUME NEW p \in Processes, PruneRead(p) PROVE MapInv' /\ StampInv'
  <2>1. UNCHANGED <<clock, rows, stamp>> /\ \A q \in Processes :
          \/ pc'[q] = pc[q] /\ mem'[q] = mem[q]
          \/ pc'[q] = "prune" /\ mem'[q].at = clock
    BY <1>0, <1>4 DEF PruneRead, Idle
  <2> QED BY <1>0, <1>1, <2>1 DEF StampInv, MapInv
<1>5. ASSUME NEW p \in Processes, PruneDelete(p) PROVE MapInv' /\ StampInv'
  <2>1. PICK deleted \in BOOLEAN :
          /\ rows' = IF deleted THEN {t \in rows : ~BeforeCutoff(t, clock)} ELSE rows
          /\ IF deleted THEN Goto(p, "stamp") /\ UNCHANGED mem ELSE Done(p)
    BY <1>5 DEF PruneDelete, Stamps
  <2>2. rows' \subseteq rows /\ UNCHANGED <<clock, stamp>>
    BY <1>5, <2>1 DEF PruneDelete
  <2>3. \A t : SweptUpTo(t) => SweptUpTo(t)'
    BY <2>2 DEF SweptUpTo
  <2>4. \A q \in Processes :
          \/ pc'[q] = pc[q] /\ mem'[q] = mem[q]
          \/ pc'[q] = "idle"
          \/ q = p /\ pc'[p] = "stamp" /\ mem'[p] = mem[p] /\ deleted
    BY <1>0, <2>1
  <2>5. mem[p].at \in 0 .. clock
    BY <1>0, <1>5 DEF PruneDelete, StampInv
  <2>6. deleted => SweptUpTo(mem[p].at)'
    <3> SUFFICES ASSUME deleted, NEW row \in rows'
                 PROVE  Day(row) >= Day(mem[p].at - TelemetryDays * UnitsPerDay)
      BY <2>1 DEF SweptUpTo
    <3> DEFINE early == mem[p].at - TelemetryDays * UnitsPerDay
               late == clock - TelemetryDays * UnitsPerDay
    <3>1. early \in Int /\ late \in Int /\ early <= late
      <4>1. TelemetryDays * UnitsPerDay \in Nat
        OBVIOUS
      <4> QED BY <1>0, <2>5, <4>1
    <3>2. row \in Int /\ ~(Day(row) < Day(late))
      BY <1>0, <2>1 DEF TypeOK, BeforeCutoff
    <3> HIDE DEF early, late
    <3>3. Day(early) \in Int /\ Day(late) \in Int /\ Day(early) <= Day(late) /\ Day(row) \in Int
      BY <3>1, <3>2, DayIsMonotonic
    <3>4. Day(row) >= Day(early)
      BY <3>2, <3>3
    <3> QED BY <3>4 DEF early
  <2> QED BY <1>0, <2>2, <2>3, <2>4, <2>5, <2>6 DEF StampInv, MapInv
<1>6. ASSUME NEW p \in Processes, PruneStamp(p) PROVE MapInv' /\ StampInv'
  <2>1. /\ UNCHANGED <<clock, rows>> /\ stamp' = mem[p].at /\ SweptUpTo(mem[p].at)
        /\ \A q \in Processes : pc'[q] = "idle" \/ (pc'[q] = pc[q] /\ mem'[q] = mem[q])
    BY <1>0, <1>6 DEF PruneStamp, StampInv
  <2> QED BY <1>0, <1>1, <2>1 DEF StampInv, MapInv
<1>7. ASSUME NEW p \in Processes, Map(p) PROVE MapInv' /\ StampInv'
  <2>1. PICK r \in Repos :
          Start(p, IF Recently(intelStamp, Throttle) THEN "build" ELSE "visit",
                [Idle EXCEPT !.repo = r, !.at = clock, !.unseen = {d \in Repos : Exists(d)}])
    BY <1>7 DEF Map
  <2>2. UNCHANGED <<clock, rows, stamp>> /\ \A q \in Processes :
          \/ pc'[q] = pc[q] /\ mem'[q] = mem[q]
          \/ pc'[q] \in {"build", "visit"} /\ mem'[q].at = clock /\ mem'[q].repo = r
    BY <1>0, <1>7, <2>1 DEF Map, Idle
  <2> QED BY <1>0, <1>1, <2>2 DEF StampInv, MapInv
<1>8. ASSUME NEW p \in Processes,
             \/ Stop(p) \/ OnboardRead(p) \/ OnboardWrite(p) \/ Nudge(p) \/ LoadNudge(p)
             \/ SaveShown(p) \/ SaveCheck(p) \/ Visit(p) \/ Evict(p) \/ Swept(p)
             \/ CleanFails(p) \/ Build(p)
      PROVE  MapInv' /\ StampInv'
  <2>1. UNCHANGED <<clock, rows, stamp>>
    BY <1>8 DEF Stop, OnboardRead, OnboardWrite, Nudge, LoadNudge, SaveShown, SaveCheck, Visit,
                Evict, Swept, CleanFails, Build
  <2>2. \A q \in Processes :
          \/ pc'[q] \notin {"prune", "stamp", "visit", "build"}
          \/ pc'[q] = pc[q] /\ mem'[q] = mem[q]
          \/ /\ pc'[q] \in {"visit", "build"} /\ pc[q] \in {"visit", "build"}
             /\ mem'[q].at = mem[q].at /\ mem'[q].repo = mem[q].repo
    <3>1. CASE Stop(p) \/ OnboardWrite(p) \/ SaveShown(p) \/ SaveCheck(p) \/ Build(p)
      BY <1>0, <3>1 DEF Stop, OnboardWrite, SaveShown, SaveCheck, Build
    <3>2. CASE OnboardRead(p) \/ Nudge(p) \/ LoadNudge(p)
      BY <1>0, <3>2 DEF OnboardRead, Nudge, LoadNudge
    <3>3. CASE Visit(p)
      BY <1>0, <3>3 DEF Visit, Memories
    <3>4. CASE Evict(p)
      BY <1>0, <3>4 DEF Evict, Memories
    <3>5. CASE Swept(p) \/ CleanFails(p)
      BY <1>0, <3>5 DEF Swept, CleanFails, Memories
    <3> QED BY <1>8, <3>1, <3>2, <3>3, <3>4, <3>5
  <2> QED BY <1>0, <1>1, <2>1, <2>2 DEF StampInv, MapInv
<1>9. CASE UNCHANGED vars
  BY <1>0, <1>9 DEF vars, StampInv, SweptUpTo, MapInv
<1> QED BY <1>2, <1>3, <1>4, <1>5, <1>6, <1>7, <1>8, <1>9 DEF Next

(* Every step keeps the count that a lone process knows.                   *)
LEMMA StepCountInv == IInv /\ [Next]_vars => CountInv'
<1> SUFFICES ASSUME IInv, [Next]_vars PROVE CountInv'
  OBVIOUS
<1> USE DEF telemetry, tips, caches, Goto, Done, Start
<1>0. /\ CountInv /\ count \in Nat /\ recorded \in Nat /\ raced \in BOOLEAN
      /\ pc \in [Processes -> Steps] /\ mem \in [Processes -> Memories]
  BY DEF IInv, TypeOK
<1>1. ASSUME NEW p \in Processes, OnboardRead(p) PROVE CountInv'
  <2>1. /\ UNCHANGED <<count, recorded>> /\ pc' = [pc EXCEPT ![p] = "onboard"]
        /\ mem'[p].number = count /\ \A q \in Processes \ {p} : mem'[q] = mem[q]
        /\ raced' = (raced \/ \E q \in Processes \ {p} : pc[q] = "onboard")
    BY <1>0, <1>1 DEF OnboardRead, Idle
  <2> SUFFICES ASSUME ~raced' PROVE CountInv'
    BY DEF CountInv
  <2>2. ~raced /\ \A q \in Processes \ {p} : pc[q] # "onboard"
    BY <2>1
  <2> QED BY <1>0, <2>1, <2>2 DEF CountInv
<1>2. ASSUME NEW p \in Processes, OnboardWrite(p) PROVE CountInv'
  <2>1. /\ pc[p] = "onboard" /\ count' = mem[p].number + 1 /\ recorded' = recorded + 1
        /\ raced' = raced /\ pc' = [pc EXCEPT ![p] = "idle"]
    BY <1>2 DEF OnboardWrite, Counted
  <2> QED BY <1>0, <2>1 DEF CountInv
<1>3. ASSUME NEW p \in Processes,
             \/ Stop(p) \/ PruneRead(p) \/ PruneDelete(p) \/ PruneStamp(p) \/ Nudge(p)
             \/ LoadNudge(p) \/ SaveShown(p) \/ SaveCheck(p) \/ Map(p) \/ Visit(p) \/ Evict(p)
             \/ Swept(p) \/ CleanFails(p) \/ Build(p)
      PROVE  CountInv'
  <2>1. UNCHANGED tips
    BY <1>3 DEF Stop, PruneRead, PruneDelete, PruneStamp, Nudge, LoadNudge, SaveShown, SaveCheck,
                Map, Visit, Evict, Swept, CleanFails, Build
  <2>2. \A q \in Processes : pc'[q] # "onboard" \/ (pc'[q] = pc[q] /\ mem'[q] = mem[q])
    <3>1. CASE Stop(p) \/ PruneRead(p) \/ PruneDelete(p) \/ PruneStamp(p)
      BY <1>0, <3>1 DEF Stop, PruneRead, PruneDelete, PruneStamp
    <3>2. CASE Nudge(p) \/ LoadNudge(p) \/ SaveShown(p) \/ SaveCheck(p) \/ Build(p)
      BY <1>0, <3>2 DEF Nudge, LoadNudge, SaveShown, SaveCheck, Build
    <3>3. CASE Map(p) \/ Visit(p) \/ Evict(p) \/ Swept(p) \/ CleanFails(p)
      BY <1>0, <3>3 DEF Map, Visit, Evict, Swept, CleanFails
    <3> QED BY <1>3, <3>1, <3>2, <3>3
  <2>3. \A q \in Processes : pc'[q] = "onboard" => pc[q] = "onboard" /\ mem'[q] = mem[q]
    BY <2>2
  <2> QED BY <1>0, <2>1, <2>3 DEF CountInv
<1>4. CASE Tick \/ TrackRow \/ UNCHANGED vars
  <2>1. UNCHANGED <<count, recorded, raced, pc, mem>>
    BY <1>4 DEF Tick, TrackRow, vars
  <2> QED BY <1>0, <2>1 DEF CountInv
<1> QED BY <1>1, <1>2, <1>3, <1>4 DEF Next

(* Every step keeps the count of the tips a lone nudge shows.              *)
LEMMA StepNudgeInv == IInv /\ [Next]_vars => NudgeInv'
<1> SUFFICES ASSUME IInv, [Next]_vars PROVE NudgeInv'
  OBVIOUS
<1> USE DEF telemetry, tips, caches, Goto, Done, Start
<1>0. /\ NudgeInv /\ MapInv /\ dir \in [Repos -> Dirs] /\ shown \in [Repos -> Nat]
      /\ pc \in [Processes -> Steps] /\ mem \in [Processes -> Memories] /\ MaxShows \in Nat
      /\ \A r \in Repos : dir[r].shows \in Nat
  BY DEF IInv, TypeOK, Dirs
(* A step that is no nudge's leaves each count alone, or disturbs it.      *)
<1>1. ASSUME shown' = shown, disturbed \subseteq disturbed',
             \A r \in Repos \ disturbed' : dir'[r].shows = dir[r].shows,
             \A q \in Processes :
               \/ ~Nudging(q)'
               \/ pc'[q] = pc[q] /\ mem'[q].repo = mem[q].repo /\ mem'[q].seen = mem[q].seen
      PROVE  NudgeInv'
  <2>1. \A q \in Processes : Nudging(q)' =>
           /\ Nudging(q) /\ pc'[q] = pc[q] /\ mem'[q].repo = mem[q].repo
           /\ mem'[q].seen = mem[q].seen
    BY <1>1 DEF Nudging
  <2>2. \A q \in Processes : Nudging(q)' => mem'[q].repo \in Repos
    BY <1>0, <2>1 DEF NudgeInv
  <2>3. \A q, o \in Processes :
           q # o /\ Nudging(q)' /\ Nudging(o)' /\ mem'[q].repo = mem'[o].repo
             => mem'[q].repo \in disturbed'
    BY <1>0, <1>1, <2>1 DEF NudgeInv
  <2>4. \A r \in Repos \ disturbed' : shown'[r] = dir'[r].shows /\ shown'[r] <= MaxShows
    BY <1>0, <1>1 DEF NudgeInv
  <2>5. ASSUME NEW q \in Processes, mem'[q].repo \notin disturbed',
               pc'[q] \in {"save_shown", "save_check"}
        PROVE  /\ mem'[q].seen.shows = dir'[mem'[q].repo].shows
               /\ pc'[q] = "save_shown" => mem'[q].seen.shows < MaxShows
    <3>1. Nudging(q)'
      BY <2>5 DEF Nudging
    <3> QED BY <1>0, <1>1, <2>1, <2>2, <2>5, <3>1 DEF NudgeInv
  <2> QED BY <2>2, <2>3, <2>4, <2>5 DEF NudgeInv
<1>2. ASSUME NEW p \in Processes, Nudge(p) PROVE NudgeInv'
  <2>1. PICK r \in Repos :
         /\ Start(p, IF dir[r].built THEN "stale" ELSE "unbuilt", [Idle EXCEPT !.repo = r])
         /\ disturbed' = IF \E q \in Processes \ {p} : mem[q].repo = r
                         THEN disturbed \union {r} ELSE disturbed
    BY <1>2 DEF Nudge
  <2>2. /\ UNCHANGED <<dir, shown>> /\ disturbed \subseteq disturbed'
        /\ pc'[p] \in {"stale", "unbuilt"} /\ mem'[p].repo = r
        /\ \A q \in Processes \ {p} : pc'[q] = pc[q] /\ mem'[q] = mem[q]
        /\ \A q \in Processes \ {p} : mem[q].repo = r => r \in disturbed'
    BY <1>0, <1>2, <2>1 DEF Nudge, Idle
  <2>3. \A q \in Processes : Nudging(q)' => mem'[q].repo \in Repos
    BY <1>0, <2>2 DEF NudgeInv, Nudging
  <2>4. \A q, o \in Processes :
           q # o /\ Nudging(q)' /\ Nudging(o)' /\ mem'[q].repo = mem'[o].repo
             => mem'[q].repo \in disturbed'
    BY <1>0, <2>2 DEF NudgeInv, Nudging
  <2>5. \A o \in Repos \ disturbed' : shown'[o] = dir'[o].shows /\ shown'[o] <= MaxShows
    BY <1>0, <2>2 DEF NudgeInv
  <2>6. \A q \in Processes : mem'[q].repo \notin disturbed' =>
           /\ pc'[q] \in {"save_shown", "save_check"}
                => mem'[q].seen.shows = dir'[mem'[q].repo].shows
           /\ pc'[q] = "save_shown" => mem'[q].seen.shows < MaxShows
    BY <1>0, <2>2 DEF NudgeInv
  <2> QED BY <2>3, <2>4, <2>5, <2>6 DEF NudgeInv
<1>3. ASSUME NEW p \in Processes, LoadNudge(p) PROVE NudgeInv'
  <2>1. UNCHANGED <<dir, shown, disturbed>>
    BY <1>3 DEF LoadNudge
  <2>2. CASE ~Due(p)
    <3>1. \A q \in Processes : ~Nudging(q)' \/ (pc'[q] = pc[q] /\ mem'[q] = mem[q])
      BY <1>0, <1>3, <2>2 DEF LoadNudge, Nudging
    <3> QED BY <1>1, <2>1, <3>1
  <2>3. CASE Due(p)
    <3> DEFINE r == mem[p].repo
    <3>1. /\ Nudging(p) /\ pc'[p] \in {"save_shown", "save_check"}
          /\ pc'[p] = "save_shown" => pc[p] = "unbuilt"
          /\ mem'[p].repo = r /\ mem'[p].seen = dir[r]
          /\ \A q \in Processes \ {p} : pc'[q] = pc[q] /\ mem'[q] = mem[q]
      BY <1>0, <1>3, <2>3 DEF LoadNudge, Nudging, Memories
    <3>2. r \in Repos
      BY <1>0, <3>1 DEF NudgeInv
    <3>3. pc'[p] = "save_shown" => dir[r].shows < MaxShows
      BY <2>3, <3>1 DEF Due
    <3>4. \A q \in Processes : (Nudging(q)' => Nudging(q)) /\ mem'[q].repo = mem[q].repo
      BY <3>1 DEF Nudging
    <3>5. \A q \in Processes : Nudging(q)' => mem'[q].repo \in Repos
      BY <1>0, <3>4 DEF NudgeInv
    <3>6. \A q, o \in Processes :
             q # o /\ Nudging(q)' /\ Nudging(o)' /\ mem'[q].repo = mem'[o].repo
               => mem'[q].repo \in disturbed'
      BY <1>0, <2>1, <3>4 DEF NudgeInv
    <3>7. \A o \in Repos \ disturbed' : shown'[o] = dir'[o].shows /\ shown'[o] <= MaxShows
      BY <1>0, <2>1 DEF NudgeInv
    <3>8. \A q \in Processes : mem'[q].repo \notin disturbed' =>
             /\ pc'[q] \in {"save_shown", "save_check"}
                  => mem'[q].seen.shows = dir'[mem'[q].repo].shows
             /\ pc'[q] = "save_shown" => mem'[q].seen.shows < MaxShows
      BY <1>0, <2>1, <3>1, <3>3 DEF NudgeInv
    <3> QED BY <3>5, <3>6, <3>7, <3>8 DEF NudgeInv
  <2> QED BY <2>2, <2>3
(* What a save writes is what the file said, unless two nudges met.        *)
<1>4. ASSUME NEW p \in Processes, pc[p] \in {"save_shown", "save_check"},
             pc' = [pc EXCEPT ![p] = "idle"], mem' = [mem EXCEPT ![p] = Idle],
             disturbed' = disturbed,
             \A r \in Repos : r # mem[p].repo => shown'[r] = shown[r] /\ dir'[r].shows = dir[r].shows,
             mem[p].repo \notin disturbed =>
               /\ shown'[mem[p].repo] = dir'[mem[p].repo].shows
               /\ shown'[mem[p].repo] <= MaxShows
      PROVE  NudgeInv'
  <2>1. Nudging(p) /\ \A q \in Processes :
           Nudging(q)' => q # p /\ Nudging(q) /\ pc'[q] = pc[q] /\ mem'[q] = mem[q]
    BY <1>0, <1>4 DEF Nudging
  <2>2. \A q \in Processes : Nudging(q)' => mem'[q].repo \in Repos
    BY <1>0, <2>1 DEF NudgeInv
  <2>3. \A q, o \in Processes :
           q # o /\ Nudging(q)' /\ Nudging(o)' /\ mem'[q].repo = mem'[o].repo
             => mem'[q].repo \in disturbed'
    BY <1>0, <1>4, <2>1 DEF NudgeInv
  <2>4. \A r \in Repos \ disturbed' : shown'[r] = dir'[r].shows /\ shown'[r] <= MaxShows
    BY <1>0, <1>4 DEF NudgeInv
  <2>5. ASSUME NEW q \in Processes, mem'[q].repo \notin disturbed',
               pc'[q] \in {"save_shown", "save_check"}
        PROVE  /\ mem'[q].seen.shows = dir'[mem'[q].repo].shows
               /\ pc'[q] = "save_shown" => mem'[q].seen.shows < MaxShows
    <3>1. q # p /\ Nudging(q) /\ pc'[q] = pc[q] /\ mem'[q] = mem[q] /\ mem[q].repo \in Repos
      BY <1>0, <2>1, <2>2, <2>5 DEF Nudging
    <3>2. mem[q].repo # mem[p].repo
      BY <1>0, <1>4, <2>1, <2>5, <3>1 DEF NudgeInv
    <3> QED BY <1>0, <1>4, <2>5, <3>1, <3>2 DEF NudgeInv
  <2> QED BY <2>2, <2>3, <2>4, <2>5 DEF NudgeInv
<1>5. ASSUME NEW p \in Processes, SaveShown(p) PROVE NudgeInv'
  <2> DEFINE r == mem[p].repo
  <2>1. Nudging(p) /\ r \in Repos /\ mem[p].seen \in Dirs
    BY <1>0, <1>5 DEF SaveShown, Nudging, NudgeInv, Memories
  <2>2. /\ NudgeShown(mem[p].seen).shows = mem[p].seen.shows + 1
        /\ NudgeShown(mem[p].seen).shows \in Nat
        /\ NudgeShown(mem[p].seen).checked \in Instants \union {Never}
    BY <2>1 DEF NudgeShown, Dirs
  <2>3. \A q \in Repos : dir'[q].shows = IF q = r THEN mem[p].seen.shows + 1 ELSE dir[q].shows
    BY <1>5, <2>1, <2>2, NudgeIsSaved DEF SaveShown
  <2>4. \A q \in Repos : shown'[q] = IF q = r THEN shown[q] + 1 ELSE shown[q]
    BY <1>0, <1>5, <2>1 DEF SaveShown
  <2>5. r \notin disturbed => shown'[r] = dir'[r].shows /\ shown'[r] <= MaxShows
    <3> SUFFICES ASSUME r \notin disturbed
                 PROVE  shown'[r] = dir'[r].shows /\ shown'[r] <= MaxShows
      OBVIOUS
    <3>1. mem[p].seen.shows = dir[r].shows /\ mem[p].seen.shows < MaxShows /\ shown[r] = dir[r].shows
      BY <1>0, <1>5, <2>1 DEF SaveShown, NudgeInv
    <3>2. dir[r].shows \in Nat
      BY <1>0, <2>1
    <3> QED BY <1>0, <2>1, <2>3, <2>4, <3>1, <3>2
  <2>6. /\ pc[p] \in {"save_shown", "save_check"} /\ pc' = [pc EXCEPT ![p] = "idle"]
        /\ mem' = [mem EXCEPT ![p] = Idle] /\ disturbed' = disturbed
    BY <1>5 DEF SaveShown
  <2>7. \A q \in Repos : q # r => shown'[q] = shown[q] /\ dir'[q].shows = dir[q].shows
    BY <2>3, <2>4
  <2> QED BY <1>4, <2>5, <2>6, <2>7
<1>6. ASSUME NEW p \in Processes, SaveCheck(p) PROVE NudgeInv'
  <2> DEFINE r == mem[p].repo
  <2>1. Nudging(p) /\ r \in Repos /\ mem[p].seen \in Dirs /\ clock \in Instants
    BY <1>0, <1>6 DEF SaveCheck, Nudging, NudgeInv, Memories, IInv, TypeOK
  <2>2. /\ NudgeChecked(mem[p].seen).shows = mem[p].seen.shows
        /\ NudgeChecked(mem[p].seen).shows \in Nat
        /\ NudgeChecked(mem[p].seen).checked \in Instants \union {Never}
    BY <2>1 DEF NudgeChecked, Dirs
  <2>3. \A q \in Repos : dir'[q].shows = IF q = r THEN mem[p].seen.shows ELSE dir[q].shows
    BY <1>6, <2>1, <2>2, NudgeIsSaved DEF SaveCheck
  <2>4. r \notin disturbed => shown'[r] = dir'[r].shows /\ shown'[r] <= MaxShows
    BY <1>0, <1>6, <2>1, <2>3 DEF SaveCheck, NudgeInv
  <2> QED BY <1>4, <1>6, <2>3, <2>4 DEF SaveCheck
<1>7. ASSUME NEW p \in Processes, Visit(p) \/ Evict(p) PROVE NudgeInv'
  <2>1. /\ shown' = shown
        /\ UNCHANGED <<dir, disturbed>> \/ \E r \in Repos : Remove(r)
    <3>1. CASE Visit(p)
      <4>1. mem[p].unseen \subseteq Repos
        BY <1>0 DEF Memories
      <4> QED BY <3>1, <4>1 DEF Visit
    <3>2. CASE Evict(p)
      <4>1. \A s \in mem[p].kept : s.repo \in Repos
        BY <1>0 DEF Memories
      <4> QED BY <3>2, <4>1 DEF Evict, Oldest
    <3> QED BY <1>7, <3>1, <3>2
  <2>2. disturbed \subseteq disturbed' /\ \A r \in Repos \ disturbed' : dir'[r].shows = dir[r].shows
    BY <1>0, <2>1 DEF Remove
  <2>3. \A q \in Processes : ~Nudging(q)' \/ (pc'[q] = pc[q] /\ mem'[q] = mem[q])
    BY <1>0, <1>7 DEF Visit, Evict, Nudging
  <2> QED BY <1>1, <2>1, <2>2, <2>3
<1>8. ASSUME NEW p \in Processes, Build(p) PROVE NudgeInv'
  <2>1. mem[p].repo \in Repos /\ shown' = shown /\ disturbed' = disturbed
    BY <1>0, <1>8 DEF Build, MapInv
  <2>2. \A r \in Repos : dir'[r].shows = dir[r].shows
    BY <1>0, <1>8, <2>1 DEF Build, Dirs
  <2>3. \A q \in Processes : ~Nudging(q)' \/ (pc'[q] = pc[q] /\ mem'[q] = mem[q])
    BY <1>0, <1>8 DEF Build, Nudging
  <2> QED BY <1>1, <2>1, <2>2, <2>3
<1>9. ASSUME NEW p \in Processes,
             \/ Stop(p) \/ PruneRead(p) \/ PruneDelete(p) \/ PruneStamp(p) \/ OnboardRead(p)
             \/ OnboardWrite(p) \/ Map(p) \/ Swept(p) \/ CleanFails(p)
      PROVE  NudgeInv'
  <2>1. UNCHANGED <<dir, shown, disturbed>>
    BY <1>9 DEF Stop, PruneRead, PruneDelete, PruneStamp, OnboardRead, OnboardWrite, Map, Swept,
                CleanFails
  <2>2. \A q \in Processes : ~Nudging(q)' \/ (pc'[q] = pc[q] /\ mem'[q] = mem[q])
    <3>1. CASE Stop(p) \/ PruneRead(p) \/ PruneDelete(p) \/ PruneStamp(p)
      BY <1>0, <3>1 DEF Stop, PruneRead, PruneDelete, PruneStamp, Nudging
    <3>2. CASE OnboardRead(p) \/ OnboardWrite(p) \/ Map(p) \/ Swept(p) \/ CleanFails(p)
      BY <1>0, <3>2 DEF OnboardRead, OnboardWrite, Map, Swept, CleanFails, Nudging
    <3> QED BY <1>9, <3>1, <3>2
  <2> QED BY <1>1, <2>1, <2>2
<1>10. CASE Tick \/ TrackRow \/ UNCHANGED vars
  <2>1. UNCHANGED <<dir, shown, disturbed, pc, mem>>
    BY <1>10 DEF Tick, TrackRow, vars
  <2> QED BY <1>1, <2>1
<1> QED BY <1>2, <1>3, <1>5, <1>6, <1>7, <1>8, <1>9, <1>10 DEF Next

(* Only an eviction records a pair, and it takes one of the oldest.        *)
LEMMA StepOldest == IInv /\ [Next]_vars => OldestGoFirst'
<1> SUFFICES ASSUME IInv, [Next]_vars PROVE OldestGoFirst'
  OBVIOUS
<1>1. OldestGoFirst
  BY DEF IInv
<1>2. ASSUME NEW p \in Processes, Evict(p) PROVE OldestGoFirst'
  BY <1>2 DEF Evict, Oldest, OldestGoFirst
<1>3. CASE UNCHANGED evicted
  BY <1>1, <1>3 DEF OldestGoFirst
<1>4. UNCHANGED evicted \/ \E p \in Processes : Evict(p)
  BY DEF Next, vars, caches, Tick, TrackRow, Stop, PruneRead, PruneDelete, PruneStamp, OnboardRead,
         OnboardWrite, Nudge, LoadNudge, SaveShown, SaveCheck, Map, Visit, Swept, CleanFails, Build
<1> QED BY <1>2, <1>3, <1>4

(* The inductive invariant holds in every reachable state.                 *)
LEMMA Invariance == Spec => []IInv
<1>1. IInv /\ [Next]_vars => IInv'
  BY StepTypeOK, StepStampInv, StepCountInv, StepNudgeInv, StepOldest DEF IInv
<1> QED BY <1>1, InitIInv, PTL DEF Spec
-----------------------------------------------------------------------------
(* The state files hold what their readers parse, the stamps lie in the    *)
(* past, and an idle process remembers nothing.                            *)
THEOREM TypeIsInvariant == Spec => []TypeOK
<1>1. IInv => TypeOK
  BY DEF IInv
<1> QED BY <1>1, Invariance, PTL

(* prune_stale_invocations: a stamp is left only by a sweep whose delete   *)
(* was committed, for every number of processes that sweep, fail or die    *)
(* between the two databases, whatever the age and the throttle.           *)
THEOREM StampsAreTrue == Spec => []StampedMeansSwept
<1>1. IInv => StampedMeansSwept
  BY DEF IInv, StampInv, SweptUpTo, StampedMeansSwept
<1> QED BY <1>1, Invariance, PTL

(* record_filtered_command: as long as no two processes were between       *)
(* reading and writing the counter, the file is the true count.            *)
THEOREM CountsAreTrue == Spec => []CountIsTrue
<1>1. IInv => CountIsTrue
  BY DEF IInv, CountInv, CountIsTrue
<1> QED BY <1>1, Invariance, PTL

(* compute_hook_nudge: nudges of one repository that do not meet show the  *)
(* tip at most MAX_NEVER_BUILT_SHOWS times.                                *)
THEOREM TipsAreBounded == Spec => []SerialTipsAreBounded
<1>1. IInv => SerialTipsAreBounded
  BY DEF IInv, NudgeInv, SerialTipsAreBounded
<1> QED BY <1>1, Invariance, PTL

(* intel_cleanup._sweep: for space, the least recently touched go first.   *)
THEOREM OldestIsEvictedFirst == Spec => []OldestGoFirst
<1>1. IInv => OldestGoFirst
  BY DEF IInv
<1> QED BY <1>1, Invariance, PTL
=============================================================================
