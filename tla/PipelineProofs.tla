--------------------------- MODULE PipelineProofs ---------------------------
(***************************************************************************)
(* Theorems about Pipeline for every set of texts, every stage list and    *)
(* every stage behaviour, under the assumptions of PipelineContract, and   *)
(* about the pipelines of built-in stages (StagePipeline).                 *)
(*                                                                         *)
(* The argument for the early exit: until it is taken the run and the run  *)
(* without it hold the same mask (Lockstep); once it is taken the run's    *)
(* mask stands still, it is fully decided, and every stage the other run   *)
(* still goes through is one the contract binds, so that run's mask keeps  *)
(* the same decisions and the same visible texts (AfterExit).              *)
(*                                                                         *)
(* The second half is about Stages: the built-in stages keep the contract  *)
(* (DecidedLinesStand), they carry protected lines on, where they keep the *)
(* number of lines (Stands) and where they put the mask together from      *)
(* pieces (PiecesCarry), what max_tokens keeps fits its budget             *)
(* (GreedyFits), and what the folding stages write counts each line they   *)
(* fold once: the lines of one group are a class, and the sum over all     *)
(* lines is the sum over the classes' first ones (GroupsCountOnce).        *)
(***************************************************************************)
EXTENDS PipelineContract, StagePipeline, OperatorTheorems, TLAPS

(* Two masks no render can tell apart. *)
Same(m, n) ==
    /\ Len(m) = Len(n)
    /\ \A i \in DOMAIN m :
          /\ m[i].decision = n[i].decision
          /\ m[i].decision # "COMPRESS" => m[i].text = n[i].text

Typed ==
    /\ entries \in Pipelines
    /\ early_exit \in BOOLEAN
    /\ exited \in BOOLEAN
    /\ mask \in MaskSpace
    /\ full \in MaskSpace
    /\ pos \in 0 .. Len(entries)
    /\ fullPos \in 0 .. Len(entries)
    /\ results \in Seq(Results)

Lockstep == ~exited => mask = full /\ pos = fullPos

AfterExit ==
    exited =>
        /\ early_exit
        /\ pos = Len(entries)
        /\ FullyDecided(mask)
        /\ Same(mask, full)
        /\ \A i \in fullPos + 1 .. Len(entries) : Skippable(entries[i])

(* No result says "early" before the exit is taken. *)
NoEarlyBeforeExit ==
    ~exited => \A i \in DOMAIN results : results[i].outcome # "early"

IInv ==
    /\ Typed
    /\ Lockstep
    /\ AfterExit
    /\ ResultsMatchEntries
    /\ EarlyResultsAreASuffix
    /\ NoEarlyBeforeExit
-----------------------------------------------------------------------------
(* Masks are sequences of lines. *)
LEMMA MasksAreSequences ==
    ASSUME NEW m \in MaskSpace
    PROVE  /\ m \in Mask(Texts)
           /\ m \in Seq(Line(Texts))
           /\ Len(m) \in Nat
           /\ DOMAIN m = 1 .. Len(m)
           /\ \A i \in DOMAIN m : m[i] \in Line(Texts)
           /\ \A i \in DOMAIN m : m[i].decision \in Decisions
<1>1. m \in Seq(Line(Texts)) /\ m \in Mask(Texts)
  BY MasksAssumption DEF Mask
<1>2. /\ Len(m) \in Nat
      /\ DOMAIN m = 1 .. Len(m)
      /\ \A i \in DOMAIN m : m[i] \in Line(Texts)
  BY <1>1
<1>3. \A l \in Line(Texts) : l.decision \in Decisions
  BY DEF Line
<1> QED BY <1>1, <1>2, <1>3

(* An entry of a stage list is an entry. *)
LEMMA EntriesAreEntries ==
    ASSUME NEW s \in Pipelines, NEW i \in 1 .. Len(s)
    PROVE  s \in Seq(Entries) /\ s[i] \in Entries
BY EntriesAssumption

(* Masks that agree on decisions and visible texts render the same text.   *)
LEMMA SameRender ==
    ASSUME NEW m \in MaskSpace, NEW n \in MaskSpace, Same(m, n)
    PROVE  Render(m) = Render(n)
<1>1. DOMAIN m = DOMAIN n
  BY MasksAreSequences DEF Same
<1>2. Visible(m) = Visible(n)
  BY <1>1 DEF Visible, Decided, Same
<1>3. Shown(m) = Shown(n)
  BY <1>1, <1>2 DEF Shown, Same, Visible, Decided
<1> QED BY <1>3 DEF Render

(* What enforcement returns: the line count of the stage's mask, and,      *)
(* where that count is the old one, PROTECT wherever it was.               *)
LEMMA Enforced ==
    ASSUME NEW m \in MaskSpace, NEW n \in MaskSpace
    PROVE  /\ EnforceProtect(m, n) \in MaskSpace
           /\ Len(EnforceProtect(m, n)) = Len(n)
           /\ Len(m) = Len(n) =>
                \A i \in DOMAIN m :
                    EnforceProtect(m, n)[i] =
                        IF m[i].decision = "PROTECT"
                        THEN LineOf(n[i].text, "PROTECT")
                        ELSE n[i]
<1>1. EnforceProtect(m, n) \in MaskSpace
  BY MasksAssumption
<1>2. DOMAIN m = 1 .. Len(m) /\ DOMAIN n = 1 .. Len(n)
      /\ Len(m) \in Nat /\ Len(n) \in Nat
  BY MasksAreSequences
<1>3. CASE Len(m) # Len(n)
  BY <1>1, <1>3 DEF EnforceProtect
<1>4. CASE Len(m) = Len(n)
  <2>1. EnforceProtect(m, n) =
          [i \in 1 .. Len(n) |->
              IF m[i].decision = "PROTECT"
              THEN LineOf(n[i].text, "PROTECT")
              ELSE n[i]]
    BY <1>2, <1>4 DEF EnforceProtect
  <2>2. DOMAIN EnforceProtect(m, n) = 1 .. Len(EnforceProtect(m, n))
    BY <1>1, MasksAreSequences
  <2>3. Len(EnforceProtect(m, n)) = Len(n)
    BY <1>1, <1>2, <2>1, <2>2, MasksAreSequences
  <2> QED BY <1>1, <1>2, <1>4, <2>1, <2>3
<1> QED BY <1>3, <1>4

(* With an unchanged line count no PROTECT is lost.                        *)
LEMMA EnforcementHolds ==
    ASSUME NEW m \in MaskSpace, NEW n \in MaskSpace,
           Len(EnforceProtect(m, n)) = Len(m)
    PROVE  Decided(m, "PROTECT") \subseteq Decided(EnforceProtect(m, n), "PROTECT")
<1>1. Len(n) = Len(m)
  BY Enforced
<1>2. DOMAIN EnforceProtect(m, n) = DOMAIN m
  BY Enforced, MasksAreSequences
<1>3. ASSUME NEW i \in DOMAIN m, m[i].decision = "PROTECT"
      PROVE  EnforceProtect(m, n)[i].decision = "PROTECT"
  <2>1. EnforceProtect(m, n)[i] = LineOf(n[i].text, "PROTECT")
    BY <1>1, <1>3, Enforced
  <2> QED BY <2>1 DEF LineOf
<1> QED BY <1>2, <1>3 DEF Decided

(* A stage the contract binds keeps a fully decided mask the same, and     *)
(* so does enforcement after it.                                           *)
LEMMA ContractKeeps ==
    ASSUME NEW m \in MaskSpace, NEW n \in MaskSpace, Same(m, n), FullyDecided(m),
           NEW e \in Entries, Skippable(e), NEW new \in Outcomes(e, n)
    PROVE  EnforceProtect(n, new) \in MaskSpace /\ Same(m, EnforceProtect(n, new))
<1>1. new \in MaskSpace
  BY MasksAssumption
<1>2. DOMAIN m = DOMAIN n /\ DOMAIN n = 1 .. Len(n) /\ Len(n) = Len(m)
  BY MasksAreSequences DEF Same
<1>3. FullyDecided(n)
  BY <1>2 DEF FullyDecided, Decided, Same
<1>4. Keeps(n, new)
  BY <1>3, ContractAssumption DEF InertOnDecided
<1>5. \A i \in DOMAIN n : n[i].decision \in {"COMPRESS", "PROTECT"}
  BY <1>3, MasksAreSequences DEF FullyDecided, Decided, Decisions
<1>6. Len(n) = Len(new)
  BY <1>4 DEF Keeps
<1>7. /\ EnforceProtect(n, new) \in MaskSpace
      /\ Len(EnforceProtect(n, new)) = Len(n)
      /\ \A i \in DOMAIN n :
            EnforceProtect(n, new)[i] =
                IF n[i].decision = "PROTECT"
                THEN LineOf(new[i].text, "PROTECT")
                ELSE new[i]
  BY <1>1, <1>6, Enforced
<1>8. \A i \in DOMAIN n :
        IF n[i].decision = "COMPRESS"
        THEN new[i].decision = "COMPRESS"
        ELSE new[i].text = n[i].text
  BY <1>4 DEF Keeps
<1>9. ASSUME NEW i \in DOMAIN m
      PROVE  /\ m[i].decision = EnforceProtect(n, new)[i].decision
             /\ m[i].decision # "COMPRESS" =>
                    m[i].text = EnforceProtect(n, new)[i].text
  <2>1. /\ m[i].decision = n[i].decision
        /\ m[i].decision # "COMPRESS" => m[i].text = n[i].text
    BY DEF Same
  <2>2. CASE n[i].decision = "COMPRESS"
    BY <1>2, <1>7, <1>8, <2>1, <2>2
  <2>3. CASE n[i].decision = "PROTECT"
    <3>1. i \in DOMAIN n /\ n[i].decision # "COMPRESS"
      BY <1>2, <2>3
    <3>2. EnforceProtect(n, new)[i] = LineOf(new[i].text, "PROTECT")
      BY <1>7, <2>3, <3>1
    <3>3. new[i].text = n[i].text
      BY <1>8, <3>1
    <3> QED BY <2>1, <2>3, <3>1, <3>2, <3>3 DEF LineOf
  <2> QED BY <1>2, <1>5, <2>2, <2>3
<1> QED BY <1>2, <1>7, <1>9 DEF Same
-----------------------------------------------------------------------------
(* The one result a step adds is a result. *)
LEMMA ResultTyped ==
    ASSUME NEW e \in Entries, NEW m \in MaskSpace, NEW c \in Nat,
           NEW o \in {"applied", "skipped", "error", "early"}
    PROVE  Result(e, m, c, o) \in Results
BY MasksAreSequences DEF Result, Results

(* A count of newly hidden lines is a natural number. *)
LEMMA NewlyCompressedTyped ==
    ASSUME NEW m \in MaskSpace, NEW n \in MaskSpace
    PROVE  NewlyCompressed(m, n) \in Nat
<1>1. /\ IsFiniteSet(Decided(m, "COMPRESS"))
      /\ IsFiniteSet(Decided(n, "COMPRESS"))
  <2>1. /\ IsFiniteSet(1 .. Len(m)) /\ IsFiniteSet(1 .. Len(n))
        /\ DOMAIN m = 1 .. Len(m) /\ DOMAIN n = 1 .. Len(n)
    BY MasksAreSequences, FS_Interval
  <2>2. /\ Decided(m, "COMPRESS") \subseteq 1 .. Len(m)
        /\ Decided(n, "COMPRESS") \subseteq 1 .. Len(n)
    BY <2>1 DEF Decided
  <2> QED BY <2>1, <2>2, FS_Subset
<1>2. /\ Cardinality(Decided(m, "COMPRESS")) \in Nat
      /\ Cardinality(Decided(n, "COMPRESS")) \in Nat
  BY <1>1, FS_CardinalityType
<1> QED BY <1>2 DEF NewlyCompressed

(* The invariant holds initially. *)
LEMMA InitIInv == Init => IInv
<1> SUFFICES ASSUME Init PROVE IInv
  OBVIOUS
<1>1. mask \in MaskSpace /\ full = mask
  BY MasksAssumption DEF Init
<1>2. entries \in Seq(Entries)
  BY EntriesAssumption DEF Init
<1>3. Typed
  <2>1. Len(entries) \in Nat /\ 0 \in 0 .. Len(entries) /\ <<>> \in Seq(Results)
    BY <1>2
  <2> QED BY <1>1, <2>1 DEF Init, Typed
<1> QED BY <1>1, <1>2, <1>3 DEF Init, IInv, Lockstep, AfterExit,
          ResultsMatchEntries, EarlyResultsAreASuffix, NoEarlyBeforeExit

(* A stage the run deals with one by one.                                  *)
LEMMA AdvanceStep ==
    ASSUME IInv, Running, ~exited, NEW m \in MaskSpace, NEW c \in Nat,
           NEW o \in {"applied", "skipped", "error"}, o # "applied" => c = 0,
           Advance(m, c, o)
    PROVE  IInv'
<1>1. /\ entries \in Seq(Entries) /\ pos \in Nat /\ pos + 1 \in 1 .. Len(entries)
      /\ Current \in Entries
  BY EntriesAreEntries, EntriesAssumption DEF IInv, Typed, Running, Current
<1> DEFINE r == Result(Current, m, c, o)
<1>2. r \in Results
  BY <1>1, ResultTyped
<1>3. /\ results \in Seq(Results) /\ results' = Append(results, r)
      /\ Len(results) = pos
  BY DEF IInv, Typed, Advance, ResultsMatchEntries
<1>4. /\ results' \in Seq(Results) /\ Len(results') = pos + 1
      /\ DOMAIN results' = 1 .. pos + 1
      /\ results'[pos + 1] = r
      /\ \A i \in 1 .. pos : results'[i] = results[i]
  BY <1>1, <1>2, <1>3
<1>5. r.type = entries[pos + 1].type /\ r.outcome = o /\ r.lines_compressed = c
  BY DEF Result, Current
<1>6. Typed'
  BY <1>1, <1>4 DEF Advance, IInv, Typed, Lockstep
<1>7. Lockstep'
  BY DEF Advance, IInv, Lockstep
<1>8. AfterExit'
  BY DEF Advance, AfterExit
<1>9. ResultsMatchEntries'
  <2>1. ASSUME NEW i \in 1 .. pos + 1
        PROVE  /\ results'[i].type = entries[i].type
               /\ results'[i].outcome # "applied" => results'[i].lines_compressed = 0
    <3>1. CASE i = pos + 1
      BY <1>4, <1>5, <3>1
    <3>2. CASE i \in 1 .. pos
      BY <1>4, <3>2 DEF IInv, ResultsMatchEntries
    <3> QED BY <1>1, <3>1, <3>2
  <2> QED BY <1>4, <2>1 DEF Advance, ResultsMatchEntries
<1>10. \A i \in DOMAIN results' : results'[i].outcome # "early"
  <2>1. \A i \in 1 .. pos : results[i].outcome # "early"
    BY <1>3 DEF IInv, NoEarlyBeforeExit
  <2> QED BY <1>1, <1>4, <1>5, <2>1
<1> QED BY <1>6, <1>7, <1>8, <1>9, <1>10
      DEF IInv, EarlyResultsAreASuffix, NoEarlyBeforeExit

(* Nothing runs once the exit has been taken, so a stage that runs, runs   *)
(* before it.                                                              *)
LEMMA RunningMeansNotExited == IInv /\ Running => ~exited
BY EntriesAssumption DEF IInv, Typed, AfterExit, Running

(* What a concatenation holds, and where. *)
LEMMA Concatenated ==
    ASSUME NEW S, NEW s \in Seq(S), NEW t \in Seq(S)
    PROVE  /\ s \o t \in Seq(S)
           /\ Len(s \o t) = Len(s) + Len(t)
           /\ \A i \in 1 .. Len(s) : (s \o t)[i] = s[i]
           /\ \A i \in Len(s) + 1 .. Len(s \o t) : (s \o t)[i] = t[i - Len(s)]
OBVIOUS

(* Taking the exit: the rest of the list becomes skipped results. *)
LEMMA EarlyExitStep ==
    ASSUME IInv, EarlyExit
    PROVE  IInv'
<1>1. /\ entries \in Seq(Entries) /\ pos \in Nat /\ pos < Len(entries)
      /\ Len(entries) \in Nat /\ ~exited /\ early_exit
      /\ mask = full /\ pos = fullPos /\ mask \in MaskSpace
  BY EntriesAssumption, RunningMeansNotExited
  DEF IInv, Typed, Lockstep, EarlyExit, Running, CanExitEarly
<1> DEFINE tail == [k \in 1 .. Len(entries) - pos |->
                       Result(entries[pos + k], mask, 0, "early")]
<1>2. \A k \in 1 .. Len(entries) - pos : tail[k] \in Results
  <2>1. \A k \in 1 .. Len(entries) - pos : entries[pos + k] \in Entries
    BY <1>1
  <2> QED BY <1>1, <2>1, ResultTyped
<1>3. tail \in Seq(Results) /\ Len(tail) = Len(entries) - pos
  BY <1>1, <1>2
<1>4. results \in Seq(Results) /\ Len(results) = pos /\ results' = results \o tail
  BY DEF IInv, Typed, EarlyExit, ResultsMatchEntries
<1>5. /\ results' \in Seq(Results)
      /\ Len(results') = Len(entries)
      /\ DOMAIN results' = 1 .. Len(entries)
      /\ \A i \in 1 .. pos : results'[i] = results[i]
      /\ \A i \in pos + 1 .. Len(entries) : results'[i] = tail[i - pos]
  <2> HIDE DEF tail
  <2>1. /\ results' \in Seq(Results)
        /\ Len(results') = pos + (Len(entries) - pos)
        /\ \A i \in 1 .. pos : results'[i] = results[i]
        /\ \A i \in pos + 1 .. Len(results') : results'[i] = tail[i - pos]
    BY <1>3, <1>4, Concatenated, ZenonT(60)
  <2>2. pos + (Len(entries) - pos) = Len(entries)
    BY <1>1
  <2>3. DOMAIN results' = 1 .. Len(results')
    BY <2>1
  <2> QED BY <2>1, <2>2, <2>3
<1>6. \A i \in pos + 1 .. Len(entries) :
        results'[i] = Result(entries[i], mask, 0, "early")
  <2>1. ASSUME NEW i \in pos + 1 .. Len(entries)
        PROVE  tail[i - pos] = Result(entries[i], mask, 0, "early")
    <3>1. i - pos \in 1 .. Len(entries) - pos /\ pos + (i - pos) = i
      BY <1>1
    <3> QED BY <3>1
  <2> QED BY <1>5, <2>1
<1>7. \A i \in pos + 1 .. Len(entries) :
        /\ results'[i].type = entries[i].type
        /\ results'[i].outcome = "early"
        /\ results'[i].lines_compressed = 0
  <2>1. ASSUME NEW i \in pos + 1 .. Len(entries)
        PROVE  /\ results'[i].type = entries[i].type
               /\ results'[i].outcome = "early"
               /\ results'[i].lines_compressed = 0
    <3>1. results'[i] = Result(entries[i], mask, 0, "early")
      BY <1>6
    <3> QED BY <3>1 DEF Result
  <2> QED BY <2>1
<1>8. \A i \in 1 .. pos : results'[i].outcome # "early"
  <2>1. \A i \in 1 .. pos : results[i].outcome # "early"
    BY <1>1, <1>4, SMTT(30) DEF IInv, NoEarlyBeforeExit
  <2> QED BY <1>5, <2>1
<1>9. Typed'
  BY <1>1, <1>5 DEF EarlyExit, IInv, Typed
<1>10. Lockstep'
  BY DEF EarlyExit, Lockstep
<1>11. AfterExit'
  <2>1. FullyDecided(mask) /\ \A i \in pos + 1 .. Len(entries) : Skippable(entries[i])
    BY DEF EarlyExit, CanExitEarly, RestIsSkippable
  <2>2. Same(mask, full)
    BY <1>1 DEF Same
  <2> QED BY <1>1, <2>1, <2>2 DEF EarlyExit, AfterExit
<1>12. ResultsMatchEntries'
  <2>1. ASSUME NEW i \in 1 .. Len(entries)
        PROVE  /\ results'[i].type = entries[i].type
               /\ results'[i].outcome # "applied" => results'[i].lines_compressed = 0
    <3>1. CASE i \in 1 .. pos
      BY <1>5, <3>1 DEF IInv, ResultsMatchEntries
    <3>2. CASE i \in pos + 1 .. Len(entries)
      BY <1>7, <3>2
    <3> QED BY <1>1, <3>1, <3>2
  <2> QED BY <1>5, <2>1 DEF EarlyExit, ResultsMatchEntries
<1>13. EarlyResultsAreASuffix'
  <2>1. ASSUME NEW i \in 1 .. Len(entries), results'[i].outcome = "early",
               NEW j \in i .. Len(entries)
        PROVE  results'[j].outcome = "early" /\ Skippable(entries[j])
    <3>1. j \in pos + 1 .. Len(entries)
      BY <1>1, <1>8, <2>1
    <3> QED BY <1>7, <3>1 DEF EarlyExit, CanExitEarly, RestIsSkippable
  <2>2. entries' = entries /\ early_exit' = early_exit /\ Len(results') = Len(entries)
    BY <1>5 DEF EarlyExit
  <2> QED BY <1>1, <1>5, <2>1, <2>2 DEF EarlyResultsAreASuffix
<1> QED BY <1>9, <1>10, <1>11, <1>12, <1>13 DEF IInv, NoEarlyBeforeExit, EarlyExit

(* The other run goes through a stage the exit dropped. *)
LEMMA ShadowStep ==
    ASSUME IInv, ShadowStage
    PROVE  IInv'
<1>1. /\ entries \in Seq(Entries) /\ Len(entries) \in Nat
      /\ fullPos \in Nat /\ fullPos + 1 \in 1 .. Len(entries)
      /\ entries[fullPos + 1] \in Entries /\ exited
      /\ mask \in MaskSpace /\ full \in MaskSpace
      /\ Same(mask, full) /\ FullyDecided(mask)
      /\ Skippable(entries[fullPos + 1])
  BY EntriesAssumption DEF IInv, Typed, AfterExit, ShadowStage
<1>2. full' \in MaskSpace /\ Same(mask, full')
  <2>1. CASE full' = full
    BY <1>1, <2>1
  <2>2. CASE \E new \in Outcomes(entries[fullPos + 1], full) :
                full' = EnforceProtect(full, new)
    BY <1>1, <2>2, ContractKeeps
  <2> QED BY <2>1, <2>2 DEF ShadowStage
<1>3. Typed'
  BY <1>1, <1>2 DEF IInv, Typed, ShadowStage
<1>4. Lockstep'
  BY <1>1 DEF Lockstep, ShadowStage
<1>5. AfterExit'
  BY <1>1, <1>2 DEF IInv, AfterExit, ShadowStage
<1>6. /\ ResultsMatchEntries'
      /\ EarlyResultsAreASuffix'
      /\ NoEarlyBeforeExit'
  BY <1>1 DEF IInv, ResultsMatchEntries, EarlyResultsAreASuffix,
              NoEarlyBeforeExit, ShadowStage
<1> QED BY <1>3, <1>4, <1>5, <1>6 DEF IInv

(* The invariant is kept by every step. *)
LEMMA StepIInv == IInv /\ [Next]_vars => IInv'
<1> SUFFICES ASSUME IInv, [Next]_vars PROVE IInv'
  OBVIOUS
<1>1. CASE EarlyExit
  BY <1>1, EarlyExitStep
<1>2. CASE SkipStage
  BY <1>2, AdvanceStep, RunningMeansNotExited DEF SkipStage, IInv, Typed
<1>3. CASE ApplyStage
  <2>1. Running /\ ~exited /\ mask \in MaskSpace /\ Current \in Entries
    BY <1>3, RunningMeansNotExited, EntriesAssumption
    DEF ApplyStage, IInv, Typed, Running, Current
  <2>2. PICK new \in Outcomes(Current, mask) :
            Advance(EnforceProtect(mask, new),
                    NewlyCompressed(mask, EnforceProtect(mask, new)), "applied")
    BY <1>3 DEF ApplyStage
  <2>3. new \in MaskSpace
    BY <2>1, MasksAssumption
  <2>4. EnforceProtect(mask, new) \in MaskSpace
    BY <2>1, <2>3, MasksAssumption
  <2> QED BY <2>1, <2>2, <2>4, NewlyCompressedTyped, AdvanceStep
<1>4. CASE RaiseStage
  BY <1>4, AdvanceStep, RunningMeansNotExited DEF RaiseStage, IInv, Typed
<1>5. CASE ShadowStage
  BY <1>5, ShadowStep
<1>6. CASE UNCHANGED vars
  BY <1>6 DEF vars, IInv, Typed, Lockstep, AfterExit, ResultsMatchEntries,
              EarlyResultsAreASuffix, NoEarlyBeforeExit
<1> QED BY <1>1, <1>2, <1>3, <1>4, <1>5, <1>6 DEF Next

(* The invariant the theorems below are read off from. *)
THEOREM Invariance == Spec => []IInv
BY InitIInv, StepIInv, PTL DEF Spec
-----------------------------------------------------------------------------
(* The state has its types. *)
THEOREM TypeCorrect == Spec => []TypeOK
<1>1. IInv => TypeOK
  BY MasksAssumption DEF IInv, Typed, TypeOK
<1> QED BY <1>1, Invariance, PTL

(* The early exit of Pipeline.execute never changes what is rendered,      *)
(* for every stage list whose inert entries meet the contract.             *)
THEOREM EarlyExitInvisible == Spec => []EarlyExitIsInvisible
<1>1. IInv => EarlyExitIsInvisible
  <2> SUFFICES ASSUME IInv PROVE EarlyExitIsInvisible
    OBVIOUS
  <2>1. CASE exited
    BY <2>1, SameRender DEF IInv, Typed, AfterExit, EarlyExitIsInvisible
  <2>2. CASE ~exited
    BY <2>2 DEF IInv, Lockstep, EarlyExitIsInvisible
  <2> QED BY <2>1, <2>2
<1> QED BY <1>1, Invariance, PTL

(* One result per entry, in order, and early exits only at the end.        *)
THEOREM ResultsInOrder ==
    Spec => [](ResultsMatchEntries /\ EarlyResultsAreASuffix)
<1>1. IInv => ResultsMatchEntries /\ EarlyResultsAreASuffix
  BY DEF IInv
<1> QED BY <1>1, Invariance, PTL

(* No stage, however it behaves, takes PROTECT off a line of a mask whose  *)
(* line count it leaves alone.                                             *)
THEOREM ProtectStands == Spec => ProtectNeverDowngraded
<1> DEFINE Held(m, n) ==
        Len(n) = Len(m) => Decided(m, "PROTECT") \subseteq Decided(n, "PROTECT")
<1>1. IInv /\ [Next]_vars => [Held(mask, mask') /\ Held(full, full')]_vars
  <2> SUFFICES ASSUME IInv, Next PROVE Held(mask, mask') /\ Held(full, full')
    OBVIOUS
  <2>1. mask \in MaskSpace /\ full \in MaskSpace
    BY DEF IInv, Typed
  <2>2. \A e \in Entries : \A new \in Outcomes(e, mask) :
            Held(mask, EnforceProtect(mask, new))
    BY <2>1, EnforcementHolds, MasksAssumption
  <2>3. \A e \in Entries : \A new \in Outcomes(e, full) :
            Held(full, EnforceProtect(full, new))
    BY <2>1, EnforcementHolds, MasksAssumption
  <2>4. CASE EarlyExit
    BY <2>4 DEF EarlyExit
  <2>5. CASE SkipStage \/ RaiseStage
    BY <2>5, RunningMeansNotExited DEF SkipStage, RaiseStage, Advance, IInv, Lockstep
  <2>6. CASE ApplyStage
    <3>1. Current \in Entries /\ mask = full
      BY <2>6, EntriesAssumption, RunningMeansNotExited
      DEF ApplyStage, IInv, Typed, Lockstep, Running, Current
    <3> QED BY <2>2, <2>6, <3>1 DEF ApplyStage, Advance
  <2>7. CASE ShadowStage
    <3>1. entries[fullPos + 1] \in Entries
      BY <2>7, EntriesAssumption DEF ShadowStage, IInv, Typed
    <3> QED BY <2>3, <2>7, <3>1 DEF ShadowStage
  <2> QED BY <2>4, <2>5, <2>6, <2>7 DEF Next
<1>2. [Held(mask, mask') /\ Held(full, full')]_vars =>
        [/\ Len(mask') = Len(mask) =>
               Decided(mask, "PROTECT") \subseteq Decided(mask', "PROTECT")
         /\ Len(full') = Len(full) =>
               Decided(full, "PROTECT") \subseteq Decided(full', "PROTECT")]_vars
  OBVIOUS
<1> QED BY <1>1, <1>2, Invariance, PTL DEF Spec, ProtectNeverDowngraded
-----------------------------------------------------------------------------
(* One pass of group_repeated, for one pattern.                            *)
Pass(e, pattern, l) ==
    LET piece(i) == GroupedPiece(l, e, Group(l, e, pattern, i), i)
    IN  Pieces(l, piece)

(* The masks group_repeated goes through, one pattern after the other.     *)
InTurn(at, m, e, n) ==
    /\ at[0] = Preserve(m, e.preserve)
    /\ \A k \in 1 .. n : at[k] = Pass(e, e.patterns[k], at[k - 1])
    /\ GroupRepeated(m, e) = at[n]

(* There are such masks, where a pass makes a mask of a mask.              *)
LEMMA GroupFoldInTurn ==
    ASSUME NEW m, NEW e, NEW R, NEW n \in Nat, DOMAIN e.patterns = 1 .. n, e.patterns # <<>>,
           Preserve(m, e.preserve) \in R,
           \A l \in R, k \in 1 .. n : Pass(e, e.patterns[k], l) \in R
    PROVE  \E at : InTurn(at, m, e, n)
<1> DEFINE S == DOMAIN e.patterns
           base == Preserve(m, e.preserve)
           step == [k \in S |-> [l \in R |-> Pass(e, e.patterns[k], l)]]
           pick == [s \in SUBSET S |-> Max(s)]
           Runs(g) == g = [s \in SUBSET S |->
                             IF s = {} THEN base
                             ELSE Pass(e, e.patterns[Max(s)], g[s \ {Max(s)}])]
           it == CHOOSE g : Runs(g)
<1>1. IsFiniteSet(S)
  BY FS_Interval
<1>2. \A s \in SUBSET S : s # {} => Max(s) \in s
  BY MaxIsAmongThem
<1>3. Picks(pick, S)
  BY <1>2 DEF Picks
<1>4. step \in [S -> [R -> R]]
  OBVIOUS
<1>5. PICK g : Folds(g, step, base, pick, SUBSET S)
  <2> HIDE DEF step, pick, S
  <2> QED BY <1>1, <1>3, FolderExists
<1>6. \A s \in SUBSET S : g[s] \in R
  <2> HIDE DEF step, pick, S, base
  <2> QED BY <1>1, <1>3, <1>4, <1>5, FoldStays DEF base
<1>7. Runs(g)
  <2>1. \A s \in SUBSET S :
          g[s] = IF s = {} THEN base ELSE step[pick[s]][g[s \ {pick[s]}]]
    BY <1>5 DEF Folds
  <2>2. \A s \in SUBSET S : s # {} => Max(s) \in S /\ g[s \ {Max(s)}] \in R
    BY <1>2, <1>6
  <2>3. \A s \in SUBSET S :
          g[s] = IF s = {} THEN base ELSE Pass(e, e.patterns[Max(s)], g[s \ {Max(s)}])
    BY <2>1, <2>2
  <2>4. g = [s \in SUBSET S |-> g[s]]
    BY <1>5 DEF Folds
  <2> QED BY <2>3, <2>4
<1>8. Runs(it)
  BY <1>7
<1>9. GroupRepeated(m, e) = it[S]
  BY DEF GroupRepeated, FoldLeft, MapThenFoldSet, Pass
<1> HIDE DEF it
<1>10. \A s \in SUBSET S :
          it[s] = IF s = {} THEN base ELSE Pass(e, e.patterns[Max(s)], it[s \ {Max(s)}])
  BY <1>8
<1> DEFINE at == [k \in 0 .. n |-> it[1 .. k]]
<1>11. at[0] = base
  <2>1. at[0] = it[{}]
    OBVIOUS
  <2> QED BY <1>10, <2>1
<1>12. ASSUME NEW k \in 1 .. n PROVE at[k] = Pass(e, e.patterns[k], at[k - 1])
  <2> DEFINE s == 1 .. k
  <2>1. s \in SUBSET (1 .. n) /\ k \in s /\ s # {} /\ k \in 0 .. n /\ k - 1 \in 0 .. n
    <3>1. k \in Nat /\ 1 <= k /\ k <= n /\ k \in s /\ k \in 0 .. n /\ k - 1 \in 0 .. n
      OBVIOUS
    <3>2. \A x \in s : x \in 1 .. n
      BY <3>1
    <3> QED BY <3>1, <3>2
  <2>4. s \ {k} = 1 .. k - 1
    OBVIOUS
  <2>2. Max(s) = k
    <3>1. Max(s) \in s /\ \A x \in s : x <= Max(s)
      <4> HIDE DEF s
      <4> QED BY <2>1, MaxIsAmongThem
    <3>2. k <= Max(s) /\ Max(s) \in 1 .. k
      BY <2>1, <3>1
    <3> HIDE DEF s
    <3> QED BY <3>2
  <2>3. at[k] = it[s] /\ at[k - 1] = it[1 .. k - 1]
    BY <2>1
  <2>5. s \in SUBSET S
    BY <2>1 DEF S
  <2> HIDE DEF s, at
  <2>6. it[s] = Pass(e, e.patterns[Max(s)], it[s \ {Max(s)}])
    BY <1>10, <2>1, <2>5
  <2> QED BY <2>2, <2>3, <2>4, <2>6
<1>13. at[n] = it[S]
  BY DEF S
<1> HIDE DEF at
<1>14. InTurn(at, m, e, n)
  BY <1>9, <1>11, <1>12, <1>13 DEF InTurn
<1> QED BY <1>14

(* What every pass keeps is true of the stage.                             *)
LEMMA GroupFold ==
    ASSUME NEW m, NEW e, NEW R, NEW n \in Nat, DOMAIN e.patterns = 1 .. n,
           m \in R, Preserve(m, e.preserve) \in R,
           \A l \in R, k \in 1 .. n : Pass(e, e.patterns[k], l) \in R
    PROVE  GroupRepeated(m, e) \in R
<1>1. CASE e.patterns = <<>>
  BY <1>1 DEF GroupRepeated
<1>2. CASE e.patterns # <<>>
  <2>0. PICK at : InTurn(at, m, e, n)
    BY <1>2, GroupFoldInTurn
  <2>1. /\ at[0] = Preserve(m, e.preserve)
        /\ \A k \in 1 .. n : at[k] = Pass(e, e.patterns[k], at[k - 1])
        /\ GroupRepeated(m, e) = at[n]
    BY <2>0 DEF InTurn
  <2> DEFINE Good == {k \in 0 .. n : at[k] \in R}
  <2>2. 0 \in Good
    BY <2>1
  <2>3. ASSUME NEW k \in 0 .. n - 1, k \in Good PROVE k + 1 \in Good
    <3>1. k + 1 \in 1 .. n /\ k + 1 \in 0 .. n /\ (k + 1) - 1 = k
      OBVIOUS
    <3> QED BY <2>1, <2>3, <3>1
  <2>4. \A k \in 0 .. n : k \in Good
    <3> HIDE DEF Good
    <3> QED BY <2>2, <2>3, UpTo
  <2>5. n \in 0 .. n
    OBVIOUS
  <2> QED BY <2>1, <2>4, <2>5
<1> QED BY <1>1, <1>2
-----------------------------------------------------------------------------
(* A sequence cut into single lines is put together again.                 *)
LEMMA FlattenSingles ==
    ASSUME NEW S, NEW m \in Seq(S), NEW ss, ss = [i \in DOMAIN m |-> <<m[i]>>]
    PROVE  FlattenSeq(ss) = m
<1>1. /\ Len(m) \in Nat /\ DOMAIN m = 1 .. Len(m) /\ \A i \in 1 .. Len(m) : m[i] \in S
  OBVIOUS
<1>2. ss \in Seq(Seq(S)) /\ Len(ss) = Len(m) /\ \A i \in 1 .. Len(m) : Len(ss[i]) = 1 /\ ss[i][1] = m[i]
  BY <1>1
<1>3. PICK at : Places(at, ss, FlattenSeq(ss))
  BY <1>2, FlattenPlaces
<1> DEFINE Good == {i \in 0 .. Len(m) : at[i] = i}
<1>4. 0 \in Good
  BY <1>1, <1>3 DEF Places
<1>5. ASSUME NEW k \in 0 .. Len(m) - 1, k \in Good PROVE k + 1 \in Good
  <2>1. k + 1 \in 1 .. Len(m) /\ k + 1 \in 0 .. Len(m) /\ (k + 1) - 1 = k
    BY <1>1
  <2>2. at[k + 1] = at[(k + 1) - 1] + Len(ss[k + 1]) /\ Len(ss[k + 1]) = 1
    BY <1>2, <1>3, <2>1 DEF Places
  <2> QED BY <1>5, <2>1, <2>2
<1>6. \A i \in 0 .. Len(m) : i \in Good
  <2> HIDE DEF Good
  <2> QED BY <1>1, <1>4, <1>5, UpTo
<1>7. \A i \in 0 .. Len(m) : at[i] = i
  BY <1>6
<1>8. FlattenSeq(ss) \in Seq(S) /\ Len(FlattenSeq(ss)) = Len(m)
  <2>1. Len(m) \in 0 .. Len(m)
    BY <1>1
  <2> QED BY <1>2, <1>3, <1>7, <2>1, FlattenPlaces DEF Places
<1>9. \A i \in 1 .. Len(m) : FlattenSeq(ss)[i] = m[i]
  <2> TAKE i \in 1 .. Len(m)
  <2>1. i - 1 \in 0 .. Len(m) /\ (i - 1) + 1 = i
    BY <1>1
  <2>2. 1 \in 1 .. Len(ss[i])
    BY <1>2
  <2>3. \A j \in 1 .. Len(ss) : \A k \in 1 .. Len(ss[j]) :
           FlattenSeq(ss)[at[j - 1] + k] = ss[j][k]
    BY <1>3, ZenonT(60) DEF Places
  <2>4. FlattenSeq(ss)[at[i - 1] + 1] = ss[i][1]
    <3>1. i \in 1 .. Len(ss)
      BY <1>2
    <3>2. \A k \in 1 .. Len(ss[i]) : FlattenSeq(ss)[at[i - 1] + k] = ss[i][k]
      BY <2>3, <3>1, Zenon
    <3> QED BY <2>2, <3>2, Zenon
  <2> QED BY <1>2, <1>7, <2>1, <2>4
<1> DEFINE flat == FlattenSeq(ss)
<1>10. flat \in Seq(S) /\ Len(flat) = Len(m) /\ \A i \in 1 .. Len(m) : flat[i] = m[i]
  BY <1>8, <1>9
<1> HIDE DEF flat
<1>11. flat = m
  BY <1>10, SeqEqual
<1> QED BY <1>11 DEF flat

(* What is decided is not KEEP, and a line is its text and its decision.   *)
LEMMA DecidedLines ==
    ASSUME NEW T, NEW m \in Mask(T)
    PROVE  /\ m \in Seq(Line(T)) /\ Len(m) \in Nat /\ DOMAIN m = 1 .. Len(m)
           /\ m = [i \in DOMAIN m |-> m[i]]
           /\ \A i \in DOMAIN m : /\ m[i] \in Line(T) /\ m[i].decision \in Decisions
                                  /\ m[i] = LineOf(m[i].text, m[i].decision)
           /\ FullyDecided(m) => \A i \in DOMAIN m : ~Is(m, i, "KEEP")
<1>1. m \in Seq(Line(T))
  BY DEF Mask
<1>2. /\ Len(m) \in Nat /\ DOMAIN m = 1 .. Len(m) /\ m = [i \in DOMAIN m |-> m[i]]
      /\ \A i \in DOMAIN m : m[i] \in Line(T)
  BY <1>1
<1>3. \A l \in Line(T) : l.decision \in Decisions /\ l = LineOf(l.text, l.decision)
  BY DEF Line, LineOf
<1>4. FullyDecided(m) => \A i \in DOMAIN m : ~Is(m, i, "KEEP")
  BY DEF FullyDecided, Decided, Is
<1> QED BY <1>1, <1>2, <1>3, <1>4

(* With nothing left to decide, and no preserve_patterns, the stages of    *)
(* _STAGE_TYPES_INERT_ON_DECIDED_LINES leave the mask as it is.            *)
THEOREM DecidedLinesStand ==
    ASSUME NEW T, NEW m \in Mask(T), FullyDecided(m), NEW e, Skippable(e),
           e.type = "remove_ansi" => e.strip_inline = FALSE,
           NEW n \in Nat, e.type = "group_repeated" => DOMAIN e.patterns = 1 .. n
    PROVE  StageApply(e, m) = m
<1>1. /\ m \in Seq(Line(T)) /\ Len(m) \in Nat /\ DOMAIN m = 1 .. Len(m)
      /\ m = [i \in DOMAIN m |-> m[i]]
      /\ \A i \in DOMAIN m : /\ m[i].decision \in Decisions /\ m[i] = LineOf(m[i].text, m[i].decision)
                             /\ ~Is(m, i, "KEEP")
  BY DecidedLines
<1>2. e.type \in InertTypes /\ e.preserve = {}
  BY DEF Skippable
<1>3. Preserve(m, {}) = m /\ PreserveKept(m, {}) = m
  BY <1>1 DEF Preserve, PreserveKept, MatchesAny
<1>5. CASE e.type = "remove_ansi"
  <2>1. \A i \in DOMAIN m : AnsiLine(m[i], FALSE) = m[i]
    BY <1>1 DEF AnsiLine, Hide, Decisions, Is
  <2>2. RemoveAnsi(m, e) = [i \in DOMAIN m |-> AnsiLine(m[i], FALSE)]
    BY <1>2, <1>3, <1>5 DEF RemoveAnsi
  <2>3. StageApply(e, m) = RemoveAnsi(m, e)
    BY <1>5 DEF StageApply
  <2> QED BY <1>1, <2>1, <2>2, <2>3
<1>6. CASE e.type = "strip_lines"
  <2>1. StripLines(m, e) = [i \in DOMAIN m |-> m[i]]
    BY <1>1, <1>2, <1>3 DEF StripLines
  <2>2. StageApply(e, m) = StripLines(m, e)
    BY <1>6 DEF StageApply
  <2> QED BY <1>1, <2>1, <2>2
<1>7. CASE e.type = "deduplicate_consecutive"
  <2>1. \A i \in DOMAIN m : ~Repeats(m, i)
    BY <1>1 DEF Repeats
  <2>2. Deduplicate(m, e) = [i \in DOMAIN m |-> m[i]]
    BY <1>1, <1>2, <1>3, <2>1 DEF Deduplicate
  <2>3. StageApply(e, m) = Deduplicate(m, e)
    BY <1>7 DEF StageApply
  <2> QED BY <1>1, <2>2, <2>3
<1>8. CASE e.type = "group_repeated"
  <2>1. ASSUME NEW pattern PROVE Pass(e, pattern, m) = m
    <3>1. \A i \in DOMAIN m : GroupedPiece(m, e, Group(m, e, pattern, i), i) = <<m[i]>>
      BY <1>1 DEF GroupedPiece
    <3>2. Pass(e, pattern, m) =
            FlattenSeq([i \in DOMAIN m |-> GroupedPiece(m, e, Group(m, e, pattern, i), i)])
      BY DEF Pass, Pieces
    <3>3. [i \in DOMAIN m |-> GroupedPiece(m, e, Group(m, e, pattern, i), i)] =
            [i \in DOMAIN m |-> <<m[i]>>]
      BY <3>1
    <3> QED BY <1>1, <3>2, <3>3, FlattenSingles
  <2>2. GroupRepeated(m, e) \in {m}
    <3> DEFINE R == {m}
    <3>1. DOMAIN e.patterns = 1 .. n
      BY <1>8
    <3>2. m \in R /\ Preserve(m, e.preserve) \in R
      BY <1>2, <1>3
    <3>3. \A l \in R, k \in 1 .. n : Pass(e, e.patterns[k], l) \in R
      BY <2>1
    <3> HIDE DEF R
    <3>4. GroupRepeated(m, e) \in R
      BY <3>1, <3>2, <3>3, GroupFold
    <3> QED BY <3>4 DEF R
  <2>3. StageApply(e, m) = GroupRepeated(m, e)
    BY <1>8 DEF StageApply
  <2> QED BY <2>2, <2>3
<1>9. CASE e.type = "max_tokens"
  <2>1. [i \in DOMAIN m |->
                IF Is(m, i, "KEEP") /\ i \notin KeptIndices(m, e)
                THEN Hide(m[i])
                ELSE m[i]] = m
    BY <1>1
  <2>2. MaxTokens(m, e) = m
    BY <1>2, <1>3, <2>1 DEF MaxTokens
  <2>3. StageApply(e, m) = MaxTokens(m, e)
    BY <1>9 DEF StageApply
  <2> QED BY <2>2, <2>3
<1>10. CASE e.type = "truncate_lines"
  <2>1. TruncateLines(m, e) = [i \in DOMAIN m |-> m[i]]
    BY <1>1, <1>2, <1>3 DEF TruncateLines, OnKept
  <2>2. StageApply(e, m) = TruncateLines(m, e)
    BY <1>10 DEF StageApply
  <2> QED BY <1>1, <2>1, <2>2
<1>11. CASE e.type = "regex_replace"
  <2>1. RegexReplace(m, e) \in {m, [i \in DOMAIN m |-> m[i]]}
    BY <1>1, <1>2, <1>3 DEF RegexReplace, OnKept
  <2>2. StageApply(e, m) = RegexReplace(m, e)
    BY <1>11 DEF StageApply
  <2> QED BY <1>1, <2>1, <2>2
<1>12. CASE e.type \in {"python_ast_summarize", "code_ast_summarize"}
  <2>1. AstSummarize(m, e) \in {m, [i \in DOMAIN m |-> m[i]]}
    BY <1>1, <1>2, <1>3 DEF AstSummarize
  <2>2. StageApply(e, m) = AstSummarize(m, e)
    BY <1>12 DEF StageApply
  <2> QED BY <1>1, <2>1, <2>2
<1> QED BY <1>2, <1>5, <1>6, <1>7, <1>8, <1>9, <1>10, <1>11, <1>12 DEF InertTypes
-----------------------------------------------------------------------------
(* Lines that keep their place.                                            *)
LEMMA CarriedInPlace ==
    ASSUME NEW m, NEW n, DOMAIN m \in SUBSET Int, DOMAIN n = DOMAIN m,
           \A i \in DOMAIN m : Is(m, i, "PROTECT") =>
                n[i].decision = "PROTECT" /\ n[i].text = m[i].text
    PROVE  Carries(m, n)
<1> DEFINE place == [i \in Decided(m, "PROTECT") |-> i]
<1>1. place \in [Decided(m, "PROTECT") -> Decided(n, "PROTECT")]
  BY DEF Decided, Is
<1>2. /\ \A i \in Decided(m, "PROTECT") : n[place[i]].text = m[i].text
      /\ \A i, j \in Decided(m, "PROTECT") : i < j => place[i] < place[j]
  BY DEF Decided, Is
<1> QED BY <1>1, <1>2 DEF Carries

(* What is carried twice is carried.                                       *)
LEMMA CarriedOn ==
    ASSUME NEW l, NEW m, NEW n, Carries(l, m), Carries(m, n)
    PROVE  Carries(l, n)
<1>1. PICK a \in [Decided(l, "PROTECT") -> Decided(m, "PROTECT")] :
        /\ \A i \in Decided(l, "PROTECT") : m[a[i]].text = l[i].text
        /\ \A i, j \in Decided(l, "PROTECT") : i < j => a[i] < a[j]
  BY DEF Carries
<1>2. PICK b \in [Decided(m, "PROTECT") -> Decided(n, "PROTECT")] :
        /\ \A i \in Decided(m, "PROTECT") : n[b[i]].text = m[i].text
        /\ \A i, j \in Decided(m, "PROTECT") : i < j => b[i] < b[j]
  BY DEF Carries
<1> DEFINE place == [i \in Decided(l, "PROTECT") |-> b[a[i]]]
<1>3. /\ place \in [Decided(l, "PROTECT") -> Decided(n, "PROTECT")]
      /\ \A i \in Decided(l, "PROTECT") : n[place[i]].text = l[i].text
      /\ \A i, j \in Decided(l, "PROTECT") : i < j => place[i] < place[j]
  BY <1>1, <1>2
<1> QED BY <1>3 DEF Carries

(* A mask made of pieces carries the lines that are pieces of their own.   *)
LEMMA PiecesCarry ==
    ASSUME NEW S, NEW m, NEW ss \in Seq(Seq(S)), DOMAIN m = 1 .. Len(ss),
           \A i \in Decided(m, "PROTECT") : ss[i] = <<m[i]>>
    PROVE  FlattenSeq(ss) \in Seq(S) /\ Carries(m, FlattenSeq(ss))
<1> DEFINE flat == FlattenSeq(ss)
<1>1. flat \in Seq(S) /\ \E at : Places(at, ss, flat)
  BY FlattenPlaces
<1> HIDE DEF flat
<1>2. PICK at : Places(at, ss, flat)
  BY <1>1
<1>3. Len(ss) \in Nat /\ Len(flat) \in Nat /\ DOMAIN flat = 1 .. Len(flat)
  BY <1>1
<1> DEFINE place == [i \in Decided(m, "PROTECT") |-> at[i - 1] + 1]
<1>4. ASSUME NEW i \in Decided(m, "PROTECT")
      PROVE  /\ i \in 1 .. Len(ss) /\ i - 1 \in 0 .. Len(ss) /\ i \in 0 .. Len(ss)
             /\ place[i] \in Decided(flat, "PROTECT") /\ flat[place[i]].text = m[i].text
             /\ place[i] = at[i] /\ at[i - 1] \in Nat
  <2>1. i \in 1 .. Len(ss) /\ i - 1 \in 0 .. Len(ss) /\ i \in 0 .. Len(ss) /\ m[i].decision = "PROTECT"
    BY <1>3 DEF Decided
  <2>2. Len(ss[i]) = 1 /\ ss[i][1] = m[i] /\ 1 \in 1 .. Len(ss[i])
    <3>1. ss[i] = <<m[i]>>
      OBVIOUS
    <3> QED BY <3>1
  <2>3. \A k \in 1 .. Len(ss[i]) : at[i - 1] + k \in 1 .. Len(flat) /\ flat[at[i - 1] + k] = ss[i][k]
    BY <1>2, <2>1, Zenon DEF Places
  <2>4. at[i - 1] + 1 \in 1 .. Len(flat) /\ flat[at[i - 1] + 1] = m[i]
    BY <2>2, <2>3, Zenon
  <2>5. at[i] = at[i - 1] + Len(ss[i]) /\ at[i - 1] \in Nat
    BY <1>2, <2>1 DEF Places
  <2> QED BY <1>3, <2>1, <2>2, <2>4, <2>5 DEF Decided
<1>5. ASSUME NEW i \in Decided(m, "PROTECT"), NEW j \in Decided(m, "PROTECT"), i < j
      PROVE  place[i] < place[j]
  <2>1. /\ i \in 1 .. Len(ss) /\ j \in 1 .. Len(ss) /\ i \in 0 .. Len(ss) /\ j - 1 \in 0 .. Len(ss)
        /\ place[i] = at[i] /\ place[j] = at[j - 1] + 1 /\ at[j - 1] \in Nat
    BY <1>4
  <2>2. i <= j - 1
    BY <1>3, <1>5, <2>1
  <2>3. at[i] <= at[j - 1] /\ at[i] \in Nat
    BY <1>2, <2>1, <2>2 DEF Places
  <2> QED BY <2>1, <2>3
<1>6. place \in [Decided(m, "PROTECT") -> Decided(flat, "PROTECT")]
  BY <1>4
<1>7. Carries(m, flat)
  <2>1. \A i \in Decided(m, "PROTECT") : flat[place[i]].text = m[i].text
    BY <1>4
  <2> HIDE DEF place
  <2> QED BY <1>5, <1>6, <2>1 DEF Carries
<1> QED BY <1>1, <1>7 DEF flat

(* Enforcement keeps what the stage carried.                               *)
LEMMA EnforcedCarries ==
    ASSUME NEW S, NEW m \in Seq(S), NEW n \in Seq(S), Carries(m, n)
    PROVE  Carries(m, EnforceProtect(m, n))
<1> DEFINE new == EnforceProtect(m, n)
<1>1. CASE Len(m) # Len(n)
  BY <1>1 DEF EnforceProtect
<1>2. CASE Len(m) = Len(n)
  <2>1. DOMAIN m = DOMAIN n /\ DOMAIN n \in SUBSET Int
    BY <1>2
  <2>2. new = [i \in DOMAIN n |-> IF m[i].decision = "PROTECT"
                                  THEN LineOf(n[i].text, "PROTECT") ELSE n[i]]
    BY <1>2 DEF EnforceProtect
  <2>3. Carries(n, new)
    <3> HIDE DEF new
    <3>1. DOMAIN new = DOMAIN n
      BY <2>2
    <3>2. \A i \in DOMAIN n : Is(n, i, "PROTECT") =>
                new[i].decision = "PROTECT" /\ new[i].text = n[i].text
      BY <2>2 DEF Is, LineOf
    <3> QED BY <2>1, <3>1, <3>2, CarriedInPlace
  <2> QED BY <2>3, CarriedOn
<1> QED BY <1>1, <1>2
-----------------------------------------------------------------------------
(* n has the lines of m, the protected ones as they were.                  *)
Stands(m, n) ==
    /\ DOMAIN n = DOMAIN m
    /\ \A i \in DOMAIN m : Is(m, i, "PROTECT") => Is(n, i, "PROTECT") /\ n[i].text = m[i].text

(* Lines that preserve_patterns protects stand with the others.            *)
LEMMA PreserveStands ==
    ASSUME NEW m, NEW patterns
    PROVE  Stands(m, Preserve(m, patterns)) /\ Stands(m, PreserveKept(m, patterns))
BY DEF Stands, Preserve, PreserveKept, LineOf, Is

(* The stages that treat each line on its own.                             *)
LEMMA LineStagesStand ==
    ASSUME NEW m, NEW e
    PROVE  /\ Stands(m, RemoveAnsi(m, e))
           /\ Stands(m, StripLines(m, e))
           /\ Stands(m, Deduplicate(m, e))
           /\ Stands(m, MaxTokens(m, e))
           /\ Stands(m, TruncateLines(m, e))
           /\ Stands(m, RegexReplace(m, e))
           /\ Stands(m, ColumnPadding(m, e))
           /\ Stands(m, MatchOutput(m, e))
           /\ Stands(m, ProtectHeaders(m))
<1> DEFINE p == Preserve(m, e.preserve)
           q == PreserveKept(m, e.preserve)
<1>1. Stands(m, p) /\ Stands(m, q)
  BY PreserveStands
<1>2. Stands(m, m)
  BY DEF Stands
<1>3. \A x : Stands(p, x) => Stands(m, x)
  BY <1>1 DEF Stands
<1>4. \A x : Stands(q, x) => Stands(m, x)
  BY <1>1 DEF Stands
<1>5. Stands(p, RemoveAnsi(m, e))
  <2>1. RemoveAnsi(m, e) = [i \in DOMAIN p |-> AnsiLine(p[i], e.strip_inline)]
    BY DEF RemoveAnsi
  <2>2. \A i \in DOMAIN p : Is(p, i, "PROTECT") => AnsiLine(p[i], e.strip_inline) = p[i]
    BY DEF AnsiLine, Is
  <2> HIDE DEF p
  <2> QED BY <2>1, <2>2 DEF Stands, Is
<1>6. Stands(q, StripLines(m, e))
  <2>1. StripLines(m, e) = [i \in DOMAIN q |-> IF Is(q, i, "KEEP") /\ MatchesAny(q[i].text, e.patterns)
                                                THEN Hide(q[i]) ELSE q[i]]
    BY DEF StripLines
  <2> HIDE DEF q
  <2> QED BY <2>1 DEF Stands, Is
<1>7. Stands(q, Deduplicate(m, e))
  <2> DEFINE count(i) == Cardinality({j \in Visible(q) : Anchor(q, j) = i})
  <2>1. Deduplicate(m, e) = [i \in DOMAIN q |->
            IF Repeats(q, i) THEN Hide(q[i])
            ELSE IF e.show_count /\ Is(q, i, "KEEP") /\ count(i) > 1
            THEN Rewrite(WithNote(q[i].text, "times", count(i)))
            ELSE q[i]]
    BY DEF Deduplicate
  <2>2. \A i \in DOMAIN q : Repeats(q, i) => Is(q, i, "KEEP")
    BY DEF Repeats
  <2> HIDE DEF q, count
  <2> QED BY <2>1, <2>2 DEF Stands, Is
<1>8. Stands(p, MaxTokens(m, e))
  <2>1. \/ MaxTokens(m, e) = p
        \/ MaxTokens(m, e) = [i \in DOMAIN p |-> IF Is(p, i, "KEEP") /\ i \notin KeptIndices(p, e)
                                                  THEN Hide(p[i]) ELSE p[i]]
    BY DEF MaxTokens
  <2> HIDE DEF p
  <2> QED BY <2>1 DEF Stands, Is
<1>9. ASSUME NEW n, NEW g, n = [i \in DOMAIN q |-> IF Is(q, i, "KEEP") THEN g[i] ELSE q[i]]
      PROVE  Stands(q, n)
  BY <1>9 DEF Stands, Is
<1>10. Stands(q, TruncateLines(m, e))
  <2> DEFINE g == [i \in DOMAIN q |-> Rewrite(Truncated(q[i].text, e.max_length))]
  <2>1. TruncateLines(m, e) = [i \in DOMAIN q |-> IF Is(q, i, "KEEP") THEN g[i] ELSE q[i]]
    BY DEF TruncateLines, OnKept
  <2> QED BY <1>9, <2>1
<1>11. Stands(m, RegexReplace(m, e))
  <2> DEFINE g == [i \in DOMAIN q |-> Rewrite(Replaced(q[i].text, e.rules))]
  <2>1. \/ RegexReplace(m, e) = m
        \/ RegexReplace(m, e) = [i \in DOMAIN q |-> IF Is(q, i, "KEEP") THEN g[i] ELSE q[i]]
    BY DEF RegexReplace, OnKept
  <2> QED BY <1>2, <1>4, <1>9, <2>1
<1>12. Stands(m, ColumnPadding(m, e))
  <2>1. \/ ColumnPadding(m, e) = m
        \/ ColumnPadding(m, e) = [i \in DOMAIN p |-> IF Is(p, i, "KEEP")
                                                      THEN Rewrite(Unpadded(p[i].text, e.patterns))
                                                      ELSE p[i]]
    BY DEF ColumnPadding, OnKept
  <2> HIDE DEF p
  <2> QED BY <1>2, <1>3, <2>1 DEF Stands, Is
<1>13. Stands(m, MatchOutput(m, e))
  <2>1. \/ MatchOutput(m, e) = m
        \/ /\ Decided(m, "PROTECT") = {}
           /\ DOMAIN MatchOutput(m, e) = DOMAIN m
    BY DEF MatchOutput
  <2> QED BY <1>2, <2>1 DEF Stands, Is, Decided
<1>14. Stands(m, ProtectHeaders(m))
  BY DEF ProtectHeaders, Stands, Is, LineOf
<1> QED BY <1>3, <1>4, <1>5, <1>6, <1>7, <1>8, <1>10, <1>11, <1>12, <1>13, <1>14

(* The stages that look at a run of lines and keep their number.           *)
LEMMA RunStagesStand ==
    ASSUME NEW m, NEW e, DOMAIN m \in SUBSET Int
    PROVE  /\ Stands(m, CollapseUnchanged(m, e))
           /\ Stands(m, NumericRange(m, e))
           /\ Stands(m, RelativeTimestamps(m, e))
           /\ Stands(m, AstSummarize(m, e))
           /\ Stands(m, StructuredData(m, e))
<1> DEFINE p == Preserve(m, e.preserve)
           q == PreserveKept(m, e.preserve)
<1>1. Stands(m, p) /\ Stands(m, q)
  BY PreserveStands
<1>2. Stands(m, m)
  BY DEF Stands
<1>3. \A x : Stands(p, x) => Stands(m, x)
  BY <1>1 DEF Stands
<1>4. \A x : Stands(q, x) => Stands(m, x)
  BY <1>1 DEF Stands
<1>5. \A i \in Int : Between(i, i) = {i}
  BY DEF Between
<1>6. DOMAIN p \in SUBSET Int
  BY <1>1 DEF Stands
<1>7. Stands(m, CollapseUnchanged(m, e))
  <2>1. DOMAIN CollapseUnchanged(m, e) = DOMAIN m
    BY DEF CollapseUnchanged
  <2>2. ASSUME NEW i \in DOMAIN m, Is(m, i, "PROTECT") PROVE CollapseUnchanged(m, e)[i] = m[i]
    BY <2>2 DEF CollapseUnchanged, Is
  <2> QED BY <2>1, <2>2 DEF Stands, Is
<1>8. Stands(p, NumericRange(m, e))
  <2>1. DOMAIN NumericRange(m, e) = DOMAIN p
    BY DEF NumericRange
  <2>2. ASSUME NEW i \in DOMAIN p, Is(p, i, "PROTECT") PROVE NumericRange(m, e)[i] = p[i]
    BY <1>5, <1>6, <2>2 DEF NumericRange, RunOf, Is
  <2> QED BY <2>1, <2>2 DEF Stands, Is
<1>9. Stands(p, RelativeTimestamps(m, e))
  <2>1. DOMAIN RelativeTimestamps(m, e) = DOMAIN p
    BY DEF RelativeTimestamps
  <2>2. ASSUME NEW i \in DOMAIN p, Is(p, i, "PROTECT") PROVE RelativeTimestamps(m, e)[i] = p[i]
    BY <1>5, <1>6, <2>2 DEF RelativeTimestamps, RunOf, Is
  <2> QED BY <2>1, <2>2 DEF Stands, Is
<1>10. Stands(m, AstSummarize(m, e))
  <2>1. AstSummarize(m, e) # m =>
            /\ DOMAIN AstSummarize(m, e) = DOMAIN p
            /\ \A i \in DOMAIN p : ~Is(p, i, "KEEP") => AstSummarize(m, e)[i] = p[i]
    BY DEF AstSummarize
  <2>2. AstSummarize(m, e) # m => Stands(p, AstSummarize(m, e))
    BY <2>1 DEF Stands, Is
  <2> QED BY <1>2, <1>3, <2>2
<1>11. Stands(m, StructuredData(m, e))
  <2>1. StructuredData(m, e) # m =>
            /\ DOMAIN StructuredData(m, e) = DOMAIN q
            /\ \A i \in DOMAIN q : Is(q, i, "PROTECT") => StructuredData(m, e)[i] = q[i]
    BY DEF StructuredData
  <2>2. StructuredData(m, e) # m => Stands(q, StructuredData(m, e))
    BY <2>1 DEF Stands, Is
  <2> QED BY <1>2, <1>4, <2>2
<1> QED BY <1>3, <1>7, <1>8, <1>9, <1>10, <1>11
-----------------------------------------------------------------------------
(* Positions of a mask are finitely many.                                  *)
LEMMA SomePositions ==
    ASSUME NEW T, NEW m \in Mask(T), NEW G \in SUBSET (DOMAIN m)
    PROVE  IsFiniteSet(G) /\ Cardinality(G) \in Nat
<1>1. IsFiniteSet(DOMAIN m)
  <2>1. DOMAIN m = 1 .. Len(m) /\ Len(m) \in Nat
    BY DecidedLines
  <2> QED BY <2>1, FS_Interval
<1> QED BY <1>1, FS_Subset, FS_CardinalityType

(* The lines group_repeated writes are lines.                              *)
LEMMA GroupedPieceTyped ==
    ASSUME SummaryTokens \in Nat, NEW Bodies, NEW Dirs, Written \subseteq Bodies, NoDir \in Dirs,
           NEW T, T = LineTexts(Bodies, Dirs), NEW m \in Mask(T), NEW e, NEW G \in SUBSET (DOMAIN m),
           NEW i \in DOMAIN m
    PROVE  /\ GroupedPiece(m, e, G, i) \in Seq(Line(T))
           /\ Is(m, i, "PROTECT") => GroupedPiece(m, e, G, i) = <<m[i]>>
<1> DEFINE c == Cardinality(G)
<1>1. m[i] \in Line(T) /\ m[i].text \in T
  BY DecidedLines DEF Line
<1>2. c \in Nat /\ (i \in G => c - 1 \in Nat)
  BY SomePositions, OneFewer
<1>3. Hide(m[i]) \in Line(T)
  BY <1>1 DEF Hide, LineOf, Line, Decisions
<1>4. i \in G => Rewrite(Summary("more", c - 1)) \in Line(T)
  <2>1. /\ "more" \in Bodies /\ "summary" \in Kinds /\ "plain" \in Skins /\ <<>> \in Seq(Notes)
    BY DEF Written, Kinds, Skins
  <2>2. i \in G => Summary("more", c - 1) \in T
    BY <1>2, <2>1 DEF Summary, LineTexts
  <2> QED BY <2>2 DEF Rewrite, LineOf, Line, Decisions
<1>5. Rewrite(WithNote(m[i].text, "times", c)) \in Line(T)
  <2>1. Note("times", c) \in Notes
    BY <1>2 DEF Note, Notes
  <2>2. WithNote(m[i].text, "times", c) \in T
    <3> DEFINE t == m[i].text
               note == Note("times", c)
    <3> HIDE DEF t, note, c
    <3>1. t \in LineTexts(Bodies, Dirs) /\ note \in Notes
      BY <1>1, <2>1 DEF t, note
    <3>2. t.size + 1 \in Nat /\ Append(t.notes, note) \in Seq(Notes)
      BY <3>1 DEF LineTexts
    <3>3. [t EXCEPT !.notes = Append(@, note), !.size = @ + 1] \in LineTexts(Bodies, Dirs)
      BY <3>1, <3>2 DEF LineTexts
    <3> QED BY <3>3 DEF WithNote, t, note
  <2> QED BY <2>2 DEF Rewrite, LineOf, Line, Decisions
<1>6. \/ GroupedPiece(m, e, G, i) = <<m[i]>>
      \/ /\ i \in G
         /\ GroupedPiece(m, e, G, i) \in
               {<<Hide(m[i])>>, <<m[i], Rewrite(Summary("more", c - 1))>>,
                <<Rewrite(WithNote(m[i].text, "times", c))>>}
  BY DEF GroupedPiece
<1>7. GroupedPiece(m, e, G, i) \in Seq(Line(T))
  <2>1. \A S : \A a, b \in S : <<a>> \in Seq(S) /\ <<a, b>> \in Seq(S)
    OBVIOUS
  <2> HIDE DEF c
  <2> QED BY <1>1, <1>3, <1>4, <1>5, <1>6, <2>1, Zenon
<1>8. Is(m, i, "PROTECT") => GroupedPiece(m, e, G, i) = <<m[i]>>
  BY DEF GroupedPiece, Is
<1> QED BY <1>7, <1>8

(* Groups are groups of positions.                                         *)
LEMMA GroupsArePositions ==
    ASSUME NEW m, NEW e, NEW pattern, NEW i
    PROVE  Group(m, e, pattern, i) \in SUBSET (DOMAIN m)
BY DEF Group, RunOf

(* One pass makes a mask of a mask, and carries what was protected.        *)
LEMMA PassCarries ==
    ASSUME SummaryTokens \in Nat, NEW Bodies, NEW Dirs, Written \subseteq Bodies, NoDir \in Dirs,
           NEW T, T = LineTexts(Bodies, Dirs), NEW l \in Mask(T), NEW e, NEW pattern
    PROVE  Pass(e, pattern, l) \in Mask(T) /\ Carries(l, Pass(e, pattern, l))
<1> DEFINE ss == [i \in DOMAIN l |-> GroupedPiece(l, e, Group(l, e, pattern, i), i)]
<1>1. Len(l) \in Nat /\ DOMAIN l = 1 .. Len(l)
  BY DecidedLines
<1>2. Pass(e, pattern, l) = FlattenSeq(ss)
  BY DEF Pass, Pieces
<1>3. \A i \in DOMAIN l : ss[i] \in Seq(Line(T)) /\ (Is(l, i, "PROTECT") => ss[i] = <<l[i]>>)
  BY <1>1, GroupsArePositions, GroupedPieceTyped
<1>4. ss \in Seq(Seq(Line(T))) /\ DOMAIN l = 1 .. Len(ss)
  <2>1. \A i \in 1 .. Len(l) : ss[i] \in Seq(Line(T))
    BY <1>1, <1>3
  <2>2. ss = [i \in 1 .. Len(l) |-> ss[i]]
    BY <1>1
  <2> HIDE DEF ss
  <2> QED BY <1>1, <2>1, <2>2
<1> HIDE DEF ss
<1>5. FlattenSeq(ss) \in Seq(Line(T)) /\ Carries(l, FlattenSeq(ss))
  BY <1>3, <1>4, PiecesCarry DEF Decided, Is
<1> QED BY <1>2, <1>5 DEF Mask

(* group_repeated returns a mask that carries what was protected.          *)
LEMMA GroupRepeatedCarries ==
    ASSUME SummaryTokens \in Nat, NEW Bodies, NEW Dirs, Written \subseteq Bodies, NoDir \in Dirs,
           NEW T, T = LineTexts(Bodies, Dirs), NEW m \in Mask(T), NEW e,
           NEW n \in Nat, DOMAIN e.patterns = 1 .. n
    PROVE  GroupRepeated(m, e) \in Mask(T) /\ Carries(m, GroupRepeated(m, e))
<1> DEFINE R == {l \in Mask(T) : Carries(m, l)}
<1>1. m \in R
  <2>1. DOMAIN m \in SUBSET Int
    BY DecidedLines
  <2> QED BY <2>1, CarriedInPlace DEF Is
<1>2. Preserve(m, e.preserve) \in R
  <2> DEFINE p == Preserve(m, e.preserve)
  <2>1. /\ Len(m) \in Nat /\ DOMAIN m = 1 .. Len(m) /\ \A i \in DOMAIN m : m[i] \in Line(T)
    BY DecidedLines
  <2>2. p \in Mask(T)
    BY <2>1 DEF Preserve, LineOf, Line, Decisions, Mask
  <2>3. Carries(m, p)
    <3>1. DOMAIN m \in SUBSET Int
      BY <2>1
    <3> QED BY <3>1, PreserveStands, CarriedInPlace DEF Stands, Is
  <2> QED BY <2>2, <2>3
<1>3. ASSUME NEW l \in R, NEW pattern PROVE Pass(e, pattern, l) \in R
  BY PassCarries, CarriedOn
<1> HIDE DEF R
<1>4. GroupRepeated(m, e) \in R
  BY <1>1, <1>2, <1>3, GroupFold
<1> QED BY <1>4 DEF R

(* path_prefix_fold carries what is protected when it comes.               *)
LEMMA PathPrefixFoldCarries ==
    ASSUME NEW T, NEW m \in Mask(T), NEW e
    PROVE  Carries(m, PathPrefixFold(m, e))
<1> DEFINE p == Preserve(m, e.preserve)
           belongs(i, j) == Is(p, j, "KEEP") /\ MatchesAny(p[j].text, e.patterns)
           child(t) == [t EXCEPT !.dir = NoDir,
                                 !.size = IF @ > DirTokens THEN @ - DirTokens ELSE 1]
           folded(run) ==
               SummaryTokens + FoldSet(LAMBDA i, sum : sum + child(p[i].text).size, 0, run)
           folds(run) ==
               /\ Cardinality(run) >= 2
               /\ \A i, j \in run : p[i].text.dir = p[j].text.dir /\ p[i].text.dir # NoDir
               /\ folded(run) < TotalSize(p, run)
           header(run) ==
               Rewrite([Summary("entries", Cardinality(run))
                           EXCEPT !.dir = p[Min(run)].text.dir])
           run(i) == RunOf(p, belongs, i)
           piece(i) ==
               IF i \notin run(i) \/ ~folds(run(i)) THEN <<p[i]>>
               ELSE IF i = Min(run(i)) THEN <<header(run(i)), Rewrite(child(p[i].text))>>
               ELSE <<Rewrite(child(p[i].text))>>
           ss == [i \in DOMAIN p |-> piece(i)]
           S == {p[i] : i \in DOMAIN p} \union {header(run(i)) : i \in DOMAIN p}
                    \union {Rewrite(child(p[i].text)) : i \in DOMAIN p}
<1>1. Len(m) \in Nat /\ DOMAIN m = 1 .. Len(m) /\ DOMAIN m \in SUBSET Int
  BY DecidedLines
<1>2. DOMAIN p = 1 .. Len(m) /\ Carries(m, p)
  <2> HIDE DEF p
  <2>1. Stands(m, p)
    BY PreserveStands DEF p
  <2> QED BY <1>1, <2>1, CarriedInPlace DEF Stands, Is
<1>3. e.patterns = {} \/ PathPrefixFold(m, e) = FlattenSeq(ss)
  BY DEF PathPrefixFold, Pieces
<1>4. e.patterns = {} => PathPrefixFold(m, e) = m
  BY DEF PathPrefixFold
<1>5. Carries(m, m)
  BY <1>1, CarriedInPlace DEF Is
<1>6. ASSUME NEW i \in DOMAIN p
      PROVE  piece(i) \in Seq(S) /\ (Is(p, i, "PROTECT") => piece(i) = <<p[i]>>)
  <2>1. Is(p, i, "PROTECT") => i \notin run(i)
    BY <1>2 DEF RunOf, Between, Is
  <2>2. p[i] \in S /\ header(run(i)) \in S /\ Rewrite(child(p[i].text)) \in S
    OBVIOUS
  <2> HIDE DEF S, header, child, folds, run, p
  <2> QED BY <2>1, <2>2
<1> HIDE DEF S, piece, p
<1>7. ss \in Seq(Seq(S)) /\ DOMAIN p = 1 .. Len(ss)
  BY <1>1, <1>2, <1>6
<1>8. \A i \in Decided(p, "PROTECT") : ss[i] = <<p[i]>>
  BY <1>6 DEF Decided, Is
<1> HIDE DEF ss
<1>9. Carries(p, FlattenSeq(ss))
  BY <1>7, <1>8, PiecesCarry
<1> QED BY <1>2, <1>3, <1>4, <1>5, <1>9, CarriedOn
-----------------------------------------------------------------------------
(* The sizes of a mask's lines, and their sum over some of them.           *)
Sizes(m) == [i \in DOMAIN m |-> m[i].text.size]

Sized(m) == \A i \in DOMAIN m : m[i].text.size \in Nat

LEMMA TotalSizeIsSum ==
    ASSUME NEW S, IsFiniteSet(S), NEW m, NEW f, \A i \in S : f[i] \in Nat /\ f[i] = m[i].text.size
    PROVE  TotalSize(m, S) = Sum(f, S)
<1> DEFINE AddsSizes(g) ==
        g = [s \in SUBSET S |-> IF s = {} THEN 0 ELSE g[s \ {Pick(s)}] + m[Pick(s)].text.size]
           it == CHOOSE g : AddsSizes(g)
<1>1. \A g : AddsSizes(g) <=> Adds(g, f, SUBSET S)
  <2> TAKE g
  <2>1. \A s \in SUBSET S : s # {} => f[Pick(s)] = m[Pick(s)].text.size
    BY PickFrom
  <2>2. [s \in SUBSET S |-> IF s = {} THEN 0 ELSE g[s \ {Pick(s)}] + m[Pick(s)].text.size]
        = [s \in SUBSET S |-> IF s = {} THEN 0 ELSE g[s \ {Pick(s)}] + f[Pick(s)]]
    BY <2>1
  <2> QED BY <2>2 DEF Adds
<1>2. PICK g : Adds(g, f, SUBSET S) /\ Sum(f, S) = g[S]
  <2>1. \A i \in S : f[i] \in Int
    OBVIOUS
  <2> QED BY <2>1, SumIsAnAdder
<1>3. AddsSizes(it)
  BY <1>1, <1>2
<1>4. TotalSize(m, S) = it[S]
  BY DEF TotalSize, FoldSet, MapThenFoldSet, Pick
<1> HIDE DEF it
<1>5. Adds(it, f, SUBSET S)
  BY <1>1, <1>3
<1>6. it[S] = g[S]
  <2>1. BothAdd(g, it, f, S, S)
    BY <1>2, <1>5 DEF BothAdd
  <2>2. \A s \in SUBSET S : g[s] = it[s]
    BY <2>1, AddersAgree
  <2> QED BY <2>2
<1> QED BY <1>2, <1>4, <1>6

(* Two sets together sum to no more than each on its own.                  *)
LEMMA SumOfTwo ==
    ASSUME NEW S, IsFiniteSet(S), NEW f, \A x \in S : f[x] \in Nat,
           NEW A \in SUBSET S, NEW B \in SUBSET S
    PROVE  Sum(f, A \union B) <= Sum(f, A) + Sum(f, B)
<1> DEFINE pick == [s \in SUBSET S |-> Pick(s)]
           Good == {s \in SUBSET S : Sum(f, A \union s) <= Sum(f, A) + Sum(f, s)}
<1>1. Picks(pick, S)
  BY PickFrom DEF Picks
<1>2. \A s \in SUBSET S : IsFiniteSet(s) /\ Sum(f, s) \in Nat
  BY FS_Subset, SumType
<1>3. {} \in Good
  BY <1>2, SumEmpty
<1>4. ASSUME NEW s \in SUBSET S, s # {}, s \ {pick[s]} \in Good PROVE s \in Good
  <2> DEFINE x == Pick(s)
             r == s \ {x}
  <2>1. x \in s /\ pick[s] = x
    BY <1>4, PickFrom
  <2>2. /\ Sum(f, A \union r) <= Sum(f, A) + Sum(f, r)
        /\ Sum(f, s) = Sum(f, r) + f[x] /\ f[x] \in Nat
    BY <1>2, <1>4, <2>1, SumOfOneMore
  <2>3. Sum(f, A) \in Nat /\ Sum(f, r) \in Nat /\ Sum(f, A \union r) \in Nat /\ Sum(f, A \union s) \in Nat
    BY <1>2
  <2>4. Sum(f, A \union s) <= Sum(f, A \union r) + f[x]
    <3>1. CASE x \in A
      <4>1. A \union s = A \union r
        BY <2>1, <3>1
      <4>2. Sum(f, A \union s) = Sum(f, A \union r)
        BY <4>1
      <4> HIDE DEF x, r
      <4> QED BY <2>2, <2>3, <4>2
    <3>2. CASE x \notin A
      <4>1. (A \union s) \ {x} = A \union r /\ x \in A \union s /\ A \union s \in SUBSET S
        BY <2>1, <3>2
      <4>2. Sum(f, A \union s) = Sum(f, (A \union s) \ {x}) + f[x]
        BY <1>2, <4>1, SumOfOneMore
      <4> HIDE DEF x, r
      <4> QED BY <2>2, <2>3, <4>1, <4>2
    <3> QED BY <3>1, <3>2
  <2> HIDE DEF x, r
  <2> QED BY <2>2, <2>3, <2>4
<1> HIDE DEF Good, pick
<1>5. \A s \in SUBSET S : s \in Good
  BY <1>1, <1>3, <1>4, SubsetInduction
<1> QED BY <1>5 DEF Good

Mirror(n, A) == {n + 1 - i : i \in A}

FromTheEnd(n, f) == [i \in 1 .. n |-> f[n + 1 - i]]

(* A sum counted from the other end.                                       *)
LEMMA SumMirrored ==
    ASSUME NEW n \in Nat, NEW f, \A i \in 1 .. n : f[i] \in Nat,
           NEW A \in SUBSET (1 .. n)
    PROVE  Sum(f, Mirror(n, A)) = Sum(FromTheEnd(n, f), A)
<1> DEFINE S == 1 .. n
           h == FromTheEnd(n, f)
           pick == [s \in SUBSET S |-> Pick(s)]
           mirror(s) == {n + 1 - i : i \in s}
           Good == {s \in SUBSET S : Sum(f, mirror(s)) = Sum(h, s)}
<1>0. \A i \in 1 .. n : h[i] = f[n + 1 - i]
  BY DEF FromTheEnd
<1> HIDE DEF h
<1>1. Picks(pick, S)
  BY PickFrom DEF Picks
<1>2. IsFiniteSet(S) /\ \A s \in SUBSET S : IsFiniteSet(s) /\ mirror(s) \in SUBSET S
  <2>1. IsFiniteSet(S)
    BY FS_Interval
  <2>2. \A s \in SUBSET S : mirror(s) \in SUBSET S
    OBVIOUS
  <2> QED BY <2>1, <2>2, FS_Subset
<1>3. {} \in Good
  <2>1. mirror({}) = {}
    OBVIOUS
  <2> QED BY <2>1, SumEmpty
<1>4. ASSUME NEW s \in SUBSET S, s # {}, s \ {pick[s]} \in Good PROVE s \in Good
  <2> DEFINE x == Pick(s)
             r == s \ {x}
  <2>1. x \in s /\ pick[s] = x /\ x \in 1 .. n
    BY <1>4, PickFrom
  <2>2. Sum(f, mirror(r)) = Sum(h, r)
    BY <1>4, <2>1
  <2>3. Sum(h, s) = Sum(h, r) + h[x]
    <3>1. \A i \in s : h[i] \in Nat
      <4>1. \A i \in 1 .. n : n + 1 - i \in 1 .. n
        OBVIOUS
      <4> QED BY <1>0, <4>1
    <3>2. IsFiniteSet(s)
      BY <1>2
    <3>3. x \in s
      BY <2>1
    <3> HIDE DEF x, S, pick, mirror
    <3>4. Sum(h, s) = Sum(h, s \ {x}) + h[x]
      BY <3>1, <3>2, <3>3, SumOfOneMore
    <3> QED BY <3>4
  <2> HIDE DEF x
  <2>4. n + 1 - x \in mirror(s) /\ mirror(r) = mirror(s) \ {n + 1 - x}
    BY <2>1
  <2>5. Sum(f, mirror(s)) = Sum(f, mirror(s) \ {n + 1 - x}) + f[n + 1 - x]
    <3>1. IsFiniteSet(mirror(s)) /\ \A i \in mirror(s) : f[i] \in Nat
      BY <1>2
    <3> HIDE DEF mirror
    <3> QED BY <2>4, <3>1, SumOfOneMore
  <2>6. h[x] = f[n + 1 - x]
    BY <1>0, <2>1
  <2> HIDE DEF mirror
  <2> QED BY <2>2, <2>3, <2>4, <2>5, <2>6
<1> HIDE DEF pick, S, Good
<1>5. \A s \in SUBSET S : s \in Good
  BY <1>1, <1>2, <1>3, <1>4, SubsetInduction
<1> QED BY <1>5 DEF Good, S, Mirror, h
-----------------------------------------------------------------------------
(* Whether a line fits what is left, and the budget spent on the first     *)
(* lines, as max_tokens counts it.                                         *)
Fits(m, limit, i, spent) == Is(m, i, "KEEP") /\ spent + m[i].text.size <= limit

Spends(g, m, limit, k) ==
    g = [i \in 0 .. k |->
            IF i = 0 THEN 0
            ELSE g[i - 1] + (IF Fits(m, limit, i, g[i - 1]) THEN m[i].text.size ELSE 0)]

(* There is a function that counts so.                                     *)
LEMMA SpenderExists ==
    ASSUME NEW m, NEW limit, NEW n \in Nat
    PROVE  \E g : Spends(g, m, limit, n)
<1> DEFINE Good == {k \in Nat : \E g : Spends(g, m, limit, k)}
           more(g, i) == g[i - 1] + (IF Fits(m, limit, i, g[i - 1]) THEN m[i].text.size ELSE 0)
<1>1. 0 \in Good
  <2> DEFINE g == [i \in 0 .. 0 |-> 0]
  <2>1. Spends(g, m, limit, 0)
    BY DEF Spends
  <2> QED BY <2>1
<1>2. ASSUME NEW k \in 0 .. n - 1, k \in Good PROVE k + 1 \in Good
  <2>1. PICK h : Spends(h, m, limit, k)
    BY <1>2
  <2>2. k \in Nat /\ k + 1 \in Nat
    OBVIOUS
  <2> DEFINE g == [i \in 0 .. k + 1 |-> IF i = 0 THEN 0 ELSE more(h, i)]
  <2>3. \A i \in 0 .. k : g[i] = h[i]
    <3>1. \A i \in 0 .. k : h[i] = IF i = 0 THEN 0 ELSE more(h, i)
      BY <2>1 DEF Spends
    <3>2. \A i \in 0 .. k : i \in 0 .. k + 1
      BY <2>2
    <3> HIDE DEF more
    <3> QED BY <3>1, <3>2
  <2>4. \A i \in 0 .. k + 1 : g[i] = IF i = 0 THEN 0 ELSE more(g, i)
    <3>1. \A i \in 0 .. k + 1 : i # 0 => i - 1 \in 0 .. k
      BY <2>2
    <3>2. \A i \in 0 .. k + 1 : g[i] = IF i = 0 THEN 0 ELSE more(h, i)
      OBVIOUS
    <3>3. \A i \in 0 .. k + 1 : i # 0 => more(g, i) = more(h, i)
      <4> HIDE DEF g
      <4> QED BY <2>3, <3>1
    <3> HIDE DEF g, more
    <3> QED BY <3>2, <3>3
  <2>5. g = [i \in 0 .. k + 1 |-> g[i]]
    OBVIOUS
  <2> HIDE DEF g
  <2>6. Spends(g, m, limit, k + 1)
    BY <2>4, <2>5 DEF Spends
  <2> QED BY <2>2, <2>6
<1> HIDE DEF Good
<1>3. n \in Good
  <2>1. \A k \in 0 .. n : k \in Good
    BY <1>1, <1>2, UpTo
  <2> QED BY <2>1
<1> QED BY <1>3 DEF Good

(* What the greedy choice takes is KEEP, and fits the budget together.     *)
LEMMA GreedyFits ==
    ASSUME NEW n \in Nat, NEW m, Len(m) = n, DOMAIN m = 1 .. n, NEW limit \in Nat,
           NEW f, \A i \in 1 .. n : f[i] \in Nat /\ f[i] = m[i].text.size
    PROVE  /\ Greedy(m, limit) \in SUBSET (1 .. n)
           /\ Sum(f, Greedy(m, limit)) <= limit
<1> DEFINE it == CHOOSE g : Spends(g, m, limit, n)
<1>1. Spends(it, m, limit, n)
  BY SpenderExists
<1>2. Greedy(m, limit) = {i \in DOMAIN m : Fits(m, limit, i, it[i - 1])}
  BY DEF Greedy, Spends, Fits
<1> HIDE DEF it
<1>3. \A i \in 0 .. n : it[i] =
        IF i = 0 THEN 0
        ELSE it[i - 1] + (IF Fits(m, limit, i, it[i - 1]) THEN m[i].text.size ELSE 0)
  BY <1>1 DEF Spends
<1> DEFINE Taken(k) == {i \in 1 .. k : Fits(m, limit, i, it[i - 1])}
           Good == {k \in 0 .. n : /\ it[k] \in Nat /\ it[k] <= limit
                                   /\ Sum(f, Taken(k)) = it[k]}
<1>4. 0 \in Good
  <2>1. Taken(0) = {} /\ it[0] = 0
    BY <1>3
  <2> HIDE DEF Taken
  <2>2. Sum(f, Taken(0)) = 0
    BY <2>1, SumEmpty
  <2> QED BY <2>1, <2>2
<1>5. ASSUME NEW k \in 0 .. n - 1, k \in Good PROVE k + 1 \in Good
  <2>1. k \in Nat /\ k + 1 \in 0 .. n /\ k + 1 \in 1 .. n /\ k + 1 # 0 /\ (k + 1) - 1 = k
        /\ k + 1 \notin 1 .. k
    OBVIOUS
  <2>2. it[k + 1] = it[k] + (IF Fits(m, limit, k + 1, it[k]) THEN m[k + 1].text.size ELSE 0)
    BY <1>3, <2>1
  <2>3. \A i \in 1 .. k + 1 : i \in 1 .. k \/ i = k + 1
    BY <2>1
  <2>4. CASE Fits(m, limit, k + 1, it[k])
    <3>1. k + 1 \in Taken(k + 1) /\ Taken(k + 1) \ {k + 1} = Taken(k)
      BY <2>1, <2>3, <2>4
    <3>2. IsFiniteSet(Taken(k + 1))
      <4>1. IsFiniteSet(1 .. k + 1)
        BY <2>1, FS_Interval
      <4> QED BY <4>1, FS_Subset
    <3>3. \A i \in Taken(k + 1) : f[i] \in Nat
      BY <2>1
    <3> DEFINE more == Taken(k + 1)
               last == k + 1
    <3> HIDE DEF Taken
    <3>4. Sum(f, more) = Sum(f, more \ {last}) + f[last]
      <4>1. last \in more /\ IsFiniteSet(more) /\ \A i \in more : f[i] \in Nat
        BY <3>1, <3>2, <3>3
      <4> HIDE DEF more, last
      <4> QED BY <4>1, SumOfOneMore
    <3>5. Sum(f, Taken(k + 1)) = it[k] + f[k + 1]
      BY <1>5, <3>1, <3>4
    <3>6. /\ f[k + 1] \in Nat /\ it[k] \in Nat /\ it[k] + f[k + 1] <= limit
          /\ it[k + 1] = it[k] + f[k + 1]
      BY <1>5, <2>1, <2>2, <2>4 DEF Fits
    <3> QED BY <2>1, <3>5, <3>6
  <2>5. CASE ~Fits(m, limit, k + 1, it[k])
    <3>1. Taken(k + 1) = Taken(k)
      BY <2>1, <2>3, <2>5
    <3> HIDE DEF Taken
    <3>2. it[k + 1] = it[k] /\ it[k] \in Nat
      BY <1>5, <2>2, <2>5
    <3> QED BY <1>5, <2>1, <3>1, <3>2
  <2> QED BY <2>4, <2>5
<1>6. n \in Good
  <2> HIDE DEF Good
  <2>1. \A k \in 0 .. n : k \in Good
    BY <1>4, <1>5, UpTo
  <2> QED BY <2>1
<1>7. Greedy(m, limit) = Taken(n)
  BY <1>2
<1>8. Taken(n) \in SUBSET (1 .. n)
  OBVIOUS
<1> HIDE DEF Taken
<1> QED BY <1>6, <1>7, <1>8
(* ... and so it is from the end.                                          *)
LEMMA TailFits ==
    ASSUME NEW n \in Nat, NEW m, Len(m) = n, DOMAIN m = 1 .. n, NEW limit \in Nat,
           NEW f, \A i \in 1 .. n : f[i] \in Nat /\ f[i] = m[i].text.size
    PROVE  /\ TailIndices(m, limit) \in SUBSET (1 .. n)
           /\ Sum(f, TailIndices(m, limit)) <= limit
<1> DEFINE r == Reverse(m)
           h == FromTheEnd(n, f)
           A == Greedy(r, limit)
<1>1. \A i \in 1 .. n : n + 1 - i \in 1 .. n /\ (n - i) + 1 = n + 1 - i
  OBVIOUS
<1>2. Len(r) = n /\ DOMAIN r = 1 .. n /\ \A i \in 1 .. n : r[i] = m[n + 1 - i]
  BY <1>1 DEF Reverse
<1>3. \A i \in 1 .. n : h[i] \in Nat /\ h[i] = r[i].text.size
  BY <1>1, <1>2 DEF FromTheEnd
<1>4. TailIndices(m, limit) = Mirror(n, A)
  BY DEF TailIndices, Mirror
<1> HIDE DEF r, h
<1>5. A \in SUBSET (1 .. n) /\ Sum(h, A) <= limit
  BY <1>2, <1>3, GreedyFits
<1> HIDE DEF A
<1>6. Sum(f, Mirror(n, A)) = Sum(h, A)
  <2>1. \A i \in 1 .. n : f[i] \in Nat
    OBVIOUS
  <2>2. A \in SUBSET (1 .. n)
    BY <1>5
  <2> QED BY <2>1, <2>2, SumMirrored DEF h
<1>7. Mirror(n, A) \in SUBSET (1 .. n)
  BY <1>1, <1>5 DEF Mirror
<1> QED BY <1>4, <1>5, <1>6, <1>7

Half(limit) == IF limit \div 2 > 1 THEN limit \div 2 ELSE 1

(* The lines max_tokens chooses to keep, whatever the strategy.            *)
LEMMA KeptFits ==
    ASSUME NEW n \in Nat, NEW m, Len(m) = n, DOMAIN m = 1 .. n,
           NEW e, e.limit \in Nat, e.strategy \in {"head", "tail", "both"},
           NEW f, \A i \in 1 .. n : f[i] \in Nat /\ f[i] = m[i].text.size
    PROVE  /\ KeptIndices(m, e) \in SUBSET (1 .. n)
           /\ Sum(f, KeptIndices(m, e)) <=
                IF e.strategy = "both" THEN 2 * Half(e.limit) ELSE e.limit
<1>1. CASE e.strategy = "head"
  <2>1. KeptIndices(m, e) = Greedy(m, e.limit)
    BY <1>1 DEF KeptIndices, HeadIndices
  <2> QED BY <1>1, <2>1, GreedyFits
<1>2. CASE e.strategy = "tail"
  <2>1. KeptIndices(m, e) = TailIndices(m, e.limit)
    BY <1>2 DEF KeptIndices
  <2> QED BY <1>2, <2>1, TailFits
<1>3. CASE e.strategy = "both"
  <2> DEFINE half == Half(e.limit)
             A == Greedy(m, half)
             B == TailIndices(m, half)
             S == 1 .. n
  <2>1. KeptIndices(m, e) = A \union B
    BY <1>3 DEF KeptIndices, HeadIndices, Half
  <2>2. half \in Nat
    BY DEF Half
  <2> HIDE DEF half
  <2>3. A \in SUBSET S /\ Sum(f, A) <= half /\ B \in SUBSET S /\ Sum(f, B) <= half
    BY <2>2, GreedyFits, TailFits
  <2>4. IsFiniteSet(S) /\ \A i \in S : f[i] \in Nat
    BY FS_Interval
  <2> HIDE DEF A, B, S
  <2>5. \A s \in SUBSET S : Sum(f, s) \in Nat
    BY <2>4, FS_Subset, SumType
  <2>6. Sum(f, A \union B) <= Sum(f, A) + Sum(f, B)
    BY <2>3, <2>4, SumOfTwo
  <2>7. Sum(f, A \union B) \in Nat /\ Sum(f, A) \in Nat /\ Sum(f, B) \in Nat
    BY <2>3, <2>5
  <2>8. Sum(f, A \union B) <= 2 * half
    BY <2>2, <2>3, <2>6, <2>7
  <2> QED BY <1>3, <2>1, <2>3, <2>8 DEF half, S
<1> QED BY <1>1, <1>2, <1>3

(* What is KEEP after max_tokens and enforcement fits the budget.          *)
LEMMA MaxTokensFits ==
    ASSUME NEW T, NEW m \in Mask(T), Sized(m),
           NEW e, e.limit \in Nat, e.strategy \in {"head", "tail", "both"}
    PROVE  LET p == Preserve(m, e.preserve)
               fits == TotalSize(p, Visible(p)) <= e.limit
               after == EnforceProtect(m, MaxTokens(m, e))
           IN  TotalSize(after, Decided(after, "KEEP")) <=
                 IF e.strategy = "both" /\ ~fits THEN 2 * Half(e.limit) ELSE e.limit
<1> DEFINE p == Preserve(m, e.preserve)
           fits == TotalSize(p, Visible(p)) <= e.limit
           new == MaxTokens(m, e)
           after == EnforceProtect(m, new)
           n == Len(m)
           f == Sizes(p)
           K == Decided(after, "KEEP")
<1>1. n \in Nat /\ DOMAIN m = 1 .. n
  BY DecidedLines
<1>2. DOMAIN p = 1 .. n /\ Len(p) = n /\ \A i \in 1 .. n : p[i].text = m[i].text
  BY <1>1 DEF Preserve, LineOf
<1>3. \A i \in 1 .. n : f[i] \in Nat /\ f[i] = p[i].text.size
  BY <1>1, <1>2 DEF Sizes, Sized
<1>4. /\ fits => new = p
      /\ ~fits => new = [i \in 1 .. n |-> IF Is(p, i, "KEEP") /\ i \notin KeptIndices(p, e)
                                         THEN Hide(p[i]) ELSE p[i]]
  BY <1>2 DEF MaxTokens
<1> HIDE DEF p, f
<1>5. DOMAIN new = 1 .. n /\ Len(new) = n
  <2> HIDE DEF fits, new
  <2> QED BY <1>1, <1>2, <1>4
<1>6. \A i \in 1 .. n : new[i].decision = "KEEP" =>
            new[i] = p[i] /\ Is(p, i, "KEEP") /\ (fits \/ i \in KeptIndices(p, e))
  <2> HIDE DEF fits, new
  <2> QED BY <1>4 DEF Hide, LineOf, Is
<1>7. after = [i \in 1 .. n |-> IF m[i].decision = "PROTECT"
                                THEN LineOf(new[i].text, "PROTECT") ELSE new[i]]
  <2> HIDE DEF new
  <2> QED BY <1>5 DEF EnforceProtect
<1> HIDE DEF after, new, fits
<1>8. /\ K \in SUBSET (1 .. n)
      /\ \A i \in K : /\ after[i] = p[i] /\ Is(p, i, "KEEP")
                      /\ fits \/ i \in KeptIndices(p, e)
  BY <1>6, <1>7 DEF Decided, LineOf
<1>9. IsFiniteSet(1 .. n) /\ \A s \in SUBSET (1 .. n) : IsFiniteSet(s)
  <2>1. IsFiniteSet(1 .. n)
    BY <1>1, FS_Interval
  <2> QED BY <2>1, FS_Subset
<1>10. TotalSize(after, K) = Sum(f, K)
  <2>1. \A i \in K : f[i] \in Nat /\ f[i] = after[i].text.size
    BY <1>3, <1>8
  <2>2. IsFiniteSet(K)
    BY <1>8, <1>9
  <2> HIDE DEF K
  <2> QED BY <2>1, <2>2, TotalSizeIsSum
<1> HIDE DEF K
<1>11. \A s \in SUBSET (1 .. n) : Sum(f, s) \in Nat
  BY <1>3, <1>9, SumType
<1>12. \A A, B \in SUBSET (1 .. n) : A \subseteq B => Sum(f, A) <= Sum(f, B)
  BY <1>3, <1>9, SumIsMonotonic
<1>13. CASE fits
  <2> DEFINE V == Visible(p)
  <2>1. V \in SUBSET (1 .. n) /\ K \subseteq V
    BY <1>2, <1>8 DEF Visible, Decided, Is
  <2>2. TotalSize(p, V) = Sum(f, V)
    <3>1. IsFiniteSet(V) /\ \A i \in V : f[i] \in Nat /\ f[i] = p[i].text.size
      BY <1>3, <1>9, <2>1
    <3> HIDE DEF V
    <3> QED BY <3>1, TotalSizeIsSum
  <2>3. Sum(f, V) <= e.limit
    BY <1>13, <2>2 DEF fits
  <2> HIDE DEF V
  <2>4. Sum(f, K) <= Sum(f, V) /\ Sum(f, K) \in Nat /\ Sum(f, V) \in Nat
    BY <1>8, <1>11, <1>12, <2>1
  <2>5. TotalSize(after, K) <= e.limit
    BY <1>10, <2>3, <2>4
  <2> QED BY <1>13, <2>5 DEF K, after, new, fits, p
<1>14. CASE ~fits
  <2> DEFINE G == KeptIndices(p, e)
             bound == IF e.strategy = "both" THEN 2 * Half(e.limit) ELSE e.limit
  <2>1. G \in SUBSET (1 .. n) /\ Sum(f, G) <= bound
    BY <1>1, <1>2, <1>3, KeptFits
  <2>2. K \subseteq G
    BY <1>8, <1>14
  <2>3. bound \in Nat
    BY DEF Half
  <2> HIDE DEF G, bound
  <2>4. Sum(f, K) <= Sum(f, G) /\ Sum(f, K) \in Nat /\ Sum(f, G) \in Nat
    BY <1>8, <1>11, <1>12, <2>1, <2>2
  <2>5. TotalSize(after, K) <= bound
    BY <1>10, <2>1, <2>3, <2>4
  <2> QED BY <1>14, <2>5 DEF K, after, new, fits, p, bound
<1> QED BY <1>13, <1>14
-----------------------------------------------------------------------------
(* The lines a text without notes stands for: itself, and after one note   *)
(* of a count as many as the note says.                                    *)
LEMMA TimesOfNotes ==
    ASSUME NEW t, NEW c \in Nat
    PROVE  /\ t.notes = <<>> => Times(t) = 1
           /\ t.notes = <<Note("times", c)>> => Times(t) = c
<1> DEFINE Step(x, n) == IF x.what = "times" THEN n * x.n ELSE n
           Runs(g) == g = [s \in SUBSET (DOMAIN t.notes) |->
                             IF s = {} THEN 1
                             ELSE Step(t.notes[Max(s)], g[s \ {Max(s)}])]
           it == CHOOSE g : Runs(g)
<1>1. Times(t) = it[DOMAIN t.notes]
  BY DEF Times, FoldLeft, MapThenFoldSet
<1>2. ASSUME t.notes = <<>> PROVE Times(t) = 1
  <2>1. DOMAIN t.notes = {}
    BY <1>2
  <2>2. Runs([s \in SUBSET (DOMAIN t.notes) |-> 1])
    BY <2>1
  <2>3. Runs(it)
    BY <2>2
  <2> HIDE DEF it
  <2>4. it[{}] = 1
    BY <2>3
  <2> QED BY <1>1, <2>1, <2>4
<1>3. ASSUME t.notes = <<Note("times", c)>> PROVE Times(t) = c
  <2>1. DOMAIN t.notes = {1} /\ t.notes[1] = Note("times", c)
    BY <1>3
  <2>2. Max({1}) = 1
    BY DEF Max
  <2>3. \A s \in SUBSET {1} : s = {} \/ s = {1}
    OBVIOUS
  <2>4. \A n \in Nat : Step(t.notes[1], n) = n * c
    BY <2>1 DEF Note
  <2> DEFINE g == [s \in SUBSET {1} |-> IF s = {} THEN 1 ELSE c]
  <2>5. Runs(g)
    <3>1. g[{}] = 1
      OBVIOUS
    <3>2. Step(t.notes[1], 1) = c
      BY <2>4
    <3>3. \A s \in SUBSET {1} :
             g[s] = IF s = {} THEN 1 ELSE Step(t.notes[Max(s)], g[s \ {Max(s)}])
      <4> TAKE s \in SUBSET {1}
      <4>1. CASE s = {}
        BY <4>1
      <4>2. CASE s = {1}
        <5>1. s \ {Max(s)} = {} /\ Max(s) = 1
          BY <2>2, <4>2
        <5>2. g[s] = c
          BY <4>2
        <5> HIDE DEF g, Step
        <5> QED BY <3>1, <3>2, <4>2, <5>1, <5>2
      <4> QED BY <2>3, <4>1, <4>2
    <3> HIDE DEF Step
    <3> QED BY <2>1, <3>3
  <2>6. Runs(it)
    BY <2>5
  <2> HIDE DEF it, g, Step
  <2>7. it[{}] = 1
    BY <2>1, <2>6
  <2>8. it[{1}] = Step(t.notes[1], it[{}])
    <3>1. {1} \ {1} = {} /\ {1} \in SUBSET {1}
      OBVIOUS
    <3> QED BY <2>1, <2>2, <2>6, <3>1
  <2>9. it[{1}] = c
    BY <2>4, <2>7, <2>8
  <2> QED BY <1>1, <2>1, <2>9
<1> QED BY <1>2, <1>3

(* What a line counts for: nothing where it is hidden.                     *)
LineWeight(l) == IF l.decision = "COMPRESS" THEN 0 ELSE Weight(l.text)

Weights(m) == [i \in DOMAIN m |-> LineWeight(m[i])]

(* The lines a mask stands for, as a sum.                                  *)
LEMMA TotalWeightIsSum ==
    ASSUME NEW m, IsFiniteSet(DOMAIN m), \A i \in DOMAIN m : LineWeight(m[i]) \in Int
    PROVE  /\ TotalWeight(m) = Sum(Weights(m), DOMAIN m)
           /\ TotalWeight(m) = Sum(Weights(m), Visible(m))
<1> DEFINE S == Visible(m)
           f == Weights(m)
           AddsWeights(g) ==
               g = [s \in SUBSET S |-> IF s = {} THEN 0 ELSE g[s \ {Pick(s)}] + Weight(m[Pick(s)].text)]
           it == CHOOSE g : AddsWeights(g)
<1>0. IsFiniteSet(S) /\ S \in SUBSET (DOMAIN m)
      /\ \A i \in S : f[i] = Weight(m[i].text) /\ f[i] \in Int
  <2>1. S \in SUBSET (DOMAIN m) /\ \A i \in S : m[i].decision # "COMPRESS"
    BY DEF Visible, Decided
  <2> QED BY <2>1, FS_Subset DEF Weights, LineWeight
<1>1. \A g : AddsWeights(g) <=> Adds(g, f, SUBSET S)
  <2> TAKE g
  <2>1. \A s \in SUBSET S : s # {} => f[Pick(s)] = Weight(m[Pick(s)].text)
    BY <1>0, PickFrom
  <2> HIDE DEF S, f
  <2>2. [s \in SUBSET S |-> IF s = {} THEN 0 ELSE g[s \ {Pick(s)}] + Weight(m[Pick(s)].text)]
        = [s \in SUBSET S |-> IF s = {} THEN 0 ELSE g[s \ {Pick(s)}] + f[Pick(s)]]
    BY <2>1
  <2> QED BY <2>2 DEF Adds
<1>2. PICK g : Adds(g, f, SUBSET S) /\ Sum(f, S) = g[S]
  <2> HIDE DEF S, f
  <2> QED BY <1>0, SumIsAnAdder
<1>3. AddsWeights(it)
  BY <1>1, <1>2
<1>4. TotalWeight(m) = it[S]
  BY DEF TotalWeight, FoldSet, MapThenFoldSet, Pick
<1> HIDE DEF it
<1>5. Adds(it, f, SUBSET S)
  BY <1>1, <1>3
<1> HIDE DEF S, f
<1>6. it[S] = g[S]
  <2>1. BothAdd(g, it, f, S, S)
    BY <1>0, <1>2, <1>5 DEF BothAdd
  <2>2. \A s \in SUBSET S : g[s] = it[s]
    BY <2>1, AddersAgree
  <2> QED BY <2>2
<1>7. TotalWeight(m) = Sum(f, S)
  BY <1>2, <1>4, <1>6
<1> DEFINE H == DOMAIN m \ S
<1>8. Sum(f, DOMAIN m) = Sum(f, S) + Sum(f, H)
  <2>1. DOMAIN m = S \union H /\ S \intersect H = {} /\ H \in SUBSET (DOMAIN m)
    BY <1>0
  <2>2. \A i \in DOMAIN m : f[i] \in Int
    BY DEF f, Weights
  <2> HIDE DEF H
  <2> QED BY <1>0, <2>1, <2>2, SumOfApart
<1>9. Sum(f, H) = 0
  <2>1. IsFiniteSet(H) /\ \A i \in H : f[i] = 0
    BY FS_Subset DEF f, S, Weights, LineWeight, Visible, Decided
  <2> HIDE DEF H
  <2> QED BY <2>1, SumOfZeros
<1>10. Sum(f, S) \in Int
  BY <1>0, SumIsInt
<1> QED BY <1>7, <1>8, <1>9, <1>10 DEF f, S

(* Runs of positions that belong together, for a relation in which all     *)
(* that belong with one belong with each other.                            *)
RunsBy(n, r, run) ==
    /\ \A a, b, c \in 1 .. n : <<a, b>> \in r /\ <<a, c>> \in r => <<b, c>> \in r
    /\ \A i \in 1 .. n : run[i] = {j \in 1 .. n : \A k \in Between(i, j) : <<i, k>> \in r}

(* Runs do not overlap: one that holds its position is the run of every    *)
(* position in it.                                                         *)
LEMMA RunsAreClasses ==
    ASSUME NEW n \in Nat, NEW r, NEW run, RunsBy(n, r, run)
    PROVE  \A i \in 1 .. n : i \in run[i] => \A j \in run[i] : j \in run[j] /\ run[j] = run[i]
<1> SUFFICES ASSUME NEW i \in 1 .. n, i \in run[i], NEW j \in run[i]
             PROVE  j \in run[j] /\ run[j] = run[i]
  OBVIOUS
<1>0. /\ \A a, b, c \in 1 .. n : <<a, b>> \in r /\ <<a, c>> \in r => <<b, c>> \in r
      /\ \A x \in 1 .. n : run[x] = {y \in 1 .. n : \A k \in Between(x, y) : <<x, k>> \in r}
  BY DEF RunsBy
<1>1. j \in 1 .. n /\ \A k \in Between(i, j) : <<i, k>> \in r
  BY <1>0
<1>2. \A x, y, z \in 1 .. n : Between(x, y) \in SUBSET (1 .. n)
           /\ Between(x, y) = Between(y, x) /\ x \in Between(x, y) /\ y \in Between(x, y)
           /\ Between(x, y) \subseteq Between(x, z) \union Between(z, y)
  BY DEF Between
<1>3. <<i, i>> \in r /\ <<i, j>> \in r /\ <<j, i>> \in r /\ <<j, j>> \in r
  <2>1. <<i, i>> \in r /\ <<i, j>> \in r
    BY <1>1, <1>2
  <2> QED BY <1>0, <1>1, <2>1
<1>4. ASSUME NEW l \in run[i] PROVE l \in run[j]
  <2>1. l \in 1 .. n /\ \A k \in Between(i, l) : <<i, k>> \in r
    BY <1>0
  <2>2. ASSUME NEW k \in Between(j, l) PROVE <<j, k>> \in r
    <3>1. k \in 1 .. n /\ (k \in Between(i, j) \/ k \in Between(i, l))
      BY <1>1, <1>2, <2>1
    <3>2. <<i, k>> \in r
      BY <1>1, <2>1, <3>1
    <3> QED BY <1>0, <1>1, <1>3, <3>1, <3>2
  <2> QED BY <1>0, <1>1, <2>1, <2>2
<1>5. ASSUME NEW l \in run[j] PROVE l \in run[i]
  <2>1. l \in 1 .. n /\ \A k \in Between(j, l) : <<j, k>> \in r
    BY <1>0, <1>1
  <2>2. ASSUME NEW k \in Between(i, l) PROVE <<i, k>> \in r
    <3>1. k \in 1 .. n /\ (k \in Between(i, j) \/ k \in Between(j, l))
      BY <1>1, <1>2, <2>1
    <3>2. k \in Between(j, l) => <<i, k>> \in r
      BY <1>0, <1>1, <1>3, <2>1, <3>1
    <3> QED BY <1>1, <3>1, <3>2
  <2> QED BY <1>0, <2>1, <2>2
<1>6. j \in run[j]
  BY <1>4
<1>7. run[j] \subseteq run[i] /\ run[i] \subseteq run[j]
  BY <1>4, <1>5
<1> QED BY <1>6, <1>7

(* v counts each position, w the groups of F on their first one.           *)
GroupsCount(n, G, F, v, w) ==
    /\ \A i \in 1 .. n : v[i] \in Nat /\ G[i] \in SUBSET (1 .. n)
    /\ \A i \in 1 .. n : i \in G[i] => \A j \in G[i] : j \in G[j] /\ G[j] = G[i]
    /\ \A i \in 1 .. n :
          IF i \in G[i] /\ G[i] \in F
          THEN v[i] = 1 /\ w[i] = (IF i = Min(G[i]) THEN Cardinality(G[i]) ELSE 0)
          ELSE w[i] = v[i]

(* Groups that count their lines on the first and hide the others count    *)
(* every line once.                                                        *)
LEMMA GroupsCountOnce ==
    ASSUME NEW n \in Nat, NEW G, NEW F, NEW v, NEW w, GroupsCount(n, G, F, v, w)
    PROVE  Sum(w, 1 .. n) = Sum(v, 1 .. n)
<1> DEFINE S == 1 .. n
           Folded(i) == i \in G[i] /\ G[i] \in F
           rep == [i \in S |-> IF Folded(i) THEN Min(G[i]) ELSE i]
<1>0. /\ \A i \in S : v[i] \in Nat /\ G[i] \in SUBSET S
      /\ \A i \in S : i \in G[i] => \A j \in G[i] : j \in G[j] /\ G[j] = G[i]
      /\ \A i \in S : IF Folded(i)
                      THEN v[i] = 1 /\ w[i] = (IF i = Min(G[i]) THEN Cardinality(G[i]) ELSE 0)
                      ELSE w[i] = v[i]
  BY DEF GroupsCount
<1>1. IsFiniteSet(S)
  BY FS_Interval
<1>2. ASSUME NEW i \in S, Folded(i)
      PROVE  Min(G[i]) \in G[i] /\ Min(G[i]) \in S /\ \A j \in G[i] : Folded(j) /\ G[j] = G[i]
  <2>1. G[i] \in SUBSET Nat /\ G[i] # {}
    BY <1>0, <1>2
  <2>2. Min(G[i]) \in G[i]
    BY <2>1, MinIsLeast
  <2> QED BY <1>0, <1>2, <2>2
<1>3. \A i \in S : rep[i] \in S
  BY <1>0, <1>2
<1>4. ASSUME NEW t \in S PROVE w[t] = Sum(v, {i \in S : rep[i] = t})
  <2> DEFINE fibre == {i \in S : rep[i] = t}
  <2>1. CASE ~Folded(t)
    <3>1. \A i \in S : rep[i] = t => i = t
      BY <1>2, <2>1
    <3>2. fibre = {t}
      BY <2>1, <3>1
    <3>3. Sum(v, {t}) = v[t]
      <4>1. v[t] \in Int
        BY <1>0
      <4> QED BY <4>1, SumOfSingle
    <3> QED BY <1>0, <2>1, <3>2, <3>3
  <2>2. CASE Folded(t) /\ t = Min(G[t])
    <3>1. ASSUME NEW i \in S, rep[i] = t PROVE i \in G[t]
      BY <1>0, <1>2, <2>2, <3>1
    <3>2. ASSUME NEW i \in G[t] PROVE i \in S /\ rep[i] = t
      BY <1>0, <1>2, <2>2, <3>2
    <3>3. fibre = G[t]
      BY <3>1, <3>2
    <3>4. IsFiniteSet(G[t]) /\ \A i \in G[t] : v[i] = 1
      BY <1>0, <1>1, <1>2, <2>2, FS_Subset
    <3>5. Sum(v, G[t]) = Cardinality(G[t])
      BY <3>4, SumOfOnes
    <3> QED BY <1>0, <2>2, <3>3, <3>5
  <2>3. CASE Folded(t) /\ t # Min(G[t])
    <3>1. ASSUME NEW i \in S PROVE rep[i] # t
      <4>1. CASE Folded(i)
        BY <1>2, <2>3, <4>1
      <4>2. CASE ~Folded(i)
        BY <2>3, <4>2
      <4> QED BY <4>1, <4>2
    <3>2. fibre = {}
      BY <3>1
    <3> QED BY <1>0, <2>3, <3>2, SumEmpty
  <2> QED BY <2>1, <2>2, <2>3
<1> HIDE DEF S, rep
<1>5. Sum(w, S) = Sum(v, S)
  <2>1. \A i \in S : v[i] \in Int
    BY <1>0
  <2> DEFINE part == [t \in S |-> {i \in S : rep[i] = t}]
  <2>2. \A t \in S : part[t] = {i \in S : rep[i] = t} /\ w[t] = Sum(v, part[t])
    BY <1>4, Zenon
  <2> HIDE DEF part
  <2> QED BY <1>1, <1>3, <2>1, <2>2, SumByFibres
<1> QED BY <1>5 DEF S

(* Joined pieces that are not empty are at least as many lines as pieces;  *)
(* when they are no more, each piece is one line and stays in its place.   *)
LEMMA PiecesInPlace ==
    ASSUME NEW S, NEW ss \in Seq(Seq(S)), \A i \in 1 .. Len(ss) : Len(ss[i]) >= 1
    PROVE  /\ Len(FlattenSeq(ss)) >= Len(ss)
           /\ Len(FlattenSeq(ss)) = Len(ss) =>
                \A i \in 1 .. Len(ss) : FlattenSeq(ss)[i] = ss[i][1]
<1> DEFINE flat == FlattenSeq(ss)
           n == Len(ss)
<1>1. n \in Nat /\ \A i \in 1 .. n : Len(ss[i]) \in Nat /\ Len(ss[i]) >= 1
  OBVIOUS
<1>2. PICK at : Places(at, ss, flat)
  BY FlattenPlaces
<1> HIDE DEF flat
<1>3. /\ at \in [0 .. n -> Nat] /\ at[0] = 0 /\ Len(flat) = at[n]
      /\ \A i \in 1 .. n : at[i] = at[i - 1] + Len(ss[i])
      /\ \A i \in 1 .. n : \A k \in 1 .. Len(ss[i]) : flat[at[i - 1] + k] = ss[i][k]
  BY <1>2 DEF Places
<1> HIDE DEF n
<1> DEFINE Low == {i \in 0 .. n : at[i] >= i}
           High == {k \in 0 .. n : at[n - k] + k <= at[n]}
<1>4. \A i \in 0 .. n : at[i] >= i
  <2>1. 0 \in Low
    BY <1>1, <1>3
  <2>2. ASSUME NEW k \in 0 .. n - 1, k \in Low PROVE k + 1 \in Low
    <3>1. k + 1 \in 1 .. n /\ (k + 1) - 1 = k /\ k \in 0 .. n
      BY <1>1
    <3>2. at[k + 1] = at[k] + Len(ss[k + 1]) /\ at[k] >= k /\ at[k] \in Nat
      BY <1>3, <2>2, <3>1
    <3>3. Len(ss[k + 1]) \in Nat /\ Len(ss[k + 1]) >= 1
      BY <1>1, <3>1
    <3> QED BY <3>1, <3>2, <3>3
  <2>3. \A k \in 0 .. n : k \in Low
    <3> HIDE DEF Low
    <3> QED BY <1>1, <2>1, <2>2, UpTo
  <2> QED BY <2>3
<1>5. \A k \in 0 .. n : at[n - k] + k <= at[n]
  <2>1. 0 \in High
    BY <1>1, <1>3
  <2>2. ASSUME NEW k \in 0 .. n - 1, k \in High PROVE k + 1 \in High
    <3>1. n - k \in 1 .. n /\ (n - k) - 1 = n - (k + 1) /\ n - (k + 1) \in 0 .. n
          /\ k + 1 \in 0 .. n /\ n \in 0 .. n
      BY <1>1
    <3>2. at[n - k] = at[n - (k + 1)] + Len(ss[n - k]) /\ at[n - (k + 1)] \in Nat /\ at[n] \in Nat
      BY <1>3, <3>1
    <3>3. Len(ss[n - k]) \in Nat /\ Len(ss[n - k]) >= 1 /\ at[n - k] + k <= at[n]
      BY <1>1, <2>2, <3>1
    <3> DEFINE a == at[n - (k + 1)]
               l == Len(ss[n - k])
    <3>4. a \in Nat /\ l \in Nat /\ l >= 1 /\ at[n] \in Nat /\ (a + l) + k <= at[n]
      BY <3>2, <3>3
    <3> HIDE DEF a, l
    <3>5. a + (k + 1) <= at[n]
      BY <3>4
    <3> QED BY <3>1, <3>5 DEF a
  <2>3. \A k \in 0 .. n : k \in High
    <3> HIDE DEF High
    <3> QED BY <1>1, <2>1, <2>2, UpTo
  <2> QED BY <2>3
<1>6. n \in 0 .. n
  BY <1>1
<1>7. Len(flat) >= n
  BY <1>3, <1>4, <1>6
<1>8. ASSUME Len(flat) = n, NEW i \in 1 .. n PROVE flat[i] = ss[i][1]
  <2>1. i - 1 \in 0 .. n /\ n - (i - 1) \in 0 .. n /\ n - (n - (i - 1)) = i - 1 /\ 1 \in 1 .. Len(ss[i])
    BY <1>1
  <2>2. at[i - 1] + (n - (i - 1)) <= n /\ at[i - 1] >= i - 1 /\ at[i - 1] \in Nat
    BY <1>3, <1>4, <1>5, <1>8, <2>1
  <2>3. at[i - 1] + 1 = i
    <3> DEFINE a == at[i - 1]
    <3>1. a + (n - (i - 1)) <= n /\ a >= i - 1 /\ a \in Nat
      BY <2>2
    <3> HIDE DEF a
    <3>2. a + 1 = i
      BY <1>1, <3>1
    <3> QED BY <3>2 DEF a
  <2> QED BY <1>3, <2>1, <2>3
<1> QED BY <1>7, <1>8 DEF flat, n

(* What a piece of one line or two weighs.                                 *)
PieceWeighs(piece, n) ==
    \/ Len(piece) = 1 /\ n = LineWeight(piece[1])
    \/ Len(piece) = 2 /\ n = LineWeight(piece[1]) + LineWeight(piece[2])

(* Joined pieces of one line or two weigh what the pieces weigh.           *)
LEMMA PiecesWeigh ==
    ASSUME NEW S, NEW ss \in Seq(Seq(S)), \A l \in S : LineWeight(l) \in Int, NEW w,
           \A i \in 1 .. Len(ss) : PieceWeighs(ss[i], w[i])
    PROVE  TotalWeight(FlattenSeq(ss)) = Sum(w, 1 .. Len(ss))
<1> DEFINE flat == FlattenSeq(ss)
           n == Len(ss)
           f == Weights(flat)
<1>1. /\ n \in Nat /\ flat \in Seq(S) /\ Len(flat) \in Nat /\ DOMAIN flat = 1 .. Len(flat)
      /\ \A i \in 1 .. n : ss[i] \in Seq(S) /\ DOMAIN ss[i] = 1 .. Len(ss[i])
      /\ \A i \in DOMAIN flat : flat[i] \in S
  <2>1. flat \in Seq(S)
    BY FlattenPlaces
  <2> HIDE DEF flat
  <2> QED BY <2>1
<1>2. PICK at : Places(at, ss, flat)
  BY FlattenPlaces
<1> HIDE DEF flat
<1>3. /\ at \in [0 .. n -> Nat] /\ at[0] = 0 /\ Len(flat) = at[n]
      /\ \A i \in 1 .. n : at[i] = at[i - 1] + Len(ss[i])
      /\ \A i, j \in 0 .. n : i <= j => at[i] <= at[j]
      /\ \A i \in 1 .. n : \A k \in 1 .. Len(ss[i]) :
            at[i - 1] + k \in 1 .. Len(flat) /\ flat[at[i - 1] + k] = ss[i][k]
  BY <1>2 DEF Places
<1>4. \A i \in 1 .. Len(flat) : f[i] = LineWeight(flat[i]) /\ f[i] \in Int
  BY <1>1 DEF Weights
<1>0. ASSUME NEW i \in 1 .. n
      PROVE  \/ Len(ss[i]) = 1 /\ w[i] = LineWeight(ss[i][1])
             \/ Len(ss[i]) = 2 /\ w[i] = LineWeight(ss[i][1]) + LineWeight(ss[i][2])
  BY DEF PieceWeighs
<1>5. \A i \in 1 .. n : w[i] \in Int
  <2> TAKE i \in 1 .. n
  <2>1. \A k \in 1 .. Len(ss[i]) : LineWeight(ss[i][k]) \in Int
    BY <1>1
  <2>0. \/ Len(ss[i]) = 1 /\ w[i] = LineWeight(ss[i][1])
        \/ Len(ss[i]) = 2 /\ w[i] = LineWeight(ss[i][1]) + LineWeight(ss[i][2])
    BY <1>0
  <2>2. CASE Len(ss[i]) = 1
    BY <2>0, <2>1, <2>2
  <2>3. CASE Len(ss[i]) = 2
    <3>1. LineWeight(ss[i][1]) \in Int /\ LineWeight(ss[i][2]) \in Int
      BY <2>1, <2>3
    <3> QED BY <2>0, <2>3, <3>1
  <2> QED BY <2>0, <2>2, <2>3
<1> HIDE DEF n, f
<1> DEFINE Good == {i \in 0 .. n : Sum(f, 1 .. at[i]) = Sum(w, 1 .. i)}
<1>6. 0 \in Good
  <2>1. 1 .. at[0] = {} /\ 1 .. 0 = {} /\ 0 \in 0 .. n
    BY <1>1, <1>3
  <2>2. Sum(f, 1 .. at[0]) = 0 /\ Sum(w, 1 .. 0) = 0
    BY <2>1, SumEmpty
  <2> QED BY <2>1, <2>2
<1>7. ASSUME NEW k \in 0 .. n - 1, k \in Good PROVE k + 1 \in Good
  <2> DEFINE a == at[k]
  <2>1. k + 1 \in 1 .. n /\ (k + 1) - 1 = k /\ k \in 0 .. n /\ k + 1 \in 0 .. n /\ n \in 0 .. n
    BY <1>1
  <2>2. /\ a \in Nat /\ at[k + 1] = a + Len(ss[k + 1]) /\ at[k + 1] <= Len(flat)
        /\ \A j \in 1 .. Len(ss[k + 1]) : a + j \in 1 .. Len(flat) /\ flat[a + j] = ss[k + 1][j]
    <3>1. a \in Nat /\ at[k + 1] = a + Len(ss[k + 1])
      BY <1>3, <2>1
    <3>2. at[k + 1] <= Len(flat)
      <4>1. k + 1 <= n
        BY <1>1, <2>1
      <4> QED BY <1>3, <2>1, <4>1
    <3>3. \A j \in 1 .. Len(ss[k + 1]) : at[(k + 1) - 1] + j \in 1 .. Len(flat)
                                        /\ flat[at[(k + 1) - 1] + j] = ss[k + 1][j]
      BY <1>3, <2>1, Zenon
    <3> QED BY <2>1, <3>1, <3>2, <3>3
  <2> HIDE DEF a
  <2>3. Sum(w, 1 .. k + 1) = Sum(w, 1 .. k) + w[k + 1]
    <3>1. (1 .. k + 1) \ {k + 1} = 1 .. k /\ k + 1 \in 1 .. k + 1 /\ (1 .. k + 1) \subseteq 1 .. n
          /\ 1 \in Int /\ k + 1 \in Int
      BY <1>1, <2>1
    <3>2. IsFiniteSet(1 .. k + 1)
      BY <3>1, FS_Interval
    <3>3. \A x \in 1 .. k + 1 : w[x] \in Int
      BY <1>5, <3>1
    <3> DEFINE U == 1 .. k + 1
    <3>4. IsFiniteSet(U) /\ k + 1 \in U /\ \A x \in U : w[x] \in Int
      BY <3>1, <3>2, <3>3
    <3> HIDE DEF U
    <3>5. Sum(w, U) = Sum(w, U \ {k + 1}) + w[k + 1]
      BY <3>4, SumOfOneMore
    <3> QED BY <3>1, <3>5 DEF U
  <2>4. ASSUME NEW b \in Nat, b + 1 <= Len(flat)
        PROVE  Sum(f, 1 .. b + 1) = Sum(f, 1 .. b) + f[b + 1] /\ Sum(f, 1 .. b) \in Int
    <3>1. (1 .. b + 1) \ {b + 1} = 1 .. b /\ b + 1 \in 1 .. b + 1 /\ b + 1 \in Int /\ b \in Int /\ 1 \in Int
          /\ \A x \in 1 .. b + 1 : x \in 1 .. Len(flat)
      BY <1>1, <2>4
    <3>2. IsFiniteSet(1 .. b + 1) /\ IsFiniteSet(1 .. b)
      BY <3>1, FS_Interval
    <3>3. \A x \in 1 .. b + 1 : f[x] \in Int
      BY <1>4, <3>1
    <3>4. \A x \in 1 .. b : f[x] \in Int
      BY <3>1, <3>3
    <3> DEFINE U == 1 .. b + 1
               V == 1 .. b
    <3>5. /\ IsFiniteSet(U) /\ b + 1 \in U /\ \A x \in U : f[x] \in Int
          /\ IsFiniteSet(V) /\ \A x \in V : f[x] \in Int
      BY <3>1, <3>2, <3>3, <3>4
    <3> HIDE DEF U, V
    <3>6. Sum(f, U) = Sum(f, U \ {b + 1}) + f[b + 1] /\ Sum(f, V) \in Int
      BY <3>5, SumOfOneMore, SumIsInt
    <3> QED BY <3>1, <3>6 DEF U, V
  <2>5. CASE Len(ss[k + 1]) = 1 /\ w[k + 1] = LineWeight(ss[k + 1][1])
    <3>1. at[k + 1] = a + 1 /\ a + 1 <= Len(flat) /\ f[a + 1] = w[k + 1]
      BY <1>4, <2>2, <2>5
    <3>2. Sum(f, 1 .. a + 1) = Sum(f, 1 .. a) + f[a + 1]
      BY <2>2, <2>4, <3>1
    <3>3. Sum(f, 1 .. a) = Sum(w, 1 .. k)
      BY <1>7 DEF a
    <3> QED BY <2>1, <2>3, <3>1, <3>2, <3>3
  <2>6. CASE Len(ss[k + 1]) = 2
             /\ w[k + 1] = LineWeight(ss[k + 1][1]) + LineWeight(ss[k + 1][2])
    <3>1. /\ at[k + 1] = (a + 1) + 1 /\ a + 1 <= Len(flat) /\ (a + 1) + 1 <= Len(flat) /\ a + 1 \in Nat
          /\ f[a + 1] \in Int /\ f[(a + 1) + 1] \in Int /\ w[k + 1] = f[a + 1] + f[(a + 1) + 1]
      <4>1. at[k + 1] = a + 2 /\ (a + 1) + 1 = a + 2 /\ a + 1 \in 1 .. Len(flat) /\ a + 2 \in 1 .. Len(flat)
            /\ flat[a + 1] = ss[k + 1][1] /\ flat[a + 2] = ss[k + 1][2]
        BY <2>2, <2>6
      <4>2. f[a + 1] = LineWeight(ss[k + 1][1]) /\ f[a + 2] = LineWeight(ss[k + 1][2])
            /\ f[a + 1] \in Int /\ f[a + 2] \in Int
        BY <1>4, <4>1
      <4>3. w[k + 1] = f[a + 1] + f[a + 2]
        BY <2>6, <4>2
      <4>4. a + 1 <= Len(flat) /\ a + 2 <= Len(flat) /\ a + 1 \in Nat
        BY <1>1, <2>2, <4>1
      <4> QED BY <4>1, <4>2, <4>3, <4>4
    <3>2. Sum(f, 1 .. a + 1) = Sum(f, 1 .. a) + f[a + 1] /\ Sum(f, 1 .. a) \in Int
      BY <2>2, <2>4, <3>1
    <3>3. Sum(f, 1 .. (a + 1) + 1) = Sum(f, 1 .. a + 1) + f[(a + 1) + 1]
      BY <2>2, <2>4, <3>1
    <3>4. Sum(f, 1 .. a) = Sum(w, 1 .. k)
      BY <1>7 DEF a
    <3>5. Sum(f, 1 .. (a + 1) + 1) = Sum(f, 1 .. a) + w[k + 1]
      BY <3>1, <3>2, <3>3
    <3> QED BY <2>1, <2>3, <3>1, <3>4, <3>5
  <2> QED BY <1>0, <2>1, <2>5, <2>6
<1>8. \A i \in 0 .. n : i \in Good
  <2> HIDE DEF Good
  <2> QED BY <1>1, <1>6, <1>7, UpTo
<1>9. Sum(f, 1 .. Len(flat)) = Sum(w, 1 .. n)
  BY <1>1, <1>3, <1>8
<1>10. TotalWeight(flat) = Sum(f, 1 .. Len(flat))
  <2>1. IsFiniteSet(DOMAIN flat) /\ \A i \in DOMAIN flat : LineWeight(flat[i]) \in Int
    BY <1>1, FS_Interval
  <2> QED BY <1>1, <2>1, TotalWeightIsSum DEF f
<1> QED BY <1>9, <1>10 DEF flat, n

(* Lines nothing has folded yet stand for themselves.                      *)
LEMMA UnfoldedWeighs ==
    ASSUME NEW T, NEW m \in Mask(T), Unfolded(m)
    PROVE  /\ \A i \in DOMAIN m : /\ LineWeight(m[i]) \in {0, 1}
                                  /\ Is(m, i, "COMPRESS") \/ LineWeight(m[i]) = 1
           /\ TotalWeight(m) = Cardinality(Visible(m))
<1>1. ASSUME NEW i \in DOMAIN m
      PROVE  LineWeight(m[i]) = IF m[i].decision = "COMPRESS" THEN 0 ELSE 1
  <2>1. m[i].text.notes = <<>> /\ m[i].text.kind # "summary"
    BY DEF Unfolded
  <2>2. Times(m[i].text) = 1
    BY <2>1, TimesOfNotes
  <2> QED BY <2>1, <2>2 DEF LineWeight, Weight
<1>2. IsFiniteSet(DOMAIN m) /\ IsFiniteSet(Visible(m))
  BY SomePositions DEF Visible
<1>3. \A i \in Visible(m) : Weights(m)[i] = 1
  BY <1>1 DEF Visible, Decided, Weights
<1>4. TotalWeight(m) = Sum(Weights(m), Visible(m))
  BY <1>1, <1>2, TotalWeightIsSum
<1>5. Sum(Weights(m), Visible(m)) = Cardinality(Visible(m))
  BY <1>2, <1>3, SumOfOnes
<1> QED BY <1>1, <1>4, <1>5 DEF Is

(* preserve_patterns changes decisions, not texts.                         *)
LEMMA PreserveTyped ==
    ASSUME NEW T, NEW m \in Mask(T), NEW patterns
    PROVE  /\ Preserve(m, patterns) \in Mask(T)
           /\ Unfolded(m) => Unfolded(Preserve(m, patterns))
           /\ DOMAIN Preserve(m, patterns) = DOMAIN m /\ Len(Preserve(m, patterns)) = Len(m)
<1>1. Len(m) \in Nat /\ DOMAIN m = 1 .. Len(m) /\ \A i \in DOMAIN m : m[i] \in Line(T)
  BY DecidedLines
<1>2. Preserve(m, patterns) \in Mask(T)
  BY <1>1 DEF Preserve, LineOf, Line, Decisions, Mask
<1>3. DOMAIN Preserve(m, patterns) = DOMAIN m
      /\ \A i \in DOMAIN m : Preserve(m, patterns)[i].text = m[i].text
  BY DEF Preserve, LineOf
<1>4. Len(Preserve(m, patterns)) = Len(m)
  <2>1. Preserve(m, patterns) = [i \in 1 .. Len(m) |-> Preserve(m, patterns)[i]]
    BY <1>1, <1>3 DEF Preserve
  <2> QED BY <1>1, <2>1
<1> QED BY <1>2, <1>3, <1>4 DEF Unfolded

(* A mask whose lines stand for c lines of the original.                   *)
Accounts(n, c) ==
    /\ Len(n) \in Nat /\ DOMAIN n = 1 .. Len(n)
    /\ \A i \in DOMAIN n : LineWeight(n[i]) \in Int
    /\ TotalWeight(n) = c

(* Enforcement does not change what a mask stands for, where the stage     *)
(* left every protected line in place or changed the number of lines.      *)
LEMMA EnforcedWeight ==
    ASSUME NEW m, DOMAIN m = 1 .. Len(m), NEW n, NEW c, Accounts(n, c), Len(m) = Len(n) => Stands(m, n)
    PROVE  TotalWeight(EnforceProtect(m, n)) = c
<1>1. CASE Len(m) # Len(n)
  BY <1>1 DEF EnforceProtect, Accounts
<1>2. CASE Len(m) = Len(n)
  <2> DEFINE e == EnforceProtect(m, n)
             k == Len(n)
  <2>0. k \in Nat
    BY DEF Accounts
  <2>1. k \in Nat /\ DOMAIN n = 1 .. k /\ \A i \in 1 .. k : LineWeight(n[i]) \in Int
    BY DEF Accounts
  <2>2. /\ DOMAIN e = 1 .. k
        /\ \A i \in 1 .. k : e[i] = IF m[i].decision = "PROTECT" THEN LineOf(n[i].text, "PROTECT") ELSE n[i]
        /\ DOMAIN m = 1 .. k
        /\ \A i \in 1 .. k : m[i].decision = "PROTECT" => n[i].decision = "PROTECT"
    BY <1>2, <2>1 DEF EnforceProtect, Stands, Is
  <2> HIDE DEF e, k
  <2>3. \A i \in 1 .. k : LineWeight(e[i]) = LineWeight(n[i])
    BY <2>2 DEF LineWeight, LineOf
  <2>4. IsFiniteSet(1 .. k)
    <3>1. \A j \in Nat : IsFiniteSet(1 .. j)
      BY FS_Interval
    <3> QED BY <2>0, <3>1
  <2>5. TotalWeight(e) = Sum(Weights(e), 1 .. k) /\ TotalWeight(n) = Sum(Weights(n), 1 .. k)
    BY <2>1, <2>2, <2>3, <2>4, TotalWeightIsSum
  <2>6. Sum(Weights(e), 1 .. k) = Sum(Weights(n), 1 .. k)
    <3>1. \A i \in 1 .. k : Weights(n)[i] \in Int /\ Weights(e)[i] = Weights(n)[i]
      BY <2>1, <2>2, <2>3 DEF Weights
    <3> QED BY <2>4, <3>1, SumsAgree
  <2> QED BY <2>5, <2>6 DEF e, Accounts
<1> QED BY <1>1, <1>2

(* n has the lines of p in place, those of a group of F counted on its     *)
(* first.                                                                  *)
CountedInPlace(p, n, G, F) ==
    /\ n = [i \in DOMAIN p |-> n[i]]
    /\ \A i \in DOMAIN p : G[i] \in SUBSET (DOMAIN p)
    /\ \A i \in DOMAIN p : i \in G[i] => \A j \in G[i] : j \in G[j] /\ G[j] = G[i]
    /\ \A i \in DOMAIN p :
          IF i \in G[i] /\ G[i] \in F
          THEN /\ Is(p, i, "KEEP")
               /\ LineWeight(n[i]) = (IF i = Min(G[i]) THEN Cardinality(G[i]) ELSE 0)
          ELSE LineWeight(n[i]) = LineWeight(p[i])

(* A stage that counts so accounts for the lines it was given.             *)
LEMMA InPlaceCounts ==
    ASSUME NEW T, NEW p \in Mask(T), Unfolded(p), NEW n, NEW G, NEW F, CountedInPlace(p, n, G, F)
    PROVE  Accounts(n, Cardinality(Visible(p)))
<1> DEFINE v == Weights(p)
           w == Weights(n)
           k == Len(p)
<1>0. /\ k \in Nat /\ DOMAIN p = 1 .. k
      /\ n = [i \in 1 .. k |-> n[i]]
      /\ \A i \in 1 .. k : G[i] \in SUBSET (1 .. k)
      /\ \A i \in 1 .. k : i \in G[i] => \A j \in G[i] : j \in G[j] /\ G[j] = G[i]
      /\ \A i \in 1 .. k :
            IF i \in G[i] /\ G[i] \in F
            THEN /\ Is(p, i, "KEEP")
                 /\ LineWeight(n[i]) = (IF i = Min(G[i]) THEN Cardinality(G[i]) ELSE 0)
            ELSE LineWeight(n[i]) = LineWeight(p[i])
  <2>1. k \in Nat /\ DOMAIN p = 1 .. k
    BY DecidedLines
  <2> HIDE DEF k
  <2> QED BY <2>1 DEF CountedInPlace
<1>1. k \in Nat /\ DOMAIN p = 1 .. k /\ DOMAIN n = 1 .. k /\ IsFiniteSet(1 .. k)
  <2>1. DOMAIN n = 1 .. k
    BY <1>0
  <2> HIDE DEF k
  <2> QED BY <1>0, <2>1, FS_Interval
<1>2. \A i \in 1 .. k : v[i] = LineWeight(p[i]) /\ w[i] = LineWeight(n[i])
  BY <1>1 DEF Weights
<1>3. \A i \in 1 .. k : LineWeight(p[i]) \in Nat /\ (Is(p, i, "KEEP") => LineWeight(p[i]) = 1)
  BY <1>1, UnfoldedWeighs DEF Is
<1>4. \A i \in 1 .. k : LineWeight(n[i]) \in Nat
  <2>1. \A i \in 1 .. k : Cardinality(G[i]) \in Nat
    BY <1>0, <1>1, SomePositions
  <2> QED BY <1>0, <1>3, <2>1
<1> HIDE DEF v, w, k
<1>5. Sum(w, 1 .. k) = Sum(v, 1 .. k)
  <2>1. GroupsCount(k, G, F, v, w)
    BY <1>0, <1>2, <1>3 DEF GroupsCount
  <2> QED BY <1>1, <2>1, GroupsCountOnce
<1>6. TotalWeight(n) = Sum(w, 1 .. k) /\ TotalWeight(p) = Sum(v, 1 .. k)
  BY <1>1, <1>3, <1>4, TotalWeightIsSum DEF v, w
<1>7. TotalWeight(n) = Cardinality(Visible(p))
  BY <1>5, <1>6, UnfoldedWeighs
<1>8. Len(n) = k
  BY <1>0
<1> QED BY <1>1, <1>4, <1>7, <1>8 DEF Accounts

(* What a line a stage writes in place of n lines stands for.              *)
LEMMA WrittenWeighs ==
    ASSUME NEW what \in {"more", "range", "omitted", "elements"}, NEW n, NEW l
    PROVE  LineWeight(Rewrite(Summary(what, n))) = n /\ LineWeight(Hide(l)) = 0
BY DEF LineWeight, Weight, Rewrite, Hide, LineOf, Summary

(* numeric_range_compression: a range counts its lines.                    *)
LEMMA NumericRangeCounts ==
    ASSUME NEW T, \A t \in T : t.num \in Int, NEW m \in Mask(T), Unfolded(m), NEW e
    PROVE  Accounts(NumericRange(m, e), Cardinality(Visible(Preserve(m, e.preserve))))
<1> DEFINE p == Preserve(m, e.preserve)
           n == NumericRange(m, e)
           k == Len(p)
           belongs(i, j) ==
               /\ Is(p, j, "KEEP") /\ p[j].text.kind = "int"
               /\ p[j].text.notes = <<>> /\ p[j].text.skin = "plain"
               /\ Digits(p[j].text.num) = Digits(p[i].text.num)
               /\ p[j].text.num + i = p[i].text.num + j
           folds(run) == Cardinality(run) >= 2 /\ SummaryTokens < TotalSize(p, run)
           run == [i \in 1 .. k |-> RunOf(p, belongs, i)]
           r == {c \in (1 .. k) \X (1 .. k) : belongs(c[1], c[2])}
           F == {g \in SUBSET (1 .. k) : folds(g)}
<1>1. p \in Mask(T) /\ Unfolded(p)
  BY PreserveTyped
<1>2. k \in Nat /\ DOMAIN p = 1 .. k /\ \A i \in 1 .. k : p[i].text.num \in Int
  <2>1. k \in Nat /\ DOMAIN p = 1 .. k /\ \A i \in DOMAIN p : p[i] \in Line(T)
    BY <1>1, DecidedLines
  <2> HIDE DEF p, k
  <2> QED BY <2>1 DEF Line
<1>3. /\ n = [i \in 1 .. k |-> n[i]]
      /\ \A i \in 1 .. k :
            n[i] = IF i \notin run[i] \/ ~folds(run[i]) THEN p[i] ELSE RangeLine(p, run[i], i)
  BY <1>2 DEF NumericRange
<1> HIDE DEF p, n, k
<1>4. \A i, j \in 1 .. k : Between(i, j) \in SUBSET (1 .. k)
  BY <1>2 DEF Between
<1>5. \A i, j \in 1 .. k : <<i, j>> \in r <=> belongs(i, j)
  OBVIOUS
<1>6. ASSUME NEW a \in 1 .. k, NEW b \in 1 .. k, NEW c \in 1 .. k, belongs(a, b), belongs(a, c)
      PROVE  belongs(b, c)
  <2> DEFINE f == p[a].text.num
             g == p[b].text.num
             h == p[c].text.num
  <2>1. f \in Int /\ g \in Int /\ h \in Int /\ g + a = f + b /\ h + a = f + c
    BY <1>2, <1>6
  <2> HIDE DEF f, g, h
  <2>3. h + b = g + c
    BY <1>2, <2>1
  <2>2. p[c].text.num + b = p[b].text.num + c
    BY <2>3 DEF f, g, h
  <2> QED BY <1>6, <2>2
<1>7. \A i \in 1 .. k : /\ run[i] \in SUBSET (1 .. k)
                        /\ run[i] = {j \in 1 .. k : \A x \in Between(i, j) : <<i, x>> \in r}
                        /\ i \in run[i] => Is(p, i, "KEEP")
  <2> TAKE i \in 1 .. k
  <2>1. run[i] = {j \in 1 .. k : \A x \in Between(i, j) : belongs(i, x)}
    BY <1>2 DEF RunOf
  <2>2. i \in Between(i, i)
    BY <1>2 DEF Between
  <2> HIDE DEF run, r, belongs
  <2>3. run[i] = {j \in 1 .. k : \A x \in Between(i, j) : <<i, x>> \in r}
    BY <1>4, <1>5, <2>1
  <2>4. i \in run[i] => belongs(i, i)
    BY <2>1, <2>2
  <2> QED BY <2>1, <2>3, <2>4 DEF belongs
<1> HIDE DEF run, belongs
<1>8. \A i \in 1 .. k : i \in run[i] => \A j \in run[i] : j \in run[j] /\ run[j] = run[i]
  <2>1. \A a, b, c \in 1 .. k : <<a, b>> \in r /\ <<a, c>> \in r => <<b, c>> \in r
    BY <1>5, <1>6
  <2>2. RunsBy(k, r, run)
    BY <1>7, <2>1 DEF RunsBy
  <2> HIDE DEF r
  <2> QED BY <1>2, <2>2, RunsAreClasses
<1>9. \A i \in 1 .. k : i \in run[i] /\ run[i] \in F =>
         LineWeight(n[i]) = (IF i = Min(run[i]) THEN Cardinality(run[i]) ELSE 0)
  <2> TAKE i \in 1 .. k
  <2> HAVE i \in run[i] /\ run[i] \in F
  <2>1. n[i] = RangeLine(p, run[i], i)
    BY <1>3
  <2> QED BY <2>1, WrittenWeighs DEF RangeLine
<1>10. \A i \in 1 .. k : ~(i \in run[i] /\ run[i] \in F) => n[i] = p[i]
  BY <1>3, <1>7
<1> HIDE DEF F
<1>11. Accounts(n, Cardinality(Visible(p)))
  <2>1. CountedInPlace(p, n, run, F)
    BY <1>2, <1>3, <1>7, <1>8, <1>9, <1>10 DEF CountedInPlace
  <2> QED BY <1>1, <2>1, InPlaceCounts
<1> QED BY <1>11 DEF n, p

(* collapse_unchanged_context: the placeholder counts what it replaces.    *)
LEMMA CollapseUnchangedCounts ==
    ASSUME NEW T, NEW m \in Mask(T), Unfolded(m), NEW e
    PROVE  Accounts(CollapseUnchanged(m, e), Cardinality(Visible(m)))
<1> DEFINE n == CollapseUnchanged(m, e)
           k == Len(m)
           belongs(i, j) == Is(m, j, "KEEP")
           middle(run) == {i \in run : /\ i >= Min(run) + e.context_lines
                                       /\ i <= Max(run) - e.context_lines}
           collapses(mid) == mid # {} /\ SummaryTokens < TotalSize(m, mid)
           run == [i \in 1 .. k |-> RunOf(m, belongs, i)]
           r == {c \in (1 .. k) \X (1 .. k) : belongs(c[1], c[2])}
           G == [i \in 1 .. k |-> IF Is(m, i, "KEEP") THEN middle(run[i]) ELSE {}]
           F == {mid \in SUBSET (1 .. k) : collapses(mid)}
<1>1. k \in Nat /\ DOMAIN m = 1 .. k
  BY DecidedLines
<1>2. /\ n = [i \in 1 .. k |-> n[i]]
      /\ \A i \in 1 .. k :
            n[i] = IF i \notin G[i] \/ ~collapses(G[i]) THEN m[i]
                   ELSE IF i = Min(G[i]) THEN Rewrite(Summary("omitted", Cardinality(G[i])))
                   ELSE Hide(m[i])
  BY <1>1 DEF CollapseUnchanged
<1> HIDE DEF n, k
<1>3. \A i, j \in 1 .. k : Between(i, j) \in SUBSET (1 .. k) /\ i \in Between(i, i)
  BY <1>1 DEF Between
<1>4. \A i, j \in 1 .. k : <<i, j>> \in r <=> Is(m, j, "KEEP")
  OBVIOUS
<1>5. \A i \in 1 .. k : /\ run[i] \in SUBSET (1 .. k)
                        /\ run[i] = {j \in 1 .. k : \A x \in Between(i, j) : <<i, x>> \in r}
  <2> TAKE i \in 1 .. k
  <2>1. run[i] = {j \in 1 .. k : \A x \in Between(i, j) : Is(m, x, "KEEP")}
    BY <1>1 DEF RunOf
  <2> HIDE DEF run, r
  <2> QED BY <1>3, <1>4, <2>1
<1>6. \A i \in 1 .. k : i \in run[i] => \A j \in run[i] : j \in run[j] /\ run[j] = run[i]
  <2>1. RunsBy(k, r, run)
    <3> HIDE DEF run, r
    <3> QED BY <1>4, <1>5 DEF RunsBy
  <2> HIDE DEF r, run
  <2> QED BY <1>1, <2>1, RunsAreClasses
<1>7. \A i \in 1 .. k : i \in run[i] => Is(m, i, "KEEP")
  <2> HIDE DEF run, r
  <2> QED BY <1>3, <1>4, <1>5
<1>8. \A i \in 1 .. k : /\ G[i] \in SUBSET run[i]
                        /\ i \in G[i] => Is(m, i, "KEEP")
                        /\ Is(m, i, "KEEP") => G[i] = middle(run[i])
  <2> HIDE DEF run
  <2> QED OBVIOUS
<1> HIDE DEF run, r, G, middle
<1>9. \A i \in 1 .. k : i \in G[i] => \A j \in G[i] : j \in G[j] /\ G[j] = G[i]
  <2> SUFFICES ASSUME NEW i \in 1 .. k, i \in G[i], NEW j \in G[i] PROVE j \in G[j] /\ G[j] = G[i]
    OBVIOUS
  <2>1. i \in run[i] /\ j \in run[i] /\ j \in 1 .. k /\ Is(m, i, "KEEP")
    BY <1>5, <1>8
  <2>2. run[j] = run[i] /\ Is(m, j, "KEEP")
    BY <1>6, <1>7, <2>1
  <2> QED BY <1>8, <2>1, <2>2
<1>10. \A i \in 1 .. k : i \in G[i] /\ G[i] \in F =>
         LineWeight(n[i]) = (IF i = Min(G[i]) THEN Cardinality(G[i]) ELSE 0)
  <2> TAKE i \in 1 .. k
  <2> HAVE i \in G[i] /\ G[i] \in F
  <2>1. n[i] = IF i = Min(G[i]) THEN Rewrite(Summary("omitted", Cardinality(G[i]))) ELSE Hide(m[i])
    BY <1>2
  <2> QED BY <2>1, WrittenWeighs
<1>11. \A i \in 1 .. k : ~(i \in G[i] /\ G[i] \in F) => n[i] = m[i]
  BY <1>2, <1>5, <1>8
<1> HIDE DEF F
<1>12. Accounts(n, Cardinality(Visible(m)))
  <2>1. CountedInPlace(m, n, G, F)
    BY <1>1, <1>2, <1>5, <1>8, <1>9, <1>10, <1>11 DEF CountedInPlace
  <2> QED BY <2>1, InPlaceCounts
<1> QED BY <1>12 DEF n

(* relative_timestamp_compression: a line still stands for itself.         *)
LEMMA RelativeTimestampsCount ==
    ASSUME NEW Bodies, NEW Dirs, NEW T, T = LineTexts(Bodies, Dirs),
           NEW m \in Mask(T), Unfolded(m), NEW e
    PROVE  Accounts(RelativeTimestamps(m, e), Cardinality(Visible(Preserve(m, e.preserve))))
<1> DEFINE p == Preserve(m, e.preserve)
           n == RelativeTimestamps(m, e)
           k == Len(p)
           G == [i \in 1 .. k |-> {}]
<1>1. p \in Mask(T) /\ Unfolded(p)
  BY PreserveTyped
<1>2. k \in Nat /\ DOMAIN p = 1 .. k
  BY <1>1, DecidedLines
<1>3. n = [i \in 1 .. k |-> n[i]]
  BY <1>2 DEF RelativeTimestamps
<1>4. \A i \in 1 .. k :
         \/ n[i] = p[i]
         \/ /\ Is(p, i, "KEEP") /\ n[i].decision = "KEEP"
            /\ n[i].text.kind = "delta" /\ n[i].text.notes = p[i].text.notes
  <2> TAKE i \in 1 .. k
  <2> DEFINE stamped(j) == Is(p, j, "KEEP") /\ p[j].text.kind = "time"
             forward(a, j) ==
                 \A x \in Between(a, j) \ {Min({a, j})} : p[x - 1].text.num <= p[x].text.num
             belongs(a, j) == (\A x \in Between(a, j) : stamped(x)) /\ forward(a, j)
             run == RunOf(p, belongs, i)
             delta == [p[i].text EXCEPT !.kind = "delta",
                                        !.size = IF @ > 1 THEN @ - 1 ELSE 1,
                                        !.num = @ - p[i - 1].text.num]
  <2>1. n[i] = p[i] \/ (i \in run /\ n[i] = Rewrite(delta))
    BY <1>2 DEF RelativeTimestamps
  <2>2. i \in Between(i, i)
    BY <1>2 DEF Between
  <2>3. i \in run => belongs(i, i)
    BY <1>2, <2>2 DEF RunOf
  <2>4. i \in run => Is(p, i, "KEEP")
    BY <2>2, <2>3
  <2>5. Rewrite(delta).decision = "KEEP" /\ Rewrite(delta).text = delta
    BY DEF Rewrite, LineOf
  <2>6. delta.kind = "delta" /\ delta.notes = p[i].text.notes
    <3> DEFINE t == p[i].text
    <3>1. t \in LineTexts(Bodies, Dirs)
      BY <1>1, <1>2, DecidedLines DEF Line
    <3> HIDE DEF t, p
    <3> QED BY <3>1 DEF LineTexts, t
  <2> HIDE DEF run, delta
  <2> QED BY <2>1, <2>4, <2>5, <2>6
<1>5. \A i \in 1 .. k : LineWeight(n[i]) = LineWeight(p[i])
  <2> TAKE i \in 1 .. k
  <2>1. CASE n[i] = p[i]
    BY <2>1
  <2>2. CASE Is(p, i, "KEEP") /\ n[i].decision = "KEEP"
             /\ n[i].text.kind = "delta" /\ n[i].text.notes = p[i].text.notes
    <3>1. p[i].text.notes = <<>> /\ p[i].text.kind # "summary"
      BY <1>1, <1>2 DEF Unfolded
    <3>2. Times(n[i].text) = 1 /\ Times(p[i].text) = 1
      BY <2>2, <3>1, TimesOfNotes
    <3> QED BY <2>2, <3>1, <3>2 DEF LineWeight, Weight, Is
  <2> QED BY <1>4, <2>1, <2>2
<1> HIDE DEF p, n, k
<1>6. CountedInPlace(p, n, G, {})
  BY <1>2, <1>3, <1>5 DEF CountedInPlace
<1> HIDE DEF G
<1>7. Accounts(n, Cardinality(Visible(p)))
  BY <1>1, <1>6, InPlaceCounts
<1> QED BY <1>7 DEF n, p

(* path_prefix_fold: the suffixes stand for the lines, the header for      *)
(* none of them.                                                           *)
LEMMA PathPrefixFoldCounts ==
    ASSUME NEW Bodies, NEW Dirs, NEW T, T = LineTexts(Bodies, Dirs),
           NEW m \in Mask(T), Unfolded(m), NEW e, e.patterns # {}
    PROVE  /\ Accounts(PathPrefixFold(m, e), Cardinality(Visible(Preserve(m, e.preserve))))
           /\ Len(PathPrefixFold(m, e)) = Len(m) => Stands(m, PathPrefixFold(m, e))
<1> DEFINE p == Preserve(m, e.preserve)
           k == Len(p)
           belongs(i, j) == Is(p, j, "KEEP") /\ MatchesAny(p[j].text, e.patterns)
           child(t) == [t EXCEPT !.dir = NoDir,
                                 !.size = IF @ > DirTokens THEN @ - DirTokens ELSE 1]
           folded(run) ==
               SummaryTokens + FoldSet(LAMBDA i, sum : sum + child(p[i].text).size, 0, run)
           folds(run) ==
               /\ Cardinality(run) >= 2
               /\ \A i, j \in run : p[i].text.dir = p[j].text.dir /\ p[i].text.dir # NoDir
               /\ folded(run) < TotalSize(p, run)
           header(run) ==
               Rewrite([Summary("entries", Cardinality(run))
                           EXCEPT !.dir = p[Min(run)].text.dir])
           run(i) == RunOf(p, belongs, i)
           piece(i) ==
               IF i \notin run(i) \/ ~folds(run(i)) THEN <<p[i]>>
               ELSE IF i = Min(run(i)) THEN <<header(run(i)), Rewrite(child(p[i].text))>>
               ELSE <<Rewrite(child(p[i].text))>>
           ss == [i \in DOMAIN p |-> piece(i)]
           S == {p[i] : i \in DOMAIN p} \union {header(run(i)) : i \in DOMAIN p}
                    \union {Rewrite(child(p[i].text)) : i \in DOMAIN p}
           flat == FlattenSeq(ss)
           w == Weights(p)
<1>1. p \in Mask(T) /\ Unfolded(p) /\ DOMAIN p = DOMAIN m
  BY PreserveTyped
<1>2. k \in Nat /\ DOMAIN p = 1 .. k /\ DOMAIN m = 1 .. Len(m) /\ Len(m) = k
  BY <1>1, DecidedLines
<1>3. PathPrefixFold(m, e) = flat
  BY DEF PathPrefixFold, Pieces
<1>4. Stands(m, p)
  BY PreserveStands
<1> HIDE DEF p
<1>5. ASSUME NEW i \in 1 .. k
      PROVE  /\ LineWeight(p[i]) \in Int
             /\ LineWeight(header(run(i))) = 0
             /\ LineWeight(Rewrite(child(p[i].text))) = 1
             /\ i \in run(i) => LineWeight(p[i]) = 1 /\ ~Is(p, i, "PROTECT")
  <2>1. p[i].text.notes = <<>> /\ p[i].text.kind # "summary" /\ p[i].text \in T
    BY <1>1, <1>2, DecidedLines DEF Unfolded, Line
  <2>2. child(p[i].text).notes = <<>> /\ child(p[i].text).kind # "summary"
    <3> DEFINE t == p[i].text
    <3>1. t \in LineTexts(Bodies, Dirs) /\ t.notes = <<>> /\ t.kind # "summary"
      BY <2>1
    <3> HIDE DEF t
    <3>2. child(t).notes = t.notes /\ child(t).kind = t.kind
      BY <3>1 DEF LineTexts
    <3> QED BY <3>1, <3>2 DEF t
  <2>3. LineWeight(Rewrite(child(p[i].text))) = 1
    <3> HIDE DEF child
    <3> QED BY <2>2, TimesOfNotes DEF LineWeight, Weight, Rewrite, LineOf
  <2>4. LineWeight(header(run(i))) = 0
    <3> HIDE DEF run
    <3> QED BY DEF LineWeight, Weight, Rewrite, LineOf, Summary
  <2>5. i \in run(i) => Is(p, i, "KEEP")
    BY <1>2 DEF RunOf, Between
  <2>6. LineWeight(p[i]) \in {0, 1} /\ (Is(p, i, "COMPRESS") \/ LineWeight(p[i]) = 1)
    BY <1>1, <1>2, UnfoldedWeighs
  <2> HIDE DEF run, header, child
  <2> QED BY <2>3, <2>4, <2>5, <2>6 DEF Is
<1>6. ASSUME NEW i \in 1 .. k
      PROVE  /\ ss[i] \in Seq(S) /\ Len(ss[i]) >= 1 /\ PieceWeighs(ss[i], w[i])
             /\ i \notin run(i) => ss[i] = <<p[i]>>
  <2>1. ss[i] = piece(i) /\ w[i] = LineWeight(p[i])
    BY <1>2 DEF Weights
  <2>2. p[i] \in S /\ header(run(i)) \in S /\ Rewrite(child(p[i].text)) \in S
    BY <1>2
  <2> HIDE DEF S, header, child, folds, run, ss, w
  <2>3. \A a, b \in S : /\ <<a>> \in Seq(S) /\ Len(<<a>>) = 1 /\ <<a>>[1] = a
                        /\ <<a, b>> \in Seq(S) /\ Len(<<a, b>>) = 2
                        /\ <<a, b>>[1] = a /\ <<a, b>>[2] = b
    OBVIOUS
  <2>4. CASE i \notin run(i) \/ ~folds(run(i))
    <3>1. ss[i] = <<p[i]>>
      BY <2>1, <2>4
    <3>2. ss[i] \in Seq(S) /\ Len(ss[i]) = 1 /\ ss[i][1] = p[i]
      BY <2>2, <2>3, <3>1
    <3> QED BY <2>1, <3>1, <3>2 DEF PieceWeighs
  <2>5. CASE i \in run(i) /\ folds(run(i)) /\ i = Min(run(i))
    <3>1. ss[i] = <<header(run(i)), Rewrite(child(p[i].text))>>
      BY <2>1, <2>5
    <3> QED BY <1>5, <2>1, <2>2, <2>3, <2>5, <3>1 DEF PieceWeighs
  <2>6. CASE i \in run(i) /\ folds(run(i)) /\ i # Min(run(i))
    <3>1. ss[i] = <<Rewrite(child(p[i].text))>>
      BY <2>1, <2>6
    <3> QED BY <1>5, <2>1, <2>2, <2>3, <2>6, <3>1 DEF PieceWeighs
  <2> QED BY <2>4, <2>5, <2>6
<1>7. \A l \in S : LineWeight(l) \in Int
  <2> HIDE DEF header, child, run
  <2> QED BY <1>2, <1>5
<1>8. ss \in Seq(Seq(S)) /\ Len(ss) = k
  <2>1. ss = [i \in 1 .. k |-> ss[i]]
    BY <1>2
  <2> HIDE DEF ss, S, run, k
  <2> QED BY <1>2, <1>6, <2>1
<1>9. \A i \in 1 .. k : i \in run(i) => ~Is(p, i, "PROTECT")
  <2> HIDE DEF run
  <2> QED BY <1>5
<1> DEFINE moved(i) == i \in run(i)
<1>10. /\ \A i \in 1 .. k : PieceWeighs(ss[i], w[i]) /\ Len(ss[i]) >= 1
       /\ \A i \in 1 .. k : Is(p, i, "PROTECT") => ss[i] = <<p[i]>>
  <2> HIDE DEF ss, w, run
  <2> QED BY <1>6, <1>9
<1> HIDE DEF ss, S, w, k
<1>11. /\ flat \in Seq(S)
       /\ TotalWeight(flat) = Sum(w, 1 .. k)
       /\ Len(flat) = k => \A i \in 1 .. k : flat[i] = ss[i][1]
  BY <1>7, <1>8, <1>10, PiecesWeigh, PiecesInPlace, FlattenPlaces
<1>12. Sum(w, 1 .. k) = Cardinality(Visible(p))
  <2>1. \A i \in DOMAIN p : LineWeight(p[i]) \in Int
    BY <1>2, <1>5
  <2>2. IsFiniteSet(DOMAIN p)
    BY <1>2, FS_Interval
  <2> QED BY <1>1, <1>2, <2>1, <2>2, TotalWeightIsSum, UnfoldedWeighs DEF w
<1> HIDE DEF flat
<1>13. Accounts(flat, Cardinality(Visible(p)))
  BY <1>7, <1>11, <1>12 DEF Accounts
<1>14. ASSUME Len(flat) = k PROVE Stands(m, flat)
  <2>1. DOMAIN flat = DOMAIN m
    BY <1>2, <1>11, <1>14
  <2>2. \A i \in DOMAIN m : Is(p, i, "PROTECT") => flat[i] = p[i]
    BY <1>2, <1>10, <1>11, <1>14
  <2> QED BY <1>4, <2>1, <2>2 DEF Stands, Is
<1> QED BY <1>2, <1>3, <1>13, <1>14 DEF p

(* Being alike is an equivalence.                                          *)
LEMMA AlikeIsEquivalence ==
    ASSUME NEW e
    PROVE  /\ \A s : Alike(e, s, s)
           /\ \A s, t, u : Alike(e, s, t) /\ Alike(e, s, u) => Alike(e, t, u)
BY DEF Alike, SameButLocation

(* Lines whose texts, where one of bodies, nothing has folded yet.         *)
FreshLines(T, bodies) ==
    {l \in Line(T) : /\ LineWeight(l) \in Nat
                     /\ l.decision = "KEEP" /\ l.text.body \in bodies =>
                            l.text.notes = <<>> /\ l.text.kind # "summary"}

(* The groups of one pass.                                                 *)
Grouped(m, e, pattern, k, G) ==
    DOMAIN m = 1 .. k /\ \A i \in 1 .. k : G[i] = Group(m, e, pattern, i)

(* A group is the group of every line in it.                               *)
LEMMA GroupsAreClasses ==
    ASSUME NEW k \in Nat, NEW m, NEW e, NEW pattern, NEW G, Grouped(m, e, pattern, k, G)
    PROVE  /\ \A i \in 1 .. k : G[i] \in SUBSET (1 .. k)
           /\ \A i \in 1 .. k : i \in G[i] => /\ Is(m, i, "KEEP") /\ m[i].text.body \in pattern
                                             /\ \A j \in G[i] : j \in G[j] /\ G[j] = G[i]
<1> DEFINE belongs(i, j) == /\ Is(m, j, "KEEP")
                            /\ m[j].text.body \in pattern
                            /\ Alike(e, m[i].text, m[j].text)
           r == {c \in (1 .. k) \X (1 .. k) : belongs(c[1], c[2])}
<1>1. \A i, j \in 1 .. k : <<i, j>> \in r <=> belongs(i, j)
  OBVIOUS
<1>2. \A a, b, c \in 1 .. k : belongs(a, b) /\ belongs(a, c) => belongs(b, c)
  BY AlikeIsEquivalence
<1>3. \A i, j \in 1 .. k : Between(i, j) \in SUBSET (1 .. k) /\ i \in Between(i, j) /\ j \in Between(i, j)
  BY DEF Between
<1>4. \A i \in 1 .. k : G[i] = IF e.scope = "global" THEN {j \in 1 .. k : belongs(i, j)}
                               ELSE RunOf(m, belongs, i)
  BY DEF Group, Grouped
<1>5. \A i \in 1 .. k : RunOf(m, belongs, i) = {j \in 1 .. k : \A x \in Between(i, j) : belongs(i, x)}
  BY DEF RunOf, Grouped
<1>6. \A i \in 1 .. k : G[i] \in SUBSET (1 .. k) /\ \A j \in G[i] : belongs(i, j)
  <2> TAKE i \in 1 .. k
  <2> HIDE DEF belongs
  <2>1. CASE e.scope = "global"
    <3>1. G[i] = {j \in 1 .. k : belongs(i, j)}
      BY <1>4, <2>1
    <3> QED BY <3>1
  <2>2. CASE e.scope # "global"
    <3>1. G[i] = {j \in 1 .. k : \A x \in Between(i, j) : belongs(i, x)}
      BY <1>4, <1>5, <2>2
    <3> QED BY <1>3, <3>1
  <2> QED BY <2>1, <2>2
<1>7. \A i \in 1 .. k : i \in G[i] => \A j \in G[i] : j \in G[j] /\ G[j] = G[i]
  <2>1. CASE e.scope = "global"
    <3> SUFFICES ASSUME NEW i \in 1 .. k, i \in G[i], NEW j \in G[i] PROVE j \in G[j] /\ G[j] = G[i]
      OBVIOUS
    <3>1. G[i] = {x \in 1 .. k : belongs(i, x)}
      BY <1>4, <2>1
    <3>2. j \in 1 .. k /\ belongs(i, j) /\ belongs(i, i)
      BY <3>1
    <3>3. G[j] = {x \in 1 .. k : belongs(j, x)}
      BY <1>4, <2>1, <3>2
    <3>4. belongs(j, i)
      BY <1>2, <3>2
    <3>5. \A x \in 1 .. k : belongs(i, x) <=> belongs(j, x)
      BY <1>2, <3>2, <3>4
    <3> HIDE DEF belongs
    <3> QED BY <3>1, <3>2, <3>3, <3>5
  <2>2. CASE e.scope # "global"
    <3>1. \A a, b, c \in 1 .. k : <<a, b>> \in r /\ <<a, c>> \in r => <<b, c>> \in r
      <4> HIDE DEF belongs, r
      <4> QED BY <1>1, <1>2
    <3>2. \A i \in 1 .. k : G[i] = {j \in 1 .. k : \A x \in Between(i, j) : <<i, x>> \in r}
      <4> TAKE i \in 1 .. k
      <4> HIDE DEF belongs, r
      <4>1. G[i] = {j \in 1 .. k : \A x \in Between(i, j) : belongs(i, x)}
        BY <1>4, <1>5, <2>2
      <4> QED BY <1>1, <1>3, <4>1
    <3>3. RunsBy(k, r, G)
      <4> HIDE DEF r
      <4> QED BY <3>1, <3>2 DEF RunsBy
    <3> HIDE DEF r
    <3> QED BY <3>3, RunsAreClasses
  <2> QED BY <2>1, <2>2
<1> QED BY <1>6, <1>7

(* One pass accounts for every line, and leaves the lines of the patterns  *)
(* to come as they were.                                                   *)
LEMMA PassCounts ==
    ASSUME SummaryTokens \in Nat, NEW Bodies, NEW Dirs, Written \subseteq Bodies, NoDir \in Dirs,
           NEW T, T = LineTexts(Bodies, Dirs), NEW e, NEW pattern, NEW later,
           pattern \intersect later = {}, "more" \notin later,
           NEW m \in Seq(FreshLines(T, pattern \union later))
    PROVE  /\ Pass(e, pattern, m) \in Seq(FreshLines(T, later))
           /\ TotalWeight(Pass(e, pattern, m)) = TotalWeight(m)
           /\ Len(Pass(e, pattern, m)) >= Len(m)
           /\ Len(Pass(e, pattern, m)) = Len(m) => Stands(m, Pass(e, pattern, m))
<1> DEFINE k == Len(m)
           G == [i \in 1 .. k |-> Group(m, e, pattern, i)]
           ss == [i \in 1 .. k |-> GroupedPiece(m, e, G[i], i)]
           F == {g \in SUBSET (1 .. k) : ~(Cardinality(g) < e.min_count)}
           v == Weights(m)
           w == [i \in 1 .. k |-> IF i \in G[i] /\ G[i] \in F
                                  THEN IF i = Min(G[i]) THEN Cardinality(G[i]) ELSE 0
                                  ELSE v[i]]
           S == FreshLines(T, later)
           new == FlattenSeq(ss)
<1>1. /\ k \in Nat /\ DOMAIN m = 1 .. k /\ m \in Mask(T)
      /\ \A i \in 1 .. k : /\ m[i] \in Line(T) /\ LineWeight(m[i]) \in Nat
                           /\ Is(m, i, "KEEP") /\ m[i].text.body \in pattern =>
                                 m[i].text.notes = <<>> /\ m[i].text.kind # "summary"
                           /\ Is(m, i, "KEEP") /\ m[i].text.body \in later =>
                                 m[i].text.notes = <<>> /\ m[i].text.kind # "summary"
  <2> DEFINE U == FreshLines(T, pattern \union later)
  <2>1. k \in Nat /\ DOMAIN m = 1 .. k /\ \A i \in 1 .. k : m[i] \in U
    OBVIOUS
  <2>2. \A l \in U : /\ l \in Line(T) /\ LineWeight(l) \in Nat
                     /\ l.decision = "KEEP" /\ (l.text.body \in pattern \/ l.text.body \in later) =>
                            l.text.notes = <<>> /\ l.text.kind # "summary"
    BY DEF FreshLines
  <2> HIDE DEF U, k
  <2>3. m \in Mask(T)
    <3>1. m = [i \in 1 .. k |-> m[i]]
      BY <2>1 DEF U
    <3> QED BY <2>1, <2>2, <3>1 DEF Mask
  <2> QED BY <2>1, <2>2, <2>3 DEF Is
<1>2. Pass(e, pattern, m) = new
  BY <1>1 DEF Pass, Pieces
<1>3. /\ \A i \in 1 .. k : G[i] \in SUBSET (1 .. k)
      /\ \A i \in 1 .. k : i \in G[i] => /\ Is(m, i, "KEEP") /\ m[i].text.body \in pattern
                                        /\ \A j \in G[i] : j \in G[j] /\ G[j] = G[i]
  <2>1. Grouped(m, e, pattern, k, G)
    BY <1>1 DEF Grouped
  <2>2. k \in Nat
    OBVIOUS
  <2> HIDE DEF G, k
  <2> QED BY <2>1, <2>2, GroupsAreClasses
<1> HIDE DEF G
<1>4. \A i \in 1 .. k : i \in G[i] => LineWeight(m[i]) = 1
  <2> TAKE i \in 1 .. k
  <2> HAVE i \in G[i]
  <2>1. m[i].text.notes = <<>> /\ m[i].text.kind # "summary" /\ m[i].decision = "KEEP"
    BY <1>1, <1>3 DEF Is
  <2> QED BY <2>1, TimesOfNotes DEF LineWeight, Weight
<1>5. Sum(w, 1 .. k) = Sum(v, 1 .. k)
  <2>1. GroupsCount(k, G, F, v, w)
    <3>1. \A i \in 1 .. k : v[i] = LineWeight(m[i])
      BY <1>1 DEF Weights
    <3> HIDE DEF v, F, k
    <3> QED BY <1>1, <1>3, <1>4, <3>1 DEF GroupsCount
  <2> HIDE DEF w, F, v, k
  <2> QED BY <1>1, <2>1, GroupsCountOnce
<1>6. ASSUME NEW i \in 1 .. k
      PROVE  /\ ss[i] \in Seq(Line(T)) /\ (Is(m, i, "PROTECT") => ss[i] = <<m[i]>>)
             /\ Cardinality(G[i]) \in Nat
  <2>1. G[i] \in SUBSET (DOMAIN m) /\ i \in DOMAIN m
    BY <1>1, <1>3
  <2>2. Cardinality(G[i]) \in Nat
    BY <1>1, <2>1, SomePositions
  <2>3. /\ GroupedPiece(m, e, G[i], i) \in Seq(Line(T))
        /\ Is(m, i, "PROTECT") => GroupedPiece(m, e, G[i], i) = <<m[i]>>
    BY <1>1, <2>1, GroupedPieceTyped
  <2> QED BY <2>2, <2>3
<1>7. ASSUME NEW i \in 1 .. k
      PROVE  /\ Len(ss[i]) >= 1 /\ PieceWeighs(ss[i], w[i])
             /\ \A j \in 1 .. Len(ss[i]) : ss[i][j] \in S
  <2> DEFINE c == Cardinality(G[i])
             more == Rewrite(Summary("more", c - 1))
             times == Rewrite(WithNote(m[i].text, "times", c))
             hid == Hide(m[i])
  <2>1. ss[i] = GroupedPiece(m, e, G[i], i)
    OBVIOUS
  <2>2. m[i] \in S
    <3> HIDE DEF ss, w, v, F, new, k
    <3> QED BY <1>1 DEF FreshLines, Is
  <2>3. \A x \in 1 .. Len(ss[i]) : ss[i][x] \in Line(T)
    <3>1. ss[i] \in Seq(Line(T))
      BY <1>6
    <3> HIDE DEF ss
    <3> QED BY <3>1
  <2>4. /\ i \in G[i] /\ G[i] \in F => w[i] = IF i = Min(G[i]) THEN c ELSE 0
        /\ ~(i \in G[i] /\ G[i] \in F) => w[i] = LineWeight(m[i])
        /\ G[i] \in F <=> ~(c < e.min_count)
    BY <1>1, <1>3 DEF Weights
  <2>5. LineWeight(hid) = 0 /\ LineWeight(more) = c - 1 /\ hid.decision = "COMPRESS"
        /\ more.text.body = "more"
    BY WrittenWeighs DEF Hide, LineOf, Rewrite, Summary
  <2>6. i \in G[i] => LineWeight(times) = c /\ times.text.body \in pattern
    <3> HAVE i \in G[i]
    <3> DEFINE t == m[i].text
               d == WithNote(t, "times", c)
    <3>1. t \in LineTexts(Bodies, Dirs) /\ t.notes = <<>> /\ t.kind # "summary" /\ t.body \in pattern
      <4>1. m[i] \in Line(T) /\ Is(m, i, "KEEP") /\ m[i].text.body \in pattern
            /\ m[i].text.notes = <<>> /\ m[i].text.kind # "summary"
        BY <1>1, <1>3
      <4> HIDE DEF ss, w, v, F, new, k, c, hid, more, times
      <4> QED BY <4>1 DEF Line
    <3>2. c \in Nat
      BY <1>6
    <3> HIDE DEF t, c
    <3>3. d.notes = <<Note("times", c)>> /\ d.kind = t.kind /\ d.body = t.body
      <4>1. d.notes = Append(t.notes, Note("times", c)) /\ d.kind = t.kind /\ d.body = t.body
        BY <3>1 DEF LineTexts, WithNote
      <4> HIDE DEF d
      <4> QED BY <3>1, <4>1
    <3>4. times = LineOf(d, "KEEP")
      BY DEF Rewrite, t
    <3> HIDE DEF d, times
    <3>5. Times(d) = c
      BY <3>2, <3>3, TimesOfNotes
    <3> QED BY <3>1, <3>3, <3>4, <3>5 DEF LineWeight, Weight, LineOf
  <2>7. c \in Nat /\ (i \in G[i] => c - 1 \in Nat /\ LineWeight(m[i]) = 1)
    <3>1. IsFiniteSet(G[i])
      BY <1>1, <1>3, SomePositions
    <3> QED BY <1>4, <1>6, <3>1, OneFewer
  <2>8. ss[i] = IF ~(i \in G[i] /\ G[i] \in F) THEN <<m[i]>>
                ELSE IF i # Min(G[i]) THEN <<hid>>
                ELSE IF e.scope = "global" \/ e.location THEN <<m[i], more>>
                ELSE <<times>>
    <3> HIDE DEF hid, more, times, F, w, v
    <3> QED BY <1>3, <2>1, <2>4 DEF GroupedPiece, hid, more, times
  <2>9. \A a, b : /\ Len(<<a>>) = 1 /\ <<a>>[1] = a
                  /\ Len(<<a, b>>) = 2 /\ <<a, b>>[1] = a /\ <<a, b>>[2] = b
    OBVIOUS
  <2> HIDE DEF ss, w, v, F, new, k, c, hid, more, times, S
  <2>10. \A l \in Line(T) : (l.decision = "COMPRESS" \/ l.text.body \notin later) /\ LineWeight(l) \in Nat
                               => l \in S
    BY DEF S, FreshLines
  <2>11. CASE ~(i \in G[i] /\ G[i] \in F)
    <3>1. ss[i] = <<m[i]>> /\ Len(ss[i]) = 1 /\ ss[i][1] = m[i]
      BY <2>8, <2>9, <2>11
    <3>2. \A j \in 1 .. Len(ss[i]) : j = 1
      BY <3>1
    <3> QED BY <2>2, <2>4, <2>11, <3>1, <3>2 DEF PieceWeighs
  <2>12. CASE i \in G[i] /\ G[i] \in F /\ i # Min(G[i])
    <3>1. Len(ss[i]) = 1 /\ ss[i][1] = hid /\ w[i] = 0
      BY <2>4, <2>8, <2>9, <2>12
    <3>2. hid \in S
      <4>1. 1 \in 1 .. Len(ss[i])
        BY <3>1
      <4> QED BY <2>3, <2>5, <2>10, <3>1, <4>1
    <3>3. \A j \in 1 .. Len(ss[i]) : j = 1
      BY <3>1
    <3> QED BY <2>5, <3>1, <3>2, <3>3 DEF PieceWeighs
  <2>13. CASE i \in G[i] /\ G[i] \in F /\ i = Min(G[i]) /\ (e.scope = "global" \/ e.location)
    <3>1. Len(ss[i]) = 2 /\ ss[i][1] = m[i] /\ ss[i][2] = more /\ w[i] = c
      BY <2>4, <2>8, <2>9, <2>13
    <3>2. more \in S
      <4>1. 2 \in 1 .. Len(ss[i])
        BY <3>1
      <4> QED BY <2>3, <2>5, <2>7, <2>10, <2>13, <3>1, <4>1
    <3>3. \A j \in 1 .. Len(ss[i]) : j = 1 \/ j = 2
      BY <3>1
    <3>4. w[i] = LineWeight(m[i]) + LineWeight(more)
      BY <2>5, <2>7, <2>13, <3>1
    <3> QED BY <2>2, <3>1, <3>2, <3>3, <3>4 DEF PieceWeighs
  <2>14. CASE i \in G[i] /\ G[i] \in F /\ i = Min(G[i]) /\ ~(e.scope = "global" \/ e.location)
    <3>1. Len(ss[i]) = 1 /\ ss[i][1] = times /\ w[i] = c
      BY <2>4, <2>8, <2>9, <2>14
    <3>2. times \in S
      <4>1. 1 \in 1 .. Len(ss[i])
        BY <3>1
      <4> QED BY <2>3, <2>6, <2>7, <2>10, <2>14, <3>1, <4>1
    <3>3. \A j \in 1 .. Len(ss[i]) : j = 1
      BY <3>1
    <3> QED BY <2>6, <2>14, <3>1, <3>2, <3>3 DEF PieceWeighs
  <2> QED BY <2>11, <2>12, <2>13, <2>14
<1>8. ss \in Seq(Seq(S)) /\ Len(ss) = k
  <2>1. \A i \in 1 .. k : ss[i] \in Seq(S)
    <3> SUFFICES ASSUME NEW i \in 1 .. k PROVE ss[i] \in Seq(S)
      OBVIOUS
    <3>1. ss[i] \in Seq(Line(T)) /\ \A j \in 1 .. Len(ss[i]) : ss[i][j] \in S
      BY <1>6, <1>7
    <3> HIDE DEF ss, S
    <3> QED BY <3>1
  <2>2. ss = [i \in 1 .. k |-> ss[i]]
    OBVIOUS
  <2> HIDE DEF ss, S, k
  <2> QED BY <1>1, <2>1, <2>2
<1> HIDE DEF ss, w, v, F
<1>9. \A l \in S : LineWeight(l) \in Int
  BY DEF FreshLines
<1> HIDE DEF S
<1>10. /\ \A i \in 1 .. Len(ss) : PieceWeighs(ss[i], w[i]) /\ Len(ss[i]) >= 1
       /\ \A i \in 1 .. k : Is(m, i, "PROTECT") => ss[i] = <<m[i]>>
  BY <1>6, <1>7, <1>8
<1>11. /\ new \in Seq(S)
       /\ TotalWeight(new) = Sum(w, 1 .. k)
       /\ Len(new) >= k
       /\ Len(new) = k => \A i \in 1 .. k : new[i] = ss[i][1]
  <2> HIDE DEF k
  <2> QED BY <1>8, <1>9, <1>10, PiecesWeigh, PiecesInPlace, FlattenPlaces
<1>12. TotalWeight(m) = Sum(v, 1 .. k)
  <2>1. \A i \in DOMAIN m : LineWeight(m[i]) \in Int
    BY <1>1
  <2>2. IsFiniteSet(DOMAIN m)
    BY <1>1, FS_Interval
  <2> QED BY <1>1, <2>1, <2>2, TotalWeightIsSum DEF v
<1> HIDE DEF new
<1>13. ASSUME Len(new) = k PROVE Stands(m, new)
  <2>1. DOMAIN new = DOMAIN m
    BY <1>1, <1>11, <1>13
  <2>2. \A i \in DOMAIN m : Is(m, i, "PROTECT") => new[i] = m[i]
    <3>1. \A i \in 1 .. k : Is(m, i, "PROTECT") => ss[i][1] = m[i]
      BY <1>10
    <3> QED BY <1>1, <1>11, <1>13, <3>1
  <2> QED BY <2>1, <2>2 DEF Stands, Is
<1> QED BY <1>2, <1>5, <1>11, <1>12, <1>13 DEF S

(* The patterns of a group_repeated stage match different lines, and none  *)
(* of them matches a "more" line the stage writes.                         *)
PatternsApart(patterns) ==
    /\ \A i, j \in DOMAIN patterns : i # j => patterns[i] \intersect patterns[j] = {}
    /\ \A i \in DOMAIN patterns : "more" \notin patterns[i]

(* group_repeated: each pass accounts for the lines of its pattern.        *)
LEMMA GroupRepeatedCounts ==
    ASSUME SummaryTokens \in Nat, NEW Bodies, NEW Dirs, Written \subseteq Bodies, NoDir \in Dirs,
           NEW T, T = LineTexts(Bodies, Dirs), NEW m \in Mask(T), Unfolded(m),
           NEW e, e.patterns # <<>>, NEW n \in Nat, DOMAIN e.patterns = 1 .. n,
           PatternsApart(e.patterns)
    PROVE  /\ Accounts(GroupRepeated(m, e), Cardinality(Visible(Preserve(m, e.preserve))))
           /\ Len(GroupRepeated(m, e)) = Len(m) => Stands(m, GroupRepeated(m, e))
<1> DEFINE p == Preserve(m, e.preserve)
           c == Cardinality(Visible(p))
           Later(k) == UNION {e.patterns[j] : j \in k + 1 .. n}
<1>1. p \in Mask(T) /\ Unfolded(p) /\ Stands(m, p) /\ Len(p) = Len(m)
  BY PreserveTyped, PreserveStands
<1>2. PICK at : InTurn(at, m, e, n)
  <2> DEFINE M == Mask(T)
  <2>1. \A l \in M, k \in 1 .. n : Pass(e, e.patterns[k], l) \in M
    BY PassCarries
  <2> HIDE DEF M
  <2> QED BY <1>1, <2>1, GroupFoldInTurn DEF M
<1>3. /\ at[0] = p
      /\ \A k \in 1 .. n : at[k] = Pass(e, e.patterns[k], at[k - 1])
      /\ GroupRepeated(m, e) = at[n]
  BY <1>2 DEF InTurn
<1> HIDE DEF p
<1> DEFINE Good == {k \in 0 .. n : /\ at[k] \in Seq(FreshLines(T, Later(k)))
                                   /\ TotalWeight(at[k]) = c
                                   /\ Len(at[k]) >= Len(m)
                                   /\ Len(at[k]) = Len(m) => Stands(m, at[k])}
<1>4. 0 \in Good
  <2> DEFINE U == FreshLines(T, Later(0))
  <2>1. \A i \in DOMAIN p : p[i] \in U
    <3> TAKE i \in DOMAIN p
    <3>1. p[i] \in Line(T) /\ p[i].text.notes = <<>> /\ p[i].text.kind # "summary"
      BY <1>1, DecidedLines DEF Unfolded
    <3>2. LineWeight(p[i]) \in Nat
      BY <1>1, UnfoldedWeighs
    <3> HIDE DEF Later
    <3> QED BY <3>1, <3>2 DEF FreshLines
  <2> HIDE DEF U
  <2>2. p \in Seq(U)
    <3>1. Len(p) \in Nat /\ DOMAIN p = 1 .. Len(p) /\ p = [i \in DOMAIN p |-> p[i]]
      BY <1>1, DecidedLines
    <3> QED BY <2>1, <3>1
  <2>3. TotalWeight(p) = c
    BY <1>1, UnfoldedWeighs
  <2>4. Len(p) >= Len(m) /\ 0 \in 0 .. n
    BY <1>1, <2>2
  <2> HIDE DEF c, Later
  <2> QED BY <1>1, <1>3, <2>2, <2>3, <2>4 DEF U
<1>5. ASSUME NEW k \in 0 .. n - 1, k \in Good PROVE k + 1 \in Good
  <2> DEFINE pattern == e.patterns[k + 1]
             later == Later(k + 1)
             l == at[k]
             new == at[k + 1]
  <2>1. k + 1 \in 1 .. n /\ k + 1 \in 0 .. n /\ (k + 1) - 1 = k
    OBVIOUS
  <2>2. new = Pass(e, pattern, l)
    BY <1>3, <2>1
  <2>3. Later(k) = pattern \union later
    <3>1. \A j \in k + 1 .. n : j = k + 1 \/ j \in (k + 1) + 1 .. n
      BY <2>1
    <3>2. k + 1 \in k + 1 .. n /\ \A j \in (k + 1) + 1 .. n : j \in k + 1 .. n
      BY <2>1
    <3> QED BY <3>1, <3>2
  <2>4. pattern \intersect later = {} /\ "more" \notin later
    <3>1. \A j \in (k + 1) + 1 .. n : j \in 1 .. n /\ j # k + 1
      BY <2>1
    <3>2. \A j \in (k + 1) + 1 .. n : pattern \intersect e.patterns[j] = {} /\ "more" \notin e.patterns[j]
      BY <2>1, <3>1 DEF PatternsApart
    <3> QED BY <3>2
  <2>5. /\ l \in Seq(FreshLines(T, pattern \union later)) /\ TotalWeight(l) = c
        /\ Len(l) >= Len(m) /\ (Len(l) = Len(m) => Stands(m, l))
    BY <1>5, <2>3
  <2> HIDE DEF pattern, later, l, new, Later, c
  <2>6. /\ new \in Seq(FreshLines(T, later)) /\ TotalWeight(new) = TotalWeight(l)
        /\ Len(new) >= Len(l) /\ (Len(new) = Len(l) => Stands(l, new))
    BY <2>2, <2>4, <2>5, PassCounts, SMTT(60)
  <2>7. Len(new) \in Nat /\ Len(l) \in Nat /\ Len(m) \in Nat
    BY <2>5, <2>6 DEF Mask
  <2>8. ASSUME Len(new) = Len(m) PROVE Stands(m, new)
    <3>1. Len(l) = Len(m) /\ Len(new) = Len(l)
      BY <2>5, <2>6, <2>7, <2>8
    <3> QED BY <2>5, <2>6, <3>1 DEF Stands
  <2> QED BY <2>1, <2>5, <2>6, <2>7, <2>8 DEF new, later
<1>6. n \in Good
  <2> HIDE DEF Good
  <2>1. \A k \in 0 .. n : k \in Good
    BY <1>4, <1>5, UpTo
  <2> QED BY <2>1
<1> DEFINE new == at[n]
<1>7. Accounts(new, c)
  <2> DEFINE U == FreshLines(T, Later(n))
  <2>1. new \in Seq(U) /\ TotalWeight(new) = c
    BY <1>6
  <2>2. \A x \in U : LineWeight(x) \in Int
    BY DEF FreshLines
  <2> HIDE DEF U, new, c
  <2> QED BY <2>1, <2>2 DEF Accounts
<1>8. Len(new) = Len(m) => Stands(m, new)
  BY <1>6
<1> QED BY <1>3, <1>7, <1>8 DEF p
-----------------------------------------------------------------------------
(* The stages of quor/pipeline/stages, group_repeated with a list of       *)
(* patterns.                                                               *)
StageTypes ==
    InertTypes \union
    {"column_padding_compression", "match_output", "protect_diff_filename_headers",
     "path_prefix_fold", "collapse_unchanged_context", "numeric_range_compression",
     "relative_timestamp_compression", "structured_data_summarize"}

BuiltIn(e) ==
    /\ e.type \in StageTypes
    /\ e.type = "group_repeated" => \E n \in Nat : DOMAIN e.patterns = 1 .. n

(* The entries are built-in stages, and each does what Stages says.        *)
OnlyBuiltIn ==
    \A e \in Entries : /\ BuiltIn(e)
                       /\ \A m \in MaskSpace : Outcomes(e, m) = {StageApply(e, m)}

(* Every built-in stage carries what was protected.                        *)
LEMMA StageCarries ==
    ASSUME SummaryTokens \in Nat, NEW Bodies, NEW Dirs, Written \subseteq Bodies, NoDir \in Dirs,
           NEW T, T = LineTexts(Bodies, Dirs), NEW m \in Mask(T), NEW e, BuiltIn(e)
    PROVE  Carries(m, StageApply(e, m))
<1> DEFINE n == StageApply(e, m)
<1>1. DOMAIN m \in SUBSET Int
  <2>1. DOMAIN m = 1 .. Len(m)
    BY DecidedLines
  <2> QED BY <2>1
<1>2. \A x : Stands(m, x) => Carries(m, x)
  BY <1>1, CarriedInPlace DEF Stands, Is
<1>3. CASE e.type = "group_repeated"
  <2>1. n = GroupRepeated(m, e)
    BY <1>3 DEF StageApply
  <2>2. PICK k \in Nat : DOMAIN e.patterns = 1 .. k
    BY <1>3 DEF BuiltIn
  <2> QED BY <2>1, <2>2, GroupRepeatedCarries
<1>4. CASE e.type = "path_prefix_fold"
  <2>1. n = PathPrefixFold(m, e)
    BY <1>4 DEF StageApply
  <2> QED BY <2>1, PathPrefixFoldCarries
<1>5. CASE e.type \in {"remove_ansi", "strip_lines", "deduplicate_consecutive", "max_tokens",
                      "truncate_lines", "regex_replace", "column_padding_compression",
                      "match_output", "protect_diff_filename_headers"}
  <2>1. n \in {RemoveAnsi(m, e), StripLines(m, e), Deduplicate(m, e), MaxTokens(m, e),
              TruncateLines(m, e), RegexReplace(m, e), ColumnPadding(m, e),
              MatchOutput(m, e), ProtectHeaders(m)}
    BY <1>5 DEF StageApply
  <2> HIDE DEF n
  <2>2. Stands(m, n)
    BY <2>1, LineStagesStand
  <2>3. Carries(m, n)
    BY <1>2, <2>2
  <2> QED BY <2>3 DEF n
<1>6. CASE e.type \in {"collapse_unchanged_context", "numeric_range_compression",
                      "relative_timestamp_compression", "python_ast_summarize",
                      "code_ast_summarize", "structured_data_summarize"}
  <2>1. n \in {CollapseUnchanged(m, e), NumericRange(m, e), RelativeTimestamps(m, e),
              AstSummarize(m, e), StructuredData(m, e)}
    BY <1>6 DEF StageApply
  <2> HIDE DEF n
  <2>2. Stands(m, n)
    BY <1>1, <2>1, RunStagesStand
  <2>3. Carries(m, n)
    BY <1>2, <2>2
  <2> QED BY <2>3 DEF n
<1> QED BY <1>3, <1>4, <1>5, <1>6 DEF BuiltIn, StageTypes, InertTypes

(* Each folding stage accounts for the lines it is given.                  *)
LEMMA StageCounts ==
    ASSUME SummaryTokens \in Nat, NEW Bodies, NEW Dirs, Written \subseteq Bodies, NoDir \in Dirs,
           NEW T, T = LineTexts(Bodies, Dirs), NEW m \in Mask(T), Unfolded(m),
           NEW e, e.type \in Counting, BuiltIn(e),
           e.type = "group_repeated" => PatternsApart(e.patterns)
    PROVE  /\ Accounts(StageApply(e, m), Cardinality(Visible(Given(e, m))))
           /\ Len(StageApply(e, m)) = Len(m) => Stands(m, StageApply(e, m))
<1> DEFINE n == StageApply(e, m)
           c == Cardinality(Visible(Given(e, m)))
<1>1. Len(m) \in Nat /\ DOMAIN m = 1 .. Len(m) /\ \A t \in T : t.num \in Int
  BY DecidedLines DEF LineTexts
<1>2. Accounts(m, Cardinality(Visible(m))) /\ Stands(m, m)
  <2>1. \A i \in DOMAIN m : LineWeight(m[i]) \in Int
    BY UnfoldedWeighs
  <2> QED BY <1>1, <2>1, UnfoldedWeighs DEF Accounts, Stands
<1>3. CASE e.type = "group_repeated"
  <2>1. n = GroupRepeated(m, e)
    BY <1>3 DEF StageApply
  <2>2. PICK k \in Nat : DOMAIN e.patterns = 1 .. k
    BY <1>3 DEF BuiltIn
  <2>3. CASE e.patterns = <<>>
    <3>1. n = m /\ Given(e, m) = m
      BY <1>3, <2>1, <2>3 DEF GroupRepeated, Given
    <3> QED BY <1>2, <3>1
  <2>4. CASE e.patterns # <<>>
    <3>1. Given(e, m) = Preserve(m, e.preserve)
      BY <1>3, <2>4 DEF Given
    <3> QED BY <1>3, <2>1, <2>2, <2>4, <3>1, GroupRepeatedCounts
  <2> QED BY <2>3, <2>4
<1>4. CASE e.type = "path_prefix_fold"
  <2>1. n = PathPrefixFold(m, e)
    BY <1>4 DEF StageApply
  <2>2. CASE e.patterns = {}
    <3>1. n = m /\ Given(e, m) = m
      BY <1>4, <2>1, <2>2 DEF PathPrefixFold, Given
    <3> QED BY <1>2, <3>1
  <2>3. CASE e.patterns # {}
    <3>1. Given(e, m) = Preserve(m, e.preserve)
      BY <1>4, <2>3 DEF Given
    <3> QED BY <2>1, <2>3, <3>1, PathPrefixFoldCounts
  <2> QED BY <2>2, <2>3
<1>5. DOMAIN m \in SUBSET Int
  BY <1>1
<1>6. CASE e.type = "collapse_unchanged_context"
  <2>1. n = CollapseUnchanged(m, e) /\ Given(e, m) = m
    BY <1>6 DEF StageApply, Given
  <2> QED BY <1>5, <2>1, CollapseUnchangedCounts, RunStagesStand
<1>7. CASE e.type = "numeric_range_compression"
  <2>1. n = NumericRange(m, e) /\ Given(e, m) = Preserve(m, e.preserve)
    BY <1>7 DEF StageApply, Given
  <2> QED BY <1>1, <1>5, <2>1, NumericRangeCounts, RunStagesStand
<1>8. CASE e.type = "relative_timestamp_compression"
  <2>1. n = RelativeTimestamps(m, e) /\ Given(e, m) = Preserve(m, e.preserve)
    BY <1>8 DEF StageApply, Given
  <2> QED BY <1>5, <2>1, RelativeTimestampsCount, RunStagesStand
<1> QED BY <1>3, <1>4, <1>6, <1>7, <1>8 DEF Counting

(* The run has its types, whatever the stages do.                          *)
RunTyped ==
    /\ entries \in Pipelines
    /\ pos \in 0 .. Len(entries)
    /\ mask \in MaskSpace
    /\ results \in Seq(Results)

LEMMA RunStaysTyped == Spec => []RunTyped
<1>1. Init => RunTyped
  <2> SUFFICES ASSUME Init PROVE RunTyped
    OBVIOUS
  <2>1. entries \in Seq(Entries) /\ Len(entries) \in Nat /\ <<>> \in Seq(Results)
    BY EntriesAssumption DEF Init
  <2> QED BY <2>1, MasksAssumption DEF Init, RunTyped
<1>2. RunTyped /\ [Next]_vars => RunTyped'
  <2> SUFFICES ASSUME RunTyped, [Next]_vars PROVE RunTyped'
    OBVIOUS
  <2>1. /\ entries \in Seq(Entries) /\ Len(entries) \in Nat /\ pos \in Nat
        /\ mask \in MaskSpace /\ results \in Seq(Results)
        /\ Running => pos + 1 \in 0 .. Len(entries) /\ Current \in Entries
    BY EntriesAssumption DEF RunTyped, Running, Current
  <2>2. ASSUME NEW m \in MaskSpace, NEW c \in Nat, NEW o \in {"applied", "skipped", "error"},
               Running, Advance(m, c, o)
        PROVE  RunTyped'
    <3>1. Result(Current, m, c, o) \in Results
      BY <2>1, <2>2, ResultTyped
    <3>2. results' \in Seq(Results)
      BY <2>1, <2>2, <3>1 DEF Advance
    <3> QED BY <2>1, <2>2, <3>2 DEF Advance, RunTyped
  <2>3. CASE EarlyExit
    <3> DEFINE tail == [k \in 1 .. Len(entries) - pos |->
                           Result(entries[pos + k], mask, 0, "early")]
    <3>1. Running /\ results' = results \o tail /\ pos' = Len(entries)
          /\ UNCHANGED <<entries, mask>>
      BY <2>3 DEF EarlyExit
    <3>2. \A k \in 1 .. Len(entries) - pos : tail[k] \in Results
      <4>1. \A k \in 1 .. Len(entries) - pos : entries[pos + k] \in Entries
        BY <2>1
      <4> QED BY <2>1, <4>1, ResultTyped
    <3>3. tail \in Seq(Results)
      BY <2>1, <3>1, <3>2 DEF Running
    <3> HIDE DEF tail
    <3>4. results' \in Seq(Results)
      BY <2>1, <3>1, <3>3, Concatenated
    <3> QED BY <2>1, <3>1, <3>4 DEF RunTyped
  <2>4. CASE SkipStage \/ RaiseStage
    BY <2>1, <2>2, <2>4 DEF SkipStage, RaiseStage
  <2>5. CASE ApplyStage
    <3>1. \A new \in Outcomes(Current, mask) :
            /\ EnforceProtect(mask, new) \in MaskSpace
            /\ NewlyCompressed(mask, EnforceProtect(mask, new)) \in Nat
      BY <2>1, <2>5, MasksAssumption, NewlyCompressedTyped DEF ApplyStage
    <3> QED BY <2>2, <2>5, <3>1 DEF ApplyStage
  <2>6. CASE ShadowStage \/ UNCHANGED vars
    BY <2>6 DEF ShadowStage, vars, RunTyped
  <2> QED BY <2>3, <2>4, <2>5, <2>6 DEF Next
<1> QED BY <1>1, <1>2, PTL DEF Spec

(* What a stage once protected stays, through every list of built-in       *)
(* stages, the ones that change the number of lines included: protected,   *)
(* with its text, and in order.                                            *)
THEOREM ProtectedSurvives ==
    ASSUME SummaryTokens \in Nat, NEW Bodies, NEW Dirs, Written \subseteq Bodies, NoDir \in Dirs,
           Texts = LineTexts(Bodies, Dirs), OnlyBuiltIn
    PROVE  Spec => ProtectedLinesSurvive
<1>1. ASSUME NEW m \in MaskSpace, NEW e \in Entries, NEW new \in Outcomes(e, m)
      PROVE  Carries(m, EnforceProtect(m, new))
  <2>1. m \in Mask(Texts) /\ new \in Mask(Texts) /\ new = StageApply(e, m) /\ BuiltIn(e)
    BY MasksAssumption DEF OnlyBuiltIn
  <2>2. Carries(m, new)
    BY <2>1, StageCarries
  <2> QED BY <2>1, <2>2, EnforcedCarries DEF Mask
<1>2. ASSUME NEW m \in MaskSpace PROVE Carries(m, m)
  <2>1. DOMAIN m \in SUBSET Int
    <3>1. m \in Mask(Texts)
      BY MasksAssumption
    <3>2. DOMAIN m = 1 .. Len(m)
      BY <3>1, DecidedLines
    <3> QED BY <3>2
  <2> QED BY <2>1, CarriedInPlace DEF Is
<1>3. RunTyped /\ [Next]_vars => [Carries(mask, mask')]_vars
  <2> SUFFICES ASSUME RunTyped, Next PROVE Carries(mask, mask')
    OBVIOUS
  <2>1. CASE EarlyExit \/ SkipStage \/ RaiseStage \/ ShadowStage
    BY <1>2, <2>1 DEF EarlyExit, SkipStage, RaiseStage, ShadowStage, Advance, RunTyped
  <2>2. CASE ApplyStage
    <3>1. Current \in Entries
      BY <2>2, EntriesAssumption DEF ApplyStage, RunTyped, Running, Current
    <3> QED BY <1>1, <2>2, <3>1 DEF ApplyStage, Advance, RunTyped
  <2> QED BY <2>1, <2>2 DEF Next
<1> QED BY <1>3, RunStaysTyped, PTL DEF Spec, ProtectedLinesSurvive

(* TotalCompressed, of any list of results.                                *)
Total(r) ==
    CHOOSE g : g = [k \in Nat |-> IF k = 0 THEN 0 ELSE g[k - 1] + r[k].lines_compressed]

Hidden(m) == Cardinality(Decided(m, "COMPRESS"))

LEMMA TotalUnfolds ==
    ASSUME NEW r
    PROVE  \A k \in Nat : Total(r)[k] = IF k = 0 THEN 0 ELSE Total(r)[k - 1] + r[k].lines_compressed
<1> DEFINE w == [k \in Nat |-> r[k].lines_compressed]
           Sums(g) == g = [k \in Nat |-> IF k = 0 THEN 0 ELSE g[k - 1] + r[k].lines_compressed]
<1>1. PICK g : RunningTotal(g, w)
  BY RunningTotalExists
<1>2. Sums(g)
  <2>1. g = [k \in Nat |-> IF k = 0 THEN 0 ELSE g[k - 1] + w[k]]
    BY <1>1 DEF RunningTotal
  <2>2. \A k \in Nat : w[k] = r[k].lines_compressed
    OBVIOUS
  <2> HIDE DEF w
  <2>3. \A k \in Nat : g[k] = IF k = 0 THEN 0 ELSE g[k - 1] + r[k].lines_compressed
    BY <2>1, <2>2
  <2>4. g = [k \in Nat |-> g[k]]
    BY <2>1
  <2> QED BY <2>3, <2>4
<1>3. Sums(Total(r))
  BY <1>2 DEF Total
<1> QED BY <1>3

(* Results that agree have the same total; a total is a number, and does   *)
(* not fall.                                                               *)
LEMMA TotalsAgree ==
    ASSUME NEW r, NEW s, NEW n \in Nat, \A i \in 1 .. n : r[i] = s[i]
    PROVE  Total(r)[n] = Total(s)[n]
<1> DEFINE Good == {k \in 0 .. n : Total(r)[k] = Total(s)[k]}
<1>1. 0 \in Good
  BY TotalUnfolds
<1>2. ASSUME NEW k \in 0 .. n - 1, k \in Good PROVE k + 1 \in Good
  <2>1. k + 1 \in 0 .. n /\ k + 1 \in 1 .. n /\ k + 1 \in Nat /\ k + 1 # 0 /\ (k + 1) - 1 = k
    OBVIOUS
  <2>2. /\ Total(r)[k + 1] = Total(r)[k] + r[k + 1].lines_compressed
        /\ Total(s)[k + 1] = Total(s)[k] + s[k + 1].lines_compressed
    BY <2>1, TotalUnfolds
  <2>3. r[k + 1] = s[k + 1]
    BY <2>1
  <2> QED BY <1>2, <2>1, <2>2, <2>3
<1> HIDE DEF Good
<1>3. \A k \in 0 .. n : k \in Good
  BY <1>1, <1>2, UpTo
<1>4. n \in Good
  BY <1>3
<1> QED BY <1>4 DEF Good

LEMMA TotalsRise ==
    ASSUME NEW r \in Seq(Results), NEW n \in 0 .. Len(r)
    PROVE  Total(r)[n] \in Nat /\ Total(r)[Len(r)] \in Nat /\ Total(r)[n] <= Total(r)[Len(r)]
<1> DEFINE Good == {k \in 0 .. Len(r) :
                     Total(r)[k] \in Nat /\ (n <= k => Total(r)[n] \in Nat /\ Total(r)[n] <= Total(r)[k])}
<1>0. Len(r) \in Nat /\ \A i \in 1 .. Len(r) : r[i] \in Results
  OBVIOUS
<1>1. 0 \in Good
  <2>1. Total(r)[0] = 0
    BY TotalUnfolds
  <2>2. n <= 0 => n = 0
    OBVIOUS
  <2> QED BY <1>0, <2>1, <2>2
<1>2. ASSUME NEW k \in 0 .. Len(r) - 1, k \in Good PROVE k + 1 \in Good
  <2>1. /\ k + 1 \in 0 .. Len(r) /\ k + 1 \in 1 .. Len(r) /\ k + 1 \in Nat /\ k + 1 # 0
        /\ (k + 1) - 1 = k /\ (n <= k + 1 => n <= k \/ n = k + 1)
    BY <1>0
  <2>2. Total(r)[k + 1] = Total(r)[k] + r[k + 1].lines_compressed
    BY <2>1, TotalUnfolds
  <2>3. r[k + 1].lines_compressed \in Nat
    BY <1>0, <2>1 DEF Results
  <2>4. Total(r)[k] \in Nat /\ (n <= k => Total(r)[n] \in Nat /\ Total(r)[n] <= Total(r)[k])
    BY <1>2
  <2>5. Total(r)[k + 1] \in Nat /\ Total(r)[k] <= Total(r)[k + 1]
    BY <2>2, <2>3, <2>4
  <2>6. ASSUME n <= k + 1 PROVE Total(r)[n] \in Nat /\ Total(r)[n] <= Total(r)[k + 1]
    <3>1. CASE n <= k
      BY <2>4, <2>5, <3>1
    <3>2. CASE n = k + 1
      BY <2>5, <3>2
    <3> QED BY <2>1, <2>6, <3>1, <3>2
  <2> QED BY <2>1, <2>5, <2>6
<1> HIDE DEF Good
<1>3. \A k \in 0 .. Len(r) : k \in Good
  BY <1>0, <1>1, <1>2, UpTo
<1>4. n \in Good /\ Len(r) \in Good /\ n <= Len(r)
  BY <1>0, <1>3
<1> QED BY <1>4 DEF Good

(* The total a trace shows covers every line the mask hides: a stage that  *)
(* brings lines back takes nothing off an earlier stage's count, stages    *)
(* that raised or were skipped add nothing, and neither does the exit.     *)
THEOREM TotalsCover == Spec => []TotalCoversCompressed
<1> DEFINE Covered == Hidden(mask) <= Total(results)[Len(results)]
<1>1. TotalCompressed = Total(results)
  BY DEF TotalCompressed, Total, CompressedBy
<1>2. \A m \in MaskSpace : Hidden(m) \in Nat
  <2>1. \A m \in MaskSpace : m \in Mask(Texts) /\ Decided(m, "COMPRESS") \in SUBSET (DOMAIN m)
    BY MasksAssumption DEF Decided
  <2> QED BY <2>1, SomePositions DEF Hidden
<1>3. Init => Covered
  <2> SUFFICES ASSUME Init PROVE Covered
    OBVIOUS
  <2>1. Decided(mask, "COMPRESS") = {} /\ results = <<>>
    BY DEF Init, FromText, Decided, LineOf
  <2>2. Hidden(mask) = 0
    BY <2>1, FS_EmptySet DEF Hidden
  <2>3. Total(results)[0] = 0 /\ Len(results) = 0
    BY <2>1, TotalUnfolds
  <2> QED BY <2>2, <2>3
<1>4. RunTyped /\ RunTyped' /\ Covered /\ [Next]_vars => Covered'
  <2> SUFFICES ASSUME RunTyped, RunTyped', Covered, [Next]_vars PROVE Covered'
    OBVIOUS
  <2> DEFINE n == Len(results)
  <2>1. /\ results \in Seq(Results) /\ results' \in Seq(Results) /\ n \in Nat
        /\ mask \in MaskSpace /\ mask' \in MaskSpace
        /\ Hidden(mask) \in Nat /\ Hidden(mask') \in Nat
    BY <1>2 DEF RunTyped
  <2>2. Total(results)[n] \in Nat
    BY <2>1, TotalsRise
  <2>3. ASSUME NEW m, NEW c \in Nat, NEW o, Hidden(m) <= Hidden(mask) + c, Advance(m, c, o)
        PROVE  Covered'
    <3> DEFINE r == Result(Current, m, c, o)
    <3>1. results' = Append(results, r) /\ mask' = m /\ r.lines_compressed = c
      BY <2>3 DEF Advance, Result
    <3> HIDE DEF r
    <3>2. Len(results') = n + 1 /\ results'[n + 1] = r /\ \A i \in 1 .. n : results'[i] = results[i]
      BY <2>1, <3>1
    <3>3. Total(results')[n] = Total(results)[n]
      BY <2>1, <3>2, TotalsAgree
    <3>4. Total(results')[n + 1] = Total(results')[n] + c
      <4>1. n + 1 \in Nat /\ n + 1 # 0 /\ (n + 1) - 1 = n
        BY <2>1
      <4>2. Total(results')[n + 1] = Total(results')[(n + 1) - 1] + results'[n + 1].lines_compressed
        BY <4>1, TotalUnfolds
      <4> QED BY <3>1, <3>2, <4>1, <4>2
    <3> QED BY <2>1, <2>2, <2>3, <3>1, <3>2, <3>3, <3>4
  <2>4. CASE EarlyExit
    <3> DEFINE tail == [k \in 1 .. Len(entries) - pos |->
                           Result(entries[pos + k], mask, 0, "early")]
    <3>1. results' = results \o tail /\ mask' = mask
      BY <2>4 DEF EarlyExit
    <3>2. n \in 0 .. Len(results') /\ \A i \in 1 .. n : results'[i] = results[i]
      <4>0. Len(entries) - pos \in Nat
        BY EntriesAssumption DEF RunTyped
      <4>1. tail \in Seq({tail[k] : k \in 1 .. Len(entries) - pos})
        BY <4>0
      <4> HIDE DEF tail
      <4>2. results \in Seq(Results \union {tail[k] : k \in 1 .. Len(entries) - pos})
            /\ tail \in Seq(Results \union {tail[k] : k \in 1 .. Len(entries) - pos})
            /\ Len(tail) \in Nat
        BY <2>1, <4>1
      <4>3. Len(results') = n + Len(tail) /\ \A i \in 1 .. n : results'[i] = results[i]
        BY <3>1, <4>2, Concatenated
      <4> QED BY <2>1, <4>2, <4>3
    <3>3. Total(results')[n] = Total(results)[n]
      BY <2>1, <3>2, TotalsAgree
    <3>4. Total(results')[n] <= Total(results')[Len(results')] /\ Total(results')[Len(results')] \in Nat
      BY <2>1, <3>2, TotalsRise
    <3>5. Hidden(mask') = Hidden(mask) /\ Hidden(mask) <= Total(results)[n]
      BY <3>1
    <3> HIDE DEF n
    <3> QED BY <2>1, <2>2, <3>3, <3>4, <3>5
  <2>5. CASE SkipStage \/ RaiseStage
    BY <2>1, <2>3, <2>5 DEF SkipStage, RaiseStage
  <2>6. CASE ApplyStage
    <3>1. PICK new \in Outcomes(Current, mask) :
            Advance(EnforceProtect(mask, new),
                    NewlyCompressed(mask, EnforceProtect(mask, new)), "applied")
      BY <2>6 DEF ApplyStage
    <3> DEFINE m == EnforceProtect(mask, new)
               c == NewlyCompressed(mask, m)
    <3>2. m = mask'
      BY <3>1 DEF Advance
    <3>3. c \in Nat /\ Hidden(m) <= Hidden(mask) + c
      BY <2>1, <3>2 DEF NewlyCompressed, Hidden
    <3> QED BY <2>3, <3>1, <3>3
  <2>7. CASE ShadowStage \/ UNCHANGED vars
    BY <2>7 DEF ShadowStage, vars
  <2> QED BY <2>4, <2>5, <2>6, <2>7 DEF Next
<1>5. Covered => TotalCoversCompressed
  BY <1>1 DEF TotalCoversCompressed, Hidden
<1> QED BY <1>3, <1>4, <1>5, RunStaysTyped, PTL DEF Spec

(* A stage that has just been applied is the one whose turn it was, and    *)
(* the mask is what it made, enforced.                                     *)
LEMMA RanWasApplied ==
    ASSUME RunTyped, Next, NEW types, Ran(types)
    PROVE  /\ entries[pos'] \in Entries /\ entries[pos'].type \in types
           /\ \E new \in Outcomes(entries[pos'], mask) : mask' = EnforceProtect(mask, new)
<1>1. /\ entries \in Seq(Entries) /\ Len(entries) \in Nat /\ pos \in Nat
      /\ results \in Seq(Results) /\ Len(results) \in Nat
      /\ Running => pos + 1 \in 1 .. Len(entries) /\ Current \in Entries
  BY EntriesAssumption DEF RunTyped, Running, Current
<1>2. Len(results') = Len(results) + 1 /\ Last(results').outcome = "applied" /\ Last(results').type \in types
  BY DEF Ran
<1>3. ASSUME NEW m, NEW c, NEW o, Running, Advance(m, c, o)
      PROVE  pos' = pos + 1 /\ mask' = m /\ o = "applied" /\ Current.type \in types
  <2> DEFINE r == Result(Current, m, c, o)
  <2>1. results' = Append(results, r) /\ pos' = pos + 1 /\ mask' = m
    BY <1>3 DEF Advance
  <2>2. r.outcome = o /\ r.type = Current.type
    BY DEF Result
  <2> HIDE DEF r
  <2>3. Last(results') = r
    BY <1>1, <2>1 DEF Last
  <2> QED BY <1>2, <2>1, <2>2, <2>3
<1>4. CASE EarlyExit
  <2> DEFINE left == Len(entries) - pos
             tail == [k \in 1 .. left |-> Result(entries[pos + k], mask, 0, "early")]
  <2>1. left \in Nat /\ left # 0 /\ results' = results \o tail
    BY <1>1, <1>4 DEF EarlyExit, Running
  <2>2. \A k \in 1 .. left : tail[k].outcome = "early"
    BY DEF Result
  <2>3. tail \in Seq({tail[k] : k \in 1 .. left}) /\ Len(tail) = left
    BY <2>1
  <2> HIDE DEF tail, left
  <2>4. results \in Seq(Results \union {tail[k] : k \in 1 .. left})
        /\ tail \in Seq(Results \union {tail[k] : k \in 1 .. left})
    BY <1>1, <2>3
  <2>5. Len(results') = Len(results) + left
        /\ \A i \in Len(results) + 1 .. Len(results') : results'[i] = tail[i - Len(results)]
    <3>1. ASSUME NEW S, results \in Seq(S), tail \in Seq(S)
          PROVE  /\ Len(results \o tail) = Len(results) + Len(tail)
                 /\ \A i \in Len(results) + 1 .. Len(results \o tail) :
                       (results \o tail)[i] = tail[i - Len(results)]
      BY <3>1, Concatenated
    <3> QED BY <2>1, <2>3, <2>4, <3>1
  <2>6. left = 1
    BY <1>1, <1>2, <2>1, <2>5
  <2>7. Last(results') = tail[1]
    <3>1. Len(results') \in Len(results) + 1 .. Len(results') /\ Len(results') - Len(results) = 1
      BY <1>1, <1>2
    <3> QED BY <2>5, <3>1 DEF Last
  <2> QED BY <1>2, <2>2, <2>6, <2>7
<1>5. CASE SkipStage \/ RaiseStage
  BY <1>3, <1>5 DEF SkipStage, RaiseStage
<1>6. CASE ApplyStage
  <2>1. PICK new \in Outcomes(Current, mask) :
          Advance(EnforceProtect(mask, new),
                  NewlyCompressed(mask, EnforceProtect(mask, new)), "applied")
    BY <1>6 DEF ApplyStage
  <2>2. Running
    BY <1>6 DEF ApplyStage
  <2>3. pos' = pos + 1 /\ mask' = EnforceProtect(mask, new) /\ Current.type \in types
    BY <1>3, <2>1, <2>2
  <2> QED BY <1>1, <2>2, <2>3 DEF Current
<1>7. CASE ShadowStage
  BY <1>1, <1>2, <1>7 DEF ShadowStage
<1> QED BY <1>4, <1>5, <1>6, <1>7 DEF Next

(* max_tokens never leaves more KEEP text than its limit allows, whatever  *)
(* the lines, the limit, the strategy and what came before it: the greedy  *)
(* choice passes lines over, counts from either end and never overspends.  *)
THEOREM BudgetHolds ==
    ASSUME OnlyBuiltIn, \A t \in Texts : t.size \in Nat,
           \A e \in Entries : e.type = "max_tokens" =>
                e.limit \in Nat /\ e.strategy \in {"head", "tail", "both"}
    PROVE  Spec => KeptWithinBudget
<1> DEFINE Within(e, m, n) ==
        LET p == Preserve(m, e.preserve)
            fits == TotalSize(p, Visible(p)) <= e.limit
            half == IF e.limit \div 2 > 1 THEN e.limit \div 2 ELSE 1
            kept == TotalSize(n, Decided(n, "KEEP"))
        IN  kept <= (IF e.strategy = "both" /\ ~fits THEN 2 * half ELSE e.limit)
<1>1. ASSUME NEW m \in MaskSpace, NEW e \in Entries, e.type = "max_tokens",
             NEW new \in Outcomes(e, m)
      PROVE  Within(e, m, EnforceProtect(m, new))
  <2>1. m \in Mask(Texts) /\ new = MaxTokens(m, e)
    BY <1>1, MasksAssumption DEF OnlyBuiltIn, StageApply
  <2>2. Sized(m)
    BY <2>1, DecidedLines DEF Sized, Line
  <2>3. e.limit \in Nat /\ e.strategy \in {"head", "tail", "both"}
    BY <1>1
  <2> QED BY <2>1, <2>2, <2>3, MaxTokensFits DEF Half
<1>2. RunTyped /\ [Next]_vars =>
        [Ran({"max_tokens"}) => Within(entries[pos'], mask, mask')]_vars
  <2> SUFFICES ASSUME RunTyped, Next, Ran({"max_tokens"})
               PROVE  Within(entries[pos'], mask, mask')
    OBVIOUS
  <2> HIDE DEF Within
  <2>1. entries[pos'] \in Entries /\ entries[pos'].type = "max_tokens"
        /\ \E new \in Outcomes(entries[pos'], mask) : mask' = EnforceProtect(mask, new)
    BY RanWasApplied
  <2> QED BY <1>1, <2>1 DEF RunTyped
<1> QED BY <1>2, RunStaysTyped, PTL DEF Spec, KeptWithinBudget

(* The counts a folding stage writes and the lines it leaves add up to     *)
(* the lines it was given, whatever the lines, the groups and the token    *)
(* sizes, for group_repeated with patterns that match different lines.     *)
THEOREM CountsAddUp ==
    ASSUME SummaryTokens \in Nat, NEW Bodies, NEW Dirs, Written \subseteq Bodies, NoDir \in Dirs,
           Texts = LineTexts(Bodies, Dirs), OnlyBuiltIn,
           \A e \in Entries : e.type = "group_repeated" => PatternsApart(e.patterns)
    PROVE  Spec => FoldsKeepCount
<1> DEFINE Counted(e, m, n) ==
        Unfolded(m) => TotalWeight(n) = Cardinality(Visible(Given(e, m)))
<1>1. ASSUME NEW m \in MaskSpace, NEW e \in Entries, e.type \in Counting,
             NEW new \in Outcomes(e, m)
      PROVE  Counted(e, m, EnforceProtect(m, new))
  <2> HAVE Unfolded(m)
  <2> DEFINE c == Cardinality(Visible(Given(e, m)))
  <2>1. m \in Mask(Texts) /\ new = StageApply(e, m) /\ BuiltIn(e)
    BY MasksAssumption DEF OnlyBuiltIn
  <2>2. Accounts(new, c) /\ (Len(new) = Len(m) => Stands(m, new))
    BY <1>1, <2>1, StageCounts
  <2>3. DOMAIN m = 1 .. Len(m)
    BY <2>1, DecidedLines
  <2> HIDE DEF c
  <2>4. TotalWeight(EnforceProtect(m, new)) = c
    BY <2>2, <2>3, EnforcedWeight
  <2> QED BY <2>4 DEF c
<1>2. RunTyped /\ [Next]_vars =>
        [Ran(Counting) => Counted(entries[pos'], mask, mask')]_vars
  <2> SUFFICES ASSUME RunTyped, Next, Ran(Counting)
               PROVE  Counted(entries[pos'], mask, mask')
    OBVIOUS
  <2> HIDE DEF Counted
  <2>1. entries[pos'] \in Entries /\ entries[pos'].type \in Counting
        /\ \E new \in Outcomes(entries[pos'], mask) : mask' = EnforceProtect(mask, new)
    BY RanWasApplied
  <2> QED BY <1>1, <2>1 DEF RunTyped
<1>3. [Ran(Counting) => Counted(entries[pos'], mask, mask')]_vars =>
        [Ran(Counting) /\ Unfolded(mask)
            => TotalWeight(mask') = Cardinality(Visible(Given(entries[pos'], mask)))]_vars
  OBVIOUS
<1> QED BY <1>2, <1>3, RunStaysTyped, PTL DEF Spec, FoldsKeepCount

(* The contract of the early exit holds of the built-in stages: the        *)
(* hand-audited allowlist of engine.py is right, remove_ansi with          *)
(* strip_inline apart.                                                     *)
THEOREM BuiltInStagesKeepTheContract ==
    ASSUME OnlyBuiltIn,
           \A e \in Entries : e.type = "remove_ansi" => e.strip_inline = FALSE
    PROVE  \A e \in Entries : Skippable(e) => InertOnDecided(e)
<1> SUFFICES ASSUME NEW e \in Entries, Skippable(e), NEW m \in MaskSpace, FullyDecided(m),
                    NEW new \in Outcomes(e, m)
             PROVE  Keeps(m, new)
  BY DEF InertOnDecided
<1>1. m \in Mask(Texts) /\ BuiltIn(e) /\ new = StageApply(e, m)
  BY MasksAssumption DEF OnlyBuiltIn
<1>2. PICK n \in Nat : e.type = "group_repeated" => DOMAIN e.patterns = 1 .. n
  BY <1>1 DEF BuiltIn
<1>3. new = m
  BY <1>1, <1>2, DecidedLinesStand
<1> QED BY <1>3 DEF Keeps
=============================================================================
