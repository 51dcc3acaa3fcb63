------------------------------ MODULE Pipeline ------------------------------
(***************************************************************************)
(* Pipeline.execute of quor/pipeline/engine.py: a list of stages run in    *)
(* order over a content mask, with PROTECT enforcement, fail-open stages   *)
(* and the early exit that drops the rest of the list once no line is left *)
(* to decide.                                                              *)
(*                                                                         *)
(* Beside the run itself the module carries `full`, the mask of the same   *)
(* run with early_exit=False: the two move together until the early exit,  *)
(* after which the shadow run goes through the stages that were dropped.   *)
(* The code keeps no such mask; it is what the early exit is measured by.  *)
(***************************************************************************)
EXTENDS Masks, Integers

CONSTANTS
    Texts,          \* the texts a line may hold
    Entries,        \* the StageEntry values: type and preserve at least
    Pipelines,      \* the stage lists: sequences of Entries
    Contents,       \* the texts to filter: non-empty sequences of Texts
    Outcomes(_, _)  \* the masks stage e may return when given mask m

VARIABLES
    entries,    \* self._entries
    early_exit, \* the keyword argument; trace() passes False
    mask,       \* the mask the run has reached
    pos,        \* i: how many entries the run has dealt with
    exited,     \* the run took the early exit
    results,    \* the StageResult list
    full,       \* the mask of the same run without early exit
    fullPos     \* how many entries that run has dealt with

vars == <<entries, early_exit, mask, pos, exited, results, full, fullPos>>
-----------------------------------------------------------------------------
(* _STAGE_TYPES_INERT_ON_DECIDED_LINES *)
InertTypes ==
    {"remove_ansi", "strip_lines", "deduplicate_consecutive",
     "group_repeated", "max_tokens", "truncate_lines", "regex_replace",
     "python_ast_summarize", "code_ast_summarize"}

(* A slip: the stage type alone decides. *)
SkippableByType(e) == e.type \in InertTypes

Skippable(e) == e.type \in InertTypes /\ e.preserve = {}

(* A slip: only the stage that comes next is asked about. *)
NextIsSkippable == pos < Len(entries) => Skippable(entries[pos + 1])

(* _remaining_stages_are_skippable(entries[i:]) *)
RestIsSkippable == \A i \in pos + 1 .. Len(entries) : Skippable(entries[i])

(* A slip: the exit is taken as soon as the rest of the list is inert. *)
ExitWithoutDecision == early_exit /\ RestIsSkippable

CanExitEarly == early_exit /\ FullyDecided(mask) /\ RestIsSkippable

Result(e, m, compressed, outcome) ==
    [type |-> e.type, lines_before |-> Len(m),
     lines_compressed |-> compressed, outcome |-> outcome]

(* A slip: the difference taken the other way round. *)
NewlyKept(before, after) ==
    LET d == Cardinality(Decided(before, "COMPRESS"))
        c == Cardinality(Decided(after, "COMPRESS"))
    IN  IF d > c THEN d - c ELSE 0

(* max(0, after_compressed - before_compressed) *)
NewlyCompressed(before, after) ==
    LET b == Cardinality(Decided(before, "COMPRESS"))
        a == Cardinality(Decided(after, "COMPRESS"))
    IN  IF a > b THEN a - b ELSE 0

Running == pos < Len(entries)

Current == entries[pos + 1]
-----------------------------------------------------------------------------
Init ==
    /\ entries \in Pipelines
    /\ early_exit \in BOOLEAN
    /\ \E c \in Contents : mask = FromText(c)
    /\ pos = 0
    /\ exited = FALSE
    /\ results = <<>>
    /\ full = mask
    /\ fullPos = 0

(* The step both runs take together while no exit has been taken: the mask *)
(* becomes m and the stage gets its result.                                *)
Advance(m, compressed, outcome) ==
    /\ mask' = m
    /\ full' = m
    /\ pos' = pos + 1
    /\ fullPos' = fullPos + 1
    /\ results' = Append(results, Result(Current, m, compressed, outcome))
    /\ UNCHANGED <<entries, early_exit, exited>>

(* A slip: the entry the exit was taken at gets no result of its own. *)
EarlyExitOneShort ==
    /\ Running
    /\ CanExitEarly
    /\ exited' = TRUE
    /\ pos' = Len(entries)
    /\ results' = results \o [k \in 1 .. Len(entries) - pos - 1 |->
                                 Result(entries[pos + 1 + k], mask, 0, "early")]
    /\ UNCHANGED <<entries, early_exit, mask, full, fullPos>>

(* Every remaining entry gets a skipped result and none of them runs. *)
EarlyExit ==
    /\ Running
    /\ CanExitEarly
    /\ exited' = TRUE
    /\ pos' = Len(entries)
    /\ results' = results \o [k \in 1 .. Len(entries) - pos |->
                                 Result(entries[pos + k], mask, 0, "early")]
    /\ UNCHANGED <<entries, early_exit, mask, full, fullPos>>

(* can_handle() returned False. *)
SkipStage ==
    /\ Running
    /\ ~CanExitEarly
    /\ Advance(mask, 0, "skipped")

(* apply() returned a mask; PROTECT is restored on it before it is counted. *)
ApplyStage ==
    /\ Running
    /\ ~CanExitEarly
    /\ \E new \in Outcomes(Current, mask) :
          LET m == EnforceProtect(mask, new)
          IN  Advance(m, NewlyCompressed(mask, m), "applied")

(* can_handle() or apply() raised: the stage is dropped, the run goes on. *)
RaiseStage ==
    /\ Running
    /\ ~CanExitEarly
    /\ Advance(mask, 0, "error")

(* The run without early exit works through what the early exit dropped. *)
ShadowStage ==
    /\ exited
    /\ fullPos < Len(entries)
    /\ \/ full' = full
       \/ \E new \in Outcomes(entries[fullPos + 1], full) :
             full' = EnforceProtect(full, new)
    /\ fullPos' = fullPos + 1
    /\ UNCHANGED <<entries, early_exit, mask, pos, exited, results>>

Next == EarlyExit \/ SkipStage \/ ApplyStage \/ RaiseStage \/ ShadowStage

Spec == Init /\ [][Next]_vars
-----------------------------------------------------------------------------
Results == [type : {e.type : e \in Entries}, lines_before : Nat,
            lines_compressed : Nat,
            outcome : {"applied", "skipped", "error", "early"}]

(* The types of the state. *)
TypeOK ==
    /\ entries \in Pipelines
    /\ early_exit \in BOOLEAN
    /\ mask \in Mask(Texts)
    /\ pos \in 0 .. Len(entries)
    /\ exited \in BOOLEAN
    /\ results \in Seq(Results)
    /\ full \in Mask(Texts)
    /\ fullPos \in 0 .. Len(entries)

(* The early exit cannot be seen in the output: at every moment, and so    *)
(* also when both runs are over, what the run renders is what the same run *)
(* would render had no stage been dropped (engine.py: "render() guaranteed *)
(* identical to what actually running them would have produced").          *)
EarlyExitIsInvisible == Render(mask) = Render(full)

(* Every stage ends up with exactly one result, in the order of the list,  *)
(* whichever of the four ways it was dealt with, and a stage that did not  *)
(* run claims no compression.  The trace view reads results by position.   *)
ResultsMatchEntries ==
    /\ Len(results) = pos
    /\ \A i \in 1 .. pos :
          /\ results[i].type = entries[i].type
          /\ results[i].outcome # "applied" => results[i].lines_compressed = 0

(* A trace, run without early exit, never reports an early exit.           *)
(* A stage that comes after one that exited early reports it as well: an   *)
(* early exit is a suffix of the results.                                  *)
EarlyResultsAreASuffix ==
    \A i \in DOMAIN results :
        results[i].outcome = "early" =>
            /\ early_exit
            /\ \A j \in i .. Len(results) :
                  /\ results[j].outcome = "early"
                  /\ Skippable(entries[j])

(* The compression a trace adds up is never less than what the mask shows: *)
(* lines a stage brings back are not subtracted from an earlier stage's    *)
(* count, so total_compressed may overstate and never understates.         *)
CompressedBy(k) == results[k].lines_compressed

TotalCompressed[k \in Nat] ==
    IF k = 0 THEN 0 ELSE TotalCompressed[k - 1] + CompressedBy(k)

TotalCoversCompressed ==
    Cardinality(Decided(mask, "COMPRESS")) <= TotalCompressed[Len(results)]

(* While the line count stands, no step of either run takes PROTECT off a  *)
(* line, whatever the stage returned.                                      *)
ProtectNeverDowngraded ==
    [][/\ Len(mask') = Len(mask) =>
             Decided(mask, "PROTECT") \subseteq Decided(mask', "PROTECT")
       /\ Len(full') = Len(full) =>
             Decided(full, "PROTECT") \subseteq Decided(full', "PROTECT")]_vars
=============================================================================
