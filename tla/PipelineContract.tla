-------------------------- MODULE PipelineContract --------------------------
(***************************************************************************)
(* What the early exit asks of the stages it may drop.  The engine states  *)
(* it in a comment and checks it by hand ("a hand-audited allowlist");     *)
(* here it is the assumption the theorems of PipelineProofs rest on, and   *)
(* MCStages asks TLC which built-in stages meet it.                        *)
(***************************************************************************)
EXTENDS Pipeline

CONSTANT MaskSpace      \* masks closed under the stages and under enforcement

(* new keeps what a decided mask m shows: its line count, what it hides,   *)
(* and the text of what it protects.                                       *)
Keeps(m, new) ==
    /\ Len(new) = Len(m)
    /\ \A i \in DOMAIN m :
          IF m[i].decision = "COMPRESS"
          THEN new[i].decision = "COMPRESS"
          ELSE new[i].text = m[i].text

InertOnDecided(e) ==
    \A m \in MaskSpace : FullyDecided(m) =>
        \A new \in Outcomes(e, m) : Keeps(m, new)

ASSUME EntriesAssumption == Pipelines \subseteq Seq(Entries)

ASSUME MasksAssumption ==
    /\ MaskSpace \subseteq Mask(Texts)
    /\ \A c \in Contents : FromText(c) \in MaskSpace
    /\ \A e \in Entries, m \in MaskSpace : Outcomes(e, m) \subseteq MaskSpace
    /\ \A m, n \in MaskSpace : EnforceProtect(m, n) \in MaskSpace

ASSUME ContractAssumption ==
    \A e \in Entries : Skippable(e) => InertOnDecided(e)
=============================================================================
