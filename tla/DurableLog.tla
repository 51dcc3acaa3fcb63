----------------------------- MODULE DurableLog -----------------------------
(***************************************************************************)
(* What the tracking database promises its callers, without the queue, the *)
(* batching or the worker thread: records are accepted in order, stored in *)
(* batches that keep that order, some may be given up with a warning, and  *)
(* a successful flush() acknowledges only settled records.                 *)
(***************************************************************************)
EXTENDS Naturals

VARIABLES accepted,  \* how many records record() has taken; they are 1..accepted
          stored,    \* the records committed to the invocations table
          givenUp,   \* the records lost with a warning, never silently
          acked      \* the n for which some flush() acknowledged records 1..n

logVars == <<accepted, stored, givenUp, acked>>

LogInit ==
    /\ accepted = 0
    /\ stored = {}
    /\ givenUp = {}
    /\ acked = {}

Accept ==
    /\ accepted' = accepted + 1
    /\ UNCHANGED <<stored, givenUp, acked>>

(* Store some accepted records; all of them are newer than what is stored. *)
Store(batch) ==
    /\ batch \subseteq 1..accepted \ (stored \cup givenUp)
    /\ \A new \in batch, old \in stored : old < new
    /\ stored' = stored \cup batch
    /\ UNCHANGED <<accepted, givenUp>>

(* Lose some accepted records, and say so.                                 *)
GiveUp(batch) ==
    /\ batch \subseteq 1..accepted \ (stored \cup givenUp)
    /\ givenUp' = givenUp \cup batch
    /\ UNCHANGED <<accepted, stored, acked>>

(* flush() answers TRUE: the records it was called for are settled.        *)
Acknowledge(batch, upTo) ==
    /\ Store(batch)
    /\ 1..upTo \subseteq stored' \cup givenUp
    /\ acked' = acked \cup {upTo}

LogNext ==
    \/ Accept
    \/ \E batch \in SUBSET (1..accepted) :
          \/ Store(batch) /\ acked' = acked
          \/ GiveUp(batch)
          \/ \E upTo \in 0..accepted : Acknowledge(batch, upTo)

LogSpec == LogInit /\ [][LogNext]_logVars
=============================================================================
