----------------------------- MODULE MCPipeline -----------------------------
(* The pipeline over the most general stages the engine may meet: a stage  *)
(* the early exit may drop does anything the contract allows, a plugin or  *)
(* a stage with preserve_patterns anything at all, new line counts included.*)
EXTENDS PipelineContract

CONSTANTS t1, t2, MaxLines, MaxStages

MCTexts == {t1, t2}

SeqsUpTo(S, n) == UNION {[1 .. k -> S] : k \in 0 .. n}

MCMasks == SeqsUpTo(Line(MCTexts), MaxLines) \ {<<>>}

MCContents == SeqsUpTo(MCTexts, MaxLines) \ {<<>>}

MCEntries ==
    {[type |-> "strip_lines", preserve |-> {}],
     [type |-> "group_repeated", preserve |-> {"p"}],
     [type |-> "plugin", preserve |-> {}]}

MCPipelines == SeqsUpTo(MCEntries, MaxStages)

MCOutcomes(e, m) ==
    IF Skippable(e) /\ FullyDecided(m)
    THEN {new \in MCMasks : Keeps(m, new)}
    ELSE MCMasks
=============================================================================
