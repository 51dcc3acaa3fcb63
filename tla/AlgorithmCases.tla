--------------------------- MODULE AlgorithmCases ---------------------------
(***************************************************************************)
(* What the pure algorithms are checked on, and what is checked of them:   *)
(* an input of one family is a sequence of elements, and a property of a   *)
(* family says what the algorithms make of it.  The families that need a   *)
(* syntax tree are in MCAlgorithms.                                        *)
(***************************************************************************)
EXTENDS Integers, Sequences, FiniteSetsExt, SequencesExt

CONSTANTS Upper, Lower, Word, PathBefore

VARIABLES family, input

Reports == INSTANCE Analytics
Finder == INSTANCE RepoSearch
Graph == INSTANCE RepoGraph
-----------------------------------------------------------------------------
Projects == {<<"m_p">>, <<"mxp">>, <<"m_p", "sub">>}

Row(filter, tool, file, original, final, at, segments) ==
    [filter |-> filter, tool |-> tool, file |-> file, original |-> original, final |-> final,
     passthrough |-> filter = 0, at |-> at, path |-> [segments |-> segments]]

Rows ==
    {Row(f, "bash", 0, t[1], t[2], 6, p) : f \in {1, 2}, t \in {<<2, 1>>, <<3, 4>>, <<0, 1>>},
                                         p \in Projects}
    \union {Row(f, "bash", 0, 2, 2, at, <<"m_p">>) : f \in {0, 8}, at \in {2, 3, 6}}
    \union {Row(1, tool, file, 4, 1, 6, <<"m_p">>) :
              tool \in {"read", "focal_file", "compress_context", "get_repo_context"},
              file \in {1, 2}}

StageResults ==
    {[type |-> t, left |-> left, error |-> e, was_skipped |-> s] :
        t \in {"a", "b"}, left \in 0..2, e \in BOOLEAN, s \in BOOLEAN}

(* What n stages leave of the tokens: a stage that fails or is skipped     *)
(* leaves them as they were.                                               *)
Left(stages, tokens, n) ==
    LET ran == {i \in 1..n : ~stages[i].error /\ ~stages[i].was_skipped}
    IN  IF ran = {} THEN tokens ELSE stages[Max(ran)].left

Traced(stages, tokens) ==
    [i \in DOMAIN stages |->
        [type |-> stages[i].type, error |-> stages[i].error, was_skipped |-> stages[i].was_skipped,
         before |-> Left(stages, tokens, i - 1), after |-> Left(stages, tokens, i)]]

-----------------------------------------------------------------------------
(* The paths a search may find. *)
Found == <<<<<<"a">>, <<"a", "b">>>>, <<<<"a">>, <<"b", ".", "a">>>>, <<<<"A", "b">>>>, <<<<"b">>>>>>

(* The alphabetical order of some paths is a strict total order.           *)
PathOrder(P) ==
    /\ \A p \in P : <<p, p>> \notin PathBefore
    /\ \A p, q, s \in P : <<p, q>> \in PathBefore /\ <<q, s>> \in PathBefore => <<p, s>> \in PathBefore
    /\ \A p, q \in P : p = q \/ <<p, q>> \in PathBefore \/ <<q, p>> \in PathBefore

ASSUME PathsAreOrdered == PathOrder({Found[i] : i \in DOMAIN Found})

(* The i-th of the entries a search looks at. *)
Names == {<<<<"a">>>>, <<<<"A", "b">>, <<"b", "A", "b">>>>, <<>>}
EntriesFound ==
    {[top_symbols |-> n, imported |-> t, importance |-> w[1], entry_point |-> w[2],
      kind |-> "source", language |-> "python"] :
        n \in Names, t \in {{}, {1}, {2, 4}}, w \in {<<"High", TRUE>>, <<"Low", FALSE>>}}

Cached ==
    LET known == {Found[i] : i \in DOMAIN input}
        At(p) == input[CHOOSE i \in DOMAIN input : Found[i] = p]
    IN  [p \in known |-> [k \in DOMAIN At(p) \union {"imported_files"} |->
            IF k = "imported_files" THEN {Found[t] : t \in At(p).imported} ELSE At(p)[k]]]

Find(query, limit) == Finder!search(Cached, query, Finder!NoFilters, limit)

Evidences(queries) ==
    [p \in DOMAIN Cached |-> {Finder!_best_evidence(Cached, p, Finder!casefold(q)) : q \in ToSet(queries)}]

Queries == {<<<<"a">>, <<"b">>>>, <<<<"b">>, <<"a">>>>, <<<<"A", "b">>, <<"a">>>>, <<<<"b", ".", "a">>>>}

TextTokens ==
    {[quoted |-> q, text |-> t] :
        q \in BOOLEAN, t \in {<<"a">>, <<"A">>, <<"a", "A">>, <<"a", "_", "b">>, <<"A", "_", "b">>,
                              <<"a", ".">>, <<"a", ".", "b">>, <<"-", "_">>, <<"b", "A", "-">>}}
-----------------------------------------------------------------------------
(* Files 1 to 3 have an entry, file 4 is only imported. *)
GraphFiles == 1..4
Entries ==
    [f \in 1..3 |->
        [imported_files |-> {e[2] : e \in {input[i] : i \in DOMAIN input} \cap ({f} \X GraphFiles)}]]

OnDisk(readable, parses, language) ==
    [readable |-> readable, language |-> language, analyzer |-> language # "text",
     parses |-> parses, refers |-> {"T"},
     declares |-> {[name |-> "T", kind |-> "class"], [name |-> "U", kind |-> "function"]}]

Disks ==
    {[f \in GraphFiles |-> OnDisk(f # d[1], f # d[2], IF f = d[3] THEN d[4] ELSE "python")] :
        d \in {<<0, 0, 0, "">>, <<2, 3, 0, "">>, <<3, 2, 4, "go">>, <<0, 0, 2, "text">>, <<1, 4, 3, "go">>}}

-----------------------------------------------------------------------------
(* db.py, quor/analytics: every report of a project is a view of the same  *)
(* rows, none of another project's, and their totals agree.                *)
ReportsAddUp ==
    /\ family = "rows" =>
         \A p \in Projects : LET path == [segments |-> p]
                             IN  /\ Reports!ReportsAgree(input, path, 6, 2)
                                 /\ Reports!ReportStaysInProject(input, path, 6, 2)
    /\ family = "stages" => Reports!SummaryEndsAtOutput(2, Traced(input, 2))

(* repo_profile/search.py and query_extract.py: a file is listed by its    *)
(* strongest evidence, and nothing stronger is missing from a cut list.    *)
SearchFindsTheStrongest ==
    /\ family = "found" =>
         \A limit \in 1..2, queries \in Queries :
             /\ Finder!ShorterListIsABeginning(Find(queries[1], limit), Find(queries[1], limit + 1))
             /\ Finder!MergeLosesNoStrongerFile(Finder!merge_search(Cached, queries, limit, {}),
                                                Evidences(queries), limit)
    /\ family = "text" => Finder!TermsComeInOrder(input, 2)

(* repo_profile/graph.py, graph_distance.py, tiered_collapse.py: the graph *)
(* does not depend on the walk, leads only where the files say, and gives  *)
(* each file around the focal one its distance and its tier.               *)
GraphIsTrue ==
    /\ family = "facts" => /\ Graph!EdgesAreTrue(input, Graph!_resolve_all(input))
                           /\ Graph!WalkOrderIsIrrelevant(input)
    /\ family = "walked" => Graph!GraphHasNoMoreThanTheIndex(ToSet(input))
    /\ family = "edges" =>
         \A focal \in {1, 4} :
             /\ Graph!HopsAreShortest(Entries, focal, 2) /\ Graph!HopsAreShortest(Entries, focal, 3)
             /\ \A disk \in Disks : Graph!ContextCoversTheNeighbourhood(disk, Entries, focal)
=============================================================================
