------------------------------ MODULE MCStages ------------------------------
(***************************************************************************)
(* The pipeline over the built-in stages: each stage type with the         *)
(* configurations that take different branches, each list of at most       *)
(* MaxStages of them, over every content of at most MaxLines lines taken   *)
(* from one family of lines.  A list and a content are put together when   *)
(* the types of the list are those meant for the family.                   *)
(***************************************************************************)
EXTENDS StagePipeline

CONSTANTS
    MaxLines, MaxStages,
    TextFamilies, TextTypes,    \* families of lines, and the stage types for them
    FoldFamilies, FoldTypes,    \* lines that have a structure, and the types for them
    InlineToo       \* BOOLEAN: remove_ansi with strip_inline as well

Text(body, kind, dir, skin, num, size) ==
    [body |-> body, kind |-> kind, dir |-> dir, skin |-> skin,
     num |-> num, size |-> size, notes |-> <<>>]

Word(body, size) == Text(body, "word", "", "plain", 0, size)

Family(name) ==
    CASE name = "log" ->
           {Word("noise", 1), Word("error", 2), Text("warn", "word", "x", "plain", 0, 1),
            Text("warn", "word", "y", "plain", 0, 1)}
      [] name = "ansi" ->
           {Word("noise", 1), Word("error", 2), Text("", "word", "", "escapes", 0, 1),
            Text("noise", "word", "", "inline", 0, 1)}
      [] name = "import" ->
           {Text("noise", "import", "", "plain", 0, 2),
            Text("error", "import", "", "plain", 0, 2),
            Text("", "blank", "", "plain", 0, 1), Text("code", "code", "", "plain", 0, 2)}
      [] name = "number" ->
           {Text("int", "int", "", "plain", 8, 1), Text("int", "int", "", "plain", 9, 1),
            Text("int", "int", "", "plain", 10, 1), Word("error", 1)}
      [] name = "path" ->
           {Text("noise", "path", "src", "plain", 0, 3), Text("error", "path", "src", "padded", 0, 4),
            Text("warn", "path", "lib", "plain", 0, 3)}
      [] name = "time" ->
           {Text("noise", "time", "", "plain", 1, 2), Text("error", "time", "", "plain", 2, 2),
            Text("warn", "time", "", "plain", 2, 2)}
      [] name = "diff" ->
           {Text("noise", "diff", "", "plain", 0, 2), Text("error", "carrier", "", "plain", 0, 2),
            Word("warn", 1)}
      [] name = "json" ->
           {Text("noise", "element", "", "plain", 0, 1), Text("error", "element", "", "plain", 0, 1),
            Word("warn", 1)}

MCTexts == LineTexts(STRING, STRING)

ContentsOf(families) ==
    UNION {UNION {[1 .. n -> Family(f)] : n \in 1 .. MaxLines} : f \in families}

MCContents == ContentsOf(TextFamilies \union FoldFamilies)

Stage(type) == [type |-> type, preserve |-> {}]

Some == {{"noise", "warn", "int"}}      \* the lines a patterns field names
All == Some \union {{"error"}}
Saved == {{"error"}}                    \* the lines preserve_patterns names

WithPreserve(s) == {s, [s EXCEPT !.preserve = Saved]}

Group1(exact, location, scope) ==
    Stage("group_repeated") @@
    [patterns |-> <<{"noise", "warn", "error"}>>, min_count |-> 2,
     exact_match |-> exact, location |-> location, scope |-> scope]

Configured(type) ==
    CASE type = "remove_ansi" ->
           {Stage(type) @@ [strip_inline |-> x] : x \in {FALSE} \union {InlineToo}}
      [] type = "strip_lines" -> WithPreserve(Stage(type) @@ [patterns |-> Some])
                                  \union {Stage(type) @@ [patterns |-> All]}
      [] type = "deduplicate_consecutive" -> {Stage(type) @@ [show_count |-> TRUE]}
      [] type = "group_repeated" ->
           WithPreserve(Group1(FALSE, FALSE, "run")) \union
           {Group1(TRUE, FALSE, "run"), Group1(FALSE, TRUE, "run"), Group1(FALSE, TRUE, "global"),
            [Group1(FALSE, TRUE, "run") EXCEPT !.patterns = <<{"noise"}, {"warn", "error"}>>]}
      [] type = "max_tokens" ->
           {Stage(type) @@ [limit |-> 3, strategy |-> s] : s \in {"head", "tail", "both"}}
      [] type = "truncate_lines" -> {Stage(type) @@ [max_length |-> 1]}
      [] type = "regex_replace" ->
           {Stage(type) @@ [rules |-> <<[pattern |-> {"warn"}, replacement |-> "noise"]>>]}
      [] type = "column_padding_compression" -> {Stage(type) @@ [patterns |-> All]}
      [] type = "match_output" -> {Stage(type) @@ [outputs |-> {<<>>, <<"noise">>}]}
      [] type = "path_prefix_fold" -> {Stage(type) @@ [patterns |-> All]}
      [] type = "collapse_unchanged_context" ->
           WithPreserve(Stage(type) @@ [context_lines |-> 0])
      [] type \in {"python_ast_summarize", "structured_data_summarize"} -> WithPreserve(Stage(type))
      [] OTHER -> {Stage(type)}

EntriesOf(types) == UNION {Configured(t) : t \in types}

PipelinesOf(types) == UNION {[1 .. n -> EntriesOf(types)] : n \in 0 .. MaxStages}

MCEntries == EntriesOf(TextTypes \union FoldTypes)

MCPipelines == PipelinesOf(TextTypes) \union PipelinesOf(FoldTypes)

MCOutcomes(e, m) == {StageApply(e, m)}

Suits(families, types) ==
    /\ \A i \in DOMAIN entries : entries[i].type \in types
    /\ \E f \in families : \A i \in DOMAIN mask : mask[i].text \in Family(f)

SuitedInit ==
    /\ Init
    /\ Suits(TextFamilies, TextTypes) \/ Suits(FoldFamilies, FoldTypes)

SuitedSpec == SuitedInit /\ [][Next]_vars
=============================================================================
