--------------------------- MODULE MCAlgorithms ---------------------------
(***************************************************************************)
(* The pure algorithms over every small input: each family of inputs grows *)
(* from the empty one, an element at a time, up to its bound.              *)
(***************************************************************************)
EXTENDS AlgorithmCases, MCSources

Rewriter == INSTANCE Rewrite
Diff == INSTANCE StructuralDiff
Data == INSTANCE StructuredData WITH MaxItems <- 2, KeepHead <- 1
Doc == INSTANCE MCDocuments

(* The letters of the paths a search may find, and the paths in order. *)
LowerCase == [A |-> "a"]
Alphabetical == {<<Found[e[1]], Found[e[2]]>> : e \in {p \in (1..4) \X (1..4) : p[1] < p[2]}}

Tree == INSTANCE AstSummaries WITH
    Capitalised <- {"F", "T", "U"}, Underscored <- {"_T"}, Stdlib <- {"os"},
    MaxNamesPerGroup <- 2, MaxInlineModuleNames <- 1

(* How long the inputs of each family grow. *)
Bound == [rows |-> 2, stages |-> 3, lexer |-> 4, classifier |-> 4, facts |-> 3, walked |-> 2,
          edges |-> 5, found |-> 3, text |-> 3, files |-> 2, versions |-> 4,
          elements |-> 4, lines |-> 6, values |-> 4]
-----------------------------------------------------------------------------
Chars == {"w", "7", "=", "\\", "'", "\"", " ", "&", "|", ";", "<", ">"}

Words == {"git", "cat", "python", "-m", "pytest", "-v", "--json", "sudo", "docker", "exec", "xargs"}
Tokens == {[kind |-> "word", value |-> v] : v \in Words}
    \union {[kind |-> "env", value |-> "A=1"], [kind |-> "redirect", value |-> ">"]}
    \union {[kind |-> k, value |-> k] : k \in {"&&", "|", "&", "<<"}}

Rel(kind, qualifier, name, level, segments) ==
    [kind |-> kind, qualifier |-> qualifier, name |-> name,
     target |-> [level |-> level, segments |-> segments, ext |-> FALSE]]

Uses ==
    {<<Rel("calls", "(none)", "F", 0, <<>>)>>, <<Rel("inherits", "(none)", "F", 0, <<>>)>>,
     <<Rel("overrides", "F", "G", 0, <<>>)>>, <<Rel("calls", "b", "F", 0, <<>>)>>,
     <<Rel("calls", "self", "F", 0, <<>>)>>}

Imports ==
    {<<>>, <<Rel("import", "b", "", 1, <<"b">>)>>, <<Rel("import", "F", "", 1, <<"b">>)>>,
     <<Rel("import", "F", "", 2, <<"p", "b">>)>>, <<Rel("import", "F", "", 0, <<"p", "b">>)>>}

Source(path, language, symbols, rels) ==
    [path |-> path, language |-> language, symbols |-> symbols, rels |-> rels]

Facts ==
    {Source(<<"p", "a.py">>, "python", <<"F", "F">>, i \o u) : i \in Imports, u \in Uses}
    \union {Source(<<"p", "a.ts">>, "typescript", <<>>, i \o u) :
              i \in Imports, u \in {<<>>, <<Rel("calls", "b", "F", 0, <<>>)>>}}
    \union {Source(<<"p", "b" \o e[1]>>, e[2], s, <<Rel("import", "a", "", 1, <<"a">>)>>) :
              e \in {<<".py", "python">>, <<".ts", "typescript">>},
              s \in {<<"F">>, <<"F", "G">>}}
    \union {Source(<<"p", "b", f>>, "python", <<"F">>, <<>>) : f \in {"__init__.py", "index.ts"}}
    \union {Source(<<d, "B.java">>, "java", <<"F">>,
                    <<Rel("import", "F", "", 0, <<"B">>), Rel("inherits", "(none)", "F", 0, <<>>)>>) :
              d \in {"p", "q"}}
    \union {Source(<<"src", f>>, "rust", <<"F">>,
                    <<Rel("import", "F", "", 1, <<"m", "F">>), Rel("calls", "(none)", "G", 0, <<>>)>>) :
              f \in {"lib.rs", "m.rs"}}

WalkedFiles ==
    {[path |-> p, language |-> l, available |-> a, extractors |-> x, large |-> g, parses |-> r,
      symbols |-> <<"F">>] :
        p \in {"a", "b"}, l \in {"(none)", "go"}, a \in BOOLEAN,
        x \in {{"symbols"}, {"symbols", "relationships"}}, g \in BOOLEAN,
        r \in SUBSET {"symbols", "relationships"}}

Installed == {{}, {"tree_sitter", "tree_sitter_go", "tree_sitter_java", "tree_sitter_rust",
                   "tree_sitter_c_sharp", "tree_sitter_javascript", "tree_sitter_typescript"}}

(* The diffs a changed file may be part of, and the versions of it.        *)
Commands == {<<"git", "diff">>, <<"git", "diff", "--staged">>, <<"git", "diff", "r", "--", "x.py">>,
             <<"git", "diff", "r", "HEAD">>, <<"git", "show", "-p", "r">>, <<"git", "diff", "-w">>,
             <<"git", "diff", "a..b">>, <<"git", "log">>}

Section(status, new_path) ==
    [old_path |-> "x.py", new_path |-> new_path, python |-> TRUE, status |-> status, hunks |-> TRUE]

Sections == <<Section("changed", "x.py"), Section("added", "x.py"), Section("changed", "y.py")>>

Versions ==
    {[ref |-> r, path |-> "x.py", file |-> Version(input, "old")] : r \in {<<"r">>, <<"r", "^">>, <<>>}}
    \union {[ref |-> <<"HEAD">>, path |-> "x.py", file |-> Version(input, "new")],
            [ref |-> <<"worktree">>, path |-> "x.py", file |-> Version(input, "new")],
            [ref |-> <<"worktree">>, path |-> "y.py", file |-> [Version(input, "new") EXCEPT !.parses = FALSE]]}

Fresh(files) == {x \in files : \A i \in DOMAIN input : input[i].path # x.path}

Alphabet(f) ==
    CASE f = "rows" -> Rows
      [] f = "stages" -> StageResults
      [] f = "lexer" -> Chars
      [] f = "classifier" -> Tokens
      [] f = "facts" -> Fresh(Facts)
      [] f = "walked" -> Fresh(WalkedFiles)
      [] f = "edges" -> {e \in (1..3) \X GraphFiles :
                            \A i \in DOMAIN input : 9 * input[i][1] + input[i][2] < 9 * e[1] + e[2]}
      [] f = "found" -> EntriesFound
      [] f = "text" -> TextTokens
      [] f = "files" -> MayFollow(input)
      [] f = "versions" -> MayChange(input)
      [] f = "elements" -> Doc!ElementsOf
      [] f = "lines" -> Doc!MayBeNext(input)
      [] f = "values" -> Doc!Values

Init == family \in DOMAIN Bound /\ input = <<>>

Grow ==
    /\ Len(input) < Bound[family]
    /\ \E x \in Alphabet(family) : input' = Append(input, x)
    /\ UNCHANGED family

Spec == Init /\ [][Grow]_<<family, input>>
-----------------------------------------------------------------------------
(* rewrite/lexer.py and classifier.py: a command that is rewritten is the  *)
(* same command with quor in front of what it knows, and no program that   *)
(* parses the output gets a rewritten one.                                 *)
RewriteIsFaithful ==
    /\ family = "lexer" => Rewriter!LexerIsExact(input)
    /\ family = "classifier" =>
         \A result \in {Rewriter!classify_command(input)} :
             Rewriter!RewriteAddsOnlyQuor(input, result) /\ Rewriter!ParsedOutputIsLeft(result)

JsonKeepsItsPlace(doc) == Data!RangesHoldWhatTheyCount(doc.root, Data!JsonRanges(doc.root))

YamlKeepsItsPlace(doc) ==
    Data!RangesHoldWhatTheyCount(doc.root, Data!analyze_yaml(doc.root, doc.lines, TRUE))

(* structured_data: what is left out of a JSON, YAML or TOML file, or of a *)
(* JSON value, is the elements that are counted in their place.            *)
ArraysKeepTheirPlace ==
    /\ family = "elements" =>
         \A own, followed \in BOOLEAN :
             /\ JsonKeepsItsPlace(Doc!Document(input, FALSE, own, followed))
             /\ \A block \in {b \in BOOLEAN : b => Doc!MayBeBlock(input)} :
                    YamlKeepsItsPlace(Doc!Document(input, block, own, followed))
    /\ family = "lines" => Data!TablesHoldWhatTheyCount(input)
    /\ family = "values" =>
         \A drop \in Doc!DropPairs : \A tail \in {0, 1} :
             Data!ProjectionTellsWhatItHides(Doc!List(input), drop, 1, tail)

TreeKeepsItsOutline(language, root, read) ==
    /\ Tree!OutlineSurvives(root, read)
    /\ Tree!CallsHaveTheirFunction(language, root, read)
    /\ \A dear \in {{}, {1}} :
           Tree!BlocksAccountForImports(root, read, Tree!BlocksOf(language, root, read, dear))

(* ast_summarize and structured_data: what is compressed of a file leaves  *)
(* its outline, and what leaves the text is in the graph, in a block, or   *)
(* counted where it was.                                                   *)
SummariesKeepTheOutline ==
    /\ ArraysKeepTheirPlace
    /\ family = "files" /\ input # <<>> =>
         \A language \in {input[1].language}, root \in {File(input)}, installed \in Installed :
             TreeKeepsItsOutline(language, root, Tree!Read(language, root, installed))

ResultIsTrue(old, new, result) ==
    /\ Diff!EveryDeclarationIsTold(old, new, result)
    /\ Diff!TellsTheTruth(result)
    /\ Diff!QuietMeansSameDeclarations(old, new, result)

SummaryIsTrue(old, new) == ResultIsTrue(old, new, Diff!diff_python_files(old, new))

(* structural_diff_python.py: the summary that takes the place of a hunk   *)
(* tells of every declaration, once, and what it tells is true.            *)
SummaryOfADiffIsTrue ==
    family = "versions" => SummaryIsTrue(Version(input, "old"), Version(input, "new"))

(* QB-099: what is called formatting-only is formatting.                   *)
FormattingOnlyIsFormatting ==
    family = "versions" =>
        \A command \in Commands : Diff!FormattingOnlyIsFormatting(command, Sections, Versions)
=============================================================================
