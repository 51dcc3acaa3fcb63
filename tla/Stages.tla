------------------------------- MODULE Stages -------------------------------
(***************************************************************************)
(* The built-in stages of quor/pipeline/stages: what apply() makes of a    *)
(* mask, for each stage type and configuration.                            *)
(*                                                                         *)
(* A text is a record of what the stages can tell apart:                   *)
(*   body   what the line says; a pattern is the set of bodies it matches  *)
(*   kind   the shape a structural stage looks for ("import", "int", ...)  *)
(*   dir    the path prefix or location the line carries, "" if none       *)
(*   skin   "plain", "inline" (text with ANSI codes), "escapes" (ANSI      *)
(*          codes only) or "padded" (column alignment)                     *)
(*   num    the integer or timestamp of a line that has one, a count or a  *)
(*          difference in a line a stage wrote                             *)
(*   size   its estimated tokens                                           *)
(*   notes  what stages appended to it, in order                           *)
(* Every stage works on positions: a line's fate is a function of the mask *)
(* it was given, so a stage is the concatenation of the pieces its lines   *)
(* become.                                                                 *)
(***************************************************************************)
EXTENDS Masks, FiniteSetsExt, SequencesExt

CONSTANTS
    DirTokens,      \* tokens of a path prefix
    SummaryTokens   \* tokens of a placeholder, header, range or block text

NoDir == ""

Note(what, n) == [what |-> what, n |-> n]

WithNote(t, what, n) ==
    [t EXCEPT !.notes = Append(@, Note(what, n)), !.size = @ + 1]

(* A line a stage writes: a summary of n lines. *)
Summary(what, n) ==
    [body |-> what, kind |-> "summary", dir |-> NoDir, skin |-> "plain",
     num |-> n, size |-> SummaryTokens, notes |-> <<>>]

Plain(t) == [t EXCEPT !.skin = "plain"]

MatchesAny(t, patterns) == \E p \in patterns : t.body \in p

Is(m, i, d) == m[i].decision = d

Kept(m) == Decided(m, "KEEP")

Hide(l) == LineOf(l.text, "COMPRESS")

Rewrite(t) == LineOf(t, "KEEP")

Pieces(m, Piece(_)) == FlattenSeq([i \in DOMAIN m |-> Piece(i)])

Between(i, j) == IF i <= j THEN i .. j ELSE j .. i

(* The longest stretch around i of positions that belong with i. *)
RunOf(m, Belongs(_, _), i) ==
    {j \in DOMAIN m : \A k \in Between(i, j) : Belongs(i, k)}

TotalSize(m, S) == FoldSet(LAMBDA i, sum : sum + m[i].text.size, 0, S)
-----------------------------------------------------------------------------
(* preserve_patterns as group_repeated, max_tokens, remove_ansi,           *)
(* apply_preserve_patterns and _apply_ast_summary read it: any line that   *)
(* is not PROTECT yet, a COMPRESS line included.                           *)
Preserve(m, patterns) ==
    [i \in DOMAIN m |-> IF MatchesAny(m[i].text, patterns)
                        THEN LineOf(m[i].text, "PROTECT")
                        ELSE m[i]]

(* ... and as the other stages read it: KEEP lines only.                   *)
PreserveKept(m, patterns) ==
    [i \in DOMAIN m |-> IF Is(m, i, "KEEP") /\ MatchesAny(m[i].text, patterns)
                        THEN LineOf(m[i].text, "PROTECT")
                        ELSE m[i]]

(* remove_ansi *)
AnsiLine(l, strip_inline) ==
    IF l.decision = "PROTECT" THEN l
    ELSE IF l.text.skin = "escapes" THEN Hide(l)
    ELSE IF strip_inline /\ l.text.skin = "inline" THEN Rewrite(Plain(l.text))
    ELSE l

RemoveAnsi(m, e) ==
    LET p == Preserve(m, e.preserve)
    IN  [i \in DOMAIN p |-> AnsiLine(p[i], e.strip_inline)]

(* strip_lines *)
StripLines(m, e) ==
    LET p == PreserveKept(m, e.preserve)
    IN  [i \in DOMAIN p |-> IF Is(p, i, "KEEP") /\ MatchesAny(p[i].text, e.patterns)
                            THEN Hide(p[i])
                            ELSE p[i]]

(* deduplicate_consecutive: a KEEP line equal to the last line that was    *)
(* not hidden.  A repeat of a repeat has the anchor's text, so the line    *)
(* before it among those not hidden on entry is the one to compare with.   *)
Previous(m, i) == {j \in Visible(m) : j < i}

Repeats(m, i) ==
    /\ Is(m, i, "KEEP")
    /\ Previous(m, i) # {}
    /\ m[Max(Previous(m, i))].text = m[i].text

Anchor(m, i) == Max({j \in Visible(m) : j <= i /\ ~Repeats(m, j)})

Deduplicate(m, e) ==
    LET p == PreserveKept(m, e.preserve)
        count(i) == Cardinality({j \in Visible(p) : Anchor(p, j) = i})
    IN  [i \in DOMAIN p |->
            IF Repeats(p, i) THEN Hide(p[i])
            ELSE IF e.show_count /\ Is(p, i, "KEEP") /\ count(i) > 1
            THEN Rewrite(WithNote(p[i].text, "times", count(i)))
            ELSE p[i]]
-----------------------------------------------------------------------------
(* group_repeated: one pass per pattern.  A group is a run of consecutive  *)
(* KEEP lines that match (the same text under exact_match, the same text   *)
(* but for its location under location_pattern), or, in global scope, all  *)
(* KEEP lines that match and are alike.  Its first line stands for it.     *)
WithoutLocation(t) == [t EXCEPT !.dir = NoDir]

SameButLocation(s, t) == WithoutLocation(s) = WithoutLocation(t)

Alike(e, s, t) ==
    IF e.scope = "global"
    THEN IF e.location THEN SameButLocation(s, t) ELSE s = t
    ELSE /\ e.exact_match => s = t
         /\ e.location => SameButLocation(s, t)

Group(m, e, pattern, i) ==
    LET belongs(k, j) == /\ Is(m, j, "KEEP")
                         /\ m[j].text.body \in pattern
                         /\ Alike(e, m[k].text, m[j].text)
    IN  IF e.scope = "global"
        THEN {j \in DOMAIN m : belongs(i, j)}
        ELSE RunOf(m, belongs, i)

(* A slip: the summary counts the line it follows as well. *)
GroupedPieceMiscounted(m, e, group, i) ==
    IF ~Is(m, i, "KEEP") \/ Cardinality(group) < e.min_count \/ i \notin group
    THEN <<m[i]>>
    ELSE IF i # Min(group) THEN <<Hide(m[i])>>
    ELSE <<m[i], Rewrite(Summary("more", Cardinality(group)))>>

GroupedPiece(m, e, group, i) ==
    IF ~Is(m, i, "KEEP") \/ Cardinality(group) < e.min_count \/ i \notin group
    THEN <<m[i]>>
    ELSE IF i # Min(group) THEN <<Hide(m[i])>>
    ELSE IF e.scope = "global" \/ e.location
    THEN <<m[i], Rewrite(Summary("more", Cardinality(group) - 1))>>
    ELSE <<Rewrite(WithNote(m[i].text, "times", Cardinality(group)))>>

GroupRepeated(m, e) ==
    IF e.patterns = <<>> THEN m
    ELSE FoldLeft(LAMBDA lines, pattern :
                    LET piece(i) == GroupedPiece(lines, e, Group(lines, e, pattern, i), i)
                    IN  Pieces(lines, piece),
                  Preserve(m, e.preserve), e.patterns)

(* A slip: every line is measured against the whole budget. *)
GreedyPerLine(m, limit) ==
    {i \in DOMAIN m : Is(m, i, "KEEP") /\ m[i].text.size <= limit}

(* max_tokens.  Greedy: in order, a KEEP line is kept when what is left of *)
(* the budget covers it; one that does not fit is passed over, not a stop. *)
Greedy(m, limit) ==
    LET fits(i, spent) == Is(m, i, "KEEP") /\ spent + m[i].text.size <= limit
        spent[i \in 0 .. Len(m)] ==
            IF i = 0 THEN 0
            ELSE spent[i - 1] +
                 (IF fits(i, spent[i - 1]) THEN m[i].text.size ELSE 0)
    IN  {i \in DOMAIN m : fits(i, spent[i - 1])}

HeadIndices(m, limit) == Greedy(m, limit)

TailIndices(m, limit) ==
    {Len(m) + 1 - i : i \in Greedy(Reverse(m), limit)}

KeptIndices(m, e) ==
    LET half == IF e.limit \div 2 > 1 THEN e.limit \div 2 ELSE 1
    IN  CASE e.strategy = "head" -> HeadIndices(m, e.limit)
          [] e.strategy = "tail" -> TailIndices(m, e.limit)
          [] e.strategy = "both" -> HeadIndices(m, half) \union TailIndices(m, half)

MaxTokens(m, e) ==
    LET p == Preserve(m, e.preserve)
    IN  IF TotalSize(p, Visible(p)) <= e.limit THEN p
        ELSE [i \in DOMAIN p |->
                IF Is(p, i, "KEEP") /\ i \notin KeptIndices(p, e)
                THEN Hide(p[i])
                ELSE p[i]]
-----------------------------------------------------------------------------
(* truncate_lines, regex_replace, column_padding_compression: each KEEP    *)
(* line on its own.                                                        *)
Truncated(t, max_length) ==
    IF t.size > max_length
    THEN [WithNote(t, "cut", max_length) EXCEPT !.size = max_length]
    ELSE t

OnKept(m, Change(_)) ==
    [i \in DOMAIN m |-> IF Is(m, i, "KEEP") THEN Rewrite(Change(m[i].text)) ELSE m[i]]

(* A slip: protected lines are cut along with the others. *)
TruncateEveryLine(m, e) ==
    LET p == PreserveKept(m, e.preserve)
    IN  [i \in DOMAIN p |-> LineOf(Truncated(p[i].text, e.max_length), p[i].decision)]

TruncateLines(m, e) ==
    LET change(t) == Truncated(t, e.max_length)
    IN  OnKept(PreserveKept(m, e.preserve), change)

Replaced(t, rules) ==
    FoldLeft(LAMBDA s, r : IF s.body \in r.pattern
                           THEN [s EXCEPT !.body = r.replacement]
                           ELSE s,
             t, rules)

RegexReplace(m, e) ==
    LET change(t) == Replaced(t, e.rules)
    IN  IF e.rules = <<>> THEN m
        ELSE OnKept(PreserveKept(m, e.preserve), change)

Unpadded(t, patterns) ==
    IF t.skin = "padded" /\ MatchesAny(t, patterns) /\ t.size > 1
    THEN [Plain(t) EXCEPT !.size = @ - 1]
    ELSE t

ColumnPadding(m, e) ==
    LET change(t) == Unpadded(t, e.patterns)
    IN  IF e.patterns = {} THEN m ELSE OnKept(Preserve(m, e.preserve), change)

(* match_output: the whole render against one pattern, never over a        *)
(* protected line.                                                         *)
MatchOutput(m, e) ==
    LET shown == Render(m)
        said == [k \in DOMAIN shown |-> shown[k].body]
    IN  IF m = <<>> \/ Decided(m, "PROTECT") # {} \/ said \notin e.outputs
        THEN m
        ELSE [i \in DOMAIN m |-> IF i = 1 THEN Rewrite(Summary("output", 0))
                                 ELSE Hide(m[i])]

(* protect_diff_filename_headers: a "diff --git" line that no line of its  *)
(* segment repeats the filename of.                                        *)
ProtectHeaders(m) ==
    LET headers == {i \in DOMAIN m : m[i].text.kind = "diff"}
        segment(i) == {j \in DOMAIN m : j > i /\ headers \intersect i + 1 .. j = {}}
        carried(i) == \E j \in segment(i) : m[j].text.kind = "carrier"
    IN  [i \in DOMAIN m |->
            IF i \in headers /\ ~carried(i) /\ Is(m, i, "KEEP")
            THEN LineOf(m[i].text, "PROTECT")
            ELSE m[i]]
-----------------------------------------------------------------------------
(* The folding stages: a run of KEEP lines becomes fewer or shorter lines  *)
(* when that costs fewer tokens.                                           *)

(* path_prefix_fold: a header with the shared prefix, then the suffixes.   *)
PathPrefixFold(m, e) ==
    LET p == Preserve(m, e.preserve)
        belongs(i, j) == Is(p, j, "KEEP") /\ MatchesAny(p[j].text, e.patterns)
        child(t) == [t EXCEPT !.dir = NoDir,
                              !.size = IF @ > DirTokens THEN @ - DirTokens ELSE 1]
        folded(run) ==
            SummaryTokens + FoldSet(LAMBDA i, sum : sum + child(p[i].text).size, 0, run)
        folds(run) ==
            /\ Cardinality(run) >= 2
            /\ \A i, j \in run : p[i].text.dir = p[j].text.dir /\ p[i].text.dir # NoDir
            /\ folded(run) < TotalSize(p, run)
        header(run) ==
            Rewrite([Summary("entries", Cardinality(run))
                        EXCEPT !.dir = p[Min(run)].text.dir])
        piece(i) ==
            LET run == RunOf(p, belongs, i)
            IN  IF i \notin run \/ ~folds(run) THEN <<p[i]>>
                ELSE IF i = Min(run) THEN <<header(run), Rewrite(child(p[i].text))>>
                ELSE <<Rewrite(child(p[i].text))>>
    IN  IF e.patterns = {} THEN m ELSE Pieces(p, piece)

(* collapse_unchanged_context: the middle of a run of KEEP lines, beyond   *)
(* context_lines on either side, becomes one placeholder.                  *)
CollapseUnchanged(m, e) ==
    LET belongs(i, j) == Is(m, j, "KEEP")
        middle(run) == {i \in run : /\ i >= Min(run) + e.context_lines
                                    /\ i <= Max(run) - e.context_lines}
        collapses(mid) == mid # {} /\ SummaryTokens < TotalSize(m, mid)
    IN  [i \in DOMAIN m |->
            LET mid == IF Is(m, i, "KEEP") THEN middle(RunOf(m, belongs, i)) ELSE {}
            IN  IF i \notin mid \/ ~collapses(mid) THEN m[i]
                ELSE IF i = Min(mid)
                THEN Rewrite(Summary("omitted", Cardinality(mid)))
                ELSE Hide(m[i])]

(* numeric_range_compression: consecutive integers of one width (two       *)
(* digits are the most the bounded instances use).                         *)
Digits(n) == IF n < 10 THEN 1 ELSE 2

(* A slip: the range ends one short of its last line. *)
RangeLineShort(m, run, i) ==
    IF i = Min(run) THEN Rewrite(Summary("range", Cardinality(run) - 1)) ELSE Hide(m[i])

RangeLine(m, run, i) ==
    IF i = Min(run) THEN Rewrite(Summary("range", Cardinality(run))) ELSE Hide(m[i])

NumericRange(m, e) ==
    LET p == Preserve(m, e.preserve)
        belongs(i, j) ==
            /\ Is(p, j, "KEEP") /\ p[j].text.kind = "int"
            /\ p[j].text.notes = <<>> /\ p[j].text.skin = "plain"
            /\ Digits(p[j].text.num) = Digits(p[i].text.num)
            /\ p[j].text.num + i = p[i].text.num + j
        folds(run) == Cardinality(run) >= 2 /\ SummaryTokens < TotalSize(p, run)
    IN  [i \in DOMAIN p |->
            LET run == RunOf(p, belongs, i)
            IN  IF i \notin run \/ ~folds(run) THEN p[i] ELSE RangeLine(p, run, i)]

(* relative_timestamp_compression: from the second line of a run of        *)
(* timestamps that do not go back, the difference to the line before.      *)
RelativeTimestamps(m, e) ==
    LET p == Preserve(m, e.preserve)
        stamped(j) == Is(p, j, "KEEP") /\ p[j].text.kind = "time"
        forward(i, j) ==
            \A k \in Between(i, j) \ {Min({i, j})} : p[k - 1].text.num <= p[k].text.num
        belongs(i, j) ==
            /\ \A k \in Between(i, j) : stamped(k)
            /\ forward(i, j)
        folds(run) == \E i \in run : i # Min(run) /\ p[i].text.size > 1
        delta(i) == [p[i].text EXCEPT !.kind = "delta",
                                      !.size = IF @ > 1 THEN @ - 1 ELSE 1,
                                      !.num = @ - p[i - 1].text.num]
    IN  [i \in DOMAIN p |->
            LET run == RunOf(p, belongs, i)
            IN  IF i \in run /\ i # Min(run) /\ folds(run) THEN Rewrite(delta(i)) ELSE p[i]]
-----------------------------------------------------------------------------
(* python_ast_summarize and code_ast_summarize.  The analyzer reads every  *)
(* line of the mask, hidden ones too: a run of at least two imports, with  *)
(* only blank lines and comments between them, is replaced by a block when *)
(* that is cheaper, unless one of its lines matches preserve_patterns of   *)
(* this stage; function bodies are hidden.  A line that is not KEEP is     *)
(* passed over before the replacement is looked at.                        *)
ImportRuns(m) ==
    {r \in {i .. j : i, j \in DOMAIN m} :
        /\ Cardinality(r) >= 2
        /\ \A i \in r : m[i].text.kind \in {"import", "blank"}
        /\ m[Min(r)].text.kind = "import"
        /\ m[Max(r)].text.kind = "import"}

Replacements(m) ==
    {r \in ImportRuns(m) :
        /\ \A s \in ImportRuns(m) : r \subseteq s => r = s
        /\ SummaryTokens < TotalSize(m, r)}

AstSummarize(m, e) ==
    LET p == Preserve(m, e.preserve)
        preserved == {i \in DOMAIN m : ~Is(m, i, "PROTECT") /\ Is(p, i, "PROTECT")}
        valid == {r \in Replacements(m) : r \intersect preserved = {}}
        imports(r) == Cardinality({i \in r : m[i].text.kind = "import"})
        nothing == Replacements(m) = {} /\ \A i \in DOMAIN m : m[i].text.kind # "code"
    IN  IF nothing THEN m
        ELSE [i \in DOMAIN p |->
                IF ~Is(p, i, "KEEP") THEN p[i]
                ELSE IF \E r \in valid : i = Min(r)
                THEN Rewrite(Summary("imports",
                                imports(CHOOSE r \in valid : i = Min(r))))
                ELSE IF i \in UNION valid \/ p[i].text.kind = "code" THEN Hide(p[i])
                ELSE p[i]]

(* structured_data_summarize: a range of array elements becomes a summary  *)
(* on its first line, unless one of its lines is protected.                *)
Elements(m) ==
    LET belongs(i, j) == m[j].text.kind = "element"
    IN  {RunOf(m, belongs, i) : i \in {j \in DOMAIN m : m[j].text.kind = "element"}}

StructuredData(m, e) ==
    LET ranges == {r \in Elements(m) : Cardinality(r) >= 2}
        p == PreserveKept(m, e.preserve)
        valid == {r \in ranges : \A i \in r : ~Is(p, i, "PROTECT")}
    IN  IF ranges = {} THEN m
        ELSE [i \in DOMAIN p |->
                IF i \notin UNION valid THEN p[i]
                ELSE IF \E r \in valid : i = Min(r)
                THEN Rewrite(Summary("elements", Cardinality(CHOOSE r \in valid : i = Min(r))))
                ELSE Hide(p[i])]
-----------------------------------------------------------------------------
StageApply(e, m) ==
    CASE e.type = "remove_ansi" -> RemoveAnsi(m, e)
      [] e.type = "strip_lines" -> StripLines(m, e)
      [] e.type = "deduplicate_consecutive" -> Deduplicate(m, e)
      [] e.type = "group_repeated" -> GroupRepeated(m, e)
      [] e.type = "max_tokens" -> MaxTokens(m, e)
      [] e.type = "truncate_lines" -> TruncateLines(m, e)
      [] e.type = "regex_replace" -> RegexReplace(m, e)
      [] e.type = "column_padding_compression" -> ColumnPadding(m, e)
      [] e.type = "match_output" -> MatchOutput(m, e)
      [] e.type = "protect_diff_filename_headers" -> ProtectHeaders(m)
      [] e.type = "path_prefix_fold" -> PathPrefixFold(m, e)
      [] e.type = "collapse_unchanged_context" -> CollapseUnchanged(m, e)
      [] e.type = "numeric_range_compression" -> NumericRange(m, e)
      [] e.type = "relative_timestamp_compression" -> RelativeTimestamps(m, e)
      [] e.type \in {"python_ast_summarize", "code_ast_summarize"} -> AstSummarize(m, e)
      [] e.type = "structured_data_summarize" -> StructuredData(m, e)
=============================================================================
