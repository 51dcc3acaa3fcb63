--------------------------- MODULE StagePipeline ---------------------------
(***************************************************************************)
(* What the built-in stages promise inside a pipeline: properties of a     *)
(* run of Pipeline whose entries are configured stages of Stages.          *)
(***************************************************************************)
EXTENDS Pipeline, Stages

(* The texts the built-in stages read and write: bodies and prefixes of    *)
(* any kind, the summaries' own among them.                                *)
Kinds == {"word", "import", "blank", "code", "int", "path", "time", "delta",
          "diff", "carrier", "element", "summary"}

Skins == {"plain", "inline", "escapes", "padded"}

Notes == [what : {"times", "cut"}, n : Nat]

LineTexts(Bodies, Dirs) ==
    [body : Bodies, kind : Kinds, dir : Dirs, skin : Skins, num : Int,
     size : Nat, notes : Seq(Notes)]

Written == {"more", "output", "entries", "omitted", "range", "imports", "elements"}

(* A stage of one of these types has just been applied. *)
Ran(types) ==
    /\ Len(results') = Len(results) + 1
    /\ Last(results').outcome = "applied"
    /\ Last(results').type \in types

(* The protected lines of m are in n: protected, unchanged and in order.   *)
Carries(m, n) ==
    \E place \in [Decided(m, "PROTECT") -> Decided(n, "PROTECT")] :
        /\ \A i \in Decided(m, "PROTECT") : n[place[i]].text = m[i].text
        /\ \A i, j \in Decided(m, "PROTECT") : i < j => place[i] < place[j]

(* What a stage once protected is in every later mask, unchanged, in order *)
(* and still protected, also where a stage changes the number of lines and *)
(* _enforce_protect looks the other way.                                   *)
ProtectedLinesSurvive ==
    [][Carries(mask, mask')]_vars

(* How many lines of the original a visible text stands for. *)
Times(t) ==
    FoldLeft(LAMBDA n, note : IF note.what = "times" THEN n * note.n ELSE n, 1, t.notes)

Weight(t) ==
    IF t.kind = "summary"
    THEN IF t.body \in {"more", "range", "omitted", "elements"} THEN t.num ELSE 0
    ELSE Times(t)

TotalWeight(m) == FoldSet(LAMBDA i, sum : sum + Weight(m[i].text), 0, Visible(m))

Counting == {"group_repeated", "numeric_range_compression", "path_prefix_fold",
             "collapse_unchanged_context", "relative_timestamp_compression"}

(* The lines a folding stage works on: those it is given, after the ones   *)
(* its preserve_patterns protects, COMPRESS lines among them, where the    *)
(* stage reads preserve_patterns at all.                                   *)
Given(e, m) ==
    IF \/ e.type = "collapse_unchanged_context"
       \/ e.type = "group_repeated" /\ e.patterns = <<>>
       \/ e.type = "path_prefix_fold" /\ e.patterns = {}
    THEN m
    ELSE Preserve(m, e.preserve)

Unfolded(m) ==
    \A i \in DOMAIN m : m[i].text.notes = <<>> /\ m[i].text.kind # "summary"

(* A folding stage that meets lines nothing has folded yet accounts for    *)
(* each of them: the counts it writes and the lines it leaves add up to    *)
(* the lines it was given, lines preserve_patterns shows again included.   *)
FoldsKeepCount ==
    [][Ran(Counting) /\ Unfolded(mask)
          => TotalWeight(mask') = Cardinality(Visible(Given(entries[pos'], mask)))]_vars

(* max_tokens leaves no more KEEP text than its limit allows: the limit    *)
(* for head and tail, half of it (at least one token) from either end for  *)
(* both, unless all that is to be shown fits.                              *)
KeptWithinBudget ==
    [][Ran({"max_tokens"}) =>
          LET e == entries[pos']
              p == Preserve(mask, e.preserve)
              fits == TotalSize(p, Visible(p)) <= e.limit
              half == IF e.limit \div 2 > 1 THEN e.limit \div 2 ELSE 1
              kept == TotalSize(mask', Decided(mask', "KEEP"))
          IN  kept <= (IF e.strategy = "both" /\ ~fits THEN 2 * half ELSE e.limit)]_vars
-----------------------------------------------------------------------------
(* mask.py:42: what an import block replaces survives in the block: when   *)
(* the summary stage hides an import, a block shows in its place.          *)
ImportsSurvive ==
    [][Ran({"python_ast_summarize"}) /\ Len(mask') = Len(mask) =>
          \A i \in Visible(mask) \ Visible(mask') :
              mask[i].text.kind = "import" =>
                  \E j \in Visible(mask') : mask'[j].text.body = "imports"]_vars
=============================================================================
