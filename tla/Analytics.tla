----------------------------- MODULE Analytics -----------------------------
(***************************************************************************)
(* The reports over the tracking database: the queries of                  *)
(* quor/tracking/db.py, and the summaries that quor/analytics makes of     *)
(* their answers and of the stage results of one pipeline run.             *)
(*                                                                         *)
(* A table is a function from the ids of its rows to the rows, which are   *)
(* records; a percentage is a pair of numerator and denominator, and is    *)
(* zero where the code sets it to 0.0.  Filter names and files are numbers *)
(* in their sorting order, a path is the sequence of its segments, and an  *)
(* instant counts units of which a day has two.                            *)
(***************************************************************************)
EXTENDS Integers, Sequences, FiniteSets, FiniteSetsExt, SequencesExt

(* "(no filter matched)" sorts before every name; the synthesis labels are *)
(* those of `quor map`, `symbols`, `graph`, `repo`, `explore`, `search`.   *)
PASSTHROUGH_LABEL == 0
SYNTHESIS_FILTER_LABELS == {8, 9}

SumOver(S, F(_)) == SumFunction([x \in S |-> F(x)])

SumOf(rows, F(_)) == SumOver(DOMAIN rows, LAMBDA i : F(rows[i]))

Where(rows, P(_)) == RestrictValues(rows, P)

Count(rows) == Cardinality(DOMAIN rows)

Pct(num, den) ==
    IF den = 0 THEN <<0, 1>> ELSE IF den > 0 THEN <<100 * num, den>> ELSE <<-100 * num, -den>>

Less(p, q) == p[1] * q[2] < q[1] * p[2]
-----------------------------------------------------------------------------
(* The same project whatever the case and the slash at the end. *)
normalize_project_path(path) == path.segments

(* Empty, or a bare drive: too broad to scope a query. *)
_is_degenerate_project_key(key) == key \in {<<>>, <<"c:">>}

(* LIKE reads "_" as any character: as a pattern "m_p" also fits "mxp". *)
LikeSegment(pattern, segment) ==
    pattern = segment \/ (pattern = "m_p" /\ segment = "mxp")

(* A slip: the key goes into the pattern as it is. *)
UnescapedScope(key, row) ==
    /\ Len(key) <= Len(row)
    /\ \A i \in 1..Len(key) : LikeSegment(key[i], row[i])

(* Equal, or below it: LIKE of the escaped key followed by "/%". *)
InProject(key, row) == IsPrefix(key, row)

Day(t) == IF t < 0 THEN -1 ELSE t \div 2

(* recorded_at >= datetime('now', '-N days') compares texts, and on the day *)
(* of the cutoff a stored text is the greater one.                          *)
InDays(t, now, days) == Day(t) >= Day(now - 2 * days)

Scoped(rows, path, now, days) ==
    LET key == normalize_project_path(path)
    IN  Where(rows, LAMBDA r : InProject(key, normalize_project_path(r.path))
                                /\ InDays(r.at, now, days))

Saved(r) == r.original - r.final
-----------------------------------------------------------------------------
TotalsOf(rows) ==
    [total |-> Count(rows),
     saved |-> SumOf(rows, Saved),
     before |-> SumOf(rows, LAMBDA r : r.original),
     after |-> SumOf(rows, LAMBDA r : r.final),
     eligible |-> SumOf(rows, LAMBDA r : IF r.passthrough THEN 0 ELSE r.original),
     savings |-> SumOf(rows, LAMBDA r : IF Saved(r) > 0 THEN Saved(r) ELSE 0),
     overhead |-> SumOf(rows, LAMBDA r : IF Saved(r) < 0 THEN -Saved(r) ELSE 0),
     negative |-> Count(Where(rows, LAMBDA r : Saved(r) < 0)),
     passthroughs |-> Count(Where(rows, LAMBDA r : r.passthrough))]

Label(r) == r.filter

(* Any n of the groups, when no other group ranks above one of them. *)
TopSets(groups, n, Value(_)) ==
    {top \in SUBSET groups :
        /\ Cardinality(top) = IF Cardinality(groups) < n THEN Cardinality(groups) ELSE n
        /\ \A g \in top, h \in groups \ top : Value(g) >= Value(h)}

LabelsIn(rows) == {Label(r) : r \in Range(rows)}
Labelled(rows, label) == Where(rows, LAMBDA r : Label(r) = label)
Executed(rows) == Where(rows, LAMBDA r : Label(r) \notin SYNTHESIS_FILTER_LABELS)

FilterSavings(rows, label) == SumOf(Labelled(rows, label), Saved)

(* The totals leave the synthesis rows out, the top filters and the count  *)
(* of the Read hook do not.                                                *)
query_gain(rows, path, now, days) ==
    LET scope == Scoped(rows, path, now, days)
        named == LabelsIn(scope) \ {PASSTHROUGH_LABEL}
        counted == TotalsOf(Executed(scope))
    IN  [totals |-> counted,
         hit_rate |-> <<counted.total - counted.passthroughs, counted.total>>,
         top_filters |-> TopSets(named, 5, LAMBDA l : FilterSavings(scope, l)),
         read_hook |-> Count(Where(scope, LAMBDA r : r.tool = "read"))]

(* The newest rows first, ties in any order: the sets they may come from. *)
query_recent_invocations(rows, path, since, limit) ==
    LET scope == Where(rows, LAMBDA r :
                     InProject(normalize_project_path(path), normalize_project_path(r.path))
                     /\ r.at >= since)
    IN  TopSets(DOMAIN scope, limit, LAMBDA i : scope[i].at)

(* The mean of the rows that have a before, as one fraction. *)
MeanPct(rows) ==
    FoldFunction(LAMBDA r, mean : <<mean[1] * r.original + 100 * Saved(r) * mean[2],
                                    mean[2] * r.original>>,
                 <<0, 1>>, rows)

Compression(rows) ==
    LET eligible == TotalsOf(Where(rows, LAMBDA r : r.original > 0))
    IN  Pct(eligible.saved, eligible.before)

UsageOf(label, rows, total) ==
    LET sums == TotalsOf(rows)
        eligible == Where(rows, LAMBDA r : r.original > 0)
        mean == MeanPct(eligible)
    IN  [label |-> label, count |-> Count(rows), usage |-> Pct(Count(rows), total),
         before |-> sums.before, after |-> sums.after, saved |-> sums.saved,
         compression |-> Compression(rows),
         per_call |-> IF DOMAIN eligible = {} THEN <<0, 1>> ELSE <<mean[1], mean[2] * Count(eligible)>>,
         passthrough |-> Pct(sums.passthroughs, Count(rows))]

FilterUsage(rows, label) == UsageOf(label, Labelled(rows, label), Count(rows))

(* The filters used more often, and those as often used but named before. *)
ListedBefore(rows, label) ==
    {m \in LabelsIn(rows) :
        \/ FilterUsage(rows, m).count > FilterUsage(rows, label).count
        \/ FilterUsage(rows, m).count = FilterUsage(rows, label).count /\ m < label}

LabelAt(rows, k) == CHOOSE l \in LabelsIn(rows) : Cardinality(ListedBefore(rows, l)) = k - 1

query_filter_analytics(rows, path, now, days) ==
    LET scope == Scoped(rows, path, now, days)
    IN  [total |-> Count(scope),
         filters |-> [k \in 1..Cardinality(LabelsIn(scope)) |-> FilterUsage(scope, LabelAt(scope, k))]]

(* The prefix of the command says where it came from; a read of a focal or *)
(* named file is a compress_context, a read of the Read hook is none.      *)
Tool(r) ==
    CASE r.tool \in {"focal_file", "file_path", "compress_context"} -> "compress_context"
      [] r.tool = "get_repo_context" -> "get_repo_context"
      [] OTHER -> "cli"

OfTool(rows, tool) == Where(rows, LAMBDA r : Tool(r) = tool)

ToolUsage(rows, tool) ==
    [tool |-> tool, operations |-> Count(OfTool(rows, tool)),
     totals |-> TotalsOf(OfTool(rows, tool)), compression |-> Compression(OfTool(rows, tool))]

query_gain_by_tool(rows, path, now, days) ==
    LET scope == Scoped(rows, path, now, days)
    IN  {ToolUsage(scope, tool) : tool \in {Tool(r) : r \in Range(scope)}}

NamesAFile(r) == r.tool \in {"read", "focal_file", "file_path"}

OfFile(rows, file) == Where(rows, LAMBDA r : r.file = file)

FileUsage(rows, file) ==
    [file |-> file, operations |-> Count(OfFile(rows, file)), totals |-> TotalsOf(OfFile(rows, file))]

FileReads(rows, path, now, days) == Where(Scoped(rows, path, now, days), NamesAFile)

query_gain_by_file(rows, path, now, days, limit) ==
    LET scope == FileReads(rows, path, now, days)
    IN  TopSets({FileUsage(scope, f) : f \in {r.file : r \in Range(scope)}}, limit,
                LAMBDA u : u.totals.saved)
-----------------------------------------------------------------------------
(* quor/analytics: which filters to look at, from the usages above and     *)
(* from the benchmark's own percentages.                                   *)
Excluded == SYNTHESIS_FILTER_LABELS \union {PASSTHROUGH_LABEL, 7}

flag_low_performers(filters, threshold) ==
    {u \in ToSet(filters) : u.label \notin Excluded
         /\ (Less(u.compression, <<threshold, 1>>) \/ Less(u.per_call, <<0, 1>>))}

compute_divergence(filters, benchmark) ==
    {[label |-> u.label, real |-> u.compression, benchmark |-> benchmark[u.label]] :
        u \in {v \in ToSet(filters) : v.label # PASSTHROUGH_LABEL
                                        /\ v.label \in DOMAIN benchmark}}

find_uncovered_filters(filters, benchmark) ==
    {u \in ToSet(filters) : u.label \notin Excluded /\ u.label \notin DOMAIN benchmark}

(* Apart by the threshold or more, in either direction. *)
nominate_for_benchmark_coverage(diffs, threshold) ==
    {d \in diffs : \/ ~Less(d.real, <<d.benchmark + threshold, 1>>)
                   \/ ~Less(<<d.benchmark - threshold, 1>>, d.real)}

(* The filters in both the oldest and the newest snapshot whose share grew. *)
growing_filters(entries) ==
    IF Len(entries) < 2 THEN {}
    ELSE {pair \in ToSet(entries[1]) \X ToSet(Last(entries)) :
             /\ pair[1].label = pair[2].label /\ pair[1].label # PASSTHROUGH_LABEL
             /\ Less(pair[1].usage, pair[2].usage)}
-----------------------------------------------------------------------------
(* StageStatsCollector.add: failed, skipped, or executed with or without   *)
(* its tokens counted.                                                     *)
Untraced == -1

NoStats == [executions |-> 0, skipped |-> 0, failed |-> 0, saved |-> 0]

(* A slip: a failed stage is counted like one that ran. *)
AddToAny(stats, result) ==
    [stats EXCEPT !.executions = @ + 1, !.saved = @ + result.before - result.after]

add(stats, result) ==
    CASE result.error -> [stats EXCEPT !.failed = @ + 1]
      [] ~result.error /\ result.was_skipped -> [stats EXCEPT !.skipped = @ + 1]
      [] ~result.error /\ ~result.was_skipped /\ Untraced \in {result.before, result.after} ->
             [stats EXCEPT !.executions = @ + 1]
      [] OTHER -> [stats EXCEPT !.executions = @ + 1,
                                !.saved = @ + result.before - result.after]

StatsOf(results, type) ==
    FoldLeft(LAMBDA s, r : IF r.type = type THEN add(s, r) ELSE s, NoStats, results)

snapshot(results) == [type \in {r.type : r \in Range(results)} |-> StatsOf(results, type)]

build_compression_summary(original, results) ==
    LET stats == snapshot(results)
        lines == {type \in DOMAIN stats : stats[type].saved # 0}
    IN  [final |-> original - SumOver(lines, LAMBDA type : stats[type].saved), lines |-> lines]

(* effectiveness._classify of a share of everything that was saved. *)
Impact(saved, grand) ==
    LET share == Pct(saved, grand)
    IN  CASE ~Less(share, <<15, 1>>) -> "High"
          [] Less(share, <<15, 1>>) /\ ~Less(share, <<5, 1>>) -> "Medium"
          [] OTHER -> "Low"

classify(stats) ==
    LET grand == SumOver(DOMAIN stats, LAMBDA type : stats[type].saved)
    IN  [type \in DOMAIN stats |-> Impact(stats[type].saved, grand)]
-----------------------------------------------------------------------------
(* The reports of one window are views of the same rows, so their figures  *)
(* agree: the net saving is gross savings less overhead, the filters and   *)
(* the tools each account for every row once, and what the gain report     *)
(* counts is what the filters report outside synthesis.                    *)
ReportsAgree(rows, path, now, days) ==
    LET gain == query_gain(rows, path, now, days).totals
        analytics == query_filter_analytics(rows, path, now, days)
        tools == query_gain_by_tool(rows, path, now, days)
        real == {u \in Range(analytics.filters) : u.label \notin SYNTHESIS_FILTER_LABELS}
    IN  /\ gain.saved = gain.savings - gain.overhead
        /\ gain.saved = gain.before - gain.after /\ gain.eligible <= gain.before
        /\ gain.total = SumOver(real, LAMBDA u : u.count)
        /\ gain.saved = SumOver(real, LAMBDA u : u.saved)
        /\ analytics.total = SumOver(tools, LAMBDA t : t.operations)
        /\ SumOf(analytics.filters, LAMBDA u : u.count) = analytics.total
        /\ \A file \in query_gain_by_file(rows, path, now, days, 10) :
               SumOver(file, LAMBDA u : u.operations) <= analytics.total

(* A report for a project covers what was run in it or below it, and       *)
(* nothing of a sibling whose name looks like it to a LIKE.                *)
ReportStaysInProject(rows, path, now, days) ==
    \A r \in Range(Scoped(rows, path, now, days)) :
        /\ Len(path.segments) <= Len(r.path.segments)
        /\ SubSeq(r.path.segments, 1, Len(path.segments)) = path.segments

(* The stages of a run account for all of it: original tokens less what    *)
(* each stage saved is what the last stage left.                           *)
SummaryEndsAtOutput(original, results) ==
    LET ran == {i \in DOMAIN results : ~results[i].error /\ ~results[i].was_skipped}
    IN  build_compression_summary(original, results).final
            = IF ran = {} THEN original ELSE results[Max(ran)].after
=============================================================================
