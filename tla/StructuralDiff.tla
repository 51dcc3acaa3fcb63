--------------------------- MODULE StructuralDiff ---------------------------
(***************************************************************************)
(* The builtin plugin that rewrites `git diff`: the hunks of a Python file *)
(* are replaced by what changed among its declarations.  A file is         *)
(* [parses, large, body]; a statement of it is [type, name, lines, body],  *)
(* where type is "class", "def", "block" (an if, a try or a with, its      *)
(* branches one after the other), "import", "call" (a statement that calls *)
(* name) or anything else, and lines is the number of lines it takes.      *)
(***************************************************************************)
EXTENDS Integers, Sequences, SequencesExt

_MIN_LINES_FOR_CONTENT_MATCH == 3

Self == "<SELF>"

(* A statement without its lines, its references to target made the same. *)
RECURSIVE _canon(_, _)
_canon(n, target) ==
    [type |-> n.type,
     name |-> IF n.type \in {"call", "def", "class"} /\ n.name = target THEN Self ELSE n.name,
     body |-> [k \in DOMAIN n.body |-> _canon(n.body[k], target)]]

Canons(stmts) == [k \in DOMAIN stmts |-> _canon(stmts[k], "")]

_full_dump(d) == _canon(d.node, "")

_blind_dump(d) == _canon(d.node, d.name)

Big(d) == d.node.lines >= _MIN_LINES_FOR_CONTENT_MATCH

Callable(d) == d.kind \in {"function", "method"}
-----------------------------------------------------------------------------
(* At module level declarations are found inside blocks too. *)
RECURSIVE Visited(_)
Visited(stmts) ==
    FlattenSeq([k \in DOMAIN stmts |-> IF stmts[k].type = "block" THEN Visited(stmts[k].body) ELSE <<stmts[k]>>])

(* The declarations of one container, parent being <<>> for the module and *)
(* the names down to the class otherwise.  An index is a rank among the    *)
(* declarations of a kind.                                                 *)
_direct_children(stmts, parent) ==
    LET visited == IF parent = <<>> THEN Visited(stmts) ELSE stmts
        nodes == SelectSeq(visited, LAMBDA s : s.type \in {"class", "def"})
        Kind(n) == IF n.type = "class" THEN "class" ELSE IF parent = <<>> THEN "function" ELSE "method"
        Before(k) == SelectSeq(SubSeq(nodes, 1, k - 1), LAMBDA n : n.type = nodes[k].type)
    IN  [k \in DOMAIN nodes |-> [kind |-> Kind(nodes[k]), name |-> nodes[k].name, parent |-> parent,
                                 index |-> Len(Before(k)), node |-> nodes[k]]]

qualname(d) == Append(d.parent, d.name)

(* One body with the helper's in the place of a call to it is the other. *)
Spliced(body, k, helper) == SubSeq(body, 1, k - 1) \o helper.node.body \o SubSeq(body, k + 1, Len(body))

CallsOfHelper(body, helper) == {k \in DOMAIN body : body[k].type = "call" /\ body[k].name = helper.name}

(* The first place where the needle stands in the haystack, or none. *)
_find_subsequence(haystack, needle) ==
    LET places == {i \in 1 .. (Len(haystack) - Len(needle) + 1) :
                     Canons(SubSeq(haystack, i, i + Len(needle) - 1)) = Canons(needle)}
    IN  IF needle = <<>> \/ places = {} THEN {} ELSE {CHOOSE i \in places : \A j \in places : i <= j}

(* Slip: what follows the call is not compared. *)
extracted_without_tail(old_body, new_body, helper) ==
    \E i \in _find_subsequence(old_body, helper.node.body) :
        /\ Len(new_body) = Len(old_body) - Len(helper.node.body) + 1
        /\ Canons(SubSeq(new_body, 1, i - 1)) = Canons(SubSeq(old_body, 1, i - 1))
        /\ i \in CallsOfHelper(new_body, helper)

_try_extracted(old_body, new_body, helper) ==
    \E i \in _find_subsequence(old_body, helper.node.body) :
        /\ Len(new_body) = Len(old_body) - Len(helper.node.body) + 1
        /\ Canons(SubSeq(new_body, 1, i - 1)) = Canons(SubSeq(old_body, 1, i - 1))
        /\ i \in CallsOfHelper(new_body, helper)
        /\ Canons(SubSeq(new_body, i + 1, Len(new_body)))
             = Canons(SubSeq(old_body, i + Len(helper.node.body), Len(old_body)))

_try_inlined(old_body, new_body, helper) ==
    \E k \in CallsOfHelper(old_body, helper) :
        /\ CallsOfHelper(old_body, helper) = {k}
        /\ Canons(Spliced(old_body, k, helper)) = Canons(new_body)
-----------------------------------------------------------------------------
(* For each of from, in order, the first of to that fits and is not taken. *)
Paired(from, to, fits) ==
    LET Take(pairs, a) ==
            LET free == SelectSeq(to, LAMBDA b : <<a, b>> \in fits /\ \A p \in ToSet(pairs) : p[2] # b)
            IN  IF free = <<>> THEN pairs ELSE Append(pairs, <<a, free[1]>>)
    IN  FoldLeft(Take, <<>>, from)

Without(all, taken) == SelectSeq(all, LAMBDA x : x \notin taken)

Firsts(pairs) == {p[1] : p \in ToSet(pairs)}

Seconds(pairs) == {p[2] : p \in ToSet(pairs)}

(* What is said of one or two declarations; helper is the one that was     *)
(* extracted or inlined.  Each is a sequence of at most one declaration.   *)
Op(kind, old, new, helper) == [kind |-> kind, old |-> old, new |-> new, helper |-> helper]

InPlace(old, new) == Op(IF old.index = new.index THEN "unchanged" ELSE "reordered", <<old>>, <<new>>, <<>>)

(* Two versions that have their name in common, the last one if the new    *)
(* declarations have it more than once.                                    *)
SameName(olds, news) ==
    {<<o, n>> \in ToSet(olds) \X ToSet(news) :
        /\ o.name = n.name /\ o.kind = n.kind
        /\ n = Last(SelectSeq(news, LAMBDA d : d.name = n.name))}

(* Where the matching stands: what is left of both versions, and the pairs *)
(* each phase has found.                                                   *)
Unmatched(olds, news) ==
    [olds |-> olds, news |-> news, exact |-> <<>>, renamed |-> <<>>, named |-> <<>>,
     extracted |-> <<>>, inlined |-> <<>>]

MatchExact(s) ==
    LET pairs == Paired(s.news, s.olds, {<<n, o>> \in ToSet(s.news) \X ToSet(s.olds) :
                                            Big(n) /\ Big(o) /\ _full_dump(n) = _full_dump(o)})
    IN  [s EXCEPT !.exact = pairs, !.olds = Without(@, Seconds(pairs)), !.news = Without(@, Firsts(pairs))]

MatchRenamed(s) ==
    LET pairs == Paired(s.olds, s.news, {<<o, n>> \in ToSet(s.olds) \X ToSet(s.news) :
                                            /\ o.kind = n.kind /\ o.name # n.name /\ Big(o) /\ Big(n)
                                            /\ _blind_dump(o) = _blind_dump(n)})
    IN  [s EXCEPT !.renamed = pairs, !.olds = Without(@, Firsts(pairs)), !.news = Without(@, Seconds(pairs))]

MatchNamed(s) ==
    LET pairs == Paired(s.olds, s.news, SameName(s.olds, s.news))
    IN  [s EXCEPT !.named = pairs, !.olds = Without(@, Firsts(pairs)), !.news = Without(@, Seconds(pairs))]

Changed(s) == SelectSeq(s.named, LAMBDA p : Callable(p[1]) /\ _full_dump(p[1]) # _full_dump(p[2]))

MatchExtracted(s) ==
    LET pairs == Paired(Changed(s), SelectSeq(s.news, Callable),
                        {<<p, h>> \in ToSet(Changed(s)) \X ToSet(s.news) :
                            _try_extracted(p[1].node.body, p[2].node.body, h)})
    IN  [s EXCEPT !.extracted = pairs, !.news = Without(@, Seconds(pairs))]

MatchInlined(s) ==
    LET still == Without(Changed(s), Firsts(s.extracted))
        pairs == Paired(still, SelectSeq(s.olds, Callable),
                        {<<p, h>> \in ToSet(still) \X ToSet(s.olds) :
                            _try_inlined(p[1].node.body, p[2].node.body, h)})
    IN  [s EXCEPT !.inlined = pairs, !.olds = Without(@, Seconds(pairs))]

Helpers(p, pairs) ==
    LET of == SelectSeq(pairs, LAMBDA x : x[1] = p) IN [k \in DOMAIN of |-> of[k][2]]

NamedOp(s, p) ==
    IF _full_dump(p[1]) = _full_dump(p[2]) THEN InPlace(p[1], p[2])
    ELSE IF p \in Firsts(s.extracted) THEN Op("extracted", <<p[1]>>, <<p[2]>>, Helpers(p, s.extracted))
    ELSE IF p \in Firsts(s.inlined) THEN Op("inlined", <<p[1]>>, <<p[2]>>, Helpers(p, s.inlined))
    ELSE Op("modified", <<p[1]>>, <<p[2]>>, <<>>)

Ops(s) ==
    [k \in DOMAIN s.exact |-> InPlace(s.exact[k][2], s.exact[k][1])]
    \o [k \in DOMAIN s.renamed |-> Op("renamed", <<s.renamed[k][1]>>, <<s.renamed[k][2]>>, <<>>)]
    \o [k \in DOMAIN s.named |-> NamedOp(s, s.named[k])]
    \o [k \in DOMAIN s.olds |-> Op("removed", <<s.olds[k]>>, <<>>, <<>>)]
    \o [k \in DOMAIN s.news |-> Op("added", <<>>, <<s.news[k]>>, <<>>)]

(* The declarations of one container, matched in the order of the phases:  *)
(* the same content, the same content under another name, the same name;   *)
(* of the changed ones, those that gave or took a helper; the leftovers.   *)
_match_flat(olds, news) ==
    Ops(MatchInlined(MatchExtracted(MatchNamed(MatchRenamed(MatchExact(Unmatched(olds, news)))))))

(* A class whose name stayed and whose content did not is looked into. *)
Opened(op) == op.kind = "modified" /\ op.new[1].kind = "class"

RECURSIVE diff_declarations(_, _, _)
diff_declarations(old_stmts, new_stmts, parent) ==
    LET Inside(op) == IF Opened(op)
                      THEN diff_declarations(op.old[1].node.body, op.new[1].node.body, qualname(op.new[1]))
                      ELSE <<>>
    IN  FoldLeft(LAMBDA ops, op : ops \o <<op>> \o Inside(op), <<>>,
                 _match_flat(_direct_children(old_stmts, parent), _direct_children(new_stmts, parent)))

_kind_compatible(a, b) == a = b \/ {a, b} = {"function", "method"}

(* Of what is left over, the same content in two containers is a move. *)
_reconcile_cross_container_moves(ops) ==
    LET removed == SelectSeq(ops, LAMBDA op : op.kind = "removed")
        added == SelectSeq(ops, LAMBDA op : op.kind = "added")
        moves == Paired(added, removed, {<<a, r>> \in ToSet(added) \X ToSet(removed) :
                                            /\ Big(a.new[1]) /\ Big(r.old[1])
                                            /\ _full_dump(a.new[1]) = _full_dump(r.old[1])
                                            /\ _kind_compatible(r.old[1].kind, a.new[1].kind)})
    IN  Without(ops, Firsts(moves) \union Seconds(moves))
        \o [k \in DOMAIN moves |-> Op("moved", moves[k][2].old, moves[k][1].new, <<>>)]

(* Only statements of the module itself count as its imports. *)
Imports(stmts) == SelectSeq(stmts, LAMBDA s : s.type = "import")

Classified(old, new, ops) ==
    [classification |->
        IF \E op \in ToSet(ops) : op.kind # "unchanged" THEN "structural"
        ELSE IF Imports(old.body) # Imports(new.body) THEN "import-only" ELSE "formatting-only",
     ops |-> ops]

diff_python_files(old, new) ==
    IF old.parses /\ new.parses
    THEN Classified(old, new, _reconcile_cross_container_moves(diff_declarations(old.body, new.body, <<>>)))
    ELSE [classification |-> "unparseable", ops |-> <<>>]

(* The lines of the summary, changes in the code first, additions last. *)
render(result) ==
    LET Told(kinds) == SelectSeq(result.ops, LAMBDA op : op.kind \in kinds)
    IN  IF result.classification # "structural" THEN <<>>
        ELSE Told({"removed"}) \o Told({"extracted", "inlined", "modified"}) \o Told({"renamed"})
             \o Told({"moved"}) \o Told({"reordered"}) \o Told({"added"})
-----------------------------------------------------------------------------
(* A section of the diff: [old_path, new_path, python, status, hunks],     *)
(* with status "changed", "added", "deleted" or "binary".                  *)
eligible(section) == section.hunks /\ section.python /\ section.status = "changed"

Flags == {"--staged", "--cached", "--stat", "-p", "-w"}

_FLAGS_TAKING_NO_VALUE == {"--staged", "--cached", "--stat", "-p"}

Ranges == {"a..b"}

(* Which two versions a command compares, each a revision, <<>> for the    *)
(* index or <<"worktree">>; no plan for a command that is not understood.  *)
classify_command(tokens) ==
    LET subcommand == tokens[2]
        ends == {i \in 3 .. Len(tokens) : tokens[i] = "--"} \union {Len(tokens) + 1}
        rest == ToSet(SubSeq(tokens, 3, (CHOOSE i \in ends : \A j \in ends : i <= j) - 1))
        revisions == SelectSeq(SubSeq(tokens, 3, (CHOOSE i \in ends : \A j \in ends : i <= j) - 1),
                               LAMBDA t : t \notin Flags)
        staged == rest \intersect {"--staged", "--cached"} # {}
        Plan(old, new) == <<[old_ref |-> old, new_ref |-> new]>>
    IN  IF Len(tokens) < 2 \/ tokens[1] # "git" THEN <<>>
        ELSE IF (rest \intersect Flags) \ _FLAGS_TAKING_NO_VALUE # {} \/ rest \intersect Ranges # {} THEN <<>>
        ELSE IF subcommand = "show" THEN
            IF Len(revisions) = 1 THEN Plan(<<revisions[1], "^">>, revisions) ELSE <<>>
        ELSE IF subcommand # "diff" THEN <<>>
        ELSE IF staged THEN IF revisions = <<>> THEN Plan(<<"HEAD">>, <<>>) ELSE <<>>
        ELSE CASE Len(revisions) = 0 -> Plan(<<>>, <<"worktree">>)
               [] Len(revisions) = 1 -> Plan(revisions, <<"worktree">>)
               [] Len(revisions) = 2 -> Plan(<<revisions[1]>>, <<revisions[2]>>)
               [] OTHER -> <<>>

(* The contents a plan asks for, versions being a set of [ref, path, file]:*)
(* a version that is not there or cannot be read leaves the section alone. *)
_fetch(plan, section, versions) ==
    {<<o.file, n.file>> : o \in {v \in versions : v.ref = plan.old_ref /\ v.path = section.old_path},
                          n \in {v \in versions : v.ref = plan.new_ref /\ v.path = section.new_path}}

(* The summaries that may take the place of a section's hunks: at most one.*)
Summaries(tokens, section, versions) ==
    LET plan == classify_command(tokens)
        fetched == IF plan = <<>> \/ ~eligible(section) THEN {} ELSE _fetch(plan[1], section, versions)
        results == {diff_python_files(f[1], f[2]) : f \in {f \in fetched : ~f[1].large /\ ~f[2].large}}
    IN  {r \in results : r.classification # "unparseable"}

(* Each section on its own: its header stays, its hunks stay or give way   *)
(* to the summary, a classification and its lines.                         *)
enrich_git_diff(tokens, sections, versions) ==
    [k \in DOMAIN sections |->
        [header |-> sections[k],
         summaries |-> {[classification |-> r.classification, lines |-> render(r)] :
                          r \in Summaries(tokens, sections[k], versions)}]]
-----------------------------------------------------------------------------
(* The declarations that are compared: those of the module, and those of   *)
(* every class that was opened.                                            *)
Compared(stmts, ops, side) ==
    LET opened == {op \in ToSet(ops) : Opened(op)}
        Of(op) == IF side = "old" THEN op.old[1] ELSE op.new[1]
    IN  ToSet(_direct_children(stmts, <<>>))
        \union UNION {ToSet(_direct_children(Of(op).node.body, qualname(op.new[1]))) : op \in opened}

(* structural_diff_python.py: the summary accounts for every declaration   *)
(* of both versions, once: with its counterpart, as the helper of another, *)
(* or as gone or new.                                                      *)
EveryDeclarationIsTold(old, new, result) ==
    LET told == render(result) \o SelectSeq(result.ops, LAMBDA op : op.kind = "unchanged")
        Tells(op, d, side) ==
            \/ side = "old" /\ op.old = <<d>>
            \/ side = "new" /\ op.new = <<d>>
            \/ op.helper = <<d>> /\ op.kind = IF side = "old" THEN "inlined" ELSE "extracted"
    IN  old.parses /\ new.parses =>
            \A side \in {"old", "new"} :
                \A d \in Compared(IF side = "old" THEN old.body ELSE new.body, result.ops, side) :
                    Len(SelectSeq(told, LAMBDA op : Tells(op, d, side))) = 1

(* The docstring of the same file, "every matching decision is exact":     *)
(* what is told holds of the two files.  A declaration said to be as it    *)
(* was is, a rename changes the name alone, and putting the helper back in *)
(* the place of its call gives the other version.                          *)
TellsTheTruth(result) ==
    \A op \in ToSet(result.ops) :
        LET o == op.old[1]
            n == op.new[1]
            h == op.helper[1]
        IN  CASE op.kind \in {"unchanged", "reordered", "moved"} -> _full_dump(o) = _full_dump(n)
              [] op.kind = "renamed" -> o.name # n.name /\ _blind_dump(o) = _blind_dump(n)
              [] op.kind = "extracted" -> \E k \in CallsOfHelper(n.node.body, h) :
                                            Canons(Spliced(n.node.body, k, h)) = Canons(o.node.body)
              [] op.kind = "inlined" -> \E k \in CallsOfHelper(o.node.body, h) :
                                            Canons(Spliced(o.node.body, k, h)) = Canons(n.node.body)
              [] op.kind = "modified" -> o.name = n.name /\ o.kind = n.kind /\ _full_dump(o) # _full_dump(n)
              [] OTHER -> TRUE

(* A summary with nothing to tell: of each kind the module declares the    *)
(* same things in the same order.                                          *)
QuietMeansSameDeclarations(old, new, result) ==
    LET Dumps(file, kind) ==
            LET all == SelectSeq(_direct_children(file.body, <<>>), LAMBDA d : d.kind = kind)
            IN  [k \in DOMAIN all |-> _full_dump(all[k])]
    IN  result.classification \in {"formatting-only", "import-only"} =>
            \A kind \in {"class", "function"} : Dumps(old, kind) = Dumps(new, kind)

(* QB-099 calls a change formatting-only when nothing but import order,    *)
(* whitespace and comments differs: the statements of the two versions are *)
(* the same.                                                               *)
FormattingOnlyIsFormatting(tokens, sections, versions) ==
    \A r \in ToSet(enrich_git_diff(tokens, sections, versions)) :
        (\E said \in r.summaries : said.classification = "formatting-only") =>
            \A f \in _fetch(classify_command(tokens)[1], r.header, versions) :
                Canons(f[1].body) = Canons(f[2].body)
=============================================================================
