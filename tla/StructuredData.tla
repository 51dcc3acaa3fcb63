-------------------------- MODULE StructuredData --------------------------
(***************************************************************************)
(* structured_data/{collapse,json_fmt,yaml_fmt,toml_fmt}.py: which lines   *)
(* of a JSON, YAML or TOML file stand for the elements of a long array,    *)
(* and projection/json_projector.py, which cuts the values themselves.     *)
(*                                                                         *)
(* A JSON or YAML document is a tree. A node is                            *)
(*   [shape, keys, fields, elems, at, start, end, mark, flow]              *)
(* with its place in the file, its first and last line and, for YAML, the  *)
(* mark the parser calls its end (mark.line; mark.blank: only blanks stand *)
(* before it) and its style; `lines' says of each line if it is blank.      *)
(***************************************************************************)
EXTENDS Integers, Sequences, FiniteSetsExt, SequencesExt

CONSTANTS MaxItems,   \* DEFAULT_MAX_ITEMS: arrays up to this long stay
          KeepHead    \* DEFAULT_KEEP_HEAD: so many of a longer one are kept, 0 < KeepHead < MaxItems + 1

CollapseRange(first, last, omitted, total) ==
    [compress_start |-> first, compress_end |-> last, omitted |-> omitted, total |-> total]

(* _shape_key: the type, and for an object its keys. *)
ShapeKey(node) == IF node.shape = "object" THEN <<"object", node.keys>> ELSE <<node.shape, {}>>

is_homogeneous_shapes(shapes) == Len(shapes) >= 2 /\ Cardinality(ToSet(shapes)) = 1

is_homogeneous(values) ==
    is_homogeneous_shapes([i \in DOMAIN values |-> ShapeKey(values[i])])

Candidates(elems) == Len(elems) > MaxItems /\ is_homogeneous(elems)

Omitted(elems, first, last) == CollapseRange(first, last, Len(elems) - KeepHead, Len(elems))
-----------------------------------------------------------------------------
(* json_fmt._maybe_collapse: no kept element and no bracket may share a    *)
(* line with what is omitted.                                              *)
JsonCollapses(node) ==
    /\ Candidates(node.elems)
    /\ node.elems[KeepHead].end < node.elems[KeepHead + 1].start
    /\ Last(node.elems).end < node.end

(* json_fmt._walk, _walk_array, _walk_object: what is found inside an      *)
(* omitted element is forgotten with it.                                   *)
RECURSIVE JsonRanges(_)
JsonRanges(node) ==
    LET Of(nodes) == UNION {JsonRanges(nodes[i]) : i \in DOMAIN nodes}
    IN  CASE node.shape = "object" -> Of(node.fields)
          [] node.shape = "array" /\ JsonCollapses(node) ->
               Of(SubSeq(node.elems, 1, KeepHead)) \union
               {Omitted(node.elems, node.elems[KeepHead + 1].start, Last(node.elems).end)}
          [] node.shape = "array" /\ ~JsonCollapses(node) -> Of(node.elems)
          [] OTHER -> {}

(* yaml_fmt._end_line: a mark with nothing before it on its line is that   *)
(* of the next thing, and the node ends on the line before that says       *)
(* anything, be it a comment.                                              *)
_end_line(lines, mark) ==
    LET at == Min({mark.line, Len(lines)})
        before == {i \in 1..(at - 1) : ~lines[i].blank}
    IN  IF mark.blank /\ before # {} THEN Max(before) ELSE at

_try_collapse(node, lines) ==
    LET kept == node.elems[KeepHead]
        end == _end_line(lines, Last(node.elems).mark)
        close == _end_line(lines, node.mark)
    IN  /\ _end_line(lines, kept.mark) < node.elems[KeepHead + 1].start
        /\ IF node.flow THEN end < close ELSE end <= close

RECURSIVE YamlRanges(_, _)
YamlRanges(node, lines) ==
    LET Of(nodes) == UNION {YamlRanges(nodes[i], lines) : i \in DOMAIN nodes}
        collapses == Candidates(node.elems) /\ _try_collapse(node, lines)
    IN  CASE node.shape = "object" -> Of(node.fields)
          [] node.shape = "array" /\ collapses ->
               Of(SubSeq(node.elems, 1, KeepHead)) \union
               {Omitted(node.elems, node.elems[KeepHead + 1].start,
                        _end_line(lines, Last(node.elems).mark))}
          [] node.shape = "array" /\ ~collapses -> Of(node.elems)
          [] OTHER -> {}

analyze_yaml(root, lines, installed) == IF installed THEN YamlRanges(root, lines) ELSE {}
-----------------------------------------------------------------------------
(* toml_fmt: a line of a TOML file is [kind, name]; kind is "array" for    *)
(* [[name]], "table" for [name], "odd" for a header _find_headers does not *)
(* match (a quoted key, an indented line), "key", "comment" or "blank". A  *)
(* name is the sequence of its parts.                                      *)
Header(line) == line.kind \in {"array", "table"}
Opens(line) == line.kind \in {"array", "table", "odd"}

_find_headers(lines) == SetToSortSeq({i \in DOMAIN lines : Header(lines[i])}, <)

(* The lines from a header to the next of any kind: the parser's view.     *)
Block(lines, header) ==
    LET next == {i \in (header + 1)..Len(lines) : Opens(lines[i])}
    IN  header..(IF next = {} THEN Len(lines) ELSE Min(next) - 1)

(* _lookup_array in what tomllib parsed: for each [[name]] its keys, those *)
(* of the tables opened below it included; <<>> if a part of the name is   *)
(* itself an array, or nothing of that name is.                            *)
_lookup_array(lines, name) ==
    LET arrays == {i \in DOMAIN lines : lines[i].kind = "array"}
        own == SetToSortSeq({i \in arrays : lines[i].name = name}, <)
        until(n) == IF n = Len(own) THEN Len(lines) ELSE own[n + 1] - 1
        keys(n) ==
            {lines[i].name : i \in {j \in Block(lines, own[n]) : lines[j].kind = "key"}}
            \union {<<lines[i].name[Len(name) + 1]>> :
                      i \in {j \in (own[n] + 1)..until(n) :
                               Header(lines[j]) /\ IsStrictPrefix(name, lines[j].name)}}
    IN  IF \E i \in arrays : IsStrictPrefix(lines[i].name, name) THEN <<>>
        ELSE [n \in DOMAIN own |-> [shape |-> "object", keys |-> keys(n)]]

(* The maximal runs of equal array headers, as indexes into the headers.   *)
Runs(lines, headers) ==
    LET same(i, j) == lines[headers[i]] = lines[headers[j]]
        first(i) == i = 1 \/ ~same(i - 1, i)
        next(i) == {j \in (i + 1)..Len(headers) : ~same(i, j)}
    IN  {i..(IF next(i) = {} THEN Len(headers) ELSE Min(next(i)) - 1) :
           i \in {j \in DOMAIN headers : lines[headers[j]].kind = "array" /\ first(j)}}

(* _maybe_collapse_run: the last block ends before the next header, less   *)
(* the blank lines at its end.                                             *)
_maybe_collapse_run(lines, headers, run) ==
    LET values == _lookup_array(lines, lines[headers[Min(run)]].name)
        start == headers[Min(run) + KeepHead]
        end == IF Max(run) < Len(headers) THEN headers[Max(run) + 1] - 1 ELSE Len(lines)
    IN  IF Cardinality(run) <= MaxItems \/ Len(values) # Cardinality(run) \/ ~is_homogeneous(values)
        THEN {}
        ELSE {Omitted(values, start, Max({i \in start..end : lines[i].kind # "blank"}))}

analyze_toml(lines) ==
    LET headers == _find_headers(lines)
    IN  UNION {_maybe_collapse_run(lines, headers, run) : run \in Runs(lines, headers)}
-----------------------------------------------------------------------------
(* json_projector._clean: a value is a scalar [type, is], an object        *)
(* [type, fields], the fields in order, or a list [type, items].           *)
Empty(value) == value.type = "scalar" /\ value.is \in {"null", "empty"}
Hidden(n) == [type |-> "hidden", is |-> n]

RECURSIVE _clean(_, _, _, _)
_clean(value, drop_pairs, head, tail) ==
    LET told(f) == ~Empty(f.value) /\ f \notin drop_pairs
        kept == SelectSeq(value.fields, told)
        items == [i \in DOMAIN value.items |-> _clean(value.items[i], drop_pairs, head, tail)]
        omitted == Len(items) - head - tail
    IN  CASE value.type = "object" ->
               [value EXCEPT !.fields =
                  [i \in DOMAIN kept |->
                     [kept[i] EXCEPT !.value = _clean(kept[i].value, drop_pairs, head, tail)]]]
          [] value.type = "list" ->
               [value EXCEPT !.items =
                  IF omitted <= 0 THEN items
                  ELSE SubSeq(items, 1, head) \o <<Hidden(omitted)>>
                       \o SubSeq(items, Len(items) - tail + 1, Len(items))]
          [] OTHER -> value
-----------------------------------------------------------------------------
Lines(r) == r.compress_start..r.compress_end

(* The nodes of a tree. *)
RECURSIVE Nodes(_)
Nodes(node) ==
    {node} \union UNION {Nodes(node.elems[i]) : i \in DOMAIN node.elems}
           \union UNION {Nodes(node.fields[i]) : i \in DOMAIN node.fields}

(* json_fmt.py, yaml_fmt.py: no two ranges share a line, and a range holds *)
(* the whole of the elements it counts, and neither the beginning nor the  *)
(* end of anything else in the file. (In YAML's block style an array ends  *)
(* with its last element.)                                                 *)
RangesHoldWhatTheyCount(root, ranges) ==
    /\ \A r, q \in ranges : r # q => Lines(r) \cap Lines(q) = {}
    /\ \A r \in ranges :
         \E array \in {n \in Nodes(root) : n.shape = "array" /\ Len(n.elems) > MaxItems} :
            LET omitted == SubSeq(array.elems, KeepHead + 1, Len(array.elems))
                inside == UNION {Nodes(omitted[i]) : i \in DOMAIN omitted}
            IN  /\ r.omitted = Len(omitted) /\ r.total = Len(array.elems)
                /\ \A n \in inside : n.start \in Lines(r) /\ n.end \in Lines(r)
                /\ \A n \in Nodes(root) \ inside :
                     n.start \notin Lines(r) /\ (n.flow => n.end \notin Lines(r))

(* toml_fmt.py: a range holds the tables it counts, all of one name, and   *)
(* of nothing else a line that is a header _find_headers knows or a key    *)
(* under one. (A table with a header it does not know goes with the block  *)
(* before it.)                                                             *)
TablesHoldWhatTheyCount(lines) ==
    LET ranges == analyze_toml(lines)
    IN  /\ \A r, q \in ranges : r # q => Lines(r) \cap Lines(q) = {}
        /\ \A r \in ranges :
             LET name == lines[r.compress_start].name
                 own == {i \in DOMAIN lines : lines[i] = [kind |-> "array", name |-> name]}
                 omitted == own \cap Lines(r)
             IN  /\ Cardinality(omitted) = r.omitted /\ Cardinality(own) = r.total
                 /\ \A i \in own \ omitted : i < r.compress_start
                 /\ \A i \in DOMAIN lines \ own :
                      Header(lines[i]) =>
                        Lines(r) \cap {j \in Block(lines, i) : lines[j].kind \in {"array", "table", "key"}} = {}

(* json_projector.py: what a projection leaves out is nothing, or a pair   *)
(* the caller named, or elements the placeholder counts; what it keeps is  *)
(* as it was and in its place.                                             *)
RECURSIVE TellsWhatItHides(_, _, _)
TellsWhatItHides(value, shown, drop_pairs) ==
    CASE value.type = "object" ->
           LET keys == {shown.fields[i].key : i \in DOMAIN shown.fields}
           IN  \A f \in ToSet(value.fields) :
                 \/ f.key \notin keys /\ (f \in drop_pairs \/ Empty(f.value))
                 \/ \E g \in ToSet(shown.fields) :
                      g.key = f.key /\ TellsWhatItHides(f.value, g.value, drop_pairs)
      [] value.type = "list" ->
           LET n == Len(value.items)
               marks == {i \in DOMAIN shown.items : shown.items[i].type = "hidden"}
               hidden == IF marks = {} THEN 0 ELSE shown.items[Min(marks)].is
               at(i) == IF marks = {} \/ i < Min(marks) THEN i ELSE i + hidden - 1
           IN  /\ Cardinality(marks) <= 1
               /\ n = Len(shown.items) - Cardinality(marks) + hidden
               /\ \A i \in DOMAIN shown.items \ marks :
                    TellsWhatItHides(value.items[at(i)], shown.items[i], drop_pairs)
      [] OTHER -> shown = value

(* The same for every value the function is given. *)
ProjectionTellsWhatItHides(value, drop_pairs, head, tail) ==
    TellsWhatItHides(value, _clean(value, drop_pairs, head, tail), drop_pairs)
=============================================================================
