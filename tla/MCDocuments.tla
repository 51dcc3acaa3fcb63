---------------------------- MODULE MCDocuments ----------------------------
(***************************************************************************)
(* JSON, YAML and TOML files for MCAlgorithms: the lines of a TOML file,   *)
(* and arrays laid out on lines as each format may.                        *)
(***************************************************************************)
EXTENDS Integers, Sequences, SequencesExt

Node(shape, keys, fields, elems, at, start, end) ==
    [shape |-> shape, keys |-> keys, fields |-> fields, elems |-> elems, at |-> at,
     start |-> start, end |-> end, mark |-> [line |-> end, blank |-> FALSE], flow |-> TRUE]

Number(at, line) == Node("number", {}, <<>>, <<>>, at, line, line)

(* An element: a number, an object over one or two lines, an array of      *)
(* three numbers with its bracket on a line of its own or not. It begins   *)
(* on a new line or not, and a comment or a blank line may follow it.      *)
Element(shape, keys, own, breaks, gap) ==
    [shape |-> shape, keys |-> keys, own |-> own, breaks |-> breaks, gap |-> gap]

ElementsOf ==
    {Element("number", {}, FALSE, breaks, "none") : breaks \in BOOLEAN}
    \union {Element("number", {}, FALSE, TRUE, "blank")}
    \union {Element("object", {"a"}, FALSE, breaks, "none") : breaks \in BOOLEAN}
    \union {Element("object", {"a", "b"}, FALSE, TRUE, gap) : gap \in {"none", "comment"}}
    \union {Element("array", {}, own, TRUE, "none") : own \in BOOLEAN}
    \union {Element("array", {}, TRUE, TRUE, "comment")}

Gap(e) == IF e.gap = "none" THEN 0 ELSE 1

(* The node of an element that begins on a line. *)
Laid(e, at, line) ==
    CASE e.shape = "number" -> Number(at, line)
      [] e.shape = "object" ->
           Node("object", e.keys, <<Number(at + 1, line)>> \o
                  (IF e.keys = {"a"} THEN <<>> ELSE <<Number(at + 2, line + 1)>>),
                <<>>, at, line, IF e.keys = {"a"} THEN line ELSE line + 1)
      [] e.shape = "array" ->
           Node("array", {}, <<>>, [i \in 1..3 |-> Number(at + i, line + i - 1)], at, line,
                line + IF e.own THEN 3 ELSE 2)

(* In block style an array has no bracket, and the end of what is not a    *)
(* number is where the next thing begins: a key, or the end of the file.   *)
Block(node, gap, last, followed) ==
    LET ends == IF last /\ ~followed THEN [line |-> node.end + gap, blank |-> FALSE]
                ELSE [line |-> node.end + gap + 1, blank |-> TRUE]
    IN  IF node.shape = "number" THEN node ELSE [node EXCEPT !.mark = ends, !.flow = FALSE]

(* A document of one array, with another key after it or not.              *)
MayBeBlock(elements) == \A i \in DOMAIN elements : elements[i].breaks

Document(elements, block, own, followed) ==
    LET Unbracketed(e) == IF block THEN [e EXCEPT !.own = FALSE] ELSE e
        n == Len(elements)
        Place(laid, e) ==
            LET line == laid.next - (IF e.breaks THEN 0 ELSE 1)
                at == 10 * (Len(laid.nodes) + 1)
                node == Laid(Unbracketed(e), at, line)
            IN  [nodes |-> Append(laid.nodes,
                              IF block THEN Block(node, Gap(e), Len(laid.nodes) + 1 = n, followed) ELSE node),
                 next |-> node.end + Gap(e) + 1,
                 blanks |-> laid.blanks \union (IF e.gap = "blank" THEN {node.end + 1} ELSE {})]
        laid == FoldLeft(Place, [nodes |-> <<>>, next |-> 2, blanks |-> {}], elements)
        bracket == IF ~block /\ (own \/ n = 0 \/ elements[n].gap # "none") THEN laid.next ELSE laid.next - 1
        array == Node("array", {}, <<>>, laid.nodes, 1, IF block THEN 2 ELSE 1,
                      IF block /\ n > 0 THEN laid.nodes[n].end ELSE bracket)
        key == Number(99, bracket + 1)
        first == IF block /\ n > 0 THEN Block(array, Gap(elements[n]), TRUE, followed) ELSE array
    IN  [root |-> [Node("object", {}, <<first>> \o (IF followed THEN <<key>> ELSE <<>>), <<>>, 0, 1,
                        IF followed THEN bracket + 1 ELSE bracket) EXCEPT !.flow = ~block],
         lines |-> [i \in 1..(bracket + 1) |-> [blank |-> i \in laid.blanks]]]
-----------------------------------------------------------------------------
Line(kind, name) == [kind |-> kind, name |-> name]

TomlLines ==
    {Line("array", <<"p">>), Line("array", <<"p", "s">>), Line("table", <<"p", "s">>),
     Line("table", <<"t">>), Line("odd", <<"u">>), Line("key", <<"a">>),
     Line("comment", <<>>), Line("blank", <<>>)}

(* What the format allows: a key once in a table, a table once in its      *)
(* element, nothing below an array that is not there.                      *)
MayBeNext(lines) ==
    LET Since(heads) ==
            LET at == {i \in DOMAIN lines : lines[i] \in heads}
            IN  {lines[i] : i \in {j \in DOMAIN lines : \A k \in at : j > k}}
        p == Line("array", <<"p">>)
        sub == Line("table", <<"p", "s">>)
        subs == Line("array", <<"p", "s">>)
        heads == {l \in TomlLines : l.kind \in {"array", "table", "odd"}}
        seen == ToSet(lines)
    IN  {l \in TomlLines :
           /\ l.kind \in {"key"} => l \notin Since(heads)
           /\ l \in {Line("table", <<"t">>), Line("odd", <<"u">>)} => l \notin seen
           /\ l \in {sub, subs} => p \in seen
           /\ l = sub => {sub, subs} \cap Since({p}) = {}
           /\ l = subs => sub \notin Since({p})}
-----------------------------------------------------------------------------
Scalar(is) == [type |-> "scalar", is |-> is]
Field(key, value) == [key |-> key, value |-> value]
List(items) == [type |-> "list", items |-> items]
Fields(fields) == [type |-> "object", fields |-> fields]

Numbers(n) == [i \in 1..n |-> Scalar(IF i = 1 THEN "one" ELSE "two")]

Values ==
    {Scalar("null"), Scalar("one"), List(Numbers(2)), List(Numbers(4)),
     Fields(<<Field("a", Scalar("empty")), Field("b", List(Numbers(3)))>>),
     Fields(<<Field("a", Scalar("one")), Field("b", Scalar("one"))>>)}

DropPairs == {{}, {Field("a", Scalar("one"))}}
=============================================================================
