----------------------------- MODULE MCSources -----------------------------
(***************************************************************************)
(* The source files the algorithms on syntax trees are checked on: for     *)
(* each language a pool of top-level items, written from the line they     *)
(* start on, and the file a sequence of them makes.                        *)
(***************************************************************************)
EXTENDS Integers, Sequences, SequencesExt

Node(type, field, first, last, text, children) ==
    [type |-> type, field |-> field, first |-> first, last |-> last, text |-> text, children |-> children]

Leaf(type, field, r, text) == Node(type, field, r, r, text, <<>>)

Named(type, name, r) == Leaf(type, "name", r, <<name>>)

(* A declaration on lines r to last whose body opens on line open. *)
Fun(type, name, r, block, open, last, inner) ==
    Node(type, "", r, last, <<>>, <<name, Node(block, "body", open, last, <<>>, inner)>>)

Error(r) == Leaf("ERROR", "", r, <<>>)

(* f(), and o.m() as each language spells it. *)
Call(type, field, r, callee) == Node(type, "", r, r, <<>>, <<[callee EXCEPT !.field = field]>>)

Plain(type, field, r) == Call(type, field, r, Leaf("identifier", "", r, <<"g">>))

Member(type, field, shape, r, object, of, name, text) ==
    Call(type, field, r,
         Node(shape, "", r, r, <<>>, <<Leaf(object, of, r, <<IF object = "identifier" THEN "o" ELSE object>>),
                                       Leaf(text, name, r, <<"m">>)>>))
-----------------------------------------------------------------------------
Go(r) ==
    LET name == Named("identifier", "F", r)
        calls(i) == <<Plain("call_expression", "function", i),
                      Member("call_expression", "function", "selector_expression", i, "identifier", "operand", "field", "field_identifier")>>
        Spec(i, path) == Node("import_spec", "", i, i, <<>>, <<Leaf("string", "path", i, path)>>)
        Literal(i) == Node("func_literal", "", i, i + 2, <<>>, <<Node("block", "body", i, i + 2, <<>>, calls(i + 1))>>)
    IN  <<Node("import_declaration", "", r, r, <<>>, <<Spec(r, <<"p", "q">>)>>),
          Node("import_declaration", "", r, r + 2, <<>>,
               <<Node("import_spec_list", "", r, r + 2, <<>>,
                      <<Spec(r + 1, <<>>), Node("import_spec", "", r + 1, r + 1, <<>>,
                                                <<Leaf("string", "path", r + 1, <<"p">>), Named("identifier", "x", r + 1)>>)>>)>>),
          Fun("function_declaration", name, r, "block", r, r + 2, calls(r + 1)),
          Fun("function_declaration", name, r, "block", r, r, calls(r)),
          Fun("method_declaration", Named("identifier", "f", r), r, "block", r + 1, r + 3, calls(r + 2)),
          Fun("function_declaration", name, r, "block", r, r + 3, <<Error(r + 2)>>),
          Node("var_declaration", "", r, r + 2, <<>>,
               <<Node("var_spec", "", r, r + 2, <<>>, <<Node("expression_list", "value", r, r + 2, <<>>, <<Literal(r)>>)>>)>>),
          Node("type_declaration", "", r, r + 1, <<>>,
               <<Node("type_spec", "", r, r + 1, <<>>, <<Named("type_identifier", "T", r), Leaf("struct_type", "type", r, <<>>)>>)>>),
          Error(r)>>

Rust(r) ==
    LET name == Named("identifier", "f", r)
        calls(i) == <<Plain("call_expression", "function", i),
                      Member("call_expression", "function", "field_expression", i, "self", "value", "field", "field_identifier"),
                      Member("call_expression", "function", "scoped_identifier", i, "crate", "path", "name", "identifier")>>
        Id(field, i, text) == Leaf("identifier", field, i, <<text>>)
        Path(field) == Node("scoped_identifier", field, r, r, <<>>, <<Leaf("crate", "path", r, <<"crate">>), Id("name", r, "p")>>)
        Use(tree) == Node("use_declaration", "", r, r, <<>>, <<[tree EXCEPT !.field = "argument"]>>)
        Container(type, heads, members) ==
            Node(type, "", r, r + 4, <<>>, heads \o <<Node("declaration_list", "body", r, r + 4, <<>>, members)>>)
    IN  <<Use(Path("")),
          Use(Node("scoped_use_list", "", r, r, <<>>,
                   <<Path("path"), Node("use_list", "list", r, r, <<>>,
                        <<Id("", r, "a"), Leaf("use_wildcard", "", r, <<>>),
                          Node("use_as_clause", "", r, r, <<>>, <<Id("path", r, "b"), Id("alias", r, "c")>>)>>)>>)),
          Fun("function_item", name, r, "block", r, r + 2, calls(r + 1)),
          Fun("function_item", name, r, "block", r, r, <<>>),
          Container("impl_item", <<Leaf("type_identifier", "type", r, <<"T">>), Leaf("type_identifier", "trait", r, <<"U">>)>>,
                    <<Fun("function_item", Named("identifier", "f", r + 1), r + 1, "block", r + 1, r + 3, calls(r + 2))>>),
          Container("trait_item", <<Named("type_identifier", "U", r), Leaf("visibility_modifier", "", r, <<>>)>>,
                    <<Node("function_signature_item", "", r, r, <<>>, <<Named("identifier", "h", r)>>),
                      Fun("function_item", Named("identifier", "f", r + 1), r + 1, "block", r + 1, r + 3, calls(r + 2))>>),
          Node("struct_item", "", r, r + 1, <<>>, <<Named("type_identifier", "T", r)>>),
          Fun("function_item", name, r, "block", r, r + 3, <<Leaf("MISSING", "", r + 3, <<>>)>>),
          Error(r)>>

Java(r) ==
    LET calls(i) == <<Node("method_invocation", "", i, i, <<>>, <<Named("identifier", "g", i)>>),
                      Node("method_invocation", "", i, i, <<>>, <<Named("identifier", "m", i), Leaf("super", "object", i, <<"super">>)>>)>>
        Scoped == Node("scoped_identifier", "", r, r, <<>>, <<Leaf("identifier", "scope", r, <<"p">>), Named("identifier", "T", r)>>)
        Import(more) == Node("import_declaration", "", r, r, <<>>, <<Scoped>> \o more)
        Type(type, body, heads, members) ==
            Node(type, "", r, r + 4, <<>>, <<Named("identifier", "T", r)>> \o heads \o <<Node(body, "body", r, r + 4, <<>>, members)>>)
        Method(type, block, heads) ==
            Node(type, "", r + 1, r + 3, <<>>,
                 <<Named("identifier", "f", r + 1), Node(block, "body", r + 1, r + 3, <<>>, calls(r + 2))>> \o heads)
        Override == Node("modifiers", "", r + 1, r + 1, <<>>,
                         <<Leaf("public", "", r + 1, <<>>),
                           Node("marker_annotation", "", r + 1, r + 1, <<>>, <<Named("identifier", "Override", r + 1)>>)>>)
        Lambda == Node("lambda_expression", "value", r + 1, r + 3, <<>>, <<Node("block", "body", r + 1, r + 3, <<>>, calls(r + 2))>>)
    IN  <<Import(<<>>), Import(<<Leaf("asterisk", "", r, <<>>)>>),
          Leaf("line_comment", "", r, <<>>),
          Type("class_declaration", "class_body",
               <<Node("superclass", "superclass", r, r, <<>>, <<Leaf("type_identifier", "", r, <<"U">>)>>)>>,
               <<Method("method_declaration", "block", <<Override>>)>>),
          Type("class_declaration", "class_body",
               <<Node("super_interfaces", "interfaces", r, r, <<>>,
                      <<Node("type_list", "", r, r, <<>>, <<Leaf("type_identifier", "", r, <<"U">>)>>)>>)>>,
               <<Method("constructor_declaration", "constructor_body", <<>>)>>),
          Type("interface_declaration", "interface_body", <<>>, <<Method("method_declaration", "block", <<>>)>>),
          Type("class_declaration", "class_body", <<>>,
               <<Node("field_declaration", "", r + 1, r + 3, <<>>,
                      <<Node("variable_declarator", "", r + 1, r + 3, <<>>, <<Named("identifier", "x", r + 1), Lambda>>)>>)>>),
          Type("class_declaration", "class_body", <<>>, <<Method("method_declaration", "block", <<Error(r + 2)>>)>>),
          Type("enum_declaration", "enum_body", <<>>, <<Method("method_declaration", "block", <<>>)>>)>>

Csharp(r) ==
    LET calls(i) == <<Plain("invocation_expression", "function", i),
                      Member("invocation_expression", "function", "member_access_expression", i, "base", "expression", "name", "identifier")>>
        Type(type, heads, members) ==
            Node(type, "", r, r + 4, <<>>,
                 <<Named("identifier", "T", r)>> \o heads \o <<Node("declaration_list", "body", r, r + 4, <<>>, members)>>)
        Method(type, heads) ==
            Node(type, "", r + 1, r + 3, <<>>,
                 <<Named("identifier", "f", r + 1), Node("block", "body", r + 1, r + 3, <<>>, calls(r + 2))>> \o heads)
        Qualified == Node("qualified_name", "", r, r, <<>>, <<Leaf("identifier", "qualifier", r, <<"p">>), Named("identifier", "U", r)>>)
        Bases == Node("base_list", "", r, r, <<>>, <<Qualified, Leaf("identifier", "", r, <<"I">>)>>)
        Class == Type("class_declaration", <<Bases>>, <<Method("method_declaration", <<Leaf("modifier", "", r + 1, <<"override">>)>>)>>)
        Lambda == Node("lambda_expression", "", r + 1, r + 3, <<>>, <<Node("block", "body", r + 1, r + 3, <<>>, calls(r + 2))>>)
    IN  <<Node("using_directive", "", r, r, <<>>, <<Qualified>>),
          Class,
          Node("namespace_declaration", "", r, r + 4, <<>>, <<Node("declaration_list", "body", r, r + 4, <<>>, <<Class>>)>>),
          Type("struct_declaration", <<>>, <<Method("constructor_declaration", <<Leaf("modifier", "", r + 1, <<"public">>)>>)>>),
          Type("class_declaration", <<>>,
               <<Node("field_declaration", "", r + 1, r + 3, <<>>,
                      <<Node("variable_declaration", "", r + 1, r + 3, <<>>,
                             <<Node("variable_declarator", "", r + 1, r + 3, <<>>, <<Lambda>>)>>)>>)>>),
          Type("class_declaration", <<>>, <<Method("method_declaration", <<Error(r + 2)>>)>>),
          Type("enum_declaration", <<>>, <<>>)>>

Es(r) ==
    LET calls(i) == <<Plain("call_expression", "function", i),
                      Member("call_expression", "function", "member_expression", i, "this", "object", "property", "property_identifier")>>
        F == Fun("function_declaration", Named("identifier", "f", r), r, "statement_block", r, r + 2, calls(r + 1))
        From(i) == Leaf("string", "source", i, <<".", "b">>)
        Specifier(type, i, more) == Node(type, "", i, i, <<>>, <<Named("identifier", "a", i)>> \o more)
        Arrow == Node("arrow_function", "value", r, r + 2, <<>>, <<Node("statement_block", "body", r, r + 2, <<>>, calls(r + 1))>>)
        Let == Node("lexical_declaration", "declaration", r, r + 2, <<>>,
                    <<Node("variable_declarator", "", r, r + 2, <<>>, <<Named("identifier", "x", r), Arrow>>)>>)
        Method(i, heads) ==
            Node("method_definition", "", i, i + 2, <<>>,
                 <<Named("property_identifier", "m", i), Node("statement_block", "body", i, i + 2, <<>>, calls(i + 1))>> \o heads)
        Class(type, heads, heritage) ==
            Node(type, "", r, r + 4, <<>>,
                 <<Named("identifier", "T", r), Node("class_heritage", "", r, r, <<>>, heritage),
                   Node("class_body", "body", r, r + 4, <<>>, <<Method(r + 1, heads)>>)>>)
        Export(more) == Node("export_statement", "", r, r + 2, <<>>, more)
        U(field) == Leaf("identifier", field, r, <<"U">>)
    IN  [import_bare |-> Node("import_statement", "", r, r, <<>>, <<From(r)>>),
         import_named |-> Node("import_statement", "", r, r + 1, <<>>,
                <<From(r + 1), Node("import_clause", "", r, r + 1, <<>>,
                    <<Leaf("identifier", "", r, <<"d">>),
                      Node("named_imports", "", r, r + 1, <<>>,
                           <<Specifier("import_specifier", r, <<>>),
                             Specifier("import_specifier", r + 1, <<Leaf("identifier", "alias", r + 1, <<"c">>)>>)>>)>>)>>),
         function |-> F,
         exported |-> Export(<<[F EXCEPT !.field = "declaration"]>>),
         variable |-> [Let EXCEPT !.field = ""],
         exported_variable |-> Export(<<Let>>),
         reexport |-> Node("export_statement", "", r, r, <<>>,
                <<From(r), Node("export_clause", "", r, r, <<>>, <<Specifier("export_specifier", r, <<>>)>>)>>),
         class |-> Class("class_declaration", <<>>, <<U("")>>),
         broken |-> Fun("function_declaration", Named("identifier", "f", r), r, "statement_block", r, r + 3, <<Error(r + 2)>>),
         abstract |-> Class("abstract_class_declaration",
                <<Leaf("override_modifier", "", r + 1, <<>>), Leaf("accessibility_modifier", "", r + 1, <<"private">>)>>,
                <<Node("extends_clause", "", r, r, <<>>, <<U("value")>>), Node("implements_clause", "", r, r, <<>>, <<U("")>>)>>),
         interface |-> Node("interface_declaration", "", r, r + 1, <<>>,
                <<Named("type_identifier", "I", r), Node("extends_type_clause", "", r, r, <<>>, <<U("")>>)>>)]

Javascript(r) ==
    LET e == Es(r)
    IN  <<e.import_bare, e.import_named, e.function, e.exported, e.variable, e.exported_variable, e.reexport, e.class, e.broken>>

Typescript(r) ==
    LET e == Es(r)
    IN  <<e.import_named, e.abstract, e.interface, e.exported_variable, e.function, e.broken>>

Python(r) ==
    LET In(field, n) == [n EXCEPT !.field = field]
        S(n) == In("body", n)
        calls(i) == Node("Expr", "body", i, i, <<>>,
                         <<Call("Call", "func", i, Leaf("Name", "", i, <<"g">>)),
                           Call("Call", "func", i, Node("Attribute", "", i, i, <<>>,
                                <<Leaf("Name", "value", i, <<"self">>), Leaf("attr", "attr", i, <<"m">>)>>))>>)
        Doc(i) == Leaf("Doc", "body", i, <<>>)
        Def(i, last, body) == Node("FunctionDef", "body", i, last, <<>>, <<Named("name", "f", i)>> \o body)
        Class(body) == Node("ClassDef", "body", r, r + 2, <<>>, <<Named("name", "_T", r), Leaf("Name", "bases", r, <<"U">>)>> \o body)
        Alias(name, more) == Node("alias", "names", r, r, name, more)
        As == Leaf("asname", "asname", r, <<"c">>)
    IN  <<Node("Import", "body", r, r, <<>>, <<Alias(<<"os", "path">>, <<>>), Alias(<<"x">>, <<As>>)>>),
          Node("ImportFrom", "body", r, r, <<".", "p">>, <<Alias(<<"a">>, <<>>), Alias(<<"b">>, <<As>>), Alias(<<"c">>, <<>>)>>),
          Node("ImportFrom", "body", r, r, <<"p">>, <<Alias(<<"*">>, <<>>)>>),
          Def(r, r + 2, <<Doc(r + 1), calls(r + 2)>>),
          Def(r, r, <<calls(r)>>),
          [Def(r + 1, r + 2, <<calls(r + 2)>>) EXCEPT !.children = @ \o <<In("decorator_list", calls(r))>>],
          Class(<<Def(r + 1, r + 2, <<calls(r + 2)>>)>>),
          Class(<<Node("If", "body", r + 1, r + 2, <<>>, <<Def(r + 1, r + 2, <<calls(r + 2)>>)>>)>>),
          Node("Try", "body", r, r + 3, <<>>,
               <<calls(r + 1), Node("handler", "handlers", r + 1, r + 3, <<>>, <<Def(r + 2, r + 3, <<calls(r + 3)>>)>>)>>),
          Node("Assign", "body", r, r, <<>>,
               <<Leaf("Name", "targets", r, <<"__all__">>), Node("List", "value", r, r, <<>>, <<Leaf("Constant", "", r, <<"f">>)>>)>>)>>

Items(language, r) ==
    CASE language = "go" -> Go(r)
      [] language = "rust" -> Rust(r)
      [] language = "java" -> Java(r)
      [] language = "csharp" -> Csharp(r)
      [] language = "javascript" -> Javascript(r)
      [] language = "typescript" -> Typescript(r)
      [] language = "python" -> Python(r)

Languages == {"go", "rust", "java", "csharp", "javascript", "typescript", "python"}

(* An item of a file: the k-th of its language, so many lines below the    *)
(* last line of the item before it.                                        *)
Parts == {[language |-> l, item |-> k, gap |-> g] :
            l \in Languages, k \in 1 .. 10, g \in 0 .. 2}

(* Nothing follows a line comment, and only statements of one line follow  *)
(* one another on a line of Python.                                        *)
Follows(part, before) ==
    part.gap = 0 =>
        CASE part.language = "python" -> {part.item, before.item} \subseteq {1, 2, 3, 10}
          [] part.language = "java" -> before.item # 3
          [] OTHER -> TRUE

MayFollow(parts) ==
    {p \in Parts : /\ p.item \in DOMAIN Items(p.language, 1)
                   /\ IF parts = <<>> THEN p.gap = 1
                      ELSE p.language = parts[1].language /\ Follows(p, Last(parts))}

File(parts) ==
    LET Place(children, p) ==
            Append(children, Items(p.language, IF children = <<>> THEN 1 ELSE Last(children).last + p.gap)[p.item])
        Rooted(children) ==
            Node("module", "", 1, IF children = <<>> THEN 1 ELSE Last(children).last, <<>>, children)
    IN  Rooted(FoldLeft(Place, <<>>, parts))
-----------------------------------------------------------------------------
(* Two versions of a Python file, as statements of [type, name, lines,     *)
(* body]: functions that are copied, renamed, moved into a class or out of *)
(* it, and that give or take a helper.                                     *)
Stmt(type, name, lines, body) == [type |-> type, name |-> name, lines |-> lines, body |-> body]

Pool ==
    LET a == Stmt("stmt", "a", 1, <<>>)
        b == Stmt("stmt", "b", 1, <<>>)
        Calls(f) == Stmt("call", f, 1, <<>>)
        Def(f, lines, body) == Stmt("def", f, lines, body)
        Class(members) == Stmt("class", "C", 4, members)
    IN  {a, b, Stmt("import", "i", 1, <<>>), Stmt("import", "j", 1, <<>>), Stmt("import", "j", 2, <<>>),
         Def("f", 3, <<a, b>>), Def("f", 2, <<a>>), Def("f", 3, <<a, Calls("h")>>),
         Def("f", 3, <<Calls("h"), a>>), Def("f", 3, <<Calls("f"), b>>),
         Def("g", 3, <<Calls("g"), b>>), Def("g", 4, <<a, b>>), Def("h", 2, <<a>>), Def("h", 2, <<b>>),
         Class(<<Def("f", 3, <<a, b>>)>>), Class(<<Def("f", 3, <<a, Calls("h")>>), Def("h", 2, <<b>>)>>), Class(<<>>),
         Stmt("block", "", 5, <<Def("f", 3, <<a, b>>), a>>)}

(* A file changes from its old to its new version; each has two statements *)
(* at most.                                                                *)
MayChange(changes) ==
    {[side |-> s, stmt |-> p] : s \in {"old", "new"}, p \in Pool}
      \ {[side |-> s, stmt |-> p] :
            s \in {x \in {"old", "new"} :
                     \/ x = "old" /\ changes # <<>> /\ Last(changes).side = "new"
                     \/ Len(SelectSeq(changes, LAMBDA c : c.side = x)) = 2},
            p \in Pool}

Version(changes, side) ==
    LET of == SelectSeq(changes, LAMBDA c : c.side = side)
    IN  [parses |-> TRUE, large |-> FALSE, body |-> [k \in DOMAIN of |-> of[k].stmt]]
=============================================================================
