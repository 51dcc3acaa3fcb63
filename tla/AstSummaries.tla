--------------------------- MODULE AstSummaries ---------------------------
(***************************************************************************)
(* What quor reads off a parsed source file: the body lines it compresses, *)
(* the symbols and relationships of the repository graph, and the import   *)
(* statements it folds into one block.  The parsers are external; a file   *)
(* is the tree they return, a node of it                                   *)
(*                                                                         *)
(*   [type, field, first, last, text, children]                            *)
(*                                                                         *)
(* where field is the name its parent knows it by ("" for none), first and *)
(* last are its lines, and text its source as a sequence of segments: a    *)
(* plain name is <<"F">>, the path p/q is <<"p", "q">>.  Of the anonymous  *)
(* tokens only the ones the code asks for are in the tree.  A result whose *)
(* order the code does not use is a set.                                   *)
(***************************************************************************)
EXTENDS Integers, Sequences, SequencesExt

CONSTANTS
    Capitalised,            \* the names that begin with an upper-case letter
    Underscored,            \* the names that begin with an underscore
    Stdlib,                 \* the top-level names of Python's standard library
    MaxNamesPerGroup,       \* import_collapse.py: 10 entries shown of a group
    MaxInlineModuleNames    \* import_collapse.py: 3 names fit on one line

Kids(n, types) == {c \in ToSet(n.children) : c.type \in types}

Field(n, f) == {c \in ToSet(n.children) : c.field = f}

FieldOf(n, f, types) == Field(n, f) \intersect Kids(n, types)

RECURSIVE Descendants(_)
Descendants(n) == UNION {{c} \union Descendants(c) : c \in ToSet(n.children)}

(* A dotted reference of a language, as the set of its one reading or of   *)
(* none: names.leaf are the simple nodes, names.join gives the two fields  *)
(* a compound node is read from, names.inner the field of a wrapper.       *)
RECURSIVE Dotted(_, _)
Dotted(n, names) ==
    IF n.type \in names.leaf THEN {n.text}
    ELSE IF n.type \in DOMAIN names.join THEN
        LET fields == names.join[n.type]
        IN  {base \o m.text : base \in UNION {Dotted(b, names) : b \in Field(n, fields[1])},
                              m \in Field(n, fields[2])}
    ELSE UNION {Dotted(m, names) : m \in IF n.type \in names.wrapper THEN Field(n, "name") ELSE {}}

Symbol(n, kind, public) ==
    {[name |-> m.text, kind |-> kind, line |-> n.first, is_public |-> public,
      is_entry_point |-> kind \in {"function", "method"} /\ m.text \in {<<"main">>, <<"Main">>}] :
        m \in Field(n, "name")}

Rel(kind, source, target, line, qualifier, origin) ==
    [kind |-> kind, source |-> source, target |-> target, line |-> line,
     qualifier |-> qualifier, origin |-> origin]

(* A base or an interface read off node b for the type called source. *)
Heir(kind, source, b, names) == {Rel(kind, source, t, b.first, <<>>, <<>>) : t \in Dotted(b, names)}

Callee(target, qualifier, line) == [target |-> target, qualifier |-> qualifier, line |-> line]

(* The calls within n whose callee is a node of the given type. *)
CalledAs(n, call, field, type) ==
    UNION {{[line |-> d.first, callee |-> f] : f \in FieldOf(d, field, {type})} :
              d \in {d \in Descendants(n) : d.type = call}}

(* callees, found in a function, as the calls of the function named by n. *)
CallsOf(n, callees) ==
    {Rel("calls", m.text, c.target, c.line, c.qualifier, <<>>) : m \in Field(n, "name"), c \in callees}
-----------------------------------------------------------------------------
(* Slip: the line of the opening brace goes too. *)
interior_with_brace(n, block) ==
    UNION {b.first .. (b.last - 1) : b \in FieldOf(n, "body", {block})}

(* Which lines of a body go: those between its braces, and no line at all  *)
(* of a function the parser could not read in full.                        *)
statement_block_interior_lines(n, block) ==
    UNION {(b.first + 1) .. (b.last - 1) : b \in FieldOf(n, "body", {block})}

collect_error_ranges(root) ==
    {<<n.first, n.last>> : n \in {n \in {root} \union Descendants(root) : n.type \in {"ERROR", "MISSING"}}}

has_error_overlap(n, errors) == \E e \in errors : e[1] <= n.last /\ e[2] >= n.first

add_candidate(n, errors, block) ==
    IF has_error_overlap(n, errors) THEN {} ELSE statement_block_interior_lines(n, block)
-----------------------------------------------------------------------------
(* Go. *)
GoFunctions == {"function_declaration", "method_declaration"}

(* The function literals of var specs, alone or in a parenthesised list. *)
GoLiterals(decl) ==
    LET specs == Kids(decl, {"var_spec"})
                 \union UNION {Kids(l, {"var_spec"}) : l \in Kids(decl, {"var_spec_list"})}
    IN  UNION {UNION {Kids(v, {"func_literal"}) : v \in FieldOf(s, "value", {"expression_list"})} :
                  s \in specs}

analyze_go(root) ==
    LET errors == collect_error_ranges(root)
        found == Kids(root, GoFunctions) \union UNION {GoLiterals(d) : d \in Kids(root, {"var_declaration"})}
    IN  UNION {add_candidate(f, errors, "block") : f \in found}

GoExported(n) == \E m \in Field(n, "name") : m.text[1] \in Capitalised

GoTypeSymbols(decl) ==
    UNION {UNION {Symbol(s, IF t.type = "struct_type" THEN "struct" ELSE "interface", GoExported(s)) :
                     t \in FieldOf(s, "type", {"struct_type", "interface_type"})} :
              s \in Kids(decl, {"type_spec"})}

extract_symbols_go(root) ==
    UNION {GoTypeSymbols(d) : d \in Kids(root, {"type_declaration"})}
    \union UNION {Symbol(f, IF f.type = "method_declaration" THEN "method" ELSE "function", GoExported(f)) :
                     f \in Kids(root, GoFunctions)}

(* An import is known by its alias, or by the last segment of its path. *)
GoImports(decl) ==
    LET specs == Kids(decl, {"import_spec"})
                 \union UNION {Kids(l, {"import_spec"}) : l \in Kids(decl, {"import_spec_list"})}
        Local(s, path) == IF Field(s, "name") # {} THEN {m.text : m \in Field(s, "name")}
                          ELSE {IF path = <<>> THEN <<>> ELSE <<Last(path)>>}
    IN  UNION {UNION {{Rel("import", <<>>, p.text, s.first, q, <<>>) : q \in Local(s, p.text)} :
                         p \in Field(s, "path")} : s \in specs}

GoCallees(n) ==
    {Callee(c.callee.text, <<>>, c.line) : c \in CalledAs(n, "call_expression", "function", "identifier")}
    \union UNION {{Callee(f.text, o.text, c.line) :
                      f \in Field(c.callee, "field"), o \in FieldOf(c.callee, "operand", {"identifier"})} :
                     c \in CalledAs(n, "call_expression", "function", "selector_expression")}

extract_relationships_go(root) ==
    UNION {GoImports(d) : d \in Kids(root, {"import_declaration"})}
    \union UNION {CallsOf(f, GoCallees(f)) : f \in Kids(root, GoFunctions)}
-----------------------------------------------------------------------------
(* Rust. *)
RustMembers(n, types) == UNION {Kids(b, types) : b \in FieldOf(n, "body", {"declaration_list"})}

RustContainers(root) == Kids(root, {"impl_item", "trait_item"})

analyze_rust(root) ==
    LET errors == collect_error_ranges(root)
        found == Kids(root, {"function_item"})
                 \union UNION {RustMembers(c, {"function_item"}) : c \in RustContainers(root)}
    IN  UNION {add_candidate(f, errors, "block") : f \in found}

IsPub(n) == Kids(n, {"visibility_modifier"}) # {}

extract_symbols_rust(root) ==
    LET kinds == [struct_item |-> "struct", enum_item |-> "enum", trait_item |-> "trait",
                  function_item |-> "function"]
        methods == UNION {RustMembers(c, {"function_item", "function_signature_item"}) :
                             c \in RustContainers(root)}
    IN  UNION {Symbol(i, kinds[i.type], IsPub(i)) : i \in Kids(root, DOMAIN kinds)}
        \union UNION {Symbol(f, "method", IsPub(f)) : f \in methods}

RustPaths == [leaf |-> {"identifier", "self", "super", "crate"},
              join |-> [scoped_identifier |-> <<"path", "name">>], wrapper |-> {}]

RustTypes == [leaf |-> {"type_identifier"}, join |-> <<>>, wrapper |-> {"generic_type"}]

(* A use tree, flattened: one import per leaf, none for a wildcard. *)
RECURSIVE RustUses(_, _, _)
RustUses(n, prefix, line) ==
    LET Import(path, name) == Rel("import", <<>>, prefix \o path, line, name, <<Last(path)>>)
        bases == UNION {Dotted(p, RustPaths) : p \in Field(n, "path")}
    IN  CASE n.type = "use_wildcard" -> {}
          [] n.type = "use_as_clause" -> {Import(b, a.text) : b \in bases, a \in Field(n, "alias")}
          [] n.type = "scoped_use_list" ->
               UNION {UNION {RustUses(i, prefix \o b, line) : i \in ToSet(l.children)} :
                         b \in IF bases = {} THEN {<<>>} ELSE bases, l \in Field(n, "list")}
          [] n.type = "use_list" -> UNION {RustUses(i, prefix, line) : i \in ToSet(n.children)}
          [] OTHER -> {Import(b, <<Last(b)>>) : b \in Dotted(n, RustPaths)}

RustCallees(n) ==
    LET calls(type) == CalledAs(n, "call_expression", "function", type)
    IN  {Callee(c.callee.text, <<>>, c.line) : c \in calls("identifier")}
        \union UNION {{Callee(f.text, <<"self">>, c.line) :
                          f \in {f \in Field(c.callee, "field") : FieldOf(c.callee, "value", {"self"}) # {}}} :
                         c \in calls("field_expression")}
        \union UNION {{Callee(m.text, p, c.line) :
                          m \in Field(c.callee, "name"),
                          p \in UNION {Dotted(q, RustPaths) : q \in Field(c.callee, "path")}} :
                         c \in calls("scoped_identifier")}

RustImpl(i) ==
    UNION {UNION {Heir("implements_trait", name, t, RustTypes) : t \in Field(i, "trait")} :
              name \in UNION {Dotted(t, RustTypes) : t \in Field(i, "type")}}
    \union UNION {CallsOf(f, RustCallees(f)) : f \in RustMembers(i, {"function_item"})}

extract_relationships_rust(root) ==
    UNION {UNION {RustUses(a, <<>>, u.first) : a \in Field(u, "argument")} : u \in Kids(root, {"use_declaration"})}
    \union UNION {RustImpl(i) : i \in Kids(root, {"impl_item"})}
-----------------------------------------------------------------------------
(* Java. *)
JavaBodies == [class_declaration |-> "class_body", interface_declaration |-> "interface_body"]

JavaBlocks == [method_declaration |-> "block", constructor_declaration |-> "constructor_body"]

(* The lambdas a field is initialised with. *)
JavaLambdas(field) ==
    UNION {FieldOf(d, "value", {"lambda_expression"}) : d \in Kids(field, {"variable_declarator"})}

analyze_java(root) ==
    LET errors == collect_error_ranges(root)
        bodies == UNION {FieldOf(t, "body", {JavaBodies[t.type]}) : t \in Kids(root, DOMAIN JavaBodies)}
        Lambdas(b) == UNION {JavaLambdas(f) : f \in Kids(b, {"field_declaration"})}
    IN  UNION {UNION {add_candidate(m, errors, JavaBlocks[m.type]) : m \in Kids(b, DOMAIN JavaBlocks)}
               \union UNION {add_candidate(l, errors, "block") : l \in Lambdas(b)} : b \in bodies}

JavaPublic(n) == \E m \in Kids(n, {"modifiers"}) : Kids(m, {"public"}) # {}

JavaMethods(t) == UNION {Kids(b, DOMAIN JavaBlocks) : b \in Field(t, "body")}

JavaTypeSymbols(t, kind) ==
    Symbol(t, kind, JavaPublic(t))
    \union IF kind = "enum" \/ Field(t, "name") = {} THEN {}
           ELSE UNION {Symbol(m, "method", JavaPublic(m)) : m \in JavaMethods(t)}

extract_symbols_java(root) ==
    LET kinds == [class_declaration |-> "class", interface_declaration |-> "interface",
                  enum_declaration |-> "enum"]
    IN  UNION {JavaTypeSymbols(t, kinds[t.type]) : t \in Kids(root, DOMAIN kinds)}

JavaNames == [leaf |-> {"identifier"}, join |-> [scoped_identifier |-> <<"scope", "name">>], wrapper |-> {}]

JavaImported(n) == UNION {Dotted(c, JavaNames) : c \in Kids(n, {"scoped_identifier", "identifier"})}

JavaImport(n) ==
    {Rel("import", <<>>, t, n.first, <<Last(t)>>, <<Last(t)>>) :
        t \in IF Kids(n, {"asterisk"}) # {} THEN {} ELSE JavaImported(n)}

JavaOverrides(m) ==
    \E a \in UNION {Kids(ms, {"marker_annotation", "annotation"}) : ms \in Kids(m, {"modifiers"})} :
        \E name \in Field(a, "name") : name.text = <<"Override">>

JavaCallees(n) ==
    LET Object(d) == IF Field(d, "object") = {} THEN {<<>>}
                     ELSE {o.text : o \in FieldOf(d, "object", {"this", "super", "identifier"})}
    IN  UNION {{Callee(m.text, o, d.first) : m \in Field(d, "name"), o \in Object(d)} :
                  d \in {d \in Descendants(n) : d.type = "method_invocation"}}

(* Only a class with a superclass overrides anything. *)
JavaType(t, name) ==
    LET supers == UNION {Kids(s, {"type_identifier"}) : s \in Field(t, "superclass")}
        interfaces == UNION {UNION {Kids(l, {"type_identifier"}) : l \in Kids(i, {"type_list"})} :
                                i \in Field(t, "interfaces")}
        Overriding(m) == {Rel("overrides", n.text, n.text, m.first, s.text, <<>>) :
                            n \in Field(m, "name"), s \in IF JavaOverrides(m) THEN supers ELSE {}}
    IN  {Rel("inherits", name, s.text, s.first, <<>>, <<>>) : s \in supers}
        \union {Rel("implements_interface", name, i.text, i.first, <<>>, <<>>) : i \in interfaces}
        \union UNION {CallsOf(m, JavaCallees(m)) \union Overriding(m) : m \in JavaMethods(t)}

extract_relationships_java(root) ==
    UNION {JavaImport(i) : i \in Kids(root, {"import_declaration"})}
    \union UNION {UNION {JavaType(t, n.text) : n \in Field(t, "name")} : t \in Kids(root, DOMAIN JavaBodies)}
-----------------------------------------------------------------------------
(* C#: everything may sit in namespaces, at any depth. *)
RECURSIVE InNamespaces(_, _)
InNamespaces(n, types) ==
    Kids(n, types)
    \union UNION {UNION {InNamespaces(b, types) : b \in FieldOf(s, "body", {"declaration_list"})} :
                     s \in Kids(n, {"namespace_declaration"})}

CsharpTypes == {"class_declaration", "interface_declaration", "struct_declaration"}

CsharpMethods == {"method_declaration", "constructor_declaration"}

CsharpLambdas(field) ==
    UNION {UNION {Kids(v, {"lambda_expression"}) : v \in Kids(d, {"variable_declarator"})} :
              d \in Kids(field, {"variable_declaration"})}

analyze_csharp(root) ==
    LET errors == collect_error_ranges(root)
        bodies == UNION {FieldOf(t, "body", {"declaration_list"}) : t \in InNamespaces(root, CsharpTypes)}
        found == UNION {Kids(b, CsharpMethods)
                        \union UNION {CsharpLambdas(f) : f \in Kids(b, {"field_declaration"})} : b \in bodies}
    IN  UNION {add_candidate(f, errors, "block") : f \in found}

CsharpModified(n, modifier) == \E m \in Kids(n, {"modifier"}) : m.text = <<modifier>>

CsharpMembers(t) == UNION {Kids(b, CsharpMethods) : b \in Field(t, "body")}

extract_symbols_csharp(root) ==
    LET kinds == [class_declaration |-> "class", interface_declaration |-> "interface",
                  struct_declaration |-> "struct", enum_declaration |-> "enum"]
        Members(t) == IF t.type = "enum_declaration" \/ Field(t, "name") = {} THEN {} ELSE CsharpMembers(t)
    IN  UNION {Symbol(t, kinds[t.type], CsharpModified(t, "public"))
               \union UNION {Symbol(m, "method", CsharpModified(m, "public")) : m \in Members(t)} :
                  t \in InNamespaces(root, DOMAIN kinds)}

CsharpNames == [leaf |-> {"identifier"}, join |-> [qualified_name |-> <<"qualifier", "name">>], wrapper |-> {}]

CsharpUsing(n) ==
    UNION {{Rel("import", <<>>, t, n.first, <<>>, <<>>) : t \in Dotted(c, CsharpNames)} :
              c \in Kids(n, {"identifier", "qualified_name"})}

CsharpCallees(n) ==
    {Callee(c.callee.text, <<>>, c.line) : c \in CalledAs(n, "invocation_expression", "function", "identifier")}
    \union UNION {{Callee(m.text, e.text, c.line) :
                      m \in Field(c.callee, "name"),
                      e \in FieldOf(c.callee, "expression", {"this", "base", "identifier"})} :
                     c \in CalledAs(n, "invocation_expression", "function", "member_access_expression")}

(* The grammar does not tell a base class from an interface: the first     *)
(* entry of the list is taken for the class.                               *)
CsharpType(t, name) ==
    LET Bases(l) == l.children
        supers == UNION {IF Bases(l) = <<>> THEN {} ELSE Dotted(Bases(l)[1], CsharpNames) :
                            l \in Kids(t, {"base_list"})}
        Overriding(m) == {Rel("overrides", n.text, n.text, m.first, s, <<>>) :
                            n \in Field(m, "name"), s \in IF CsharpModified(m, "override") THEN supers ELSE {}}
    IN  UNION {UNION {Heir("inherits", name, b, CsharpNames) : b \in ToSet(Bases(l))} : l \in Kids(t, {"base_list"})}
        \union UNION {CallsOf(m, CsharpCallees(m)) \union Overriding(m) : m \in CsharpMembers(t)}

extract_relationships_csharp(root) ==
    UNION {CsharpUsing(u) : u \in Kids(root, {"using_directive"})}
    \union UNION {UNION {CsharpType(t, n.text) : n \in Field(t, "name")} : t \in InNamespaces(root, CsharpTypes)}
-----------------------------------------------------------------------------
(* JavaScript and TypeScript: one walk, two dialects. *)
JavaScript ==
    LET functions == {"function_declaration", "generator_function_declaration", "arrow_function",
                      "function_expression", "generator_function", "method_definition"}
    IN  [functions |-> functions, classes |-> {"class_declaration"}, members |-> {"method_definition"},
         named |-> <<>>,
         names |-> [leaf |-> {"identifier", "type_identifier"},
                    join |-> [member_expression |-> <<"object", "property">>], wrapper |-> {}]]

TypeScript ==
    LET functions == JavaScript.functions \union {"function_signature", "abstract_method_signature"}
    IN  [functions |-> functions, classes |-> {"class_declaration", "abstract_class_declaration"},
         members |-> functions,
         named |-> [interface_declaration |-> "interface", enum_declaration |-> "enum"],
         names |-> [leaf |-> {"identifier", "type_identifier"},
                    join |-> [member_expression |-> <<"object", "property">>,
                              nested_type_identifier |-> <<"module", "name">>],
                    wrapper |-> {"generic_type"}]]

EsVariables == {"lexical_declaration", "variable_declaration"}

EsFunctionDeclarations == {"function_declaration", "generator_function_declaration"}

EsFunctionValues == {"arrow_function", "function_expression", "generator_function"}

(* What an export statement declares is read like the top level. *)
EsExporting(n) == {e \in Kids(n, {"export_statement"}) : Field(e, "declaration") # {}}

EsMembers(c, types) == UNION {Kids(b, types) : b \in FieldOf(c, "body", {"class_body"})}

(* The variables declared in n that are given a value of these types. *)
EsAssigned(n, types) ==
    UNION {{d \in Kids(v, {"variable_declarator"}) : FieldOf(d, "value", types) # {}} : v \in Kids(n, EsVariables)}

RECURSIVE EsBodies(_, _)
EsBodies(n, dialect) ==
    Kids(n, dialect.functions)
    \union UNION {EsMembers(c, dialect.members) : c \in Kids(n, dialect.classes)}
    \union UNION {FieldOf(d, "value", dialect.functions) : d \in EsAssigned(n, dialect.functions)}
    \union UNION {EsBodies(e, dialect) : e \in EsExporting(n)}

EsLines(root, dialect) ==
    LET errors == collect_error_ranges(root)
    IN  UNION {add_candidate(f, errors, "statement_block") : f \in EsBodies(root, dialect)}

analyze_javascript(root) == EsLines(root, JavaScript)

analyze_typescript(root) == EsLines(root, TypeScript)

(* A method with a plain or a #private name; only TypeScript has modifiers. *)
EsMethods(c) ==
    {m \in EsMembers(c, {"method_definition"}) :
        FieldOf(m, "name", {"property_identifier", "private_property_identifier"}) # {}}

EsMethodSymbol(m) ==
    Symbol(m, "method", /\ FieldOf(m, "name", {"private_property_identifier"}) = {}
                        /\ \A a \in Kids(m, {"accessibility_modifier"}) :
                              a.text \notin {<<"private">>, <<"protected">>})

EsClassSymbols(c, exported) ==
    IF Field(c, "name") = {} THEN {}
    ELSE Symbol(c, "class", exported) \union UNION {EsMethodSymbol(m) : m \in EsMethods(c)}

EsNamedVariables(n) ==
    {d \in EsAssigned(n, EsFunctionValues) : FieldOf(d, "name", {"identifier"}) # {}}

RECURSIVE EsSymbols(_, _, _)
EsSymbols(n, exported, dialect) ==
    UNION {Symbol(f, "function", exported) : f \in Kids(n, EsFunctionDeclarations)}
    \union UNION {EsClassSymbols(c, exported) : c \in Kids(n, dialect.classes)}
    \union UNION {Symbol(d, "function", exported) : d \in EsNamedVariables(n)}
    \union UNION {Symbol(t, dialect.named[t.type], exported) :
                     t \in Kids(n, DOMAIN dialect.named)}
    \union UNION {EsSymbols(e, TRUE, dialect) : e \in EsExporting(n)}

extract_symbols_javascript(root) == EsSymbols(root, FALSE, JavaScript)

extract_symbols_typescript(root) == EsSymbols(root, FALSE, TypeScript)

(* What the clause of an import statement binds: its local name, and the   *)
(* name it has where it comes from if that is known.                       *)
EsBindings(i) ==
    LET Local(c) == IF c.type = "identifier" THEN {<<c.text, <<>>>>}
                    ELSE IF c.type = "namespace_import" THEN {<<m.text, <<>>>> : m \in Kids(c, {"identifier"})}
                    ELSE UNION {{<<a.text, m.text>> :
                                    m \in Field(s, "name"),
                                    a \in IF Field(s, "alias") = {} THEN Field(s, "name") ELSE Field(s, "alias")} :
                                   s \in Kids(c, {"import_specifier"})}
    IN  IF Kids(i, {"import_clause"}) = {} THEN {<<<<>>, <<>>>>}
        ELSE UNION {UNION {Local(c) : c \in Kids(l, {"identifier", "namespace_import", "named_imports"})} :
                       l \in Kids(i, {"import_clause"})}

EsImport(i) ==
    UNION {{Rel("import", <<>>, s.text, i.first, b[1], b[2]) : b \in EsBindings(i)} : s \in Field(i, "source")}

(* The one name a declaration exports; a list of variables has none. *)
EsExportedName(d, dialect) ==
    LET declared == EsFunctionDeclarations \union dialect.classes \union DOMAIN dialect.named
        names == UNION {Field(v, "name") : v \in Kids(d, {"variable_declarator"})}
    IN  IF d.type \in declared THEN {m.text : m \in Field(d, "name")}
        ELSE IF d.type \in EsVariables /\ Len(SelectSeq(d.children, LAMBDA c : Field(c, "name") # {})) = 1
        THEN {m.text : m \in names} ELSE {}

EsExport(e, dialect) ==
    LET from == IF Field(e, "source") = {} THEN {<<>>} ELSE {s.text : s \in Field(e, "source")}
        Public(s) == IF Field(s, "alias") # {} THEN Field(s, "alias") ELSE Field(s, "name")
        clause == Kids(e, {"export_clause"})
        listed == UNION {{s \in Kids(c, {"export_specifier"}) : Field(s, "name") # {}} : c \in clause}
    IN  IF clause # {} THEN
            UNION {{Rel("export", m.text, t, e.first, <<>>, <<>>) : m \in Public(s), t \in from} : s \in listed}
        ELSE UNION {{Rel("export", name, <<>>, e.first, <<>>, <<>>) : name \in EsExportedName(d, dialect)} :
                       d \in Field(e, "declaration")}

EsCallees(n) ==
    {Callee(c.callee.text, <<>>, c.line) : c \in CalledAs(n, "call_expression", "function", "identifier")}
    \union UNION {{Callee(p.text, o.text, c.line) :
                      p \in FieldOf(c.callee, "property", {"property_identifier"}),
                      o \in FieldOf(c.callee, "object", {"this", "identifier"})} :
                     c \in CalledAs(n, "call_expression", "function", "member_expression")}

(* JavaScript's heritage holds the base itself, TypeScript's two clauses. *)
EsExtends(c) ==
    LET heritage == Kids(c, {"class_heritage"})
        plain == {h.children[Len(h.children)] : h \in {h \in heritage : h.children # <<>>}}
        clauses == UNION {Kids(h, {"extends_clause"}) : h \in heritage}
    IN  IF clauses # {} THEN UNION {Field(x, "value") : x \in clauses}
        ELSE {b \in plain : b.type # "implements_clause"}

EsImplements(c) ==
    UNION {UNION {ToSet(i.children) : i \in Kids(h, {"implements_clause"})} : h \in Kids(c, {"class_heritage"})}

EsClass(c, dialect) ==
    LET supers == IF Field(c, "name") = {} THEN {} ELSE UNION {Dotted(b, dialect.names) : b \in EsExtends(c)}
        Heirs(name) == UNION {Heir("inherits", name, b, dialect.names) : b \in EsExtends(c)}
                       \union UNION {Heir("implements_interface", name, i, dialect.names) : i \in EsImplements(c)}
        Overriding(m) == {Rel("overrides", n.text, n.text, m.first, s, <<>>) :
                            n \in Field(m, "name"),
                            s \in IF Kids(m, {"override_modifier"}) # {} THEN supers ELSE {}}
    IN  UNION {Heirs(n.text) : n \in Field(c, "name")}
        \union UNION {CallsOf(m, EsCallees(m)) \union Overriding(m) : m \in EsMethods(c)}

EsInterface(i, dialect) ==
    UNION {UNION {UNION {Heir("implements_interface", n.text, b, dialect.names) : b \in ToSet(x.children)} :
                     x \in Kids(i, {"extends_type_clause"})} : n \in Field(i, "name")}

EsVariable(d) ==
    UNION {CallsOf(d, EsCallees(v)) : v \in FieldOf(d, "value", EsFunctionValues)}

RECURSIVE EsRelationships(_, _)
EsRelationships(n, dialect) ==
    UNION {EsImport(i) : i \in Kids(n, {"import_statement"})}
    \union UNION {CallsOf(f, EsCallees(f)) : f \in Kids(n, EsFunctionDeclarations)}
    \union UNION {EsClass(c, dialect) : c \in Kids(n, dialect.classes)}
    \union UNION {EsInterface(i, dialect) : i \in Kids(n, DOMAIN dialect.named \intersect {"interface_declaration"})}
    \union UNION {EsVariable(d) : d \in EsNamedVariables(n)}
    \union UNION {EsExport(e, dialect) : e \in Kids(n, {"export_statement"})}
    \union UNION {EsRelationships(e, dialect) :
                     e \in {e \in EsExporting(n) : Kids(e, {"export_clause"}) = {}}}

extract_relationships_javascript(root) == EsRelationships(root, JavaScript)

extract_relationships_typescript(root) == EsRelationships(root, TypeScript)
-----------------------------------------------------------------------------
(* Python, read with its own ast module: statements sit in the fields      *)
(* body, orelse and finalbody; a string alone is a "Doc".                  *)
PythonFunctions == {"FunctionDef", "AsyncFunctionDef"}

Body(n) == SelectSeq(n.children, LAMBDA c : c.field = "body")

(* The statements reached through if, try and with, not through loops. *)
RECURSIVE Flat(_)
Flat(stmts) ==
    LET nesting == {s \in stmts : s.type \in {"If", "Try", "With", "AsyncWith"}}
        Nested(s) == UNION {Field(s, f) : f \in {"body", "orelse", "finalbody"}}
                     \union UNION {Field(h, "body") : h \in Field(s, "handlers")}
    IN  stmts \union UNION {Flat(Nested(s)) : s \in nesting}

Typed(stmts, types) == {s \in stmts : s.type \in types}

(* The docstring stays, and so does a body that begins on the def's line. *)
_body_line_range(f) ==
    LET body == Body(f)
        rest == IF body # <<>> /\ body[1].type = "Doc" THEN Tail(body) ELSE body
    IN  IF rest = <<>> \/ rest[1].first <= f.first THEN {} ELSE rest[1].first .. f.last

RECURSIVE PythonBodies(_)
PythonBodies(stmts) ==
    LET all == Flat(stmts)
    IN  Typed(all, PythonFunctions) \union UNION {PythonBodies(Field(c, "body")) : c \in Typed(all, {"ClassDef"})}

analyze_python(root) == UNION {_body_line_range(f) : f \in PythonBodies(Field(root, "body"))}

PythonSymbol(n, kind) ==
    {[s EXCEPT !.is_entry_point = @ /\ kind = "function"] :
        s \in Symbol(n, kind, \A m \in Field(n, "name") : m.text[1] \notin Underscored)}

(* A class body is read one level deep, through nested classes only. *)
RECURSIVE PythonMethods(_)
PythonMethods(class) ==
    FieldOf(class, "body", PythonFunctions) \union UNION {PythonMethods(c) : c \in FieldOf(class, "body", {"ClassDef"})}

RECURSIVE PythonClasses(_)
PythonClasses(class) == {class} \union UNION {PythonClasses(c) : c \in FieldOf(class, "body", {"ClassDef"})}

extract_symbols_python(root) ==
    LET all == Flat(Field(root, "body"))
        classes == Typed(all, {"ClassDef"})
    IN  UNION {PythonSymbol(f, "function") : f \in Typed(all, PythonFunctions)}
        \union UNION {PythonSymbol(c, "class") : c \in UNION {PythonClasses(d) : d \in classes}}
        \union UNION {PythonSymbol(f, "method") : f \in UNION {PythonMethods(d) : d \in classes}}

PythonNames == [leaf |-> {"Name"}, join |-> [Attribute |-> <<"value", "attr">>], wrapper |-> {}]

(* import a.b binds a, import a.b as c binds c. *)
PythonImport(i) ==
    UNION {{Rel("import", <<>>, a.text, i.first, local, <<>>) :
               local \in IF Field(a, "asname") = {} THEN {<<a.text[1]>>} ELSE {m.text : m \in Field(a, "asname")}} :
              a \in Field(i, "names")}

(* The text of a relative module begins with a dot for each level. *)
PythonImportFrom(i) ==
    UNION {{Rel("import", <<>>, i.text, i.first, local, a.text) :
               local \in IF Field(a, "asname") = {} THEN {a.text} ELSE {m.text : m \in Field(a, "asname")}} :
              a \in {a \in Field(i, "names") : a.text # <<"*">>}}

PythonExports(s) ==
    IF Len(SelectSeq(s.children, LAMBDA c : c.field = "targets")) = 1
       /\ \E t \in FieldOf(s, "targets", {"Name"}) : t.text = <<"__all__">>
    THEN UNION {{Rel("export", e.text, <<>>, s.first, <<>>, <<>>) : e \in Kids(v, {"Constant"})} :
                   v \in FieldOf(s, "value", {"List", "Tuple"})}
    ELSE {}

PythonCallees(n) ==
    {Callee(c.callee.text, <<>>, c.line) : c \in CalledAs(n, "Call", "func", "Name")}
    \union UNION {{Callee(a.text, v.text, c.line) :
                      a \in Field(c.callee, "attr"), v \in FieldOf(c.callee, "value", {"Name"})} :
                     c \in CalledAs(n, "Call", "func", "Attribute")}

extract_relationships_python(root) ==
    LET nodes == Descendants(root)
        all == Flat(Field(root, "body"))
        owners == Typed(all, PythonFunctions) \union UNION {PythonMethods(c) : c \in Typed(all, {"ClassDef"})}
        Heirs(c) == UNION {UNION {Heir("inherits", n.text, b, PythonNames) : b \in Field(c, "bases")} :
                              n \in Field(c, "name")}
    IN  UNION {PythonImport(i) : i \in Typed(nodes, {"Import"})}
        \union UNION {PythonImportFrom(i) : i \in Typed(nodes, {"ImportFrom"})}
        \union UNION {Heirs(c) : c \in Typed(nodes, {"ClassDef"})}
        \union UNION {PythonExports(s) : s \in FieldOf(root, "body", {"Assign"})}
        \union UNION {CallsOf(f, PythonCallees(f)) : f \in owners}
-----------------------------------------------------------------------------
(* Import statements, in order: with a module the names are taken from it, *)
(* without one they are modules themselves (Python's plain import).        *)
Statement(n, has_module, module, names, is_wildcard) ==
    [line |-> n.first, end_line |-> n.last, has_module |-> has_module, module |-> module,
     names |-> names, is_wildcard |-> is_wildcard]

Mapped(nodes, F(_)) == [k \in DOMAIN nodes |-> F(nodes[k])]

ImportedName(n, alias) == [name |-> n.text, alias |-> {a.text : a \in Field(n, alias)}]

collect_import_statements_python(root) ==
    LET imports == SelectSeq(Body(root), LAMBDA s : s.type \in {"Import", "ImportFrom"})
        Names(i) == Mapped(SelectSeq(i.children, LAMBDA c : c.field = "names"),
                           LAMBDA a : ImportedName(a, "asname"))
        Star(i) == i.type = "ImportFrom" /\ Len(Names(i)) = 1 /\ Names(i)[1].name = <<"*">>
    IN  Mapped(imports, LAMBDA i : Statement(i, i.type = "ImportFrom", i.text,
                                             IF Star(i) THEN <<>> ELSE Names(i), Star(i)))

collect_import_statements_java(root) ==
    LET Star(i) == Kids(i, {"asterisk"}) # {}
        Read(i) == CHOOSE t \in JavaImported(i) : TRUE
        Single(i) == Statement(i, TRUE, Front(Read(i)), <<[name |-> <<Last(Read(i))>>, alias |-> {}]>>, FALSE)
        read == SelectSeq(root.children, LAMBDA i : i.type = "import_declaration" /\ JavaImported(i) # {})
    IN  Mapped(read, LAMBDA i : IF Star(i) THEN Statement(i, TRUE, Read(i), <<>>, TRUE) ELSE Single(i))

extract_es_import_statements(root) ==
    LET Clauses(i) == SelectSeq(i.children, LAMBDA c : c.type = "import_clause")
        Names(c) ==
            CASE c.type = "identifier" -> <<[name |-> c.text, alias |-> {}]>>
              [] c.type = "namespace_import" -> <<[name |-> <<"*">>, alias |-> {a.text : a \in Kids(c, {"identifier"})}]>>
              [] OTHER -> Mapped(SelectSeq(c.children, LAMBDA x : Field(x, "name") # {}),
                                 LAMBDA x : [name |-> (CHOOSE m \in Field(x, "name") : TRUE).text,
                                             alias |-> {a.text : a \in Field(x, "alias")}])
        Bound(i) == IF Clauses(i) = <<>> THEN <<>> ELSE FlattenSeq(Mapped(Clauses(i)[1].children, Names))
        read == SelectSeq(root.children, LAMBDA i : i.type = "import_statement" /\ Field(i, "source") # {})
    IN  Mapped(read, LAMBDA i : Statement(i, TRUE, (CHOOSE m \in Field(i, "source") : TRUE).text, Bound(i), FALSE))

(* A run goes on over the lines nothing but a line comment stands on. *)
BlankRows(root) ==
    {r \in root.first .. root.last :
        \A c \in ToSet(root.children) : r \in c.first .. c.last => c.type = "line_comment"}

group_import_runs(statements, blank) ==
    LET Grow(runs, s) ==
            IF runs # <<>> /\ (Last(Last(runs)).end_line + 1) .. (s.line - 1) \subseteq blank
            THEN Append(Front(runs), Append(Last(runs), s))
            ELSE Append(runs, <<s>>)
    IN  FoldLeft(Grow, <<>>, statements)

Entries(s) == IF s.has_module /\ (s.is_wildcard \/ s.names = <<>>) THEN 1 ELSE Len(s.names)

_count_entries(run) == FoldLeft(LAMBDA n, s : n + Entries(s), 0, run)

_format_group(heading, names) ==
    LET shown == SubSeq(names, 1, IF Len(names) < MaxNamesPerGroup THEN Len(names) ELSE MaxNamesPerGroup)
    IN  [heading |-> heading, shown |-> shown, more |-> Len(names) - Len(shown)]

_format_module_group(module, names) ==
    IF Len(names) <= MaxInlineModuleNames THEN [heading |-> module, shown |-> names, more |-> 0]
    ELSE _format_group(module, names)

(* The block: plain imports by origin, then a group per module in the      *)
(* order they first come, then the modules imported for their effect.      *)
render_import_block(run, stdlib) ==
    LET plain == FlattenSeq(Mapped(SelectSeq(run, LAMBDA s : ~s.has_module), LAMBDA s : s.names))
        froms == SelectSeq(run, LAMBDA s : s.has_module)
        Names(s) == IF s.is_wildcard THEN <<[name |-> <<"*">>, alias |-> {}]>> ELSE s.names
        Bucket(module) == FlattenSeq(Mapped(SelectSeq(froms, LAMBDA s : s.module = module), Names))
        firsts == SelectSeq([k \in DOMAIN froms |-> k],
                            LAMBDA k : /\ \A i \in 1 .. (k - 1) : froms[i].module # froms[k].module
                                       /\ Bucket(froms[k].module) # <<>>)
        effects == SelectSeq(froms, LAMBDA s : Names(s) = <<>>)
        Group(heading, names) == IF names = <<>> THEN <<>> ELSE <<_format_group(heading, names)>>
    IN  [total |-> _count_entries(run),
         sections |->
            Group(<<"Standard library">>, SelectSeq(plain, LAMBDA n : n.name[1] \in stdlib))
            \o Group(<<"Third-party">>, SelectSeq(plain, LAMBDA n : n.name[1] \notin stdlib))
            \o Mapped(firsts, LAMBDA k : _format_module_group(froms[k].module, Bucket(froms[k].module)))
            \o Mapped(effects, LAMBDA s : [heading |-> s.module, shown |-> <<s.module>>, more |-> 0])]

(* A run of one entry stays, and so does a run whose block is no cheaper;  *)
(* dear holds the first lines of those.                                    *)
collapse_import_runs(statements, blank, dear, stdlib) ==
    LET runs == SelectSeq(group_import_runs(statements, blank),
                          LAMBDA run : _count_entries(run) >= 2 /\ run[1].line \notin dear)
    IN  Mapped(runs, LAMBDA run : [start_line |-> run[1].line, end_line |-> Last(run).end_line,
                                   block |-> render_import_block(run, stdlib)])
-----------------------------------------------------------------------------
(* registry.py: what the languages can do, and what they need installed. *)
_REQUIRED_PACKAGES ==
    [python |-> {}, javascript |-> {"tree_sitter", "tree_sitter_javascript"},
     typescript |-> {"tree_sitter", "tree_sitter_typescript"}, tsx |-> {"tree_sitter", "tree_sitter_typescript"},
     go |-> {"tree_sitter", "tree_sitter_go"}, java |-> {"tree_sitter", "tree_sitter_java"},
     rust |-> {"tree_sitter", "tree_sitter_rust"}, csharp |-> {"tree_sitter", "tree_sitter_c_sharp"}]

is_language_available(language, installed) ==
    language \in DOMAIN _REQUIRED_PACKAGES /\ _REQUIRED_PACKAGES[language] \subseteq installed

(* Without its parser a language reads nothing off any file. *)
Nothing == [lines |-> {}, symbols |-> {}, relationships |-> {}, statements |-> <<>>]

Read(language, root, installed) ==
    IF ~is_language_available(language, installed) THEN Nothing ELSE
        CASE language = "python" ->
               [lines |-> analyze_python(root), symbols |-> extract_symbols_python(root),
                relationships |-> extract_relationships_python(root),
                statements |-> collect_import_statements_python(root)]
          [] language = "javascript" ->
               [lines |-> analyze_javascript(root), symbols |-> extract_symbols_javascript(root),
                relationships |-> extract_relationships_javascript(root),
                statements |-> extract_es_import_statements(root)]
          [] language \in {"typescript", "tsx"} ->
               [lines |-> analyze_typescript(root), symbols |-> extract_symbols_typescript(root),
                relationships |-> extract_relationships_typescript(root),
                statements |-> extract_es_import_statements(root)]
          [] language = "java" ->
               [lines |-> analyze_java(root), symbols |-> extract_symbols_java(root),
                relationships |-> extract_relationships_java(root),
                statements |-> collect_import_statements_java(root)]
          [] language = "go" ->
               [lines |-> analyze_go(root), symbols |-> extract_symbols_go(root),
                relationships |-> extract_relationships_go(root), statements |-> <<>>]
          [] language = "rust" ->
               [lines |-> analyze_rust(root), symbols |-> extract_symbols_rust(root),
                relationships |-> extract_relationships_rust(root), statements |-> <<>>]
          [] language = "csharp" ->
               [lines |-> analyze_csharp(root), symbols |-> extract_symbols_csharp(root),
                relationships |-> extract_relationships_csharp(root), statements |-> <<>>]

BlocksOf(language, root, read, dear) ==
    collapse_import_runs(read.statements, BlankRows(root), dear, IF language = "python" THEN Stdlib ELSE {})

Callees(language, n) ==
    CASE language = "python" -> PythonCallees(n)
      [] language \in {"javascript", "typescript", "tsx"} -> EsCallees(n)
      [] language = "java" -> JavaCallees(n)
      [] language = "go" -> GoCallees(n)
      [] language = "rust" -> RustCallees(n)
      [] language = "csharp" -> CsharpCallees(n)
-----------------------------------------------------------------------------
(* The nodes the function and method symbols stand for. *)
Owners(root, symbols) ==
    {n \in Descendants(root) :
        /\ Field(n, "body") \union Field(n, "value") # {}
        /\ \E s \in symbols : /\ s.kind \in {"function", "method"}
                             /\ s.line = n.first
                             /\ \E m \in Field(n, "name") : m.text = s.name}

(* stages/code_ast_summarize.py: compressing bodies keeps the outline.  No *)
(* line of a symbol, of a top-level import or of a parse error goes, and a *)
(* line that goes lies below the header of some function.                  *)
OutlineSurvives(root, read) ==
    LET imports == {n \in ToSet(root.children) :
                      n.type \in {"Import", "ImportFrom", "import_statement", "import_declaration"}}
    IN  /\ \A s \in read.symbols : s.line \notin read.lines
        /\ \A i \in imports : (i.first .. i.last) \intersect read.lines = {}
        /\ \A e \in collect_error_ranges(root) : (e[1] .. e[2]) \intersect read.lines = {}
        /\ \A l \in read.lines :
              \E n \in Descendants(root) :
                  l \in (n.first + 1) .. n.last /\ Field(n, "body") # {} /\ n.type # "ClassDef"

(* relationship_model.py: a call is reported for the function it stands    *)
(* in, and every function the symbols name reports its calls; so a call    *)
(* whose line is compressed is still an edge of the graph.  Rust is apart: *)
(* only the methods of an impl report theirs.                              *)
CallsHaveTheirFunction(language, root, read) ==
    LET owners == Owners(root, read.symbols)
        calls == {r \in read.relationships : r.kind = "calls"}
        reporting == IF language # "rust" THEN owners
                     ELSE {n \in owners : \E i \in Kids(root, {"impl_item"}) : n \in Descendants(i)}
    IN  /\ \A r \in calls :
              \E n \in owners : r.line \in {d.first : d \in Descendants(n)} /\ \E m \in Field(n, "name") : m.text = r.source
        /\ \A n \in reporting : CallsOf(n, Callees(language, n)) \subseteq calls

(* import_collapse.py: a block accounts for every import of its run, and   *)
(* stands for lines with nothing on them but imports, blanks and comments; *)
(* what shares the line of an import goes with it.                         *)
BlocksAccountForImports(root, read, blocks) ==
    LET imported == UNION {s.line .. s.end_line : s \in ToSet(read.statements)}
    IN  /\ \A b \in ToSet(blocks) :
              /\ b.block.total = FoldLeft(LAMBDA n, g : n + Len(g.shown) + g.more, 0, b.block.sections)
              /\ b.start_line .. b.end_line \subseteq imported \union BlankRows(root)
              /\ (b.start_line .. b.end_line) \intersect read.lines = {}
        /\ \A i, j \in DOMAIN blocks : i < j => blocks[i].end_line < blocks[j].start_line
=============================================================================
