----------------------------- MODULE RepoGraph -----------------------------
(***************************************************************************)
(* The repository graph (quor/pipeline/repo_profile): the facts taken from *)
(* each file, the edges resolved from them, the distance of files from a   *)
(* focal file, and the context rendered around it in tiers.                *)
(*                                                                         *)
(* A path is the sequence of its segments, the file name last.  What the   *)
(* extractor of a language finds in a file is given with the file: the     *)
(* bag of its symbols and the sequence of its relationships.               *)
(***************************************************************************)
EXTENDS Integers, Sequences, FiniteSets, FiniteSetsExt, SequencesExt

None == "(none)"
Nowhere == <<>>         \* no file: an unresolved target

Dir(path) == IF path = <<>> THEN <<>> ELSE Front(path)
-----------------------------------------------------------------------------
(* The loop over the walked files: by what happens to each of them.  A     *)
(* language has extractors for some of what is needed, and the file parses *)
(* for some of them.                                                       *)
Fate(file, needs) ==
    CASE file.language = None -> "ignored"
      [] file.language # None /\ ~file.available -> "language_skipped"
      [] file.language # None /\ file.available /\ ~(needs \subseteq file.extractors) -> "ignored"
      [] OTHER -> IF file.large THEN "too_large"
                  ELSE IF needs \subseteq file.parses THEN "facts" ELSE "parse_failure"

Walked(files, needs) ==
    LET With(fate) == {f \in files : Fate(f, needs) = fate}
    IN  [facts |-> With("facts"), large |-> Cardinality(With("too_large")),
         parse_failures |-> {f.path : f \in With("parse_failure")},
         covered |-> {f.language : f \in With("facts") \union With("too_large")
                                            \union With("parse_failure")},
         skipped |-> {f.language : f \in With("language_skipped")}]

build_dependency_graph_with_facts(files) == Walked(files, {"symbols", "relationships"})

(* A file without a symbol is left out of the index. *)
build_symbol_index_with_facts(files) ==
    LET walked == Walked(files, {"symbols"})
    IN  [walked EXCEPT !.facts = {f \in walked.facts : f.symbols # <<>>}]
-----------------------------------------------------------------------------
(* The first of the candidates that is a file of the repository. *)
FirstFile(candidates, all_files) ==
    LET found == {i \in DOMAIN candidates : candidates[i] \in all_files}
    IN  IF found = {} THEN Nowhere ELSE candidates[Min(found)]

Suffixed(path, ext) ==
    IF path = <<>> THEN <<ext>> ELSE Append(Front(path), Last(path) \o ext)

(* A dot more is a directory up, and the root is its own parent. *)
Up(dir, n) == SubSeq(dir, 1, Len(dir) - n)

_resolve_python_import(target, importing, all_files) ==
    LET base == IF target.level > 0 THEN Up(Dir(importing), target.level - 1) ELSE <<>>
        path == base \o target.segments
    IN  IF target.segments = <<>>
        THEN IF target.level = 0 THEN Nowhere
             ELSE FirstFile(<<Append(base, "__init__.py")>>, all_files)
        ELSE FirstFile(<<Suffixed(path, ".py"), Append(path, "__init__.py")>>, all_files)

_JS_EXTENSIONS == <<".ts", ".tsx", ".js", ".jsx", ".mjs", ".cjs">>

(* Relative targets only, inside the repository; a name with an extension  *)
(* is tried as it is.                                                      *)
_resolve_js_import(target, importing, all_files) ==
    LET path == Up(Dir(importing), target.level - 1) \o target.segments
        plain == IF target.ext THEN <<path>> ELSE <<>>
        suffixed == [i \in DOMAIN _JS_EXTENSIONS |-> Suffixed(path, _JS_EXTENSIONS[i])]
        index == [i \in DOMAIN _JS_EXTENSIONS |-> Append(path, "index" \o _JS_EXTENSIONS[i])]
    IN  IF target.level \notin 1..(Len(Dir(importing)) + 1) THEN Nowhere
        ELSE FirstFile(plain \o suffixed \o index, all_files)

(* Wherever the source root is, when only one file can be meant. *)
_resolve_java_import(target, all_files) ==
    LET suffix == Suffixed(target.segments, ".java")
        matches == {f \in all_files : IsSuffix(suffix, f)}
    IN  IF Cardinality(matches) = 1 THEN CHOOSE f \in matches : TRUE ELSE Nowhere

(* crate::a::Name lies in src/a.rs or src/a/mod.rs, crate::Name in a root. *)
_resolve_rust_import(target, all_files) ==
    LET modules == Front(target.segments)
        path == <<"src">> \o modules
    IN  IF target.level = 0 THEN Nowhere
        ELSE IF modules = <<>>
        THEN FirstFile(<<<<"src", "lib.rs">>, <<"src", "main.rs">>>>, all_files)
        ELSE FirstFile(<<Suffixed(path, ".rs"), Append(path, "mod.rs")>>, all_files)

_resolve_import_target(language, target, importing, all_files) ==
    CASE language = "python" -> _resolve_python_import(target, importing, all_files)
      [] language \in {"javascript", "typescript", "tsx"} ->
             _resolve_js_import(target, importing, all_files)
      [] language = "java" -> _resolve_java_import(target, all_files)
      [] language = "rust" -> _resolve_rust_import(target, all_files)
      [] OTHER -> Nowhere
-----------------------------------------------------------------------------
(* `facts` is a sequence: the order in which the files were walked. *)
Paths(facts) == {facts[i].path : i \in DOMAIN facts}

(* The places where the files of a path declare a name. *)
Declared(facts, path, name) ==
    {w \in UNION {{i} \X DOMAIN facts[i].symbols : i \in DOMAIN facts} :
        facts[w[1]].path = path /\ facts[w[1]].symbols[w[2]] = name}

Count(facts, path, name) == Cardinality(Declared(facts, path, name))

Declares(facts, path, name) == path # Nowhere /\ Count(facts, path, name) > 0

Unresolved == [file |-> Nowhere, symbol |-> None]

In(facts, path, name) ==
    IF Declares(facts, path, name) THEN [file |-> path, symbol |-> name] ELSE Unresolved

(* The name an import binds; of two that bind the same name, the later     *)
(* one that was resolved.                                                  *)
Bound(facts, i, all_files, name) ==
    LET file == facts[i]
        Leads(k) == _resolve_import_target(file.language, file.rels[k].target, file.path, all_files)
        known == {k \in DOMAIN file.rels : /\ file.rels[k].kind = "import"
                                           /\ file.rels[k].qualifier = name /\ Leads(k) # Nowhere}
    IN  IF known = {} THEN Nowhere ELSE Leads(Max(known))

_resolve_type_reference(facts, i, all_files, qualifier, name) ==
    LET own == facts[i].path
    IN  IF qualifier = None /\ Declares(facts, own, name) THEN [file |-> own, symbol |-> name]
        ELSE In(facts, Bound(facts, i, all_files, IF qualifier = None THEN name ELSE qualifier), name)

(* A call in the same file needs the one symbol of that name. *)
Called(facts, i, all_files, rel) ==
    LET own == facts[i].path
        here == rel.qualifier \in {None, "self", "this", "super", "base"}
    IN  IF here /\ Count(facts, own, rel.name) = 1 THEN [file |-> own, symbol |-> rel.name]
        ELSE IF rel.qualifier \in {"self", "this", "super", "base"} THEN Unresolved
        ELSE In(facts, Bound(facts, i, all_files, IF rel.qualifier = None THEN rel.name ELSE rel.qualifier),
                rel.name)

_resolve_relationship(facts, i, all_files, rel) ==
    CASE rel.kind \in {"inherits", "implements_interface", "implements_trait"} ->
             _resolve_type_reference(facts, i, all_files, rel.qualifier, rel.name)
      [] rel.kind = "overrides" ->
             In(facts, _resolve_type_reference(facts, i, all_files, None, rel.qualifier).file, rel.name)
      [] rel.kind = "calls" -> Called(facts, i, all_files, rel)
      [] OTHER -> Unresolved

(* A slip: the files are counted while they are being drained. *)
LeftToDrain(facts, i) == {facts[j].path : j \in {k \in DOMAIN facts : k >= i}}

(* The files known before the first of them is drained. *)
AllFiles(facts, i) == Paths(facts)

Resolved(facts, i, all_files, rel) ==
    IF rel.kind \in {"import", "export"}
    THEN [file |-> _resolve_import_target(facts[i].language, rel.target, facts[i].path, all_files),
          symbol |-> None]
    ELSE _resolve_relationship(facts, i, all_files, rel)

Edge(source, rel, found) ==
    [source |-> source, rel |-> rel, file |-> found.file, symbol |-> found.symbol]

EdgesOf(facts, i, all_files) ==
    {Edge(facts[i].path, r, Resolved(facts, i, all_files, r)) : r \in ToSet(facts[i].rels)}

_resolve_all(facts) == UNION {EdgesOf(facts, i, AllFiles(facts, i)) : i \in DOMAIN facts}
-----------------------------------------------------------------------------
_build_reverse_import_index(entries) ==
    LET targets == UNION {entries[f].imported_files : f \in DOMAIN entries}
    IN  [t \in targets |-> {f \in DOMAIN entries : t \in entries[f].imported_files}]

Importers(entries, file) ==
    LET reverse == _build_reverse_import_index(entries)
    IN  IF file \in DOMAIN reverse THEN reverse[file] ELSE {}

(* A slip: only what the file imports is near it. *)
Imported(entries, file) == IF file \in DOMAIN entries THEN entries[file].imported_files ELSE {}

Neighbours(entries, file) == Imported(entries, file) \union Importers(entries, file)

DEFAULT_MAX_HOPS == 2

(* The files a search from `start` may meet. *)
FilesIn(entries, start) ==
    {start} \union DOMAIN entries \union UNION {entries[f].imported_files : f \in DOMAIN entries}

(* Breadth first: the frontier is a queue, and a file is given its         *)
(* distance when it is first met.                                          *)
Visit(entries, max_hops, search) ==
    IF search.frontier = <<>> THEN search
    ELSE LET distances == search.distances
             hop == distances[Head(search.frontier)]
             fresh == IF hop >= max_hops THEN {}
                      ELSE Neighbours(entries, Head(search.frontier)) \ DOMAIN distances
         IN  [distances |-> [f \in DOMAIN distances \union fresh |->
                                IF f \in fresh THEN hop + 1 ELSE distances[f]],
              frontier |-> Tail(search.frontier) \o SetToSeq(fresh)]

(* A file enters the queue once: as many visits as there are files are     *)
(* enough to empty it.                                                     *)
compute_hop_distances(entries, start, max_hops) ==
    LET enough == Cardinality(FilesIn(entries, start))
        visits[n \in 0..enough] ==
            IF n = 0 THEN [distances |-> [f \in {start} |-> 0], frontier |-> <<start>>]
            ELSE Visit(entries, max_hops, visits[n - 1])
    IN  visits[enough].distances
-----------------------------------------------------------------------------
(* A file on disk: whether it can be read, its language, whether an        *)
(* analyzer of the language is installed and takes it, the names it        *)
(* declares as containers and those its functions refer to.                *)
_CONTAINER_KINDS == {"class", "interface", "struct", "trait", "enum"}

Shown(path, hop, tier, content, fallback) ==
    [path |-> path, hop |-> hop, tier |-> tier, content |-> content, fallback |-> fallback]

_focus_tier(path) == Shown(path, 0, "focus", "full", FALSE)

_signatures_tier(path, source) ==
    IF source.analyzer /\ source.parses THEN Shown(path, 1, "signatures", "signatures", FALSE)
    ELSE Shown(path, 1, "signatures", "full", TRUE)

_collect_referenced_type_names(source) == IF source.parses THEN source.refers ELSE {}

Containers(source) == {d.name : d \in {e \in source.declares : e.kind \in _CONTAINER_KINDS}}

(* The names of an outline that are written out in full. *)
_render_python_outline(source, referenced_names) == Containers(source) \intersect referenced_names

(* Without anything to outline, every language but Python shows the file. *)
_outline_tier(path, hop, source) ==
    IF source.language = "python"
    THEN IF source.parses THEN Shown(path, hop, "outline", "outline", FALSE)
         ELSE Shown(path, hop, "outline", "full", TRUE)
    ELSE IF source.analyzer /\ source.parses /\ Containers(source) # {}
    THEN Shown(path, hop, "outline", "outline", TRUE)
    ELSE Shown(path, hop, "outline", "full", TRUE)

(* Nearer files first; a file that cannot be read is left out. *)
render_tiered_context(disk, entries, focal_file) ==
    LET hops == compute_hop_distances(entries, focal_file, DEFAULT_MAX_HOPS)
        At(hop) == {f \in DOMAIN hops : hops[f] = hop /\ disk[f].readable}
        near == {_signatures_tier(f, disk[f]) : f \in At(1)}
        naming == {r \in near : disk[r.path].language = "python" /\ ~r.fallback}
        referenced_names == UNION {_collect_referenced_type_names(disk[r.path]) : r \in naming}
        far == {f \in At(2) : disk[f].language = "python" /\ disk[f].parses}
    IN  [files |-> {_focus_tier(f) : f \in At(0)} \union near
                      \union {_outline_tier(f, 2, disk[f]) : f \in At(2)},
         preserved_types |->
             UNION {_render_python_outline(disk[f], referenced_names) : f \in far}]
-----------------------------------------------------------------------------
(* graph.py: a symbol is resolved only to a file that declares it, and one *)
(* of another file only along an import that leads to that file.           *)
EdgesAreTrue(facts, edges) ==
    \A e \in edges :
        /\ e.file \in Paths(facts) \union {Nowhere}
        /\ e.symbol # None => Declares(facts, e.file, e.symbol)
        /\ e.symbol # None /\ e.file # e.source =>
              \E d \in edges : d.source = e.source /\ d.rel.kind = "import" /\ d.file = e.file

(* symbols.py and graph.py: the graph has facts of no file the index could *)
(* not read, and both count the same languages out.                        *)
GraphHasNoMoreThanTheIndex(files) ==
    LET graph == build_dependency_graph_with_facts(files)
        index == build_symbol_index_with_facts(files)
    IN  /\ {f.path : f \in graph.facts} \intersect index.parse_failures = {}
        /\ graph.skipped = index.skipped

(* graph.py: the order in which the files were walked does not matter. *)
WalkOrderIsIrrelevant(facts) == _resolve_all(Reverse(facts)) = _resolve_all(facts)

(* What is near a ball of files, and the balls around one file.            *)
Wider(entries, ball) ==
    ball \union (UNION {Imported(entries, f) : f \in ball})
         \union {f \in DOMAIN entries : Imported(entries, f) \intersect ball # {}}

Balls(entries, start, max_hops) ==
    LET ball[n \in 0..max_hops] == IF n = 0 THEN {start} ELSE Wider(entries, ball[n - 1])
    IN  ball

(* graph_distance.py: a file has the distance of the shortest chain of     *)
(* imports, in either direction, and is left out when that is too far.     *)
HopsAreShortest(entries, start, max_hops) ==
    LET hops == compute_hop_distances(entries, start, max_hops)
        ball == Balls(entries, start, max_hops)
    IN  /\ DOMAIN hops = ball[max_hops]
        /\ \A f \in DOMAIN hops : \A n \in 0..max_hops : f \in ball[n] <=> hops[f] <= n

(* tiered_collapse.py: the context shows every readable file around the    *)
(* focal one once, the focal file whole, and writes out a type only if a   *)
(* signature that is shown refers to it.                                   *)
ContextCoversTheNeighbourhood(disk, entries, focal) ==
    LET context == render_tiered_context(disk, entries, focal)
        hops == compute_hop_distances(entries, focal, DEFAULT_MAX_HOPS)
        signed == {r \in context.files : r.tier = "signatures" /\ r.content = "signatures"}
    IN  /\ {r.path : r \in context.files} = {f \in DOMAIN hops : disk[f].readable}
        /\ \A r \in context.files : /\ r.hop = hops[r.path]
                                    /\ r.path = focal => r.content = "full"
                                    /\ r.content = "full" => r.path = focal \/ r.fallback
        /\ context.preserved_types \subseteq UNION {disk[r.path].refers : r \in signed}
=============================================================================
