--------------------------- MODULE FilterRegistry ---------------------------
(***************************************************************************)
(* quor/filters: which filter a command or a content gets, and what        *)
(* applying it does around the pipeline.                                   *)
(*                                                                         *)
(* A filter is a record of its name, the content types and the commands it *)
(* matches (`bad`: its expression is invalid or times out), its markers,   *)
(* its stages by kind and its text for an empty result.  A text is its     *)
(* length, the marks found in it and `by`: whose work is in it, which is   *)
(* what tells texts of one length apart.                                   *)
(***************************************************************************)
EXTENDS Integers, Sequences, FiniteSets, FiniteSetsExt, SequencesExt

CONSTANTS
    NoFilter,
    RenderLens,         \* lengths a pipeline may render
    NoText              \* on_empty = ""

Tiers == <<"project", "user", "builtin">>

(* The filters of a directory of files, in the order of the file names: a  *)
(* file that does not load is skipped, and so is a file of the project     *)
(* that git does not track.                                                *)
TierFilters(tier, files) ==
    FlattenSeq([i \in DOMAIN files |->
        IF files[i].loads /\ (tier = "project" => files[i].tracked)
        THEN files[i].filters ELSE <<>>])

all_filters(dirs) ==
    FlattenSeq([i \in DOMAIN Tiers |-> TierFilters(Tiers[i], dirs[Tiers[i]])])

FirstWith(filters, P) ==
    IF P = {} THEN NoFilter ELSE filters[Min(P)]

(* Content types of every tier come before the command of any. *)
find(filters, content_type, command) ==
    LET byType    == {i \in DOMAIN filters : content_type \in filters[i].types}
        byCommand == {i \in DOMAIN filters : ~filters[i].bad /\ command \in filters[i].commands}
    IN  IF byType # {} THEN FirstWith(filters, byType) ELSE FirstWith(filters, byCommand)

TooGeneric == {"cat", "generic"}

(* _lookup_filter: the path of a file first, if it names a filter more     *)
(* specific than the two that match everything.                            *)
_lookup_filter(filters, content_type, command, pathCommand) ==
    LET byPath == find(filters, "plain", pathCommand)
    IN  IF pathCommand # NoText /\ byPath # NoFilter /\ byPath.name \notin TooGeneric
        THEN byPath ELSE find(filters, content_type, command)
-----------------------------------------------------------------------------
count_tokens(n) == (n + 3) \div 4

Aborts(f, content) ==
    \/ f.abort_unless # {} /\ f.abort_unless \cap content.marks = {}
    \/ f.abort_if \cap content.marks # {}

(* _run_pipeline: stages that do not build are skipped, and those over the *)
(* syntax tree when they are switched off.                                 *)
StagesRun(f, ast) ==
    {k \in f.stages : k # "invalid" /\ (k = "ast" => ast)}

(* What the pipeline may render; with no stage left, what went in. *)
Renders(f, content, ast) ==
    {content} \union
    (IF StagesRun(f, ast) = {} THEN {}
     ELSE {[len |-> n, marks |-> content.marks, by |-> content.by \union {"filter"}] :
             n \in RenderLens})

(* The never-expand safeguard of apply(): tokens are an estimate, so a tie *)
(* is broken by the length.                                                *)
Guarded(content, rendered) ==
    IF \/ count_tokens(rendered.len) > count_tokens(content.len)
       \/ /\ count_tokens(rendered.len) = count_tokens(content.len)
          /\ rendered.len >= content.len
    THEN content ELSE rendered

(* apply(); an empty render is answered before the guard looks at it. *)
apply(f, content, ast) ==
    IF Aborts(f, content) THEN {content}
    ELSE {IF r.len = 0 /\ f.on_empty # NoText THEN f.on_empty ELSE Guarded(content, r) :
            r \in Renders(f, content, ast)}
=============================================================================
