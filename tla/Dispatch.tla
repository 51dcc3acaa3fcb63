------------------------------ MODULE Dispatch ------------------------------
(***************************************************************************)
(* One dispatch: run_dispatch() of quor/engine/dispatcher.py inside the    *)
(* try/finally of quor/__main__.py.                                        *)
(*                                                                         *)
(* pc names the step that comes next.  Every step that may raise and whose *)
(* exception is turned into a warning has its failure as an alternative;   *)
(* what is not guarded ends in `raised`.  The user may edit the files of   *)
(* the configuration while the dispatch runs, or interrupt it (an         *)
(* exception no step catches).                                             *)
(*                                                                         *)
(* `decided`, `live`, `down`, `ran` and `stored` are observers: the        *)
(* configurations decisions were taken from, the plugins that were         *)
(* initialised, shut down and executed, and the text the tee keeps.        *)
(***************************************************************************)
EXTENDS Config, FilterRegistry, Plugins

CONSTANTS
    Configs,            \* the files of the configuration: records of user, dirs
    Envs,               \* environment variables
    Depth,              \* _MAX_PROJECT_CONFIG_SEARCH_DEPTH
    CapturedTexts,      \* what a command may print
    Commands,           \* records of name, pathCommand, type, path
    FilterDirs,         \* the filter files of each tier
    Builtin,            \* the plugin of quor itself
    Installed,          \* sets of packages that may be installed
    PluginLens,         \* lengths a plugin may leave a text at
    FooterLen, InstructionLen,
    MaxEdits,           \* bound on the edits of the configuration
    Nothing             \* no text, no record, no configuration read yet

Texts == [len : Nat, marks : SUBSET {"error"}, by : SUBSET
            {"filter", "plugin", "footer", "instruction", "on_empty"}]

Filters ==
    UNION {UNION {Range(file.filters) : file \in Range(FilterDirs[t])} : t \in Range(Tiers)}

(* The plugins there are to register. *)
Loadable == {Builtin} \union {s.plugin : s \in {p \in UNION Installed : p.loads}}

ASSUME DispatchAssumption ==
    /\ \A t \in CapturedTexts : t \in Texts /\ t.by = {}
    /\ RenderLens \subseteq Nat /\ PluginLens \subseteq Nat
    /\ FooterLen \in Nat /\ InstructionLen \in Nat
    /\ \A t \in Range(Tiers) :
         /\ FilterDirs[t] \in Seq(Range(FilterDirs[t]))
         /\ \A file \in Range(FilterDirs[t]) : file.filters \in Seq(Filters)
    /\ \A f \in Filters :
         f.on_empty # NoText => f.on_empty \in Texts /\ f.on_empty.by = {"on_empty"}
    /\ \A packages \in Installed : IsFiniteSet(packages)
    /\ \A p \in Loadable : p.priority \in Int
    /\ \A d \in Configs, e \in Envs : _resolve_project_overrides(d, e, Depth) # Nothing
    /\ Nothing \notin Texts
    /\ Nothing \notin [original : Texts, final : Texts, filter : Filters \union {NoFilter}]

VARIABLES
    disk, env,          \* configuration files and environment
    cmd,                \* what was dispatched
    pc,
    memo,               \* cached_user_config
    captured,           \* stdout of the command
    filter,             \* the filter found, or NoFilter
    reg, ctx,           \* the plugin registry, and plugin_ctx is not None
    todo,               \* plugins the current loop has still to visit
    payload,            \* current_output of the running category
    text,               \* the text so far
    before,             \* the text that went into the current category
    record,             \* what was recorded: original, final, filter
    stdout, exit,
    edits, decided, live, down, ran, stored, cache

config == <<disk, env, memo, decided, edits>>
plugins == <<reg, ctx, todo, payload, before, live, down, ran, cache>>
result == <<record, stdout, exit>>
vars == <<disk, env, cmd, pc, memo, captured, filter, reg, ctx, todo, payload, text,
          before, record, stdout, exit, edits, decided, live, down, ran, stored, cache>>
-----------------------------------------------------------------------------
TokensOf(t) == count_tokens(t.len)

Joined(t, n, who) == [t EXCEPT !.len = @ + n, !.by = @ \union {who}]

EffectiveConfig == _resolve_project_overrides(disk, env, Depth)

(* get_user_config(): the files are read once, unless reading them raised. *)
Memoised == IF memo # Nothing THEN memo ELSE EffectiveConfig

(* A slip: the closure forgets to keep what it read. *)
Reread == EffectiveConfig

get_user_config == Memoised

(* A use of the configuration by a step that may not go on without it. *)
ReadConfig ==
    /\ memo' = IF get_user_config = Broken THEN memo ELSE get_user_config
    /\ decided' = decided \union ({get_user_config} \ {Broken})
    /\ UNCHANGED <<disk, env, edits>>

Init ==
    /\ disk \in Configs /\ env \in Envs /\ cmd \in Commands
    /\ pc = "run" /\ memo = Nothing
    /\ captured = Nothing /\ filter = NoFilter
    /\ reg = EmptyRegistry /\ ctx = FALSE /\ todo = <<>> /\ payload = Nothing
    /\ text = Nothing /\ before = Nothing
    /\ record = Nothing /\ stdout = Nothing /\ exit = Nothing
    /\ edits = 0 /\ decided = {} /\ live = {} /\ down = {} /\ ran = {}
    /\ stored = Nothing
    /\ cache \in {[hash |-> s, specs |-> s] : s \in Installed}

(* The user edits config.toml, a .quor.toml, or removes one. *)
EditConfig ==
    /\ edits < MaxEdits /\ pc \notin {"ended", "interrupted"}
    /\ disk' \in Configs \ {disk}
    /\ edits' = edits + 1
    /\ UNCHANGED <<env, cmd, pc, memo, captured, filter, text, decided, stored, plugins, result>>
-----------------------------------------------------------------------------
(* _run_subprocess. *)
Run ==
    /\ pc = "run"
    /\ \E t \in CapturedTexts : captured' = t
    /\ \E code \in {0, 1} : exit' = code
    /\ pc' = "sweep"
    /\ UNCHANGED <<cmd, filter, text, record, stdout, stored, config, plugins>>

(* The command times out or cannot be run: run_dispatch returns at once. *)
RunFails ==
    /\ pc = "run"
    /\ \E code \in {124, 127} : exit' = code
    /\ pc' = "finally"
    /\ UNCHANGED <<cmd, captured, filter, text, record, stdout, stored, config, plugins>>

(* _cleanup_tee_safe: reads tee_max_bytes, guarded. *)
SweepTee ==
    /\ pc = "sweep" /\ pc' = "resolve"
    /\ ReadConfig
    /\ UNCHANGED <<cmd, captured, filter, text, stored, plugins, result>>

Excluded(c) == cmd.path # NoText /\ cmd.path \in c.exclude_patterns

Bypassed(c) ==
    \/ c.min_token_threshold > 0 /\ TokensOf(captured) < c.min_token_threshold
    \/ Excluded(c)

(* The bypass decision and the lookup; the lookup fails open, the          *)
(* configuration does not.                                                 *)
Resolve ==
    /\ pc = "resolve"
    /\ ReadConfig
    /\ IF get_user_config = Broken
       THEN pc' = "raised" /\ UNCHANGED filter
       ELSE /\ pc' = "register"
            /\ filter' \in {NoFilter} \union
                   (IF Bypassed(get_user_config) THEN {}
                    ELSE {_lookup_filter(all_filters(FilterDirs), cmd.type, cmd.name, NoText)})
    /\ UNCHANGED <<cmd, captured, text, stored, plugins, result>>
-----------------------------------------------------------------------------
(* _register_builtin_plugins, which may fail, and discovery, which may     *)
(* fail too: then plugin_ctx stays None.  The mode is read only when there *)
(* is a plugin to hand it to.                                              *)
SetupPlugins ==
    /\ pc = "register"
    /\ \E base \in {EmptyRegistry, register(EmptyRegistry, Builtin, "builtin")}, now \in Installed :
         LET found == discover_plugins(base, _get_ep_specs(cache, now), "user")
         IN  \/ /\ reg' = found
                /\ cache' = [hash |-> now, specs |-> _get_ep_specs(cache, now)]
                /\ IF all_plugins(found) = <<>>
                   THEN ctx' = FALSE /\ todo' = <<>> /\ UNCHANGED <<memo, decided>>
                   ELSE /\ ctx' = TRUE /\ todo' = Registered(found)
                        /\ memo' = get_user_config /\ decided' = decided \union {get_user_config}
             \/ /\ reg' = base /\ ctx' = FALSE /\ todo' = <<>>
                /\ UNCHANGED <<cache, memo, decided>>
    /\ pc' = "initialize"
    /\ UNCHANGED <<disk, env, edits, cmd, captured, filter, text, payload, before, live,
                   down, ran, stored, result>>

(* initialize_all: a plugin that raises is removed. *)
InitializePlugin ==
    /\ pc = "initialize" /\ todo # <<>>
    /\ \/ live' = live \union {Head(todo)} /\ UNCHANGED reg
       \/ reg' = unregister(reg, Head(todo)) /\ UNCHANGED live
    /\ todo' = Tail(todo)
    /\ UNCHANGED <<cmd, pc, captured, filter, text, ctx, payload, before, down, ran,
                   stored, cache, config, result>>

Enter(step, category, t) ==
    /\ pc' = step
    /\ before' = t /\ payload' = t
    /\ todo' = IF ctx THEN plugins_for_category(reg, category) ELSE <<>>

StartPreFilter ==
    /\ pc = "initialize" /\ todo = <<>>
    /\ Enter("pre", "pre_filter", captured)
    /\ UNCHANGED <<cmd, captured, filter, text, reg, ctx, live, down, ran, stored, cache,
                   config, result>>

(* _execute_plugins: a plugin that raises is passed over, one that aborts  *)
(* ends the category.                                                      *)
ExecutePlugin ==
    /\ pc \in {"pre", "post"} /\ todo # <<>>
    /\ ran' = ran \union {Head(todo)}
    /\ \/ todo' = Tail(todo) /\ UNCHANGED payload
       \/ /\ \E n \in PluginLens : payload' = [payload EXCEPT !.len = n, !.by = @ \union {"plugin"}]
          /\ todo' \in {Tail(todo), <<>>}
    /\ UNCHANGED <<cmd, pc, captured, filter, text, reg, ctx, before, live, down, stored,
                   cache, config, result>>

(* A plugin that returns no result raises outside the guard of the loop:   *)
(* the whole category is undone.                                           *)
BadResult ==
    /\ pc \in {"pre", "post"} /\ todo # <<>>
    /\ ran' = ran \union {Head(todo)}
    /\ payload' = before /\ todo' = <<>>
    /\ UNCHANGED <<cmd, pc, captured, filter, text, reg, ctx, before, live, down, stored,
                   cache, config, result>>

(* A slip: the passthrough returns before it writes. *)
AfterPreFilterReturning == IF filter = NoFilter THEN "finally" ELSE "filter"

AfterPreFilter == IF filter = NoFilter THEN "shutdown" ELSE "filter"

EndPreFilter ==
    /\ pc = "pre" /\ todo = <<>>
    /\ text' = payload
    /\ pc' = AfterPreFilter
    /\ todo' = IF filter = NoFilter /\ ctx THEN Registered(reg) ELSE <<>>
    /\ UNCHANGED <<cmd, captured, filter, reg, ctx, payload, before, live, down, ran,
                   stored, cache, config, result>>
-----------------------------------------------------------------------------
(* _apply_content_filter: fails open to the text that went in. *)
ApplyFilter ==
    /\ pc = "filter"
    /\ ReadConfig
    /\ \E t \in {text} \union apply(filter, text, get_user_config.ast_pruning_enabled) :
         /\ text' = t
         /\ Enter("post", "post_filter", t)
    /\ UNCHANGED <<cmd, captured, filter, reg, ctx, live, down, ran, stored, cache, result>>

EndPostFilter ==
    /\ pc = "post" /\ todo = <<>>
    /\ text' = payload /\ pc' = "tee"
    /\ UNCHANGED <<cmd, captured, filter, todo, reg, ctx, payload, before, live, down, ran,
                   stored, cache, config, result>>

(* _apply_tee.  The switch is off, the write fails, or the raw text is     *)
(* stored; the footer is shown when it costs no more than was saved.       *)
Footed(t) ==
    IF TokensOf(Joined(t, FooterLen, "footer")) > TokensOf(captured)
    THEN t ELSE Joined(t, FooterLen, "footer")

TeeWanted == get_user_config.tee_enabled /\ filter.tee /\ text # captured

ApplyTee ==
    /\ pc = "tee" /\ pc' = "instruct"
    /\ ReadConfig
    /\ \/ UNCHANGED <<text, stored>>
       \/ TeeWanted /\ stored' = captured /\ text' = Footed(text)
    /\ before' = text
    /\ UNCHANGED <<cmd, captured, filter, reg, ctx, todo, payload, live, down, ran, cache, result>>

(* A slip: the instruction without its price. *)
InstructedAlways(t) == Joined(t, InstructionLen, "instruction")

(* _with_concise_instruction, only on a text filters or plugins changed. *)
Instructed(t) ==
    IF TokensOf(Joined(t, InstructionLen, "instruction")) > TokensOf(captured)
    THEN t ELSE Joined(t, InstructionLen, "instruction")

AddInstruction ==
    /\ pc = "instruct" /\ pc' = "shutdown"
    /\ text' = IF before # captured THEN Instructed(text) ELSE text
    /\ todo' = IF ctx THEN Registered(reg) ELSE <<>>
    /\ UNCHANGED <<cmd, captured, filter, reg, ctx, payload, before, live, down, ran,
                   stored, cache, config, result>>

(* shutdown_all, whatever each shutdown raises. *)
ShutdownPlugin ==
    /\ pc = "shutdown" /\ todo # <<>>
    /\ down' = down \union {Head(todo)} /\ todo' = Tail(todo)
    /\ UNCHANGED <<cmd, pc, captured, filter, text, reg, ctx, payload, before, live, ran,
                   stored, cache, config, result>>

(* A slip: the record taken of the text before instruction and footer. *)
RecordOfFiltered(t) == [original |-> captured, final |-> before, filter |-> filter]

RecordOf(t) == [original |-> captured, final |-> t, filter |-> filter]

(* track_invocation: recording may fail, silently for the output. *)
Track ==
    /\ pc = "shutdown" /\ todo = <<>> /\ pc' = "write"
    /\ record' \in {RecordOf(text), Broken}
    /\ UNCHANGED <<cmd, captured, filter, text, stdout, exit, stored, config, plugins>>

(* The secret scan and the tip change nothing; the text goes out. *)
Write ==
    /\ pc = "write" /\ pc' = "finally"
    /\ stdout' = text
    /\ UNCHANGED <<cmd, captured, filter, text, record, exit, stored, config, plugins>>

(* The finally clause closes the tracking database; an exception goes on.  *)
Close ==
    /\ pc \in {"finally", "raised"}
    /\ pc' = "ended"
    /\ exit' = IF pc = "raised" THEN 1 ELSE exit
    /\ UNCHANGED <<cmd, captured, filter, text, record, stdout, stored, config, plugins>>

(* KeyboardInterrupt is no Exception: only the finally clause sees it. *)
Interrupt ==
    /\ pc \notin {"finally", "raised", "ended", "interrupted"} /\ pc' = "interrupted"
    /\ UNCHANGED <<cmd, captured, filter, text, stored, config, plugins, result>>

Finished == pc \in {"ended", "interrupted"} /\ UNCHANGED vars

Next ==
    \/ Run \/ RunFails \/ SweepTee \/ Resolve
    \/ SetupPlugins \/ InitializePlugin \/ StartPreFilter \/ ExecutePlugin \/ BadResult
    \/ EndPreFilter \/ ApplyFilter \/ EndPostFilter \/ ApplyTee \/ AddInstruction
    \/ ShutdownPlugin \/ Track \/ Write \/ Close
    \/ EditConfig \/ Interrupt \/ Finished

Spec == Init /\ [][Next]_vars
-----------------------------------------------------------------------------
Steps == {"run", "sweep", "resolve", "register", "initialize", "pre", "filter", "post", "tee",
          "instruct", "shutdown", "write", "finally", "raised", "ended", "interrupted"}

Tags == [tier : Range(_TIERS), plugin : Loadable]

(* An id is registered once in a tier. *)
Registries ==
    {r \in [Range(_TIERS) -> Seq(Loadable)] :
        \A t \in Range(_TIERS) : \A i, j \in DOMAIN r[t] : r[t][i].id = r[t][j].id => i = j}

(* Every variable has its type, and a loop over plugins only visits        *)
(* registered ones.                                                        *)
TypeOK ==
    /\ disk \in Configs /\ env \in Envs /\ cmd \in Commands /\ pc \in Steps
    /\ {captured, text, payload, before, stored, stdout} \subseteq Texts \union {Nothing}
    /\ filter \in Filters \union {NoFilter}
    /\ exit \in {Nothing, 0, 1, 124, 127}
    /\ reg \in Registries /\ ctx \in BOOLEAN
    /\ cache \in [hash : Installed, specs : Installed]
    /\ todo \in Seq(Tags) /\ Range(todo) \subseteq Range(Registered(reg))
    /\ live \subseteq Range(Registered(reg))

(* What is written is what the telemetry was told, and the raw text it is  *)
(* compared with is the command's own: no saving is reported that nobody   *)
(* received (the comment on `output` in run_dispatch).                     *)
DeliveredAsRecorded ==
    stdout # Nothing /\ record # Broken =>
        /\ record # Nothing
        /\ record.final = stdout /\ record.original = captured /\ record.filter = filter

(* Quor's own additions never make the answer dearer than the raw output:  *)
(* above its price only a plugin's work or a filter's on_empty text goes.  *)
(* The footer stands only for a text the tee keeps.                        *)
NeverCostsMore ==
    stdout # Nothing =>
        /\ TokensOf(stdout) > TokensOf(captured) => stdout.by \cap {"plugin", "on_empty"} # {}
        /\ {"footer", "instruction"} \cap stdout.by # {} => TokensOf(stdout) <= TokensOf(captured)
        /\ "footer" \in stdout.by => stored = captured

(* A dispatch that ends by itself has shut every plugin down that it       *)
(* initialised, and no plugin ran that had not been initialised.           *)
PluginsComeDown ==
    /\ ran \subseteq live /\ down \subseteq live
    /\ stdout # Nothing => down = live

(* Bypass, mode, pruning and tee of one dispatch follow one configuration, *)
(* also when the files change while it runs.                               *)
OneConfiguration == Cardinality(decided) <= 1

(* Whatever else fails, a command that ran has its output written and its  *)
(* exit code kept; only a configuration that could not be read or the      *)
(* user's interrupt keeps it back.                                         *)
FailOpen ==
    pc = "ended" /\ captured # Nothing /\ memo # Nothing =>
        stdout # Nothing /\ exit \in {0, 1}

(* run_dispatch: "Never raises — any error falls through to unfiltered     *)
(* output (fail-open)."                                                    *)
NeverRaises == pc # "raised"

(* _register_builtin_plugins: "a project/user plugin of the same           *)
(* `plugin_id` still wins".                                                *)
OnePluginPerId ==
    \A a \in ran, b \in ran : a.plugin.id = b.plugin.id => a = b

=============================================================================
