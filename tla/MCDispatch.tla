----------------------------- MODULE MCDispatch -----------------------------
(* Small instances of Dispatch: a filter of the project, one of the user   *)
(* that cannot be matched and the catch-all; one package with a plugin of  *)
(* its own, one with the id of the built-in plugin.                        *)
EXTENDS Dispatch

Raw(n, marks) == [len |-> n, marks |-> marks, by |-> {}]

MCConfigs ==
    {[user |-> Absent, dirs |-> <<Absent, Absent>>],
     [user |-> [mode |-> "simulate", min_token_threshold |-> 2],
      dirs |-> <<Absent, [min_token_threshold |-> 0, ast_pruning_enabled |-> FALSE]>>],
     [user |-> [tee_enabled |-> FALSE], dirs |-> <<[exclude_patterns |-> {"a.py"}], Broken>>],
     [user |-> [min_token_threshold |-> 2], dirs |-> <<Broken, Absent>>],
     [user |-> Broken, dirs |-> <<Absent, Absent>>]}

MCEnvs == {[mode |-> Absent, tee |-> Absent], [mode |-> "audit", tee |-> TRUE]}

MCCaptured == {Raw(0, {}), Raw(5, {}), Raw(20, {"error"})}

MCCommands ==
    {[name |-> "git diff", type |-> "plain", path |-> NoText],
     [name |-> "cat a.py", type |-> "plain", path |-> "a.py"]}

Filter(name, commands, bad, stages, tee, on_empty) ==
    [name |-> name, types |-> {}, commands |-> commands, bad |-> bad,
     abort_unless |-> {}, abort_if |-> {"error"} \ (IF tee THEN {"error"} ELSE {}),
     stages |-> stages, tee |-> tee, on_empty |-> on_empty]

File(filters, loads, tracked) == [filters |-> filters, loads |-> loads, tracked |-> tracked]

OnEmpty == [len |-> 6, marks |-> {}, by |-> {"on_empty"}]

MCFilterDirs ==
    [project |-> <<File(<<Filter("git", {"git diff"}, FALSE, {"plain"}, FALSE, NoText)>>, TRUE, FALSE),
                   File(<<Filter("cat-python", {"cat a.py"}, FALSE, {"ast", "invalid"}, TRUE, NoText)>>,
                        TRUE, TRUE)>>,
     user    |-> <<File(<<Filter("user-git", {"git diff"}, TRUE, {"plain"}, TRUE, NoText)>>, TRUE, FALSE)>>,
     builtin |-> <<File(<<Filter("generic", {"git diff", "cat a.py"}, FALSE, {"plain"}, TRUE, OnEmpty)>>,
                        TRUE, FALSE)>>]

Plugin(id, category, priority) ==
    [id |-> id, category |-> category, priority |-> priority, valid |-> TRUE]

MCBuiltin == Plugin("git-structural-diff", "pre_filter", 50)

Package(plugin) == [loads |-> TRUE, plugin |-> plugin]

MCInstalled ==
    {{}, {Package(Plugin("own", "post_filter", 100))},
     {Package(Plugin("own", "post_filter", 100)),
      Package(Plugin("git-structural-diff", "pre_filter", 10)),
      [loads |-> FALSE, plugin |-> MCBuiltin]}}
=============================================================================
