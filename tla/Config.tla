------------------------------- MODULE Config -------------------------------
(***************************************************************************)
(* quor/config: the user's config.toml with the environment variables over *)
(* it, the nearest .quor.toml above a directory, and the merge of the two. *)
(*                                                                         *)
(* A file is Absent, Broken (not readable, not TOML, or refused by the     *)
(* schema: all of them raise) or the fields it sets.                       *)
(***************************************************************************)
EXTENDS Integers, Sequences, FiniteSets, FiniteSetsExt, TLC

CONSTANTS Absent, Broken

VALID_MODES == {"audit", "optimize", "simulate"}

QuorUserConfig ==
    [mode |-> "audit", tee_enabled |-> TRUE, min_token_threshold |-> 0,
     ast_pruning_enabled |-> TRUE, exclude_patterns |-> {}]

Overridable == {"min_token_threshold", "ast_pruning_enabled", "exclude_patterns"}

(* QUOR_MODE and QUOR_TEE_ENABLED: values outside the known ones are       *)
(* ignored.                                                                *)
WithEnvironment(config, env) ==
    [config EXCEPT !.mode = IF env.mode \in VALID_MODES THEN env.mode ELSE @,
                   !.tee_enabled = IF env.tee \in BOOLEAN THEN env.tee ELSE @]

(* Broken stands for the exception that is raised. *)
load_user_config(file, env) ==
    IF file = Broken THEN Broken
    ELSE WithEnvironment(IF file = Absent THEN QuorUserConfig ELSE file @@ QuorUserConfig, env)

(* `dirs` are the .quor.toml of the start directory and its parents,       *)
(* nearest first; the walk looks at `depth` of them.                       *)
find_and_load_project_config(dirs, depth) ==
    LET found == {i \in DOMAIN dirs : i <= depth /\ dirs[i] # Absent}
    IN  IF found = {} THEN Absent ELSE dirs[Min(found)]

(* What a .quor.toml sets: a field of None, and an empty list of patterns, *)
(* are the same as no mention.                                             *)
Overrides(project) ==
    {f \in Overridable \cap DOMAIN project :
        f = "exclude_patterns" => project[f] # {}}

resolve_effective_config(global, project) ==
    IF project = Absent THEN global
    ELSE [f \in DOMAIN global |-> IF f \in Overrides(project) THEN project[f] ELSE global[f]]

(* The dispatcher's own resolution: the fallback of a failed one reads the *)
(* user's file again, and that may raise once more.                        *)
_resolve_project_overrides(disk, env, depth) ==
    LET project == find_and_load_project_config(disk.dirs, depth)
        global  == load_user_config(disk.user, env)
    IN  IF project = Broken \/ global = Broken THEN load_user_config(disk.user, env)
        ELSE resolve_effective_config(global, project)
=============================================================================
