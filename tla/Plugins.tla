------------------------------ MODULE Plugins ------------------------------
(***************************************************************************)
(* quor/plugins/registry.py and the discovery of pipeline/plugin_loader.py.*)
(*                                                                         *)
(* A registry is a sequence of plugins per tier, a dictionary in insertion *)
(* order: an id that is registered again keeps its place.  A plugin is a   *)
(* record of id, category, priority, and whether it fits the protocol and  *)
(* the API version (`valid`).  An installed package is what its entry      *)
(* point loads: a plugin, or nothing (`loads` FALSE).                      *)
(***************************************************************************)
EXTENDS Integers, Sequences, FiniteSets, FiniteSetsExt, SequencesExt

_TIERS == <<"project", "user", "builtin">>

Categories == <<"pre_filter", "filter", "post_filter">>

EmptyRegistry == [t \in Range(_TIERS) |-> <<>>]

(* Where a dictionary holds an id: at one place, or nowhere. *)
At(plugins, id) == {i \in DOMAIN plugins : plugins[i].id = id}

(* register(): an invalid plugin is refused. *)
register(reg, plugin, tier) ==
    LET same == At(reg[tier], plugin.id)
    IN  IF ~plugin.valid THEN reg
        ELSE IF same # {} THEN [reg EXCEPT ![tier][Min(same)] = plugin]
        ELSE [reg EXCEPT ![tier] = Append(@, plugin)]

(* plugins_for_category: tier by tier, by priority, a stable sort, in      *)
(* which a plugin has as many before it as come before it.                 *)
Before(plugins, i, j) ==
    \/ plugins[i].priority < plugins[j].priority
    \/ plugins[i].priority = plugins[j].priority /\ i < j

InCategory(plugins, category) ==
    LET here == {i \in DOMAIN plugins : plugins[i].category = category}
        place(i) == 1 + Cardinality({j \in here : Before(plugins, j, i)})
    IN  [k \in 1 .. Cardinality(here) |-> plugins[CHOOSE i \in here : place(i) = k]]

Tagged(plugins, tier) ==
    [k \in DOMAIN plugins |-> [tier |-> tier, plugin |-> plugins[k]]]

plugins_for_category(reg, category) ==
    FlattenSeq([i \in DOMAIN _TIERS |->
        Tagged(InCategory(reg[_TIERS[i]], category), _TIERS[i])])

all_plugins(reg) ==
    FlattenSeq([i \in DOMAIN Categories |-> plugins_for_category(reg, Categories[i])])

(* Every plugin, in the order of initialize_all and shutdown_all. *)
Registered(reg) ==
    FlattenSeq([i \in DOMAIN _TIERS |-> Tagged(reg[_TIERS[i]], _TIERS[i])])

(* A slip: a plugin that failed stays registered. *)
unregister_nothing(reg, tag) == reg

unregister(reg, tag) ==
    LET same == At(reg[tag.tier], tag.plugin.id)
    IN  IF same = {} THEN reg ELSE [reg EXCEPT ![tag.tier] = RemoveAt(@, Min(same))]
-----------------------------------------------------------------------------
(* _get_ep_specs: the cached entry points are good for the package set     *)
(* they were scanned from.                                                 *)
SpecsFor(cache, installed) ==
    IF cache.hash = installed THEN cache.specs ELSE installed

_get_ep_specs(cache, installed) == SpecsFor(cache, installed)

(* discover_plugins(): an entry point that does not load is passed over. *)
discover_plugins(reg, specs, tier) ==
    FoldSet(LAMBDA spec, r : IF spec.loads THEN register(r, spec.plugin, tier) ELSE r,
            reg, specs)
=============================================================================
