--------------------------- MODULE DispatchProofs ---------------------------
(***************************************************************************)
(* The safety of one dispatch, for every configuration, filter, set of     *)
(* installed packages and captured text.  First what the operators of the  *)
(* registries return, then the inductive invariant, then the theorems.     *)
(***************************************************************************)
EXTENDS Dispatch, OperatorTheorems, TLAPS

(* A text of no more characters costs no more tokens.                      *)
LEMMA TokensAreMonotonic ==
    ASSUME NEW a \in Texts, NEW b \in Texts
    PROVE  /\ TokensOf(a) \in Nat
           /\ a.len <= b.len => TokensOf(a) <= TokensOf(b)
BY DEF TokensOf, count_tokens, Texts

(* The tiers of the plugins.                                               *)
LEMMA PluginTiers ==
    /\ Range(_TIERS) = {"project", "user", "builtin"} /\ DOMAIN _TIERS = 1 .. 3
    /\ _TIERS[1] = "project" /\ _TIERS[2] = "user" /\ _TIERS[3] = "builtin"
BY DEF _TIERS, Range
-----------------------------------------------------------------------------
(* What a lookup finds is one of the filters, or none.                     *)
LEMMA LookupFinds ==
    ASSUME NEW filters \in Seq(Filters), NEW type, NEW command, NEW path
    PROVE  _lookup_filter(filters, type, command, path) \in Filters \union {NoFilter}
<1>1. ASSUME NEW P \in SUBSET DOMAIN filters
      PROVE  FirstWith(filters, P) \in Filters \union {NoFilter}
  <2>1. P \in SUBSET Nat /\ \A i \in P : filters[i] \in Filters
    BY DEF Filters
  <2>2. P # {} => Min(P) \in P
    BY <2>1, MinIsLeast
  <2> QED BY <2>1, <2>2 DEF FirstWith
<1>2. \A t, c : find(filters, t, c) \in Filters \union {NoFilter}
  BY <1>1 DEF find
<1> QED BY <1>2 DEF _lookup_filter

(* The registry of the filters is a sequence of the files' filters.        *)
LEMMA FiltersAreListed == all_filters(FilterDirs) \in Seq(Filters)
<1>1. ASSUME NEW t \in Range(Tiers)
      PROVE  TierFilters(t, FilterDirs[t]) \in Seq(Filters)
  <2> DEFINE files == FilterDirs[t]
             part == [i \in DOMAIN files |->
                        IF files[i].loads /\ (t = "project" => files[i].tracked)
                        THEN files[i].filters ELSE <<>>]
  <2>1. files \in Seq(Range(files)) /\ \A i \in DOMAIN files : files[i].filters \in Seq(Filters)
    <3>1. files \in Seq(Range(files)) /\ \A file \in Range(files) : file.filters \in Seq(Filters)
      BY DispatchAssumption
    <3>2. \A i \in DOMAIN files : files[i] \in Range(files)
      BY DEF Range
    <3> QED BY <3>1, <3>2
  <2>2. <<>> \in Seq(Filters)
    OBVIOUS
  <2>3. Len(files) \in Nat /\ DOMAIN files = 1 .. Len(files)
    BY <2>1
  <2>4. \A i \in DOMAIN part : part[i] \in Seq(Filters)
    BY <2>1, <2>2
  <2>5. part \in [1 .. Len(files) -> Seq(Filters)]
    BY <2>3, <2>4
  <2>6. TierFilters(t, files) = FlattenSeq(part)
    BY DEF TierFilters
  <2> HIDE DEF files, part
  <2>7. part \in Seq(Seq(Filters))
    BY <2>3, <2>5
  <2>8. FlattenSeq(part) \in Seq(Filters)
    BY <2>7, FlattenPlaces
  <2> QED BY <2>6, <2>8 DEF files
<1> DEFINE all == [i \in DOMAIN Tiers |-> TierFilters(Tiers[i], FilterDirs[Tiers[i]])]
<1>2. DOMAIN Tiers = 1 .. 3 /\ \A i \in DOMAIN Tiers : Tiers[i] \in Range(Tiers)
  BY DEF Tiers, Range
<1>3. all \in [1 .. 3 -> Seq(Filters)]
  BY <1>1, <1>2
<1>4. all_filters(FilterDirs) = FlattenSeq(all)
  BY DEF all_filters
<1> HIDE DEF all
<1>5. all \in Seq(Seq(Filters))
  <2>1. PICK n \in Nat : n = 3
    OBVIOUS
  <2>2. all \in [1 .. n -> Seq(Filters)]
    BY <1>3, <2>1
  <2> QED BY <2>2
<1> QED BY <1>4, <1>5, FlattenPlaces

(* Applying a filter costs no token more than what went in, unless it      *)
(* answers with its text for an empty result.                              *)
LEMMA ApplyIsCheap ==
    ASSUME NEW f \in Filters, NEW content \in Texts, NEW ast, NEW t \in apply(f, content, ast)
    PROVE  /\ t \in Texts
           /\ \/ t = content
              \/ t.by = {"on_empty"}
              \/ t.by = content.by \union {"filter"} /\ TokensOf(t) <= TokensOf(content)
<1>1. CASE Aborts(f, content)
  BY <1>1 DEF apply
<1>2. CASE ~Aborts(f, content)
  <2>1. PICK r \in Renders(f, content, ast) :
          t = IF r.len = 0 /\ f.on_empty # NoText THEN f.on_empty ELSE Guarded(content, r)
    BY <1>2 DEF apply
  <2>2. r = content \/ (r \in Texts /\ r.by = content.by \union {"filter"})
    BY DispatchAssumption DEF Renders, Texts
  <2>3. CASE r.len = 0 /\ f.on_empty # NoText
    BY <2>1, <2>3, DispatchAssumption
  <2>4. CASE ~(r.len = 0 /\ f.on_empty # NoText)
    <3>1. t = content \/ (t = r /\ ~(TokensOf(r) > TokensOf(content)))
      BY <2>1, <2>4 DEF Guarded, TokensOf
    <3>2. r \in Texts => TokensOf(r) \in Nat /\ TokensOf(content) \in Nat
      BY TokensAreMonotonic
    <3> QED BY <2>2, <3>1, <3>2
  <2> QED BY <2>3, <2>4
<1> QED BY <1>1, <1>2
-----------------------------------------------------------------------------
(* The plugins of a registry, with their tiers.                            *)
TagsIn(r) ==
    {tag \in Tags : \E i \in DOMAIN r[tag.tier] : r[tag.tier][i] = tag.plugin}

(* The plugins of a tier, tagged.                                          *)
LEMMA TaggedIs ==
    ASSUME NEW s \in Seq(Loadable), NEW t \in Range(_TIERS)
    PROVE  /\ Tagged(s, t) \in Seq(Tags) /\ Len(Tagged(s, t)) = Len(s)
           /\ \A k \in 1 .. Len(s) : Tagged(s, t)[k] = [tier |-> t, plugin |-> s[k]]
<1>1. Len(s) \in Nat /\ DOMAIN s = 1 .. Len(s) /\ \A k \in 1 .. Len(s) : s[k] \in Loadable
  OBVIOUS
<1>2. Tagged(s, t) \in [1 .. Len(s) -> Tags]
  BY <1>1 DEF Tagged, Tags
<1>3. Tagged(s, t) \in Seq(Tags) /\ DOMAIN Tagged(s, t) = 1 .. Len(s)
  BY <1>1, <1>2
<1>4. Len(Tagged(s, t)) = Len(s)
  BY <1>1, <1>3
<1> QED BY <1>1, <1>3, <1>4 DEF Tagged

(* Joining the tagged plugins of the three tiers.                          *)
LEMMA ThreeTiers ==
    ASSUME NEW s \in [Range(_TIERS) -> Seq(Loadable)],
           NEW ss, ss = [i \in DOMAIN _TIERS |-> Tagged(s[_TIERS[i]], _TIERS[i])]
    PROVE  /\ FlattenSeq(ss) \in Seq(Tags)
           /\ Range(FlattenSeq(ss)) = TagsIn(s)
           /\ (\A t \in Range(_TIERS) : IsInjective(s[t])) => IsInjective(FlattenSeq(ss))
<1> DEFINE p == s["project"]
           u == s["user"]
           b == s["builtin"]
           tp == Tagged(p, "project")
           tu == Tagged(u, "user")
           tb == Tagged(b, "builtin")
<1>1. ss = [i \in 1 .. 3 |-> ss[i]] /\ ss[1] = tp /\ ss[2] = tu /\ ss[3] = tb
  BY PluginTiers
<1>2. FlattenSeq(ss) = (tp \o tu) \o tb
  BY <1>1, FlattenThree
<1>3. p \in Seq(Loadable) /\ u \in Seq(Loadable) /\ b \in Seq(Loadable)
  BY PluginTiers
<1>4. p = s["project"] /\ u = s["user"] /\ b = s["builtin"]
  OBVIOUS
<1> HIDE DEF p, u, b
<1> DEFINE n == Len(p)
           k2 == Len(u)
           k3 == Len(b)
           m == n + k2
           l == m + k3
           all == (tp \o tu) \o tb
<1>5. /\ n \in Nat /\ k2 \in Nat /\ k3 \in Nat /\ m = n + k2 /\ l = m + k3 /\ m \in Nat /\ l \in Nat
      /\ DOMAIN p = 1 .. n /\ DOMAIN u = 1 .. k2 /\ DOMAIN b = 1 .. k3
  BY <1>3
<1>6. /\ tp \in Seq(Tags) /\ Len(tp) = n
      /\ \A k \in 1 .. n : tp[k] = [tier |-> "project", plugin |-> p[k]]
  BY <1>3, PluginTiers, TaggedIs
<1>7. /\ tu \in Seq(Tags) /\ Len(tu) = k2
      /\ \A k \in 1 .. k2 : tu[k] = [tier |-> "user", plugin |-> u[k]]
  BY <1>3, PluginTiers, TaggedIs
<1>8. /\ tb \in Seq(Tags) /\ Len(tb) = k3
      /\ \A k \in 1 .. k3 : tb[k] = [tier |-> "builtin", plugin |-> b[k]]
  BY <1>3, PluginTiers, TaggedIs
<1> HIDE DEF tp, tu, tb, n, k2, k3, m, l
<1>9. /\ tp \o tu \in Seq(Tags) /\ Len(tp \o tu) = m
      /\ \A k \in 1 .. m : (tp \o tu)[k] = IF k <= n THEN tp[k] ELSE tu[k - n]
  <2>1. /\ tp \o tu \in Seq(Tags) /\ Len(tp \o tu) = Len(tp) + Len(tu)
        /\ \A k \in 1 .. Len(tp) + Len(tu) :
             (tp \o tu)[k] = IF k <= Len(tp) THEN tp[k] ELSE tu[k - Len(tp)]
    BY <1>6, <1>7, ConcatProperties
  <2>2. Len(tp) = n /\ Len(tp) + Len(tu) = m
    BY <1>5, <1>6, <1>7
  <2> QED BY <2>1, <2>2
<1>10. /\ all \in Seq(Tags) /\ DOMAIN all = 1 .. l
       /\ \A k \in 1 .. l : all[k] = IF k <= m THEN (tp \o tu)[k] ELSE tb[k - m]
  <2> DEFINE ab == tp \o tu
  <2>1. ab \in Seq(Tags) /\ Len(ab) = m /\ all = ab \o tb
    BY <1>9
  <2> HIDE DEF ab
  <2>2. /\ ab \o tb \in Seq(Tags) /\ Len(ab \o tb) = Len(ab) + Len(tb)
        /\ \A k \in 1 .. Len(ab) + Len(tb) :
             (ab \o tb)[k] = IF k <= Len(ab) THEN ab[k] ELSE tb[k - Len(ab)]
    BY <1>8, <2>1, ConcatProperties
  <2>3. Len(ab) = m /\ Len(ab) + Len(tb) = l
    BY <1>5, <1>8, <2>1
  <2>4. DOMAIN (ab \o tb) = 1 .. l
    BY <2>2, <2>3
  <2> QED BY <2>2, <2>3, <2>4 DEF ab
<1> HIDE DEF all
<1>11. \A k \in 1 .. n : k \in 1 .. l /\ all[k] = [tier |-> "project", plugin |-> p[k]]
  <2> TAKE k \in 1 .. n
  <2>1. k \in 1 .. l /\ k \in 1 .. m /\ k <= m /\ k <= n
    BY <1>5
  <2> QED BY <1>6, <1>9, <1>10, <2>1
<1>12. \A k \in 1 .. k2 : n + k \in 1 .. l /\ all[n + k] = [tier |-> "user", plugin |-> u[k]]
  <2> TAKE k \in 1 .. k2
  <2>1. n + k \in 1 .. l /\ n + k \in 1 .. m /\ n + k <= m /\ ~(n + k <= n) /\ (n + k) - n = k
    BY <1>5
  <2> QED BY <1>7, <1>9, <1>10, <2>1
<1>13. \A k \in 1 .. k3 : m + k \in 1 .. l /\ all[m + k] = [tier |-> "builtin", plugin |-> b[k]]
  <2> TAKE k \in 1 .. k3
  <2>1. m + k \in 1 .. l /\ ~(m + k <= m) /\ (m + k) - m = k
    BY <1>5
  <2> QED BY <1>8, <1>10, <2>1
<1>20. \A k \in 1 .. l :
         \/ k \in 1 .. n /\ all[k] = [tier |-> "project", plugin |-> p[k]]
         \/ k - n \in 1 .. k2 /\ all[k] = [tier |-> "user", plugin |-> u[k - n]]
         \/ k - m \in 1 .. k3 /\ all[k] = [tier |-> "builtin", plugin |-> b[k - m]]
  <2> TAKE k \in 1 .. l
  <2>1. CASE k <= n
    <3>1. k \in 1 .. n
      BY <1>5, <2>1
    <3> QED BY <1>11, <3>1
  <2>2. CASE ~(k <= n) /\ k <= m
    <3>1. k - n \in 1 .. k2 /\ n + (k - n) = k
      BY <1>5, <2>2
    <3> QED BY <1>12, <3>1
  <2>3. CASE ~(k <= m)
    <3>1. k - m \in 1 .. k3 /\ m + (k - m) = k
      BY <1>5, <2>3
    <3> QED BY <1>13, <3>1
  <2> QED BY <2>1, <2>2, <2>3
<1>21. \A k \in 1 .. l :
         \/ k \in 1 .. n /\ all[k].tier = "project" /\ all[k].plugin = p[k]
         \/ k - n \in 1 .. k2 /\ all[k].tier = "user" /\ all[k].plugin = u[k - n]
         \/ k - m \in 1 .. k3 /\ all[k].tier = "builtin" /\ all[k].plugin = b[k - m]
  <2> TAKE k \in 1 .. l
  <2>1. CASE k \in 1 .. n /\ all[k] = [tier |-> "project", plugin |-> p[k]]
    BY <2>1
  <2>2. CASE k - n \in 1 .. k2 /\ all[k] = [tier |-> "user", plugin |-> u[k - n]]
    BY <2>2
  <2>3. CASE k - m \in 1 .. k3 /\ all[k] = [tier |-> "builtin", plugin |-> b[k - m]]
    BY <2>3
  <2> QED BY <1>20, <2>1, <2>2, <2>3
<1>14. Range(all) = TagsIn(s)
  <2>1. ASSUME NEW k \in 1 .. l PROVE all[k] \in TagsIn(s)
    <3>1. all[k] \in Tags
      BY <1>5, <1>10
    <3>2. \E i \in DOMAIN s[all[k].tier] : s[all[k].tier][i] = all[k].plugin
      <4>1. CASE k \in 1 .. n /\ all[k].tier = "project" /\ all[k].plugin = p[k]
        BY <1>4, <1>5, <4>1
      <4>2. CASE k - n \in 1 .. k2 /\ all[k].tier = "user" /\ all[k].plugin = u[k - n]
        BY <1>4, <1>5, <4>2
      <4>3. CASE k - m \in 1 .. k3 /\ all[k].tier = "builtin" /\ all[k].plugin = b[k - m]
        BY <1>4, <1>5, <4>3
      <4> QED BY <1>21, <4>1, <4>2, <4>3
    <3> QED BY <3>1, <3>2 DEF TagsIn
  <2>2. ASSUME NEW tag \in TagsIn(s) PROVE \E k \in 1 .. l : all[k] = tag
    <3>1. tag = [tier |-> tag.tier, plugin |-> tag.plugin] /\ tag.tier \in {"project", "user", "builtin"}
      BY PluginTiers DEF TagsIn, Tags
    <3>2. PICK i \in DOMAIN s[tag.tier] : s[tag.tier][i] = tag.plugin
      BY DEF TagsIn
    <3>3. CASE tag.tier = "project"
      BY <1>4, <1>5, <1>11, <3>1, <3>2, <3>3
    <3>4. CASE tag.tier = "user"
      BY <1>4, <1>5, <1>12, <3>1, <3>2, <3>4
    <3>5. CASE tag.tier = "builtin"
      <4>1. PICK k \in 1 .. k3 : b[k] = tag.plugin
        BY <1>4, <1>5, <3>2, <3>5
      <4> QED BY <1>13, <3>1, <3>5, <4>1
    <3> QED BY <3>1, <3>3, <3>4, <3>5
  <2> QED BY <1>10, <2>1, <2>2 DEF Range
<1>15. ASSUME \A t \in Range(_TIERS) : IsInjective(s[t]) PROVE IsInjective(all)
  <2>2. /\ \A i, j \in 1 .. n : p[i] = p[j] => i = j
        /\ \A i, j \in 1 .. k2 : u[i] = u[j] => i = j
        /\ \A i, j \in 1 .. k3 : b[i] = b[j] => i = j
    BY <1>4, <1>5, <1>15, PluginTiers DEF IsInjective
  <2>3. ASSUME NEW i \in 1 .. l, NEW j \in 1 .. l, all[i] = all[j] PROVE i = j
    <3>1. all[i].tier = all[j].tier /\ all[i].plugin = all[j].plugin
      BY <2>3
    <3>2. CASE i \in 1 .. n /\ all[i].tier = "project" /\ all[i].plugin = p[i]
      <4>1. j \in 1 .. n /\ all[j].tier = "project" /\ all[j].plugin = p[j]
        BY <1>21, <3>1, <3>2
      <4> QED BY <2>2, <3>1, <3>2, <4>1
    <3>3. CASE i - n \in 1 .. k2 /\ all[i].tier = "user" /\ all[i].plugin = u[i - n]
      <4>1. j - n \in 1 .. k2 /\ all[j].tier = "user" /\ all[j].plugin = u[j - n]
        BY <1>21, <3>1, <3>3
      <4>2. i - n = j - n
        BY <2>2, <3>1, <3>3, <4>1
      <4> QED BY <1>5, <4>2
    <3>4. CASE i - m \in 1 .. k3 /\ all[i].tier = "builtin" /\ all[i].plugin = b[i - m]
      <4>1. j - m \in 1 .. k3 /\ all[j].tier = "builtin" /\ all[j].plugin = b[j - m]
        BY <1>21, <3>1, <3>4
      <4>2. i - m = j - m
        BY <2>2, <3>1, <3>4, <4>1
      <4> QED BY <1>5, <4>2
    <3> QED BY <1>21, <3>2, <3>3, <3>4
  <2> QED BY <1>10, <2>3 DEF IsInjective
<1> QED BY <1>2, <1>10, <1>14, <1>15 DEF all

(* Every plugin of a registry is visited, and none twice.                  *)
LEMMA RegisteredOnce ==
    ASSUME NEW r \in Registries
    PROVE  /\ Registered(r) \in Seq(Tags) /\ Range(Registered(r)) = TagsIn(r)
           /\ IsInjective(Registered(r))
<1> DEFINE ss == [i \in DOMAIN _TIERS |-> Tagged(r[_TIERS[i]], _TIERS[i])]
<1>1. r \in [Range(_TIERS) -> Seq(Loadable)] /\ \A t \in Range(_TIERS) : IsInjective(r[t])
  BY DEF Registries, IsInjective
<1>2. Registered(r) = FlattenSeq(ss)
  BY DEF Registered
<1> QED BY <1>1, <1>2, ThreeTiers

(* The plugins of a category are plugins of the tier.                      *)
LEMMA CategoryMembers ==
    ASSUME NEW s \in Seq(Loadable), NEW category
    PROVE  /\ InCategory(s, category) \in Seq(Loadable)
           /\ \A k \in DOMAIN InCategory(s, category) :
                \E i \in DOMAIN s : InCategory(s, category)[k] = s[i]
<1> DEFINE here == {i \in DOMAIN s : s[i].category = category}
           r == {e \in here \X here : Before(s, e[1], e[2])}
           n == Cardinality(here)
<1>1. here \in SUBSET (1 .. Len(s)) /\ Len(s) \in Nat /\ \A i \in here : s[i] \in Loadable
  OBVIOUS
<1>2. IsFiniteSet(here) /\ n \in Nat
  <2>1. IsFiniteSet(1 .. Len(s))
    BY <1>1, FS_Interval
  <2>2. IsFiniteSet(here)
    BY <1>1, <2>1, FS_Subset
  <2> HIDE DEF here
  <2> QED BY <2>2, FS_CardinalityType
<1>3. \A i \in here : Ahead(here, r, i) = {j \in here : Before(s, j, i)}
  BY DEF Ahead
<1>4. ASSUME NEW i \in here, NEW j \in here
      PROVE  /\ s[i].priority \in Int /\ s[j].priority \in Int /\ i \in Nat /\ j \in Nat
             /\ <<i, j>> \in r <=> Before(s, i, j)
  BY <1>1, DispatchAssumption
<1> HIDE DEF r, here
<1>5. \A i \in here : <<i, i>> \notin r
  BY <1>4 DEF Before
<1>6. \A i, j \in here : i = j \/ <<i, j>> \in r \/ <<j, i>> \in r
  <2> SUFFICES ASSUME NEW i \in here, NEW j \in here
               PROVE  i = j \/ Before(s, i, j) \/ Before(s, j, i)
    BY <1>4
  <2>1. s[i].priority \in Int /\ s[j].priority \in Int /\ i \in Nat /\ j \in Nat
    BY <1>4
  <2> QED BY <2>1 DEF Before
<1>7. \A i, j, k \in here : <<i, j>> \in r /\ <<j, k>> \in r => <<i, k>> \in r
  <2> SUFFICES ASSUME NEW i \in here, NEW j \in here, NEW k \in here,
                      Before(s, i, j), Before(s, j, k)
               PROVE  Before(s, i, k)
    BY <1>4
  <2>1. /\ s[i].priority \in Int /\ s[j].priority \in Int /\ s[k].priority \in Int
        /\ i \in Nat /\ j \in Nat /\ k \in Nat
    BY <1>4
  <2> QED BY <2>1 DEF Before
<1> DEFINE place(i) == 1 + Cardinality({j \in here : Before(s, j, i)})
           at(k) == CHOOSE i \in here : place(i) = k
<1>8. ASSUME NEW k \in 1 .. n PROVE at(k) \in here
  <2>1. \E i \in here : 1 + Cardinality(Ahead(here, r, i)) = k
    BY <1>2, <1>5, <1>6, <1>7, EveryPlaceIsTaken
  <2>2. \E i \in here : place(i) = k
    BY <1>3, <2>1
  <2> HIDE DEF place
  <2> QED BY <2>2
<1>9. InCategory(s, category) = [k \in 1 .. n |-> s[at(k)]]
  BY DEF InCategory, here
<1> HIDE DEF at
<1>10. InCategory(s, category) \in [1 .. n -> Loadable]
  BY <1>1, <1>8, <1>9
<1>11. InCategory(s, category) \in Seq(Loadable)
  BY <1>2, <1>10
<1>12. \A k \in 1 .. n : at(k) \in DOMAIN s
  BY <1>8 DEF here
<1> QED BY <1>9, <1>11, <1>12

(* The plugins that run in a category are registered ones.                 *)
LEMMA CategoryIsRegistered ==
    ASSUME NEW r \in Registries, NEW category
    PROVE  /\ plugins_for_category(r, category) \in Seq(Tags)
           /\ Range(plugins_for_category(r, category)) \subseteq Range(Registered(r))
<1> DEFINE s == [t \in Range(_TIERS) |-> InCategory(r[t], category)]
           ss == [i \in DOMAIN _TIERS |-> Tagged(s[_TIERS[i]], _TIERS[i])]
<1>1. r \in [Range(_TIERS) -> Seq(Loadable)]
  BY DEF Registries
<1>2. s \in [Range(_TIERS) -> Seq(Loadable)]
  BY <1>1, CategoryMembers
<1>3. plugins_for_category(r, category) = FlattenSeq(ss)
  BY PluginTiers DEF plugins_for_category
<1>4. TagsIn(s) \subseteq TagsIn(r)
  <2> SUFFICES ASSUME NEW tag \in TagsIn(s) PROVE tag \in TagsIn(r)
    OBVIOUS
  <2>1. tag \in Tags /\ tag.tier \in Range(_TIERS)
    BY DEF TagsIn, Tags
  <2>2. PICK k \in DOMAIN s[tag.tier] : s[tag.tier][k] = tag.plugin
    BY DEF TagsIn
  <2>3. \E i \in DOMAIN r[tag.tier] : r[tag.tier][i] = tag.plugin
    BY <1>1, <2>1, <2>2, CategoryMembers
  <2> QED BY <2>1, <2>3 DEF TagsIn
<1>5. FlattenSeq(ss) \in Seq(Tags) /\ Range(FlattenSeq(ss)) = TagsIn(s)
  BY <1>2, ThreeTiers
<1> QED BY <1>3, <1>4, <1>5, RegisteredOnce

(* Where a tier holds an id.                                               *)
LEMMA AtIsAPlace ==
    ASSUME NEW s \in Seq(Loadable), NEW id, At(s, id) # {}
    PROVE  Min(At(s, id)) \in DOMAIN s /\ s[Min(At(s, id))].id = id
<1>1. At(s, id) \in SUBSET Nat
  BY DEF At
<1> QED BY <1>1, MinIsLeast DEF At

(* A registration leaves one plugin for each id of a tier.                 *)
LEMMA RegisterStays ==
    ASSUME NEW r \in Registries, NEW plugin \in Loadable, NEW tier \in Range(_TIERS)
    PROVE  register(r, plugin, tier) \in Registries
<1> DEFINE s == r[tier]
           same == At(s, plugin.id)
           n == Len(s)
<1>1. r \in [Range(_TIERS) -> Seq(Loadable)] /\ s \in Seq(Loadable)
  BY DEF Registries
<1>2. n \in Nat /\ DOMAIN s = 1 .. n /\ \A i \in 1 .. n : s[i] \in Loadable
  BY <1>1
<1>3. \A i, j \in 1 .. n : s[i].id = s[j].id => i = j
  BY <1>2 DEF Registries
<1>4. ASSUME NEW q \in Seq(Loadable), \A i, j \in DOMAIN q : q[i].id = q[j].id => i = j
      PROVE  [r EXCEPT ![tier] = q] \in Registries
  BY <1>1, <1>4 DEF Registries
<1>5. CASE plugin.valid /\ same # {}
  <2> DEFINE q == [s EXCEPT ![Min(same)] = plugin]
  <2>1. Min(same) \in 1 .. n /\ s[Min(same)].id = plugin.id
    BY <1>1, <1>2, <1>5, AtIsAPlace
  <2>2. q \in [1 .. n -> Loadable]
    BY <1>1, <1>2, <2>1
  <2>3. q \in Seq(Loadable) /\ DOMAIN q = 1 .. n
    BY <1>2, <2>2
  <2>4. \A i \in 1 .. n : q[i].id = s[i].id
    BY <1>1, <1>2, <2>1
  <2>5. register(r, plugin, tier) = [r EXCEPT ![tier] = q]
    BY <1>5 DEF register
  <2> HIDE DEF q
  <2>6. [r EXCEPT ![tier] = q] \in Registries
    BY <1>3, <1>4, <2>3, <2>4
  <2> QED BY <2>5, <2>6
<1>6. CASE plugin.valid /\ same = {}
  <2> DEFINE q == Append(s, plugin)
  <2>1. /\ q \in Seq(Loadable) /\ DOMAIN q = 1 .. n + 1
        /\ \A i \in 1 .. n : q[i] = s[i]
        /\ q[n + 1] = plugin
    BY <1>1, <1>2, AppendProperties
  <2>2. \A i \in 1 .. n : s[i].id # plugin.id
    BY <1>2, <1>6 DEF At
  <2>3. register(r, plugin, tier) = [r EXCEPT ![tier] = q]
    BY <1>1, <1>6 DEF register
  <2> HIDE DEF q
  <2>4. \A i \in DOMAIN q : i \in 1 .. n \/ i = n + 1
    BY <1>2, <2>1
  <2>5. \A i, j \in DOMAIN q : q[i].id = q[j].id => i = j
    BY <1>3, <2>1, <2>2, <2>4
  <2>6. [r EXCEPT ![tier] = q] \in Registries
    BY <1>4, <2>1, <2>5
  <2> QED BY <2>3, <2>6
<1>7. CASE ~plugin.valid
  BY <1>7 DEF register
<1> QED BY <1>5, <1>6, <1>7

(* A plugin that is unregistered is gone, and only that one.               *)
LEMMA UnregisterTakesOne ==
    ASSUME NEW r \in Registries, NEW tag \in TagsIn(r)
    PROVE  /\ unregister(r, tag) \in Registries
           /\ TagsIn(unregister(r, tag)) = TagsIn(r) \ {tag}
<1> DEFINE tier == tag.tier
           s == r[tier]
           same == At(s, tag.plugin.id)
           n == Len(s)
           m == Min(same)
           q == RemoveAt(s, m)
<1>1. tag \in Tags /\ tier \in Range(_TIERS) /\ tag = [tier |-> tier, plugin |-> tag.plugin]
  BY DEF TagsIn, Tags
<1>2. r \in [Range(_TIERS) -> Seq(Loadable)] /\ s \in Seq(Loadable)
  BY <1>1 DEF Registries
<1>3. n \in Nat /\ DOMAIN s = 1 .. n
  BY <1>2
<1>4. \A i, j \in 1 .. n : s[i].id = s[j].id => i = j
  BY <1>1, <1>3 DEF Registries
<1>5. PICK h \in 1 .. n : s[h] = tag.plugin
  BY <1>3 DEF TagsIn
<1>6. same # {}
  BY <1>3, <1>5 DEF At
<1>7. m \in 1 .. n /\ s[m] = tag.plugin
  <2>1. m \in 1 .. n /\ s[m].id = tag.plugin.id
    BY <1>2, <1>3, <1>6, AtIsAPlace
  <2>2. m = h
    BY <1>4, <1>5, <2>1
  <2> QED BY <1>5, <2>1, <2>2
<1>8. unregister(r, tag) = [r EXCEPT ![tier] = q]
  BY <1>6 DEF unregister
<1> HIDE DEF m
<1>9. /\ q \in Seq(Loadable) /\ Len(q) = n - 1 /\ DOMAIN q = 1 .. n - 1
      /\ \A k \in 1 .. n - 1 : q[k] = IF k < m THEN s[k] ELSE s[k + 1]
  <2>1. /\ q \in Seq(Loadable) /\ Len(q) = Len(s) - 1
        /\ \A k \in 1 .. Len(s) - 1 : q[k] = IF k < m THEN s[k] ELSE s[k + 1]
    BY <1>2, <1>7, RemoveAtMembers
  <2>2. DOMAIN q = 1 .. Len(q)
    BY <2>1
  <2> QED BY <2>1, <2>2
<1> HIDE DEF q, s, n
<1>10. \A k \in 1 .. n - 1 : k < m \/ (k + 1 \in 1 .. n /\ k + 1 > m)
  BY <1>3, <1>7
<1>11. \A k \in 1 .. n - 1 : \E i \in 1 .. n : i # m /\ q[k] = s[i] /\ ((i = k /\ k < m) \/ (i = k + 1 /\ ~(k < m)))
  <2> TAKE k \in 1 .. n - 1
  <2>1. CASE k < m
    <3>1. k \in 1 .. n /\ k # m
      BY <1>3, <1>7, <2>1
    <3> QED BY <1>9, <2>1, <3>1
  <2>2. CASE ~(k < m)
    <3>1. k + 1 \in 1 .. n /\ k + 1 # m
      BY <1>3, <1>7, <2>2
    <3> QED BY <1>9, <2>2, <3>1
  <2> QED BY <2>1, <2>2
<1>12. \A i \in 1 .. n : i # m => \E k \in 1 .. n - 1 : q[k] = s[i]
  <2> SUFFICES ASSUME NEW i \in 1 .. n, i # m PROVE \E k \in 1 .. n - 1 : q[k] = s[i]
    OBVIOUS
  <2>1. CASE i < m
    <3>1. i \in 1 .. n - 1
      BY <1>3, <1>7, <2>1
    <3> QED BY <1>9, <2>1, <3>1
  <2>2. CASE ~(i < m)
    <3>1. i - 1 \in 1 .. n - 1 /\ ~(i - 1 < m) /\ (i - 1) + 1 = i
      BY <1>3, <1>7, <2>2
    <3> QED BY <1>9, <3>1
  <2> QED BY <2>1, <2>2
<1>13. \A i, j \in DOMAIN q : q[i].id = q[j].id => i = j
  <2> SUFFICES ASSUME NEW i \in 1 .. n - 1, NEW j \in 1 .. n - 1, q[i].id = q[j].id
               PROVE  i = j
    BY <1>9
  <2>1. PICK a \in 1 .. n : q[i] = s[a] /\ ((a = i /\ i < m) \/ (a = i + 1 /\ ~(i < m)))
    BY <1>11
  <2>2. PICK b \in 1 .. n : q[j] = s[b] /\ ((b = j /\ j < m) \/ (b = j + 1 /\ ~(j < m)))
    BY <1>11
  <2>3. a = b
    BY <1>4, <2>1, <2>2
  <2> QED BY <1>3, <1>7, <2>1, <2>2, <2>3
<1>14. unregister(r, tag) \in Registries
  <2> DEFINE u == [r EXCEPT ![tier] = q]
  <2>1. /\ r \in [Range(_TIERS) -> Seq(Loadable)]
        /\ \A t \in Range(_TIERS) : \A i, j \in DOMAIN r[t] : r[t][i].id = r[t][j].id => i = j
    BY DEF Registries
  <2>2. u \in [Range(_TIERS) -> Seq(Loadable)]
    BY <1>9, <2>1
  <2>3. ASSUME NEW t \in Range(_TIERS)
        PROVE  \A i, j \in DOMAIN u[t] : u[t][i].id = u[t][j].id => i = j
    <3>1. u[t] = IF t = tier THEN q ELSE r[t]
      BY <2>1
    <3> HIDE DEF u
    <3> QED BY <1>13, <2>1, <3>1
  <2> HIDE DEF u
  <2>4. u \in Registries
    BY <2>2, <2>3 DEF Registries
  <2> QED BY <1>8, <2>4 DEF u
<1>15. ASSUME NEW other \in Tags
       PROVE  other \in TagsIn(unregister(r, tag)) <=> other \in TagsIn(r) /\ other # tag
  <2>1. CASE other.tier # tier
    BY <1>1, <1>2, <1>8, <2>1 DEF TagsIn, Tags
  <2>2. CASE other.tier = tier
    <3>1. unregister(r, tag)[tier] = q /\ r[tier] = s
      BY <1>1, <1>2, <1>8 DEF s
    <3>2. other = tag <=> other.plugin = tag.plugin
      BY <1>1, <2>2 DEF Tags
    <3>3. other \in TagsIn(unregister(r, tag)) <=> \E k \in 1 .. n - 1 : q[k] = other.plugin
      BY <1>9, <2>2, <3>1 DEF TagsIn
    <3>4. other \in TagsIn(r) <=> \E i \in 1 .. n : s[i] = other.plugin
      BY <1>3, <2>2, <3>1 DEF TagsIn
    <3>5. ASSUME NEW k \in 1 .. n - 1, q[k] = other.plugin
          PROVE  other \in TagsIn(r) /\ other # tag
      <4>1. PICK i \in 1 .. n : i # m /\ q[k] = s[i]
        BY <1>11
      <4>2. s[i] # s[m]
        BY <1>4, <1>7, <4>1
      <4> QED BY <1>7, <3>2, <3>4, <3>5, <4>1, <4>2
    <3>6. ASSUME NEW i \in 1 .. n, s[i] = other.plugin, other # tag
          PROVE  \E k \in 1 .. n - 1 : q[k] = other.plugin
      <4>1. i # m
        BY <1>7, <3>2, <3>6
      <4> QED BY <1>12, <3>6, <4>1
    <3> QED BY <3>3, <3>4, <3>5, <3>6
  <2> QED BY <2>1, <2>2
<1>16. TagsIn(unregister(r, tag)) \subseteq Tags /\ TagsIn(r) \subseteq Tags
  BY DEF TagsIn
<1> QED BY <1>14, <1>15, <1>16

(* One entry point of the discovery.                                       *)
Install(spec, r) == IF spec.loads THEN register(r, spec.plugin, "user") ELSE r

(* Discovery, whatever loads, leaves a registry.                           *)
LEMMA DiscoveryStays ==
    ASSUME NEW r \in Registries, NEW specs \in Installed
    PROVE  discover_plugins(r, specs, "user") \in Registries
<1> DEFINE step == [spec \in specs |-> [x \in Registries |-> Install(spec, x)]]
           Runs(g) == g = [s \in SUBSET specs |->
                             IF s = {} THEN r ELSE Install(Pick(s), g[s \ {Pick(s)}])]
           pick == [s \in SUBSET specs |-> Pick(s)]
           it == CHOOSE g : Runs(g)
<1>0. Picks(pick, specs)
  BY PickFrom DEF Picks
<1>1. IsFiniteSet(specs)
  BY DispatchAssumption
<1>2. ASSUME NEW spec \in specs, NEW x \in Registries
      PROVE  Install(spec, x) \in Registries
  <2>1. spec.loads => spec.plugin \in Loadable
    BY DEF Loadable
  <2> QED BY <2>1, RegisterStays, PluginTiers DEF Install
<1>3. step \in [specs -> [Registries -> Registries]]
  BY <1>2
<1>4. PICK g : Folds(g, step, r, pick, SUBSET specs)
  BY <1>0, <1>1, FolderExists
<1>5. \A s \in SUBSET specs : g[s] \in Registries
  <2> HIDE DEF step, pick
  <2> QED BY <1>0, <1>1, <1>3, <1>4, FoldStays
<1>6. Runs(g)
  <2>1. \A s \in SUBSET specs : s # {} => Pick(s) \in specs /\ g[s \ {Pick(s)}] \in Registries
    BY <1>5, PickFrom
  <2>2. \A s \in SUBSET specs :
          g[s] = IF s = {} THEN r ELSE step[Pick(s)][g[s \ {Pick(s)}]]
    BY <1>4 DEF Folds
  <2>3. \A s \in SUBSET specs :
          g[s] = IF s = {} THEN r ELSE Install(Pick(s), g[s \ {Pick(s)}])
    BY <2>1, <2>2
  <2>4. g = [s \in SUBSET specs |-> g[s]]
    BY <1>4 DEF Folds
  <2> QED BY <2>3, <2>4
<1>7. Runs(it)
  BY <1>6
<1>8. discover_plugins(r, specs, "user") = it[specs]
  BY DEF discover_plugins, FoldSet, MapThenFoldSet, Install, Pick
<1> HIDE DEF it
<1>9. it[specs] \in Registries
  <2> DEFINE Off == {n \in Nat : \E s \in SUBSET specs :
                                   Cardinality(s) = n /\ it[s] \notin Registries}
  <2>1. \A s \in SUBSET specs : IsFiniteSet(s) /\ Cardinality(s) \in Nat
    BY <1>1, FS_Subset, FS_CardinalityType
  <2>2. \A s \in SUBSET specs : it[s] = IF s = {} THEN r ELSE Install(Pick(s), it[s \ {Pick(s)}])
    BY <1>7
  <2>3. Off = {}
    <3> SUFFICES ASSUME Off # {} PROVE FALSE
      OBVIOUS
    <3>1. PICK n \in Off : \A k \in Off : n <= k
      BY LeastNumber
    <3>2. PICK s \in SUBSET specs : Cardinality(s) = n /\ it[s] \notin Registries
      BY <3>1
    <3>3. s # {} /\ Pick(s) \in specs /\ it[s \ {Pick(s)}] \notin Registries
      BY <1>2, <2>2, <3>2, PickFrom
    <3>4. Cardinality(s \ {Pick(s)}) = n - 1 /\ n - 1 \in Nat
      BY <2>1, <3>2, <3>3, PickFrom, OneFewer
    <3>5. n - 1 \in Off
      BY <3>2, <3>3, <3>4
    <3> QED BY <3>1, <3>5
  <2> QED BY <2>1, <2>3
<1> QED BY <1>8, <1>9
-----------------------------------------------------------------------------
(* Of the configuration: what was read once is what every decision was     *)
(* taken from, and it has been read when the plugins are set up.           *)
Bound == {"register", "initialize", "pre", "filter", "post", "tee", "instruct", "shutdown", "write"}

ConfigInv ==
    /\ memo = Nothing => decided = {}
    /\ memo # Nothing => decided \subseteq {memo} /\ memo # Broken
    /\ pc \in Bound => memo # Nothing
    /\ pc = "raised" => memo = Nothing

(* Of the text: a price that quor may answer for, given what the command   *)
(* printed and what the tee keeps.  The text has neither footer nor        *)
(* instruction until the filters and the plugins are through.              *)
Priced(t, raw, kept) ==
    /\ t \in Texts
    /\ TokensOf(t) > TokensOf(raw) => t.by \cap {"plugin", "on_empty"} # {}
    /\ {"footer", "instruction"} \cap t.by # {} => TokensOf(t) <= TokensOf(raw)
    /\ "footer" \in t.by => kept = raw

Plain(t, raw, kept) == Priced(t, raw, kept) /\ {"footer", "instruction"} \cap t.by = {}

TextInv ==
    /\ pc \in {"pre", "post"} => Plain(before, captured, stored) /\ Plain(payload, captured, stored)
    /\ pc \in {"filter", "tee"} => Plain(text, captured, stored)
    /\ pc = "filter" => filter # NoFilter
    /\ pc \in {"instruct", "shutdown", "write"} => Priced(text, captured, stored)

(* Of the end: what ran is known until it is written, and what is written  *)
(* is what was recorded.                                                   *)
Ran == Bound \union {"sweep", "resolve"}

EndInv ==
    /\ pc \in Ran => captured \in CapturedTexts /\ exit \in {0, 1}
    /\ pc = "run" => captured = Nothing
    /\ pc = "write" => record \in {RecordOf(text), Broken}
    /\ stdout # Nothing =>
         /\ stdout = text /\ Priced(text, captured, stored) /\ record \in {RecordOf(text), Broken}
         /\ captured \in CapturedTexts
         /\ pc \in {"finally", "ended"} /\ exit \in {0, 1}
    /\ pc = "finally" /\ captured # Nothing => stdout # Nothing
    /\ pc = "ended" /\ captured # Nothing /\ memo # Nothing => stdout # Nothing

(* Of the plugins: the initialised ones and the ones still to initialise   *)
(* are the registered ones, and so are the shut down ones and the ones     *)
(* still to shut down.                                                     *)
PluginInv ==
    /\ ran \subseteq live /\ down \subseteq live
    /\ pc \in {"run", "sweep", "resolve", "register"} =>
         live = {} /\ down = {} /\ todo = <<>>
    /\ pc \in Bound /\ ~ctx => live = {} /\ todo = <<>>
    /\ pc = "initialize" /\ ctx =>
         /\ IsInjective(todo) /\ live \cap Range(todo) = {}
         /\ live \union Range(todo) = Range(Registered(reg))
    /\ pc \in {"initialize", "pre", "filter", "post", "tee", "instruct"} => down = {}
    /\ pc \in {"pre", "filter", "post", "tee", "instruct", "shutdown"} /\ ctx =>
         live = Range(Registered(reg))
    /\ pc = "shutdown" /\ ctx => down \union Range(todo) = live
    /\ pc = "write" \/ stdout # Nothing => down = live

IInv == TypeOK /\ ConfigInv /\ TextInv /\ EndInv /\ PluginInv
-----------------------------------------------------------------------------
(* The first plugin of a loop and the ones that follow.                    *)
LEMMA FirstAndRest ==
    ASSUME NEW S, NEW s \in Seq(S), s # <<>>
    PROVE  /\ Head(s) \in S /\ Tail(s) \in Seq(S)
           /\ Range(s) = {Head(s)} \union Range(Tail(s))
           /\ IsInjective(s) => IsInjective(Tail(s)) /\ Head(s) \notin Range(Tail(s))
<1> DEFINE n == Len(s)
           t == Tail(s)
<1>1. n \in Nat /\ n >= 1 /\ DOMAIN s = 1 .. n /\ Head(s) = s[1] /\ s[1] \in S
  OBVIOUS
<1>2. t \in Seq(S) /\ DOMAIN t = 1 .. n - 1 /\ \A i \in 1 .. n - 1 : t[i] = s[i + 1]
  <2>1. t \in Seq(S) /\ Len(t) = n - 1
    BY HeadTailProperties
  <2>2. DOMAIN t = 1 .. Len(t)
    BY <2>1
  <2> QED BY <1>1, <2>1, <2>2
<1> HIDE DEF n, t
<1>3. \A i \in 1 .. n : i = 1 \/ (i - 1 \in 1 .. n - 1 /\ s[i] = t[i - 1])
  <2> TAKE i \in 1 .. n
  <2>1. i = 1 \/ (i - 1 \in 1 .. n - 1 /\ (i - 1) + 1 = i)
    BY <1>1
  <2> QED BY <1>2, <2>1
<1>4. \A i \in 1 .. n - 1 : i + 1 \in 1 .. n /\ i + 1 # 1
  BY <1>1
<1>5. Range(s) = {s[1]} \union Range(t)
  <2>1. ASSUME NEW x \in Range(s) PROVE x \in {s[1]} \union Range(t)
    <3>1. PICK i \in 1 .. n : s[i] = x
      BY <1>1 DEF Range
    <3> QED BY <1>2, <1>3, <3>1 DEF Range
  <2>2. ASSUME NEW x \in Range(t) PROVE x \in Range(s)
    <3>1. PICK i \in 1 .. n - 1 : t[i] = x
      BY <1>2 DEF Range
    <3> QED BY <1>1, <1>2, <1>4, <3>1 DEF Range
  <2>3. s[1] \in Range(s)
    BY <1>1 DEF Range
  <2> QED BY <2>1, <2>2, <2>3
<1>6. ASSUME IsInjective(s) PROVE IsInjective(t) /\ s[1] \notin Range(t)
  <2>1. \A i, j \in 1 .. n : s[i] = s[j] => i = j
    BY <1>1, <1>6 DEF IsInjective
  <2>2. ASSUME NEW i \in 1 .. n - 1, NEW j \in 1 .. n - 1, t[i] = t[j] PROVE i = j
    <3>1. i + 1 = j + 1
      BY <1>2, <1>4, <2>1, <2>2
    <3> QED BY <3>1
  <2>3. \A i \in 1 .. n - 1 : t[i] # s[1]
    BY <1>1, <1>2, <1>4, <2>1
  <2> QED BY <1>2, <2>2, <2>3 DEF IsInjective, Range
<1> QED BY <1>1, <1>2, <1>5, <1>6 DEF t

(* No loop over plugins visits one that is not registered.                 *)
LEMMA NothingToVisit == <<>> \in Seq(Tags) /\ Range(<<>>) = {} /\ IsInjective(<<>>)
BY DEF Range, IsInjective

(* Before anything is registered there is nothing to register.             *)
LEMMA EmptyRegistryStands == EmptyRegistry \in Registries
<1>1. \A t \in Range(_TIERS) : EmptyRegistry[t] = <<>> /\ DOMAIN EmptyRegistry[t] = {}
  BY DEF EmptyRegistry
<1>2. EmptyRegistry \in [Range(_TIERS) -> Seq(Loadable)]
  BY <1>1 DEF EmptyRegistry
<1> QED BY <1>1, <1>2 DEF Registries

(* What the plugins of a dispatch may be set up from.                      *)
LEMMA SetupStays ==
    ASSUME NEW base \in {EmptyRegistry, register(EmptyRegistry, Builtin, "builtin")},
           NEW now \in Installed, cache \in [hash : Installed, specs : Installed]
    PROVE  /\ base \in Registries
           /\ discover_plugins(base, _get_ep_specs(cache, now), "user") \in Registries
           /\ [hash |-> now, specs |-> _get_ep_specs(cache, now)] \in
                [hash : Installed, specs : Installed]
<1>1. base \in Registries
  BY EmptyRegistryStands, RegisterStays, PluginTiers DEF Loadable
<1>2. _get_ep_specs(cache, now) \in Installed
  BY DEF _get_ep_specs, SpecsFor
<1>3. \A specs \in Installed : discover_plugins(base, specs, "user") \in Registries
  BY <1>1, DiscoveryStays
<1> QED BY <1>1, <1>2, <1>3

(* What a configuration is read as: what it was the first time.            *)
LEMMA ReadOnce ==
    ASSUME TypeOK
    PROVE  get_user_config # Nothing /\ (memo # Nothing => get_user_config = memo)
<1>1. EffectiveConfig # Nothing
  BY DispatchAssumption DEF TypeOK, EffectiveConfig
<1> QED BY <1>1 DEF get_user_config, Memoised

(* Every text a command may print is a text.                               *)
LEMMA CapturedIsText ==
    /\ \A t \in CapturedTexts : t \in Texts /\ t.by = {} /\ t # Nothing
    /\ \A t \in Texts : t # Nothing
BY DispatchAssumption

(* The texts the plugins and quor's own additions make.                    *)
LEMMA TextsAreMade ==
    ASSUME NEW t \in Texts, NEW n \in Nat, NEW who \in {"plugin", "footer", "instruction"}
    PROVE  /\ Joined(t, n, who) \in Texts /\ Joined(t, n, who).by = t.by \union {who}
           /\ [t EXCEPT !.len = n, !.by = @ \union {who}] \in Texts
           /\ [t EXCEPT !.len = n, !.by = @ \union {who}].by = t.by \union {who}
<1> DEFINE Marks == SUBSET {"error"}
           Hands == SUBSET {"filter", "plugin", "footer", "instruction", "on_empty"}
           whom == t.by \union {who}
<1>1. t \in [len : Nat, marks : Marks, by : Hands]
  BY DEF Texts
<1>2. whom \in Hands
  BY <1>1
<1>3. t.len + n \in Nat
  BY <1>1
<1>4. Texts = [len : Nat, marks : Marks, by : Hands]
  BY DEF Texts
<1> HIDE DEF Marks, Hands, whom
<1>5. ASSUME NEW l \in Nat
      PROVE  /\ [t EXCEPT !.len = l, !.by = whom] \in [len : Nat, marks : Marks, by : Hands]
             /\ [t EXCEPT !.len = l, !.by = whom].by = whom
  BY <1>1, <1>2
<1> QED BY <1>3, <1>4, <1>5 DEF Joined, whom

(* A dispatch begins.                                                      *)
LEMMA InitIInv == Init => IInv
<1> SUFFICES ASSUME Init PROVE IInv
  OBVIOUS
<1>1. TypeOK
  <2>1. <<>> \in Seq(Tags) /\ Range(<<>>) = {} /\ EmptyRegistry \in Registries
    BY NothingToVisit, EmptyRegistryStands
  <2>2. cache \in [hash : Installed, specs : Installed]
    BY DEF Init
  <2> QED BY <2>1, <2>2 DEF Init, TypeOK, Steps
<1>2. ConfigInv
  BY DEF Init, ConfigInv, Bound
<1>3. TextInv
  BY DEF Init, TextInv
<1>4. EndInv
  BY DEF Init, EndInv, Ran, Bound
<1>5. PluginInv
  BY DEF Init, PluginInv, Bound
<1> QED BY <1>1, <1>2, <1>3, <1>4, <1>5 DEF IInv

(* The configuration is read once: no step puts another in its place.      *)
LEMMA StepConfigInv == IInv /\ [Next]_vars => ConfigInv'
<1> SUFFICES ASSUME IInv, [Next]_vars PROVE ConfigInv'
  OBVIOUS
<1>1. TypeOK /\ ConfigInv
  BY DEF IInv
<1>2. get_user_config # Nothing /\ (memo # Nothing => get_user_config = memo)
  BY <1>1, ReadOnce
<1>3. ASSUME ReadConfig
      PROVE  /\ memo' = Nothing => decided' = {}
             /\ memo' # Nothing => decided' \subseteq {memo'} /\ memo' # Broken
             /\ memo # Nothing => memo' # Nothing
             /\ get_user_config # Broken => memo' # Nothing
             /\ memo = Nothing /\ get_user_config = Broken => memo' = Nothing
  BY <1>1, <1>2, <1>3 DEF ReadConfig, ConfigInv
<1>4. CASE SweepTee
  BY <1>1, <1>3, <1>4 DEF SweepTee, ConfigInv, Bound
<1>5. CASE Resolve
  BY <1>1, <1>2, <1>3, <1>5 DEF Resolve, ConfigInv, Bound
<1>6. CASE SetupPlugins
  <2>1. memo # Nothing /\ get_user_config = memo /\ pc' = "initialize"
    BY <1>1, <1>2, <1>6 DEF SetupPlugins, ConfigInv, Bound
  <2>2. memo' = memo /\ decided' \in {decided, decided \union {memo}}
    BY <1>6, <2>1 DEF SetupPlugins
  <2> QED BY <1>1, <2>1, <2>2 DEF ConfigInv
<1>7. CASE ApplyFilter
  BY <1>1, <1>3, <1>7 DEF ApplyFilter, Enter, ConfigInv, Bound
<1>8. CASE ApplyTee
  BY <1>1, <1>3, <1>8 DEF ApplyTee, ConfigInv, Bound
<1>9. CASE /\ UNCHANGED config
           /\ pc' = pc \/ pc' \notin Bound \union {"raised"} \/ (pc \in Bound /\ pc' # "raised")
  BY <1>1, <1>9 DEF config, ConfigInv
<1>10. \/ SweepTee \/ Resolve \/ SetupPlugins \/ ApplyFilter \/ ApplyTee \/ EditConfig
       \/ /\ UNCHANGED config
          /\ pc' = pc \/ pc' \notin Bound \union {"raised"} \/ (pc \in Bound /\ pc' # "raised")
  BY ZenonT(60)
     DEF Next, vars, config, Bound, Run, RunFails, InitializePlugin, StartPreFilter, ExecutePlugin,
         BadResult, EndPreFilter, AfterPreFilter, Enter, EndPostFilter, AddInstruction,
         ShutdownPlugin, Track, Write, Close, Interrupt, Finished
<1>11. CASE EditConfig
  BY <1>1, <1>11 DEF EditConfig, ConfigInv
<1> QED BY <1>4, <1>5, <1>6, <1>7, <1>8, <1>9, <1>10, <1>11

(* Every step keeps the types, and every loop visits registered plugins.   *)
LEMMA StepTypeOK == IInv /\ [Next]_vars => TypeOK'
<1> SUFFICES ASSUME IInv, [Next]_vars PROVE TypeOK'
  OBVIOUS
<1>0. TypeOK /\ TextInv /\ EndInv /\ PluginInv
  BY DEF IInv
<1> DEFINE Texts0 == Texts \union {Nothing}
<1>1. disk' \in Configs /\ env' \in Envs /\ cmd' \in Commands
  BY <1>0 DEF TypeOK, Next, vars, config, ReadConfig, Run, RunFails, SweepTee, Resolve, SetupPlugins,
         InitializePlugin, StartPreFilter, ExecutePlugin, BadResult, EndPreFilter, ApplyFilter,
         EndPostFilter, ApplyTee, AddInstruction, ShutdownPlugin, Track, Write, Close, EditConfig,
         Interrupt, Finished
<1>2. pc' \in Steps
  BY <1>0, ZenonT(60) DEF TypeOK, Steps, Next, vars, Enter, AfterPreFilter, Run, RunFails, SweepTee, Resolve,
         SetupPlugins, InitializePlugin, StartPreFilter, ExecutePlugin, BadResult, EndPreFilter,
         ApplyFilter, EndPostFilter, ApplyTee, AddInstruction, ShutdownPlugin, Track, Write, Close,
         EditConfig, Interrupt, Finished
<1>3. exit' \in {Nothing, 0, 1, 124, 127}
  <2>1. CASE Run \/ RunFails \/ Close
    BY <1>0, <2>1 DEF TypeOK, Run, RunFails, Close
  <2>2. Run \/ RunFails \/ Close \/ UNCHANGED exit
    BY DEF Next, vars, result, SweepTee, Resolve, SetupPlugins,
         InitializePlugin, StartPreFilter, ExecutePlugin, BadResult, EndPreFilter, ApplyFilter,
         EndPostFilter, ApplyTee, AddInstruction, ShutdownPlugin, Track, Write, EditConfig,
         Interrupt, Finished
  <2> QED BY <1>0, <2>1, <2>2 DEF TypeOK
<1>4. filter' \in Filters \union {NoFilter}
  <2>1. CASE Resolve
    <3>1. _lookup_filter(all_filters(FilterDirs), cmd.type, cmd.name, NoText) \in Filters \union {NoFilter}
      BY FiltersAreListed, LookupFinds
    <3> QED BY <1>0, <2>1, <3>1 DEF Resolve, TypeOK
  <2>2. CASE UNCHANGED filter
    BY <1>0, <2>2 DEF TypeOK
  <2>3. Resolve \/ UNCHANGED filter
    BY DEF Next, vars, Run, RunFails, SweepTee, SetupPlugins,
         InitializePlugin, StartPreFilter, ExecutePlugin, BadResult, EndPreFilter, ApplyFilter,
         EndPostFilter, ApplyTee, AddInstruction, ShutdownPlugin, Track, Write, Close, EditConfig,
         Interrupt, Finished
  <2> QED BY <2>1, <2>2, <2>3
<1>5. captured' \in Texts0 /\ stored' \in Texts0 /\ stdout' \in Texts0
  <2>1. \A t \in CapturedTexts : t \in Texts0
    BY CapturedIsText
  <2>2. captured \in Texts0 /\ stored \in Texts0 /\ stdout \in Texts0 /\ text \in Texts0
    BY <1>0 DEF TypeOK
  <2> QED BY <2>1, <2>2 DEF Next, vars, result, Run, RunFails, SweepTee, Resolve, SetupPlugins,
         InitializePlugin, StartPreFilter, ExecutePlugin, BadResult, EndPreFilter, ApplyFilter,
         EndPostFilter, ApplyTee, AddInstruction, ShutdownPlugin, Track, Write, Close, EditConfig,
         Interrupt, Finished
<1>6. text' \in Texts0 /\ payload' \in Texts0 /\ before' \in Texts0
  <2>1. /\ text \in Texts0 /\ payload \in Texts0 /\ before \in Texts0 /\ captured \in Texts0
        /\ filter \in Filters \union {NoFilter}
    BY <1>0 DEF TypeOK
  <2> HIDE DEF Texts0
  <2>2. CASE ExecutePlugin
    <3>1. payload \in Texts
      BY <1>0, <2>2 DEF ExecutePlugin, TextInv, Plain, Priced
    <3>2. \A n \in PluginLens : [payload EXCEPT !.len = n, !.by = @ \union {"plugin"}] \in Texts0
      BY <3>1, TextsAreMade, DispatchAssumption DEF Texts0
    <3>3. payload' \in Texts0 /\ UNCHANGED <<text, before>>
      BY <2>1, <2>2, <3>2 DEF ExecutePlugin
    <3> QED BY <2>1, <3>3
  <2>3. CASE ApplyFilter
    <3>1. filter \in Filters /\ text \in Texts
      BY <1>0, <2>1, <2>3 DEF ApplyFilter, TextInv, Plain, Priced
    <3>2. \A t \in {text} \union apply(filter, text, get_user_config.ast_pruning_enabled) : t \in Texts0
      BY <2>1, <3>1, ApplyIsCheap DEF Texts0
    <3> QED BY <2>3, <3>2 DEF ApplyFilter, Enter
  <2>4. CASE ApplyTee
    <3>1. text \in Texts
      BY <1>0, <2>4 DEF ApplyTee, TextInv, Plain, Priced
    <3>2. Footed(text) \in Texts0
      BY <3>1, TextsAreMade, DispatchAssumption DEF Footed, Texts0
    <3>3. text' \in {text, Footed(text)} /\ before' = text /\ UNCHANGED payload
      BY <2>4 DEF ApplyTee
    <3> QED BY <2>1, <3>2, <3>3
  <2>5. CASE AddInstruction
    <3>1. text \in Texts
      BY <1>0, <2>5 DEF AddInstruction, TextInv, Priced
    <3>2. Instructed(text) \in Texts0
      BY <3>1, TextsAreMade, DispatchAssumption DEF Instructed, Texts0
    <3>3. text' \in {text, Instructed(text)} /\ UNCHANGED <<payload, before>>
      BY <2>5 DEF AddInstruction
    <3> QED BY <2>1, <3>2, <3>3
  <2>6. CASE /\ text' \in {text, payload} /\ payload' \in {payload, captured, before}
             /\ before' \in {before, captured}
    BY <2>1, <2>6
  <2>7. \/ ExecutePlugin \/ ApplyFilter \/ ApplyTee \/ AddInstruction
        \/ /\ text' \in {text, payload} /\ payload' \in {payload, captured, before}
           /\ before' \in {before, captured}
    BY DEF Next, vars, plugins, Enter, Run, RunFails, SweepTee, Resolve, SetupPlugins,
         InitializePlugin, StartPreFilter, BadResult, EndPreFilter,
         EndPostFilter, ShutdownPlugin, Track, Write, Close, EditConfig, Interrupt, Finished
  <2> QED BY <2>2, <2>3, <2>4, <2>5, <2>6, <2>7
<1>7. cache' \in [hash : Installed, specs : Installed]
  <2>1. CASE SetupPlugins
    BY <1>0, <2>1, SetupStays DEF SetupPlugins, TypeOK
  <2>2. SetupPlugins \/ UNCHANGED cache
    BY DEF Next, vars, plugins, Run, RunFails, SweepTee, Resolve,
         InitializePlugin, StartPreFilter, ExecutePlugin, BadResult, EndPreFilter, ApplyFilter,
         EndPostFilter, ApplyTee, AddInstruction, ShutdownPlugin, Track, Write, Close, EditConfig,
         Interrupt, Finished
  <2> QED BY <1>0, <2>1, <2>2 DEF TypeOK
<1>8. ctx' \in BOOLEAN
  BY <1>0 DEF TypeOK, Next, vars, plugins, Run, RunFails, SweepTee, Resolve, SetupPlugins,
         InitializePlugin, StartPreFilter, ExecutePlugin, BadResult, EndPreFilter, ApplyFilter,
         EndPostFilter, ApplyTee, AddInstruction, ShutdownPlugin, Track, Write, Close, EditConfig,
         Interrupt, Finished
<1>9. /\ reg' \in Registries /\ todo' \in Seq(Tags)
      /\ Range(todo') \subseteq Range(Registered(reg')) /\ live' \subseteq Range(Registered(reg'))
  <2>1. /\ reg \in Registries /\ todo \in Seq(Tags)
        /\ Range(todo) \subseteq Range(Registered(reg)) /\ live \subseteq Range(Registered(reg))
    BY <1>0 DEF TypeOK
  <2>2. ASSUME reg' = reg, live' = live,
               todo' \in Seq(Tags), Range(todo') \subseteq Range(Registered(reg))
        PROVE  /\ reg' \in Registries /\ todo' \in Seq(Tags)
               /\ Range(todo') \subseteq Range(Registered(reg'))
               /\ live' \subseteq Range(Registered(reg'))
    BY <2>1, <2>2
  <2>3. CASE SetupPlugins
    <3>1. PICK base \in {EmptyRegistry, register(EmptyRegistry, Builtin, "builtin")}, now \in Installed :
            /\ reg' \in {base, discover_plugins(base, _get_ep_specs(cache, now), "user")}
            /\ todo' \in {<<>>, Registered(reg')}
      BY <2>3 DEF SetupPlugins
    <3>2. reg' \in Registries
      <4>1. cache \in [hash : Installed, specs : Installed]
        BY <1>0 DEF TypeOK
      <4>2. base \in Registries
            /\ discover_plugins(base, _get_ep_specs(cache, now), "user") \in Registries
        BY <4>1, SetupStays
      <4> QED BY <3>1, <4>2
    <3>3. todo' \in Seq(Tags) /\ Range(todo') \subseteq Range(Registered(reg'))
      BY <3>1, <3>2, RegisteredOnce, NothingToVisit
    <3>4. live' = {}
      BY <1>0, <2>3 DEF SetupPlugins, PluginInv
    <3> QED BY <3>2, <3>3, <3>4
  <2>4. CASE InitializePlugin
    <3>1. /\ pc = "initialize" /\ todo # <<>> /\ todo' = Tail(todo)
          /\ \/ live' = live \union {Head(todo)} /\ reg' = reg
             \/ reg' = unregister(reg, Head(todo)) /\ live' = live
      BY <2>4 DEF InitializePlugin
    <3>2. ctx
      BY <1>0, <3>1 DEF PluginInv, Bound
    <3>3. IsInjective(todo) /\ live \cap Range(todo) = {}
      BY <1>0, <3>1, <3>2 DEF PluginInv
    <3>4. /\ todo' \in Seq(Tags) /\ Range(todo) = {Head(todo)} \union Range(todo')
          /\ Head(todo) \notin Range(todo')
      BY <2>1, <3>1, <3>3, FirstAndRest
    <3>5. CASE live' = live \union {Head(todo)} /\ reg' = reg
      BY <2>1, <3>4, <3>5
    <3>6. CASE reg' = unregister(reg, Head(todo)) /\ live' = live
      <4>1. Range(Registered(reg)) = TagsIn(reg) /\ Head(todo) \in TagsIn(reg)
        BY <2>1, <3>4, RegisteredOnce
      <4>2. reg' \in Registries /\ TagsIn(reg') = TagsIn(reg) \ {Head(todo)}
        BY <2>1, <3>6, <4>1, UnregisterTakesOne
      <4>3. Range(Registered(reg')) = TagsIn(reg')
        BY <4>2, RegisteredOnce
      <4> QED BY <2>1, <3>3, <3>4, <3>6, <4>1, <4>2, <4>3
    <3> QED BY <3>1, <3>5, <3>6
  <2>5. CASE StartPreFilter \/ ApplyFilter
    <3>1. /\ reg' = reg /\ live' = live
          /\ \E category : todo' \in {plugins_for_category(reg, category), <<>>}
      BY <2>5 DEF StartPreFilter, ApplyFilter, Enter
    <3>2. todo' \in Seq(Tags) /\ Range(todo') \subseteq Range(Registered(reg))
      BY <2>1, <3>1, CategoryIsRegistered, NothingToVisit
    <3> QED BY <2>2, <3>1, <3>2
  <2>6. CASE EndPreFilter \/ AddInstruction
    <3>1. reg' = reg /\ live' = live /\ todo' \in {Registered(reg), <<>>}
      BY <2>6 DEF EndPreFilter, AddInstruction
    <3>2. todo' \in Seq(Tags) /\ Range(todo') \subseteq Range(Registered(reg))
      BY <2>1, <3>1, RegisteredOnce, NothingToVisit
    <3> QED BY <2>2, <3>1, <3>2
  <2>7. CASE ExecutePlugin \/ BadResult \/ ShutdownPlugin
    <3>1. reg' = reg /\ live' = live /\ todo # <<>> /\ todo' \in {Tail(todo), <<>>}
      BY <2>7 DEF ExecutePlugin, BadResult, ShutdownPlugin
    <3>2. Tail(todo) \in Seq(Tags) /\ Range(Tail(todo)) \subseteq Range(Registered(reg))
      BY <2>1, <3>1, FirstAndRest
    <3>3. todo' \in Seq(Tags) /\ Range(todo') \subseteq Range(Registered(reg))
      BY <3>1, <3>2, NothingToVisit
    <3> QED BY <2>2, <3>1, <3>3
  <2>8. CASE UNCHANGED <<reg, todo, live>>
    BY <2>1, <2>2, <2>8
  <2>9. \/ SetupPlugins \/ InitializePlugin \/ (StartPreFilter \/ ApplyFilter)
        \/ (EndPreFilter \/ AddInstruction) \/ (ExecutePlugin \/ BadResult \/ ShutdownPlugin)
        \/ UNCHANGED <<reg, todo, live>>
    BY DEF Next, vars, plugins, Run, RunFails, SweepTee, Resolve, EndPostFilter, ApplyTee, Track,
           Write, Close, EditConfig, Interrupt, Finished
  <2> QED BY <2>3, <2>4, <2>5, <2>6, <2>7, <2>8, <2>9
<1> QED BY <1>1, <1>2, <1>3, <1>4, <1>5, <1>6, <1>7, <1>8, <1>9 DEF TypeOK

(* What a command prints is worth its price, and so is what plugins,       *)
(* filters and quor itself make of a text that is.                         *)
LEMMA RawIsPlain ==
    ASSUME NEW raw \in CapturedTexts, NEW kept
    PROVE  Plain(raw, raw, kept)
<1>1. raw \in Texts /\ raw.by = {} /\ TokensOf(raw) \in Nat
  BY CapturedIsText, TokensAreMonotonic
<1>2. ~(TokensOf(raw) > TokensOf(raw))
  BY <1>1
<1> QED BY <1>1, <1>2 DEF Plain, Priced

LEMMA PluginsStayPlain ==
    ASSUME NEW t, NEW raw, NEW kept, Plain(t, raw, kept), NEW n \in Nat
    PROVE  Plain([t EXCEPT !.len = n, !.by = @ \union {"plugin"}], raw, kept)
<1> DEFINE u == [t EXCEPT !.len = n, !.by = @ \union {"plugin"}]
<1>1. t \in Texts /\ {"footer", "instruction"} \cap t.by = {}
  BY DEF Plain, Priced
<1>2. u \in Texts /\ u.by = t.by \union {"plugin"}
  BY <1>1, TextsAreMade
<1> HIDE DEF u
<1>3. Plain(u, raw, kept)
  BY <1>1, <1>2 DEF Plain, Priced
<1> QED BY <1>3 DEF u

LEMMA FiltersStayPlain ==
    ASSUME NEW t, NEW raw \in Texts, NEW kept, Plain(t, raw, kept),
           NEW f \in Filters, NEW ast, NEW u \in apply(f, t, ast)
    PROVE  Plain(u, raw, kept)
<1>1. t \in Texts /\ {"footer", "instruction"} \cap t.by = {}
  BY DEF Plain, Priced
<1>2. u \in Texts
  BY <1>1, ApplyIsCheap
<1>3. CASE u = t
  BY <1>3
<1>4. CASE u.by = {"on_empty"}
  BY <1>2, <1>4 DEF Plain, Priced
<1>5. CASE u.by = t.by \union {"filter"} /\ TokensOf(u) <= TokensOf(t)
  <2>1. TokensOf(u) \in Nat /\ TokensOf(t) \in Nat /\ TokensOf(raw) \in Nat
    BY <1>1, <1>2, TokensAreMonotonic
  <2>2. TokensOf(u) > TokensOf(raw) => TokensOf(t) > TokensOf(raw)
    BY <1>5, <2>1
  <2>3. TokensOf(u) > TokensOf(raw) => u.by \cap {"plugin", "on_empty"} # {}
    <3>1. SUFFICES ASSUME TokensOf(u) > TokensOf(raw) PROVE u.by \cap {"plugin", "on_empty"} # {}
      OBVIOUS
    <3>2. t.by \cap {"plugin", "on_empty"} # {}
      BY <2>2, <3>1 DEF Plain, Priced
    <3> QED BY <1>5, <3>2
  <2>4. {"footer", "instruction"} \cap u.by = {}
    BY <1>1, <1>5
  <2> QED BY <1>2, <2>3, <2>4 DEF Plain, Priced
<1> QED BY <1>1, <1>3, <1>4, <1>5, ApplyIsCheap

LEMMA AdditionsArePriced ==
    ASSUME captured \in Texts, NEW t
    PROVE  /\ \A kept : Plain(t, captured, kept) => Priced(Footed(t), captured, captured)
           /\ \A kept : Priced(t, captured, kept) => Priced(Instructed(t), captured, kept)
<1>1. ASSUME t \in Texts, NEW n \in Nat, NEW who \in {"footer", "instruction"},
             NEW kept, who = "footer" => kept = captured, "footer" \in t.by => kept = captured,
             ~(TokensOf(Joined(t, n, who)) > TokensOf(captured))
      PROVE  Priced(Joined(t, n, who), captured, kept)
  <2> DEFINE u == Joined(t, n, who)
  <2>1. u \in Texts /\ u.by = t.by \union {who}
    BY <1>1, TextsAreMade
  <2> HIDE DEF u
  <2>2. TokensOf(u) \in Nat /\ TokensOf(captured) \in Nat
    BY <2>1, TokensAreMonotonic
  <2>3. ~(TokensOf(u) > TokensOf(captured))
    BY <1>1 DEF u
  <2>4. TokensOf(u) <= TokensOf(captured)
    BY <2>2, <2>3
  <2>5. "footer" \in u.by => kept = captured
    BY <1>1, <2>1
  <2> QED BY <2>1, <2>3, <2>4, <2>5 DEF Priced, u
<1>2. ASSUME NEW kept, Plain(t, captured, kept) PROVE Priced(Footed(t), captured, captured)
  <2>1. t \in Texts /\ Priced(t, captured, captured)
    BY <1>2 DEF Plain, Priced
  <2>2. ~(TokensOf(Joined(t, FooterLen, "footer")) > TokensOf(captured)) =>
          Priced(Joined(t, FooterLen, "footer"), captured, captured)
    BY <1>1, <2>1, DispatchAssumption
  <2> QED BY <2>1, <2>2 DEF Footed
<1>3. ASSUME NEW kept, Priced(t, captured, kept) PROVE Priced(Instructed(t), captured, kept)
  <2>1. t \in Texts /\ ("footer" \in t.by => kept = captured)
    BY <1>3 DEF Priced
  <2>2. ~(TokensOf(Joined(t, InstructionLen, "instruction")) > TokensOf(captured)) =>
          Priced(Joined(t, InstructionLen, "instruction"), captured, kept)
    BY <1>1, <2>1, DispatchAssumption
  <2> QED BY <1>3, <2>2 DEF Instructed
<1> QED BY <1>2, <1>3

(* Every step leaves a text that is worth its price.                       *)
LEMMA StepTextInv == IInv /\ [Next]_vars => TextInv'
<1> SUFFICES ASSUME IInv, [Next]_vars PROVE TextInv'
  OBVIOUS
<1>0. TypeOK /\ TextInv /\ EndInv
  BY DEF IInv
<1>1. pc \in Ran => captured \in CapturedTexts /\ captured \in Texts
  BY <1>0, CapturedIsText DEF EndInv
<1>2. CASE StartPreFilter
  <2>1. captured \in CapturedTexts
    BY <1>1, <1>2 DEF StartPreFilter, Ran, Bound
  <2>2. Plain(captured, captured, stored)
    BY <2>1, RawIsPlain
  <2> QED BY <1>2, <2>2 DEF StartPreFilter, Enter, TextInv
<1>3. CASE ExecutePlugin
  <2>1. pc \in {"pre", "post"} /\ Plain(payload, captured, stored)
    BY <1>0, <1>3 DEF ExecutePlugin, TextInv
  <2>2. Plain(payload', captured, stored)
    <3>1. CASE payload' = payload
      BY <2>1, <3>1
    <3>2. ASSUME NEW n \in PluginLens, payload' = [payload EXCEPT !.len = n, !.by = @ \union {"plugin"}]
          PROVE  Plain(payload', captured, stored)
      <4>1. n \in Nat
        BY DispatchAssumption
      <4>2. Plain([payload EXCEPT !.len = n, !.by = @ \union {"plugin"}], captured, stored)
        BY <2>1, <4>1, PluginsStayPlain
      <4> QED BY <3>2, <4>2
    <3> QED BY <1>3, <3>1, <3>2 DEF ExecutePlugin
  <2>3. UNCHANGED <<pc, before, captured, stored>>
    BY <1>3 DEF ExecutePlugin
  <2> QED BY <1>0, <2>1, <2>2, <2>3 DEF TextInv
<1>4. CASE BadResult
  BY <1>0, <1>4 DEF BadResult, TextInv
<1>5. CASE EndPreFilter
  <2>1. Plain(payload, captured, stored)
    BY <1>0, <1>5 DEF EndPreFilter, TextInv
  <2>2. Priced(payload, captured, stored)
    BY <2>1 DEF Plain
  <2> QED BY <1>5, <2>1, <2>2 DEF EndPreFilter, AfterPreFilter, TextInv
<1>6. CASE ApplyFilter
  <2>1. captured \in Texts /\ Plain(text, captured, stored) /\ filter \in Filters
    BY <1>0, <1>1, <1>6 DEF ApplyFilter, TextInv, TypeOK, Ran, Bound
  <2>2. \A t \in {text} \union apply(filter, text, get_user_config.ast_pruning_enabled) :
          Plain(t, captured, stored)
    BY <2>1, FiltersStayPlain
  <2>3. /\ pc' = "post" /\ UNCHANGED <<captured, stored>>
        /\ before' = payload'
        /\ payload' \in {text} \union apply(filter, text, get_user_config.ast_pruning_enabled)
    BY <1>6 DEF ApplyFilter, Enter
  <2> QED BY <2>2, <2>3 DEF TextInv
<1>7. CASE EndPostFilter
  BY <1>0, <1>7 DEF EndPostFilter, TextInv
<1>8. CASE ApplyTee
  <2>1. captured \in Texts /\ Plain(text, captured, stored)
    BY <1>0, <1>1, <1>8 DEF ApplyTee, TextInv, Ran, Bound
  <2>2. Priced(text, captured, stored) /\ Priced(Footed(text), captured, captured)
    BY <2>1, AdditionsArePriced DEF Plain
  <2>3. Priced(text', captured', stored')
    BY <1>8, <2>2 DEF ApplyTee
  <2> QED BY <1>8, <2>3 DEF ApplyTee, TextInv
<1>9. CASE AddInstruction
  <2>1. captured \in Texts /\ Priced(text, captured, stored)
    BY <1>0, <1>1, <1>9 DEF AddInstruction, TextInv, Ran, Bound
  <2>2. Priced(Instructed(text), captured, stored)
    BY <2>1, AdditionsArePriced
  <2>3. Priced(text', captured', stored')
    BY <1>9, <2>1, <2>2 DEF AddInstruction
  <2> QED BY <1>9, <2>3 DEF AddInstruction, TextInv
<1>10. CASE Track
  BY <1>0, <1>10 DEF Track, plugins, TextInv
<1>11. CASE /\ pc' = pc
            /\ UNCHANGED <<text, before, payload, filter, captured, stored>>
  BY <1>0, <1>11 DEF TextInv
<1>12. CASE pc' \notin {"pre", "post", "filter", "tee", "instruct", "shutdown", "write"}
  BY <1>12 DEF TextInv
<1>13. \/ StartPreFilter \/ ExecutePlugin \/ BadResult \/ EndPreFilter \/ ApplyFilter
       \/ EndPostFilter \/ ApplyTee \/ AddInstruction \/ Track
       \/ (pc' = pc /\ UNCHANGED <<text, before, payload, filter, captured, stored>>)
       \/ pc' \notin {"pre", "post", "filter", "tee", "instruct", "shutdown", "write"}
  BY DEF Next, vars, plugins, Run, RunFails, SweepTee, Resolve, SetupPlugins, InitializePlugin,
         ShutdownPlugin, Write, Close, EditConfig, Interrupt, Finished
<1> QED BY <1>2, <1>3, <1>4, <1>5, <1>6, <1>7, <1>8, <1>9, <1>10, <1>11, <1>12, <1>13

(* Every step keeps what ran until it is written, and what was recorded.   *)
LEMMA StepEndInv == IInv /\ [Next]_vars => EndInv'
<1> SUFFICES ASSUME IInv, [Next]_vars PROVE EndInv'
  OBVIOUS
<1>0. TextInv /\ EndInv /\ ConfigInv
  BY DEF IInv
<1>1. pc \notin {"finally", "ended"} => stdout = Nothing
  BY <1>0 DEF EndInv
<1>2. CASE Run
  <2>1. stdout' = Nothing /\ pc' = "sweep" /\ captured' \in CapturedTexts /\ exit' \in {0, 1}
    BY <1>1, <1>2 DEF Run
  <2> QED BY <2>1 DEF EndInv
<1>3. CASE RunFails
  <2>1. stdout' = Nothing /\ pc' = "finally" /\ captured' = Nothing
    BY <1>0, <1>1, <1>3 DEF RunFails, EndInv
  <2> QED BY <2>1 DEF EndInv, Ran, Bound
<1>4. CASE Track
  <2>1. /\ pc = "shutdown" /\ pc' = "write" /\ stdout' = Nothing
        /\ UNCHANGED <<captured, filter, text, exit>>
        /\ record' \in {RecordOf(text), Broken}
    BY <1>1, <1>4 DEF Track
  <2>2. captured' \in CapturedTexts /\ exit' \in {0, 1}
    BY <1>0, <2>1 DEF EndInv, Ran, Bound
  <2>3. record' \in {RecordOf(text)', Broken}
    BY <2>1 DEF RecordOf
  <2> QED BY <2>1, <2>2, <2>3 DEF EndInv
<1>5. CASE Write
  <2>1. /\ pc = "write" /\ pc' = "finally" /\ stdout' = text
        /\ UNCHANGED <<captured, filter, text, record, exit, stored>>
    BY <1>5 DEF Write
  <2>2. Priced(text, captured, stored) /\ text # Nothing
    BY <1>0, <2>1, CapturedIsText DEF TextInv, Priced
  <2>3. /\ captured \in CapturedTexts /\ exit \in {0, 1} /\ record \in {RecordOf(text), Broken}
    BY <1>0, <2>1 DEF EndInv, Ran, Bound
  <2>4. record' \in {RecordOf(text)', Broken}
    BY <2>1, <2>3 DEF RecordOf
  <2> QED BY <2>1, <2>2, <2>3, <2>4 DEF EndInv, Ran, Bound
<1>6. CASE Close
  <2>1. /\ pc \in {"finally", "raised"} /\ pc' = "ended"
        /\ UNCHANGED <<captured, filter, text, record, stdout, stored, memo>>
        /\ pc = "finally" => exit' = exit
    BY <1>6 DEF Close, config
  <2>2. RecordOf(text)' = RecordOf(text)
    BY <2>1 DEF RecordOf
  <2>3. CASE pc = "raised"
    BY <1>0, <2>1, <2>3 DEF EndInv, ConfigInv, Ran, Bound
  <2>4. CASE pc = "finally"
    BY <1>0, <2>1, <2>2, <2>4 DEF EndInv, Ran, Bound
  <2> QED BY <2>1, <2>3, <2>4
<1>7. CASE UNCHANGED <<pc, captured, filter, text, record, stdout, stored, exit, memo>>
  <2>1. RecordOf(text)' = RecordOf(text)
    BY <1>7 DEF RecordOf
  <2> QED BY <1>0, <1>7, <2>1 DEF EndInv
<1>8. CASE /\ pc \in Ran /\ pc' \notin {"run", "write", "finally", "ended"}
           /\ UNCHANGED <<captured, exit, stdout>>
  <2>1. stdout' = Nothing
    BY <1>1, <1>8 DEF Ran, Bound
  <2> QED BY <1>0, <1>8, <2>1 DEF EndInv
<1>9. CASE Interrupt
  <2>1. stdout' = Nothing /\ pc' = "interrupted"
    BY <1>1, <1>9 DEF Interrupt, result
  <2> QED BY <2>1 DEF EndInv, Ran, Bound
<1>10. \/ Run \/ RunFails \/ Track \/ Write \/ Close \/ Interrupt
       \/ UNCHANGED <<pc, captured, filter, text, record, stdout, stored, exit, memo>>
       \/ /\ pc \in Ran /\ pc' \notin {"run", "write", "finally", "ended"}
          /\ UNCHANGED <<captured, exit, stdout>>
  BY DEF Next, vars, config, result, Ran, Bound, Enter, AfterPreFilter, SweepTee, Resolve,
         SetupPlugins, InitializePlugin, StartPreFilter, ExecutePlugin, BadResult, EndPreFilter,
         ApplyFilter, EndPostFilter, ApplyTee, AddInstruction, ShutdownPlugin, EditConfig, Finished
<1> QED BY <1>2, <1>3, <1>4, <1>5, <1>6, <1>7, <1>8, <1>9, <1>10

(* Every step keeps the plugins that were initialised in sight.            *)
LEMMA StepPluginInv == IInv /\ [Next]_vars => PluginInv'
<1> SUFFICES ASSUME IInv, [Next]_vars PROVE PluginInv'
  OBVIOUS
<1>0. TypeOK /\ EndInv /\ PluginInv /\ TypeOK' /\ EndInv'
  BY StepTypeOK, StepEndInv DEF IInv
<1>1. pc \notin {"finally", "ended"} => stdout = Nothing
  BY <1>0 DEF EndInv
<1>2. pc' \notin {"finally", "ended"} => stdout' = Nothing
  BY <1>0 DEF EndInv
<1>3. /\ ran \subseteq live /\ down \subseteq live
      /\ Range(<<>>) = {} /\ todo \in Seq(Tags) /\ reg \in Registries
      /\ Range(todo) \subseteq Range(Registered(reg))
  BY <1>0, NothingToVisit DEF PluginInv, TypeOK
<1>4. CASE SetupPlugins
  <2>1. /\ pc = "register" /\ pc' = "initialize" /\ UNCHANGED <<live, down, ran>>
        /\ (ctx' /\ todo' = Registered(reg')) \/ (~ctx' /\ todo' = <<>>)
    BY <1>4 DEF SetupPlugins
  <2>2. live' = {} /\ down' = {} /\ ran' = {}
    BY <1>0, <1>3, <2>1 DEF PluginInv
  <2>3. ctx' => IsInjective(todo') /\ Range(todo') = Range(Registered(reg'))
    BY <1>0, <2>1, RegisteredOnce DEF TypeOK
  <2> QED BY <1>2, <2>1, <2>2, <2>3 DEF PluginInv
<1>5. CASE InitializePlugin
  <2>1. /\ pc = "initialize" /\ pc' = pc /\ todo # <<>> /\ todo' = Tail(todo)
        /\ UNCHANGED <<ctx, down, ran>>
        /\ \/ live' = live \union {Head(todo)} /\ reg' = reg
           \/ reg' = unregister(reg, Head(todo)) /\ live' = live
    BY <1>5 DEF InitializePlugin
  <2>2. ctx /\ down = {}
    BY <1>0, <2>1 DEF PluginInv, Bound
  <2>3. /\ IsInjective(todo) /\ live \cap Range(todo) = {}
        /\ live \union Range(todo) = Range(Registered(reg))
    BY <1>0, <2>1, <2>2 DEF PluginInv
  <2>4. /\ Range(todo) = {Head(todo)} \union Range(todo')
        /\ Head(todo) \notin Range(todo') /\ IsInjective(todo')
    BY <1>3, <2>1, <2>3, FirstAndRest
  <2>5. live' \cap Range(todo') = {} /\ live' \union Range(todo') = Range(Registered(reg'))
    <3>1. CASE live' = live \union {Head(todo)} /\ reg' = reg
      BY <2>3, <2>4, <3>1
    <3>2. CASE reg' = unregister(reg, Head(todo)) /\ live' = live
      <4>1. Range(Registered(reg)) = TagsIn(reg) /\ Head(todo) \in TagsIn(reg)
        BY <1>3, <2>3, <2>4, RegisteredOnce
      <4>2. reg' \in Registries /\ TagsIn(reg') = TagsIn(reg) \ {Head(todo)}
        BY <1>3, <3>2, <4>1, UnregisterTakesOne
      <4>3. Range(Registered(reg')) = TagsIn(reg')
        BY <4>2, RegisteredOnce
      <4> QED BY <2>3, <2>4, <3>2, <4>1, <4>2, <4>3
    <3> QED BY <2>1, <3>1, <3>2
  <2>6. live \subseteq live'
    BY <2>1
  <2> QED BY <1>2, <1>3, <2>1, <2>2, <2>4, <2>5, <2>6 DEF PluginInv
<1>6. CASE StartPreFilter
  <2>1. /\ pc = "initialize" /\ pc' = "pre" /\ todo = <<>> /\ UNCHANGED <<reg, ctx, live, down, ran>>
        /\ ~ctx => todo' = <<>>
    BY <1>6 DEF StartPreFilter, Enter
  <2>2. ctx => live = Range(Registered(reg))
    BY <1>0, <1>3, <2>1 DEF PluginInv
  <2> QED BY <1>0, <1>2, <2>1, <2>2 DEF PluginInv, Bound
<1>7. CASE ExecutePlugin \/ BadResult
  <2>1. /\ pc \in {"pre", "post"} /\ pc' = pc /\ todo # <<>> /\ UNCHANGED <<reg, ctx, live, down>>
        /\ ran' = ran \union {Head(todo)}
    BY <1>7 DEF ExecutePlugin, BadResult
  <2>2. ctx /\ live = Range(Registered(reg))
    BY <1>0, <2>1 DEF PluginInv, Bound
  <2>3. Head(todo) \in live
    BY <1>3, <2>1, <2>2, FirstAndRest
  <2> QED BY <1>0, <1>2, <2>1, <2>2, <2>3 DEF PluginInv, Bound
<1>8. CASE EndPreFilter \/ ApplyFilter \/ EndPostFilter \/ ApplyTee \/ AddInstruction
  <2>1. /\ pc \in {"pre", "filter", "post", "tee", "instruct"}
        /\ pc' \in {"filter", "post", "tee", "instruct", "shutdown"}
        /\ UNCHANGED <<reg, ctx, live, down, ran>>
        /\ ~ctx => todo' \in {<<>>, todo}
        /\ ctx /\ pc' = "shutdown" => todo' = Registered(reg)
    BY <1>8 DEF EndPreFilter, AfterPreFilter, ApplyFilter, Enter, EndPostFilter, ApplyTee,
                AddInstruction
  <2>2. /\ down = {}
        /\ ctx => live = Range(Registered(reg))
        /\ ~ctx => live = {} /\ todo' = <<>>
    BY <1>0, <2>1 DEF PluginInv, Bound
  <2> QED BY <1>0, <1>2, <2>1, <2>2 DEF PluginInv
<1>9. CASE ShutdownPlugin
  <2>1. /\ pc = "shutdown" /\ pc' = pc /\ todo # <<>> /\ UNCHANGED <<reg, ctx, live, ran>>
        /\ down' = down \union {Head(todo)} /\ todo' = Tail(todo)
    BY <1>9 DEF ShutdownPlugin
  <2>2. ctx /\ live = Range(Registered(reg)) /\ down \union Range(todo) = live
    BY <1>0, <2>1 DEF PluginInv, Bound
  <2>3. Range(todo) = {Head(todo)} \union Range(todo')
    BY <1>3, <2>1, FirstAndRest
  <2> QED BY <1>2, <1>3, <2>1, <2>2, <2>3 DEF PluginInv
<1>10. CASE Track
  <2>1. pc = "shutdown" /\ pc' = "write" /\ todo = <<>> /\ UNCHANGED plugins
    BY <1>10 DEF Track
  <2>2. down = live /\ (~ctx => live = {} /\ todo = <<>>)
    BY <1>0, <1>3, <2>1 DEF PluginInv, Bound
  <2> QED BY <1>3, <2>1, <2>2 DEF PluginInv, plugins
<1>11. CASE Write
  <2>1. pc = "write" /\ pc' = "finally" /\ UNCHANGED plugins
    BY <1>11 DEF Write
  <2>2. down = live
    BY <1>0, <2>1 DEF PluginInv
  <2> QED BY <1>3, <2>1, <2>2 DEF PluginInv, plugins, Bound
<1>12. CASE /\ pc \in {"run", "sweep", "resolve"} /\ UNCHANGED plugins
            /\ pc' \in {"sweep", "resolve", "register", "raised", "finally"}
  <2>1. live' = {} /\ down' = {} /\ ran' = {} /\ todo' = <<>>
    BY <1>0, <1>3, <1>12 DEF PluginInv, plugins
  <2> QED BY <1>12, <2>1 DEF PluginInv
<1>13. CASE /\ UNCHANGED plugins /\ UNCHANGED stdout
            /\ pc' = pc \/ pc' \in {"ended", "interrupted"}
  BY <1>0, <1>13 DEF PluginInv, plugins, Bound
<1>14. \/ SetupPlugins \/ InitializePlugin \/ StartPreFilter \/ (ExecutePlugin \/ BadResult)
       \/ (EndPreFilter \/ ApplyFilter \/ EndPostFilter \/ ApplyTee \/ AddInstruction)
       \/ ShutdownPlugin \/ Track \/ Write
       \/ /\ pc \in {"run", "sweep", "resolve"} /\ UNCHANGED plugins
          /\ pc' \in {"sweep", "resolve", "register", "raised", "finally"}
       \/ /\ UNCHANGED plugins /\ UNCHANGED stdout
          /\ pc' = pc \/ pc' \in {"ended", "interrupted"}
  BY DEF Next, vars, plugins, result, Run, RunFails, SweepTee, Resolve, Close, EditConfig,
         Interrupt, Finished
<1> QED BY <1>4, <1>5, <1>6, <1>7, <1>8, <1>9, <1>10, <1>11, <1>12, <1>13, <1>14

(* The invariant is one of the specification.                              *)
LEMMA Invariance == Spec => []IInv
<1>1. IInv /\ [Next]_vars => IInv'
  BY StepTypeOK, StepConfigInv, StepTextInv, StepEndInv, StepPluginInv DEF IInv
<1> QED BY InitIInv, <1>1, PTL DEF Spec
-----------------------------------------------------------------------------
(* Every variable keeps its type, the registry holds each id once in a     *)
(* tier, and the loops of initialize_all, _execute_plugins and             *)
(* shutdown_all only ever visit plugins that are still registered.         *)
THEOREM TypeIsInvariant == Spec => []TypeOK
<1>1. IInv => TypeOK
  BY DEF IInv
<1> QED BY Invariance, <1>1, PTL

(* Whatever the user edits while a dispatch runs, get_user_config hands    *)
(* one configuration to all its steps.                                     *)
THEOREM DispatchHasOneConfiguration == Spec => []OneConfiguration
<1>1. IInv => OneConfiguration
  <2> SUFFICES ASSUME IInv PROVE Cardinality(decided) <= 1
    BY DEF OneConfiguration
  <2>1. decided = {} \/ decided = {memo}
    BY DEF IInv, ConfigInv
  <2>2. Cardinality({}) = 0 /\ Cardinality({memo}) = 1
    BY FS_EmptySet, FS_Singleton
  <2> QED BY <2>1, <2>2
<1> QED BY Invariance, <1>1, PTL

(* What track_invocation recorded, when it recorded, is what the command   *)
(* printed and what quor wrote in its place.                               *)
THEOREM RecordsAreDelivered == Spec => []DeliveredAsRecorded
<1>1. IInv => DeliveredAsRecorded
  <2> SUFFICES ASSUME IInv, stdout # Nothing, record # Broken
               PROVE  /\ record # Nothing
                      /\ record.final = stdout /\ record.original = captured
                      /\ record.filter = filter
    BY DEF DeliveredAsRecorded
  <2>1. stdout = text /\ text \in Texts /\ record = RecordOf(text) /\ captured \in Texts
    BY CapturedIsText DEF IInv, EndInv, Priced
  <2>2. filter \in Filters \union {NoFilter}
    BY DEF IInv, TypeOK
  <2>3. record = [original |-> captured, final |-> text, filter |-> filter]
    BY <2>1 DEF RecordOf
  <2>4. record \in [original : Texts, final : Texts, filter : Filters \union {NoFilter}]
    BY <2>1, <2>2, <2>3
  <2>5. record # Nothing
    BY <2>4, DispatchAssumption
  <2> QED BY <2>1, <2>3, <2>5
<1> QED BY Invariance, <1>1, PTL

(* Whatever the filters render and the plugins leave, the footer of        *)
(* _apply_tee and the instruction are never what makes an answer dearer    *)
(* than the raw output, and a footer names a text the tee keeps.           *)
THEOREM AdditionsAreFree == Spec => []NeverCostsMore
<1>1. IInv => NeverCostsMore
  BY DEF IInv, EndInv, Priced, NeverCostsMore
<1> QED BY Invariance, <1>1, PTL

(* Whatever plugins fail to initialise, raise, abort or return nothing,    *)
(* shutdown_all reaches every one that was initialised before the text is  *)
(* written, and no other ever ran.                                         *)
THEOREM PluginsAreShutDown == Spec => []PluginsComeDown
<1>1. IInv => PluginsComeDown
  BY DEF IInv, PluginInv, PluginsComeDown
<1> QED BY Invariance, <1>1, PTL

(* Whatever fails in a dispatch, the output of a command that ran is       *)
(* written and its exit code kept, unless the configuration cannot be read *)
(* or the user interrupts.                                                 *)
THEOREM DispatchFailsOpen == Spec => []FailOpen
<1>1. IInv => FailOpen
  BY DEF IInv, EndInv, FailOpen
<1> QED BY Invariance, <1>1, PTL
=============================================================================
