--------------------------- MODULE RepoIntelProofs ---------------------------
(***************************************************************************)
(* The safety of the repository intelligence cache, for any number of      *)
(* builders, paths and contents, any repository, and any number of edits,  *)
(* calls, crashes and damaged files.                                       *)
(*                                                                         *)
(* Where a rename changes the language of a file, its facts move along and *)
(* are wrong from then on; the theorems are about the behaviours in which  *)
(* no diff pairs two paths of different languages.                         *)
(*                                                                         *)
(* Then the search over the cached entries, for any entries, queries,      *)
(* texts and limits; and the graph of the repository and the distances in  *)
(* it, for any files, whatever they declare and import.                    *)
(***************************************************************************)
EXTENDS RepoIntelCache, AlgorithmCases, OperatorTheorems, TLAPS

RenamesKeepTheLanguage ==
    \A b \in Builders : pc[b] = "build_profile" =>
        \A p \in Renamed(own[b]) : Language[p[1]] = Language[p[2]]
-----------------------------------------------------------------------------
(* What there is of a repository, and the fingerprints of it.              *)
Existing(r) == {x \in Paths : r[x] # None}

FingerprintsOf(r, t) ==
    [x \in Paths |-> IF r[x] = None THEN None ELSE [stamp |-> t[x], content |-> r[x]]]

(* The contents a table of fingerprints vouches for, what the tables of    *)
(* facts say of some contents, and what file_intelligence.json does.       *)
Held(fps) == [x \in Paths |-> IF fps[x] = None THEN None ELSE fps[x].content]

FactsOf(held) == [x \in Paths |-> IF held[x] = None THEN None ELSE Extracted(x, held[x])]

Tables == {"profile", "symbols", "graph"}

TableOf(f, held) == IF f = "profile" THEN held ELSE FactsOf(held)

IntelOf(r, t) ==
    [x \in Paths |-> IF r[x] = None THEN None
                     ELSE [symbols |-> Known(FactsOf(r)[x]),
                           graph |-> Known(FactsOf(r)[x]), stamp |-> t[x]]]

Working(b) == pc[b] # "idle"

(* Nothing has changed since the builder began.                            *)
Kept(b) == Working(b) /\ (sound \/ (calm[b] /\ own[b].full))

(* A builder that has saved the state has the tables still to save.        *)
Saving == {"save_profile", "save_symbols", "save_graph"}

OwesAt(s, f) ==
    \/ s = "save_profile"
    \/ s = "save_symbols" /\ f \in {"symbols", "graph"}
    \/ s = "save_graph" /\ f = "graph"

Owed(f) == \E b \in Builders : OwesAt(pc[b], f)
-----------------------------------------------------------------------------
(* Two fingerprints of one stamp are of one content: whoever holds them.   *)
InUse ==
    {fp \in Fingerprints :
        \/ \E x \in Paths : repo[x] # None /\ fp = Fingerprint(x)
        \/ disk["state"] # None /\ \E x \in Paths : fp = disk["state"][x]
        \/ \E b \in Builders, x \in Paths : fp = own[b].prev[x] \/ fp = own[b].fps[x]}

StampInv ==
    /\ \A x \in Paths : repo[x] # None => stamp[x] # 0
    /\ \A x \in Paths : stamp[x] <= NumPaths + edits
    /\ \A fp \in InUse : fp.stamp <= NumPaths + edits
    /\ \A fp, other \in InUse : fp.stamp = other.stamp => fp.content = other.content

(* Who is alone.                                                           *)
LoneInv ==
    /\ \A b \in Builders : calm[b] => Working(b) /\ \A a \in Builders \ {b} : ~Working(a)
    /\ apart => \A a, b \in Builders : Working(a) /\ Working(b) => a = b
    /\ sound /\ apart => \A b \in Builders : Working(b) => calm[b]

(* What a builder holds, stage by stage, while the repository is what it   *)
(* was when the builder began: l is its memory, s its stage.               *)
Loading == {"load_profile", "load_symbols", "load_graph"}

Late == {"save_state", "save_profile", "save_symbols", "save_graph", "check_intel",
         "save_intel", "done"}

WalkHolds(l, s, r) ==
    /\ s \in Loading \union {"diff", "check_intel"} => ~l.full
    /\ s = "fingerprint" => l.full
    /\ s \notin Loading \union {"walk"} => l.walk = Existing(r)

FingerprintsHold(l, s, r, t) ==
    /\ s \in Loading \union {"walk"} => l.fps = Nothing
    /\ s \in {"build_profile", "parse"} /\ l.full => l.fps = Nothing
    /\ s \in {"diff", "fingerprint"} =>
         /\ l.todo \subseteq Existing(r)
         /\ l.fps = [x \in Paths |-> IF x \in l.todo THEN None ELSE FingerprintsOf(r, t)[x]]
    /\ (s \in {"build_profile", "parse"} /\ ~l.full) \/ s \in Late => l.fps = FingerprintsOf(r, t)
    /\ s \in {"build_profile", "parse"} \union Saving => l.full \/ Held(l.prev) # r
    /\ s = "check_intel" => Held(l.prev) = r

(* A table that was loaded describes the state that was loaded, unless     *)
(* another builder has replaced it since, or has still to replace it.      *)
Loaded(f, table, l, alone, r) ==
    \/ table \in {TableOf(f, Held(l.prev)), TableOf(f, r)}
    \/ Held(l.prev) = r /\ ~alone

LoadsHold(l, s, alone, r) ==
    ~l.full =>
      /\ s \in {"load_symbols", "load_graph", "walk", "diff", "build_profile"} =>
           Loaded("profile", l.profile, l, alone, r)
      /\ s \in {"load_graph", "walk", "diff", "build_profile"} =>
           Loaded("symbols", l.symbols, l, alone, r)
      /\ s \in {"walk", "diff", "build_profile"} => Loaded("graph", l.graph, l, alone, r)

TablesHold(l, s, alone, r) ==
    /\ l.full /\ s \in {"walk", "build_profile"} => l.symbols = Nothing /\ l.graph = Nothing
    /\ s = "parse" =>
         /\ l.todo \subseteq Existing(r) /\ l.profile = r
         /\ \A x \in Paths \ l.todo : l.symbols[x] = FactsOf(r)[x] /\ l.graph[x] = FactsOf(r)[x]
    /\ s \in Late \union {"fingerprint"} =>
         \/ l.profile = r /\ l.symbols = FactsOf(r) /\ l.graph = FactsOf(r)
         \/ ~l.full /\ Held(l.prev) = r /\ ~alone

Holds(l, s, alone, r, t) ==
    /\ WalkHolds(l, s, r) /\ FingerprintsHold(l, s, r, t)
    /\ LoadsHold(l, s, alone, r) /\ TablesHold(l, s, alone, r)

MemoryInv ==
    \A b \in Builders : Kept(b) => Holds(own[b], pc[b], calm[b], repo, stamp)

(* The tables on the disk describe the state beside them; where the state  *)
(* is the repository, whoever saved it may have them still to save.  The   *)
(* same holds of a state a builder has loaded, but others may have saved   *)
(* since.                                                                  *)
DiskInv ==
    sound =>
      /\ disk["state"] # None /\ Held(disk["state"]) = repo =>
           \A f \in Tables : disk[f] \in {None, TableOf(f, repo)} \/ Owed(f)
      /\ disk["state"] # None /\ Held(disk["state"]) # repo =>
           /\ \A f \in Tables : disk[f] \in {None, TableOf(f, Held(disk["state"]))}
           /\ \A a \in Builders : pc[a] \notin Saving
      /\ \A b \in Builders : Working(b) /\ ~own[b].full =>
           \A f \in Tables :
              \/ disk[f] \in {None, TableOf(f, Held(own[b].prev)), TableOf(f, repo)}
              \/ Held(own[b].prev) = repo /\ Owed(f)

(* What a full rebuild that runs alone has saved stands.                   *)
Rebuilt(d, s, r, t) ==
    /\ s \in {"save_profile", "save_symbols", "save_graph", "save_intel", "done"} =>
         d["state"] \in {None, FingerprintsOf(r, t)}
    /\ s \in {"save_symbols", "save_graph", "save_intel", "done"} => d["profile"] \in {None, r}
    /\ s \in {"save_graph", "save_intel", "done"} => d["symbols"] \in {None, FactsOf(r)}
    /\ s \in {"save_intel", "done"} => d["graph"] \in {None, FactsOf(r)}
    /\ s = "done" => d["intel"] \in {None, IntelOf(r, t)}

RebuildInv ==
    \A b \in Builders : calm[b] /\ own[b].full => Rebuilt(disk, pc[b], repo, stamp)

(* An entry of file_intelligence.json is true of every file of its stamp.  *)
TrueEntry(x, entry, fps) ==
    \A fp \in fps : fp.stamp = entry.stamp =>
        /\ entry.symbols = Known(Extracted(x, fp.content))
        /\ entry.graph = Known(Extracted(x, fp.content))

IntelInv ==
    sound /\ apart /\ disk["intel"] # None =>
      \A x \in Paths : disk["intel"][x] # None =>
        /\ disk["intel"][x].stamp \in 1 .. NumPaths + edits
        /\ TrueEntry(x, disk["intel"][x], InUse)

IInv == TypeOK /\ StampInv /\ LoneInv /\ MemoryInv /\ DiskInv /\ RebuildInv /\ IntelInv
-----------------------------------------------------------------------------
(* What is not there is neither a content nor a fingerprint.               *)
LEMMA WhatIsThere ==
    /\ \A x \in Contents : x # None
    /\ \A fp \in Fingerprints : fp # None /\ fp.content \in Contents /\ fp.stamp \in Nat
    /\ NumPaths \in Nat /\ NumPaths # 0 /\ MaxEdits \in Nat
    /\ \A x \in Paths : x \in Nat
BY CacheAssumption DEF Fingerprints, Paths

(* The facts of a content.                                                 *)
LEMMA FactsOfContents ==
    /\ \A x \in Paths : \A c \in Contents \union {None} : Extracted(x, c) \in Facts \union {None}
    /\ \A held \in Table(Contents) : FactsOf(held) \in Table(Facts)
<1>1. ASSUME NEW x \in Paths, NEW c \in Contents \union {None}
      PROVE  Extracted(x, c) \in Facts \union {None}
  BY DEF Extracted, Facts
<1>2. ASSUME NEW held \in Table(Contents) PROVE FactsOf(held) \in Table(Facts)
  <2>1. \A x \in Paths : held[x] \in Contents \union {None}
    BY DEF Table
  <2>2. \A x \in Paths : FactsOf(held)[x] \in Facts \union {None}
    BY <1>1, <2>1 DEF FactsOf
  <2> QED BY <2>2 DEF Table, FactsOf
<1> QED BY <1>1, <1>2

(* The fingerprints of the repository as it is vouch for the repository.   *)
LEMMA FingerprintsAreTrue ==
    ASSUME TypeOK, StampInv
    PROVE  /\ FingerprintsOf(repo, stamp) \in Table(Fingerprints)
           /\ Held(FingerprintsOf(repo, stamp)) = repo
           /\ \A x \in Paths :
                /\ FingerprintsOf(repo, stamp)[x] = None <=> repo[x] = None
                /\ repo[x] # None => /\ FingerprintsOf(repo, stamp)[x] = Fingerprint(x)
                                     /\ Fingerprint(x) \in InUse
                                     /\ stamp[x] \in 1 .. NumPaths + edits
<1> DEFINE now == FingerprintsOf(repo, stamp)
<1>1. ASSUME NEW x \in Paths, repo[x] # None
      PROVE  /\ now[x] = Fingerprint(x) /\ now[x].content = repo[x]
             /\ now[x] \in Fingerprints /\ stamp[x] \in 1 .. NumPaths + edits
  <2>1. repo[x] \in Contents /\ stamp[x] \in 1 .. NumPaths + MaxEdits
        /\ stamp[x] \in 1 .. NumPaths + edits
    <3>1. repo[x] \in Contents /\ stamp[x] \in 0 .. NumPaths + MaxEdits /\ edits \in Nat
      BY <1>1 DEF TypeOK, Table
    <3>2. stamp[x] # 0 /\ stamp[x] <= NumPaths + edits
      BY <1>1 DEF StampInv
    <3> QED BY <3>1, <3>2, WhatIsThere
  <2>2. now[x] = [stamp |-> stamp[x], content |-> repo[x]]
    BY <1>1 DEF FingerprintsOf
  <2> QED BY <2>1, <2>2 DEF Fingerprint, Fingerprints
<1>2. \A x \in Paths : repo[x] = None => now[x] = None
  BY DEF FingerprintsOf
<1>3. \A x \in Paths : now[x] = None <=> repo[x] = None
  BY <1>1, <1>2, WhatIsThere
<1>4. now \in Table(Fingerprints)
  BY <1>1, <1>2 DEF Table, FingerprintsOf
<1>5. Held(now) = repo
  <2>1. \A x \in Paths : Held(now)[x] = repo[x]
    BY <1>1, <1>2, <1>3 DEF Held
  <2>2. Held(now) = [x \in Paths |-> Held(now)[x]] /\ repo = [x \in Paths |-> repo[x]]
    BY DEF Held, TypeOK, Table
  <2> QED BY <2>1, <2>2
<1>6. \A x \in Paths : repo[x] # None => Fingerprint(x) \in InUse
  BY <1>1 DEF InUse
<1> QED BY <1>1, <1>3, <1>4, <1>5, <1>6

(* What a table of fingerprints vouches for is contents.                   *)
LEMMA HeldIsContents ==
    ASSUME NEW fps \in Table(Fingerprints)
    PROVE  /\ Held(fps) \in Table(Contents)
           /\ \A x \in Paths : Held(fps)[x] = None <=> fps[x] = None
<1>1. ASSUME NEW x \in Paths
      PROVE  Held(fps)[x] \in Contents \union {None} /\ (Held(fps)[x] = None <=> fps[x] = None)
  <2>1. fps[x] = None \/ fps[x] \in Fingerprints
    BY DEF Table
  <2>2. Held(fps)[x] = IF fps[x] = None THEN None ELSE fps[x].content
    BY DEF Held
  <2> QED BY <2>1, <2>2, WhatIsThere
<1> QED BY <1>1 DEF Table, Held

(* A builder that changes what it holds, or its stage, and not the disk.   *)
LEMMA MemoryStep ==
    ASSUME IInv, NEW b \in Builders, Working(b), pc[b] \notin Saving,
           NEW l \in Memories, NEW s \in Stages, s # "idle", s \notin Saving,
           own' = [own EXCEPT ![b] = l], pc' = [pc EXCEPT ![b] = s],
           UNCHANGED <<repo, stamp, disk, calm, sound, apart, edits>>,
           l.full \/ (~own[b].full /\ l.prev = own[b].prev),
           calm[b] /\ l.full => s \notin {"save_intel", "done"},
           \A x \in Paths : {l.prev[x], l.fps[x]} \cap Fingerprints \subseteq InUse,
           sound \/ (calm[b] /\ l.full) => Holds(l, s, calm[b], repo, stamp)
    PROVE  IInv'
<1>0. TypeOK /\ StampInv /\ LoneInv /\ MemoryInv /\ DiskInv /\ RebuildInv /\ IntelInv
  BY DEF IInv
<1>1. \A a \in Builders : /\ own'[a] = IF a = b THEN l ELSE own[a]
                          /\ pc'[a] = IF a = b THEN s ELSE pc[a]
  BY <1>0 DEF TypeOK
<1>2. TypeOK'
  BY <1>0 DEF TypeOK
<1>3. InUse' \subseteq InUse
  <2> SUFFICES ASSUME NEW fp \in InUse' PROVE fp \in InUse
    OBVIOUS
  <2>1. fp \in Fingerprints
    BY DEF InUse
  <2>2. CASE \E x \in Paths : repo[x] # None /\ fp = Fingerprint(x)
    BY <2>1, <2>2 DEF InUse
  <2>3. CASE disk["state"] # None /\ \E x \in Paths : fp = disk["state"][x]
    BY <2>1, <2>3 DEF InUse
  <2>4. CASE \E a \in Builders, x \in Paths : fp = own'[a].prev[x] \/ fp = own'[a].fps[x]
    <3>1. PICK a \in Builders, x \in Paths : fp = own'[a].prev[x] \/ fp = own'[a].fps[x]
      BY <2>4
    <3>2. CASE a = b
      BY <1>1, <2>1, <3>1, <3>2
    <3>3. CASE a # b
      BY <1>1, <2>1, <3>1, <3>3 DEF InUse
    <3> QED BY <3>2, <3>3
  <2> QED BY <2>2, <2>3, <2>4 DEF InUse, Fingerprint
<1>4. StampInv'
  BY <1>0, <1>3 DEF StampInv
<1>5. \A a \in Builders : Working(a)' <=> Working(a)
  BY <1>1 DEF Working
<1>6. LoneInv'
  BY <1>0, <1>5 DEF LoneInv
<1>7. MemoryInv'
  <2> SUFFICES ASSUME NEW a \in Builders, Kept(a)'
               PROVE  Holds(own'[a], pc'[a], calm[a], repo, stamp)
    BY DEF MemoryInv
  <2>1. CASE a = b
    BY <1>1, <2>1 DEF Kept
  <2>2. CASE a # b
    BY <1>0, <1>1, <1>5, <2>2 DEF MemoryInv, Kept
  <2> QED BY <2>1, <2>2
<1>8. \A f : Owed(f)' <=> Owed(f)
  BY <1>1 DEF Owed, OwesAt, Saving
<1>9. DiskInv'
  <2> SUFFICES ASSUME sound PROVE DiskInv'
    BY DEF DiskInv
  <2>1. disk["state"] # None /\ Held(disk["state"]) = repo =>
          \A f \in Tables : disk[f] \in {None, TableOf(f, repo)} \/ Owed(f)'
    BY <1>0, <1>8 DEF DiskInv
  <2>2. disk["state"] # None /\ Held(disk["state"]) # repo =>
           /\ \A f \in Tables : disk[f] \in {None, TableOf(f, Held(disk["state"]))}
           /\ \A a \in Builders : pc'[a] \notin Saving
    BY <1>0, <1>1 DEF DiskInv
  <2>3. ASSUME NEW a \in Builders, Working(a)', ~own'[a].full, NEW f \in Tables
        PROVE  \/ disk[f] \in {None, TableOf(f, Held(own'[a].prev)), TableOf(f, repo)}
               \/ Held(own'[a].prev) = repo /\ Owed(f)'
    <3>1. Working(a) /\ ~own[a].full /\ own'[a].prev = own[a].prev
      BY <1>1, <1>5, <2>3
    <3> QED BY <1>0, <1>8, <3>1 DEF DiskInv
  <2> QED BY <2>1, <2>2, <2>3 DEF DiskInv
<1>10. RebuildInv'
  <2> SUFFICES ASSUME NEW a \in Builders, calm[a], own'[a].full
               PROVE  Rebuilt(disk, pc'[a], repo, stamp)
    BY DEF RebuildInv
  <2>1. CASE a = b
    <3>1. s \notin {"save_profile", "save_symbols", "save_graph", "save_intel", "done"}
      BY <1>1, <2>1 DEF Saving
    <3> QED BY <1>1, <2>1, <3>1 DEF Rebuilt
  <2>2. CASE a # b
    BY <1>0, <1>1, <2>2 DEF RebuildInv
  <2> QED BY <2>1, <2>2
<1>11. IntelInv'
  <2>1. \A x, entry : TrueEntry(x, entry, InUse) => TrueEntry(x, entry, InUse')
    BY <1>3 DEF TrueEntry
  <2> QED BY <1>0, <2>1 DEF IntelInv
<1> QED BY <1>2, <1>4, <1>6, <1>7, <1>9, <1>10, <1>11 DEF IInv

(* A builder that starts over holds no fingerprints.                       *)
LEMMA NothingHeld ==
    \A x \in Paths : FromScratch.prev[x] = None /\ FromScratch.fps[x] = None
BY DEF FromScratch, Nothing

(* The memory of a builder that starts over.                               *)
LEMMA StartingOver ==
    /\ FromScratch \in Memories
    /\ FromScratch.full /\ FromScratch.walk = {} /\ FromScratch.todo = {}
    /\ FromScratch.prev = Nothing /\ FromScratch.fps = Nothing
    /\ \A x \in Paths : Nothing[x] = None
    /\ \A alone, r, t : Holds(FromScratch, "walk", alone, r, t)
<1>1. \A S : Nothing \in Table(S)
  BY DEF Nothing, Table
<1>2. FromScratch \in Memories
  BY <1>1 DEF FromScratch, Memories
<1>3. \A alone, r, t : Holds(FromScratch, "walk", alone, r, t)
  BY DEF FromScratch, Holds, WalkHolds, FingerprintsHold, LoadsHold, TablesHold, Loading, Late,
         Saving
<1> QED BY <1>2, <1>3 DEF FromScratch, Nothing

(* What a builder holds, taken apart.                                      *)
LEMMA InMemory ==
    ASSUME NEW l \in Memories
    PROVE  /\ l.full \in BOOLEAN /\ l.walk \subseteq Paths /\ l.todo \subseteq Paths
           /\ l.prev \in Table(Fingerprints) /\ l.fps \in Table(Fingerprints)
           /\ l.profile \in Table(Contents)
           /\ l.symbols \in Table(Facts) /\ l.graph \in Table(Facts)
BY DEF Memories

(* A builder whose memory is trusted, and the fingerprints it holds.       *)
LEMMA WhatABuilderHolds ==
    ASSUME IInv, NEW b \in Builders
    PROVE  /\ own[b] \in Memories /\ pc[b] \in Stages
           /\ \A x \in Paths : {own[b].prev[x], own[b].fps[x]} \cap Fingerprints \subseteq InUse
           /\ Kept(b) => Holds(own[b], pc[b], calm[b], repo, stamp)
           /\ Working(b) /\ (sound \/ (calm[b] /\ own[b].full)) => Kept(b)
<1>1. TypeOK /\ MemoryInv
  BY DEF IInv
<1>2. \A x \in Paths : {own[b].prev[x], own[b].fps[x]} \cap Fingerprints \subseteq InUse
  BY DEF InUse
<1> QED BY <1>1, <1>2 DEF TypeOK, MemoryInv, Kept

(* The three loads replace one table in the memory.                        *)
LEMMA MemoryWithTable ==
    ASSUME NEW l \in Memories, NEW profile \in Table(Contents), NEW facts \in Table(Facts)
    PROVE  \A m \in {[l EXCEPT !.profile = profile], [l EXCEPT !.symbols = facts],
                     [l EXCEPT !.graph = facts]} :
              /\ m \in Memories /\ m.full = l.full /\ m.walk = l.walk /\ m.todo = l.todo
              /\ m.prev = l.prev /\ m.fps = l.fps
BY DEF Memories

(* A table that loads is the one of the state that was loaded before, or   *)
(* one of the repository as it is, unless others work as well.             *)
LEMMA LoadsAreTrue ==
    ASSUME IInv, NEW b \in Builders, pc[b] \in Loading, sound, ~own[b].full,
           NEW f \in Tables, disk[f] # None
    PROVE  Loaded(f, disk[f], own[b], calm[b], repo)
<1>1. Working(b) /\ pc[b] \notin Saving
  BY DEF Working, Loading, Saving
<1>2. \/ disk[f] \in {TableOf(f, Held(own[b].prev)), TableOf(f, repo)}
      \/ Held(own[b].prev) = repo /\ Owed(f)
  BY <1>1 DEF IInv, DiskInv
<1>3. Owed(f) => ~calm[b]
  <2>1. SUFFICES ASSUME NEW a \in Builders, OwesAt(pc[a], f) PROVE ~calm[b]
    BY DEF Owed
  <2>2. a # b /\ Working(a)
    BY <1>1, <2>1 DEF OwesAt, Saving, Working
  <2> QED BY <2>2 DEF IInv, LoneInv
<1> QED BY <1>2, <1>3 DEF Loaded

(* A load that finds its file unreadable starts over.                      *)
LEMMA LoadStartsOver ==
    ASSUME IInv, NEW b \in Builders, pc[b] \in Loading,
           Goto(b, "walk"), Keep(b, FromScratch),
           UNCHANGED <<repo, stamp, disk, calm, sound, apart, edits>>
    PROVE  IInv'
<1>1. Working(b) /\ pc[b] \notin Saving /\ "walk" \in Stages
  BY DEF Working, Loading, Saving, Stages
<1>2. \A x \in Paths : {FromScratch.prev[x], FromScratch.fps[x]} \cap Fingerprints \subseteq InUse
  BY StartingOver, WhatIsThere
<1> QED BY <1>1, <1>2, StartingOver, MemoryStep DEF Goto, Keep, Saving

(* A step of a builder that goes on with what it began.                    *)
LEMMA GoingOn ==
    ASSUME IInv, NEW b \in Builders, Working(b), pc[b] \notin Saving,
           NEW l \in Memories, NEW s \in Stages, s # "idle", s \notin Saving,
           Keep(b, l), Goto(b, s),
           UNCHANGED <<repo, stamp, disk, calm, sound, apart, edits>>,
           l.full = own[b].full, l.prev = own[b].prev,
           calm[b] /\ l.full => s \notin {"save_intel", "done"},
           \A x \in Paths : l.fps[x] = own[b].fps[x] \/ {l.fps[x]} \cap Fingerprints \subseteq InUse,
           Kept(b) => Holds(l, s, calm[b], repo, stamp)
    PROVE  IInv'
<1>1. l.full \/ (~own[b].full /\ l.prev = own[b].prev)
  BY InMemory
<1>2. ASSUME NEW x \in Paths PROVE {l.prev[x], l.fps[x]} \cap Fingerprints \subseteq InUse
  <2>1. {own[b].prev[x], own[b].fps[x]} \cap Fingerprints \subseteq InUse
    BY WhatABuilderHolds
  <2> QED BY <2>1
<1>3. sound \/ (calm[b] /\ l.full) => Holds(l, s, calm[b], repo, stamp)
  BY DEF Kept
<1> QED BY <1>1, <1>2, <1>3, MemoryStep DEF Keep, Goto

(* The load of a table that is there.                                      *)
LEMMA LoadGoesOn ==
    ASSUME IInv, NEW b \in Builders, pc[b] \in Loading,
           NEW f \in Tables, NEW l \in Memories, NEW s \in {"load_symbols", "load_graph", "walk"},
           disk[f] # None, Keep(b, l), Goto(b, s),
           UNCHANGED <<repo, stamp, disk, calm, sound, apart, edits>>,
           l.full = own[b].full, l.walk = own[b].walk, l.prev = own[b].prev, l.fps = own[b].fps,
           ~l.full /\ Loaded(f, disk[f], own[b], calm[b], repo) /\ Kept(b) =>
              LoadsHold(l, s, calm[b], repo)
    PROVE  IInv'
<1>1. Working(b) /\ pc[b] \notin Saving /\ s \in Stages /\ s # "idle" /\ s \notin Saving
  BY DEF Working, Loading, Saving, Stages
<1>2. ASSUME Kept(b) PROVE Holds(l, s, calm[b], repo, stamp)
  <2>1. Holds(own[b], pc[b], calm[b], repo, stamp)
    BY <1>2, WhatABuilderHolds
  <2>2. ~own[b].full /\ l.fps = Nothing
    BY <2>1 DEF Holds, WalkHolds, FingerprintsHold
  <2>3. sound
    BY <1>2, <2>2 DEF Kept
  <2>4. LoadsHold(l, s, calm[b], repo)
    BY <1>2, <2>2, <2>3, LoadsAreTrue
  <2> QED
    BY <2>2, <2>4 DEF Holds, WalkHolds, FingerprintsHold, TablesHold, Loading, Late, Saving
<1> QED BY <1>1, <1>2, GoingOn

(* profile.json, symbols.json and graph.json are loaded one after another. *)
LEMMA LoadSteps ==
    ASSUME IInv, NEW b \in Builders, LoadProfile(b) \/ LoadSymbols(b) \/ LoadGraph(b)
    PROVE  IInv'
<1> DEFINE l == own[b]
<1>0. TypeOK /\ l \in Memories
  BY WhatABuilderHolds DEF IInv
<1>1. \A f \in Tables : UNCHANGED <<repo, stamp, disk, calm, sound, apart, bounds>> =>
                          UNCHANGED <<repo, stamp, disk, calm, sound, apart, edits>>
  BY DEF bounds
<1>2. CASE LoadProfile(b)
  <2> DEFINE m == [l EXCEPT !.profile = disk["profile"]]
  <2>1. CASE disk["profile"] # None
    <3>1. disk["profile"] \in Table(Contents)
      BY <1>0, <2>1 DEF TypeOK
    <3>2. /\ m \in Memories /\ m.full = l.full /\ m.walk = l.walk /\ m.prev = l.prev
          /\ m.fps = l.fps
      BY <1>0, <3>1, MemoryWithTable, StartingOver DEF Memories
    <3>3. m.profile = disk["profile"]
      BY <1>0 DEF Memories
    <3>4. Keep(b, m) /\ Goto(b, "load_symbols") /\ pc[b] = "load_profile"
      BY <1>2, <2>1 DEF LoadProfile, Load, Readable
    <3> HIDE DEF m
    <3>5. Loaded("profile", disk["profile"], l, calm[b], repo)
             => LoadsHold(m, "load_symbols", calm[b], repo)
      BY <3>2, <3>3 DEF LoadsHold, Loaded
    <3> QED BY <1>1, <1>2, <2>1, <3>2, <3>4, <3>5, LoadGoesOn DEF LoadProfile, Load, Loading, Tables
  <2>2. CASE disk["profile"] = None
    BY <1>1, <1>2, <2>2, LoadStartsOver DEF LoadProfile, Load, Loading, Readable, Tables
  <2> QED BY <2>1, <2>2
<1>3. CASE LoadSymbols(b)
  <2> DEFINE m == [l EXCEPT !.symbols = disk["symbols"]]
  <2>1. CASE disk["symbols"] # None
    <3>1. disk["symbols"] \in Table(Facts)
      BY <1>0, <2>1 DEF TypeOK
    <3>2. /\ m \in Memories /\ m.full = l.full /\ m.walk = l.walk /\ m.prev = l.prev
          /\ m.fps = l.fps
      BY <1>0, <3>1, MemoryWithTable, StartingOver DEF Memories
    <3>3. m.symbols = disk["symbols"] /\ m.profile = l.profile
      BY <1>0 DEF Memories
    <3>4. Keep(b, m) /\ Goto(b, "load_graph") /\ pc[b] = "load_symbols"
      BY <1>3, <2>1 DEF LoadSymbols, Load, Readable
    <3> HIDE DEF m
    <3>5. ASSUME Loaded("symbols", disk["symbols"], l, calm[b], repo), Kept(b), ~m.full
          PROVE  LoadsHold(m, "load_graph", calm[b], repo)
      <4>1. Loaded("profile", l.profile, l, calm[b], repo)
        BY <3>2, <3>4, <3>5, WhatABuilderHolds DEF Holds, LoadsHold
      <4> QED BY <3>2, <3>3, <3>5, <4>1 DEF LoadsHold, Loaded
    <3> QED BY <1>1, <1>3, <2>1, <3>2, <3>4, <3>5, LoadGoesOn DEF LoadSymbols, Load, Loading, Tables
  <2>2. CASE disk["symbols"] = None
    BY <1>1, <1>3, <2>2, LoadStartsOver DEF LoadSymbols, Load, Loading, Readable, Tables
  <2> QED BY <2>1, <2>2
<1>4. CASE LoadGraph(b)
  <2> DEFINE m == [l EXCEPT !.graph = disk["graph"]]
  <2>1. CASE disk["graph"] # None
    <3>1. disk["graph"] \in Table(Facts)
      BY <1>0, <2>1 DEF TypeOK
    <3>2. /\ m \in Memories /\ m.full = l.full /\ m.walk = l.walk /\ m.prev = l.prev
          /\ m.fps = l.fps
      BY <1>0, <3>1, MemoryWithTable, StartingOver DEF Memories
    <3>3. m.graph = disk["graph"] /\ m.profile = l.profile /\ m.symbols = l.symbols
      BY <1>0 DEF Memories
    <3>4. Keep(b, m) /\ Goto(b, "walk") /\ pc[b] = "load_graph"
      BY <1>4, <2>1 DEF LoadGraph, Load, Readable
    <3> HIDE DEF m
    <3>5. ASSUME Loaded("graph", disk["graph"], l, calm[b], repo), Kept(b), ~m.full
          PROVE  LoadsHold(m, "walk", calm[b], repo)
      <4>1. /\ Loaded("profile", l.profile, l, calm[b], repo)
            /\ Loaded("symbols", l.symbols, l, calm[b], repo)
        BY <3>2, <3>4, <3>5, WhatABuilderHolds DEF Holds, LoadsHold
      <4> QED BY <3>2, <3>3, <3>5, <4>1 DEF LoadsHold, Loaded
    <3> QED BY <1>1, <1>4, <2>1, <3>2, <3>4, <3>5, LoadGoesOn DEF LoadGraph, Load, Loading, Tables
  <2>2. CASE disk["graph"] = None
    BY <1>1, <1>4, <2>2, LoadStartsOver DEF LoadGraph, Load, Loading, Readable, Tables
  <2> QED BY <2>1, <2>2
<1> QED BY <1>2, <1>3, <1>4

(* A walk finds the files there are.                                       *)
LEMMA WalkStep ==
    ASSUME IInv, NEW b \in Builders, Walk(b) PROVE IInv'
<1> DEFINE l == own[b]
           there == {x \in Paths : repo[x] # None}
           left == IF l.full THEN {} ELSE there
           s == IF l.full THEN "build_profile" ELSE "diff"
<1> USE DEF Existing
<1>1. l \in Memories /\ left \in SUBSET Paths
  BY WhatABuilderHolds
<1>2. PICK m : m = [l EXCEPT !.walk = there, !.todo = left]
  OBVIOUS
<1>3. /\ m \in Memories /\ m.walk = there /\ m.todo = left
      /\ m.full = l.full /\ m.prev = l.prev /\ m.fps = l.fps
      /\ m.profile = l.profile /\ m.symbols = l.symbols /\ m.graph = l.graph
  BY <1>1, <1>2 DEF Memories
<1>4. Keep(b, m) /\ Goto(b, s) /\ pc[b] = "walk"
      /\ UNCHANGED <<repo, stamp, disk, calm, sound, apart, edits>>
  BY <1>2 DEF Walk, bounds
<1>5. /\ Working(b) /\ pc[b] \notin Saving /\ s \in Stages /\ s # "idle" /\ s \notin Saving
      /\ s \notin {"save_intel", "done"}
  BY <1>4 DEF Working, Saving, Stages
<1>6. ASSUME Kept(b) PROVE Holds(m, s, calm[b], repo, stamp)
  <2>1. Holds(l, "walk", calm[b], repo, stamp)
    BY <1>4, <1>6, WhatABuilderHolds
  <2>2. l.fps = Nothing
    BY <2>1 DEF Holds, FingerprintsHold
  <2>3. l.full \in BOOLEAN
    BY <1>1, InMemory
  <2>4. CASE l.full
    <3>1. l.symbols = Nothing /\ l.graph = Nothing
      BY <2>1, <2>4 DEF Holds, TablesHold
    <3> QED BY <1>3, <2>2, <2>4, <3>1
            DEF Holds, WalkHolds, FingerprintsHold, LoadsHold, TablesHold, Loading, Late, Saving
  <2>5. CASE ~l.full
    <3>1. m.fps = [x \in Paths |-> IF x \in m.todo THEN None ELSE FingerprintsOf(repo, stamp)[x]]
      BY <1>3, <2>2, <2>5 DEF Nothing, FingerprintsOf
    <3>2. \A f \in Tables : \A table : Loaded(f, table, l, calm[b], repo)
                                         => Loaded(f, table, m, calm[b], repo)
      BY <1>3 DEF Loaded
    <3>3. LoadsHold(m, s, calm[b], repo)
      BY <1>3, <2>1, <2>5, <3>2 DEF Holds, LoadsHold, Tables
    <3> QED BY <1>3, <2>5, <3>1, <3>3
            DEF Holds, WalkHolds, FingerprintsHold, TablesHold, Loading, Late, Saving
  <2> QED BY <2>3, <2>4, <2>5
<1> HIDE DEF s, l
<1> QED BY <1>3, <1>4, <1>5, <1>6, GoingOn DEF l

(* One of the files a loop has left.                                       *)
LEMMA NextIsLeft ==
    ASSUME NEW b \in Builders, own[b] \in Memories, own[b].todo # {}
    PROVE  NextFile(b) \in own[b].todo /\ NextFile(b) \in Paths
<1>1. own[b].todo \subseteq Paths
  BY InMemory
<1>2. own[b].todo \in SUBSET Nat
  BY <1>1, WhatIsThere
<1> QED BY <1>1, <1>2, MinIsLeast DEF NextFile

(* A fingerprint taken or kept is the one of the file as it is.            *)
LEMMA FingerprintIsNew ==
    ASSUME IInv, NEW b \in Builders, NEW x \in Paths, repo[x] # None
    PROVE  NewFingerprint(own[b], x) = Fingerprint(x) /\ Fingerprint(x) \in InUse
<1> DEFINE old == own[b].prev[x]
<1>1. Fingerprint(x) \in InUse /\ InUse \subseteq Fingerprints
  BY FingerprintsAreTrue DEF IInv, InUse
<1>2. CASE old # None /\ old.stamp = stamp[x]
  <2>1. old \in Fingerprints
    BY <1>2, WhatABuilderHolds, InMemory DEF Table
  <2>2. old \in InUse
    BY <2>1 DEF InUse
  <2>3. old.content = Fingerprint(x).content /\ old.stamp = Fingerprint(x).stamp
    BY <1>1, <1>2, <2>2 DEF IInv, StampInv, Fingerprint
  <2>4. old = Fingerprint(x)
    BY <1>1, <2>1, <2>3 DEF Fingerprints
  <2> QED BY <1>1, <1>2, <2>4 DEF NewFingerprint
<1>3. CASE ~(old # None /\ old.stamp = stamp[x])
  BY <1>1, <1>3 DEF NewFingerprint
<1> QED BY <1>2, <1>3

(* One more file of the loop has its fingerprint.                          *)
Fingerprinting(l, x, fp) == [l EXCEPT !.todo = @ \ {x}, !.fps[x] = fp]

(* What a builder holds with one more fingerprint.                         *)
LEMMA MemoryWithFingerprint ==
    ASSUME NEW l \in Memories, NEW x \in Paths, NEW fp \in Fingerprints \union {None},
           NEW m, m = Fingerprinting(l, x, fp)
    PROVE  /\ m \in Memories /\ m.todo = l.todo \ {x} /\ m.fps = [l.fps EXCEPT ![x] = fp]
           /\ m.full = l.full /\ m.walk = l.walk /\ m.prev = l.prev
           /\ m.profile = l.profile /\ m.symbols = l.symbols /\ m.graph = l.graph
<1>1. [l.fps EXCEPT ![x] = fp] \in Table(Fingerprints) /\ l.todo \ {x} \in SUBSET Paths
  BY InMemory DEF Table
<1> QED BY <1>1 DEF Memories, Fingerprinting

(* The two loops that fingerprint files.                                   *)
LEMMA FingerprintSteps ==
    ASSUME IInv, NEW b \in Builders, DiffFile(b) \/ FingerprintFile(b) PROVE IInv'
<1> DEFINE l == own[b]
           x == NextFile(b)
           now == FingerprintsOf(repo, stamp)
<1>0. TypeOK /\ StampInv /\ l \in Memories
  BY WhatABuilderHolds DEF IInv
<1>1. /\ l.todo # {} /\ pc[b] \in {"diff", "fingerprint"}
      /\ UNCHANGED <<repo, stamp, disk, calm, sound, apart, edits>>
  BY DEF DiffFile, FingerprintFile, bounds
<1>2. x \in l.todo /\ x \in Paths
  BY <1>0, <1>1, NextIsLeft
<1>3. PICK fp \in {None, Fingerprint(x), NewFingerprint(l, x)} :
         /\ Keep(b, Fingerprinting(l, x, fp))
         /\ repo[x] # None => fp # None
         /\ fp = None => repo[x] = None
         /\ repo[x] = None => fp = None
  <2>1. repo[x] # None => NewFingerprint(l, x) # None /\ Fingerprint(x) # None
    <3>1. InUse \subseteq Fingerprints
      BY DEF InUse
    <3> QED BY <1>2, <3>1, FingerprintIsNew, WhatIsThere
  <2> QED BY <2>1 DEF DiffFile, FingerprintFile, Fingerprinting
<1>4. /\ fp = now[x]
      /\ fp \in Fingerprints \union {None} /\ {fp} \cap Fingerprints \subseteq InUse
  <2>1. CASE repo[x] = None
    BY <1>2, <1>3, <2>1, WhatIsThere DEF FingerprintsOf
  <2>2. CASE repo[x] # None
    <3>1. fp = Fingerprint(x) /\ fp \in InUse
      BY <1>2, <1>3, <2>2, FingerprintIsNew
    <3>2. now[x] = Fingerprint(x)
      BY <1>0, <1>2, <2>2, FingerprintsAreTrue
    <3> QED BY <3>1, <3>2 DEF InUse
  <2> QED BY <2>1, <2>2
<1>5. PICK m : m = Fingerprinting(l, x, fp)
  OBVIOUS
<1>6. /\ m \in Memories /\ m.todo = l.todo \ {x} /\ m.fps = [l.fps EXCEPT ![x] = fp]
      /\ m.full = l.full /\ m.walk = l.walk /\ m.prev = l.prev
      /\ m.profile = l.profile /\ m.symbols = l.symbols /\ m.graph = l.graph
  <2> HIDE DEF l, x
  <2> QED BY <1>0, <1>2, <1>4, <1>5, MemoryWithFingerprint
<1>7. /\ Working(b) /\ pc[b] \notin Saving /\ pc[b] \in Stages /\ Goto(b, pc[b])
      /\ pc[b] \notin {"save_intel", "done", "idle"} /\ Keep(b, m)
  BY <1>0, <1>1, <1>3, <1>5 DEF Working, Saving, Stages, Goto, TypeOK, DiffFile, FingerprintFile
<1>8. \A y \in Paths : m.fps[y] = l.fps[y] \/ {m.fps[y]} \cap Fingerprints \subseteq InUse
  BY <1>0, <1>4, <1>6, InMemory DEF Table
<1>9. ASSUME Kept(b) PROVE Holds(m, pc[b], calm[b], repo, stamp)
  <2>1. Holds(l, pc[b], calm[b], repo, stamp)
    BY <1>9, WhatABuilderHolds
  <2>2. /\ l.todo \subseteq Existing(repo)
        /\ l.fps = [y \in Paths |-> IF y \in l.todo THEN None ELSE now[y]]
    BY <1>1, <2>1 DEF Holds, FingerprintsHold
  <2>3. m.fps = [y \in Paths |-> IF y \in m.todo THEN None ELSE now[y]]
    <3> HIDE DEF now
    <3> QED BY <1>2, <1>4, <1>6, <2>2
  <2>4. FingerprintsHold(m, pc[b], repo, stamp)
    BY <1>1, <1>6, <2>2, <2>3 DEF FingerprintsHold, Loading, Late, Saving
  <2>5. WalkHolds(m, pc[b], repo)
    BY <1>6, <2>1 DEF Holds, WalkHolds
  <2>6. \A f \in Tables : \A table : Loaded(f, table, l, calm[b], repo)
                                       => Loaded(f, table, m, calm[b], repo)
    BY <1>6 DEF Loaded
  <2>7. LoadsHold(m, pc[b], calm[b], repo)
    BY <1>6, <2>1, <2>6 DEF Holds, LoadsHold, Tables
  <2>8. TablesHold(m, pc[b], calm[b], repo)
    BY <1>1, <1>6, <2>1 DEF Holds, TablesHold
  <2> QED BY <2>4, <2>5, <2>7, <2>8 DEF Holds
<1> HIDE DEF l
<1> QED BY <1>1, <1>6, <1>7, <1>8, <1>9, GoingOn DEF l

(* A step of a builder that changes nothing it holds.                      *)
LEMMA MovingOn ==
    ASSUME IInv, NEW b \in Builders, Working(b), pc[b] \notin Saving,
           NEW s \in Stages, s # "idle", s \notin Saving, Goto(b, s),
           UNCHANGED <<repo, stamp, disk, own, calm, sound, apart, edits>>,
           calm[b] /\ own[b].full => s \notin {"save_intel", "done"},
           Kept(b) => Holds(own[b], s, calm[b], repo, stamp)
    PROVE  IInv'
<1>1. own[b] \in Memories /\ Keep(b, own[b])
  BY WhatABuilderHolds DEF IInv, TypeOK, Keep
<1> QED BY <1>1, GoingOn

(* What a builder holds that has walked and fingerprinted the repository.  *)
LEMMA WalkedAndFingerprinted ==
    ASSUME TypeOK, StampInv, NEW l, l.fps = FingerprintsOf(repo, stamp), l.walk = Existing(repo)
    PROVE  \A x \in Paths : /\ l.fps[x] = None <=> repo[x] = None
                            /\ l.fps[x] # None => l.fps[x].content = repo[x]
                            /\ x \in l.walk <=> repo[x] # None
<1>1. \A x \in Paths : l.fps[x] = None <=> repo[x] = None
  BY FingerprintsAreTrue
<1>2. \A x \in Paths : repo[x] # None => l.fps[x].content = repo[x]
  BY DEF FingerprintsOf
<1> QED BY <1>1, <1>2 DEF Existing

(* The end of a diff.                                                      *)
LEMMA DiffIsTrue ==
    ASSUME IInv, NEW b \in Builders, own[b].fps = FingerprintsOf(repo, stamp),
           own[b].walk = Existing(repo)
    PROVE  EmptyDiff(own[b]) <=> Held(own[b].prev) = repo
<1> DEFINE l == own[b]
<1>0. TypeOK /\ StampInv
  BY DEF IInv
<1>1. /\ l.prev \in Table(Fingerprints) /\ Held(l.prev) \in Table(Contents)
      /\ \A x \in Paths : Held(l.prev)[x] = None <=> l.prev[x] = None
      /\ repo \in Table(Contents)
  BY <1>0, WhatABuilderHolds, InMemory, HeldIsContents DEF TypeOK
<1>2. \A x \in Paths : l.prev[x] # None => Held(l.prev)[x] = l.prev[x].content
  BY DEF Held
<1>3. \A x \in Paths : /\ l.fps[x] = None <=> repo[x] = None
                       /\ l.fps[x] # None => l.fps[x].content = repo[x]
                       /\ x \in l.walk <=> repo[x] # None
  BY <1>0, WalkedAndFingerprinted
<1>4. ASSUME EmptyDiff(l) PROVE Held(l.prev) = repo
  <2>1. \A x \in Paths : Held(l.prev)[x] = repo[x]
    BY <1>1, <1>2, <1>3, <1>4 DEF EmptyDiff, Added, Modified, Gone
  <2> QED BY <1>1, <2>1 DEF Table
<1>5. ASSUME Held(l.prev) = repo PROVE EmptyDiff(l)
  BY <1>1, <1>2, <1>3, <1>5 DEF EmptyDiff, Added, Modified, Gone
<1> QED BY <1>4, <1>5

(* A diff ends in a cache hit or in a refresh.                             *)
LEMMA DiffedStep ==
    ASSUME IInv, NEW b \in Builders, Diffed(b) PROVE IInv'
<1> DEFINE l == own[b]
           s == IF EmptyDiff(l) THEN "save_state" ELSE "build_profile"
<1>1. /\ pc[b] = "diff" /\ l.todo = {} /\ Goto(b, s)
      /\ UNCHANGED <<repo, stamp, disk, own, calm, sound, apart, edits>>
  BY DEF Diffed, bounds
<1>2. /\ Working(b) /\ pc[b] \notin Saving /\ s \in Stages /\ s # "idle" /\ s \notin Saving
      /\ s \notin {"save_intel", "done"}
  BY <1>1 DEF Working, Saving, Stages
<1>3. ASSUME Kept(b) PROVE Holds(l, s, calm[b], repo, stamp)
  <2>1. Holds(l, "diff", calm[b], repo, stamp)
    BY <1>1, <1>3, WhatABuilderHolds
  <2>2. ~l.full /\ l.walk = Existing(repo)
    BY <2>1 DEF Holds, WalkHolds, Loading
  <2>3. l.fps = FingerprintsOf(repo, stamp)
    BY <1>1, <2>1 DEF Holds, FingerprintsHold, FingerprintsOf
  <2>4. EmptyDiff(l) <=> Held(l.prev) = repo
    BY <2>2, <2>3, DiffIsTrue
  <2>5. /\ Loaded("profile", l.profile, l, calm[b], repo)
        /\ Loaded("symbols", l.symbols, l, calm[b], repo)
        /\ Loaded("graph", l.graph, l, calm[b], repo)
    BY <2>1, <2>2 DEF Holds, LoadsHold
  <2>6. CASE EmptyDiff(l)
    <3>1. \/ l.profile = repo /\ l.symbols = FactsOf(repo) /\ l.graph = FactsOf(repo)
          \/ Held(l.prev) = repo /\ ~calm[b]
      BY <2>4, <2>5, <2>6 DEF Loaded, TableOf
    <3> QED BY <2>2, <2>3, <2>6, <3>1
            DEF Holds, WalkHolds, FingerprintsHold, LoadsHold, TablesHold, Loading, Late, Saving
  <2>7. CASE ~EmptyDiff(l)
    BY <2>2, <2>3, <2>4, <2>5, <2>7
       DEF Holds, WalkHolds, FingerprintsHold, LoadsHold, TablesHold, Loading, Late, Saving
  <2> QED BY <2>6, <2>7
<1> HIDE DEF s
<1> QED BY <1>1, <1>2, <1>3, MovingOn

(* Facts put right for the files that are gone or renamed are those of the *)
(* repository as it is, wherever nothing has to be parsed again.           *)
LEMMA RelocatedFactsAreTrue ==
    ASSUME IInv, RenamesKeepTheLanguage, NEW b \in Builders, pc[b] = "build_profile",
           own[b].fps = FingerprintsOf(repo, stamp), own[b].walk = Existing(repo),
           NEW facts \in {FactsOf(Held(own[b].prev)), FactsOf(repo)},
           NEW x \in Paths \ Reextracted(own[b])
    PROVE  Relocate(own[b], facts)[x] = FactsOf(repo)[x]
<1> DEFINE l == own[b]
           from(o) == <<o, x>> \in Renamed(l)
<1>0. TypeOK /\ StampInv
  BY DEF IInv
<1>1. /\ \A y \in Paths : Held(l.prev)[y] = IF l.prev[y] = None THEN None ELSE l.prev[y].content
      /\ \A y \in Paths : Held(l.prev)[y] = None <=> l.prev[y] = None
  BY WhatABuilderHolds, InMemory, HeldIsContents DEF Held
<1>2. \A y \in Paths : /\ l.fps[y] = None <=> repo[y] = None
                       /\ l.fps[y] # None => l.fps[y].content = repo[y]
                       /\ y \in l.walk <=> repo[y] # None
  BY <1>0, WalkedAndFingerprinted
<1>3. \A held : \A y \in Paths :
         FactsOf(held)[y] = IF held[y] = None THEN None ELSE Extracted(y, held[y])
  BY DEF FactsOf
<1>4. \A o \in Gone(l) : o \in Paths /\ l.prev[o] # None /\ repo[o] = None
  BY <1>2 DEF Gone
<1>5. Relocate(l, facts)[x] =
         IF x \in Gone(l) THEN None
         ELSE IF \E o \in Gone(l) : from(o) /\ facts[o] # None
         THEN facts[CHOOSE o \in Gone(l) : from(o)]
         ELSE facts[x]
  BY DEF Relocate
<1>6. ASSUME NEW o \in Gone(l), from(o)
      PROVE  /\ repo[x] # None /\ l.prev[x] = None
             /\ facts = FactsOf(repo) => facts[o] = None
             /\ facts = FactsOf(Held(l.prev)) => facts[o] = FactsOf(repo)[x]
  <2>1. x \in Added(l) /\ l.prev[o].content = l.fps[x].content
    BY <1>6 DEF Renamed
  <2>2. repo[x] # None /\ l.prev[x] = None /\ l.prev[o].content = repo[x]
    BY <1>2, <2>1 DEF Added
  <2>3. Language[o] = Language[x]
    BY <1>6 DEF RenamesKeepTheLanguage
  <2>4. Extracted(o, repo[x]) = Extracted(x, repo[x])
    BY <2>3 DEF Extracted
  <2>5. Held(l.prev)[o] = repo[x]
    BY <1>1, <1>4, <1>6, <2>2
  <2>6. FactsOf(Held(l.prev))[o] = FactsOf(repo)[x]
    BY <1>3, <1>4, <1>6, <2>2, <2>4, <2>5
  <2>7. FactsOf(repo)[o] = None
    BY <1>3, <1>4, <1>6
  <2> QED BY <2>2, <2>6, <2>7
<1>7. CASE x \in Gone(l)
  BY <1>3, <1>4, <1>5, <1>7
<1>8. CASE x \notin Gone(l) /\ \E o \in Gone(l) : from(o) /\ facts[o] # None
  <2>1. PICK o \in Gone(l) : from(o) /\ facts[o] # None
    BY <1>8
  <2>2. /\ (CHOOSE p \in Gone(l) : from(p)) \in Gone(l)
        /\ from(CHOOSE p \in Gone(l) : from(p))
    BY <2>1
  <2>3. facts = FactsOf(Held(l.prev))
    BY <1>6, <2>1
  <2>4. facts[CHOOSE p \in Gone(l) : from(p)] = FactsOf(repo)[x]
    BY <1>6, <2>2, <2>3
  <2> QED BY <1>5, <1>8, <2>4
<1>9. CASE x \notin Gone(l) /\ ~ \E o \in Gone(l) : from(o) /\ facts[o] # None
  <2>1. Relocate(l, facts)[x] = facts[x]
    BY <1>5, <1>9
  <2>2. CASE facts = FactsOf(repo)
    BY <2>1, <2>2
  <2>3. CASE facts = FactsOf(Held(l.prev)) /\ \E o \in Gone(l) : from(o)
    <3>1. PICK o \in Gone(l) : from(o)
      BY <2>3
    <3>2. facts[o] = None /\ facts[o] = FactsOf(repo)[x] /\ l.prev[x] = None
      BY <1>6, <1>9, <2>3, <3>1
    <3> QED BY <1>1, <1>3, <2>1, <2>3, <3>2
  <2>4. CASE facts = FactsOf(Held(l.prev)) /\ ~ \E o \in Gone(l) : from(o)
    <3>1. x \notin {p[2] : p \in Renamed(l)}
      <4>1. SUFFICES ASSUME NEW p \in Renamed(l), x = p[2] PROVE FALSE
        OBVIOUS
      <4>2. p \in Gone(l) \X Added(l)
        BY <4>1 DEF Renamed
      <4>3. p = <<p[1], x>> /\ p[1] \in Gone(l)
        BY <4>1, <4>2
      <4> QED BY <2>4, <4>1, <4>3
    <3>2. x \notin Added(l) /\ x \notin Modified(l)
      BY <3>1 DEF Reextracted
    <3>3. Held(l.prev)[x] = repo[x]
      BY <1>1, <1>2, <1>9, <3>2 DEF Added, Modified, Gone
    <3> QED BY <1>3, <2>1, <2>4, <3>3
  <2> QED BY <2>2, <2>3, <2>4
<1> QED BY <1>7, <1>8, <1>9

(* What building the profile leaves in the memory.                         *)
Profiled(l, profile, symbols, graph, todo) ==
    [l EXCEPT !.profile = profile, !.symbols = symbols, !.graph = graph, !.todo = todo]

(* What a builder holds with a profile and the facts put right.            *)
LEMMA MemoryWithProfile ==
    ASSUME NEW l \in Memories, NEW profile \in Table(Contents), NEW symbols \in Table(Facts),
           NEW graph \in Table(Facts), NEW todo \in SUBSET Paths,
           NEW m, m = Profiled(l, profile, symbols, graph, todo)
    PROVE  /\ m \in Memories /\ m.profile = profile /\ m.symbols = symbols /\ m.graph = graph
           /\ m.todo = todo /\ m.full = l.full /\ m.walk = l.walk /\ m.prev = l.prev
           /\ m.fps = l.fps
BY DEF Memories, Profiled

(* Facts put right are facts, and what is to be parsed is paths.           *)
LEMMA RelocatedTypes ==
    ASSUME NEW l \in Memories, NEW facts \in Table(Facts)
    PROVE  Relocate(l, facts) \in Table(Facts) /\ Reextracted(l) \in SUBSET Paths
<1>1. ASSUME NEW x \in Paths PROVE Relocate(l, facts)[x] \in Facts \union {None}
  <2> DEFINE from(o) == <<o, x>> \in Renamed(l)
             first == CHOOSE o \in Gone(l) : from(o)
  <2>1. \A y \in Paths : facts[y] \in Facts \union {None}
    BY DEF Table
  <2>2. \A o \in Gone(l) : o \in Paths
    BY DEF Gone
  <2>3. (\E o \in Gone(l) : from(o) /\ facts[o] # None) => first \in Gone(l)
    OBVIOUS
  <2>4. (\E o \in Gone(l) : from(o) /\ facts[o] # None) => facts[first] \in Facts \union {None}
    BY <2>1, <2>2, <2>3
  <2>5. Relocate(l, facts)[x] =
           IF x \in Gone(l) THEN None
           ELSE IF \E o \in Gone(l) : from(o) /\ facts[o] # None THEN facts[first]
           ELSE facts[x]
    BY DEF Relocate
  <2> HIDE DEF first
  <2> QED BY <2>1, <2>4, <2>5
<1>2. Reextracted(l) \subseteq Paths
  BY DEF Reextracted, Added, Modified
<1> QED BY <1>1, <1>2 DEF Table, Relocate

(* build_profile and the facts of deleted and renamed files.               *)
LEMMA BuildProfileStep ==
    ASSUME IInv, RenamesKeepTheLanguage, NEW b \in Builders, BuildProfile(b) PROVE IInv'
<1> DEFINE l == own[b]
           profile == [x \in Paths |-> IF x \in l.walk THEN repo[x] ELSE None]
           symbols == IF l.full THEN l.symbols ELSE Relocate(l, l.symbols)
           graph == IF l.full THEN l.graph ELSE Relocate(l, l.graph)
           todo == IF l.full THEN l.walk ELSE Reextracted(l)
<1>0. TypeOK /\ StampInv /\ l \in Memories
  BY WhatABuilderHolds DEF IInv
<1>1. profile \in Table(Contents)
  BY <1>0 DEF TypeOK, Table
<1>2. symbols \in Table(Facts) /\ graph \in Table(Facts) /\ todo \in SUBSET Paths
  BY <1>0, RelocatedTypes, InMemory
<1>3. PICK m : m = Profiled(l, profile, symbols, graph, todo)
  OBVIOUS
<1>4. /\ Keep(b, m) /\ Goto(b, "parse") /\ pc[b] = "build_profile"
      /\ UNCHANGED <<repo, stamp, disk, calm, sound, apart, edits>>
  BY <1>3 DEF BuildProfile, Profiled, bounds
<1>5. /\ m \in Memories /\ m.profile = profile /\ m.symbols = symbols /\ m.graph = graph
      /\ m.todo = todo /\ m.full = l.full /\ m.walk = l.walk /\ m.prev = l.prev
      /\ m.fps = l.fps
  <2> HIDE DEF l, profile, symbols, graph, todo
  <2> QED BY <1>0, <1>1, <1>2, <1>3, MemoryWithProfile
<1>6. /\ Working(b) /\ pc[b] \notin Saving /\ "parse" \in Stages /\ "parse" # "idle"
      /\ "parse" \notin Saving /\ "parse" \notin {"save_intel", "done"}
  BY <1>4 DEF Working, Saving, Stages
<1>7. ASSUME Kept(b) PROVE Holds(m, "parse", calm[b], repo, stamp)
  <2>1. Holds(l, "build_profile", calm[b], repo, stamp)
    BY <1>4, <1>7, WhatABuilderHolds
  <2>2. l.walk = Existing(repo)
    BY <2>1 DEF Holds, WalkHolds, Loading
  <2>3. profile = repo
    <3>1. \A x \in Paths : profile[x] = repo[x]
      BY <2>2 DEF Existing
    <3> QED BY <1>0, <1>1, <3>1 DEF TypeOK, Table
  <2>4. FingerprintsHold(m, "parse", repo, stamp)
    BY <1>5, <2>1 DEF Holds, FingerprintsHold, Loading, Late, Saving
  <2>5. WalkHolds(m, "parse", repo)
    BY <1>5, <2>2 DEF WalkHolds, Loading
  <2>6. LoadsHold(m, "parse", calm[b], repo)
    BY DEF LoadsHold
  <2>7. /\ todo \subseteq Existing(repo)
        /\ \A x \in Paths \ todo : symbols[x] = FactsOf(repo)[x] /\ graph[x] = FactsOf(repo)[x]
    <3>1. CASE l.full
      <4>1. l.symbols = Nothing /\ l.graph = Nothing
        BY <2>1, <3>1 DEF Holds, TablesHold
      <4>2. \A x \in Paths \ todo : FactsOf(repo)[x] = None
        BY <2>2, <3>1 DEF FactsOf, Existing
      <4> QED BY <2>2, <3>1, <4>1, <4>2, StartingOver
    <3>2. CASE ~l.full
      <4>1. l.fps = FingerprintsOf(repo, stamp) /\ Held(l.prev) # repo
        BY <2>1, <3>2 DEF Holds, FingerprintsHold
      <4>2. l.symbols \in {FactsOf(Held(l.prev)), FactsOf(repo)}
            /\ l.graph \in {FactsOf(Held(l.prev)), FactsOf(repo)}
        BY <2>1, <3>2, <4>1 DEF Holds, LoadsHold, Loaded, TableOf
      <4>3. todo \subseteq Existing(repo)
        <5>1. \A x \in Paths : l.fps[x] = None <=> repo[x] = None
          BY <1>0, <2>2, <4>1, WalkedAndFingerprinted
        <5> QED BY <3>2, <5>1 DEF Reextracted, Added, Modified, Existing
      <4>4. ASSUME NEW x \in Paths \ todo
            PROVE  symbols[x] = FactsOf(repo)[x] /\ graph[x] = FactsOf(repo)[x]
        <5>1. x \in Paths \ Reextracted(l)
          BY <3>2, <4>4
        <5>2. \A facts \in {FactsOf(Held(l.prev)), FactsOf(repo)} :
                 Relocate(l, facts)[x] = FactsOf(repo)[x]
          BY <1>4, <2>2, <4>1, <5>1, RelocatedFactsAreTrue
        <5> QED BY <3>2, <4>2, <5>2
      <4> QED BY <4>3, <4>4
    <3> QED BY <1>0, <3>1, <3>2, InMemory
  <2>8. TablesHold(m, "parse", calm[b], repo)
    <3> HIDE DEF profile, symbols, graph, todo
    <3> QED BY <1>5, <2>3, <2>7 DEF TablesHold, Late, Saving
  <2> QED BY <2>4, <2>5, <2>6, <2>8 DEF Holds
<1> HIDE DEF l
<1> QED BY <1>4, <1>5, <1>6, <1>7, GoingOn DEF l

(* One more file of the loop is parsed, for both tables.                   *)
Parsing(l, x, facts) == [l EXCEPT !.todo = @ \ {x}, !.symbols[x] = facts, !.graph[x] = facts]

(* What a builder holds with the facts of one more file.                   *)
LEMMA MemoryWithFacts ==
    ASSUME NEW l \in Memories, NEW x \in Paths, NEW facts \in Facts \union {None},
           NEW m, m = Parsing(l, x, facts)
    PROVE  /\ m \in Memories /\ m.todo = l.todo \ {x}
           /\ m.symbols = [l.symbols EXCEPT ![x] = facts]
           /\ m.graph = [l.graph EXCEPT ![x] = facts]
           /\ m.full = l.full /\ m.walk = l.walk /\ m.prev = l.prev
           /\ m.profile = l.profile /\ m.fps = l.fps
<1>1. /\ [l.symbols EXCEPT ![x] = facts] \in Table(Facts)
      /\ [l.graph EXCEPT ![x] = facts] \in Table(Facts) /\ l.todo \ {x} \in SUBSET Paths
  BY InMemory DEF Table
<1> QED BY <1>1 DEF Memories, Parsing

(* A file that is parsed has the facts of its content.                     *)
LEMMA ParseFileStep ==
    ASSUME IInv, NEW b \in Builders, ParseFile(b) PROVE IInv'
<1> DEFINE l == own[b]
           x == NextFile(b)
           facts == Extracted(x, repo[x])
<1>0. TypeOK /\ l \in Memories
  BY WhatABuilderHolds DEF IInv
<1>1. /\ l.todo # {} /\ pc[b] = "parse" /\ Goto(b, "parse")
      /\ Keep(b, Parsing(l, x, facts))
      /\ UNCHANGED <<repo, stamp, disk, calm, sound, apart, edits>>
  BY <1>0 DEF ParseFile, Parsing, bounds, Goto, TypeOK
<1>2. x \in l.todo /\ x \in Paths
  BY <1>0, <1>1, NextIsLeft
<1>3. facts \in Facts \union {None}
  BY <1>0, <1>2, FactsOfContents DEF TypeOK, Table
<1>4. PICK m : m = Parsing(l, x, facts)
  OBVIOUS
<1>5. /\ m \in Memories /\ m.todo = l.todo \ {x}
      /\ m.symbols = [l.symbols EXCEPT ![x] = facts]
      /\ m.graph = [l.graph EXCEPT ![x] = facts]
      /\ m.full = l.full /\ m.walk = l.walk /\ m.prev = l.prev
      /\ m.profile = l.profile /\ m.fps = l.fps
  <2> HIDE DEF l, x, facts
  <2> QED BY <1>0, <1>2, <1>3, <1>4, MemoryWithFacts
<1>6. /\ Working(b) /\ pc[b] \notin Saving /\ "parse" \in Stages /\ "parse" # "idle"
      /\ "parse" \notin Saving /\ "parse" \notin {"save_intel", "done"}
  BY <1>1 DEF Working, Saving, Stages
<1>7. ASSUME Kept(b) PROVE Holds(m, "parse", calm[b], repo, stamp)
  <2>1. Holds(l, "parse", calm[b], repo, stamp)
    BY <1>1, <1>7, WhatABuilderHolds
  <2>2. /\ l.todo \subseteq Existing(repo) /\ l.profile = repo
        /\ \A y \in Paths \ l.todo : /\ l.symbols[y] = FactsOf(repo)[y]
                                     /\ l.graph[y] = FactsOf(repo)[y]
    BY <2>1 DEF Holds, TablesHold
  <2>3. facts = FactsOf(repo)[x]
    BY <1>2, <2>2 DEF FactsOf, Existing
  <2>4. l.symbols = [y \in Paths |-> l.symbols[y]] /\ l.graph = [y \in Paths |-> l.graph[y]]
    BY <1>0, InMemory DEF Table
  <2>5. \A y \in Paths \ m.todo : m.symbols[y] = FactsOf(repo)[y] /\ m.graph[y] = FactsOf(repo)[y]
    <3> HIDE DEF facts
    <3> QED BY <1>2, <1>5, <2>2, <2>3, <2>4
  <2>6. TablesHold(m, "parse", calm[b], repo)
    BY <1>5, <2>2, <2>5 DEF TablesHold, Late
  <2>7. /\ WalkHolds(m, "parse", repo) /\ FingerprintsHold(m, "parse", repo, stamp)
        /\ LoadsHold(m, "parse", calm[b], repo)
    BY <1>5, <2>1 DEF Holds, WalkHolds, FingerprintsHold, LoadsHold, Loading, Late, Saving
  <2> QED BY <2>6, <2>7 DEF Holds
<1> HIDE DEF l
<1> QED BY <1>1, <1>4, <1>5, <1>6, <1>7, GoingOn DEF l

(* The end of the parsing: a full rebuild has its files to fingerprint.    *)
LEMMA ParsedStep ==
    ASSUME IInv, NEW b \in Builders, Parsed(b) PROVE IInv'
<1> DEFINE l == own[b]
<1>0. TypeOK /\ l \in Memories /\ l.full \in BOOLEAN
  BY WhatABuilderHolds, InMemory DEF IInv
<1>1. /\ pc[b] = "parse" /\ l.todo = {}
      /\ UNCHANGED <<repo, stamp, disk, calm, sound, apart, edits>>
  BY DEF Parsed, bounds
<1>2. /\ Working(b) /\ pc[b] \notin Saving
      /\ \A s \in {"fingerprint", "save_state"} :
            s \in Stages /\ s # "idle" /\ s \notin Saving /\ s \notin {"save_intel", "done"}
  BY <1>1 DEF Working, Saving, Stages
<1>3. Kept(b) => /\ Holds(l, "parse", calm[b], repo, stamp)
                 /\ l.profile = repo /\ l.symbols = FactsOf(repo) /\ l.graph = FactsOf(repo)
  <2>1. SUFFICES ASSUME Kept(b)
                 PROVE  /\ Holds(l, "parse", calm[b], repo, stamp)
                        /\ l.profile = repo /\ l.symbols = FactsOf(repo)
                        /\ l.graph = FactsOf(repo)
    OBVIOUS
  <2>2. Holds(l, "parse", calm[b], repo, stamp)
    BY <1>1, <2>1, WhatABuilderHolds
  <2>3. /\ l.profile = repo
        /\ \A y \in Paths : l.symbols[y] = FactsOf(repo)[y] /\ l.graph[y] = FactsOf(repo)[y]
    BY <1>1, <2>2 DEF Holds, TablesHold
  <2>4. /\ l.symbols \in Table(Facts) /\ l.graph \in Table(Facts)
        /\ FactsOf(repo) \in Table(Facts)
    BY <1>0, InMemory, FactsOfContents DEF TypeOK
  <2> QED BY <2>2, <2>3, <2>4 DEF Table
<1>4. CASE l.full
  <2>1. PICK m : m = [l EXCEPT !.todo = l.walk]
    OBVIOUS
  <2>2. /\ m \in Memories /\ m.todo = l.walk /\ m.full = l.full /\ m.walk = l.walk
        /\ m.prev = l.prev /\ m.profile = l.profile /\ m.fps = l.fps
        /\ m.symbols = l.symbols /\ m.graph = l.graph
    BY <1>0, <2>1 DEF Memories
  <2>3. Keep(b, m) /\ Goto(b, "fingerprint")
    BY <1>4, <2>1 DEF Parsed
  <2>4. ASSUME Kept(b) PROVE Holds(m, "fingerprint", calm[b], repo, stamp)
    <3>1. l.walk = Existing(repo) /\ l.fps = Nothing
      BY <1>3, <1>4, <2>4 DEF Holds, WalkHolds, FingerprintsHold, Loading
    <3>2. m.fps = [x \in Paths |-> IF x \in m.todo THEN None ELSE FingerprintsOf(repo, stamp)[x]]
      BY <2>2, <3>1 DEF Existing, FingerprintsOf, Nothing
    <3> QED BY <1>3, <1>4, <2>2, <2>4, <3>1, <3>2
            DEF Holds, WalkHolds, FingerprintsHold, LoadsHold, TablesHold, Loading, Late, Saving
  <2> HIDE DEF l
  <2> QED BY <1>1, <1>2, <2>2, <2>3, <2>4, GoingOn DEF l
<1>5. CASE ~l.full
  <2>1. Goto(b, "save_state") /\ UNCHANGED own
    BY <1>5 DEF Parsed
  <2>2. ASSUME Kept(b) PROVE Holds(l, "save_state", calm[b], repo, stamp)
    BY <1>3, <1>5, <2>2
       DEF Holds, WalkHolds, FingerprintsHold, LoadsHold, TablesHold, Loading, Late, Saving
  <2> QED BY <1>1, <1>2, <1>5, <2>1, <2>2, MovingOn
<1> QED BY <1>0, <1>4, <1>5

(* The end of the fingerprinting, and the look at file_intelligence.json.  *)
LEMMA OtherMemorySteps ==
    ASSUME IInv, NEW b \in Builders, Fingerprinted(b) \/ CheckIntel(b) PROVE IInv'
<1> DEFINE l == own[b]
<1>1. UNCHANGED <<repo, stamp, disk, own, calm, sound, apart, edits>>
  BY DEF Fingerprinted, CheckIntel, bounds
<1>2. Kept(b) => Holds(l, pc[b], calm[b], repo, stamp)
  BY WhatABuilderHolds
<1>3. CASE Fingerprinted(b)
  <2>1. pc[b] = "fingerprint" /\ l.todo = {} /\ Goto(b, "save_state")
    BY <1>3 DEF Fingerprinted
  <2>2. ASSUME Kept(b) PROVE Holds(l, "save_state", calm[b], repo, stamp)
    <3>1. l.fps = FingerprintsOf(repo, stamp)
      BY <1>2, <2>1, <2>2 DEF Holds, FingerprintsHold, FingerprintsOf
    <3> QED BY <1>2, <2>1, <2>2, <3>1
            DEF Holds, WalkHolds, FingerprintsHold, LoadsHold, TablesHold, Loading, Late, Saving
  <2>3. Working(b) /\ pc[b] \notin Saving /\ "save_state" \in Stages /\ "save_state" \notin Saving
    BY <2>1 DEF Working, Saving, Stages
  <2> QED BY <1>1, <2>1, <2>2, <2>3, MovingOn
<1>4. CASE CheckIntel(b)
  <2>1. PICK s \in {"done", "save_intel"} : Goto(b, s)
    BY <1>4 DEF CheckIntel
  <2>2. pc[b] = "check_intel"
    BY <1>4 DEF CheckIntel
  <2>3. ASSUME Kept(b) PROVE ~l.full /\ Holds(l, s, calm[b], repo, stamp)
    BY <1>2, <2>2, <2>3
       DEF Holds, WalkHolds, FingerprintsHold, LoadsHold, TablesHold, Loading, Late, Saving
  <2>4. Working(b) /\ pc[b] \notin Saving /\ s \in Stages /\ s \notin Saving /\ s # "idle"
    BY <2>2 DEF Working, Saving, Stages
  <2>5. ~(calm[b] /\ l.full)
    BY <2>3, <2>4 DEF Kept
  <2> QED BY <1>1, <2>1, <2>3, <2>4, <2>5, MovingOn
<1> QED BY <1>3, <1>4

(* A save of a value of its file's type, by a builder that still holds     *)
(* what it held.                                                           *)
FileOK(f, value) ==
    /\ f = "state" => value \in Table(Fingerprints)
    /\ f = "profile" => value \in Table(Contents)
    /\ f \in {"symbols", "graph"} => value \in Table(Facts)

Writes(f, value) == disk' = [disk EXCEPT ![f] = value]

(* A save changes neither what builders hold nor the fingerprints in use.  *)
LEMMA SaveKeeps ==
    ASSUME IInv, NEW b \in Builders, NEW f \in Files, NEW value, FileOK(f, value),
           NEW s \in Stages, s # "idle", Working(b), Goto(b, s),
           Writes(f, value),
           UNCHANGED <<repo, stamp, own, calm, sound, apart, edits>>,
           f = "state" => value = own[b].fps,
           Kept(b) => Holds(own[b], s, calm[b], repo, stamp)
    PROVE  /\ TypeOK' /\ StampInv' /\ LoneInv' /\ MemoryInv' /\ InUse' \subseteq InUse
           /\ \A a \in Builders : /\ pc'[a] = IF a = b THEN s ELSE pc[a]
                                  /\ Working(a)' <=> Working(a)
           /\ \A g \in Files : disk'[g] = IF g = f THEN value ELSE disk[g]
<1>0. TypeOK /\ StampInv /\ LoneInv /\ MemoryInv
  BY DEF IInv
<1>1. \A a \in Builders : pc'[a] = IF a = b THEN s ELSE pc[a]
  BY <1>0 DEF TypeOK, Goto
<1>2. \A g \in Files : disk'[g] = IF g = f THEN value ELSE disk[g]
  BY <1>0 DEF TypeOK, Writes
<1>3. TypeOK'
  <2>1. disk' = [g \in Files |-> disk'[g]]
    BY <1>0 DEF TypeOK, Writes
  <2>2. pc' \in [Builders -> Stages]
    BY <1>0 DEF TypeOK, Goto
  <2>3. /\ disk'["state"] \in Table(Fingerprints) \union {None}
        /\ disk'["profile"] \in Table(Contents) \union {None}
        /\ disk'["symbols"] \in Table(Facts) \union {None}
        /\ disk'["graph"] \in Table(Facts) \union {None}
    BY <1>0, <1>2 DEF TypeOK, FileOK, Files
  <2> QED BY <1>0, <2>1, <2>2, <2>3 DEF TypeOK
<1>4. InUse' \subseteq InUse
  <2> SUFFICES ASSUME NEW fp \in InUse' PROVE fp \in InUse
    OBVIOUS
  <2>1. fp \in Fingerprints
    BY DEF InUse
  <2>2. CASE \E x \in Paths : repo[x] # None /\ fp = Fingerprint(x)
    BY <2>1, <2>2 DEF InUse
  <2>3. CASE \E x \in Paths : disk'["state"] # None /\ fp = disk'["state"][x]
    BY <1>2, <2>1, <2>3 DEF InUse, Files
  <2>4. CASE \E a \in Builders, x \in Paths : fp = own[a].prev[x] \/ fp = own[a].fps[x]
    BY <2>1, <2>4 DEF InUse
  <2> QED BY <2>2, <2>3, <2>4 DEF InUse, Fingerprint
<1>5. StampInv'
  BY <1>0, <1>4 DEF StampInv
<1>6. \A a \in Builders : Working(a)' <=> Working(a)
  BY <1>1 DEF Working
<1>7. LoneInv'
  BY <1>0, <1>6 DEF LoneInv
<1>8. MemoryInv'
  BY <1>0, <1>1, <1>6 DEF MemoryInv, Kept
<1> QED BY <1>1, <1>2, <1>3, <1>4, <1>5, <1>6, <1>7, <1>8

(* What file_intelligence.json says stays true while it is not replaced.   *)
LEMMA IntelStays ==
    ASSUME IntelInv, InUse' \subseteq InUse, disk'["intel"] = disk["intel"],
           UNCHANGED <<sound, edits>>, apart' => apart
    PROVE  IntelInv'
<1>1. \A x, entry : TrueEntry(x, entry, InUse) => TrueEntry(x, entry, InUse')
  BY DEF TrueEntry
<1> QED BY <1>1 DEF IntelInv

(* A rebuild that runs alone is the only one to write.                     *)
LEMMA RebuildStays ==
    ASSUME LoneInv, NEW b \in Builders, Working(b), UNCHANGED <<repo, stamp, own, calm>>,
           calm[b] /\ own[b].full => Rebuilt(disk', pc'[b], repo, stamp)
    PROVE  RebuildInv'
<1> SUFFICES ASSUME NEW a \in Builders, calm[a], own[a].full
             PROVE  Rebuilt(disk', pc'[a], repo, stamp)
  BY DEF RebuildInv
<1>1. a = b
  BY DEF LoneInv
<1> QED BY <1>1

(* What a table save writes is true of the repository.                     *)
LEMMA SavedTablesAreTrue ==
    ASSUME IInv, NEW b \in Builders, Kept(b), pc[b] \in Saving
    PROVE  /\ own[b].fps = FingerprintsOf(repo, stamp) /\ own[b].profile = repo
           /\ own[b].symbols = FactsOf(repo) /\ own[b].graph = FactsOf(repo)
<1>1. Holds(own[b], pc[b], calm[b], repo, stamp)
  BY WhatABuilderHolds
<1>2. pc[b] \in Late
  BY DEF Late, Saving
<1>3. own[b].fps = FingerprintsOf(repo, stamp) /\ (own[b].full \/ Held(own[b].prev) # repo)
  BY <1>1, <1>2 DEF Holds, FingerprintsHold
<1> QED BY <1>1, <1>2, <1>3 DEF Holds, TablesHold

(* SaveState: the builder that saves the state owes the tables, or the     *)
(* state has not changed.                                                  *)
LEMMA SaveStateStep ==
    ASSUME IInv, NEW b \in Builders, SaveState(b) PROVE IInv'
<1> DEFINE l == own[b]
           s == IF ~l.full /\ EmptyDiff(l) THEN "check_intel" ELSE "save_profile"
<1>0. TypeOK /\ StampInv /\ LoneInv /\ MemoryInv /\ DiskInv /\ RebuildInv /\ IntelInv
      /\ l \in Memories
  BY WhatABuilderHolds DEF IInv
<1>1. /\ pc[b] = "save_state" /\ Goto(b, s) /\ Writes("state", l.fps)
      /\ UNCHANGED <<repo, stamp, own, calm, sound, apart, edits>>
  BY DEF SaveState, Save, Writes, bounds
<1>2. Working(b) /\ s \in Stages /\ s # "idle" /\ FileOK("state", l.fps) /\ "state" \in Files
  BY <1>0, <1>1, InMemory DEF Working, Stages, FileOK, Files
<1>3. ASSUME Kept(b)
      PROVE  /\ Holds(l, s, calm[b], repo, stamp) /\ l.fps = FingerprintsOf(repo, stamp)
             /\ Held(l.fps) = repo
             /\ s = "check_intel" => ~l.full /\ Held(l.prev) = repo
  <2>1. Holds(l, "save_state", calm[b], repo, stamp)
    BY <1>1, <1>3, WhatABuilderHolds
  <2>2. l.fps = FingerprintsOf(repo, stamp) /\ l.walk = Existing(repo)
    BY <2>1 DEF Holds, FingerprintsHold, WalkHolds, Loading, Late
  <2>3. EmptyDiff(l) <=> Held(l.prev) = repo
    BY <2>2, DiffIsTrue
  <2>4. Held(l.fps) = repo
    BY <1>0, <2>2, FingerprintsAreTrue
  <2>5. Holds(l, s, calm[b], repo, stamp)
    BY <2>1, <2>2, <2>3
       DEF Holds, WalkHolds, FingerprintsHold, LoadsHold, TablesHold, Loading, Late, Saving
  <2> QED BY <2>2, <2>3, <2>4, <2>5
<1>4. /\ TypeOK' /\ StampInv' /\ LoneInv' /\ MemoryInv' /\ InUse' \subseteq InUse
      /\ \A a \in Builders : /\ pc'[a] = IF a = b THEN s ELSE pc[a]
                             /\ Working(a)' <=> Working(a)
      /\ \A g \in Files : disk'[g] = IF g = "state" THEN l.fps ELSE disk[g]
  <2>1. Kept(b) => Holds(own[b], s, calm[b], repo, stamp)
    BY <1>3
  <2> HIDE DEF s
  <2> QED BY <1>1, <1>2, <2>1, SaveKeeps
<1>5. \A f \in Tables : f \in Files /\ f # "state" /\ disk'[f] = disk[f] /\ (Owed(f) => Owed(f)')
  <2>1. \A f : Owed(f) => Owed(f)'
    BY <1>1, <1>4 DEF Owed, OwesAt
  <2> QED BY <1>4, <2>1 DEF Tables, Files
<1>6. DiskInv'
  <2> SUFFICES ASSUME sound PROVE DiskInv'
    BY <1>1 DEF DiskInv
  <2>1. Kept(b)
    BY <1>2 DEF Kept
  <2>2. Held(disk'["state"]) = repo
    BY <1>3, <1>4, <2>1 DEF Files
  <2>3. ASSUME NEW f \in Tables PROVE disk'[f] \in {None, TableOf(f, repo)} \/ Owed(f)'
    <3>1. CASE s = "save_profile"
      BY <1>4, <3>1 DEF Owed, OwesAt
    <3>2. CASE s = "check_intel"
      <4>1. ~l.full /\ Held(l.prev) = repo
        BY <1>3, <2>1, <3>2
      <4>2. disk[f] \in {None, TableOf(f, repo)} \/ Owed(f)
        BY <1>0, <1>2, <2>3, <4>1 DEF DiskInv
      <4> QED BY <1>5, <2>3, <4>2
    <3> QED BY <3>1, <3>2
  <2>4. ASSUME NEW a \in Builders, Working(a)', ~own[a].full, NEW f \in Tables
        PROVE  \/ disk'[f] \in {None, TableOf(f, Held(own[a].prev)), TableOf(f, repo)}
               \/ Held(own[a].prev) = repo /\ Owed(f)'
    BY <1>0, <1>4, <1>5, <2>4 DEF DiskInv
  <2> QED BY <1>1, <2>2, <2>3, <2>4 DEF DiskInv
<1>7. RebuildInv'
  <2>1. ASSUME calm[b], l.full PROVE Rebuilt(disk', pc'[b], repo, stamp)
    BY <1>2, <1>3, <1>4, <2>1 DEF Rebuilt, Kept, Files
  <2> QED BY <1>0, <1>1, <1>2, <2>1, RebuildStays
<1>8. IntelInv'
  BY <1>0, <1>1, <1>4, IntelStays DEF Files
<1> QED BY <1>4, <1>6, <1>7, <1>8 DEF IInv

(* The save of a table, which its builder owed.                            *)
LEMMA SaveTableStep ==
    ASSUME IInv, NEW b \in Builders, SaveProfile(b) \/ SaveSymbols(b) \/ SaveGraph(b)
    PROVE  IInv'
<1> DEFINE l == own[b]
<1>0. TypeOK /\ StampInv /\ LoneInv /\ MemoryInv /\ DiskInv /\ RebuildInv /\ IntelInv
      /\ l \in Memories
  BY WhatABuilderHolds DEF IInv
<1>1. PICK f \in Tables, s \in Late, value \in {l.profile, l.symbols, l.graph} :
         /\ \/ f = "profile" /\ pc[b] = "save_profile" /\ s = "save_symbols" /\ value = l.profile
            \/ f = "symbols" /\ pc[b] = "save_symbols" /\ s = "save_graph" /\ value = l.symbols
            \/ f = "graph" /\ pc[b] = "save_graph" /\ s = "save_intel" /\ value = l.graph
         /\ Goto(b, s) /\ Writes(f, value)
  BY DEF SaveProfile, SaveSymbols, SaveGraph, Save, Writes, Tables, Late
<1>2. UNCHANGED <<repo, stamp, own, calm, sound, apart, edits>>
  BY DEF SaveProfile, SaveSymbols, SaveGraph, Save, bounds
<1>3. /\ Working(b) /\ pc[b] \in Saving /\ s \in Stages /\ s # "idle" /\ FileOK(f, value)
      /\ f \in Files /\ f # "state" /\ f # "intel"
  BY <1>0, <1>1, InMemory DEF Working, Saving, Stages, FileOK, Files
<1>4. ASSUME Kept(b)
      PROVE  /\ Holds(l, s, calm[b], repo, stamp)
             /\ value = TableOf(f, repo)
             /\ f = "profile" => value = repo
             /\ f \in {"symbols", "graph"} => value = FactsOf(repo)
  <2>1. Holds(l, pc[b], calm[b], repo, stamp)
    BY <1>4, WhatABuilderHolds
  <2>2. Holds(l, s, calm[b], repo, stamp)
    BY <1>1, <2>1
       DEF Holds, WalkHolds, FingerprintsHold, LoadsHold, TablesHold, Loading, Late, Saving
  <2>3. l.profile = repo /\ l.symbols = FactsOf(repo) /\ l.graph = FactsOf(repo)
    BY <1>3, <1>4, SavedTablesAreTrue
  <2>4. /\ f = "profile" => value = repo
        /\ f \in {"symbols", "graph"} => value = FactsOf(repo)
    BY <1>1, <2>3
  <2> QED BY <1>1, <2>2, <2>4 DEF TableOf
<1>5. /\ TypeOK' /\ StampInv' /\ LoneInv' /\ MemoryInv' /\ InUse' \subseteq InUse
      /\ \A a \in Builders : /\ pc'[a] = IF a = b THEN s ELSE pc[a]
                             /\ Working(a)' <=> Working(a)
      /\ \A g \in Files : disk'[g] = IF g = f THEN value ELSE disk[g]
  BY <1>1, <1>2, <1>3, <1>4, SaveKeeps
<1>6. \A g \in Tables : g # f => disk'[g] = disk[g] /\ (Owed(g) => Owed(g)')
  <2>1. ASSUME NEW g \in Tables, g # f, Owed(g) PROVE Owed(g)'
    <3>1. PICK a \in Builders : OwesAt(pc[a], g)
      BY <2>1 DEF Owed
    <3>2. OwesAt(pc'[a], g)
      BY <1>1, <1>5, <2>1, <3>1 DEF OwesAt, Tables
    <3> QED BY <3>2 DEF Owed
  <2> QED BY <1>5, <2>1 DEF Tables, Files
<1>7. DiskInv'
  <2> SUFFICES ASSUME sound PROVE DiskInv'
    BY <1>2 DEF DiskInv
  <2>1. disk'[f] = TableOf(f, repo) /\ disk'["state"] = disk["state"]
    BY <1>3, <1>4, <1>5 DEF Kept, Files
  <2>2. disk["state"] # None => Held(disk["state"]) = repo
    BY <1>0, <1>3 DEF DiskInv
  <2>3. ASSUME NEW g \in Tables, disk["state"] # None
        PROVE  disk'[g] \in {None, TableOf(g, repo)} \/ Owed(g)'
    BY <1>0, <1>6, <2>1, <2>2, <2>3 DEF DiskInv
  <2>4. ASSUME NEW a \in Builders, Working(a)', ~own[a].full, NEW g \in Tables
        PROVE  \/ disk'[g] \in {None, TableOf(g, Held(own[a].prev)), TableOf(g, repo)}
               \/ Held(own[a].prev) = repo /\ Owed(g)'
    <3>1. CASE g = f
      BY <2>1, <3>1
    <3>2. CASE g # f
      BY <1>0, <1>5, <1>6, <2>4, <3>2 DEF DiskInv
    <3> QED BY <3>1, <3>2
  <2> QED BY <1>2, <2>1, <2>2, <2>3, <2>4 DEF DiskInv
<1>8. RebuildInv'
  <2>1. ASSUME calm[b], l.full PROVE Rebuilt(disk', pc'[b], repo, stamp)
    <3>1. Rebuilt(disk, pc[b], repo, stamp)
      BY <1>0, <2>1 DEF RebuildInv
    <3>2. Kept(b)
      BY <1>3, <2>1 DEF Kept
    <3> QED BY <1>1, <1>4, <1>5, <3>1, <3>2 DEF Rebuilt, Files
  <2> QED BY <1>0, <1>2, <1>3, <2>1, RebuildStays
<1>9. IntelInv'
  BY <1>0, <1>2, <1>3, <1>5, IntelStays DEF Files
<1> QED BY <1>5, <1>7, <1>8, <1>9 DEF IInv

(* file_intelligence.json as a builder that holds the truth writes it.     *)
LEMMA IntelligenceIsTrue ==
    ASSUME NEW l, l.walk = Existing(repo), l.fps = FingerprintsOf(repo, stamp),
           l.symbols = FactsOf(repo), l.graph = FactsOf(repo), TypeOK, StampInv
    PROVE  Intelligence(l) = IntelOf(repo, stamp)
<1>1. \A x \in Paths : /\ x \in l.walk <=> repo[x] # None
                       /\ repo[x] # None => l.fps[x] # None /\ l.fps[x].stamp = stamp[x]
  <2>1. \A x \in Paths : x \in l.walk <=> repo[x] # None
    BY DEF Existing
  <2>2. \A x \in Paths : repo[x] # None => l.fps[x] # None
    BY FingerprintsAreTrue
  <2>3. \A x \in Paths : repo[x] # None => l.fps[x].stamp = stamp[x]
    BY DEF FingerprintsOf
  <2> QED BY <2>1, <2>2, <2>3
<1>2. \A x \in Paths : Intelligence(l)[x] = IntelOf(repo, stamp)[x]
  BY <1>1 DEF Intelligence, IntelOf
<1> QED BY <1>2 DEF Intelligence, IntelOf

(* An entry for every file of the repository as it is is true of the stamp *)
(* it has, in any repository that holds no other fingerprints.             *)
LEMMA TrueIntelligence ==
    ASSUME TypeOK, StampInv, disk'["intel"] = IntelOf(repo, stamp), InUse' \subseteq InUse,
           UNCHANGED edits
    PROVE  IntelInv'
<1> DEFINE intel == IntelOf(repo, stamp)
<1>1. ASSUME NEW x \in Paths, intel[x] # None
      PROVE  intel[x].stamp \in 1 .. NumPaths + edits /\ TrueEntry(x, intel[x], InUse')
  <2>1. /\ repo[x] # None
        /\ intel[x] = [symbols |-> Known(FactsOf(repo)[x]),
                       graph |-> Known(FactsOf(repo)[x]), stamp |-> stamp[x]]
    BY <1>1 DEF IntelOf
  <2>2. /\ Fingerprint(x) \in InUse /\ stamp[x] \in 1 .. NumPaths + edits
    BY <2>1, FingerprintsAreTrue
  <2>3. FactsOf(repo)[x] = Extracted(x, repo[x])
    BY <2>1 DEF FactsOf
  <2>4. Fingerprint(x).content = repo[x] /\ Fingerprint(x).stamp = stamp[x]
    BY DEF Fingerprint
  <2>5. \A fp \in InUse : fp.stamp = stamp[x] => fp.content = repo[x]
    BY <2>2, <2>4 DEF StampInv
  <2> HIDE DEF intel
  <2> QED BY <2>1, <2>2, <2>3, <2>5 DEF TrueEntry
<1> HIDE DEF intel
<1>2. disk'["intel"] = intel
  BY DEF intel
<1> QED BY <1>1, <1>2 DEF IntelInv

(* file_intelligence.json, filled from what its builder holds.             *)
LEMMA SaveIntelStep ==
    ASSUME IInv, NEW b \in Builders, SaveIntel(b) PROVE IInv'
<1> DEFINE l == own[b]
<1>0. TypeOK /\ StampInv /\ LoneInv /\ MemoryInv /\ DiskInv /\ RebuildInv /\ IntelInv
      /\ l \in Memories
  BY WhatABuilderHolds DEF IInv
<1>1. /\ pc[b] = "save_intel" /\ Goto(b, "done") /\ Writes("intel", Intelligence(l))
      /\ UNCHANGED <<repo, stamp, own, calm, sound, apart, edits>>
  BY DEF SaveIntel, Save, Writes, bounds
<1>2. /\ Working(b) /\ "done" \in Stages /\ FileOK("intel", Intelligence(l)) /\ "intel" \in Files
  BY <1>1 DEF Working, Stages, FileOK, Files
<1>3. ASSUME Kept(b)
      PROVE  /\ Holds(l, "done", calm[b], repo, stamp)
             /\ calm[b] => Intelligence(l) = IntelOf(repo, stamp)
  <2>1. Holds(l, "save_intel", calm[b], repo, stamp)
    BY <1>1, <1>3, WhatABuilderHolds
  <2>2. Holds(l, "done", calm[b], repo, stamp)
    BY <2>1 DEF Holds, WalkHolds, FingerprintsHold, LoadsHold, TablesHold, Loading, Late, Saving
  <2>3. calm[b] => /\ l.walk = Existing(repo) /\ l.fps = FingerprintsOf(repo, stamp)
                   /\ l.symbols = FactsOf(repo) /\ l.graph = FactsOf(repo)
    BY <2>2 DEF Holds, WalkHolds, FingerprintsHold, TablesHold, Loading, Late
  <2> QED BY <1>0, <2>2, <2>3, IntelligenceIsTrue
<1>4. /\ TypeOK' /\ StampInv' /\ LoneInv' /\ MemoryInv' /\ InUse' \subseteq InUse
      /\ \A a \in Builders : /\ pc'[a] = IF a = b THEN "done" ELSE pc[a]
                             /\ Working(a)' <=> Working(a)
      /\ \A g \in Files : disk'[g] = IF g = "intel" THEN Intelligence(l) ELSE disk[g]
  <2>1. Kept(b) => Holds(own[b], "done", calm[b], repo, stamp)
    BY <1>3
  <2> QED BY <1>1, <1>2, <2>1, SaveKeeps
<1>5. \A f : Owed(f)' <=> Owed(f)
  BY <1>1, <1>4 DEF Owed, OwesAt
<1>6. DiskInv'
  <2>1. \A f \in Tables \union {"state"} : disk'[f] = disk[f]
    BY <1>4 DEF Tables, Files
  <2>2. \A a \in Builders : pc'[a] \in Saving => pc[a] \in Saving
    BY <1>4 DEF Saving
  <2> QED BY <1>0, <1>1, <1>4, <1>5, <2>1, <2>2 DEF DiskInv
<1>7. RebuildInv'
  <2>1. ASSUME calm[b], l.full PROVE Rebuilt(disk', pc'[b], repo, stamp)
    <3>1. Rebuilt(disk, "save_intel", repo, stamp)
      BY <1>0, <1>1, <2>1 DEF RebuildInv
    <3>2. Kept(b)
      BY <1>2, <2>1 DEF Kept
    <3> QED BY <1>3, <1>4, <2>1, <3>1, <3>2 DEF Rebuilt, Files
  <2> QED BY <1>0, <1>1, <1>2, <2>1, RebuildStays
<1>8. IntelInv'
  <2> SUFFICES ASSUME sound, apart PROVE IntelInv'
    BY <1>1 DEF IntelInv
  <2>1. calm[b] /\ Kept(b)
    BY <1>0, <1>2 DEF LoneInv, Kept
  <2>2. disk'["intel"] = IntelOf(repo, stamp)
    BY <1>3, <1>4, <2>1 DEF Files
  <2> QED BY <1>0, <1>1, <1>4, <2>2, TrueIntelligence
<1> QED BY <1>4, <1>6, <1>7, <1>8 DEF IInv

(* What holds of a builder that is alone holds of it when it is not.       *)
LEMMA AloneOrNot ==
    ASSUME NEW l, NEW s, NEW alone, NEW r, NEW t, Holds(l, s, alone, r, t)
    PROVE  Holds(l, s, FALSE, r, t)
BY DEF Holds, LoadsHold, TablesHold, Loaded

(* What a refresh begins with.                                             *)
Refreshing(fps) == [FromScratch EXCEPT !.full = FALSE, !.prev = fps]

(* A refresh begins with the state it has loaded.                          *)
LEMMA RefreshingHolds ==
    ASSUME NEW fps \in Table(Fingerprints), NEW l, l = Refreshing(fps)
    PROVE  /\ l \in Memories /\ ~l.full /\ l.prev = fps /\ l.fps = Nothing
           /\ \A alone, r, t : Holds(l, "load_profile", alone, r, t)
<1>1. /\ l \in Memories /\ ~l.full /\ l.prev = fps /\ l.fps = FromScratch.fps
  <2> DEFINE scratch == FromScratch
  <2>1. scratch \in Memories
    BY StartingOver
  <2>2. l = [scratch EXCEPT !.full = FALSE, !.prev = fps]
    BY DEF Refreshing
  <2> HIDE DEF scratch
  <2>3. l \in Memories /\ ~l.full /\ l.prev = fps /\ l.fps = scratch.fps
    BY <2>1, <2>2 DEF Memories
  <2> QED BY <2>3 DEF scratch
<1>2. \A alone, r, t : Holds(l, "load_profile", alone, r, t)
  BY <1>1, StartingOver
     DEF Holds, WalkHolds, FingerprintsHold, LoadsHold, TablesHold, Loading, Late, Saving
<1> QED BY <1>1, <1>2, StartingOver

(* A call begins, with nothing or with the state.                          *)
LEMMA BeginStep ==
    ASSUME IInv, NEW b \in Builders, NEW rebuild \in BOOLEAN, Begin(b, rebuild) PROVE IInv'
<1>0. TypeOK /\ StampInv /\ LoneInv /\ MemoryInv /\ DiskInv /\ RebuildInv /\ IntelInv
  BY DEF IInv
<1>1. /\ pc[b] = "idle" /\ calm' = [a \in Builders |-> a = b /\ AllIdle]
      /\ apart' = (apart /\ AllIdle)
      /\ UNCHANGED <<repo, stamp, disk, sound, edits>>
  BY DEF Begin
<1>2. PICK l \in Memories, s \in {"walk", "load_profile"} :
         /\ Goto(b, s) /\ Keep(b, l) /\ Holds(l, s, AllIdle, repo, stamp)
         /\ l.fps = Nothing
         /\ l.full \/ (disk["state"] # None /\ l.prev = disk["state"])
         /\ l.prev = Nothing \/ (disk["state"] # None /\ l.prev = disk["state"])
  <2>1. CASE rebuild \/ disk["state"] = None
    BY <2>1, StartingOver DEF Begin, Readable
  <2>2. CASE ~(rebuild \/ disk["state"] = None)
    <3>1. disk["state"] \in Table(Fingerprints) /\ disk["state"] # None
      BY <1>0, <2>2 DEF TypeOK
    <3>2. PICK l : l = Refreshing(disk["state"])
      OBVIOUS
    <3>3. /\ l \in Memories /\ ~l.full /\ l.prev = disk["state"] /\ l.fps = Nothing
          /\ Holds(l, "load_profile", AllIdle, repo, stamp)
      BY <3>1, <3>2, RefreshingHolds
    <3>4. Goto(b, "load_profile") /\ Keep(b, l)
      BY <2>2, <3>2 DEF Begin, Readable, Refreshing
    <3> QED BY <3>1, <3>3, <3>4
  <2> QED BY <2>1, <2>2
<1>3. \A a \in Builders : /\ pc'[a] = IF a = b THEN s ELSE pc[a]
                          /\ own'[a] = IF a = b THEN l ELSE own[a]
                          /\ calm'[a] = (a = b /\ AllIdle)
                          /\ Working(a)' <=> a = b \/ Working(a)
  BY <1>0, <1>1, <1>2 DEF TypeOK, Goto, Keep, Working
<1>4. TypeOK'
  <2>1. s \in Stages
    BY DEF Stages
  <2>2. AllIdle \in BOOLEAN
    BY DEF AllIdle
  <2>3. pc' \in [Builders -> Stages] /\ own' \in [Builders -> Memories]
    BY <1>0, <1>2, <2>1 DEF TypeOK, Goto, Keep
  <2>4. calm' \in [Builders -> BOOLEAN] /\ apart' \in BOOLEAN
    BY <1>0, <1>1, <2>2 DEF TypeOK
  <2> QED BY <1>0, <1>1, <2>3, <2>4 DEF TypeOK
<1>5. InUse' \subseteq InUse
  <2> SUFFICES ASSUME NEW fp \in InUse' PROVE fp \in InUse
    OBVIOUS
  <2>1. fp \in Fingerprints /\ fp # None
    BY WhatIsThere DEF InUse
  <2>2. CASE \E x \in Paths : repo[x] # None /\ fp = Fingerprint(x)
    BY <2>1, <2>2 DEF InUse
  <2>3. CASE disk["state"] # None /\ \E x \in Paths : fp = disk["state"][x]
    BY <2>1, <2>3 DEF InUse
  <2>4. CASE \E a \in Builders, x \in Paths : fp = own'[a].prev[x] \/ fp = own'[a].fps[x]
    <3>1. PICK a \in Builders, x \in Paths : fp = own'[a].prev[x] \/ fp = own'[a].fps[x]
      BY <2>4
    <3>2. CASE a = b
      BY <1>2, <1>3, <2>1, <3>1, <3>2 DEF Nothing, InUse
    <3>3. CASE a # b
      BY <1>3, <2>1, <3>1, <3>3 DEF InUse
    <3> QED BY <3>2, <3>3
  <2> QED BY <1>1, <2>2, <2>3, <2>4 DEF InUse, Fingerprint
<1>6. StampInv'
  BY <1>0, <1>1, <1>5 DEF StampInv
<1>7. AllIdle => \A a \in Builders : ~Working(a)
  BY DEF AllIdle, Working
<1>8. LoneInv'
  BY <1>0, <1>1, <1>3, <1>7 DEF LoneInv
<1>9. MemoryInv'
  <2> SUFFICES ASSUME NEW a \in Builders, Kept(a)'
               PROVE  Holds(own'[a], pc'[a], calm'[a], repo, stamp)
    BY <1>1 DEF MemoryInv
  <2>1. CASE a = b
    <3>1. calm'[a] = AllIdle
      BY <1>0, <1>1, <2>1 DEF TypeOK, AllIdle
    <3> QED BY <1>2, <1>3, <2>1, <3>1
  <2>2. CASE a # b
    <3>1. sound /\ Working(a) /\ calm'[a] = FALSE
      BY <1>1, <1>3, <2>2 DEF Kept
    <3>2. Holds(own[a], pc[a], calm[a], repo, stamp)
      BY <1>0, <3>1 DEF MemoryInv, Kept
    <3>3. Holds(own[a], pc[a], FALSE, repo, stamp)
      BY <3>2, AloneOrNot
    <3> QED BY <1>3, <2>2, <3>1, <3>3
  <2> QED BY <2>1, <2>2
<1>10. \A f : Owed(f) => Owed(f)'
  BY <1>1, <1>3 DEF Owed, OwesAt
<1>11. DiskInv'
  <2> SUFFICES ASSUME sound PROVE DiskInv'
    BY <1>1 DEF DiskInv
  <2>1. disk["state"] # None /\ Held(disk["state"]) = repo =>
           \A f \in Tables : disk[f] \in {None, TableOf(f, repo)} \/ Owed(f)'
    BY <1>0, <1>10 DEF DiskInv
  <2>2. disk["state"] # None /\ Held(disk["state"]) # repo =>
           /\ \A f \in Tables : disk[f] \in {None, TableOf(f, Held(disk["state"]))}
           /\ \A a \in Builders : pc'[a] \notin Saving
    BY <1>0, <1>3 DEF DiskInv, Saving
  <2>3. ASSUME NEW a \in Builders, Working(a)', ~own'[a].full, NEW f \in Tables
        PROVE  \/ disk[f] \in {None, TableOf(f, Held(own'[a].prev)), TableOf(f, repo)}
               \/ Held(own'[a].prev) = repo /\ Owed(f)'
    <3>1. CASE a = b
      BY <1>2, <1>3, <2>1, <2>2, <2>3, <3>1
    <3>2. CASE a # b
      BY <1>0, <1>3, <1>10, <2>3, <3>2 DEF DiskInv
    <3> QED BY <3>1, <3>2
  <2> QED BY <1>1, <2>1, <2>2, <2>3 DEF DiskInv
<1>12. RebuildInv'
  BY <1>1, <1>3 DEF RebuildInv, Rebuilt
<1>13. IntelInv'
  BY <1>0, <1>1, <1>5, IntelStays
<1> QED BY <1>4, <1>6, <1>8, <1>9, <1>11, <1>12, <1>13 DEF IInv

(* A builder leaves: its call returns, or it dies.  Nothing is trusted     *)
(* that was not, unless a full rebuild that ran alone has just ended.      *)
LEMMA Leaving ==
    ASSUME IInv, NEW b \in Builders, Working(b), Goto(b, "idle"), Keep(b, FromScratch),
           calm' = [calm EXCEPT ![b] = FALSE],
           UNCHANGED <<repo, stamp, disk, edits>>,
           sound' \in BOOLEAN, apart' \in BOOLEAN,
           \/ sound' => sound /\ pc[b] \notin Saving
           \/ pc[b] = "done" /\ calm[b] /\ own[b].full,
           \/ apart' => apart
           \/ pc[b] = "done" /\ calm[b] /\ own[b].full
    PROVE  IInv'
<1> DEFINE rebuilt == pc[b] = "done" /\ calm[b] /\ own[b].full
<1>0. TypeOK /\ StampInv /\ LoneInv /\ MemoryInv /\ DiskInv /\ RebuildInv /\ IntelInv
  BY DEF IInv
<1>1. \A a \in Builders : /\ pc'[a] = IF a = b THEN "idle" ELSE pc[a]
                          /\ own'[a] = IF a = b THEN FromScratch ELSE own[a]
                          /\ calm'[a] = IF a = b THEN FALSE ELSE calm[a]
                          /\ Working(a)' <=> a # b /\ Working(a)
  BY <1>0 DEF TypeOK, Goto, Keep, Working
<1>2. rebuilt => \A a \in Builders : ~Working(a)'
  BY <1>0, <1>1 DEF LoneInv
<1>3. rebuilt \/ (sound' => sound /\ pc[b] \notin Saving)
  OBVIOUS
<1>4. TypeOK'
  <2>1. "idle" \in Stages
    BY DEF Stages
  <2>2. pc' \in [Builders -> Stages] /\ own' \in [Builders -> Memories]
        /\ calm' \in [Builders -> BOOLEAN]
    BY <1>0, <2>1, StartingOver DEF TypeOK, Goto, Keep
  <2> QED BY <1>0, <2>2 DEF TypeOK
<1>5. InUse' \subseteq InUse
  <2> SUFFICES ASSUME NEW fp \in InUse' PROVE fp \in InUse
    OBVIOUS
  <2>1. fp \in Fingerprints /\ fp # None
    BY WhatIsThere DEF InUse
  <2>2. CASE \E x \in Paths : repo[x] # None /\ fp = Fingerprint(x)
    BY <2>1, <2>2 DEF InUse
  <2>3. CASE disk["state"] # None /\ \E x \in Paths : fp = disk["state"][x]
    BY <2>1, <2>3 DEF InUse
  <2>4. CASE \E a \in Builders, x \in Paths : fp = own'[a].prev[x] \/ fp = own'[a].fps[x]
    <3>1. PICK a \in Builders, x \in Paths : fp = own'[a].prev[x] \/ fp = own'[a].fps[x]
      BY <2>4
    <3>2. CASE a = b
      <4>1. own'[a] = FromScratch
        BY <1>1, <3>2
      <4>2. FromScratch.prev[x] = None /\ FromScratch.fps[x] = None
        BY NothingHeld
      <4> QED BY <2>1, <3>1, <4>1, <4>2
    <3>3. CASE a # b
      <4>1. own'[a] = own[a]
        BY <1>1, <3>3
      <4> QED BY <2>1, <3>1, <4>1 DEF InUse
    <3> QED BY <3>2, <3>3
  <2> QED BY <2>2, <2>3, <2>4 DEF InUse, Fingerprint
<1>6. StampInv'
  BY <1>0, <1>5 DEF StampInv
<1>7. LoneInv'
  <2>1. \A a \in Builders : calm'[a] => Working(a)' /\ \A c \in Builders \ {a} : ~Working(c)'
    BY <1>0, <1>1 DEF LoneInv
  <2>2. apart' => \A a, c \in Builders : Working(a)' /\ Working(c)' => a = c
    BY <1>0, <1>1, <1>2 DEF LoneInv
  <2>3. sound' /\ apart' => \A a \in Builders : Working(a)' => calm'[a]
    BY <1>0, <1>1, <1>2 DEF LoneInv
  <2> QED BY <2>1, <2>2, <2>3 DEF LoneInv
<1>8. MemoryInv'
  <2> SUFFICES ASSUME NEW a \in Builders, Kept(a)'
               PROVE  Holds(own'[a], pc'[a], calm'[a], repo, stamp)
    BY DEF MemoryInv
  <2>1. Working(a)' /\ a # b /\ Working(a) /\ ~rebuilt
    BY <1>1, <1>2 DEF Kept
  <2>2. sound' => sound
    BY <1>3, <2>1
  <2> QED BY <1>0, <1>1, <2>1, <2>2 DEF MemoryInv, Kept
<1>9. DiskInv'
  <2> SUFFICES ASSUME sound' PROVE DiskInv'
    BY DEF DiskInv
  <2>1. CASE rebuilt
    <3>1. /\ disk["state"] \in {None, FingerprintsOf(repo, stamp)}
          /\ disk["profile"] \in {None, repo}
          /\ disk["symbols"] \in {None, FactsOf(repo)} /\ disk["graph"] \in {None, FactsOf(repo)}
      BY <1>0, <2>1 DEF RebuildInv, Rebuilt
    <3>2. disk["state"] # None => Held(disk["state"]) = repo
      BY <1>0, <3>1, FingerprintsAreTrue
    <3>3. \A f \in Tables : disk[f] \in {None, TableOf(f, repo)}
      BY <3>1 DEF Tables, TableOf
    <3>4. \A a \in Builders : ~Working(a)'
      BY <1>2, <2>1
    <3> QED BY <3>2, <3>3, <3>4 DEF DiskInv
  <2>2. CASE ~rebuilt
    <3>1. sound /\ pc[b] \notin Saving
      BY <1>3, <2>2
    <3>2. \A f : Owed(f)' <=> Owed(f)
      BY <1>1, <3>1 DEF Owed, OwesAt, Saving
    <3>3. disk["state"] # None /\ Held(disk["state"]) = repo =>
             \A f \in Tables : disk[f] \in {None, TableOf(f, repo)} \/ Owed(f)'
      BY <1>0, <3>1, <3>2 DEF DiskInv
    <3>4. disk["state"] # None /\ Held(disk["state"]) # repo =>
             /\ \A f \in Tables : disk[f] \in {None, TableOf(f, Held(disk["state"]))}
             /\ \A a \in Builders : pc'[a] \notin Saving
      BY <1>0, <1>1, <3>1 DEF DiskInv, Saving
    <3>5. ASSUME NEW a \in Builders, Working(a)', ~own'[a].full, NEW f \in Tables
          PROVE  \/ disk[f] \in {None, TableOf(f, Held(own'[a].prev)), TableOf(f, repo)}
                 \/ Held(own'[a].prev) = repo /\ Owed(f)'
      BY <1>0, <1>1, <3>1, <3>2, <3>5 DEF DiskInv
    <3> QED BY <3>3, <3>4, <3>5 DEF DiskInv
  <2> QED BY <2>1, <2>2
<1>10. RebuildInv'
  BY <1>0, <1>1 DEF RebuildInv
<1>11. IntelInv'
  <2> SUFFICES ASSUME sound', apart' PROVE IntelInv'
    BY DEF IntelInv
  <2>1. CASE rebuilt
    <3>1. disk["intel"] \in {None, IntelOf(repo, stamp)}
      BY <1>0, <2>1 DEF RebuildInv, Rebuilt
    <3>2. CASE disk["intel"] = None
      BY <3>2 DEF IntelInv
    <3>3. CASE disk["intel"] = IntelOf(repo, stamp)
      BY <1>0, <1>5, <3>3, TrueIntelligence
    <3> QED BY <3>1, <3>2, <3>3
  <2>2. CASE ~rebuilt
    <3>1. sound /\ apart
      BY <2>2
    <3>2. \A x, entry : TrueEntry(x, entry, InUse) => TrueEntry(x, entry, InUse')
      BY <1>5 DEF TrueEntry
    <3> QED BY <1>0, <3>1, <3>2 DEF IntelInv
  <2> QED BY <2>1, <2>2
<1> QED BY <1>4, <1>6, <1>7, <1>8, <1>9, <1>10, <1>11 DEF IInv

(* Finish and Crash leave.                                                 *)
LEMMA LeaveSteps ==
    ASSUME IInv, NEW b \in Builders, Finish(b) \/ Crash(b) PROVE IInv'
<1>0. TypeOK /\ own[b].full \in BOOLEAN /\ calm[b] \in BOOLEAN
  BY WhatABuilderHolds, InMemory DEF IInv, TypeOK
<1>1. /\ Working(b) /\ Goto(b, "idle") /\ Keep(b, FromScratch)
      /\ calm' = [calm EXCEPT ![b] = FALSE] /\ UNCHANGED <<repo, stamp, disk, edits>>
  BY DEF Finish, Crash, Working, bounds
<1>2. CASE Finish(b)
  <2>1. /\ pc[b] = "done" /\ sound' = (sound \/ (own[b].full /\ calm[b]))
        /\ apart' = (apart \/ (own[b].full /\ calm[b]))
    BY <1>2 DEF Finish
  <2>2. sound' \in BOOLEAN /\ apart' \in BOOLEAN /\ pc[b] \notin Saving
    BY <2>1 DEF Saving
  <2> QED BY <1>1, <2>1, <2>2, Leaving
<1>3. CASE Crash(b)
  <2>1. /\ sound' = (sound /\ pc[b] \notin Saving) /\ apart' = apart
    BY <1>3 DEF Crash, Saving
  <2>2. sound' \in BOOLEAN /\ apart' \in BOOLEAN
    BY <1>0, <2>1 DEF TypeOK
  <2> QED BY <1>1, <2>1, <2>2, Leaving
<1> QED BY <1>2, <1>3

(* An edit leaves each path without a file, with a file and its stamp that *)
(* were there before, or with a content and a stamp no file ever had.      *)
Edited(newRepo, newStamp, c) ==
    /\ newRepo \in Table(Contents) /\ newStamp \in [Paths -> 0 .. NumPaths + MaxEdits]
    /\ \A x \in Paths : newStamp[x] <= NumPaths + edits + 1
    /\ \A x \in Paths : newRepo[x] # None =>
          \/ newRepo[x] = c /\ newStamp[x] = NumPaths + edits + 1
          \/ \E y \in Paths : repo[y] # None /\ newRepo[x] = repo[y] /\ newStamp[x] = stamp[y]

(* Edits: between calls the cache goes on describing the contents it       *)
(* holds; a call under way is no longer trusted.                           *)
LEMMA ChangeStep ==
    ASSUME IInv, NEW newRepo, NEW newStamp, NEW c, Edited(newRepo, newStamp, c),
           Change(newRepo, newStamp)
    PROVE  IInv'
<1>0. /\ TypeOK /\ StampInv /\ LoneInv /\ MemoryInv /\ DiskInv /\ RebuildInv /\ IntelInv
      /\ edits \in Nat /\ NumPaths \in Nat /\ MaxEdits \in Nat
  BY WhatIsThere DEF IInv, TypeOK
<1>1. /\ edits < MaxEdits /\ edits' = edits + 1 /\ repo' = newRepo /\ stamp' = newStamp
      /\ calm' = [b \in Builders |-> FALSE] /\ sound' = (sound /\ AllIdle)
      /\ UNCHANGED <<disk, pc, own, apart>>
  BY DEF Change
<1>2. AllIdle <=> \A b \in Builders : ~Working(b)
  BY DEF AllIdle, Working
<1>3. \A b \in Builders : ~calm'[b] /\ (Working(b)' <=> Working(b))
  BY <1>1 DEF Working
<1>4. sound' => sound /\ \A b \in Builders : ~Working(b)
  BY <1>1, <1>2
<1>5. TypeOK'
  <2>1. sound' \in BOOLEAN /\ calm' \in [Builders -> BOOLEAN]
    BY <1>0, <1>1 DEF TypeOK, AllIdle
  <2>2. edits' \in 0 .. MaxEdits
    BY <1>0, <1>1
  <2>3. repo' \in Table(Contents) /\ stamp' \in [Paths -> 0 .. NumPaths + MaxEdits]
    BY <1>1 DEF Edited
  <2> QED BY <1>0, <1>1, <2>1, <2>2, <2>3 DEF TypeOK
<1>6. ASSUME NEW fp \in InUse'
      PROVE  /\ fp \in Fingerprints
             /\ fp \in InUse \/ (fp.content = c /\ fp.stamp = NumPaths + edits + 1)
  <2>1. fp \in Fingerprints
    BY <1>6 DEF InUse
  <2>2. CASE \E x \in Paths : newRepo[x] # None /\ fp = [stamp |-> newStamp[x], content |-> newRepo[x]]
    <3>1. PICK x \in Paths :
             newRepo[x] # None /\ fp = [stamp |-> newStamp[x], content |-> newRepo[x]]
      BY <2>2
    <3>2. CASE newRepo[x] = c /\ newStamp[x] = NumPaths + edits + 1
      BY <2>1, <3>1, <3>2
    <3>3. CASE \E y \in Paths : repo[y] # None /\ newRepo[x] = repo[y] /\ newStamp[x] = stamp[y]
      <4>1. PICK y \in Paths : repo[y] # None /\ newRepo[x] = repo[y] /\ newStamp[x] = stamp[y]
        BY <3>3
      <4>2. fp = Fingerprint(y)
        BY <3>1, <4>1 DEF Fingerprint
      <4> QED BY <2>1, <4>1, <4>2 DEF InUse
    <3> QED BY <3>1, <3>2, <3>3 DEF Edited
  <2>3. CASE disk["state"] # None /\ \E x \in Paths : fp = disk["state"][x]
    BY <2>1, <2>3 DEF InUse
  <2>4. CASE \E a \in Builders, x \in Paths : fp = own[a].prev[x] \/ fp = own[a].fps[x]
    BY <2>1, <2>4 DEF InUse
  <2> QED BY <1>1, <1>6, <2>2, <2>3, <2>4 DEF InUse, Fingerprint
<1>7. StampInv'
  <2>1. ASSUME NEW x \in Paths, newRepo[x] # None PROVE newStamp[x] # 0
    BY <1>0, <2>1 DEF Edited, StampInv
  <2>2. \A x \in Paths : newStamp[x] <= NumPaths + (edits + 1)
    BY <1>0 DEF Edited, TypeOK
  <2>3. \A fp \in InUse : fp.stamp \in Nat /\ fp.stamp <= NumPaths + edits
    BY <1>0, WhatIsThere DEF StampInv, InUse
  <2>4. \A fp \in InUse' : fp.stamp <= NumPaths + (edits + 1)
    BY <1>0, <1>6, <2>3
  <2>5. ASSUME NEW fp \in InUse', NEW other \in InUse', fp.stamp = other.stamp
        PROVE  fp.content = other.content
    <3>1. CASE fp \in InUse /\ other \in InUse
      BY <1>0, <2>5, <3>1 DEF StampInv
    <3>2. CASE fp \notin InUse /\ other \notin InUse
      BY <1>6, <3>2
    <3>3. CASE fp \in InUse <=> other \notin InUse
      BY <1>0, <1>6, <2>3, <2>5, <3>3
    <3> QED BY <3>1, <3>2, <3>3
  <2> QED BY <1>1, <2>1, <2>2, <2>4, <2>5 DEF StampInv
<1>8. LoneInv'
  BY <1>0, <1>1, <1>3, <1>4 DEF LoneInv
<1>9. MemoryInv'
  BY <1>3, <1>4 DEF MemoryInv, Kept
<1>10. DiskInv'
  <2> SUFFICES ASSUME sound' PROVE DiskInv'
    BY DEF DiskInv
  <2>1. \A b \in Builders : ~Working(b) /\ pc[b] \notin Saving
    BY <1>4 DEF Working, Saving
  <2>2. \A f : ~Owed(f)
    BY <2>1 DEF Owed, OwesAt, Saving
  <2>3. disk["state"] # None =>
           \A f \in Tables : disk[f] \in {None, TableOf(f, Held(disk["state"]))}
    BY <1>0, <1>4, <2>2 DEF DiskInv
  <2> QED BY <1>1, <1>3, <2>1, <2>3 DEF DiskInv
<1>11. RebuildInv'
  BY <1>3 DEF RebuildInv
<1>12. IntelInv'
  <2> SUFFICES ASSUME sound, apart, disk["intel"] # None,
                      NEW x \in Paths, disk["intel"][x] # None
               PROVE  /\ disk["intel"][x].stamp \in 1 .. NumPaths + (edits + 1)
                      /\ TrueEntry(x, disk["intel"][x], InUse')
    BY <1>1, <1>4 DEF IntelInv
  <2>1. /\ disk["intel"][x].stamp \in 1 .. NumPaths + edits
        /\ TrueEntry(x, disk["intel"][x], InUse)
    BY <1>0 DEF IntelInv
  <2>2. \A fp \in InUse' : fp.stamp = disk["intel"][x].stamp => fp \in InUse
    BY <1>0, <1>6, <2>1
  <2> QED BY <1>0, <2>1, <2>2 DEF TrueEntry
<1> QED BY <1>5, <1>7, <1>8, <1>9, <1>10, <1>11, <1>12 DEF IInv

(* Write, Delete and Move are edits.                                       *)
LEMMA EditSteps ==
    ASSUME IInv,
           \/ \E x \in Paths : Delete(x) \/ \E c \in Contents : Write(x, c)
           \/ \E x, y \in Paths : Move(x, y)
    PROVE  IInv'
<1>0. /\ TypeOK /\ StampInv /\ edits \in Nat /\ NumPaths \in Nat /\ MaxEdits \in Nat
      /\ repo \in [Paths -> Contents \union {None}]
      /\ stamp \in [Paths -> 0 .. NumPaths + MaxEdits]
      /\ \A x \in Paths : stamp[x] <= NumPaths + edits + 1
  BY WhatIsThere DEF IInv, TypeOK, StampInv, Table
<1>1. ASSUME NEW x \in Paths, NEW c \in Contents, Write(x, c) PROVE IInv'
  <2> DEFINE r == [repo EXCEPT ![x] = c]
             t == [stamp EXCEPT ![x] = NumPaths + edits + 1]
  <2>1. Change(r, t) /\ edits < MaxEdits
    BY <1>1 DEF Write, Change
  <2>2. r \in Table(Contents) /\ t \in [Paths -> 0 .. NumPaths + MaxEdits]
    BY <1>0, <2>1 DEF Table
  <2>3. \A y \in Paths : /\ r[y] = IF y = x THEN c ELSE repo[y]
                         /\ t[y] = IF y = x THEN NumPaths + edits + 1 ELSE stamp[y]
    BY <1>0
  <2> HIDE DEF r, t
  <2>4. Edited(r, t, c)
    BY <1>0, <2>2, <2>3 DEF Edited
  <2> QED BY <2>1, <2>4, ChangeStep
<1>2. ASSUME NEW x \in Paths, Delete(x) PROVE IInv'
  <2> DEFINE r == [repo EXCEPT ![x] = None]
             t == [stamp EXCEPT ![x] = 0]
  <2>1. Change(r, t)
    BY <1>2 DEF Delete
  <2>2. r \in Table(Contents) /\ t \in [Paths -> 0 .. NumPaths + MaxEdits]
    BY <1>0 DEF Table
  <2>3. \A y \in Paths : /\ r[y] = IF y = x THEN None ELSE repo[y]
                         /\ t[y] = IF y = x THEN 0 ELSE stamp[y]
    BY <1>0
  <2> HIDE DEF r, t
  <2>4. Edited(r, t, None)
    BY <1>0, <2>2, <2>3 DEF Edited
  <2> QED BY <2>1, <2>4, ChangeStep
<1>3. ASSUME NEW x \in Paths, NEW y \in Paths, Move(x, y) PROVE IInv'
  <2> DEFINE r == [repo EXCEPT ![x] = None, ![y] = repo[x]]
             t == [stamp EXCEPT ![x] = 0, ![y] = stamp[x]]
  <2>1. Change(r, t) /\ x # y /\ repo[x] # None
    BY <1>3 DEF Move
  <2>2. r \in Table(Contents) /\ t \in [Paths -> 0 .. NumPaths + MaxEdits]
    BY <1>0 DEF Table
  <2>3. \A z \in Paths :
           /\ r[z] = IF z = y THEN repo[x] ELSE IF z = x THEN None ELSE repo[z]
           /\ t[z] = IF z = y THEN stamp[x] ELSE IF z = x THEN 0 ELSE stamp[z]
    BY <1>0
  <2> HIDE DEF r, t
  <2>4. Edited(r, t, None)
    BY <1>0, <2>1, <2>2, <2>3 DEF Edited
  <2> QED BY <2>1, <2>4, ChangeStep
<1> QED BY <1>1, <1>2, <1>3

(* Cache files that are deleted, cut short, outdated or evicted.           *)
LEMMA DamageStep ==
    ASSUME IInv, Damage PROVE IInv'
<1>0. TypeOK /\ StampInv /\ LoneInv /\ MemoryInv /\ DiskInv /\ RebuildInv /\ IntelInv
  BY DEF IInv
<1>1. UNCHANGED <<repo, stamp, pc, own, calm, sound, apart, edits>>
  BY DEF Damage
<1>2. /\ disk' = [f \in Files |-> disk'[f]]
      /\ \A f \in Files : disk'[f] = None \/ disk'[f] = disk[f]
  BY <1>0 DEF Damage, TypeOK
<1>3. TypeOK'
  BY <1>0, <1>1, <1>2 DEF TypeOK, Files
<1>4. InUse' \subseteq InUse
  BY <1>1, <1>2 DEF InUse, Fingerprint, Files
<1>5. StampInv' /\ LoneInv' /\ MemoryInv'
  BY <1>0, <1>1, <1>4 DEF StampInv, LoneInv, MemoryInv, Working, Kept
<1>6. DiskInv'
  <2>1. \A f : Owed(f)' <=> Owed(f)
    BY <1>1 DEF Owed
  <2>2. disk'["state"] # None => disk'["state"] = disk["state"]
    BY <1>2 DEF Files
  <2>3. \A f \in Tables : disk'[f] = None \/ disk'[f] = disk[f]
    BY <1>2 DEF Files, Tables
  <2> QED BY <1>0, <1>1, <2>1, <2>2, <2>3 DEF DiskInv, Working
<1>7. RebuildInv'
  <2>1. \A s : Rebuilt(disk, s, repo, stamp) => Rebuilt(disk', s, repo, stamp)
    BY <1>2 DEF Rebuilt, Files
  <2> QED BY <1>0, <1>1, <2>1 DEF RebuildInv
<1>8. IntelInv'
  <2>1. CASE disk'["intel"] = None
    BY <2>1 DEF IntelInv
  <2>2. CASE disk'["intel"] = disk["intel"]
    BY <1>0, <1>1, <1>4, <2>2, IntelStays
  <2> QED BY <1>2, <2>1, <2>2 DEF Files
<1> QED BY <1>3, <1>5, <1>6, <1>7, <1>8 DEF IInv
-----------------------------------------------------------------------------
(* Nobody holds anything at first, and the cache is empty.                 *)
LEMMA InitIInv == Init => IInv
<1> SUFFICES ASSUME Init PROVE IInv
  OBVIOUS
<1>0. NumPaths \in Nat /\ MaxEdits \in Nat
  BY WhatIsThere
<1>1. repo \in Table(Contents)
  BY CacheAssumption DEF Init, Table
<1>2. \A x \in Paths : stamp[x] = (IF repo[x] = None THEN 0 ELSE x) /\ x \in 1 .. NumPaths
  BY DEF Init, Paths
<1>3. \A b \in Builders : own[b] = FromScratch /\ pc[b] = "idle" /\ ~calm[b] /\ ~Working(b)
  BY DEF Init, Working
<1>4. TypeOK
  <2>1. stamp \in [Paths -> 0 .. NumPaths + MaxEdits]
    <3>1. \A x \in Paths : stamp[x] \in 0 .. NumPaths + MaxEdits
      BY <1>0, <1>2
    <3>2. stamp = [x \in Paths |-> stamp[x]]
      BY DEF Init
    <3> QED BY <3>1, <3>2
  <2>2. own \in [Builders -> Memories] /\ pc \in [Builders -> Stages]
        /\ calm \in [Builders -> BOOLEAN]
    BY StartingOver DEF Init, Stages
  <2>3. /\ disk = [f \in Files |-> disk[f]] /\ \A f \in Files : disk[f] = None
        /\ sound \in BOOLEAN /\ apart \in BOOLEAN
    BY DEF Init
  <2>4. edits \in 0 .. MaxEdits
    BY <1>0 DEF Init
  <2> QED BY <1>1, <2>1, <2>2, <2>3, <2>4 DEF TypeOK, Files
<1>5. \A f \in Files : disk[f] = None
  BY DEF Init
<1>6. \A fp \in InUse : \E x \in Paths : repo[x] # None /\ fp.stamp = x /\ fp.content = repo[x]
  <2> SUFFICES ASSUME NEW fp \in InUse
               PROVE  \E x \in Paths : repo[x] # None /\ fp.stamp = x /\ fp.content = repo[x]
    OBVIOUS
  <2>1. fp # None
    BY WhatIsThere DEF InUse
  <2>2. PICK x \in Paths : repo[x] # None /\ fp = Fingerprint(x)
    BY <1>3, <1>5, <2>1, StartingOver DEF InUse, Files
  <2>3. fp.stamp = x /\ fp.content = repo[x]
    BY <1>2, <2>2 DEF Fingerprint
  <2> QED BY <2>2, <2>3
<1>7. StampInv
  <2>1. edits = 0
    BY DEF Init
  <2>2. \A x \in Paths : repo[x] # None => stamp[x] # 0
    BY <1>0, <1>2
  <2>3. \A x \in Paths : stamp[x] <= NumPaths + edits
    BY <1>0, <1>2, <2>1
  <2>4. \A fp \in InUse : fp.stamp <= NumPaths + edits
    BY <1>0, <1>2, <1>6, <2>1
  <2>5. \A fp, other \in InUse : fp.stamp = other.stamp => fp.content = other.content
    BY <1>6
  <2> QED BY <2>2, <2>3, <2>4, <2>5 DEF StampInv
<1>8. LoneInv /\ MemoryInv /\ RebuildInv
  BY <1>3 DEF LoneInv, MemoryInv, RebuildInv, Kept
<1>9. DiskInv /\ IntelInv
  BY <1>3, <1>5 DEF DiskInv, IntelInv, Files
<1> QED BY <1>4, <1>7, <1>8, <1>9 DEF IInv

(* Every step keeps what holds.                                            *)
LEMMA NextIInv == IInv /\ RenamesKeepTheLanguage /\ [Next]_vars => IInv'
<1> SUFFICES ASSUME IInv, RenamesKeepTheLanguage, [Next]_vars PROVE IInv'
  OBVIOUS
<1>1. CASE UNCHANGED vars
  <2> USE <1>1 DEF vars, bounds, IInv
  <2>1. TypeOK' /\ InUse' = InUse /\ LoneInv' /\ RebuildInv'
    BY DEF TypeOK, InUse, Fingerprint, LoneInv, Working, RebuildInv
  <2>2. StampInv'
    BY <2>1 DEF StampInv
  <2>3. MemoryInv'
    BY DEF MemoryInv, Kept, Working
  <2>4. DiskInv'
    BY DEF DiskInv, Owed, Working
  <2>5. IntelInv'
    BY <2>1 DEF IntelInv
  <2> QED BY <2>1, <2>2, <2>3, <2>4, <2>5
<1>2. ASSUME NEW b \in Builders, Build(b) PROVE IInv'
  <2>1. CASE \E rebuild \in BOOLEAN : Begin(b, rebuild)
    BY <2>1, BeginStep
  <2>2. CASE LoadProfile(b) \/ LoadSymbols(b) \/ LoadGraph(b)
    BY <2>2, LoadSteps
  <2>3. CASE Walk(b)
    BY <2>3, WalkStep
  <2>4. CASE DiffFile(b) \/ FingerprintFile(b)
    BY <2>4, FingerprintSteps
  <2>5. CASE Diffed(b)
    BY <2>5, DiffedStep
  <2>6. CASE BuildProfile(b)
    BY <2>6, BuildProfileStep
  <2>7. CASE ParseFile(b)
    BY <2>7, ParseFileStep
  <2>8. CASE Parsed(b)
    BY <2>8, ParsedStep
  <2>9. CASE Fingerprinted(b) \/ CheckIntel(b)
    BY <2>9, OtherMemorySteps
  <2>10. CASE SaveState(b)
    BY <2>10, SaveStateStep
  <2>11. CASE SaveProfile(b) \/ SaveSymbols(b) \/ SaveGraph(b)
    BY <2>11, SaveTableStep
  <2>12. CASE SaveIntel(b)
    BY <2>12, SaveIntelStep
  <2>13. CASE Finish(b)
    BY <2>13, LeaveSteps
  <2> QED BY <1>2, <2>1, <2>2, <2>3, <2>4, <2>5, <2>6, <2>7, <2>8, <2>9, <2>10, <2>11, <2>12,
             <2>13 DEF Build
<1>3. ASSUME NEW b \in Builders, Crash(b) PROVE IInv'
  BY <1>3, LeaveSteps
<1>4. CASE \/ \E x \in Paths : Delete(x) \/ \E c \in Contents : Write(x, c)
           \/ \E x, y \in Paths : Move(x, y)
  BY <1>4, EditSteps
<1>5. CASE Damage
  BY <1>5, DamageStep
<1> QED BY <1>1, <1>2, <1>3, <1>4, <1>5 DEF Next

(* The invariant of the cache.                                             *)
LEMMA Invariance == Spec /\ []RenamesKeepTheLanguage => []IInv
BY InitIInv, NextIInv, PTL DEF Spec

(* The variables keep their types.  It holds of every behaviour in which a *)
(* rename keeps the language, as the invariant it is a part of.            *)
THEOREM TypeIsInvariant == Spec /\ []RenamesKeepTheLanguage => []TypeOK
<1>1. IInv => TypeOK
  BY DEF IInv
<1> QED BY <1>1, Invariance, PTL

(* ensure_repo_intelligence() answers a call that ran alone with the       *)
(* repository as it is: what it walked, its profile and its facts, be they *)
(* loaded, moved along with a rename or parsed; from any cache that        *)
(* overlapping calls, crashes before the saves, edits between calls,       *)
(* damage and eviction may leave, and after any full rebuild.              *)
THEOREM AnswersStayCurrent == Spec /\ []RenamesKeepTheLanguage => []AnswersAreCurrent
<1>1. ASSUME IInv PROVE AnswersAreCurrent
  <2> SUFFICES ASSUME NEW b \in Builders, pc[b] = "done", calm[b], sound \/ own[b].full
               PROVE  Current(own[b])
    BY DEF AnswersAreCurrent
  <2>1. Kept(b)
    BY DEF Kept, Working
  <2>2. Holds(own[b], "done", calm[b], repo, stamp)
    BY <1>1, <2>1, WhatABuilderHolds
  <2>3. /\ own[b].walk = {x \in Paths : repo[x] # None} /\ own[b].profile = repo
        /\ own[b].symbols = FactsOf(repo) /\ own[b].graph = FactsOf(repo)
    BY <2>2 DEF Holds, WalkHolds, TablesHold, Loading, Late, Existing
  <2>4. \A x \in own[b].walk : FactsOf(repo)[x] = Extracted(x, repo[x])
    BY <2>3 DEF FactsOf
  <2> QED BY <2>3, <2>4 DEF Current
<1> QED BY <1>1, Invariance, PTL

(* Between calls the tables of the cache describe the contents that        *)
(* state.json vouches for, whatever was edited since: the next diff can    *)
(* trust what it calls unchanged.                                          *)
THEOREM CacheRestsConsistent == Spec /\ []RenamesKeepTheLanguage => []RestingCacheIsConsistent
<1>1. ASSUME IInv PROVE RestingCacheIsConsistent
  <2> DEFINE fps == disk["state"]
             recorded == {x \in Paths : fps[x] # None}
  <2> SUFFICES ASSUME sound, AllIdle, fps # None
               PROVE  /\ \A f \in {"symbols", "graph"} : Readable(f) =>
                            \A x \in recorded : disk[f][x] = Extracted(x, fps[x].content)
                      /\ Readable("profile") =>
                            \A x \in Paths : disk["profile"][x] =
                                               IF x \in recorded THEN fps[x].content ELSE None
    BY DEF RestingCacheIsConsistent, Readable
  <2>1. \A f : ~Owed(f)
    BY DEF Owed, OwesAt, AllIdle
  <2>2. \A f \in Tables : disk[f] \in {None, TableOf(f, Held(fps))}
    BY <1>1, <2>1 DEF IInv, DiskInv
  <2>3. \A x \in Paths : /\ Held(fps)[x] = IF fps[x] = None THEN None ELSE fps[x].content
                         /\ Held(fps)[x] = None <=> fps[x] = None
    <3>1. fps \in Table(Fingerprints)
      BY <1>1 DEF IInv, TypeOK
    <3> QED BY <3>1, HeldIsContents DEF Held
  <2>4. ASSUME NEW f \in {"symbols", "graph"}, Readable(f), NEW x \in recorded
        PROVE  disk[f][x] = Extracted(x, fps[x].content)
    <3>1. disk[f] = FactsOf(Held(fps))
      BY <2>2, <2>4 DEF Readable, TableOf, Tables
    <3>2. FactsOf(Held(fps))[x] = Extracted(x, fps[x].content)
      BY <2>3, <2>4 DEF FactsOf
    <3> QED BY <3>1, <3>2
  <2>5. Readable("profile") => disk["profile"] = Held(fps)
    BY <2>2 DEF Readable, TableOf, Tables
  <2> QED BY <2>3, <2>4, <2>5
<1> QED BY <1>1, Invariance, PTL

(* The context server.py shows for a file, from file_intelligence.json and *)
(* a stamp alone and at any time, is true of the file, as long as calls do *)
(* not overlap and none was cut between its saves.                         *)
THEOREM ShownContextStaysTrue == Spec /\ []RenamesKeepTheLanguage => []ShownContextIsTrue
<1>1. ASSUME IInv PROVE ShownContextIsTrue
  <2> SUFFICES ASSUME sound, apart, NEW x \in Paths, Shown(x)
               PROVE  /\ disk["intel"][x].symbols = Known(Extracted(x, repo[x]))
                      /\ disk["intel"][x].graph = Known(Extracted(x, repo[x]))
    BY DEF ShownContextIsTrue
  <2>1. /\ repo[x] # None /\ disk["intel"] # None /\ disk["intel"][x] # None
        /\ disk["intel"][x].stamp = stamp[x]
    BY DEF Shown, Readable
  <2>2. TrueEntry(x, disk["intel"][x], InUse)
    BY <1>1, <2>1 DEF IInv, IntelInv
  <2>3. Fingerprint(x) \in InUse
    BY <1>1, <2>1, FingerprintsAreTrue DEF IInv
  <2>4. Fingerprint(x).stamp = stamp[x] /\ Fingerprint(x).content = repo[x]
    BY DEF Fingerprint
  <2> QED BY <2>1, <2>2, <2>3, <2>4 DEF TrueEntry
<1> QED BY <1>1, Invariance, PTL
-----------------------------------------------------------------------------
(* Matches that differ in their paths, each with a key of n numbers.       *)
Keyed(S, keys, n) ==
    /\ IsFiniteSet(S) /\ n \in Nat
    /\ \A m \in S : keys[m] \in [1 .. n -> Int]
    /\ PathOrder({m.path : m \in S})
    /\ \A m, k \in S : m.path = k.path => m = k

(* Keys of one length are in lexicographical order.                        *)
LEMMA KeysAreOrdered ==
    ASSUME NEW n \in Nat, NEW a \in [1 .. n -> Int], NEW b \in [1 .. n -> Int], NEW c \in [1 .. n -> Int]
    PROVE  /\ ~Finder!LessKey(a, a)
           /\ Finder!LessKey(a, b) /\ Finder!LessKey(b, c) => Finder!LessKey(a, c)
           /\ a = b \/ Finder!LessKey(a, b) \/ Finder!LessKey(b, a)
<1>1. ~Finder!LessKey(a, a)
  BY DEF Finder!LessKey
<1>2. ASSUME Finder!LessKey(a, b), Finder!LessKey(b, c) PROVE Finder!LessKey(a, c)
  <2>1. PICK i \in 1 .. n : a[i] < b[i] /\ \A j \in 1 .. (i - 1) : a[j] = b[j]
    BY <1>2 DEF Finder!LessKey
  <2>2. PICK k \in 1 .. n : b[k] < c[k] /\ \A j \in 1 .. (k - 1) : b[j] = c[j]
    BY <1>2 DEF Finder!LessKey
  <2>3. \A j \in 1 .. n : a[j] \in Int /\ b[j] \in Int /\ c[j] \in Int
    OBVIOUS
  <2>4. CASE i <= k
    <3>1. \A j \in 1 .. (i - 1) : j \in 1 .. (k - 1)
      BY <2>4
    <3>2. a[i] < c[i]
      <4>1. CASE i = k
        BY <2>1, <2>2, <2>3, <4>1
      <4>2. CASE i # k
        <5>1. i \in 1 .. (k - 1)
          BY <2>4, <4>2
        <5> QED BY <2>1, <2>2, <5>1
      <4> QED BY <4>1, <4>2
    <3> QED BY <2>1, <2>2, <3>1, <3>2 DEF Finder!LessKey
  <2>5. CASE k < i
    <3>1. \A j \in 1 .. (k - 1) : j \in 1 .. (i - 1)
      BY <2>5
    <3>2. k \in 1 .. (i - 1)
      BY <2>5
    <3>3. a[k] < c[k]
      BY <2>1, <2>2, <3>2
    <3> QED BY <2>1, <2>2, <3>1, <3>3 DEF Finder!LessKey
  <2> QED BY <2>4, <2>5
<1>3. ASSUME a # b PROVE Finder!LessKey(a, b) \/ Finder!LessKey(b, a)
  <2> DEFINE T == {i \in 1 .. n : a[i] # b[i]}
  <2>1. T \in SUBSET Nat /\ T # {}
    <3>1. a = [i \in 1 .. n |-> a[i]] /\ b = [i \in 1 .. n |-> b[i]]
      OBVIOUS
    <3>2. PICK i \in 1 .. n : a[i] # b[i]
      BY <1>3, <3>1
    <3>3. i \in T
      BY <3>2
    <3>4. \A j \in 1 .. n : j \in Nat
      OBVIOUS
    <3>5. T \in SUBSET Nat
      BY <3>4
    <3> QED BY <3>3, <3>5
  <2>2. PICK i \in T : \A j \in T : i <= j
    BY <2>1, LeastNumber
  <2>3. i \in 1 .. n /\ \A j \in 1 .. (i - 1) : j \in 1 .. n /\ j \notin T
    BY <2>2
  <2>4. \A j \in 1 .. (i - 1) : a[j] = b[j]
    BY <2>3
  <2>5. a[i] < b[i] \/ b[i] < a[i]
    BY <2>2, <2>3
  <2> QED BY <2>3, <2>4, <2>5 DEF Finder!LessKey
<1> QED BY <1>1, <1>2, <1>3

(* Keyed matches are in order.                                             *)
LEMMA MatchesAreOrdered ==
    ASSUME NEW S, NEW keys, NEW n, Keyed(S, keys, n), NEW a \in S, NEW b \in S, NEW c \in S
    PROVE  /\ ~Finder!Precedes(keys, a, a)
           /\ Finder!Precedes(keys, a, b) /\ Finder!Precedes(keys, b, c) => Finder!Precedes(keys, a, c)
           /\ a = b \/ Finder!Precedes(keys, a, b) \/ Finder!Precedes(keys, b, a)
<1> DEFINE L(x, y) == Finder!LessKey(keys[x], keys[y])
           B(x, y) == <<x.path, y.path>> \in PathBefore
           P == {m.path : m \in S}
<1>1. /\ ~L(a, a) /\ (L(a, b) /\ L(b, c) => L(a, c))
      /\ keys[a] = keys[b] \/ L(a, b) \/ L(b, a)
  BY KeysAreOrdered DEF Keyed
<1>2. a.path \in P /\ b.path \in P /\ c.path \in P /\ PathOrder(P)
  BY DEF Keyed
<1>3. ~B(a, a) /\ (B(a, b) /\ B(b, c) => B(a, c)) /\ (a.path = b.path \/ B(a, b) \/ B(b, a))
  BY <1>2 DEF PathOrder
<1>4. a.path = b.path => a = b
  BY DEF Keyed
<1>5. \A x, y \in S : Finder!Precedes(keys, x, y) <=> L(x, y) \/ (keys[x] = keys[y] /\ B(x, y))
  BY DEF Finder!Precedes
<1>6. /\ keys[a] = keys[b] /\ L(b, c) => L(a, c)
      /\ L(a, b) /\ keys[b] = keys[c] => L(a, c)
  OBVIOUS
<1> HIDE DEF L, B
<1> QED BY <1>1, <1>3, <1>4, <1>5, <1>6

LEMMA FinderCount ==
    ASSUME NEW S PROVE Finder!Cardinality(S) = Cardinality(S)
BY DEF Finder!Cardinality, Cardinality

(* A ranking has every match once, and in order.                           *)
Ranking(S, keys, ranked, n) ==
    /\ n \in Nat /\ ranked \in Seq(S) /\ Len(ranked) = n
    /\ \A k \in 1 .. n : ranked[k] \in S /\ Cardinality(Finder!RankedBefore(S, keys, ranked[k])) = k - 1
    /\ \A j, k \in 1 .. n : ranked[j] = ranked[k] => j = k
    /\ \A m \in S : \E k \in 1 .. n : ranked[k] = m
    /\ \A j, k \in 1 .. n : j < k => Finder!Precedes(keys, ranked[j], ranked[k])

LEMMA RankingIsComplete ==
    ASSUME NEW S, NEW keys, NEW w, Keyed(S, keys, w), NEW ranked, ranked = Finder!Ranked(S, keys),
           NEW n, n = Cardinality(S)
    PROVE  Ranking(S, keys, ranked, n)
<1> DEFINE r == {p \in S \X S : Finder!Precedes(keys, p[1], p[2])}
<1>1. IsFiniteSet(S) /\ \A a, b \in S : <<a, b>> \in r <=> Finder!Precedes(keys, a, b)
  BY DEF Keyed
<1>2. \A a \in S : Finder!RankedBefore(S, keys, a) = Ahead(S, r, a)
  BY <1>1 DEF Finder!RankedBefore, Ahead
<1>3. /\ ranked = [k \in 1 .. n |-> ranked[k]]
      /\ \A k \in 1 .. n : ranked[k] = CHOOSE m \in S : Finder!Cardinality(Finder!RankedBefore(S, keys, m)) = k - 1
  BY FinderCount DEF Finder!Ranked
<1> HIDE DEF r
<1>4. StrictOrder(S, r)
  BY <1>1, MatchesAreOrdered DEF StrictOrder
<1>5. ListedInOrder(ranked, S, r)
  <2>1. \A k \in 1 .. n : (\E m \in S : Finder!Cardinality(Finder!RankedBefore(S, keys, m)) = k - 1)
            => /\ ranked[k] \in S
               /\ Finder!Cardinality(Finder!RankedBefore(S, keys, ranked[k])) = k - 1
    BY <1>3
  <2> QED BY <1>2, <2>1, FinderCount DEF ListedInOrder
<1>6. /\ n \in Nat
      /\ \A k \in 1 .. n : ranked[k] \in S /\ Cardinality(Ahead(S, r, ranked[k])) = k - 1
      /\ \A j, k \in 1 .. n : ranked[j] = ranked[k] => j = k
      /\ \A i \in S : \E k \in 1 .. n : ranked[k] = i
      /\ \A j, k \in 1 .. n : j < k => <<ranked[j], ranked[k]>> \in r
  BY <1>1, <1>4, <1>5, ListsAreComplete
<1>7. ranked \in Seq(S) /\ Len(ranked) = n
  BY <1>3, <1>6
<1> QED BY <1>1, <1>2, <1>6, <1>7 DEF Ranking

(* The first of a sequence.                                                *)
LEMMA FirstOnes ==
    ASSUME NEW S, NEW seq \in Seq(S), NEW limit \in Nat, NEW f, f = Finder!FirstOf(seq, limit)
    PROVE  /\ f \in Seq(S) /\ Len(f) = (IF Len(seq) < limit THEN Len(seq) ELSE limit)
           /\ Len(f) \in Nat /\ Len(f) <= Len(seq) /\ Len(f) <= limit
           /\ \A k \in 1 .. Len(f) : f[k] = seq[k]
           /\ DOMAIN f = 1 .. Len(f)
<1>1. f = SubSeq(seq, 1, IF Len(seq) < limit THEN Len(seq) ELSE limit)
  BY DEF Finder!FirstOf
<1> QED BY <1>1

LEMMA FinderMin ==
    ASSUME NEW S PROVE Finder!Min(S) = Min(S)
BY DEF Finder!Min, Min

(* The seven kinds of evidence have seven priorities.                      *)
Tier(e) == Finder!Priority(e)

LEMMA PrioritiesAreNumbers ==
    ASSUME NEW i \in 1 .. 7
    PROVE  /\ DOMAIN Finder!_EVIDENCE_PRIORITY = 1 .. 7
           /\ Finder!_EVIDENCE_PRIORITY[i] # Finder!None
           /\ Tier(Finder!_EVIDENCE_PRIORITY[i]) \in 1 .. 7
<1>1. DOMAIN Finder!_EVIDENCE_PRIORITY = 1 .. 7
  BY DEF Finder!_EVIDENCE_PRIORITY
<1>2. Finder!_EVIDENCE_PRIORITY[i] # Finder!None
  BY DEF Finder!_EVIDENCE_PRIORITY, Finder!None
<1>3. Tier(Finder!_EVIDENCE_PRIORITY[i]) \in 1 .. 7
  <2> HIDE <1>2
  <2>1. \E j \in DOMAIN Finder!_EVIDENCE_PRIORITY :
           Finder!_EVIDENCE_PRIORITY[j] = Finder!_EVIDENCE_PRIORITY[i]
    BY <1>1
  <2>2. Tier(Finder!_EVIDENCE_PRIORITY[i]) \in DOMAIN Finder!_EVIDENCE_PRIORITY
    BY <2>1 DEF Tier, Finder!Priority
  <2> QED BY <1>1, <2>2
<1> QED BY <1>1, <1>2, <1>3

(* What a file has for a query. *)
Shows(entries, path, query) == Finder!_best_evidence(entries, path, Finder!casefold(query))

LEMMA EvidenceHasATier ==
    ASSUME NEW entries, NEW path, NEW query, Shows(entries, path, query) # Finder!None
    PROVE  Tier(Shows(entries, path, query)) \in 1 .. 7
<1> DEFINE q == Finder!casefold(query)
           T == {i \in DOMAIN Finder!_EVIDENCE_PRIORITY :
                    Finder!Qualifies(entries, path, Finder!_EVIDENCE_PRIORITY[i], q)}
           e == Shows(entries, path, query)
<1>1. e = IF T = {} THEN Finder!None ELSE Finder!_EVIDENCE_PRIORITY[Finder!Min(T)]
  BY DEF Shows, Finder!_best_evidence
<1>2. DOMAIN Finder!_EVIDENCE_PRIORITY = 1 .. 7
  BY DEF Finder!_EVIDENCE_PRIORITY
<1>3. T \in SUBSET Nat /\ T \subseteq 1 .. 7
  BY <1>2
<1> HIDE DEF e, T
<1>4. T # {} /\ e = Finder!_EVIDENCE_PRIORITY[Min(T)]
  BY <1>1, FinderMin DEF e
<1>5. Min(T) \in 1 .. 7
  BY <1>3, <1>4, MinIsLeast
<1> QED BY <1>4, <1>5, PrioritiesAreNumbers DEF e

(* Files whose paths are ordered, with what the ranking goes by.           *)
Listed(entries) ==
    /\ IsFiniteSet(DOMAIN entries) /\ PathOrder(DOMAIN entries)
    /\ \A p \in DOMAIN entries :
          /\ entries[p].entry_point \in BOOLEAN
          /\ entries[p].importance \in {"High", "Medium", "Low"}
          /\ Len(Finder!Last(p)) \in Nat

(* The matches of a query, one for each file that shows something.         *)
LEMMA MatchesOfAQuery ==
    ASSUME NEW entries, NEW query, NEW filters, NEW M, M = Finder!Matches(entries, query, filters)
    PROVE  /\ \A m \in M : /\ m = [path |-> m.path, evidence |-> m.evidence]
                           /\ m.path \in DOMAIN entries /\ m.evidence # Finder!None
                           /\ m.evidence = Shows(entries, m.path, query)
           /\ filters = Finder!NoFilters =>
                 \A p \in DOMAIN entries : Shows(entries, p, query) # Finder!None =>
                    [path |-> p, evidence |-> Shows(entries, p, query)] \in M
<1>1. M = {m \in {[path |-> p, evidence |-> Shows(entries, p, query)] :
                    p \in {q \in DOMAIN entries : Finder!Passes(entries[q], filters)}} :
             m.evidence # Finder!None}
  BY DEF Finder!Matches, Shows
<1>2. filters = Finder!NoFilters => \A q : Finder!Passes(entries[q], filters)
  BY DEF Finder!Passes, Finder!NoFilters
<1> QED BY <1>1, <1>2

(* They can be ranked. *)
LEMMA MatchesAreKeyed ==
    ASSUME NEW entries, Listed(entries), NEW query, Len(query) \in Nat, NEW filters,
           NEW M, M = Finder!Matches(entries, query, filters),
           NEW keys, keys = Finder!SortKeys(entries, M, query)
    PROVE  /\ Keyed(M, keys, 4)
           /\ \A m \in M : keys[m][1] = Tier(m.evidence) /\ Tier(m.evidence) \in 1 .. 7
<1>1. \A m \in M : /\ m = [path |-> m.path, evidence |-> m.evidence]
                   /\ m.path \in DOMAIN entries /\ m.evidence # Finder!None
                   /\ m.evidence = Shows(entries, m.path, query)
  BY MatchesOfAQuery
<1>2. \A m \in M : Tier(m.evidence) \in 1 .. 7
  BY <1>1, EvidenceHasATier
<1>3. ASSUME NEW m \in M PROVE keys[m] \in [1 .. 4 -> Int] /\ keys[m][1] = Tier(m.evidence)
  <2> DEFINE entry == entries[m.path]
             distance == Finder!Abs(Len(Finder!Last(m.path)) - Len(query))
             a == Tier(m.evidence)
             b == IF entry.entry_point THEN 0 ELSE 1
             c == Finder!_IMPORTANCE_RANK[entry.importance]
             d == IF m.evidence \in {"exact_filename", "filename_contains"} THEN distance ELSE 0
  <2>1. keys[m] = <<a, b, c, d>>
    BY DEF Finder!SortKeys, Finder!_sort_key, Tier
  <2>2. distance \in Int
    BY <1>1 DEF Listed, Finder!Abs
  <2>3. c \in Int
    BY <1>1 DEF Listed, Finder!_IMPORTANCE_RANK
  <2>4. a \in Int /\ b \in Int /\ d \in Int
    BY <1>2, <2>2
  <2> HIDE DEF a, b, c, d
  <2>5. <<a, b, c, d>> \in [1 .. 4 -> Int] /\ <<a, b, c, d>>[1] = a
    BY <2>3, <2>4
  <2> QED BY <2>1, <2>5 DEF a
<1>4. IsFiniteSet(M)
  <2> DEFINE f == [p \in DOMAIN entries |-> [path |-> p, evidence |-> Shows(entries, p, query)]]
             R == {f[p] : p \in DOMAIN entries}
  <2>1. f \in Surjection(DOMAIN entries, R)
    BY DEF Surjection
  <2>2. IsFiniteSet(R)
    BY <2>1, FS_Surjection DEF Listed
  <2>3. \A m \in M : m = f[m.path] /\ m.path \in DOMAIN entries
    BY <1>1
  <2>4. M \subseteq R
    BY <2>3
  <2> QED BY <2>2, <2>4, FS_Subset
<1>5. PathOrder({m.path : m \in M})
  <2> DEFINE P == {m.path : m \in M}
  <2>1. P \subseteq DOMAIN entries /\ PathOrder(DOMAIN entries)
    BY <1>1 DEF Listed
  <2> HIDE DEF P
  <2>2. PathOrder(P)
    BY <2>1 DEF PathOrder
  <2> QED BY <2>2 DEF P
<1>6. \A m, k \in M : m.path = k.path => m = k
  BY <1>1
<1> QED BY <1>2, <1>3, <1>4, <1>5, <1>6 DEF Keyed

(* What a search answers, from the ranking of all its matches.             *)
LEMMA SearchCutsTheRanking ==
    ASSUME NEW entries, NEW query, NEW filters, NEW limit, NEW M, M = Finder!Matches(entries, query, filters),
           NEW ranked, ranked = Finder!Ranked(M, Finder!SortKeys(entries, M, query)),
           NEW r, r = Finder!search(entries, query, filters, limit)
    PROVE  r.matches = Finder!FirstOf(ranked, limit) /\ (r.truncated <=> Len(ranked) > limit)
BY DEF Finder!search, Finder!Cut

(* A shorter answer is the beginning of a longer one, and says it was cut. *)
THEOREM ShorterSearchIsABeginning ==
    ASSUME NEW entries, Listed(entries), NEW query, Len(query) \in Nat, NEW filters, NEW limit \in Nat
    PROVE  Finder!ShorterListIsABeginning(Finder!search(entries, query, filters, limit),
                                          Finder!search(entries, query, filters, limit + 1))
<1> DEFINE M == Finder!Matches(entries, query, filters)
           keys == Finder!SortKeys(entries, M, query)
           ranked == Finder!Ranked(M, keys)
           short == Finder!search(entries, query, filters, limit)
           long == Finder!search(entries, query, filters, limit + 1)
<1>1. Keyed(M, keys, 4)
  BY MatchesAreKeyed
<1>2. ranked \in Seq(M)
  <2> HIDE DEF M, keys
  <2>1. Ranking(M, keys, ranked, Cardinality(M))
    BY <1>1, RankingIsComplete
  <2> QED BY <2>1 DEF Ranking
<1>3. /\ short.matches = Finder!FirstOf(ranked, limit) /\ (short.truncated <=> Len(ranked) > limit)
      /\ long.matches = Finder!FirstOf(ranked, limit + 1)
  BY SearchCutsTheRanking
<1> HIDE DEF M, ranked, short, long
<1> DEFINE s == short.matches
           l == long.matches
<1>4. /\ s \in Seq(M) /\ Len(s) = (IF Len(ranked) < limit THEN Len(ranked) ELSE limit)
      /\ Len(s) \in Nat /\ \A k \in 1 .. Len(s) : s[k] = ranked[k]
  BY <1>2, <1>3, FirstOnes
<1>5. /\ l \in Seq(M) /\ Len(l) = (IF Len(ranked) < limit + 1 THEN Len(ranked) ELSE limit + 1)
      /\ Len(l) \in Nat /\ \A k \in 1 .. Len(l) : l[k] = ranked[k]
  <2>1. limit + 1 \in Nat
    OBVIOUS
  <2> QED BY <1>2, <1>3, <2>1, FirstOnes
<1>6. Len(ranked) \in Nat
  BY <1>2
<1>7. short.truncated <=> Len(l) > Len(s)
  BY <1>3, <1>4, <1>5, <1>6
<1>8. Len(s) <= Len(l) /\ \A k \in 1 .. Len(s) : s[k] = l[k]
  <2>1. Len(s) <= Len(l)
    BY <1>4, <1>5, <1>6
  <2>2. \A k \in 1 .. Len(s) : k \in 1 .. Len(l)
    BY <1>4, <1>5, <2>1
  <2> QED BY <1>4, <1>5, <2>1, <2>2
<1> HIDE DEF s, l
<1>9. SubSeq(s, 1, Len(s)) = SubSeq(l, 1, Len(s))
  BY <1>4, <1>5, <1>8
<1>10. Finder!ShorterListIsABeginning(short, long)
  BY <1>7, <1>8, <1>9 DEF Finder!ShorterListIsABeginning, Finder!IsPrefix, s, l
<1> QED BY <1>10 DEF short, long

(* What a query keeps of its matches: all, or as many as the limit says of *)
(* the strongest.                                                          *)
KeepsTheStrongest(kept, M, limit) ==
    /\ kept \subseteq M
    /\ \A m \in M \ kept : /\ IsFiniteSet(kept) /\ Cardinality(kept) = limit
                           /\ \A k \in kept : Tier(k.evidence) <= Tier(m.evidence)

LEMMA SearchKeepsTheStrongest ==
    ASSUME NEW entries, Listed(entries), NEW query, Len(query) \in Nat, NEW filters, NEW limit \in Nat,
           NEW M, M = Finder!Matches(entries, query, filters),
           NEW kept, kept = Finder!ToSet(Finder!search(entries, query, filters, limit).matches)
    PROVE  KeepsTheStrongest(kept, M, limit)
<1> DEFINE keys == Finder!SortKeys(entries, M, query)
           ranked == Finder!Ranked(M, keys)
           n == Cardinality(M)
           f == Finder!search(entries, query, filters, limit).matches
           K == 1 .. Len(f)
<1>1. Keyed(M, keys, 4) /\ \A m \in M : keys[m][1] = Tier(m.evidence) /\ Tier(m.evidence) \in 1 .. 7
  BY MatchesAreKeyed
<1>2. f = Finder!FirstOf(ranked, limit)
  BY SearchCutsTheRanking
<1>0. ranked = Finder!Ranked(M, keys) /\ n = Cardinality(M)
  OBVIOUS
<1> HIDE DEF keys, f, ranked, n
<1>3. /\ n \in Nat /\ ranked \in Seq(M) /\ Len(ranked) = n
      /\ \A k \in 1 .. n : ranked[k] \in M
      /\ \A j, k \in 1 .. n : ranked[j] = ranked[k] => j = k
      /\ \A m \in M : \E k \in 1 .. n : ranked[k] = m
      /\ \A j, k \in 1 .. n : j < k => Finder!Precedes(keys, ranked[j], ranked[k])
  <2>1. Ranking(M, keys, ranked, n)
    BY <1>0, <1>1, RankingIsComplete
  <2> QED BY <2>1 DEF Ranking
<1>4. /\ Len(f) = (IF n < limit THEN n ELSE limit) /\ Len(f) \in Nat
      /\ \A k \in K : f[k] = ranked[k]
      /\ DOMAIN f = K
  BY <1>2, <1>3, FirstOnes
<1>5. kept = {f[k] : k \in K}
  BY <1>4 DEF Finder!ToSet, f
<1>6. K \subseteq 1 .. n
  BY <1>3, <1>4
<1>7. kept \subseteq M
  BY <1>3, <1>4, <1>5, <1>6
<1>8. ASSUME NEW m \in M \ kept
      PROVE  /\ IsFiniteSet(kept) /\ Cardinality(kept) = limit
             /\ \A k \in kept : Tier(k.evidence) <= Tier(m.evidence)
  <2>1. PICK j \in 1 .. n : ranked[j] = m
    BY <1>3
  <2>2. j \notin K
    BY <1>4, <1>5, <2>1
  <2>3. Len(f) = limit
    BY <1>3, <1>4, <2>2
  <2>4. IsFiniteSet(kept) /\ Cardinality(kept) = limit
    <3> DEFINE g == [k \in K |-> f[k]]
    <3>1. g \in Bijection(K, kept)
      BY <1>3, <1>4, <1>5, <1>6 DEF Bijection, Injection, IsInjective, Surjection
    <3>2. IsFiniteSet(K) /\ Cardinality(K) = Len(f)
      <4> DEFINE c == Len(f)
      <4>1. c \in Nat
        BY <1>4
      <4> HIDE DEF c
      <4>2. IsFiniteSet(1 .. c) /\ Cardinality(1 .. c) = c
        <5>1. IsFiniteSet(1 .. c) /\ Cardinality(1 .. c) = IF 1 > c THEN 0 ELSE c - 1 + 1
          <6>1. 1 \in Int /\ c \in Int
            BY <4>1
          <6> QED BY <6>1, FS_Interval
        <5>2. (IF 1 > c THEN 0 ELSE c - 1 + 1) = c
          BY <4>1
        <5> QED BY <5>1, <5>2
      <4> QED BY <4>2 DEF c
    <3> HIDE DEF K, g
    <3> QED BY <2>3, <3>1, <3>2, FS_Bijection DEF ExistsBijection
  <2>5. ASSUME NEW k \in kept PROVE Tier(k.evidence) <= Tier(m.evidence)
    <3>1. PICK i \in K : ranked[i] = k
      BY <1>4, <1>5
    <3>2. i \in 1 .. n /\ i < j
      BY <1>4, <1>6, <2>2
    <3>3. Finder!Precedes(keys, k, m)
      BY <1>3, <2>1, <3>1, <3>2
    <3>4. keys[k] \in [1 .. 4 -> Int] /\ keys[m] \in [1 .. 4 -> Int]
      BY <1>1, <1>7 DEF Keyed
    <3>5. keys[k][1] <= keys[m][1]
      <4>1. CASE Finder!LessKey(keys[k], keys[m])
        <5>1. PICK h \in 1 .. 4 : keys[k][h] < keys[m][h] /\ \A x \in 1 .. (h - 1) : keys[k][x] = keys[m][x]
          BY <3>4, <4>1 DEF Finder!LessKey
        <5>2. CASE h = 1
          <6>1. keys[k][1] < keys[m][1] /\ keys[k][1] \in Int /\ keys[m][1] \in Int
            BY <3>4, <5>1, <5>2
          <6> QED BY <6>1
        <5>3. CASE h # 1
          <6>1. 1 \in 1 .. (h - 1)
            BY <5>3
          <6> QED BY <3>4, <5>1, <6>1
        <5> QED BY <5>2, <5>3
      <4>2. CASE keys[k] = keys[m]
        BY <3>4, <4>2
      <4> QED BY <3>3, <4>1, <4>2 DEF Finder!Precedes
    <3> QED BY <1>1, <1>7, <3>5
  <2> QED BY <2>4, <2>5
<1> QED BY <1>7, <1>8 DEF KeepsTheStrongest

(* What was found, each with a tier, on some of the files of D.            *)
FoundOn(found, D) ==
    /\ IsFiniteSet(D)
    /\ \A m \in found : m.path \in D /\ Tier(m.evidence) \in 1 .. 7

(* Of each file found, the best is the strongest of what was found.        *)
LEMMA BestAreStrongest ==
    ASSUME NEW found, NEW D, FoundOn(found, D), NEW best, best = Finder!BestOf(found)
    PROVE  /\ best \subseteq found /\ IsFiniteSet(best)
           /\ \A b \in best, m \in found : b.path = m.path => Tier(b.evidence) <= Tier(m.evidence)
           /\ \A m \in found : \E b \in best : b.path = m.path
           /\ \A b, c \in best : b.path = c.path => b = c
<1> DEFINE S(p) == Finder!Strongest(found, p)
           Own(p) == {m \in found : m.path = p}
           paths == {m.path : m \in found}
<1>1. ASSUME NEW p \in paths
      PROVE  S(p) \in Own(p) /\ \A m \in Own(p) : Tier(S(p).evidence) <= Tier(m.evidence)
  <2> DEFINE T == {Tier(m.evidence) : m \in Own(p)}
  <2>1. T \in SUBSET Nat /\ T # {}
    BY DEF FoundOn
  <2>2. PICK t \in T : \A u \in T : t <= u
    BY <2>1, LeastNumber
  <2>3. \E m \in Own(p) : \A k \in Own(p) : Tier(m.evidence) <= Tier(k.evidence)
    BY <2>2
  <2>4. S(p) = CHOOSE m \in Own(p) : \A k \in Own(p) : Tier(m.evidence) <= Tier(k.evidence)
    BY DEF Finder!Strongest, Tier
  <2> HIDE DEF S, Own
  <2> QED BY <2>3, <2>4
<1>2. \A b : b \in best <=> \E p \in paths : b = S(p)
  BY DEF Finder!BestOf
<1>3. \A p \in paths : S(p) \in found /\ S(p).path = p /\ \A m \in found : m.path = p => Tier(S(p).evidence) <= Tier(m.evidence)
  BY <1>1
<1>4. IsFiniteSet(best)
  <2> DEFINE f == [b \in best |-> b.path]
  <2> HIDE DEF S, paths
  <2>1. best \subseteq found
    BY <1>2, <1>3
  <2>2. \A b, c \in best : b.path = c.path => b = c
    BY <1>2, <1>3
  <2>3. f \in Injection(best, D)
    BY <2>1, <2>2 DEF FoundOn, Injection, IsInjective
  <2> QED BY <2>3, FS_Injection DEF FoundOn
<1>5. \A m \in found : m.path \in paths
  OBVIOUS
<1> HIDE DEF S, paths
<1> QED BY <1>2, <1>3, <1>4, <1>5

(* What queries show of the files, and what each of them keeps.            *)
MatchOf(shown, i, p) == [path |-> p, evidence |-> shown[i][p]]

Merging(D, I, shown, kept, limit) ==
    /\ IsFiniteSet(D) /\ PathOrder(D) /\ limit \in Nat /\ I # {}
    /\ \A i \in I : \A p \in D : shown[i][p] # Finder!None => Tier(shown[i][p]) \in 1 .. 7
    /\ \A i \in I : \A m \in kept[i] :
          /\ m.path \in D /\ shown[i][m.path] # Finder!None
          /\ m = MatchOf(shown, i, m.path)
    /\ \A i \in I : \A p \in D :
          shown[i][p] # Finder!None /\ MatchOf(shown, i, p) \notin kept[i] =>
             /\ IsFiniteSet(kept[i]) /\ Cardinality(kept[i]) = limit
             /\ \A k \in kept[i] : Tier(k.evidence) <= Tier(shown[i][p])

(* The best of what was kept of some queries.                              *)
Merged(D, I, shown, kept, limit, found, best) ==
    /\ Merging(D, I, shown, kept, limit)
    /\ found = UNION {kept[i] : i \in I}
    /\ best = Finder!BestOf(found)

(* Those at least as strong as v.                                          *)
AsStrong(best, v) == {b \in best : Tier(b.evidence) <= v}

(* Where a query lost a match, the limit is filled by files as strong.     *)
LEMMA LostMatchFillsTheLimit ==
    ASSUME NEW D, NEW I, NEW shown, NEW kept, NEW limit, NEW found, NEW best,
           Merged(D, I, shown, kept, limit, found, best),
           NEW i \in I, NEW p \in D, shown[i][p] # Finder!None, MatchOf(shown, i, p) \notin kept[i],
           NEW v, v = Tier(shown[i][p]),
           NEW strong, strong = AsStrong(best, v)
    PROVE  IsFiniteSet(strong) /\ limit <= Cardinality(strong) /\ strong \subseteq best
<1>1. /\ IsFiniteSet(kept[i]) /\ Cardinality(kept[i]) = limit
      /\ \A k \in kept[i] : Tier(k.evidence) <= v
      /\ limit \in Nat
  BY DEF Merged, Merging
<1>2. \A h \in I : \A m \in kept[h] : m.path \in D /\ Tier(m.evidence) \in 1 .. 7
  BY DEF Merged, Merging, MatchOf
<1>3. FoundOn(found, D) /\ kept[i] \subseteq found
  BY <1>2 DEF FoundOn, Merged, Merging
<1>4. /\ best \subseteq found /\ IsFiniteSet(best)
      /\ \A b \in best, m \in found : b.path = m.path => Tier(b.evidence) <= Tier(m.evidence)
      /\ \A m \in found : \E b \in best : b.path = m.path
  <2>1. best = Finder!BestOf(found)
    BY DEF Merged
  <2> QED BY <1>3, <2>1, BestAreStrongest
<1> DEFINE f == [m \in kept[i] |-> CHOOSE b \in best : b.path = m.path]
<1>11. \A b : b \in strong <=> b \in best /\ Tier(b.evidence) <= v
  BY DEF AsStrong
<1>5. ASSUME NEW m \in kept[i] PROVE f[m] \in strong /\ f[m].path = m.path
  <2>1. f[m] \in best /\ f[m].path = m.path
    BY <1>3, <1>4
  <2>2. Tier(f[m].evidence) <= Tier(m.evidence) /\ Tier(m.evidence) <= v
    BY <1>1, <1>3, <1>4, <2>1
  <2>3. Tier(f[m].evidence) \in 1 .. 7 /\ Tier(m.evidence) \in 1 .. 7 /\ v \in 1 .. 7
    <3>1. v \in 1 .. 7
      BY DEF Merged, Merging
    <3> QED BY <1>3, <1>4, <2>1, <3>1 DEF FoundOn
  <2>4. Tier(f[m].evidence) <= v
    BY <2>2, <2>3
  <2> QED BY <1>11, <2>1, <2>4
<1>6. \A m, k \in kept[i] : m.path = k.path => m = k
  BY DEF Merged, Merging
<1>7. IsFiniteSet(strong) /\ strong \subseteq best /\ Cardinality(strong) \in Nat
  BY <1>4, <1>11, FS_Subset, FS_CardinalityType
<1>8. f = [m \in kept[i] |-> f[m]]
  OBVIOUS
<1> HIDE DEF f
<1>9. f \in Injection(kept[i], strong)
  BY <1>5, <1>6, <1>8 DEF Injection, IsInjective
<1>10. Cardinality(kept[i]) <= Cardinality(strong)
  BY <1>7, <1>9, FS_Injection
<1> QED BY <1>1, <1>7, <1>10

(* The first of the best: none among them is weaker than what was lost.    *)
LEMMA FirstAreNotWeaker ==
    ASSUME NEW best, NEW n, n = Cardinality(best), NEW keys, keys = Finder!Tiers(best), Keyed(best, keys, 1),
           NEW ranked, ranked = Finder!Ranked(best, keys),
           \A b \in best : Tier(b.evidence) \in 1 .. 7,
           NEW k \in 1 .. n, NEW v \in Int, v < Tier(ranked[k].evidence)
    PROVE  /\ Cardinality(AsStrong(best, v)) <= k - 1
           /\ \A b \in best : Tier(b.evidence) <= v => \E j \in 1 .. (k - 1) : ranked[j] = b
<1> DEFINE ahead == Finder!RankedBefore(best, keys, ranked[k])
           strong == {b \in best : Tier(b.evidence) <= v}
<1>1. /\ n \in Nat
      /\ \A j \in 1 .. n : ranked[j] \in best
      /\ Cardinality(ahead) = k - 1
      /\ \A b \in best : \E j \in 1 .. n : ranked[j] = b
      /\ \A h, j \in 1 .. n : h < j => Finder!Precedes(keys, ranked[h], ranked[j])
  <2> DEFINE one == 1
  <2>1. Keyed(best, keys, one)
    OBVIOUS
  <2> HIDE DEF one
  <2>2. Ranking(best, keys, ranked, n)
    BY <2>1, RankingIsComplete
  <2> QED BY <2>2 DEF Ranking
<1>2. \A b \in best : keys[b] = <<Tier(b.evidence)>>
  BY DEF Finder!Tiers, Tier
<1>3. ASSUME NEW b \in best, NEW c \in best, Tier(b.evidence) < Tier(c.evidence)
      PROVE  Finder!Precedes(keys, b, c)
  <2>1. keys[b] = <<Tier(b.evidence)>> /\ keys[c] = <<Tier(c.evidence)>>
    BY <1>2
  <2>2. DOMAIN keys[b] = {1} /\ keys[b][1] < keys[c][1]
    BY <1>3, <2>1
  <2>3. Finder!LessKey(keys[b], keys[c])
    BY <2>2 DEF Finder!LessKey
  <2> QED BY <2>3 DEF Finder!Precedes
<1>4. ranked[k] \in best
  BY <1>1
<1>5. \A b \in strong : Tier(b.evidence) < Tier(ranked[k].evidence)
  BY <1>4
<1>6. strong \subseteq ahead
  <2> QED BY <1>3, <1>4, <1>5 DEF Finder!RankedBefore
<1>7. IsFiniteSet(ahead)
  BY FS_Subset DEF Keyed, Finder!RankedBefore
<1>8. Cardinality(strong) <= k - 1
  <2> HIDE DEF strong, ahead
  <2> QED BY <1>1, <1>6, <1>7, FS_Subset
<1>9. ASSUME NEW b \in best, Tier(b.evidence) <= v PROVE \E j \in 1 .. (k - 1) : ranked[j] = b
  <2>1. PICK j \in 1 .. n : ranked[j] = b
    BY <1>1
  <2>2. Finder!Precedes(keys, b, ranked[k])
    BY <1>6, <1>9 DEF Finder!RankedBefore
  <2>3. ~Finder!Precedes(keys, b, b) /\ (Finder!Precedes(keys, b, ranked[k]) => ~Finder!Precedes(keys, ranked[k], b))
    <3> QED BY <1>4, MatchesAreOrdered
  <2>4. j # k /\ ~(k < j)
    BY <1>1, <2>1, <2>2, <2>3
  <2>5. j \in 1 .. (k - 1)
    BY <1>1, <2>4
  <2> QED BY <2>1, <2>5
<1> QED BY <1>8, <1>9 DEF AsStrong

(* The merged list, against all that the queries show of the files.        *)
SeenBy(D, I, shown) == {p \in D : \E i \in I : shown[i][p] # Finder!None}

LEMMA MergedAreOfTheFiles ==
    ASSUME NEW D, NEW I, NEW shown, NEW kept, NEW limit, NEW found, NEW best,
           Merged(D, I, shown, kept, limit, found, best)
    PROVE  /\ FoundOn(found, D)
           /\ \A m \in found : \E i \in I : m \in kept[i] /\ m = MatchOf(shown, i, m.path)
           /\ best \subseteq found /\ IsFiniteSet(best)
           /\ \A b \in best, m \in found : b.path = m.path => Tier(b.evidence) <= Tier(m.evidence)
           /\ \A m \in found : \E b \in best : b.path = m.path
           /\ \A b, c \in best : b.path = c.path => b = c
           /\ Keyed(best, Finder!Tiers(best), 1)
           /\ \A b \in best : Tier(b.evidence) \in 1 .. 7
<1>1. \A i \in I : \A m \in kept[i] : /\ m.path \in D /\ m = MatchOf(shown, i, m.path)
                                      /\ Tier(m.evidence) \in 1 .. 7
  BY DEF Merged, Merging, MatchOf
<1>2. FoundOn(found, D) /\ \A m \in found : \E i \in I : m \in kept[i] /\ m = MatchOf(shown, i, m.path)
  BY <1>1 DEF FoundOn, Merged, Merging
<1>3. best = Finder!BestOf(found)
  BY DEF Merged
<1>4. /\ best \subseteq found /\ IsFiniteSet(best)
      /\ \A b \in best, m \in found : b.path = m.path => Tier(b.evidence) <= Tier(m.evidence)
      /\ \A m \in found : \E b \in best : b.path = m.path
      /\ \A b, c \in best : b.path = c.path => b = c
  BY <1>2, <1>3, BestAreStrongest
<1>5. \A b \in best : b.path \in D /\ Tier(b.evidence) \in 1 .. 7
  BY <1>2, <1>4 DEF FoundOn
<1>6. \A b \in best : Finder!Tiers(best)[b] \in [1 .. 1 -> Int]
  <2> TAKE b \in best
  <2> DEFINE t == Tier(b.evidence)
  <2>1. Finder!Tiers(best)[b] = <<t>>
    BY DEF Finder!Tiers, Tier
  <2>2. t \in Int
    BY <1>5
  <2> HIDE DEF t
  <2>3. <<t>> \in [1 .. 1 -> Int]
    BY <2>2
  <2> QED BY <2>1, <2>3
<1>7. PathOrder({b.path : b \in best})
  <2>1. PathOrder(D)
    BY DEF Merged, Merging
  <2>2. \A p \in {b.path : b \in best} : p \in D
    BY <1>5
  <2> DEFINE P == {b.path : b \in best}
  <2> HIDE DEF P
  <2> QED BY <2>1, <2>2 DEF PathOrder
<1>8. Keyed(best, Finder!Tiers(best), 1)
  BY <1>4, <1>6, <1>7 DEF Keyed
<1> QED BY <1>2, <1>4, <1>5, <1>8

MergeOf(D, I, shown, limit, seen, merged) ==
    /\ IsFiniteSet(seen) /\ Len(merged) \in Nat /\ DOMAIN merged = 1 .. Len(merged)
    /\ Len(merged) = (IF Cardinality(seen) < limit THEN Cardinality(seen) ELSE limit)
    /\ \A k \in 1 .. Len(merged) :
          /\ merged[k].path \in seen
          /\ \E i \in I : /\ shown[i][merged[k].path] # Finder!None
                          /\ merged[k].evidence = shown[i][merged[k].path]
          /\ \A i \in I : shown[i][merged[k].path] # Finder!None =>
                Tier(merged[k].evidence) <= Tier(shown[i][merged[k].path])
          /\ \A i \in I, p \in D :
                shown[i][p] # Finder!None /\ Tier(shown[i][p]) < Tier(merged[k].evidence) =>
                   \E j \in 1 .. (k - 1) : merged[j].path = p

LEMMA MergeIsComplete ==
    ASSUME NEW D, NEW I, NEW shown, NEW kept, NEW limit, NEW found, NEW best,
           Merged(D, I, shown, kept, limit, found, best),
           NEW ranked, ranked = Finder!Ranked(best, Finder!Tiers(best)),
           NEW merged, merged = Finder!FirstOf(ranked, limit),
           NEW seen, seen = SeenBy(D, I, shown)
    PROVE  MergeOf(D, I, shown, limit, seen, merged)
<1> DEFINE keys == Finder!Tiers(best)
           n == Cardinality(best)
           Lost(i, p) == i \in I /\ p \in D /\ shown[i][p] # Finder!None /\ MatchOf(shown, i, p) \notin kept[i]
<1>1. /\ FoundOn(found, D)
      /\ \A m \in found : \E i \in I : m \in kept[i] /\ m = MatchOf(shown, i, m.path)
      /\ best \subseteq found /\ IsFiniteSet(best)
      /\ \A b \in best, m \in found : b.path = m.path => Tier(b.evidence) <= Tier(m.evidence)
      /\ \A m \in found : \E b \in best : b.path = m.path
      /\ \A b, c \in best : b.path = c.path => b = c
      /\ Keyed(best, keys, 1)
      /\ \A b \in best : Tier(b.evidence) \in 1 .. 7
  BY MergedAreOfTheFiles
<1>2. /\ IsFiniteSet(D) /\ limit \in Nat
      /\ \A i \in I, p \in D : shown[i][p] # Finder!None => Tier(shown[i][p]) \in 1 .. 7
      /\ \A i \in I : \A m \in kept[i] : m.path \in D /\ shown[i][m.path] # Finder!None
      /\ \A i \in I : kept[i] \subseteq found
  BY DEF Merged, Merging
<1>3. ranked = Finder!Ranked(best, keys) /\ n = Cardinality(best) /\ keys = Finder!Tiers(best)
  OBVIOUS
<1> HIDE DEF keys, n
<1>4. /\ n \in Nat /\ ranked \in Seq(best) /\ Len(ranked) = n
      /\ \A k \in 1 .. n : ranked[k] \in best
  <2> DEFINE one == 1
  <2>0. Keyed(best, keys, one)
    BY <1>1
  <2> HIDE DEF one
  <2>1. Ranking(best, keys, ranked, n)
    BY <2>0, <1>3, RankingIsComplete
  <2> QED BY <2>1 DEF Ranking
<1>5. /\ Len(merged) = (IF n < limit THEN n ELSE limit) /\ Len(merged) \in Nat
      /\ \A k \in 1 .. Len(merged) : merged[k] = ranked[k]
      /\ DOMAIN merged = 1 .. Len(merged)
  BY <1>2, <1>4, FirstOnes
<1>6. \A i, p : Lost(i, p) => limit <= Cardinality(AsStrong(best, Tier(shown[i][p])))
  <2> SUFFICES ASSUME NEW i, NEW p, Lost(i, p)
               PROVE  limit <= Cardinality(AsStrong(best, Tier(shown[i][p])))
    OBVIOUS
  <2> DEFINE v == Tier(shown[i][p])
             strong == AsStrong(best, v)
  <2>1. v = Tier(shown[i][p]) /\ strong = AsStrong(best, v)
    OBVIOUS
  <2> HIDE DEF v, strong
  <2>2. limit <= Cardinality(strong)
    BY <2>1, LostMatchFillsTheLimit
  <2> QED BY <2>1, <2>2
<1>7. ASSUME NEW i, NEW p, Lost(i, p) PROVE limit <= n
  <2> DEFINE strong == AsStrong(best, Tier(shown[i][p]))
  <2>1. limit <= Cardinality(strong)
    BY <1>6, <1>7
  <2>2. Cardinality(strong) <= n /\ Cardinality(strong) \in Nat
    BY <1>1, <1>3, FS_Subset, FS_CardinalityType DEF AsStrong
  <2> HIDE DEF strong
  <2> QED BY <1>2, <1>4, <2>1, <2>2
<1>8. ASSUME NEW k \in 1 .. Len(merged), NEW i \in I, NEW p \in D, shown[i][p] # Finder!None,
             Tier(shown[i][p]) < Tier(merged[k].evidence)
      PROVE  /\ MatchOf(shown, i, p) \in kept[i]
             /\ \E j \in 1 .. (k - 1) : ranked[j].path = p
  <2> DEFINE v == Tier(shown[i][p])
             strong == AsStrong(best, v)
  <2>1. k \in 1 .. n /\ k <= limit
    BY <1>2, <1>4, <1>5
  <2>2. v \in Int /\ v < Tier(ranked[k].evidence) /\ v \in 1 .. 7
    BY <1>2, <1>5, <1>8
  <2> HIDE DEF v
  <2>3. Cardinality(strong) <= k - 1 /\ \A b \in best : Tier(b.evidence) <= v => \E j \in 1 .. (k - 1) : ranked[j] = b
    BY <1>1, <1>3, <2>1, <2>2, FirstAreNotWeaker
  <2>4. ~Lost(i, p)
    <3>1. Cardinality(strong) \in Nat
      BY <1>1, FS_Subset, FS_CardinalityType DEF AsStrong
    <3>2. Lost(i, p) => limit <= Cardinality(strong)
      BY <1>6 DEF v
    <3> HIDE DEF strong
    <3> QED BY <1>2, <2>1, <2>3, <3>1, <3>2
  <2>5. MatchOf(shown, i, p) \in kept[i]
    BY <1>8, <2>4
  <2>6. PICK b \in best : b.path = p
    BY <1>1, <1>2, <2>5 DEF MatchOf
  <2>7. Tier(b.evidence) <= v
    <3>1. MatchOf(shown, i, p) \in found /\ MatchOf(shown, i, p).path = p /\ Tier(MatchOf(shown, i, p).evidence) = v
      BY <1>2, <2>5 DEF MatchOf, v
    <3> QED BY <1>1, <2>6, <3>1
  <2> QED BY <2>3, <2>5, <2>6, <2>7
<1>9. ASSUME NEW k \in 1 .. Len(merged)
      PROVE  /\ merged[k].path \in seen
             /\ \E i \in I : /\ shown[i][merged[k].path] # Finder!None
                             /\ merged[k].evidence = shown[i][merged[k].path]
             /\ \A i \in I : shown[i][merged[k].path] # Finder!None =>
                   Tier(merged[k].evidence) <= Tier(shown[i][merged[k].path])
             /\ \A i \in I, p \in D :
                   shown[i][p] # Finder!None /\ Tier(shown[i][p]) < Tier(merged[k].evidence) =>
                      \E j \in 1 .. (k - 1) : merged[j].path = p
  <2> DEFINE m == merged[k]
  <2>1. m \in best /\ m \in found /\ m.path \in D /\ Tier(m.evidence) \in 1 .. 7
    <3>1. k \in 1 .. n
      BY <1>2, <1>4, <1>5
    <3> QED BY <1>1, <1>4, <1>5, <3>1 DEF FoundOn
  <2>2. PICK h \in I : m \in kept[h] /\ m = MatchOf(shown, h, m.path)
    BY <1>1, <2>1
  <2>3. shown[h][m.path] # Finder!None /\ m.evidence = shown[h][m.path]
    BY <1>2, <2>2 DEF MatchOf
  <2>4. ASSUME NEW i \in I, shown[i][m.path] # Finder!None
        PROVE  Tier(m.evidence) <= Tier(shown[i][m.path])
    <3>1. Tier(shown[i][m.path]) \in 1 .. 7
      BY <1>2, <2>1, <2>4
    <3>2. ASSUME Tier(shown[i][m.path]) < Tier(m.evidence) PROVE FALSE
      <4>1. MatchOf(shown, i, m.path) \in found
        BY <1>2, <1>8, <2>1, <2>4, <3>2
      <4>2. Tier(m.evidence) <= Tier(MatchOf(shown, i, m.path).evidence)
        BY <1>1, <2>1, <4>1 DEF MatchOf
      <4> QED BY <2>1, <3>1, <3>2, <4>2 DEF MatchOf
    <3> QED BY <2>1, <3>1, <3>2
  <2>5. \A i \in I, p \in D :
           shown[i][p] # Finder!None /\ Tier(shown[i][p]) < Tier(m.evidence) =>
              \E j \in 1 .. (k - 1) : merged[j].path = p
    <3> TAKE i \in I, p \in D
    <3> HAVE shown[i][p] # Finder!None /\ Tier(shown[i][p]) < Tier(m.evidence)
    <3>1. PICK j \in 1 .. (k - 1) : ranked[j].path = p
      BY <1>8
    <3>2. j \in 1 .. Len(merged)
      BY <1>5
    <3> QED BY <1>5, <3>1, <3>2
  <2> QED BY <2>1, <2>3, <2>4, <2>5 DEF SeenBy
<1>10. IsFiniteSet(seen) /\ seen \subseteq D
  <2>1. seen \subseteq D
    BY DEF SeenBy
  <2> QED BY <1>2, <2>1, FS_Subset
<1>11. Len(merged) = (IF Cardinality(seen) < limit THEN Cardinality(seen) ELSE limit)
  <2> DEFINE f == [b \in best |-> b.path]
             c == Cardinality(seen)
  <2>0. c \in Nat
    BY <1>10, FS_CardinalityType
  <2>1. \A b \in best : b.path \in seen
    <3> TAKE b \in best
    <3>1. PICK i \in I : b \in kept[i]
      BY <1>1
    <3> QED BY <1>2, <3>1 DEF SeenBy
  <2>2. f \in Injection(best, seen)
    BY <1>1, <2>1 DEF Injection, IsInjective
  <2>3. n <= c
    BY <1>3, <1>10, <2>2, FS_Injection
  <2>4. CASE \E i, p : Lost(i, p)
    <3>1. limit <= n
      BY <1>7, <2>4
    <3> HIDE DEF c
    <3> QED BY <1>2, <1>4, <1>5, <2>0, <2>3, <3>1 DEF c
  <2>5. CASE ~\E i, p : Lost(i, p)
    <3>1. ASSUME NEW p \in seen PROVE \E b \in best : f[b] = p
      <4>1. PICK i \in I : p \in D /\ shown[i][p] # Finder!None
        BY DEF SeenBy
      <4>2. MatchOf(shown, i, p) \in found
        BY <1>2, <2>5, <4>1
      <4>3. MatchOf(shown, i, p).path = p
        BY DEF MatchOf
      <4> QED BY <1>1, <4>2, <4>3
    <3>2. f \in Surjection(best, seen)
      BY <2>1, <3>1 DEF Surjection
    <3>3. c <= n
      BY <1>1, <1>3, <3>2, FS_Surjection
    <3> HIDE DEF c
    <3> QED BY <1>2, <1>4, <1>5, <2>0, <2>3, <3>3 DEF c
  <2> QED BY <2>4, <2>5
<1> QED BY <1>5, <1>9, <1>10, <1>11 DEF MergeOf

(* Queries to search the files with.                                       *)
Asked(queries) == queries # <<>> /\ \A i \in DOMAIN queries : Len(queries[i]) \in Nat

(* What they show, and what each of them keeps.                            *)
ShownBy(entries, queries) ==
    [i \in DOMAIN queries |-> [p \in DOMAIN entries |-> Shows(entries, p, queries[i])]]

KeptBy(entries, queries, limit) ==
    [i \in DOMAIN queries |->
        Finder!ToSet(Finder!search(entries, queries[i], Finder!NoFilters, limit).matches)]

LEMMA QueriesAreMerged ==
    ASSUME NEW entries, Listed(entries), NEW S, NEW queries \in Seq(S), Asked(queries), NEW limit \in Nat,
           NEW found, found = UNION {KeptBy(entries, queries, limit)[i] : i \in DOMAIN queries},
           NEW best, best = Finder!BestOf(found)
    PROVE  Merged(DOMAIN entries, DOMAIN queries, ShownBy(entries, queries), KeptBy(entries, queries, limit),
                  limit, found, best)
<1> DEFINE D == DOMAIN entries
           I == DOMAIN queries
           shown == ShownBy(entries, queries)
           kept == KeptBy(entries, queries, limit)
<1>1. ASSUME NEW i \in I
      PROVE  /\ \A p \in D : shown[i][p] # Finder!None => Tier(shown[i][p]) \in 1 .. 7
             /\ \A m \in kept[i] : /\ m.path \in D /\ shown[i][m.path] # Finder!None
                                   /\ m = MatchOf(shown, i, m.path)
             /\ \A p \in D : shown[i][p] # Finder!None /\ MatchOf(shown, i, p) \notin kept[i] =>
                   /\ IsFiniteSet(kept[i]) /\ Cardinality(kept[i]) = limit
                   /\ \A k \in kept[i] : Tier(k.evidence) <= Tier(shown[i][p])
  <2> DEFINE q == queries[i]
             M == Finder!Matches(entries, q, Finder!NoFilters)
             K == kept[i]
             filters == Finder!NoFilters
  <2>1. \A p \in D : shown[i][p] = Shows(entries, p, q)
    BY DEF ShownBy
  <2>2. K = Finder!ToSet(Finder!search(entries, q, filters, limit).matches)
    BY DEF KeptBy
  <2>3. Len(q) \in Nat
    BY DEF Asked
  <2>4. M = Finder!Matches(entries, q, filters) /\ filters = Finder!NoFilters
    OBVIOUS
  <2> HIDE DEF q, M, K, filters
  <2>5. KeepsTheStrongest(K, M, limit)
    BY <2>2, <2>3, <2>4, SearchKeepsTheStrongest
  <2>6. /\ \A m \in M : /\ m = [path |-> m.path, evidence |-> m.evidence]
                        /\ m.path \in DOMAIN entries /\ m.evidence # Finder!None
                        /\ m.evidence = Shows(entries, m.path, q)
        /\ \A p \in D : Shows(entries, p, q) # Finder!None =>
              [path |-> p, evidence |-> Shows(entries, p, q)] \in M
    BY <2>4, MatchesOfAQuery
  <2>7. \A p \in D : shown[i][p] # Finder!None => Tier(shown[i][p]) \in 1 .. 7
    BY <2>1, EvidenceHasATier
  <2>8. \A p \in D : MatchOf(shown, i, p) = [path |-> p, evidence |-> Shows(entries, p, q)]
    BY <2>1 DEF MatchOf
  <2>9. ASSUME NEW m \in K
        PROVE  m.path \in D /\ shown[i][m.path] # Finder!None /\ m = MatchOf(shown, i, m.path)
    BY <2>1, <2>5, <2>6, <2>8 DEF KeepsTheStrongest
  <2>10. ASSUME NEW p \in D, shown[i][p] # Finder!None, MatchOf(shown, i, p) \notin K
         PROVE  /\ IsFiniteSet(K) /\ Cardinality(K) = limit
                /\ \A k \in K : Tier(k.evidence) <= Tier(shown[i][p])
    <3>1. MatchOf(shown, i, p) \in M /\ MatchOf(shown, i, p).evidence = shown[i][p]
      BY <2>1, <2>6, <2>8, <2>10
    <3> QED BY <2>5, <2>10, <3>1 DEF KeepsTheStrongest
  <2> QED BY <2>7, <2>9, <2>10 DEF K
<1>2. IsFiniteSet(D) /\ PathOrder(D)
  BY DEF Listed
<1>3. I # {}
  <2>1. queries = [i \in 1 .. Len(queries) |-> queries[i]] /\ Len(queries) \in Nat /\ I = 1 .. Len(queries)
    OBVIOUS
  <2>2. Len(queries) # 0
    BY DEF Asked
  <2>3. 1 \in I
    BY <2>1, <2>2
  <2> QED BY <2>3
<1> HIDE DEF D, I, shown, kept
<1>4. Merging(D, I, shown, kept, limit)
  BY <1>1, <1>2, <1>3 DEF Merging
<1>5. found = UNION {kept[i] : i \in I}
  BY DEF kept, I
<1> QED BY <1>4, <1>5 DEF Merged, D, I, shown, kept

(* What the queries show of each file.                                     *)
EvidencesOf(entries, queries) ==
    [p \in DOMAIN entries |-> {Shows(entries, p, queries[i]) : i \in DOMAIN queries}]

(* What is shown of a file, and how strong.                                *)
ShownOf(I, shown, p) == {shown[i][p] : i \in I}

StrengthsOf(E) == {Finder!Priority(e) : e \in E \ {Finder!None}}

(* The strongest that is shown of a file.                                  *)
LEMMA BestOfAFile ==
    ASSUME NEW shown, NEW I, NEW p, NEW E, E = ShownOf(I, shown, p),
           \A i \in I : shown[i][p] # Finder!None => Tier(shown[i][p]) \in 1 .. 7,
           \E i \in I : shown[i][p] # Finder!None,
           NEW b, b = Finder!Min(StrengthsOf(E))
    PROVE  /\ \E i \in I : shown[i][p] # Finder!None /\ b = Tier(shown[i][p])
           /\ \A i \in I : shown[i][p] # Finder!None => b <= Tier(shown[i][p])
<1> DEFINE T == {Tier(e) : e \in E \ {Finder!None}}
<1>1. b = Min(T)
  BY FinderMin DEF Tier, StrengthsOf
<1>2. T \in SUBSET Nat /\ T # {}
  <2>1. \A t \in T : t \in 1 .. 7
    BY DEF ShownOf
  <2>2. \A t \in 1 .. 7 : t \in Nat
    OBVIOUS
  <2> QED BY <2>1, <2>2 DEF ShownOf
<1>3. \A t : t \in T <=> \E i \in I : shown[i][p] # Finder!None /\ t = Tier(shown[i][p])
  BY DEF ShownOf
<1> HIDE DEF T
<1>4. b \in T /\ \A t \in T : b <= t
  <2>1. Min(T) \in T /\ \A t \in T : Min(T) <= t
    BY <1>2, MinIsLeast
  <2> QED BY <1>1, <2>1
<1> QED BY <1>3, <1>4

(* A file of the merged list is there by its strongest evidence, and       *)
(* nothing stronger is missing.                                            *)
THEOREM MergeLosesNothingStronger ==
    ASSUME NEW entries, Listed(entries), NEW S, NEW queries \in Seq(S), Asked(queries), NEW limit \in Nat
    PROVE  Finder!MergeLosesNoStrongerFile(Finder!merge_search(entries, queries, limit, {}),
                                           EvidencesOf(entries, queries), limit)
<1> DEFINE D == DOMAIN entries
           I == DOMAIN queries
           shown == ShownBy(entries, queries)
           kept == KeptBy(entries, queries, limit)
           found == UNION {kept[i] : i \in I}
           best == Finder!BestOf(found)
           ranked == Finder!Ranked(best, Finder!Tiers(best))
           merged == Finder!FirstOf(ranked, limit)
           seen == SeenBy(D, I, shown)
           evidences == EvidencesOf(entries, queries)
           Best(p) == Finder!Min({Finder!Priority(e) : e \in evidences[p] \ {Finder!None}})
<1>1. Finder!merge_search(entries, queries, limit, {}) = merged
  <2>1. {m \in Finder!FoundBy(entries, queries, limit) : m.path \notin {}} = found
    BY DEF Finder!FoundBy, KeptBy
  <2> HIDE DEF found
  <2> QED BY <2>1 DEF Finder!merge_search
<1>2. Merged(D, I, shown, kept, limit, found, best)
  <2>1. found = UNION {KeptBy(entries, queries, limit)[i] : i \in DOMAIN queries} /\ best = Finder!BestOf(found)
    OBVIOUS
  <2> HIDE DEF found, best
  <2> QED BY <2>1, QueriesAreMerged
<1>3. /\ ranked = Finder!Ranked(best, Finder!Tiers(best)) /\ merged = Finder!FirstOf(ranked, limit)
      /\ seen = SeenBy(D, I, shown)
  OBVIOUS
<1> HIDE DEF shown, kept, found, best, ranked, merged, seen
<1>4. /\ IsFiniteSet(seen) /\ Len(merged) \in Nat /\ DOMAIN merged = 1 .. Len(merged)
      /\ Len(merged) = (IF Cardinality(seen) < limit THEN Cardinality(seen) ELSE limit)
      /\ \A k \in 1 .. Len(merged) :
            /\ merged[k].path \in seen
            /\ \E i \in I : /\ shown[i][merged[k].path] # Finder!None
                            /\ merged[k].evidence = shown[i][merged[k].path]
            /\ \A i \in I : shown[i][merged[k].path] # Finder!None =>
                  Tier(merged[k].evidence) <= Tier(shown[i][merged[k].path])
            /\ \A i \in I, p \in D :
                  shown[i][p] # Finder!None /\ Tier(shown[i][p]) < Tier(merged[k].evidence) =>
                     \E j \in 1 .. (k - 1) : merged[j].path = p
  <2>1. MergeOf(D, I, shown, limit, seen, merged)
    BY <1>2, <1>3, MergeIsComplete
  <2> QED BY <2>1 DEF MergeOf
<1>5. /\ \A i \in I, p \in D : shown[i][p] # Finder!None => Tier(shown[i][p]) \in 1 .. 7
      /\ I # {} /\ limit \in Nat
  BY <1>2 DEF Merged, Merging
<1>6. DOMAIN evidences = D /\ \A p \in D : evidences[p] = {shown[i][p] : i \in I}
  BY DEF EvidencesOf, ShownBy, shown
<1>7. {p \in DOMAIN evidences : evidences[p] # {Finder!None}} = seen
  <2>1. ASSUME NEW p \in D
        PROVE  evidences[p] # {Finder!None} <=> \E i \in I : shown[i][p] # Finder!None
    <3> DEFINE E == {shown[i][p] : i \in I}
    <3>1. E # {Finder!None} <=> \E i \in I : shown[i][p] # Finder!None
      BY <1>5
    <3> QED BY <1>6, <3>1
  <2> HIDE DEF evidences, D, I
  <2> QED BY <1>3, <1>6, <2>1 DEF SeenBy
<1>8. ASSUME NEW p \in seen
      PROVE  /\ \E i \in I : shown[i][p] # Finder!None /\ Best(p) = Tier(shown[i][p])
             /\ \A i \in I : shown[i][p] # Finder!None => Best(p) <= Tier(shown[i][p])
             /\ p \in D
  <2>1. p \in D /\ \E i \in I : shown[i][p] # Finder!None
    BY <1>3 DEF SeenBy
  <2> DEFINE b == Best(p)
             E == evidences[p]
  <2>2. E = ShownOf(I, shown, p) /\ b = Finder!Min(StrengthsOf(E))
    BY <1>6, <2>1 DEF ShownOf, StrengthsOf
  <2> HIDE DEF b, E, I, D
  <2>0. /\ \A i \in I : shown[i][p] # Finder!None => Tier(shown[i][p]) \in 1 .. 7
        /\ \E i \in I : shown[i][p] # Finder!None
    BY <1>5, <2>1
  <2>3. /\ \E i \in I : shown[i][p] # Finder!None /\ b = Tier(shown[i][p])
        /\ \A i \in I : shown[i][p] # Finder!None => b <= Tier(shown[i][p])
    BY <2>0, <2>2, BestOfAFile
  <2> QED BY <2>1, <2>3 DEF b
<1> HIDE DEF evidences, D, I
<1>9. Len(merged) = Finder!Min({limit, Cardinality(seen)})
  <2> DEFINE c == Cardinality(seen)
             T == {limit, c}
  <2>1. c \in Nat
    BY <1>4, FS_CardinalityType
  <2>2. T \in SUBSET Nat /\ T # {}
    BY <1>5, <2>1
  <2>3. Min(T) \in T /\ \A t \in T : Min(T) <= t
    BY <2>2, MinIsLeast
  <2>4. Len(merged) = IF c < limit THEN c ELSE limit
    BY <1>4
  <2>5. Min(T) = IF c < limit THEN c ELSE limit
    <3> DEFINE t == Min(T)
    <3>1. t \in {limit, c} /\ t <= limit /\ t <= c
      BY <2>3
    <3> HIDE DEF t, c
    <3> QED BY <1>5, <2>1, <3>1 DEF t
  <2> QED BY <2>4, <2>5, FinderMin
<1>10. ASSUME NEW k \in DOMAIN merged
       PROVE  /\ Finder!Priority(merged[k].evidence) = Best(merged[k].path)
              /\ \A p \in seen : Best(p) < Best(merged[k].path) => \E j \in 1 .. (k - 1) : merged[j].path = p
  <2> DEFINE m == merged[k]
             b == Best(m.path)
  <2>1. /\ m.path \in seen
        /\ \E i \in I : shown[i][m.path] # Finder!None /\ m.evidence = shown[i][m.path]
        /\ \A i \in I : shown[i][m.path] # Finder!None => Tier(m.evidence) <= Tier(shown[i][m.path])
        /\ \A i \in I, p \in D :
              shown[i][p] # Finder!None /\ Tier(shown[i][p]) < Tier(m.evidence) =>
                 \E j \in 1 .. (k - 1) : merged[j].path = p
    BY <1>4
  <2> HIDE DEF m, Best
  <2>2. Tier(m.evidence) = b
    <3>1. b <= Tier(m.evidence) /\ Tier(m.evidence) <= b /\ b \in 1 .. 7 /\ Tier(m.evidence) \in 1 .. 7
      BY <1>5, <1>8, <2>1
    <3> HIDE DEF b
    <3> QED BY <3>1
  <2>3. \A p \in seen : Best(p) < b => \E j \in 1 .. (k - 1) : merged[j].path = p
    BY <1>8, <2>1, <2>2
  <2> QED BY <2>2, <2>3 DEF Tier, m
<1>11. Finder!MergeLosesNoStrongerFile(merged, evidences, limit)
  <2> HIDE DEF Best
  <2>1. Finder!Cardinality(seen) = Cardinality(seen)
    BY FinderCount
  <2> QED BY <1>7, <1>9, <1>10, <2>1 DEF Finder!MergeLosesNoStrongerFile, Best
<1> QED BY <1>1, <1>11 DEF evidences

(* The places of the terms of a text, in order.                            *)
PlacesIn(text) == [k \in 1 .. Cardinality(Finder!Places(text)) |-> Finder!PlaceAt(text, k)]

Earlier(P) == {w \in P \X P : w[1] < w[2]}

LEMMA PlacesComeInOrder ==
    ASSUME NEW S, NEW text \in Seq(S), NEW P, P = Finder!Places(text), NEW c, c = Cardinality(P),
           NEW at, at = PlacesIn(text)
    PROVE  /\ P \subseteq 1 .. Len(text) /\ IsFiniteSet(P) /\ c \in Nat
           /\ \A k \in 1 .. c : at[k] \in P /\ Cardinality(Ahead(P, Earlier(P), at[k])) = k - 1
           /\ \A i \in P : \E k \in 1 .. c : at[k] = i
           /\ \A j, k \in 1 .. c : at[j] = at[k] => j = k
<1>1. P \subseteq 1 .. Len(text) /\ Len(text) \in Nat
  BY DEF Finder!Places
<1>2. IsFiniteSet(P)
  <2> DEFINE l == Len(text)
  <2>1. l \in Int /\ 1 \in Int
    BY <1>1
  <2> HIDE DEF l
  <2>2. IsFiniteSet(1 .. l)
    BY <2>1, FS_Interval
  <2> QED BY <1>1, <2>2, FS_Subset DEF l
<1>3. StrictOrder(P, Earlier(P))
  <2>1. \A i \in P : i \in Int
    BY <1>1
  <2>2. \A i, j \in P : <<i, j>> \in Earlier(P) <=> i < j
    BY DEF Earlier
  <2> QED BY <2>1, <2>2 DEF StrictOrder
<1>4. ListedInOrder(at, P, Earlier(P))
  <2>1. \A i : Finder!Cardinality({j \in P : j < i}) = Cardinality({j \in P : j < i})
    BY FinderCount
  <2>2. \A i \in P : {j \in P : j < i} = Ahead(P, Earlier(P), i)
    BY DEF Ahead, Earlier
  <2>3. ASSUME NEW k \in 1 .. c, NEW i \in P, Cardinality(Ahead(P, Earlier(P), i)) = k - 1
        PROVE  at[k] \in P /\ Cardinality(Ahead(P, Earlier(P), at[k])) = k - 1
    <3>1. at[k] = CHOOSE x \in P : Finder!Cardinality({j \in P : j < x}) = k - 1
      BY DEF Finder!PlaceAt, PlacesIn
    <3>2. Finder!Cardinality({j \in P : j < i}) = k - 1
      BY <2>1, <2>2, <2>3
    <3>3. at[k] \in P /\ Finder!Cardinality({j \in P : j < at[k]}) = k - 1
      BY <3>1, <3>2
    <3> QED BY <2>1, <2>2, <3>3
  <2> QED BY <2>3 DEF ListedInOrder
<1>5. /\ c \in Nat
      /\ \A k \in 1 .. c : at[k] \in P /\ Cardinality(Ahead(P, Earlier(P), at[k])) = k - 1
      /\ \A j, k \in 1 .. c : at[j] = at[k] => j = k
      /\ \A i \in P : \E k \in 1 .. c : at[k] = i
  <2> DEFINE r == Earlier(P)
  <2> HIDE DEF r
  <2>1. StrictOrder(P, r) /\ ListedInOrder(at, P, r)
    BY <1>3, <1>4 DEF r
  <2>2. /\ c \in Nat
        /\ \A k \in 1 .. c : at[k] \in P /\ Cardinality(Ahead(P, r, at[k])) = k - 1
        /\ \A j, k \in 1 .. c : at[j] = at[k] => j = k
        /\ \A i \in P : \E k \in 1 .. c : at[k] = i
    BY <1>2, <2>1, ListsAreComplete
  <2> QED BY <2>2 DEF r
<1> QED BY <1>1, <1>2, <1>5

(* The terms of a text, place by place.                                    *)
TermsAt(text, limit, c, at, terms, V) ==
    /\ terms \in Seq(V) /\ Len(terms) = (IF c < limit THEN c ELSE limit)
    /\ Len(terms) \in Nat /\ Len(terms) <= c /\ DOMAIN terms = 1 .. Len(terms)
    /\ \A k \in 1 .. Len(terms) : terms[k] = Finder!Candidate(text[at[k]])

LEMMA TermsOfAText ==
    ASSUME NEW S, NEW text \in Seq(S), NEW limit \in Nat, NEW P, P = Finder!Places(text), NEW c, c = Cardinality(P),
           NEW at, at = PlacesIn(text),
           NEW terms, terms = Finder!extract_query_terms(text, limit),
           NEW V, \A i \in P : Finder!Candidate(text[i]) \in V
    PROVE  TermsAt(text, limit, c, at, terms, V)
<1> DEFINE all == [k \in 1 .. c |-> Finder!Candidate(text[Finder!PlaceAt(text, k)])]
<1>1. terms = Finder!FirstOf(all, limit)
  BY FinderCount DEF Finder!extract_query_terms
<1>2. c \in Nat /\ \A k \in 1 .. c : at[k] \in P
  BY PlacesComeInOrder
<1>3. all \in Seq(V) /\ Len(all) = c /\ \A k \in 1 .. c : all[k] = Finder!Candidate(text[at[k]])
  BY <1>2 DEF PlacesIn
<1> HIDE DEF all
<1>4. /\ terms \in Seq(V) /\ Len(terms) = (IF Len(all) < limit THEN Len(all) ELSE limit)
      /\ Len(terms) \in Nat /\ Len(terms) <= Len(all)
      /\ \A k \in 1 .. Len(terms) : terms[k] = all[k]
      /\ DOMAIN terms = 1 .. Len(terms)
  <2>1. all \in Seq(V) /\ limit \in Nat
    BY <1>3
  <2> QED BY <1>1, <2>1, FirstOnes
<1> QED BY <1>2, <1>3, <1>4 DEF TermsAt

(* The terms do not repeat, and a longer text only adds terms behind those *)
(* there are.                                                              *)
THEOREM TermsOfATextComeInOrder ==
    ASSUME NEW S, NEW text \in Seq(S), NEW limit \in Nat
    PROVE  Finder!TermsComeInOrder(text, limit)
<1> DEFINE P == Finder!Places(text)
           c == Cardinality(P)
           at == PlacesIn(text)
           terms == Finder!extract_query_terms(text, limit)
           V == {Finder!Candidate(text[i]) : i \in DOMAIN text}
           K == 1 .. Len(terms)
           low(k) == Finder!casefold(terms[k])
           spellings == {low(k) : k \in K}
<1>1. P = Finder!Places(text) /\ c = Cardinality(P) /\ at = PlacesIn(text)
  OBVIOUS
<1>2. \A i \in P : Finder!Candidate(text[i]) \in V
  BY DEF Finder!Places
<1>3. \A i, j \in P : j < i => Finder!casefold(Finder!Candidate(text[j])) # Finder!casefold(Finder!Candidate(text[i]))
  BY DEF Finder!Places
<1>10. terms = Finder!extract_query_terms(text, limit)
  OBVIOUS
<1>11. \A i \in DOMAIN text : i \in P <=>
          /\ Finder!Candidate(text[i]) # <<>>
          /\ \A j \in 1 .. (i - 1) : Finder!casefold(Finder!Candidate(text[j])) # Finder!casefold(Finder!Candidate(text[i]))
  BY DEF Finder!Places
<1> HIDE DEF P, c, at, V, terms
<1>4. /\ P \subseteq 1 .. Len(text) /\ IsFiniteSet(P) /\ c \in Nat
      /\ \A k \in 1 .. c : at[k] \in P /\ Cardinality(Ahead(P, Earlier(P), at[k])) = k - 1
      /\ \A i \in P : \E k \in 1 .. c : at[k] = i
      /\ \A j, k \in 1 .. c : at[j] = at[k] => j = k
  <2>1. /\ P \subseteq 1 .. Len(text) /\ IsFiniteSet(P) /\ c \in Nat
        /\ \A k \in 1 .. c : at[k] \in P /\ Cardinality(Ahead(P, Earlier(P), at[k])) = k - 1
    BY <1>1, PlacesComeInOrder
  <2>2. \A i \in P : \E k \in 1 .. c : at[k] = i
    BY <1>1, PlacesComeInOrder
  <2>3. \A j, k \in 1 .. c : at[j] = at[k] => j = k
    BY <1>1, PlacesComeInOrder
  <2> QED BY <2>1, <2>2, <2>3
<1>12. \A i \in P : i \in Int /\ 1 <= i
  <2>1. Len(text) \in Nat
    OBVIOUS
  <2>2. \A i \in 1 .. Len(text) : i \in Int /\ 1 <= i
    BY <2>1
  <2> QED BY <1>4, <2>2
<1>5. /\ terms \in Seq(V) /\ Len(terms) = (IF c < limit THEN c ELSE limit)
      /\ Len(terms) \in Nat /\ Len(terms) <= c /\ DOMAIN terms = 1 .. Len(terms)
      /\ \A k \in 1 .. Len(terms) : terms[k] = Finder!Candidate(text[at[k]])
  <2>1. TermsAt(text, limit, c, at, terms, V)
    BY <1>1, <1>2, <1>10, TermsOfAText
  <2> QED BY <2>1 DEF TermsAt
<1>6. Finder!Cardinality({Finder!casefold(terms[i]) : i \in DOMAIN terms}) = Len(terms)
  <2> DEFINE f == [k \in K |-> low(k)]
  <2>1. ASSUME NEW j \in K, NEW k \in K, low(j) = low(k) PROVE j = k
    <3>1. at[j] \in P /\ at[k] \in P /\ terms[j] = Finder!Candidate(text[at[j]]) /\ terms[k] = Finder!Candidate(text[at[k]])
      BY <1>4, <1>5
    <3>2. at[j] \in Int /\ at[k] \in Int
      BY <1>12, <3>1
    <3>3. at[j] = at[k]
      BY <1>3, <2>1, <3>1, <3>2
    <3> QED BY <1>4, <1>5, <3>3
  <2>2. f \in Bijection(K, spellings)
    BY <2>1 DEF Bijection, Injection, IsInjective, Surjection
  <2>3. IsFiniteSet(K) /\ Cardinality(K) = Len(terms)
    <3> DEFINE l == Len(terms)
    <3>1. l \in Nat
      BY <1>5
    <3> HIDE DEF l
    <3>2. 1 \in Int /\ l \in Int
      BY <3>1
    <3>3. IsFiniteSet(1 .. l) /\ Cardinality(1 .. l) = IF 1 > l THEN 0 ELSE l - 1 + 1
      BY <3>2, FS_Interval
    <3>4. (IF 1 > l THEN 0 ELSE l - 1 + 1) = l
      BY <3>1
    <3>5. IsFiniteSet(1 .. l) /\ Cardinality(1 .. l) = l
      BY <3>3, <3>4
    <3> QED BY <3>5 DEF l
  <2>4. {Finder!casefold(terms[i]) : i \in DOMAIN terms} = spellings
    BY <1>5
  <2> HIDE DEF K, f, spellings
  <2>5. Cardinality(spellings) = Len(terms)
    BY <2>2, <2>3, FS_Bijection DEF ExistsBijection
  <2> QED BY <2>4, <2>5, FinderCount
<1>7. ASSUME NEW n \in 0 .. Len(text)
      PROVE  Finder!IsPrefix(Finder!extract_query_terms(SubSeq(text, 1, n), limit), terms)
  <2> DEFINE s == SubSeq(text, 1, n)
             Q == Finder!Places(s)
             d == Cardinality(Q)
             bt == PlacesIn(s)
             short == Finder!extract_query_terms(s, limit)
  <2>1. /\ s \in Seq(S) /\ Len(s) = n /\ n \in Nat /\ n <= Len(text) /\ \A i \in 1 .. n : s[i] = text[i]
        /\ DOMAIN s = 1 .. n /\ DOMAIN text = 1 .. Len(text) /\ Len(text) \in Nat
    OBVIOUS
  <2>2. Q = Finder!Places(s) /\ d = Cardinality(Q) /\ bt = PlacesIn(s)
        /\ short = Finder!extract_query_terms(s, limit)
    OBVIOUS
  <2>3. \A i : i \in Q <=> i \in P /\ i <= n
    <3>1. \A i \in 1 .. n : i \in Q <=>
              /\ Finder!Candidate(s[i]) # <<>>
              /\ \A j \in 1 .. (i - 1) : Finder!casefold(Finder!Candidate(s[j])) # Finder!casefold(Finder!Candidate(s[i]))
      BY <2>1 DEF Finder!Places
    <3>2. \A i \in Q : i \in 1 .. n
      BY <2>1 DEF Finder!Places
    <3>3. \A i \in 1 .. n : i \in DOMAIN text /\ \A j \in 1 .. (i - 1) : s[j] = text[j]
      BY <2>1
    <3> HIDE DEF s, Q
    <3>4. \A i \in 1 .. n : i \in Q <=> i \in P
      BY <1>11, <2>1, <3>1, <3>3
    <3>5. \A i \in P : i <= n => i \in 1 .. n
      BY <1>4, <2>1
    <3> QED BY <2>1, <3>2, <3>4, <3>5
  <2>4. \A i \in Q : Finder!Candidate(s[i]) \in V
    <3>1. \A i \in Q : i \in P /\ i \in 1 .. n
      BY <1>12, <2>1, <2>3
    <3> QED BY <1>2, <2>1, <3>1
  <2> HIDE DEF s, Q, d, bt, short
  <2>5. /\ IsFiniteSet(Q) /\ d \in Nat
        /\ \A k \in 1 .. d : bt[k] \in Q /\ Cardinality(Ahead(Q, Earlier(Q), bt[k])) = k - 1
    BY <2>1, <2>2, PlacesComeInOrder
  <2>6. /\ short \in Seq(V) /\ Len(short) = (IF d < limit THEN d ELSE limit)
        /\ Len(short) \in Nat /\ Len(short) <= d
        /\ \A k \in 1 .. Len(short) : short[k] = Finder!Candidate(s[bt[k]])
    <3>1. TermsAt(s, limit, d, bt, short, V)
      BY <2>1, <2>2, <2>4, TermsOfAText
    <3> QED BY <3>1 DEF TermsAt
  <2>7. d <= c
    BY <1>1, <1>4, <2>2, <2>3, FS_Subset
  <2>8. ASSUME NEW k \in 1 .. d PROVE bt[k] = at[k] /\ bt[k] \in 1 .. n
    <3> DEFINE q == bt[k]
    <3>1. q \in Q /\ q \in P /\ q \in 1 .. n
      BY <1>12, <2>1, <2>3, <2>5
    <3>2. Ahead(Q, Earlier(Q), q) = Ahead(P, Earlier(P), q)
      <4>1. \A j \in P : j < q => j \in Q
        BY <1>4, <2>1, <2>3, <3>1
      <4> HIDE DEF q
      <4> QED BY <2>3, <3>1, <4>1 DEF Ahead, Earlier
    <3>3. PICK h \in 1 .. c : at[h] = q
      BY <1>4, <3>1
    <3>4. h - 1 = k - 1
      BY <1>4, <2>5, <3>2, <3>3
    <3> HIDE DEF q
    <3>5. h = k
      BY <1>4, <2>5, <3>4
    <3> QED BY <3>1, <3>3, <3>5 DEF q
  <2>9. Len(short) <= Len(terms)
    BY <1>4, <1>5, <2>5, <2>6, <2>7
  <2>10. \A k \in 1 .. Len(short) : short[k] = terms[k]
    <3> TAKE k \in 1 .. Len(short)
    <3>1. k \in 1 .. d /\ k \in 1 .. Len(terms)
      BY <1>5, <2>5, <2>6, <2>9
    <3>2. s[bt[k]] = text[at[k]]
      BY <2>1, <2>8, <3>1
    <3> QED BY <1>5, <2>6, <3>1, <3>2
  <2>11. SubSeq(short, 1, Len(short)) = SubSeq(terms, 1, Len(short))
    BY <1>5, <2>6, <2>9, <2>10
  <2>12. Finder!IsPrefix(short, terms)
    BY <2>9, <2>11 DEF Finder!IsPrefix
  <2> QED BY <2>12 DEF short, s
<1> QED BY <1>6, <1>7 DEF Finder!TermsComeInOrder, terms

LEMMA EntriesAreRecords ==
    ASSUME NEW e \in EntriesFound
    PROVE  /\ "entry_point" \in DOMAIN e /\ "importance" \in DOMAIN e
           /\ e.entry_point \in BOOLEAN /\ e.importance \in {"High", "Medium", "Low"}
<1> DEFINE W == {<<"High", TRUE>>, <<"Low", FALSE>>}
           T == {{}, {1}, {2, 4}}
<1>1. \A w \in W : w[1] \in {"High", "Medium", "Low"} /\ w[2] \in BOOLEAN
  <2> DEFINE yes == TRUE
             no == FALSE
  <2>1. yes \in BOOLEAN /\ no \in BOOLEAN
    OBVIOUS
  <2>2. \A w \in W : w = <<"High", yes>> \/ w = <<"Low", no>>
    OBVIOUS
  <2> HIDE DEF yes, no, W
  <2>3. /\ <<"High", yes>>[1] = "High" /\ <<"High", yes>>[2] = yes
        /\ <<"Low", no>>[1] = "Low" /\ <<"Low", no>>[2] = no
    OBVIOUS
  <2> QED BY <2>1, <2>2, <2>3
<1>2. EntriesFound = {[top_symbols |-> n, imported |-> t, importance |-> w[1], entry_point |-> w[2],
                       kind |-> "source", language |-> "python"] : n \in Names, t \in T, w \in W}
  BY DEF EntriesFound
<1> HIDE DEF W, T
<1>3. PICK n \in Names, t \in T, w \in W :
         e = [top_symbols |-> n, imported |-> t, importance |-> w[1], entry_point |-> w[2],
              kind |-> "source", language |-> "python"]
  BY <1>2
<1>4. e.importance = w[1] /\ e.entry_point = w[2] /\ "entry_point" \in DOMAIN e /\ "importance" \in DOMAIN e
  BY <1>3
<1> QED BY <1>1, <1>4

LEMMA CachedIsListed ==
    ASSUME input \in Seq(EntriesFound), Len(input) <= 4
    PROVE  Listed(Cached)
<1> DEFINE known == {Found[i] : i \in DOMAIN input}
           At(p) == input[CHOOSE i \in DOMAIN input : Found[i] = p]
<1>1. DOMAIN input \subseteq 1 .. 4 /\ DOMAIN Found = 1 .. 4
  BY DEF Found
<1>2. DOMAIN Cached = known
  BY DEF Cached
<1>3. \A i \in 1 .. 4 : Len(Finder!Last(Found[i])) \in Nat
  <2>1. Finder!Last(Found[1]) = <<"a", "b">> /\ Finder!Last(Found[2]) = <<"b", ".", "a">>
    BY DEF Found, Finder!Last
  <2>2. Finder!Last(Found[3]) = <<"A", "b">> /\ Finder!Last(Found[4]) = <<"b">>
    BY DEF Found, Finder!Last
  <2>3. \A i \in 1 .. 4 : i = 1 \/ i = 2 \/ i = 3 \/ i = 4
    OBVIOUS
  <2>4. Len(<<"a", "b">>) = 2 /\ Len(<<"b", ".", "a">>) = 3 /\ Len(<<"A", "b">>) = 2 /\ Len(<<"b">>) = 1
    OBVIOUS
  <2> QED BY <2>1, <2>2, <2>3, <2>4
<1>4. IsFiniteSet(known)
  <2> DEFINE f == [i \in 1 .. 4 |-> Found[i]]
             R == {Found[i] : i \in 1 .. 4}
  <2>1. f \in Surjection(1 .. 4, R) /\ known \subseteq R
    BY <1>1 DEF Surjection
  <2>2. IsFiniteSet(1 .. 4)
    <3>1. 1 \in Int /\ 4 \in Int
      OBVIOUS
    <3> QED BY <3>1, FS_Interval
  <2> HIDE DEF known, R, f
  <2>3. IsFiniteSet(R)
    BY <2>1, <2>2, FS_Surjection
  <2> QED BY <2>1, <2>3, FS_Subset
<1>5. PathOrder(known)
  <2> DEFINE R == {Found[i] : i \in DOMAIN Found}
  <2>1. known \subseteq R /\ PathOrder(R)
    BY <1>1, PathsAreOrdered
  <2> HIDE DEF known, R
  <2> QED BY <2>1 DEF PathOrder
<1>6. ASSUME NEW p \in known
      PROVE  /\ Cached[p].entry_point \in BOOLEAN
             /\ Cached[p].importance \in {"High", "Medium", "Low"}
             /\ Len(Finder!Last(p)) \in Nat
  <2>1. At(p) \in EntriesFound
    <3>1. \E i \in DOMAIN input : Found[i] = p
      OBVIOUS
    <3> DEFINE i == CHOOSE i \in DOMAIN input : Found[i] = p
    <3>2. i \in DOMAIN input
      BY <3>1
    <3> HIDE DEF i
    <3>3. input[i] \in EntriesFound
      BY <3>2
    <3> QED BY <3>3 DEF i
  <2>2. Cached[p] = [k \in DOMAIN At(p) \union {"imported_files"} |->
            IF k = "imported_files" THEN {Found[t] : t \in At(p).imported} ELSE At(p)[k]]
    BY DEF Cached
  <2> DEFINE e == At(p)
  <2>3. /\ "entry_point" \in DOMAIN e /\ "importance" \in DOMAIN e
        /\ e.entry_point \in BOOLEAN /\ e.importance \in {"High", "Medium", "Low"}
    <3> HIDE DEF At
    <3> QED BY <2>1, EntriesAreRecords
  <2> HIDE DEF e, At, known
  <2>5. Cached[p].entry_point = e.entry_point /\ Cached[p].importance = e.importance
    BY <2>2, <2>3 DEF e
  <2>7. Len(Finder!Last(p)) \in Nat
    BY <1>1, <1>3 DEF known
  <2> QED BY <2>3, <2>5, <2>7
<1> QED BY <1>2, <1>4, <1>5, <1>6 DEF Listed

LEMMA QueriesAreAsked ==
    ASSUME NEW queries \in Queries
    PROVE  /\ Asked(queries) /\ Len(queries[1]) \in Nat
           /\ \E S : queries \in Seq(S)
<1> DEFINE S == {<<"a">>, <<"b">>, <<"A", "b">>, <<"b", ".", "a">>}
<1>1. \A q \in S : Len(q) \in Nat
  <2>1. Len(<<"a">>) = 1 /\ Len(<<"b">>) = 1 /\ Len(<<"A", "b">>) = 2 /\ Len(<<"b", ".", "a">>) = 3
    OBVIOUS
  <2> QED BY <2>1
<1>2. <<"a">> \in S /\ <<"b">> \in S /\ <<"A", "b">> \in S /\ <<"b", ".", "a">> \in S
  OBVIOUS
<1>3. \/ queries = <<<<"a">>, <<"b">>>> \/ queries = <<<<"b">>, <<"a">>>>
      \/ queries = <<<<"A", "b">>, <<"a">>>> \/ queries = <<<<"b", ".", "a">>>>
  BY DEF Queries
<1> HIDE DEF S
<1>4. queries \in Seq(S) /\ Len(queries) # 0 /\ Len(queries) \in Nat
  <2> DEFINE a == <<"a">>
             b == <<"b">>
             c == <<"A", "b">>
             d == <<"b", ".", "a">>
  <2>1. a \in S /\ b \in S /\ c \in S /\ d \in S
    BY <1>2
  <2>2. queries = <<a, b>> \/ queries = <<b, a>> \/ queries = <<c, a>> \/ queries = <<d>>
    BY <1>3
  <2> HIDE DEF a, b, c, d
  <2>3. /\ <<a, b>> \in Seq(S) /\ <<b, a>> \in Seq(S) /\ <<c, a>> \in Seq(S) /\ <<d>> \in Seq(S)
    BY <2>1
  <2>4. Len(<<a, b>>) = 2 /\ Len(<<b, a>>) = 2 /\ Len(<<c, a>>) = 2 /\ Len(<<d>>) = 1
    OBVIOUS
  <2> DEFINE Fine(s) == s \in Seq(S) /\ Len(s) # 0 /\ Len(s) \in Nat
  <2>5. Fine(<<a, b>>) /\ Fine(<<b, a>>) /\ Fine(<<c, a>>) /\ Fine(<<d>>)
    BY <2>3, <2>4
  <2> HIDE DEF Fine
  <2>6. Fine(queries)
    BY <2>2, <2>5, Zenon
  <2> QED BY <2>6 DEF Fine
<1>5. \A i \in DOMAIN queries : queries[i] \in S
  BY <1>4
<1>6. queries # <<>> /\ 1 \in DOMAIN queries
  BY <1>4
<1> QED BY <1>1, <1>4, <1>5, <1>6 DEF Asked

(* repo_profile/search.py and query_extract.py: a file is listed by its    *)
(* strongest evidence, and nothing stronger is missing from a cut list,    *)
(* whatever the entries, and the terms of any text come in order.          *)
THEOREM SearchAlwaysFindsTheStrongest ==
    ASSUME family = "found" => input \in Seq(EntriesFound) /\ Len(input) <= 4,
           family = "text" => input \in Seq(TextTokens)
    PROVE  SearchFindsTheStrongest
<1>1. ASSUME family = "found", NEW limit \in 1 .. 2, NEW queries \in Queries
      PROVE  /\ Finder!ShorterListIsABeginning(Find(queries[1], limit), Find(queries[1], limit + 1))
             /\ Finder!MergeLosesNoStrongerFile(Finder!merge_search(Cached, queries, limit, {}),
                                                Evidences(queries), limit)
  <2>1. Listed(Cached)
    BY <1>1, CachedIsListed
  <2> PICK S : queries \in Seq(S)
    BY QueriesAreAsked
  <2>2. Asked(queries) /\ Len(queries[1]) \in Nat /\ limit \in Nat
    BY QueriesAreAsked
  <2>3. Finder!ShorterListIsABeginning(Find(queries[1], limit), Find(queries[1], limit + 1))
    BY <2>1, <2>2, ShorterSearchIsABeginning DEF Find
  <2>4. Evidences(queries) = EvidencesOf(Cached, queries)
    BY DEF Evidences, EvidencesOf, Shows, ToSet
  <2>5. Finder!MergeLosesNoStrongerFile(Finder!merge_search(Cached, queries, limit, {}),
                                        EvidencesOf(Cached, queries), limit)
    BY <2>1, <2>2, MergeLosesNothingStronger
  <2> QED BY <2>3, <2>4, <2>5
<1>2. ASSUME family = "text" PROVE Finder!TermsComeInOrder(input, 2)
  BY <1>2, TermsOfATextComeInOrder
<1> QED BY <1>1, <1>2 DEF SearchFindsTheStrongest
-----------------------------------------------------------------------------
(* What is imported lies among a finite set of files.                      *)
Imports(entries) ==
    /\ IsFiniteSet(DOMAIN entries)
    /\ \A f \in DOMAIN entries : IsFiniteSet(entries[f].imported_files)

LEMMA FilesAreFinite ==
    ASSUME NEW entries, Imports(entries), NEW start
    PROVE  IsFiniteSet(Graph!FilesIn(entries, start))
<1> DEFINE D == DOMAIN entries
           R == {entries[f].imported_files : f \in D}
<1>1. IsFiniteSet(R) /\ \A s \in R : IsFiniteSet(s)
  <2> DEFINE g == [f \in D |-> entries[f].imported_files]
  <2>1. g \in Surjection(D, R)
    BY DEF Surjection
  <2> QED BY <2>1, FS_Surjection DEF Imports
<1>2. IsFiniteSet(UNION R)
  <2> HIDE DEF R
  <2> QED BY <1>1, FS_UNION
<1>3. IsFiniteSet({start})
  BY FS_Singleton
<1>4. IsFiniteSet({start} \union D) 
  BY <1>3, FS_Union DEF Imports
<1> HIDE DEF R
<1>5. IsFiniteSet(({start} \union D) \union UNION R)
  BY <1>2, <1>4, FS_Union
<1> QED BY <1>5 DEF Graph!FilesIn, R

Nearby(entries, f) == Graph!Neighbours(entries, f)

(* The files near one are those it imports, and those that import it.      *)
LEMMA NeighboursAre ==
    ASSUME NEW entries, NEW start, NEW f, NEW h
    PROVE  /\ h \in Nearby(entries, f) <=> \/ h \in Graph!Imported(entries, f)
                                           \/ h \in DOMAIN entries /\ f \in Graph!Imported(entries, h)
           /\ h \in Nearby(entries, f) => h \in Graph!FilesIn(entries, start)
<1>1. h \in Graph!Importers(entries, f) <=> h \in DOMAIN entries /\ f \in entries[h].imported_files
  BY DEF Graph!Importers, Graph!_build_reverse_import_index
<1> QED BY <1>1 DEF Nearby, Graph!Neighbours, Graph!Imported, Graph!FilesIn

(* The wider ball adds the files near it.                                  *)
LEMMA WiderAddsNeighbours ==
    ASSUME NEW entries, NEW ball, NEW x
    PROVE  x \in Graph!Wider(entries, ball) <=> x \in ball \/ \E f \in ball : x \in Nearby(entries, f)
<1>1. \A f : x \in Nearby(entries, f) <=> \/ x \in Graph!Imported(entries, f)
                                          \/ x \in DOMAIN entries /\ f \in Graph!Imported(entries, x)
  BY NeighboursAre
<1> DEFINE U == UNION {Graph!Imported(entries, f) : f \in ball}
           V == {f \in DOMAIN entries : Graph!Imported(entries, f) \intersect ball # {}}
<1>2. x \in U <=> \E f \in ball : x \in Graph!Imported(entries, f)
  OBVIOUS
<1>3. x \in V <=> x \in DOMAIN entries /\ \E f \in ball : f \in Graph!Imported(entries, x)
  OBVIOUS
<1>4. Graph!Wider(entries, ball) = ball \union U \union V
  BY DEF Graph!Wider
<1> HIDE DEF U, V
<1> QED BY <1>1, <1>2, <1>3, <1>4

(* The balls around a file.                                                *)
LEMMA BallsAreBalls ==
    ASSUME NEW entries, NEW start, NEW max_hops \in Nat, NEW ball, ball = Graph!Balls(entries, start, max_hops)
    PROVE  /\ ball[0] = {start}
           /\ \A n \in 0 .. max_hops - 1 : ball[n + 1] = Graph!Wider(entries, ball[n])
<1> DEFINE All == Graph!FilesIn(entries, start)
           step == [b \in SUBSET All |-> Graph!Wider(entries, b)]
           Is(g) == g = [n \in 0 .. max_hops |-> IF n = 0 THEN {start} ELSE Graph!Wider(entries, g[n - 1])]
<1>1. PICK g : Iterates(g, {start}, step, max_hops)
  BY RepeaterExists
<1>2. \A b \in SUBSET All : step[b] \in SUBSET All /\ step[b] = Graph!Wider(entries, b)
  BY WiderAddsNeighbours, NeighboursAre
<1>3. {start} \in SUBSET All
  BY DEF Graph!FilesIn
<1>4. g = [n \in 0 .. max_hops |-> g[n]] /\ \A n \in 0 .. max_hops : g[n] = IF n = 0 THEN {start} ELSE step[g[n - 1]]
  BY <1>1 DEF Iterates
<1> HIDE DEF step, All
<1>5. \A n \in 0 .. max_hops : g[n] \in SUBSET All
  <2> DEFINE Good == {n \in 0 .. max_hops : g[n] \in SUBSET All}
  <2>1. 0 \in Good
    <3>1. 0 \in 0 .. max_hops
      OBVIOUS
    <3>2. g[0] = {start}
      BY <1>4, <3>1
    <3> QED BY <1>3, <3>1, <3>2
  <2>2. ASSUME NEW n \in 0 .. max_hops - 1, n \in Good PROVE n + 1 \in Good
    <3>1. n + 1 \in 0 .. max_hops /\ n + 1 # 0 /\ (n + 1) - 1 = n
      OBVIOUS
    <3> QED BY <1>2, <1>4, <2>2, <3>1
  <2> HIDE DEF Good
  <2>3. \A n \in 0 .. max_hops : n \in Good
    BY <2>1, <2>2, UpTo
  <2> QED BY <2>3 DEF Good
<1>6. Is(g)
  <2>1. \A n \in 0 .. max_hops : n # 0 => n - 1 \in 0 .. max_hops
    OBVIOUS
  <2>2. \A n \in 0 .. max_hops : g[n] = IF n = 0 THEN {start} ELSE Graph!Wider(entries, g[n - 1])
    BY <1>2, <1>4, <1>5, <2>1
  <2> QED BY <1>4, <2>2
<1>7. ball = CHOOSE h : Is(h)
  BY DEF Graph!Balls
<1> HIDE DEF Is
<1>8. Is(ball)
  BY <1>6, <1>7
<1>9. \A n \in 0 .. max_hops : ball[n] = IF n = 0 THEN {start} ELSE Graph!Wider(entries, ball[n - 1])
  BY <1>8 DEF Is
<1>10. \A n \in 0 .. max_hops - 1 : n + 1 \in 0 .. max_hops /\ n + 1 # 0 /\ (n + 1) - 1 = n
  OBVIOUS
<1> QED BY <1>9, <1>10

(* A finite set listed as a sequence.                                      *)
LEMMA SetsAreListed ==
    ASSUME NEW S, IsFiniteSet(S), NEW r, r = Graph!SetToSeq(S)
    PROVE  /\ r \in Seq(S) /\ Len(r) = Cardinality(S) /\ Cardinality(S) \in Nat
           /\ \A i, j \in 1 .. Len(r) : r[i] = r[j] => i = j
           /\ \A x \in S : \E i \in 1 .. Len(r) : r[i] = x
<1> DEFINE n == Cardinality(S)
           Is(f) == f \in [1 .. n -> S] /\ \A a, b \in DOMAIN f : f[a] = f[b] => a = b
<1>1. n \in Nat
  BY FS_CardinalityType
<1>2. PICK f : f \in Bijection(1 .. n, S)
  BY FS_NatBijection, <1>1, FS_CardinalityType DEF ExistsBijection
<1>3. Is(f)
  BY <1>2 DEF Bijection, Injection, IsInjective
<1>4. r = CHOOSE g \in [1 .. n -> S] : \A a, b \in DOMAIN g : g[a] = g[b] => a = b
  BY DEF Graph!SetToSeq, Graph!IsInjective, Graph!Cardinality, Cardinality
<1>5. Is(r)
  BY <1>3, <1>4
<1>6. r \in Seq(S) /\ Len(r) = n
  BY <1>1, <1>5
<1>7. r \in Injection(1 .. n, S)
  BY <1>5 DEF Injection, IsInjective
<1>8. IsFiniteSet(1 .. n) /\ Cardinality(1 .. n) = n
  <2>1. 1 \in Int /\ n \in Int
    BY <1>1
  <2> QED BY <1>1, <2>1, FS_Interval
<1>9. r \in Surjection(1 .. n, S)
  BY <1>7, <1>8, FS_Injection
<1> QED BY <1>1, <1>5, <1>6, <1>9 DEF Surjection

(* A search around start has met the files of d and has still to visit q.  *)
Met(entries, start, max, d, q) ==
    /\ DOMAIN d \subseteq Graph!FilesIn(entries, start)
    /\ d \in [DOMAIN d -> 0 .. max] /\ q \in Seq(DOMAIN d)
    /\ start \in DOMAIN d /\ \A f \in DOMAIN d : d[f] = 0 <=> f = start

(* Nearer files are visited first, and the queue spans one hop.            *)
Queued(d, q) ==
    /\ \A i, j \in 1 .. Len(q) : i < j => q[i] # q[j] /\ d[q[i]] <= d[q[j]]
    /\ q # <<>> => \A f \in DOMAIN d : d[f] <= d[q[1]] + 1

(* Every distance but the first is one more than that of a file nearby.    *)
Chained(entries, d) ==
    \A f \in DOMAIN d : d[f] # 0 => \E g \in DOMAIN d : f \in Nearby(entries, g) /\ d[f] = d[g] + 1

(* All that is near a visited file has been met.                           *)
Explored(entries, max, d, q) ==
    \A g \in DOMAIN d : (\A i \in 1 .. Len(q) : q[i] # g) /\ d[g] < max =>
        \A h \in Nearby(entries, g) : h \in DOMAIN d /\ d[h] <= d[g] + 1

Searching(entries, start, max, n, s) ==
    /\ s = [distances |-> s.distances, frontier |-> s.frontier]
    /\ Met(entries, start, max, s.distances, s.frontier)
    /\ Queued(s.distances, s.frontier)
    /\ Chained(entries, s.distances)
    /\ Explored(entries, max, s.distances, s.frontier)
    /\ s.frontier = <<>> \/ Cardinality(DOMAIN s.distances) = n + Len(s.frontier)

(* A visit takes the head of the queue and puts what is new behind it.     *)
LEMMA VisitGoesOn ==
    ASSUME NEW entries, Imports(entries), NEW start, NEW max \in Nat, NEW n \in Nat,
           NEW s, Searching(entries, start, max, n, s)
    PROVE  Searching(entries, start, max, n + 1, Graph!Visit(entries, max, s))
<1> DEFINE d == s.distances
           q == s.frontier
           D == DOMAIN d
           All == Graph!FilesIn(entries, start)
<1>1. CASE q = <<>>
  <2>1. Graph!Visit(entries, max, s) = s
    BY <1>1 DEF Graph!Visit
  <2> QED BY <1>1, <2>1 DEF Searching
<1>2. CASE q # <<>>
  <2> DEFINE f0 == q[1]
             hop == d[f0]
             fresh == IF hop >= max THEN {} ELSE Nearby(entries, f0) \ D
             r == Graph!SetToSeq(fresh)
             d1 == [f \in D \union fresh |-> IF f \in fresh THEN hop + 1 ELSE d[f]]
             t == Tail(q)
             q1 == t \o r
  <2>1. /\ D \subseteq All /\ d \in [D -> 0 .. max] /\ q \in Seq(D)
        /\ start \in D /\ \A f \in D : d[f] = 0 <=> f = start
    BY DEF Searching, Met
  <2>2. Queued(d, q) /\ Chained(entries, d) /\ Explored(entries, max, d, q)
        /\ Cardinality(D) = n + Len(q)
    BY <1>2 DEF Searching
  <2>3. Graph!Visit(entries, max, s) = [distances |-> d1, frontier |-> q1]
    BY <1>2, <2>1 DEF Graph!Visit, Nearby
  <2>4. fresh \subseteq All /\ fresh \intersect D = {} /\ (fresh # {} => hop < max)
    <3>1. Nearby(entries, f0) \subseteq All
      BY NeighboursAre
    <3>2. hop \in 0 .. max
      BY <1>2, <2>1
    <3> QED BY <3>1, <3>2
  <2>5. IsFiniteSet(All) /\ IsFiniteSet(D) /\ IsFiniteSet(fresh)
    BY <2>1, <2>4, FilesAreFinite, FS_Subset
  <2>6. /\ r \in Seq(fresh) /\ Len(r) = Cardinality(fresh) /\ Cardinality(fresh) \in Nat
        /\ \A i, j \in 1 .. Len(r) : r[i] = r[j] => i = j
        /\ \A x \in fresh : \E i \in 1 .. Len(r) : r[i] = x
    <3> HIDE DEF fresh
    <3> QED BY <2>5, SetsAreListed
  <2>7. /\ f0 \in D /\ hop \in 0 .. max
        /\ (hop < max => fresh = Nearby(entries, f0) \ D)
    <3>1. f0 \in D
      BY <1>2, <2>1
    <3>2. hop \in 0 .. max
      BY <2>1, <3>1
    <3> QED BY <3>1, <3>2
  <2>8. /\ t \in Seq(D) /\ Len(t) = Len(q) - 1 /\ Len(t) \in Nat
        /\ \A i \in 1 .. Len(t) : t[i] = q[i + 1] /\ i + 1 \in 1 .. Len(q)
    <3> HIDE DEF d, q
    <3> QED BY <1>2, <2>1, TailPlaces
  <2> HIDE DEF fresh, r, t, f0, hop
  <2>9. /\ DOMAIN d1 = D \union fresh
        /\ \A f \in D : d1[f] = d[f]
        /\ \A f \in fresh : d1[f] = hop + 1
    BY <2>4
  <2>10. /\ q1 \in Seq(D \union fresh) /\ Len(q1) = Len(t) + Len(r)
         /\ \A i \in 1 .. Len(t) : q1[i] = t[i]
         /\ \A i \in Len(t) + 1 .. Len(q1) : q1[i] = r[i - Len(t)] /\ i - Len(t) \in 1 .. Len(r)
    <3>1. t \in Seq(D \union fresh) /\ r \in Seq(D \union fresh)
      BY <2>6, <2>8
    <3> QED BY <3>1, JoinPlaces
  <2> HIDE DEF d1, q1
  <2>11. Met(entries, start, max, d1, q1)
    <3>1. DOMAIN d1 \subseteq All /\ start \in DOMAIN d1
      BY <2>1, <2>4, <2>9
    <3>2. \A f \in DOMAIN d1 : d1[f] \in 0 .. max
      BY <2>1, <2>4, <2>7, <2>9
    <3>3. d1 = [f \in DOMAIN d1 |-> d1[f]]
      BY DEF d1
    <3>4. \A f \in DOMAIN d1 : d1[f] = 0 <=> f = start
      BY <2>1, <2>4, <2>7, <2>9
    <3> QED BY <2>9, <2>10, <3>1, <3>2, <3>3, <3>4 DEF Met
  <2>12. \A i \in 1 .. Len(q) : q[i] \in D /\ d[q[i]] \in Nat /\ hop <= d[q[i]] /\ d[q[i]] <= hop + 1
    <3>1. \A i \in 1 .. Len(q) : q[i] \in D /\ d[q[i]] \in Nat
      BY <2>1
    <3>2. \A i \in 1 .. Len(q) : i # 1 => 1 < i
      OBVIOUS
    <3>3. 1 \in 1 .. Len(q)
      BY <1>2, <2>1
    <3>4. \A i \in 1 .. Len(q) : i # 1 => d[q[1]] <= d[q[i]]
      BY <2>2, <3>2, <3>3 DEF Queued
    <3>5. \A i \in 1 .. Len(q) : d[q[i]] <= d[q[1]] + 1
      BY <1>2, <2>2, <3>1 DEF Queued
    <3>6. \A i \in 1 .. Len(q) : hop <= d[q[i]]
      BY <2>7, <3>4 DEF hop, f0
    <3> QED BY <3>1, <3>5, <3>6 DEF hop, f0
  <2>13. \A i \in 1 .. Len(q1) :
            \/ /\ i <= Len(t) /\ q1[i] = q[i + 1] /\ i + 1 \in 1 .. Len(q) /\ q1[i] \in D
               /\ d1[q1[i]] = d[q[i + 1]]
            \/ /\ i > Len(t) /\ q1[i] = r[i - Len(t)] /\ i - Len(t) \in 1 .. Len(r)
               /\ q1[i] \in fresh /\ d1[q1[i]] = hop + 1
    <3>1. ASSUME NEW i \in 1 .. Len(q1), i <= Len(t)
          PROVE  /\ q1[i] = q[i + 1] /\ i + 1 \in 1 .. Len(q) /\ q1[i] \in D
                 /\ d1[q1[i]] = d[q[i + 1]]
      <4>1. i \in 1 .. Len(t)
        BY <2>8, <3>1
      <4> QED BY <2>8, <2>9, <2>10, <2>12, <4>1
    <3>2. ASSUME NEW i \in 1 .. Len(q1), ~(i <= Len(t))
          PROVE  /\ i > Len(t) /\ q1[i] = r[i - Len(t)] /\ i - Len(t) \in 1 .. Len(r)
                 /\ q1[i] \in fresh /\ d1[q1[i]] = hop + 1
      <4>1. i \in Len(t) + 1 .. Len(q1) /\ i > Len(t)
        BY <2>8, <3>2
      <4>2. i - Len(t) \in 1 .. Len(r) /\ q1[i] = r[i - Len(t)]
        BY <2>10, <4>1
      <4>3. q1[i] \in fresh
        BY <2>6, <4>2
      <4> QED BY <2>9, <4>1, <4>2, <4>3
    <3> QED BY <3>1, <3>2
  <2>14. Queued(d1, q1)
    <3>1. ASSUME NEW i \in 1 .. Len(q1), NEW j \in 1 .. Len(q1), i < j
          PROVE  q1[i] # q1[j] /\ d1[q1[i]] <= d1[q1[j]]
      <4>0. Len(t) \in Nat /\ i \in Int /\ j \in Int
        BY <2>8
      <4>1. CASE j <= Len(t)
        <5>1. i + 1 \in 1 .. Len(q) /\ j + 1 \in 1 .. Len(q) /\ i + 1 < j + 1
              /\ q1[i] = q[i + 1] /\ q1[j] = q[j + 1] /\ d1[q1[i]] = d[q[i + 1]] /\ d1[q1[j]] = d[q[j + 1]]
          BY <2>13, <3>1, <4>0, <4>1
        <5> QED BY <2>2, <5>1 DEF Queued
      <4>2. CASE i <= Len(t) /\ j > Len(t)
        <5>1. i + 1 \in 1 .. Len(q) /\ q1[i] \in D /\ d1[q1[i]] = d[q[i + 1]] /\ d[q[i + 1]] <= hop + 1
          BY <2>12, <2>13, <4>0, <4>2
        <5>2. q1[j] \in fresh /\ d1[q1[j]] = hop + 1
          BY <2>13, <4>0, <4>2
        <5> QED BY <2>4, <5>1, <5>2
      <4>3. CASE i > Len(t)
        <5>1. i - Len(t) # j - Len(t) /\ i - Len(t) \in 1 .. Len(r) /\ j - Len(t) \in 1 .. Len(r)
              /\ q1[i] = r[i - Len(t)] /\ q1[j] = r[j - Len(t)]
              /\ d1[q1[i]] = hop + 1 /\ d1[q1[j]] = hop + 1
          BY <2>13, <3>1, <4>0, <4>3
        <5> QED BY <2>6, <2>7, <5>1
      <4> QED BY <4>0, <4>1, <4>2, <4>3
    <3>2. ASSUME q1 # <<>> PROVE \A f \in DOMAIN d1 : d1[f] <= d1[q1[1]] + 1
      <4>1. 1 \in 1 .. Len(q1)
        BY <2>10, <3>2
      <4>2. d1[q1[1]] \in Nat /\ hop <= d1[q1[1]]
        BY <2>7, <2>12, <2>13, <4>1
      <4>3. \A f \in D : d[f] \in Nat /\ d[f] <= hop + 1
        BY <1>2, <2>1, <2>2 DEF Queued, hop, f0
      <4>4. \A f \in DOMAIN d1 : d1[f] \in Nat /\ d1[f] <= hop + 1
        BY <2>7, <2>9, <4>3
      <4> QED BY <2>7, <4>2, <4>4
    <3> QED BY <3>1, <3>2 DEF Queued
  <2>15. Chained(entries, d1)
    <3>1. ASSUME NEW f \in DOMAIN d1, d1[f] # 0
          PROVE  \E g \in DOMAIN d1 : f \in Nearby(entries, g) /\ d1[f] = d1[g] + 1
      <4>1. CASE f \in D
        <5>1. PICK g \in D : f \in Nearby(entries, g) /\ d[f] = d[g] + 1
          BY <2>2, <2>9, <3>1, <4>1 DEF Chained
        <5> QED BY <2>9, <4>1, <5>1
      <4>2. CASE f \in fresh
        <5>1. f0 \in DOMAIN d1 /\ d1[f0] = hop
          BY <2>7, <2>9 DEF hop
        <5>2. f \in Nearby(entries, f0)
          BY <4>2 DEF fresh
        <5> QED BY <2>9, <4>2, <5>1, <5>2
      <4> QED BY <2>9, <4>1, <4>2
    <3> QED BY <3>1 DEF Chained
  <2>16. Explored(entries, max, d1, q1)
    <3>1. ASSUME NEW g \in DOMAIN d1, \A i \in 1 .. Len(q1) : q1[i] # g, d1[g] < max,
                 NEW h \in Nearby(entries, g)
          PROVE  h \in DOMAIN d1 /\ d1[h] <= d1[g] + 1
      <4>1. g \notin fresh
        <5>1. ASSUME NEW i \in 1 .. Len(r), r[i] = g PROVE FALSE
          <6>1. i + Len(t) \in Len(t) + 1 .. Len(q1) /\ (i + Len(t)) - Len(t) = i
                /\ i + Len(t) \in 1 .. Len(q1)
            BY <2>6, <2>8, <2>10
          <6> QED BY <2>10, <3>1, <5>1, <6>1
        <5> QED BY <2>6, <5>1
      <4>2. g \in D /\ d1[g] = d[g]
        BY <2>9, <4>1
      <4>3. CASE g = f0
        <5>1. hop < max /\ d[g] = hop
          BY <3>1, <4>2, <4>3 DEF hop
        <5>2. h \in D \union fresh
          BY <2>7, <4>3, <5>1
        <5>3. h \in D => d[h] <= hop + 1
          BY <1>2, <2>2 DEF Queued, hop, f0
        <5> QED BY <2>7, <2>9, <4>2, <5>1, <5>2, <5>3
      <4>4. CASE g # f0
        <5>1. \A i \in 1 .. Len(q) : q[i] # g
          <6>1. ASSUME NEW i \in 1 .. Len(q), i # 1 PROVE q[i] # g
            <7>1. i - 1 \in 1 .. Len(t) /\ (i - 1) + 1 = i /\ i - 1 \in 1 .. Len(q1)
              BY <2>6, <2>8, <2>10, <6>1
            <7> QED BY <2>8, <2>10, <3>1, <7>1
          <6> QED BY <4>4, <6>1 DEF f0
        <5>2. h \in D /\ d[h] <= d[g] + 1
          BY <2>2, <3>1, <4>2, <5>1 DEF Explored
        <5> QED BY <2>9, <4>2, <5>2
      <4> QED BY <4>3, <4>4
    <3> QED BY <3>1 DEF Explored
  <2>17. Cardinality(DOMAIN d1) = (n + 1) + Len(q1)
    <3>1. Cardinality(D \union fresh) = Cardinality(D) + Cardinality(fresh) - Cardinality(D \intersect fresh)
      BY <2>5, FS_Union
    <3>2. Cardinality(D \intersect fresh) = 0
      BY <2>4, FS_EmptySet
    <3>3. Len(q) \in Nat
      BY <2>1
    <3>4. Cardinality(D) \in Nat
      BY <2>5, FS_CardinalityType
    <3>5. Cardinality(DOMAIN d1) = Cardinality(D) + Cardinality(fresh)
      <4> HIDE DEF D
      <4> QED BY <2>6, <2>9, <3>1, <3>2, <3>4
    <3>6. Cardinality(D) = n + Len(q) /\ Len(q1) = Len(q) - 1 + Cardinality(fresh)
      BY <2>2, <2>6, <2>8, <2>10
    <3>7. Cardinality(fresh) \in Nat
      BY <2>6
    <3> HIDE DEF D, q
    <3> QED BY <3>3, <3>5, <3>6, <3>7
  <2> QED
    <3> DEFINE s1 == [distances |-> d1, frontier |-> q1]
    <3>1. s1 = [distances |-> s1.distances, frontier |-> s1.frontier] /\ s1.distances = d1 /\ s1.frontier = q1
      OBVIOUS
    <3> HIDE DEF s1
    <3>2. Searching(entries, start, max, n + 1, s1)
      BY <2>11, <2>14, <2>15, <2>16, <2>17, <3>1 DEF Searching
    <3> QED BY <2>3, <3>2 DEF s1
<1> QED BY <1>1, <1>2

(* Before the first visit only the start has been met.                     *)
LEMMA SearchBegins ==
    ASSUME NEW entries, NEW start, NEW max \in Nat
    PROVE  Searching(entries, start, max, 0,
                     [distances |-> [f \in {start} |-> 0], frontier |-> <<start>>])
<1> DEFINE d == [f \in {start} |-> 0]
           q == <<start>>
           s == [distances |-> d, frontier |-> q]
<1>1. s = [distances |-> s.distances, frontier |-> s.frontier] /\ s.distances = d /\ s.frontier = q
  OBVIOUS
<1>2. DOMAIN d = {start} /\ d[start] = 0 /\ q[1] = start /\ Len(q) = 1 /\ q \in Seq({start})
  OBVIOUS
<1>3. start \in Graph!FilesIn(entries, start)
  BY DEF Graph!FilesIn
<1>4. 0 \in 0 .. max /\ d \in [{start} -> 0 .. max]
  OBVIOUS
<1>5. Cardinality(DOMAIN d) = 0 + Len(q)
  <2>1. Cardinality({start}) = 1
    BY FS_Singleton
  <2>2. DOMAIN d = {start} /\ Len(q) = 1
    OBVIOUS
  <2> HIDE DEF d, q
  <2> QED BY <2>1, <2>2
<1> HIDE DEF d, q
<1>6. Met(entries, start, max, d, q)
  BY <1>2, <1>3, <1>4 DEF Met
<1>7. Queued(d, q)
  BY <1>2 DEF Queued
<1>8. Chained(entries, d)
  BY <1>2 DEF Chained
<1>9. Explored(entries, max, d, q)
  <2>1. 1 \in 1 .. Len(q)
    BY <1>2
  <2> QED BY <1>2, <2>1 DEF Explored
<1> HIDE DEF s
<1>10. Searching(entries, start, max, 0, s)
  BY <1>1, <1>5, <1>6, <1>7, <1>8, <1>9 DEF Searching
<1> QED BY <1>10 DEF s, d, q

(* After as many visits as there are files, there is nothing to visit.     *)
LEMMA SearchEnds ==
    ASSUME NEW entries, Imports(entries), NEW start, NEW max \in Nat
    PROVE  \E s : /\ Graph!compute_hop_distances(entries, start, max) = s.distances
                  /\ \E n \in Nat : Searching(entries, start, max, n, s)
                  /\ s.frontier = <<>>
<1> DEFINE All == Graph!FilesIn(entries, start)
           n == Cardinality(All)
           first == [distances |-> [f \in {start} |-> 0], frontier |-> <<start>>]
           Searches == [distances : UNION {[D -> 0 .. max] : D \in SUBSET All}, frontier : Seq(All)]
           step == [s \in Searches |-> Graph!Visit(entries, max, s)]
           Is(g) == g = [k \in 0 .. n |-> IF k = 0 THEN first ELSE Graph!Visit(entries, max, g[k - 1])]
           Stands(k, s) == Searching(entries, start, max, k, s)
<1>1. n \in Nat /\ IsFiniteSet(All)
  BY FilesAreFinite, FS_CardinalityType
<1>2. Stands(0, first)
  BY SearchBegins
<1>3. \A k \in Nat : \A s : Stands(k, s) => Stands(k + 1, Graph!Visit(entries, max, s))
  BY VisitGoesOn
<1>4. ASSUME NEW k \in Nat, NEW s, Stands(k, s)
      PROVE  s \in Searches
  <2>1. s = [distances |-> s.distances, frontier |-> s.frontier] /\ Met(entries, start, max, s.distances, s.frontier)
    BY <1>4 DEF Searching
  <2>2. DOMAIN s.distances \in SUBSET All /\ s.distances \in [DOMAIN s.distances -> 0 .. max]
        /\ s.frontier \in Seq(All)
    BY <2>1 DEF Met
  <2>3. s.distances \in UNION {[D -> 0 .. max] : D \in SUBSET All}
    BY <2>2
  <2> QED BY <2>1, <2>2, <2>3
<1>5. \A k \in Nat : \A s : Stands(k, s) => step[s] = Graph!Visit(entries, max, s)
  BY <1>4
<1>6. PICK g : Iterates(g, first, step, n)
  BY <1>1, RepeaterExists
<1> HIDE DEF Searches, step, first, Stands, n
<1>7. /\ g = [k \in 0 .. n |-> g[k]]
      /\ \A k \in 0 .. n : g[k] = IF k = 0 THEN first ELSE step[g[k - 1]]
  BY <1>6 DEF Iterates
<1>8. 0 \in 0 .. n /\ \A k \in 0 .. n - 1 : k \in Nat /\ k + 1 \in 0 .. n /\ k + 1 # 0 /\ (k + 1) - 1 = k
  BY <1>1
<1>9. \A k \in 0 .. n : Stands(k, g[k])
  <2> DEFINE Good == {k \in 0 .. n : Stands(k, g[k])}
  <2>1. 0 \in Good
    BY <1>2, <1>7, <1>8
  <2>2. ASSUME NEW k \in 0 .. n - 1, k \in Good PROVE k + 1 \in Good
    <3>1. g[k + 1] = step[g[k]]
      BY <1>7, <1>8
    <3>2. g[k + 1] = Graph!Visit(entries, max, g[k])
      BY <1>5, <1>8, <2>2, <3>1
    <3> QED BY <1>3, <1>8, <2>2, <3>2
  <2> HIDE DEF Good
  <2>3. \A k \in 0 .. n : k \in Good
    BY <1>1, <2>1, <2>2, UpTo
  <2> QED BY <2>3 DEF Good
<1>10. Is(g)
  <2>1. \A k \in 0 .. n : k # 0 => k - 1 \in 0 .. n /\ k - 1 \in Nat
    BY <1>1
  <2>2. \A k \in 0 .. n : g[k] = IF k = 0 THEN first ELSE Graph!Visit(entries, max, g[k - 1])
    BY <1>5, <1>7, <1>9, <2>1
  <2> QED BY <1>7, <2>2
<1> DEFINE v == CHOOSE h : Is(h)
<1>11. Graph!compute_hop_distances(entries, start, max) = v[n].distances
  BY DEF Graph!compute_hop_distances, Graph!Cardinality, Cardinality, n, first
<1>12. Is(v)
  <2> HIDE DEF Is
  <2> QED BY <1>10
<1> HIDE DEF v
<1>13. \A k \in 0 .. n : v[k] = IF k = 0 THEN first ELSE Graph!Visit(entries, max, v[k - 1])
  BY <1>12
<1>14. \A k \in 0 .. n : Stands(k, v[k])
  <2> DEFINE Good == {k \in 0 .. n : Stands(k, v[k])}
  <2>1. 0 \in Good
    BY <1>2, <1>8, <1>13
  <2>2. ASSUME NEW k \in 0 .. n - 1, k \in Good PROVE k + 1 \in Good
    <3>1. v[k + 1] = Graph!Visit(entries, max, v[k])
      BY <1>8, <1>13
    <3> QED BY <1>3, <1>8, <2>2, <3>1
  <2> HIDE DEF Good
  <2>3. \A k \in 0 .. n : k \in Good
    BY <1>1, <2>1, <2>2, UpTo
  <2> QED BY <2>3 DEF Good
<1> DEFINE s == v[n]
<1>15. n \in 0 .. n
  BY <1>1
<1>16. Searching(entries, start, max, n, s)
  BY <1>14, <1>15 DEF Stands
<1> HIDE DEF s
<1>17. s.frontier = <<>>
  <2>1. Met(entries, start, max, s.distances, s.frontier)
        /\ (s.frontier = <<>> \/ Cardinality(DOMAIN s.distances) = n + Len(s.frontier))
    BY <1>16 DEF Searching
  <2>2. DOMAIN s.distances \subseteq All /\ s.frontier \in Seq(DOMAIN s.distances)
    BY <2>1 DEF Met
  <2>3. Cardinality(DOMAIN s.distances) <= n /\ Cardinality(DOMAIN s.distances) \in Nat
    BY <1>1, <2>2, FS_Subset, FS_CardinalityType DEF n
  <2>4. Len(s.frontier) \in Nat /\ (Len(s.frontier) = 0 => s.frontier = <<>>)
    BY <2>2
  <2> QED BY <1>1, <2>1, <2>3, <2>4
<1> QED BY <1>1, <1>11, <1>16, <1>17 DEF s

(* graph_distance.py: however the files import one another, a file has the *)
(* distance of the shortest chain of imports, and a file that is too far   *)
(* has none.                                                               *)
THEOREM DistancesAreShortest ==
    ASSUME NEW entries, Imports(entries), NEW start, NEW max \in Nat
    PROVE  Graph!HopsAreShortest(entries, start, max)
<1> DEFINE hops == Graph!compute_hop_distances(entries, start, max)
           D == DOMAIN hops
           ball == Graph!Balls(entries, start, max)
<1>1. PICK s : /\ hops = s.distances /\ s.frontier = <<>>
               /\ \E n \in Nat : Searching(entries, start, max, n, s)
  BY SearchEnds
<1>2. Met(entries, start, max, hops, <<>>) /\ Chained(entries, hops) /\ Explored(entries, max, hops, <<>>)
  BY <1>1 DEF Searching
<1> HIDE DEF hops
<1>3. start \in D /\ \A f \in D : hops[f] \in 0 .. max /\ (hops[f] = 0 <=> f = start)
  BY <1>2 DEF Met
<1>4. \A f \in D : hops[f] # 0 => \E g \in D : f \in Nearby(entries, g) /\ hops[f] = hops[g] + 1
  BY <1>2 DEF Chained
<1>5. \A g \in D : hops[g] < max => \A h \in Nearby(entries, g) : h \in D /\ hops[h] <= hops[g] + 1
  BY <1>2 DEF Explored
<1>6. /\ ball[0] = {start}
      /\ \A n \in 0 .. max - 1 : ball[n + 1] = Graph!Wider(entries, ball[n])
  BY BallsAreBalls
<1> HIDE DEF ball
<1> DEFINE Good == {n \in 0 .. max : \A x : x \in ball[n] <=> x \in D /\ hops[x] <= n}
<1>7. 0 \in Good
  <2>1. \A x : x \in ball[0] <=> x \in D /\ hops[x] <= 0
    BY <1>3, <1>6
  <2> QED BY <2>1
<1>8. ASSUME NEW n \in 0 .. max - 1, n \in Good PROVE n + 1 \in Good
  <2>1. \A x : x \in ball[n] <=> x \in D /\ hops[x] <= n
    BY <1>8
  <2>2. \A x : x \in ball[n + 1] <=> x \in ball[n] \/ \E f \in ball[n] : x \in Nearby(entries, f)
    BY <1>6, WiderAddsNeighbours
  <2>3. ASSUME NEW x \in ball[n + 1] PROVE x \in D /\ hops[x] <= n + 1
    <3>1. CASE x \in ball[n]
      BY <1>3, <2>1, <3>1
    <3>2. ASSUME NEW f \in ball[n], x \in Nearby(entries, f) PROVE x \in D /\ hops[x] <= n + 1
      <4>1. f \in D /\ hops[f] <= n /\ hops[f] < max /\ hops[f] \in Nat
        BY <1>3, <2>1
      <4>2. x \in D /\ hops[x] <= hops[f] + 1
        BY <1>5, <3>2, <4>1
      <4> QED BY <1>3, <4>1, <4>2
    <3> QED BY <2>2, <3>1, <3>2
  <2>4. ASSUME NEW x \in D, hops[x] <= n + 1 PROVE x \in ball[n + 1]
    <3>1. CASE hops[x] <= n
      BY <2>1, <2>2, <3>1
    <3>2. CASE ~(hops[x] <= n)
      <4>1. hops[x] = n + 1 /\ hops[x] # 0
        BY <1>3, <2>4, <3>2
      <4>2. PICK g \in D : x \in Nearby(entries, g) /\ hops[x] = hops[g] + 1
        BY <1>4, <4>1
      <4>3. hops[g] <= n
        BY <1>3, <4>1, <4>2
      <4> QED BY <2>1, <2>2, <4>2, <4>3
    <3> QED BY <3>1, <3>2
  <2>5. n + 1 \in 0 .. max
    OBVIOUS
  <2> QED BY <2>3, <2>4, <2>5
<1>9. \A n \in 0 .. max : n \in Good
  <2> HIDE DEF Good
  <2> QED BY <1>7, <1>8, UpTo
<1>10. DOMAIN hops = ball[max]
  <2>1. \A x : x \in ball[max] <=> x \in D /\ hops[x] <= max
    BY <1>9
  <2> QED BY <1>3, <2>1
<1>11. \A f \in DOMAIN hops : \A n \in 0 .. max : f \in ball[n] <=> hops[f] <= n
  BY <1>9
<1> QED BY <1>10, <1>11 DEF Graph!HopsAreShortest, hops, ball
-----------------------------------------------------------------------------
(* A sequence, of whatever.                                                *)
ASeq(s) == \E S : s \in Seq(S)

(* The first candidate that is a file, if any is.                          *)
LEMMA FirstFileIsAFile ==
    ASSUME NEW candidates, ASeq(candidates), NEW files
    PROVE  Graph!FirstFile(candidates, files) \in files \union {Graph!Nowhere}
<1> DEFINE found == {i \in DOMAIN candidates : candidates[i] \in files}
<1>1. PICK S : candidates \in Seq(S)
  BY DEF ASeq
<1>2. found \in SUBSET Nat
  BY <1>1
<1>3. found # {} => Graph!Min(found) \in found
  <2> HIDE DEF found
  <2> QED BY <1>2, MinIsLeast DEF Graph!Min, Min
<1>4. Graph!FirstFile(candidates, files) = IF found = {} THEN Graph!Nowhere ELSE candidates[Graph!Min(found)]
  BY DEF Graph!FirstFile
<1>5. \A i \in found : candidates[i] \in files
  OBVIOUS
<1> HIDE DEF found
<1> QED BY <1>3, <1>4, <1>5

LEMMA OnesAndTwosAreListed ==
    ASSUME NEW x, NEW y
    PROVE  ASeq(<<x>>) /\ ASeq(<<x, y>>)
<1>1. <<x>> \in Seq({x}) /\ <<x, y>> \in Seq({x, y})
  OBVIOUS
<1> QED BY <1>1 DEF ASeq

(* An import leads to a file of the repository, or to none.                *)
LEMMA TargetsAreFiles ==
    ASSUME NEW language, NEW target, NEW importing, NEW files
    PROVE  Graph!_resolve_import_target(language, target, importing, files) \in files \union {Graph!Nowhere}
<1> USE OnesAndTwosAreListed, FirstFileIsAFile
<1>1. Graph!_resolve_python_import(target, importing, files) \in files \union {Graph!Nowhere}
  <2> DEFINE base == IF target.level > 0 THEN Graph!Up(Graph!Dir(importing), target.level - 1) ELSE <<>>
             path == base \o target.segments
             init == Append(base, "__init__.py")
             module == Graph!Suffixed(path, ".py")
             package == Append(path, "__init__.py")
  <2>1. Graph!_resolve_python_import(target, importing, files) =
           IF target.segments = <<>>
           THEN IF target.level = 0 THEN Graph!Nowhere ELSE Graph!FirstFile(<<init>>, files)
           ELSE Graph!FirstFile(<<module, package>>, files)
    BY DEF Graph!_resolve_python_import
  <2> HIDE DEF init, module, package
  <2> QED BY <2>1
<1>2. Graph!_resolve_js_import(target, importing, files) \in files \union {Graph!Nowhere}
  <2> DEFINE path == Graph!Up(Graph!Dir(importing), target.level - 1) \o target.segments
             plain == IF target.ext THEN <<path>> ELSE <<>>
             suffixed == [i \in DOMAIN Graph!_JS_EXTENSIONS |-> Graph!Suffixed(path, Graph!_JS_EXTENSIONS[i])]
             index == [i \in DOMAIN Graph!_JS_EXTENSIONS |-> Append(path, "index" \o Graph!_JS_EXTENSIONS[i])]
             S == {path} \union {suffixed[i] : i \in 1 .. 6} \union {index[i] : i \in 1 .. 6}
  <2>1. Graph!_resolve_js_import(target, importing, files) =
           IF target.level \notin 1..(Len(Graph!Dir(importing)) + 1) THEN Graph!Nowhere
           ELSE Graph!FirstFile(plain \o suffixed \o index, files)
    BY DEF Graph!_resolve_js_import
  <2>2. DOMAIN Graph!_JS_EXTENSIONS = 1 .. 6
    BY DEF Graph!_JS_EXTENSIONS
  <2> HIDE DEF path
  <2>3. suffixed \in [1 .. 6 -> S] /\ index \in [1 .. 6 -> S]
    BY <2>2
  <2>4. plain \in Seq(S)
    <3>1. <<path>> \in Seq(S) /\ <<>> \in Seq(S)
      OBVIOUS
    <3> QED BY <3>1
  <2> HIDE DEF plain, suffixed, index, S
  <2>5. plain \o suffixed \o index \in Seq(S)
    <3>0. \A n \in Nat : \A f \in [1 .. n -> S] : f \in Seq(S)
      OBVIOUS
    <3>1. suffixed \in Seq(S) /\ index \in Seq(S)
      BY <2>3, <3>0
    <3>2. plain \o suffixed \in Seq(S)
      BY <2>4, <3>1
    <3> QED BY <3>1, <3>2
  <2>6. ASeq(plain \o suffixed \o index)
    BY <2>5 DEF ASeq
  <2> QED BY <2>1, <2>6
<1>3. Graph!_resolve_java_import(target, files) \in files \union {Graph!Nowhere}
  <2> DEFINE matches == {f \in files : Graph!IsSuffix(Graph!Suffixed(target.segments, ".java"), f)}
  <2>1. Graph!_resolve_java_import(target, files) =
           IF Cardinality(matches) = 1 THEN CHOOSE f \in matches : TRUE ELSE Graph!Nowhere
    BY DEF Graph!_resolve_java_import, Graph!Cardinality, Cardinality
  <2>2. matches \subseteq files
    OBVIOUS
  <2> HIDE DEF matches
  <2>3. Cardinality(matches) = 1 => matches # {}
    BY FS_EmptySet
  <2> QED BY <2>1, <2>2, <2>3
<1>4. Graph!_resolve_rust_import(target, files) \in files \union {Graph!Nowhere}
  <2> DEFINE modules == Graph!Front(target.segments)
             path == <<"src">> \o modules
             lib == <<"src", "lib.rs">>
             main == <<"src", "main.rs">>
             module == Graph!Suffixed(path, ".rs")
             package == Append(path, "mod.rs")
  <2>1. Graph!_resolve_rust_import(target, files) =
           IF target.level = 0 THEN Graph!Nowhere
           ELSE IF modules = <<>> THEN Graph!FirstFile(<<lib, main>>, files)
           ELSE Graph!FirstFile(<<module, package>>, files)
    BY DEF Graph!_resolve_rust_import
  <2> HIDE DEF lib, main, module, package, modules
  <2> QED BY <2>1
<1> QED BY <1>1, <1>2, <1>3, <1>4 DEF Graph!_resolve_import_target

(* What the extractors found in each of the walked files.                  *)
FactsGiven(facts) ==
    /\ ASeq(facts)
    /\ \A i \in DOMAIN facts : /\ facts[i].path # Graph!Nowhere
                               /\ ASeq(facts[i].symbols) /\ ASeq(facts[i].rels)

(* The file a name is bound to is the one some import leads to.            *)
LEMMA BoundAlongAnImport ==
    ASSUME NEW facts, FactsGiven(facts), NEW i \in DOMAIN facts, NEW files, NEW name
    PROVE  \/ Graph!Bound(facts, i, files, name) = Graph!Nowhere
           \/ \E r \in Graph!ToSet(facts[i].rels) :
                 /\ r.kind = "import"
                 /\ Graph!Bound(facts, i, files, name) =
                       Graph!_resolve_import_target(facts[i].language, r.target, facts[i].path, files)
<1> DEFINE rels == facts[i].rels
           Leads(k) == Graph!_resolve_import_target(facts[i].language, rels[k].target, facts[i].path, files)
           known == {k \in DOMAIN rels : /\ rels[k].kind = "import"
                                         /\ rels[k].qualifier = name /\ Leads(k) # Graph!Nowhere}
<1>1. PICK S : rels \in Seq(S)
  BY DEF FactsGiven, ASeq
<1>2. known \in SUBSET (1 .. Len(rels)) /\ Len(rels) \in Nat
  BY <1>1
<1>3. Graph!Bound(facts, i, files, name) = IF known = {} THEN Graph!Nowhere ELSE Leads(Graph!Max(known))
  BY DEF Graph!Bound
<1>4. known # {} => Graph!Max(known) \in known
  <2> HIDE DEF known
  <2> QED BY <1>2, MaxIsAmongThem DEF Graph!Max, Max
<1>5. \A k \in known : rels[k].kind = "import" /\ rels[k] \in Graph!ToSet(rels)
  BY DEF Graph!ToSet
<1> HIDE DEF known
<1> QED BY <1>3, <1>4, <1>5

(* A relationship leads to a file of the repository: to its its file, or   *)
(* to one that an import of the file leads to.                             *)
Reached(facts, i, files, path) ==
    /\ path \in files \union {Graph!Nowhere}
    /\ path \notin {facts[i].path, Graph!Nowhere} =>
          \E r \in Graph!ToSet(facts[i].rels) :
             /\ r.kind = "import"
             /\ path = Graph!_resolve_import_target(facts[i].language, r.target, facts[i].path, files)

LeadsTo(facts, i, files, found) ==
    /\ Reached(facts, i, files, found.file)
    /\ found.symbol # Graph!None => Graph!Declares(facts, found.file, found.symbol)

LEMMA RelationshipsLead ==
    ASSUME NEW facts, FactsGiven(facts), NEW i \in DOMAIN facts, NEW files, files = Graph!Paths(facts), NEW rel
    PROVE  rel.kind \notin {"import", "export"} => LeadsTo(facts, i, files, Graph!Resolved(facts, i, files, rel))
<1> DEFINE its == facts[i].path
           Leads(found) == LeadsTo(facts, i, files, found)
<1>1. its \in files /\ its # Graph!Nowhere
  BY DEF Graph!Paths, FactsGiven
<1>2. Reached(facts, i, files, its) /\ Reached(facts, i, files, Graph!Nowhere)
  BY <1>1 DEF Reached
<1>3. \A name : Reached(facts, i, files, Graph!Bound(facts, i, files, name))
  BY BoundAlongAnImport, TargetsAreFiles DEF Reached
<1>4. Leads(Graph!Unresolved)
  BY <1>2 DEF LeadsTo, Graph!Unresolved
<1>5. \A path, name : Reached(facts, i, files, path) => Leads(Graph!In(facts, path, name))
  <2> TAKE path, name
  <2> HAVE Reached(facts, i, files, path)
  <2>1. CASE Graph!Declares(facts, path, name)
    BY <2>1 DEF Graph!In, LeadsTo
  <2>2. CASE ~Graph!Declares(facts, path, name)
    BY <1>4, <2>2 DEF Graph!In
  <2> QED BY <2>1, <2>2
<1>6. \A q, name : Leads(Graph!_resolve_type_reference(facts, i, files, q, name))
  <2> TAKE q, name
  <2>1. CASE q = Graph!None /\ Graph!Declares(facts, its, name)
    <3>1. Graph!_resolve_type_reference(facts, i, files, q, name) = [file |-> its, symbol |-> name]
      BY <2>1 DEF Graph!_resolve_type_reference
    <3> QED BY <1>2, <2>1, <3>1 DEF LeadsTo
  <2>2. CASE ~(q = Graph!None /\ Graph!Declares(facts, its, name))
    <3>1. \E n : Graph!_resolve_type_reference(facts, i, files, q, name) = Graph!In(facts, Graph!Bound(facts, i, files, n), name)
      BY <2>2 DEF Graph!_resolve_type_reference
    <3> QED BY <1>3, <1>5, <3>1
  <2> QED BY <2>1, <2>2
<1>7. Leads(Graph!Called(facts, i, files, rel))
  <2>1. CASE Graph!Called(facts, i, files, rel) = [file |-> its, symbol |-> rel.name] /\ Graph!Count(facts, its, rel.name) = 1
    BY <1>1, <1>2, <2>1 DEF LeadsTo, Graph!Declares
  <2>2. CASE \E n : Graph!Called(facts, i, files, rel) = Graph!In(facts, Graph!Bound(facts, i, files, n), rel.name)
    BY <1>3, <1>5, <2>2
  <2>3. CASE Graph!Called(facts, i, files, rel) = Graph!Unresolved
    BY <1>4, <2>3
  <2> DEFINE here == rel.qualifier \in {Graph!None, "self", "this", "super", "base"}
             n == IF rel.qualifier = Graph!None THEN rel.name ELSE rel.qualifier
  <2>4. Graph!Called(facts, i, files, rel) =
           IF here /\ Graph!Count(facts, its, rel.name) = 1 THEN [file |-> its, symbol |-> rel.name]
           ELSE IF rel.qualifier \in {"self", "this", "super", "base"} THEN Graph!Unresolved
           ELSE Graph!In(facts, Graph!Bound(facts, i, files, n), rel.name)
    BY DEF Graph!Called
  <2> HIDE DEF here, n
  <2> QED BY <2>1, <2>2, <2>3, <2>4
<1>8. Leads(Graph!_resolve_relationship(facts, i, files, rel))
  <2>1. Reached(facts, i, files, Graph!_resolve_type_reference(facts, i, files, Graph!None, rel.qualifier).file)
    BY <1>6 DEF LeadsTo
  <2> QED BY <1>4, <1>5, <1>6, <1>7, <2>1 DEF Graph!_resolve_relationship
<1> QED BY <1>8 DEF Graph!Resolved

(* graph.py: whatever was walked, a symbol is resolved only to a file that *)
(* declares it, and one of another file only along an import that leads to *)
(* that file.                                                              *)
THEOREM EdgesLeadWhereFilesSay ==
    ASSUME NEW facts, FactsGiven(facts)
    PROVE  Graph!EdgesAreTrue(facts, Graph!_resolve_all(facts))
<1> DEFINE files == Graph!Paths(facts)
           edges == Graph!_resolve_all(facts)
           Of(i, r) == Graph!Edge(facts[i].path, r, Graph!Resolved(facts, i, files, r))
<1>1. \A e : e \in edges <=> \E i \in DOMAIN facts : \E r \in Graph!ToSet(facts[i].rels) : e = Of(i, r)
  BY DEF Graph!_resolve_all, Graph!EdgesOf, Graph!AllFiles
<1>2. \A i \in DOMAIN facts : \A r :
        LET found == Graph!Resolved(facts, i, files, r)
        IN  /\ Of(i, r).source = facts[i].path /\ Of(i, r).rel = r
            /\ Of(i, r).file = found.file /\ Of(i, r).symbol = found.symbol
  BY DEF Graph!Edge
<1> HIDE DEF files, edges, Of
<1> SUFFICES ASSUME NEW e \in edges
             PROVE  /\ e.file \in files \union {Graph!Nowhere}
                    /\ e.symbol # Graph!None => Graph!Declares(facts, e.file, e.symbol)
                    /\ e.symbol # Graph!None /\ e.file # e.source =>
                          \E d \in edges : d.source = e.source /\ d.rel.kind = "import" /\ d.file = e.file
  BY DEF Graph!EdgesAreTrue, files, edges
<1>3. PICK i \in DOMAIN facts : \E r \in Graph!ToSet(facts[i].rels) : e = Of(i, r)
  BY <1>1
<1>4. PICK r \in Graph!ToSet(facts[i].rels) : e = Of(i, r)
  BY <1>3
<1> DEFINE found == Graph!Resolved(facts, i, files, r)
<1>5. e.source = facts[i].path /\ e.file = found.file /\ e.symbol = found.symbol
  BY <1>2, <1>4
<1>6. CASE r.kind \in {"import", "export"}
  <2>1. found = [file |-> Graph!_resolve_import_target(facts[i].language, r.target, facts[i].path, files),
                 symbol |-> Graph!None]
    BY <1>6 DEF Graph!Resolved
  <2> HIDE DEF found
  <2> QED BY <1>5, <2>1, TargetsAreFiles
<1>7. CASE r.kind \notin {"import", "export"}
  <2>1. LeadsTo(facts, i, files, found)
    BY <1>7, RelationshipsLead DEF files
  <2> HIDE DEF found
  <2>2. /\ e.file \in files \union {Graph!Nowhere}
        /\ e.symbol # Graph!None => Graph!Declares(facts, e.file, e.symbol)
    BY <1>5, <2>1 DEF LeadsTo, Reached
  <2>3. ASSUME e.symbol # Graph!None, e.file # e.source
        PROVE  \E d \in edges : d.source = e.source /\ d.rel.kind = "import" /\ d.file = e.file
    <3>1. e.file # Graph!Nowhere
      BY <2>2, <2>3 DEF Graph!Declares
    <3>2. PICK q \in Graph!ToSet(facts[i].rels) :
             /\ q.kind = "import"
             /\ e.file = Graph!_resolve_import_target(facts[i].language, q.target, facts[i].path, files)
      BY <1>5, <2>1, <2>3, <3>1 DEF LeadsTo, Reached
    <3>3. Of(i, q) \in edges
      BY <1>1
    <3>4. Graph!Resolved(facts, i, files, q).file = e.file
      BY <3>2 DEF Graph!Resolved
    <3> QED BY <1>2, <1>5, <3>2, <3>3, <3>4
  <2> QED BY <2>2, <2>3
<1> QED BY <1>6, <1>7

(* The places of a declaration are finitely many.                          *)
LEMMA DeclaredIsFinite ==
    ASSUME NEW facts, FactsGiven(facts), NEW path, NEW name
    PROVE  IsFiniteSet(Graph!Declared(facts, path, name))
<1> DEFINE Of == [i \in DOMAIN facts |-> {i} \X DOMAIN facts[i].symbols]
           R == {Of[i] : i \in DOMAIN facts}
<1>1. PICK S : facts \in Seq(S)
  BY DEF FactsGiven, ASeq
<1>2. \A n \in Nat : IsFiniteSet(1 .. n)
  <2>1. \A n \in Nat : 1 \in Int /\ n \in Int
    OBVIOUS
  <2> QED BY <2>1, FS_Interval
<1>3. IsFiniteSet(DOMAIN facts)
  BY <1>1, <1>2
<1>4. ASSUME NEW i \in DOMAIN facts PROVE IsFiniteSet(Of[i])
  <2>1. PICK T : facts[i].symbols \in Seq(T)
    BY DEF FactsGiven, ASeq
  <2>2. IsFiniteSet(DOMAIN facts[i].symbols)
    BY <1>2, <2>1
  <2>3. IsFiniteSet({i} \X DOMAIN facts[i].symbols)
    BY <2>2, FS_Singleton, FS_Product
  <2> QED BY <2>3
<1>5. IsFiniteSet(R)
  <2>1. Of \in Surjection(DOMAIN facts, R)
    BY DEF Surjection
  <2> HIDE DEF Of
  <2> QED BY <1>3, <2>1, FS_Surjection
<1>6. Graph!Declared(facts, path, name) \subseteq UNION R
  BY DEF Graph!Declared
<1>7. \A s \in R : IsFiniteSet(s)
  BY <1>4
<1> HIDE DEF R
<1>8. IsFiniteSet(UNION R)
  BY <1>5, <1>7, FS_UNION
<1> QED BY <1>6, <1>8, FS_Subset

(* A sequence and the same backwards.                                      *)
LEMMA ReversedPlaces ==
    ASSUME NEW facts, ASeq(facts), NEW back, back = Graph!Reverse(facts)
    PROVE  /\ ASeq(back) /\ DOMAIN back = DOMAIN facts
           /\ \A i \in DOMAIN facts : /\ Len(facts) + 1 - i \in DOMAIN facts
                                      /\ Len(facts) + 1 - (Len(facts) + 1 - i) = i
                                      /\ back[i] = facts[Len(facts) + 1 - i]
           /\ facts = Graph!Reverse(back)
<1>1. PICK S : facts \in Seq(S)
  BY DEF ASeq
<1> DEFINE n == Len(facts)
<1>2. n \in Nat /\ DOMAIN facts = 1 .. n /\ facts = [i \in 1 .. n |-> facts[i]]
  BY <1>1
<1>3. back = [i \in 1 .. n |-> facts[(n - i) + 1]]
  BY DEF Graph!Reverse
<1>4. \A i \in 1 .. n : /\ (n - i) + 1 \in 1 .. n /\ (n - i) + 1 = n + 1 - i
                        /\ n + 1 - (n + 1 - i) = i /\ (n - ((n - i) + 1)) + 1 = i
  BY <1>2
<1>5. back \in Seq(S) /\ DOMAIN back = 1 .. n /\ Len(back) = n
  <2>1. back \in [1 .. n -> S]
    BY <1>1, <1>3, <1>4
  <2> QED BY <1>2, <1>3, <2>1
<1> HIDE DEF n
<1>6. \A i \in 1 .. n : back[i] = facts[(n - i) + 1]
  BY <1>3
<1>7. facts = [i \in 1 .. n |-> back[(n - i) + 1]]
  BY <1>2, <1>4, <1>6
<1>8. facts = Graph!Reverse(back)
  BY <1>5, <1>7 DEF Graph!Reverse
<1> QED BY <1>2, <1>4, <1>5, <1>6, <1>8 DEF ASeq, n

(* Backwards, as much is declared.                                         *)
LEMMA ReversedCount ==
    ASSUME NEW facts, FactsGiven(facts), NEW back, back = Graph!Reverse(facts), NEW path, NEW name
    PROVE  Graph!Count(back, path, name) = Graph!Count(facts, path, name)
<1> DEFINE n == Len(facts)
           A == Graph!Declared(facts, path, name)
           B == Graph!Declared(back, path, name)
           turn == [w \in A |-> <<n + 1 - w[1], w[2]>>]
<1>1. /\ DOMAIN back = DOMAIN facts
      /\ \A i \in DOMAIN facts : /\ n + 1 - i \in DOMAIN facts
                                 /\ n + 1 - (n + 1 - i) = i
                                 /\ back[i] = facts[n + 1 - i]
  BY ReversedPlaces DEF FactsGiven
<1>2. DOMAIN facts \subseteq Nat /\ n \in Nat
  <2>1. PICK S : facts \in Seq(S)
    BY DEF FactsGiven, ASeq
  <2> QED BY <2>1
<1> HIDE DEF n
<1>3. \A i, k : <<i, k>> \in A <=> /\ i \in DOMAIN facts /\ k \in DOMAIN facts[i].symbols
                                   /\ facts[i].path = path /\ facts[i].symbols[k] = name
  BY DEF Graph!Declared
<1>4. \A i, k : <<i, k>> \in B <=> /\ i \in DOMAIN back /\ k \in DOMAIN back[i].symbols
                                   /\ back[i].path = path /\ back[i].symbols[k] = name
  BY DEF Graph!Declared
<1>5. /\ \A w \in A : w = <<w[1], w[2]>> /\ w[1] \in DOMAIN facts
      /\ \A w \in B : w = <<w[1], w[2]>> /\ w[1] \in DOMAIN back
  BY DEF Graph!Declared
<1>6. IsFiniteSet(A)
  BY DeclaredIsFinite
<1>7. \A w \in A : turn[w] = <<n + 1 - w[1], w[2]>>
  OBVIOUS
<1>8. DOMAIN turn = A
  OBVIOUS
<1> HIDE DEF A, B
<1>9. \A w \in A : turn[w] \in B
  <2> TAKE w \in A
  <2>1. <<w[1], w[2]>> \in A /\ w[1] \in DOMAIN facts
    BY <1>5
  <2>2. back[n + 1 - w[1]] = facts[w[1]] /\ n + 1 - w[1] \in DOMAIN back
    BY <1>1, <2>1
  <2>3. <<n + 1 - w[1], w[2]>> \in B
    BY <1>3, <1>4, <2>1, <2>2
  <2> QED BY <1>7, <2>3
<1>10. turn \in [A -> B]
  BY <1>9
<1>11. \A v, w \in A : turn[v] = turn[w] => v = w
  <2> TAKE v, w \in A
  <2> HAVE turn[v] = turn[w]
  <2>1. <<n + 1 - v[1], v[2]>> = <<n + 1 - w[1], w[2]>>
    BY <1>7
  <2>2. n + 1 - v[1] = n + 1 - w[1] /\ v[2] = w[2]
    BY <2>1
  <2>3. v[1] \in Nat /\ w[1] \in Nat
    BY <1>2, <1>5
  <2>4. v[1] = w[1]
    BY <1>2, <2>2, <2>3
  <2> QED BY <1>5, <2>2, <2>4
<1>12. \A x \in B : \E w \in A : turn[w] = x
  <2> TAKE x \in B
  <2>1. <<x[1], x[2]>> \in B /\ x = <<x[1], x[2]>> /\ x[1] \in DOMAIN facts
    BY <1>1, <1>5
  <2>2. back[x[1]] = facts[n + 1 - x[1]] /\ n + 1 - x[1] \in DOMAIN facts /\ n + 1 - (n + 1 - x[1]) = x[1]
    BY <1>1, <2>1
  <2>3. <<n + 1 - x[1], x[2]>> \in A
    BY <1>3, <1>4, <2>1, <2>2
  <2>4. turn[<<n + 1 - x[1], x[2]>>] = x
    BY <1>7, <2>1, <2>2, <2>3
  <2> QED BY <2>3, <2>4
<1> HIDE DEF turn
<1>13. turn \in Bijection(A, B)
  BY <1>10, <1>11, <1>12 DEF Bijection, Injection, Surjection, IsInjective
<1>14. Cardinality(B) = Cardinality(A)
  BY <1>6, <1>13, FS_Bijection DEF ExistsBijection
<1> QED BY <1>14 DEF A, B, Graph!Count, Graph!Cardinality, Cardinality

(* A file resolves to the same, wherever it is in the walk.                *)
LEMMA SamePlaceSameEdges ==
    ASSUME NEW facts, NEW back, NEW i, NEW j, back[j] = facts[i], NEW files,
           \A path, name : Graph!Count(back, path, name) = Graph!Count(facts, path, name)
    PROVE  Graph!EdgesOf(back, j, files) = Graph!EdgesOf(facts, i, files)
<1>1. \A path, name : Graph!Declares(back, path, name) = Graph!Declares(facts, path, name)
  BY DEF Graph!Declares
<1>2. \A path, name : Graph!In(back, path, name) = Graph!In(facts, path, name)
  BY <1>1 DEF Graph!In
<1>3. \A name : Graph!Bound(back, j, files, name) = Graph!Bound(facts, i, files, name)
  BY DEF Graph!Bound
<1>4. \A q, name : Graph!_resolve_type_reference(back, j, files, q, name)
                   = Graph!_resolve_type_reference(facts, i, files, q, name)
  BY <1>1, <1>2, <1>3 DEF Graph!_resolve_type_reference
<1>5. \A rel : Graph!Called(back, j, files, rel) = Graph!Called(facts, i, files, rel)
  BY <1>2, <1>3 DEF Graph!Called
<1>6. \A rel : Graph!_resolve_relationship(back, j, files, rel) = Graph!_resolve_relationship(facts, i, files, rel)
  BY <1>2, <1>4, <1>5 DEF Graph!_resolve_relationship
<1>7. \A rel : Graph!Resolved(back, j, files, rel) = Graph!Resolved(facts, i, files, rel)
  BY <1>6 DEF Graph!Resolved
<1> QED BY <1>7 DEF Graph!EdgesOf

(* graph.py: walked backwards, the same files have the same edges.         *)
THEOREM WalkOrderDoesNotMatter ==
    ASSUME NEW facts, FactsGiven(facts)
    PROVE  Graph!WalkOrderIsIrrelevant(facts)
<1> DEFINE back == Graph!Reverse(facts)
           n == Len(facts)
<1>1. /\ DOMAIN back = DOMAIN facts
      /\ \A i \in DOMAIN facts : /\ n + 1 - i \in DOMAIN facts
                                 /\ n + 1 - (n + 1 - i) = i
                                 /\ back[i] = facts[n + 1 - i]
  BY ReversedPlaces DEF FactsGiven
<1>2. \A path, name : Graph!Count(back, path, name) = Graph!Count(facts, path, name)
  BY ReversedCount
<1> HIDE DEF back, n
<1>3. Graph!Paths(back) = Graph!Paths(facts)
  <2>1. Graph!Paths(back) \subseteq Graph!Paths(facts)
    BY <1>1 DEF Graph!Paths
  <2>2. ASSUME NEW i \in DOMAIN facts PROVE facts[i].path \in Graph!Paths(back)
    <3>1. n + 1 - i \in DOMAIN back /\ back[n + 1 - i] = facts[i]
      BY <1>1
    <3> QED BY <3>1 DEF Graph!Paths
  <2> QED BY <2>1, <2>2 DEF Graph!Paths
<1> DEFINE files == Graph!Paths(facts)
           Of(i) == Graph!EdgesOf(facts, i, files)
           Back(i) == Graph!EdgesOf(back, i, files)
<1>4. \A i \in DOMAIN facts : Back(i) = Of(n + 1 - i) /\ Back(n + 1 - i) = Of(i)
  BY <1>1, <1>2, SamePlaceSameEdges
<1>5. /\ Graph!_resolve_all(facts) = UNION {Of(i) : i \in DOMAIN facts}
      /\ Graph!_resolve_all(back) = UNION {Back(i) : i \in DOMAIN facts}
  BY <1>1, <1>3 DEF Graph!_resolve_all, Graph!AllFiles
<1> HIDE DEF Of, Back
<1>6. UNION {Back(i) : i \in DOMAIN facts} = UNION {Of(i) : i \in DOMAIN facts}
  BY <1>1, <1>4
<1> QED BY <1>5, <1>6 DEF Graph!WalkOrderIsIrrelevant, back

(* symbols.py, graph.py: of files with a path of their own each, the graph *)
(* knows none that the index could not read.                               *)
THEOREM GraphStaysInTheIndex ==
    ASSUME NEW files, \A f, g \in files : f.path = g.path => f = g
    PROVE  Graph!GraphHasNoMoreThanTheIndex(files)
<1> DEFINE graph == Graph!build_dependency_graph_with_facts(files)
           index == Graph!build_symbol_index_with_facts(files)
<1>1. /\ \A f \in graph.facts : f \in files /\ Graph!Fate(f, {"symbols", "relationships"}) = "facts"
      /\ graph.skipped = {f.language : f \in {g \in files : Graph!Fate(g, {"symbols", "relationships"}) = "language_skipped"}}
  BY DEF Graph!build_dependency_graph_with_facts, Graph!Walked
<1>2. /\ index.parse_failures = {f.path : f \in {g \in files : Graph!Fate(g, {"symbols"}) = "parse_failure"}}
      /\ index.skipped = {f.language : f \in {g \in files : Graph!Fate(g, {"symbols"}) = "language_skipped"}}
  BY DEF Graph!build_symbol_index_with_facts, Graph!Walked
<1> HIDE DEF graph, index
<1>3. \A f : Graph!Fate(f, {"symbols", "relationships"}) = "facts" => Graph!Fate(f, {"symbols"}) # "parse_failure"
  BY DEF Graph!Fate
<1>4. \A f : Graph!Fate(f, {"symbols", "relationships"}) = "language_skipped"
             <=> Graph!Fate(f, {"symbols"}) = "language_skipped"
  BY DEF Graph!Fate
<1>5. {f.path : f \in graph.facts} \intersect index.parse_failures = {}
  BY <1>1, <1>2, <1>3
<1>6. graph.skipped = index.skipped
  BY <1>1, <1>2, <1>4
<1> QED BY <1>5, <1>6 DEF Graph!GraphHasNoMoreThanTheIndex, graph, index
-----------------------------------------------------------------------------
(* tiered_collapse.py: however the files import one another, the context   *)
(* shows every readable file around the focal one once, the focal file     *)
(* whole, and writes out a type only if a signature that is shown refers   *)
(* to it.                                                                  *)
THEOREM ContextIsTheNeighbourhood ==
    ASSUME NEW sources, NEW entries, Imports(entries), NEW focal
    PROVE  Graph!ContextCoversTheNeighbourhood(sources, entries, focal)
<1> DEFINE hops == Graph!compute_hop_distances(entries, focal, Graph!DEFAULT_MAX_HOPS)
           context == Graph!render_tiered_context(sources, entries, focal)
           At(hop) == {f \in DOMAIN hops : hops[f] = hop /\ sources[f].readable}
           near == {Graph!_signatures_tier(f, sources[f]) : f \in At(1)}
           naming == {r \in near : sources[r.path].language = "python" /\ ~r.fallback}
           referenced == UNION {Graph!_collect_referenced_type_names(sources[r.path]) : r \in naming}
           far == {f \in At(2) : sources[f].language = "python" /\ sources[f].parses}
           focus == {Graph!_focus_tier(f) : f \in At(0)}
           outlined == {Graph!_outline_tier(f, 2, sources[f]) : f \in At(2)}
           written == UNION {Graph!_render_python_outline(sources[f], referenced) : f \in far}
           signed == {r \in context.files : r.tier = "signatures" /\ r.content = "signatures"}
<1>1. \A f \in DOMAIN hops : hops[f] \in 0 .. 2 /\ (hops[f] = 0 <=> f = focal)
  <2>1. Graph!DEFAULT_MAX_HOPS = 2
    BY DEF Graph!DEFAULT_MAX_HOPS
  <2>2. PICK s : hops = s.distances /\ \E n \in Nat : Searching(entries, focal, 2, n, s)
    BY <2>1, SearchEnds
  <2>3. Met(entries, focal, 2, hops, s.frontier)
    BY <2>2 DEF Searching
  <2> HIDE DEF hops
  <2> QED BY <2>3 DEF Met
<1>2. context.files = focus \union near \union outlined /\ context.preserved_types = written
  BY DEF Graph!render_tiered_context
<1> HIDE DEF hops
<1>3. \A f : /\ Graph!_focus_tier(f).path = f /\ Graph!_focus_tier(f).hop = 0
             /\ Graph!_focus_tier(f).content = "full"
  BY DEF Graph!_focus_tier, Graph!Shown
<1>4. \A f : LET r == Graph!_signatures_tier(f, sources[f])
             IN  /\ r.path = f /\ r.hop = 1 /\ r.tier = "signatures"
                 /\ r.content = "full" => r.fallback
                 /\ ~r.fallback => r.content = "signatures" /\ sources[f].parses
  BY DEF Graph!_signatures_tier, Graph!Shown
<1>5. \A f : LET r == Graph!_outline_tier(f, 2, sources[f])
             IN  r.path = f /\ r.hop = 2 /\ (r.content = "full" => r.fallback)
  BY DEF Graph!_outline_tier, Graph!Shown
<1>6. \A r : r \in context.files <=> \/ \E f \in At(0) : r = Graph!_focus_tier(f)
                                     \/ \E f \in At(1) : r = Graph!_signatures_tier(f, sources[f])
                                     \/ \E f \in At(2) : r = Graph!_outline_tier(f, 2, sources[f])
  BY <1>2
<1>7. {r.path : r \in context.files} = {f \in DOMAIN hops : sources[f].readable}
  <2>1. ASSUME NEW f \in DOMAIN hops, sources[f].readable PROVE \E r \in context.files : r.path = f
    <3>1. f \in At(0) \/ f \in At(1) \/ f \in At(2)
      BY <1>1, <2>1
    <3> QED BY <1>3, <1>4, <1>5, <1>6, <3>1
  <2>2. ASSUME NEW r \in context.files PROVE r.path \in DOMAIN hops /\ sources[r.path].readable
    BY <1>3, <1>4, <1>5, <1>6
  <2> QED BY <2>1, <2>2
<1>8. ASSUME NEW r \in context.files
      PROVE  /\ r.hop = hops[r.path]
             /\ r.path = focal => r.content = "full"
             /\ r.content = "full" => r.path = focal \/ r.fallback
  <2>1. CASE \E f \in At(0) : r = Graph!_focus_tier(f)
    BY <1>1, <1>3, <2>1
  <2>2. CASE \E f \in At(1) : r = Graph!_signatures_tier(f, sources[f])
    BY <1>1, <1>4, <2>2
  <2>3. CASE \E f \in At(2) : r = Graph!_outline_tier(f, 2, sources[f])
    BY <1>1, <1>5, <2>3
  <2> QED BY <1>6, <2>1, <2>2, <2>3
<1>9. context.preserved_types \subseteq UNION {sources[r.path].refers : r \in signed}
  <2>1. written \subseteq referenced
    BY DEF Graph!_render_python_outline
  <2>2. ASSUME NEW r \in naming
        PROVE  r \in signed /\ Graph!_collect_referenced_type_names(sources[r.path]) = sources[r.path].refers
    <3>1. PICK f \in At(1) : r = Graph!_signatures_tier(f, sources[f])
      OBVIOUS
    <3>2. r.path = f /\ r.tier = "signatures" /\ r.content = "signatures" /\ sources[f].parses
      BY <1>4, <2>2, <3>1
    <3>3. r \in context.files
      BY <1>6, <3>1
    <3> QED BY <3>2, <3>3 DEF Graph!_collect_referenced_type_names
  <2>3. referenced \subseteq UNION {sources[r.path].refers : r \in signed}
    <3> HIDE DEF naming, signed
    <3> QED BY <2>2
  <2> QED BY <1>2, <2>1, <2>3
<1> QED BY <1>7, <1>8, <1>9 DEF Graph!ContextCoversTheNeighbourhood, hops

LEMMA EntriesAreFinite == Imports(Entries)
<1>1. IsFiniteSet(1 .. 3) /\ IsFiniteSet(1 .. 4)
  <2>1. 1 \in Int /\ 3 \in Int /\ 4 \in Int
    OBVIOUS
  <2> QED BY <2>1, FS_Interval
<1>2. DOMAIN Entries = 1 .. 3
  BY DEF Entries
<1>3. ASSUME NEW f \in 1 .. 3 PROVE IsFiniteSet(Entries[f].imported_files)
  <2>1. Entries[f].imported_files \subseteq 1 .. 4
    BY DEF Entries, GraphFiles
  <2> QED BY <1>1, <2>1, FS_Subset
<1> QED BY <1>1, <1>2, <1>3 DEF Imports

(* repo_profile/graph.py, graph_distance.py, tiered_collapse.py: whatever  *)
(* was walked, the graph leads only where the files say and does not       *)
(* depend on the walk; and whatever files import one another, each file    *)
(* around the focal one has its distance and its tier.                     *)
THEOREM GraphIsAlwaysTrue ==
    ASSUME family = "facts" => FactsGiven(input),
           family = "walked" => \A i, j \in DOMAIN input : input[i].path = input[j].path => input[i] = input[j]
    PROVE  GraphIsTrue
<1>1. ASSUME family = "walked" PROVE Graph!GraphHasNoMoreThanTheIndex(Graph!ToSet(input))
  <2>1. \A f, g \in Graph!ToSet(input) : f.path = g.path => f = g
    BY <1>1 DEF Graph!ToSet
  <2> QED BY <2>1, GraphStaysInTheIndex
<1>2. \A focal : Graph!HopsAreShortest(Entries, focal, 2) /\ Graph!HopsAreShortest(Entries, focal, 3)
  BY EntriesAreFinite, DistancesAreShortest
<1>3. \A focal, sources : Graph!ContextCoversTheNeighbourhood(sources, Entries, focal)
  BY EntriesAreFinite, ContextIsTheNeighbourhood
<1>4. ASSUME family = "facts"
      PROVE  Graph!EdgesAreTrue(input, Graph!_resolve_all(input)) /\ Graph!WalkOrderIsIrrelevant(input)
  BY <1>4, EdgesLeadWhereFilesSay, WalkOrderDoesNotMatter
<1>5. ToSet(input) = Graph!ToSet(input)
  BY DEF ToSet, Graph!ToSet
<1> QED BY <1>1, <1>2, <1>3, <1>4, <1>5 DEF GraphIsTrue
=============================================================================
