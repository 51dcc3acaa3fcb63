--------------------------- MODULE RepoIntelCache ---------------------------
(***************************************************************************)
(* The repository intelligence cache of quor/pipeline/repo_profile:        *)
(* ensure_repo_intelligence() of intel.py with the diff of intel_diff.py   *)
(* and the five files of intel_store.py.                                   *)
(*                                                                         *)
(* Several processes may call it for one repository at once, and there is  *)
(* no lock: each cache file is replaced atomically (write_json_atomic), so *)
(* a read or a write of one file is an action, and so is each visit of a   *)
(* repository file by one of the loops.  Meanwhile the repository is       *)
(* edited, a builder dies, cache files are damaged or evicted.             *)
(*                                                                         *)
(* Paths are numbers, in the order in which a sorted walk meets them.      *)
(* None stands for whatever is not there: a file, a fingerprint, facts, a  *)
(* cache file; a cache file that does not load, or is of another version,  *)
(* is like one that is not there.  Failed stands for a parse failure.      *)
(***************************************************************************)
EXTENDS Integers, FiniteSets, FiniteSetsExt

CONSTANTS
    Builders,       \* processes that call ensure_repo_intelligence()
    NumPaths,       \* repository paths are 1 .. NumPaths
    Contents,       \* what a file may hold
    Broken,         \* the contents no extractor parses
    Language,       \* [1 .. NumPaths -> languages and None]: None for a path
                    \* that is not indexed (by extension, vendor or generated)
    None, Failed,
    Repositories,   \* the repositories to start from
    MaxEdits,       \* bound on the changes of the repository
    MaxCalls,       \* bound on the calls
    MaxTroubles     \* bound on crashes, damaged cache files and changes under
                    \* a builder taken together

Paths == 1 .. NumPaths

Fingerprints == [stamp : 1 .. NumPaths + MaxEdits, content : Contents]

ASSUME CacheAssumption ==
    /\ NumPaths \in Nat \ {0}
    /\ Broken \subseteq Contents
    /\ None \notin Contents \union Fingerprints
    /\ Repositories \subseteq [Paths -> Contents \union {None}]
    /\ MaxEdits \in Nat /\ MaxCalls \in Nat /\ MaxTroubles \in Nat

Files == {"state", "profile", "symbols", "graph", "intel"}

VARIABLES
    repo,       \* the content of each path
    stamp,      \* its size and mtime: no two writes give the same, 0 if absent
    disk,       \* the five cache files
    pc,         \* where each builder is
    own,        \* what each builder holds in memory
    calm,       \* observer: the builder ran alone and undisturbed so far
    sound,      \* observer: no call was cut or disturbed since the last
                \* full rebuild that ran alone and undisturbed
    apart,      \* observer: no two calls overlapped since then
    edits, calls, troubles

bounds == <<edits, calls, troubles>>
vars == <<repo, stamp, disk, pc, own, calm, sound, apart, edits, calls, troubles>>

Stages == {"idle", "load_profile", "load_symbols", "load_graph", "walk", "diff",
           "build_profile", "parse", "fingerprint", "save_state", "save_profile",
           "save_symbols", "save_graph", "check_intel", "save_intel", "done"}
-----------------------------------------------------------------------------
Nothing == [x \in Paths |-> None]

Fingerprint(x) == [stamp |-> stamp[x], content |-> repo[x]]

(* _extract_combined_facts, with the tests its callers make before it: a   *)
(* file that cannot be read or parsed is a failure.  The facts of a path   *)
(* depend on its language, that is on its name, and on its content.        *)
Extracted(x, c) ==
    IF Language[x] = None THEN None
    ELSE IF c \in Broken \union {None} THEN Failed
    ELSE [content |-> c, language |-> Language[x]]

Readable(f) == disk[f] # None

AllIdle == \A b \in Builders : pc[b] = "idle"

(* What _full_rebuild starts with. *)
FromScratch ==
    [full |-> TRUE, walk |-> {}, todo |-> {}, prev |-> Nothing, fps |-> Nothing,
     profile |-> Nothing, symbols |-> Nothing, graph |-> Nothing]

Goto(b, stage) == pc' = [pc EXCEPT ![b] = stage]

Keep(b, l) == own' = [own EXCEPT ![b] = l]

NextFile(b) == Min(own[b].todo)

(* The RepoDiff of a builder that has fingerprinted what it walked.        *)
Added(l) == {x \in Paths : l.prev[x] = None /\ l.fps[x] # None}

Modified(l) ==
    {x \in Paths : /\ l.prev[x] # None
                   /\ l.fps[x] # None
                   /\ l.prev[x].content # l.fps[x].content}

Gone(l) == {x \in Paths : l.prev[x] # None /\ x \notin l.walk}

(* A deleted and an added path of one content are a rename: the first      *)
(* deleted path of a content with the first added one, and so on.          *)
Renamed(l) ==
    {p \in Gone(l) \X Added(l) :
        LET c == l.fps[p[2]].content
        IN  /\ l.prev[p[1]].content = c
            /\ Cardinality({x \in Gone(l) : x < p[1] /\ l.prev[x].content = c}) =
               Cardinality({y \in Added(l) : y < p[2] /\ l.fps[y].content = c})}

Reextracted(l) == (Added(l) \ {p[2] : p \in Renamed(l)}) \union Modified(l)

EmptyDiff(l) == Added(l) = {} /\ Modified(l) = {} /\ Gone(l) = {}

(* A slip: the entry of a renamed file is dropped with the old path. *)
RelocateNothing(l, facts) ==
    [x \in Paths |-> IF x \in Gone(l) THEN None ELSE facts[x]]

(* The deletions and renames of _refresh_combined_facts: the facts of a    *)
(* renamed file move along and are not parsed again.                       *)
Relocate(l, facts) ==
    [x \in Paths |->
        IF x \in Gone(l) THEN None
        ELSE IF \E o \in Gone(l) : <<o, x>> \in Renamed(l) /\ facts[o] # None
        THEN facts[CHOOSE o \in Gone(l) : <<o, x>> \in Renamed(l)]
        ELSE facts[x]]

(* What an entry of file_intelligence.json takes from a table: a file that *)
(* failed to parse is one without facts.                                   *)
Known(fact) == IF fact = Failed THEN None ELSE fact

(* file_intelligence.json: for every file of the walk what both tables say *)
(* of it, with the stamp it was fingerprinted at.                          *)
Intelligence(l) ==
    [x \in Paths |->
        IF x \notin l.walk THEN None
        ELSE [symbols |-> Known(l.symbols[x]), graph |-> Known(l.graph[x]),
              stamp |-> IF l.fps[x] = None THEN None ELSE l.fps[x].stamp]]
-----------------------------------------------------------------------------
Init ==
    /\ repo \in Repositories
    /\ stamp = [x \in Paths |-> IF repo[x] = None THEN 0 ELSE x]
    /\ disk = [f \in Files |-> None]
    /\ pc = [b \in Builders |-> "idle"]
    /\ own = [b \in Builders |-> FromScratch]
    /\ calm = [b \in Builders |-> FALSE]
    /\ sound = TRUE
    /\ apart = TRUE
    /\ edits = 0 /\ calls = 0 /\ troubles = 0

(* ensure_repo_intelligence(root, rebuild): state.json decides between a   *)
(* full rebuild and a refresh.                                             *)
Begin(b, rebuild) ==
    /\ pc[b] = "idle"
    /\ calls < MaxCalls
    /\ calls' = calls + 1
    /\ calm' = [a \in Builders |-> a = b /\ AllIdle]
    /\ apart' = (apart /\ AllIdle)
    /\ IF rebuild \/ ~Readable("state")
       THEN Goto(b, "walk") /\ Keep(b, FromScratch)
       ELSE /\ Goto(b, "load_profile")
            /\ Keep(b, [FromScratch EXCEPT !.full = FALSE, !.prev = disk["state"]])
    /\ UNCHANGED <<repo, stamp, disk, sound, edits, troubles>>

(* _refresh_from_cache loads three files, and one of them missing or       *)
(* corrupt makes it a full rebuild.                                        *)
Load(b, stage, f, loaded, next) ==
    /\ pc[b] = stage
    /\ IF Readable(f)
       THEN Goto(b, next) /\ Keep(b, loaded)
       ELSE Goto(b, "walk") /\ Keep(b, FromScratch)
    /\ UNCHANGED <<repo, stamp, disk, calm, sound, apart, bounds>>

LoadProfile(b) ==
    Load(b, "load_profile", "profile", [own[b] EXCEPT !.profile = disk["profile"]], "load_symbols")
LoadSymbols(b) ==
    Load(b, "load_symbols", "symbols", [own[b] EXCEPT !.symbols = disk["symbols"]], "load_graph")
LoadGraph(b) ==
    Load(b, "load_graph", "graph", [own[b] EXCEPT !.graph = disk["graph"]], "walk")

(* walk_repository: the files there are. *)
Walk(b) ==
    LET there == {x \in Paths : repo[x] # None}
    IN  /\ pc[b] = "walk"
        /\ Keep(b, [own[b] EXCEPT !.walk = there,
                                  !.todo = IF own[b].full THEN {} ELSE there])
        /\ Goto(b, IF own[b].full THEN "build_profile" ELSE "diff")
        /\ UNCHANGED <<repo, stamp, disk, calm, sound, apart, bounds>>

(* A slip: a fingerprint, once taken, is kept. *)
KeepFingerprint(l, x) == IF l.prev[x] # None THEN l.prev[x] ELSE Fingerprint(x)

(* One file of diff_repository: the old fingerprint when size and mtime    *)
(* are the same, a new hash otherwise.                                     *)
NewFingerprint(l, x) ==
    IF l.prev[x] # None /\ l.prev[x].stamp = stamp[x] THEN l.prev[x] ELSE Fingerprint(x)

DiffFile(b) ==
    LET x == NextFile(b)
    IN  /\ pc[b] = "diff"
        /\ own[b].todo # {}
        /\ Keep(b, [own[b] EXCEPT !.todo = @ \ {x},
                                  !.fps[x] = IF repo[x] = None THEN None
                                             ELSE NewFingerprint(own[b], x)])
        /\ UNCHANGED <<repo, stamp, disk, pc, calm, sound, apart, bounds>>

Diffed(b) ==
    /\ pc[b] = "diff"
    /\ own[b].todo = {}
    /\ Goto(b, IF EmptyDiff(own[b]) THEN "save_state" ELSE "build_profile")
    /\ UNCHANGED <<repo, stamp, disk, own, calm, sound, apart, bounds>>

(* build_profile reads the whole repository; then the facts of deleted and *)
(* renamed files are put right and the files to parse are lined up.        *)
BuildProfile(b) ==
    LET l == own[b]
    IN  /\ pc[b] = "build_profile"
        /\ Keep(b, [l EXCEPT
                      !.profile = [x \in Paths |-> IF x \in l.walk THEN repo[x] ELSE None],
                      !.symbols = IF l.full THEN l.symbols ELSE Relocate(l, l.symbols),
                      !.graph = IF l.full THEN l.graph ELSE Relocate(l, l.graph),
                      !.todo = IF l.full THEN l.walk ELSE Reextracted(l)])
        /\ Goto(b, "parse")
        /\ UNCHANGED <<repo, stamp, disk, calm, sound, apart, bounds>>

(* One file of _build_combined_facts or of _refresh_combined_facts: one    *)
(* read serves both tables.                                                *)
ParseFile(b) ==
    LET x == NextFile(b)
    IN  /\ pc[b] = "parse"
        /\ own[b].todo # {}
        /\ Keep(b, [own[b] EXCEPT !.todo = @ \ {x},
                                  !.symbols[x] = Extracted(x, repo[x]),
                                  !.graph[x] = Extracted(x, repo[x])])
        /\ UNCHANGED <<repo, stamp, disk, pc, calm, sound, apart, bounds>>

(* A full rebuild fingerprints what it walked only now. *)
Parsed(b) ==
    /\ pc[b] = "parse"
    /\ own[b].todo = {}
    /\ IF own[b].full
       THEN Goto(b, "fingerprint") /\ Keep(b, [own[b] EXCEPT !.todo = own[b].walk])
       ELSE Goto(b, "save_state") /\ UNCHANGED own
    /\ UNCHANGED <<repo, stamp, disk, calm, sound, apart, bounds>>

FingerprintFile(b) ==
    LET x == NextFile(b)
    IN  /\ pc[b] = "fingerprint"
        /\ own[b].todo # {}
        /\ Keep(b, [own[b] EXCEPT !.todo = @ \ {x},
                                  !.fps[x] = IF repo[x] = None THEN None ELSE Fingerprint(x)])
        /\ UNCHANGED <<repo, stamp, disk, pc, calm, sound, apart, bounds>>

Fingerprinted(b) ==
    /\ pc[b] = "fingerprint"
    /\ own[b].todo = {}
    /\ Goto(b, "save_state")
    /\ UNCHANGED <<repo, stamp, disk, own, calm, sound, apart, bounds>>

(* write_json_atomic *)
Save(b, stage, f, value, next) ==
    /\ pc[b] = stage
    /\ disk' = [disk EXCEPT ![f] = value]
    /\ Goto(b, next)
    /\ UNCHANGED <<repo, stamp, own, calm, sound, apart, bounds>>

(* The state first, with the new fingerprints, and on a cache hit alone.   *)
SaveState(b) ==
    Save(b, "save_state", "state", own[b].fps,
         IF ~own[b].full /\ EmptyDiff(own[b]) THEN "check_intel" ELSE "save_profile")

SaveProfile(b) == Save(b, "save_profile", "profile", own[b].profile, "save_symbols")
SaveSymbols(b) == Save(b, "save_symbols", "symbols", own[b].symbols, "save_graph")
SaveGraph(b) == Save(b, "save_graph", "graph", own[b].graph, "save_intel")

(* A cache hit writes file_intelligence.json only where it does not load.  *)
CheckIntel(b) ==
    /\ pc[b] = "check_intel"
    /\ Goto(b, IF Readable("intel") THEN "done" ELSE "save_intel")
    /\ UNCHANGED <<repo, stamp, disk, own, calm, sound, apart, bounds>>

SaveIntel(b) == Save(b, "save_intel", "intel", Intelligence(own[b]), "done")

Finish(b) ==
    /\ pc[b] = "done"
    /\ Goto(b, "idle")
    /\ Keep(b, FromScratch)
    /\ sound' = (sound \/ (own[b].full /\ calm[b]))
    /\ apart' = (apart \/ (own[b].full /\ calm[b]))
    /\ calm' = [calm EXCEPT ![b] = FALSE]
    /\ UNCHANGED <<repo, stamp, disk, bounds>>

Build(b) ==
    \/ \E rebuild \in BOOLEAN : Begin(b, rebuild)
    \/ LoadProfile(b) \/ LoadSymbols(b) \/ LoadGraph(b)
    \/ Walk(b) \/ DiffFile(b) \/ Diffed(b) \/ BuildProfile(b)
    \/ ParseFile(b) \/ Parsed(b) \/ FingerprintFile(b) \/ Fingerprinted(b)
    \/ SaveState(b) \/ SaveProfile(b) \/ SaveSymbols(b) \/ SaveGraph(b)
    \/ CheckIntel(b) \/ SaveIntel(b) \/ Finish(b)

(* The process is killed, or a write of the cache raises.  Only between    *)
(* the first save and the last of the tables does that leave files behind  *)
(* that do not belong together.                                            *)
Crash(b) ==
    /\ pc[b] # "idle"
    /\ troubles < MaxTroubles
    /\ troubles' = troubles + 1
    /\ Goto(b, "idle")
    /\ Keep(b, FromScratch)
    /\ sound' = (sound /\ pc[b] \notin {"save_profile", "save_symbols", "save_graph"})
    /\ calm' = [calm EXCEPT ![b] = FALSE]
    /\ UNCHANGED <<repo, stamp, disk, apart, edits, calls>>
-----------------------------------------------------------------------------
(* The user and the tools the user runs.                                   *)

Change(newRepo, newStamp) ==
    /\ edits < MaxEdits
    /\ AllIdle \/ troubles < MaxTroubles
    /\ edits' = edits + 1
    /\ troubles' = IF AllIdle THEN troubles ELSE troubles + 1
    /\ repo' = newRepo
    /\ stamp' = newStamp
    /\ calm' = [b \in Builders |-> FALSE]
    /\ sound' = (sound /\ AllIdle)
    /\ UNCHANGED <<disk, pc, own, apart, calls>>

(* A file is created, changed, or written again with what it held. *)
Write(x, c) ==
    Change([repo EXCEPT ![x] = c], [stamp EXCEPT ![x] = NumPaths + edits + 1])

Delete(x) ==
    /\ repo[x] # None
    /\ Change([repo EXCEPT ![x] = None], [stamp EXCEPT ![x] = 0])

(* A rename keeps size and mtime. *)
Move(x, y) ==
    /\ x # y
    /\ repo[x] # None
    /\ Change([repo EXCEPT ![x] = None, ![y] = repo[x]],
              [stamp EXCEPT ![x] = 0, ![y] = stamp[x]])

(* A cache file is deleted, cut short or outdated by a new version, or the *)
(* retention pass has removed the directory.                               *)
Damage ==
    /\ troubles < MaxTroubles
    /\ troubles' = troubles + 1
    /\ \/ \E f \in Files : disk' = [disk EXCEPT ![f] = None]
       \/ disk' = [f \in Files |-> None]
    /\ UNCHANGED <<repo, stamp, pc, own, calm, sound, apart, edits, calls>>

Next ==
    \/ \E b \in Builders : Build(b) \/ Crash(b)
    \/ \E x \in Paths : Delete(x) \/ \E c \in Contents : Write(x, c)
    \/ \E x, y \in Paths : Move(x, y)
    \/ Damage

Spec == Init /\ [][Next]_vars
-----------------------------------------------------------------------------
Table(S) == [Paths -> S \union {None}]
Facts == [content : Contents, language : {Language[x] : x \in Paths}] \union {Failed}

(* What a builder may hold in memory. *)
Memories ==
    [full : BOOLEAN, walk : SUBSET Paths, todo : SUBSET Paths,
     prev : Table(Fingerprints), fps : Table(Fingerprints), profile : Table(Contents),
     symbols : Table(Facts), graph : Table(Facts)]

(* The types of the state. *)
TypeOK ==
    /\ repo \in Table(Contents)
    /\ stamp \in [Paths -> 0 .. NumPaths + MaxEdits]
    /\ disk = [f \in Files |-> disk[f]]
    /\ disk["state"] \in Table(Fingerprints) \union {None}
    /\ disk["profile"] \in Table(Contents) \union {None}
    /\ disk["symbols"] \in Table(Facts) \union {None}
    /\ disk["graph"] \in Table(Facts) \union {None}
    /\ pc \in [Builders -> Stages]
    /\ own \in [Builders -> Memories]
    /\ calm \in [Builders -> BOOLEAN]
    /\ sound \in BOOLEAN /\ apart \in BOOLEAN
    /\ edits \in 0 .. MaxEdits

(* What a builder is about to return is the repository as it is. *)
Current(l) ==
    /\ l.walk = {x \in Paths : repo[x] # None}
    /\ l.profile = repo
    /\ \A x \in l.walk : /\ l.symbols[x] = Extracted(x, repo[x])
                         /\ l.graph[x] = Extracted(x, repo[x])

(* The shorter claim of ensure_repo_intelligence() and _refresh_from_cache *)
(* ("treat the whole cache as unusable rather than returning a             *)
(* partially-stale RepoIntelligence"): a call that runs alone answers with *)
(* the repository as it is, whatever happened to earlier calls.            *)
NeverPartiallyStale ==
    \A b \in Builders : pc[b] = "done" /\ calm[b] => Current(own[b])

(* A call that runs alone answers with the repository as it is, whatever   *)
(* was edited, renamed, touched, damaged or evicted before, by whichever   *)
(* builders the cache was written, overlapping ones included; and after a  *)
(* call that was cut between its saves, or overtaken by an edit, one full  *)
(* rebuild makes it so again.                                              *)
AnswersAreCurrent ==
    \A b \in Builders :
        pc[b] = "done" /\ calm[b] /\ (sound \/ own[b].full) => Current(own[b])

(* At rest the facts are those of the fingerprinted contents, so that what *)
(* the next diff calls unchanged is what the tables describe.              *)
RestingCacheIsConsistent ==
    sound /\ AllIdle /\ Readable("state") =>
        LET fps == disk["state"]
            recorded == {x \in Paths : fps[x] # None}
        IN  /\ \A f \in {"symbols", "graph"} : Readable(f) =>
                  \A x \in recorded : disk[f][x] = Extracted(x, fps[x].content)
            /\ Readable("profile") =>
                  \A x \in Paths : disk["profile"][x] =
                                     IF x \in recorded THEN fps[x].content ELSE None

(* The context shown for a file comes from file_intelligence.json alone,   *)
(* at any time, and is left out when size or mtime are not those of the    *)
(* file (server.py: "stale cache entry ... omit rather than show           *)
(* possibly-wrong info").  What is shown is then true of the file, as long *)
(* as no two calls overlap: a cache hit that finds no                      *)
(* file_intelligence.json fills it from tables another call is about to    *)
(* replace, and gives it the new stamps.                                   *)
Shown(x) ==
    /\ repo[x] # None
    /\ Readable("intel")
    /\ disk["intel"][x] # None
    /\ disk["intel"][x].stamp = stamp[x]

ShownContextIsTrue ==
    sound /\ apart => \A x \in Paths : Shown(x) =>
        /\ disk["intel"][x].symbols = Known(Extracted(x, repo[x]))
        /\ disk["intel"][x].graph = Known(Extracted(x, repo[x]))
=============================================================================
