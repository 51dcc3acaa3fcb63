----------------------------- MODULE McpServer -----------------------------
(***************************************************************************)
(* The MCP server of quor/mcp: the launcher that repairs an environment it *)
(* cannot start in, the tool calls of a session with their cache of        *)
(* contents already shown, and the tracking database they share.           *)
(*                                                                         *)
(* A session is one process; its calls run in threads, the lookup in the   *)
(* cache and the update that follows it are two steps, and so are the      *)
(* checks around the lock of the tracking database.  A content stands for  *)
(* its digest.  `asked` (the contents in the order the cache was told; a   *)
(* miss that another thread recorded first does not refresh the entry),    *)
(* `shown`, `lost` (contents a call recorded and then failed on) and       *)
(* `built` are observers.                                                  *)
(***************************************************************************)
EXTENDS Integers, Sequences, FiniteSets, FiniteSetsExt, SequencesExt

CONSTANTS
    Threads,
    Contents,           \* digests of raw_text
    MaxSize,            \* DEFAULT_CACHE_SIZE
    Checkouts,          \* BOOLEAN subset: is this a checkout of the repository
    Uv,                 \* BOOLEAN subset: is there a uv on the path
    MaxCalls,           \* bound on the calls of a session
    NoContent, NoThread

ASSUME McpAssumption ==
    /\ MaxSize \in Nat /\ MaxSize >= 1 /\ MaxCalls \in Nat
    /\ NoContent \notin Contents /\ NoThread \notin Threads

VARIABLES
    server,             \* where launcher and server are
    importable,         \* the required modules can be imported
    candidates,         \* repair commands still to try
    seen,               \* SessionDedupCache._seen, least recently used first
    db,                 \* _tracking_db: none, open or closed
    lock,               \* holder of _tracking_db_lock
    pc, kind, text, hit, \* the call of each thread
    answer,             \* what the call will return
    calls, asked, shown, lost, built

launcher == <<server, importable, candidates>>
tracking == <<db, lock, built>>
dedup == <<seen, asked, shown, lost>>
call == <<kind, text, hit, answer>>
vars == <<server, importable, candidates, seen, db, lock, pc, kind, text, hit, answer,
          calls, asked, shown, lost, built>>

(* "context" stands for get_repo_context and for compress_context of a     *)
(* focal file, "resource" for the two resources and the prompt.            *)
Kinds == {"compress", "context", "resource"}

(* Where a thread is in its call, "idle" when it has none. *)
Steps == {"idle", "lookup", "note", "work", "track", "acquire", "locked", "build",
          "release", "return"}
-----------------------------------------------------------------------------
(* launcher.main: _check_imports, then the candidates of                   *)
(* _attempt_self_repair, none of them when the environment forbids it.     *)
Commands == {"pip install mcp", "uv sync", "pip install -e"}

RepairCommands(disabled, checkout, uv) ==
    IF disabled THEN <<>>
    ELSE IF ~checkout THEN <<"pip install mcp">>
    ELSE IF uv THEN <<"uv sync", "pip install -e">> ELSE <<"pip install -e">>

Init ==
    /\ server = "preflight" /\ importable \in BOOLEAN
    /\ \E disabled \in BOOLEAN, checkout \in Checkouts, uv \in Uv :
         candidates = RepairCommands(disabled, checkout, uv)
    /\ seen = <<>> /\ db = "none" /\ lock = NoThread
    /\ pc = [t \in Threads |-> "idle"] /\ kind = [t \in Threads |-> "compress"]
    /\ text = [t \in Threads |-> NoContent] /\ hit = [t \in Threads |-> FALSE]
    /\ answer = [t \in Threads |-> "none"]
    /\ calls = 0 /\ asked = <<>> /\ shown = {} /\ lost = {} /\ built = 0

CheckImports ==
    /\ server = "preflight"
    /\ server' = IF importable THEN "serving" ELSE "repair"
    /\ candidates' = IF importable THEN <<>> ELSE candidates
    /\ UNCHANGED <<importable, pc, call, calls, dedup, tracking>>

(* A slip: a command that exits 0 is believed. *)
ServedAfterBelieved(works) == "serving"

ServedAfter(works) == IF works THEN "serving" ELSE "repair"

(* One command: it fails or times out, or it exits 0 and the imports are   *)
(* checked again.                                                          *)
Repair ==
    /\ server = "repair" /\ candidates # <<>>
    /\ \/ candidates' = Tail(candidates) /\ UNCHANGED <<server, importable>>
       \/ \E works \in BOOLEAN :
            /\ importable' = works /\ server' = ServedAfter(works)
            /\ candidates' = IF ServedAfter(works) = "serving" THEN <<>> ELSE Tail(candidates)
    /\ UNCHANGED <<pc, call, calls, dedup, tracking>>

GiveUp ==
    /\ server = "repair" /\ candidates = <<>>
    /\ server' = "failed"
    /\ UNCHANGED <<importable, candidates, pc, call, calls, dedup, tracking>>
-----------------------------------------------------------------------------
Go(t, step) == pc' = [pc EXCEPT ![t] = step]

Answering(t, what, step) ==
    answer' = [answer EXCEPT ![t] = what] /\ Go(t, step)

(* compress_context of an empty text is answered at once and changes       *)
(* nothing.                                                                *)
Call(t) ==
    /\ server = "serving" /\ pc[t] = "idle" /\ calls < MaxCalls
    /\ calls' = calls + 1
    /\ \E k \in Kinds : kind' = [kind EXCEPT ![t] = k] /\
           IF k = "compress"
           THEN /\ \E d \in Contents : text' = [text EXCEPT ![t] = d]
                /\ Go(t, "lookup")
           ELSE UNCHANGED text /\ Go(t, "work")
    /\ UNCHANGED <<hit, answer, dedup, tracking, launcher>>

(* A key is in an OrderedDict once. *)
Without(s, d) == RemoveAt(s, CHOOSE i \in DOMAIN s : s[i] = d)

(* A slip: the oldest entry goes one entry too late. *)
InsertedOneMore(s, d) ==
    LET longer == IF d \in Range(s) THEN s ELSE Append(s, d)
    IN  IF Len(longer) > MaxSize + 1 THEN Tail(longer) ELSE longer

(* An insertion keeps the place of a key that is there already, and takes  *)
(* the oldest entry out when the limit is exceeded.                        *)
Inserted(s, d) ==
    LET longer == IF d \in Range(s) THEN s ELSE Append(s, d)
    IN  IF Len(longer) > MaxSize THEN Tail(longer) ELSE longer

Known(t) == text[t] \in Range(seen)

(* SessionDedupCache.seen(), first half. *)
Lookup(t) ==
    /\ pc[t] = "lookup"
    /\ hit' = [hit EXCEPT ![t] = Known(t)]
    /\ Go(t, "note")
    /\ UNCHANGED <<kind, text, answer, calls, dedup, tracking, launcher>>

(* Second half of a miss: the digest is on record from here on, whatever   *)
(* becomes of the call.                                                    *)
NoteMiss(t) ==
    /\ pc[t] = "note" /\ ~hit[t]
    /\ seen' = Inserted(seen, text[t])
    /\ asked' = IF text[t] \in Range(seen) THEN asked ELSE Append(asked, text[t])
    /\ Go(t, "work")
    /\ UNCHANGED <<call, calls, shown, lost, tracking, launcher>>

(* Second half of a hit.  Another thread may have evicted the digest:      *)
(* move_to_end raises and the call fails.                                  *)
NoteHit(t) ==
    /\ pc[t] = "note" /\ hit[t]
    /\ IF text[t] \in Range(seen)
       THEN /\ seen' = Append(Without(seen, text[t]), text[t])
            /\ asked' = Append(asked, text[t])
            /\ Answering(t, "marker", "track")
       ELSE UNCHANGED <<seen, asked>> /\ Answering(t, "error", "return")
    /\ UNCHANGED <<kind, text, hit, calls, shown, lost, tracking, launcher>>

(* A slip: the digest of an empty text is on record before the text is     *)
(* found to be empty.                                                      *)
OutcomesAfterEmpty == {"full", "error", "bailout"}

(* What a call may come to once its configuration and its data are read.   *)
(* "error" is an exception the client sees, a bailout an answer that is    *)
(* not recorded.  The two compressions resolve the configuration without a *)
(* guard, and reading it may fail twice.                                   *)
CompressOutcomes == {"full", "error"}

(* No repository intelligence, no entry, or the tiering failed.            *)
TieredOutcomes == {"full", "bailout", "error"}

ContextOutcomes == {"full", "bailout"}

(* The resources and the prompt report every failure in their answer.      *)
GainOutcomes == {"bailout"}
ConfigOutcomes == {"bailout"}
PromptOutcomes == {"bailout"}

Outcomes(k) ==
    CASE k = "compress" -> CompressOutcomes
      [] k = "context"  -> TieredOutcomes \union ContextOutcomes
      [] OTHER          -> GainOutcomes \union ConfigOutcomes \union PromptOutcomes

Tracked(k, a) == a \in {"full", "marker"}

Work(t) ==
    /\ pc[t] = "work"
    /\ \E a \in Outcomes(kind[t]) :
         /\ Answering(t, a, IF Tracked(kind[t], a) THEN "track" ELSE "return")
         /\ lost' = IF kind[t] = "compress" /\ a = "error" THEN lost \union {text[t]} ELSE lost
    /\ UNCHANGED <<kind, text, hit, calls, seen, asked, shown, tracking, launcher>>
-----------------------------------------------------------------------------
(* _get_tracking_db: a check without the lock, the lock, a second check.   *)
(* Recording itself and the retention pass after it are of TrackingDB and  *)
(* SharedState.                                                            *)
CheckDb(t) ==
    /\ pc[t] = "track"
    /\ Go(t, IF db = "none" THEN "acquire" ELSE "return")
    /\ UNCHANGED <<call, calls, dedup, tracking, launcher>>

Acquire(t) ==
    /\ pc[t] = "acquire" /\ lock = NoThread
    /\ lock' = t /\ Go(t, "locked")
    /\ UNCHANGED <<call, calls, db, built, dedup, launcher>>

(* A slip: no second check under the lock. *)
BuildsAlways == TRUE

Builds == db = "none"

Recheck(t) ==
    /\ pc[t] = "locked"
    /\ Go(t, IF Builds THEN "build" ELSE "release")
    /\ UNCHANGED <<call, calls, dedup, tracking, launcher>>

(* A slip: the lock is kept by a thread whose construction failed. *)
KeptBy(t) == t

FreedBy(t) == NoThread

(* get_tracking_db() builds it, or raises: the lock is free in both cases, *)
(* and the caller swallows the failure.                                    *)
Build(t) ==
    /\ pc[t] = "build"
    /\ \/ db' = "open" /\ built' = built + 1 /\ Go(t, "release") /\ UNCHANGED lock
       \/ lock' = FreedBy(t) /\ Go(t, "return") /\ UNCHANGED <<db, built>>
    /\ UNCHANGED <<call, calls, dedup, launcher>>

Release(t) ==
    /\ pc[t] = "release"
    /\ lock' = NoThread /\ Go(t, "return")
    /\ UNCHANGED <<call, calls, db, built, dedup, launcher>>

Return(t) ==
    /\ pc[t] = "return"
    /\ shown' = IF kind[t] = "compress" /\ answer[t] = "full" THEN shown \union {text[t]} ELSE shown
    /\ pc' = [pc EXCEPT ![t] = "idle"] /\ text' = [text EXCEPT ![t] = NoContent]
    /\ hit' = [hit EXCEPT ![t] = FALSE] /\ answer' = [answer EXCEPT ![t] = "none"]
    /\ kind' = [kind EXCEPT ![t] = "compress"]
    /\ UNCHANGED <<calls, seen, asked, lost, tracking, launcher>>

(* The transport ends: main() closes the database if there is one. *)
Shutdown ==
    /\ server = "serving" /\ \A t \in Threads : pc[t] = "idle"
    /\ server' = "stopped"
    /\ db' = IF db = "open" THEN "closed" ELSE db
    /\ UNCHANGED <<importable, candidates, lock, built, pc, call, calls, dedup>>

Ended == server \in {"stopped", "failed"} /\ UNCHANGED vars

Step(t) ==
    \/ Lookup(t) \/ NoteMiss(t) \/ NoteHit(t) \/ Work(t)
    \/ CheckDb(t) \/ Acquire(t) \/ Recheck(t) \/ Build(t) \/ Release(t)
    \/ Return(t)

Launch == CheckImports \/ Repair \/ GiveUp

Next ==
    \/ Launch
    \/ \E t \in Threads : Call(t) \/ Step(t)
    \/ Shutdown \/ Ended

(* A thread that has a call goes on with it, and so does the launcher; who *)
(* waits for a lock that is freed again and again gets it in the end.      *)
Spec ==
    /\ Init /\ [][Next]_vars
    /\ WF_vars(Launch)
    /\ \A t \in Threads : WF_vars(Step(t)) /\ SF_vars(Acquire(t))
-----------------------------------------------------------------------------
(* Every variable has its type, and no digest is in the cache twice.       *)
TypeOK ==
    /\ server \in {"preflight", "repair", "serving", "stopped", "failed"}
    /\ importable \in BOOLEAN /\ candidates \in Seq(Commands)
    /\ seen \in Seq(Contents) /\ asked \in Seq(Contents) /\ IsInjective(seen)
    /\ db \in {"none", "open", "closed"} /\ lock \in Threads \union {NoThread}
    /\ pc \in [Threads -> Steps] /\ kind \in [Threads -> Kinds]
    /\ text \in [Threads -> Contents \union {NoContent}] /\ hit \in [Threads -> BOOLEAN]
    /\ answer \in [Threads -> {"none", "marker", "full", "bailout", "error"}]
    /\ shown \subseteq Contents /\ lost \subseteq Contents
    /\ {calls, built} \subseteq Nat

(* The contents asked for last: the largest suffix with `n` different ones.*)
RecentlyAsked(n) ==
    {asked[i] : i \in {j \in DOMAIN asked :
        Cardinality({asked[k] : k \in j .. Len(asked)}) <= n}}

(* "Unchanged since last shown" is never said of a content that was not    *)
(* among the last MaxSize different ones asked for, in whatever order      *)
(* lookups and updates of the calls interleave (session_dedup.py bounds    *)
(* the cache so that the reader still has what it is referred to).         *)
SuppressionIsRecent == Range(seen) \subseteq RecentlyAsked(MaxSize)

(* A content is only suppressed when some call has recorded it and either  *)
(* showed it, failed on it, or is still at work on it.                     *)
SuppressedWasAnswered ==
    \A t \in Threads : answer[t] = "marker" =>
        \/ text[t] \in shown \union lost
        \/ \E u \in Threads \ {t} : kind[u] = "compress" /\ text[u] = text[t]
                                    /\ answer[u] \in {"none", "full"}

(* The session has one tracking database and one writer thread, however    *)
(* many calls race to be the first (the lock of _get_tracking_db), and it  *)
(* is closed with the session.                                             *)
OneTrackingDb ==
    /\ built <= 1
    /\ server = "stopped" => (built = 1 <=> db = "closed")

(* The server runs only in an environment that passed the import check,    *)
(* also after a repair command that claims success (launcher.py).          *)
ServesOnlyImportable == server \in {"serving", "stopped"} => importable

(* Every call comes to an answer: no thread waits for the lock for ever.   *)
CallsReturn == \A t \in Threads : pc[t] # "idle" ~> pc[t] = "idle"

(* The marker says "unchanged since last shown this session": the content  *)
(* was shown.                                                              *)
SuppressedWasShown ==
    \A t \in Threads : answer[t] = "marker" => text[t] \in shown
=============================================================================
