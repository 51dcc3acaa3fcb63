----------------------------- MODULE McpProofs -----------------------------
(***************************************************************************)
(* The safety of a session of the MCP server, for every number of threads, *)
(* of contents, of calls and every size of the cache.                      *)
(***************************************************************************)
EXTENDS McpServer, FiniteSetTheorems, TLAPS

USE McpAssumption

(* The environment, the lock and the database.  The lock is held by the    *)
(* one thread inside the locked region, a thread that builds has seen that *)
(* there is no database, and nothing runs before or after the session.     *)
LockInv ==
    /\ server \in {"serving", "stopped"} => importable
    /\ \A t \in Threads : pc[t] \in {"locked", "build", "release"} => lock = t
    /\ \A t \in Threads : pc[t] = "build" => db = "none"
    /\ db = "none" => built = 0
    /\ db # "none" => built = 1
    /\ server # "serving" => \A t \in Threads : pc[t] = "idle"
    /\ server = "stopped" => db # "open"

(* A call that has put its digest on record and has not yet returned.      *)
Pending(u, d) ==
    /\ kind[u] = "compress" /\ text[u] = d
    /\ \/ pc[u] = "work" /\ answer[u] = "none"
       \/ answer[u] = "full"

Answered(d) == d \in shown \union lost \/ \E u \in Threads : Pending(u, d)

(* Every digest on record, and every one a marker refers to, is answered   *)
(* or belongs to a call that will answer it.                               *)
AnswerInv ==
    /\ \A d \in Range(seen) : Answered(d)
    /\ \A t \in Threads :
         /\ answer[t] = "marker" => Answered(text[t])
         /\ pc[t] \in {"idle", "lookup", "note", "work"} => answer[t] = "none"
         /\ pc[t] \in {"lookup", "note"} => kind[t] = "compress" /\ text[t] \in Contents
         /\ kind[t] = "compress" /\ pc[t] # "idle" => text[t] \in Contents
         /\ answer[t] = "full" => pc[t] # "idle"

(* The contents from the i-th element of a sequence on.                    *)
From(s, i) == {s[k] : k \in i .. Len(s)}

(* The cache lists what was asked for by the time it was last asked for:   *)
(* behind an entry of the cache and behind a mention of it in `asked` there*)
(* are the same contents.                                                  *)
Recent(cache, asks) ==
    \A i \in DOMAIN cache : \E j \in DOMAIN asks :
        asks[j] = cache[i] /\ From(asks, j) = From(cache, i)

RecencyInv == Len(seen) <= MaxSize /\ Recent(seen, asked)

IInv == TypeOK /\ LockInv /\ AnswerInv /\ RecencyInv
-----------------------------------------------------------------------------
(* Taking a key out of the cache closes the gap behind it.                 *)
LEMMA WithoutCloses ==
    ASSUME NEW s \in Seq(Contents), NEW d \in Range(s)
    PROVE  \E p \in 1 .. Len(s) :
             /\ s[p] = d
             /\ Without(s, d) \in Seq(Contents) /\ Len(Without(s, d)) = Len(s) - 1
             /\ \A k \in 1 .. Len(s) - 1 :
                  Without(s, d)[k] = IF k < p THEN s[k] ELSE s[k + 1]
<1> DEFINE p == CHOOSE i \in DOMAIN s : s[i] = d
           a == SubSeq(s, 1, p - 1)
           b == SubSeq(s, p + 1, Len(s))
<1>1. p \in 1 .. Len(s) /\ s[p] = d
  BY DEF Range
<1> HIDE DEF p
<1>2. /\ a \in Seq(Contents) /\ Len(a) = p - 1
      /\ \A k \in 1 .. p - 1 : a[k] = s[k]
  BY <1>1
<1>3. /\ b \in Seq(Contents) /\ Len(b) = Len(s) - p
      /\ \A k \in 1 .. Len(s) - p : b[k] = s[p + k]
  BY <1>1
<1> HIDE DEF a, b
<1>4. Without(s, d) = a \o b
  BY DEF Without, RemoveAt, p, a, b
<1>5. a \o b \in Seq(Contents) /\ Len(a \o b) = Len(s) - 1
  <2>1. a \o b \in Seq(Contents) /\ Len(a \o b) = Len(a) + Len(b)
    <3>1. a \in Seq(Contents) /\ b \in Seq(Contents)
      BY <1>2, <1>3
    <3>2. a \o b \in Seq(Contents)
      BY <3>1
    <3>3. Len(a \o b) = Len(a) + Len(b)
      BY <3>1
    <3> QED BY <3>2, <3>3
  <2>2. (p - 1) + (Len(s) - p) = Len(s) - 1
    BY <1>1
  <2> QED BY <1>2, <1>3, <2>1, <2>2
<1>6. ASSUME NEW k \in 1 .. Len(s) - 1
      PROVE  (a \o b)[k] = IF k < p THEN s[k] ELSE s[k + 1]
  <2>1. CASE k < p
    BY <1>1, <1>2, <1>3, <2>1
  <2>2. CASE ~(k < p)
    <3>1. k - (p - 1) \in 1 .. Len(s) - p /\ p + (k - (p - 1)) = k + 1
      BY <1>1, <2>2
    <3>2. (a \o b)[k] = b[k - (p - 1)]
      BY <1>1, <1>2, <1>3, <2>2, <3>1
    <3> QED BY <1>3, <2>2, <3>1, <3>2
  <2> QED BY <2>1, <2>2
<1> QED BY <1>1, <1>4, <1>5, <1>6

(* A hit moves the key to the end of the cache: the cache holds what it    *)
(* held, each key once, and reads as the order of asking.                  *)
LEMMA MovedToEnd ==
    ASSUME NEW s \in Seq(Contents), IsInjective(s), NEW asks \in Seq(Contents),
           NEW d \in Range(s), Recent(s, asks)
    PROVE  LET m == Append(Without(s, d), d)
           IN  /\ m \in Seq(Contents) /\ Len(m) = Len(s) /\ IsInjective(m)
               /\ Range(m) = Range(s)
               /\ Recent(m, Append(asks, d))
<1> DEFINE m == Append(Without(s, d), d)
           n == Len(s)
<1>1. PICK p \in 1 .. n :
        /\ s[p] = d
        /\ Without(s, d) \in Seq(Contents) /\ Len(Without(s, d)) = n - 1
        /\ \A k \in 1 .. n - 1 :
             Without(s, d)[k] = IF k < p THEN s[k] ELSE s[k + 1]
  BY WithoutCloses
<1>2. d \in Contents /\ n \in Nat /\ p \in 1 .. n /\ s[p] = d
  BY <1>1
<1>3. m \in Seq(Contents) /\ Len(m) = n /\ DOMAIN m = 1 .. n /\ DOMAIN s = 1 .. n
  BY <1>1, <1>2
<1>4. m[n] = d /\ \A k \in 1 .. n - 1 : m[k] = IF k < p THEN s[k] ELSE s[k + 1]
  BY <1>1, <1>2
<1> HIDE DEF m, n
<1>5. ASSUME NEW k \in 1 .. n
      PROVE  \E l \in 1 .. n : /\ m[k] = s[l] /\ (k = n => l = p)
                               /\ (k < n => l = IF k < p THEN k ELSE k + 1)
  <2>1. CASE k = n
    BY <1>2, <1>4, <2>1
  <2>2. CASE k < n /\ k < p
    <3>1. k \in 1 .. n - 1
      BY <1>2, <2>2
    <3> QED BY <1>4, <2>2, <3>1
  <2>3. CASE k < n /\ ~(k < p)
    <3>1. k \in 1 .. n - 1 /\ k + 1 \in 1 .. n
      BY <1>2, <2>3
    <3> QED BY <1>4, <2>3, <3>1
  <2> QED BY <1>2, <2>1, <2>2, <2>3
<1>6. ASSUME NEW l \in 1 .. n
      PROVE  \E k \in 1 .. n : /\ m[k] = s[l] /\ (l < p => k = l) /\ (l = p => k = n)
                               /\ (l > p => k = l - 1)
  <2>1. CASE l < p
    <3>1. l \in 1 .. n - 1
      BY <1>2, <2>1
    <3> QED BY <1>4, <2>1, <3>1
  <2>2. CASE l = p
    BY <1>2, <1>4, <2>2
  <2>3. CASE l > p
    <3>1. l - 1 \in 1 .. n - 1 /\ ~(l - 1 < p) /\ (l - 1) + 1 = l /\ l - 1 \in 1 .. n
      BY <1>2, <2>3
    <3> QED BY <1>2, <1>4, <2>3, <3>1
  <2> QED BY <1>2, <2>1, <2>2, <2>3
<1>7. IsInjective(m)
  <2> SUFFICES ASSUME NEW k1 \in 1 .. n, NEW k2 \in 1 .. n, m[k1] = m[k2]
               PROVE  k1 = k2
    BY <1>3 DEF IsInjective
  <2>1. PICK l1 \in 1 .. n :
          /\ m[k1] = s[l1] /\ (k1 = n => l1 = p)
          /\ (k1 < n => l1 = IF k1 < p THEN k1 ELSE k1 + 1)
    BY <1>5
  <2>2. PICK l2 \in 1 .. n :
          /\ m[k2] = s[l2] /\ (k2 = n => l2 = p)
          /\ (k2 < n => l2 = IF k2 < p THEN k2 ELSE k2 + 1)
    BY <1>5
  <2>3. l1 = l2
    BY <1>3, <2>1, <2>2 DEF IsInjective
  <2> QED BY <1>2, <2>1, <2>2, <2>3
<1>8. Range(m) = Range(s)
  <2>1. \A k \in 1 .. n : m[k] \in Range(s)
    BY <1>3, <1>5 DEF Range
  <2>2. \A l \in 1 .. n : s[l] \in Range(m)
    BY <1>3, <1>6 DEF Range
  <2> QED BY <1>3, <2>1, <2>2 DEF Range
<1>9. Recent(m, Append(asks, d))
  <2> DEFINE more == Append(asks, d)
             h == Len(asks)
  <2>1. /\ h \in Nat /\ DOMAIN asks = 1 .. h /\ DOMAIN more = 1 .. h + 1 /\ Len(more) = h + 1
        /\ more[h + 1] = d /\ \A k \in 1 .. h : more[k] = asks[k]
    BY <1>2
  <2> HIDE DEF more
  <2> SUFFICES ASSUME NEW i \in 1 .. n
               PROVE  \E j \in 1 .. h + 1 : more[j] = m[i] /\ From(more, j) = From(m, i)
    BY <1>3, <2>1 DEF Recent, more
  <2>2. CASE i = n
    <3>1. From(m, i) = {d}
      BY <1>2, <1>3, <1>4, <2>2 DEF From
    <3>2. From(more, h + 1) = {d}
      BY <2>1 DEF From
    <3> QED BY <1>4, <2>1, <2>2, <3>1, <3>2
  <2>3. CASE i < n
    <3>1. PICK o \in 1 .. n : m[i] = s[o] /\ o = IF i < p THEN i ELSE i + 1
      BY <1>2, <1>5, <2>3
    <3>2. PICK j \in 1 .. h : asks[j] = s[o] /\ From(asks, j) = From(s, o)
      BY <1>3, <2>1, <3>1 DEF Recent
    <3>3. From(more, j) = From(asks, j) \union {d}
      <4>1. ASSUME NEW k \in j .. h PROVE k \in j .. h + 1 /\ more[k] = asks[k]
        BY <2>1, <3>2
      <4>2. ASSUME NEW k \in j .. h + 1 PROVE k \in j .. h \/ more[k] = d
        BY <2>1, <3>2
      <4>3. h + 1 \in j .. h + 1
        BY <2>1, <3>2
      <4> QED BY <2>1, <4>1, <4>2, <4>3 DEF From
    <3>4. From(m, i) = From(s, o) \union {d}
      <4>1. ASSUME NEW k \in i .. n PROVE m[k] \in From(s, o) \union {d}
        <5>1. k \in 1 .. n
          BY <1>2
        <5>2. PICK l \in 1 .. n : /\ m[k] = s[l] /\ (k = n => l = p)
                                 /\ (k < n => l = IF k < p THEN k ELSE k + 1)
          BY <1>5, <5>1
        <5>3. k = n \/ l \in o .. n
          BY <1>2, <3>1, <5>2
        <5> QED BY <1>4, <1>3, <5>2, <5>3 DEF From, n
      <4>2. ASSUME NEW l \in o .. n PROVE s[l] \in From(m, i)
        <5>1. l \in 1 .. n
          BY <1>2, <3>1
        <5>2. PICK k \in 1 .. n : /\ m[k] = s[l] /\ (l < p => k = l) /\ (l = p => k = n)
                                 /\ (l > p => k = l - 1)
          BY <1>6, <5>1
        <5>3. k \in i .. n
          BY <1>2, <3>1, <5>2
        <5> QED BY <1>3, <5>2, <5>3 DEF From
      <4>3. d \in From(m, i)
        BY <1>2, <1>3, <1>4 DEF From
      <4> QED BY <1>3, <4>1, <4>2, <4>3 DEF From, n
    <3>5. j \in 1 .. h + 1 /\ more[j] = m[i]
      BY <2>1, <3>1, <3>2
    <3> QED BY <3>2, <3>3, <3>4, <3>5
  <2> QED BY <1>2, <2>2, <2>3
<1> QED BY <1>3, <1>7, <1>8, <1>9 DEF m, n

(* A miss puts a new key at the end of the cache and the oldest one out of *)
(* it when it is full.                                                     *)
LEMMA InsertedAtEnd ==
    ASSUME NEW s \in Seq(Contents), IsInjective(s), NEW asks \in Seq(Contents),
           NEW d \in Contents \ Range(s), Recent(s, asks), Len(s) <= MaxSize
    PROVE  LET m == Inserted(s, d)
           IN  /\ m \in Seq(Contents) /\ Len(m) <= MaxSize /\ IsInjective(m)
               /\ Range(m) \subseteq Range(s) \union {d}
               /\ Recent(m, Append(asks, d))
<1> DEFINE longer == Append(s, d)
           more == Append(asks, d)
           m == Inserted(s, d)
           n == Len(s)
           h == Len(asks)
<1>1. n \in Nat /\ h \in Nat /\ n <= MaxSize /\ MaxSize \in Nat
  BY McpAssumption
<1>2. /\ longer \in Seq(Contents) /\ Len(longer) = n + 1
      /\ DOMAIN longer = 1 .. n + 1 /\ DOMAIN s = 1 .. n
  OBVIOUS
<1>3. longer[n + 1] = d /\ \A k \in 1 .. n : longer[k] = s[k]
  OBVIOUS
<1>4. Len(more) = h + 1 /\ DOMAIN more = 1 .. h + 1 /\ DOMAIN asks = 1 .. h
  OBVIOUS
<1>5. more[h + 1] = d /\ \A k \in 1 .. h : more[k] = asks[k]
  OBVIOUS
<1>6. m = IF n + 1 > MaxSize THEN Tail(longer) ELSE longer
  BY <1>2 DEF Inserted
<1> HIDE DEF longer, more, m, n, h
<1>7. IsInjective(longer)
  <2>1. \A k \in 1 .. n : longer[k] # d
    BY <1>2, <1>3 DEF Range
  <2> SUFFICES ASSUME NEW k1 \in 1 .. n + 1, NEW k2 \in 1 .. n + 1, longer[k1] = longer[k2]
               PROVE  k1 = k2
    BY <1>2 DEF IsInjective
  <2>2. CASE k1 \in 1 .. n /\ k2 \in 1 .. n
    BY <1>2, <1>3, <2>2 DEF IsInjective
  <2>3. CASE k1 = n + 1 \/ k2 = n + 1
    <3>1. longer[k1] = d /\ longer[k2] = d
      BY <1>3, <2>3
    <3> QED BY <1>1, <2>1, <3>1
  <2> QED BY <1>1, <2>2, <2>3
<1>8. Range(longer) = Range(s) \union {d}
  <2>1. \A k \in 1 .. n + 1 : longer[k] \in Range(s) \union {d}
    <3> TAKE k \in 1 .. n + 1
    <3>1. k \in 1 .. n \/ k = n + 1
      BY <1>1
    <3> QED BY <1>2, <1>3, <3>1 DEF Range
  <2>2. \A k \in 1 .. n : k \in 1 .. n + 1
    BY <1>1
  <2>3. n + 1 \in 1 .. n + 1
    BY <1>1
  <2> QED BY <1>2, <1>3, <2>1, <2>2, <2>3 DEF Range
<1>9. ASSUME NEW i \in 1 .. n + 1
      PROVE  \E j \in 1 .. h + 1 : more[j] = longer[i] /\ From(more, j) = From(longer, i)
  <2>1. CASE i = n + 1
    <3>1. From(longer, i) = {d}
      BY <1>1, <1>2, <1>3, <2>1 DEF From
    <3>2. From(more, h + 1) = {d}
      BY <1>1, <1>4, <1>5 DEF From
    <3>3. h + 1 \in 1 .. h + 1 /\ more[h + 1] = longer[i]
      BY <1>1, <1>3, <1>5, <2>1
    <3> QED BY <3>1, <3>2, <3>3
  <2>2. CASE i \in 1 .. n
    <3>1. PICK j \in 1 .. h : asks[j] = s[i] /\ From(asks, j) = From(s, i)
      BY <1>2, <1>4, <2>2 DEF Recent
    <3>2. From(more, j) = From(asks, j) \union {d}
      <4>1. ASSUME NEW k \in j .. h PROVE k \in j .. h + 1 /\ more[k] = asks[k]
        BY <1>1, <1>5, <3>1
      <4>2. ASSUME NEW k \in j .. h + 1 PROVE k \in j .. h \/ more[k] = d
        BY <1>1, <1>5, <3>1
      <4>3. h + 1 \in j .. h + 1
        BY <1>1, <3>1
      <4> QED BY <1>4, <1>5, <4>1, <4>2, <4>3 DEF From, h
    <3>3. From(longer, i) = From(s, i) \union {d}
      <4>1. ASSUME NEW k \in i .. n PROVE k \in i .. n + 1 /\ longer[k] = s[k]
        BY <1>1, <1>3, <2>2
      <4>2. ASSUME NEW k \in i .. n + 1 PROVE k \in i .. n \/ longer[k] = d
        BY <1>1, <1>3, <2>2
      <4>3. n + 1 \in i .. n + 1
        BY <1>1, <2>2
      <4> QED BY <1>2, <1>3, <4>1, <4>2, <4>3 DEF From, n
    <3>4. j \in 1 .. h + 1 /\ more[j] = longer[i]
      BY <1>1, <1>3, <1>5, <2>2, <3>1
    <3> QED BY <3>1, <3>2, <3>3, <3>4
  <2> QED BY <1>1, <2>1, <2>2
<1>10. CASE n + 1 <= MaxSize
  <2>1. m = longer
    BY <1>1, <1>6, <1>10
  <2>2. Recent(m, more)
    BY <1>2, <1>4, <1>9, <2>1 DEF Recent
  <2> QED BY <1>2, <1>7, <1>8, <1>10, <2>1, <2>2 DEF more, m
<1>11. CASE n + 1 > MaxSize
  <2>1. m = Tail(longer) /\ longer # <<>>
    BY <1>1, <1>2, <1>6, <1>11
  <2>2. m \in Seq(Contents) /\ Len(m) = n /\ DOMAIN m = 1 .. n
    BY <1>1, <1>2, <2>1
  <2>3. \A k \in 1 .. n : m[k] = longer[k + 1] /\ k + 1 \in 1 .. n + 1
    BY <1>1, <1>2, <2>1
  <2>4. IsInjective(m)
    <3> SUFFICES ASSUME NEW k1 \in 1 .. n, NEW k2 \in 1 .. n, m[k1] = m[k2]
                 PROVE  k1 = k2
      BY <2>2 DEF IsInjective
    <3>1. k1 + 1 = k2 + 1
      BY <1>2, <1>7, <2>3 DEF IsInjective
    <3> QED BY <1>1, <3>1
  <2>5. Range(m) \subseteq Range(longer)
    BY <1>2, <2>2, <2>3 DEF Range
  <2>6. Recent(m, more)
    <3> SUFFICES ASSUME NEW i \in 1 .. n
                 PROVE  \E j \in 1 .. h + 1 : more[j] = m[i] /\ From(more, j) = From(m, i)
      BY <1>4, <2>2 DEF Recent
    <3>1. PICK j \in 1 .. h + 1 :
            more[j] = longer[i + 1] /\ From(more, j) = From(longer, i + 1)
      BY <1>9, <2>3
    <3>2. From(m, i) = From(longer, i + 1)
      <4>1. ASSUME NEW k \in i .. n
            PROVE  k + 1 \in i + 1 .. n + 1 /\ m[k] = longer[k + 1]
        BY <1>1, <2>3
      <4>2. ASSUME NEW k \in i + 1 .. n + 1
            PROVE  \E l \in i .. n : m[l] = longer[k]
        <5>1. k - 1 \in i .. n /\ k - 1 \in 1 .. n /\ (k - 1) + 1 = k
          BY <1>1
        <5> QED BY <2>3, <5>1
      <4> QED BY <1>2, <2>2, <4>1, <4>2, SMTT(30) DEF From
    <3> QED BY <2>3, <3>1, <3>2
  <2> QED BY <1>1, <1>8, <2>2, <2>4, <2>5, <2>6 DEF more, m
<1> QED BY <1>1, <1>10, <1>11
-----------------------------------------------------------------------------
(* A new session satisfies the invariant.                                  *)
LEMMA InitIInv == Init => IInv
<1> SUFFICES ASSUME Init PROVE IInv
  OBVIOUS
<1>1. TypeOK
  <2>1. candidates \in Seq(Commands)
    <3>1. PICK disabled \in BOOLEAN, checkout \in Checkouts, uv \in Uv :
            candidates = RepairCommands(disabled, checkout, uv)
      BY DEF Init
    <3>2. /\ <<>> \in Seq(Commands) /\ <<"pip install mcp">> \in Seq(Commands)
          /\ <<"pip install -e">> \in Seq(Commands)
      BY DEF Commands
    <3>3. <<"uv sync", "pip install -e">> \in Seq(Commands)
      BY DEF Commands
    <3> QED BY <3>1, <3>2, <3>3 DEF RepairCommands
  <2>2. seen \in Seq(Contents) /\ asked \in Seq(Contents) /\ IsInjective(seen)
    BY DEF Init, IsInjective
  <2> QED BY <2>1, <2>2 DEF Init, TypeOK, Steps, Kinds
<1>2. LockInv
  BY DEF Init, LockInv
<1>3. AnswerInv
  BY DEF Init, AnswerInv, Range
<1>4. RecencyInv
  BY DEF Init, RecencyInv, Recent
<1> QED BY <1>1, <1>2, <1>3, <1>4 DEF IInv

(* The second half of a lookup, a miss or a hit.                           *)
LEMMA NoteKeepsOrder ==
    ASSUME IInv, NEW t \in Threads, NoteMiss(t) \/ NoteHit(t)
    PROVE  /\ seen' \in Seq(Contents) /\ asked' \in Seq(Contents) /\ IsInjective(seen')
           /\ Range(seen') \subseteq Range(seen) \union {text[t]}
           /\ NoteHit(t) => Range(seen') = Range(seen)
           /\ RecencyInv'
<1> USE DEF IInv, RecencyInv
<1>1. /\ text[t] \in Contents /\ seen \in Seq(Contents) /\ asked \in Seq(Contents)
      /\ IsInjective(seen) /\ Len(seen) <= MaxSize /\ Recent(seen, asked)
  BY DEF NoteMiss, NoteHit, AnswerInv, TypeOK
<1>2. CASE NoteMiss(t) /\ text[t] \notin Range(seen)
  <2>1. seen' = Inserted(seen, text[t]) /\ asked' = Append(asked, text[t])
    BY <1>2 DEF NoteMiss
  <2>2. asked' \in Seq(Contents)
    BY <1>1, <2>1
  <2>3. ~NoteHit(t)
    BY <1>2 DEF NoteMiss, NoteHit
  <2> QED BY <1>1, <1>2, <2>1, <2>2, <2>3, InsertedAtEnd
<1>3. CASE NoteMiss(t) /\ text[t] \in Range(seen)
  <2>1. seen' = seen /\ asked' = asked
    <3>1. Len(seen) \in Nat /\ ~(Len(seen) > MaxSize)
      BY <1>1
    <3> QED BY <1>3, <3>1 DEF NoteMiss, Inserted
  <2> QED BY <1>1, <2>1
<1>4. CASE NoteHit(t) /\ text[t] \in Range(seen)
  <2>1. /\ seen' = Append(Without(seen, text[t]), text[t])
        /\ asked' = Append(asked, text[t])
    BY <1>4 DEF NoteHit
  <2>2. asked' \in Seq(Contents)
    BY <1>1, <2>1
  <2> QED BY <1>1, <1>4, <2>1, <2>2, MovedToEnd
<1>5. CASE NoteHit(t) /\ text[t] \notin Range(seen)
  <2>1. seen' = seen /\ asked' = asked
    BY <1>5 DEF NoteHit
  <2> QED BY <1>1, <2>1
<1> QED BY <1>2, <1>3, <1>4, <1>5

(* Every step keeps the types, the keys of the cache distinct and the      *)
(* cache in the order of asking.                                           *)
LEMMA StepTypeOK == IInv /\ [Next]_vars => TypeOK' /\ RecencyInv'
<1> SUFFICES ASSUME IInv, [Next]_vars PROVE TypeOK' /\ RecencyInv'
  OBVIOUS
<1> USE DEF IInv, launcher, tracking, dedup, call, Go, Answering
<1>1. ASSUME UNCHANGED <<seen, asked>>
      PROVE  RecencyInv' /\ (Range(seen) = Range(seen)')
  BY <1>1 DEF RecencyInv
<1>2. ASSUME Launch PROVE TypeOK' /\ RecencyInv'
  <2>1. TypeOK'
    <3>1. candidates' \in Seq(Commands)
      <4>1. candidates \in Seq(Commands)
        BY DEF TypeOK
      <4>2. candidates # <<>> => Tail(candidates) \in Seq(Commands)
        BY <4>1
      <4>3. <<>> \in Seq(Commands)
        OBVIOUS
      <4>4. CASE CheckImports
        BY <4>1, <4>3, <4>4 DEF CheckImports
      <4>5. CASE Repair
        BY <4>2, <4>3, <4>5 DEF Repair
      <4>6. CASE GiveUp
        BY <4>1, <4>6 DEF GiveUp
      <4> QED BY <1>2, <4>4, <4>5, <4>6 DEF Launch
    <3> QED BY <1>2, <3>1 DEF Launch, CheckImports, Repair, GiveUp, TypeOK, ServedAfter
  <2> QED BY <1>1, <1>2, <2>1 DEF Launch, CheckImports, Repair, GiveUp
<1>3. ASSUME NEW t \in Threads, Call(t) PROVE TypeOK' /\ RecencyInv'
  <2>1. TypeOK'
    <3>1. pc' \in [Threads -> Steps] /\ kind' \in [Threads -> Kinds]
      BY <1>3 DEF Call, TypeOK, Steps, Kinds
    <3>2. text' \in [Threads -> Contents \union {NoContent}]
      BY <1>3 DEF Call, TypeOK
    <3>3. calls' \in Nat
      BY <1>3 DEF Call, TypeOK
    <3> QED BY <1>3, <3>1, <3>2, <3>3 DEF Call, TypeOK
  <2> QED BY <1>1, <1>3, <2>1 DEF Call
<1>4. ASSUME NEW t \in Threads, Lookup(t) PROVE TypeOK' /\ RecencyInv'
  <2>1. TypeOK'
    BY <1>4 DEF Lookup, TypeOK, Steps, Known
  <2> QED BY <1>1, <1>4, <2>1 DEF Lookup
<1>5. ASSUME NEW t \in Threads, NoteMiss(t) PROVE TypeOK' /\ RecencyInv'
  <2>1. seen' \in Seq(Contents) /\ asked' \in Seq(Contents) /\ IsInjective(seen') /\ RecencyInv'
    BY <1>5, NoteKeepsOrder
  <2> QED BY <1>5, <2>1 DEF NoteMiss, TypeOK, Steps
<1>6. ASSUME NEW t \in Threads, NoteHit(t) PROVE TypeOK' /\ RecencyInv'
  <2>1. seen' \in Seq(Contents) /\ asked' \in Seq(Contents) /\ IsInjective(seen') /\ RecencyInv'
    BY <1>6, NoteKeepsOrder
  <2> QED BY <1>6, <2>1 DEF NoteHit, TypeOK, Steps
<1>7. ASSUME NEW t \in Threads, Work(t) PROVE TypeOK' /\ RecencyInv'
  <2>1. kind[t] = "compress" => text[t] \in Contents
    BY <1>7 DEF AnswerInv, Work
  <2>2. Outcomes(kind[t]) \subseteq {"full", "error", "bailout"}
    BY DEF Outcomes, CompressOutcomes, TieredOutcomes, ContextOutcomes, GainOutcomes,
           ConfigOutcomes, PromptOutcomes
  <2>3. TypeOK'
    BY <1>7, <2>1, <2>2 DEF Work, TypeOK, Steps, Tracked
  <2> QED BY <1>1, <1>7, <2>3 DEF Work
<1>8. ASSUME NEW t \in Threads,
             CheckDb(t) \/ Acquire(t) \/ Recheck(t) \/ Build(t) \/ Release(t)
      PROVE  TypeOK' /\ RecencyInv'
  <2>1. TypeOK'
    <3>1. pc' \in [Threads -> Steps]
      BY <1>8 DEF CheckDb, Acquire, Recheck, Build, Release, TypeOK, Steps
    <3>2. db' \in {"none", "open", "closed"} /\ built' \in Nat
      BY <1>8 DEF CheckDb, Acquire, Recheck, Build, Release, TypeOK
    <3>3. lock' \in Threads \union {NoThread}
      BY <1>8 DEF CheckDb, Acquire, Recheck, Build, Release, TypeOK, FreedBy
    <3> QED
      BY <1>8, <3>1, <3>2, <3>3 DEF CheckDb, Acquire, Recheck, Build, Release, TypeOK
  <2> QED BY <1>1, <1>8, <2>1 DEF CheckDb, Acquire, Recheck, Build, Release
<1>9. ASSUME NEW t \in Threads, Return(t) PROVE TypeOK' /\ RecencyInv'
  <2>1. kind[t] = "compress" => text[t] \in Contents
    BY <1>9 DEF AnswerInv, Return
  <2>2. TypeOK'
    BY <1>9, <2>1 DEF Return, TypeOK, Steps, Kinds
  <2> QED BY <1>1, <1>9, <2>2 DEF Return
<1>10. ASSUME Shutdown \/ UNCHANGED vars PROVE TypeOK' /\ RecencyInv'
  <2>1. TypeOK'
    BY <1>10 DEF Shutdown, vars, TypeOK
  <2> QED BY <1>1, <1>10, <2>1 DEF Shutdown, vars
<1> QED BY <1>2, <1>3, <1>4, <1>5, <1>6, <1>7, <1>8, <1>9, <1>10 DEF Next, Step, Ended

(* Every step keeps the lock and the database in order.                    *)
LEMMA StepLockInv == IInv /\ [Next]_vars => LockInv'
<1> SUFFICES ASSUME IInv, [Next]_vars PROVE LockInv'
  OBVIOUS
<1> USE DEF IInv, launcher, tracking, dedup, call, Go, Answering, LockInv, TypeOK
<1>1. CASE Launch
  BY <1>1 DEF Launch, CheckImports, Repair, GiveUp, ServedAfter
<1>2. ASSUME NEW t \in Threads, Call(t) PROVE LockInv'
  BY <1>2 DEF Call
<1>3. ASSUME NEW t \in Threads, Lookup(t) \/ NoteMiss(t) \/ NoteHit(t) \/ Work(t)
      PROVE  LockInv'
  BY <1>3 DEF Lookup, NoteMiss, NoteHit, Work
<1>4. ASSUME NEW t \in Threads, CheckDb(t) PROVE LockInv'
  BY <1>4 DEF CheckDb
<1>5. ASSUME NEW t \in Threads, Acquire(t) PROVE LockInv'
  BY <1>5 DEF Acquire
<1>6. ASSUME NEW t \in Threads, Recheck(t) PROVE LockInv'
  BY <1>6 DEF Recheck, Builds
<1>7. ASSUME NEW t \in Threads, Build(t) PROVE LockInv'
  BY <1>7 DEF Build, FreedBy
<1>8. ASSUME NEW t \in Threads, Release(t) \/ Return(t) PROVE LockInv'
  BY <1>8 DEF Release, Return
<1>9. CASE Shutdown
  BY <1>9 DEF Shutdown
<1>10. CASE UNCHANGED vars
  BY <1>10 DEF vars
<1> QED BY <1>1, <1>2, <1>3, <1>4, <1>5, <1>6, <1>7, <1>8, <1>9, <1>10 DEF Next, Step, Ended

(* What was answered, or was about to be, stays so as long as no call that *)
(* was about to answer takes it back.                                      *)
LEMMA AnsweredStays ==
    ASSUME NEW d, Answered(d), shown \subseteq shown', lost \subseteq lost',
           \A u \in Threads : Pending(u, d) => Pending(u, d)' \/ d \in (shown \union lost)'
    PROVE  Answered(d)'
BY DEF Answered

(* Every step keeps every digest on record answered or about to be.        *)
LEMMA StepAnswerInv == IInv /\ [Next]_vars => AnswerInv'
<1> SUFFICES ASSUME IInv, [Next]_vars PROVE AnswerInv'
  OBVIOUS
<1> USE DEF IInv, launcher, tracking, dedup, call, Go, Answering, TypeOK
<1>0. AnswerInv
  OBVIOUS
<1>1. CASE Launch \/ Shutdown \/ UNCHANGED vars
  <2>1. UNCHANGED <<pc, call, dedup>>
    BY <1>1 DEF Launch, CheckImports, Repair, GiveUp, Shutdown, vars
  <2> QED BY <1>0, <2>1 DEF AnswerInv, Answered, Pending
<1>2. ASSUME NEW t \in Threads, Call(t) PROVE AnswerInv'
  <2>1. ASSUME NEW d, Answered(d) PROVE Answered(d)'
    <3>1. \A u \in Threads : Pending(u, d) => Pending(u, d)'
      BY <1>0, <1>2 DEF Pending, Call, AnswerInv
    <3> QED BY <1>2, <2>1, <3>1, AnsweredStays DEF Call
  <2>2. \A d \in Range(seen') : Answered(d)'
    BY <1>0, <1>2, <2>1 DEF AnswerInv, Call
  <2>3. ASSUME NEW u \in Threads, answer'[u] = "marker" PROVE Answered(text[u])'
    BY <1>0, <1>2, <2>1, <2>3 DEF AnswerInv, Call
  <2>4. ASSUME NEW u \in Threads
        PROVE  /\ pc'[u] \in {"idle", "lookup", "note", "work"} => answer'[u] = "none"
               /\ pc'[u] \in {"lookup", "note"} => kind'[u] = "compress" /\ text'[u] \in Contents
               /\ kind'[u] = "compress" /\ pc'[u] # "idle" => text'[u] \in Contents
               /\ answer'[u] = "full" => pc'[u] # "idle"
    BY <1>0, <1>2 DEF AnswerInv, Call
  <2> QED BY <2>2, <2>3, <2>4 DEF AnswerInv
<1>3. ASSUME NEW t \in Threads, Lookup(t) PROVE AnswerInv'
  <2>1. ASSUME NEW d, Answered(d) PROVE Answered(d)'
    <3>1. \A u \in Threads : Pending(u, d) => Pending(u, d)'
      BY <1>3 DEF Pending, Lookup
    <3> QED BY <1>3, <2>1, <3>1, AnsweredStays DEF Lookup
  <2> QED BY <1>0, <1>3, <2>1 DEF AnswerInv, Lookup
<1>4. ASSUME NEW t \in Threads, NoteMiss(t) PROVE AnswerInv'
  <2>1. ASSUME NEW d, Answered(d) PROVE Answered(d)'
    <3>1. \A u \in Threads : Pending(u, d) => Pending(u, d)'
      BY <1>4 DEF Pending, NoteMiss
    <3> QED BY <1>4, <2>1, <3>1, AnsweredStays DEF NoteMiss
  <2>2. Answered(text[t])'
    BY <1>0, <1>4 DEF AnswerInv, NoteMiss, Answered, Pending
  <2>3. \A d \in Range(seen') : Answered(d)'
    BY <1>0, <1>4, <2>1, <2>2, NoteKeepsOrder DEF AnswerInv, NoteMiss
  <2> QED BY <1>0, <1>4, <2>1, <2>3 DEF AnswerInv, NoteMiss
<1>5. ASSUME NEW t \in Threads, NoteHit(t) PROVE AnswerInv'
  <2>1. ASSUME NEW d, Answered(d) PROVE Answered(d)'
    <3>1. \A u \in Threads : Pending(u, d) => Pending(u, d)'
      BY <1>0, <1>5 DEF Pending, NoteHit, AnswerInv
    <3> QED BY <1>5, <2>1, <3>1, AnsweredStays DEF NoteHit
  <2>2. \A d \in Range(seen') : Answered(d)'
    BY <1>0, <1>5, <2>1, NoteKeepsOrder DEF AnswerInv
  <2>3. ASSUME NEW u \in Threads, answer'[u] = "marker" PROVE Answered(text[u])'
    <3>1. CASE u = t
      BY <1>0, <1>5, <2>1, <2>3, <3>1 DEF AnswerInv, NoteHit
    <3>2. CASE u # t
      BY <1>0, <1>5, <2>1, <2>3, <3>2 DEF AnswerInv, NoteHit
    <3> QED BY <3>1, <3>2
  <2>4. ASSUME NEW u \in Threads
        PROVE  /\ pc'[u] \in {"idle", "lookup", "note", "work"} => answer'[u] = "none"
               /\ pc'[u] \in {"lookup", "note"} => kind'[u] = "compress" /\ text'[u] \in Contents
               /\ kind'[u] = "compress" /\ pc'[u] # "idle" => text'[u] \in Contents
               /\ answer'[u] = "full" => pc'[u] # "idle"
    BY <1>0, <1>5 DEF AnswerInv, NoteHit
  <2> QED BY <2>2, <2>3, <2>4 DEF AnswerInv
<1>6. ASSUME NEW t \in Threads, Work(t) PROVE AnswerInv'
  <2>1. PICK a \in Outcomes(kind[t]) :
          /\ answer' = [answer EXCEPT ![t] = a]
          /\ pc' = [pc EXCEPT ![t] = IF Tracked(kind[t], a) THEN "track" ELSE "return"]
          /\ lost' = IF kind[t] = "compress" /\ a = "error" THEN lost \union {text[t]} ELSE lost
    BY <1>6 DEF Work
  <2>2. a \in {"full", "error", "bailout"} /\ (kind[t] = "compress" => a \in {"full", "error"})
    BY <2>1 DEF Outcomes, CompressOutcomes, TieredOutcomes, ContextOutcomes, GainOutcomes,
                ConfigOutcomes, PromptOutcomes
  <2>3. ASSUME NEW d, Answered(d) PROVE Answered(d)'
    <3>1. ASSUME NEW u \in Threads, Pending(u, d) PROVE Pending(u, d)' \/ d \in (shown \union lost)'
      BY <1>6, <2>1, <2>2, <3>1 DEF Pending, Work
    <3> QED BY <1>6, <2>1, <2>3, <3>1, AnsweredStays DEF Work
  <2>4. \A d \in Range(seen') : Answered(d)'
    BY <1>0, <1>6, <2>3 DEF AnswerInv, Work
  <2>5. ASSUME NEW u \in Threads, answer'[u] = "marker" PROVE Answered(text[u])'
    BY <1>0, <1>6, <2>1, <2>2, <2>3, <2>5 DEF AnswerInv, Work
  <2>6. ASSUME NEW u \in Threads
        PROVE  /\ pc'[u] \in {"idle", "lookup", "note", "work"} => answer'[u] = "none"
               /\ pc'[u] \in {"lookup", "note"} => kind'[u] = "compress" /\ text'[u] \in Contents
               /\ kind'[u] = "compress" /\ pc'[u] # "idle" => text'[u] \in Contents
               /\ answer'[u] = "full" => pc'[u] # "idle"
    BY <1>0, <1>6, <2>1, <2>2 DEF AnswerInv, Work, Tracked
  <2> QED BY <2>4, <2>5, <2>6 DEF AnswerInv
<1>7. ASSUME NEW t \in Threads,
             CheckDb(t) \/ Acquire(t) \/ Recheck(t) \/ Build(t) \/ Release(t)
      PROVE  AnswerInv'
  <2>1. /\ UNCHANGED <<call, dedup>> /\ pc[t] \notin {"idle", "lookup", "note", "work"}
        /\ \E step \in {"track", "acquire", "locked", "build", "release", "return"} :
             pc' = [pc EXCEPT ![t] = step]
    BY <1>7 DEF CheckDb, Acquire, Recheck, Build, Release
  <2>2. ASSUME NEW d, Answered(d) PROVE Answered(d)'
    <3>1. \A u \in Threads : Pending(u, d) => Pending(u, d)'
      BY <2>1 DEF Pending
    <3> QED BY <2>1, <2>2, <3>1, AnsweredStays
  <2> QED BY <1>0, <2>1, <2>2 DEF AnswerInv
<1>8. ASSUME NEW t \in Threads, Return(t) PROVE AnswerInv'
  <2>1. ASSUME NEW d, Answered(d) PROVE Answered(d)'
    <3>1. ASSUME NEW u \in Threads, Pending(u, d) PROVE Pending(u, d)' \/ d \in (shown \union lost)'
      BY <1>8, <3>1 DEF Pending, Return
    <3> QED BY <1>8, <2>1, <3>1, AnsweredStays DEF Return
  <2>2. \A d \in Range(seen') : Answered(d)'
    BY <1>0, <1>8, <2>1 DEF AnswerInv, Return
  <2>3. ASSUME NEW u \in Threads, answer'[u] = "marker" PROVE Answered(text[u])'
    BY <1>0, <1>8, <2>1, <2>3 DEF AnswerInv, Return
  <2>4. ASSUME NEW u \in Threads
        PROVE  /\ pc'[u] \in {"idle", "lookup", "note", "work"} => answer'[u] = "none"
               /\ pc'[u] \in {"lookup", "note"} => kind'[u] = "compress" /\ text'[u] \in Contents
               /\ kind'[u] = "compress" /\ pc'[u] # "idle" => text'[u] \in Contents
               /\ answer'[u] = "full" => pc'[u] # "idle"
    BY <1>0, <1>8 DEF AnswerInv, Return
  <2> QED BY <2>2, <2>3, <2>4 DEF AnswerInv
<1> QED BY <1>1, <1>2, <1>3, <1>4, <1>5, <1>6, <1>7, <1>8 DEF Next, Step, Ended
-----------------------------------------------------------------------------
(* The invariant is inductive.                                             *)
LEMMA Invariance == Spec => []IInv
<1>1. Init => IInv
  BY InitIInv
<1>2. IInv /\ [Next]_vars => IInv'
  BY StepTypeOK, StepLockInv, StepAnswerInv DEF IInv
<1> QED BY <1>1, <1>2, PTL DEF Spec

(* Every variable of the session has its type, and no digest is in the     *)
(* cache twice.                                                            *)
THEOREM TypeIsInvariant == Spec => []TypeOK
<1>1. IInv => TypeOK
  BY DEF IInv
<1> QED BY <1>1, Invariance, PTL

(* The check under the lock leaves the session one tracking database at    *)
(* most, closed with the session, whichever calls race to be the first.    *)
THEOREM DatabaseIsBuiltOnce == Spec => []OneTrackingDb
<1>1. IInv => OneTrackingDb
  BY DEF IInv, TypeOK, LockInv, OneTrackingDb
<1> QED BY <1>1, Invariance, PTL

(* Only an environment that passed the import check serves.                *)
THEOREM ServerHasItsImports == Spec => []ServesOnlyImportable
<1>1. IInv => ServesOnlyImportable
  BY DEF IInv, LockInv, ServesOnlyImportable
<1> QED BY <1>1, Invariance, PTL

(* The answer that a marker refers to has been given, has failed or is on  *)
(* its way in another call.                                                *)
THEOREM MarkersHaveAnAnswer == Spec => []SuppressedWasAnswered
<1>1. ASSUME IInv PROVE SuppressedWasAnswered
  <2> SUFFICES ASSUME NEW t \in Threads, answer[t] = "marker",
                      text[t] \notin shown \union lost
               PROVE  \E u \in Threads \ {t} : /\ kind[u] = "compress" /\ text[u] = text[t]
                                               /\ answer[u] \in {"none", "full"}
    BY DEF SuppressedWasAnswered
  <2>1. PICK u \in Threads : Pending(u, text[t])
    BY <1>1 DEF IInv, AnswerInv, Answered
  <2> QED BY <2>1 DEF Pending
<1> QED BY <1>1, Invariance, PTL

(* A digest that answers with a marker is among the MaxSize different ones *)
(* asked for last.                                                         *)
THEOREM MarkersAreRecent == Spec => []SuppressionIsRecent
<1>1. ASSUME IInv PROVE SuppressionIsRecent
  <2>1. /\ seen \in Seq(Contents) /\ Len(seen) <= MaxSize /\ Recent(seen, asked)
        /\ MaxSize \in Nat /\ Len(seen) \in Nat /\ DOMAIN seen = 1 .. Len(seen)
    BY <1>1, McpAssumption DEF IInv, TypeOK, RecencyInv
  <2> SUFFICES ASSUME NEW i \in 1 .. Len(seen)
               PROVE  seen[i] \in RecentlyAsked(MaxSize)
    BY <2>1 DEF SuppressionIsRecent, Range
  <2>2. PICK j \in DOMAIN asked : asked[j] = seen[i] /\ From(asked, j) = From(seen, i)
    BY <2>1 DEF Recent
  <2>3. Cardinality(From(seen, i)) <= MaxSize
    <3>1. IsFiniteSet(i .. Len(seen)) /\ Cardinality(i .. Len(seen)) = Len(seen) - i + 1
      BY <2>1, FS_Interval
    <3>2. Cardinality(From(seen, i)) <= Cardinality(i .. Len(seen)) /\ IsFiniteSet(From(seen, i))
      <4> DEFINE f == [k \in i .. Len(seen) |-> seen[k]]
      <4>1. f \in Surjection(i .. Len(seen), From(seen, i))
        BY DEF Surjection, From
      <4> HIDE DEF f
      <4> QED BY <3>1, <4>1, FS_Surjection
    <3>3. Cardinality(From(seen, i)) \in Nat
      BY <3>2, FS_CardinalityType
    <3> QED BY <2>1, <3>1, <3>2, <3>3
  <2>4. Cardinality({asked[k] : k \in j .. Len(asked)}) <= MaxSize
    BY <2>2, <2>3 DEF From
  <2> QED BY <2>2, <2>4 DEF RecentlyAsked
<1> QED BY <1>1, Invariance, PTL
=============================================================================
