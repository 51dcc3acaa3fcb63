----------------------------- MODULE RepoSearch -----------------------------
(***************************************************************************)
(* The search over the cached repository intelligence                      *)
(* (quor/pipeline/repo_profile/search.py): the strength of the evidence    *)
(* that ties a file to a query, the ranking of the files, several queries  *)
(* merged into one list, and the terms taken from a free text              *)
(* (query_extract.py).                                                     *)
(*                                                                         *)
(* A name is a sequence of characters, a path a sequence of names with the *)
(* file's last.                                                            *)
(***************************************************************************)
EXTENDS Integers, Sequences, FiniteSets, FiniteSetsExt, SequencesExt

CONSTANTS Upper,            \* the letters that have a lower case
          Lower,            \* their lower case
          Word,             \* the other letters and digits
          PathBefore        \* the pairs of paths in alphabetical order

None == "(none)"

casefold(name) == [i \in DOMAIN name |-> IF name[i] \in Upper THEN Lower[name[i]] ELSE name[i]]

Holds(name, part) ==
    \E i \in 0..(Len(name) - Len(part)) : SubSeq(name, i + 1, i + Len(part)) = part

(* The name of a file without what follows its last dot. *)
Stem(name) ==
    LET dots == {i \in DOMAIN name : name[i] = "." /\ i > 1 /\ i < Len(name)}
    IN  IF dots = {} THEN name ELSE SubSeq(name, 1, Max(dots) - 1)
-----------------------------------------------------------------------------
_build_reverse_import_index(entries) ==
    [t \in UNION {entries[f].imported_files : f \in DOMAIN entries} |->
        {f \in DOMAIN entries : t \in entries[f].imported_files}]

_dependency_neighbors(entries, path) ==
    LET reverse == _build_reverse_import_index(entries)
    IN  entries[path].imported_files \union
            (IF path \in DOMAIN reverse THEN reverse[path] ELSE {})

_path_tokens(path) ==
    {casefold(Last(path)), casefold(Stem(Last(path)))}
        \union {casefold(path[i]) : i \in 1..(Len(path) - 1)}

_EVIDENCE_PRIORITY ==
    <<"exact_symbol", "exact_filename", "exact_directory", "prefix_symbol", "filename_contains",
      "top_symbol", "dependency">>

Priority(evidence) == CHOOSE i \in DOMAIN _EVIDENCE_PRIORITY : _EVIDENCE_PRIORITY[i] = evidence

Qualifies(entries, path, evidence, query) ==
    LET symbols == {casefold(s) : s \in ToSet(entries[path].top_symbols)}
        file == Last(path)
    IN  CASE evidence = "exact_symbol" -> query \in symbols
          [] evidence = "exact_filename" -> query \in {casefold(file), casefold(Stem(file))}
          [] evidence = "exact_directory" -> query \in _path_tokens(path)
          [] evidence = "prefix_symbol" -> \E s \in symbols : IsPrefix(query, s)
          [] evidence = "filename_contains" -> Holds(casefold(file), query)
          [] evidence = "top_symbol" -> \E s \in symbols : Holds(s, query)
          [] evidence = "dependency" ->
                 \E n \in _dependency_neighbors(entries, path) : query \in _path_tokens(n)

(* The strongest evidence there is, None without any. *)
_best_evidence(entries, path, query) ==
    LET found == {i \in DOMAIN _EVIDENCE_PRIORITY :
                     Qualifies(entries, path, _EVIDENCE_PRIORITY[i], query)}
    IN  IF found = {} THEN None ELSE _EVIDENCE_PRIORITY[Min(found)]
-----------------------------------------------------------------------------
_IMPORTANCE_RANK == [High |-> 0, Medium |-> 1, Low |-> 2]

Abs(n) == IF n < 0 THEN -n ELSE n

(* Everything but the path, which decides among the equal. *)
_sort_key(entries, match, query) ==
    LET entry == entries[match.path]
        distance == Abs(Len(Last(match.path)) - Len(query))
    IN  <<Priority(match.evidence), IF entry.entry_point THEN 0 ELSE 1,
          _IMPORTANCE_RANK[entry.importance],
          IF match.evidence \in {"exact_filename", "filename_contains"} THEN distance ELSE 0>>

LessKey(a, b) == \E i \in DOMAIN a : a[i] < b[i] /\ \A j \in 1..(i - 1) : a[j] = b[j]

FirstOf(seq, limit) == SubSeq(seq, 1, IF Len(seq) < limit THEN Len(seq) ELSE limit)

(* The filters are those of the command; a filter of None keeps all. *)
Passes(entry, filters) ==
    /\ filters.kind \in {None, entry.kind}
    /\ filters.importance \in {None, entry.importance}
    /\ filters.language \in {None, entry.language}
    /\ filters.entry_points_only => entry.entry_point

NoFilters == [kind |-> None, importance |-> None, language |-> None, entry_points_only |-> FALSE]

Precedes(keys, m, n) ==
    LessKey(keys[m], keys[n]) \/ (keys[m] = keys[n] /\ <<m.path, n.path>> \in PathBefore)

RankedBefore(matches, keys, m) == {n \in matches : Precedes(keys, n, m)}

Ranked(matches, keys) ==
    [k \in 1..Cardinality(matches) |->
        CHOOSE m \in matches : Cardinality(RankedBefore(matches, keys, m)) = k - 1]

Matches(entries, query, filters) ==
    {m \in {[path |-> p, evidence |-> _best_evidence(entries, p, casefold(query))] :
                p \in {q \in DOMAIN entries : Passes(entries[q], filters)}} : m.evidence # None}

SortKeys(entries, matches, query) == [m \in matches |-> _sort_key(entries, m, query)]

Cut(ranked, limit) ==
    [matches |-> FirstOf(ranked, limit), total_candidates |-> Len(ranked), truncated |-> Len(ranked) > limit]

search(entries, query, filters, limit) ==
    LET matches == Matches(entries, query, filters)
    IN  Cut(Ranked(matches, SortKeys(entries, matches, query)), limit)

(* A slip: the weaker of two pieces of evidence takes the place. *)
Weakest(found, path) ==
    LET own == {m \in found : m.path = path}
    IN  CHOOSE m \in own : \A n \in own : Priority(n.evidence) <= Priority(m.evidence)

(* The strongest evidence of a file over all the queries. *)
Strongest(found, path) ==
    LET own == {m \in found : m.path = path}
    IN  CHOOSE m \in own : \A n \in own : Priority(m.evidence) <= Priority(n.evidence)

(* Each query is cut to `limit` by itself. *)
FoundBy(entries, queries, limit) ==
    UNION {ToSet(search(entries, queries[i], NoFilters, limit).matches) : i \in DOMAIN queries}

BestOf(found) == {Strongest(found, m.path) : m \in found}

Tiers(matches) == [m \in matches |-> <<Priority(m.evidence)>>]

merge_search(entries, queries, limit, exclude) ==
    LET best == BestOf({m \in FoundBy(entries, queries, limit) : m.path \notin exclude})
    IN  FirstOf(Ranked(best, Tiers(best)), limit)
-----------------------------------------------------------------------------
Joiners == {".", "/", "\\", "-"}

(* What is left of a word without the joiners at its ends. *)
Stripped(word) ==
    LET kept == {i \in DOMAIN word : word[i] \notin Joiners}
    IN  IF kept = {} THEN <<>> ELSE SubSeq(word, Min(kept), Max(kept))

(* A bare word is a term when it looks like a name in code. *)
_qualify_bare_word(word) ==
    LET stripped == Stripped(word)
        chars == ToSet(stripped)
        transition == \E i \in 1..(Len(stripped) - 1) :
                          stripped[i] \in Word /\ stripped[i + 1] \in Upper
    IN  IF /\ chars \intersect (Word \union Upper) # {}
           /\ chars \intersect {"_", "/", "\\", "."} # {} \/ transition
        THEN stripped
        ELSE <<>>

Candidate(token) == IF token.quoted THEN token.text ELSE _qualify_bare_word(token.text)

(* The places of the terms: those of a spelling no earlier term has. *)
Places(text) ==
    {i \in DOMAIN text :
        /\ Candidate(text[i]) # <<>>
        /\ \A j \in 1..(i - 1) : casefold(Candidate(text[j])) # casefold(Candidate(text[i]))}

PlaceAt(text, k) == CHOOSE i \in Places(text) : Cardinality({j \in Places(text) : j < i}) = k - 1

(* The terms of a text, each once whatever its case, up to `limit`. *)
extract_query_terms(text, limit) ==
    FirstOf([k \in 1..Cardinality(Places(text)) |-> Candidate(text[PlaceAt(text, k)])], limit)
-----------------------------------------------------------------------------
(* search.py: a shorter list is the beginning of a longer one, and says    *)
(* that it was cut exactly when it was.                                    *)
ShorterListIsABeginning(short, long) ==
    /\ IsPrefix(short.matches, long.matches)
    /\ short.truncated <=> Len(long.matches) > Len(short.matches)

(* search.py, merge_search: although every query is cut by itself, each    *)
(* file of the merged list has its strongest evidence over all queries,    *)
(* and no stronger one is missing from the list.                           *)
MergeLosesNoStrongerFile(merged, evidences, limit) ==
    LET Best(path) == Min({Priority(e) : e \in evidences[path] \ {None}})
        found == {p \in DOMAIN evidences : evidences[p] # {None}}
    IN  /\ Len(merged) = Min({limit, Cardinality(found)})
        /\ \A i \in DOMAIN merged :
               /\ Priority(merged[i].evidence) = Best(merged[i].path)
               /\ \A p \in found : Best(p) < Best(merged[i].path) =>
                      \E j \in 1..(i - 1) : merged[j].path = p

(* query_extract.py: the terms do not repeat, and a longer text only adds  *)
(* terms behind those there are.                                           *)
TermsComeInOrder(text, limit) ==
    LET terms == extract_query_terms(text, limit)
    IN  /\ Cardinality({casefold(terms[i]) : i \in DOMAIN terms}) = Len(terms)
        /\ \A n \in 0..Len(text) : IsPrefix(extract_query_terms(SubSeq(text, 1, n), limit), terms)
=============================================================================
