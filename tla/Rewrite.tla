------------------------------ MODULE Rewrite ------------------------------
(***************************************************************************)
(* Command rewriting (quor/rewrite): the lexer over classes of characters, *)
(* and the classifier that puts quor in front of the commands it knows,    *)
(* over tokens.                                                            *)
(*                                                                         *)
(* A character is one of "w" (a letter or any other character of a word),  *)
(* "7" (a digit), "=", "\\", "'", "\"", " ", "&", "|", ";", "<", ">".  A   *)
(* token has its kind and its value: for the lexer the characters it was   *)
(* made of, for the classifier the name of a word.                         *)
(***************************************************************************)
EXTENDS Integers, Sequences, FiniteSets, SequencesExt

Operators == {"&&", "||", ";", "&", "|", "<<"}
CompoundOperators == {"&&", "||", ";"}

_WORD_STOP_CHARS == {" ", "&", "|", ";", "<", ">"}
_PLAIN_STOP_CHARS == _WORD_STOP_CHARS \union {"'", "\""}

AtMost(i, n) == IF i <= n THEN i ELSE n

(* The position of the quote that closes a single-quoted fragment, or one  *)
(* past the end.                                                           *)
SingleEnd(cmd, start) ==
    LET quotes == {j \in start..Len(cmd) : cmd[j] = "'"}
    IN  IF quotes = {} THEN Len(cmd) + 1 ELSE CHOOSE j \in quotes : \A k \in quotes : j <= k

(* The first stop from start on that no backslash escapes. *)
StopAt(cmd, start, stops) ==
    LET Scan[j \in start..Len(cmd) + 2] ==
            IF j > Len(cmd) \/ cmd[AtMost(j, Len(cmd))] \in stops THEN AtMost(j, Len(cmd) + 1)
            ELSE IF cmd[j] = "\\" /\ j < Len(cmd) THEN Scan[j + 2] ELSE Scan[j + 1]
    IN  Scan[start]

(* A word: quoted and plain fragments up to a character that stops it. *)
WordEnd(cmd, start) ==
    LET Scan[i \in start..Len(cmd) + 2] ==
            IF i > Len(cmd) THEN Len(cmd) + 1
            ELSE IF cmd[i] \in _WORD_STOP_CHARS THEN i
            ELSE IF cmd[i] = "'" THEN Scan[SingleEnd(cmd, i + 1) + 1]
            ELSE IF cmd[i] = "\"" THEN Scan[StopAt(cmd, i + 1, {"\""}) + 1]
            ELSE Scan[StopAt(cmd, i, _PLAIN_STOP_CHARS)]
    IN  Scan[start]

SoloQuoted(word) ==
    \/ word[1] = "'" /\ SingleEnd(word, 2) >= Len(word)
    \/ word[1] = "\"" /\ StopAt(word, 2, {"\""}) >= Len(word)

IsAssignment(word) ==
    \E eq \in 2..Len(word) :
        word[eq] = "=" /\ word[1] = "w" /\ \A k \in 1..eq - 1 : word[k] \in {"w", "7"}

WordKind(word) ==
    CASE SoloQuoted(word) -> "quoted"
      [] ~SoloQuoted(word) /\ IsAssignment(word) -> "env"
      [] OTHER -> "word"

(* The length of the operator at i, 0 when there is none; two characters   *)
(* are tried before one.                                                   *)
OperatorAt(cmd, i) ==
    LET two == IF i < Len(cmd) THEN cmd[i] \o cmd[i + 1] ELSE ""
    IN  IF two \in Operators THEN 2 ELSE IF cmd[i] \in Operators THEN 1 ELSE 0

(* Where a redirection that starts at i ends, digits in front included,    *)
(* or i when there is none.                                                *)
RedirectEnd(cmd, i) ==
    LET Digits[k \in i..Len(cmd) + 1] ==
            IF k <= Len(cmd) /\ cmd[AtMost(k, Len(cmd))] = "7" THEN Digits[k + 1] ELSE k
        arrow == Digits[i]
    IN  IF arrow > Len(cmd) \/ cmd[AtMost(arrow, Len(cmd))] \notin {">", "<"} THEN i
        ELSE IF arrow < Len(cmd) /\ cmd[arrow + 1] \in {">", "&"} THEN arrow + 2
        ELSE arrow + 1

tokenize(cmd) ==
    LET Text(i, end) == SubSeq(cmd, i, AtMost(end - 1, Len(cmd)))
        From[i \in 1..Len(cmd) + 2] ==
            IF i > Len(cmd) THEN <<>>
            ELSE IF cmd[i] = " " THEN From[i + 1]
            ELSE LET op == OperatorAt(cmd, i)
                     redirect == RedirectEnd(cmd, i)
                     word == WordEnd(cmd, i)
                 IN  IF op > 0
                     THEN <<[kind |-> IF op = 2 THEN cmd[i] \o cmd[i + 1] ELSE cmd[i],
                             value |-> Text(i, i + op)]>> \o From[i + op]
                     ELSE IF redirect > i
                     THEN <<[kind |-> "redirect", value |-> Text(i, redirect)]>> \o From[redirect]
                     ELSE <<[kind |-> WordKind(Text(i, word)), value |-> Text(i, word)]>>
                          \o From[word]
    IN  From[1]
-----------------------------------------------------------------------------
(* The classifier. *)
Quor == [kind |-> "word", value |-> "quor"]

Kept(tokens) == [rewrite |-> FALSE, out |-> tokens]

(* The pieces between the tokens of the given kinds. *)
SplitAt(tokens, kinds) ==
    LET step(acc, t) ==
            IF t.kind \in kinds THEN [acc EXCEPT !.parts = Append(@, acc.part), !.part = <<>>]
            ELSE [acc EXCEPT !.part = Append(@, t)]
        end == FoldLeft(step, [parts |-> <<>>, part |-> <<>>], tokens)
    IN  Append(end.parts, end.part)

has_heredoc(tokens) == \E i \in DOMAIN tokens : tokens[i].kind = "<<"

(* A slip: a redirection is not an argument. *)
WordsOnly(tokens) == SelectSeq(tokens, LAMBDA t : t.kind \in {"word", "quoted", "env"})

(* A lone "&" is no argument, and not an operator that splits either. *)
parse_args(tokens) ==
    SelectSeq(tokens, LAMBDA t : t.kind \in {"word", "quoted", "env", "redirect"})

Values(words) == [i \in DOMAIN words |-> words[i].value]

is_transparent_prefix(words) ==
    LET v == Values(words)
    IN  IF words = <<>> THEN 0
        ELSE IF v[1] \in {"sudo", "doas", "bunx", "deno", "time", "env", "nice"} THEN 1
        ELSE IF Len(v) > 2 /\ v[1] \in {"docker", "podman"} /\ v[2] = "exec" THEN 3 ELSE 0

_KNOWN_BASE_COMMANDS == {"git", "pytest", "mypy", "ruff", "cat", "npm"}
_KNOWN_PYTHON_SUBCOMMANDS == {"pytest", "mypy", "ruff", "pip", "poetry"}

is_known_command(base, args) ==
    LET arg(i) == IF i <= Len(args) THEN args[i] ELSE ""
    IN  CASE base \in {"python", "python3"} ->
               arg(1) = "-m" /\ arg(2) \in _KNOWN_PYTHON_SUBCOMMANDS
          [] base = "docker-compose" -> arg(1) \in {"build", "logs"}
          [] base = "docker" ->
               \/ arg(1) \in {"build", "logs"}
               \/ arg(1) = "buildx" /\ arg(2) = "build"
               \/ arg(1) = "compose" /\ arg(2) \in {"build", "logs"}
          [] base = "gh" -> arg(1) = "run" /\ arg(2) \in {"view", "watch"}
          [] base = "kubectl" -> arg(1) = "logs"
          [] OTHER -> base \in _KNOWN_BASE_COMMANDS

STRUCTURED_OUTPUT_FLAGS == {"--json", "--format=json", "--output=json", "--porcelain"}
ShortFlags == {"-n", "-b", "-v", "-e", "-A", "-m"}
CAT_SAFE_FLAGS == {"-n", "-b", "--number", "--number-nonblank"}
PIPE_INCOMPATIBLE_COMMANDS == {"xargs", "awk", "sed", "perl", "python", "python3", "jq", "fx"}

has_structured_output_flag(args) == ToSet(args) \intersect STRUCTURED_OUTPUT_FLAGS # {}
cat_is_safe_to_rewrite(args) == ToSet(args) \intersect ShortFlags \subseteq CAT_SAFE_FLAGS
pipe_segment_is_safe(segment) ==
    segment = <<>> \/ segment[1].value \notin PIPE_INCOMPATIBLE_COMMANDS

_classify_simple(tokens) ==
    LET words == parse_args(tokens)
        Env[i \in 0..Len(tokens)] ==
            i < Len(tokens) /\ tokens[i + 1].kind = "env"
        envs == CHOOSE k \in 0..Len(tokens) : ~Env[k] /\ \A j \in 0..k - 1 : Env[j]
        prefix == envs + is_transparent_prefix(SubSeq(words, envs + 1, Len(words)))
        values == Values(SubSeq(words, prefix + 1, Len(words)))
    IN  IF values = <<>> THEN Kept(tokens)
        ELSE IF \/ has_structured_output_flag(Tail(values))
                \/ values[1] = "cat" /\ ~cat_is_safe_to_rewrite(Tail(values))
                \/ ~is_known_command(values[1], Tail(values))
        THEN Kept(tokens)
        ELSE [rewrite |-> TRUE, out |-> SubSeq(words, 1, prefix) \o <<Quor>>
                                         \o SubSeq(words, prefix + 1, Len(words))]

(* Every segment but the first must be able to read what quor prints. *)
Piped(tokens, segments, first) ==
    IF (\A i \in 2..Len(segments) : pipe_segment_is_safe(segments[i])) /\ first.rewrite
    THEN [rewrite |-> TRUE, out |-> first.out \o SubSeq(tokens, Len(segments[1]) + 1, Len(tokens))]
    ELSE Kept(tokens)

_classify_piped(tokens) ==
    LET segments == SplitAt(tokens, {"|"})
    IN  Piped(tokens, segments, _classify_simple(segments[1]))

ClassifySegment(tokens) ==
    IF \E i \in DOMAIN tokens : tokens[i].kind = "|" THEN _classify_piped(tokens)
    ELSE _classify_simple(tokens)

(* Each segment on its own; the operators stay between them. *)
Rejoined(results, operators) ==
    LET out == [i \in DOMAIN results |->
                   results[i].out \o IF i <= Len(operators) THEN <<operators[i]>> ELSE <<>>]
    IN  [rewrite |-> \E i \in DOMAIN results : results[i].rewrite, out |-> FlattenSeq(out)]

_classify_compound(tokens) ==
    LET segments == SplitAt(tokens, CompoundOperators)
        operators == SelectSeq(tokens, LAMBDA t : t.kind \in CompoundOperators)
    IN  Rejoined([i \in DOMAIN segments |-> ClassifySegment(segments[i])], operators)

classify_command(tokens) ==
    IF tokens = <<>> \/ has_heredoc(tokens) THEN Kept(tokens)
    ELSE IF \E i \in DOMAIN tokens : tokens[i].kind \in CompoundOperators
    THEN _classify_compound(tokens)
    ELSE ClassifySegment(tokens)
-----------------------------------------------------------------------------
(* Whether the character at i stands inside quotes or after a backslash:   *)
(* the shell's own rule, one character after the other.                    *)
Quoting(cmd) ==
    LET step(s, c) ==
            CASE s = "escape" -> "plain"
              [] s = "escape\"" -> "\""
              [] s = "plain" -> IF c \in {"'", "\""} THEN c
                                ELSE IF c = "\\" THEN "escape" ELSE "plain"
              [] s = "'" -> IF c = "'" THEN "plain" ELSE "'"
              [] s = "\"" -> IF c = "\"" THEN "plain"
                             ELSE IF c = "\\" THEN "escape\"" ELSE "\""
    IN  [i \in DOMAIN cmd |-> FoldLeft(step, "plain", SubSeq(cmd, 1, i - 1))]

Unblanked(cmd) ==
    LET quoting == Quoting(cmd)
        bare == SelectSeq([i \in DOMAIN cmd |-> i],
                          LAMBDA i : ~(cmd[i] = " " /\ quoting[i] = "plain"))
    IN  [k \in DOMAIN bare |-> cmd[bare[k]]]

Bare(cmd, chars) == {i \in DOMAIN cmd : cmd[i] \in chars /\ Quoting(cmd)[i] = "plain"}

(* tokenize: the tokens hold every character but the blanks between them,  *)
(* in order; an operator inside quotes or behind a backslash is never one, *)
(* so only bare characters make operators; and lexing the joined tokens    *)
(* again, as split_compound and the pipes do, gives the same tokens.       *)
LexerIsExact(cmd) ==
    LET tokens == tokenize(cmd)
        texts == [i \in DOMAIN tokens |-> tokens[i].value]
        OfKind(kinds) == SelectSeq(tokens, LAMBDA t : t.kind \in kinds)
        joined == FlattenSeq([i \in DOMAIN texts |->
                                  IF i = 1 THEN texts[i] ELSE <<" ">> \o texts[i]])
    IN  /\ FlattenSeq(texts) = Unblanked(cmd)
        /\ Len(OfKind({";"})) = Cardinality(Bare(cmd, {";"}))
        /\ 2 * Len(OfKind({"||"})) + Len(OfKind({"|"})) = Cardinality(Bare(cmd, {"|"}))
        /\ tokenize(joined) = tokens

(* classify_command: a rewritten command is the command with quor put in   *)
(* front of some of its simple commands, at most one per segment; nothing  *)
(* else is added, lost or moved.  A lone "&" is the exception.             *)
RewriteAddsOnlyQuor(tokens, result) ==
    LET plain == SelectSeq(result.out, LAMBDA t : t # Quor)
        pieces == SplitAt(result.out, CompoundOperators \union {"|"})
    IN  (\A i \in DOMAIN tokens : tokens[i].kind # "&") =>
            /\ plain = tokens
            /\ result.rewrite = (result.out # tokens)
            /\ \A i \in DOMAIN pieces : Len(SelectSeq(pieces[i], LAMBDA t : t = Quor)) <= 1

(* Nothing whose output another program parses is rewritten. *)
ParsedOutputIsLeft(result) ==
    LET pieces == SplitAt(result.out, CompoundOperators)
    IN  \A i \in DOMAIN pieces :
            Quor \in ToSet(pieces[i]) =>
                LET piped == SplitAt(pieces[i], {"|"})
                IN  /\ Quor \in ToSet(piped[1])
                    /\ \A k \in 2..Len(piped) :
                           piped[k] = <<>> \/ piped[k][1].value \notin PIPE_INCOMPATIBLE_COMMANDS
                    /\ \A q \in DOMAIN piped[1], j \in DOMAIN piped[1] :
                           q < j /\ piped[1][q] = Quor =>
                               piped[1][j].value \notin STRUCTURED_OUTPUT_FLAGS
=============================================================================
