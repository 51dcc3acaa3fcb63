------------------------------- MODULE Masks -------------------------------
(***************************************************************************)
(* Content masks: quor/pipeline/mask.py and the two helpers of             *)
(* quor/pipeline/engine.py that read or repair one.  A mask is a sequence  *)
(* of lines, each a text and a decision; a text is whatever the stages     *)
(* make of it, so it is left to the modules that use this one.             *)
(***************************************************************************)
EXTENDS Naturals, Sequences, FiniteSets

Decisions == {"KEEP", "COMPRESS", "PROTECT"}

Line(Texts) == [text : Texts, decision : Decisions]

Mask(Texts) == Seq(Line(Texts))

LineOf(text, decision) == [text |-> text, decision |-> decision]

(* ContentMask.from_text: every line of the text starts as KEEP. *)
FromText(lines) == [i \in DOMAIN lines |-> LineOf(lines[i], "KEEP")]

(* The positions of m that carry decision d. *)
Decided(m, d) == {i \in DOMAIN m : m[i].decision = d}

(* ContentMask.render: the lines that are not COMPRESS, in order. *)
Visible(m) == DOMAIN m \ Decided(m, "COMPRESS")

Rank(S, i) == Cardinality({j \in S : j <= i})

InOrder(shown) ==
    [k \in 1 .. Cardinality(DOMAIN shown) |->
        shown[CHOOSE i \in DOMAIN shown : Rank(DOMAIN shown, i) = k]]

Shown(m) == [i \in Visible(m) |-> m[i].text]

Render(m) == InOrder(Shown(m))

(* _mask_fully_decided: no line is still KEEP. *)
FullyDecided(m) == Decided(m, "KEEP") = {}

(* A slip: the stage's mask is taken as it comes. *)
EnforceNothing(original, updated) == updated

(* _enforce_protect: a line that was PROTECT is PROTECT again, with the    *)
(* text the stage gave it; a mask whose line count changed is let through  *)
(* as it is.                                                               *)
EnforceProtect(original, updated) ==
    IF Len(original) # Len(updated)
    THEN updated
    ELSE [i \in DOMAIN updated |->
            IF original[i].decision = "PROTECT"
            THEN LineOf(updated[i].text, "PROTECT")
            ELSE updated[i]]
=============================================================================
