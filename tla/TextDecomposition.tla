------------------------- MODULE TextDecomposition -------------------------
(* A text becomes a decomposition plan: it is decoded, segmented three     *)
(* times, and every segment becomes a composition request over the atoms   *)
(* of its characters (laplace_text_decomposition_plan_create); the same    *)
(* segmentation serves the decomposition provider of a redispatched span.  *)
(*                                                                         *)
(* An encoded text is a sequence of characters, each of a known width in   *)
(* bytes, in which Malformed stands for any ill-formed encoding.           *)
EXTENDS Uax29

CONSTANTS Width,           \* character -> bytes of its encoding
          Malformed,       \* an ill-formed encoding
          Texts,           \* encoded texts
          MaxOrdinal,      \* UINT64_MAX
          FirstOrdinals,   \* first source ordinals of a request
          Bases            \* byte offsets a provider's span may start at

OrdinalsAreBounded == FirstOrdinals \subseteq 0..MaxOrdinal

VARIABLES text,       \* the text under decomposition
          ordinal,    \* the first source ordinal of the input
          base,       \* offset of the text in the content of a provider's span
          client,     \* "plan", or "provider" when the spans go to an emitter
          done,       \* the kinds segmented so far
          spans,      \* the spans collected or emitted so far
          plan,       \* the plan, or NoPlan
          status

vars == <<text, ordinal, base, client, done, spans, plan, status>>

NoPlan == [made |-> FALSE]
Kinds == <<"grapheme", "word", "sentence">>

-----------------------------------------------------------------------------
DecodeUtf8(t) == Malformed \notin ToSet(t)

\* The byte offset of every character, and the byte count at the end.
ByteOffset(t, n) == FoldLeft(LAMBDA sum, c : sum + Width[c], 0, SubSeq(t, 1, n))

\* The segments of a kind from a start on, with the offsets of the
\* caller's bytes.
RECURSIVE EmitSegmentation(_, _, _, _)
EmitSegmentation(kind, t, offset, start) ==
    IF start >= Len(t) THEN <<>>
    ELSE LET end == NextBoundary(kind, t, start)
         IN  <<[kind |-> kind, start |-> start, end |-> end,
                byteStart |-> offset + ByteOffset(t, start), byteEnd |-> offset + ByteOffset(t, end)]>>
             \o EmitSegmentation(kind, t, offset, end)

Init ==
    /\ text \in Texts
    /\ \/ client = "plan" /\ base = 0 /\ ordinal \in FirstOrdinals
       \/ client = "provider" /\ base \in Bases /\ ordinal = 1
    /\ done = 0 /\ spans = <<>> /\ plan = NoPlan
    /\ status = IF text = <<>> \/ ordinal = 0 THEN "invalidArgument"
                ELSE IF ~DecodeUtf8(text) THEN "utf8Invalid" ELSE "running"

\* One call of laplace_uax29_segment; the receiver of the spans takes all of
\* them, or fails at one and ends the decomposition.
Segment ==
    /\ status = "running" /\ done < Len(Kinds)
    /\ LET segments == EmitSegmentation(Kinds[done + 1], text, base, 0)
       IN  \/ /\ spans' = spans \o segments
              /\ done' = done + 1
              /\ UNCHANGED status
           \/ /\ \E n \in 0..(Len(segments) - 1) : spans' = spans \o SubSeq(segments, 1, n)
              /\ status' = "uax29Failure"
              /\ UNCHANGED done
    /\ UNCHANGED <<text, ordinal, base, client, plan>>

EmptyPlan == [made |-> TRUE, atoms |-> <<>>, operands |-> <<>>, requests |-> <<>>]

\* A character met before keeps its atom.
AddAtom(atoms, c) == IF c \in ToSet(atoms) THEN atoms ELSE Append(atoms, c)

\* A span adds a request over as many operands as it has characters.
AddSpan(p, span) ==
    LET characters == SubSeq(text, span.start + 1, span.end)
        atoms == FoldLeft(AddAtom, p.atoms, characters)
        index(c) == CHOOSE i \in DOMAIN atoms : atoms[i] = c
    IN  [p EXCEPT !.atoms = atoms,
                  !.operands = @ \o [i \in DOMAIN characters |-> index(characters[i])],
                  !.requests = Append(@, [first |-> Len(p.operands), count |-> Len(characters),
                                          ordinal |-> ordinal + Len(p.requests)])]

\* The source ordinal is incremented behind every span, the last included.
Overflows == ordinal + Len(spans) > MaxOrdinal

BuildPlan ==
    /\ status = "running" /\ done = Len(Kinds) /\ client = "plan"
    /\ status' = IF Overflows THEN "overflow" ELSE "ok"
    /\ plan' = IF Overflows THEN NoPlan ELSE FoldLeft(AddSpan, EmptyPlan, spans)
    /\ UNCHANGED <<text, ordinal, base, client, done, spans>>

\* The provider's apply returns when the third segmentation has.
ProviderReturns ==
    /\ status = "running" /\ done = Len(Kinds) /\ client = "provider"
    /\ status' = "ok"
    /\ UNCHANGED <<text, ordinal, base, client, done, spans, plan>>

Next == Segment \/ BuildPlan \/ ProviderReturns

Spec == Init /\ [][Next]_vars

-----------------------------------------------------------------------------
(* Properties.                                                             *)

SpansOf(kind) == SelectSeq(spans, LAMBDA span : span.kind = kind)

InnerBoundaries(kind) == {span.end : span \in ToSet(SpansOf(kind))} \ {Len(text)}

\* A pictograph whose joiners do not stand as rule GB11 has them: the scan
\* keeps a pictograph across any number of joiners.
RepeatedJoiner(t) ==
    \E i, j \in DOMAIN t : /\ i < j /\ G(t, i) = "ZWJ" /\ G(t, j) = "ZWJ"
                           /\ \A k \in i..j : G(t, k) \in {"Extend", "ZWJ"}

\* A quote after a Hebrew letter that no letter follows, and an indicator
\* followed by something ignored: what the scan of words does there is not
\* what the rules say.
HebrewQuote(t) == \E i, j \in DOMAIN t : i < j /\ W(t, i) = "HebrewLetter" /\ W(t, j) = "SingleQuote"
InterruptedIndicators(t) == \E i \in 2..Len(t) : W(t, i - 1) = "RI" /\ WordIgnored(W(t, i))

\* The scan for grapheme clusters, which starts anew behind every boundary,
\* finds the boundaries that rules GB1 to GB999 leave in the text.
GraphemesFollowRules ==
    (done >= 1 /\ ~RepeatedJoiner(text)) => InnerBoundaries("grapheme") = GraphemeBoundaries(text)

\* The scan for words finds the boundaries of rules WB1 to WB999, looking
\* over ignored characters in both directions.
WordsFollowRules ==
    (done >= 2 /\ ~HebrewQuote(text) /\ ~InterruptedIndicators(text)) =>
        InnerBoundaries("word") = WordBoundaries(text)

\* The scan for sentences finds the boundaries of rules SB1 to SB998.
SentencesFollowRules ==
    done >= 3 => InnerBoundaries("sentence") = SentenceBoundaries(text)

\* The spans of a finished kind cover the bytes without gap or overlap, and
\* no span splits the bytes of a character.
SpansTileBytes ==
    \A n \in 1..done :
        LET of == SpansOf(Kinds[n])
        IN  /\ of[1].byteStart = base
            /\ \A k \in 2..Len(of) : of[k].byteStart = of[k - 1].byteEnd
            /\ \A k \in DOMAIN of :
                   of[k].byteEnd - of[k].byteStart =
                       MapThenSumSet(LAMBDA i : Width[text[i]], (of[k].start + 1)..of[k].end)
            /\ Last(of).end = Len(text)

\* Every request of a plan spells the characters of its span through atoms
\* that are each listed once, and the ordinals of the requests are distinct
\* and within range.
PlanSpellsText ==
    plan.made =>
        /\ IsInjective(plan.atoms)
        /\ Len(plan.requests) = Len(spans)
        /\ \A k \in DOMAIN spans :
               LET request == plan.requests[k]
               IN  /\ [i \in 1..request.count |-> plan.atoms[plan.operands[request.first + i]]]
                          = SubSeq(text, spans[k].start + 1, spans[k].end)
                   /\ request.ordinal = ordinal + k - 1 /\ request.ordinal <= MaxOrdinal

\* What revision 47 says of graphemes and words, of every text.
GraphemesFollowStandard ==
    done >= 1 => InnerBoundaries("grapheme") = GraphemeBoundaries(text)
WordsFollowStandard ==
    done >= 2 => InnerBoundaries("word") = WordBoundaries(text)
=============================================================================
