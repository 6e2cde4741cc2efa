------------------------------- MODULE Uax29 -------------------------------
(* Text segmentation: where GraphemeNext, WordNext and SentenceNext put    *)
(* the next boundary of a text.                                            *)
(*                                                                         *)
(* A text is a sequence of characters and Property gives the five property *)
(* values the tables hold for each of them. A boundary is the number of    *)
(* characters in front of it, so the loop index of the code is the number  *)
(* of characters before the one it looks at.                               *)
EXTENDS Integers, Sequences, SequencesExt, FiniteSets

CONSTANT Property    \* character -> [g, w, s, incb, ep]

G(t, i) == Property[t[i]].g
W(t, i) == Property[t[i]].w
S(t, i) == Property[t[i]].s
I(t, i) == Property[t[i]].incb
EP(t, i) == Property[t[i]].ep

\* The length of the run of regional indicators that ends at index i.
RunBack(classes, i) ==
    LET starts == {j \in 1..i : \A k \in j..i : classes[k] = "RI"}
    IN  IF starts = {} THEN 0 ELSE i - Min(starts) + 1

GraphemeClasses(t) == [i \in DOMAIN t |-> G(t, i)]
WordClasses(t) == [i \in DOMAIN t |-> W(t, i)]

-----------------------------------------------------------------------------
(* Grapheme clusters.                                                      *)

GraphemeControls == {"Control", "CR", "LF"}

\* What the scan remembers at its first character.
GraphemeStart(t, from) ==
    [ri |-> RunBack(GraphemeClasses(t), from + 1),
     pictograph |-> EP(t, from + 1), consonant |-> I(t, from + 1) = "Consonant", linker |-> FALSE]

\* Regional indicators pair up from the start of their run.
PairIndicators(t, i, seen) ==
    G(t, i) = "RI" /\ G(t, i + 1) = "RI" /\ seen.ri % 2 = 1

\* No boundary between characters i and i + 1.
GraphemeJoins(t, i, seen) ==
    LET p == G(t, i)
        c == G(t, i + 1)
    IN  \/ p = "CR" /\ c = "LF"
        \/ /\ p \notin GraphemeControls /\ c \notin GraphemeControls
           /\ \/ p = "L" /\ c \in {"L", "V", "LV", "LVT"}
              \/ p \in {"LV", "V"} /\ c \in {"V", "T"}
              \/ p \in {"LVT", "T"} /\ c = "T"
              \/ c \in {"Extend", "ZWJ", "SpacingMark"}
              \/ p = "Prepend"
              \/ seen.consonant /\ seen.linker /\ I(t, i + 1) = "Consonant"
              \/ seen.pictograph /\ p = "ZWJ" /\ EP(t, i + 1)
              \/ PairIndicators(t, i, seen)

\* What the scan remembers after joining character i.
GraphemeSeen(t, i, seen) ==
    [ri |-> IF G(t, i) = "RI" THEN seen.ri + 1 ELSE 0,
     pictograph |-> EP(t, i) \/ (seen.pictograph /\ G(t, i) \in {"Extend", "ZWJ"}),
     consonant |-> I(t, i) = "Consonant" \/ (seen.consonant /\ I(t, i) \in {"Linker", "Extend"}),
     linker |-> \/ I(t, i) = "Linker" /\ (seen.consonant \/ seen.linker)
                \/ I(t, i) = "Extend" /\ seen.linker]

RECURSIVE GraphemeScan(_, _, _)
GraphemeScan(t, i, seen) ==
    IF i >= Len(t) THEN Len(t)
    ELSE IF ~GraphemeJoins(t, i, seen) THEN i
    ELSE GraphemeScan(t, i + 1, GraphemeSeen(t, i + 1, seen))

GraphemeNext(t, from) ==
    IF from + 1 >= Len(t) THEN Len(t) ELSE GraphemeScan(t, from + 1, GraphemeStart(t, from))

-----------------------------------------------------------------------------
(* Words.                                                                  *)

Newlines == {"Newline", "CR", "LF"}
WordIgnored(value) == value \in {"Extend", "Format", "ZWJ"}
AhLetter(value) == value \in {"ALetter", "HebrewLetter"}
MidLetterOrQuote(value) == value \in {"MidLetter", "MidNumLet", "SingleQuote"}
MidNumOrQuote(value) == value \in {"MidNum", "MidNumLet", "SingleQuote"}
Wb13bRight(value) == AhLetter(value) \/ value \in {"Numeric", "Katakana"}
Wb13aLeft(value) == Wb13bRight(value) \/ value = "ExtendNumLet"

\* Fault: the character right before is taken, ignored or not.
PreviousAdjacent(t, i) == i - 1

\* The last character before index i that is not ignored, 0 when none is.
PreviousSignificant(t, i) ==
    LET significant == {j \in 1..(i - 1) : ~WordIgnored(W(t, j))}
    IN  IF significant = {} THEN 0 ELSE Max(significant)

\* Its class, and the class of the first one behind index i.
PreviousClass(t, i) ==
    LET j == PreviousSignificant(t, i) IN IF j = 0 THEN "none" ELSE W(t, j)
NextClass(t, i) ==
    LET significant == {j \in (i + 1)..Len(t) : ~WordIgnored(W(t, j))}
    IN  IF significant = {} THEN "none" ELSE W(t, Min(significant))

\* The rules over the classes of the last significant character and the
\* current one, of what stands before and behind them, and the length of
\* the run of indicators. The letter and quote rules stand before the one
\* for a Hebrew letter and a quote and catch what it would.
WordRules(before, p, c, after, ri) ==
    \/ AhLetter(p) /\ AhLetter(c)
    \/ AhLetter(p) /\ MidLetterOrQuote(c) /\ AhLetter(after)
    \/ MidLetterOrQuote(p) /\ AhLetter(c) /\ AhLetter(before)
    \/ p = "HebrewLetter" /\ c = "SingleQuote" /\ ~(AhLetter(p) /\ MidLetterOrQuote(c))
    \/ p = "HebrewLetter" /\ c = "DoubleQuote" /\ after = "HebrewLetter"
    \/ p = "DoubleQuote" /\ c = "HebrewLetter" /\ before = "HebrewLetter"
    \/ p = "Numeric" /\ (c = "Numeric" \/ AhLetter(c))
    \/ AhLetter(p) /\ c = "Numeric"
    \/ MidNumOrQuote(p) /\ c = "Numeric" /\ before = "Numeric"
    \/ p = "Numeric" /\ MidNumOrQuote(c) /\ after = "Numeric"
    \/ p = "Katakana" /\ c = "Katakana"
    \/ Wb13aLeft(p) /\ c = "ExtendNumLet"
    \/ p = "ExtendNumLet" /\ Wb13bRight(c)
    \/ p = "RI" /\ c = "RI" /\ ri % 2 = 1

WordJoins(t, i, ri) ==
    LET p == W(t, i)
        c == W(t, i + 1)
        j == PreviousSignificant(t, i + 1)
    IN  \/ p = "CR" /\ c = "LF"
        \/ /\ p \notin Newlines /\ c \notin Newlines
           /\ \/ p = "ZWJ" /\ EP(t, i + 1)
              \/ p = "WSegSpace" /\ c = "WSegSpace"
              \/ WordIgnored(c)
              \/ j # 0 /\ WordRules(PreviousClass(t, j), W(t, j), c, NextClass(t, i + 1), ri)

RECURSIVE WordScan(_, _, _)
WordScan(t, i, ri) ==
    IF i >= Len(t) THEN Len(t)
    ELSE IF ~WordJoins(t, i, ri) THEN i
    ELSE WordScan(t, i + 1, IF W(t, i + 1) = "RI" THEN ri + 1 ELSE IF WordIgnored(W(t, i + 1)) THEN ri ELSE 0)

WordNext(t, from) ==
    IF from + 1 >= Len(t) THEN Len(t)
    ELSE WordScan(t, from + 1, RunBack(WordClasses(t), from + 1))

-----------------------------------------------------------------------------
(* Sentences.                                                              *)

Separators == {"Sep", "CR", "LF"}
SentenceIgnored(value) == value \in {"Extend", "Format"}

\* The classes of the first n characters that are not ignored.
SignificantClasses(t, n) ==
    SelectSeq([k \in 1..n |-> S(t, k)], LAMBDA value : ~SentenceIgnored(value))

\* s without the longest run of value at its end.
RECURSIVE WithoutTrailing(_, _)
WithoutTrailing(s, value) ==
    IF s # <<>> /\ Last(s) = value THEN WithoutTrailing(Front(s), value) ELSE s

\* The terminator in front of character i behind closers and then spaces:
\* its class or "none", and whether there were spaces.
TrailingTerm(t, i) ==
    LET before == SignificantClasses(t, i - 1)
        unspaced == WithoutTrailing(before, "Sp")
        term == WithoutTrailing(unspaced, "Close")
    IN  [class |-> IF term # <<>> /\ Last(term) \in {"ATerm", "STerm"} THEN Last(term) ELSE "none",
         spaces |-> unspaced # before]

\* From character i on, a lower case letter comes before anything that
\* starts a sentence.
Sb8FindsLower(t, i) ==
    LET stops == {j \in i..Len(t) : S(t, j) \in {"Lower", "OLetter", "Upper", "STerm", "ATerm"} \cup Separators}
    IN  stops # {} /\ S(t, Min(stops)) = "Lower"

Sb7Matches(t, i) ==
    LET before == SignificantClasses(t, i - 1)
        n == Len(before)
    IN  S(t, i) = "Upper" /\ n > 1 /\ before[n] = "ATerm" /\ before[n - 1] \in {"Upper", "Lower"}

\* Whether the loop goes on at character i: no boundary in front of it.
SentenceContinues(t, i) ==
    LET c == S(t, i)
        before == SignificantClasses(t, i - 1)
        term == TrailingTerm(t, i)
    IN  \/ S(t, i - 1) = "CR" /\ c = "LF"
        \/ /\ S(t, i - 1) \notin Separators
           /\ \/ SentenceIgnored(c)
              \/ before # <<>> /\ Last(before) = "ATerm" /\ c = "Numeric"
              \/ Sb7Matches(t, i)
              \/ term.class = "none"
              \/ term.class = "ATerm" /\ Sb8FindsLower(t, i)
              \/ c \in {"SContinue", "STerm", "ATerm"}
              \/ ~term.spaces /\ c = "Close"
              \/ c \in {"Sp"} \cup Separators

SentenceNext(t, from) ==
    LET breaks == {i \in (from + 2)..Len(t) : ~SentenceContinues(t, i)}
    IN  IF breaks = {} THEN Len(t) ELSE Min(breaks) - 1

-----------------------------------------------------------------------------
NextBoundary(kind, t, from) ==
    CASE kind = "grapheme" -> GraphemeNext(t, from)
      [] kind = "word" -> WordNext(t, from)
      [] kind = "sentence" -> SentenceNext(t, from)

-----------------------------------------------------------------------------
(* The rules of the standard, revision 47, as the reference: for each      *)
(* place between two characters, whether a rule forbids a boundary there,  *)
(* looking at the text only.                                               *)

\* GB3 to GB999.
GraphemeForbids(t, i) ==
    LET p == G(t, i)
        c == G(t, i + 1)
    IN  \/ p = "CR" /\ c = "LF"
        \/ /\ p \notin GraphemeControls /\ c \notin GraphemeControls
           /\ \/ p = "L" /\ c \in {"L", "V", "LV", "LVT"}
              \/ p \in {"LV", "V"} /\ c \in {"V", "T"}
              \/ p \in {"LVT", "T"} /\ c = "T"
              \/ c \in {"Extend", "ZWJ", "SpacingMark"} \/ p = "Prepend"
              \/ /\ I(t, i + 1) = "Consonant"
                 /\ \E j \in 1..i : /\ I(t, j) = "Consonant"
                                    /\ \A k \in (j + 1)..i : I(t, k) \in {"Linker", "Extend"}
                                    /\ \E k \in (j + 1)..i : I(t, k) = "Linker"
              \/ /\ EP(t, i + 1) /\ p = "ZWJ"
                 /\ \E j \in 1..(i - 1) : EP(t, j) /\ \A k \in (j + 1)..(i - 1) : G(t, k) = "Extend"
              \/ c = "RI" /\ RunBack(GraphemeClasses(t), i) % 2 = 1

\* The characters that rule WB4 does not take as part of the one before.
WordKept(t) ==
    SelectSeq([i \in DOMAIN t |-> i], LAMBDA i : i = 1 \/ ~WordIgnored(W(t, i)) \/ W(t, i - 1) \in Newlines)

\* WB3 to WB999, with WB5 to WB16 over the characters kept by WB4.
WordForbids(t, i) ==
    LET kept == WordKept(t)
        n == CHOOSE k \in DOMAIN kept : kept[k] = i + 1
        at == [k \in -1..(Len(kept) + 1) |-> IF k \in DOMAIN kept THEN W(t, kept[k]) ELSE "none"]
        p == at[n - 1]
        c == at[n]
    IN  \/ W(t, i) = "CR" /\ W(t, i + 1) = "LF"
        \/ /\ W(t, i) \notin Newlines /\ W(t, i + 1) \notin Newlines
           /\ \/ W(t, i) = "ZWJ" /\ EP(t, i + 1)
              \/ W(t, i) = "WSegSpace" /\ W(t, i + 1) = "WSegSpace"
              \/ i + 1 \notin ToSet(kept)
              \/ AhLetter(p) /\ AhLetter(c)
              \/ AhLetter(p) /\ MidLetterOrQuote(c) /\ AhLetter(at[n + 1])
              \/ AhLetter(at[n - 2]) /\ MidLetterOrQuote(p) /\ AhLetter(c)
              \/ p = "HebrewLetter" /\ c = "SingleQuote"
              \/ p = "HebrewLetter" /\ c = "DoubleQuote" /\ at[n + 1] = "HebrewLetter"
              \/ at[n - 2] = "HebrewLetter" /\ p = "DoubleQuote" /\ c = "HebrewLetter"
              \/ p = "Numeric" /\ (c = "Numeric" \/ AhLetter(c))
              \/ AhLetter(p) /\ c = "Numeric"
              \/ at[n - 2] = "Numeric" /\ MidNumOrQuote(p) /\ c = "Numeric"
              \/ p = "Numeric" /\ MidNumOrQuote(c) /\ at[n + 1] = "Numeric"
              \/ p = "Katakana" /\ c = "Katakana"
              \/ Wb13aLeft(p) /\ c = "ExtendNumLet"
              \/ p = "ExtendNumLet" /\ Wb13bRight(c)
              \/ c = "RI" /\ RunBack(at, n - 1) % 2 = 1

\* The characters that rule SB5 does not take as part of the one before.
SentenceKept(t) ==
    SelectSeq([i \in DOMAIN t |-> i], LAMBDA i : i = 1 \/ ~SentenceIgnored(S(t, i)) \/ S(t, i - 1) \in Separators)

\* The kept classes from a terminator up to n: closers, then spaces.
FollowsTerm(classes, n, terms, spaced) ==
    \E j \in 1..n : /\ classes[j] \in terms
                    /\ \E m \in j..n : /\ \A k \in (j + 1)..m : classes[k] = "Close"
                                       /\ \A k \in (m + 1)..n : classes[k] = "Sp"
                                       /\ spaced \/ m = n

\* SB3 to SB998; a boundary is forbidden unless SB4 or SB11 asks for one.
SentenceForbids(t, i) ==
    LET kept == SentenceKept(t)
        classes == [k \in DOMAIN kept |-> S(t, kept[k])]
        n == (CHOOSE k \in DOMAIN kept : kept[k] = i + 1) - 1
        c == classes[n + 1]
        terms == {"ATerm", "STerm"}
    IN  \/ S(t, i) = "CR" /\ S(t, i + 1) = "LF"
        \/ /\ S(t, i) \notin Separators
           /\ \/ i + 1 \notin ToSet(kept)
              \/ classes[n] = "ATerm" /\ c = "Numeric"
              \/ n > 1 /\ classes[n - 1] \in {"Upper", "Lower"} /\ classes[n] = "ATerm" /\ c = "Upper"
              \/ /\ FollowsTerm(classes, n, {"ATerm"}, TRUE)
                 /\ \E m \in (n + 1)..Len(classes) :
                        /\ classes[m] = "Lower"
                        /\ \A k \in (n + 1)..(m - 1) :
                               classes[k] \notin {"OLetter", "Upper", "Lower"} \cup Separators \cup terms
              \/ FollowsTerm(classes, n, terms, TRUE) /\ c \in {"SContinue"} \cup terms
              \/ FollowsTerm(classes, n, terms, FALSE) /\ c \in {"Close", "Sp"} \cup Separators
              \/ FollowsTerm(classes, n, terms, TRUE) /\ c \in {"Sp"} \cup Separators
              \/ ~FollowsTerm(classes, n, terms, TRUE)

\* The boundaries the rules leave inside a text.
GraphemeBoundaries(t) == {i \in 1..(Len(t) - 1) : ~GraphemeForbids(t, i)}
WordBoundaries(t) == {i \in 1..(Len(t) - 1) : ~WordForbids(t, i)}
SentenceBoundaries(t) == {i \in 1..(Len(t) - 1) : ~SentenceForbids(t, i)}
=============================================================================
