------------------------------- MODULE MCText -------------------------------
(***************************************************************************)
(* The components that read text and the Unicode data behind it, side by     *)
(* side: the first state chooses one of Parts, and from there on that        *)
(* component runs alone.  The variables t1, t2, ... stand for the variables  *)
(* of the part that runs, in the order its instance names them; those it     *)
(* does not need keep the value Unused.                                      *)
(***************************************************************************)
EXTENDS Integers, Sequences, SequencesExt, FiniteSets, TLC

CONSTANTS
    Parts,              \* the components to check
    PropertyBundles, DucetCores, DucetFiles, DucetSequences, SegmentFiles, SegmentAtoms, CharacterProperty,
    CharacterWidth, SegmentTexts, SpanEmissions, SpanEvents, XmlTexts   \* their inputs, defined below as MC...

VARIABLES part, t1, t2, t3, t4, t5, t6, t7, t8, t9, t10, t11, t12, t13, t14, t15, t16, t17

vars == <<part, t1, t2, t3, t4, t5, t6, t7, t8, t9, t10, t11, t12, t13, t14, t15, t16, t17>>
Unused == "unused"

\* Every sequence of n of the elements.
Over(elements, n) == [1..n -> elements]

-----------------------------------------------------------------------------
(* UnicodeProperties: one well-formed bundle over four positions, and every  *)
(* bundle that differs from it in one file: all files of up to three rows    *)
(* out of a set that holds overlapping, adjacent, repeated, misspelt and     *)
(* malformed rows.                                                           *)

Alias(property, short, long) == [property |-> property, names |-> <<short, long>>]
Span(missing, first, last, property, value) ==
    [missing |-> missing, first |-> first, last |-> last, property |-> property, value |-> value]
Data(position, form, category, bidi) ==
    [position |-> position, form |-> form, name |-> "Han", category |-> category, bidi |-> bidi,
     decomposition |-> "none", wellFormed |-> TRUE]
Scripts(missing, first, last, scripts) == [missing |-> missing, first |-> first, last |-> last, scripts |-> scripts]

SoundBundle ==
    [valueAliases |-> <<Alias("gc", "Lu", "Upper"), Alias("gc", "Cn", "Unassigned"), Alias("bc", "L", "Left"),
                        Alias("bc", "R", "Right"), Alias("sc", "Zzzz", "Unknown"), Alias("sc", "Latn", "Latin"),
                        Alias("sc", "Grek", "Greek"), Alias("InCB", "None", "None"), Alias("InCB", "Cons", "Consonant"),
                        Alias("bpt", "o", "Open"), Alias("bpt", "c", "Close"), Alias("NFC_QC", "N", "No")>>,
     propertyAliases |-> <<Alias("", "Alpha", "Alphabetic"), Alias("", "WSpace", "White_Space"),
                           Alias("", "Comp_Ex", "Full_Composition_Exclusion"), Alias("", "NFC_QC", "NFC_Quick_Check"),
                           Alias("", "CWKCF", "Changes")>>,
     unicodeData |-> <<Data(0, "one", "Lu", "L"), Data(1, "first", "Lu", "R"), Data(2, "last", "Lu", "R")>>,
     bidi |-> <<Span(TRUE, 0, 3, "", "L"), Span(TRUE, 2, 3, "", "R"), Span(FALSE, 0, 0, "", "L"), Span(FALSE, 1, 2, "", "R")>>,
     brackets |-> <<[position |-> 0, value |-> [paired |-> 1, side |-> "o"]]>>,
     mirroring |-> <<[position |-> 1, value |-> 0]>>,
     specialCasing |-> <<[position |-> 0, mapping |-> <<1>>, conditions |-> <<>>]>>,
     caseFolding |-> <<[position |-> 0, kind |-> "C", mapping |-> <<1>>]>>,
     script |-> <<Span(TRUE, 0, 3, "", "Unknown"), Span(FALSE, 0, 1, "", "Latn")>>,
     scriptExtensions |-> <<Scripts(TRUE, 0, 3, <<"<script>">>), Scripts(FALSE, 1, 1, <<"Latn", "Grek">>)>>,
     propList |-> <<Span(FALSE, 0, 1, "WSpace", "")>>,
     derivedCore |-> <<Span(TRUE, 0, 3, "InCB", "None"), Span(FALSE, 0, 2, "Alpha", ""), Span(FALSE, 3, 3, "InCB", "Cons")>>,
     normalization |-> <<Span(FALSE, 0, 1, "Comp_Ex", ""), Span(FALSE, 2, 2, "NFC_QC", "N")>>,
     rawExclusions |-> <<0>>,
     emoji |-> <<Span(FALSE, 1, 1, "Extended_Pictographic", "")>>]

BundlesAround(f, base, rows, n) == {[SoundBundle EXCEPT ![f] = base \o file] : file \in UNION {Over(rows, k) : k \in 1..n}}

MCPropertyBundles ==
    BundlesAround("valueAliases", SoundBundle.valueAliases,
           {Alias("bc", "l", "Left"), Alias("bc", "L", "Right"), Alias("sc", "L", "Latin"), Alias("bc", "AL", ""),
            Alias("gc", "Lu", "Upper")}, 2)
    \cup BundlesAround("unicodeData", <<>>,
           {Data(0, "one", "Lu", "L"), Data(0, "first", "Lu", "L"), Data(1, "first", "Lu", "R"), Data(2, "last", "Lu", "R"),
            Data(3, "last", "Cn", "R"), Data(3, "one", "Lu", "R"), [Data(3, "one", "Lu", "R") EXCEPT !.wellFormed = FALSE]}, 3)
    \cup BundlesAround("bidi", <<>>,
           {Span(TRUE, 0, 3, "", "L"), Span(TRUE, 1, 3, "", "R"), Span(TRUE, 3, 3, "", "L"), Span(FALSE, 0, 0, "", "left"),
            Span(FALSE, 1, 2, "", "R"), Span(FALSE, 2, 3, "", "R"), Span(FALSE, 3, 3, "", "R"), Span(FALSE, 3, 4, "", "R")}, 3)
    \cup BundlesAround("script", <<>>,
           {Span(TRUE, 0, 3, "", "Zzzz"), Span(TRUE, 0, 2, "", "Unknown"), Span(TRUE, 0, 3, "", "Latn"),
            Span(FALSE, 0, 2, "", "Latn"), Span(FALSE, 2, 2, "", "Grek"), Span(FALSE, 3, 3, "", "Grek")}, 3)
    \cup BundlesAround("scriptExtensions", <<>>,
           {Scripts(TRUE, 0, 3, <<"<script>">>), Scripts(FALSE, 0, 1, <<"Grek", "Latn", "Latin">>),
            Scripts(FALSE, 1, 3, <<"Latn">>), Scripts(FALSE, 2, 3, <<"Nope">>)}, 3)
    \cup BundlesAround("derivedCore", <<Span(TRUE, 0, 3, "InCB", "None")>>,
           {Span(FALSE, 0, 2, "Alpha", ""), Span(FALSE, 2, 3, "Alphabetic", ""), Span(FALSE, 3, 3, "InCB", "Cons"),
            Span(FALSE, 1, 3, "WSpace", ""), Span(FALSE, 0, 0, "Nope", "")}, 3)
    \cup BundlesAround("propList", <<>>,
           {Span(FALSE, 0, 2, "Alpha", ""), Span(FALSE, 2, 3, "Alphabetic", ""), Span(FALSE, 0, 3, "WSpace", ""),
            Span(FALSE, 0, 3, "NFC_QC", ""), Span(FALSE, 0, 3, "InCB", "Cons")}, 3)
    \cup BundlesAround("normalization", <<>>,
           {Span(FALSE, 0, 1, "Comp_Ex", ""), Span(FALSE, 0, 0, "Full_Composition_Exclusion", ""), Span(FALSE, 2, 3, "NFC_QC", "N"),
            Span(FALSE, 3, 3, "NFC_Quick_Check", ""), Span(FALSE, 3, 3, "NFC_QC", ""), Span(FALSE, 1, 2, "CWKCF", "")}, 3)
    \cup BundlesAround("emoji", <<>>,
           {Span(FALSE, 0, 1, "EP", ""), Span(FALSE, 1, 2, "Extended_Pictographic", ""), Span(FALSE, 3, 3, "EP", ""),
            Span(FALSE, 0, 3, "Emoji", "")}, 3)
    \cup BundlesAround("specialCasing", <<>>,
           {[position |-> 0, mapping |-> <<1>>, conditions |-> c] : c \in {<<>>, <<"tr", "Final">>, <<"Final", "tr">>, <<"tr", "tr">>}}, 2)
    \cup BundlesAround("caseFolding", <<>>,
           {[position |-> 0, kind |-> k, mapping |-> <<1>>] : k \in {"C", "F", "X"}} \cup {[position |-> 1, kind |-> "C", mapping |-> <<>>]}, 2)
    \cup BundlesAround("mirroring", <<>>, {[position |-> p, value |-> 0] : p \in {0, 1, 4}}, 2)
    \cup BundlesAround("brackets", <<>>, {[position |-> p, value |-> [paired |-> 1, side |-> x]] : p \in {0, 1}, x \in {"o", "n"}}, 2)
    \cup {[SoundBundle EXCEPT !.rawExclusions = raw] : raw \in {<<>>, <<0, 1>>, <<3>>}}

Properties == INSTANCE UnicodeProperties
    WITH Population <- 4, SpecialClass <- 2 :> "surrogate",
         LooseKey <- [left |-> "Left", l |-> "L", EP |-> "Extended_Pictographic"],
         SingleFields <- [script |-> [namespace |-> "sc", default |-> "Unknown", required |-> ""],
                          derivedCore |-> [namespace |-> "InCB", default |-> "None", required |-> "InCB"]],
         RawCount <- 1, MaxPlane <- 2, Bundles <- PropertyBundles,
         bundle <- t1, phase <- t2, table <- t3, status <- t4

-----------------------------------------------------------------------------
(* UnicodeDucet: eighteen positions with every kind of weight: two marks of  *)
(* one class, one of a higher class that contracts with a letter, composed   *)
(* letters one and two steps deep, a variable and a wholly ignorable         *)
(* position, ideographs, an unassigned surrogate, two implicit ranges and    *)
(* Hangul; and a table whose decompositions go round in a circle.            *)

MCDucetCores ==
    LET Core(ccc, decomposition, assigned, ideograph) ==
            [ccc |-> ccc, decomposition |-> decomposition, assigned |-> assigned, ideograph |-> ideograph]
        Good == [p \in 0..17 |->
            CASE p \in {1, 2} -> Core(1, <<>>, TRUE, "no")
              [] p = 3 -> Core(2, <<>>, TRUE, "no")
              [] p = 4 -> Core(0, <<0, 3>>, TRUE, "no")
              [] p = 5 -> Core(0, <<>>, TRUE, "other")
              [] p = 6 -> Core(0, <<4>>, TRUE, "no")
              [] p = 8 -> Core(0, <<>>, TRUE, "core")
              [] p = 14 -> Core(0, <<>>, FALSE, "no")
              [] OTHER -> Core(0, <<>>, TRUE, "no")]
    IN {Good, [Good EXCEPT ![6].decomposition = <<6>>]}
MCDucetFiles ==
    LET Version(value) == [kind |-> "version", value |-> value]
        Implicit(first, last, lead) == [kind |-> "implicit", first |-> first, last |-> last, lead |-> lead]
        Mapping(sequence, elements) == [kind |-> "mapping", sequence |-> sequence, elements |-> elements]
        Element(primary, secondary, tertiary, variable) ==
            [primary |-> primary, secondary |-> secondary, tertiary |-> tertiary, variable |-> variable]
        Letter(n) == Element(n, 1, 1, FALSE)
        Base == <<Version("17.0.0"), Implicit(17, 17, 50), Implicit(15, 15, 50),
                  Mapping(<<0>>, <<Letter(10)>>), Mapping(<<1>>, <<Element(0, 2, 1, FALSE)>>),
                  Mapping(<<2>>, <<Element(0, 0, 3, FALSE)>>), Mapping(<<3>>, <<Element(0, 4, 1, FALSE)>>),
                  Mapping(<<0, 3>>, <<Letter(11), Letter(3)>>), Mapping(<<7>>, <<Element(4, 1, 1, TRUE)>>),
                  Mapping(<<9>>, <<Letter(20)>>), Mapping(<<10>>, <<Letter(21)>>), Mapping(<<11>>, <<Letter(22)>>),
                  Mapping(<<16>>, <<Element(0, 0, 0, FALSE)>>)>>
    IN {Base, Tail(Base), <<Version("16.0.0")>> \o Tail(Base), <<Version("17.0.0")>> \o Base, SubSeq(Base, 1, 3),
        SelectSeq(Base, LAMBDA row : row.kind # "implicit")}
       \cup {Append(Base, row) : row \in
               {Mapping(<<0>>, <<Letter(12)>>), Mapping(<<18>>, <<Letter(12)>>), Mapping(<<8>>, <<>>),
                Mapping(<<5>>, <<Letter(256)>>), Implicit(14, 15, 51), Implicit(15, 16, 50), Implicit(16, 18, 51),
                Implicit(14, 13, 51)}}
MCDucetSequences ==
    {<<p>> : p \in {0, 4, 5, 6, 7, 8, 13, 14, 15, 17, 18}}
    \cup {<<0, p>> : p \in {2, 3, 7}} \cup {<<7, 3>>, <<4, 1>>, <<0, 16, 3>>, <<9, 10, 11>>}
    \cup {<<0, 1, 2, 3>>, <<0, 3, 2, 1>>, <<0, 2, 3, 1>>, <<0, 1, 3>>, <<0, 3, 1>>, <<0, 3, 3, 1>>,
          <<0, 1, 3, 3>>}

Ducet == INSTANCE UnicodeDucet
    WITH Population <- 18, MaxDepth <- 3, Unit <- 16, HanLead <- 60, OtherHanLead <- 64, UnassignedLead <- 70,
         Hangul <- [base |-> 12, last |-> 13, leading |-> 9, vowel |-> 10, trailing |-> 10, vowels |-> 1,
                    trailings |-> 2],
         Surrogates <- {14}, MaxWeight <- 255, Cores <- DucetCores, Files <- DucetFiles,
         Sequences <- DucetSequences, Handlings <- {"nonIgnorable", "shifted", "other"}, MaxResults <- 2,
         core <- t1, table <- t2, placement <- t3, results <- t4, status <- t5

-----------------------------------------------------------------------------
(* Uax29Tables: five positions in batches of two; two complete generations   *)
(* that differ, one with a missing record, one with an unknown value and one *)
(* whose epoch has two roots.                                                *)

SegmentPlanes == {"grapheme", "pictographic"}
SegmentDefault == [grapheme |-> "Other", pictographic |-> "N"]
MCSegmentFiles ==
    LET Row(plane, first, last, value) == [plane |-> plane, first |-> first, last |-> last, value |-> value]
    IN [one |-> <<Row("grapheme", 1, 2, "Extend"), Row("grapheme", 4, 4, "ZWJ"), Row("pictographic", 3, 3, "Y")>>,
        two |-> <<Row("grapheme", 0, 0, "ZWJ"), Row("grapheme", 3, 4, "Extend"), Row("pictographic", 1, 2, "Y")>>,
        holes |-> <<>>,
        unknown |-> <<Row("grapheme", 2, 4, "Prepend")>>,
        doubled |-> <<>>]
SegmentGenerations == DOMAIN SegmentFiles
SegmentMissing == [grapheme |-> "missing", pictographic |-> "missing"]

\* What the atom records of a generation say follows from its files.
MCSegmentAtoms ==
    LET Value(generation, p, plane) ==
            LET rows == {i \in DOMAIN SegmentFiles[generation] :
                            SegmentFiles[generation][i].plane = plane
                                /\ p \in SegmentFiles[generation][i].first..SegmentFiles[generation][i].last}
            IN  IF rows = {} THEN SegmentDefault[plane] ELSE SegmentFiles[generation][CHOOSE i \in rows : TRUE].value
    IN [generation \in SegmentGenerations |-> [p \in 0..4 |->
            IF generation = "holes" /\ p = 4 THEN SegmentMissing
            ELSE [plane \in SegmentPlanes |-> Value(generation, p, plane)]]]

Tables == INSTANCE Uax29Tables
    WITH Population <- 5, Batch <- 2, Planes <- SegmentPlanes, Default <- SegmentDefault,
         Known <- [grapheme |-> {"Other", "Extend", "ZWJ"}, pictographic |-> {"N", "Y"}],
         Generations <- SegmentGenerations, Files <- SegmentFiles, Atoms <- SegmentAtoms,
         Roots <- [generation \in SegmentGenerations |-> IF generation = "doubled" THEN 2 ELSE 1],
         Missing <- SegmentMissing,
         active <- t1, pinned <- t2, builder <- t3, authority <- t4, tables <- t5, call <- t6

-----------------------------------------------------------------------------
(* TextDecomposition: characters of every class that takes part in a rule,   *)
(* with the values the standard's property files give them, all texts of     *)
(* two, and all texts of four and five over the characters of one family of  *)
(* rules.                                                                    *)

Char(g, w, s, incb, ep) == [g |-> g, w |-> w, s |-> s, incb |-> incb, ep |-> ep]
MCCharacterProperty ==
    [a      |-> Char("Other", "ALetter", "Lower", "None", FALSE),
     A      |-> Char("Other", "ALetter", "Upper", "None", FALSE),
     alef   |-> Char("Other", "HebrewLetter", "OLetter", "None", FALSE),
     one    |-> Char("Other", "Numeric", "Numeric", "None", FALSE),
     stop   |-> Char("Other", "MidNumLet", "ATerm", "None", FALSE),
     bang   |-> Char("Other", "Other", "STerm", "None", FALSE),
     comma  |-> Char("Other", "MidNum", "SContinue", "None", FALSE),
     colon  |-> Char("Other", "MidLetter", "SContinue", "None", FALSE),
     quote  |-> Char("Other", "SingleQuote", "Close", "None", FALSE),
     dquote |-> Char("Other", "DoubleQuote", "Close", "None", FALSE),
     under  |-> Char("Other", "ExtendNumLet", "Other", "None", FALSE),
     kata   |-> Char("Other", "Katakana", "OLetter", "None", FALSE),
     space  |-> Char("Other", "WSegSpace", "Sp", "None", FALSE),
     cr     |-> Char("CR", "CR", "CR", "None", FALSE),
     lf     |-> Char("LF", "LF", "LF", "None", FALSE),
     nel    |-> Char("Control", "Newline", "Sep", "None", FALSE),
     shy    |-> Char("Control", "Format", "Format", "None", FALSE),
     mark   |-> Char("Extend", "Extend", "Extend", "Extend", FALSE),
     zwj    |-> Char("ZWJ", "ZWJ", "Extend", "Extend", FALSE),
     flag   |-> Char("RI", "RI", "Other", "None", FALSE),
     emoji  |-> Char("Other", "Other", "Other", "None", TRUE),
     ka     |-> Char("Other", "ALetter", "OLetter", "Consonant", FALSE),
     virama |-> Char("Extend", "Extend", "Extend", "Linker", FALSE),
     matra  |-> Char("SpacingMark", "Extend", "Extend", "None", FALSE),
     prep   |-> Char("Prepend", "Numeric", "Numeric", "None", FALSE),
     hL     |-> Char("L", "ALetter", "OLetter", "None", FALSE),
     hV     |-> Char("V", "ALetter", "OLetter", "None", FALSE),
     hT     |-> Char("T", "ALetter", "OLetter", "None", FALSE),
     hLV    |-> Char("LV", "ALetter", "OLetter", "None", FALSE)]
Characters == DOMAIN CharacterProperty

MCCharacterWidth == [c \in Characters |->
    IF c \in {"flag", "emoji"} THEN 4 ELSE IF c \in {"ka", "virama", "matra", "zwj", "hL", "hV", "hT", "hLV"} THEN 3
    ELSE IF c \in {"alef", "mark", "nel", "shy"} THEN 2 ELSE 1]

MCSegmentTexts == UNION
    {{<<>>, <<"a", "malformed">>}, Over(Characters, 1), Over(Characters, 2),
     Over({"flag", "mark", "zwj", "emoji"}, 5),
     Over({"ka", "virama", "mark", "matra"}, 4), Over({"hL", "hV", "hT", "hLV", "prep"}, 3),
     Over({"a", "alef", "quote", "dquote", "mark"}, 4),
     Over({"one", "comma", "a", "under", "mark"}, 4),
     Over({"stop", "a", "A", "quote", "space"}, 4),
     Over({"stop", "bang", "space", "nel", "mark"}, 4),
     Over({"cr", "lf", "shy", "space", "kata"}, 3)}

Text == INSTANCE TextDecomposition
    WITH Property <- CharacterProperty, Width <- CharacterWidth, Malformed <- "malformed", Texts <- SegmentTexts,
         MaxOrdinal <- 20, FirstOrdinals <- {0, 12}, Bases <- {3},
         text <- t1, ordinal <- t2, base <- t3, client <- t4, done <- t5, spans <- t6, plan <- t7, status <- t8

-----------------------------------------------------------------------------
(* DecompositionComposition: three providers, one of them structured;        *)
(* contents of one and two characters, one of them of two bytes and one an   *)
(* overlong form; emissions that nest, repeat, retype, redispatch, fall      *)
(* outside and are empty.                                                    *)

MCSpanEmissions ==
    LET Emission(first, last, flags, media) ==
            [first |-> first, last |-> last, kind |-> 1, ordinal |-> 0, flags |-> flags,
             syntax |-> {}, media |-> media, parent |-> 0]
    IN {Emission(0, 2, {"redispatch", "text"}, ""), Emission(0, 2, {"text"}, ""),
        Emission(0, 1, {"redispatch"}, "html"), Emission(0, 1, {}, ""),
        Emission(1, 2, {"redispatch"}, ""), Emission(1, 4, {}, ""),
        Emission(0, 1, {}, "failure"), [Emission(0, 1, {}, "") EXCEPT !.kind = 0]}
MCSpanEvents ==
    LET Event(first, last, parent, flags, syntax) ==
            [first |-> first, last |-> last, kind |-> 1, ordinal |-> 0, flags |-> flags,
             syntax |-> syntax, media |-> "", parent |-> parent]
    IN {Event(0, 2, 0, {"redispatch", "text"}, {}), Event(0, 2, 1, {"redispatch"}, {}),
        [Event(0, 1, 0, {"redispatch"}, {}) EXCEPT !.media = "html"],
        Event(0, 1, 0, {"redispatch"}, {}),
        Event(1, 2, 1, {}, {}), Event(1, 2, 2, {}, {}), Event(1, 1, 1, {}, {"missing"}),
        Event(1, 1, 0, {}, {"empty"}), Event(0, 1, 0, {}, {"empty"}),
        Event(1, 1, 0, {}, {"missing", "empty"}), Event(1, 1, 0, {}, {})}

Decomposition == INSTANCE DecompositionComposition
    WITH Contents <- {<<"a", "a">>, <<"low", "tail">>, <<"a", "lead", "tail">>, <<>>},
         MediaTypes <- {"text"}, TextMedia <- {"text"},
         Fingerprints <- {<<1, 2, 3>>, <<1, 1>>, <<0, 1>>, <<>>}, Structured <- {2},
         Emissions <- SpanEmissions, Events <- SpanEvents,
         MaximumSpans <- 3, MaximumDepth <- 2, MaximumCalls <- 3,
         Width <- [a |-> 1, lead |-> 2, low |-> 2, tail |-> 0], Malformed <- {<<"low", "tail">>},
         OrdinalBases <- {0, 3}, OrdinalLimit <- 3,
         phase <- t1, content <- t2, providers <- t3, spans <- t4, queue <- t5, task <- t6, provider <- t7,
         executions <- t8, emitted <- t9, structured <- t10, eventSpans <- t11, context <- t12, status <- t13,
         calls <- t14, visited <- t15, plan <- t16, identities <- t17

-----------------------------------------------------------------------------
(* XmlProvider: texts around one or two elements: every sequence of tags and *)
(* text of a length, and every attribute list, document type, comment and    *)
(* character data of a length over the units that matter to it.              *)

MCXmlTexts ==
    LET Within(before, middles, after) == {before \o m \o after : m \in middles}
        Open == <<"<", "a", ">">>
        Close == <<"<", "/", "a", ">">>
        Pieces ==
            {Open, Close, <<"<", "b", ">">>, <<"<", "/", "b", "sp", ">">>, <<"<", "b", "/", ">">>,
             <<"x">>, <<"sp">>, <<"<", "!", "--", ">", "--", ">">>, <<"<", "?", "x", "?", ">">>,
             <<"<", "!", "[CDATA[", "x", "]]", ">">>, <<"<", "!", "[CDATA[", "]]", ">">>}
    IN UNION
        {{FlattenSeq(pieces) : pieces \in UNION {Over(Pieces, n) : n \in 1..4}},
         Within(<<"<", "a">>, Over({"sp", "a", "=", "dq", "sq", "/", ">", "<"}, 4), <<">">> \o Close),
         Within(<<"<", "a", "sp", "a", "=", "dq">>, Over({"sp", "a", "dq", "sq", "="}, 4), <<"dq", "/", ">">>),
         Within(<<"<", "!", "DOCTYPE">>, Over({"[", "]", ">", "dq", "x"}, 4), <<">">> \o Open \o Close),
         Within(<<"<", "!">>, Over({"--", ">", "x", "<"}, 3), Open \o Close),
         Within(<<"bom">>, {Open \o Close, <<"x">>}, <<>>),
         Within(Open, {<<"<", "!", "DOCTYPE", ">">>, <<"<", "!", "x">>, <<"<", "?">>}, Close)}

Xml == INSTANCE XmlProvider
    WITH Texts <- XmlTexts,
         text <- t1, phase <- t2, cursor <- t3, nodes <- t4, frames <- t5, roots <- t6, events <- t7

-----------------------------------------------------------------------------

ASSUME TextAssumption ==
    /\ Properties!PropertiesAssumption /\ Ducet!SizesAreCounts /\ Tables!BatchIsPositive
    /\ Text!OrdinalsAreBounded /\ Decomposition!LimitAssumption /\ Decomposition!OrdinalAssumption

\* The variables from the n-th on are not used.
Spare9 == /\ t9 = Unused /\ t10 = Unused /\ t11 = Unused /\ t12 = Unused /\ t13 = Unused
          /\ t14 = Unused /\ t15 = Unused /\ t16 = Unused /\ t17 = Unused
Spare8 == t8 = Unused /\ Spare9
Spare7 == t7 = Unused /\ Spare8
Spare6 == t6 = Unused /\ Spare7
Spare5 == t5 = Unused /\ Spare6
Rest9 == <<t9, t10, t11, t12, t13, t14, t15, t16, t17>>
Rest7 == <<t7, t8, Rest9>>

Init ==
    /\ part \in Parts
    /\ \/ part = "properties" /\ Properties!Init /\ Spare5
       \/ part = "ducet" /\ Ducet!Init /\ Spare6
       \/ part = "tables" /\ Tables!Init /\ Spare7
       \/ part = "text" /\ Text!Init /\ Spare9
       \/ part = "decomposition" /\ Decomposition!PlanInit
       \/ part = "xml" /\ Xml!Init /\ Spare8

Next ==
    /\ UNCHANGED part
    /\ \/ part = "properties" /\ Properties!Next /\ UNCHANGED <<t5, t6, Rest7>>
       \/ part = "ducet" /\ Ducet!Next /\ UNCHANGED <<t6, Rest7>>
       \/ part = "tables" /\ Tables!Next /\ UNCHANGED Rest7
       \/ part = "text" /\ Text!Next /\ UNCHANGED Rest9
       \/ part = "decomposition" /\ Decomposition!PlanNext
       \/ part = "xml" /\ Xml!Next /\ UNCHANGED <<t8, Rest9>>

\* A run of the decomposition and a build of the segmentation tables are calls
\* of one thread, which keeps running until it returns.
Spec ==
    /\ Init /\ [][Next]_vars
    /\ WF_vars(part = "decomposition" /\ Decomposition!Step /\ UNCHANGED <<part, t16, t17>>)
    /\ WF_vars(part = "tables" /\ (Tables!ReadAuthority \/ Tables!Consume \/ Tables!Finish)
               /\ UNCHANGED <<part, Rest7>>)

-----------------------------------------------------------------------------

\* unicode_properties.cpp, unicode_ducet.cpp and uax29.cpp: a name resolves to one
\* value whatever the order of the rows, every record follows its files and the
\* counts reconcile; equivalent texts have one key whatever the order of their
\* marks, and placement is a permutation; the tables are those of the generation
\* that was pinned, and nothing is held when the build ended.
UnicodeTablesAreExact ==
    /\ part = "properties" =>
        /\ Properties!AliasesResolveUniquely /\ Properties!BidiAgrees /\ Properties!ScriptsAreEffective
        /\ Properties!RecordsFollowRows /\ Properties!CountsReconcile
    /\ part = "ducet" =>
        /\ Ducet!KeysFollowEquivalence /\ Ducet!KeysOrderByLevel /\ Ducet!MatchesAreUnblocked
        /\ Ducet!RanksArePermutation /\ Ducet!OneRangeCovers
    /\ part = "tables" => Tables!PlanesAgree /\ Tables!NothingHeld

\* uax29.cpp and text_decomposition.cpp: the one-pass segmentation breaks a text
\* exactly where the standard's rules do, its spans tile the bytes, and the plan
\* made of them spells the text.
TextFollowsRules ==
    part = "text" =>
        /\ Text!GraphemesFollowRules /\ Text!WordsFollowRules /\ Text!SentencesFollowRules
        /\ Text!SpansTileBytes /\ Text!PlanSpellsText

\* decomposition.cpp and decomposition_composition.cpp: spans nest in the span
\* that was dispatched, no provider is asked twice for one execution and none is
\* left out, and the planner accepts every result, with one identity for equal
\* content.
DecompositionIsComplete ==
    part = "decomposition" =>
        /\ Decomposition!SpansNest /\ Decomposition!DispatchIsComplete /\ Decomposition!EventsNameTheirSpans
        /\ Decomposition!PlanIsAccepted /\ Decomposition!EqualBytesShareReference
        /\ Decomposition!IdentityIsContent

\* decomposition_xml.cpp: the nodes tile the document, the events are ones the
\* dispatcher accepts, tags balance, and a document type ends outside quotes and
\* brackets.
XmlIsTiled ==
    part = "xml" => Xml!NodesTile /\ Xml!EventsAreAccepted /\ Xml!TagsBalance /\ Xml!DoctypeEndsOutside

\* decomposition.cpp and uax29_active_pg.h: a run ends although its providers
\* redispatch what they emit, and a build of the tables although generations
\* keep changing.
CallsEnd ==
    /\ (part = "decomposition" /\ t1 = "taking") ~> (part = "decomposition" => t1 \in {"ended", "idle"})
    /\ (part = "tables" /\ t6 = "building") ~> (part = "tables" => t6 # "building")
=============================================================================
