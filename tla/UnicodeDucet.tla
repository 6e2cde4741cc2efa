---------------------------- MODULE UnicodeDucet ----------------------------
(* The collation table of the Unicode root: reading allkeys.txt, producing *)
(* the collation elements and sort key of a sequence of positions, and the *)
(* placement table that ranks every position by its key.                   *)
(*                                                                         *)
(* A row of the file is a record that says what the line parsed to; a      *)
(* collation element is a record of three weights and the variable mark; a *)
(* sort key is the sequence of its units, a weight or a separator each,    *)
(* and of the length and bytes of every normalized position.               *)
EXTENDS Integers, Sequences, SequencesExt, FiniteSets

CONSTANTS Population,      \* number of positions (LAPLACE_UNICODE_ROOT_POPULATION)
          MaxDepth,        \* deepest canonical decomposition followed (64)
          Unit,            \* positions per implicit lead weight (0x8000)
          HanLead, OtherHanLead, UnassignedLead,  \* 0xfb40, 0xfb80, 0xfbc0
          Hangul,          \* the bases and counts of the Hangul arithmetic
          Surrogates,      \* positions 0xd800..0xdfff
          MaxWeight,       \* UINT16_MAX
          Cores,           \* property tables: position -> record
          Files,           \* contents of uca/allkeys.txt
          Sequences,       \* arguments of the sort key calls
          Handlings,       \* arguments for the alternate handling
          MaxResults       \* sort keys calculated before the table goes

SizesAreCounts == {Population, MaxDepth, Unit} \subseteq Nat \ {0}

VARIABLES core,        \* the property table in use
          table,       \* the collation table, or NoTable
          placement,   \* the placement table, or NoTable
          results,     \* the sort keys calculated from the table
          status       \* what the latest call returned

vars == <<core, table, placement, results, status>>

NoTable == [made |-> FALSE]
Positions == 0..(Population - 1)

-----------------------------------------------------------------------------
(* Reading the table.                                                      *)

Element(primary, secondary, tertiary, variable) ==
    [primary |-> primary, secondary |-> secondary, tertiary |-> tertiary, variable |-> variable]

\* A mapping row has at least one position, all of the population, and at
\* least one element; every weight has sixteen bits.
MappingOk(row) ==
    /\ row.sequence # <<>> /\ row.elements # <<>>
    /\ \A i \in DOMAIN row.sequence : row.sequence[i] \in Positions
    /\ \A i \in DOMAIN row.elements :
           {row.elements[i].primary, row.elements[i].secondary, row.elements[i].tertiary} \subseteq 0..MaxWeight

ImplicitOk(row) ==
    /\ {row.first, row.last} \subseteq Positions /\ row.first <= row.last
    /\ row.lead \in 1..MaxWeight

EmptyTable == [made |-> TRUE, version |-> FALSE, mappings |-> <<>>, ranges |-> <<>>, maximum |-> 0, ok |-> TRUE]

\* The version line comes first and once, and a sequence is mapped once.
ReadRow(t, row) ==
    CASE row.kind = "version" ->
             [t EXCEPT !.ok = t.ok /\ ~t.version /\ row.value = "17.0.0", !.version = TRUE]
      [] row.kind = "implicit" ->
             [t EXCEPT !.ok = t.ok /\ t.version /\ ImplicitOk(row), !.ranges = Append(@, row)]
      [] OTHER ->
             [t EXCEPT !.ok = /\ t.ok /\ t.version /\ MappingOk(row)
                              /\ \A i \in DOMAIN t.mappings : t.mappings[i].sequence # row.sequence,
                       !.mappings = Append(@, row),
                       !.maximum = IF Len(row.sequence) > @ THEN Len(row.sequence) ELSE @]

ByFirst(ranges) == SortSeq(ranges, LAMBDA a, b : a.first < b.first)

\* Sorted by their first position, no range reaches into the next one.
RangesDisjoint(ranges) == \A i \in 2..Len(ranges) : ranges[i - 1].last < ranges[i].first

ParseTable(file) ==
    LET t == [FoldLeft(ReadRow, EmptyTable, file) EXCEPT !.ranges = ByFirst(@)]
    IN  [t EXCEPT !.ok = @ /\ t.version /\ t.mappings # <<>> /\ t.ranges # <<>> /\ RangesDisjoint(t.ranges)]

\* What the fingerprint of the retained table is taken over.
Retained(t) == <<t.ranges, t.mappings>>

-----------------------------------------------------------------------------
(* Canonical decomposition and canonical order.                            *)

CanonicalCombiningClass(c, p) == c[p].ccc

IsHangul(p) == p \in Hangul.base..Hangul.last

HangulDecomposition(p) ==
    LET syllable == p - Hangul.base
        perLeading == Hangul.vowels * Hangul.trailings
        trailing == syllable % Hangul.trailings
    IN  <<Hangul.leading + syllable \div perLeading,
          Hangul.vowel + (syllable % perLeading) \div Hangul.trailings>>
        \o (IF trailing # 0 THEN <<Hangul.trailing + trailing>> ELSE <<>>)

\* The full decomposition of position p, with FALSE in front when the
\* nesting is too deep or a child lies outside the population.
RECURSIVE AppendCanonicalDecomposition(_, _, _)
AppendCanonicalDecomposition(c, p, depth) ==
    IF depth > MaxDepth \/ p \notin Positions THEN <<FALSE, <<>>>>
    ELSE IF IsHangul(p) THEN <<TRUE, HangulDecomposition(p)>>
    ELSE IF c[p].decomposition = <<>> THEN <<TRUE, <<p>>>>
    ELSE LET parts == [i \in DOMAIN c[p].decomposition |->
                           AppendCanonicalDecomposition(c, c[p].decomposition[i], depth + 1)]
         IN  <<\A i \in DOMAIN parts : parts[i][1], FlattenSeq([i \in DOMAIN parts |-> parts[i][2]])>>

Decompose(c, s) ==
    LET parts == [i \in DOMAIN s |-> AppendCanonicalDecomposition(c, s[i], 0)]
    IN  <<\A i \in DOMAIN parts : parts[i][1], FlattenSeq([i \in DOMAIN parts |-> parts[i][2]])>>

\* Fault: a mark moves over one neighbour at most.
SwapOnce(c, s, i) ==
    IF CanonicalCombiningClass(c, s[i]) # 0 /\ i > 1 /\ CanonicalCombiningClass(c, s[i - 1]) > CanonicalCombiningClass(c, s[i])
    THEN [s EXCEPT ![i] = s[i - 1], ![i - 1] = s[i]] ELSE s

\* The mark at index i moves back over every mark of a higher class; a
\* starter stays, and nothing moves over one.
RECURSIVE MoveBack(_, _, _)
MoveBack(c, s, i) ==
    IF /\ CanonicalCombiningClass(c, s[i]) # 0 /\ i > 1
       /\ CanonicalCombiningClass(c, s[i - 1]) > CanonicalCombiningClass(c, s[i])
    THEN MoveBack(c, [s EXCEPT ![i] = s[i - 1], ![i - 1] = s[i]], i - 1)
    ELSE s

NormalizeNfd(c, s) ==
    LET full == Decompose(c, s)
    IN  <<full[1], IF full[1] THEN FoldLeft(LAMBDA t, i : MoveBack(c, t, i), full[2], [i \in DOMAIN full[2] |-> i])
                   ELSE <<>>>>

-----------------------------------------------------------------------------
(* Collation elements.                                                     *)

MappingsOf(t, s) == {i \in DOMAIN t.mappings : t.mappings[i].sequence = s}
IsMapped(t, s) == MappingsOf(t, s) # {}
FindMapping(t, s) == t.mappings[CHOOSE i \in MappingsOf(t, s) : TRUE].elements

\* The lead weight and the source of the trail weight of an unmapped
\* position: an implicit range of the table for an assigned one, counted
\* from the lowest first position of its lead; a unified ideograph; others.
ImplicitSource(t, c, p) ==
    LET covering == {i \in DOMAIN t.ranges : c[p].assigned /\ p \in t.ranges[i].first..t.ranges[i].last}
        lead == t.ranges[CHOOSE i \in covering : TRUE].lead
        family == {t.ranges[i].first : i \in {j \in DOMAIN t.ranges : t.ranges[j].lead = lead}}
    IN  CASE covering # {} -> <<lead, p - Min(family)>>
          [] covering = {} /\ c[p].ideograph # "no" ->
                 <<(IF c[p].ideograph = "core" THEN HanLead ELSE OtherHanLead) + p \div Unit, p>>
          [] OTHER -> <<UnassignedLead + p \div Unit, p>>

ImplicitElements(t, c, p) ==
    LET source == ImplicitSource(t, c, p)
    IN  <<Element(source[1], 32, 2, FALSE), Element((source[2] % Unit) + Unit, 0, 0, FALSE)>>

\* The length of the longest mapped prefix, 0 when there is none.
ContiguousCount(t, s) ==
    LET lengths == {n \in 1..Len(s) : n <= t.maximum /\ IsMapped(t, SubSeq(s, 1, n))}
    IN  IF lengths = {} THEN 0 ELSE Max(lengths)

StartMatch(s, n) == [sequence |-> SubSeq(s, 1, n), indices |-> 1..n, blocking |-> 0, stopped |-> FALSE]

\* One step of the search behind the contiguous match: a starter or a mark
\* whose class does not exceed an unmatched one ends it; a mark that makes
\* the match longer is taken; any other blocks its class and those below.
Extend(t, c, s, match, i) ==
    LET class == CanonicalCombiningClass(c, s[i])
        candidate == Append(match.sequence, s[i])
    IN  IF match.stopped \/ class = 0 \/ match.blocking >= class THEN [match EXCEPT !.stopped = TRUE]
        ELSE IF IsMapped(t, candidate)
             THEN [match EXCEPT !.sequence = candidate, !.indices = @ \cup {i}]
             ELSE [match EXCEPT !.blocking = IF class > @ THEN class ELSE @]

Match(t, c, s) ==
    LET n == ContiguousCount(t, s)
    IN  FoldLeft(LAMBDA match, i : Extend(t, c, s, match, i), StartMatch(s, n), [k \in 1..(Len(s) - n) |-> n + k])

\* What is left of s when the matched indices are erased.
Remaining(s, indices) ==
    LET left == SelectSeq([i \in DOMAIN s |-> i], LAMBDA i : i \notin indices)
    IN  [i \in DOMAIN left |-> s[left[i]]]

\* The elements of a normalized sequence and whether an implicit weight
\* was used; every turn consumes at least the first position.
RECURSIVE ProduceCollationElements(_, _, _)
ProduceCollationElements(t, c, s) ==
    IF s = <<>> THEN [elements |-> <<>>, implicit |-> FALSE]
    ELSE IF ContiguousCount(t, s) = 0
    THEN LET rest == ProduceCollationElements(t, c, Tail(s))
         IN  [elements |-> ImplicitElements(t, c, Head(s)) \o rest.elements, implicit |-> TRUE]
    ELSE LET match == Match(t, c, s)
             rest == ProduceCollationElements(t, c, Remaining(s, match.indices))
         IN  [elements |-> FindMapping(t, match.sequence) \o rest.elements, implicit |-> rest.implicit]

-----------------------------------------------------------------------------
(* Sort keys.                                                              *)

\* The four weights of an element; a variable element is shifted to the
\* fourth level, and so are the ignorable elements that follow it.
Weigh(shifted, state, e) ==
    LET isVariable == shifted /\ e.variable /\ e.primary # 0
        isDropped == shifted /\ ~isVariable /\ e.primary = 0 /\ state.following
        ignorable == e.primary = 0 /\ e.secondary = 0 /\ e.tertiary = 0
        weights == CASE isVariable -> <<0, 0, 0, e.primary>>
                     [] isDropped -> <<0, 0, 0, 0>>
                     [] OTHER -> <<e.primary, e.secondary, e.tertiary,
                                   IF shifted /\ ~ignorable THEN MaxWeight ELSE 0>>
    IN  [weighted |-> Append(state.weighted, weights),
         following |-> isVariable \/ (state.following /\ e.primary = 0)]

Weighted(elements, shifted) ==
    FoldLeft(LAMBDA state, e : Weigh(shifted, state, e), [weighted |-> <<>>, following |-> FALSE], elements).weighted

Level(weighted, n) ==
    SelectSeq([i \in DOMAIN weighted |-> weighted[i][n]], LAMBDA w : w # 0)

\* The bytes of a position are as many as its encoding takes; one unit
\* stands for them, as it orders positions of equal length like the bytes.
EncodedLength(p) == IF p < Unit THEN 1 ELSE 2
Identical(normalized) == FlattenSeq([i \in DOMAIN normalized |-> <<EncodedLength(normalized[i]), normalized[i]>>])

\* A zero, below every weight, stands between two levels.
SeparateLevels(levels) ==
    FlattenSeq([n \in DOMAIN levels |-> IF n = 1 THEN levels[n] ELSE <<0>> \o levels[n]])

FormSortKey(normalized, elements, handling) ==
    LET shifted == handling = "shifted"
        weighted == Weighted(elements, shifted)
    IN  SeparateLevels([n \in 1..(IF shifted THEN 4 ELSE 3) |-> Level(weighted, n)] \o <<Identical(normalized)>>)

Provenance(s, implicit) ==
    CASE Len(s) = 1 /\ IsHangul(s[1]) -> "hangul"
      [] Len(s) = 1 /\ s[1] \in Surrogates -> "surrogate"
      [] OTHER -> IF implicit THEN "implicit" ELSE "explicit"

Collation(s, normalized, produced, handling) ==
    [ok |-> TRUE, normalized |-> normalized, elements |-> produced.elements,
     key |-> FormSortKey(normalized, produced.elements, handling), provenance |-> Provenance(s, produced.implicit)]

CalculateCollation(t, c, s, handling) ==
    LET normalized == NormalizeNfd(c, s)
    IN  IF ~normalized[1] \/ handling \notin {"nonIgnorable", "shifted"} THEN [ok |-> FALSE]
        ELSE Collation(s, normalized[2], ProduceCollationElements(t, c, normalized[2]), handling)

-----------------------------------------------------------------------------
(* The placement table.                                                    *)

\* The first unit in which two keys differ decides; a proper prefix is less.
KeyLess(a, b) ==
    \/ IsStrictPrefix(a, b)
    \/ \E i \in DOMAIN a \cap DOMAIN b : a[i] < b[i] /\ SubSeq(a, 1, i - 1) = SubSeq(b, 1, i - 1)

\* Positions of equal keys are told apart by their own encoding.
PlacementLess(entries, p, q) ==
    \/ KeyLess(entries[p].key, entries[q].key)
    \/ entries[p].key = entries[q].key /\ KeyLess(Identical(<<p>>), Identical(<<q>>))

RankPositions(entries) ==
    SortSeq([i \in 1..Population |-> i - 1], LAMBDA p, q : PlacementLess(entries, p, q))

Ranks(entries, order) == [p \in Positions |-> (CHOOSE i \in DOMAIN order : order[i] = p) - 1]

\* Every position must have elements and a key, and no two the same place.
PlacementOf(t, entries, order) ==
    IF \/ \E p \in Positions : ~entries[p].ok \/ (entries[p].ok /\ (entries[p].elements = <<>> \/ entries[p].key = <<>>))
       \/ \E i \in 2..Population : ~PlacementLess(entries, order[i - 1], order[i])
    THEN NoTable
    ELSE [made |-> TRUE, entries |-> entries, rankPositions |-> order, ranks |-> Ranks(entries, order),
          equivalence |-> <<Retained(t), entries>>]

BuildPlacementTable(t, c) ==
    LET entries == [p \in Positions |-> CalculateCollation(t, c, <<p>>, "shifted")]
    IN  PlacementOf(t, entries, RankPositions(entries))

-----------------------------------------------------------------------------
Init ==
    /\ core \in Cores
    /\ table = NoTable /\ placement = NoTable
    /\ results = {} /\ status = "none"

\* laplace_unicode_ducet_table_create; a file that does not parse leaves no
\* table behind.
CreateTable(file) ==
    LET t == ParseTable(file)
    IN  /\ ~table.made
        /\ table' = IF t.ok THEN t ELSE NoTable
        /\ status' = IF t.ok THEN "ok" ELSE "syntaxInvalid"
        /\ UNCHANGED <<core, placement, results>>

CalculationStatus(calculation, handling, fits) ==
    CASE ~calculation.ok -> IF handling \notin {"nonIgnorable", "shifted"} THEN "invalidArgument" ELSE "incomplete"
      [] calculation.ok /\ ~fits -> "bufferTooSmall"
      [] OTHER -> "ok"

\* laplace_unicode_ducet_sort_key_calculate with buffers that hold the
\* result or do not.
Calculate(s, handling, fits) ==
    LET calculation == CalculateCollation(table, core, s, handling)
    IN  /\ status' = CalculationStatus(calculation, handling, fits)
        /\ results' = IF status' = "ok"
                      THEN results \cup {[sequence |-> s, handling |-> handling, calculation |-> calculation]}
                      ELSE results
        /\ UNCHANGED <<core, table, placement>>

\* laplace_unicode_ducet_sort_key_measure gives the sizes of the same
\* calculation and keeps nothing.
Measure(s, handling) ==
    /\ status' = CalculationStatus(CalculateCollation(table, core, s, handling), handling, TRUE)
    /\ UNCHANGED <<core, table, placement, results>>

CreatePlacement ==
    LET built == BuildPlacementTable(table, core)
    IN  /\ table.made /\ ~placement.made /\ Cardinality(results) < MaxResults
        /\ placement' = built
        /\ status' = IF built.made THEN "ok" ELSE "incomplete"
        /\ UNCHANGED <<core, table, results>>

DestroyTable ==
    /\ table.made
    /\ table' = NoTable /\ results' = {} /\ status' = "none"
    /\ UNCHANGED <<core, placement>>

\* A placement table owns its keys: it may outlive the collation table.
DestroyPlacement ==
    /\ placement.made
    /\ placement' = NoTable /\ status' = "none"
    /\ UNCHANGED <<core, table, results>>

Next ==
    \/ \E file \in Files : CreateTable(file)
    \/ /\ table.made /\ Cardinality(results) < MaxResults
       /\ \E s \in Sequences, handling \in Handlings :
              Measure(s, handling) \/ \E fits \in BOOLEAN : Calculate(s, handling, fits)
    \/ CreatePlacement
    \/ DestroyTable
    \/ DestroyPlacement

Spec == Init /\ [][Next]_vars

-----------------------------------------------------------------------------
(* Properties.                                                             *)

\* The pairs of results of one alternate handling.
Pairs == {<<r, q>> \in results \X results : r.handling = q.handling}

\* Positions that canonical reordering never moves past one another.
Dependent(c, a, b) ==
    CanonicalCombiningClass(c, a) = 0 \/ CanonicalCombiningClass(c, b) = 0
        \/ CanonicalCombiningClass(c, a) = CanonicalCombiningClass(c, b)

\* Canonical equivalence without an algorithm: the full decompositions
\* agree on every pair of positions whose order matters.
CanonicallyEquivalent(c, s, t) ==
    LET u == Decompose(c, s)[2]
        v == Decompose(c, t)[2]
    IN  \A a, b \in ToSet(u) \cup ToSet(v) :
            Dependent(c, a, b) => SelectSeq(u, LAMBDA x : x \in {a, b}) = SelectSeq(v, LAMBDA x : x \in {a, b})

\* Two sequences have one sort key exactly when they are canonically
\* equivalent: decomposition and reordering lose nothing and leave no two
\* spellings of one text apart (contracts/ducet-totalization.json:19).
KeysFollowEquivalence ==
    \A pair \in Pairs :
        pair[1].calculation.key = pair[2].calculation.key
            <=> CanonicallyEquivalent(core, pair[1].sequence, pair[2].sequence)

\* Keys compared unit by unit order texts as their weights do, level after
\* level: the separator lets no level spill into the next one.
KeysOrderByLevel ==
    LET levels(r) == [n \in 1..(IF r.handling = "shifted" THEN 4 ELSE 3) |->
                          Level(Weighted(r.calculation.elements, r.handling = "shifted"), n)]
    IN  \A pair \in Pairs :
            LET a == levels(pair[1])
                b == levels(pair[2])
            IN  \A n \in DOMAIN a :
                    (SubSeq(a, 1, n - 1) = SubSeq(b, 1, n - 1) /\ KeyLess(a[n], b[n]))
                        => KeyLess(pair[1].calculation.key, pair[2].calculation.key)

\* The normalized sequences of which a prefix is mapped.
Matched == {s \in {r.calculation.normalized : r \in results} : ContiguousCount(table, s) > 0}

\* A mark at index i of s that no unmatched position in front of it blocks.
Unblocked(c, s, indices, i) ==
    \A j \in (1..(i - 1)) \ indices :
        CanonicalCombiningClass(c, s[j]) # 0 /\ CanonicalCombiningClass(c, s[j]) < CanonicalCombiningClass(c, s[i])

\* A discontiguous match takes no mark from behind a starter or from behind
\* an unmatched mark of its class or a higher one.
MatchesAreUnblocked ==
    \A s \in Matched :
        LET match == Match(table, core, s)
        IN  \A i \in match.indices : Unblocked(core, s, match.indices, i)

\* The ranks are a permutation of the positions that follows the keys, and
\* the inverse table names the position of every rank, canonical
\* equivalents included.
RanksArePermutation ==
    placement.made =>
        /\ {placement.ranks[p] : p \in Positions} = Positions
        /\ \A p \in Positions : placement.rankPositions[placement.ranks[p] + 1] = p
        /\ \A p, q \in Positions :
               KeyLess(placement.entries[p].key, placement.entries[q].key) => placement.ranks[p] < placement.ranks[q]

\* At most one implicit range of an accepted table covers a position, so the
\* weight does not depend on the order of the rows.
OneRangeCovers ==
    table.made =>
        \A p \in Positions :
            Cardinality({i \in DOMAIN table.ranges : p \in table.ranges[i].first..table.ranges[i].last}) <= 1

\* What the contract calls the longest discontiguous canonical match: every
\* mark that is not blocked and lengthens the match is taken.
LongestDiscontiguousMatch ==
    \A s \in Matched :
        LET match == Match(table, core, s)
        IN  \A i \in DOMAIN s \ match.indices :
                (/\ CanonicalCombiningClass(core, s[i]) # 0
                 /\ \A j \in match.indices : j < i
                 /\ Unblocked(core, s, match.indices, i))
                => ~IsMapped(table, Append(match.sequence, s[i]))
=============================================================================
