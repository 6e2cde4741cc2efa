-------------------------- MODULE UnicodeProperties --------------------------
(***************************************************************************)
(* The Unicode property table: engine/src/unicode_properties.cpp.  A       *)
(* verified source bundle is parsed file by file into sorted ranges, dense *)
(* arrays and per-position payloads, from which the complete record of     *)
(* every code position is read.                                            *)
(*                                                                         *)
(* A file is the sequence of its data rows: comments, blank lines and the  *)
(* splitting of a line into fields are left out, a code position is a      *)
(* number below Population, and an encoded payload is the value it         *)
(* encodes.  Names keep their spelling: two spellings are one name when    *)
(* LooseKey maps them to the same key.                                     *)
(***************************************************************************)
EXTENDS Naturals, FiniteSets, SequencesExt

CONSTANTS
    Population,      \* number of code positions
    SpecialClass,    \* surrogate, private use and noncharacter positions -> class
    LooseKey,        \* spelling -> key, for spellings that are not their own key
    SingleFields,    \* field -> [namespace, default, required] (the Configs table)
    RawCount,        \* the 81 rows of CompositionExclusions.txt
    MaxPlane,        \* properties a set plane has bits for (64)
    Bundles          \* source bundles

PropertiesAssumption ==
    /\ Population \in Nat \ {0}
    /\ DOMAIN SpecialClass \subseteq 0..(Population - 1)
    /\ {RawCount, MaxPlane} \subseteq Nat

VARIABLES
    bundle,     \* the bundle being read
    phase,      \* the next file
    table,      \* what has been built
    status      \* laplace_unicode_status

vars == <<bundle, phase, table, status>>

Positions == 0..(Population - 1)

-----------------------------------------------------------------------------
(* Ranges.                                                                 *)

\* ParseRange of a row, within the population.
RangeOk(r) == r.first <= r.last /\ r.last < Population

Covers(r, p) == r.first <= p /\ p <= r.last

Span(r) == r.first..r.last

\* upper_bound on sorted ranges, then one step back.
Find(ranges, p) ==
    LET before == {i \in DOMAIN ranges : ranges[i].first <= p}
    IN IF before # {} /\ Covers(ranges[Max(before)], p) THEN <<ranges[Max(before)]>> ELSE <<>>

Sorted(ranges) == SortSeq(ranges, LAMBDA a, b : a.first < b.first \/ (a.first = b.first /\ a.last < b.last))

Disjoint(ranges) == \A i \in 2..Len(ranges) : ranges[i].first > ranges[i - 1].last

Width(ranges) == FoldLeft(LAMBDA n, r : n + (r.last - r.first + 1), 0, ranges)

-----------------------------------------------------------------------------
(* Aliases.                                                                *)

Loose(name) == IF name \in DOMAIN LooseKey THEN LooseKey[name] ELSE name

Key(property, name) == <<Loose(property), Loose(name)>>

NoAliases == [ok |-> TRUE, map |-> <<>>]

\* AliasTable::Insert: an alias already known must mean the same.
Insert(t, property, names, canonical) ==
    LET keys == {Key(property, n) : n \in ToSet(names) \ {""}}
    IN [ok |-> t.ok /\ canonical # "" /\ \A k \in keys \cap DOMAIN t.map : t.map[k] = canonical,
        map |-> t.map @@ [k \in keys |-> canonical]]

Known(t, property, name) == Key(property, name) \in DOMAIN t.map
Resolve(t, property, name) == t.map[Key(property, name)]

\* The long name is the second alias of a row.
ParseAliases(rows) ==
    FoldLeft(LAMBDA t, r : IF Len(r.names) >= 2 /\ r.names[1] # "" /\ r.names[2] # ""
                           THEN Insert(t, r.property, r.names, r.names[2])
                           ELSE [t EXCEPT !.ok = FALSE], NoAliases, rows)

-----------------------------------------------------------------------------
(* UnicodeData.txt.                                                        *)

\* MakeCoreValue.  Decomposition, numeric value and case mappings are well
\* formed or the row is refused.
CoreValueOk(t, r) ==
    r.position < Population /\ r.wellFormed /\ Known(t, "gc", r.category) /\ Known(t, "bc", r.bidi)

CoreValue(t, r) ==
    [category |-> Resolve(t, "gc", r.category), bidi |-> Resolve(t, "bc", r.bidi), decomposition |-> r.decomposition]

DefaultCoreValue(t) == [category |-> Resolve(t, "gc", "Cn"), decomposition |-> "none"]

AddCoreRange(s, first, last, value) ==
    [s EXCEPT !.ok = first <= last /\ (s.ranges # <<>> => first > Last(s.ranges).last),
              !.ranges = Append(@, [first |-> first, last |-> last, value |-> value]), !.pending = <<>>]

\* One row: a position, or the First or Last row of a range.
AddUnicodeRow(t, s, r) ==
    LET v == CoreValue(t, r)
    IN IF ~s.ok \/ ~CoreValueOk(t, r) THEN [s EXCEPT !.ok = FALSE]
       ELSE CASE r.form = "first" ->
                   [s EXCEPT !.ok = @ /\ s.pending = <<>>,
                             !.pending = <<[first |-> r.position, name |-> r.name, value |-> v]>>]
              [] r.form = "last" ->
                   IF /\ s.pending # <<>> /\ s.pending[1].name = r.name
                      /\ r.position > s.pending[1].first /\ s.pending[1].value = v
                   THEN AddCoreRange(s, s.pending[1].first, r.position, v)
                   ELSE [s EXCEPT !.ok = FALSE]
              [] r.form = "one" ->
                   IF s.pending = <<>> THEN AddCoreRange(s, r.position, r.position, v)
                   ELSE [s EXCEPT !.ok = FALSE]

ParseUnicodeData(t, rows) ==
    LET s == FoldLeft(LAMBDA a, r : AddUnicodeRow(t, a, r), [ok |-> TRUE, ranges |-> <<>>, pending |-> <<>>], rows)
    IN [s EXCEPT !.ok = @ /\ s.pending = <<>>]

-----------------------------------------------------------------------------
(* DerivedBidiClass.txt.                                                   *)

\* A row fills its range, in file order, whether it is a default or explicit.
AddBidiRow(t, s, r) ==
    IF ~s.ok \/ ~RangeOk(r) \/ ~Known(t, "bc", r.value) \/ (~r.missing /\ Span(r) \cap s.explicit # {})
    THEN [s EXCEPT !.ok = FALSE]
    ELSE [s EXCEPT !.dense = [p \in Positions |-> IF p \in Span(r) THEN Resolve(t, "bc", r.value) ELSE @[p]],
                   !.explicit = IF r.missing THEN @ ELSE @ \cup Span(r),
                   !.missing = IF r.missing THEN @ + 1 ELSE @]

\* Maximal runs of one value.
Runs(dense) ==
    LET starts == SetToSortSeq({p \in Positions : p = 0 \/ dense[p] # dense[p - 1]}, <)
    IN [i \in DOMAIN starts |-> [first |-> starts[i], value |-> dense[starts[i]],
                                 last |-> IF i = Len(starts) THEN Population - 1 ELSE starts[i + 1] - 1]]

ParseBidi(t, rows) ==
    IF ~Known(t, "bc", "L") THEN [ok |-> FALSE]
    ELSE LET s == FoldLeft(LAMBDA a, r : AddBidiRow(t, a, r),
                           [ok |-> TRUE, explicit |-> {}, missing |-> 0,
                            dense |-> [p \in Positions |-> Resolve(t, "bc", "L")]], rows)
         IN [ok |-> s.ok /\ s.missing > 0 /\ s.explicit # {}, ranges |-> Runs(s.dense),
             explicit |-> Cardinality(s.explicit)]

-----------------------------------------------------------------------------
(* The summary.                                                            *)

PositionClass(p, assigned) ==
    CASE p \in DOMAIN SpecialClass -> SpecialClass[p]
      [] p \notin DOMAIN SpecialClass /\ assigned -> "assigned"
      [] OTHER -> "unassigned"

Assigned(t, p) == Find(t.core, p) # <<>>

\* FinalizeSummary: the derived class covers every position and agrees with
\* UnicodeData on every assigned one.
SummaryOk(t) ==
    \A p \in Positions :
        /\ Find(t.bidi, p) # <<>>
        /\ Assigned(t, p) => Find(t.core, p)[1].value.bidi = Find(t.bidi, p)[1].value

ClassCounts(t) ==
    [c \in {"assigned", "unassigned"} \cup Range(SpecialClass) |->
        Cardinality({p \in Positions : PositionClass(p, Assigned(t, p)) = c})]

-----------------------------------------------------------------------------
(* The other files.                                                        *)

\* FinalizePositionPayloads on one row per position.
ParsePositions(rows) ==
    [ok |-> rows # <<>> /\ \A i, j \in DOMAIN rows : /\ rows[i].position < Population
                                                     /\ rows[i].position = rows[j].position => i = j,
     at |-> [p \in {r.position : r \in ToSet(rows)} |-> (CHOOSE r \in ToSet(rows) : r.position = p).value]]

\* BidiBrackets.txt: the side is one of bpt's two values.
ParseBidiBrackets(t, rows) ==
    [ParsePositions(rows) EXCEPT !.ok = @ /\ \A r \in ToSet(rows) :
        r.value.side \in {"o", "c"} /\ Known(t, "bpt", r.value.side) /\ r.value.paired < Population]

\* Several rows of one position; two with the same content, after sorting its
\* conditions, are refused.
ParseSpecialCasing(rows) ==
    LET Entry(r) == [mapping |-> r.mapping, conditions |-> ToSet(r.conditions)]
    IN [ok |-> /\ rows # <<>>
               /\ \A i \in DOMAIN rows : rows[i].position < Population /\ IsInjective(rows[i].conditions)
               /\ \A i, j \in DOMAIN rows :
                    rows[i].position = rows[j].position /\ Entry(rows[i]) = Entry(rows[j]) => i = j,
        at |-> [p \in {r.position : r \in ToSet(rows)} |-> {Entry(r) : r \in {x \in ToSet(rows) : x.position = p}}]]

\* At most one row of each status per position.
ParseCaseFolding(rows) ==
    [ok |-> /\ rows # <<>>
            /\ \A i \in DOMAIN rows : /\ rows[i].position < Population /\ rows[i].mapping # <<>>
                                      /\ rows[i].kind \in {"C", "F", "S", "T"}
            /\ \A i, j \in DOMAIN rows : rows[i].position = rows[j].position /\ rows[i].kind = rows[j].kind => i = j,
     at |-> [p \in {r.position : r \in ToSet(rows)} |->
                {<<r.kind, r.mapping>> : r \in {x \in ToSet(rows) : x.position = p}}]]

\* One property with one value per position: rows of other properties are
\* skipped, there is exactly one whole-range default rule, and it is the
\* expected default.
ParseSingleProperty(t, f, rows) ==
    LET c == SingleFields[f]
        mine == SelectSeq(rows, LAMBDA r : c.required = "" \/ Loose(r.property) = Loose(c.required))
        defaults == SelectSeq(mine, LAMBDA r : r.missing)
        data == SelectSeq(mine, LAMBDA r : ~r.missing)
        valid == /\ \A r \in ToSet(mine) : RangeOk(r) /\ Known(t, c.namespace, r.value)
                 /\ Known(t, c.namespace, c.default)
        ranges == Sorted([i \in DOMAIN data |-> [first |-> data[i].first, last |-> data[i].last,
                                                 value |-> Resolve(t, c.namespace, data[i].value)]])
    IN IF ~valid THEN [ok |-> FALSE]
       ELSE [ok |-> /\ Len(defaults) = 1
                    /\ \A r \in ToSet(defaults) :
                         Span(r) = Positions /\ Resolve(t, c.namespace, r.value) = Resolve(t, c.namespace, c.default)
                    /\ ranges # <<>> /\ Disjoint(ranges),
             ranges |-> ranges, default |-> Resolve(t, c.namespace, c.default)]

\* PropertyAt.
PropertyAt(s, p) == IF Find(s.ranges, p) = <<>> THEN s.default ELSE Find(s.ranges, p)[1].value

\* ParseSetPropertyPlane: a bit per property and position, set once.
ParseSetPropertyPlane(names, rows, excludeIncb) ==
    LET data == SelectSeq(rows, LAMBDA r : ~r.missing /\ ~(excludeIncb /\ Loose(r.property) = Loose("InCB")))
        valid == \A r \in ToSet(data) : r.value = "" /\ RangeOk(r) /\ Known(names, "", r.property)
        Name(r) == Resolve(names, "", r.property)
    IN IF ~valid THEN [ok |-> FALSE]
       ELSE [ok |-> /\ data # <<>> /\ Cardinality({Name(r) : r \in ToSet(data)}) <= MaxPlane
                    /\ \A i, j \in DOMAIN data :
                         Name(data[i]) = Name(data[j]) /\ Span(data[i]) \cap Span(data[j]) # {} => i = j,
             masks |-> [p \in Positions |-> {Name(r) : r \in {x \in ToSet(data) : Covers(x, p)}}],
             memberships |-> Width(data)]

\* ScriptExtensions.txt: a set of scripts per position.
ParseScriptExtensions(t, rows) ==
    LET defaults == SelectSeq(rows, LAMBDA r : r.missing)
        data == SelectSeq(rows, LAMBDA r : ~r.missing)
        Scripts(r) == {Resolve(t, "sc", s) : s \in ToSet(r.scripts)}
    IN IF ~(\A r \in ToSet(data) : RangeOk(r) /\ \A s \in ToSet(r.scripts) : Known(t, "sc", s)) THEN [ok |-> FALSE]
       ELSE [ok |-> /\ Len(defaults) = 1 /\ data # <<>>
                    /\ \A r \in ToSet(defaults) : RangeOk(r) /\ Span(r) = Positions /\ r.scripts = <<"<script>">>
                    /\ \A i, j \in DOMAIN data : Span(data[i]) \cap Span(data[j]) # {} => i = j,
             at |-> [p \in UNION {Span(r) : r \in ToSet(data)} |-> Scripts(CHOOSE r \in ToSet(data) : Covers(r, p))]]

QuickChecks == {"NFC_QC", "NFD_QC", "NFKC_QC", "NFKD_QC"}
Mappings == {"FC_NFKC", "NFKC_CF", "NFKC_SCF"}
IsExclusion(names, r) == Loose(Resolve(names, "", r.property)) = Loose("Full_Composition_Exclusion")

\* What the value field of a normalization row must be: quick checks and
\* mappings are told apart by the alias as spelled in the row.
NormalizationRowOk(t, names, r) ==
    /\ RangeOk(r) /\ Known(names, "", r.property)
    /\ LET key == Loose(r.property)
       IN CASE IsExclusion(names, r) -> r.value = ""
            [] key \in {Loose(q) : q \in QuickChecks} /\ ~IsExclusion(names, r) ->
                 r.value # "" /\ Known(t, r.property, r.value)
            [] key \in {Loose(q) : q \in Mappings} /\ ~IsExclusion(names, r) -> r.value # ""
            [] OTHER -> r.value = ""

ParseNormalizationProperties(t, names, rows, raw) ==
    IF \E r \in ToSet(rows) : ~r.missing /\ ~NormalizationRowOk(t, names, r) THEN [ok |-> FALSE]
    ELSE LET data == SelectSeq(rows, LAMBDA r : ~r.missing)
             exclusion == Sorted(SelectSeq(data, LAMBDA r : IsExclusion(names, r)))
             entries == SelectSeq(data, LAMBDA r : ~IsExclusion(names, r))
             Name(r) == Resolve(names, "", r.property)
         IN [ok |-> /\ entries # <<>> /\ exclusion # <<>> /\ Disjoint(exclusion)
                    /\ \A i, j \in DOMAIN entries :
                         Name(entries[i]) = Name(entries[j]) /\ Span(entries[i]) \cap Span(entries[j]) # {} => i = j
                    /\ \A p \in ToSet(raw) : Find(exclusion, p) # <<>>
                    /\ Len(raw) = RawCount /\ RawCount < Width(exclusion),
             exclusion |-> exclusion,
             at |-> [p \in UNION {Span(r) : r \in ToSet(entries)} |->
                        {<<Name(r), r.value>> : r \in {x \in ToSet(entries) : Covers(x, p)}}]]

\* One yes-or-no property of a file; rows of others are skipped.
ParseBooleanProperty(selected, rows) ==
    LET mine == SelectSeq(rows, LAMBDA r : Loose(r.property) = Loose(selected))
    IN IF \E r \in ToSet(mine) : ~RangeOk(r) THEN [ok |-> FALSE]
       ELSE [ok |-> mine # <<>> /\ Disjoint(Sorted(mine)), ranges |-> Sorted(mine)]

-----------------------------------------------------------------------------
(* Building a table.                                                       *)

Init ==
    /\ bundle \in Bundles
    /\ phase = "aliases" /\ table = <<>> /\ status = "building"

\* A file is parsed into the table, or the build fails.
Built(p, next, result, extended, failure) ==
    /\ phase = p /\ status = "building"
    /\ IF result THEN table' = extended /\ phase' = next /\ UNCHANGED status
       ELSE status' = failure /\ UNCHANGED <<table, phase>>
    /\ UNCHANGED bundle

Syntax == "source syntax invalid"
Conflict == "source conflict"

ReadAliases ==
    LET t == ParseAliases(bundle.valueAliases)
    IN Built("aliases", "core", t.ok /\ Known(t, "gc", "Cn"), [values |-> t], Syntax)

ReadCore ==
    LET t == table.values
        core == ParseUnicodeData(t, bundle.unicodeData)
        bidi == ParseBidi(t, bundle.bidi)
    IN Built("core", "summary", core.ok /\ bidi.ok,
             [values |-> t, core |-> core.ranges, bidi |-> bidi.ranges, bidiExplicit |-> bidi.explicit], Syntax)

FinalizeSummary == Built("summary", "cases", SummaryOk(table), table @@ [classes |-> ClassCounts(table)], Conflict)

ReadCases ==
    LET names == ParseAliases(bundle.propertyAliases)
        brackets == ParseBidiBrackets(table.values, bundle.brackets)
        mirroring == ParsePositions(bundle.mirroring)
        special == ParseSpecialCasing(bundle.specialCasing)
        folding == ParseCaseFolding(bundle.caseFolding)
    IN Built("cases", "single", names.ok /\ brackets.ok /\ mirroring.ok /\ special.ok /\ folding.ok,
             table @@ [names |-> names, brackets |-> brackets.at, mirroring |-> mirroring.at,
                       special |-> special.at, folding |-> folding.at], Conflict)

ReadSingle ==
    LET single == [f \in DOMAIN SingleFields |-> ParseSingleProperty(table.values, f, bundle[f])]
    IN Built("single", "sets", \A f \in DOMAIN single : single[f].ok, table @@ [single |-> single], Conflict)

ReadSets ==
    LET scripts == ParseScriptExtensions(table.values, bundle.scriptExtensions)
        list == ParseSetPropertyPlane(table.names, bundle.propList, FALSE)
        core == ParseSetPropertyPlane(table.names, bundle.derivedCore, TRUE)
        normal == ParseNormalizationProperties(table.values, table.names, bundle.normalization, bundle.rawExclusions)
        pictographic == ParseBooleanProperty("Extended_Pictographic", bundle.emoji)
    IN Built("sets", "complete", scripts.ok /\ list.ok /\ core.ok /\ normal.ok /\ pictographic.ok,
             table @@ [scripts |-> scripts.at, list |-> list, derived |-> core, normal |-> normal.at,
                       exclusion |-> normal.exclusion, pictographic |-> pictographic.ranges], Conflict)

At(f, p) == IF p \in DOMAIN f THEN <<f[p]>> ELSE <<>>

\* An uncovered position has its own script as a set.
ScriptsAt(t, p) == IF p \in DOMAIN t.scripts THEN t.scripts[p] ELSE {PropertyAt(t.single["script"], p)}

\* FillCompleteRecord.
Record(t, p) ==
    LET core == Find(t.core, p)
    IN [class |-> PositionClass(p, core # <<>>),
        category |-> IF core # <<>> THEN core[1].value.category ELSE DefaultCoreValue(t.values).category,
        bidi |-> Find(t.bidi, p)[1].value,
        bracket |-> At(t.brackets, p), mirror |-> At(t.mirroring, p),
        special |-> At(t.special, p), folding |-> At(t.folding, p),
        single |-> [f \in DOMAIN SingleFields |-> PropertyAt(t.single[f], p)],
        scripts |-> ScriptsAt(t, p), list |-> t.list.masks[p], derived |-> t.derived.masks[p],
        normal |-> At(t.normal, p),
        exclusion |-> Find(t.exclusion, p) # <<>>, pictographic |-> Find(t.pictographic, p) # <<>>]

\* FinalizeCompletePropertyFingerprint reads every record once.
Complete == Built("complete", "done", TRUE, table @@ [records |-> [p \in Positions |-> Record(table, p)]], Conflict)

\* The table is handed to the caller.
Return ==
    /\ phase = "done" /\ status = "building"
    /\ status' = "ok" /\ UNCHANGED <<bundle, phase, table>>

Next ==
    \/ ReadAliases \/ ReadCore \/ FinalizeSummary \/ ReadCases \/ ReadSingle \/ ReadSets
    \/ Complete \/ Return

Spec == Init /\ [][Next]_vars

-----------------------------------------------------------------------------
(* Properties.                                                             *)

Ready == status = "ok"

\* An alias spelled in any row, in any accepted spelling, resolves to that
\* row's long name: no row is silently overruled by another (AliasTable).
AliasesResolveUniquely ==
    phase # "aliases" =>
        \A r \in ToSet(bundle.valueAliases) : \A n \in ToSet(r.names) \ {""} :
            Resolve(table.values, r.property, n) = r.names[2]

\* Every row of a property file, by itself, is what the record of each of its
\* positions says: sorting, searching, dense filling and merging lose nothing.
RecordsFollowRows ==
    Ready =>
        /\ \A f \in DOMAIN SingleFields : \A r \in ToSet(bundle[f]) :
             (~r.missing /\ (SingleFields[f].required = "" \/ Loose(r.property) = Loose(SingleFields[f].required))) =>
                \A p \in Span(r) :
                    table.records[p].single[f] = Resolve(table.values, SingleFields[f].namespace, r.value)
        /\ \A r \in ToSet(bundle.unicodeData) :
             table.records[r.position].category = Resolve(table.values, "gc", r.category)
        /\ \A r \in ToSet(bundle.emoji) :
             Loose(r.property) = Loose("Extended_Pictographic") => \A p \in Span(r) : table.records[p].pictographic
        /\ \A r \in ToSet(bundle.normalization) :
             ~r.missing /\ IsExclusion(table.names, r) => \A p \in Span(r) : table.records[p].exclusion

\* An assigned position's bidirectional class is the one UnicodeData gives it,
\* although the record takes it from the derived file.
BidiAgrees ==
    Ready => \A r \in ToSet(bundle.unicodeData) :
                table.records[r.position].bidi = Resolve(table.values, "bc", r.bidi)

\* Every position has a script, and it is among its script extensions unless
\* the extension file gives the position a set of its own.
ScriptsAreEffective ==
    Ready => \A p \in Positions :
                table.records[p].scripts =
                    LET rows == {r \in ToSet(bundle.scriptExtensions) : ~r.missing /\ Covers(r, p)}
                    IN IF rows = {} THEN {table.records[p].single["script"]}
                       ELSE {Resolve(table.values, "sc", s) : s \in UNION {ToSet(r.scripts) : r \in rows}}

\* The counts of the summary are those of the records: classes partition the
\* population and memberships are the sizes of the sets.
CountsReconcile ==
    Ready =>
        /\ MapThenSumSet(LAMBDA c : table.classes[c], DOMAIN table.classes) = Population
        /\ table.list.memberships = MapThenSumSet(LAMBDA p : Cardinality(table.records[p].list), Positions)
        /\ table.derived.memberships = MapThenSumSet(LAMBDA p : Cardinality(table.records[p].derived), Positions)

\* Default rules of the derived bidirectional file are applied before its
\* explicit ranges: an explicit row is what its positions say.
ExplicitBidiWins ==
    Ready => \A r \in ToSet(bundle.bidi) : ~r.missing =>
                \A p \in Span(r) : table.records[p].bidi = Resolve(table.values, "bc", r.value)

=============================================================================
