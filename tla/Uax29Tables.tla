---------------------------- MODULE Uax29Tables ----------------------------
(* The property tables of text segmentation and the two ways to make them: *)
(* from the property files of a Unicode source bundle, and in a backend    *)
(* from the atom records of the active Unicode generation, which stays     *)
(* pinned while batches of records go through the table builder. Other     *)
(* backends may activate another generation at any time.                   *)
EXTENDS Integers, Sequences, SequencesExt, FiniteSets

CONSTANTS Population,     \* number of positions
          Batch,          \* records resolved at a time (LAPLACE_PG_UAX_BATCH)
          Planes,         \* the property planes
          Known,          \* plane -> values its mapper knows
          Default,        \* plane -> value of positions no row covers
          Generations,    \* Unicode generations that may be active
          Files,          \* generation -> rows of its property files
          Atoms,          \* generation -> position -> plane -> value, or Missing
          Roots,          \* generation -> number of deposited roots of its epoch
          Missing

BatchIsPositive == {Population, Batch} \subseteq Nat \ {0}

VARIABLES active,     \* the active generation
          pinned,     \* the generation this backend has pinned, or "none"
          builder,    \* the table builder, or NoBuilder
          authority,  \* the generation the returned authority names
          tables,     \* the tables handed to the caller, or NoTables
          call        \* "idle", "building", "done" or "failed"

vars == <<active, pinned, builder, authority, tables, call>>

Positions == 0..(Population - 1)
NoTables == [p \in {} |-> Default]
Blank == [p \in Positions |-> Default]
NoBuilder == [live |-> FALSE]

-----------------------------------------------------------------------------
(* From the files.                                                         *)

\* A row that is malformed or names an unknown value refuses the file.
RowOk(row) == 0 <= row.first /\ row.first <= row.last /\ row.last < Population /\ row.value \in Known[row.plane]

\* A row fills its range over whatever earlier rows put there.
Fill(t, row) ==
    [p \in Positions |-> IF p \in row.first..row.last THEN [t[p] EXCEPT ![row.plane] = row.value] ELSE t[p]]

\* laplace_uax29_tables_create
LoadTables(rows) ==
    IF \A i \in DOMAIN rows : RowOk(rows[i]) THEN FoldLeft(Fill, Blank, rows) ELSE NoTables

-----------------------------------------------------------------------------
(* From the atom records.                                                  *)

Init ==
    /\ active \in Generations
    /\ pinned = "none" /\ builder = NoBuilder /\ authority = "none"
    /\ tables = NoTables /\ call = "idle"

\* laplace_uax29_atom_table_builder_create over the active generation.
Begin ==
    /\ call \in {"idle", "done", "failed"}
    /\ builder' = [live |-> TRUE, next |-> 0, planes |-> Blank]
    /\ authority' = "none" /\ tables' = NoTables
    /\ pinned' = active /\ call' = "building"
    /\ UNCHANGED active

\* The builder or a buffer cannot be allocated: the error is raised before
\* the PG_TRY, the pin goes with its resource owner, and nothing refers to
\* a builder that was made.
BeginFails ==
    /\ call \in {"idle", "done", "failed"}
    /\ builder' = NoBuilder /\ authority' = "none" /\ tables' = NoTables
    /\ pinned' = "none" /\ call' = "failed"
    /\ UNCHANGED active

\* The handler of PG_CATCH: builder, tables and pin go, the error goes on.
Fail ==
    /\ builder' = NoBuilder /\ tables' = NoTables /\ pinned' = "none" /\ call' = "failed"
    /\ UNCHANGED <<active, authority>>

\* The source and recipe are those of the one root deposited for the pinned
\* epoch.
ReadAuthority ==
    /\ call = "building" /\ authority = "none"
    /\ \/ /\ Roots[pinned] = 1
          /\ authority' = pinned
          /\ UNCHANGED <<active, pinned, builder, tables, call>>
       \/ Roots[pinned] # 1 /\ Fail

\* laplace_perfcache_unicode_tier0_resolve_batch on the pinned generation.
Resolved(position) == Atoms[pinned][position]

BatchPositions(next) == next..(IF Population - next > Batch THEN next + Batch - 1 ELSE Population - 1)

RecordOk(record) == record # Missing /\ \A plane \in Planes : record[plane] \in Known[plane]

\* One batch through laplace_uax29_atom_table_builder_consume: every record
\* must be found, in order, with values the mappers know.
Consume ==
    LET batch == BatchPositions(builder.next)
    IN  /\ call = "building" /\ authority # "none" /\ builder.next < Population
        /\ \/ /\ \A p \in batch : RecordOk(Resolved(p))
              /\ builder' = [builder EXCEPT !.planes = [p \in Positions |-> IF p \in batch THEN Resolved(p) ELSE @[p]],
                                            !.next = @ + Cardinality(batch)]
              /\ UNCHANGED <<active, pinned, authority, tables, call>>
           \/ /\ \E p \in batch : ~RecordOk(Resolved(p))
              /\ Fail

ReleasePin(generation) == "none"

\* laplace_uax29_atom_table_builder_finish needs the whole population.
Finish ==
    /\ call = "building" /\ authority # "none" /\ builder.next = Population
    /\ tables' = builder.planes /\ builder' = NoBuilder
    /\ pinned' = ReleasePin(pinned) /\ call' = "done"
    /\ UNCHANGED <<active, authority>>

\* Another backend activates a generation.
Activate(generation) ==
    /\ generation # active
    /\ active' = generation
    /\ UNCHANGED <<pinned, builder, authority, tables, call>>

Next ==
    \/ Begin \/ BeginFails \/ ReadAuthority \/ Consume \/ Finish
    \/ \E generation \in Generations : Activate(generation)

Spec == Init /\ [][Next]_vars /\ WF_vars(ReadAuthority \/ Consume \/ Finish)

-----------------------------------------------------------------------------
(* Properties.                                                             *)

\* Tables made from atom records are those the files of the authority they
\* are returned with give, whatever was activated meanwhile: one generation,
\* every position, the property plane the header calls identical
\* (laplace/uax29.h:70).
PlanesAgree == call = "done" => tables = LoadTables(Files[authority])

\* A call that has ended, either way, holds no pin and no builder.
NothingHeld == call # "building" => pinned = "none" /\ ~builder.live

=============================================================================
