----------------------------- MODULE IsaProgram -----------------------------
(***************************************************************************)
(* laplace_isa_validate and laplace_isa_execute of src/engine/src/isa.c: a *)
(* program is validated as a whole, its inputs are fingerprinted, its      *)
(* instructions run one after another over caller-owned memory, and its    *)
(* outputs are fingerprinted into the receipt.                             *)
(*                                                                         *)
(* Memory is a function from addresses to elements, one element wide; a    *)
(* value view is [base, capacity, count, type, packed].  What a batch      *)
(* kernel computes is an injective function of its input.                  *)
(***************************************************************************)
EXTENDS Integers, Sequences, FiniteSets, SequencesExt

CONSTANTS
    Programs,    \* [values : sequence of views, code : sequence of [op, in, out]]
    Address,     \* the addresses of memory
    Binding,     \* op -> [kind, in, out], the registry's value types by opcode
    Bad,         \* elements the kernels refuse
    Roots,       \* elements the lineage kernel keeps
    MemoryGrant  \* context.resource_grant.memory_bytes, in elements

Kinds == {"equal", "lineage", "single", "world", "catalog", "resolve", "solve"}

\* Programs and views are C structures whose sizes are unsigned.
IsaAssumption ==
    /\ MemoryGrant \in Nat \ {0} /\ Address \subseteq Nat \ {0}
    /\ \A op \in DOMAIN Binding : Binding[op].kind \in Kinds
    /\ \A p \in Programs :
          /\ p = [values |-> p.values, code |-> p.code]
          /\ p.values \in Seq(ToSet(p.values)) /\ p.code \in Seq(ToSet(p.code))
          /\ \A v \in ToSet(p.values) :
                /\ DOMAIN v = {"base", "capacity", "count", "type", "packed"}
                /\ {v.base, v.capacity, v.count} \subseteq Nat

VARIABLES
    program,     \* the program; its views' counts change as it runs
    initial,     \* the program as it was handed in
    mem,         \* the content of memory
    phase,       \* "idle", "new", "validated", "running", "done", "refused", "failed"
    counter,     \* index of the next instruction
    isaReceipt   \* [status, executed, inputs, outputs]

isaVars == <<program, initial, mem, phase, counter, isaReceipt>>

\* laplace_isa_receipt after the memset at the head of execute.
NoIsaReceipt == [status |-> "NONE", executed |-> 0, inputs |-> <<>>, outputs |-> <<>>]

Memory0 == [a \in Address |-> <<"in", a>>]

NoProgram == [values |-> <<>>, code |-> <<>>]

IsaInit ==
    /\ program = NoProgram /\ initial = NoProgram
    /\ mem = Memory0
    /\ phase = "idle"
    /\ counter = 1
    /\ isaReceipt = NoIsaReceipt

\* A caller hands in a program and its memory.
Submit ==
    /\ phase = "idle" /\ phase' = "new"
    /\ program' \in Programs /\ initial' = program'
    /\ UNCHANGED <<mem, counter, isaReceipt>>

-----------------------------------------------------------------------------

\* value_span: the addresses of the first n elements of a view.
Span(v, n) == v.base .. v.base + n - 1

Types == UNION {{Binding[op].in, Binding[op].out} : op \in DOMAIN Binding}

\* value_element_bytes and validate_value: a known type, count within capacity,
\* and a span that exists.
ValueValid(v) ==
    /\ v.type \in Types
    /\ v.count <= v.capacity
    /\ Span(v, v.capacity) \subseteq Address

\* copy_*_inputs and const_value_element: the elements an instruction reads.
Elements(m, v) == [i \in 1 .. v.count |-> m[v.base + i - 1]]

InRange(m, v) == \A i \in 1 .. v.count : Elements(m, v)[i] \notin Bad

\* Bytes of the contiguous copy made of a view that is not packed.
CopyBytes(v, n) == IF v.packed THEN 0 ELSE n

\* What the lineage kernel returns: the elements that are roots, in order.
RootPositions(s) == {i \in DOMAIN s : s[i] \in Roots}
RootsOf(s) ==
    LET Before(i) == {k \in RootPositions(s) : k <= i}
    IN [j \in 1 .. Cardinality(RootPositions(s)) |->
          s[CHOOSE i \in RootPositions(s) : Cardinality(Before(i)) = j]]

\* The four operations of equal cardinality: identity of codepoints, trajectory
\* decode, highway coordinates and highway registry receipts.
ValidateEqual(m, in, out) ==
    /\ out.capacity >= in.count
    /\ InRange(m, in)

\* validate_evidence_record_lineage_batch: runs the kernel into a temporary of
\* the output's capacity, beside the copy of the input.
ValidateLineage(m, in, out) ==
    /\ out.capacity > 0
    /\ out.capacity + CopyBytes(in, in.count) <= MemoryGrant
    /\ InRange(m, in)
    /\ Len(RootsOf(Elements(m, in))) <= out.capacity

\* Testimony, standing, source profile: one receipt for a batch that is not
\* empty.
ValidateSingle(m, in, out) ==
    /\ in.count > 0 /\ out.capacity >= 1
    /\ CopyBytes(in, in.count) <= MemoryGrant
    /\ InRange(m, in)

\* World admission: likewise.
ValidateWorld(m, in, out) == ValidateSingle(m, in, out)

\* The stock catalog also counts two working copies of every item.
ValidateCatalog(m, in, out) ==
    /\ in.count > 0 /\ out.capacity >= 1
    /\ 2 * in.count + CopyBytes(in, in.count) <= MemoryGrant
    /\ InRange(m, in)

\* Reference topology and reference mapping: a record for every candidate, made
\* in a temporary array.
ValidateResolve(m, in, out) ==
    /\ out.capacity >= in.count
    /\ in.count > 0
    /\ in.count + CopyBytes(in, in.count) <= MemoryGrant
    /\ InRange(m, in)

\* validate_cognition_solve_packet: the packet names its result size.
ValidateSolve(m, in, out) ==
    /\ in.count > 0
    /\ InRange(m, in)
    /\ in.count + 1 <= out.capacity
    /\ 2 * in.count + 1 <= MemoryGrant

ValidateKind(kind, m, in, out) ==
    CASE kind = "equal" -> ValidateEqual(m, in, out)
      [] kind = "lineage" -> ValidateLineage(m, in, out)
      [] kind = "single" -> ValidateSingle(m, in, out)
      [] kind = "world" -> ValidateWorld(m, in, out)
      [] kind = "catalog" -> ValidateCatalog(m, in, out)
      [] kind = "resolve" -> ValidateResolve(m, in, out)
      [] kind = "solve" -> ValidateSolve(m, in, out)

\* validate_instruction with operation_binding_find.
InstructionValid(p, i) ==
    LET c == p.code[i]
    IN /\ c.in \in DOMAIN p.values /\ c.out \in DOMAIN p.values
       /\ c.in # c.out
       /\ c.op \in DOMAIN Binding
       /\ p.values[c.in].type = Binding[c.op].in
       /\ p.values[c.out].type = Binding[c.op].out
       /\ ValidateKind(Binding[c.op].kind, mem, p.values[c.in], p.values[c.out])

InputSpan(p, i) == LET v == p.values[p.code[i].in] IN Span(v, v.count)
OutputSpan(p, i) == LET v == p.values[p.code[i].out] IN Span(v, v.capacity)

OutputsDisjoint(p) ==
    \A i, j \in DOMAIN p.code :
        i # j => OutputSpan(p, i) \cap OutputSpan(p, j) = {}

\* validate_global_ranges: no output, at its capacity, meets another output or
\* any input, at its count.
RangesDisjoint(p) ==
    \A i, j \in DOMAIN p.code :
        /\ OutputSpan(p, i) \cap InputSpan(p, j) = {}
        /\ i # j => OutputSpan(p, i) \cap OutputSpan(p, j) = {}

\* laplace_isa_validate; the allocations it makes may fail as well.
Validate ==
    /\ phase = "new"
    /\ LET valid == /\ program.code # <<>>
                    /\ \A v \in ToSet(program.values) : ValueValid(v)
                    /\ \A i \in DOMAIN program.code : InstructionValid(program, i)
                    /\ RangesDisjoint(program)
       IN \/ valid /\ phase' = "validated" /\ UNCHANGED isaReceipt
          \/ phase' = "refused" /\ isaReceipt' = [isaReceipt EXCEPT !.status = "REFUSED"]
    /\ UNCHANGED <<program, initial, mem, counter>>

-----------------------------------------------------------------------------

\* compare_standing_input_identity and compare_stock_catalog_item_identity:
\* batches of these kinds are hashed in identity order, so as bags.
CanonicalOrder(type, elements) ==
    IF type \in {"standing", "item"}
    THEN [x \in ToSet(elements) |-> Cardinality({i \in DOMAIN elements : elements[i] = x})]
    ELSE elements

\* hash_value_vector: every field of every element.
VectorFingerprint(m, v) == <<v.type, v.count, CanonicalOrder(v.type, Elements(m, v))>>

\* hash_inputs, before the first instruction runs.
HashInputs ==
    /\ phase = "validated"
    /\ \/ /\ isaReceipt' = [isaReceipt EXCEPT !.inputs =
                [i \in DOMAIN program.code |->
                    VectorFingerprint(mem, program.values[program.code[i].in])]]
          /\ phase' = "running"
       \/ /\ isaReceipt' = [isaReceipt EXCEPT !.status = "RESOURCE"]
          /\ phase' = "failed"
    /\ UNCHANGED <<program, initial, mem, counter>>

\* The execute_* functions: the working memory each counts against the grant,
\* and what its batch kernel returns for a batch it accepts.
ExecuteEqual(op, s, in, out) == [bytes |-> 0, result |-> [i \in DOMAIN s |-> <<op, s[i]>>]]

ExecuteLineage(op, s, in, out) ==
    [bytes |-> CopyBytes(in, in.count) + CopyBytes(out, out.capacity),
     result |-> RootsOf(s)]

ExecuteSingle(op, s, in, out) == [bytes |-> CopyBytes(in, in.count), result |-> << <<op, s>> >>]

ExecuteWorld(op, s, in, out) == ExecuteSingle(op, s, in, out)

ExecuteCatalog(op, s, in, out) ==
    [bytes |-> 2 * in.count + CopyBytes(in, in.count), result |-> << <<op, s>> >>]

ExecuteResolve(op, s, in, out) ==
    [bytes |-> CopyBytes(in, in.count) + CopyBytes(out, in.count),
     result |-> [i \in DOMAIN s |-> <<op, s[i]>>]]

ExecuteSolve(op, s, in, out) ==
    [bytes |-> 0,
     result |-> Append([i \in DOMAIN s |-> <<op, s[i]>>], <<op, <<"words", Len(s)>>>>)]

Execution(op, s, in, out) ==
    LET kind == Binding[op].kind
    IN CASE kind = "equal" -> ExecuteEqual(op, s, in, out)
         [] kind = "lineage" -> ExecuteLineage(op, s, in, out)
         [] kind = "single" -> ExecuteSingle(op, s, in, out)
         [] kind = "world" -> ExecuteWorld(op, s, in, out)
         [] kind = "catalog" -> ExecuteCatalog(op, s, in, out)
         [] kind = "resolve" -> ExecuteResolve(op, s, in, out)
         [] kind = "solve" -> ExecuteSolve(op, s, in, out)

\* memcpy of the results to the output's elements, and its new count.
Store(c, result) ==
    LET out == program.values[c.out]
    IN /\ mem' = [a \in Address \cup Span(out, Len(result)) |->
                     IF a \in Span(out, Len(result)) THEN result[a - out.base + 1] ELSE mem[a]]
       /\ program' = [program EXCEPT !.values[c.out].count = Len(result)]

\* One turn of the loop of laplace_isa_execute: the execution refuses what the
\* kernel refuses, or for want of memory, else its result is stored.
Instruction ==
    /\ phase = "running" /\ counter <= Len(program.code)
    /\ LET c == program.code[counter]
           in == program.values[c.in]
           run == Execution(c.op, Elements(mem, in), in, program.values[c.out])
       IN \/ /\ run.bytes <= MemoryGrant
             /\ InRange(mem, in)
             /\ Store(c, run.result)
             /\ counter' = counter + 1
             /\ isaReceipt' = [isaReceipt EXCEPT !.executed = counter]
             /\ UNCHANGED phase
          \/ /\ isaReceipt' = [isaReceipt EXCEPT !.status =
                   IF run.bytes > MemoryGrant THEN "OVER_GRANT"
                   ELSE IF ~InRange(mem, in) THEN "EXECUTION_FAILED" ELSE "NO_MEMORY"]
             /\ phase' = "failed"
             /\ UNCHANGED <<program, mem, counter>>
    /\ UNCHANGED initial

\* hash_outputs and hash_receipt.
HashOutputs ==
    /\ phase = "running" /\ counter > Len(program.code)
    /\ \/ /\ isaReceipt' = [isaReceipt EXCEPT !.status = "OK", !.outputs =
                [i \in DOMAIN program.code |->
                    VectorFingerprint(mem, program.values[program.code[i].out])]]
          /\ phase' = "done"
       \/ /\ isaReceipt' = [isaReceipt EXCEPT !.status = "RESOURCE"]
          /\ phase' = "failed"
    /\ UNCHANGED <<program, initial, mem, counter>>

IsaNext == Submit \/ Validate \/ HashInputs \/ Instruction \/ HashOutputs

IsaSpec == IsaInit /\ [][IsaNext]_isaVars

-----------------------------------------------------------------------------

\* Some instruction reads the value another one writes.  The ranges test lets
\* such a pair pass when the value is empty at validation.
Chained ==
    \E i, j \in DOMAIN initial.code : initial.code[i].out = initial.code[j].in

\* Whatever the code, nothing outside an instruction's output range is written:
\* neither inputs, nor other outputs, nor memory the program does not own.
WritesStayInside ==
    ~Chained =>
        /\ DOMAIN mem = Address
        /\ \A a \in Address :
              mem[a] # Memory0[a] =>
                  \E i \in 1 .. counter - 1 : a \in OutputSpan(initial, i)

\* A finished program computed, for every instruction, the kernel's result on
\* the inputs as they were handed in: the order of the instructions is of no
\* consequence, and the receipt's fingerprints are of those very inputs and
\* outputs.
ResultIsOfTheInputs ==
    (phase = "done" /\ ~Chained) =>
        \A i \in DOMAIN initial.code :
            LET c == initial.code[i]
                in == initial.values[c.in]
            IN /\ Elements(mem, program.values[c.out])
                    = Execution(c.op, Elements(Memory0, in), in, initial.values[c.out]).result
               /\ isaReceipt.inputs[i] = VectorFingerprint(mem, in)

\* A validated program is never refused half way: what fails after the first
\* write is an allocation, not a grant, a type or an element.
ValidatedIsNotRefused ==
    ~Chained => isaReceipt.status \notin {"OVER_GRANT", "EXECUTION_FAILED"}

\* isa.c: a program writes only its outputs, computes what its instructions say
\* of the inputs as handed in, and is not refused after its validation.
ProgramIsOfItsInputs == WritesStayInside /\ ResultIsOfTheInputs /\ ValidatedIsNotRefused

\* "A program is validated completely before execution changes persistent
\* state": every view, chained or not, still satisfies what was validated.
ValidatedCompletely ==
    (phase \in {"running", "done"}) =>
        \A i \in 1 .. counter - 1 :
            LET out == program.values[program.code[i].out] IN out.count <= out.capacity

=============================================================================
