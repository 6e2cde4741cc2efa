----------------------------- MODULE XmlProvider -----------------------------
(* The XML decomposition provider: a parser that reads the applied span    *)
(* once, keeps a stack of open elements, and emits its nodes as structured *)
(* events only when the whole document parsed.                             *)
(*                                                                         *)
(* A text is a sequence of lexical units; "--", "]]", "[CDATA[", "DOCTYPE" *)
(* and the byte order mark "bom" are one unit each, every other unit is    *)
(* one byte. Offsets count units from 0, a last offset is exclusive, and   *)
(* nodes count from 1 (the document).                                      *)
EXTENDS Integers, Sequences, SequencesExt, FiniteSetsExt

CONSTANT Texts   \* the contents a caller may pass

Spaces == {"sp"}
Quotes == {"dq", "sq"}
NameTerminators == Spaces \cup Quotes \cup
    {"/", ">", "=", "<", "?", "!", "[", "]", "[CDATA[", "]]"}

VARIABLES
    text,      \* bytes of the applied span
    phase,     \* "parsing", "emitting", "failed" or "done"
    cursor,    \* cursor_
    nodes,     \* nodes_
    frames,    \* frames_: the open elements, with the range of their names
    roots,     \* root_element_count_
    events     \* the events passed to the emitter

vars == <<text, phase, cursor, nodes, frames, roots, events>>

End == Len(text)
Byte(i) == text[i + 1]
Starts(i, literal) == i + Len(literal) <= End /\ SubSeq(text, i + 1, i + Len(literal)) = literal

(* The first offset from i on whose unit is, or is not, in a set. *)
FirstIn(i, units) ==
    LET at == {j \in i..(End - 1) : Byte(j) \in units} IN IF at = {} THEN End ELSE Min(at)
FirstNotIn(i, units) ==
    LET at == {j \in i..(End - 1) : Byte(j) \notin units} IN IF at = {} THEN End ELSE Min(at)
FirstStart(i, literal) ==
    LET at == {j \in i..(End - 1) : Starts(j, literal)} IN IF at = {} THEN End ELSE Min(at)

SkipSpace(i) == FirstNotIn(i, Spaces)
NameEnd(i) == FirstIn(i, NameTerminators)

\* Fault: only the length of the names is compared.
SameLength(f, first, last) == f.last - f.first = last - first

SameName(f, first, last) ==
    SubSeq(text, f.first + 1, f.last) = SubSeq(text, first + 1, last)

CurrentParent == IF frames = <<>> THEN 1 ELSE frames[Len(frames)].node

Node(parent, first, last, kind, redispatch) ==
    [parent |-> parent, first |-> first, last |-> last, kind |-> kind,
     redispatch |-> redispatch]

(* AddNode: the sibling ordinal counts the parent's children so far. *)
AddNode(ns, node) ==
    Append(ns, [parent |-> node.parent, first |-> node.first, last |-> node.last,
                kind |-> node.kind, redispatch |-> node.redispatch, children |-> 0,
                sibling |-> IF node.parent = 0 THEN 0 ELSE ns[node.parent].children + 1])
Added(ns, node) ==
    IF node.parent = 0 THEN AddNode(ns, node)
    ELSE [AddNode(ns, node) EXCEPT ![node.parent].children = @ + 1]
AddedAll(ns, more) == FoldLeft(Added, ns, more)

Document(t) == Added(<<>>, Node(0, 0, Len(t), "document", FALSE))
Bom(t) == t # <<>> /\ t[1] = "bom"

Init ==
    /\ text \in Texts
    /\ phase = "parsing" /\ frames = <<>> /\ roots = 0 /\ events = <<>>
    /\ nodes = IF Bom(text) THEN Added(Document(text), Node(1, 0, 1, "bom", FALSE)) ELSE Document(text)
    /\ cursor = IF Bom(text) THEN 1 ELSE 0

Fail == phase' = "failed" /\ UNCHANGED <<text, cursor, nodes, frames, roots, events>>

Leaf(last, more) ==
    /\ nodes' = AddedAll(nodes, more)
    /\ cursor' = last
    /\ UNCHANGED <<text, phase, frames, roots, events>>

AtMarkup(literal) == phase = "parsing" /\ cursor < End /\ Starts(cursor, literal)

ParseText ==
    /\ phase = "parsing" /\ cursor < End /\ Byte(cursor) # "<"
    /\ LET last == FirstIn(cursor, {"<"})
           blank == \A j \in cursor..(last - 1) : Byte(j) \in Spaces
       IN  IF frames = <<>> /\ ~blank THEN Fail
           ELSE Leaf(last, <<Node(CurrentParent, cursor, last, "text", frames # <<>>)>>)

(* ParseDelimitedMarkup: a comment or a processing instruction. *)
ParseDelimitedMarkup(opening, terminator, kind) ==
    /\ AtMarkup(opening)
    /\ LET at == FirstStart(cursor + Len(opening), terminator)
           last == at + Len(terminator)
       IN  IF at = End THEN Fail
           ELSE Leaf(last, <<Node(CurrentParent, cursor, last, kind, FALSE)>>)

CdataOpen == <<"<", "!", "[CDATA[">>

ParseCdata ==
    /\ AtMarkup(CdataOpen)
    /\ LET at == FirstStart(cursor + 3, <<"]]", ">">>)
           inner == Node(Len(nodes) + 1, cursor + 3, at, "cdata text", TRUE)
       IN  IF frames = <<>> \/ at = End THEN Fail
           ELSE Leaf(at + 2, <<Node(CurrentParent, cursor, at + 2, "cdata", FALSE)>>
                             \o IF at > cursor + 3 THEN <<inner>> ELSE <<>>)

(* How far a unit opens or closes brackets in a document type. *)
Brackets(unit) ==
    CASE unit = "[" -> 1 [] unit = "[CDATA[" -> 2 [] unit = "]" -> -1 [] unit = "]]" -> -2
      [] OTHER -> 0

DoctypeUnit(s, unit) ==
    LET depth == s.depth + Brackets(unit)
    IN  IF s.result # "open" THEN s
        ELSE IF s.quote # ""
             THEN [s EXCEPT !.quote = IF unit = @ THEN "" ELSE @, !.offset = @ + 1]
        ELSE IF unit \in Quotes THEN [s EXCEPT !.quote = unit, !.offset = @ + 1]
        ELSE IF depth < 0 THEN [s EXCEPT !.result = "failed"]
        ELSE IF unit = ">" /\ depth = 0 THEN [s EXCEPT !.result = "closed", !.offset = @ + 1]
        ELSE [s EXCEPT !.depth = depth, !.offset = @ + 1]

ParseDoctype ==
    /\ AtMarkup(<<"<", "!", "DOCTYPE">>)
    /\ LET scan == FoldLeft(DoctypeUnit,
                       [result |-> "open", quote |-> "", depth |-> 0, offset |-> cursor + 3],
                       SubSeq(text, cursor + 4, End))
       IN  IF frames # <<>> \/ roots # 0 \/ scan.result # "closed" THEN Fail
           ELSE Leaf(scan.offset, <<Node(1, cursor, scan.offset, "doctype", FALSE)>>)

(* Any other declaration is refused. *)
RejectMarkup ==
    /\ AtMarkup(<<"<", "!">>)
    /\ ~Starts(cursor, <<"<", "!", "--">>) /\ ~Starts(cursor, CdataOpen)
    /\ ~Starts(cursor, <<"<", "!", "DOCTYPE">>)
    /\ Fail

(* The attributes and the end of a start tag, from offset i. *)
RECURSIVE Attributes(_, _, _)
Attributes(ns, tag, i) ==
    LET at == SkipSpace(i)
        nameEnd == NameEnd(at)
        equals == SkipSpace(nameEnd)
        open == SkipSpace(equals + 1)
        close == FirstIn(open + 1, {Byte(open)})
        attribute ==
            <<Node(tag, at, close + 1, "attribute", FALSE),
              Node(Len(ns) + 1, at, nameEnd, "attribute name", FALSE)>>
            \o IF close > open + 1
               THEN <<Node(Len(ns) + 1, open + 1, close, "attribute value", TRUE)>> ELSE <<>>
        bad == [ok |-> FALSE, nodes |-> ns, offset |-> i, closing |-> FALSE]
    IN  IF at >= End THEN bad
        ELSE IF Byte(at) = ">"
             THEN [ok |-> TRUE, nodes |-> ns, offset |-> at + 1, closing |-> FALSE]
        ELSE IF Byte(at) = "/"
             THEN IF Starts(at, <<"/", ">">>)
                  THEN [ok |-> TRUE, nodes |-> ns, offset |-> at + 2, closing |-> TRUE] ELSE bad
        ELSE IF nameEnd = at \/ equals >= End THEN bad
        ELSE IF Byte(equals) # "=" \/ open >= End THEN bad
        ELSE IF Byte(open) \notin Quotes \/ close >= End THEN bad
        ELSE IF FirstIn(open + 1, {"<"}) < close THEN bad
        ELSE Attributes(AddedAll(ns, attribute), tag, close + 1)

(* The ranges the nodes were created with are completed at the tag's end. *)
CloseStartTag(ns, element, tag, parsed) ==
    [ns EXCEPT ![tag].last = parsed.offset,
               ![element].last = IF parsed.closing THEN parsed.offset ELSE @]

ParseStartTag ==
    /\ AtMarkup(<<"<">>) /\ ~Starts(cursor, <<"<", "!">>)
    /\ ~Starts(cursor, <<"<", "?">>) /\ ~Starts(cursor, <<"<", "/">>)
    /\ LET nameEnd == NameEnd(cursor + 1)
           element == Len(nodes) + 1
           tag == Len(nodes) + 2
           opened == AddedAll(nodes,
                       <<Node(CurrentParent, cursor, cursor + 1, "element", FALSE),
                         Node(element, cursor, cursor + 1, "start tag", FALSE),
                         Node(tag, cursor + 1, nameEnd, "element name", FALSE)>>)
           parsed == Attributes(opened, tag, nameEnd)
       IN  IF nameEnd = cursor + 1 \/ (frames = <<>> /\ roots = 1) THEN Fail
           ELSE IF ~parsed.ok THEN Fail
           ELSE /\ nodes' = CloseStartTag(parsed.nodes, element, tag, parsed)
                /\ frames' = IF parsed.closing THEN frames
                             ELSE Append(frames, [node |-> element, first |-> cursor + 1, last |-> nameEnd])
                /\ roots' = IF frames = <<>> THEN 1 ELSE roots
                /\ cursor' = parsed.offset
                /\ UNCHANGED <<text, phase, events>>

ParseEndTag ==
    /\ AtMarkup(<<"<", "/">>)
    /\ LET nameEnd == NameEnd(cursor + 2)
           close == SkipSpace(nameEnd)
           frame == frames[Len(frames)]
       IN  IF frames = <<>> \/ nameEnd = cursor + 2 \/ close >= End THEN Fail
           ELSE IF Byte(close) # ">" \/ ~SameName(frame, cursor + 2, nameEnd) THEN Fail
           ELSE /\ nodes' = AddedAll([nodes EXCEPT ![frame.node].last = close + 1],
                       <<Node(frame.node, cursor, close + 1, "end tag", FALSE),
                         Node(Len(nodes) + 1, cursor + 2, nameEnd, "element name", FALSE)>>)
                /\ frames' = SubSeq(frames, 1, Len(frames) - 1)
                /\ cursor' = close + 1
                /\ UNCHANGED <<text, phase, roots, events>>

(* Parse accepts a text with one root element and nothing left open. *)
FinishParse ==
    /\ phase = "parsing" /\ cursor = End
    /\ IF frames = <<>> /\ roots = 1
       THEN phase' = "emitting" /\ UNCHANGED <<text, cursor, nodes, frames, roots, events>>
       ELSE Fail

(* ApplyEvents passes the nodes on in the order they were created. *)
EmitNode ==
    /\ phase = "emitting" /\ Len(events) < Len(nodes)
    /\ events' = Append(events, nodes[Len(events) + 1])
    /\ UNCHANGED <<text, phase, cursor, nodes, frames, roots>>

Finish ==
    /\ phase = "emitting" /\ Len(events) = Len(nodes)
    /\ phase' = "done" /\ UNCHANGED <<text, cursor, nodes, frames, roots, events>>

Next ==
    \/ ParseText
    \/ ParseDelimitedMarkup(<<"<", "!", "--">>, <<"--", ">">>, "comment")
    \/ ParseDelimitedMarkup(<<"<", "?">>, <<"?", ">">>, "instruction")
    \/ ParseCdata \/ ParseDoctype \/ RejectMarkup
    \/ ParseStartTag \/ ParseEndTag \/ FinishParse \/ EmitNode \/ Finish

Spec == Init /\ [][Next]_vars

-----------------------------------------------------------------------------

Children(i) == SelectSeq([k \in 1..Len(nodes) |-> k], LAMBDA k : nodes[k].parent = i)

(* The children of the document and of every element follow one another      *)
(* without a gap and end where their parent ends: a document the provider    *)
(* accepts loses no byte and no byte stands in two places (the ranges that   *)
(* ParseStartTag and ParseEndTag complete later).                            *)
NodesTile ==
    phase = "done" =>
        \A i \in 1..Len(nodes) : nodes[i].kind \in {"document", "element"} =>
            LET c == Children(i) IN
                /\ c # <<>> /\ nodes[c[1]].first = nodes[i].first
                /\ nodes[c[Len(c)]].last = nodes[i].last
                /\ \A k \in 1..(Len(c) - 1) : nodes[c[k]].last = nodes[c[k + 1]].first

(* Every event passes the checks of the emitter: its parent came before it   *)
(* and encloses it, no two events are equal, and the siblings are numbered   *)
(* in the order of their bytes (EmitEvent against the parser's nodes).       *)
EventsAreAccepted ==
    /\ \A k \in 1..Len(events) :
        /\ events[k].first < events[k].last
        /\ k > 1 => /\ events[k].parent \in 1..(k - 1)
                    /\ events[events[k].parent].first <= events[k].first
                    /\ events[k].last <= events[events[k].parent].last
    /\ \A j, k \in 1..Len(events) :
        j < k /\ events[j].parent = events[k].parent =>
            /\ events[j].sibling < events[k].sibling
            /\ events[j].last <= events[k].first

(* The tags of an accepted text, read as a word of opening and closing       *)
(* names, cancel: a closing tag has the name of the element it closes.       *)
Tags == SelectSeq(nodes, LAMBDA n : n.kind \in {"start tag", "end tag"})
TagName(n) ==
    LET first == IF n.kind = "end tag" THEN n.first + 2 ELSE n.first + 1
    IN  SubSeq(text, first + 1, NameEnd(first))
Cancel(stack, n) ==
    IF n.kind = "start tag"
    THEN IF SubSeq(text, n.last - 1, n.last) = <<"/", ">">> THEN stack ELSE Append(stack, TagName(n))
    ELSE IF stack # <<>> /\ stack[Len(stack)] = TagName(n) THEN SubSeq(stack, 1, Len(stack) - 1)
    ELSE <<"unmatched">> \o stack
TagsBalance ==
    phase = "done" => FoldLeft(Cancel, <<>>, SortSeq(Tags, LAMBDA m, n : m.first < n.first)) = <<>>

(* A document type that is accepted ends at its first ">" outside quotes and *)
(* outside the internal subset, where a bracket in quotes does not count     *)
(* (ParseDoctype, for texts that quote with one kind of quote).              *)
Quoted(first, j) == Cardinality({q \in first..(j - 1) : Byte(q) = "dq"}) % 2 = 1
Nesting(first, j) ==
    MapThenSumSet(LAMBDA q : IF Quoted(first, q) THEN 0 ELSE Brackets(Byte(q)), first..(j - 1))
DoctypeEndsOutside ==
    \A i \in 1..Len(nodes) : nodes[i].kind = "doctype" /\ "sq" \notin ToSet(text) =>
        {j \in nodes[i].first..(nodes[i].last - 1) :
            Byte(j) = ">" /\ ~Quoted(nodes[i].first, j) /\ Nesting(nodes[i].first, j) = 0}
            = {nodes[i].last - 1}
=============================================================================
