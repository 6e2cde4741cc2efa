---------------------------- MODULE Decomposition ----------------------------
(* The recursive decomposition machine: one run applies every provider to  *)
(* the content, and every redispatched span a provider exposes is offered  *)
(* to the other providers, in the order the spans were published.          *)
(*                                                                         *)
(* A provider and the media resolver are callbacks of the caller: whether  *)
(* a provider applies, and which emissions it makes, are choices from      *)
(* small sets. An offset counts bytes from 0, a last offset is exclusive,  *)
(* a span or provider index counts from 1 and 0 stands for UINT64_MAX.     *)
(* grammar_kind, field_kind and sibling_ordinal are copied and compared    *)
(* together and are one `ordinal`.                                         *)
EXTENDS Naturals, FiniteSets, Sequences, SequencesExt

CONSTANTS
    Contents,        \* sequences of bytes a caller may pass
    MediaTypes,      \* media types a caller may pass; "" is none
    TextMedia,       \* the media types RootIsText names
    Fingerprints,    \* possible sequences of provider fingerprints; 0 is zero
    Structured,      \* the provider indexes with apply_events
    Emissions,       \* what a provider may pass to Emit
    Events,          \* what a provider may pass to EmitEvent
    MaximumSpans,    \* the limits of the input
    MaximumDepth,
    MaximumCalls     \* bound: emissions of one application of a provider

LimitAssumption ==
    MaximumSpans \in Nat /\ MaximumDepth \in Nat /\ MaximumCalls \in Nat

VARIABLES
    phase,        \* "idle", "taking", "offering", "applying" or "ended"
    content,      \* bytes of the input
    providers,    \* fingerprints of the providers
    spans,        \* result->spans with result->media_types
    queue,        \* span indexes of the tasks; the skipped provider is the
                  \* span's own
    task,         \* the task under way and the provider it is offered to
    provider,
    executions,   \* the set of execution keys
    emitted,      \* legacy keys, and the span of every structured key
    structured,
    eventSpans,   \* context.event_result_spans
    context,      \* context.status
    status,       \* what the run returned
    calls,        \* history: the emissions of the application under way
    visited       \* history: <<provider, span>> pairs executed

vars == <<phase, content, providers, spans, queue, task, provider, executions,
          emitted, structured, eventSpans, context, status, calls, visited>>

KnownSpanFlags == {"redispatch", "text", "grammar"}
ApplicabilityFlags == {"text", "grammar"}
MissingSyntax == {"missing", "empty"}

Root(bytes, media) ==
    [first |-> 0, last |-> Len(bytes), parent |-> 0, provider |-> 0, kind |-> 0,
     ordinal |-> 0, depth |-> 0, syntax |-> {}, media |-> media,
     flags |-> {"redispatch"}
               \cup (IF media \in TextMedia THEN {"text"} ELSE {})
               \cup (IF media # "" THEN {"grammar"} ELSE {})]

Init ==
    /\ phase = "idle" /\ content = <<>> /\ providers = <<>> /\ spans = <<>>
    /\ queue = <<>> /\ task = 0 /\ provider = 0 /\ executions = {}
    /\ emitted = {} /\ structured = {} /\ eventSpans = <<>>
    /\ context = "ok" /\ status = "none" /\ calls = <<>> /\ visited = {}

ProvidersValid(fingerprints) == IsInjective(fingerprints) /\ 0 \notin ToSet(fingerprints)

(* Run's checks of its input, the root span and its task. *)
Run(bytes, media, fingerprints) ==
    LET valid == bytes # <<>> /\ fingerprints # <<>>
        start == valid /\ ProvidersValid(fingerprints)
    IN  /\ phase = "idle"
        /\ content' = bytes /\ providers' = fingerprints
        /\ phase' = IF start THEN "taking" ELSE "ended"
        /\ spans' = IF start THEN <<Root(bytes, media)>> ELSE <<>>
        /\ queue' = IF start THEN <<1>> ELSE <<>>
        /\ status' = IF start THEN "none"
                     ELSE IF valid THEN "provider invalid" ELSE "invalid argument"
        /\ UNCHANGED <<task, provider, executions, emitted, structured,
                       eventSpans, context, calls, visited>>

(* A failing run deletes its result. *)
End(outcome) ==
    /\ phase' = "ended" /\ status' = outcome
    /\ spans' = IF outcome = "ok" THEN spans ELSE <<>>
    /\ UNCHANGED <<content, providers, queue, task, provider, executions, emitted,
                   structured, eventSpans, context, calls, visited>>

\* Fault: the task is read from the front of the queue and left there.
PeekTask ==
    /\ phase = "taking" /\ queue # <<>>
    /\ task' = Head(queue) /\ provider' = 1 /\ phase' = "offering"
    /\ UNCHANGED <<content, providers, spans, queue, executions, emitted,
                   structured, eventSpans, context, status, calls, visited>>

TakeTask ==
    /\ phase = "taking" /\ queue # <<>>
    /\ task' = Head(queue) /\ queue' = Tail(queue)
    /\ provider' = 1 /\ phase' = "offering"
    /\ UNCHANGED <<content, providers, spans, executions, emitted, structured,
                   eventSpans, context, status, calls, visited>>

Finish == phase = "taking" /\ queue = <<>> /\ End("ok")

\* Fault: the media type takes no part in the key.
UntypedKey(p, s) ==
    <<p, s.parent, s.first, s.last, s.kind, s.ordinal, s.syntax,
      s.flags \cap ApplicabilityFlags>>

ExecutionKey(p, s) ==
    <<p, s.parent, s.first, s.last, s.kind, s.ordinal, s.syntax,
      s.flags \cap ApplicabilityFlags, s.media>>

NextProvider ==
    /\ phase' = IF provider = Len(providers) THEN "taking" ELSE "offering"
    /\ provider' = provider + 1

(* The provider's own span, or an execution already made. *)
SkipProvider ==
    /\ phase = "offering"
    /\ \/ provider = spans[task].provider
       \/ ExecutionKey(provider, spans[task]) \in executions
    /\ NextProvider
    /\ UNCHANGED <<content, providers, spans, queue, task, executions, emitted,
                   structured, eventSpans, context, status, calls, visited>>

Execute ==
    /\ phase = "offering"
    /\ provider # spans[task].provider
    /\ ExecutionKey(provider, spans[task]) \notin executions
    /\ executions' = executions \cup {ExecutionKey(provider, spans[task])}
    /\ visited' = visited \cup {<<provider, task>>}

Inapplicable ==
    /\ Execute
    /\ NextProvider
    /\ UNCHANGED <<content, providers, spans, queue, task, emitted, structured,
                   eventSpans, context, status, calls>>

Applicable ==
    /\ Execute
    /\ phase' = "applying"
    /\ eventSpans' = <<>> /\ context' = "ok" /\ calls' = <<>>
    /\ UNCHANGED <<content, providers, spans, queue, task, provider, emitted,
                   structured, status>>

(* The provider's applicable callback fails. *)
ApplicableFails ==
    /\ phase = "offering"
    /\ provider # spans[task].provider
    /\ ExecutionKey(provider, spans[task]) \notin executions
    /\ End("provider failure")

(* ResolveChildMediaType: e.media is what the resolver answers. *)
ChildMedia(e) ==
    IF e.media = "" \/ e.syntax \cap MissingSyntax # {} THEN spans[task].media ELSE e.media

(* ResolveChildMediaType and PublishSpan: the status an emission that passed *)
(* every check leaves in the context.                                        *)
PublishStatus(e) ==
    IF e.media = "failure" /\ e.syntax \cap MissingSyntax = {} THEN "resolver failure"
    ELSE IF Len(spans) >= MaximumSpans THEN "limit exceeded" ELSE "ok"

Child(e, parent) ==
    [first |-> e.first, last |-> e.last, parent |-> parent, provider |-> provider,
     kind |-> e.kind, ordinal |-> e.ordinal, depth |-> spans[parent].depth + 1,
     syntax |-> e.syntax, media |-> ChildMedia(e), flags |-> e.flags]

PublishSpan(e, parent) ==
    /\ context' = PublishStatus(e)
    /\ spans' = IF context' = "ok" THEN Append(spans, Child(e, parent)) ELSE spans
    /\ queue' = IF context' = "ok" /\ "redispatch" \in e.flags
                THEN Append(queue, Len(spans) + 1) ELSE queue

(* Emit, for a provider with the legacy callback. *)
EmitStatus(e) ==
    IF ~(e.flags \subseteq KnownSpanFlags) \/ e.kind = 0 THEN "provider failure"
    ELSE IF e.first < spans[task].first \/ e.first >= e.last \/ e.last > spans[task].last
         THEN "range invalid"
    ELSE IF spans[task].depth >= MaximumDepth THEN "limit exceeded" ELSE "ok"

LegacyKey(e) == <<task, provider, e.first, e.last, e.kind>>

Emit(e) ==
    /\ phase = "applying" /\ provider \notin Structured
    /\ context = "ok" /\ Len(calls) < MaximumCalls
    /\ calls' = Append(calls, e)
    /\ \/ /\ EmitStatus(e) # "ok"
          /\ context' = EmitStatus(e)
          /\ UNCHANGED <<spans, queue, emitted>>
       \/ /\ EmitStatus(e) = "ok" /\ LegacyKey(e) \in emitted
          /\ UNCHANGED <<spans, queue, emitted, context>>
       \/ /\ EmitStatus(e) = "ok" /\ LegacyKey(e) \notin emitted
          /\ emitted' = emitted \cup {LegacyKey(e)}
          /\ PublishSpan(e, task)
    /\ UNCHANGED <<phase, content, providers, task, provider, executions,
                   structured, eventSpans, status, visited>>

(* EmitEvent, for a provider with the structured callback. *)
EventParent(e) == IF e.parent = 0 THEN task ELSE eventSpans[e.parent]

EventShapeStatus(e) ==
    IF ~(e.flags \subseteq KnownSpanFlags) \/ e.kind = 0 THEN "provider failure"
    ELSE IF \/ e.syntax \cap MissingSyntax = {} /\ e.first >= e.last
            \/ e.syntax \cap MissingSyntax # {} /\ (e.first > e.last \/ e.flags # {})
            \/ "empty" \in e.syntax /\ (e.first # e.last \/ "missing" \in e.syntax)
         THEN "range invalid"
    ELSE IF e.parent > Len(eventSpans) THEN "provider failure" ELSE "ok"

EventStatus(e) ==
    IF EventShapeStatus(e) # "ok" THEN EventShapeStatus(e)
    ELSE IF e.first < spans[EventParent(e)].first \/ e.last > spans[EventParent(e)].last
         THEN "range invalid"
    ELSE IF spans[EventParent(e)].depth >= MaximumDepth THEN "limit exceeded" ELSE "ok"

StructuredKey(e) ==
    <<EventParent(e), provider, e.first, e.last, e.kind, e.ordinal, e.flags, e.syntax>>

(* A duplicate event stands for the span published first. *)
RepeatEvent(e) ==
    eventSpans' = Append(eventSpans, (CHOOSE s \in structured : s[1] = StructuredKey(e))[2])

PublishEvent(e) ==
    /\ PublishSpan(e, EventParent(e))
    /\ structured' = IF context' = "ok"
                     THEN structured \cup {<<StructuredKey(e), Len(spans) + 1>>} ELSE structured
    /\ eventSpans' = IF context' = "ok" THEN Append(eventSpans, Len(spans) + 1) ELSE eventSpans

EmitEvent(e) ==
    /\ phase = "applying" /\ provider \in Structured
    /\ context = "ok" /\ Len(calls) < MaximumCalls
    /\ calls' = Append(calls, e)
    /\ \/ /\ EventStatus(e) # "ok"
          /\ context' = EventStatus(e)
          /\ UNCHANGED <<spans, queue, structured, eventSpans>>
       \/ /\ EventStatus(e) = "ok"
          /\ \E s \in structured : s[1] = StructuredKey(e)
          /\ RepeatEvent(e)
          /\ UNCHANGED <<spans, queue, structured, context>>
       \/ /\ EventStatus(e) = "ok"
          /\ ~\E s \in structured : s[1] = StructuredKey(e)
          /\ PublishEvent(e)
    /\ UNCHANGED <<phase, content, providers, task, provider, executions,
                   emitted, status, visited>>

(* The callback returns; a failure it hides is still in the context. *)
ApplyReturns ==
    /\ phase = "applying" /\ context = "ok"
    /\ NextProvider
    /\ UNCHANGED <<content, providers, spans, queue, task, executions, emitted,
                   structured, eventSpans, context, status, calls, visited>>

ApplyFails ==
    /\ phase = "applying"
    /\ End(IF context # "ok" THEN context ELSE "provider failure")

(* An allocation fails anywhere in the run. *)
MemoryFails == phase \in {"taking", "offering", "applying"} /\ End("memory failure")

(* laplace_decomposition_result_destroy. *)
Destroy ==
    /\ phase = "ended"
    /\ phase' = "idle" /\ content' = <<>> /\ providers' = <<>> /\ spans' = <<>>
    /\ queue' = <<>> /\ task' = 0 /\ provider' = 0 /\ executions' = {}
    /\ emitted' = {} /\ structured' = {} /\ eventSpans' = <<>>
    /\ context' = "ok" /\ status' = "none" /\ calls' = <<>> /\ visited' = {}

Step ==
    \/ TakeTask \/ Finish \/ SkipProvider \/ Inapplicable \/ Applicable
    \/ \E e \in Emissions : Emit(e)
    \/ \E e \in Events : EmitEvent(e)
    \/ ApplyReturns \/ ApplyFails

Next ==
    \/ \E bytes \in Contents, media \in MediaTypes, f \in Fingerprints : Run(bytes, media, f)
    \/ Step \/ ApplicableFails \/ MemoryFails \/ Destroy

(* The machine runs in one call and every callback returns. *)
Spec == Init /\ [][Next]_vars /\ WF_vars(Step)

-----------------------------------------------------------------------------

(* Every published span lies within the bytes of its parent, one level       *)
(* below it and behind it in the result, whichever provider published it     *)
(* and however its events were nested (the checks of Emit and EmitEvent).    *)
SpansNest ==
    \A i \in 2..Len(spans) :
        LET s == spans[i] IN
            /\ s.parent \in 1..(i - 1)
            /\ spans[s.parent].first <= s.first /\ s.first <= s.last
            /\ s.last <= spans[s.parent].last
            /\ s.depth = spans[s.parent].depth + 1

SameInput(s, t) ==
    /\ s.parent = t.parent /\ s.first = t.first /\ s.last = t.last
    /\ s.kind = t.kind /\ s.ordinal = t.ordinal /\ s.syntax = t.syntax
    /\ s.flags \cap ApplicabilityFlags = t.flags \cap ApplicabilityFlags
    /\ s.media = t.media

(* When a run succeeds, every redispatched span, or a span no provider can   *)
(* tell from it, was offered exactly once to every provider but the one that *)
(* published it, and no provider met a span of its own (the queue, the       *)
(* skipped provider and the execution keys of Run).                          *)
DispatchIsComplete ==
    /\ \A v \in visited : spans # <<>> => spans[v[2]].provider # v[1]
    /\ phase = "ended" /\ status = "ok" =>
        \A i \in 1..Len(spans), p \in 1..Len(providers) :
            "redispatch" \in spans[i].flags /\ spans[i].provider # p =>
                Cardinality({v \in visited :
                    v[1] = p /\ SameInput(spans[v[2]], spans[i])}) = 1

(* During one application the k-th event a structured provider emitted names *)
(* the span that carries it, under the parent the event named, even when the *)
(* span was published by an earlier equal event (event_result_spans).        *)
EventsNameTheirSpans ==
    phase = "applying" /\ provider \in Structured /\ context = "ok" =>
        /\ Len(eventSpans) = Len(calls)
        /\ \A k \in 1..Len(calls) :
            LET s == spans[eventSpans[k]]
                e == calls[k]
            IN  /\ s.first = e.first /\ s.last = e.last /\ s.kind = e.kind
                /\ s.ordinal = e.ordinal /\ s.flags = e.flags /\ s.syntax = e.syntax
                /\ s.provider = provider
                /\ s.parent = IF e.parent = 0 THEN task ELSE eventSpans[e.parent]

(* The header's claim that redispatch converges: when a limit stops a run,   *)
(* no span it was expanding repeats an ancestor in provider, bytes, kind,    *)
(* flags and media type.                                                     *)
RECURSIVE Ancestors(_)
Ancestors(i) == IF i = 0 THEN {} ELSE {i} \cup Ancestors(spans[i].parent)
RedispatchConverges ==
    phase = "applying" /\ context = "limit exceeded" =>
        \A i, j \in Ancestors(task) :
            i # j => \/ spans[i].provider # spans[j].provider
                     \/ spans[i].first # spans[j].first \/ spans[i].last # spans[j].last
                     \/ spans[i].kind # spans[j].kind \/ spans[i].flags # spans[j].flags
                     \/ spans[i].media # spans[j].media
=============================================================================
