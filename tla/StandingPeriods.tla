--------------------------- MODULE StandingPeriods ---------------------------
(***************************************************************************)
(* Standing: engine/src/standing_calculation.c and its PostgreSQL service  *)
(* standing_calculation_pg.c.  A request rates one participant for one     *)
(* period: its immutable prior state and a list of match events, each with *)
(* the evidence root it rests on and the opponent's own prior state.  The  *)
(* calculation makes the successor state; the service writes the initial   *)
(* states, the events, the successor and the receipt with its members, one *)
(* statement each, and after each statement verifies that what it wanted   *)
(* to write is what is stored.                                             *)
(*                                                                         *)
(* Sessions interleave between rows.  An INSERT ... ON CONFLICT DO NOTHING *)
(* skips a row that shares a unique key with a stored one and waits for    *)
(* the transaction that holds an uncommitted one.  The unique keys are     *)
(* those the tables declare (laplace--version.sql.in).                     *)
(*                                                                         *)
(* The Glicko-2 arithmetic is a function of the prior rating and the       *)
(* opponents' ratings: a rating is the record of those.  A state's         *)
(* identifier hashes its fields, which do not name the events, so two      *)
(* lists of events may lead to the same successor.                         *)
(***************************************************************************)
EXTENDS Naturals, FiniteSets, SequencesExt

CONSTANTS
    Raters,         \* backends
    RatingPeriods,
    Onboarded,      \* the states laplace_standing_onboard made
    RootLists,      \* lists of evidence roots, one per event, a request may carry
    CounterLimit,   \* of match counts and ordinals, UINT64_MAX in the code
    MaxRatings      \* bound on requests

VARIABLES
    rating,         \* session -> its open transaction
    standings,      \* committed rows
    calculated,     \* successors calculated so far, whether or not they were published
    recipeAdmitted, \* the recipe is admitted for the active authority and epoch
    ratings         \* requests made so far

standingVars == <<rating, standings, calculated, recipeAdmitted, ratings>>

-----------------------------------------------------------------------------
(* States and rows.                                                        *)

NoState == [none |-> TRUE]
DefaultRating == <<>>

StandingAssumption ==
    /\ \A s \in Onboarded : s.ordinal = 0 /\ s.matches = 0
    /\ \A list \in RootLists : list \in Seq(ToSet(list))
    /\ CounterLimit \in Nat

\* The rating follows from the prior one and the bag of ratings met.
Met(events) == ToBag([i \in DOMAIN events |-> events[i].opponent.rating])

\* laplace_standing_calculate_period: the successor of the prior state.
Successor(q) ==
    [coord |-> q.prior.coord, arena |-> q.prior.arena, epoch |-> q.period, prior |-> q.prior,
     rating |-> <<q.prior.rating, Met(q.events)>>,
     matches |-> q.prior.matches + Len(q.events), ordinal |-> q.prior.ordinal + 1]

StateRow(s) == [table |-> "state", state |-> s]

EventRow(q, e) ==
    [table |-> "event", prior |-> q.prior, period |-> q.period, root |-> e.root, opponent |-> e.opponent]

EventRows(q) == {EventRow(q, e) : e \in ToSet(q.events)}

\* The receipt's identifier hashes the event identifiers through its input
\* fingerprint; its members are written with it.
RatingReceipt(q) ==
    [table |-> "receipt", successor |-> Successor(q), period |-> q.period, members |-> EventRows(q)]

StatesIn(rows) == {r.state : r \in {x \in rows : x.table = "state"}}
EventsIn(rows) == {r \in rows : r.table = "event"}
ReceiptsIn(rows) == {r \in rows : r.table = "receipt"}

StateKeys(s) ==
    {<<"id", s>>, <<"ordinal", s.coord, s.ordinal>>} \cup (IF s.ordinal = 0 THEN {} ELSE {<<"prior", s.prior>>})
ReceiptKeys(r) == {<<"receipt", r>>, <<"successor", r.successor>>, <<"period", r.successor.prior, r.period>>}

\* The unique keys a row occupies.
UniqueKeys(r) ==
    CASE r.table = "state" -> StateKeys(r.state)
      [] r.table = "event" -> {<<"event", r>>, <<"root", r.prior.coord, r.root>>}
      [] r.table = "receipt" -> ReceiptKeys(r)

KeyTaken(r, rows) == \E x \in rows : UniqueKeys(x) \cap UniqueKeys(r) # {}

-----------------------------------------------------------------------------
(* The calculation.                                                        *)

\* Fault: a root may be there twice.
CalculableRepeating(q) ==
    /\ q.events # <<>>
    /\ \A i \in DOMAIN q.events : /\ q.events[i].opponent.arena = q.prior.arena
                                  /\ q.events[i].opponent.coord # q.prior.coord
    /\ q.prior.matches + Len(q.events) <= CounterLimit /\ q.prior.ordinal < CounterLimit

\* Identities, shapes and the outcome mapping are recomputed for every input;
\* what is left to decide is how the inputs relate to each other, that no root
\* is there twice and that no counter overflows.
Calculable(q) ==
    /\ q.events # <<>>
    /\ \A i \in DOMAIN q.events : /\ q.events[i].opponent.arena = q.prior.arena
                                  /\ q.events[i].opponent.coord # q.prior.coord
    /\ \A i, j \in DOMAIN q.events : q.events[i].root = q.events[j].root => i = j
    /\ q.prior.matches + Len(q.events) <= CounterLimit /\ q.prior.ordinal < CounterLimit

NotRating == [step |-> "idle", reply |-> "none", todo |-> <<>>, own |-> {}, request |-> <<>>]

\* The states a request names.
Parties(q) == {q.prior} \cup {e.opponent : e \in ToSet(q.events)}

\* The rows of each statement, in the order the statement produces them: the
\* initial states sorted by identifier, the events as the caller listed them.
RatingRows(q, step) ==
    CASE step = "states"    -> SetToSeq({StateRow(s) : s \in {x \in Parties(q) : x.ordinal = 0}})
      [] step = "events"    -> [i \in 1 .. Len(q.events) |-> EventRow(q, q.events[i])]
      [] step = "successor" -> <<StateRow(Successor(q))>>
      [] step = "receipt"   -> <<RatingReceipt(q)>>

NextStep == [states |-> "events", events |-> "successor", successor |-> "receipt", receipt |-> "commit"]

\* A caller may name any state that was calculated, also one whose transaction was
\* rolled back or is still open.
KnownStates == Onboarded \cup calculated

StandingInit ==
    /\ rating = [s \in Raters |-> NotRating]
    /\ standings = {} /\ calculated = {} /\ recipeAdmitted = FALSE /\ ratings = 0

\* The protected authority lifecycle deposits the admission.
AdmitRecipe ==
    /\ ~recipeAdmitted /\ recipeAdmitted' = TRUE
    /\ UNCHANGED <<rating, standings, calculated, ratings>>

\* The entry point: admission, reading, the calculation twice, and then the
\* first statement.  The client retries or goes on with a later period.
Rate(s, q) ==
    /\ rating[s].step = "idle" /\ ratings < MaxRatings
    /\ rating' = [rating EXCEPT ![s] =
            IF recipeAdmitted /\ Calculable(q)
            THEN [NotRating EXCEPT !.step = "states", !.request = q, !.todo = RatingRows(q, "states")]
            ELSE [NotRating EXCEPT !.reply = "refused"]]
    /\ calculated' = IF recipeAdmitted /\ Calculable(q) THEN calculated \cup {Successor(q)} ELSE calculated
    /\ ratings' = ratings + 1
    /\ UNCHANGED <<standings, recipeAdmitted>>

-----------------------------------------------------------------------------
(* The writes.                                                             *)

OthersRows(s) == UNION {rating[o].own : o \in Raters \ {s}}

\* One row of the running statement, once no transaction in progress holds one
\* of its keys: inserted, or skipped on a conflict.
InsertRow(s) ==
    /\ rating[s].todo # <<>>
    /\ LET r == Head(rating[s].todo)
       IN /\ ~KeyTaken(r, OthersRows(s))
          /\ rating' = [rating EXCEPT ![s].todo = Tail(@),
                                      ![s].own = IF KeyTaken(r, standings \cup @) THEN @ ELSE @ \cup {r}]
    /\ UNCHANGED <<standings, calculated, recipeAdmitted, ratings>>

SeenBy(s) == standings \cup rating[s].own

\* The verifications: every row of the statement is stored as given; of the first
\* statement every state the request names, column by column.
Verified(s) ==
    LET q == rating[s].request
    IN CASE rating[s].step = "states"    -> Parties(q) \subseteq StatesIn(SeenBy(s))
         [] rating[s].step = "events"    -> EventRows(q) \subseteq SeenBy(s)
         [] rating[s].step = "successor" -> Successor(q) \in StatesIn(SeenBy(s))
         [] rating[s].step = "receipt"   -> RatingReceipt(q) \in SeenBy(s)

\* laplace_pg_execute_set_write_verify: the statement is done; go on or raise.
VerifyStatement(s) ==
    /\ rating[s].step \in DOMAIN NextStep /\ rating[s].todo = <<>>
    /\ LET to == NextStep[rating[s].step]
       IN rating' = [rating EXCEPT ![s] =
            IF ~Verified(s) THEN [NotRating EXCEPT !.reply = "conflict"]
            ELSE IF to = "commit" THEN [@ EXCEPT !.step = to]
            ELSE [@ EXCEPT !.step = to, !.todo = RatingRows(rating[s].request, to)]]
    /\ UNCHANGED <<standings, calculated, recipeAdmitted, ratings>>

CommitRating(s) ==
    /\ rating[s].step = "commit"
    /\ standings' = standings \cup rating[s].own
    /\ rating' = [rating EXCEPT ![s] = [NotRating EXCEPT !.reply = "ok"]]
    /\ UNCHANGED <<calculated, recipeAdmitted, ratings>>

\* A cancel, a crash or a later error of the caller's transaction; PostgreSQL
\* ends a cycle of waits the same way.
AbortRating(s) ==
    /\ rating[s].step # "idle"
    /\ rating' = [rating EXCEPT ![s] = [NotRating EXCEPT !.reply = "aborted"]]
    /\ UNCHANGED <<standings, calculated, recipeAdmitted, ratings>>

\* The events of a list of roots against opponents that are known.
EventsOf(list) == {[i \in 1 .. Len(list) |-> [root |-> list[i], opponent |-> o[i]]] : o \in [1 .. Len(list) -> KnownStates]}
RateStep(s) ==
    \E prior \in KnownStates, period \in RatingPeriods, list \in RootLists : \E events \in EventsOf(list) :
        Rate(s, [prior |-> prior, period |-> period, events |-> events])

StandingNext ==
    \/ AdmitRecipe
    \/ \E s \in Raters : RateStep(s) \/ InsertRow(s) \/ VerifyStatement(s) \/ CommitRating(s) \/ AbortRating(s)

StandingSpec == StandingInit /\ [][StandingNext]_standingVars

-----------------------------------------------------------------------------
(* Properties.                                                             *)

EventsBehind(s) ==
    {e \in EventsIn(standings) : e.prior.coord = s.coord /\ e.prior.ordinal < s.ordinal}

\* The match count a state carries is the number of distinct evidence roots
\* its participant was ever rated on up to that period: a root never counts
\* twice, in one period, in two periods or through two sessions.
MatchesAreDistinctRoots ==
    \A s \in StatesIn(standings) :
        /\ s.matches = Cardinality({e.root : e \in EventsBehind(s)})
        /\ s.matches = Cardinality(EventsBehind(s))

\* A participant has one history: a coordinate has one state of every ordinal up
\* to its latest, each the prior of the next, and every period of it has the
\* receipt whose members are exactly the events stored for that period.
HistoriesAreWhole ==
    \A s \in StatesIn(standings) :
        /\ \A t \in StatesIn(standings) : t.coord = s.coord /\ t.ordinal = s.ordinal => t = s
        /\ s.ordinal > 0 =>
             /\ s.prior \in StatesIn(standings)
             /\ s.prior.coord = s.coord /\ s.prior.ordinal = s.ordinal - 1
             /\ \E r \in ReceiptsIn(standings) :
                  /\ r.successor = s
                  /\ r.members = {e \in EventsIn(standings) : e.prior = s.prior}

\* standing_calculation_pg.c: whatever states callers name and however their transactions
\* interleave, a participant has one history, whose match counts are of distinct roots.
StandingIsWhole == HistoriesAreWhole /\ MatchesAreDistinctRoots
=============================================================================
