------------------------------- MODULE CaseSearch -------------------------------
(***************************************************************************)
(* Search by case trees: case_search.py.                                   *)
(*                                                                         *)
(* The clause region of one goal grows level by level.  A level loads the  *)
(* source, visits the goals of the region from left to right and finds an  *)
(* edit for each, with one lane after the other; then all edits are made   *)
(* at once and the region moves its end.  A goal without an edit ends the  *)
(* search: it keeps no alternatives.                                       *)
(*                                                                         *)
(* Terms, types and rankings are left out.  The source is the sequence of  *)
(* what the search tells apart in it: holes, closed clauses and text that  *)
(* only reads as a hole.  What Agda answers to a query is a choice.        *)
(***************************************************************************)
EXTENDS Integers, Sequences, FiniteSets, SequencesExt

CONSTANTS
  CaseRequests,  \* what the callers ask for
  MaxClauses,    \* bound on the clauses of a split
  MaxQueries,    \* bound on the queries of a lane
  CaseSlice,     \* structural_slice
  QuerySlice,    \* the query budget of the actions of one recursive call
  MaxSpecs,      \* bound on the recursive calls a clause allows
  WrapSlice,     \* _MAX_SUBJECT_ACTIONS of recursive_calls
  FocusSlice     \* the budget of a focused search, and the limit of zero actions

\* A request is a record.  lanes: what may come to something; budget, depth:
\* the bounds; behind: what follows the goal; reuse: a session with its goals is given; exactLocal:
\* allow_exact_local; trouble: what may go wrong.
CaseTroubles == {"late", "raises", "unloadable", "malformed", "overlap", "marks"}

\* What a source is made of: holes, closed text (of two kinds, so that there may be
\* two terms for a goal) and text that only reads as a hole.
Pieces == {"hole", "done", "built", "mark"}

IsRequest(r) ==
  /\ r.budget \in Nat /\ r.depth \in Nat
  /\ r.behind \in Seq(Pieces) /\ r.trouble \subseteq CaseTroubles

ASSUME CaseAssumption ==
  /\ {MaxClauses, MaxQueries, CaseSlice, QuerySlice, MaxSpecs, WrapSlice, FocusSlice} \subseteq Nat
  /\ \A r \in CaseRequests : IsRequest(r)

VARIABLES
  asked,   \* the request, or NotAsked
  text,    \* current_source
  last,    \* current_end
  loaded,  \* the source the session holds
  level,   \* depth
  todo,    \* the goals of the level that are not yet visited
  lane,    \* the lane of the goal at hand, or 0 between goals
  facts,   \* what the lanes of the goal have found out
  edits,   \* the edits of the level
  learnt,  \* case_split_seen, context_binding_seen, copattern_prefixes
  cases,   \* accepted_cases: the clauses each leaves, or the one binding
  tried,   \* structural_attempted and structural_slice_exhausted
  used,    \* actions_considered
  overdue, \* the deadline has passed
  verdict  \* how batched_case_prove ended

source == <<text, last, loaded, level, learnt>>
goal == <<todo, lane, facts, edits, cases, tried>>
caseVars == <<asked, source, goal, used, overdue, verdict>>

NotAsked == [lanes |-> {}, budget |-> 0, depth |-> 0, behind |-> <<>>, reuse |-> FALSE, exactLocal |-> FALSE, trouble |-> {}]
NothingLearnt == [split |-> FALSE, bound |-> FALSE, prefixed |-> FALSE]
Trouble(what) == what \in asked.trouble

Lesser(a, b) == IF a < b THEN a ELSE b
Greater(a, b) == IF a < b THEN b ELSE a
AtLeastZero(n) == IF n < 0 THEN 0 ELSE n

-----------------------------------------------------------------------------
(* The source and its edits.                                               *)

Holes(s, end) == {i \in 1..end : s[i] = "hole"}

\* What an edit puts in the place of a hole: a term, or clauses.  A term with a
\* question mark in a name reads as a hole only to reconstruct_guided_completion.
Terms == {<<"done">>} \cup (IF Trouble("marks") THEN {<<"mark">>} ELSE {})
Clauses(n) == IF n = 0 THEN <<"done">> ELSE [i \in 1..n |-> "hole"]

\* _apply_disjoint_edits: the new source and how much longer it is.
Edited == FlattenSeq([i \in 1..Len(text) |-> IF i \in DOMAIN edits THEN edits[i] ELSE <<text[i]>>])

\* Wrong: the end of the region stays.
NoDelta == 0

Delta == Len(Edited) - Len(text)

-----------------------------------------------------------------------------
(* Lanes.                                                                  *)

\* What _batched_case_prove tries for a goal, in its order.
RelationLanes == <<
  "calls", "seed functions", "scope functions", "lifts", "lifted applications", "anchors",
  "descendants", "bridges", "tower", "direct closure", "speculative context",
  "endpoint evidence", "preliminary", "contextual evidence", "saturation", "saturated closure",
  "rounds", "last closure">>

CaseLanes == <<
  "ellipsis", "rigid relation", "program parameter", "program calls", "program wrappers",
  "program structure", "program constants", "exact local", "arrow", "copattern",
  "result split", "focused leaf", "empty refinement", "zero constructors", "recursive specs">>
  \o RelationLanes \o <<
  "recursive clause", "transformations", "direct premises", "construction", "case splits", "selection">>

Reached == {"case splits", "selection"}

Program == {"program parameter", "program calls", "program wrappers", "program structure", "program constants"}

\* What a lane needs before it, as far as the search itself brings it about.
Ready(l, known) ==
  /\ l \in Program \cup {"transformations", "direct premises", "construction"} => learnt.split
  /\ l = "program wrappers" => "program" \in known
  /\ l = "exact local" => asked.exactLocal \/ learnt.split
  /\ l = "copattern" => learnt.prefixed
  /\ l = "focused leaf" => learnt.split \/ learnt.bound
  /\ l \in Range(RelationLanes) => "specs" \in known
  /\ l \in {"lifts", "lifted applications", "anchors", "tower"} => "functions" \in known
  /\ l = "descendants" => "square" \in known
  /\ l = "bridges" => "descendants" \in known
  /\ l \in {"direct closure", "speculative context", "last closure"} => "carrier" \in known
  /\ l \in {"endpoint evidence", "preliminary", "saturation", "saturated closure", "rounds"}
       => {"carrier", "edges"} \subseteq known
  /\ l = "contextual evidence" => "added" \in known

\* The next lane that is entered after lane i.
NextLane(i, known) ==
  LET after == {j \in (i + 1)..Len(CaseLanes) :
                  CaseLanes[j] \in asked.lanes \cup Reached /\ Ready(CaseLanes[j], known)}
  IN CHOOSE j \in after : \A k \in after : j <= k

At(l) == verdict = "searching" /\ lane # 0 /\ CaseLanes[lane] = l
Goal == CHOOSE i \in todo : \A j \in todo : i <= j

-----------------------------------------------------------------------------
(* Allowance.                                                              *)

\* available
MayUse(n) == n > 0 /\ used + n <= asked.budget /\ ~overdue

Uses(n) == used' = used + n

\* What a child search may use: a slice of what is left.
Allowance(slice) == AtLeastZero(Lesser(slice, asked.budget - used))

\* Constructors may be wrapped around recursive calls two levels below the split
\* they recurse on.
MayWrap == learnt.split /\ level >= 2

\* By how much what is granted such a slice may exceed it: the searches for
\* subjects are granted what the inferences used too.
Excess(slice, wraps) == IF wraps THEN Lesser(WrapSlice, Allowance(slice)) ELSE 0

\* Queries that ask available() each, k actions at a time.
Queries(k) == {n \in 0..MaxQueries : n = 0 \/ MayUse(k * n)}

-----------------------------------------------------------------------------
(* What a lane comes to.                                                   *)

\* The visit of the goal ends with an edit.
Puts(items) ==
  /\ edits' = [i \in DOMAIN edits \cup {Goal} |-> IF i = Goal THEN items ELSE edits[i]]
  /\ todo' = todo \ {Goal} /\ lane' = 0 /\ facts' = {} /\ cases' = {} /\ tried' = "no"
  /\ UNCHANGED verdict

Ends(how) == verdict' = how /\ UNCHANGED goal

\* The replacement cannot be placed in the clause: ValueError.
Misplaced == Trouble("malformed") /\ Ends("no-proof")

Edit(items) == Puts(items) \/ Misplaced

Closes == \E items \in Terms : Edit(items)

Learns(new) ==
  /\ facts' = facts \cup new /\ lane' = NextLane(lane, facts \cup new)
  /\ UNCHANGED <<todo, edits, cases, tried, verdict>>

Falls == Learns({})

still == <<asked, text, last, loaded, level, overdue>>
kept == <<still, learnt>>

\* Queries that Agda answers no to, until one closes the goal.
Attempts(l, k) ==
  /\ At(l)
  /\ \E n \in Queries(k) : Uses(k * n) /\ (Falls \/ (n > 0 /\ Closes))
  /\ UNCHANGED kept

\* The same where an answer may also be a fact to build on.
Explores(l, k, new) ==
  /\ At(l)
  /\ \E n \in Queries(k) : Uses(k * n) /\ (Falls \/ (n > 0 /\ (Learns(new) \/ Closes)))
  /\ UNCHANGED kept

\* Wrong: the query budgets are not cut to what is left.
CallQueriesUncut(wraps) == 0..(MaxSpecs * Lesser(QuerySlice, asked.budget))

\* generate_recursive_call_actions for one recursive call after the other, each
\* with a query budget.
CallQueries(wraps) == 0..(Allowance(MaxSpecs * QuerySlice) + Excess(QuerySlice, wraps))

-----------------------------------------------------------------------------
(* The lanes before the relations.                                         *)

\* The clause's ellipsis is expanded: its binders become visible.
Ellipsis ==
  /\ At("ellipsis") /\ Uses(1)
  /\ \/ Falls /\ UNCHANGED learnt
     \/ Puts(Clauses(1)) /\ learnt' = [learnt EXCEPT !.bound = TRUE]
  /\ UNCHANGED still

\* Both endpoints are different constructors of a family with one constructor.
\* The catalogues it reads are not charged.
RigidRelation ==
  At("rigid relation") /\ (Falls \/ Ends("no-proof")) /\ UNCHANGED <<kept, used>>

\* Recursive programs: an argument as it stands, recursive calls under
\* constructors, whole terms with a call in them, constants.
ProgramParameter == Attempts("program parameter", 1)

ProgramCalls ==
  /\ At("program calls")
  /\ \E n \in CallQueries(FALSE) : Uses(n) /\ (Falls \/ (n > 0 /\ Learns({"program"})))
  /\ UNCHANGED kept

ProgramWrappers == Attempts("program wrappers", 1)

\* A nested constructor_tree_prove reports what it used: see ConstructorSearch.
Nested(slice, wraps) == \E n \in 0..(Allowance(slice) + Excess(slice, wraps)) : Uses(n)

\* One search for each recursive call, none of which is wrapped.
ProgramStructure ==
  /\ At("program structure")
  /\ IF MayUse(1) THEN Nested(MaxSpecs * FocusSlice, FALSE) /\ (Falls \/ Closes) ELSE Falls /\ UNCHANGED used
  /\ UNCHANGED kept

ProgramConstants == Attempts("program constants", 1)

\* A local of the goal's type closes it; this action is charged unasked.
ExactLocal == At("exact local") /\ Uses(1) /\ Closes /\ UNCHANGED kept

\* A function goal is introduced; this action is charged unasked.
ArrowIntroduction ==
  /\ At("arrow") /\ Uses(1) /\ (Falls \/ Edit(Clauses(1))) /\ UNCHANGED kept

\* construct_leaf: constructor_tree_prove with a slice of the allowance while
\* case splits are left to try, here without a recursive call.
CopatternConstruction ==
  /\ At("copattern")
  /\ IF MayUse(1)
     THEN (\E slice \in {CaseSlice, asked.budget} : Nested(slice, FALSE)) /\ (Falls \/ Closes)
     ELSE Falls /\ UNCHANGED used
  /\ UNCHANGED kept

\* The result is split into its projections, each a clause with a hole.
ResultSplit ==
  /\ At("result split")
  /\ \/ /\ MayUse(1) /\ Uses(1)
        /\ \/ Falls /\ UNCHANGED learnt
           \/ \E n \in 1..MaxClauses : Puts(Clauses(n)) /\ learnt' = [learnt EXCEPT !.prefixed = TRUE]
     \/ ~MayUse(1) /\ Falls /\ UNCHANGED <<used, learnt>>
  /\ UNCHANGED still

\* A focused search for the leaf; Agda checks its term with one action more.
FocusedLeaf ==
  /\ At("focused leaf")
  /\ IF ~MayUse(1) THEN Falls /\ UNCHANGED used
     ELSE \E n \in 0..Allowance(FocusSlice) :
            \/ Uses(n) /\ Falls
            \/ MayUse(n + 1) /\ Uses(n + 1) /\ (Falls \/ Closes)
  /\ UNCHANGED kept

\* An empty refinement that leaves no hole.
EmptyRefinement ==
  /\ At("empty refinement")
  /\ IF MayUse(1) THEN Uses(1) /\ (Falls \/ Closes) ELSE Falls /\ UNCHANGED used
  /\ UNCHANGED kept

\* Eliminators of empty types, each validated afresh with the goal closed.
ZeroConstructors == Attempts("zero constructors", 1)

-----------------------------------------------------------------------------
(* Recursive relations: evidence is collected until an edge closes the goal.*)

\* The recursive calls the clause allows; without an action left the relations
\* are not looked at.
RecursiveSpecs ==
  /\ At("recursive specs")
  /\ Falls \/ (MayUse(1) /\ Learns({"specs"}))
  /\ UNCHANGED <<kept, used>>

\* The calls' own types may already lift to the goal's.
RecursiveCalls ==
  /\ At("calls")
  /\ IF ~MayUse(1) THEN Falls /\ UNCHANGED used
     ELSE \E n \in CallQueries(MayWrap) :
            /\ Uses(n)
            /\ Learns({"carrier"}) \/ (n > 0 /\ (Learns({"carrier", "edges"}) \/ Closes))
  /\ UNCHANGED kept

\* A lane that only looks for facts.
Infers(l, k, new) ==
  /\ At(l)
  /\ \E n \in Queries(k) : Uses(k * n) /\ (Falls \/ (n > 0 /\ Learns(new)))
  /\ UNCHANGED kept

\* A lane that closes the goal with what is known, without asking Agda.
Concludes(l) == At(l) /\ (Falls \/ Closes) /\ UNCHANGED <<kept, used>>

\* Pointwise calls below a function field, and principles that take a function.
SeedFunctions == Infers("seed functions", 1, {"functions"})
ScopeFunctions == Infers("scope functions", 1, {"functions"})

\* Function evidence under the goal's outer context.
FunctionLifts == Explores("lifts", 1, {"edges"})
LiftedApplications == Attempts("lifted applications", 1)

\* Two lifts at different positions leave a square between them.
Anchors ==
  At("anchors") /\ (Falls \/ ("edges" \in facts /\ Learns({"square"}))) /\ UNCHANGED <<kept, used>>

Descendants == Infers("descendants", 1, {"descendants"})
Bridges == Infers("bridges", 1, {"edges"})
NestedTower == Attempts("tower", 1)

DirectClosure == Concludes("direct closure")

\* One charge for each relation family that proposes a closure, and none of
\* them asks whether it is left; a proposal is loaded on its own to be believed.
SpeculativeContext ==
  /\ At("speculative context")
  /\ IF MayUse(1) THEN \E n \in 0..MaxQueries : Uses(n) /\ (Falls \/ (n > 0 /\ Closes))
     ELSE Falls /\ UNCHANGED used
  /\ UNCHANGED kept

\* Visible laws at the goal's endpoints, then with what these exposed.
EndpointEvidence ==
  /\ At("endpoint evidence")
  /\ \E n \in Queries(1) : Uses(n) /\ (Falls \/ Closes)
  /\ UNCHANGED kept

Preliminary == Infers("preliminary", 1, {"added"})

ContextualAlignment ==
  /\ At("contextual evidence")
  /\ \E n \in Queries(1) : Uses(n) /\ (Falls \/ Closes)
  /\ UNCHANGED kept

\* Each application is inferred together with its endpoint's type.
Saturation == Infers("saturation", 2, {})
SaturatedClosure == Concludes("saturated closure")

RelationRounds ==
  /\ At("rounds")
  /\ \E n \in Queries(1) : Uses(n) /\ (Falls \/ (n > 0 /\ Closes))
  /\ UNCHANGED kept

LastClosure == Concludes("last closure")

-----------------------------------------------------------------------------
(* The lanes after the relations.                                          *)

\* The clause's own recursive call is inferred, and lifted if it can be.
RecursiveClause ==
  /\ At("recursive clause")
  /\ IF MayUse(1) THEN Uses(1) /\ (Falls \/ Closes) ELSE Falls /\ UNCHANGED used
  /\ UNCHANGED kept

\* Evidence between the endpoints is inferred before it is transformed.
Transformations ==
  /\ At("transformations")
  /\ \E n \in Queries(1) : Uses(n) /\ (Falls \/ (n > 1 /\ Closes))
  /\ UNCHANGED kept

DirectPremises == Attempts("direct premises", 1)

\* construct_leaf before the case splits: it gets a slice if there are any to
\* try, and without them its exhaustion is the search's.
Construction ==
  /\ At("construction")
  /\ IF ~MayUse(1) THEN Falls /\ UNCHANGED used
     ELSE \E slice \in {CaseSlice, asked.budget} :
            /\ Nested(slice, MayWrap)
            /\ \/ Closes
               \/ slice = asked.budget /\ Ends("resource-exhausted")
               \/ \E how \in {"failed"} \cup (IF slice = CaseSlice THEN {"exhausted"} ELSE {}) :
                    /\ tried' = how /\ lane' = NextLane(lane, facts)
                    /\ UNCHANGED <<todo, facts, edits, cases, verdict>>
  /\ UNCHANGED kept

\* The context's variables are split on, those the clause shows first; a
\* binding of hidden ones is looked at when no split was accepted.
Split(n) == [binds |-> FALSE, leaves |-> n]
Binding == [binds |-> TRUE, leaves |-> 1]
Accepted == (SUBSET {Split(n) : n \in 0..MaxClauses}) \cup {{Binding}}

CaseSplits ==
  /\ At("case splits")
  /\ \E n \in Queries(1) :
       /\ Uses(n)
       /\ \/ \E those \in Accepted :
               /\ Cardinality(those) <= n
               /\ cases' = those /\ lane' = NextLane(lane, facts)
               /\ UNCHANGED <<todo, facts, edits, tried, verdict>>
          \/ ~MayUse(n + 1) /\ Ends("resource-exhausted")
  /\ UNCHANGED kept

\* Nothing was accepted.  What the slice of an earlier construction left is
\* given to a last one.
ConstructsAgain ==
  /\ learnt.split \/ learnt.bound \/ learnt.prefixed
  /\ tried # "failed" \/ learnt.prefixed
  /\ MayUse(1)

NothingAccepted ==
  /\ At("selection") /\ cases = {}
  /\ IF ConstructsAgain
     THEN Nested(asked.budget, MayWrap) /\ (Closes \/ Ends("resource-exhausted") \/ Ends("no-proof"))
     ELSE Ends("no-proof") /\ UNCHANGED used
  /\ UNCHANGED kept

\* One of the accepted splits is taken; its score comes from a session of its
\* own and is not charged.
Takes(bind, new) ==
  /\ At("selection")
  /\ \E c \in cases : c.binds = bind /\ Puts(Clauses(c.leaves))
  /\ learnt' = new
  /\ UNCHANGED <<still, used>>

TakesSplit == Takes(FALSE, [learnt EXCEPT !.split = TRUE])
TakesBinding == Takes(TRUE, [learnt EXCEPT !.bound = TRUE])

-----------------------------------------------------------------------------
(* Levels.                                                                 *)

Between == verdict = "searching" /\ lane = 0

Concluded(how) == verdict' = how /\ UNCHANGED <<asked, source, goal, used, overdue>>

\* reconstruct_guided_completion refuses a region with a question mark in it.
Answer(s, end) == IF "mark" \in {s[i] : i \in 1..end} THEN "no-proof" ELSE "solved"

\* A level starts: the source is loaded, unless the caller's session holds it,
\* and the goals in the region, of which there are some, are the level's.
LoadLevel ==
  /\ Between /\ todo = {} /\ edits = <<>>
  /\ IF overdue \/ level > asked.depth THEN Concluded("resource-exhausted")
     ELSE \/ /\ loaded' = text /\ todo' = Holes(text, last)
             /\ UNCHANGED <<asked, text, last, level, learnt, lane, facts, edits, cases, tried, used, overdue, verdict>>
          \/ (level > 0 \/ ~asked.reuse) /\ Trouble("unloadable") /\ Concluded("no-proof")

\* With result projections about, a level edits one goal only: the types of the
\* later fields may change.
LevelOver == edits # <<>> /\ (todo = {} \/ learnt.prefixed)

VisitGoal ==
  /\ Between /\ todo # {} /\ ~LevelOver
  /\ IF MayUse(1)
     THEN /\ lane' = NextLane(0, {}) /\ facts' = {}
          /\ UNCHANGED <<asked, source, todo, edits, cases, tried, used, overdue, verdict>>
     ELSE Concluded("resource-exhausted")

\* All edits of the level are made at once; a region without holes is not
\* loaded again.
CommitLevel ==
  /\ Between /\ LevelOver
  /\ \/ /\ text' = Edited /\ last' = last + Delta
        /\ level' = level + 1 /\ todo' = {} /\ edits' = <<>>
        /\ verdict' = IF Holes(text', last') = {} THEN Answer(text', last') ELSE verdict
        /\ UNCHANGED <<asked, loaded, learnt, lane, facts, cases, tried, used, overdue>>
     \/ Trouble("overlap") /\ Concluded("no-proof")

\* A kernel call raises what the search does not catch.
CaseRaise == verdict = "searching" /\ Trouble("raises") /\ Concluded("raised")

CaseExpire ==
  /\ verdict = "searching" /\ Trouble("late") /\ ~overdue /\ overdue' = TRUE
  /\ UNCHANGED <<asked, source, goal, used, verdict>>

\* What a search starts with: one goal in a source, whose hole is the region,
\* and the source its session holds.
Begins(request, holds) ==
  /\ asked' = request /\ text' = <<"hole">> \o request.behind /\ last' = 1
  /\ loaded' = holds
  /\ level' = 0 /\ learnt' = NothingLearnt
  /\ todo' = {} /\ lane' = 0 /\ facts' = {} /\ edits' = <<>> /\ cases' = {} /\ tried' = "no"
  /\ used' = 0 /\ verdict' = IF request = NotAsked THEN "idle" ELSE "searching"

CaseInit ==
  /\ asked \in CaseRequests \cup {NotAsked} /\ text = <<"hole">> \o asked.behind /\ last = 1
  /\ loaded = (IF asked.reuse THEN text ELSE <<>>)
  /\ level = 0 /\ learnt = NothingLearnt
  /\ todo = {} /\ lane = 0 /\ facts = {} /\ edits = <<>> /\ cases = {} /\ tried = "no"
  /\ used = 0 /\ overdue = FALSE
  /\ verdict = IF asked = NotAsked THEN "idle" ELSE "searching"

LaneSteps ==
  \/ Ellipsis \/ RigidRelation \/ ProgramParameter \/ ProgramCalls \/ ProgramWrappers
  \/ ProgramStructure \/ ProgramConstants \/ ExactLocal \/ ArrowIntroduction
  \/ CopatternConstruction \/ ResultSplit \/ FocusedLeaf \/ EmptyRefinement \/ ZeroConstructors
  \/ RecursiveSpecs \/ RecursiveCalls \/ SeedFunctions \/ ScopeFunctions \/ FunctionLifts
  \/ LiftedApplications \/ Anchors \/ Descendants \/ Bridges \/ NestedTower \/ DirectClosure
  \/ SpeculativeContext \/ EndpointEvidence \/ Preliminary \/ ContextualAlignment \/ Saturation
  \/ SaturatedClosure \/ RelationRounds \/ LastClosure \/ RecursiveClause \/ Transformations
  \/ DirectPremises \/ Construction \/ CaseSplits \/ NothingAccepted \/ TakesSplit \/ TakesBinding

CaseSteps == LaneSteps \/ LoadLevel \/ VisitGoal \/ CommitLevel

\* Between its searches: a caller asks or takes the answer away, and time goes on.
CallerSteps ==
  /\ verdict # "searching"
  /\ \/ IsRequest(asked') /\ Begins(asked', loaded') /\ UNCHANGED overdue
     \/ UNCHANGED <<asked, source, goal, used, verdict>>

\* The search by itself, for one caller after the other.
CaseNext == CaseSteps \/ CaseRaise \/ CaseExpire \/ CallerSteps

CaseSpec == CaseInit /\ [][CaseNext]_caseVars

-----------------------------------------------------------------------------
(* Properties.                                                             *)

\* Goals and edits are positions in the source the session holds: goals are
\* asked about, and edits are placed, only while that is current_source; and an
\* edited goal is not visited again.  The region is what became of the one goal:
\* what lies behind it is never touched, however often the edits move it, and a
\* solved region has no goal.
EditsFitTheSource ==
  /\ verdict = "searching" /\ (lane # 0 \/ edits # <<>>) =>
       loaded = text /\ todo \cap DOMAIN edits = {} /\ todo \cup DOMAIN edits = Holes(loaded, last)
  /\ SubSeq(text, last + 1, Len(text)) = asked.behind
  /\ verdict = "solved" => Holes(text, last) = {}

\* By how much a search may exceed its allowance: one action charged unasked,
\* the families of one speculative closure, or what the wrappers of recursive
\* calls in one lane or one leaf are granted twice; never more, whatever the
\* lanes of all its goals do.
OverspendBounded ==
  used <= asked.budget + Greater(Greater(1, MaxQueries), Lesser(WrapSlice, asked.budget))

================================================================================
