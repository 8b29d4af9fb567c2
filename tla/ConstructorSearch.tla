--------------------------- MODULE ConstructorSearch ---------------------------
(***************************************************************************)
(* Structural proof search: constructor_search.py.                         *)
(*                                                                         *)
(* The search is one lazy generator inside another.  Solving a goal is an  *)
(* activation that runs its lanes in order; a lane gives a term, or        *)
(* refines the goal and solves the children one after the other, each in   *)
(* the state the one before it left.  An activation that yields stays      *)
(* suspended and is resumed when what was built on its solution fails, so  *)
(* the live activations form a stack and the newest one is the one that    *)
(* runs.  What comes out at the root passes a filter.                      *)
(*                                                                         *)
(* Agda decides what a give or a refinement does.  Terms, types and        *)
(* rankings are left out: a goal is its sequent, a plan its size.          *)
(***************************************************************************)
EXTENDS Integers, Sequences, FiniteSets

CONSTANTS
  Sequents,       \* the goals that occur, a set of records
  Requests,       \* what the callers ask for
  MaxTries,       \* bound on the proposals of a lane
  Shapes,         \* what a refinement may leave, a set of sequences of goals
  QueryLimit,     \* premise_query_limit
  BranchSlice,    \* _PREMISE_BRANCH_QUERY_SLICE
  EvidenceSlice,  \* action_slice of contextual evidence
  PathSlice,      \* the cap of a relation path's query budget
  ShallowSlice,   \* the cap of the focused search for shallow locals
  FocusedSlice,   \* the cap of the focused search of a goal
  WrapSlice,      \* _MAX_SUBJECT_ACTIONS
  Widths,         \* how often premise retrieval widens
  Subjects,       \* the terms that may be taken apart
  Nobody          \* no owner

\* head: the type's shape; ready: an eliminator has its source in scope; same:
\* the head is the recursive definition's; nullary: a case split could decide it.
Sequent == [head : {"data", "opaque", "arrow"}, ready : BOOLEAN, same : BOOLEAN, nullary : BOOLEAN]
\* A request is a record.  found: the lanes that find something to propose;
\* budget, depth, limit: the bounds given; defer: defer_concrete_premises;
\* recursive: a recursive_call is given; wraps: it has allow_constructor_wrapping;
\* must: require_recursive_call; arity: preferred_constructor_arity is given;
\* copattern: a copattern_call is given; hides: Agda leaves obligations; trouble:
\* the deadline passes or a call raises.
Flags == {"defer", "recursive", "wraps", "must", "arity", "copattern", "hides", "trouble"}

ASSUME ConstructorAssumption ==
  /\ Sequents \subseteq Sequent /\ Shapes \subseteq Seq(Sequents)
  /\ \A r \in Requests : r.budget \in Nat /\ r.depth \in Nat /\ r.limit \in Nat
  /\ {MaxTries, QueryLimit, BranchSlice, EvidenceSlice, PathSlice, ShallowSlice, FocusedSlice,
      WrapSlice, Widths} \subseteq Nat
  /\ Nobody \notin Subjects \cup {"call"} /\ "call" \notin Subjects

VARIABLES
  ask,     \* the request, with the lanes that find something
  spent,   \* actions_considered
  queries, \* _scope_premise_queries
  saw,     \* saw_exhaustion
  late,    \* the deadline has passed
  stack,   \* the live activations
  offer,   \* a solution on its way to the root, or NoOffer
  calling, \* _constructing_copattern_arguments
  subjects,\* _active_evidence_eliminations
  seen,    \* the plans the root has seen
  results, \* the solutions kept
  status,  \* how constructor_tree_prove ended
  told     \* calls of on_statistics

vars == <<ask, spent, queries, saw, late, stack, offer, calling, subjects, seen, results, status, told>>

Smaller(a, b) == IF a < b THEN a ELSE b

-----------------------------------------------------------------------------
(* Kernel states and plans.                                                *)

\* A state token: the goals that are open, the next interaction point, the
\* actions that led here, and whether an obligation is hidden in it.
Token(open, next, made, hidden) == [open |-> open, next |-> next, made |-> made, hidden |-> hidden]

RootToken == Token({0}, 1, 0, FALSE)

\* Whether the action leaves an obligation is Agda's to say.
Hides(t) == IF t.hidden \/ ask.hides THEN {t.hidden, TRUE} ELSE {FALSE}

\* commit_proof_action(kind="give"): the states it may lead to.
Given(t, goal) == {Token(t.open \ {goal}, t.next, t.made + 1, h) : h \in Hides(t)}

\* commit_proof_action(kind="refine"): the goal is replaced by n others.
Refined(t, goal, n) ==
  {Token((t.open \ {goal}) \cup {t.next + i : i \in 0..(n - 1)}, t.next + n, t.made + 1, h) : h \in Hides(t)}

\* A plan: the actions in it and whether one of them is a recursive call.
Plan(size, rec) == [size |-> size, rec |-> rec]
Leaf(rec) == Plan(1, rec)
NoPlan == Plan(0, FALSE)
Joined(p, q) == Plan(p.size + q.size, p.rec \/ q.rec)

NoOffer == [token |-> RootToken, plan |-> NoPlan, link |-> [up |-> -1, nth |-> 0, sum |-> NoPlan]]
Offers(token, plan, link) == offer' = [token |-> token, plan |-> plan, link |-> link]

-----------------------------------------------------------------------------
(* Lanes.                                                                  *)

\* _solve_goal: the lanes of a goal met before on its path, of a function and
\* of any other goal, in the order the code runs them.
Route == [
  entering |-> <<"enter">>,
  cycle |-> <<"exact locals", "exact premises", "recursive calls">>,
  arrow |-> <<"expected applications", "relation path", "local metas", "supplied values",
              "pattern lambda", "absurd", "introduce">>,
  leaf |-> <<"copattern", "expected applications", "backward support", "relation path",
             "expected evidence", "room", "shallow locals", "supplied values", "indexed evidence",
             "builders", "sole introduction", "sole alternative", "every alternative",
             "recursive calls", "contextual evidence", "kept evidence", "consequences",
             "observed elimination", "evidence refinements", "continuations", "shared head",
             "ready closures", "eliminators", "ready results", "local refinements",
             "deferred locals", "opaque eliminators", "room again", "focused terms",
             "local metas", "anonymous", "introduction", "constructors", "ready constructors",
             "record", "visible eliminators", "delayed recursive calls", "late relation path",
             "premises", "skeletons">>]
\* Lanes whose one attempt is made whenever they are reached.
Certain == {"enter", "room", "room again", "introduce", "introduction", "sole introduction"}

\* Lanes that are visited because of what an earlier lane left.
Following == {"sole alternative", "every alternative", "constructors", "ready constructors",
              "record", "kept evidence"}

\* A lane that yields a solution ends its activation when it is resumed
\* without another: the lanes after it are given up.
Cuts(lane) ==
  \/ lane \in {"indexed evidence", "sole introduction", "sole alternative", "recursive calls",
              "kept evidence", "observed elimination", "evidence refinements", "continuations",
              "shared head", "ready closures", "eliminators", "ready results",
              "local refinements", "deferred locals", "opaque eliminators",
              "visible eliminators", "late relation path", "premises", "skeletons"}
  \/ lane = "shallow locals" /\ ~ask.must

\* Lanes after which the activation returns whatever they came to.
Final == {"introduce", "every alternative", "kept evidence"}

Lane(f) == Route[f.route][f.at]

\* _introduction_readiness looks at the goals an introduction leaves.
Delays(f) == ask.arity /\ f.key.head # "opaque" /\ (f.depth = 0 \/ ~f.key.same)

\* A local or one shallow application of it is worth a search of its own.
Shallow(f) == ask.recursive /\ ~(ask.must /\ f.depth = 0)

\* Lanes that generate the calls they charge one by one when they start.
CallLanes == {"recursive calls", "delayed recursive calls"}

\* The conditions of _solve_goal under which it enters a lane.
Open(f, lane) ==
  /\ lane \in ask.found \/ lane \in Certain \/ lane \in Following
  /\ lane \in {"continuations", "shared head", "ready closures", "ready results", "deferred locals"}
       => f.key.ready
  /\ lane \in {"observed elimination", "opaque eliminators"} => f.key.head = "opaque"
  /\ lane \in {"sole introduction", "shared head", "introduction", "record", "constructors",
              "visible eliminators", "delayed recursive calls", "late relation path", "premises", "skeletons"}
       => f.key.head # "opaque"
  /\ lane \in CallLanes => ask.recursive
  /\ lane = "shallow locals" => Shallow(f)
  /\ lane = "sole introduction" => ask.recursive /\ ~(f.depth > 0 /\ f.key.same)
  /\ lane = "recursive calls" /\ f.route = "leaf" => ~Delays(f)
  /\ lane = "delayed recursive calls" => Delays(f)
  /\ lane \in {"eliminators", "ready results"} => ~ask.recursive
  /\ lane \in {"expected applications", "backward support", "relation path", "late relation path"}
       => ~ask.defer
  /\ lane = "skeletons" => ~(ask.defer /\ f.key.nullary)
  /\ lane = "premises" => ~ask.defer
  /\ lane = "late relation path" => "relation path" \notin ask.found
  /\ lane = "copattern" => ask.copattern /\ ~calling
  /\ lane = "sole alternative" => f.intro = "one"
  /\ lane = "every alternative" => f.intro = "many" /\ ask.must
  /\ lane = "kept evidence" \/ lane = "ready constructors" => f.ready # {}
  /\ lane \in {"shared head", "introduction"} => f.intro = "unasked"
  /\ lane = "constructors" =>
       f.intro \in {"one", "many", "cannot"} \/ (f.intro = "accepted" /\ ask.arity)
  /\ lane = "record" => f.intro \in {"cannot", "accepted"}
-----------------------------------------------------------------------------
(* The stack.                                                              *)

Top == stack[Len(stack)]
Below == SubSeq(stack, 1, Len(stack) - 1)
Put(f) == [stack EXCEPT ![Len(stack)] = f]

Activation(goal, key, token, depth, path, stop, link) ==
  [goal |-> goal, key |-> key, token |-> token, depth |-> depth, path |-> path, stop |-> stop,
   link |-> link, route |-> "entering", at |-> 1, left |-> 1, won |-> FALSE, intro |-> "unasked",
   ready |-> {}, kids |-> <<>>, grant |-> stop, quota |-> stop, width |-> 1, owner |-> Nobody]

\* Wrong: the plans of the elder siblings are lost.
ForgetfulChild(f, nth, token, sum, up) ==
  Activation(f.kids[nth].goal, f.kids[nth].key, token, f.depth + 1, f.path, f.grant,
             [up |-> up, nth |-> nth, sum |-> NoPlan])

\* _solve_children: the child solved next starts in the state token.
Child(f, nth, token, sum, up) ==
  Activation(f.kids[nth].goal, f.kids[nth].key, token, f.depth + 1, f.path, f.grant,
             [up |-> up, nth |-> nth, sum |-> sum])

Tries(f, lane) ==
  CASE lane \in {"introduce", "sole introduction", "sole alternative", "shared head", "pattern lambda",
                "absurd", "anonymous", "introduction", "record", "copattern", "enter", "room",
                "room again", "contextual evidence", "relation path", "late relation path"} -> 1
    [] lane \in {"ready constructors", "kept evidence"} -> Cardinality(f.ready)
    [] lane = "skeletons" /\ f.intro = "record" -> 0
    [] lane \in CallLanes -> MaxTries + 1
    [] OTHER -> MaxTries

\* Lanes that get a slice of the premise queries, counted from their start.
Sliced == {"expected applications", "supplied values", "builders"}

Goes(f, at) ==
  [f EXCEPT !.at = at, !.left = Tries(f, Route[f.route][at]), !.won = FALSE, !.grant = f.stop,
            !.quota = IF Route[f.route][at] \in Sliced THEN queries + BranchSlice ELSE QueryLimit]

Later(f) == {i \in (f.at + 1)..Len(Route[f.route]) : Open(f, Route[f.route][i])}
Least(S) == CHOOSE i \in S : \A j \in S : i <= j

\* The activation goes on with its next lane, or returns.
Passes(f) ==
  stack' = IF Later(f) = {} \/ (f.at > 0 /\ (Lane(f) \in Final \/ (f.won /\ Cuts(Lane(f))))) THEN Below ELSE Put(Goes(f, Least(Later(f))))

Returns == stack' = Below

-----------------------------------------------------------------------------
(* Allowance.                                                              *)

\* _available
Available == ~late /\ spent < ask.budget

\* _charge: a refused charge is remembered.
Charges == Available /\ spent' = spent + 1 /\ UNCHANGED saw
Refused == ~Available /\ saw' = TRUE /\ UNCHANGED spent

\* The subject searches for a recursive call are granted what its inferences have
\* used too, if constructors may be wrapped around it.
WrapExcess(granted) == IF ask.wraps THEN Smaller(WrapSlice, granted) ELSE 0

\* What a search may report in the end: one generation of recursive calls exceeds
\* its grant, and nothing is granted after it.
Spendable == ask.budget + WrapExcess(ask.budget)

InQuota(f) == queries < Smaller(Smaller(QueryLimit, f.quota), f.stop)

-----------------------------------------------------------------------------
(* What a proposal of the running activation comes to.                     *)

running == status = "running"

Runs(lane) == running /\ offer = NoOffer /\ stack # <<>> /\ Top.owner = Nobody /\ Lane(Top) = lane

RunsAny(lanes) == \E lane \in lanes : Runs(lane)

Used(f) == [f EXCEPT !.left = @ - 1]

apart == <<ask, late, seen, results, status, told>>

Rejects(f) == stack' = Put(Used(f)) /\ UNCHANGED offer

\* A give that Agda accepts is a solution of the activation.
Gives(f, rec) ==
  \/ Rejects(f)
  \/ \E t \in Given(f.token, f.goal) :
       stack' = Put([Used(f) EXCEPT !.won = TRUE]) /\ Offers(t, Leaf(rec), f.link)

\* _accepted_introduction: without children it is a solution, with children the
\* first of them starts.
Introduces(f, token, keys) ==
  LET g == [f EXCEPT !.kids = [i \in 1..Len(keys) |-> [goal |-> token.next - Len(keys) + i - 1, key |-> keys[i]]]]
  IN IF keys = <<>>
     THEN stack' = Put([g EXCEPT !.won = TRUE]) /\ Offers(token, Leaf(Lane(f) = "copattern"), f.link)
     ELSE stack' = Append(Put(g), Child(g, 1, token, NoPlan, Len(stack))) /\ UNCHANGED offer

\* A refinement that Agda rejects, or whose preview does not show as many holes
\* as it left goals, is dropped.
Refines(f) ==
  \/ Rejects(f)
  \/ \E keys \in Shapes : \E t \in Refined(f.token, f.goal, Len(keys)) : Introduces(Used(f), t, keys)

\* One more proposal of a lane that charges each; Counts says whether it is a
\* premise query too.  A refused charge ends the lane.
Charged(f, Counts, Step(_)) ==
  /\ f.left > 0
  /\ \/ Charges /\ queries' = queries + Counts /\ Step(f)
     \/ Refused /\ Passes(f) /\ UNCHANGED <<queries, offer>>
  /\ UNCHANGED <<calling, subjects, apart>>

\* The same written out in _solve_goal itself, where a refused charge ends the
\* activation.
ChargedHere(f, Step(_)) ==
  /\ f.left > 0
  /\ \/ Charges /\ Step(f)
     \/ Refused /\ Returns /\ UNCHANGED offer
  /\ UNCHANGED <<queries, calling, subjects, apart>>

\* Premise queries have a limit of their own; reaching it ends the lane and is
\* not remembered.
Queried(f, Step(_)) ==
  IF InQuota(f) THEN Charged(f, 1, Step)
  ELSE f.left > 0 /\ Passes(f) /\ UNCHANGED <<spent, queries, saw, offer, calling, subjects, apart>>
-----------------------------------------------------------------------------
(* Entering a goal.                                                        *)

\* A goal met before on its path may only be closed by what is at hand.
Enter ==
  /\ Runs("enter")
  /\ IF ~Available \/ Top.depth > ask.depth
     THEN saw' = TRUE /\ Returns
     ELSE LET route == IF Top.key \in Top.path THEN "cycle"
                       ELSE IF Top.key.head = "arrow" THEN "arrow" ELSE "leaf"
          IN /\ Passes([Top EXCEPT !.route = route, !.at = 0, !.path = @ \cup {Top.key}])
             /\ UNCHANGED saw
  /\ UNCHANGED <<spent, queries, offer, calling, subjects, apart>>

\* What a focused search reports, for shallow locals or for any term.
FocusedSpends(f) ==
  LET slice == IF Lane(f) = "room again" THEN FocusedSlice ELSE IF Shallow(f) THEN ShallowSlice ELSE 0
  IN IF late THEN {0} ELSE 0..Smaller(slice, ask.budget - spent)

\* The two places where _solve_goal asks for allowance before it goes on.  A
\* focused search comes at once and is charged whole; the second one's
\* exhaustion is remembered.
Room ==
  /\ RunsAny({"room", "room again"})
  /\ IF spent >= ask.budget THEN saw' = TRUE /\ Returns /\ UNCHANGED spent
     ELSE /\ \E n \in FocusedSpends(Top) : spent' = spent + n
          /\ saw' \in (IF Lane(Top) = "room again" THEN {saw \/ late, TRUE} ELSE {saw})
          /\ Passes(Top)
  /\ UNCHANGED <<queries, offer, calling, subjects, apart>>

\* The widths at which premises are tried again.
WideLanes(f) == {i \in 1..f.at : Route.leaf[i] \in {"premises", "skeletons"} /\ Open(f, Route.leaf[i])}

\* Wrong: the width stays.
SameWidth(f) == Goes(f, Least(WideLanes(f)))

Widened(f) == Goes([f EXCEPT !.width = @ + 1], Least(WideLanes(f)))

\* A lane finds nothing more.
LaneOver ==
  /\ running /\ offer = NoOffer /\ stack # <<>> /\ Top.owner = Nobody
  /\ Lane(Top) \in Certain \cup {"ready constructors", "kept evidence"} => Top.left = 0
  /\ Lane(Top) # "enter" /\ (Lane(Top) \in CallLanes => Top.left <= MaxTries)
  /\ IF Lane(Top) \in {"premises", "skeletons"} /\ Later(Top) = {} /\ ~Top.won /\ Top.width < Widths
     THEN stack' = Put(Widened(Top))
     ELSE Passes(Top)
  /\ UNCHANGED <<spent, queries, saw, offer, calling, subjects, apart>>

\* The finally clauses, when the introduction of their lane has no more solutions.
Finally ==
  /\ running /\ offer = NoOffer /\ stack # <<>> /\ Top.owner # Nobody
  /\ IF Lane(Top) = "copattern" THEN calling' = FALSE /\ UNCHANGED subjects
     ELSE subjects' = subjects \ {Top.owner} /\ UNCHANGED calling
  /\ stack' = Put([Top EXCEPT !.owner = Nobody])
  /\ UNCHANGED <<spent, queries, saw, offer, apart>>

-----------------------------------------------------------------------------
(* Terms given for the goal.                                               *)

Term(f) == Gives(f, FALSE)
Call(f) == Gives(f, TRUE)

\* Locals and premises of exactly the goal's type close a cycle.
ExactLocals == Runs("exact locals") /\ ChargedHere(Top, Term)
ExactPremises == Runs("exact premises") /\ ChargedHere(Top, Term)

\* The calls of a goal in a state are generated once, with what is left: the
\* searches for subjects, the inferences and the compositions are charged
\* together.  Without allowance left the lane yields nothing, and says nothing.
GenerateCalls ==
  /\ RunsAny(CallLanes) /\ Top.left > MaxTries
  /\ LET remaining == ask.budget - spent IN
     IF remaining <= 0 THEN Passes(Top) /\ UNCHANGED spent
     ELSE /\ stack' = Put(Used(Top))
          /\ \E n \in IF late THEN {0} ELSE 0..(remaining + WrapExcess(remaining)) : spent' = spent + n
  /\ UNCHANGED <<queries, saw, offer, calling, subjects, apart>>

RecursiveCalls == RunsAny(CallLanes) /\ Top.left <= MaxTries /\ Charged(Top, 0, Call)

ExpectedApplications == Runs("expected applications") /\ Queried(Top, Term)

\* _check_evidence_applications, for what two lanes have assembled.
CheckedEvidence == Queried(Top, Term)
ExpectedEvidence == Runs("expected evidence") /\ CheckedEvidence
BackwardSupport == Runs("backward support") /\ CheckedEvidence

LocalMetaValues == Runs("local metas") /\ Charged(Top, 0, Term)
Consequences == Runs("consequences") /\ Charged(Top, 0, Term)
AbsurdFunction == Runs("absurd") /\ ChargedHere(Top, Term)

\* A value supplied by the module is tried as long as its slice of queries lasts.
SuppliedValues == Runs("supplied values") /\ Queried(Top, Term)

\* The terms of the focused searches: the search is charged, its terms are not.
ShallowLocals ==
  /\ Runs("shallow locals") /\ Top.left > 0
  /\ IF Available THEN Term(Top) /\ UNCHANGED saw ELSE saw' = TRUE /\ Returns /\ UNCHANGED offer
  /\ UNCHANGED <<spent, queries, calling, subjects, apart>>

FocusedTerms ==
  /\ Runs("focused terms") /\ Top.left > 0
  /\ IF late THEN saw' = TRUE /\ Returns /\ UNCHANGED offer
     ELSE Term(Top) /\ UNCHANGED saw
  /\ UNCHANGED <<spent, queries, calling, subjects, apart>>

\* _ is kept only when it leaves no obligation behind that was not there.
Anonymous(f) ==
  \/ Rejects(f)
  \/ \E t \in Given(f.token, f.goal) :
       t.hidden = f.token.hidden /\ stack' = Put([Used(f) EXCEPT !.won = TRUE]) /\ Offers(t, Leaf(FALSE), f.link)

AnonymousValue == Runs("anonymous") /\ ChargedHere(Top, Anonymous)

-----------------------------------------------------------------------------
(* Refinements of the goal.                                                *)

PatternLambda == Runs("pattern lambda") /\ ChargedHere(Top, Refines)

\* An introduction lane outside found is rejected by Agda.
FunctionIntroduction ==
  Runs("introduce") /\ ChargedHere(Top, LAMBDA f : IF "introduce" \in ask.found THEN Refines(f) ELSE Rejects(f))

IndexedEvidence == Runs("indexed evidence") /\ Charged(Top, 0, Refines)
StructuredBuilders == Runs("builders") /\ Queried(Top, Refines)
LocalRefinements ==
  RunsAny({"continuations", "local refinements", "deferred locals"}) /\ Charged(Top, 0, Refines)
ReadyEliminators == Runs("eliminators") /\ Queried(Top, Refines)
VisibleEliminators == RunsAny({"opaque eliminators", "visible eliminators"}) /\ Charged(Top, 0, Refines)

\* A structured result is given as it stands or refined; a closing one is only
\* refined, when its children have exact locals.
StructuredAttempt(f) == Term(f) \/ Refines(f)

ReadyStructuredResults ==
  \/ Runs("ready results") /\ Queried(Top, StructuredAttempt)
  \/ Runs("ready closures") /\ Queried(Top, Refines)

\* Closed evidence is given and mapped evidence refined; then a relation head
\* is given closed evidence or refined.
HeadRefinement(f) == Term(f) \/ Refines(f)
EvidenceRefinements == Runs("evidence refinements") /\ Charged(Top, 0, HeadRefinement)

\* A value observed on the way is taken apart, unless that is already going on.
ObservedElimination ==
  /\ Runs("observed elimination") /\ Top.left > 0
  /\ \/ /\ Charges
        /\ \E s \in Subjects \ subjects :
             subjects' = subjects \cup {s} /\ Refines([Top EXCEPT !.owner = s])
     \/ Refused /\ Passes(Top) /\ UNCHANGED <<subjects, offer>>
  /\ UNCHANGED <<queries, calling, apart>>

\* The owner of the clause is inferred, then refined; its arguments are solved
\* with the lane disabled.
CopatternCall ==
  /\ Runs("copattern") /\ Top.left > 0
  /\ \/ Charges /\ stack' = Put(Used(Top)) /\ UNCHANGED <<calling, offer>>
     \/ /\ Available /\ spent + 1 < ask.budget /\ spent' = spent + 2 /\ UNCHANGED saw
        /\ \/ Rejects(Top) /\ UNCHANGED calling
           \/ /\ calling' = TRUE
              /\ \E keys \in Shapes : \E t \in Refined(Top.token, Top.goal, Len(keys)) :
                   Introduces([Used(Top) EXCEPT !.owner = "call"], t, keys)
     \/ /\ ~Available \/ spent + 1 = ask.budget
        /\ saw' = TRUE /\ spent' = (IF Available THEN spent + 1 ELSE spent)
        /\ Passes(Top) /\ UNCHANGED <<calling, offer>>
  /\ UNCHANGED <<queries, subjects, apart>>
-----------------------------------------------------------------------------
(* Introducing the goal's own constructor.                                 *)

\* Agda is asked for an introduction: it makes it, or names one or several
\* constructors, or none.  Without a preferred arity it is followed at once.
Asks(f, follow) ==
  \/ \E how \in {"one", "many", "cannot"} :
       /\ how # "cannot" => Lane(f) \in ask.found
       /\ stack' = Put([Used(f) EXCEPT !.intro = how]) /\ UNCHANGED offer
  \/ /\ Lane(f) \in ask.found
     /\ IF follow
        THEN \E keys \in Shapes : \E t \in Refined(f.token, f.goal, Len(keys)) :
               Introduces([Used(f) EXCEPT !.intro = "accepted"], t, keys)
        ELSE stack' = Put([Used(f) EXCEPT !.intro = "accepted"]) /\ UNCHANGED offer

SoleIntroduction == Runs("sole introduction") /\ ChargedHere(Top, LAMBDA f : Asks(f, TRUE))
SharedHead == Runs("shared head") /\ ChargedHere(Top, LAMBDA f : Asks(f, ~ask.arity))
EmptyIntroduction == Runs("introduction") /\ ChargedHere(Top, LAMBDA f : Asks(f, ~ask.arity))

\* The alternatives Agda named, one by one.
Alternatives == RunsAny({"sole alternative", "every alternative"}) /\ ChargedHere(Top, Refines)

\* A record's fields bypass its constructor; only premises are tried after it.
RecordLiteral ==
  Runs("record") /\ ChargedHere(Top, LAMBDA f : Refines([f EXCEPT !.intro = "record"]))

Keeps(f, token, keys) ==
  stack' = Put([f EXCEPT !.ready = @ \cup {[token |-> token, keys |-> keys, nth |-> f.left]}]) /\ UNCHANGED offer

\* Every constructor is committed before any of them is followed.
Commits(f) ==
  \/ Rejects(f)
  \/ \E keys \in Shapes : \E t \in Refined(f.token, f.goal, Len(keys)) : Keeps(Used(f), t, keys)

Constructors == Runs("constructors") /\ ChargedHere(Top, Commits)

\* What was committed is followed, the fewest goals first.
FollowReady ==
  /\ RunsAny({"ready constructors", "kept evidence"}) /\ Top.left > 0
  /\ \E c \in Top.ready :
       /\ \A d \in Top.ready : Len(c.keys) <= Len(d.keys)
       /\ Introduces([Used(Top) EXCEPT !.ready = @ \ {c}], c.token, c.keys)
  /\ UNCHANGED <<spent, queries, saw, calling, subjects, apart>>

-----------------------------------------------------------------------------
(* Evidence and premises.                                                  *)

\* The slice of the allowance for collecting evidence, one action kept for a give.
EvidenceStop == Smaller(ask.budget - 1, spent + EvidenceSlice)

\* infer spends below the stop; finish gives what an inference or a path of
\* them found, and may spend the action kept.
EvidenceSpends(i, j) ==
  /\ j <= i /\ (i > 0 => Available)
  /\ spent + i + j <= EvidenceStop + (IF j > 0 THEN 1 ELSE 0) \/ i = 0

ContextualEvidence ==
  /\ Runs("contextual evidence") /\ Top.left > 0
  /\ \E i \in 0..EvidenceSlice, j \in 0..ask.limit :
       /\ EvidenceSpends(i, j)
       /\ spent' = spent + i + j
       /\ \E T \in SUBSET Given(Top.token, Top.goal) :
            /\ Cardinality(T) <= j
            /\ stack' = Put([Used(Top) EXCEPT !.ready = {[token |-> t, keys |-> <<>>, nth |-> 0] : t \in T}])
  /\ saw' = (saw \/ ~Available)
  /\ UNCHANGED <<queries, offer, calling, subjects, apart>>

\* The path search spends its own queries; with one action left it is skipped
\* without a word.
RelationPath ==
  /\ RunsAny({"relation path", "late relation path"}) /\ Top.left > 0
  /\ LET remaining == ask.budget - spent IN
     IF remaining <= 1 THEN Passes(Top) /\ UNCHANGED <<spent, saw, offer>>
     ELSE \E q \in 0..Smaller(PathSlice, remaining - 1) :
            \/ spent' = spent + q /\ Rejects(Top) /\ saw' \in {saw, saw \/ late}
            \/ ~late /\ spent' = spent + q + 1 /\ Gives(Top, FALSE) /\ UNCHANGED saw
  /\ UNCHANGED <<queries, calling, subjects, apart>>

\* A premise is given as it stands or applied to what its result determines,
\* which ends the lane, or refined; the branch gets a slice of the queries.
Premise(f) ==
  \/ Rejects(f)
  \/ \E t \in Given(f.token, f.goal) :
       stack' = Put([f EXCEPT !.left = 0, !.won = TRUE]) /\ Offers(t, Leaf(FALSE), f.link)
  \/ \E keys \in Shapes : \E t \in Refined(f.token, f.goal, Len(keys)) :
       Introduces([Used(f) EXCEPT !.grant = Smaller(f.stop, queries + 1 + BranchSlice)], t, keys)

ScopePremises == Runs("premises") /\ Queried(Top, Premise)

\* An application with placeholders counts only when it closes the goal and
\* leaves no obligation that was not there.
Skeleton(f) ==
  \/ Rejects(f)
  \/ \E t \in Given(f.token, f.goal) :
       /\ t.hidden = f.token.hidden
       /\ stack' = Put([f EXCEPT !.left = 0, !.won = TRUE]) /\ Offers(t, Leaf(FALSE), f.link)

ApplicationSkeletons == Runs("skeletons") /\ Charged(Top, 0, Skeleton)

-----------------------------------------------------------------------------
(* Solutions.                                                              *)

\* _solve_children: the next sibling starts, or the introduction is complete.
Rise ==
  /\ running /\ offer # NoOffer /\ offer.link.up > 0
  /\ LET up == offer.link.up
         p == stack[up]
         sum == Joined(offer.link.sum, offer.plan)
     IN IF offer.link.nth < Len(p.kids)
        THEN /\ stack' = Append(stack, Child(p, offer.link.nth + 1, offer.token, sum, up))
             /\ offer' = NoOffer
        ELSE /\ stack' = [stack EXCEPT ![up].won = TRUE]
             /\ Offers(offer.token, Joined(Leaf(Lane(p) = "copattern"), sum), p.link)
  /\ UNCHANGED <<spent, queries, saw, calling, subjects, apart>>

\* Leaving the loop of solve closes the generator, which runs the finally clauses.
Closes == stack' = <<>> /\ calling' = FALSE /\ subjects' = {}

Holds(result) ==
  /\ results' = Append(results, result)
  /\ IF Len(results) + 1 >= ask.limit THEN Closes ELSE UNCHANGED <<stack, calling, subjects>>

AtRoot == running /\ offer # NoOffer /\ offer.link.up = 0 /\ offer' = NoOffer
unasked == <<ask, queries, late, status, told>>

\* A plan that reads as an earlier one, or lacks the recursive call asked for.
Drop ==
  /\ AtRoot
  /\ offer.plan \in seen \/ (ask.must /\ ~offer.plan.rec)
  /\ UNCHANGED <<spent, saw, stack, calling, subjects, seen, results, unasked>>

Wanted == AtRoot /\ (ask.must => offer.plan.rec) /\ seen' = seen \cup {offer.plan}

\* Wrong: hidden obligations are not looked at.
KeepAnyway ==
  /\ Wanted
  /\ Holds([token |-> offer.token, plan |-> offer.plan, again |-> FALSE])
  /\ UNCHANGED <<spent, saw, unasked>>

Keep ==
  /\ Wanted /\ ~offer.token.hidden
  /\ Holds([token |-> offer.token, plan |-> offer.plan, again |-> FALSE])
  /\ UNCHANGED <<spent, saw, unasked>>

\* An obligation is left: the whole expression is checked once more, from the start.
Again ==
  /\ Wanted /\ offer.token.hidden
  /\ \/ /\ Charges
        /\ \/ UNCHANGED <<stack, calling, subjects, results>>
           \/ \E t \in Given(RootToken, 0) :
                ~t.hidden /\ Holds([token |-> t, plan |-> offer.plan, again |-> TRUE])
     \/ Refused /\ Closes /\ UNCHANGED results
  /\ UNCHANGED unasked

-----------------------------------------------------------------------------
(* constructor_tree_prove.                                                 *)

Init ==
  /\ ask \in Requests
  /\ spent = 0 /\ queries = 0 /\ saw = FALSE /\ late = FALSE
  /\ stack = <<>> /\ offer = NoOffer /\ calling = FALSE /\ subjects = {}
  /\ seen = {} /\ results = <<>> /\ status = "asked" /\ told = 0

Ends(how) == status' = how /\ told' = told + 1

Start ==
  /\ status = "asked"
  /\ IF ask.budget = 0 \/ ask.limit = 0
     THEN Ends("resource-exhausted") /\ UNCHANGED stack
     ELSE /\ status' = "running" /\ UNCHANGED told
          /\ \E key \in Sequents :
               stack' = <<Activation(0, key, RootToken, 0, {}, QueryLimit, [up |-> 0, nth |-> 1, sum |-> NoPlan])>>
  /\ UNCHANGED <<ask, spent, queries, saw, late, offer, calling, subjects, seen, results>>

\* Wrong: the exhaustion counts more than the solutions.
FinishExhausted ==
  /\ running /\ stack = <<>> /\ offer = NoOffer
  /\ Ends(IF saw THEN "resource-exhausted" ELSE IF results # <<>> THEN "solved" ELSE "no-proof")
  /\ UNCHANGED <<ask, spent, queries, saw, late, stack, offer, calling, subjects, seen, results>>

Finish ==
  /\ running /\ stack = <<>> /\ offer = NoOffer
  /\ Ends(IF results # <<>> THEN "solved" ELSE IF saw THEN "resource-exhausted" ELSE "no-proof")
  /\ UNCHANGED <<ask, spent, queries, saw, late, stack, offer, calling, subjects, seen, results>>

\* A kernel call raises, and so does the search.
Raise ==
  /\ running /\ ask.trouble
  /\ Ends("raised") /\ Closes /\ offer' = NoOffer
  /\ UNCHANGED <<ask, spent, queries, saw, late, seen, results>>

\* The deadline passes.
Expire ==
  /\ running /\ ask.trouble /\ ~late /\ late' = TRUE
  /\ UNCHANGED <<ask, spent, queries, saw, stack, offer, calling, subjects, seen, results, status, told>>

Lanes ==
  \/ ExactLocals \/ ExactPremises \/ GenerateCalls \/ RecursiveCalls \/ ExpectedApplications \/ ExpectedEvidence
  \/ BackwardSupport \/ LocalMetaValues \/ Consequences \/ AbsurdFunction \/ SuppliedValues
  \/ ShallowLocals \/ FocusedTerms \/ AnonymousValue \/ PatternLambda \/ FunctionIntroduction
  \/ IndexedEvidence \/ StructuredBuilders \/ LocalRefinements \/ ReadyEliminators \/ VisibleEliminators
  \/ ReadyStructuredResults \/ EvidenceRefinements \/ ObservedElimination \/ CopatternCall
  \/ SoleIntroduction \/ SharedHead \/ EmptyIntroduction \/ Alternatives \/ RecordLiteral
  \/ Constructors \/ FollowReady \/ ContextualEvidence \/ RelationPath \/ ScopePremises
  \/ ApplicationSkeletons

Search ==
  \/ Start \/ Enter \/ Room \/ Lanes \/ LaneOver \/ Finally
  \/ Rise \/ Drop \/ Keep \/ Again \/ Finish

Next == Search \/ Raise \/ Expire

Spec == Init /\ [][Next]_vars

-----------------------------------------------------------------------------
(* Properties.                                                             *)

\* The allowances hold whatever the lanes spend: relation paths, contextual
\* evidence, focused searches and the generation of recursive calls add to
\* actions_considered without asking _charge, and premise queries are counted by
\* eight lanes of one search.  Only the wrappers of recursive calls exceed the
\* budget, at most once and by what Spendable says.
AllowanceKept == spent <= Spendable /\ queries <= QueryLimit

\* A solution handed back has no goal open and no obligation the start did not
\* have; unless it was checked anew as a whole, its plan has one node for every
\* action on the way to its state; and it has the recursive call asked for.
ResultsAreWhole ==
  \A i \in 1..Len(results) : LET r == results[i] IN
    /\ r.token.open = {} /\ ~r.token.hidden
    /\ ~r.again => r.plan.size = r.token.made
    /\ ask.must => r.plan.rec

\* _solve_children: every activation works on a state in which its goal is open
\* and which its elder siblings left: exactly their actions and the
\* introduction lie between its parent's state and its own.
SiblingsThread ==
  \A k \in 1..Len(stack) : LET f == stack[k] IN
    /\ f.goal \in f.token.open
    /\ f.link.up > 0 =>
         LET p == stack[f.link.up] IN
         /\ f.token.made = p.token.made + 1 + f.link.sum.size
         /\ f.depth = p.depth + 1 /\ f.depth <= ask.depth + 1
         /\ p.goal \notin f.token.open

\* A copattern clause's owner is never called while another call of it is being
\* built, and a value is never taken apart inside its own elimination: the
\* marks are up exactly while one activation on the stack holds them.
OneCallOpen ==
  LET held == {k \in 1..Len(stack) : stack[k].owner # Nobody} IN
  /\ Cardinality({k \in held : stack[k].owner = "call"}) = (IF calling THEN 1 ELSE 0)
  /\ subjects = {stack[k].owner : k \in held} \ {"call"}
  /\ \A k, l \in held : k # l => stack[k].owner # stack[l].owner

\* The suspended generators on the stack hold what they hold once: their states
\* and their marks; and however many there are, they share one allowance.
StackHolds == SiblingsThread /\ OneCallOpen /\ AllowanceKept

\* The search has come to its answer.
Terminated == status \notin {"asked", "running"}

\* The search keeps the contract its callers read in ConstructorResult.
Promised == INSTANCE SearchContract WITH
  answer <- IF Terminated THEN status ELSE "none",
  allowance <- ask.budget, excess <- WrapExcess(ask.budget), used <- spent, found <- Len(results)

KeepsContract == Promised!Contract

===============================================================================
