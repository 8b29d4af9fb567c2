------------------------------ MODULE JointSearch ------------------------------
(***************************************************************************)
(* Search for the goals of a file prefix together: prove_joint_prefix.     *)
(*                                                                         *)
(* A state is what the prefix reads so far.  The states wait in a bounded  *)
(* frontier; beside it wait the fallbacks, states whose cheap way forward  *)
(* was taken first, and one state whose goal had a narrow allowance.  The  *)
(* state that is taken is loaded; without a goal it is validated afresh,   *)
(* with one the specialists extend it: observations, a focused search, the *)
(* case search of CaseSearch in the same session, the constructor search,  *)
(* a refinement and case splits.                                           *)
(*                                                                         *)
(* The order of the priorities is left open, the owner of every goal is    *)
(* one declaration, and quotas are finite.                                 *)
(***************************************************************************)
EXTENDS CaseSearch

CONSTANTS
  JointTasks,   \* what is to be proved
  GoalLimit,    \* the narrow allowance of a goal, 160 in the code
  MaxObserved,  \* the observed candidates that are tried, 4 in the code
  MaxPrograms   \* bound on the recursive programs of a goal

\* A task is a record.  goals: the goals of the prefix; limit: max_candidates,
\* which bounds the actions and the frontier; depth: max_depth; lanes: of its
\* case searches; on: what its goals give rise to; trouble: what may go wrong.
JointTroubles == CaseTroubles \cup {"dead", "rejects", "unparsed", "timed out", "denied"}

ASSUME JointAssumption ==
  /\ {GoalLimit, MaxObserved, MaxPrograms} \subseteq Nat \ {0}
  /\ \A t \in JointTasks :
       {t.goals, t.limit} \subseteq Nat \ {0} /\ t.depth \in Nat /\ t.trouble \subseteq JointTroubles

VARIABLES
  task,      \* the task, or NoTask
  frontier,  \* the queue, the deferred fallbacks, saw_exhaustion and what was made and cut
  pending,   \* pending_widening: a state and stats.actions_considered before it
  seen,      \* the digests that were expanded
  state,     \* the state at hand
  step,      \* where the loop is
  work,      \* the goal at hand: its place, its allowance and what is known of it
  counted,   \* stats.actions_considered
  spent,     \* budget.actions_used
  held,      \* the source the session holds
  status,    \* result.status, "none" while it is internal-error
  proof      \* result.patch

jointRest == <<task, state, held, status, proof>>
jointVars == <<task, frontier, pending, seen, state, step, work, counted, spent, held, status, proof>>

NoTask == [goals |-> 0, limit |-> 0, depth |-> 0, lanes |-> {}, on |-> {}, trouble |-> {}]
Wants(what) == what \in task.on
Goes(wrong) == wrong \in task.trouble

-----------------------------------------------------------------------------
(* States.  wide: the declaration's alternatives are to be tried in full;  *)
(* bwide: the allowance of its goal is to be the task's; noTerms, noObs:   *)
(* what a fallback skips.                                                  *)

Root(t) == [src |-> [i \in 1..t.goals |-> "hole"], depth |-> 0, wide |-> FALSE, bwide |-> FALSE, noTerms |-> FALSE, noObs |-> FALSE]
NoState == Root(NoTask)

GoalsOf(s) == Holes(s.src, Len(s.src))
Place(s, i, items) == SubSeq(s, 1, i - 1) \o items \o SubSeq(s, i + 1, Len(s))

\* The successor of the state with its goal replaced.
Child(items, deeper) ==
  [Root(task) EXCEPT !.src = Place(state.src, work.here, items), !.depth = state.depth + deeper]
Widened(s) == [s EXCEPT !.wide = TRUE, !.bwide = FALSE]

\* _search_state_digest: states that differ in depth alone are the same.
Digest(s) == [s EXCEPT !.depth = 0]

-----------------------------------------------------------------------------
(* The frontier.                                                           *)

Waiting(f) == Cardinality(f.queue) + Len(f.deferred)
Known(f, s) == Digest(s) \in seen \cup {Digest(q) : q \in f.queue}

\* Wrong: a refused state does not count as exhaustion.
EnqueuedQuietly(f, s) ==
  IF Known(f, s) THEN f
  ELSE IF Cardinality(f.queue) >= task.limit THEN [f EXCEPT !.made = @ \cup {Digest(s)}]
  ELSE [f EXCEPT !.queue = @ \cup {s}, !.made = @ \cup {Digest(s)},
                 !.deferred = IF Waiting(f) >= task.limit THEN Front(@) ELSE @]

\* enqueue: a full queue refuses the state, a full frontier gives up the last
\* fallback for it.
Enqueued(f, s) ==
  IF Known(f, s) THEN f
  ELSE IF Cardinality(f.queue) >= task.limit
  THEN [f EXCEPT !.made = @ \cup {Digest(s)}, !.saw = TRUE]
  ELSE LET tight == Waiting(f) >= task.limit
       IN [f EXCEPT !.queue = @ \cup {s}, !.made = @ \cup {Digest(s)}, !.saw = @ \/ tight,
                    !.deferred = IF tight THEN Front(@) ELSE @]

\* defer_fallback: s without the way that was taken.
Deferred(f, s) ==
  IF Waiting(f) >= task.limit THEN [f EXCEPT !.made = @ \cup {Digest(s)}, !.saw = TRUE]
  ELSE [f EXCEPT !.made = @ \cup {Digest(s)}, !.deferred = Append(@, s)]

Saw(f, yes) == [f EXCEPT !.saw = @ \/ yes]

\* The expansion of the state was cut by the allowance of its goal.
Cut(f) == [f EXCEPT !.cut = @ \cup {Digest(state)}]

-----------------------------------------------------------------------------
(* Allowance.                                                              *)

Left == task.limit - spent

\* remaining_goal_actions
GoalLeft == Lesser(Left, AtLeastZero(work.cap - (counted - work.start)))

\* account_actions
Account(n) == counted' = counted + n /\ spent' = spent + n

uncounted == <<counted, spent>>

\* No goal is at hand, and what is known of one at first.
NoWork == [here |-> 0, start |-> 0, cap |-> 0, terms |-> FALSE, needs |-> FALSE, rel |-> FALSE, tried |-> FALSE,
           cased |-> FALSE, cons |-> FALSE, again |-> FALSE, omitted |-> FALSE, programs |-> 0, restore |-> TRUE, back |-> "loop"]

NoPending == [state |-> NoState, start |-> -1]

-----------------------------------------------------------------------------
(* The loop.                                                               *)

\* The goals that a focused search closes on their own are closed together.
Batch ==
  /\ step = "batch" /\ step' = "loop"
  /\ \E n \in 0..task.limit, those \in SUBSET GoalsOf(Root(task)) :
       /\ Cardinality(those) <= n /\ (those # {} => Wants("batch"))
       /\ Account(n)
       /\ LET closed == [i \in 1..task.goals |-> IF i \in those THEN "done" ELSE "hole"]
              batch == [Root(task) EXCEPT !.src = closed, !.depth = Cardinality(those)]
          IN frontier' = IF those = {} \/ batch.depth > task.depth THEN frontier ELSE Enqueued(frontier, batch)
  /\ UNCHANGED <<jointRest, pending, seen, work, caseVars>>

Looping == step = "loop" /\ pending = NoPending

\* A narrow allowance that was used up is widened.
WidenPending ==
  /\ step = "loop" /\ pending # NoPending /\ pending' = NoPending
  /\ frontier' = IF counted - pending.start >= GoalLimit
                 THEN Enqueued(frontier, [pending.state EXCEPT !.bwide = TRUE]) ELSE frontier
  /\ UNCHANGED <<jointRest, seen, step, work, uncounted, caseVars>>

\* Wrong: the fallback is looked at and stays.
ResumePeeks ==
  /\ Looping /\ frontier.queue = {} /\ frontier.deferred # <<>>
  /\ frontier' = Enqueued(frontier, Last(frontier.deferred))
  /\ UNCHANGED <<jointRest, pending, seen, step, work, uncounted, caseVars>>

\* The last fallback comes back when nothing else waits.
Resume ==
  /\ Looping /\ frontier.queue = {} /\ frontier.deferred # <<>>
  /\ frontier' = Enqueued([frontier EXCEPT !.deferred = Front(@)], Last(frontier.deferred))
  /\ UNCHANGED <<jointRest, pending, seen, step, work, uncounted, caseVars>>

\* queue.pop, or the end: the frontier is empty or the time is up.
Take ==
  /\ Looping
  /\ IF overdue \/ frontier.queue = {}
     THEN /\ frontier.queue # {} \/ frontier.deferred = <<>>
          /\ step' = "end" /\ frontier' = Saw(frontier, frontier.queue # {})
          /\ UNCHANGED <<state, seen>>
     ELSE \E s \in frontier.queue :
            /\ frontier' = [frontier EXCEPT !.queue = @ \ {s}]
            /\ seen' = seen \cup {Digest(s)} /\ state' = s /\ step' = "load"
  /\ UNCHANGED <<task, held, status, proof, pending, work, uncounted, caseVars>>

\* The state is loaded: dead, complete, too deep, or with goals to work on.
Load ==
  /\ step = "load"
  /\ \/ /\ held' = state.src
        /\ step' = CASE GoalsOf(state) = {} -> "validate" [] state.depth >= task.depth -> "loop" [] OTHER -> "select"
        /\ frontier' = Saw(frontier, GoalsOf(state) # {} /\ state.depth >= task.depth)
     \/ Goes("dead") /\ held' = <<>> /\ step' = "loop" /\ UNCHANGED frontier
  /\ UNCHANGED <<task, state, status, proof, pending, seen, work, uncounted, caseVars>>

\* A fresh Agda checks the prefix; a rejected one is a dead state.
Validate ==
  /\ step = "validate"
  /\ \/ proof' = state.src /\ status' = "verified" /\ step' = "end"
     \/ Goes("unparsed") /\ status' = "toolchain-error" /\ step' = "end" /\ UNCHANGED proof
     \/ Goes("timed out") /\ status' = "resource-exhausted" /\ step' = "end" /\ UNCHANGED proof
     \/ Goes("rejects") /\ step' = "loop" /\ UNCHANGED <<status, proof>>
  /\ UNCHANGED <<task, state, held, frontier, pending, seen, work, uncounted, caseVars>>

\* A goal is chosen: the first, or a law whose declarations are all complete.
\* A law, and a goal that competes with other states, gets a narrow allowance.
Select ==
  /\ step = "select"
  /\ \E i \in GoalsOf(state) :
       LET first == \A j \in GoalsOf(state) : i <= j
           narrow == ~first /\ ~state.wide
           offered == IF narrow THEN Enqueued(frontier, Widened(state)) ELSE frontier
           competes == Wants("compete") /\ offered.queue # {} /\ ~state.bwide
                         /\ Left > GoalLimit * Cardinality(GoalsOf(state))
           cap == IF narrow \/ competes THEN GoalLimit ELSE task.limit
       IN /\ first \/ Wants("ready")
          /\ pending' = IF competes /\ Left > cap THEN [state |-> state, start |-> counted] ELSE NoPending
          /\ frontier' = Saw(offered, Left = 0)
          /\ IF Left = 0 THEN step' = "loop" /\ UNCHANGED work
             ELSE step' = "observe" /\ work' = [NoWork EXCEPT !.here = i, !.start = counted, !.cap = cap]
  /\ UNCHANGED <<jointRest, seen, uncounted, caseVars>>

-----------------------------------------------------------------------------
(* The specialists.                                                        *)

On(here) == step = here
Then(there) == step' = there
settled == <<jointRest, pending, seen, caseVars>>

\* Constants that the goal's observations suggest are checked one by one; they
\* are counted, and not charged to the budget.  An accepted one is followed.
ObservedTerms ==
  /\ On("observe")
  /\ \/ /\ Then("equations") /\ UNCHANGED <<frontier, counted>>
        /\ UNCHANGED <<spent, work>>
     \/ /\ Wants("observed") /\ ~state.wide /\ ~state.noObs
        /\ \E n \in 1..Lesser(MaxObserved, GoalLeft) :
             /\ counted' = counted + n
             /\ \/ Then("equations") /\ UNCHANGED frontier
                \/ /\ Then("loop")
                   /\ frontier' = Deferred(Enqueued(frontier, Child(<<"done">>, 1)), [state EXCEPT !.noObs = TRUE])
        /\ UNCHANGED <<spent, work>>
  /\ UNCHANGED settled

\* The clauses that the observations spell out are taken as they are.
ObservedEquations ==
  /\ On("equations")
  /\ \/ Then("focus") /\ UNCHANGED <<frontier, counted>>
     \/ /\ Wants("equations") /\ ~state.wide /\ ~state.noObs /\ GoalLeft > 0
        /\ counted' = counted + 1
        /\ \/ Then("focus") /\ UNCHANGED frontier
           \/ /\ Then("loop")
              /\ \E n \in 1..MaxClauses :
                   frontier' = Deferred(Enqueued(frontier, Child([i \in 1..n |-> "done"], 1)), [state EXCEPT !.noObs = TRUE])
  /\ UNCHANGED <<settled, spent, work>>

\* What the goal gives reason for: recursive programs beside a projection, case
\* analysis beside a relation, a catalogue with a builder.
Facets(terms) ==
  {[needs |-> needs, rel |-> rel] :
     needs \in (IF Wants("alternatives") THEN BOOLEAN ELSE {FALSE}), rel \in {Wants("relation")}}

\* A term is followed if it is among those found.
Follows(f, term, terms) == IF term \in terms THEN Enqueued(f, Child(term, 1)) ELSE f

\* remaining_actions, of before the observed candidates.
FocusLeft == Lesser(Left, work.cap)

\* Focused terms close the goal; the state stays as a fallback without them.
Focused ==
  /\ On("focus") /\ Then("case")
  /\ \E n \in (IF state.noTerms THEN {0} ELSE 0..FocusLeft), terms \in SUBSET {<<"done">>, <<"built">>} :
       /\ Cardinality(terms) <= n /\ (Cardinality(terms) > 1 => Wants("alternatives"))
       /\ Account(n)
       /\ \E f \in Facets(terms) : work' = [work EXCEPT !.terms = terms # {}, !.needs = f.needs, !.rel = f.rel]
       /\ \E exhausted \in (IF n = FocusLeft /\ terms = {} /\ ~state.noTerms THEN BOOLEAN ELSE {FALSE}) :
            LET kept2 == IF terms = {} THEN Saw(frontier, exhausted)
                         ELSE Deferred(frontier, [state EXCEPT !.noTerms = TRUE])
            IN frontier' = IF state.wide THEN kept2 ELSE Follows(Follows(kept2, <<"done">>, terms), <<"built">>, terms)
  /\ UNCHANGED settled

\* A step that the allowance of the goal keeps from being taken: nothing says so.
Skips(wanted) == frontier' = IF wanted /\ GoalLeft = 0 THEN Cut(frontier) ELSE frontier

\* run_case_batch calls batched_case_prove in the session, with its goals; only a
\* recursive program may not be an exact local.
Calls(back, restore, exactLocal, known) ==
  /\ Then("case search")
  /\ work' = [known EXCEPT !.back = back, !.restore = restore, !.tried = TRUE]
  /\ LET behind == SubSeq(state.src, work.here + 1, Len(state.src))
         request == [lanes |-> task.lanes, budget |-> GoalLeft, depth |-> task.depth - state.depth, behind |-> behind,
                     reuse |-> TRUE, exactLocal |-> exactLocal, trouble |-> task.trouble \cap CaseTroubles]
     IN Begins(request, SubSeq(held, work.here, Len(held)))
  /\ UNCHANGED <<task, state, held, status, proof, overdue, frontier, pending, seen, uncounted>>

Demanded == work.needs \/ work.rel

\* Cases before the constructor search: a goal that shows a scrutinee, or that
\* needs alternatives; recursive programs follow for a function.
FirstWanted == (~work.terms \/ Demanded) /\ (Demanded \/ Wants("nullary"))

FirstCase ==
  /\ On("case") /\ FirstWanted /\ GoalLeft > 0
  /\ \E all \in 1..MaxPrograms :
       LET known == [work EXCEPT !.omitted = ~state.wide /\ work.needs /\ all > 1,
                                 !.programs = IF ~work.needs THEN 0 ELSE IF state.wide THEN all ELSE 1]
       IN IF ~work.terms \/ ~work.needs \/ work.rel THEN Calls("programs", Demanded, TRUE, known)
          ELSE Then("programs") /\ work' = [known EXCEPT !.tried = TRUE] /\ UNCHANGED <<settled, frontier, uncounted>>

\* A catalogue with a builder, or a hidden telescope, goes to the constructor
\* search first.
NoFirstCase ==
  /\ On("case") /\ Then("construct")
  /\ ~FirstWanted \/ GoalLeft = 0 \/ Wants("builder")
  /\ Skips(FirstWanted)
  /\ UNCHANGED <<settled, work, uncounted>>

RecursiveProgram ==
  /\ On("programs") /\ work.programs > 0 /\ GoalLeft > 0
  /\ Calls("programs", TRUE, FALSE, [work EXCEPT !.programs = @ - 1])

ProgramsOver ==
  /\ On("programs") /\ Then("construct")
  /\ work.programs = 0 \/ GoalLeft = 0
  /\ frontier' = Saw(frontier, work.programs > 0)
  /\ UNCHANGED <<settled, work, uncounted>>

\* Wrong: an accepted case leaves the session where the search ended.
ReturnsLate(solved) == ~solved

\* The parent's source is loaded again, unless the caller needs it no more.
Restored(solved) == ~solved \/ work.restore

CaseSource == SubSeq(state.src, 1, work.here - 1) \o loaded

\* The case search is over.  What it used is accounted: more than it was given
\* is an error that ends everything.
ReturnCase ==
  /\ step = "case search" /\ verdict \in {"solved", "no-proof", "resource-exhausted"} /\ used <= Left
  /\ Account(used) /\ Then(work.back)
  /\ LET solved == verdict = "solved"
         exhausted == Saw(frontier, verdict = "resource-exhausted")
         found == [Child(<<>>, IF level = 0 THEN 1 ELSE level)
                     EXCEPT !.src = SubSeq(state.src, 1, work.here - 1) \o text]
     IN /\ work' = [work EXCEPT !.cased = @ \/ solved]
        /\ frontier' = IF solved THEN Enqueued(exhausted, found) ELSE exhausted
        /\ held' = IF Restored(solved) THEN state.src ELSE CaseSource
  /\ Begins(NotAsked, <<>>)
  /\ UNCHANGED <<task, state, status, proof, pending, seen, overdue>>

Fails(how) == status' = how /\ Then("end")

\* What an exception makes of the task: the kernel turns a source down, the
\* toolchain breaks, or a resource runs out.
Raised == \E how \in {"invalid-task", "toolchain-error", "resource-exhausted"} : Fails(how)

CaseFails ==
  /\ step = "case search"
  /\ \/ verdict \in {"solved", "no-proof", "resource-exhausted"} /\ used > Left /\ Fails("invalid-task")
     \/ verdict = "raised" /\ Raised
  /\ held' = CaseSource
  /\ Begins(NotAsked, <<>>)
  /\ UNCHANGED <<task, state, proof, frontier, pending, seen, work, uncounted, overdue>>

\* constructor_tree_prove, without a recursive call, keeps its allowance; see
\* ConstructorSearch.
ConstructWanted == (~work.terms \/ work.needs) /\ (~work.cased \/ work.needs) /\ ~state.wide

Construct ==
  /\ On("construct") /\ Then("widen") /\ ConstructWanted /\ GoalLeft > 0
  /\ \E n \in 0..GoalLeft, found \in BOOLEAN, again \in BOOLEAN :
       /\ found => n > 0
       /\ again => found /\ Wants("alternatives")
       /\ Account(n)
       /\ work' = [work EXCEPT !.cons = found, !.again = again]
       /\ \E exhausted \in (IF n = GoalLeft THEN BOOLEAN ELSE {FALSE}) :
            LET saw == Saw(frontier, exhausted)
            IN frontier' = IF found THEN Enqueued(saw, Child(<<"built">>, 1)) ELSE saw
  /\ UNCHANGED settled

NoConstruct ==
  /\ On("construct") /\ Then("widen") /\ ~(ConstructWanted /\ GoalLeft > 0)
  /\ Skips(ConstructWanted)
  /\ UNCHANGED <<settled, work, uncounted>>

\* The programs that were left out come back with the declaration widened.
WidenPrograms ==
  /\ On("widen") /\ Then("late case")
  /\ frontier' = IF work.needs /\ ~state.wide /\ work.omitted THEN Enqueued(frontier, Widened(state)) ELSE frontier
  /\ UNCHANGED <<settled, work, uncounted>>

\* Cases after the constructor search.
LateWanted == ~work.terms /\ ~work.tried /\ (~work.cons \/ work.again)

LateCase == On("late case") /\ LateWanted /\ GoalLeft > 0 /\ Calls("refine", TRUE, TRUE, work)

NoLateCase ==
  /\ On("late case") /\ Then("refine") /\ ~(LateWanted /\ GoalLeft > 0)
  /\ Skips(LateWanted)
  /\ UNCHANGED <<settled, work, uncounted>>

Extended == work.cons \/ work.cased
Charged == counted' = counted + 1 /\ spent' = spent + 1
MayCharge == GoalLeft > 0 /\ ~overdue

\* The goal's introduction; then nothing else is done with it.
Refine ==
  /\ On("refine")
  /\ IF ~work.terms /\ ~Extended /\ MayCharge
     THEN /\ Charged
          /\ \/ Then("split") /\ UNCHANGED frontier
             \/ Then("loop") /\ \E n \in 0..MaxClauses : frontier' = Enqueued(frontier, Child(Clauses(n), 1))
     ELSE /\ Then(IF Extended THEN "loop" ELSE "split")
          /\ frontier' = Saw(frontier, ~work.terms /\ ~Extended)
          /\ UNCHANGED uncounted
  /\ UNCHANGED <<settled, work>>

\* One variable is split on, until none or no allowance is left.
SplitOn ==
  /\ On("split")
  /\ \/ Then("loop") /\ UNCHANGED <<frontier, uncounted>>
     \/ ~MayCharge /\ Then("loop") /\ frontier' = Saw(frontier, TRUE) /\ UNCHANGED uncounted
     \/ /\ MayCharge /\ Charged /\ Then("split")
        /\ \/ UNCHANGED frontier
           \/ \E n \in 0..MaxClauses : frontier' = Enqueued(frontier, Child(Clauses(n), 1))
  /\ UNCHANGED <<settled, work>>

-----------------------------------------------------------------------------
(* The end.                                                                *)

Searching == step \notin {"end", "done", "case search"}

\* require_time finds no time left, or a kernel call raises; validation may
\* refuse the reconstruction as well.
JointRaise ==
  /\ Searching
  /\ \/ overdue /\ step # "loop" /\ Fails("resource-exhausted")
     \/ Goes("raises") /\ (Raised \/ (step = "validate" /\ Fails("policy-rejected")))
  /\ UNCHANGED <<task, state, held, proof, frontier, pending, seen, work, uncounted, caseVars>>

JointExpire ==
  /\ Searching /\ Goes("late") /\ ~overdue /\ overdue' = TRUE
  /\ UNCHANGED <<jointVars, asked, source, goal, used, verdict>>

\* Without an answer the search was cut short, or all there was has been tried;
\* a resource that ran out in between has the last word.
Finish ==
  /\ step = "end" /\ Then("done")
  /\ \/ status' = IF status # "none" THEN status
                  ELSE IF frontier.saw \/ Left = 0 \/ overdue THEN "resource-exhausted" ELSE "unsolved"
     \/ Goes("denied") /\ status' = "resource-exhausted"
  /\ UNCHANGED <<task, state, held, proof, frontier, pending, seen, work, uncounted, caseVars>>

-----------------------------------------------------------------------------
(* The specification.                                                      *)

JointInit ==
  /\ task \in JointTasks \cup {NoTask}
  /\ frontier = [queue |-> {Root(task)}, deferred |-> <<>>, saw |-> FALSE, made |-> {Root(task)}, cut |-> {}]
  /\ pending = NoPending /\ seen = {} /\ state = NoState /\ work = NoWork
  /\ step = IF task = NoTask THEN "done" ELSE "batch"
  /\ counted = 0 /\ spent = 0 /\ held = Root(task).src /\ status = "none" /\ proof = <<>>

JointSteps ==
  \/ Batch \/ WidenPending \/ Resume \/ Take \/ Load \/ Validate \/ Select
  \/ ObservedTerms \/ ObservedEquations \/ Focused \/ FirstCase \/ NoFirstCase
  \/ RecursiveProgram \/ ProgramsOver \/ ReturnCase \/ CaseFails \/ Construct \/ NoConstruct
  \/ WidenPrograms \/ LateCase \/ NoLateCase \/ Refine \/ SplitOn \/ Finish

CalledCase == CaseSteps /\ UNCHANGED jointVars
CaseTrouble == (CaseRaise \/ CaseExpire) /\ UNCHANGED jointVars

proverVars == <<caseVars, jointVars>>

\* The two searches by themselves: for a task, or for a case request alone.
SearchInit == CaseInit /\ JointInit /\ (asked = NotAsked \/ task = NoTask)
SearchNext == JointSteps \/ JointRaise \/ JointExpire \/ CalledCase \/ CaseTrouble
SearchSpec == SearchInit /\ [][SearchNext]_proverVars

-----------------------------------------------------------------------------
(* Properties.                                                             *)

Specialists == {"observe", "equations", "focus", "case", "programs", "construct", "widen", "late case", "refine", "split"}

\* A goal's identity and telescope are those of the source the session holds, so
\* while a specialist may still ask about it that is the state at hand, though
\* the case search shares the session and loads what it likes.
SessionHoldsTheState ==
  step \in Specialists /\ (~Extended \/ Demanded) => held = state.src

\* A state whose goal had too small an allowance has been expanded again without.
CutsMadeUp == \A d \in frontier.cut : \E e \in seen \ frontier.cut : e.src = d.src

\* An answer is what it says.  Verified: the complete source of the state at
\* hand, as the session holds it, was validated.  Unsolved: every state that was
\* proposed has been expanded, none given up at a bound of the frontier or left
\* among the fallbacks; and no expansion was cut short for good, unless by
\* observed candidates, which are counted and not charged.
AnswersAreHonest ==
  step = "done" =>
    /\ status = "verified" => proof = state.src /\ held = proof /\ "hole" \notin Range(proof)
    /\ status = "unsolved" => frontier.made \subseteq seen /\ (counted = spent => CutsMadeUp)

\* Source observations are proposals and never cuts: a search that calls a task
\* unsolved has tried what they kept it from.  It need not, and no run claims it:
\* observed candidates that are refused make a goal look spent.
ObservationsNeverCut == step = "done" /\ status = "unsolved" => CutsMadeUp

================================================================================
