------------------------------ MODULE FocusedSearch ------------------------------
(***************************************************************************)
(* The focused search (focused.py): terms for goals whose types are arrows *)
(* and atoms, found by a depth-first search that remembers what every      *)
(* sequent came to.  _drive runs it without Python's stack, so the frames  *)
(* of _solve are the state here.  A problem asks for one term (_Search) or *)
(* for several (_EnumerationSearch).                                       *)
(***************************************************************************)
EXTENDS FocusedTypes

CONSTANTS
  Problems,    \* goals, with their contexts and allowances
  TypeSize(_)  \* TypeExpr.size

\* name |-> "" is a binder that was introduced, index its number from inside;
\* a problem's context and eliminators are sequences of [name, type] and
\* [name, from].

VARIABLES
  problem,    \* what was asked
  calls,      \* the suspended frames of _solve
  returned,   \* the terms the frame that ended last came back with
  memo,       \* what the sequents came to
  considered, \* stats.actions_considered
  pruned,     \* stats.depth_pruned
  cycles,     \* stats.cycles_pruned
  overdue,    \* the deadline is over
  hard,       \* hard_exhaustion
  decided,    \* decisions
  verdict     \* the status of the result

focusedVars == <<problem, calls, returned, memo, considered, pruned, cycles, overdue, hard, decided, verdict>>
counters == <<problem, pruned, cycles, overdue, decided, verdict>>

-----------------------------------------------------------------------------
(* Assumptions and terms.                                                  *)

\* Assumption: a variable of the goal's context by its name, or one that was
\* introduced by its level.
Named(type, order, name) == [type |-> type, order |-> order, name |-> name, level |-> -1]
Local(type, order, level) == [type |-> type, order |-> order, name |-> "", level |-> level]

\* Term in normal form: a head under binders with its arguments.
Applied(head, args) == [lams |-> 0, head |-> head, args |-> args]
Lambda(n, t) == [t EXCEPT !.lams = @ + n]

\* Wrong: a bound variable is written by its level.
HeadByLevel(a, depth) == [name |-> a.name, index |-> a.level]

\* Assumption.term_at_depth: binders are counted from inside.
HeadAt(a, depth) == [name |-> a.name, index |-> IF a.name = "" THEN depth - 1 - a.level ELSE -1]

Introduced(domains, f) ==
  [k \in 1..Len(domains) |-> Local(domains[k], Len(f.known) + k - 1, f.depth + k - 1)]

-----------------------------------------------------------------------------
(* FocusedAction.                                                          *)

Action(a, domains, observed) == [assumption |-> a, domains |-> domains, observed |-> observed]

Precedes(a, b) == \E k \in DOMAIN a : a[k] < b[k] /\ \A j \in 1..(k - 1) : a[j] = b[j]

\* contextual_key: fewest arguments that are not in the context, directly or
\* by their result, then the simplest.
ContextualKey(action, known) ==
  LET available == {known[k].type : k \in DOMAIN known}
      missing == {k \in DOMAIN action.domains :
                    action.domains[k] \notin available /\ Atom(action.domains[k].to) \notin available}
  IN << Cardinality(missing), IF action.observed THEN 1 ELSE 0, Len(action.domains),
        TypeSize(action.assumption.type), action.assumption.order >>

\* An eliminator gives the goal whatever it is.
Elimination(e, order, goal) == Action(Named(Arrow(e.from \o goal.from, goal.to), order, e.name), e.from, TRUE)

\* The assumptions that end in the goal, and the eliminators that end anywhere.
Applicable(f) ==
  {Action(f.known[k], f.known[k].type.from, FALSE) :
     k \in {j \in DOMAIN f.known : f.known[j].type.from # <<>> /\ Atom(f.known[j].type.to) = f.goal}}
  \cup {Elimination(problem.eliminators[k], Len(f.known) + k - 1, f.goal) : k \in DOMAIN problem.eliminators}

Exact(f) == {k \in DOMAIN f.known : f.known[k].type = f.goal}

\* A model may put more than one action in any order.
Orders(actions, known) ==
  {order \in SetToSeqs(actions) :
     problem.scored \/ \A j, k \in DOMAIN order :
       j < k => ~Precedes(ContextualKey(order[k], known), ContextualKey(order[j], known))}

-----------------------------------------------------------------------------
(* Frames of _solve.                                                       *)

Frame(known, goal, depth, level) ==
  [known |-> known, goal |-> goal, depth |-> depth, level |-> level, at |-> "enter", before |-> 0,
   actions |-> <<>>, args |-> <<>>, failed |-> {}, mark |-> 0, found |-> <<>>]

Current == calls[Len(calls)]
Suspended == SubSeq(calls, 1, Len(calls) - 1)
Reached(place) == calls # <<>> /\ Current.at = place

SequentOf(f) == [known |-> f.known, goal |-> f.goal, depth |-> f.depth]
MemoKey(f) == [sequent |-> SequentOf(f), left |-> IF problem.limit = NoLimit THEN NoLimit ELSE problem.limit - f.level]

\* The sequents that are being worked on; a frame gives its own up however it ends.
Active == {SequentOf(calls[k]) : k \in 1..(Len(calls) - 1)}

Remember(f, terms) == memo' = [k \in DOMAIN memo \cup {MemoKey(f)} |-> IF k = MemoKey(f) THEN terms ELSE memo[k]]

Return(terms) == calls' = Suspended /\ returned' = terms
Becomes(f) == calls' = Append(Suspended, f) /\ UNCHANGED returned
Descends(f, known, goal, depth) ==
  calls' = Suspended \o <<f, Frame(known, goal, depth, f.level + 1)>> /\ UNCHANGED returned

MayCharge == ~overdue /\ considered < problem.budget
Charge == MayCharge /\ considered' = considered + 1 /\ UNCHANGED hard
Refuse == ~MayCharge /\ hard' = (IF overdue THEN "wall-time" ELSE "action-budget") /\ UNCHANGED considered

TooDeep == problem.limit # NoLimit /\ Current.level > problem.limit

\* What ends a frame before it begins.
Stopped ==
  /\ Reached("enter")
  /\ \/ hard # "" /\ UNCHANGED <<pruned, cycles, hard>>
     \/ hard = "" /\ overdue /\ hard' = "wall-time" /\ UNCHANGED <<pruned, cycles>>
     \/ /\ hard = "" /\ ~overdue
        /\ TooDeep
        /\ pruned' = pruned + 1 /\ UNCHANGED <<cycles, hard>>
  /\ Return(<<>>)
  /\ UNCHANGED <<problem, memo, considered, overdue, decided, verdict>>

Enters == Reached("enter") /\ hard = "" /\ ~overdue /\ ~TooDeep

Remembered ==
  /\ Enters /\ MemoKey(Current) \in DOMAIN memo
  /\ Return(memo[MemoKey(Current)])
  /\ UNCHANGED <<memo, considered, hard, counters>>

\* A sequent that is met again on its own path.
Cycle ==
  /\ Enters /\ MemoKey(Current) \notin DOMAIN memo /\ SequentOf(Current) \in Active
  /\ cycles' = cycles + 1
  /\ Return(<<>>)
  /\ UNCHANGED <<problem, memo, considered, pruned, overdue, hard, decided, verdict>>

Expand ==
  /\ Enters /\ MemoKey(Current) \notin DOMAIN memo /\ SequentOf(Current) \notin Active
  /\ Becomes([Current EXCEPT !.at = IF problem.many THEN "arrow" ELSE "exact", !.before = pruned])
  /\ UNCHANGED <<memo, considered, hard, counters>>

-----------------------------------------------------------------------------
(* _Search: the first term.                                                *)

\* The first assumption that is the goal.
ExactOne ==
  /\ Reached("exact")
  /\ IF Exact(Current) = {} THEN Becomes([Current EXCEPT !.at = "introduce"]) /\ UNCHANGED <<memo, considered, hard>>
     ELSE \/ /\ Charge
             /\ LET first == CHOOSE k \in Exact(Current) : \A j \in Exact(Current) : k <= j
                    term == Applied(HeadAt(Current.known[first], Current.depth), <<>>)
                IN  Remember(Current, <<term>>) /\ Return(<<term>>)
          \/ Refuse /\ Return(<<>>) /\ UNCHANGED memo
  /\ UNCHANGED counters

IntroduceOne ==
  /\ Reached("introduce")
  /\ IF ~IsArrow(Current.goal) THEN Becomes([Current EXCEPT !.at = "focus"]) /\ UNCHANGED <<considered, hard>>
     ELSE \/ /\ Charge
             /\ Descends([Current EXCEPT !.at = "body"], Current.known \o Introduced(<<Head(Current.goal.from)>>, Current),
                         Arrow(Tail(Current.goal.from), Current.goal.to), Current.depth + 1)
          \/ Refuse /\ Return(<<>>)
  /\ UNCHANGED <<memo, counters>>

\* An arrow whose body has no term may still be the result of an eliminator.
BodyOne ==
  /\ Reached("body")
  /\ IF returned # <<>> THEN LET term == Lambda(1, returned[1]) IN Remember(Current, <<term>>) /\ Return(<<term>>)
     ELSE /\ IF hard # "" THEN Return(<<>>) ELSE Becomes([Current EXCEPT !.at = "focus"])
          /\ UNCHANGED memo
  /\ UNCHANGED <<considered, hard, counters>>

Focus ==
  /\ Reached("focus")
  /\ \E order \in Orders(Applicable(Current), Current.known) : Becomes([Current EXCEPT !.at = "try", !.actions = order])
  /\ UNCHANGED <<memo, considered, hard, counters>>

\* Wrong: a failure is remembered whatever cut it short.
FailsForGood(f) == Remember(f, <<>>)

\* A failure is remembered unless the depth limit cut something below it.
Fails(f) == IF pruned = f.before THEN Remember(f, <<>>) ELSE UNCHANGED memo

TryOne ==
  /\ Reached("try")
  /\ IF Current.actions = <<>> THEN Fails(Current) /\ Return(<<>>) /\ UNCHANGED <<considered, hard>>
     ELSE /\ \/ /\ Charge
                /\ Descends([Current EXCEPT !.at = "argument", !.args = <<>>, !.mark = Len(decided)],
                            Current.known, Head(Current.actions).domains[1], Current.depth)
             \/ Refuse /\ Return(<<>>)
          /\ UNCHANGED memo
  /\ UNCHANGED counters

\* Wrong: what was decided below an action outlives it.
DecidesForGood(f) == decided

Abandons(f) == SubSeq(decided, 1, f.mark)

\* The arguments of an action are an AND: the first that fails fails the
\* action, and what was decided for it is forgotten.
ArgumentOne ==
  /\ Reached("argument")
  /\ LET f == Current
         action == Head(f.actions)
         args == f.args \o returned
         term == Applied(HeadAt(action.assumption, f.depth), args)
     IN \/ /\ returned = <<>>
           /\ decided' = Abandons(f)
           /\ IF hard # "" THEN Return(<<>>)
              ELSE Becomes([f EXCEPT !.at = "try", !.actions = Tail(@), !.failed = @ \cup {action}])
           /\ UNCHANGED memo
        \/ /\ returned # <<>> /\ Len(args) < Len(action.domains)
           /\ Descends([f EXCEPT !.args = args], f.known, action.domains[Len(args) + 1], f.depth)
           /\ UNCHANGED <<memo, decided>>
        \/ /\ returned # <<>> /\ Len(args) = Len(action.domains)
           /\ decided' = (IF f.failed = {} THEN decided
                          ELSE Append(decided, [sequent |-> SequentOf(f), positive |-> action, negatives |-> f.failed]))
           /\ Remember(f, <<term>>) /\ Return(<<term>>)
  /\ UNCHANGED <<problem, considered, pruned, cycles, overdue, hard, verdict>>

-----------------------------------------------------------------------------
(* _EnumerationSearch: as many terms as are wanted.                        *)

Retain(found, terms) ==
  LET kept[k \in 0..Len(terms)] ==
        IF k = 0 THEN found
        ELSE LET before == kept[k - 1]
             IN IF terms[k] \in Range(before) \/ Len(before) >= problem.wanted THEN before ELSE Append(before, terms[k])
  IN kept[Len(terms)]

\* The combinations of terms for the arguments, the last argument fastest.
Combined(lists, set) ==
  [i \in 1..(Len(lists) * Len(set)) |->
     Append(lists[1 + ((i - 1) \div Len(set))], set[1 + ((i - 1) % Len(set))])]

Product(sets) ==
  LET lists[k \in 0..Len(sets)] == IF k = 0 THEN << <<>> >> ELSE Combined(lists[k - 1], sets[k])
  IN lists[Len(sets)]

\* An answer is remembered unless something cut the search, here or elsewhere.
Answers(f, terms) ==
  /\ IF hard' = "" /\ pruned = 0 THEN Remember(f, terms) ELSE UNCHANGED memo
  /\ Return(terms)

ExactMany ==
  {Action(Current.known[k], <<>>, FALSE) : k \in Exact(Current)}

IntroduceMany ==
  /\ Reached("arrow")
  /\ IF IsArrow(Current.goal)
     THEN LET n == IF problem.batch THEN Len(Current.goal.from) ELSE 1
              domains == SubSeq(Current.goal.from, 1, n)
          IN \/ /\ Charge
                /\ Descends([Current EXCEPT !.at = "bodies", !.mark = n], Current.known \o Introduced(domains, Current),
                            Arrow(SubSeq(Current.goal.from, n + 1, Len(Current.goal.from)), Current.goal.to), Current.depth + n)
             \/ Refuse /\ Return(<<>>)
     ELSE /\ \E order \in Orders(ExactMany, Current.known) : Becomes([Current EXCEPT !.at = "exacts", !.actions = order])
          /\ UNCHANGED <<considered, hard>>
  /\ UNCHANGED <<memo, counters>>

BodiesMany ==
  /\ Reached("bodies")
  /\ UNCHANGED <<considered, hard, counters>>
  /\ Answers(Current, Retain(<<>>, [k \in DOMAIN returned |-> Lambda(Current.mark, returned[k])]))

Enough == Current.actions = <<>> \/ Len(Current.found) >= problem.wanted

ExactsMany ==
  /\ Reached("exacts")
  /\ LET a == Head(Current.actions).assumption
         onward == \E order \in Orders(Applicable(Current), Current.known) : Becomes([Current EXCEPT !.at = "many", !.actions = order])
     IN \/ Enough /\ onward /\ UNCHANGED <<considered, hard>>
        \/ ~Enough /\ Refuse /\ onward
        \/ /\ ~Enough /\ Charge
           /\ Becomes([Current EXCEPT !.actions = Tail(@), !.found = Retain(@, <<Applied(HeadAt(a, Current.depth), <<>>)>>)])
  /\ UNCHANGED <<memo, counters>>

TryMany ==
  /\ Reached("many")
  /\ \/ Enough /\ UNCHANGED <<considered, hard>> /\ Answers(Current, Current.found)
     \/ ~Enough /\ Refuse /\ Answers(Current, Current.found)
     \/ /\ ~Enough /\ Charge
        /\ Descends([Current EXCEPT !.at = "arguments", !.args = <<>>], Current.known, Head(Current.actions).domains[1], Current.depth)
        /\ UNCHANGED memo
  /\ UNCHANGED counters

\* The deadline is looked at before every combination.
ArgumentsMany ==
  /\ Reached("arguments")
  /\ LET f == Current
         action == Head(f.actions)
         sets == Append(f.args, returned)
         lists == Product(sets)
         terms == [k \in DOMAIN lists |-> Applied(HeadAt(action.assumption, f.depth), lists[k])]
         first(n) == Retain(f.found, SubSeq(terms, 1, n))
         after(n) == Becomes([f EXCEPT !.at = "many", !.actions = Tail(@), !.found = first(n)])
     IN \/ /\ returned = <<>>
           /\ after(0) /\ UNCHANGED <<overdue, hard>>
        \/ /\ returned # <<>> /\ Len(sets) < Len(action.domains)
           /\ Descends([f EXCEPT !.args = sets], f.known, action.domains[Len(sets) + 1], f.depth)
           /\ UNCHANGED <<overdue, hard>>
        \/ /\ returned # <<>> /\ Len(sets) = Len(action.domains)
           /\ \/ ~overdue /\ after(Len(terms)) /\ UNCHANGED <<overdue, hard>>
              \/ /\ overdue \/ problem.slow
                 /\ \E n \in 0..(IF overdue THEN 0 ELSE Len(terms) - 1) : Len(first(n)) < problem.wanted /\ after(n)
                 /\ overdue' = TRUE /\ hard' = "wall-time"
  /\ UNCHANGED <<problem, memo, considered, pruned, cycles, decided, verdict>>

-----------------------------------------------------------------------------
(* focused_prove and focused_candidates.                                   *)

Begin ==
  /\ verdict = "asked"
  /\ LET nothing == problem.many /\ (problem.budget = 0 \/ problem.wanted = 0)
         known == [k \in DOMAIN problem.context |-> Named(problem.context[k].type, k - 1, problem.context[k].name)]
     IN \/ nothing /\ verdict' = "resource-exhausted" /\ UNCHANGED calls
        \/ ~nothing /\ ~problem.parses /\ verdict' = "unsupported" /\ UNCHANGED calls
        \/ ~nothing /\ problem.parses /\ verdict' = "running" /\ calls' = <<Frame(known, problem.goal, 0, 0)>>
  /\ UNCHANGED <<problem, returned, memo, considered, pruned, cycles, overdue, hard, decided>>

FocusedExpires ==
  /\ problem.slow /\ verdict = "running" /\ calls # <<>> /\ ~overdue
  /\ overdue' = TRUE
  /\ UNCHANGED <<problem, calls, returned, memo, considered, pruned, cycles, hard, decided, verdict>>

\* A first term is an answer whatever was cut; a list is complete only if
\* nothing was.
FocusedFinish ==
  /\ verdict = "running" /\ calls = <<>>
  /\ verdict' = (IF ~problem.many /\ returned # <<>> THEN "solved"
                 ELSE IF hard # "" \/ pruned > 0 THEN "resource-exhausted"
                 ELSE IF returned # <<>> THEN "solved" ELSE "no-proof")
  /\ UNCHANGED <<problem, calls, returned, memo, considered, pruned, cycles, overdue, hard, decided>>

FocusedInit ==
  /\ problem \in Problems
  /\ calls = <<>> /\ returned = <<>> /\ memo = <<>> /\ decided = <<>>
  /\ considered = 0 /\ pruned = 0 /\ cycles = 0
  /\ overdue = FALSE /\ hard = "" /\ verdict = "asked"

FocusedStep ==
  \/ Begin \/ Stopped \/ Remembered \/ Cycle \/ Expand
  \/ ExactOne \/ IntroduceOne \/ BodyOne \/ Focus \/ TryOne \/ ArgumentOne
  \/ IntroduceMany \/ BodiesMany \/ ExactsMany \/ TryMany \/ ArgumentsMany
  \/ FocusedFinish

FocusedNext == FocusedStep \/ FocusedExpires

\* The search goes on until it ends; the clock may never reach the deadline.
FocusedSpec == FocusedInit /\ [][FocusedNext]_focusedVars /\ WF_focusedVars(FocusedStep)

==================================================================================
