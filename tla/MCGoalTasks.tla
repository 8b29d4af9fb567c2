------------------------------- MODULE MCGoalTasks -------------------------------
(* Small goals for the focused search and the prover for one goal.              *)
EXTENDS FocusedTypes, TLC

a == Atom("a")
b == Atom("b")
c == Atom("c")
d == Atom("d")
g == Atom("g")
void == Atom("void")
To(from, t) == Arrow(from \o t.from, t.to)

Has(n, t) == [name |-> n, type |-> t]

Problem(context, goal) ==
  [context |-> context, goal |-> goal, eliminators |-> <<>>, limit |-> NoLimit, budget |-> 30, wanted |-> 1,
   many |-> FALSE, batch |-> FALSE, scored |-> FALSE, slow |-> FALSE, parses |-> TRUE, abstract |-> {}]

Many(p, n) == [p EXCEPT !.many = TRUE, !.wanted = n]

Projection == Problem(<<>>, To(<<a, b>>, a))

\* An argument that is a function.
Discharge == Problem(<<Has("f", To(<<To(<<a, b>>, d)>>, g)), Has("h", To(<<b>>, d))>>, To(<<a>>, g))

\* An argument that needs the head again, under one binder more each time.
Growing == [Problem(<<Has("f", To(<<To(<<a>>, g)>>, g))>>, g) EXCEPT !.budget = 7]

Chain == Problem(<<Has("h", To(<<b>>, c)), Has("f", To(<<a>>, b)), Has("x", a)>>, c)

\* An action is given up after its first argument took two attempts.
Abandon == Problem(<<Has("u", To(<<b, c>>, g)), Has("n", To(<<d>>, b)), Has("m", To(<<a>>, b)),
                     Has("v", To(<<a>>, g)), Has("x", a)>>, g)

Absurd == [Problem(<<Has("z", To(<<a>>, void))>>, To(<<a>>, b))
             EXCEPT !.eliminators = <<[name |-> "absurd", from |-> <<void>>]>>]

\* Pairs of arguments.
Pairs == Problem(<<Has("f", To(<<a, a>>, b)), Has("x", a), Has("y", a)>>, b)

\* The argument a of k needs b while b is not known.
Poisoned == Problem(<<Has("k", To(<<a, b>>, g)), Has("back", To(<<b>>, a)), Has("f", To(<<a>>, b)),
                      Has("p", To(<<c>>, a)), Has("q", To(<<d>>, c)), Has("x", d)>>, g)

MCProblems ==
  { Projection, Discharge, Many(Discharge, 2), [Many(Discharge, 2) EXCEPT !.batch = TRUE], Growing, Many(Growing, 2),
    [Chain EXCEPT !.limit = 1], [Many(Chain, 2) EXCEPT !.limit = 1], [Chain EXCEPT !.limit = 2], [Chain EXCEPT !.slow = TRUE],
    [Abandon EXCEPT !.scored = TRUE], [Many(Abandon, 2) EXCEPT !.scored = TRUE],
    [Abandon EXCEPT !.goal = c], Absurd, Many(Absurd, 2),
    Many(Pairs, 3), Many(Pairs, 5), [Many(Pairs, 4) EXCEPT !.slow = TRUE], [Many(Pairs, 4) EXCEPT !.budget = 3],
    [Pairs EXCEPT !.parses = FALSE], Many(Pairs, 0), Poisoned, Many(Poisoned, 2) }

-----------------------------------------------------------------------------
(* Tasks for the prover. *)

No == -1

Text(goals, refined, splits) ==
  [loads |-> TRUE, goals |-> goals, rebuilds |-> TRUE, focused |-> [text |-> No, costs |-> 0, deep |-> FALSE],
   refined |-> refined, splits |-> splits]
Bad == [Text(1, No, <<>>) EXCEPT !.loads = FALSE]

Clause == 0 :> Text(1, No, <<>>)

\* Two splits, which meet again, and a text that cannot be rebuilt.
Meeting == 0 :> Text(1, No, <<1, 2, No>>) @@ 1 :> Text(2, 3, <<>>) @@ 2 :> Text(1, No, <<3, 4>>)
           @@ 3 :> [Text(1, No, <<0>>) EXCEPT !.focused.costs = 1]
           @@ 4 :> [Text(0, No, <<>>) EXCEPT !.rebuilds = FALSE]

Provable == 0 :> Text(1, 1, <<>>) @@ 1 :> Text(1, No, <<2, 3>>) @@ 2 :> Bad
            @@ 3 :> [Text(1, No, <<>>) EXCEPT !.focused = [text |-> 4, costs |-> 1, deep |-> FALSE]]
            @@ 4 :> Text(0, No, <<>>)

Deep == 0 :> [Text(1, No, <<1>>) EXCEPT !.focused.deep = TRUE] @@ 1 :> Text(1, 2, <<>>) @@ 2 :> Text(1, 0, <<>>)

GoalTask(p, on, finds, checks, trouble, region, terms) ==
  [problem |-> p, on |-> on, finds |-> finds, checks |-> checks, trouble |-> trouble, region |-> region, terms |-> terms]

Alone(p) == GoalTask(p, {"alone"}, {}, {}, {}, Clause, 0)
Ordinary == {"checked", "rejected"}
AllChecks == {"checked", "rejected", "timed out", "prefix exhausted", "prefix unavailable"}

Goal(budget) == [Problem(<<>>, To(<<a>>, b)) EXCEPT !.budget = budget]
Impossible == [Problem(<<>>, To(<<To(<<To(<<a>>, b)>>, b), b>>, a))
                 EXCEPT !.abstract = {"a", "b"}]
Peirce == [Problem(<<>>, To(<<To(<<To(<<a>>, b)>>, a)>>, a))
             EXCEPT !.abstract = {"a", "b"}]
Higher == [Problem(<<>>, To(<<To(<<To(<<b>>, b), a>>, b)>>, b))
             EXCEPT !.abstract = {"a", "b"}]
Labelling == [Abandon EXCEPT !.scored = TRUE]

\* Of the behaviours that are not about the prover.
MCResting == Alone([Projection EXCEPT !.budget = 1])

MCGoalTasks ==
  {MCResting} \cup {Alone(p) : p \in MCProblems}
  \cup {GoalTask(Impossible, {}, {}, {}, {"checker"}, Clause, 0),
        GoalTask(Higher, {}, {}, {}, {}, Clause, 0),
        GoalTask(Peirce, {}, {"terms"}, Ordinary, {}, Clause, 2),
        GoalTask([Impossible EXCEPT !.slow = TRUE], {}, {}, {}, {}, Clause, 0),
        GoalTask(Goal(8), {"productive"}, {"cases", "constructor", "terms"}, AllChecks, {}, Clause, 2),
        GoalTask(Goal(12), {"opaque"}, {"guided", "terms"}, Ordinary, {}, Provable, 1),
        GoalTask(Goal(12), {"plain", "shapeless"}, {"cases", "terms"}, Ordinary, {"ledger"}, Clause, 1),
        GoalTask(Goal(14), {}, {"guided"}, Ordinary, {}, Meeting, 1),
        GoalTask([Goal(14) EXCEPT !.limit = 2], {}, {"terms"}, Ordinary, {}, Meeting, 3),
        GoalTask([Goal(14) EXCEPT !.limit = 2], {}, {"terms"}, Ordinary, {}, Deep, 3),
        GoalTask(Goal(6), {"exhausts", "spends"}, {"cases"}, Ordinary, {}, Meeting, 5),
        GoalTask(Goal(5), {}, {"terms"}, Ordinary, {}, Clause, 5),
        GoalTask([Goal(14) EXCEPT !.slow = TRUE], {"productive"}, {"cases", "constructor", "terms"}, Ordinary, {}, Meeting, 2),
        GoalTask([Labelling EXCEPT !.parses = FALSE], {"opaque"}, {"terms"}, Ordinary, {}, Clause, 1),
        GoalTask(Labelling, {}, {"focused", "terms"}, AllChecks, {}, Clause, 1),
        GoalTask(Goal(9), {}, {"constructor", "terms"}, Ordinary, {"input", "protocol", "policy", "resource", "system"}, Clause, 1),
        GoalTask([Goal(9) EXCEPT !.budget = 0], {}, {}, {}, {}, Clause, 0)}

MCAllProblems == {t.problem : t \in MCGoalTasks}

RECURSIVE PartsOf(_)
PartsOf(t) == {Arrow(SubSeq(t.from, n + 1, Len(t.from)), t.to) : n \in 0..Len(t.from)}
              \cup UNION {PartsOf(t.from[k]) : k \in DOMAIN t.from}

TypesOf(p) == PartsOf(p.goal) \cup UNION {PartsOf(p.context[k].type) : k \in DOMAIN p.context}
              \cup UNION {UNION {PartsOf(t) : t \in Range(p.eliminators[k].from)} : k \in DOMAIN p.eliminators}

MCTypes == UNION {TypesOf(p) : p \in MCAllProblems \cup MCProblems}
MCAtomOrder == <<"a", "b", "c", "d", "g", "void">>
=================================================================================
