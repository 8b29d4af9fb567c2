------------------------------- MODULE Refutation -------------------------------
(***************************************************************************)
(* Refutations of a goal without hypotheses whose atoms are all abstract   *)
(* parameters (impossibility.py).  A Boolean countermodel makes every      *)
(* parameter the empty type or the unit type, and the compiler writes a    *)
(* function from the goal, so instantiated, to the empty type.  What comes  *)
(* of a problem p depends on it alone.                                     *)
(***************************************************************************)
EXTENDS FocusedTypes

CONSTANTS
  AtomOrder,        \* the atoms, sorted
  AssignmentBudget  \* how many valuations are looked at

ASSUME RefutationAssumption ==
  AssignmentBudget \in Nat /\ \A j, k \in DOMAIN AtomOrder : AtomOrder[j] = AtomOrder[k] => j = k

RECURSIVE Atoms(_)
Atoms(t) == {t.to} \cup UNION {Atoms(t.from[k]) : k \in DOMAIN t.from}

RECURSIVE EvaluateAny(_, _), Evaluate(_, _)

\* Wrong: one domain is enough for the result.
EvaluateAny(t, v) == (\E k \in DOMAIN t.from : EvaluateAny(t.from[k], v)) => v[t.to]

Evaluate(t, v) == (\A k \in DOMAIN t.from : Evaluate(t.from[k], v)) => v[t.to]

-----------------------------------------------------------------------------
(* The countermodel.                                                       *)

Hypotheses(p) == {p.context[k].type : k \in DOMAIN p.context}
UsedAtoms(p) == UNION {Atoms(t) : t \in Hypotheses(p) \cup {p.goal}}

\* _fragment_formulas
InFragment(p) == p.abstract # {} /\ UsedAtoms(p) \subseteq p.abstract

Ordered(p) == SelectSeq(AtomOrder, LAMBDA x : x \in UsedAtoms(p))

\* The valuations as product gives them: the last atom changes fastest.
Valuation(p, k) ==
  [x \in UsedAtoms(p) |-> \E i \in DOMAIN Ordered(p) : Ordered(p)[i] = x /\ (k \div (2 ^ (Len(Ordered(p)) - i))) % 2 = 1]

\* The position of a valuation as its certificate is checked.
AssignmentIndex(p, v) ==
  1 + FoldSet(LAMBDA i, sum : sum + (IF v[Ordered(p)[i]] THEN 2 ^ (Len(Ordered(p)) - i) ELSE 0), 0, DOMAIN Ordered(p))

Refutes(p, v) == (\A t \in Hypotheses(p) : Evaluate(t, v)) /\ ~Evaluate(p.goal, v)

\* The valuations in reach that refute the goal; the clock may stop the search
\* at any but the first.
Countermodels(p) ==
  {k \in 0..(2 ^ Len(Ordered(p)) - 1) : k < AssignmentBudget /\ Refutes(p, Valuation(p, k))}

First(p) == CHOOSE k \in Countermodels(p) : \A j \in Countermodels(p) : k <= j

-----------------------------------------------------------------------------
(* compile_refutation: values of the instantiated types, over named        *)
(* binders, apUnit and apAbsurd.                                           *)

Name(name, number) == [name |-> name, number |-> number]
Value(head, args) == [binders |-> <<>>, head |-> head, args |-> args]
Made(term, next) == [term |-> term, next |-> next]
Codomain(t) == Arrow(Tail(t.from), t.to)

RECURSIVE PositiveValue(_, _, _), RefuteValue(_, _, _, _)

\* A value of a type that is true, with names from n on.
PositiveValue(t, v, n) ==
  IF ~IsArrow(t) THEN Made(Value(Name("apUnit", 0), <<>>), n)
  ELSE LET binder == Name("ap", n)
           body == IF Evaluate(Codomain(t), v) THEN PositiveValue(Codomain(t), v, n + 1)
                   ELSE LET c == RefuteValue(Head(t.from), Value(binder, <<>>), v, n + 1)
                        IN  Made(Value(Name("apAbsurd", 0), <<c.term>>), c.next)
       IN Made([body.term EXCEPT !.binders = <<binder>> \o @], body.next)

\* A value of the empty type from a value of a type that is false.
RefuteValue(t, value, v, n) ==
  IF ~IsArrow(t) THEN Made(value, n)
  ELSE LET argument == PositiveValue(Head(t.from), v, n)
       IN  RefuteValue(Codomain(t), [value EXCEPT !.args = Append(@, argument.term)], v, argument.next)

Supposed == Name("h", 0)
RefutationTerm(p, v) == RefuteValue(p.goal, Value(Supposed, <<>>), v, 0).term

\* Without a countermodel or outside the fragment nothing is compiled.
Compiles(p) == InFragment(p) /\ Hypotheses(p) = {} /\ Countermodels(p) # {}

\* verify_impossibility_certificate
Verifies(p, v, assignments) == Refutes(p, v) /\ assignments = AssignmentIndex(p, v)

-----------------------------------------------------------------------------
(* What Agda checks.                                                       *)

RECURSIVE Instance(_, _)
Instance(t, v) == Arrow([k \in DOMAIN t.from |-> Instance(t.from[k], v)], IF v[t.to] THEN "unit" ELSE "empty")

RECURSIVE Checks(_, _, _)
Checks(t, type, env) ==
  /\ Len(t.binders) <= Len(type.from)
  /\ LET n == Len(t.binders)
         inner == [x \in DOMAIN env \cup Range(t.binders) |->
                     IF x \in Range(t.binders) THEN type.from[CHOOSE k \in 1..n : t.binders[k] = x] ELSE env[x]]
         rest == Arrow(SubSeq(type.from, n + 1, Len(type.from)), type.to)
         used == Len(t.args)
     IN CASE t.head.name = "apUnit" -> used = 0 /\ rest = Atom("unit")
          [] t.head.name = "apAbsurd" -> used = 1 /\ Checks(t.args[1], Atom("empty"), inner)
          [] OTHER -> /\ t.head \in DOMAIN inner
                      /\ LET h == inner[t.head]
                         IN /\ used <= Len(h.from)
                            /\ Arrow(SubSeq(h.from, used + 1, Len(h.from)), h.to) = rest
                            /\ \A k \in 1..used : Checks(t.args[k], h.from[k], inner)

Accepted(p, v) == Checks(RefutationTerm(p, v), Atom("empty"), [x \in {Supposed} |-> Instance(p.goal, v)])

\* What certify_impossible comes to: a certificate, or none, also because the
\* clock stopped the search.
Refuting(p) ==
  IF ~Compiles(p) THEN {"none"}
  ELSE LET v == Valuation(p, First(p))
           certified == Accepted(p, v) /\ Verifies(p, v, First(p) + 1)
       IN (IF certified THEN {"certified"} ELSE {"none"}) \cup (IF First(p) > 0 THEN {"none"} ELSE {})

==================================================================================
