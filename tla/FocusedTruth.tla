------------------------------ MODULE FocusedTruth ------------------------------
(***************************************************************************)
(* What the focused search should come to when it finds nothing: all the   *)
(* normal terms of a type, and with them what is remembered as a failure.  *)
(***************************************************************************)
EXTENDS FocusedTerms

CONSTANT Bound  \* how deep proofs are looked for

\* TypeExpr.size, by recursion over the type.
RECURSIVE Size(_)
Size(t) == 1 + FoldLeft(LAMBDA n, d : n + 1 + Size(d), 0, t.from)

---------------------------------------------------------------------------------

\* The normal terms of a type that are at most so deep.
RECURSIVE NormalTerms(_, _, _)
NormalTerms(goal, binders, deep) ==
  IF deep = 0 THEN {}
  ELSE IF IsArrow(goal)
  THEN {Lambda(1, t) : t \in NormalTerms(Arrow(Tail(goal.from), goal.to), Append(binders, goal.from[1]), deep - 1)}
  ELSE LET heads == {[name |-> "", index |-> k] : k \in 0..(Len(binders) - 1)}
                    \cup {[name |-> problem.context[k].name, index |-> -1] : k \in DOMAIN problem.context}
                    \cup {[name |-> problem.eliminators[k].name, index |-> -1] : k \in DOMAIN problem.eliminators}
           uses == UNION {{<<h, t.from>> : t \in {u \in HeadTypes(problem, h, binders, goal) : u.to = goal.to}} : h \in heads}
           terms(d) == NormalTerms(d, binders, deep - 1)
       IN UNION {{Applied(u[1], args) : args \in
                    {a \in [1..Len(u[2]) -> UNION {terms(u[2][k]) : k \in DOMAIN u[2]}] :
                       \A k \in DOMAIN u[2] : a[k] \in terms(u[2][k])}} : u \in uses}

-----------------------------------------------------------------------------

\* If no path came back to a sequent of its own, what is remembered is the
\* truth: a sequent remembered without a term has none, and fewer terms than
\* were wanted are all its normal terms; no proof is reported of nothing else.
FailuresAreTrue ==
  verdict \notin {"asked", "running"} /\ cycles = 0 =>
    /\ \A key \in DOMAIN memo :
         LET all == NormalTerms(key.sequent.goal, LocalTypes(problem, key.sequent.known), Bound)
             kept == Range(memo[key])
         IN IF problem.many THEN Len(memo[key]) < problem.wanted => all \subseteq kept
            ELSE kept = {} => all = {}
    /\ verdict = "no-proof" => NormalTerms(problem.goal, <<>>, Bound) = {}

\* No proof is reported of a goal that has one (focused.py:541: what is
\* unknown must not poison another path through the memo).
NoProofMeansNone == verdict = "no-proof" => NormalTerms(problem.goal, <<>>, Bound) = {}

=================================================================================
