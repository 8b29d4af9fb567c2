---------------------------- MODULE StructuralTruth ----------------------------
(***************************************************************************)
(* What the searches of the prover for one goal answer, compared with what *)
(* they should: the focused search with FocusedTruth, and a refutation     *)
(* with what Agda checks and with the proofs the goal has.  Each is asked  *)
(* where its search has ended.                                             *)
(***************************************************************************)
EXTENDS StructuralSearch, FocusedTruth, Refutation

\* What is remembered as a failure is one, if no path came back to a sequent
\* of its own, see FocusedTruth.
FailuresAreReal == stage = "focused" => FailuresAreTrue

\* What is compiled refutes: Agda accepts the term, its certificate verifies,
\* and the goal has no proof, which the search for one never has to find out.
RefutationsRefute ==
  stage = "refute" /\ verdict = "no-proof" /\ Compiles(problem) =>
    LET v == Valuation(problem, First(problem))
    IN /\ Accepted(problem, v) /\ Verifies(problem, v, First(problem) + 1)
       /\ NormalTerms(problem.goal, <<>>, Bound) = {}

================================================================================
