----------------------------- MODULE SearchContract -----------------------------
(***************************************************************************)
(* What a proof search promises its caller: it charges only while it has   *)
(* allowance left, and then no more than the excess agreed on beyond it;   *)
(* it keeps what it has found; and its one answer is solved exactly when   *)
(* something was found; otherwise it gives up, or says that there is no    *)
(* proof, or an error leaves it.  Nothing moves after the answer.          *)
(***************************************************************************)
EXTENDS Naturals

VARIABLES
  answer,    \* the answer, or none
  allowance, \* the actions the caller grants
  excess,    \* by how many its last charge may exceed them
  used,      \* the actions considered
  found      \* the number of solutions kept

contract == <<answer, allowance, excess, used, found>>

Promise == answer = "none" /\ used = 0 /\ found = 0

Works ==
  /\ answer = "none" /\ UNCHANGED <<answer, allowance, excess>>
  /\ used' >= used /\ used' <= allowance + excess
  /\ used' # used => used < allowance
  /\ found' \in {found, found + 1}

\* An answer is given once.
Answers ==
  /\ answer = "none"
  /\ \/ answer' = "solved" /\ found > 0
     \/ answer' \in {"resource-exhausted", "no-proof"} /\ found = 0
     \/ answer' = "raised"
  /\ UNCHANGED <<allowance, excess, used, found>>

Contract == Promise /\ [][Works \/ Answers]_contract
================================================================================
