------------------------------ MODULE Frontier ------------------------------
(***************************************************************************)
(* What the native agenda promises, whatever the order it serves its work  *)
(* in: every alternative it was given stays until it is served, serving    *)
(* one adds only costlier alternatives of the same branch or of a state    *)
(* new to that branch, and the search is exhausted only when nothing is    *)
(* left.                                                                   *)
(***************************************************************************)
EXTENDS Naturals, Sequences

CONSTANT States

VARIABLES
  frontier,   \* the alternatives not served yet
  numbered,   \* how many alternatives there have been
  exhausted

Alternative == [serial : Nat, cost : Nat, path : Seq(States)]

Init ==
  /\ \E root \in States : frontier = {[serial |-> 0, cost |-> 0, path |-> <<root>>]}
  /\ numbered = 1 /\ exhausted = FALSE

\* path leads to the state of the parent, or one transition further.
Continues(path, parent) ==
  \/ path = parent
  \/ /\ path # <<>> /\ Tail(path) = parent
     /\ \A i \in DOMAIN parent : parent[i] # Head(path)

Follows(a, parent) == a.cost > parent.cost /\ Continues(a.path, parent.path)

Serve ==
  /\ ~exhausted
  /\ \E served \in frontier :
       /\ frontier \ {served} \subseteq frontier'
       /\ served \notin frontier'
       /\ \A a \in frontier' \ frontier :
            Follows(a, served) /\ numbered <= a.serial /\ a.serial < numbered'
       /\ \A a, b \in frontier' : a.serial = b.serial => a = b
  /\ numbered' >= numbered
  /\ UNCHANGED exhausted

Exhaust ==
  /\ frontier = {} /\ exhausted' = TRUE
  /\ UNCHANGED <<frontier, numbered>>

Next == Serve \/ Exhaust

Spec == Init /\ [][Next]_<<frontier, numbered, exhausted>>

=============================================================================
