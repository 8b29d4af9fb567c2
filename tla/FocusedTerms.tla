------------------------------ MODULE FocusedTerms ------------------------------
(***************************************************************************)
(* What the terms of the focused search are: which terms have which type,  *)
(* and whether the terms the search remembers and returns have the type    *)
(* they were found for.  A term is typed by a derivation no higher than    *)
(* the actions the search took.                                            *)
(***************************************************************************)
EXTENDS FocusedSearch

CONSTANT Types  \* the types of the problems, with their domains and results

ASSUME TypesAssumption ==
  /\ \A t \in Types :
       /\ t.from \in Seq(Types) /\ t = Arrow(t.from, t.to)
       /\ \A n \in 0..Len(t.from) : Arrow(SubSeq(t.from, n + 1, Len(t.from)), t.to) \in Types
  /\ \A p \in Problems :
       /\ p.goal \in Types
       /\ p.context \in Seq([name : STRING, type : Types])
       /\ p.eliminators \in Seq([name : STRING, from : Seq(Types) \ {<<>>}])
       /\ \A k \in DOMAIN p.context : p.context[k].name # ""
       /\ \A k \in DOMAIN p.eliminators : p.eliminators[k].name # ""

\* The types of the binders among what is known, which come after the context.
LocalTypes(p, known) ==
  LET context == Len(p.context) IN [k \in 1..(Len(known) - context) |-> known[context + k].type]

\* The types a head may have, where binders has the types of the binders around it.
HeadTypes(p, h, binders, goal) ==
  IF h.name = "" THEN IF h.index \in 0..(Len(binders) - 1) THEN {binders[Len(binders) - h.index]} ELSE {}
  ELSE {p.context[k].type : k \in {j \in DOMAIN p.context : p.context[j].name = h.name}}
       \cup {Arrow(p.eliminators[k].from \o goal.from, goal.to) :
               k \in {j \in DOMAIN p.eliminators : p.eliminators[j].name = h.name}}

HeadSet(p) ==
  [name : {""} \cup {p.context[k].name : k \in DOMAIN p.context} \cup {p.eliminators[k].name : k \in DOMAIN p.eliminators},
   index : Int]

\* A term of a type under binders: its own binders are those of the type, and
\* its head takes the arguments, which are typed, to what is left of it.
Derives(p, j, typed) ==
  LET from == j.goal.from
      n == j.term.lams
      inside == j.binders \o SubSeq(from, 1, n)
      rest == Arrow(SubSeq(from, n + 1, Len(from)), j.goal.to)
      args == j.term.args
  IN /\ n <= Len(from)
     /\ \E h \in HeadTypes(p, j.term.head, inside, rest) :
          /\ Len(args) <= Len(h.from)
          /\ Arrow(SubSeq(h.from, Len(args) + 1, Len(h.from)), h.to) = rest
          /\ \A k \in DOMAIN args : [term |-> args[k], goal |-> h.from[k], binders |-> inside] \in typed

\* One storey on those below: the terms, which of them are typed, and the heads
\* in each with the number of arguments they take.
Storey(p, below) ==
  LET terms == [lams : Nat, head : HeadSet(p), args : Seq(below.terms)]
  IN [terms |-> terms,
      typed |-> {j \in [term : terms, goal : Types, binders : Seq(Types)] : Derives(p, j, below.typed)},
      heads |-> [t \in terms |-> {<<t.head.name, Len(t.args)>>} \cup UNION {below.heads[t.args[k]] : k \in DOMAIN t.args}]]

Ground == [terms |-> {}, typed |-> {}, heads |-> <<>>]

Storeys(p) == LET storey[n \in Nat] == IF n = 0 THEN Ground ELSE Storey(p, storey[n - 1]) IN storey

HasType(p, n, t, goal, binders) == [term |-> t, goal |-> goal, binders |-> binders] \in Storeys(p)[n].typed

-----------------------------------------------------------------------------

\* Every term that is remembered or returned has the type it was found for,
\* whatever path found it: a memo entry is used under other binders' frames
\* than the ones it was made in.
TermsAreTyped ==
  /\ \A key \in DOMAIN memo : \A k \in DOMAIN memo[key] :
       HasType(problem, considered, memo[key][k], key.sequent.goal, LocalTypes(problem, key.sequent.known))
  /\ verdict \notin {"asked", "running"} =>
       \A k \in DOMAIN returned : HasType(problem, considered, returned[k], problem.goal, <<>>)

\* The decisions that leave the search are those of the proof it returns:
\* those of abandoned branches are gone, and without a proof there are none.
LabelsBelong ==
  verdict \notin {"asked", "running"} =>
    \A k \in DOMAIN decided :
      /\ verdict = "solved"
      /\ <<decided[k].positive.assumption.name, Len(decided[k].positive.domains)>>
           \in Storeys(problem)[considered].heads[returned[1]]

=================================================================================
