-------------------------- MODULE MCStructuralSearch --------------------------
(* Small requests, goals and scopes for StructuralSearch. *)
EXTENDS StructuralTruth, TLC

(***************************************************************************)
(* The search.                                                             *)
(***************************************************************************)
Shape(head, ready, same, nullary) == [head |-> head, ready |-> ready, same |-> same, nullary |-> nullary]

Data == Shape("data", TRUE, FALSE, TRUE)
Opaque == Shape("opaque", FALSE, TRUE, FALSE)
Functional == Shape("arrow", FALSE, FALSE, FALSE)

SmallSequents == {Data, Opaque, Functional}
SmallShapes == {<<>>, <<Data>>, <<Opaque, Data>>, <<Functional, Opaque>>}

Request(found, budget, on) ==
  [found |-> found, budget |-> budget, depth |-> 2, limit |-> 1,
   defer |-> "defer" \in on, recursive |-> "recursive" \in on, wraps |-> "wraps" \in on, must |-> "must" \in on,
   arity |-> "arity" \in on, copattern |-> "copattern" \in on, hides |-> "hides" \in on,
   trouble |-> "trouble" \in on]

AllLanes == UNION {{Route[r][i] : i \in 1..Len(Route[r])} : r \in DOMAIN Route}
             \ ({"enter", "room", "room again"} \cup Following)

\* Every lane beside a refinement, and lanes that feed one another.
Pairs == {{a, "indexed evidence"} : a \in AllLanes} \cup {
  {"contextual evidence", "observed elimination"}, {"contextual evidence", "evidence refinements"},
  {"observed elimination", "premises"}, {"introduction", "exact locals"}}

SmallRequests ==
  UNION {{Request(found, 3, {"recursive", "wraps", "arity"}), Request(found, 2, {"recursive", "must"}),
          Request(found, 2, {"recursive", "trouble"}),
          [Request(found, 2, {"defer", "hides"}) EXCEPT !.limit = 2]} : found \in Pairs}
  \cup {Request({"copattern", "local metas"}, 5, {"copattern", "hides"}),
        Request({"observed elimination", "local metas"}, 4, {}),
        Request({"supplied values", "builders"}, 4, {"hides"}), [Request({}, 1, {}) EXCEPT !.limit = 0]}

SmallReader == [Request({}, 1, {}) EXCEPT !.limit = 0]

(***************************************************************************)
(* Its premises: a value, a law about it and a rule.  The value goes, or   *)
(* looks different, or the rule has another name and other references.     *)
(***************************************************************************)
Is(symbols, aliases, head, arity) == [symbols |-> symbols, aliases |-> aliases, head |-> head, arity |-> arity]

Scope(module, allowed, refs) == [module |-> module, graph |-> TRUE, allowed |-> allowed, refs |-> refs]

All     == Scope("m", 1 :> Is({9}, {"f"}, "nat", 0) @@ 2 :> Is({1, 9}, {"g"}, "eq", 1) @@ 3 :> Is({8}, {"f"}, "eq", 2),
                 1 :> {} @@ 2 :> {3} @@ 3 :> {1})
Fewer   == Scope("m", 2 :> Is({1, 9}, {"g"}, "eq", 1) @@ 3 :> Is({8}, {"f"}, "eq", 2), 2 :> {3} @@ 3 :> {})
Other   == Scope("m", 1 :> Is({8}, {"f"}, "nat", 0) @@ 2 :> Is({9}, {"g"}, "eq", 1) @@ 3 :> Is({8}, {"h"}, "eq", 2),
                 1 :> {} @@ 2 :> {} @@ 3 :> {2})
Without == [All EXCEPT !.graph = FALSE]
Foreign == [Fewer EXCEPT !.module = "n"]
SmallScopes == {All, Fewer, Other, Without, Foreign}

NoView == [kind |-> "none", head |-> "none", arity |-> 0, symbols |-> {}, tokens |-> {}]
ViewAs(kind, head, symbols) == [kind |-> kind, head |-> head, arity |-> 1, symbols |-> symbols, tokens |-> {"p"}]

Wants(head, symbols, tokens, lanes, view) ==
  [head |-> head, arity |-> 1, symbols |-> symbols, tokens |-> tokens, lanes |-> lanes, view |-> view]

Normal == ViewAs("normalized", "nat", {8})
InOrder == <<
  Wants("eq", {1}, {"p"}, {"symbols"}, NoView),
  Wants("eq", {1, 9}, {"q"}, {}, Normal),
  Wants("nat", {3}, {}, {"symbols", "rarity"}, NoView),
  Wants("eq", {9}, {"p"}, {}, NoView),
  Wants("none", {}, {}, {}, NoView),
  Wants("eq", {2, 3, 8}, {"p"}, {"symbols", "rarity"}, Normal),
  Wants("eq", {1, 9}, {}, {"symbols"}, ViewAs("type-family", "eq", {2}))>>

SmallQueries == {InOrder[k] : k \in 1..7}

Goal(state, point, scope, query) ==
  [state |-> state, point |-> point, scope |-> scope, query |-> query, spoken |-> Members(scope) \ {3}]

SmallGoals ==
  {Goal("s", 0, All, InOrder[1]), Goal("t", 0, Fewer, InOrder[2]), Goal("t", 1, Other, InOrder[3]),
   Goal("u", 1, Without, InOrder[4]), Goal("v", 2, Foreign, InOrder[5])}

SmallFragments == ("f" :> {"p"}) @@ ("g" :> {"q"}) @@ ("h" :> {"p", "q"})
SmallProgressiveWidths == <<1, 3>>

(***************************************************************************)
(* The prover's goals.                                                     *)
(***************************************************************************)
Small == INSTANCE MCGoalTasks

SmallProblems == Small!MCAllProblems
SmallGoalTasks == Small!MCGoalTasks
SmallTypes == Small!MCTypes
SmallAtomOrder == Small!MCAtomOrder
SmallResting == Small!MCResting
=================================================================================
