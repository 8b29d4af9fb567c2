---------------------------- MODULE PremiseRetrieval ----------------------------
(***************************************************************************)
(* What the structural search reads from the premise index: a ranking of   *)
(* the scope for one goal, kept in a bounded pool, and lanes that go       *)
(* through the ranking in widening steps.  A lane is suspended between two *)
(* steps while other goals are ranked, which may push its pool out; it     *)
(* then goes on with the ranking that is made in its place.                *)
(*                                                                         *)
(* Scores are integers: the rarity of a symbol only has to fall with the   *)
(* number of premises that bear it.  The names by which ties are broken    *)
(* are in the order of the identities.                                     *)
(***************************************************************************)
EXTENDS PremiseIndex, Sequences, FiniteSetsExt

CONSTANTS
  Goals,        \* goals that are met: a state, an interaction point, a scope and a query
  Queries,      \* queries that are tried on every index
  RetrieveLimit,\* the width of the pool, 512 in the code
  ProgressiveWidths, \* PROGRESSIVE_WIDTHS, up to the width of the pool
  MaxPools,     \* pools that are kept, 64
  MaxPoolSize,  \* bytes of all pools
  Wideners      \* lanes that may be suspended

\* TypeFeatures and tokens of a type: of the query, or of another view of it.
View  == [kind : {"none", "normalized", "type-family"}, head : Heads, arity : Arities,
          symbols : SUBSET Symbols, tokens : SUBSET Fragments]
Query == [head : Heads, arity : Arities, symbols : SUBSET Symbols, tokens : SUBSET Fragments,
          lanes : SUBSET {"symbols", "rarity"}, view : View]

\* The rarity lane needs the other one.  spoken: what has a name to write.  What
\* a query mentions is finite, and identities are ordered.
ASSUME RetrievalAssumption ==
  /\ Queries \subseteq Query
  /\ \A q \in Queries : "rarity" \in q.lanes => "symbols" \in q.lanes
  /\ \A q \in Queries : /\ IsFiniteSet(q.symbols) /\ IsFiniteSet(q.tokens)
                        /\ IsFiniteSet(q.view.symbols) /\ IsFiniteSet(q.view.tokens)
  /\ Ids \subseteq Int
  /\ \A g \in Goals : g.scope \in Scopes /\ g.query \in Queries /\ g.spoken \subseteq DOMAIN g.scope.allowed
  /\ {RetrieveLimit, MaxPools, MaxPoolSize} \subseteq Nat
  /\ ProgressiveWidths \in Seq(Nat) /\ ProgressiveWidths[Len(ProgressiveWidths)] = RetrieveLimit
  /\ \A i, j \in DOMAIN ProgressiveWidths : i <= j => ProgressiveWidths[i] <= ProgressiveWidths[j]

VARIABLES
  pools,        \* _scoped_actions, oldest first
  widening      \* of every lane: its goal, the pool it started with, its next width and what it has seen

retrievalVars == <<indexVars, pools, widening>>

-----------------------------------------------------------------------------
(* Ranking.                                                                *)

Lesser(a, b) == IF a < b THEN a ELSE b
Gap(a, b) == IF a < b THEN b - a ELSE a - b

\* retrieve propagates every seed over two rounds of neighbours.
Near(ix, s) == ix.neighbors[s] \ {s}
Far(ix, s) == (UNION {ix.neighbors[n] : n \in Near(ix, s)}) \ (Near(ix, s) \cup {s})

DependencyScore(ix, q, i) ==
  LET seeds == q.symbols \cap Vertices(ix.scope)
  IN  3 * Cardinality(seeds \cap {i}) + 2 * Cardinality({s \in seeds : i \in Near(ix, s)})
        + Cardinality({s \in seeds : i \in Far(ix, s)})

Overlap(tokens, postings, i) == Cardinality({t \in tokens : i \in postings[t]})

\* RankedPremise.sort_key: a smaller tuple is a better premise.
SortKey(ix, q, i) ==
  LET p == ix.scope.allowed[i]
  IN << -(IF q.head # Unknown /\ p.head = q.head THEN 1 ELSE 0), -DependencyScore(ix, q, i),
        -Overlap(q.symbols, ix.symbols, i), Gap(p.arity, q.arity), -Overlap(q.tokens, ix.lexical, i), i >>

\* A symbol counts the more, the more premises do without it.
Rarity(ix, q, i) ==
  LET common == q.symbols \cap ix.scope.allowed[i].symbols
  IN  Cardinality(common) + Cardinality({c \in common \X Members(ix.scope) : c[2] \notin ix.symbols[c[1]]})

SortKeys(ix, q) == [i \in Members(ix.scope) |-> SortKey(ix, q, i)]
RarityKeys(ix, q) == [i \in Members(ix.scope) |-> << -Rarity(ix, q, i) >> \o SortKey(ix, q, i)]

Before(a, b) == \E k \in DOMAIN a : a[k] < b[k] /\ \A j \in 1..(k - 1) : a[j] = b[j]

\* heapq.nsmallest.
Smallest(limit, S, keys) ==
  [r \in 1..Lesser(limit, Cardinality(S)) |->
     CHOOSE i \in S : Cardinality({j \in S : Before(keys[j], keys[i])}) = r - 1]

Ranked(seq) == {seq[k] : k \in DOMAIN seq}

\* A lane gives its best premise that was not given yet.
GivesNext(lane, given) ==
  LET rest == {k \in DOMAIN lane : lane[k] \notin Ranked(given)}
  IN  IF rest = {} THEN given
      ELSE Append(given, lane[CHOOSE k \in rest : \A j \in rest : k <= j])

\* The lanes take turns.
Turns(lanes) ==
  LET turn[n \in Nat] == IF n = 0 THEN <<>> ELSE GivesNext(lanes[1 + ((n - 1) % Len(lanes))], turn[n - 1])
  IN  turn

Interleaved(limit, lanes) ==
  LET all == Turns(lanes)[limit * Len(lanes)]
  IN  SubSeq(all, 1, Lesser(limit, Len(all)))

\* Wrong: the premises the query names are looked for among the best ones only.
ReferencedInTop(ix, q, limit) == q.symbols \cap Ranked(Smallest(limit, Members(ix.scope), SortKeys(ix, q)))

\* The premises the query names, wherever the order above would put them.
Referenced(ix, q, limit) == q.symbols \cap Members(ix.scope)

\* retrieve, for a query without another view.
RawRanking(ix, q, limit) ==
  LET all == Members(ix.scope)
      base == Smallest(limit, all, SortKeys(ix, q))
      direct == Smallest(limit, Referenced(ix, q, limit), SortKeys(ix, q))
      rare == Smallest(limit, all, RarityKeys(ix, q))
  IN  IF "rarity" \in q.lanes THEN Interleaved(limit, <<base, direct, rare>>)
      ELSE IF "symbols" \in q.lanes /\ direct # <<>> THEN Interleaved(limit, <<base, direct>>)
      ELSE base

\* TypeFamilyQueryView.classification: the other view counts only if Agda gave
\* one and head and arity stayed; a normalized view always counts.
StableView(q) ==
  \/ q.view.kind = "normalized"
  \/ /\ q.view.kind = "type-family"
     /\ q.head # Unknown /\ q.view.head = q.head /\ q.view.arity = q.arity

ViewedQuery(q) ==
  [q EXCEPT !.head = q.view.head, !.arity = q.view.arity, !.symbols = q.view.symbols, !.tokens = q.view.tokens]

\* _retrieve_query_views: raw goes first.
Retrieved(ix, q, limit) ==
  LET raw == RawRanking(ix, q, limit)
  IN  IF StableView(q) /\ ViewedQuery(q) # q
      THEN Interleaved(limit, <<raw, RawRanking(ix, ViewedQuery(q), limit)>>)
      ELSE raw

-----------------------------------------------------------------------------
(* Pools.                                                                  *)

\* scoped_premise_admission: support in the goal, then rank; premises without
\* a name that can be written come last.
AdmissionKeys(g, ix, ranked) ==
  [i \in Ranked(ranked) |->
     LET rank == CHOOSE k \in DOMAIN ranked : ranked[k] = i
     IN  IF i \in g.spoken
         THEN <<0, -(IF ix.scope.allowed[i].head = g.query.head /\ g.query.head # Unknown THEN 1 ELSE 0),
                ix.scope.allowed[i].arity, rank>>
         ELSE <<1, rank>>]

\* The pool of a goal: what was ranked, in the order in which it is admitted.
PoolOf(g, ix) ==
  LET ranked == Retrieved(ix, g.query, RetrieveLimit)
  IN  [goal |-> g, order |-> Smallest(RetrieveLimit, Ranked(ranked), AdmissionKeys(g, ix, ranked)),
       size |-> Cardinality(Ranked(ranked) \cap g.spoken)]

\* _ScopedActions.through: the actions of the first ranks that are admitted.
Through(pool, limit) == {pool.order[k] : k \in DOMAIN pool.order \cap 1..limit} \cap pool.goal.spoken

\* RetrievalResult.progressive_limits.  No pool is larger than the last width.
ProgressiveLimits(pool) ==
  LET wanted == {k \in DOMAIN ProgressiveWidths : k = 1 \/ Len(pool.order) > ProgressiveWidths[k - 1]}
  IN  SubSeq(ProgressiveWidths, 1, Cardinality(wanted))

\* Wrong: an interaction point is enough to find a pool.
HeldAtPoint(g) == {k \in DOMAIN pools : pools[k].goal.point = g.point}

\* Pools are found by state and interaction point.
Held(g) == {k \in DOMAIN pools : pools[k].goal = g}

SizeOf(seq) == MapThenSumSet(LAMBDA k : seq[k].size, DOMAIN seq)

\* The oldest pools go until there is room, if need be all of them.
Kept(size) ==
  LET rest == {n \in 0..Len(pools) :
                 LET left == SubSeq(pools, n + 1, Len(pools))
                 IN  left = <<>> \/ (Len(left) < MaxPools /\ SizeOf(left) + size <= MaxPoolSize)}
      n == CHOOSE n \in rest : \A m \in rest : n <= m
  IN  SubSeq(pools, n + 1, Len(pools))

\* _premise_actions: the pool of a goal is made unless there is one.
Pools(g) ==
  IF Held(g) # {}
  THEN UNCHANGED <<index, home, pools>>
  ELSE /\ Ranks(g.scope)
       /\ LET new == PoolOf(g, index') IN pools' = Append(Kept(new.size), new)

Found(g) == pools'[CHOOSE k \in DOMAIN pools' : IF Held(g) # {} THEN k \in Held(g) ELSE k = Len(pools')]

Asleep == [busy |-> FALSE]

\* A lane that takes what the first 64 ranks admit.
Looks(g) == Pools(g) /\ UNCHANGED widening

\* _solve_with_supplied_values and the progressive premises: the pool the
\* lane finds says how far it will go.
StartsWidening(l, g) ==
  /\ widening[l] = Asleep
  /\ Pools(g)
  /\ widening' = [widening EXCEPT ![l] =
       [busy |-> TRUE, goal |-> g, pinned |-> Found(g), step |-> 1, seen |-> {}, offered |-> {}]]

\* The next width: what it admits is new or was tried before.
Widen(l) ==
  LET w == widening[l]
      limits == ProgressiveLimits(w.pinned)
  IN  /\ w # Asleep
      /\ IF w.step > Len(limits)
         THEN widening' = [widening EXCEPT ![l] = Asleep] /\ UNCHANGED <<index, home, pools>>
         ELSE /\ Pools(w.goal)
              /\ LET offered == Through(Found(w.goal), limits[w.step])
                 IN  widening' = [widening EXCEPT ![l] =
                       [w EXCEPT !.step = w.step + 1, !.seen = w.seen \cup offered, !.offered = offered]]

\* The generator is closed: what was built on its solution holds, or the
\* allowance is used up.
StopsWidening(l) ==
  /\ widening[l] # Asleep
  /\ widening' = [widening EXCEPT ![l] = Asleep] /\ UNCHANGED <<index, home, pools>>

RetrievalInit == IndexInit /\ pools = <<>> /\ widening = [l \in Wideners |-> Asleep]

RetrievalNext ==
  \/ \E g \in Goals : Looks(g)
  \/ \E l \in Wideners : (\E g \in Goals : StartsWidening(l, g)) \/ Widen(l) \/ StopsWidening(l)

\* The premises by themselves.
RetrievalSpec == RetrievalInit /\ [][RetrievalNext]_retrievalVars

-----------------------------------------------------------------------------
(* Properties.                                                             *)

\* What is ranked first does not depend on how much is asked for: the lanes of
\* a ranking are cut before they are merged, yet a narrow retrieval is the
\* beginning of a wide one, and the widest has every premise once.
RetrievalIsPrefixStable ==
  \A q \in Queries :
    LET n == Cardinality(Members(index.scope))
        all == Retrieved(index, q, n)
    IN  /\ Len(all) = n /\ Ranked(all) = Members(index.scope)
        /\ \A k \in 1..(n - 1) : Retrieved(index, q, k) = SubSeq(all, 1, k)

\* A suspended lane goes on in its own scope: whatever was ranked or pushed out
\* meanwhile, it is offered premises its goal may use, those it was offered
\* before are among them, and all of them have a rank in the pool it started with.
WideningKeepsItsPool ==
  \A l \in Wideners : widening[l] # Asleep =>
    LET w == widening[l]
    IN  /\ w.offered = w.seen /\ w.seen \subseteq Members(w.goal.scope)
        /\ w.seen \subseteq Ranked(w.pinned.order)
=================================================================================
