------------------------- MODULE StructuralSearchProofs -------------------------
(***************************************************************************)
(* Proofs about the premises the structural search reads, for all scopes   *)
(* Agda may report, and about the prover for one goal, for all goals and   *)
(* whatever its searches answer.                                           *)
(*                                                                         *)
(* The index (PremiseIndex): one that starts from the one before it is the *)
(* index its scope would have from nothing.  The row of a declaration is   *)
(* kept if its type and its clauses look the same and no symbol of the     *)
(* type came into the scope or left it; that the references of its clauses *)
(* are members of their scope (the validation of AllowedDependencies) is   *)
(* what makes this enough.                                                 *)
(*                                                                         *)
(* The ranking (PremiseRetrieval): a merge of lanes that were cut at k     *)
(* gives the first k of the merge of the whole lanes, since a lane's next  *)
(* premise is never further than one behind what was given (GivesOne), and *)
(* the lane that has every premise gives one in each round (RoundsGive).   *)
(*                                                                         *)
(* The pools (PremiseRetrieval): since indexes are fresh, the pool of a    *)
(* goal is a function of the goal (OwnPool), so that one that was pushed   *)
(* out and is made again is the one a suspended lane has started with.     *)
(*                                                                         *)
(* The prover (FocusedSearch, SingleGoal): decisions are recorded only     *)
(* below an action that is being tried, so that a search without a term    *)
(* leaves none (DecidedInv); what was chosen for a candidate is gone once  *)
(* the candidate was rejected (CreditInv); the searches come one after the *)
(* other (OrderInv); and what follows from a text the guided search has    *)
(* seen was seen or waits, unless something was cut (GuidedInv).  The      *)
(* terms of the focused search are the subject of FocusedProofs.           *)
(***************************************************************************)
EXTENDS StructuralSearch, ConstructorSearchProofs, FocusedProofs

\* A scope, whatever its module: also the one of an index that is not there yet.
Scoped(s) ==
  /\ s.graph \in BOOLEAN
  /\ DOMAIN s.allowed \subseteq Ids /\ IsFiniteSet(DOMAIN s.allowed)
  /\ s.allowed \in [DOMAIN s.allowed -> AllowedPremise]
  /\ s.refs \in [DOMAIN s.allowed -> SUBSET DOMAIN s.allowed]

LEMMA ScopesAreScoped == ASSUME NEW s \in Scopes PROVE Scoped(s)
  BY IndexAssumption DEF WellFormed, Scoped

LEMMA EmptyIsScoped == Scoped(EmptyScope)
<1> DEFINE none == [i \in {} |-> i]
<1>1. DOMAIN none = {} /\ none \in [{} -> AllowedPremise] /\ none \in [{} -> SUBSET {}]
  OBVIOUS
<1>2. IsFiniteSet({})
  BY FS_EmptySet
<1>3. EmptyScope.graph = FALSE /\ EmptyScope.allowed = none /\ EmptyScope.refs = none
  BY DEF EmptyScope
<1> QED BY <1>1, <1>2, <1>3 DEF Scoped

\* Buckets that list the old rows list the new ones when they are updated.
LEMMA PostingsFollow ==
  ASSUME NEW T, NEW old, NEW rows
  PROVE  UpdatedPostings(Postings(T, old), old, rows) = Postings(T, rows)
<1> DEFINE previous == Postings(T, old)
<1>1. DOMAIN previous = T
  BY DEF Postings
<1>2. ASSUME NEW t \in T
      PROVE  (previous[t] \ {i \in DOMAIN old : t \in old[i] /\ t \notin Row(rows, i)})
               \cup {i \in DOMAIN rows : t \in rows[i] /\ t \notin Row(old, i)}
             = {i \in DOMAIN rows : t \in rows[i]}
  <2>1. previous[t] = {i \in DOMAIN old : t \in old[i]}
    BY DEF Postings
  <2>2. \A i : t \in Row(rows, i) <=> i \in DOMAIN rows /\ t \in rows[i]
    BY DEF Row
  <2>3. \A i : t \in Row(old, i) <=> i \in DOMAIN old /\ t \in old[i]
    BY DEF Row
  <2> QED BY <2>1, <2>2, <2>3
<1> QED BY <1>1, <1>2 DEF UpdatedPostings, Postings

LEMMA SymbolRowsFollow ==
  ASSUME NEW o, NEW s, Scoped(o), Scoped(s), NEW i \in Members(s)
  PROVE  SymbolRow(Fresh(o), s, i) = s.allowed[i].symbols
BY DEF SymbolRow, Fresh, SymbolRows, Members

LEMMA LexicalRowsFollow ==
  ASSUME NEW o, NEW s, Scoped(o), Scoped(s), NEW i \in Members(s)
  PROVE  LexicalRow(Fresh(o), s, i) = FragmentRow(s, i)
<1>1. Fresh(o).scope = o /\ Fresh(o).lexicalRows = [j \in Members(o) |-> FragmentRow(o, j)]
  BY DEF Fresh, FragmentRows
<1>2. CASE i \in Members(o) /\ o.allowed[i].aliases = s.allowed[i].aliases
  <2>1. FragmentRow(o, i) = FragmentRow(s, i)
    BY <1>2 DEF FragmentRow
  <2> QED BY <1>1, <1>2, <2>1 DEF LexicalRow
<1>3. CASE ~(i \in Members(o) /\ o.allowed[i].aliases = s.allowed[i].aliases)
  BY <1>1, <1>3 DEF LexicalRow
<1> QED BY <1>2, <1>3

\* Where a row is kept, the references within the two scopes are the same.
LEMMA DirectedRowsFollow ==
  ASSUME NEW o, NEW s, Scoped(o), Scoped(s), NEW i \in Vertices(s)
  PROVE  DirectedRow(Fresh(o), s, i) = References(s, i)
<1>1. Fresh(o).scope = o /\ Fresh(o).directed = [j \in Vertices(o) |-> References(o, j)]
  BY DEF Fresh, ReferenceRows
<1>2. CASE SameReferences(Fresh(o), s, i)
  <2>1. i \in Vertices(o) /\ i \in Members(o) /\ i \in Members(s)
    BY <1>1, <1>2 DEF SameReferences, Vertices
  <2>2. /\ o.allowed[i].symbols = s.allowed[i].symbols
        /\ o.refs[i] = s.refs[i]
        /\ MembershipDelta(Fresh(o), s) \cap s.allowed[i].symbols = {}
    BY <1>1, <1>2 DEF SameReferences
  <2>3. MembershipDelta(Fresh(o), s) = (Members(o) \ Members(s)) \cup (Members(s) \ Members(o))
    BY <1>1 DEF MembershipDelta
  <2>4. s.allowed[i].symbols \cap Members(o) = s.allowed[i].symbols \cap Members(s)
    BY <2>2, <2>3
  <2>5. o.refs[i] \subseteq Members(o) /\ s.refs[i] \subseteq Members(s)
    BY <2>1 DEF Scoped, Members
  <2>6. References(o, i) = References(s, i)
    BY <2>2, <2>4, <2>5 DEF References
  <2> QED BY <1>1, <1>2, <2>1, <2>6 DEF DirectedRow
<1>3. CASE ~SameReferences(Fresh(o), s, i)
  BY <1>3 DEF DirectedRow
<1> QED BY <1>2, <1>3

LEMMA UpdatedIsFresh ==
  ASSUME NEW o, NEW s, Scoped(o), Scoped(s)
  PROVE  Updated(Fresh(o), s) = Fresh(s)
<1> DEFINE old == Fresh(o)
           symbolRows  == [i \in Members(s) |-> SymbolRow(old, s, i)]
           lexicalRows == [i \in Members(s) |-> LexicalRow(old, s, i)]
           directed    == [i \in Vertices(s) |-> DirectedRow(old, s, i)]
           reverse     == UpdatedPostings(old.reverse, old.directed, directed)
           neighbors   == [i \in Vertices(s) |->
                             IF /\ i \in Vertices(old.scope)
                                /\ directed[i] = old.directed[i] /\ reverse[i] = old.reverse[i]
                             THEN old.neighbors[i] ELSE directed[i] \cup reverse[i]]
<1>1. /\ old.scope = o
      /\ old.symbolRows = SymbolRows(o) /\ old.symbols = Postings(Symbols, SymbolRows(o))
      /\ old.lexicalRows = FragmentRows(o) /\ old.lexical = Postings(Fragments, FragmentRows(o))
      /\ old.directed = ReferenceRows(o) /\ old.reverse = Postings(Ids, ReferenceRows(o))
      /\ old.neighbors = [i \in Vertices(o) |-> References(o, i) \cup Postings(Ids, ReferenceRows(o))[i]]
  BY DEF Fresh
<1>2. symbolRows = SymbolRows(s)
  BY SymbolRowsFollow DEF SymbolRows
<1>3. lexicalRows = FragmentRows(s)
  BY LexicalRowsFollow DEF FragmentRows
<1>4. directed = ReferenceRows(s)
  BY DirectedRowsFollow DEF ReferenceRows
<1> HIDE DEF symbolRows, lexicalRows, directed, old
<1>5. UpdatedPostings(old.symbols, old.symbolRows, symbolRows) = Postings(Symbols, SymbolRows(s))
  BY <1>1, <1>2, PostingsFollow
<1>6. UpdatedPostings(old.lexical, old.lexicalRows, lexicalRows) = Postings(Fragments, FragmentRows(s))
  BY <1>1, <1>3, PostingsFollow
<1>7. reverse = Postings(Ids, ReferenceRows(s))
  BY <1>1, <1>4, PostingsFollow DEF reverse
<1> HIDE DEF reverse
<1>8. neighbors = [i \in Vertices(s) |-> References(s, i) \cup Postings(Ids, ReferenceRows(s))[i]]
  <2>1. SUFFICES ASSUME NEW i \in Vertices(s)
                 PROVE  neighbors[i] = References(s, i) \cup Postings(Ids, ReferenceRows(s))[i]
    OBVIOUS
  <2>2. directed[i] = References(s, i) /\ reverse[i] = Postings(Ids, ReferenceRows(s))[i]
    BY <1>4, <1>7 DEF ReferenceRows
  <2>3. CASE /\ i \in Vertices(old.scope)
             /\ directed[i] = old.directed[i] /\ reverse[i] = old.reverse[i]
    <3>1. /\ i \in Vertices(o) /\ old.directed[i] = References(o, i)
          /\ old.reverse[i] = Postings(Ids, ReferenceRows(o))[i]
          /\ old.neighbors[i] = References(o, i) \cup Postings(Ids, ReferenceRows(o))[i]
      BY <1>1, <2>3 DEF ReferenceRows
    <3> QED BY <2>2, <2>3, <3>1
  <2>4. CASE ~(/\ i \in Vertices(old.scope)
               /\ directed[i] = old.directed[i] /\ reverse[i] = old.reverse[i])
    BY <2>2, <2>4
  <2> QED BY <2>3, <2>4
<1> HIDE DEF neighbors
<1>9. Updated(old, s) = [
        scope |-> s, symbolRows |-> symbolRows, lexicalRows |-> lexicalRows,
        symbols |-> UpdatedPostings(old.symbols, old.symbolRows, symbolRows),
        lexical |-> UpdatedPostings(old.lexical, old.lexicalRows, lexicalRows),
        directed |-> directed, reverse |-> reverse, neighbors |-> neighbors]
  BY DEF Updated, symbolRows, lexicalRows, directed, reverse, neighbors
<1> QED BY <1>2, <1>3, <1>4, <1>5, <1>6, <1>7, <1>8, <1>9 DEF Fresh, old

IndexInv == \E s : Scoped(s) /\ index = Fresh(s)

LEMMA FreshOfItsScope == IndexInv => IndexIsFresh
  BY DEF IndexInv, IndexIsFresh, Fresh

\* An index that is made is the one of its scope.
LEMMA RanksFreshly ==
  ASSUME IndexInv, NEW s \in Scopes, Ranks(s)
  PROVE  Scoped(s) /\ index' = Fresh(s) /\ IndexInv'
<1>1. PICK o : Scoped(o) /\ (IF Reuse /\ home = s.module THEN index ELSE Fresh(EmptyScope)) = Fresh(o)
  BY EmptyIsScoped DEF IndexInv
<1>2. index' = Updated(Fresh(o), s)
  BY <1>1 DEF Ranks
<1>3. Scoped(s) /\ index' = Fresh(s)
  BY <1>1, <1>2, ScopesAreScoped, UpdatedIsFresh
<1> QED BY <1>3 DEF IndexInv

LEMMA IndexStarts == IndexInit => IndexInv
BY EmptyIsScoped DEF IndexInit, IndexInv

\* Every index the search reads is the one its scope would have from nothing.
THEOREM IndexStaysFresh == IndexSpec => []IndexIsFresh
<1>1. IndexInv /\ [IndexNext]_indexVars => IndexInv'
  <2> SUFFICES ASSUME IndexInv, [IndexNext]_indexVars PROVE IndexInv'
    OBVIOUS
  <2>1. CASE UNCHANGED indexVars
    BY <2>1 DEF IndexInv, indexVars
  <2>2. ASSUME NEW s \in Scopes, Ranks(s) PROVE IndexInv'
    BY <2>2, RanksFreshly
  <2> QED BY <2>1, <2>2 DEF IndexNext
<1> QED BY <1>1, IndexStarts, FreshOfItsScope, PTL DEF IndexSpec

-----------------------------------------------------------------------------
(* Merging.                                                                *)

\* The turns are what they are said to be: the function there is one of.
TurnOf(lanes, g, n) == IF n = 0 THEN <<>> ELSE GivesNext(lanes[1 + ((n - 1) % Len(lanes))], g[n - 1])
IsTurns(lanes, g, N) == g = [n \in N |-> TurnOf(lanes, g, n)]

LEMMA TurnsUpTo ==
  ASSUME NEW lanes
  PROVE  \A m \in Nat : \E g : IsTurns(lanes, g, 0..m)
<1> DEFINE S == {m \in Nat : \E g : IsTurns(lanes, g, 0..m)}
<1>1. 0 \in S
  <2> DEFINE g == [n \in 0..0 |-> <<>>]
  <2>1. g = [n \in 0..0 |-> TurnOf(lanes, g, n)]
    BY DEF TurnOf
  <2> QED BY <2>1 DEF IsTurns
<1>2. ASSUME NEW m \in Nat, m \in S PROVE m + 1 \in S
  <2>1. PICK g : IsTurns(lanes, g, 0..m)
    BY <1>2
  <2> DEFINE next == TurnOf(lanes, g, m + 1)
             h == [n \in 0..(m + 1) |-> IF n = m + 1 THEN next ELSE g[n]]
  <2> HIDE DEF next
  <2>2. \A n \in 0..m : h[n] = g[n]
    OBVIOUS
  <2>3. h[m + 1] = next
    OBVIOUS
  <2>4. \A n \in 0..m : g[n] = TurnOf(lanes, g, n)
    BY <2>1 DEF IsTurns
  <2>5. DOMAIN h = 0..(m + 1) /\ h = [n \in 0..(m + 1) |-> h[n]]
    OBVIOUS
  <2> HIDE DEF h
  <2>6. \A n \in 0..(m + 1) : TurnOf(lanes, h, n) = TurnOf(lanes, g, n)
    <3> TAKE n \in 0..(m + 1)
    <3>1. n = 0 \/ n - 1 \in 0..m
      OBVIOUS
    <3> QED BY <3>1, <2>2 DEF TurnOf
  <2>7. \A n \in 0..(m + 1) : h[n] = TurnOf(lanes, h, n)
    <3> TAKE n \in 0..(m + 1)
    <3>1. n = m + 1 \/ n \in 0..m
      OBVIOUS
    <3> QED BY <3>1, <2>2, <2>3, <2>4, <2>6 DEF next
  <2>8. IsTurns(lanes, h, 0..(m + 1))
    BY <2>5, <2>7 DEF IsTurns
  <2> QED BY <2>8
<1> HIDE DEF S
<1>3. \A m \in Nat : m \in S
  BY <1>1, <1>2, EveryNatural
<1> QED BY <1>3 DEF S

LEMMA TurnsAgree ==
  ASSUME NEW lanes, NEW m \in Nat, NEW k \in Nat, NEW g, NEW h, IsTurns(lanes, g, 0..m), IsTurns(lanes, h, 0..k)
  PROVE  \A n \in Nat : n <= m /\ n <= k => g[n] = h[n]
<1> DEFINE S == {n \in Nat : n <= m /\ n <= k => g[n] = h[n]}
<1>1. \A n \in 0..m : g[n] = TurnOf(lanes, g, n)
  BY DEF IsTurns
<1>2. \A n \in 0..k : h[n] = TurnOf(lanes, h, n)
  BY DEF IsTurns
<1>3. 0 \in S
  BY <1>1, <1>2 DEF TurnOf
<1>4. ASSUME NEW n \in Nat, n \in S PROVE n + 1 \in S
  <2> SUFFICES ASSUME n + 1 <= m, n + 1 <= k PROVE g[n + 1] = h[n + 1]
    OBVIOUS
  <2>1. g[n] = h[n] /\ n + 1 \in 0..m /\ n + 1 \in 0..k /\ (n + 1) - 1 = n /\ n + 1 # 0
    BY <1>4
  <2>2. TurnOf(lanes, g, n + 1) = TurnOf(lanes, h, n + 1)
    BY <2>1 DEF TurnOf
  <2> QED BY <1>1, <1>2, <2>1, <2>2
<1> HIDE DEF S
<1>5. \A n \in Nat : n \in S
  BY <1>3, <1>4, EveryNatural
<1> QED BY <1>5 DEF S

LEMMA TurnsExist ==
  ASSUME NEW lanes
  PROVE  IsTurns(lanes, Turns(lanes), Nat)
<1> DEFINE G(m) == CHOOSE g : IsTurns(lanes, g, 0..m)
           f == [n \in Nat |-> G(n)[n]]
<1>1. \A m \in Nat : IsTurns(lanes, G(m), 0..m)
  BY TurnsUpTo
<1> HIDE DEF G
<1>2. \A n \in Nat : f[n] = TurnOf(lanes, f, n)
  <2> SUFFICES ASSUME NEW n \in Nat PROVE f[n] = TurnOf(lanes, f, n)
    OBVIOUS
  <2>1. G(n)[n] = TurnOf(lanes, G(n), n)
    <3>1. n \in 0..n
      OBVIOUS
    <3> QED BY <1>1, <3>1 DEF IsTurns
  <2>2. CASE n = 0
    BY <2>1, <2>2 DEF TurnOf
  <2>3. CASE n # 0
    <3>1. n - 1 \in Nat /\ n - 1 <= n /\ n - 1 <= n - 1
      BY <2>3
    <3>2. G(n - 1)[n - 1] = G(n)[n - 1]
      BY <1>1, <3>1, TurnsAgree
    <3>3. f[n - 1] = G(n)[n - 1] /\ f[n] = G(n)[n]
      BY <3>1, <3>2
    <3> HIDE DEF f
    <3> QED BY <2>1, <2>3, <3>3 DEF TurnOf
  <2> QED BY <2>2, <2>3
<1>3. f = [n \in Nat |-> f[n]]
  OBVIOUS
<1> HIDE DEF f
<1>4. IsTurns(lanes, f, Nat)
  BY <1>2, <1>3 DEF IsTurns
<1>5. Turns(lanes) = CHOOSE turn : IsTurns(lanes, turn, Nat)
  BY DEF Turns, IsTurns, TurnOf
<1> QED BY <1>4, <1>5

LEMMA TurnsAre ==
  ASSUME NEW lanes
  PROVE  /\ Turns(lanes)[0] = <<>>
         /\ \A n \in Nat : Turns(lanes)[n + 1] = GivesNext(lanes[1 + (n % Len(lanes))], Turns(lanes)[n])
<1>1. \A n \in Nat : Turns(lanes)[n] = TurnOf(lanes, Turns(lanes), n)
  <2>1. IsTurns(lanes, Turns(lanes), Nat)
    BY TurnsExist
  <2> DEFINE f == Turns(lanes)
  <2> HIDE DEF f
  <2>2. f = [n \in Nat |-> TurnOf(lanes, f, n)]
    BY <2>1 DEF IsTurns, f
  <2>3. \A n \in Nat : f[n] = TurnOf(lanes, f, n)
    BY <2>2
  <2> QED BY <2>3 DEF f
<1>2. \A n \in Nat : n + 1 \in Nat /\ n + 1 # 0 /\ (n + 1) - 1 = n
  OBVIOUS
<1>3. \A n \in Nat : TurnOf(lanes, Turns(lanes), n + 1) = GivesNext(lanes[1 + (n % Len(lanes))], Turns(lanes)[n])
  BY <1>2 DEF TurnOf
<1> QED BY <1>1, <1>2, <1>3 DEF TurnOf

-----------------------------------------------------------------------------
\* A sequence of members of S, none twice; a ranking of S has every member.
Listing(seq, S) == seq \in Seq(S) /\ \A i, j \in DOMAIN seq : seq[i] = seq[j] => i = j
Ranking(seq, S) == Listing(seq, S) /\ Ranked(seq) = S

Cut(seq, k) == SubSeq(seq, 1, Lesser(k, Len(seq)))

LEMMA CutIs ==
  ASSUME NEW S, NEW seq, seq \in Seq(S), NEW k \in Nat
  PROVE  /\ Cut(seq, k) \in Seq(S)
         /\ \A i : i \in DOMAIN Cut(seq, k) <=> i \in DOMAIN seq /\ i <= k
         /\ Len(Cut(seq, k)) = Lesser(k, Len(seq))
         /\ \A i \in DOMAIN seq : i <= k => Cut(seq, k)[i] = seq[i]
<1> DEFINE n == Len(seq)
           c == Lesser(k, n)
<1>1. n \in Nat /\ DOMAIN seq = 1..n /\ \A i \in 1..n : seq[i] \in S
  OBVIOUS
<1> HIDE DEF n
<1>2. c \in Nat /\ c <= n /\ c <= k /\ (c = k \/ c = n)
  BY <1>1 DEF Lesser
<1> HIDE DEF c
<1>3. \A i \in 1..c : i \in 1..n
  BY <1>1, <1>2
<1>4. /\ SubSeq(seq, 1, c) \in Seq(S)
      /\ Len(SubSeq(seq, 1, c)) = (IF 1 <= c THEN c - 1 + 1 ELSE 0)
      /\ \A i \in 1..(c - 1 + 1) : SubSeq(seq, 1, c)[i] = seq[1 + i - 1]
  <2>1. \A i \in 1..c : seq[i] \in S
    BY <1>1, <1>3
  <2> QED BY <1>2, <2>1, SubSeqProperties
<1> DEFINE s == SubSeq(seq, 1, c)
<1>5. s \in Seq(S) /\ Len(s) = c /\ \A i \in 1..c : s[i] = seq[i]
  BY <1>2, <1>4
<1> HIDE DEF s
<1>6. DOMAIN s = 1..c
  BY <1>5
<1>7. \A i : i \in 1..c <=> i \in 1..n /\ i <= k
  BY <1>1, <1>2
<1>8. Cut(seq, k) = s
  BY DEF Cut, c, s, n
<1> QED BY <1>1, <1>5, <1>6, <1>7, <1>8 DEF c, n

LEMMA CutIsLane ==
  ASSUME NEW S, NEW seq, Listing(seq, S), NEW k \in Nat
  PROVE  Listing(Cut(seq, k), S)
<1>1. seq \in Seq(S) /\ \A i, j \in DOMAIN seq : seq[i] = seq[j] => i = j
  BY DEF Listing
<1> QED BY <1>1, CutIs DEF Listing

\* How many there are.
\* The numbers up to n.
LEMMA UpToCount ==
  ASSUME NEW n \in Nat
  PROVE  IsFiniteSet(1..n) /\ Cardinality(1..n) = n
<1>1. 1 \in Int /\ n \in Int
  OBVIOUS
<1>2. IsFiniteSet(1..n) /\ Cardinality(1..n) = IF 1 > n THEN 0 ELSE n - 1 + 1
  BY <1>1, FS_Interval
<1> QED BY <1>2

LEMMA RankedCount ==
  ASSUME NEW S, NEW seq, Listing(seq, S)
  PROVE  IsFiniteSet(Ranked(seq)) /\ Cardinality(Ranked(seq)) = Len(seq) /\ Ranked(seq) \subseteq S
<1> DEFINE D == 1..Len(seq)
           R == Ranked(seq)
<1>1. seq \in Seq(S) /\ Len(seq) \in Nat /\ DOMAIN seq = D /\ \A i, j \in D : seq[i] = seq[j] => i = j
  BY DEF Listing
<1>2. seq \in [D -> R] /\ (\A t \in R : \E i \in D : seq[i] = t) /\ R \subseteq S
  BY <1>1 DEF Ranked
<1>3. IsFiniteSet(D) /\ Cardinality(D) = Len(seq)
  BY <1>1, UpToCount
<1> HIDE DEF D, R
<1>4. seq \in Injection(D, R)
  BY <1>1, <1>2 DEF Injection, IsInjective
<1>5. seq \in Surjection(D, R)
  BY <1>2 DEF Surjection
<1>6. ExistsBijection(D, R)
  BY <1>4, <1>5 DEF ExistsBijection, Bijection
<1>7. IsFiniteSet(R) /\ Cardinality(R) = Cardinality(D)
  BY <1>3, <1>6, FS_Bijection
<1> QED BY <1>2, <1>3, <1>7 DEF R

\* What a lane gives: nothing when all of it was given, else its first that was not.
First(lane, given, p) ==
  p \in DOMAIN lane /\ lane[p] \notin Ranked(given) /\ \A j \in DOMAIN lane : j < p => lane[j] \in Ranked(given)

LEMMA FirstIs ==
  ASSUME NEW S, NEW lane \in Seq(S), NEW given
  PROVE  /\ Ranked(lane) \subseteq Ranked(given) => GivesNext(lane, given) = given
         /\ \A p : First(lane, given, p) => GivesNext(lane, given) = Append(given, lane[p])
         /\ Ranked(lane) \subseteq Ranked(given) \/ \E p : First(lane, given, p)
<1> DEFINE rest == {k \in DOMAIN lane : lane[k] \notin Ranked(given)}
           p0 == CHOOSE k \in rest : \A j \in rest : k <= j
<1>1. rest \subseteq Nat /\ DOMAIN lane \subseteq Nat
  OBVIOUS
<1>2. rest = {} <=> Ranked(lane) \subseteq Ranked(given)
  BY DEF Ranked
<1>3. GivesNext(lane, given) = IF rest = {} THEN given ELSE Append(given, lane[p0])
  BY DEF GivesNext
<1>4. \A p : First(lane, given, p) <=> p \in rest /\ \A j \in rest : p <= j
  <2>1. \A p : p \in rest /\ (\A j \in rest : p <= j) => First(lane, given, p)
    <3> SUFFICES ASSUME NEW p \in rest, \A j \in rest : p <= j PROVE First(lane, given, p)
      OBVIOUS
    <3>1. ASSUME NEW j \in DOMAIN lane, j < p PROVE lane[j] \in Ranked(given)
      <4>1. j \notin rest
        BY <1>1, <3>1
      <4> QED BY <4>1
    <3> QED BY <3>1 DEF First
  <2>2. \A p : First(lane, given, p) => p \in rest /\ \A j \in rest : p <= j
    <3> SUFFICES ASSUME NEW p, First(lane, given, p) PROVE p \in rest /\ \A j \in rest : p <= j
      OBVIOUS
    <3>1. p \in rest
      BY DEF First
    <3>2. ASSUME NEW j \in rest PROVE p <= j
      <4>1. ~(j < p)
        BY DEF First
      <4> QED BY <1>1, <3>1, <4>1
    <3> QED BY <3>1, <3>2
  <2> QED BY <2>1, <2>2
<1> HIDE DEF rest
<1>5. rest # {} => \E p \in rest : \A j \in rest : p <= j
  BY <1>1, LeastMember
<1>6. rest # {} => p0 \in rest /\ \A j \in rest : p0 <= j
  BY <1>5, Zenon
<1> HIDE DEF p0
<1>7. ASSUME NEW p, First(lane, given, p) PROVE rest # {} /\ p = p0
  <2>1. p \in rest /\ (\A j \in rest : p <= j) /\ p0 \in rest /\ p0 <= p
    BY <1>4, <1>6, <1>7
  <2>2. p <= p0 /\ p \in Nat /\ p0 \in Nat
    BY <1>1, <2>1
  <2> QED BY <2>1, <2>2
<1> QED BY <1>2, <1>3, <1>4, <1>6, <1>7

\* What is given next was not given before, and it is among the first of its lane.
LEMMA GivesOne ==
  ASSUME NEW S, NEW lane, NEW given, Listing(lane, S), Listing(given, S)
  PROVE  /\ Listing(GivesNext(lane, given), S)
         /\ \/ Ranked(lane) \subseteq Ranked(given) /\ GivesNext(lane, given) = given
            \/ \E p : /\ First(lane, given, p) /\ GivesNext(lane, given) = Append(given, lane[p])
                      /\ p \in Nat /\ p <= Len(given) + 1
<1>1. lane \in Seq(S) /\ given \in Seq(S) /\ Len(given) \in Nat /\ DOMAIN lane = 1..Len(lane) /\ Len(lane) \in Nat
  BY DEF Listing
<1>2. CASE Ranked(lane) \subseteq Ranked(given)
  BY <1>1, <1>2, FirstIs
<1>3. CASE ~(Ranked(lane) \subseteq Ranked(given))
  <2>1. PICK p : First(lane, given, p)
    BY <1>1, <1>3, FirstIs
  <2>2. GivesNext(lane, given) = Append(given, lane[p])
    BY <1>1, <2>1, FirstIs
  <2>3. p \in Nat /\ p \in DOMAIN lane /\ lane[p] \in S /\ lane[p] \notin Ranked(given)
    BY <1>1, <2>1 DEF First
  <2>4. Listing(Append(given, lane[p]), S)
    <3> DEFINE x == lane[p]
    <3>1. x \in S /\ x \notin Ranked(given)
      BY <2>3
    <3> HIDE DEF x
    <3>2. Append(given, x) \in Seq(S) /\ DOMAIN Append(given, x) = 1..(Len(given) + 1)
          /\ Append(given, x)[Len(given) + 1] = x /\ \A i \in 1..Len(given) : Append(given, x)[i] = given[i]
      BY <1>1, <3>1
    <3>3. \A i \in 1..Len(given) : given[i] # x
      BY <1>1, <3>1 DEF Ranked
    <3>4. \A i, j \in 1..Len(given) : given[i] = given[j] => i = j
      BY <1>1 DEF Listing
    <3>5. \A i, j \in 1..(Len(given) + 1) : Append(given, x)[i] = Append(given, x)[j] => i = j
      <4> TAKE i, j \in 1..(Len(given) + 1)
      <4>1. (i \in 1..Len(given) \/ i = Len(given) + 1) /\ (j \in 1..Len(given) \/ j = Len(given) + 1)
        BY <1>1
      <4> QED BY <4>1, <3>2, <3>3, <3>4
    <3>6. Listing(Append(given, x), S)
      BY <3>2, <3>5 DEF Listing
    <3> QED BY <3>6 DEF x
  <2>5. p <= Len(given) + 1
    <3> DEFINE q == p - 1
    <3>0. q \in Nat /\ p = q + 1
      BY <1>1, <2>3
    <3> HIDE DEF q
    <3>1. Listing(Cut(lane, q), S)
      BY <3>0, CutIsLane
    <3>2. Len(Cut(lane, q)) = q /\ (\A i : i \in DOMAIN Cut(lane, q) <=> i \in DOMAIN lane /\ i <= q)
          /\ \A i \in DOMAIN lane : i <= q => Cut(lane, q)[i] = lane[i]
      BY <1>1, <2>3, <3>0, CutIs DEF Lesser
    <3>3. Ranked(Cut(lane, q)) \subseteq Ranked(given)
      <4> SUFFICES ASSUME NEW i \in DOMAIN Cut(lane, q) PROVE Cut(lane, q)[i] \in Ranked(given)
        BY DEF Ranked
      <4>1. i \in DOMAIN lane /\ i < p /\ Cut(lane, q)[i] = lane[i]
        BY <1>1, <3>0, <3>2
      <4> QED BY <4>1, <2>1 DEF First
    <3>4. Cardinality(Ranked(Cut(lane, q))) = q /\ Cardinality(Ranked(given)) = Len(given) /\ IsFiniteSet(Ranked(given))
      BY <3>1, <3>2, RankedCount
    <3>5. q <= Len(given)
      BY <3>3, <3>4, FS_Subset
    <3> QED BY <1>1, <3>0, <3>5
  <2> QED BY <2>1, <2>2, <2>3, <2>4, <2>5
<1> QED BY <1>2, <1>3

\* A lane that is cut at k gives what the whole lane gives, until k are given.
LEMMA CutGivesTheSame ==
  ASSUME NEW S, NEW lane, NEW given, Listing(lane, S), Listing(given, S), NEW k \in Nat, Len(given) < k
  PROVE  GivesNext(Cut(lane, k), given) = GivesNext(lane, given)
<1>1. lane \in Seq(S) /\ Len(given) \in Nat /\ DOMAIN lane \subseteq Nat
  BY DEF Listing
<1>2. /\ Cut(lane, k) \in Seq(S) /\ \A i : i \in DOMAIN Cut(lane, k) <=> i \in DOMAIN lane /\ i <= k
      /\ \A i \in DOMAIN lane : i <= k => Cut(lane, k)[i] = lane[i]
  BY <1>1, CutIs
<1>3. CASE Ranked(lane) \subseteq Ranked(given)
  <2>1. Ranked(Cut(lane, k)) \subseteq Ranked(given)
    BY <1>2, <1>3 DEF Ranked
  <2> QED BY <1>1, <1>2, <1>3, <2>1, FirstIs
<1>4. CASE ~(Ranked(lane) \subseteq Ranked(given))
  <2>1. PICK p : First(lane, given, p) /\ GivesNext(lane, given) = Append(given, lane[p]) /\ p \in Nat /\ p <= Len(given) + 1
    BY <1>4, GivesOne
  <2>2. p <= k
    BY <1>1, <2>1
  <2>3. p \in DOMAIN Cut(lane, k) /\ Cut(lane, k)[p] = lane[p]
    BY <1>2, <2>1, <2>2 DEF First
  <2>4. First(Cut(lane, k), given, p)
    BY <1>2, <2>1, <2>3 DEF First
  <2> QED BY <1>2, <2>1, <2>3, <2>4, FirstIs
<1> QED BY <1>3, <1>4

-----------------------------------------------------------------------------
\* Two or three lanes, as retrieve has.
LanesOf(lanes, S) == Len(lanes) \in {2, 3} /\ \A l \in 1..Len(lanes) : Listing(lanes[l], S)

LEMMA WhoseTurn ==
  ASSUME NEW L \in {2, 3}, NEW n \in Nat
  PROVE  1 + (n % L) \in 1..L /\ (n * L) \in Nat /\ 1 + ((n * L) % L) = 1
<1>1. CASE L = 2
  BY <1>1
<1>2. CASE L = 3
  BY <1>2
<1> QED BY <1>1, <1>2

\* A begins B.
BeginsAs(a, b) == Len(a) <= Len(b) /\ \A i \in 1..Len(a) : a[i] = b[i]

LEMMA TurnsGrow ==
  ASSUME NEW S, NEW lanes, LanesOf(lanes, S)
  PROVE  \A n \in Nat : Listing(Turns(lanes)[n], S) /\ BeginsAs(Turns(lanes)[n], Turns(lanes)[n + 1])
<1> DEFINE T == Turns(lanes)
           Good == {n \in Nat : Listing(T[n], S)}
<1>1. T[0] = <<>> /\ \A n \in Nat : T[n + 1] = GivesNext(lanes[1 + (n % Len(lanes))], T[n])
  BY TurnsAre
<1>2. \A n \in Nat : Listing(lanes[1 + (n % Len(lanes))], S)
  BY WhoseTurn DEF LanesOf
<1> HIDE DEF T
<1>3. 0 \in Good
  <2>1. <<>> \in Seq(S) /\ DOMAIN <<>> = {}
    OBVIOUS
  <2>2. Listing(<<>>, S)
    BY <2>1 DEF Listing
  <2> QED BY <1>1, <2>2
<1>4. \A n \in Nat : n \in Good => n + 1 \in Good
  <2> SUFFICES ASSUME NEW n \in Nat, Listing(T[n], S) PROVE Listing(T[n + 1], S)
    OBVIOUS
  <2> QED BY <1>1, <1>2, GivesOne
<1>5. \A n \in Nat : n \in Good
  <2> HIDE DEF Good
  <2> QED BY <1>3, <1>4, EveryNatural
<1>6. ASSUME NEW n \in Nat PROVE BeginsAs(T[n], T[n + 1])
  <2>1. Listing(T[n], S)
    BY <1>5
  <2> DEFINE a == T[n]
             b == T[n + 1]
  <2>2. a = b \/ \E x : b = Append(a, x) /\ x \in S
    <3>1. b = GivesNext(lanes[1 + (n % Len(lanes))], a) /\ Listing(lanes[1 + (n % Len(lanes))], S) /\ Listing(a, S)
      BY <1>1, <1>2, <2>1
    <3> DEFINE lane == lanes[1 + (n % Len(lanes))]
    <3> HIDE DEF lane, a, b
    <3>2. Listing(lane, S) /\ b = GivesNext(lane, a)
      BY <3>1 DEF lane
    <3>3. b = a \/ \E p : First(lane, a, p) /\ b = Append(a, lane[p])
      BY <3>1, <3>2, GivesOne
    <3>4. \A p : First(lane, a, p) => lane[p] \in S
      BY <3>2 DEF First, Listing
    <3> QED BY <3>3, <3>4
  <2>3. a \in Seq(S)
    BY <2>1 DEF Listing
  <2> HIDE DEF a, b
  <2>4. BeginsAs(a, b)
    BY <2>2, <2>3 DEF BeginsAs
  <2> QED BY <2>4 DEF a, b
<1> QED BY <1>5, <1>6 DEF T

\* What was given stays given.
LEMMA TurnsBegin ==
  ASSUME NEW S, NEW lanes, LanesOf(lanes, S), NEW m \in Nat
  PROVE  \A n \in Nat : BeginsAs(Turns(lanes)[m], Turns(lanes)[m + n])
<1> DEFINE T == Turns(lanes)
           Good == {n \in Nat : BeginsAs(T[m], T[m + n])}
<1>1. \A n \in Nat : Listing(T[n], S) /\ BeginsAs(T[n], T[n + 1])
  BY TurnsGrow
<1>2. \A n \in Nat : T[n] \in Seq(S)
  BY <1>1 DEF Listing
<1> HIDE DEF T
<1>3. 0 \in Good
  <2>1. m + 0 = m /\ T[m] \in Seq(S)
    BY <1>2
  <2> QED BY <2>1 DEF BeginsAs
<1>4. \A n \in Nat : n \in Good => n + 1 \in Good
  <2> SUFFICES ASSUME NEW n \in Nat, BeginsAs(T[m], T[m + n]) PROVE BeginsAs(T[m], T[m + (n + 1)])
    OBVIOUS
  <2> DEFINE a == T[m]
             b == T[m + n]
             c == T[m + (n + 1)]
  <2>1. m + n \in Nat /\ m + (n + 1) = (m + n) + 1
    OBVIOUS
  <2>2. BeginsAs(a, b) /\ BeginsAs(b, c) /\ a \in Seq(S) /\ b \in Seq(S) /\ c \in Seq(S)
    BY <1>1, <1>2, <2>1
  <2> HIDE DEF a, b, c
  <2>3. Len(a) \in Nat /\ Len(b) \in Nat /\ Len(c) \in Nat
    BY <2>2
  <2>4. BeginsAs(a, c)
    BY <2>2, <2>3 DEF BeginsAs
  <2> QED BY <2>4 DEF a, c
<1>5. \A n \in Nat : n \in Good
  <2> HIDE DEF Good
  <2> QED BY <1>3, <1>4, EveryNatural
<1> QED BY <1>5 DEF T

\* Up to the k-th they are the same.
Agree(a, b, k) == a = b \/ (k <= Len(a) /\ k <= Len(b) /\ \A i \in 1..k : a[i] = b[i])

\* One more leaves those before it.
LEMMA OneMore ==
  ASSUME NEW S, NEW a \in Seq(S), NEW x \in S, NEW k \in Nat, k <= Len(a)
  PROVE  k <= Len(Append(a, x)) /\ \A i \in 1..k : Append(a, x)[i] = a[i]
<1>1. Len(a) \in Nat /\ Len(Append(a, x)) = Len(a) + 1 /\ \A i \in 1..Len(a) : Append(a, x)[i] = a[i]
  OBVIOUS
<1>2. \A i \in 1..k : i \in 1..Len(a)
  BY <1>1
<1> QED BY <1>1, <1>2

\* One lane gives to both.
LEMMA CutAgrees ==
  ASSUME NEW S, NEW lane, Listing(lane, S), NEW a, NEW b, Listing(a, S), Listing(b, S), NEW k \in Nat, Agree(a, b, k)
  PROVE  Agree(GivesNext(lane, a), GivesNext(Cut(lane, k), b), k)
<1> DEFINE c == GivesNext(lane, a)
           d == GivesNext(Cut(lane, k), b)
<1>1. a \in Seq(S) /\ b \in Seq(S) /\ Len(a) \in Nat /\ Len(b) \in Nat
  BY DEF Listing
<1>2. CASE a = b /\ Len(a) < k
  BY <1>2, CutGivesTheSame DEF Agree
<1>3. CASE ~(a = b /\ Len(a) < k)
  <2>1. k <= Len(a) /\ k <= Len(b) /\ \A i \in 1..k : a[i] = b[i]
    BY <1>1, <1>3 DEF Agree
  <2>2. Listing(Cut(lane, k), S)
    BY CutIsLane
  <2>3. (c = a \/ \E x \in S : c = Append(a, x)) /\ (d = b \/ \E x \in S : d = Append(b, x))
    <3>1. \A l : Listing(l, S) => \A p : p \in DOMAIN l => l[p] \in S
      BY DEF Listing
    <3>2. \A l, g : Listing(l, S) /\ Listing(g, S) => GivesNext(l, g) = g \/ \E x \in S : GivesNext(l, g) = Append(g, x)
      BY <3>1, GivesOne DEF First
    <3> QED BY <2>2, <3>2
  <2> HIDE DEF c, d
  <2>4. k <= Len(c) /\ \A i \in 1..k : c[i] = a[i]
    <3>1. \A x \in S : k <= Len(Append(a, x)) /\ \A i \in 1..k : Append(a, x)[i] = a[i]
      BY <1>1, <2>1, OneMore
    <3> QED BY <2>1, <2>3, <3>1
  <2>5. k <= Len(d) /\ \A i \in 1..k : d[i] = b[i]
    <3>1. \A x \in S : k <= Len(Append(b, x)) /\ \A i \in 1..k : Append(b, x)[i] = b[i]
      BY <1>1, <2>1, OneMore
    <3> QED BY <2>1, <2>3, <3>1
  <2>6. Agree(c, d, k)
    BY <2>1, <2>4, <2>5 DEF Agree
  <2> QED BY <2>6 DEF c, d
<1> QED BY <1>2, <1>3

\* The lanes cut at k give what the whole lanes give, up to the k-th.
LEMMA CutTurnsAgree ==
  ASSUME NEW S, NEW lanes, LanesOf(lanes, S), NEW k \in Nat,
         NEW cut, Len(cut) = Len(lanes), \A l \in 1..Len(lanes) : cut[l] = Cut(lanes[l], k)
  PROVE  \A n \in Nat : Agree(Turns(lanes)[n], Turns(cut)[n], k)
<1> DEFINE T == Turns(lanes)
           U == Turns(cut)
           Good == {n \in Nat : Agree(T[n], U[n], k)}
           who(n) == 1 + (n % Len(lanes))
<1>1. LanesOf(cut, S)
  BY CutIsLane DEF LanesOf
<1>2. \A n \in Nat : Listing(T[n], S) /\ Listing(U[n], S)
  BY <1>1, TurnsGrow
<1>3. /\ T[0] = <<>> /\ \A n \in Nat : T[n + 1] = GivesNext(lanes[who(n)], T[n])
      /\ U[0] = <<>> /\ \A n \in Nat : U[n + 1] = GivesNext(cut[who(n)], U[n])
  BY TurnsAre
<1>4. \A n \in Nat : who(n) \in 1..Len(lanes)
  BY WhoseTurn DEF LanesOf
<1> HIDE DEF T, U, who
<1>5. 0 \in Good
  BY <1>3 DEF Agree
<1>6. \A n \in Nat : n \in Good => n + 1 \in Good
  <2> SUFFICES ASSUME NEW n \in Nat, Agree(T[n], U[n], k) PROVE Agree(T[n + 1], U[n + 1], k)
    OBVIOUS
  <2>1. Listing(lanes[who(n)], S) /\ cut[who(n)] = Cut(lanes[who(n)], k)
    BY <1>4 DEF LanesOf
  <2>2. Agree(GivesNext(lanes[who(n)], T[n]), GivesNext(Cut(lanes[who(n)], k), U[n]), k)
    BY <1>2, <2>1, CutAgrees
  <2> QED BY <1>3, <2>1, <2>2
<1>7. \A n \in Nat : n \in Good
  <2> HIDE DEF Good
  <2> QED BY <1>5, <1>6, EveryNatural
<1> QED BY <1>7 DEF T, U

\* A lane that has all of S gives one of them in each of its turns: after n
\* rounds there are n of them, or all.
LEMMA RoundsGive ==
  ASSUME NEW S, IsFiniteSet(S), NEW lanes, LanesOf(lanes, S), Ranked(lanes[1]) = S
  PROVE  \A n \in Nat : n <= Len(Turns(lanes)[n * Len(lanes)]) \/ Cardinality(S) <= Len(Turns(lanes)[n * Len(lanes)])
<1> DEFINE T == Turns(lanes)
           L == Len(lanes)
           N == Cardinality(S)
           Good == {n \in Nat : n <= Len(T[n * L]) \/ N <= Len(T[n * L])}
<1>1. L \in {2, 3} /\ Listing(lanes[1], S) /\ N \in Nat
  <2>1. 1 \in 1..L
    BY DEF LanesOf
  <2> QED BY <2>1, FS_CardinalityType DEF LanesOf
<1>2. \A n \in Nat : Listing(T[n], S) /\ T[n] \in Seq(S)
  BY TurnsGrow DEF Listing
<1>3. \A m, n \in Nat : Len(T[m]) <= Len(T[m + n])
  BY TurnsBegin DEF BeginsAs
<1>4. \A n \in Nat : T[n + 1] = GivesNext(lanes[1 + (n % L)], T[n])
  BY TurnsAre
<1> HIDE DEF T, L, N
<1>5. 0 \in Good
  <2>1. 0 * L = 0
    BY <1>1
  <2>2. Len(T[0]) \in Nat
    BY <1>2
  <2> QED BY <2>1, <2>2
<1>6. ASSUME NEW n \in Nat, n \in Good PROVE n + 1 \in Good
  <2> DEFINE m == n * L
             r == L - 1
  <2>1. m \in Nat /\ r \in Nat /\ 1 + (m % L) = 1 /\ (n + 1) * L = (m + 1) + r
    <3>1. CASE L = 2
      BY <3>1
    <3>2. CASE L = 3
      BY <3>2
    <3> QED BY <1>1, <3>1, <3>2
  <2>2. n <= Len(T[m]) \/ N <= Len(T[m])
    BY <1>6
  <2> HIDE DEF m, r
  <2>3. T[m + 1] = GivesNext(lanes[1], T[m])
    BY <1>4, <2>1
  <2> DEFINE a == T[m]
             b == T[m + 1]
  <2>4. Listing(a, S) /\ a \in Seq(S) /\ Len(a) \in Nat /\ Len(b) \in Nat /\ Len(T[(m + 1) + r]) \in Nat
    BY <1>2, <2>1
  <2>5. Len(b) <= Len(T[(m + 1) + r])
    <3> HIDE DEF Good
    <3>1. PICK q \in Nat : q = m + 1
      BY <2>1
    <3>2. Len(T[q]) <= Len(T[q + r])
      BY <1>3, <2>1
    <3> QED BY <3>1, <3>2
  <2> HIDE DEF a, b
  <2>6. (Ranked(lanes[1]) \subseteq Ranked(a) /\ b = a) \/ \E x \in S : b = Append(a, x)
    <3>1. \A p : First(lanes[1], a, p) => lanes[1][p] \in S
      BY <1>1 DEF First, Listing
    <3>2. b = GivesNext(lanes[1], a)
      BY <2>3 DEF a, b
    <3>3. (Ranked(lanes[1]) \subseteq Ranked(a) /\ b = a) \/ \E p : First(lanes[1], a, p) /\ b = Append(a, lanes[1][p])
      BY <1>1, <2>4, <3>2, GivesOne
    <3> QED BY <3>1, <3>3
  <2>7. N <= Len(b) \/ Len(b) = Len(a) + 1
    <3>1. CASE Ranked(lanes[1]) \subseteq Ranked(a) /\ b = a
      <4>1. Ranked(a) = S /\ Cardinality(Ranked(a)) = Len(a)
        BY <2>4, <3>1, RankedCount
      <4> QED BY <3>1, <4>1, <2>4 DEF N
    <3>2. CASE \E x \in S : b = Append(a, x)
      BY <2>4, <3>2
    <3> QED BY <2>6, <3>1, <3>2
  <2>8. n <= Len(a) \/ N <= Len(a)
    BY <2>2 DEF a
  <2>9. n + 1 <= Len(b) \/ N <= Len(b)
    <3>1. CASE N <= Len(b)
      BY <3>1
    <3>2. CASE Len(b) = Len(a) + 1
      BY <1>1, <2>4, <2>8, <3>2
    <3> QED BY <2>7, <3>1, <3>2
  <2>10. n + 1 <= Len(T[(m + 1) + r]) \/ N <= Len(T[(m + 1) + r])
    BY <1>1, <2>4, <2>5, <2>9
  <2>11. n + 1 \in Nat /\ T[(n + 1) * L] = T[(m + 1) + r]
    BY <2>1
  <2> QED BY <2>10, <2>11
<1>7. \A n \in Nat : n \in Good
  <2> HIDE DEF Good
  <2> QED BY <1>5, <1>6, EveryNatural
<1> QED BY <1>7 DEF T, L, N

\* The merge of lanes of which the first has all of S is a ranking of S, and the
\* lanes' first k entries are enough for its first k.
LEMMA MergeIsStable ==
  ASSUME NEW S, IsFiniteSet(S), NEW lanes, LanesOf(lanes, S), Ranked(lanes[1]) = S
  PROVE  /\ Ranking(Interleaved(Cardinality(S), lanes), S)
         /\ \A k \in 1..Cardinality(S) : \A cut :
              Len(cut) = Len(lanes) /\ (\A l \in 1..Len(lanes) : cut[l] = Cut(lanes[l], k))
                => Interleaved(k, cut) = Cut(Interleaved(Cardinality(S), lanes), k)
<1> DEFINE N == Cardinality(S)
           L == Len(lanes)
           T == Turns(lanes)
           all == T[N * L]
<1>1. N \in Nat /\ L \in {2, 3}
  BY FS_CardinalityType DEF LanesOf
<1>2. \A n \in Nat : n * L \in Nat
  BY <1>1, WhoseTurn
<1>3. \A n \in Nat : Listing(T[n], S)
  BY TurnsGrow
<1>4. \A n \in Nat : n <= Len(T[n * L]) \/ N <= Len(T[n * L])
  BY RoundsGive
<1>5. \A m, n \in Nat : BeginsAs(T[m], T[m + n])
  BY TurnsBegin
<1> HIDE DEF N, L, T
<1>6. Ranking(all, S) /\ Len(all) = N /\ all \in Seq(S)
  <2>1. Listing(all, S)
    BY <1>1, <1>2, <1>3
  <2>2. N <= Len(all)
    BY <1>1, <1>4
  <2> HIDE DEF all
  <2>3. Ranked(all) \subseteq S /\ Cardinality(Ranked(all)) = Len(all) /\ Len(all) <= N /\ Len(all) \in Nat
    <3>1. Ranked(all) \subseteq S /\ Cardinality(Ranked(all)) = Len(all) /\ Len(all) \in Nat
      BY <2>1, RankedCount DEF Listing
    <3>2. Cardinality(Ranked(all)) <= N
      BY <3>1, FS_Subset DEF N
    <3> QED BY <3>1, <3>2
  <2>4. Len(all) = N
    BY <1>1, <2>2, <2>3
  <2>5. Ranked(all) = S
    BY <2>3, <2>4, FS_Subset DEF N
  <2> QED BY <2>1, <2>4, <2>5 DEF Ranking, Listing
<1>7. Interleaved(N, lanes) = all
  <2>1. Interleaved(N, lanes) = Cut(all, N)
    BY DEF Interleaved, Cut, T, L
  <2> HIDE DEF all
  <2>2. Cut(all, N) = all
    <3>1. Len(Cut(all, N)) = N /\ Cut(all, N) \in Seq(S) /\ \A i \in DOMAIN all : i <= N => Cut(all, N)[i] = all[i]
      BY <1>1, <1>6, CutIs DEF Lesser
    <3> QED BY <1>6, <3>1
  <2> QED BY <2>1, <2>2
<1>8. ASSUME NEW k \in 1..N, NEW cut, Len(cut) = L, \A l \in 1..L : cut[l] = Cut(lanes[l], k)
      PROVE  Interleaved(k, cut) = Cut(all, k)
  <2> DEFINE U == Turns(cut)
             m == k * L
             a == T[m]
             b == U[m]
  <2>1. k \in Nat /\ m \in Nat /\ k <= N
    BY <1>1, <1>2
  <2>2. Agree(T[m], U[m], k)
    <3>1. \A n \in Nat : Agree(T[n], U[n], k)
      BY <1>8, <2>1, CutTurnsAgree DEF L, T
    <3> QED BY <2>1, <3>1
  <2>3. Listing(U[m], S)
    <3>1. LanesOf(cut, S)
      BY <1>8, <2>1, CutIsLane DEF LanesOf, L
    <3> QED BY <2>1, <3>1, TurnsGrow
  <2>4. k <= Len(T[m])
    <3>1. k <= Len(T[m]) \/ N <= Len(T[m])
      BY <1>4, <2>1
    <3>2. Len(T[m]) \in Nat
      BY <1>3, <2>1 DEF Listing
    <3> HIDE DEF m
    <3> QED BY <1>1, <2>1, <3>1, <3>2
  <2>5. BeginsAs(T[m], all)
    <3> DEFINE d == (N - k) * L
    <3>1. d \in Nat /\ m + d = N * L
      <4>1. CASE L = 2
        BY <1>1, <2>1, <4>1
      <4>2. CASE L = 3
        BY <1>1, <2>1, <4>2
      <4> QED BY <1>1, <4>1, <4>2
    <3> HIDE DEF d, m
    <3> QED BY <1>5, <2>1, <3>1
  <2>6. Interleaved(k, cut) = Cut(b, k)
    BY <1>8 DEF Interleaved, Cut, L
  <2>7. Listing(a, S) /\ Listing(b, S) /\ Agree(a, b, k) /\ k <= Len(a) /\ BeginsAs(a, all)
    BY <1>3, <2>1, <2>2, <2>3, <2>4, <2>5
  <2> HIDE DEF a, b, all
  <2>8. a \in Seq(S) /\ b \in Seq(S) /\ Len(a) \in Nat /\ Len(b) \in Nat /\ k <= Len(b) /\ \A i \in 1..k : b[i] = a[i]
    BY <2>1, <2>7 DEF Agree, Listing
  <2>9. k <= Len(all) /\ \A i \in 1..k : all[i] = b[i]
    BY <1>1, <1>6, <2>1, <2>7, <2>8 DEF BeginsAs
  <2>10. Len(Cut(b, k)) = k /\ Cut(b, k) \in Seq(S) /\ \A i \in 1..k : Cut(b, k)[i] = b[i]
    BY <2>1, <2>8, CutIs DEF Lesser
  <2>11. Len(Cut(all, k)) = k /\ Cut(all, k) \in Seq(S) /\ \A i \in 1..k : Cut(all, k)[i] = all[i]
    BY <1>1, <1>6, <2>1, <2>9, CutIs DEF Lesser
  <2>12. Cut(b, k) = Cut(all, k)
    BY <2>9, <2>10, <2>11
  <2> QED BY <2>6, <2>12
<1> QED BY <1>6, <1>7, <1>8 DEF N, L

-----------------------------------------------------------------------------
\* Keys by which a set can be sorted: tuples of integers, no two the same.
Keys(S, keys, n) ==
  /\ n \in Nat /\ \A i \in S : DOMAIN keys[i] = 1..n /\ \A k \in 1..n : keys[i][k] \in Int
  /\ \A i, j \in S : i # j => \E k \in 1..n : keys[i][k] # keys[j][k]

LEMMA BeforeIsOrder ==
  ASSUME NEW S, NEW keys, NEW n, Keys(S, keys, n)
  PROVE  /\ \A i \in S : ~Before(keys[i], keys[i])
         /\ \A i, j, l \in S : Before(keys[i], keys[j]) /\ Before(keys[j], keys[l]) => Before(keys[i], keys[l])
         /\ \A i, j \in S : i = j \/ Before(keys[i], keys[j]) \/ Before(keys[j], keys[i])
<1>1. n \in Nat /\ \A i \in S : DOMAIN keys[i] = 1..n /\ \A k \in 1..n : keys[i][k] \in Int
  BY DEF Keys
<1>2. \A i, j \in S : Before(keys[i], keys[j])
        <=> \E k \in 1..n : keys[i][k] < keys[j][k] /\ \A h \in 1..(k - 1) : keys[i][h] = keys[j][h]
  BY <1>1 DEF Before
<1>3. \A i \in S : ~Before(keys[i], keys[i])
  BY <1>1, <1>2
<1>4. ASSUME NEW i \in S, NEW j \in S, NEW l \in S, Before(keys[i], keys[j]), Before(keys[j], keys[l])
      PROVE  Before(keys[i], keys[l])
  <2> DEFINE a == keys[i]
             b == keys[j]
             c == keys[l]
  <2>1. PICK p \in 1..n : a[p] < b[p] /\ \A h \in 1..(p - 1) : a[h] = b[h]
    BY <1>2, <1>4
  <2>2. PICK q \in 1..n : b[q] < c[q] /\ \A h \in 1..(q - 1) : b[h] = c[h]
    BY <1>2, <1>4
  <2>3. \A k \in 1..n : a[k] \in Int /\ b[k] \in Int /\ c[k] \in Int
    BY <1>1
  <2> SUFFICES \E k \in 1..n : a[k] < c[k] /\ \A h \in 1..(k - 1) : a[h] = c[h]
    BY <1>2
  <2> HIDE DEF a, b, c
  <2>4. CASE p < q
    <3>1. p \in 1..(q - 1) /\ \A h \in 1..(p - 1) : h \in 1..(q - 1)
      BY <1>1, <2>4
    <3>2. a[p] < c[p] /\ \A h \in 1..(p - 1) : a[h] = c[h]
      BY <2>1, <2>2, <2>3, <3>1
    <3> QED BY <3>2
  <2>5. CASE ~(p < q)
    <3>1. q <= p /\ \A h \in 1..(q - 1) : h \in 1..(p - 1)
      BY <1>1, <2>5
    <3>2. \A h \in 1..(q - 1) : a[h] = c[h]
      BY <2>1, <2>2, <3>1
    <3>3. CASE p = q
      BY <2>1, <2>2, <2>3, <3>2, <3>3
    <3>4. CASE p # q
      <4>1. q \in 1..(p - 1)
        BY <1>1, <3>1, <3>4
      <4>2. a[q] = b[q]
        BY <2>1, <4>1
      <4> QED BY <2>2, <2>3, <3>2, <4>2
    <3> QED BY <3>3, <3>4
  <2> QED BY <2>4, <2>5
<1>5. ASSUME NEW i \in S, NEW j \in S, i # j
      PROVE  Before(keys[i], keys[j]) \/ Before(keys[j], keys[i])
  <2> DEFINE D == {k \in 1..n : keys[i][k] # keys[j][k]}
  <2>1. D # {} /\ D \subseteq Nat
    BY <1>5 DEF Keys
  <2>2. PICK k \in D : \A h \in D : k <= h
    <3> HIDE DEF D
    <3> QED BY <2>1, LeastMember
  <2>3. k \in 1..n /\ keys[i][k] # keys[j][k]
    BY <2>2
  <2>4. ASSUME NEW h \in 1..(k - 1) PROVE keys[i][h] = keys[j][h]
    <3>1. h \in 1..n /\ ~(k <= h)
      BY <1>1, <2>3
    <3>2. h \notin D
      BY <2>2, <3>1
    <3> QED BY <3>1, <3>2
  <2>5. keys[i][k] \in Int /\ keys[j][k] \in Int
    BY <1>1, <2>3
  <2>6. keys[i][k] < keys[j][k] \/ keys[j][k] < keys[i][k]
    BY <2>3, <2>5
  <2> QED BY <1>2, <2>3, <2>4, <2>6
<1> QED BY <1>3, <1>4, <1>5

Under(S, keys, i) == {j \in S : Before(keys[j], keys[i])}
RankOf(S, keys, i) == Cardinality(Under(S, keys, i))

\* Every rank is some member's, and one's only.
LEMMA RanksAreTaken ==
  ASSUME NEW S, IsFiniteSet(S), NEW keys, NEW n, Keys(S, keys, n)
  PROVE  /\ \A i, j \in S : RankOf(S, keys, i) = RankOf(S, keys, j) => i = j
         /\ \A r \in 1..Cardinality(S) : \E i \in S : RankOf(S, keys, i) = r - 1
         /\ \A i \in S : RankOf(S, keys, i) \in Nat /\ RankOf(S, keys, i) < Cardinality(S)
<1> DEFINE B(i, j) == Before(keys[i], keys[j])
           N == Cardinality(S)
           rank(i) == RankOf(S, keys, i)
<1>1. /\ \A i \in S : ~B(i, i)
      /\ \A i, j, l \in S : B(i, j) /\ B(j, l) => B(i, l)
      /\ \A i, j \in S : i = j \/ B(i, j) \/ B(j, i)
  BY BeforeIsOrder
<1>2. \A i : Under(S, keys, i) = {j \in S : B(j, i)}
  BY DEF Under
<1> HIDE DEF B
<1>3. N \in Nat
  BY FS_CardinalityType
<1>4. \A i \in S : IsFiniteSet(Under(S, keys, i)) /\ rank(i) \in Nat /\ rank(i) < N
  <2> TAKE i \in S
  <2>1. Under(S, keys, i) \subseteq S /\ i \notin Under(S, keys, i)
    BY <1>1, <1>2
  <2> DEFINE T == Under(S, keys, i)
  <2>2. T \in SUBSET S /\ T # S /\ rank(i) = Cardinality(T)
    BY <2>1 DEF RankOf
  <2> HIDE DEF T, rank
  <2>3. IsFiniteSet(T) /\ Cardinality(T) <= N /\ Cardinality(T) # N
    BY <2>2, FS_Subset
  <2>4. Cardinality(T) \in Nat
    BY <2>3, FS_CardinalityType
  <2> QED BY <1>3, <2>2, <2>3, <2>4 DEF T
<1>5. \A i, j \in S : B(i, j) => rank(i) < rank(j)
  <2> TAKE i, j \in S
  <2> HAVE B(i, j)
  <2> DEFINE T == Under(S, keys, i)
             U == Under(S, keys, j)
  <2>1. T \in SUBSET U /\ T # U /\ rank(i) = Cardinality(T) /\ rank(j) = Cardinality(U) /\ IsFiniteSet(U)
    <3>1. T \subseteq U /\ i \in U /\ i \notin T
      BY <1>1, <1>2
    <3> QED BY <1>4, <3>1 DEF RankOf
  <2>2. rank(i) \in Nat /\ rank(j) \in Nat
    BY <1>4
  <2> HIDE DEF T, U, rank
  <2>3. Cardinality(T) <= Cardinality(U) /\ Cardinality(T) # Cardinality(U)
    BY <2>1, FS_Subset
  <2> QED BY <2>1, <2>2, <2>3
<1>6. \A i, j \in S : rank(i) = rank(j) => i = j
  <2> HIDE DEF rank
  <2> QED BY <1>1, <1>4, <1>5
<1>7. \A r \in 1..N : \E i \in S : rank(i) = r - 1
  <2> DEFINE f == [i \in S |-> rank(i) + 1]
             D == 1..N
  <2> HIDE DEF rank, N
  <2>1. f \in [S -> D] /\ \A i, j \in S : f[i] = f[j] => i = j
    BY <1>3, <1>4, <1>6
  <2>2. IsFiniteSet(D) /\ Cardinality(D) = N
    BY <1>3, UpToCount
  <2>3. \A i \in S : f[i] = rank(i) + 1
    OBVIOUS
  <2> HIDE DEF f, D
  <2>4. f \in Injection(S, D)
    BY <2>1 DEF Injection, IsInjective
  <2>5. f \in Surjection(S, D)
    BY <2>2, <2>4, FS_Injection DEF N
  <2>6. \A r \in D : \E i \in S : f[i] = r
    BY <2>5 DEF Surjection
  <2> SUFFICES ASSUME NEW r \in 1..N PROVE \E i \in S : rank(i) = r - 1
    OBVIOUS
  <2>7. PICK i \in S : f[i] = r
    BY <2>6 DEF D
  <2>8. rank(i) = r - 1
    BY <1>3, <1>4, <2>3, <2>7
  <2> QED BY <2>8
<1> QED BY <1>4, <1>6, <1>7

\* nsmallest of as many as there are sorts them all, and the k smallest come first.
LEMMA SmallestIs ==
  ASSUME NEW S, IsFiniteSet(S), NEW keys, NEW n, Keys(S, keys, n), NEW limit \in Nat, Cardinality(S) <= limit
  PROVE  /\ Ranking(Smallest(limit, S, keys), S)
         /\ \A k \in Nat : Smallest(k, S, keys) = Cut(Smallest(limit, S, keys), k)
<1> DEFINE N == Cardinality(S)
           at(r) == CHOOSE i \in S : RankOf(S, keys, i) = r - 1
           all == [r \in 1..N |-> at(r)]
<1>1. N \in Nat /\ N <= limit
  BY FS_CardinalityType
<1>2. \A k : Smallest(k, S, keys) = [r \in 1..Lesser(k, N) |-> at(r)]
  BY DEF Smallest, RankOf, Under
<1>3. \A r \in 1..N : at(r) \in S /\ RankOf(S, keys, at(r)) = r - 1
  BY RanksAreTaken
<1>4. \A i \in S : RankOf(S, keys, i) \in Nat /\ RankOf(S, keys, i) < N
  BY RanksAreTaken
<1>5. \A i, j \in S : RankOf(S, keys, i) = RankOf(S, keys, j) => i = j
  BY RanksAreTaken
<1> HIDE DEF N, at
<1>6. Smallest(limit, S, keys) = all
  <2>1. Lesser(limit, N) = N
    BY <1>1 DEF Lesser
  <2> QED BY <1>2, <2>1
<1>7. all \in Seq(S) /\ Len(all) = N /\ DOMAIN all = 1..N /\ \A r \in 1..N : all[r] = at(r)
  BY <1>1, <1>3
<1> HIDE DEF all
<1>8. Ranking(all, S)
  <2>1. \A r, t \in 1..N : all[r] = all[t] => r = t
    BY <1>1, <1>3, <1>7
  <2>2. Ranked(all) \subseteq S
    BY <1>3, <1>7 DEF Ranked
  <2>3. ASSUME NEW i \in S PROVE i \in Ranked(all)
    <3> DEFINE r == RankOf(S, keys, i) + 1
    <3>1. r \in 1..N /\ r - 1 = RankOf(S, keys, i)
      BY <1>1, <1>4
    <3> HIDE DEF r
    <3>2. at(r) = i
      BY <1>3, <1>5, <3>1
    <3> QED BY <1>7, <3>1, <3>2 DEF Ranked
  <2> QED BY <1>7, <2>1, <2>2, <2>3 DEF Ranking, Listing
<1>9. ASSUME NEW k \in Nat PROVE Smallest(k, S, keys) = Cut(all, k)
  <2> DEFINE c == Lesser(k, N)
             some == [r \in 1..c |-> at(r)]
  <2>1. c \in Nat /\ c <= N /\ c <= k
    BY <1>1 DEF Lesser
  <2>2. Len(Cut(all, k)) = c /\ Cut(all, k) \in Seq(S) /\ \A i \in DOMAIN all : i <= k => Cut(all, k)[i] = all[i]
    BY <1>7, CutIs
  <2>3. Smallest(k, S, keys) = some
    BY <1>2
  <2> HIDE DEF c
  <2>4. \A r \in 1..c : r \in 1..N /\ r <= k
    BY <1>1, <2>1
  <2>5. \A r \in 1..c : Cut(all, k)[r] = at(r)
    BY <1>7, <2>2, <2>4
  <2>6. Cut(all, k) = [r \in 1..c |-> Cut(all, k)[r]]
    BY <2>1, <2>2
  <2> DEFINE x == Cut(all, k)
  <2>7. x = [r \in 1..c |-> x[r]] /\ \A r \in 1..c : x[r] = at(r)
    BY <2>5, <2>6
  <2> HIDE DEF x
  <2>8. x = some
    BY <2>7
  <2> QED BY <2>3, <2>8 DEF x
<1> QED BY <1>6, <1>8, <1>9

-----------------------------------------------------------------------------
(* Ranking.                                                                *)

\* A query with what it mentions, in either view.
Asked(q) ==
  q.arity \in Nat /\ IsFiniteSet(q.symbols) /\ IsFiniteSet(q.tokens)

LEMMA QueriesAreAsked ==
  ASSUME NEW q \in Queries
  PROVE  Asked(q) /\ Asked(ViewedQuery(q))
<1>1. q \in Query /\ q.view \in View /\ q.arity \in Nat /\ q.view.arity \in Nat
  BY RetrievalAssumption, IndexAssumption DEF Query, View
<1>2. /\ IsFiniteSet(q.symbols) /\ IsFiniteSet(q.tokens)
      /\ IsFiniteSet(q.view.symbols) /\ IsFiniteSet(q.view.tokens)
  BY RetrievalAssumption
<1>3. /\ ViewedQuery(q).arity = q.view.arity /\ ViewedQuery(q).symbols = q.view.symbols
      /\ ViewedQuery(q).tokens = q.view.tokens
  BY <1>1 DEF ViewedQuery, Query
<1> QED BY <1>1, <1>2, <1>3 DEF Asked

\* What is counted is finite.
LEMMA CountIsNat ==
  ASSUME NEW S, IsFiniteSet(S), NEW T, T \subseteq S
  PROVE  Cardinality(T) \in Nat
BY FS_Subset, FS_CardinalityType

LEMMA SortKeyIs ==
  ASSUME NEW s, Scoped(s), NEW q, Asked(q), NEW i \in Members(s)
  PROVE  LET key == SortKey(Fresh(s), q, i)
         IN  key \in Seq(Int) /\ Len(key) = 6 /\ key[6] = i
<1> DEFINE ix == Fresh(s)
           dep == DependencyScore(ix, q, i)
           sym == Overlap(q.symbols, ix.symbols, i)
           gap == Gap(ix.scope.allowed[i].arity, q.arity)
           lex == Overlap(q.tokens, ix.lexical, i)
           head == IF q.head # Unknown /\ ix.scope.allowed[i].head = q.head THEN 1 ELSE 0
<1>1. ix.scope = s
  BY DEF Fresh
<1>2. IsFiniteSet(q.symbols) /\ IsFiniteSet(q.tokens) /\ q.arity \in Nat
  BY DEF Asked
<1>3. dep \in Int
  <2> DEFINE seeds == q.symbols \cap Vertices(ix.scope)
             A == seeds \cap {i}
             B == {v \in seeds : i \in Near(ix, v)}
             C == {v \in seeds : i \in Far(ix, v)}
  <2>1. A \subseteq q.symbols /\ B \subseteq q.symbols /\ C \subseteq q.symbols
    OBVIOUS
  <2>2. dep = 3 * Cardinality(A) + 2 * Cardinality(B) + Cardinality(C)
    BY DEF DependencyScore
  <2> HIDE DEF A, B, C, dep
  <2>3. Cardinality(A) \in Nat /\ Cardinality(B) \in Nat /\ Cardinality(C) \in Nat
    BY <1>2, <2>1, CountIsNat
  <2> QED BY <2>2, <2>3
<1>4. sym \in Int /\ lex \in Int
  <2> DEFINE A == {t \in q.symbols : i \in ix.symbols[t]}
             B == {t \in q.tokens : i \in ix.lexical[t]}
  <2>1. A \subseteq q.symbols /\ B \subseteq q.tokens /\ sym = Cardinality(A) /\ lex = Cardinality(B)
    BY DEF Overlap
  <2> HIDE DEF A, B, sym, lex
  <2> QED BY <1>2, <2>1, CountIsNat
<1>5. gap \in Int
  <2>1. s.allowed[i] \in AllowedPremise
    BY DEF Scoped, Members
  <2>2. s.allowed[i].arity \in Nat
    BY <2>1, IndexAssumption DEF AllowedPremise
  <2> QED BY <1>1, <1>2, <2>2 DEF Gap
<1>6. head \in Int /\ i \in Int
  <2>1. i \in Ids
    BY DEF Scoped, Members
  <2>2. Ids \subseteq Int
    BY RetrievalAssumption
  <2>3. head \in Int
    OBVIOUS
  <2> QED BY <2>1, <2>2, <2>3
<1>7. SortKey(ix, q, i) = << -head, -dep, -sym, gap, -lex, i >>
  BY DEF SortKey
<1> HIDE DEF ix, dep, sym, gap, lex, head
<1>8. -head \in Int /\ -dep \in Int /\ -sym \in Int /\ -lex \in Int
  BY <1>3, <1>4, <1>6
<1> DEFINE a == -head
           b == -dep
           c == -sym
           d == -lex
<1> HIDE DEF a, b, c, d
<1>9. SortKey(ix, q, i) = << a, b, c, gap, d, i >> /\ a \in Int /\ b \in Int /\ c \in Int /\ d \in Int
  BY <1>7, <1>8 DEF a, b, c, d
<1>10. LET key == << a, b, c, gap, d, i >> IN key \in Seq(Int) /\ Len(key) = 6 /\ key[6] = i
  BY <1>5, <1>6, <1>9
<1> QED BY <1>9, <1>10 DEF ix

LEMMA RarityIs ==
  ASSUME NEW s, Scoped(s), NEW q, Asked(q), NEW i
  PROVE  Rarity(Fresh(s), q, i) \in Int
<1> DEFINE ix == Fresh(s)
           common == q.symbols \cap ix.scope.allowed[i].symbols
           all == common \X Members(ix.scope)
           without == {c \in all : c[2] \notin ix.symbols[c[1]]}
<1>1. IsFiniteSet(Members(ix.scope)) /\ IsFiniteSet(q.symbols)
  BY DEF Fresh, Scoped, Members, Asked
<1>2. common \subseteq q.symbols
  OBVIOUS
<1>3. Rarity(ix, q, i) = Cardinality(common) + Cardinality(without)
  BY DEF Rarity
<1>4. without \subseteq all
  OBVIOUS
<1> HIDE DEF common, without, ix
<1>5. IsFiniteSet(common) /\ Cardinality(common) \in Nat
  BY <1>1, <1>2, FS_Subset, CountIsNat
<1>6. IsFiniteSet(all)
  BY <1>1, <1>5, FS_Product
<1> HIDE DEF all
<1>7. Cardinality(without) \in Nat
  BY <1>4, <1>6, CountIsNat
<1> QED BY <1>3, <1>5, <1>7 DEF ix

LEMMA EntriesOf ==
  ASSUME NEW S, NEW t \in Seq(S), NEW n, Len(t) = n
  PROVE  DOMAIN t = 1..n /\ \A k \in 1..n : t[k] \in S
<1>1. DOMAIN t = 1..Len(t) /\ \A k \in 1..Len(t) : t[k] \in S
  OBVIOUS
<1> QED BY <1>1

\* Either way of ranking sorts any of the premises.
LEMMA RankingKeys ==
  ASSUME NEW s, Scoped(s), NEW q, Asked(q), NEW S, S \subseteq Members(s)
  PROVE  Keys(S, SortKeys(Fresh(s), q), 6) /\ Keys(S, RarityKeys(Fresh(s), q), 7)
<1> DEFINE key(i) == SortKey(Fresh(s), q, i)
           rare(i) == -Rarity(Fresh(s), q, i)
           by == SortKeys(Fresh(s), q)
           rarely == RarityKeys(Fresh(s), q)
<1>1. Fresh(s).scope = s
  BY DEF Fresh
<1>2. \A i \in S : by[i] = key(i) /\ rarely[i] = << rare(i) >> \o key(i)
  BY <1>1 DEF SortKeys, RarityKeys
<1>3. \A i \in S : key(i) \in Seq(Int) /\ Len(key(i)) = 6 /\ key(i)[6] = i /\ rare(i) \in Int
  <2> TAKE i \in S
  <2>1. Rarity(Fresh(s), q, i) \in Int
    BY RarityIs
  <2> QED BY <2>1, SortKeyIs
<1> HIDE DEF key, rare, by, rarely
<1>4. \A i \in S : DOMAIN by[i] = 1..6 /\ (\A k \in 1..6 : by[i][k] \in Int) /\ by[i][6] = i
  <2> SUFFICES ASSUME NEW i \in S
               PROVE  DOMAIN by[i] = 1..6 /\ (\A k \in 1..6 : by[i][k] \in Int) /\ by[i][6] = i
    OBVIOUS
  <2> DEFINE t == key(i)
  <2>1. t \in Seq(Int) /\ Len(t) = 6 /\ t[6] = i /\ by[i] = t
    BY <1>2, <1>3
  <2> HIDE DEF t
  <2>2. DOMAIN t = 1..6 /\ \A k \in 1..6 : t[k] \in Int
    BY <2>1, EntriesOf
  <2> QED BY <2>1, <2>2
<1>5. \A i \in S : DOMAIN rarely[i] = 1..7 /\ (\A k \in 1..7 : rarely[i][k] \in Int) /\ rarely[i][7] = i
  <2> SUFFICES ASSUME NEW i \in S
               PROVE  DOMAIN rarely[i] = 1..7 /\ (\A k \in 1..7 : rarely[i][k] \in Int) /\ rarely[i][7] = i
    OBVIOUS
  <2> DEFINE r == rare(i)
             t == key(i)
  <2>1. r \in Int /\ t \in Seq(Int) /\ Len(t) = 6 /\ t[6] = i /\ rarely[i] = <<r>> \o t
    BY <1>2, <1>3
  <2> HIDE DEF r, t
  <2>2. <<r>> \in Seq(Int) /\ Len(<<r>>) = 1 /\ <<r>>[1] = r
    BY <2>1
  <2>3. /\ <<r>> \o t \in Seq(Int) /\ Len(<<r>> \o t) = 7
        /\ (<<r>> \o t)[7] = t[6]
    <3> DEFINE v == <<r>>
    <3> HIDE DEF v
    <3>1. v \in Seq(Int) /\ t \in Seq(Int) /\ Len(v) = 1 /\ Len(t) = 6
      BY <2>1, <2>2 DEF v
    <3>2. v \o t \in Seq(Int) /\ Len(v \o t) = Len(v) + Len(t)
          /\ \A k \in 1..(Len(v) + Len(t)) : (v \o t)[k] = IF k <= Len(v) THEN v[k] ELSE t[k - Len(v)]
      BY <3>1, ConcatProperties
    <3>3. Len(v \o t) = 7 /\ (v \o t)[7] = t[6]
      BY <3>1, <3>2
    <3> QED BY <3>2, <3>3 DEF v
  <2> DEFINE u == <<r>> \o t
  <2> HIDE DEF u
  <2>4. u \in Seq(Int) /\ Len(u) = 7 /\ u[7] = i /\ rarely[i] = u
    BY <2>1, <2>3 DEF u
  <2> HIDE DEF u
  <2>5. DOMAIN u = 1..7 /\ \A k \in 1..7 : u[k] \in Int
    BY <2>4, EntriesOf
  <2> QED BY <2>4, <2>5
<1> QED BY <1>4, <1>5 DEF Keys, by, rarely

\* The k first of a ranking that is long enough.
LEMMA CutOfRanking ==
  ASSUME NEW S, IsFiniteSet(S), NEW seq, Ranking(seq, S), NEW k \in 1..Cardinality(S)
  PROVE  Cut(seq, k) = SubSeq(seq, 1, k)
<1>1. Len(seq) = Cardinality(S) /\ Len(seq) \in Nat
  BY RankedCount DEF Ranking, Listing
<1>2. Lesser(k, Len(seq)) = k
  BY <1>1 DEF Lesser
<1> QED BY <1>2 DEF Cut

\* Whatever lanes there are, the first has every premise.
LEMMA RawIsStable ==
  ASSUME NEW s, Scoped(s), NEW q, Asked(q)
  PROVE  LET N == Cardinality(Members(s))
             all == RawRanking(Fresh(s), q, N)
         IN  Ranking(all, Members(s)) /\ \A k \in 1..N : RawRanking(Fresh(s), q, k) = Cut(all, k)
<1> DEFINE ix == Fresh(s)
           S == Members(s)
           N == Cardinality(S)
           R == q.symbols \cap S
           by == SortKeys(ix, q)
           rarely == RarityKeys(ix, q)
           base(k) == Smallest(k, S, by)
           direct(k) == Smallest(k, R, by)
           rare(k) == Smallest(k, S, rarely)
<1>1. ix.scope = s /\ \A k : Referenced(ix, q, k) = R
  BY DEF Fresh, Referenced
<1>2. IsFiniteSet(S) /\ N \in Nat /\ R \subseteq S /\ IsFiniteSet(R) /\ Cardinality(R) \in Nat /\ Cardinality(R) <= N
  <2>1. IsFiniteSet(S) /\ R \in SUBSET S
    BY DEF Scoped, Members
  <2> HIDE DEF R, S
  <2> QED BY <2>1, FS_Subset, FS_CardinalityType
<1>3. Keys(S, by, 6) /\ Keys(R, by, 6) /\ Keys(S, rarely, 7)
  BY <1>2, RankingKeys
<1>4. \A k : RawRanking(ix, q, k) =
        IF "rarity" \in q.lanes THEN Interleaved(k, <<base(k), direct(k), rare(k)>>)
        ELSE IF "symbols" \in q.lanes /\ direct(k) # <<>> THEN Interleaved(k, <<base(k), direct(k)>>)
        ELSE base(k)
  BY <1>1 DEF RawRanking
<1> HIDE DEF ix, S, N, R, by, rarely
<1>5. Ranking(base(N), S) /\ \A k \in Nat : base(k) = Cut(base(N), k)
  BY <1>2, <1>3, SmallestIs DEF N
<1>6. Ranking(direct(N), R) /\ \A k \in Nat : direct(k) = Cut(direct(N), k)
  BY <1>2, <1>3, SmallestIs
<1>7. Ranking(rare(N), S) /\ \A k \in Nat : rare(k) = Cut(rare(N), k)
  BY <1>2, <1>3, SmallestIs DEF N
<1> HIDE DEF base, direct, rare
<1>8. Listing(base(N), S) /\ Listing(direct(N), S) /\ Listing(rare(N), S) /\ Ranked(base(N)) = S
  <2>1. Listing(direct(N), R) => Listing(direct(N), S)
    BY <1>2 DEF Listing
  <2> QED BY <1>5, <1>6, <1>7, <2>1 DEF Ranking
<1>9. \A k \in 1..N : k \in Nat
  OBVIOUS
<1>10. \A k \in 1..N : direct(k) = <<>> <=> direct(N) = <<>>
  <2> SUFFICES ASSUME NEW k \in 1..N PROVE direct(k) = <<>> <=> direct(N) = <<>>
    OBVIOUS
  <2> DEFINE d == direct(N)
             c == Cut(d, k)
  <2>1. d \in Seq(S) /\ Len(d) \in Nat /\ k \in Nat /\ k >= 1
    BY <1>8 DEF Listing
  <2> HIDE DEF d
  <2>2. c \in Seq(S) /\ Len(c) = Lesser(k, Len(d))
    BY <2>1, CutIs
  <2> HIDE DEF c
  <2>3. c = <<>> <=> d = <<>>
    BY <2>1, <2>2 DEF Lesser
  <2> QED BY <1>6, <1>9, <2>3 DEF c, d
<1>11. CASE "rarity" \in q.lanes
  <2> DEFINE lanes == <<base(N), direct(N), rare(N)>>
             cut(k) == <<base(k), direct(k), rare(k)>>
  <2>1. Len(lanes) = 3 /\ lanes[1] = base(N) /\ lanes[2] = direct(N) /\ lanes[3] = rare(N)
    OBVIOUS
  <2>2. \A k : Len(cut(k)) = 3 /\ cut(k)[1] = base(k) /\ cut(k)[2] = direct(k) /\ cut(k)[3] = rare(k)
    OBVIOUS
  <2>3. RawRanking(ix, q, N) = Interleaved(N, lanes) /\ \A k : RawRanking(ix, q, k) = Interleaved(k, cut(k))
    BY <1>4, <1>11
  <2> HIDE DEF lanes, cut
  <2>4. LanesOf(lanes, S)
    <3>1. \A l \in 1..3 : l = 1 \/ l = 2 \/ l = 3
      OBVIOUS
    <3> QED BY <1>8, <2>1, <3>1 DEF LanesOf
  <2>5. \A k \in 1..N : Len(cut(k)) = Len(lanes) /\ \A l \in 1..Len(lanes) : cut(k)[l] = Cut(lanes[l], k)
    <3>1. \A l \in 1..3 : l = 1 \/ l = 2 \/ l = 3
      OBVIOUS
    <3> QED BY <1>5, <1>6, <1>7, <1>9, <2>1, <2>2, <3>1
  <2>6. Ranked(lanes[1]) = S
    BY <1>8, <2>1
  <2>7. Ranking(Interleaved(N, lanes), S) /\ \A k \in 1..N : Interleaved(k, cut(k)) = Cut(Interleaved(N, lanes), k)
    BY <1>2, <2>4, <2>5, <2>6, MergeIsStable DEF N
  <2> QED BY <2>3, <2>7 DEF ix, S, N
<1>12. CASE ~("rarity" \in q.lanes) /\ "symbols" \in q.lanes /\ direct(N) # <<>>
  <2> DEFINE lanes == <<base(N), direct(N)>>
             cut(k) == <<base(k), direct(k)>>
  <2>1. Len(lanes) = 2 /\ lanes[1] = base(N) /\ lanes[2] = direct(N)
    OBVIOUS
  <2>2. \A k : Len(cut(k)) = 2 /\ cut(k)[1] = base(k) /\ cut(k)[2] = direct(k)
    OBVIOUS
  <2>3. RawRanking(ix, q, N) = Interleaved(N, lanes) /\ \A k \in 1..N : RawRanking(ix, q, k) = Interleaved(k, cut(k))
    BY <1>4, <1>10, <1>12
  <2> HIDE DEF lanes, cut
  <2>4. LanesOf(lanes, S)
    <3>1. \A l \in 1..2 : l = 1 \/ l = 2
      OBVIOUS
    <3> QED BY <1>8, <2>1, <3>1 DEF LanesOf
  <2>5. \A k \in 1..N : Len(cut(k)) = Len(lanes) /\ \A l \in 1..Len(lanes) : cut(k)[l] = Cut(lanes[l], k)
    <3>1. \A l \in 1..2 : l = 1 \/ l = 2
      OBVIOUS
    <3> QED BY <1>5, <1>6, <1>9, <2>1, <2>2, <3>1
  <2>6. Ranked(lanes[1]) = S
    BY <1>8, <2>1
  <2>7. Ranking(Interleaved(N, lanes), S) /\ \A k \in 1..N : Interleaved(k, cut(k)) = Cut(Interleaved(N, lanes), k)
    BY <1>2, <2>4, <2>5, <2>6, MergeIsStable DEF N
  <2> QED BY <2>3, <2>7 DEF ix, S, N
<1>13. CASE ~("rarity" \in q.lanes) /\ ~("symbols" \in q.lanes /\ direct(N) # <<>>)
  <2>1. RawRanking(ix, q, N) = base(N) /\ \A k \in 1..N : RawRanking(ix, q, k) = base(k)
    BY <1>4, <1>10, <1>13
  <2> QED BY <1>5, <1>9, <2>1 DEF ix, S, N
<1> QED BY <1>11, <1>12, <1>13

LEMMA RetrievedIsStable ==
  ASSUME NEW s, Scoped(s), NEW q \in Queries
  PROVE  LET N == Cardinality(Members(s))
             all == Retrieved(Fresh(s), q, N)
         IN  Ranking(all, Members(s)) /\ \A k \in 1..N : Retrieved(Fresh(s), q, k) = Cut(all, k)
<1> DEFINE S == Members(s)
           N == Cardinality(S)
           raw(k) == RawRanking(Fresh(s), q, k)
           viewed(k) == RawRanking(Fresh(s), ViewedQuery(q), k)
<1>1. Ranking(raw(N), S) /\ \A k \in 1..N : raw(k) = Cut(raw(N), k)
  BY QueriesAreAsked, RawIsStable
<1>2. Ranking(viewed(N), S) /\ \A k \in 1..N : viewed(k) = Cut(viewed(N), k)
  BY QueriesAreAsked, RawIsStable
<1>3. \A k : Retrieved(Fresh(s), q, k) =
        IF StableView(q) /\ ViewedQuery(q) # q THEN Interleaved(k, <<raw(k), viewed(k)>>) ELSE raw(k)
  BY DEF Retrieved
<1>4. IsFiniteSet(S)
  BY DEF Scoped, Members
<1> HIDE DEF S, N, raw, viewed
<1>5. CASE ~(StableView(q) /\ ViewedQuery(q) # q)
  BY <1>1, <1>3, <1>5 DEF S, N
<1>6. CASE StableView(q) /\ ViewedQuery(q) # q
  <2> DEFINE lanes == <<raw(N), viewed(N)>>
             cut(k) == <<raw(k), viewed(k)>>
  <2>1. Len(lanes) = 2 /\ lanes[1] = raw(N) /\ lanes[2] = viewed(N)
    OBVIOUS
  <2>2. \A k : Len(cut(k)) = 2 /\ cut(k)[1] = raw(k) /\ cut(k)[2] = viewed(k)
    OBVIOUS
  <2>3. Retrieved(Fresh(s), q, N) = Interleaved(N, lanes) /\ \A k : Retrieved(Fresh(s), q, k) = Interleaved(k, cut(k))
    BY <1>3, <1>6
  <2> HIDE DEF lanes, cut
  <2>4. \A l \in 1..2 : l = 1 \/ l = 2
    OBVIOUS
  <2>5. LanesOf(lanes, S) /\ Ranked(lanes[1]) = S
    BY <1>1, <1>2, <2>1, <2>4 DEF LanesOf, Ranking
  <2>6. \A k \in 1..N : Len(cut(k)) = Len(lanes) /\ \A l \in 1..Len(lanes) : cut(k)[l] = Cut(lanes[l], k)
    BY <1>1, <1>2, <2>1, <2>2, <2>4
  <2>7. Ranking(Interleaved(N, lanes), S) /\ \A k \in 1..N : Interleaved(k, cut(k)) = Cut(Interleaved(N, lanes), k)
    BY <1>4, <2>5, <2>6, MergeIsStable DEF N
  <2> QED BY <2>3, <2>7 DEF S, N
<1> QED BY <1>5, <1>6

\* However the lanes of a ranking overlap and whichever view is merged in, asking for
\* fewer premises gives the first of those that asking for more gives, and asking for
\* all gives each once: that "each lane's first k entries suffice" (retrieve), so its
\* loop over the lanes ends, and the rank of a premise does not depend on the width.
THEOREM NarrowBeginsWide == IndexSpec => []RetrievalIsPrefixStable
<1>1. IndexInv /\ [IndexNext]_indexVars => IndexInv'
  <2> SUFFICES ASSUME IndexInv, [IndexNext]_indexVars PROVE IndexInv'
    OBVIOUS
  <2>1. CASE UNCHANGED indexVars
    BY <2>1 DEF IndexInv, indexVars
  <2>2. ASSUME NEW s \in Scopes, Ranks(s) PROVE IndexInv'
    BY <2>2, RanksFreshly
  <2> QED BY <2>1, <2>2 DEF IndexNext
<1>2. IndexInv => RetrievalIsPrefixStable
  <2> SUFFICES ASSUME IndexInv, NEW q \in Queries
               PROVE  LET n == Cardinality(Members(index.scope))
                          all == Retrieved(index, q, n)
                      IN  /\ Len(all) = n /\ Ranked(all) = Members(index.scope)
                          /\ \A k \in 1..(n - 1) : Retrieved(index, q, k) = SubSeq(all, 1, k)
    BY DEF RetrievalIsPrefixStable
  <2>1. PICK s : Scoped(s) /\ index = Fresh(s) /\ index.scope = s
    <3>1. \A s : Fresh(s).scope = s
      BY DEF Fresh
    <3> QED BY <3>1 DEF IndexInv
  <2> DEFINE n == Cardinality(Members(s))
             all == Retrieved(Fresh(s), q, n)
  <2>2. Ranking(all, Members(s)) /\ \A k \in 1..n : Retrieved(Fresh(s), q, k) = Cut(all, k)
    BY <2>1, RetrievedIsStable
  <2>3. IsFiniteSet(Members(s)) /\ n \in Nat
    BY <2>1, FS_CardinalityType DEF Scoped, Members
  <2> HIDE DEF all
  <2>4. Len(all) = n /\ Ranked(all) = Members(s)
    BY <2>2, RankedCount DEF Ranking
  <2>5. \A k \in 1..n : Retrieved(Fresh(s), q, k) = SubSeq(all, 1, k)
    BY <2>2, <2>3, CutOfRanking
  <2>6. \A k \in 1..(n - 1) : k \in 1..n
    BY <2>3
  <2> QED BY <2>1, <2>4, <2>5, <2>6 DEF all
<1> QED BY <1>1, <1>2, IndexStarts, PTL DEF IndexSpec

-----------------------------------------------------------------------------
(* The pools.                                                              *)

\* The pool of a goal, whatever was ranked before.
OwnPool(g) == PoolOf(g, Fresh(g.scope))
OwnPools == {OwnPool(g) : g \in Goals}

LEMMA OwnPoolIs ==
  ASSUME NEW g \in Goals
  PROVE  OwnPool(g).goal = g /\ OwnPool(g) \in OwnPools
BY DEF OwnPool, OwnPools, PoolOf

\* Where a lane is: it has seen what the widths before its next one admit.
LaneStates ==
  [busy : {TRUE}, goal : Goals, pinned : OwnPools, step : Nat \ {0}, seen : SUBSET Ids, offered : SUBSET Ids]

LaneIs(w) ==
  /\ w \in LaneStates /\ w.pinned = OwnPool(w.goal) /\ w.offered = w.seen
  /\ w.step = 1 => w.seen = {}
  /\ w.step # 1 => w.step - 1 \in DOMAIN ProgressiveWidths /\ w.seen = Through(w.pinned, ProgressiveWidths[w.step - 1])

LanesAre ==
  /\ widening = [l \in Wideners |-> widening[l]]
  /\ \A l \in Wideners : widening[l] = Asleep \/ LaneIs(widening[l])

RetrievalInv == IndexInv /\ pools \in Seq(OwnPools) /\ LanesAre

\* The pools that stay when one is to be made are some of those there are.
LEMMA KeptAre ==
  ASSUME pools \in Seq(OwnPools), NEW size
  PROVE  Kept(size) \in Seq(OwnPools)
<1> DEFINE later(n) == SubSeq(pools, n + 1, Len(pools))
           rest == {n \in 0..Len(pools) : later(n) = <<>> \/ (Len(later(n)) < MaxPools /\ SizeOf(later(n)) + size <= MaxPoolSize)}
           n == CHOOSE n \in rest : \A m \in rest : n <= m
<1>1. Len(pools) \in Nat
  OBVIOUS
<1>2. Len(pools) \in rest
  <2>1. later(Len(pools)) = <<>>
    BY <1>1, SubSeqEmpty
  <2> QED BY <1>1, <2>1
<1>3. rest \subseteq Nat /\ rest \subseteq 0..Len(pools)
  BY <1>1
<1> HIDE DEF rest
<1>4. n \in rest
  <2>1. \E k \in rest : \A m \in rest : k <= m
    BY <1>2, <1>3, LeastMember
  <2> QED BY <2>1, Zenon
<1>5. n \in 0..Len(pools)
  BY <1>3, <1>4
<1> HIDE DEF n
<1>6. \A i \in (n + 1)..Len(pools) : pools[i] \in OwnPools
  BY <1>1, <1>5
<1>7. SubSeq(pools, n + 1, Len(pools)) \in Seq(OwnPools)
  BY <1>1, <1>5, <1>6, SubSeqProperties
<1> QED BY <1>7 DEF Kept, n, rest

\* The pool a goal is given is its own, be it found or made.
LEMMA PoolsGive ==
  ASSUME RetrievalInv, NEW g \in Goals, Pools(g)
  PROVE  Found(g) = OwnPool(g) /\ pools' \in Seq(OwnPools) /\ IndexInv'
<1>1. pools \in Seq(OwnPools) /\ IndexInv
  BY DEF RetrievalInv
<1>2. CASE Held(g) # {}
  <2>1. UNCHANGED <<index, pools>>
    BY <1>2 DEF Pools
  <2> DEFINE k == CHOOSE k \in DOMAIN pools' : k \in Held(g)
  <2>2. k \in DOMAIN pools /\ pools[k].goal = g
    <3>1. \E j \in DOMAIN pools' : j \in Held(g)
      BY <1>2, <2>1 DEF Held
    <3>2. k \in Held(g)
      BY <3>1, Zenon
    <3> QED BY <3>2 DEF Held
  <2> HIDE DEF k
  <2>3. pools[k] \in OwnPools
    BY <1>1, <2>2
  <2>4. pools[k] = OwnPool(g)
    BY <2>2, <2>3, OwnPoolIs DEF OwnPools
  <2>5. Found(g) = pools'[k]
    BY <1>2 DEF Found, k
  <2> QED BY <1>1, <2>1, <2>4, <2>5 DEF IndexInv
<1>3. CASE Held(g) = {}
  <2> DEFINE new == PoolOf(g, index')
             kept == Kept(new.size)
  <2>1. Ranks(g.scope) /\ pools' = Append(kept, new)
    BY <1>3 DEF Pools
  <2>2. g.scope \in Scopes
    BY RetrievalAssumption
  <2>3. index' = Fresh(g.scope) /\ IndexInv'
    BY <1>1, <2>1, <2>2, RanksFreshly
  <2>4. new = OwnPool(g)
    BY <2>3 DEF OwnPool
  <2>5. kept \in Seq(OwnPools)
    BY <1>1, KeptAre
  <2> HIDE DEF new, kept
  <2>6. pools' \in Seq(OwnPools) /\ Len(pools') \in DOMAIN pools' /\ pools'[Len(pools')] = new
    BY <2>1, <2>4, <2>5, OwnPoolIs
  <2>7. Found(g) = pools'[CHOOSE k \in DOMAIN pools' : k = Len(pools')]
    BY <1>3 DEF Found
  <2>8. (CHOOSE k \in DOMAIN pools' : k = Len(pools')) = Len(pools')
    BY <2>6, Zenon
  <2> QED BY <2>3, <2>4, <2>6, <2>7, <2>8
<1> QED BY <1>2, <1>3

\* What a pool admits may be used by its goal and has a rank in it, and more is
\* admitted by a greater width.
LEMMA ThroughIs ==
  ASSUME NEW g \in Goals, NEW limit
  PROVE  /\ Through(OwnPool(g), limit) \subseteq Members(g.scope)
         /\ Through(OwnPool(g), limit) \subseteq Ranked(OwnPool(g).order)
         /\ Through(OwnPool(g), limit) \subseteq Ids
<1>1. OwnPool(g).goal = g /\ g.spoken \subseteq Members(g.scope) /\ g.scope \in Scopes
  BY OwnPoolIs, RetrievalAssumption DEF Members
<1>2. Members(g.scope) \subseteq Ids
  BY <1>1, IndexAssumption DEF WellFormed, Members
<1> QED BY <1>1, <1>2 DEF Through, Ranked

LEMMA ThroughWidens ==
  ASSUME NEW pool, NEW m \in Nat, NEW n \in Nat, m <= n
  PROVE  Through(pool, m) \subseteq Through(pool, n)
<1>1. 1..m \subseteq 1..n
  OBVIOUS
<1> QED BY <1>1 DEF Through

\* The widths of a pool are the first ones there are.
LEMMA LimitsAre ==
  ASSUME NEW pool
  PROVE  /\ Len(ProgressiveLimits(pool)) \in Nat
         /\ \A k \in Nat \ {0} : k <= Len(ProgressiveLimits(pool)) =>
              k \in DOMAIN ProgressiveWidths /\ ProgressiveLimits(pool)[k] = ProgressiveWidths[k]
<1> DEFINE wanted == {j \in DOMAIN ProgressiveWidths : j = 1 \/ Len(pool.order) > ProgressiveWidths[j - 1]}
<1>1. ProgressiveWidths \in Seq(Nat) /\ Len(ProgressiveWidths) \in Nat /\ DOMAIN ProgressiveWidths = 1..Len(ProgressiveWidths)
  BY RetrievalAssumption
<1>2. IsFiniteSet(DOMAIN ProgressiveWidths) /\ Cardinality(DOMAIN ProgressiveWidths) = Len(ProgressiveWidths)
  BY <1>1, UpToCount
<1>3. Cardinality(wanted) \in Nat /\ Cardinality(wanted) <= Len(ProgressiveWidths)
  <2>1. wanted \subseteq DOMAIN ProgressiveWidths
    OBVIOUS
  <2> HIDE DEF wanted
  <2> QED BY <1>2, <2>1, FS_Subset, FS_CardinalityType
<1> HIDE DEF wanted
<1>4. ProgressiveLimits(pool) = SubSeq(ProgressiveWidths, 1, Cardinality(wanted))
  BY DEF ProgressiveLimits, wanted
<1> DEFINE c == Cardinality(wanted)
<1> HIDE DEF c
<1>5. c \in Nat /\ c <= Len(ProgressiveWidths) /\ ProgressiveLimits(pool) = SubSeq(ProgressiveWidths, 1, c)
  BY <1>3, <1>4 DEF c
<1>6. \A i \in 1..c : ProgressiveWidths[i] \in Nat
  BY <1>1, <1>5
<1>7. Len(SubSeq(ProgressiveWidths, 1, c)) = (IF 1 <= c THEN c - 1 + 1 ELSE 0)
      /\ \A i \in 1..(c - 1 + 1) : SubSeq(ProgressiveWidths, 1, c)[i] = ProgressiveWidths[1 + i - 1]
  BY <1>5, <1>6, SubSeqProperties
<1>8. Len(SubSeq(ProgressiveWidths, 1, c)) = c
  BY <1>5, <1>7
<1>9. ASSUME NEW k \in Nat \ {0}, k <= c
      PROVE  k \in DOMAIN ProgressiveWidths /\ SubSeq(ProgressiveWidths, 1, c)[k] = ProgressiveWidths[k]
  BY <1>1, <1>5, <1>7, <1>9
<1> QED BY <1>5, <1>8, <1>9

\* A lane begins.
LEMMA StartsKeeps ==
  ASSUME RetrievalInv, NEW l \in Wideners, NEW g \in Goals, StartsWidening(l, g)
  PROVE  RetrievalInv'
<1>1. Found(g) = OwnPool(g) /\ pools' \in Seq(OwnPools) /\ IndexInv'
  BY PoolsGive DEF StartsWidening
<1> DEFINE w == [busy |-> TRUE, goal |-> g, pinned |-> Found(g), step |-> 1, seen |-> {}, offered |-> {}]
<1>2. LaneIs(w)
  BY <1>1, OwnPoolIs DEF LaneIs, LaneStates
<1>3. widening' = [widening EXCEPT ![l] = w]
  BY DEF StartsWidening
<1> HIDE DEF w
<1> QED BY <1>1, <1>2, <1>3 DEF RetrievalInv, LanesAre

\* A step of a lane leaves its goal and its pool alone.
LaneMove(w, step, sighted, offered) == [w EXCEPT !.step = step, !.seen = sighted, !.offered = offered]

LEMMA LaneMoves ==
  \A w \in LaneStates, step \in Nat \ {0}, sighted, offered \in SUBSET Ids :
    /\ LaneMove(w, step, sighted, offered) \in LaneStates
    /\ LaneMove(w, step, sighted, offered).goal = w.goal
    /\ LaneMove(w, step, sighted, offered).pinned = w.pinned
    /\ LaneMove(w, step, sighted, offered).step = step
    /\ LaneMove(w, step, sighted, offered).seen = sighted
    /\ LaneMove(w, step, sighted, offered).offered = offered
<1> SUFFICES ASSUME NEW w \in LaneStates, NEW step \in Nat \ {0}, NEW sighted \in SUBSET Ids, NEW offered \in SUBSET Ids
             PROVE  LET next == LaneMove(w, step, sighted, offered)
                    IN  /\ next \in LaneStates /\ next.goal = w.goal /\ next.pinned = w.pinned
                        /\ next.step = step /\ next.seen = sighted /\ next.offered = offered
  OBVIOUS
<1> QED BY DEF LaneStates, LaneMove

\* A lane goes on, with all it was offered before, or has come to its last width.
LEMMA WidenKeeps ==
  ASSUME RetrievalInv, NEW l \in Wideners, Widen(l)
  PROVE  RetrievalInv'
<1> DEFINE w == widening[l]
           limits == ProgressiveLimits(w.pinned)
<1>1. LaneIs(w)
  BY DEF Widen, RetrievalInv, LanesAre
<1>2. CASE w.step > Len(limits)
  <2>1. widening' = [widening EXCEPT ![l] = Asleep] /\ UNCHANGED <<index, pools>>
    BY <1>2 DEF Widen
  <2> QED BY <2>1 DEF RetrievalInv, LanesAre, IndexInv
<1>3. CASE ~(w.step > Len(limits))
  <2> DEFINE offered == Through(Found(w.goal), limits[w.step])
             next == [w EXCEPT !.step = w.step + 1, !.seen = w.seen \cup offered, !.offered = offered]
  <2>1. Pools(w.goal) /\ widening' = [widening EXCEPT ![l] = next]
    BY <1>3 DEF Widen
  <2>2. /\ w \in LaneStates /\ w.goal \in Goals /\ w.step \in Nat \ {0} /\ w.pinned = OwnPool(w.goal)
        /\ w.step = 1 => w.seen = {}
        /\ w.step # 1 => w.step - 1 \in DOMAIN ProgressiveWidths /\ w.seen = Through(w.pinned, ProgressiveWidths[w.step - 1])
    BY <1>1 DEF LaneIs, LaneStates
  <2>3. Found(w.goal) = OwnPool(w.goal) /\ pools' \in Seq(OwnPools) /\ IndexInv'
    BY <2>1, <2>2, PoolsGive
  <2>4. Len(limits) \in Nat
    BY LimitsAre
  <2> HIDE DEF w, limits
  <2>5. w.step <= Len(limits)
    BY <1>3, <2>2, <2>4
  <2>6. w.step \in DOMAIN ProgressiveWidths /\ limits[w.step] = ProgressiveWidths[w.step]
    BY <2>2, <2>5, LimitsAre DEF limits
  <2>7. offered = Through(w.pinned, ProgressiveWidths[w.step]) /\ offered \subseteq Ids
    BY <2>2, <2>3, <2>6, ThroughIs
  <2>8. w.seen \subseteq offered
    <3>1. CASE w.step = 1
      BY <3>1, <2>2
    <3>2. CASE w.step # 1
      <4>1. w.step - 1 \in DOMAIN ProgressiveWidths /\ w.step - 1 <= w.step
        BY <3>2, <2>2
      <4>2. /\ ProgressiveWidths[w.step - 1] \in Nat /\ ProgressiveWidths[w.step] \in Nat
            /\ ProgressiveWidths[w.step - 1] <= ProgressiveWidths[w.step]
        BY <4>1, <2>6, RetrievalAssumption
      <4>3. Through(w.pinned, ProgressiveWidths[w.step - 1]) \subseteq Through(w.pinned, ProgressiveWidths[w.step])
        BY <4>2, ThroughWidens
      <4> QED BY <3>2, <2>2, <2>7, <4>3
    <3> QED BY <3>1, <3>2
  <2> HIDE DEF offered
  <2>9. /\ next \in LaneStates /\ next.goal = w.goal /\ next.pinned = w.pinned /\ next.step = w.step + 1
        /\ next.seen = offered /\ next.offered = offered
    <3>1. w.seen \cup offered = offered /\ w.step + 1 \in Nat \ {0} /\ offered \in SUBSET Ids
      BY <2>2, <2>7, <2>8
    <3>2. next = [w EXCEPT !.step = w.step + 1, !.seen = offered, !.offered = offered]
      BY <3>1
    <3>3. next = LaneMove(w, w.step + 1, offered, offered)
      BY <3>2 DEF LaneMove
    <3> HIDE DEF next
    <3> QED BY <2>2, <3>1, <3>3, LaneMoves
  <2>10. LaneIs(next)
    <3>1. next.step # 1 /\ next.step - 1 = w.step
      BY <2>2, <2>9
    <3> HIDE DEF next
    <3> QED BY <3>1, <2>2, <2>6, <2>7, <2>9 DEF LaneIs
  <2> HIDE DEF next
  <2> QED BY <2>1, <2>3, <2>10 DEF RetrievalInv, LanesAre
<1> QED BY <1>2, <1>3

LEMMA RetrievalKeeps == RetrievalInv /\ [RetrievalNext]_retrievalVars => RetrievalInv'
<1> SUFFICES ASSUME RetrievalInv, [RetrievalNext]_retrievalVars PROVE RetrievalInv'
  OBVIOUS
<1>1. CASE UNCHANGED retrievalVars
  BY <1>1 DEF retrievalVars, indexVars, RetrievalInv, LanesAre, IndexInv
<1>2. ASSUME NEW g \in Goals, Looks(g) PROVE RetrievalInv'
  <2>1. pools' \in Seq(OwnPools) /\ IndexInv' /\ UNCHANGED widening
    BY <1>2, PoolsGive DEF Looks
  <2> QED BY <2>1 DEF RetrievalInv, LanesAre
<1>3. ASSUME NEW l \in Wideners, StopsWidening(l) PROVE RetrievalInv'
  <2>1. widening' = [widening EXCEPT ![l] = Asleep] /\ UNCHANGED <<index, pools>>
    BY <1>3 DEF StopsWidening
  <2> QED BY <2>1 DEF RetrievalInv, LanesAre, IndexInv
<1> QED BY <1>1, <1>2, <1>3, StartsKeeps, WidenKeeps DEF RetrievalNext

LEMMA RetrievalStarts == RetrievalInit => RetrievalInv
<1> SUFFICES ASSUME RetrievalInit PROVE RetrievalInv
  OBVIOUS
<1>1. IndexInv
  BY IndexStarts DEF RetrievalInit
<1>2. pools = <<>> /\ widening = [l \in Wideners |-> Asleep]
  BY DEF RetrievalInit
<1> QED BY <1>1, <1>2 DEF RetrievalInv, LanesAre

\* However many goals are ranked while a lane is suspended and whatever pools they
\* push out, the lane goes on with the pool it started with: every width offers what
\* the ones before it did, all of it with a rank in that pool, and nothing the goal
\* may not use (_premise_actions, progressive_limits and through).
THEOREM WideningIsSteady == RetrievalSpec => []WideningKeepsItsPool
<1>1. RetrievalInv => WideningKeepsItsPool
  <2> SUFFICES ASSUME RetrievalInv, NEW l \in Wideners, widening[l] # Asleep
               PROVE  LET w == widening[l]
                      IN  /\ w.offered = w.seen /\ w.seen \subseteq Members(w.goal.scope)
                          /\ w.seen \subseteq Ranked(w.pinned.order)
    BY DEF WideningKeepsItsPool
  <2> DEFINE w == widening[l]
  <2>1. LaneIs(w)
    BY DEF RetrievalInv, LanesAre
  <2>2. w.goal \in Goals /\ w.pinned = OwnPool(w.goal) /\ w.offered = w.seen
    BY <2>1 DEF LaneIs, LaneStates
  <2>3. w.seen = {} \/ \E limit : w.seen = Through(OwnPool(w.goal), limit)
    BY <2>1, <2>2 DEF LaneIs
  <2> QED BY <2>2, <2>3, ThroughIs
<1> QED BY <1>1, RetrievalStarts, RetrievalKeeps, PTL DEF RetrievalSpec

-----------------------------------------------------------------------------
(* The prover for one goal.                                                *)

Deciding(k) == calls[k].at = "argument"
Undecided == \A k \in 1..Len(calls) : ~Deciding(k)

\* Decisions are only recorded below an action that is being tried: the first
\* of these on the path began with none, and without one there are none, but
\* those of a term on its way to the result.
DecidedInv ==
  /\ Sequence(calls) /\ \A k \in 1..Len(calls) : IsFrame(calls[k])
  /\ problem.many => decided = <<>> /\ \A k \in 1..Len(calls) : calls[k].at \notin OnePlaces
  /\ ~problem.many => \A k \in 1..Len(calls) : calls[k].at \in OnePlaces \cup {"enter"}
  /\ ~problem.many => \A k \in 1..(Len(calls) - 1) : calls[k].at \in {"body", "argument"}
  /\ \A k \in 1..Len(calls) :
       Deciding(k) /\ (\A j \in 1..(k - 1) : ~Deciding(j)) => calls[k].mark = 0
  /\ Undecided /\ decided # <<>> => returned # <<>> /\ (calls = <<>> \/ Current.at = "body")

Over == verdict \notin {"asked", "running"}

FocusedInv ==
  /\ DecidedInv
  /\ verdict # "running" => calls = <<>>
  /\ verdict = "asked" => returned = <<>>
  /\ Over /\ decided # <<>> => HasTerm

\* What is known of a proof and of its choices before the search is over.
Labelling == {"productive", "construct", "refute", "check"}

Ending == stage \in {"closing", "done"}

CreditInv ==
  /\ ~Ending => /\ patch = Nothing /\ checked = Nothing
                /\ chosen = (IF stage \in {"case proof first", "case proof"} THEN "cases"
                             ELSE IF stage = "constructor proof" THEN "constructor" ELSE Nothing)
                /\ labelled => stage \in Labelling /\ HasTerm
  /\ patch # Nothing => checked = patch
  /\ stage # "done" => credited = Nothing
  /\ Ending /\ outcome = "verified" =>
       patch # Nothing /\ chosen \in {Nothing, patch} /\ (labelled => patch = "focused")
  /\ credited # Nothing => outcome = "verified" /\ credited = patch

\* The searches come one after the other.
LateStages == {"guided", "guided proof", "terms", "try", "term proof"}
Unsolved == Ending /\ outcome = "unsolved"

OrderInv ==
  /\ stage \in {"case proof first", "case proof", "guide"} \cup LateStages \/ Unsolved => tried
  /\ stage = "guided proof" => guided.at = "solved"
  /\ stage \in {"terms", "try", "term proof"} \/ Unsolved => guided.at \in {"solved", "no-proof"}
  /\ Unsolved => complete /\ left = 0

Texts == DOMAIN task.region
State == [text : Texts, depth : Nat, sequence : Nat]

IsGuided(g) ==
  /\ g \in [at : {g.at}, queue : {g.queue}, sequence : {g.sequence}, seen : {g.seen},
            queued : {g.queued}, now : {g.now}, splits : {g.splits}, used : {g.used},
            allowance : {g.allowance}, cut : {g.cut}]
  /\ g.queue \subseteq State /\ g.sequence \in Nat /\ g.seen \subseteq Texts /\ g.now \in State
  /\ g.splits \in Seq(Texts \cup {NoText}) /\ g.cut \in BOOLEAN

Complete(text) == Region(text).loads /\ Region(text).goals = 0 /\ Region(text).rebuilds

\* What a text leads to has been seen or waits.
Followed(g, text) == Continuations(Region(text)) \subseteq g.seen \cup g.queued

InHand(g) == g.at \in {"focus", "refine", "split"}

\* A text waits at most once, and not once it was seen.
QueueInv(g) ==
  /\ IsGuided(g)
  /\ g.queued = {s.text : s \in g.queue} /\ g.queued \cap g.seen = {}
  /\ \A s \in g.queue : s.sequence <= g.sequence
  /\ \A s, t \in g.queue : s.sequence = t.sequence \/ s.text = t.text => s = t

GuidedInv(g) ==
  /\ QueueInv(g)
  /\ 0 \in g.seen \cup g.queued
  /\ ~g.cut => \A text \in g.seen : Followed(g, text) \/ (InHand(g) /\ text = g.now.text)
  /\ g.at # "solved" => \A text \in g.seen : ~Complete(text)
  /\ InHand(g) => g.now.text \in g.seen
  /\ g.at \in {"refine", "split"} => Region(g.now.text).focused.text = NoText
  /\ g.at = "split" =>
       /\ Region(g.now.text).refined = NoText
       /\ Continuations(Region(g.now.text)) \subseteq g.seen \cup g.queued \cup Range(g.splits)
  /\ g.at = "no-proof" /\ "shapeless" \notin task.on => g.queue = {} /\ ~g.cut

GoalInv ==
  /\ task \in GoalTasks
  /\ FocusedInv /\ CreditInv /\ OrderInv /\ GuidedInv(guided)

-----------------------------------------------------------------------------
(* Frames and stacks.                                                      *)

\* The calls after a step.
LEMMA Stacks ==
  ASSUME DecidedInv, calls # <<>>
  PROVE  /\ Len(calls) \in Nat /\ Len(calls) >= 1
         /\ \A terms : Return(terms) =>
              /\ Sequence(calls') /\ Len(calls') = Len(calls) - 1
              /\ \A k \in 1..(Len(calls) - 1) : calls'[k] = calls[k]
         /\ \A f : Becomes(f) =>
              /\ Sequence(calls') /\ Len(calls') = Len(calls) /\ calls'[Len(calls)] = f
              /\ \A k \in 1..(Len(calls) - 1) : calls'[k] = calls[k]
         /\ \A f, known, goal, depth : Descends(f, known, goal, depth) =>
              /\ Sequence(calls') /\ Len(calls') = Len(calls) + 1 /\ calls'[Len(calls)] = f
              /\ calls'[Len(calls) + 1] = Frame(known, goal, depth, f.level + 1)
              /\ \A k \in 1..(Len(calls) - 1) : calls'[k] = calls[k]
<1>1. /\ Len(calls) \in Nat /\ Len(calls) >= 1
      /\ Sequence(Suspended) /\ Len(Suspended) = Len(calls) - 1
      /\ \A k \in 1..(Len(calls) - 1) : Suspended[k] = calls[k]
  BY Popped DEF DecidedInv, Suspended
<1>2. ASSUME NEW terms, Return(terms)
      PROVE  calls' = Suspended
  BY <1>2 DEF Return
<1>3. ASSUME NEW f, Becomes(f)
      PROVE  /\ Sequence(calls') /\ Len(calls') = Len(calls) /\ calls'[Len(calls)] = f
             /\ \A k \in 1..(Len(calls) - 1) : calls'[k] = calls[k]
  <2>1. calls' = Append(Suspended, f)
    BY <1>3 DEF Becomes
  <2>2. /\ Sequence(calls') /\ Len(calls') = Len(Suspended) + 1
        /\ calls'[Len(Suspended) + 1] = f /\ \A k \in 1..Len(Suspended) : calls'[k] = Suspended[k]
    BY <2>1, <1>1, Pushed
  <2> QED
    BY <2>2, <1>1
<1>4. ASSUME NEW f, NEW known, NEW goal, NEW depth, Descends(f, known, goal, depth)
      PROVE  /\ Sequence(calls') /\ Len(calls') = Len(calls) + 1 /\ calls'[Len(calls)] = f
             /\ calls'[Len(calls) + 1] = Frame(known, goal, depth, f.level + 1)
             /\ \A k \in 1..(Len(calls) - 1) : calls'[k] = calls[k]
  <2> DEFINE g == Frame(known, goal, depth, f.level + 1)
  <2>1. calls' = Suspended \o <<f, g>>
    BY <1>4 DEF Descends
  <2> HIDE DEF g
  <2>2. /\ Sequence(calls') /\ Len(calls') = Len(Suspended) + 2
        /\ calls'[Len(Suspended) + 1] = f /\ calls'[Len(Suspended) + 2] = g
        /\ \A k \in 1..Len(Suspended) : calls'[k] = Suspended[k]
    <3>1. Sequence(Suspended)
      BY <1>1
    <3> QED
      BY <2>1, <3>1, PushedTwice
  <2>3. Len(Suspended) + 1 = Len(calls) /\ Len(Suspended) + 2 = Len(calls) + 1
    BY <1>1
  <2> QED
    BY <2>2, <2>3, <1>1 DEF g
<1> QED
  BY <1>1, <1>2, <1>3, <1>4

-----------------------------------------------------------------------------
(* How a step of the focused search may move.                              *)

\* The frame that ends says how what was decided goes on: as it was, or, below
\* an action that is tried, with the term or without anything.
LEMMA DecidedPops ==
  ASSUME DecidedInv, calls # <<>>, NEW terms, Return(terms), problem' = problem,
         \/ /\ Current.at # "argument" /\ decided' = decided
            /\ Current.at = "body" /\ returned # <<>> => terms # <<>>
         \/ /\ Current.at = "argument"
            /\ terms = <<>> => decided' = Abandons(Current)
  PROVE  DecidedInv'
<1>0. PICK n : n = Len(calls)
  OBVIOUS
<1>1. /\ n \in Nat /\ n >= 1 /\ Sequence(calls') /\ Len(calls') = n - 1
      /\ \A k \in 1..(n - 1) : calls'[k] = calls[k]
  BY <1>0, Stacks
<1>2. Current = calls[n] /\ returned' = terms
  BY <1>0 DEF Current, Return
<1>3. \A k \in 1..(n - 1) : Deciding(k)' <=> Deciding(k)
  BY <1>1 DEF Deciding
<1>4. \A k \in 1..Len(calls') : IsFrame(calls'[k])
  BY <1>0, <1>1 DEF DecidedInv
<1>5. problem'.many => decided' = <<>> /\ \A k \in 1..Len(calls') : calls'[k].at \notin OnePlaces
  <2> SUFFICES ASSUME problem.many PROVE decided' = <<>> /\ \A k \in 1..Len(calls') : calls'[k].at \notin OnePlaces
    OBVIOUS
  <2>1. decided = <<>> /\ \A k \in 1..n : calls[k].at \notin OnePlaces
    BY <1>0 DEF DecidedInv
  <2>2. Current.at # "argument"
    BY <2>1, <1>1, <1>2 DEF OnePlaces
  <2> QED
    BY <2>1, <2>2, <1>1
<1>6. ~problem'.many => /\ \A k \in 1..(Len(calls') - 1) : calls'[k].at \in {"body", "argument"}
                        /\ \A k \in 1..Len(calls') : calls'[k].at \in OnePlaces \cup {"enter"}
  BY <1>0, <1>1 DEF DecidedInv
<1>7. \A k \in 1..Len(calls') :
        Deciding(k)' /\ (\A j \in 1..(k - 1) : ~Deciding(j)') => calls'[k].mark = 0
  BY <1>0, <1>1, <1>3 DEF DecidedInv, Deciding
<1>8. ASSUME Undecided', decided' # <<>>
      PROVE  returned' # <<>> /\ (calls' = <<>> \/ Current'.at = "body")
  <2>1. \A k \in 1..(n - 1) : ~Deciding(k)
    BY <1>0, <1>1, <1>3, <1>8 DEF Undecided
  <2>2. ~problem.many
    BY <1>5, <1>8
  <2>3. terms # <<>>
    <3>1. CASE Current.at = "argument"
      <4>1. calls[n].mark = 0
        BY <1>0, <3>1, <2>1, <1>1, <1>2 DEF DecidedInv, Deciding
      <4>2. Abandons(Current) = <<>>
        BY <4>1, <1>2 DEF Abandons
      <4> QED
        BY <3>1, <4>2, <1>8
    <3>2. CASE Current.at # "argument"
      <4>1. Undecided
        BY <1>0, <3>2, <2>1, <1>1, <1>2 DEF Undecided, Deciding
      <4> QED
        BY <1>0, <3>2, <4>1, <1>8 DEF DecidedInv
    <3> QED
      BY <3>1, <3>2
  <2>4. ASSUME calls' # <<>> PROVE Current'.at = "body"
    <3>1. n - 1 \in 1..(n - 1)
      BY <1>1, <2>4 DEF Sequence
    <3>2. Current' = calls[n - 1]
      BY <1>1, <3>1 DEF Current
    <3>3. calls[n - 1].at \in {"body", "argument"} /\ ~Deciding(n - 1)
      BY <1>0, <2>1, <2>2, <3>1 DEF DecidedInv
    <3> QED
      BY <3>2, <3>3 DEF Deciding
  <2> QED
    BY <2>3, <2>4, <1>2
<1> QED
  BY <1>0, <1>1, <1>4, <1>5, <1>6, <1>7, <1>8 DEF DecidedInv

\* A frame goes on; what a term left has been taken by then.
LEMMA DecidedStays ==
  ASSUME DecidedInv, calls # <<>>, NEW f, IsFrame(f), Becomes(f), problem' = problem,
         f.at # "argument",
         IF problem.many THEN f.at \notin OnePlaces ELSE f.at \in OnePlaces \cup {"enter"},
         \/ /\ Current.at # "argument" /\ decided' = decided
            /\ Current.at = "body" => returned = <<>>
         \/ Current.at = "argument" /\ decided' = Abandons(Current)
  PROVE  DecidedInv'
<1>0. PICK n : n = Len(calls)
  OBVIOUS
<1>1. /\ n \in Nat /\ n >= 1 /\ Sequence(calls') /\ Len(calls') = n /\ calls'[n] = f
      /\ \A k \in 1..(n - 1) : calls'[k] = calls[k]
  BY <1>0, Stacks
<1>2. Current = calls[n] /\ returned' = returned
  BY <1>0 DEF Current, Becomes
<1>3. (\A k \in 1..(n - 1) : Deciding(k)' <=> Deciding(k)) /\ calls'[n].at # "argument"
  BY <1>1 DEF Deciding
<1>4. \A k \in 1..n : IsFrame(calls'[k])
  BY <1>0, <1>1 DEF DecidedInv
<1>5. problem'.many => decided' = <<>> /\ \A k \in 1..n : calls'[k].at \notin OnePlaces
  <2> SUFFICES ASSUME problem.many PROVE decided' = <<>> /\ \A k \in 1..n : calls'[k].at \notin OnePlaces
    OBVIOUS
  <2>1. decided = <<>> /\ \A k \in 1..n : calls[k].at \notin OnePlaces
    BY <1>0 DEF DecidedInv
  <2>2. Current.at # "argument"
    BY <2>1, <1>1, <1>2 DEF OnePlaces
  <2> QED
    BY <2>1, <2>2, <1>1
<1>6. ~problem'.many => /\ \A k \in 1..(n - 1) : calls'[k].at \in {"body", "argument"}
                        /\ \A k \in 1..n : calls'[k].at \in OnePlaces \cup {"enter"}
  BY <1>0, <1>1 DEF DecidedInv
<1>7. \A k \in 1..n :
        Deciding(k)' /\ (\A j \in 1..(k - 1) : ~Deciding(j)') => calls'[k].mark = 0
  BY <1>0, <1>1, <1>3 DEF DecidedInv, Deciding
<1>8. Undecided' => decided' = <<>>
  <2> SUFFICES ASSUME Undecided' PROVE decided' = <<>>
    OBVIOUS
  <2>1. \A k \in 1..(n - 1) : ~Deciding(k)
    BY <1>0, <1>1, <1>3 DEF Undecided
  <2>2. CASE Current.at = "argument"
    <3>1. calls[n].mark = 0
      BY <1>0, <2>1, <2>2, <1>1, <1>2 DEF DecidedInv, Deciding
    <3> QED
      BY <2>2, <3>1, <1>2 DEF Abandons
  <2>3. CASE Current.at # "argument"
    <3>1. Undecided
      BY <1>0, <2>1, <2>3, <1>1, <1>2 DEF Undecided, Deciding
    <3> QED
      BY <1>0, <2>3, <3>1 DEF DecidedInv
  <2> QED
    BY <2>2, <2>3
<1> QED
  BY <1>0, <1>1, <1>4, <1>5, <1>6, <1>7, <1>8 DEF DecidedInv

\* A goal is worked on below.
LEMMA DecidedCalls ==
  ASSUME DecidedInv, calls # <<>>, NEW f, IsFrame(f), problem' = problem, decided' = decided,
         NEW known, NEW goal, NEW depth, Descends(f, known, goal, depth),
         IF problem.many THEN f.at \notin OnePlaces ELSE f.at \in {"body", "argument"},
         Current.at # "body",
         Current.at = "argument" => f.at = "argument" /\ f.mark = Current.mark,
         Current.at # "argument" /\ f.at = "argument" => f.mark = Len(decided)
  PROVE  DecidedInv'
<1>0. PICK n : n = Len(calls)
  OBVIOUS
<1> DEFINE g == Frame(known, goal, depth, f.level + 1)
<1>1. /\ n \in Nat /\ n >= 1 /\ Sequence(calls') /\ Len(calls') = n + 1
      /\ calls'[n] = f /\ calls'[n + 1] = g
      /\ \A k \in 1..(n - 1) : calls'[k] = calls[k]
  BY <1>0, Stacks
<1>2. Current = calls[n] /\ returned' = returned
  BY <1>0 DEF Current, Descends
<1>3. IsFrame(g) /\ g.at = "enter"
  BY NewFrame
<1> HIDE DEF g
<1>4. /\ \A k \in 1..(n - 1) : Deciding(k)' <=> Deciding(k)
      /\ calls'[n].at = "argument" <=> f.at = "argument"
      /\ calls'[n + 1].at # "argument"
  <2>1. \A k \in 1..(n - 1) : Deciding(k)' <=> Deciding(k)
    BY <1>1 DEF Deciding
  <2>2. calls'[n].at = "argument" <=> f.at = "argument"
    BY <1>1 DEF Deciding
  <2>3. calls'[n + 1].at # "argument"
    BY <1>1, <1>3 DEF Deciding
  <2> QED
    BY <2>1, <2>2, <2>3
<1>5. \A k \in 1..(n + 1) : IsFrame(calls'[k])
  BY <1>0, <1>1, <1>3 DEF DecidedInv
<1>6. problem'.many => decided' = <<>> /\ \A k \in 1..(n + 1) : calls'[k].at \notin OnePlaces
  BY <1>0, <1>1, <1>3 DEF DecidedInv, OnePlaces
<1>7. ~problem'.many => /\ \A k \in 1..n : calls'[k].at \in {"body", "argument"}
                        /\ \A k \in 1..(n + 1) : calls'[k].at \in OnePlaces \cup {"enter"}
  BY <1>0, <1>1, <1>3 DEF DecidedInv, OnePlaces
<1>8. (\A k \in 1..(n - 1) : ~Deciding(k)) => \/ Current.at = "argument" /\ calls[n].mark = 0
                                              \/ Current.at # "argument" /\ decided = <<>>
  <2> SUFFICES ASSUME \A k \in 1..(n - 1) : ~Deciding(k)
               PROVE  \/ Current.at = "argument" /\ calls[n].mark = 0
                      \/ Current.at # "argument" /\ decided = <<>>
    OBVIOUS
  <2>1. CASE Current.at = "argument"
    BY <1>0, <2>1, <1>1, <1>2 DEF DecidedInv, Deciding
  <2>2. CASE Current.at # "argument"
    <3>1. Undecided
      BY <1>0, <2>2, <1>1, <1>2 DEF Undecided, Deciding
    <3> QED
      BY <1>0, <2>2, <3>1 DEF DecidedInv
  <2> QED
    BY <2>1, <2>2
<1>9. ASSUME NEW k \in 1..(n + 1), Deciding(k)', \A j \in 1..(k - 1) : ~Deciding(j)'
      PROVE  calls'[k].mark = 0
  <2>1. CASE k \in 1..(n - 1)
    <3>1. Deciding(k) /\ \A j \in 1..(k - 1) : ~Deciding(j)
      BY <2>1, <1>1, <1>4, <1>9
    <3> QED
      BY <1>0, <2>1, <3>1, <1>1 DEF DecidedInv
  <2>2. CASE k = n
    <3>1. f.at = "argument"
      BY <2>2, <1>4, <1>9 DEF Deciding
    <3>2. \A j \in 1..(n - 1) : ~Deciding(j)
      BY <2>2, <1>4, <1>9
    <3>3. f.mark = 0
      BY <3>1, <3>2, <1>2, <1>8
    <3> QED
      BY <2>2, <3>3, <1>1
  <2>3. k # n + 1
    BY <1>4, <1>9 DEF Deciding
  <2> QED
    BY <2>1, <2>2, <2>3, <1>1
<1>10. Undecided' => decided' = <<>>
  <2> SUFFICES ASSUME Undecided' PROVE decided' = <<>>
    OBVIOUS
  <2>1. \A k \in 1..(n - 1) : ~Deciding(k)
    BY <1>1, <1>4 DEF Undecided
  <2>2. f.at # "argument"
    <3>1. n \in 1..Len(calls')
      BY <1>1
    <3> QED
      BY <3>1, <1>1 DEF Undecided, Deciding
  <2> QED
    BY <2>1, <2>2, <1>2, <1>8
<1> QED
  BY <1>0, <1>1, <1>5, <1>6, <1>7, <1>9, <1>10 DEF DecidedInv

-----------------------------------------------------------------------------
(* The steps of the focused search.                                        *)

\* The frame that runs is of the kind of the problem.
LEMMA CurrentPlace ==
  ASSUME DecidedInv, calls # <<>>
  PROVE  /\ IsFrame(Current)
         /\ problem.many => Current.at \notin OnePlaces
         /\ ~problem.many => Current.at \in OnePlaces \cup {"enter"}
<1>1. Len(calls) \in 1..Len(calls)
  BY Stacks
<1> QED
  BY <1>1 DEF DecidedInv, Current

LEMMA DecidedEnter ==
  ASSUME DecidedInv, Stopped \/ Remembered \/ Cycle \/ Expand
  PROVE  DecidedInv'
<1>1. calls # <<>> /\ Current.at = "enter" /\ decided' = decided /\ problem' = problem
  BY DEF Stopped, Remembered, Cycle, Expand, Enters, Reached, counters
<1>2. CASE Stopped \/ Remembered \/ Cycle
  <2>1. PICK terms : Return(terms)
    BY <1>2 DEF Stopped, Remembered, Cycle
  <2> QED
    BY <1>1, <2>1, DecidedPops
<1>3. CASE Expand
  <2> DEFINE f == [Current EXCEPT !.at = IF problem.many THEN "arrow" ELSE "exact", !.before = pruned]
  <2>1. IsFrame(f) /\ f.at = IF problem.many THEN "arrow" ELSE "exact"
    BY <1>1, CurrentPlace DEF IsFrame
  <2>2. Becomes(f)
    BY <1>3 DEF Expand
  <2> HIDE DEF f
  <2>3. IF problem.many THEN f.at \notin OnePlaces ELSE f.at \in OnePlaces \cup {"enter"}
    BY <2>1 DEF OnePlaces
  <2> QED
    BY <1>1, <2>1, <2>2, <2>3, DecidedStays
<1> QED
  BY <1>2, <1>3

\* A frame of _Search goes on in another place of it.
LEMMA OneStays ==
  ASSUME DecidedInv, calls # <<>>, Current.at \in OnePlaces, NEW f, IsFrame(f), Becomes(f),
         problem' = problem, f.at \in OnePlaces \ {"argument"},
         \/ /\ Current.at # "argument" /\ decided' = decided
            /\ Current.at = "body" => returned = <<>>
         \/ Current.at = "argument" /\ decided' = Abandons(Current)
  PROVE  DecidedInv'
<1>1. ~problem.many
  BY CurrentPlace
<1>2. f.at # "argument" /\ f.at \in OnePlaces \cup {"enter"}
  OBVIOUS
<1> QED
  BY <1>1, <1>2, DecidedStays

LEMMA DecidedOne ==
  ASSUME DecidedInv, ExactOne \/ IntroduceOne \/ BodyOne \/ Focus \/ TryOne
  PROVE  DecidedInv'
<1>1. /\ calls # <<>> /\ Current.at \in OnePlaces \ {"argument"}
      /\ decided' = decided /\ problem' = problem
  BY DEF ExactOne, IntroduceOne, BodyOne, Focus, TryOne, Reached, counters, OnePlaces
<1>2. IsFrame(Current) /\ ~problem.many
  BY <1>1, CurrentPlace
<1>3. ASSUME NEW terms, Return(terms), Current.at # "body" \/ terms # <<>> \/ returned = <<>>
      PROVE  DecidedInv'
  BY <1>1, <1>3, DecidedPops
<1>4. ASSUME NEW place \in OnePlaces \ {"argument"}, Becomes([Current EXCEPT !.at = place]),
             Current.at = "body" => returned = <<>>
      PROVE  DecidedInv'
  <2> DEFINE f == [Current EXCEPT !.at = place]
  <2>1. IsFrame(f) /\ f.at = place
    BY <1>2 DEF IsFrame
  <2>2. Becomes(f)
    BY <1>4
  <2> HIDE DEF f
  <2> QED
    BY <1>1, <1>4, <2>1, <2>2, OneStays
<1>5. CASE ExactOne
  <2>1. Current.at = "exact"
    BY <1>5 DEF ExactOne, Reached
  <2>2. \/ Becomes([Current EXCEPT !.at = "introduce"])
        \/ \E terms : Return(terms)
    BY <1>5 DEF ExactOne
  <2> QED
    BY <2>1, <2>2, <1>3, <1>4 DEF OnePlaces
<1>6. CASE IntroduceOne
  <2>1. Current.at = "introduce"
    BY <1>6 DEF IntroduceOne, Reached
  <2>2. \/ Becomes([Current EXCEPT !.at = "focus"])
        \/ Return(<<>>)
        \/ \E known, goal, depth : Descends([Current EXCEPT !.at = "body"], known, goal, depth)
    BY <1>6 DEF IntroduceOne
  <2>3. ASSUME NEW known, NEW goal, NEW depth, Descends([Current EXCEPT !.at = "body"], known, goal, depth)
        PROVE  DecidedInv'
    <3> DEFINE f == [Current EXCEPT !.at = "body"]
    <3>1. IsFrame(f) /\ f.at = "body"
      BY <1>2 DEF IsFrame
    <3>2. Descends(f, known, goal, depth)
      BY <2>3
    <3> HIDE DEF f
    <3> QED
      BY <1>1, <1>2, <2>1, <3>1, <3>2, DecidedCalls
  <2> QED
    BY <2>1, <2>2, <2>3, <1>3, <1>4 DEF OnePlaces
<1>7. CASE BodyOne
  <2>1. \/ \E term : Return(<<term>>)
        \/ returned = <<>> /\ Return(<<>>)
        \/ returned = <<>> /\ Becomes([Current EXCEPT !.at = "focus"])
    BY <1>7 DEF BodyOne
  <2>2. ASSUME NEW term, Return(<<term>>) PROVE DecidedInv'
    BY <2>2, <1>3
  <2> QED
    BY <2>1, <2>2, <1>3, <1>4 DEF OnePlaces
<1>8. CASE Focus
  <2>1. Current.at = "focus"
    BY <1>8 DEF Focus, Reached
  <2>2. PICK order : Becomes([Current EXCEPT !.at = "try", !.actions = order])
    BY <1>8 DEF Focus
  <2> DEFINE f == [Current EXCEPT !.at = "try", !.actions = order]
  <2>3. IsFrame(f) /\ f.at = "try"
    BY <1>2 DEF IsFrame
  <2>4. Becomes(f)
    BY <2>2
  <2> HIDE DEF f
  <2> QED
    BY <1>1, <2>1, <2>3, <2>4, OneStays DEF OnePlaces
<1>9. CASE TryOne
  <2>1. Current.at = "try"
    BY <1>9 DEF TryOne, Reached
  <2>2. \/ Return(<<>>)
        \/ \E known, goal, depth :
             Descends([Current EXCEPT !.at = "argument", !.args = <<>>, !.mark = Len(decided)], known, goal, depth)
    BY <1>9 DEF TryOne
  <2>3. ASSUME NEW known, NEW goal, NEW depth,
               Descends([Current EXCEPT !.at = "argument", !.args = <<>>, !.mark = Len(decided)], known, goal, depth)
        PROVE  DecidedInv'
    <3> DEFINE f == [Current EXCEPT !.at = "argument", !.args = <<>>, !.mark = Len(decided)]
    <3>1. IsFrame(f) /\ f.at = "argument" /\ f.mark = Len(decided)
      BY <1>2 DEF IsFrame
    <3>2. Descends(f, known, goal, depth)
      BY <2>3
    <3> HIDE DEF f
    <3> QED
      BY <1>1, <1>2, <2>1, <3>1, <3>2, DecidedCalls
  <2> QED
    BY <2>1, <2>2, <2>3, <1>3
<1> QED
  BY <1>5, <1>6, <1>7, <1>8, <1>9

LEMMA DecidedArgument ==
  ASSUME DecidedInv, ArgumentOne
  PROVE  DecidedInv'
<1>1. calls # <<>> /\ Current.at = "argument" /\ problem' = problem
  BY DEF ArgumentOne, Reached
<1>2. IsFrame(Current) /\ ~problem.many
  BY <1>1, CurrentPlace DEF OnePlaces
<1>3. \/ decided' = Abandons(Current) /\ Return(<<>>)
      \/ \E actions, failed :
           /\ decided' = Abandons(Current)
           /\ Becomes([Current EXCEPT !.at = "try", !.actions = actions, !.failed = failed])
      \/ \E args, known, goal, depth :
           decided' = decided /\ Descends([Current EXCEPT !.args = args], known, goal, depth)
      \/ \E term : Return(<<term>>)
  BY DEF ArgumentOne
<1>4. CASE decided' = Abandons(Current) /\ Return(<<>>)
  BY <1>1, <1>4, DecidedPops
<1>5. ASSUME NEW actions, NEW failed, decided' = Abandons(Current),
             Becomes([Current EXCEPT !.at = "try", !.actions = actions, !.failed = failed])
      PROVE  DecidedInv'
  <2> DEFINE f == [Current EXCEPT !.at = "try", !.actions = actions, !.failed = failed]
  <2>1. IsFrame(f) /\ f.at = "try"
    BY <1>2 DEF IsFrame
  <2>2. Becomes(f)
    BY <1>5
  <2> HIDE DEF f
  <2> QED
    BY <1>1, <1>5, <2>1, <2>2, OneStays DEF OnePlaces
<1>6. ASSUME NEW args, NEW known, NEW goal, NEW depth, decided' = decided,
             Descends([Current EXCEPT !.args = args], known, goal, depth)
      PROVE  DecidedInv'
  <2> DEFINE f == [Current EXCEPT !.args = args]
  <2>1. IsFrame(f) /\ f.at = Current.at /\ f.mark = Current.mark
    BY <1>2 DEF IsFrame
  <2>2. Descends(f, known, goal, depth)
    BY <1>6
  <2> HIDE DEF f
  <2> QED
    BY <1>1, <1>2, <1>6, <2>1, <2>2, DecidedCalls
<1>7. ASSUME NEW term, Return(<<term>>) PROVE DecidedInv'
  BY <1>1, <1>7, DecidedPops
<1> QED
  BY <1>3, <1>4, <1>5, <1>6, <1>7

LEMMA DecidedMany ==
  ASSUME DecidedInv, IntroduceMany \/ BodiesMany \/ ExactsMany \/ TryMany \/ ArgumentsMany
  PROVE  DecidedInv'
<1>1. /\ calls # <<>> /\ Current.at \in {"arrow", "bodies", "exacts", "many", "arguments"}
      /\ decided' = decided /\ problem' = problem
  BY DEF IntroduceMany, BodiesMany, ExactsMany, TryMany, ArgumentsMany, Reached, counters
<1>2. IsFrame(Current) /\ problem.many
  BY <1>1, CurrentPlace DEF OnePlaces
<1>3. ASSUME NEW terms, Return(terms) PROVE DecidedInv'
  BY <1>1, <1>3, DecidedPops
<1>4. ASSUME NEW f, IsFrame(f), Becomes(f), f.at \notin OnePlaces PROVE DecidedInv'
  <2>1. f.at # "argument"
    BY <1>4 DEF OnePlaces
  <2> QED
    BY <1>1, <1>2, <1>4, <2>1, DecidedStays
<1>5. ASSUME NEW f, IsFrame(f), f.at \notin OnePlaces, NEW known, NEW goal, NEW depth,
             Descends(f, known, goal, depth)
      PROVE  DecidedInv'
  <2>1. f.at # "argument"
    BY <1>5 DEF OnePlaces
  <2> QED
    BY <1>1, <1>2, <1>5, <2>1, DecidedCalls
<1>6. CASE IntroduceMany
  <2>1. \/ Return(<<>>)
        \/ \E order : Becomes([Current EXCEPT !.at = "exacts", !.actions = order])
        \/ \E n, known, goal, depth : Descends([Current EXCEPT !.at = "bodies", !.mark = n], known, goal, depth)
    BY <1>6 DEF IntroduceMany
  <2>2. \A order : LET f == [Current EXCEPT !.at = "exacts", !.actions = order]
                   IN IsFrame(f) /\ f.at \notin OnePlaces
    BY <1>2 DEF IsFrame, OnePlaces
  <2>3. \A n : LET f == [Current EXCEPT !.at = "bodies", !.mark = n]
               IN IsFrame(f) /\ f.at \notin OnePlaces
    BY <1>2 DEF IsFrame, OnePlaces
  <2> QED
    BY <2>1, <2>2, <2>3, <1>3, <1>4, <1>5
<1>7. CASE BodiesMany
  BY <1>7, <1>3 DEF BodiesMany, Answers
<1>8. CASE ExactsMany
  <2>1. \/ \E order : Becomes([Current EXCEPT !.at = "many", !.actions = order])
        \/ \E actions, found : Becomes([Current EXCEPT !.actions = actions, !.found = found])
    BY <1>8 DEF ExactsMany
  <2>2. \A order : LET f == [Current EXCEPT !.at = "many", !.actions = order]
                   IN IsFrame(f) /\ f.at \notin OnePlaces
    BY <1>2 DEF IsFrame, OnePlaces
  <2>3. \A actions, found : LET f == [Current EXCEPT !.actions = actions, !.found = found]
                            IN IsFrame(f) /\ f.at \notin OnePlaces
    BY <1>1, <1>2 DEF IsFrame, OnePlaces
  <2> QED
    BY <2>1, <2>2, <2>3, <1>4
<1>9. CASE TryMany
  <2>1. \/ \E terms : Return(terms)
        \/ \E known, goal, depth : Descends([Current EXCEPT !.at = "arguments", !.args = <<>>], known, goal, depth)
    BY <1>9 DEF TryMany, Answers
  <2>2. LET f == [Current EXCEPT !.at = "arguments", !.args = <<>>] IN IsFrame(f) /\ f.at \notin OnePlaces
    BY <1>2 DEF IsFrame, OnePlaces
  <2> QED
    BY <2>1, <2>2, <1>3, <1>5
<1>10. CASE ArgumentsMany
  <2>1. \/ \E actions, found : Becomes([Current EXCEPT !.at = "many", !.actions = actions, !.found = found])
        \/ \E args, known, goal, depth : Descends([Current EXCEPT !.args = args], known, goal, depth)
    BY <1>10 DEF ArgumentsMany
  <2>2. \A actions, found : LET f == [Current EXCEPT !.at = "many", !.actions = actions, !.found = found]
                            IN IsFrame(f) /\ f.at \notin OnePlaces
    BY <1>2 DEF IsFrame, OnePlaces
  <2>3. \A args : LET f == [Current EXCEPT !.args = args] IN IsFrame(f) /\ f.at \notin OnePlaces
    BY <1>1, <1>2 DEF IsFrame, OnePlaces
  <2> QED
    BY <2>1, <2>2, <2>3, <1>4, <1>5
<1> QED
  BY <1>6, <1>7, <1>8, <1>9, <1>10

LEMMA FocusedKeeps ==
  ASSUME FocusedInv, FocusedNext
  PROVE  FocusedInv'
<1>1. CASE Begin
  <2>1. /\ calls = <<>> /\ decided = <<>> /\ returned = <<>> /\ UNCHANGED <<decided, returned, problem>>
    <3>1. calls = <<>> /\ returned = <<>>
      BY <1>1 DEF Begin, FocusedInv
    <3>2. Undecided
      BY <3>1 DEF Undecided
    <3> QED
      BY <3>1, <3>2, <1>1 DEF Begin, FocusedInv, DecidedInv
  <2>2. \/ calls' = <<>> /\ verdict' \in {"resource-exhausted", "unsupported"}
        \/ verdict' = "running" /\ \E known : calls' = <<Frame(known, problem.goal, 0, 0)>>
    BY <1>1, <2>1 DEF Begin
  <2>3. CASE calls' = <<>> /\ verdict' \in {"resource-exhausted", "unsupported"}
    BY <2>1, <2>3 DEF FocusedInv, DecidedInv, HasTerm, Over, Undecided
  <2>4. ASSUME verdict' = "running", NEW known, calls' = <<Frame(known, problem.goal, 0, 0)>>
        PROVE  FocusedInv'
    <3> DEFINE f == Frame(known, problem.goal, 0, 0)
    <3>1. IsFrame(f) /\ f.at = "enter"
      BY NewFrame
    <3>2. calls' = <<f>>
      BY <2>4
    <3> HIDE DEF f
    <3>3. calls' \in Seq({f}) /\ Len(calls') = 1 /\ calls'[1] = f
      BY <3>2
    <3>4. DecidedInv'
      BY <3>1, <3>3, <2>1 DEF DecidedInv, Sequence, Deciding, OnePlaces
    <3> QED
      BY <3>4, <2>1, <2>4 DEF FocusedInv, Over
  <2> QED
    BY <2>2, <2>3, <2>4
<1>2. CASE FocusedFinish
  <2>1. /\ calls = <<>> /\ calls' = <<>> /\ UNCHANGED <<problem, decided, returned>>
        /\ verdict' = (IF ~problem.many /\ returned # <<>> THEN "solved"
                       ELSE IF hard # "" \/ pruned > 0 THEN "resource-exhausted"
                       ELSE IF returned # <<>> THEN "solved" ELSE "no-proof")
    BY <1>2 DEF FocusedFinish
  <2>2. verdict' \in {"solved", "resource-exhausted", "no-proof"}
    BY <2>1
  <2>3. DecidedInv'
    BY <2>1 DEF FocusedInv, DecidedInv, Deciding, Undecided, Current
  <2>4. decided # <<>> => returned # <<>> /\ ~problem.many
    <3>1. calls = <<>>
      BY <2>1
    <3>2. Undecided
      BY <3>1 DEF Undecided
    <3> QED
      BY <3>1, <3>2 DEF FocusedInv, DecidedInv
  <2> QED
    BY <2>1, <2>2, <2>3, <2>4 DEF FocusedInv, HasTerm
<1>3. CASE FocusedExpires
  BY <1>3 DEF FocusedExpires, FocusedInv, DecidedInv, Deciding, Undecided, Current, Over, HasTerm
<1>4. ASSUME calls # <<>>, DecidedInv', verdict' = verdict PROVE FocusedInv'
  BY <1>4 DEF FocusedInv, Over
<1>5. CASE Stopped \/ Remembered \/ Cycle \/ Expand
  <2>1. calls # <<>> /\ verdict' = verdict
    BY <1>5 DEF Stopped, Remembered, Cycle, Expand, Enters, Reached, counters
  <2> QED
    BY <1>4, <1>5, <2>1, DecidedEnter DEF FocusedInv
<1>6. CASE ExactOne \/ IntroduceOne \/ BodyOne \/ Focus \/ TryOne
  <2>1. calls # <<>> /\ verdict' = verdict
    BY <1>6 DEF ExactOne, IntroduceOne, BodyOne, Focus, TryOne, Reached, counters
  <2> QED
    BY <1>4, <1>6, <2>1, DecidedOne DEF FocusedInv
<1>7. CASE ArgumentOne
  <2>1. calls # <<>> /\ verdict' = verdict
    BY <1>7 DEF ArgumentOne, Reached
  <2> QED
    BY <1>4, <1>7, <2>1, DecidedArgument DEF FocusedInv
<1>8. CASE IntroduceMany \/ BodiesMany \/ ExactsMany \/ TryMany \/ ArgumentsMany
  <2>1. calls # <<>> /\ verdict' = verdict
    BY <1>8 DEF IntroduceMany, BodiesMany, ExactsMany, TryMany, ArgumentsMany, Reached, counters
  <2> QED
    BY <1>4, <1>8, <2>1, DecidedMany DEF FocusedInv
<1> QED
  BY <1>1, <1>2, <1>3, <1>5, <1>6, <1>7, <1>8 DEF FocusedNext, FocusedStep

-----------------------------------------------------------------------------
(* The credit of a proof.                                                  *)

\* The search is over, without a proof.
EndsWithout == stage' = "closing" /\ outcome' # "verified"

LEMMA CreditEnds ==
  ASSUME CreditInv, ~Ending, EndsWithout,
         UNCHANGED <<patch, checked, credited>>
  PROVE  CreditInv'
<1>1. patch' = Nothing /\ credited' = Nothing /\ Ending' /\ stage' # "done" /\ outcome' # "verified"
  BY DEF CreditInv, Ending, EndsWithout
<1> QED
  BY <1>1 DEF CreditInv

LEMMA CreditGoesOn ==
  ASSUME CreditInv, ~Ending, ~Ending', UNCHANGED <<checked, credited>>, patch' = Nothing,
         chosen' = (IF stage' \in {"case proof first", "case proof"} THEN "cases"
                    ELSE IF stage' = "constructor proof" THEN "constructor" ELSE Nothing),
         labelled' => stage' \in Labelling /\ HasTerm'
  PROVE  CreditInv'
<1>1. checked' = Nothing /\ credited' = Nothing
  BY DEF CreditInv, Ending
<1> QED
  BY <1>1 DEF CreditInv, Ending

\* A candidate that was chosen for its search is accepted with its choices, or
\* leaves none behind.
LEMMA CreditValidated ==
  ASSUME CreditInv, ~Ending, NEW search, NEW next, Validates(search, next),
         search \in {"cases", "constructor", "focused", "guided", "terms"},
         next \notin {"case proof first", "case proof", "constructor proof", "closing", "done"},
         IF search \in {"cases", "constructor"} THEN chosen = search ELSE chosen = Nothing,
         labelled => search = "focused"
  PROVE  CreditInv'
<1>1. patch = Nothing /\ checked = Nothing /\ credited = Nothing
  BY DEF CreditInv, Ending
<1>2. credited' = credited
  BY DEF Validates, proofVars
<1>3. \/ EndsWithout /\ patch' = Nothing /\ checked' = checked
      \/ Concludes("verified") /\ patch' = search /\ checked' = search /\ UNCHANGED <<chosen, labelled>>
      \/ /\ stage' = next /\ patch' = Nothing /\ checked' = checked
         /\ chosen' = Unchosen(search) /\ labelled' = (labelled /\ search # "focused")
  BY <1>1 DEF Validates, proofVars, Concludes, EndsWithout
<1>4. CASE EndsWithout /\ patch' = Nothing /\ checked' = checked
  BY <1>1, <1>2, <1>4, CreditEnds
<1>5. CASE Concludes("verified") /\ patch' = search /\ checked' = search /\ UNCHANGED <<chosen, labelled>>
  <2>1. stage' = "closing" /\ outcome' = "verified" /\ credited' = Nothing
    BY <1>1, <1>2, <1>5 DEF Concludes
  <2>2. search # Nothing
    BY DEF Nothing
  <2> QED
    BY <1>5, <2>1, <2>2 DEF CreditInv, Ending
<1>6. CASE /\ stage' = next /\ patch' = Nothing /\ checked' = checked
           /\ chosen' = Unchosen(search) /\ labelled' = (labelled /\ search # "focused")
  <2>1. ~Ending' /\ chosen' = Nothing
    BY <1>6 DEF Ending, Unchosen
  <2>2. ~labelled'
    BY <1>6
  <2> QED
    BY <1>2, <1>6, <2>1, <2>2, CreditGoesOn
<1> QED
  BY <1>3, <1>4, <1>5, <1>6

LEMMA CreditKeeps ==
  ASSUME FocusedInv, CreditInv, GoalNext
  PROVE  CreditInv'
<1>1. CASE Starts
  BY <1>1, CreditEnds, CreditGoesOn DEF Concludes, EndsWithout, Starts, CreditInv, Ending, GoesTo, Labelling, proofVars
<1>2. CASE Focuses
  BY <1>2 DEF Focuses, CreditInv, Ending, Labelling, goalVars, proofVars
<1>3. CASE Focused
  BY <1>3, CreditEnds, CreditGoesOn DEF Concludes, EndsWithout, Focused, FocusedInv, Over, CreditInv, Ending, GoesTo, Labelling, HasTerm, focusedVars
<1>4. CASE Productive
  BY <1>4, CreditGoesOn DEF Productive, CreditInv, Ending, GoesTo, Labelling, HasTerm, focusedVars, proofVars
<1>5. CASE Cases
  <2>1. stage \in {"cases first", "cases"} /\ UNCHANGED <<patch, checked, credited, labelled, verdict>>
    BY <1>5 DEF Cases, focusedVars
  <2>2. ~Ending /\ patch = Nothing /\ chosen = Nothing /\ ~labelled
    BY <2>1 DEF Ending, CreditInv, Labelling
  <2>3. \/ EndsWithout
        \/ GoesTo(AfterCases) /\ UNCHANGED chosen
        \/ GoesTo(IF stage = "cases first" THEN "case proof first" ELSE "case proof") /\ chosen' = "cases"
    BY <1>5 DEF Cases, Accounts, Concludes, EndsWithout
  <2>4. CASE EndsWithout
    BY <2>1, <2>2, <2>4, CreditEnds
  <2>5. CASE GoesTo(AfterCases) /\ UNCHANGED chosen
    BY <2>1, <2>2, <2>5, CreditGoesOn DEF GoesTo, AfterCases, Ending
  <2>6. CASE GoesTo(IF stage = "cases first" THEN "case proof first" ELSE "case proof") /\ chosen' = "cases"
    BY <2>1, <2>2, <2>6, CreditGoesOn DEF GoesTo, Ending
  <2> QED
    BY <2>3, <2>4, <2>5, <2>6
<1>6. CASE CaseProof
  BY <1>6, CreditValidated DEF CaseProof, CreditInv, Ending, Labelling
<1>7. CASE Construct
  <2>1. stage = "construct" /\ UNCHANGED <<patch, checked, chosen, credited, labelled, verdict>>
    BY <1>7 DEF Construct, focusedVars, proofVars
  <2>2. ~Ending /\ patch = Nothing /\ chosen = Nothing /\ (labelled => HasTerm)
    BY <2>1 DEF Ending, CreditInv
  <2>3. \/ EndsWithout
        \/ GoesTo("refute")
        \/ ~HasTerm /\ GoesTo("solutions")
    BY <1>7 DEF Construct, Accounts, Concludes, EndsWithout
  <2>4. CASE EndsWithout
    BY <2>1, <2>2, <2>4, CreditEnds
  <2>5. CASE GoesTo("refute") \/ (~HasTerm /\ GoesTo("solutions"))
    BY <2>1, <2>2, <2>5, CreditGoesOn DEF GoesTo, Ending, Labelling, HasTerm
  <2> QED
    BY <2>3, <2>4, <2>5
<1>8. CASE Choose
  BY <1>8, CreditGoesOn DEF Choose, CreditInv, Ending, GoesTo, Labelling
<1>9. CASE ConstructorProof
  BY <1>9, CreditValidated DEF ConstructorProof, CreditInv, Ending, Labelling
<1>10. CASE Refute
  BY <1>10, CreditEnds, CreditGoesOn DEF Concludes, EndsWithout, Refute, CreditInv, Ending, GoesTo, Labelling, HasTerm, focusedVars, proofVars
<1>11. CASE Check
  <2>1. stage = "check" /\ UNCHANGED verdict
    BY <1>11 DEF Check, focusedVars
  <2>2. ~Ending /\ patch = Nothing /\ chosen = Nothing /\ (labelled => HasTerm)
    BY <2>1 DEF Ending, CreditInv
  <2>3. CASE Validates("focused", "cases")
    BY <2>2, <2>3, CreditValidated
  <2>4. CASE GoesTo("cases") /\ ~labelled' /\ UNCHANGED <<patch, checked, chosen, credited>>
    BY <2>2, <2>4, CreditGoesOn DEF GoesTo, Ending
  <2> QED
    BY <1>11, <2>2, <2>3, <2>4 DEF Check, proofVars
<1>12. CASE Guide
  BY <1>12, CreditEnds, CreditGoesOn DEF Concludes, EndsWithout, Guide, CreditInv, Ending, GoesTo, Labelling, proofVars
<1>13. CASE GuidedPop \/ GuidedFocus \/ GuidedRefine \/ GuidedSplit
  <2>1. UNCHANGED <<stage, outcome, proofVars, verdict>>
    BY <1>13 DEF GuidedPop, GuidedFocus, GuidedRefine, GuidedSplit, GuidedStep, focusedVars
  <2> QED
    BY <2>1 DEF CreditInv, Ending, HasTerm, proofVars
<1>14. CASE Guided
  <2>1. stage = "guided" /\ UNCHANGED <<patch, checked, chosen, credited, labelled, verdict>>
    BY <1>14 DEF Guided, focusedVars, proofVars
  <2>2. ~Ending /\ patch = Nothing /\ chosen = Nothing /\ ~labelled
    BY <2>1 DEF Ending, CreditInv, Labelling
  <2>3. \/ EndsWithout
        \/ GoesTo("guided proof") \/ GoesTo("terms")
    BY <1>14 DEF Guided, Accounts, Concludes, EndsWithout
  <2>4. CASE EndsWithout
    BY <2>1, <2>2, <2>4, CreditEnds
  <2>5. CASE GoesTo("guided proof") \/ GoesTo("terms")
    BY <2>1, <2>2, <2>5, CreditGoesOn DEF GoesTo, Ending
  <2> QED
    BY <2>3, <2>4, <2>5
<1>15. CASE GuidedProof
  BY <1>15, CreditValidated DEF GuidedProof, CreditInv, Ending, Labelling
<1>16. CASE Enumerate
  BY <1>16, CreditEnds, CreditGoesOn DEF Concludes, EndsWithout, Enumerate, CreditInv, Ending, GoesTo, Labelling, proofVars
<1>17. CASE Try
  <2>1. stage = "try" /\ UNCHANGED <<patch, checked, chosen, credited, labelled, verdict>>
    BY <1>17 DEF Try, focusedVars, proofVars
  <2>2. ~Ending /\ patch = Nothing /\ chosen = Nothing /\ ~labelled
    BY <2>1 DEF Ending, CreditInv, Labelling
  <2>3. \/ EndsWithout
        \/ GoesTo("term proof") \/ GoesTo("try")
    BY <1>17 DEF Try, Concludes, EndsWithout
  <2>4. CASE EndsWithout
    BY <2>1, <2>2, <2>4, CreditEnds
  <2>5. CASE GoesTo("term proof") \/ GoesTo("try")
    BY <2>1, <2>2, <2>5, CreditGoesOn DEF GoesTo, Ending
  <2> QED
    BY <2>3, <2>4, <2>5
<1>18. CASE TermProof
  BY <1>18, CreditValidated DEF TermProof, CreditInv, Ending, Labelling
<1>19. CASE GoalCloses
  BY <1>19 DEF GoalCloses, CreditInv, Ending
<1>20. CASE GoalRaises
  <2>1. PICK error \in {"input", "protocol", "policy", "resource", "system"} : Concludes(ErrorStatus[error])
    BY <1>20 DEF GoalRaises, ErrorStatus
  <2>2. ErrorStatus[error] # "verified"
    BY DEF ErrorStatus
  <2> QED
    BY <1>20, <2>1, <2>2, CreditEnds DEF GoalRaises, Concludes, EndsWithout, Busy, Ending, proofVars, CreditInv
<1>21. CASE GoalExpires
  BY <1>21 DEF GoalExpires, CreditInv, Ending, HasTerm, goalVars, proofVars
<1> QED
  BY <1>1, <1>2, <1>3, <1>4, <1>5, <1>6, <1>7, <1>8, <1>9, <1>10, <1>11, <1>12, <1>13, <1>14, <1>15,
     <1>16, <1>17, <1>18, <1>19, <1>20, <1>21 DEF GoalNext, GoalSteps

-----------------------------------------------------------------------------
(* The order of the searches.                                              *)

EarlyStages == {"open", "focused", "productive", "cases first", "construct", "solutions",
                "constructor proof", "refute", "check", "cases"}

\* The search is over with an answer of its own.
EndsOtherwise == stage' = "closing" /\ outcome' # "unsolved"

LEMMA OrderOfEnds ==
  ASSUME EndsOtherwise
  PROVE  OrderInv'
BY DEF EndsOtherwise, OrderInv, Unsolved, Ending, LateStages

LEMMA OrderOfEarly ==
  ASSUME stage' \in EarlyStages
  PROVE  OrderInv'
BY DEF OrderInv, Unsolved, Ending, LateStages, EarlyStages

LEMMA OrderValidated ==
  ASSUME NEW search, NEW next, Validates(search, next)
  PROVE  EndsOtherwise \/ stage' = next
BY DEF Validates, Concludes, EndsOtherwise

LEMMA OrderKeeps ==
  ASSUME OrderInv, GoalNext
  PROVE  OrderInv'
<1>1. CASE Starts
  BY <1>1, OrderOfEnds, OrderOfEarly DEF Starts, Concludes, GoesTo, EndsOtherwise, EarlyStages
<1>2. CASE Focuses
  BY <1>2, OrderOfEarly DEF Focuses, EarlyStages, goalVars
<1>3. CASE Focused
  BY <1>3, OrderOfEnds, OrderOfEarly DEF Focused, Concludes, GoesTo, EndsOtherwise, EarlyStages
<1>4. CASE Productive
  BY <1>4, OrderOfEarly DEF Productive, GoesTo, EarlyStages
<1>5. CASE Cases
  <2>1. EndsOtherwise \/ stage' \in {"construct", "case proof first", "case proof", "guide"}
    BY <1>5 DEF Cases, Accounts, AfterCases, Concludes, GoesTo, EndsOtherwise
  <2>2. tried'
    <3>1. (tried /\ tried' = tried) \/ tried' = TRUE
      BY <1>5 DEF Cases
    <3> QED
      BY <3>1
  <2> QED
    BY <2>1, <2>2, OrderOfEnds, OrderOfEarly DEF OrderInv, Unsolved, Ending, LateStages, EarlyStages
<1>6. CASE CaseProof
  <2>1. tried /\ tried' = tried
    BY <1>6 DEF CaseProof, OrderInv, searchVars
  <2>2. EndsOtherwise \/ stage' \in {"construct", "guide"}
    BY <1>6, OrderValidated DEF CaseProof
  <2> QED
    BY <2>1, <2>2, OrderOfEnds, OrderOfEarly DEF OrderInv, Unsolved, Ending, LateStages, EarlyStages
<1>7. CASE Construct
  BY <1>7, OrderOfEnds, OrderOfEarly DEF Construct, Accounts, Concludes, GoesTo, EndsOtherwise, EarlyStages
<1>8. CASE Choose
  BY <1>8, OrderOfEarly DEF Choose, GoesTo, EarlyStages
<1>9. CASE ConstructorProof
  BY <1>9, OrderValidated, OrderOfEnds, OrderOfEarly DEF ConstructorProof, EarlyStages
<1>10. CASE Refute
  BY <1>10, OrderOfEnds, OrderOfEarly DEF Refute, Concludes, GoesTo, EndsOtherwise, EarlyStages
<1>11. CASE Check
  BY <1>11, OrderValidated, OrderOfEnds, OrderOfEarly DEF Check, GoesTo, EarlyStages
<1>12. CASE Guide
  <2>1. tried /\ tried' = tried
    BY <1>12 DEF Guide, OrderInv
  <2>2. EndsOtherwise \/ stage' = "guided"
    BY <1>12 DEF Guide, Concludes, GoesTo, EndsOtherwise
  <2> QED
    BY <2>1, <2>2, OrderOfEnds DEF OrderInv, Unsolved, Ending
<1>13. CASE GuidedPop \/ GuidedFocus \/ GuidedRefine \/ GuidedSplit
  <2>1. stage = "guided" /\ UNCHANGED <<stage, tried>>
    BY <1>13 DEF GuidedPop, GuidedFocus, GuidedRefine, GuidedSplit, Guides, GuidedStep
  <2> QED
    BY <2>1 DEF OrderInv, Unsolved, Ending, LateStages
<1>14. CASE Guided
  <2>1. tried /\ UNCHANGED <<tried, guided>>
    BY <1>14 DEF Guided, OrderInv, LateStages
  <2>2. \/ EndsOtherwise
        \/ stage' = "guided proof" /\ guided.at = "solved"
        \/ stage' = "terms" /\ guided.at \in {"solved", "no-proof"}
    BY <1>14 DEF Guided, Accounts, Concludes, GoesTo, EndsOtherwise
  <2> QED
    BY <2>1, <2>2, OrderOfEnds DEF OrderInv, Unsolved, Ending
<1>15. CASE GuidedProof
  <2>1. tried /\ guided.at = "solved" /\ UNCHANGED <<tried, guided>>
    BY <1>15 DEF GuidedProof, OrderInv, LateStages, searchVars
  <2>2. EndsOtherwise \/ stage' = "terms"
    BY <1>15, OrderValidated DEF GuidedProof
  <2> QED
    BY <2>1, <2>2, OrderOfEnds DEF OrderInv, Unsolved, Ending
<1>16. CASE Enumerate \/ Try \/ TermProof
  <2>1. tried /\ guided.at \in {"solved", "no-proof"} /\ UNCHANGED <<tried, guided>>
    BY <1>16 DEF Enumerate, Try, TermProof, OrderInv, LateStages, searchVars
  <2>2. CASE Enumerate \/ TermProof
    <3>1. EndsOtherwise \/ stage' = "try"
      BY <2>2, OrderValidated DEF Enumerate, TermProof, Concludes, GoesTo, EndsOtherwise
    <3> QED
      BY <2>1, <3>1, OrderOfEnds DEF OrderInv, Unsolved, Ending
  <2>3. CASE Try
    <3>1. \/ EndsOtherwise \/ stage' \in {"try", "term proof"}
          \/ stage' = "closing" /\ complete /\ left = 0 /\ UNCHANGED <<complete, left>>
      <4>1. CASE complete
        BY <2>3, <4>1 DEF Try, Concludes, GoesTo, EndsOtherwise
      <4>2. CASE ~complete
        BY <2>3, <4>2 DEF Try, Concludes, GoesTo, EndsOtherwise
      <4> QED
        BY <4>1, <4>2
    <3> QED
      BY <2>1, <3>1, OrderOfEnds DEF OrderInv, Unsolved, Ending
  <2> QED
    BY <1>16, <2>2, <2>3
<1>17. CASE GoalCloses
  <2>1. stage = "closing" /\ stage' = "done" /\ (outcome' = outcome \/ outcome' = "resource-exhausted")
    BY <1>17 DEF GoalCloses
  <2>2. UNCHANGED <<tried, guided, complete, left>>
    BY <1>17 DEF GoalCloses, searchVars
  <2> QED
    BY <2>1, <2>2 DEF OrderInv, Unsolved, Ending, LateStages
<1>18. CASE GoalRaises
  <2>1. PICK error \in {"input", "protocol", "policy", "resource", "system"} : Concludes(ErrorStatus[error])
    BY <1>18 DEF GoalRaises, ErrorStatus
  <2>2. ErrorStatus[error] # "unsolved"
    BY DEF ErrorStatus
  <2> QED
    BY <2>1, <2>2, OrderOfEnds DEF Concludes, EndsOtherwise
<1>19. CASE GoalExpires
  BY <1>19 DEF GoalExpires, OrderInv, Unsolved, Ending, goalVars, searchVars
<1> QED
  BY <1>1, <1>2, <1>3, <1>4, <1>5, <1>6, <1>7, <1>8, <1>9, <1>10, <1>11, <1>12, <1>13, <1>14, <1>15,
     <1>16, <1>17, <1>18, <1>19 DEF GoalNext, GoalSteps

-----------------------------------------------------------------------------
(* The guided search.                                                      *)

\* The order of the priorities is a lexicographic one.
LEMMA PrecedesFirst ==
  ASSUME NEW a, NEW b, NEW c, NEW x, NEW y, NEW z,
         a < x \/ (a = x /\ b < y) \/ (a = x /\ b = y /\ c < z)
  PROVE  Precedes(<<a, b, c>>, <<x, y, z>>)
<1> DEFINE s == <<a, b, c>>
           t == <<x, y, z>>
<1>1. DOMAIN s = 1..3 /\ s[1] = a /\ s[2] = b /\ s[3] = c /\ t[1] = x /\ t[2] = y /\ t[3] = z
  OBVIOUS
<1> HIDE DEF s, t
<1>2. \E k \in 1..3 : s[k] < t[k] /\ \A j \in 1..(k - 1) : s[j] = t[j]
  <2>1. CASE a < x
    BY <1>1, <2>1
  <2>2. CASE a = x /\ b < y
    BY <1>1, <2>2
  <2>3. CASE a = x /\ b = y /\ c < z
    BY <1>1, <2>3
  <2> QED
    BY <2>1, <2>2, <2>3
<1>3. Precedes(s, t)
  BY <1>1, <1>2 DEF Precedes
<1> QED
  BY <1>3 DEF s, t

\* What is known of the texts.
LEMMA Regions ==
  ASSUME task \in GoalTasks
  PROVE  /\ 0 \in Texts /\ NoText \notin Texts
         /\ \A text \in Texts :
              /\ Region(text).goals \in Nat
              /\ Region(text).focused.text \in Texts \cup {NoText}
              /\ Region(text).refined \in Texts \cup {NoText}
              /\ Region(text).splits \in Seq(Texts \cup {NoText})
BY GoalTasksAssumption DEF Leads, Texts, Region

LEMMA BestIsQueued ==
  ASSUME task \in GoalTasks, NEW g, g.queue \subseteq State, g.queue # {},
         \A s, t \in g.queue : s.sequence = t.sequence => s = t
  PROVE  Best(g) \in g.queue
<1> DEFINE Q == g.queue
           Cost(s) == s.depth + Region(s.text).goals
           OpenGoals(s) == Region(s.text).goals
<1>1. \A s \in Q : Cost(s) \in Nat /\ OpenGoals(s) \in Nat /\ s.sequence \in Nat
  BY Regions DEF State
<1>2. \A s, t \in Q : s.sequence = t.sequence => s = t
  OBVIOUS
<1>3. \A s : Priority(s) = <<Cost(s), OpenGoals(s), s.sequence>>
  BY DEF Priority
<1> HIDE DEF Q, Cost, OpenGoals
<1>4. PICK q1 \in Q : \A t \in Q : Cost(q1) <= Cost(t)
  <2>1. {Cost(s) : s \in Q} \subseteq Nat /\ {Cost(s) : s \in Q} # {}
    BY <1>1 DEF Q
  <2>2. PICK n \in {Cost(s) : s \in Q} : \A m \in {Cost(s) : s \in Q} : n <= m
    BY <2>1, LeastMember
  <2> QED
    BY <2>2
<1> DEFINE Q1 == {s \in Q : Cost(s) = Cost(q1)}
<1>5. PICK q2 \in Q1 : \A t \in Q1 : OpenGoals(q2) <= OpenGoals(t)
  <2>1. {OpenGoals(s) : s \in Q1} \subseteq Nat /\ {OpenGoals(s) : s \in Q1} # {}
    BY <1>1, <1>4
  <2>2. PICK n \in {OpenGoals(s) : s \in Q1} : \A m \in {OpenGoals(s) : s \in Q1} : n <= m
    BY <2>1, LeastMember
  <2> QED
    BY <2>2
<1> DEFINE Q2 == {s \in Q1 : OpenGoals(s) = OpenGoals(q2)}
<1>6. PICK q3 \in Q2 : \A t \in Q2 : q3.sequence <= t.sequence
  <2>1. {s.sequence : s \in Q2} \subseteq Nat /\ {s.sequence : s \in Q2} # {}
    BY <1>1, <1>5
  <2>2. PICK n \in {s.sequence : s \in Q2} : \A m \in {s.sequence : s \in Q2} : n <= m
    BY <2>1, LeastMember
  <2> QED
    BY <2>2
<1>7. ASSUME NEW t \in Q \ {q3}
      PROVE  Precedes(Priority(q3), Priority(t))
  <2>1. q3 \in Q /\ Cost(q3) = Cost(q1) /\ OpenGoals(q3) = OpenGoals(q2)
    BY <1>6
  <2>2. Cost(q3) <= Cost(t) /\ q3.sequence # t.sequence
    BY <1>2, <1>4, <2>1, <1>7
  <2>3. Cost(t) = Cost(q3) => OpenGoals(q3) <= OpenGoals(t)
    BY <1>5, <2>1
  <2>4. Cost(t) = Cost(q3) /\ OpenGoals(t) = OpenGoals(q3) => q3.sequence <= t.sequence
    BY <1>6, <2>1
  <2>5. \/ Cost(q3) < Cost(t)
        \/ Cost(q3) = Cost(t) /\ OpenGoals(q3) < OpenGoals(t)
        \/ Cost(q3) = Cost(t) /\ OpenGoals(q3) = OpenGoals(t) /\ q3.sequence < t.sequence
    BY <1>1, <2>1, <2>2, <2>3, <2>4
  <2>6. Precedes(<<Cost(q3), OpenGoals(q3), q3.sequence>>, <<Cost(t), OpenGoals(t), t.sequence>>)
    BY <2>5, PrecedesFirst
  <2> QED
    BY <1>3, <2>6
<1>8. \E s \in g.queue : \A other \in g.queue \ {s} : Precedes(Priority(s), Priority(other))
  BY <1>6, <1>7 DEF Q
<1> QED
  BY <1>8 DEF Best

LEMMA SameQueue ==
  ASSUME NEW g, QueueInv(g), NEW h, IsGuided(h), h.queue = g.queue, h.queued = g.queued,
         h.seen = g.seen, h.sequence = g.sequence
  PROVE  QueueInv(h)
BY DEF QueueInv

LEMMA Enqueued ==
  ASSUME task \in GoalTasks, NEW g, QueueInv(g), NEW text \in Texts, NEW h, h = Enqueue(g, text)
  PROVE  /\ QueueInv(h)
         /\ h.at = g.at /\ h.now = g.now /\ h.splits = g.splits /\ h.cut = g.cut /\ h.seen = g.seen
         /\ g.queued \subseteq h.queued /\ text \in h.seen \cup h.queued
<1>1. CASE text \in g.seen \cup g.queued
  BY <1>1 DEF Enqueue
<1>2. CASE text \notin g.seen \cup g.queued
  <2> DEFINE new == [text |-> text, depth |-> g.now.depth + 1, sequence |-> g.sequence + 1]
             k == [g EXCEPT !.queued = @ \cup {text}, !.sequence = @ + 1, !.queue = @ \cup {new}]
  <2>1. h = k
    BY <1>2 DEF Enqueue
  <2>2. new \in State /\ new.text = text /\ new.sequence = g.sequence + 1
    BY DEF QueueInv, IsGuided, State
  <2> HIDE DEF new
  <2>3. /\ k.at = g.at /\ k.now = g.now /\ k.splits = g.splits /\ k.cut = g.cut /\ k.seen = g.seen
        /\ k.queued = g.queued \cup {text} /\ k.sequence = g.sequence + 1 /\ k.queue = g.queue \cup {new}
        /\ k \in [at : {k.at}, queue : {k.queue}, sequence : {k.sequence}, seen : {k.seen},
                  queued : {k.queued}, now : {k.now}, splits : {k.splits}, used : {k.used},
                  allowance : {k.allowance}, cut : {k.cut}]
    BY DEF QueueInv, IsGuided
  <2> HIDE DEF k
  <2>4. IsGuided(k)
    BY <2>2, <2>3 DEF QueueInv, IsGuided
  <2>5. k.queued = {s.text : s \in k.queue} /\ k.queued \cap k.seen = {}
    BY <1>2, <2>2, <2>3 DEF QueueInv
  <2>6. ASSUME NEW s \in k.queue PROVE s.sequence <= k.sequence
    BY <2>2, <2>3 DEF QueueInv, IsGuided, State
  <2>7. ASSUME NEW s \in g.queue PROVE s.sequence # new.sequence /\ s.text # new.text
    BY <1>2, <2>2 DEF QueueInv, IsGuided, State
  <2>8. ASSUME NEW s \in k.queue, NEW t \in k.queue, s.sequence = t.sequence \/ s.text = t.text
        PROVE  s = t
    BY <2>3, <2>7, <2>8 DEF QueueInv
  <2> QED
    BY <2>1, <2>3, <2>4, <2>5, <2>6, <2>8 DEF QueueInv
<1> QED
  BY <1>1, <1>2

\* A step that expands no text.
LEMMA GuidedGoesOn ==
  ASSUME NEW g, GuidedInv(g), NEW h, QueueInv(h), h.seen = g.seen, g.queued \subseteq h.queued,
         h.now = g.now, g.cut => h.cut, g.at # "solved", InHand(h) => InHand(g),
         h.cut \/ ~InHand(g) \/ InHand(h) \/ Followed(h, g.now.text),
         h.at \in {"refine", "split"} => Region(h.now.text).focused.text = NoText,
         h.at = "split" =>
           /\ Region(h.now.text).refined = NoText
           /\ Continuations(Region(h.now.text)) \subseteq h.seen \cup h.queued \cup Range(h.splits),
         h.at = "no-proof" => h.queue = {} /\ ~h.cut
  PROVE  GuidedInv(h)
<1>1. \A text : Followed(g, text) => Followed(h, text)
  BY DEF Followed
<1>2. ~h.cut => \A text \in h.seen : Followed(h, text) \/ (InHand(h) /\ text = h.now.text)
  BY <1>1 DEF GuidedInv
<1>3. 0 \in h.seen \cup h.queued
  BY DEF GuidedInv
<1>4. \A text \in h.seen : ~Complete(text)
  BY DEF GuidedInv
<1>5. InHand(h) => h.now.text \in h.seen
  BY DEF GuidedInv
<1> QED
  BY <1>2, <1>3, <1>4, <1>5 DEF GuidedInv

LEMMA InitialIsGuided ==
  ASSUME task \in GoalTasks, NEW allowance
  PROVE  /\ GuidedInv(InitialGuided(allowance))
         /\ "shapeless" \in task.on => GuidedInv(At(InitialGuided(allowance), "no-proof"))
<1> DEFINE root == [text |-> 0, depth |-> 0, sequence |-> 0]
<1>1. root \in State /\ root.text = 0 /\ root.sequence = 0
  BY Regions DEF State
<1> HIDE DEF root
<1>2. <<>> \in Seq(Texts \cup {NoText})
  OBVIOUS
<1> DEFINE Like(at) == [at : {at}, queue : {{root}}, sequence : {0}, seen : {{}}, queued : {{0}}, now : {root},
                        splits : {<<>>}, used : {0}, allowance : {allowance}, cut : {FALSE}]
<1>3. ASSUME NEW at, NEW h \in Like(at), at = "pop" \/ (at = "no-proof" /\ "shapeless" \in task.on)
      PROVE  GuidedInv(h)
  <2>1. /\ h.at = at /\ h.queue = {root} /\ h.sequence = 0 /\ h.seen = {} /\ h.queued = {0}
        /\ h.now = root /\ h.splits = <<>> /\ h.cut = FALSE
    BY <1>3
  <2>2. h \in [at : {h.at}, queue : {h.queue}, sequence : {h.sequence}, seen : {h.seen},
               queued : {h.queued}, now : {h.now}, splits : {h.splits}, used : {h.used},
               allowance : {h.allowance}, cut : {h.cut}]
    BY <1>3
  <2> HIDE DEF Like
  <2>3. IsGuided(h)
    <3>1. h.queue \subseteq State /\ h.sequence \in Nat /\ h.seen \subseteq Texts /\ h.now \in State
      BY <1>1, <2>1
    <3>2. h.splits \in Seq(Texts \cup {NoText}) /\ h.cut \in BOOLEAN
      BY <1>2, <2>1
    <3> QED
      BY <2>2, <3>1, <3>2 DEF IsGuided
  <2>4. QueueInv(h)
    BY <1>1, <2>1, <2>3 DEF QueueInv
  <2>5. ~InHand(h) /\ h.at \notin {"refine", "split"}
    BY <1>3, <2>1 DEF InHand
  <2> QED
    BY <1>3, <2>1, <2>4, <2>5 DEF GuidedInv
<1>4. InitialGuided(allowance) \in Like("pop")
  BY DEF InitialGuided, root
<1>5. At(InitialGuided(allowance), "no-proof") \in Like("no-proof")
  BY <1>4 DEF At
<1> HIDE DEF Like
<1> QED
  BY <1>3, <1>4, <1>5

\* A step that moves on with the queue as it is, or with one text more.
IsRecord(g) ==
  g \in [at : {g.at}, queue : {g.queue}, sequence : {g.sequence}, seen : {g.seen},
         queued : {g.queued}, now : {g.now}, splits : {g.splits}, used : {g.used},
         allowance : {g.allowance}, cut : {g.cut}]

SameTexts(g, h) ==
  /\ IsRecord(h) /\ h.queue = g.queue /\ h.queued = g.queued /\ h.seen = g.seen
  /\ h.sequence = g.sequence /\ h.now = g.now

LEMMA SameTextsQueue ==
  ASSUME NEW g, QueueInv(g), NEW h, SameTexts(g, h),
         h.splits \in Seq(Texts \cup {NoText}), h.cut \in BOOLEAN
  PROVE  QueueInv(h)
<1>1. IsGuided(h)
  BY DEF QueueInv, IsGuided, IsRecord, SameTexts
<1> QED
  BY <1>1, SameQueue DEF SameTexts

LEMMA GuidedPops ==
  ASSUME task \in GoalTasks, GuidedInv(guided), GuidedPop
  PROVE  GuidedInv(guided')
<1>1. PICK g : g = guided
  OBVIOUS
<1>2. QueueInv(g) /\ IsRecord(g) /\ g.at = "pop" /\ GuidedInv(g)
  BY <1>1 DEF GuidedPop, Guides, GuidedInv, QueueInv, IsGuided, IsRecord
<1>3. g.splits \in Seq(Texts \cup {NoText}) /\ g.cut \in BOOLEAN
  BY <1>2 DEF QueueInv, IsGuided
<1>4. ASSUME NEW h, SameTexts(g, h), h.splits = g.splits, h.cut \in BOOLEAN, g.cut => h.cut,
             \/ h.at = "exhausted"
             \/ h.at = "no-proof" /\ h.queue = {} /\ ~h.cut
      PROVE  GuidedInv(h)
  <2>1. QueueInv(h)
    BY <1>2, <1>3, <1>4, SameTextsQueue
  <2> QED
    BY <1>2, <1>4, <2>1, GuidedGoesOn DEF InHand, SameTexts
<1>5. CASE g.queue = {}
  <2> DEFINE h == At(g, IF g.cut THEN "exhausted" ELSE "no-proof")
  <2>1. /\ SameTexts(g, h) /\ h.at = (IF g.cut THEN "exhausted" ELSE "no-proof")
        /\ h.cut = g.cut /\ h.splits = g.splits
    BY <1>2 DEF At, IsRecord, SameTexts
  <2>2. guided' = h
    BY <1>1, <1>5 DEF GuidedPop, GuidedStep
  <2> HIDE DEF h
  <2> QED
    BY <1>3, <1>4, <1>5, <2>1, <2>2 DEF SameTexts
<1>6. CASE g.queue # {} /\ guided' = [g EXCEPT !.at = "exhausted", !.cut = TRUE]
  <2> DEFINE h == [g EXCEPT !.at = "exhausted", !.cut = TRUE]
  <2>1. SameTexts(g, h) /\ h.at = "exhausted" /\ h.cut = TRUE /\ h.splits = g.splits
    BY <1>2 DEF IsRecord, SameTexts
  <2> HIDE DEF h
  <2> QED
    BY <1>4, <1>6, <2>1 DEF h
<1>7. CASE g.queue # {} /\ guided' # [g EXCEPT !.at = "exhausted", !.cut = TRUE]
  <2>1. PICK s : s = Best(g)
    OBVIOUS
  <2>2. s \in g.queue /\ s \in State /\ s.text \in Texts /\ s.text \in g.queued /\ s.text \notin g.seen
    <3>1. s \in g.queue
      BY <1>2, <1>7, <2>1, BestIsQueued DEF QueueInv, IsGuided
    <3> QED
      BY <1>2, <3>1 DEF QueueInv, IsGuided, State
  <2>3. PICK r : r = Region(s.text)
    OBVIOUS
  <2> DEFINE popped == [g EXCEPT !.queue = @ \ {s}, !.queued = @ \ {s.text}, !.now = s]
             e == [popped EXCEPT !.seen = @ \cup {s.text}]
  <2>4. \/ guided' = e /\ (~r.loads \/ (r.goals = 0 /\ ~r.rebuilds))
        \/ guided' = At(e, "solved") /\ r.goals = 0
        \/ guided' = [e EXCEPT !.cut = TRUE] /\ r.goals # 0
        \/ guided' = At(e, "focus") /\ r.goals # 0
    BY <1>1, <1>7, <2>1, <2>2, <2>3 DEF GuidedPop, GuidedStep, AlreadyExpanded
  <2>5. /\ IsRecord(e) /\ e.queue = g.queue \ {s} /\ e.queued = g.queued \ {s.text} /\ e.now = s
        /\ e.seen = g.seen \cup {s.text} /\ e.sequence = g.sequence
        /\ e.at = "pop" /\ e.cut = g.cut /\ e.splits = g.splits
    BY <1>2 DEF IsRecord
  <2> HIDE DEF popped, e
  <2>6. QueueInv(e)
    <3>1. IsGuided(e)
      BY <1>2, <2>2, <2>5 DEF QueueInv, IsGuided, IsRecord
    <3>2. e.queued = {t.text : t \in e.queue}
      BY <1>2, <2>2, <2>5 DEF QueueInv
    <3> QED
      BY <1>2, <2>2, <2>5, <3>1, <3>2 DEF QueueInv
  <2>7. \A text : Followed(g, text) => Followed(e, text)
    BY <2>5 DEF Followed
  <2>8. ASSUME NEW h, SameTexts(e, h), h.splits = e.splits, h.cut \in BOOLEAN, e.cut => h.cut,
               h.at \in {"pop", "solved", "focus"},
               h.cut \/ r.goals = 0 \/ ~r.loads \/ h.at = "focus",
               h.at = "solved" \/ ~(r.loads /\ r.goals = 0 /\ r.rebuilds)
        PROVE  GuidedInv(h)
    <3>1. QueueInv(h)
      BY <1>3, <2>5, <2>6, <2>8, SameTextsQueue
    <3>2. /\ h.seen = g.seen \cup {s.text} /\ h.now = s /\ h.queued = g.queued \ {s.text}
          /\ g.cut => h.cut
      BY <2>5, <2>8 DEF SameTexts
    <3>3. 0 \in h.seen \cup h.queued
      BY <1>2, <3>2 DEF GuidedInv
    <3>4. ASSUME ~h.cut, NEW text \in h.seen
          PROVE  Followed(h, text) \/ (InHand(h) /\ text = h.now.text)
      <4>1. CASE text = s.text
        BY <2>3, <2>8, <3>2, <3>4, <4>1 DEF Followed, Continuations, InHand
      <4>2. CASE text # s.text
        BY <1>2, <3>2, <3>4, <4>2 DEF GuidedInv, InHand, Followed
      <4> QED
        BY <4>1, <4>2
    <3>5. ASSUME h.at # "solved", NEW text \in h.seen
          PROVE  ~Complete(text)
      <4>1. CASE text = s.text
        BY <2>3, <2>8, <3>5, <4>1 DEF Complete
      <4>2. CASE text # s.text
        BY <1>2, <3>2, <4>2 DEF GuidedInv
      <4> QED
        BY <4>1, <4>2
    <3> QED
      BY <2>8, <3>1, <3>2, <3>3, <3>4, <3>5 DEF GuidedInv
  <2>9. CASE guided' = e /\ (~r.loads \/ (r.goals = 0 /\ ~r.rebuilds))
    BY <1>3, <2>5, <2>8, <2>9 DEF SameTexts
  <2>10. CASE guided' = At(e, "solved") /\ r.goals = 0
    <3> DEFINE h == At(e, "solved")
    <3>1. SameTexts(e, h) /\ h.at = "solved" /\ h.cut = e.cut /\ h.splits = e.splits
      BY <2>5 DEF At, IsRecord, SameTexts
    <3> HIDE DEF h
    <3>2. GuidedInv(h)
      BY <1>3, <2>5, <2>8, <2>10, <3>1
    <3> QED
      BY <2>10, <3>2 DEF h
  <2>11. CASE guided' = [e EXCEPT !.cut = TRUE] /\ r.goals # 0
    <3> DEFINE h == [e EXCEPT !.cut = TRUE]
    <3>1. SameTexts(e, h) /\ h.at = "pop" /\ h.cut = TRUE /\ h.splits = e.splits
      BY <2>5 DEF IsRecord, SameTexts
    <3> HIDE DEF h
    <3>2. GuidedInv(h)
      BY <2>8, <2>11, <3>1
    <3> QED
      BY <2>11, <3>2 DEF h
  <2>12. CASE guided' = At(e, "focus") /\ r.goals # 0
    <3> DEFINE h == At(e, "focus")
    <3>1. SameTexts(e, h) /\ h.at = "focus" /\ h.cut = e.cut /\ h.splits = e.splits
      BY <2>5 DEF At, IsRecord, SameTexts
    <3> HIDE DEF h
    <3>2. GuidedInv(h)
      BY <1>3, <2>5, <2>8, <2>12, <3>1
    <3> QED
      BY <2>12, <3>2 DEF h
  <2> QED
    BY <2>4, <2>9, <2>10, <2>11, <2>12
<1> QED
  BY <1>5, <1>6, <1>7

LEMMA GuidedFocuses ==
  ASSUME task \in GoalTasks, GuidedInv(guided), GuidedFocus
  PROVE  GuidedInv(guided')
<1>1. PICK g : g = guided
  OBVIOUS
<1>2. QueueInv(g) /\ IsRecord(g) /\ g.at = "focus" /\ GuidedInv(g)
  BY <1>1 DEF GuidedFocus, Guides, GuidedInv, QueueInv, IsGuided, IsRecord
<1>3. g.now.text \in Texts /\ g.splits \in Seq(Texts \cup {NoText}) /\ g.cut \in BOOLEAN
  BY <1>2 DEF QueueInv, IsGuided, State
<1>4. PICK f : f = Region(g.now.text).focused
  OBVIOUS
<1>5. f.text \in Texts \cup {NoText} /\ NoText \notin Texts
  BY <1>3, <1>4, Regions
<1> DEFINE done == [g EXCEPT !.used = @ + f.costs]
<1>6. \/ guided' = [g EXCEPT !.at = "pop", !.cut = TRUE]
      \/ guided' = [g EXCEPT !.at = "pop", !.cut = TRUE, !.used = g.allowance]
      \/ f.text # NoText /\ guided' = At(Enqueue(done, f.text), "pop")
      \/ f.text = NoText /\ guided' = [done EXCEPT !.at = "refine", !.cut = @ \/ f.deep]
  BY <1>1, <1>4 DEF GuidedFocus, GuidedStep
<1>7. ASSUME NEW h, SameTexts(g, h), h.at = "pop", h.cut = TRUE, h.splits = g.splits
      PROVE  GuidedInv(h)
  <2>1. QueueInv(h)
    BY <1>2, <1>3, <1>7, SameTextsQueue
  <2> QED
    BY <1>2, <1>7, <2>1, GuidedGoesOn DEF InHand, SameTexts
<1>8. CASE guided' = [g EXCEPT !.at = "pop", !.cut = TRUE]
  <2> DEFINE h == [g EXCEPT !.at = "pop", !.cut = TRUE]
  <2>1. SameTexts(g, h) /\ h.at = "pop" /\ h.cut = TRUE /\ h.splits = g.splits
    BY <1>2 DEF IsRecord, SameTexts
  <2> HIDE DEF h
  <2> QED
    BY <1>7, <1>8, <2>1 DEF h
<1>9. CASE guided' = [g EXCEPT !.at = "pop", !.cut = TRUE, !.used = g.allowance]
  <2> DEFINE h == [g EXCEPT !.at = "pop", !.cut = TRUE, !.used = g.allowance]
  <2>1. SameTexts(g, h) /\ h.at = "pop" /\ h.cut = TRUE /\ h.splits = g.splits
    BY <1>2 DEF IsRecord, SameTexts
  <2> HIDE DEF h
  <2> QED
    BY <1>7, <1>9, <2>1 DEF h
<1>10. SameTexts(g, done) /\ done.at = "focus" /\ done.cut = g.cut /\ done.splits = g.splits
  BY <1>2 DEF IsRecord, SameTexts
<1> HIDE DEF done
<1>11. QueueInv(done)
  BY <1>2, <1>3, <1>10, SameTextsQueue
<1>12. CASE f.text # NoText /\ guided' = At(Enqueue(done, f.text), "pop")
  <2> DEFINE e == Enqueue(done, f.text)
             h == At(e, "pop")
  <2>1. /\ QueueInv(e) /\ e.at = "focus" /\ e.now = g.now /\ e.splits = g.splits /\ e.cut = g.cut /\ e.seen = g.seen
        /\ g.queued \subseteq e.queued /\ f.text \in e.seen \cup e.queued
    BY <1>5, <1>10, <1>11, <1>12, Enqueued DEF SameTexts
  <2> HIDE DEF e
  <2>2. SameTexts(e, h) /\ h.at = "pop" /\ h.cut = e.cut /\ h.splits = e.splits
    BY <2>1 DEF At, QueueInv, IsGuided, IsRecord, SameTexts
  <2> HIDE DEF h
  <2>3. QueueInv(h)
    BY <1>3, <2>1, <2>2, SameTextsQueue
  <2>4. Followed(h, g.now.text)
    BY <1>4, <1>12, <2>1, <2>2 DEF Followed, Continuations, SameTexts
  <2>5. GuidedInv(h)
    BY <1>2, <2>1, <2>2, <2>3, <2>4, GuidedGoesOn DEF InHand, SameTexts
  <2> QED
    BY <1>12, <2>5 DEF e, h
<1>13. CASE f.text = NoText /\ guided' = [done EXCEPT !.at = "refine", !.cut = @ \/ f.deep]
  <2> DEFINE h == [done EXCEPT !.at = "refine", !.cut = @ \/ f.deep]
  <2>1. SameTexts(g, h) /\ h.at = "refine" /\ h.cut = (done.cut \/ f.deep) /\ h.splits = g.splits
    BY <1>10 DEF IsRecord, SameTexts
  <2> HIDE DEF h
  <2>2. h.cut \in BOOLEAN /\ (g.cut => h.cut)
    BY <1>10, <2>1
  <2>3. QueueInv(h)
    BY <1>2, <1>3, <2>1, <2>2, SameTextsQueue
  <2>4. GuidedInv(h)
    BY <1>2, <1>4, <1>13, <2>1, <2>2, <2>3, GuidedGoesOn DEF InHand, SameTexts
  <2> QED
    BY <1>13, <2>4 DEF h
<1> QED
  BY <1>6, <1>8, <1>9, <1>12, <1>13

LEMMA GuidedRefines ==
  ASSUME task \in GoalTasks, GuidedInv(guided), GuidedRefine
  PROVE  GuidedInv(guided')
<1>1. PICK g : g = guided
  OBVIOUS
<1>2. QueueInv(g) /\ IsRecord(g) /\ g.at = "refine" /\ GuidedInv(g)
  BY <1>1 DEF GuidedRefine, Guides, GuidedInv, QueueInv, IsGuided, IsRecord
<1>3. g.now.text \in Texts /\ g.splits \in Seq(Texts \cup {NoText}) /\ g.cut \in BOOLEAN
  BY <1>2 DEF QueueInv, IsGuided, State
<1>4. PICK r : r = Region(g.now.text)
  OBVIOUS
<1>5. /\ r.refined \in Texts \cup {NoText} /\ NoText \notin Texts
      /\ r.focused.text = NoText
  BY <1>2, <1>3, <1>4, Regions DEF GuidedInv
<1> DEFINE charged == [g EXCEPT !.used = @ + 1]
<1>6. \/ guided' = [g EXCEPT !.at = "exhausted", !.cut = TRUE]
      \/ r.refined # NoText /\ guided' = At(Enqueue(charged, r.refined), "pop")
      \/ r.refined = NoText /\ guided' = [charged EXCEPT !.at = "split", !.splits = r.splits]
  BY <1>1, <1>4 DEF GuidedRefine, GuidedStep
<1>7. SameTexts(g, charged) /\ charged.at = "refine" /\ charged.cut = g.cut /\ charged.splits = g.splits
  BY <1>2 DEF IsRecord, SameTexts
<1> HIDE DEF charged
<1>8. QueueInv(charged)
  BY <1>2, <1>3, <1>7, SameTextsQueue
<1>9. CASE guided' = [g EXCEPT !.at = "exhausted", !.cut = TRUE]
  <2> DEFINE h == [g EXCEPT !.at = "exhausted", !.cut = TRUE]
  <2>1. SameTexts(g, h) /\ h.at = "exhausted" /\ h.cut = TRUE /\ h.splits = g.splits
    BY <1>2 DEF IsRecord, SameTexts
  <2> HIDE DEF h
  <2>2. QueueInv(h)
    BY <1>2, <1>3, <2>1, SameTextsQueue
  <2>3. GuidedInv(h)
    BY <1>2, <2>1, <2>2, GuidedGoesOn DEF InHand, SameTexts
  <2> QED
    BY <1>9, <2>3 DEF h
<1>10. CASE r.refined # NoText /\ guided' = At(Enqueue(charged, r.refined), "pop")
  <2> DEFINE e == Enqueue(charged, r.refined)
             h == At(e, "pop")
  <2>1. /\ QueueInv(e) /\ e.now = g.now /\ e.splits = g.splits /\ e.cut = g.cut /\ e.seen = g.seen
        /\ g.queued \subseteq e.queued /\ r.refined \in e.seen \cup e.queued
    BY <1>5, <1>7, <1>8, <1>10, Enqueued DEF SameTexts
  <2> HIDE DEF e
  <2>2. SameTexts(e, h) /\ h.at = "pop" /\ h.cut = e.cut /\ h.splits = e.splits
    BY <2>1 DEF At, QueueInv, IsGuided, IsRecord, SameTexts
  <2> HIDE DEF h
  <2>3. QueueInv(h)
    BY <1>3, <2>1, <2>2, SameTextsQueue
  <2>4. Followed(h, g.now.text)
    BY <1>4, <1>5, <1>10, <2>1, <2>2 DEF Followed, Continuations, SameTexts
  <2>5. GuidedInv(h)
    BY <1>2, <2>1, <2>2, <2>3, <2>4, GuidedGoesOn DEF InHand, SameTexts
  <2> QED
    BY <1>10, <2>5 DEF e, h
<1>11. CASE r.refined = NoText /\ guided' = [charged EXCEPT !.at = "split", !.splits = r.splits]
  <2> DEFINE h == [charged EXCEPT !.at = "split", !.splits = r.splits]
  <2>1. SameTexts(g, h) /\ h.at = "split" /\ h.cut = g.cut /\ h.splits = r.splits
    BY <1>7 DEF IsRecord, SameTexts
  <2> HIDE DEF h
  <2>2. r.splits \in Seq(Texts \cup {NoText})
    BY <1>3, <1>4, Regions
  <2>3. QueueInv(h)
    BY <1>2, <1>3, <2>1, <2>2, SameTextsQueue
  <2>4. Continuations(r) \subseteq Range(h.splits)
    BY <1>5, <1>11, <2>1 DEF Continuations
  <2>5. GuidedInv(h)
    BY <1>2, <1>4, <1>5, <1>11, <2>1, <2>3, <2>4, GuidedGoesOn DEF InHand, SameTexts
  <2> QED
    BY <1>11, <2>5 DEF h
<1> QED
  BY <1>6, <1>9, <1>10, <1>11

LEMMA GuidedSplits ==
  ASSUME task \in GoalTasks, GuidedInv(guided), GuidedSplit
  PROVE  GuidedInv(guided')
<1>1. PICK g : g = guided
  OBVIOUS
<1>2. QueueInv(g) /\ IsRecord(g) /\ g.at = "split" /\ GuidedInv(g)
  BY <1>1 DEF GuidedSplit, Guides, GuidedInv, QueueInv, IsGuided, IsRecord
<1>3. g.now.text \in Texts /\ g.splits \in Seq(Texts \cup {NoText}) /\ g.cut \in BOOLEAN
  BY <1>2 DEF QueueInv, IsGuided, State
<1>4. PICK r : r = Region(g.now.text)
  OBVIOUS
<1>5. /\ r.focused.text = NoText /\ r.refined = NoText
      /\ Continuations(r) \subseteq g.seen \cup g.queued \cup Range(g.splits)
      /\ NoText \notin Continuations(r) /\ NoText \notin Texts
  <2>1. r.focused.text = NoText /\ r.refined = NoText
        /\ Continuations(r) \subseteq g.seen \cup g.queued \cup Range(g.splits)
    BY <1>2, <1>4 DEF GuidedInv
  <2> QED
    BY <2>1, Regions DEF Continuations
<1> DEFINE charged == [g EXCEPT !.used = @ + 1, !.splits = Tail(@)]
<1>6. \/ g.splits = <<>> /\ guided' = At(g, "pop")
      \/ guided' = [g EXCEPT !.at = "pop", !.cut = TRUE]
      \/ g.splits # <<>> /\ Head(g.splits) = NoText /\ guided' = charged
      \/ g.splits # <<>> /\ Head(g.splits) # NoText /\ guided' = Enqueue(charged, Head(g.splits))
  BY <1>1 DEF GuidedSplit, GuidedStep
<1>7. CASE guided' = [g EXCEPT !.at = "pop", !.cut = TRUE]
  <2> DEFINE h == [g EXCEPT !.at = "pop", !.cut = TRUE]
  <2>1. SameTexts(g, h) /\ h.at = "pop" /\ h.cut = TRUE /\ h.splits = g.splits
    BY <1>2 DEF IsRecord, SameTexts
  <2> HIDE DEF h
  <2>2. QueueInv(h)
    BY <1>2, <1>3, <2>1, SameTextsQueue
  <2>3. GuidedInv(h)
    BY <1>2, <2>1, <2>2, GuidedGoesOn DEF InHand, SameTexts
  <2> QED
    BY <1>7, <2>3 DEF h
<1>8. CASE g.splits = <<>> /\ guided' = At(g, "pop")
  <2> DEFINE h == At(g, "pop")
  <2>1. SameTexts(g, h) /\ h.at = "pop" /\ h.cut = g.cut /\ h.splits = g.splits
    BY <1>2 DEF At, IsRecord, SameTexts
  <2> HIDE DEF h
  <2>2. QueueInv(h)
    BY <1>2, <1>3, <2>1, SameTextsQueue
  <2>3. Range(g.splits) = {}
    BY <1>8 DEF Range
  <2>4. Followed(h, g.now.text)
    BY <1>4, <1>5, <2>1, <2>3 DEF Followed, SameTexts
  <2>5. GuidedInv(h)
    BY <1>2, <2>1, <2>2, <2>4, GuidedGoesOn DEF InHand, SameTexts
  <2> QED
    BY <1>8, <2>5 DEF h
<1>9. CASE g.splits # <<>> /\ guided' \in {charged, Enqueue(charged, Head(g.splits))}
  <2>1. PICK first : first = Head(g.splits)
    OBVIOUS
  <2>2. first \in Texts \cup {NoText} /\ Tail(g.splits) \in Seq(Texts \cup {NoText})
    BY <1>3, <1>9, <2>1
  <2>3. Range(g.splits) \subseteq {first} \cup Range(Tail(g.splits))
    <3>1. /\ Len(g.splits) \in Nat /\ Len(Tail(g.splits)) = Len(g.splits) - 1
          /\ DOMAIN g.splits = 1..Len(g.splits) /\ DOMAIN Tail(g.splits) = 1..(Len(g.splits) - 1)
          /\ \A k \in 1..(Len(g.splits) - 1) : Tail(g.splits)[k] = g.splits[k + 1]
          /\ g.splits[1] = first
      BY <1>3, <1>9, <2>1
    <3>2. ASSUME NEW k \in 1..Len(g.splits), k # 1
          PROVE  g.splits[k] \in Range(Tail(g.splits))
      <4>1. k - 1 \in 1..(Len(g.splits) - 1) /\ k - 1 + 1 = k
        BY <3>1, <3>2
      <4> QED
        BY <3>1, <4>1 DEF Range
    <3> QED
      BY <3>1, <3>2 DEF Range
  <2>4. SameTexts(g, charged) /\ charged.at = "split" /\ charged.cut = g.cut /\ charged.splits = Tail(g.splits)
    BY <1>2 DEF IsRecord, SameTexts
  <2> HIDE DEF charged
  <2>5. QueueInv(charged)
    BY <1>2, <1>3, <2>2, <2>4, SameTextsQueue
  <2>6. ASSUME NEW h, QueueInv(h), h.at = "split", h.now = g.now, h.cut = g.cut, h.seen = g.seen,
               g.queued \subseteq h.queued, h.splits = Tail(g.splits),
               first = NoText \/ first \in h.seen \cup h.queued
        PROVE  GuidedInv(h)
    <3>1. Continuations(r) \subseteq h.seen \cup h.queued \cup Range(h.splits)
      BY <1>5, <2>3, <2>6
    <3> QED
      BY <1>2, <1>4, <1>5, <2>6, <3>1, GuidedGoesOn DEF InHand
  <2>7. CASE first = NoText /\ guided' = charged
    BY <2>4, <2>5, <2>6, <2>7 DEF SameTexts
  <2>8. CASE first # NoText /\ guided' = Enqueue(charged, first)
    <3> DEFINE e == Enqueue(charged, first)
    <3>1. /\ QueueInv(e) /\ e.at = "split" /\ e.now = g.now /\ e.splits = Tail(g.splits) /\ e.cut = g.cut /\ e.seen = g.seen
          /\ g.queued \subseteq e.queued /\ first \in e.seen \cup e.queued
      BY <2>2, <2>4, <2>5, <2>8, Enqueued DEF SameTexts
    <3> HIDE DEF e
    <3> QED
      BY <2>6, <2>8, <3>1 DEF e
  <2> QED
    BY <1>6, <1>7, <1>8, <2>1, <2>7, <2>8
<1> QED
  BY <1>6, <1>7, <1>8, <1>9

LEMMA GuidedOfTask ==
  ASSUME task' = task, GuidedInv(guided')
  PROVE  GuidedInv(guided)'
BY DEF GuidedInv, QueueInv, IsGuided, State, Texts, Followed, Complete, Continuations, Region, InHand

LEMMA GuidedKeeps ==
  ASSUME task \in GoalTasks, GuidedInv(guided), GoalNext
  PROVE  GuidedInv(guided)'
<1>1. task' = task
  BY DEF GoalNext, GoalSteps, Starts, Focuses, Focused, Productive, Cases, CaseProof, Construct, Choose,
         ConstructorProof, Refute, Check, Guide, GuidedPop, GuidedFocus, GuidedRefine, GuidedSplit,
         GuidedStep, Guided, GuidedProof, Enumerate, Try, TermProof, GoalCloses, GoalRaises, GoalExpires,
         goalVars
<1>2. CASE GuidedPop \/ GuidedFocus \/ GuidedRefine \/ GuidedSplit
  BY <1>1, <1>2, GuidedPops, GuidedFocuses, GuidedRefines, GuidedSplits, GuidedOfTask
<1>3. CASE Guide
  <2>1. GuidedInv(guided')
    BY <1>3, InitialIsGuided DEF Guide
  <2> QED
    BY <1>1, <2>1, GuidedOfTask
<1>4. CASE guided' = guided
  BY <1>1, <1>4, GuidedOfTask
<1>5. CASE /\ ~(GuidedPop \/ GuidedFocus \/ GuidedRefine \/ GuidedSplit) /\ ~Guide
  <2>1. guided' = guided
    BY <1>5 DEF GoalNext, GoalSteps, Starts, Focuses, Focused, Productive, Cases, CaseProof, Construct,
         Choose, ConstructorProof, Refute, Check, Guided, GuidedProof, Enumerate, Try, TermProof,
         GoalCloses, GoalRaises, GoalExpires, goalVars, searchVars
  <2> QED
    BY <1>4, <2>1
<1> QED
  BY <1>2, <1>3, <1>5

-----------------------------------------------------------------------------
(* The prover.                                                             *)

LEMMA FocusedAcross ==
  ASSUME FocusedInv, GoalNext
  PROVE  FocusedInv'
<1>1. CASE Focuses
  BY <1>1, FocusedKeeps DEF Focuses
<1>2. CASE UNCHANGED <<problem, calls, returned, decided, verdict>>
  BY <1>2 DEF FocusedInv, DecidedInv, Deciding, Undecided, Current, Over, HasTerm
<1>3. CASE ~Focuses
  <2>1. UNCHANGED <<problem, calls, returned, decided, verdict>>
    BY <1>3 DEF GoalNext, GoalSteps, Starts, Focused, Productive, Cases, CaseProof, Construct, Choose,
         ConstructorProof, Refute, Check, Guide, GuidedPop, GuidedFocus, GuidedRefine, GuidedSplit,
         GuidedStep, Guided, GuidedProof, Enumerate, Try, TermProof, GoalCloses, GoalRaises, GoalExpires,
         focusedVars
  <2> QED
    BY <1>2, <2>1
<1> QED
  BY <1>1, <1>3

LEMMA GoalStarts ==
  ASSUME GoalInit
  PROVE  GoalInv
<1>1. FocusedInv
  <2>1. calls = <<>> /\ decided = <<>> /\ returned = <<>> /\ verdict = "asked"
    BY DEF GoalInit, FocusedInit
  <2>2. calls \in Seq({}) /\ Len(calls) = 0
    BY <2>1
  <2>3. DecidedInv
    BY <2>1, <2>2 DEF DecidedInv, Sequence, Undecided
  <2> QED
    BY <2>1, <2>3 DEF FocusedInv, Over
<1>2. CreditInv
  BY DEF GoalInit, CreditInv, Ending
<1>3. OrderInv
  BY DEF GoalInit, OrderInv, LateStages, Unsolved, Ending
<1>4. task \in GoalTasks /\ GuidedInv(guided)
  BY InitialIsGuided DEF GoalInit
<1> QED
  BY <1>1, <1>2, <1>3, <1>4 DEF GoalInv

\* A step of the prover, or one of the other searches.
LEMMA GoalKeeps ==
  ASSUME GoalInv, [StructuralNext]_allVars
  PROVE  GoalInv'
<1>1. CASE GoalNext
  <2>1. task' = task
    BY <1>1 DEF GoalNext, GoalSteps, Starts, Focuses, Focused, Productive, Cases, CaseProof, Construct, Choose,
         ConstructorProof, Refute, Check, Guide, GuidedPop, GuidedFocus, GuidedRefine, GuidedSplit,
         GuidedStep, Guided, GuidedProof, Enumerate, Try, TermProof, GoalCloses, GoalRaises, GoalExpires,
         goalVars
  <2> QED
    BY <1>1, <2>1, FocusedAcross, CreditKeeps, OrderKeeps, GuidedKeeps DEF GoalInv
<1>2. CASE UNCHANGED driverVars
  <2>1. UNCHANGED <<focusedVars, task, stage, outcome, proofVars, searchVars>>
    BY <1>2 DEF driverVars, goalVars
  <2>2. FocusedInv'
    BY <2>1 DEF focusedVars, GoalInv, FocusedInv, DecidedInv, Deciding, Undecided, Current, Over, HasTerm
  <2>3. CreditInv'
    BY <2>1 DEF focusedVars, proofVars, GoalInv, CreditInv, Ending, HasTerm
  <2>4. OrderInv'
    BY <2>1 DEF searchVars, GoalInv, OrderInv, Unsolved, Ending
  <2>5. GuidedInv(guided)'
    BY <2>1, GuidedOfTask DEF searchVars, GoalInv
  <2> QED
    BY <2>1, <2>2, <2>3, <2>4, <2>5 DEF GoalInv
<1> QED
  BY <1>1, <1>2 DEF StructuralNext, Searches, SearchTroubles, ReadsPremises, Proves, ProverTroubles, GoalNext, allVars

THEOREM GoalInvariant == StructuralSpec => []GoalInv
<1>1. StructuralInit => GoalInv
  BY GoalStarts DEF StructuralInit
<1>2. GoalInv /\ [StructuralNext]_allVars => GoalInv'
  BY GoalKeeps
<1> QED BY <1>1, <1>2, PTL DEF StructuralSpec

\* Whatever was chosen, checked and rejected on the way: what leaves prove with
\* a verified result, and what is credited to it, is what was validated.
THEOREM OnlyTheProofIsCredited == StructuralSpec => []CreditIsDue
<1>1. GoalInv => CreditIsDue
  BY DEF GoalInv, CreditInv, CreditIsDue, Ending
<1> QED BY <1>1, GoalInvariant, PTL

\* No proof is reported of a region only when all of it was seen, and a goal is
\* unsolved only when every search had its turn.
THEOREM TheRegionWasSeen == StructuralSpec => []UnsolvedIsEarned
<1>1. ASSUME GoalInv, guided.at = "no-proof", "shapeless" \notin task.on
      PROVE  /\ 0 \in guided.seen /\ ~guided.cut
             /\ \A text \in guided.seen :
                  /\ Continuations(Region(text)) \subseteq guided.seen
                  /\ ~(Region(text).loads /\ Region(text).goals = 0 /\ Region(text).rebuilds)
  <2>1. guided.queue = {} /\ ~guided.cut /\ guided.queued = {} /\ ~InHand(guided)
    BY <1>1 DEF GoalInv, GuidedInv, QueueInv, InHand
  <2> QED
    BY <1>1, <2>1 DEF GoalInv, GuidedInv, Followed, Complete
<1>2. ASSUME GoalInv, stage = "done", outcome = "unsolved"
      PROVE  tried /\ complete /\ left = 0 /\ guided.at \in {"solved", "no-proof"}
  BY <1>2 DEF GoalInv, OrderInv, Unsolved, Ending
<1>3. GoalInv => UnsolvedIsEarned
  BY <1>1, <1>2 DEF UnsolvedIsEarned
<1> QED BY <1>3, GoalInvariant, PTL

-----------------------------------------------------------------------------
(* The terms of the focused search, within the prover.                     *)

\* The prover runs the search or leaves its terms alone; a deadline may pass
\* outside of it.
LEMMA ProofsAcross ==
  ASSUME FocusedProofInv, [StructuralNext]_allVars
  PROVE  FocusedProofInv'
<1>1. CASE Focuses
  <2>1. FocusedNext
    BY <1>1 DEF Focuses
  <2> QED BY <2>1, ProofsKeep
<1>2. CASE ~Focuses
  <2>1. CASE GoalNext
    <3>1. UNCHANGED <<problem, calls, returned, memo, considered, decided, verdict>>
      BY <1>2, <2>1 DEF GoalNext, GoalSteps, Starts, Focused, Productive, Cases, CaseProof, Construct, Choose,
           ConstructorProof, Refute, Check, Guide, GuidedPop, GuidedFocus, GuidedRefine, GuidedSplit,
           GuidedStep, Guided, GuidedProof, Enumerate, Try, TermProof, GoalCloses, GoalRaises, GoalExpires,
           focusedVars
    <3> QED BY <3>1, ProofsStay
  <2>2. CASE UNCHANGED driverVars
    <3>1. UNCHANGED <<problem, calls, returned, memo, considered, decided, verdict>>
      BY <2>2 DEF driverVars, focusedVars
    <3> QED BY <3>1, ProofsStay
  <2> QED
    BY <2>1, <2>2 DEF StructuralNext, Searches, SearchTroubles, ReadsPremises, Proves, ProverTroubles, GoalNext, allVars
<1> QED BY <1>1, <1>2

LEMMA ProofInvariant == StructuralSpec => []FocusedProofInv
<1>1. StructuralInit => FocusedProofInv
  BY TypedInitially, OwnedInitially DEF StructuralInit, GoalInit, FocusedProofInv
<1>2. FocusedProofInv /\ [StructuralNext]_allVars => FocusedProofInv'
  BY ProofsAcross
<1> QED BY <1>1, <1>2, PTL DEF StructuralSpec

\* Every term the focused search of the prover remembers or returns has the type
\* it was found for, whatever the prover does before and after it.
THEOREM EveryProofIsTyped == StructuralSpec => []ProofsAreProofs
<1>1. FocusedProofInv => ProofsAreProofs
  BY TypedShows DEF FocusedProofInv, ProofsAreProofs
<1> QED BY <1>1, ProofInvariant, PTL

\* Every decision prove receives from the focused search was made in the proof
\* it receives, so that a label is published for an action that is there.
THEOREM TheLabelsAreOfTheProof == StructuralSpec => []LabelsAreTheProofs
<1>1. FocusedProofInv => LabelsAreTheProofs
  BY OwnedShows DEF FocusedProofInv, LabelsAreTheProofs
<1> QED BY <1>1, ProofInvariant, PTL

-----------------------------------------------------------------------------
(* The structural search and its parts.                                    *)

\* The search, its premises, their indexes and the prover behave in the whole as
\* they do by themselves.
THEOREM TheStructuralSearchRunsItsParts == StructuralSpec => Spec /\ RetrievalSpec /\ IndexSpec
<1>1. StructuralInit => Init /\ RetrievalInit /\ IndexInit
  BY DEF StructuralInit, RetrievalInit
<1>2. [StructuralNext]_allVars => [Next]_vars
  BY DEF StructuralNext, allVars, Searches, SearchTroubles, ReadsPremises, Proves, ProverTroubles, Next
<1>3. [StructuralNext]_allVars => [RetrievalNext]_retrievalVars
  BY DEF StructuralNext, allVars, Searches, SearchTroubles, ReadsPremises, Proves, ProverTroubles
<1>4. RetrievalInv /\ [RetrievalNext]_retrievalVars => [IndexNext]_indexVars
  <2> SUFFICES ASSUME RetrievalInv, [RetrievalNext]_retrievalVars PROVE [IndexNext]_indexVars
    OBVIOUS
  <2>1. ASSUME NEW g \in Goals, Pools(g) PROVE [IndexNext]_indexVars
    BY <2>1, RetrievalAssumption DEF Pools, IndexNext, indexVars
  <2>2. CASE UNCHANGED indexVars
    BY <2>2
  <2>3. ASSUME NEW l \in Wideners, Widen(l) PROVE [IndexNext]_indexVars
    <3>1. widening[l] # Asleep /\ (UNCHANGED indexVars \/ Pools(widening[l].goal))
      BY <2>3 DEF Widen, indexVars
    <3>2. widening[l].goal \in Goals
      BY <3>1 DEF RetrievalInv, LanesAre, LaneIs, LaneStates
    <3> QED BY <2>1, <2>2, <3>1, <3>2
  <2> QED
    BY <2>1, <2>2, <2>3 DEF RetrievalNext, Looks, StartsWidening, StopsWidening, retrievalVars, indexVars
<1> QED BY <1>1, <1>2, <1>3, <1>4, RetrievalStarts, RetrievalKeeps, PTL DEF StructuralSpec, Spec, RetrievalSpec, IndexSpec

\* What was proved of the parts is true of the whole.
THEOREM TheStructuralSearchKeepsItsPromises ==
  StructuralSpec => /\ [](/\ IndexIsFresh /\ RetrievalIsPrefixStable /\ WideningKeepsItsPool
                          /\ ResultsAreWhole /\ StackHolds /\ CreditIsDue /\ UnsolvedIsEarned
                          /\ ProofsAreProofs /\ LabelsAreTheProofs)
                    /\ KeepsContract
BY TheStructuralSearchRunsItsParts, IndexStaysFresh, NarrowBeginsWide, WideningIsSteady, SolutionsAreWhole,
   StackAlwaysHolds, SearchKeepsContract, OnlyTheProofIsCredited, TheRegionWasSeen,
   EveryProofIsTyped, TheLabelsAreOfTheProof, PTL

=================================================================================
