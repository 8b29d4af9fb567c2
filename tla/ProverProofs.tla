------------------------------ MODULE ProverProofs ------------------------------
(***************************************************************************)
(* Proofs about the prover as a whole, for every set of tasks and faults.  *)
(*                                                                         *)
(* First its parts that have no proofs of their own.                       *)
(*                                                                         *)
(* NativeOwner, HandlesStayGood: the branches are a forest in which a      *)
(* parent has a lower number than its children, so the branches of an      *)
(* owner are Ordered and what is live is reached from below.  The lemmas   *)
(* say what each operation of the owner makes of such a forest             *)
(* (GrownSound, RetiredHolds, RetiredGo), that the collection finds just   *)
(* the branches nobody holds (CollectedSound), and that a replay from the  *)
(* nearest live ancestor gets through (RerunProceeds).                     *)
(*                                                                         *)
(* NativeRun, NativeRunIsHonest: ClaimInv ties what a run claims to the    *)
(* inputs it was made of at every place of the run, PlaceInv the place to  *)
(* what the search has found.                                              *)
(*                                                                         *)
(* InteractiveRun (when stop answers the worker is gone and Agda is not    *)
(* frozen, and a goal that is reported as accepted was validated as it was *)
(* named): what is left of a command is a sequence, so the invariant       *)
(* RunInv ties each such sequence to what the steps before it have brought *)
(* about; the lemmas After... say which sequence a step leaves, and the    *)
(* lemmas ...Keeps that RunInv survives it.                                *)
(*                                                                         *)
(* Budgets (no scope grants a call it has no allowance for, an inner scope *)
(* never counts more than the ones around it, and a scope that finishes as *)
(* clean never spent more than it had): a sample of the areas is a fold    *)
(* over a set of them (FoldSet), which the community modules define as the *)
(* choice of a function that satisfies a recursive equation.  The first    *)
(* lemmas say that there is one, and that what every step of the fold      *)
(* preserves is true of its result; the others say what a step of the      *)
(* module may do to the ledgers and the meters (LedgerMoves, MeterMoves),  *)
(* and that the invariant BudgetInv survives that.                         *)
(*                                                                         *)
(* Then that each part behaves in the prover as it does by itself, so that *)
(* what was proved of the parts, here and in JointSearchProofs, holds of   *)
(* the prover.                                                             *)
(***************************************************************************)
EXTENDS Prover, JointSearchProofs

-----------------------------------------------------------------------------
(* The owner of the native states, and the run that uses it.               *)

\* Every set of naturals with a member has a least one.
LEMMA LeastOf ==
  ASSUME NEW S, S \subseteq Nat, S # {}
  PROVE  \E n \in S : \A m \in S : n <= m
<1>1. PICK R : IsWellFoundedOn(R, Nat) /\ \A m, n \in Nat : m < n => <<m, n>> \in R
  <2>1. IsWellFoundedOn(OpToRel(<, Nat), Nat)
    BY NatLessThanWellFounded
  <2>2. \A m, n \in Nat : m < n => <<m, n>> \in OpToRel(<, Nat)
    BY DEF OpToRel
  <2> QED BY <2>1, <2>2, Zenon
<1>2. PICK n \in S : \A m \in S : ~(<<m, n>> \in R)
  <2>1. IsWellFoundedOn(R, Nat)
    BY <1>1
  <2> QED BY <2>1, WFMin, Zenon
<1>3. \A m \in S : ~(m < n)
  BY <1>1, <1>2
<1> QED BY <1>3

\* And a greatest one, if it is bounded.
LEMMA GreatestNatural ==
  ASSUME NEW S, S \subseteq Nat, S # {}, NEW b \in Nat, \A m \in S : m <= b
  PROVE  \E n \in S : \A m \in S : m <= n
<1> DEFINE Uppers == {x \in Nat : \A m \in S : m <= x}
<1>1. Uppers \subseteq Nat
  OBVIOUS
<1>2. Uppers # {}
  BY DEF Uppers
<1>3. PICK x \in Uppers : \A y \in Uppers : x <= y
  BY <1>1, <1>2, LeastOf, Zenon
<1>4. x \in Nat /\ \A m \in S : m <= x
  BY <1>3
<1>5. CASE x \in S
  BY <1>4, <1>5
<1>6. CASE x \notin S
  <2>1. \A m \in S : m < x
    BY <1>4, <1>6
  <2>2. x # 0
    <3>1. PICK m \in S : TRUE
      OBVIOUS
    <3> QED BY <3>1, <2>1
  <2>3. x - 1 \in Nat /\ \A m \in S : m <= x - 1
    BY <2>1, <2>2, <1>4
  <2>4. x - 1 \in Uppers
    BY <2>3
  <2> QED BY <2>4, <1>3, <1>4
<1> QED BY <1>5, <1>6

-----------------------------------------------------------------------------
(* The tree of the branches.                                               *)

Handles == [epoch : Nat, branch : Nat]
Keys == {<<>>} \cup (Nat \X Actions)
Leases == {"caller", "released", "replay"}
Branches == [parent : Nat, resident : BOOLEAN, lease : Leases, children : Nat, application : Keys]
Applications == [key : Keys, child : Nat]
Forests == UNION {[N -> Branches] : N \in SUBSET Nat}
Owners == [epoch : Nat, closed : BOOLEAN, next : Nat \ {0}, branches : Forests, applications : SUBSET Applications]

LEMMA ForestIs ==
  ASSUME NEW f
  PROVE  f \in Forests <=> DOMAIN f \subseteq Nat /\ f \in [DOMAIN f -> Branches]
BY DEF Forests

\* Every branch but the root is below one with a smaller number; the root stays.
Tree(o) ==
  /\ Numbers(o) \subseteq 0..(o.next - 1)
  /\ \A n \in Numbers(o) \ {0} : Parents(o, n) \in Numbers(o) /\ Parents(o, n) < n
  /\ Numbers(o) # {} => 0 \in Numbers(o)
  /\ 0 \in Numbers(o) => Parents(o, 0) = 0 /\ o.branches[0].resident /\ o.branches[0].lease = "caller"

Kids(o, n) == {m \in Numbers(o) \ {0} : Parents(o, m) = n}

\* The counts are right.
Counted(o) == \A n \in Numbers(o) : o.branches[n].children = Cardinality(Kids(o, n))

\* A branch with a state is held by a caller.
Leased(o) == \A n \in Numbers(o) : o.branches[n].resident => o.branches[n].lease = "caller"

\* An application leads to a child with a state.
Leads(o, apps) ==
  \A x \in apps :
    /\ x.child \in Numbers(o) \ {0} /\ o.branches[x.child].resident
    /\ Parents(o, x.child) = x.key[1] /\ o.branches[x.child].application = x.key

Reused(o) == Leads(o, o.applications)

Sound(o) == o \in Owners /\ Tree(o) /\ Counted(o) /\ Leased(o) /\ Reused(o)

\* What nobody holds has something below it, but for n.
Needed(o, n) ==
  \A m \in Numbers(o) \ {0} : m # n /\ o.branches[m].lease # "caller" => o.branches[m].children > 0

LEMMA OwnerIs ==
  ASSUME NEW o \in Owners
  PROVE  /\ o.epoch \in Nat /\ o.closed \in BOOLEAN /\ o.next \in Nat \ {0}
         /\ Numbers(o) \subseteq Nat /\ o.branches \in [Numbers(o) -> Branches]
         /\ o.applications \subseteq Applications
         /\ \A n \in Numbers(o) : o.branches[n] \in Branches /\ Parents(o, n) \in Nat
<1>1. o.branches \in Forests
  BY DEF Owners
<1>2. Numbers(o) \subseteq Nat /\ o.branches \in [Numbers(o) -> Branches]
  BY <1>1, ForestIs DEF Numbers
<1>3. \A n \in Numbers(o) : o.branches[n] \in Branches
  BY <1>2
<1>4. \A n \in Numbers(o) : Parents(o, n) \in Nat
  BY <1>3 DEF Parents, Branches
<1> QED BY <1>2, <1>3, <1>4 DEF Owners

\* The least set, as one uses it.
LEMMA AboveIs ==
  ASSUME NEW o, NEW n \in Numbers(o)
  PROVE  /\ Above(o, n) \subseteq Numbers(o) /\ n \in Above(o, n)
         /\ Upward(o, Above(o, n))
         /\ \A S \in SUBSET Numbers(o) : n \in S /\ Upward(o, S) => Above(o, n) \subseteq S
BY DEF Above, Upward

\* Numbers fall on the way up, which ends at the root.
LEMMA AboveIsBelow ==
  ASSUME NEW o, Sound(o), NEW n \in Numbers(o)
  PROVE  /\ \A m \in Above(o, n) : m \in Nat /\ m <= n
         /\ 0 \in Above(o, n)
<1>1. /\ Numbers(o) \subseteq Nat
      /\ \A m \in Numbers(o) : Parents(o, m) \in Numbers(o) /\ Parents(o, m) <= m /\ (m # 0 => Parents(o, m) < m)
  BY OwnerIs DEF Sound, Tree
<1> DEFINE Low == {m \in Numbers(o) : m <= n}
<1>2. Low \subseteq Numbers(o) /\ n \in Low /\ Upward(o, Low)
  BY <1>1 DEF Upward
<1>3. Above(o, n) \subseteq Low
  BY <1>2, AboveIs, Zenon
<1>4. Above(o, n) \subseteq Nat /\ Above(o, n) # {}
  BY <1>1, AboveIs
<1>5. PICK m \in Above(o, n) : \A x \in Above(o, n) : m <= x
  BY <1>4, LeastOf, Zenon
<1>6. m \in Numbers(o) /\ Parents(o, m) \in Above(o, n)
  BY <1>1, <1>5, AboveIs DEF Upward
<1>7. m = 0
  BY <1>1, <1>5, <1>6
<1> QED BY <1>1, <1>3, <1>5, <1>7

\* Above n but n itself is above its parent; and everything above n but n is the
\* parent of something above n.
LEMMA AboveSteps ==
  ASSUME NEW o, Sound(o), NEW n \in Numbers(o)
  PROVE  /\ \A m \in Above(o, n) : Above(o, m) \subseteq Above(o, n)
         /\ \A m \in Above(o, n) : m # n => m \in Above(o, Parents(o, n))
         /\ \A m \in Above(o, n) : m # n => \E x \in Above(o, n) \ {0} : Parents(o, x) = m
<1>1. \A m \in Numbers(o) : Parents(o, m) \in Numbers(o) /\ (m = 0 => Parents(o, m) = m)
  BY DEF Sound, Tree
<1>2. ASSUME NEW m \in Above(o, n) PROVE Above(o, m) \subseteq Above(o, n)
  BY AboveIs, <1>2
<1>3. ASSUME NEW m \in Above(o, n), m # n PROVE m \in Above(o, Parents(o, n))
  <2> DEFINE S == {n} \cup Above(o, Parents(o, n))
  <2>1. Parents(o, n) \in Numbers(o)
    BY <1>1
  <2>2. S \subseteq Numbers(o) /\ n \in S /\ Upward(o, S)
    BY <2>1, AboveIs DEF Upward
  <2>3. Above(o, n) \subseteq S
    BY <2>2, AboveIs, Zenon
  <2> QED BY <2>3, <1>3
<1>4. ASSUME NEW m \in Above(o, n), m # n, ~\E x \in Above(o, n) \ {0} : Parents(o, x) = m PROVE FALSE
  <2> DEFINE S == Above(o, n) \ {m}
  <2>1. S \subseteq Numbers(o) /\ n \in S
    BY AboveIs, <1>4
  <2>2. Upward(o, S)
    <3> SUFFICES ASSUME NEW x \in S, Parents(o, x) \in Numbers(o) PROVE Parents(o, x) \in S
      BY DEF Upward
    <3>1. x \in Above(o, n) /\ x \in Numbers(o) /\ Parents(o, x) \in Above(o, n)
      BY AboveIs DEF Upward
    <3> QED BY <3>1, <1>1, <1>4
  <2>3. Above(o, n) \subseteq S
    BY <2>1, <2>2, AboveIs, Zenon
  <2> QED BY <2>3, <1>4
<1> QED BY <1>2, <1>3, <1>4

\* There is one way up: of two above n, one is above the other.
LEMMA OneWayUp ==
  ASSUME NEW o, Sound(o), NEW n \in Numbers(o), NEW x \in Above(o, n), NEW y \in Above(o, n)
  PROVE  x \in Above(o, y) \/ y \in Above(o, x)
<1> DEFINE S == {z \in Above(o, n) : x \in Above(o, z) \/ z \in Above(o, x)}
<1>1. Above(o, n) \subseteq Numbers(o) /\ x \in Numbers(o)
  BY AboveIs
<1>2. S \subseteq Numbers(o) /\ n \in S
  BY <1>1, AboveIs
<1>3. Upward(o, S)
  <2> SUFFICES ASSUME NEW z \in S, Parents(o, z) \in Numbers(o) PROVE Parents(o, z) \in S
    BY DEF Upward
  <2>1. z \in Numbers(o) /\ Parents(o, z) \in Above(o, n)
    BY <1>1, AboveIs DEF Upward
  <2>2. CASE z \in Above(o, x)
    <3>1. Parents(o, z) \in Above(o, x)
      BY <2>2, <1>1, AboveIs DEF Upward
    <3> QED BY <3>1, <2>1
  <2>3. CASE x \in Above(o, z)
    <3>1. CASE x = z
      <4>1. z \in Above(o, x)
        BY <3>1, <1>1, AboveIs
      <4> QED BY <4>1, <2>2
    <3>2. CASE x # z
      <4>1. x \in Above(o, Parents(o, z))
        BY <3>2, <2>3, <2>1, AboveSteps
      <4> QED BY <4>1, <2>1
    <3> QED BY <3>1, <3>2
  <2> QED BY <2>2, <2>3
<1>4. Above(o, n) \subseteq S
  BY <1>2, <1>3, AboveIs, Zenon
<1> QED BY <1>4

-----------------------------------------------------------------------------
(* Collection.                                                             *)

LEMMA KidsAreFinite ==
  ASSUME NEW o, Sound(o), NEW n
  PROVE  /\ IsFiniteSet(Kids(o, n)) /\ Cardinality(Kids(o, n)) \in Nat
         /\ Cardinality(Kids(o, n)) = 0 <=> Kids(o, n) = {}
         /\ \A S \in SUBSET Kids(o, n) : IsFiniteSet(S) /\ Cardinality(S) \in Nat
<1>1. Kids(o, n) \in SUBSET Nat /\ \A m \in Kids(o, n) : m <= o.next
  BY OwnerIs DEF Sound, Tree, Kids
<1>2. o.next \in Nat
  BY OwnerIs DEF Sound
<1>3. IsFiniteSet(Kids(o, n))
  BY <1>1, <1>2, FS_BoundedSetOfNaturals
<1> QED BY <1>3, FS_EmptySet, FS_CardinalityType, FS_Subset

LEMMA CountsAre ==
  ASSUME NEW o, Sound(o), NEW n \in Numbers(o)
  PROVE  /\ o.branches[n].children = Cardinality(Kids(o, n)) /\ o.branches[n].children \in Nat
         /\ o.branches[n].children = 0 <=> Kids(o, n) = {}
BY KidsAreFinite DEF Sound, Counted

\* What goes is held by nobody, goes with all that is below it, and takes its
\* parent along when that has nothing else.
LEMMA GoingGoes ==
  ASSUME NEW o, Sound(o), NEW n \in Numbers(o) \ {0}
  PROVE  /\ Going(o, n) \subseteq Numbers(o) \ {0} /\ Going(o, n) \subseteq Above(o, n)
         /\ \A g \in Going(o, n) : o.branches[g].lease # "caller"
         /\ \A x \in Numbers(o) \ {0} : Parents(o, x) \in Going(o, n) => x \in Going(o, n)
         /\ \A g \in Going(o, n) :
              Parents(o, g) # 0 /\ o.branches[Parents(o, g)].lease # "caller" /\ o.branches[Parents(o, g)].children = 1
                => Parents(o, g) \in Going(o, n)
         /\ ~Astray(o, n)
         /\ n \notin Going(o, n) => Going(o, n) = {} /\ (o.branches[n].lease # "caller" => o.branches[n].children # 0)
<1> DEFINE G == Going(o, n)
           Alone(x) == o.branches[x].lease # "caller" /\ o.branches[x].children = IF x = n THEN 0 ELSE 1
<1>1. G = {m \in Above(o, n) \ {0} : \A x \in Above(o, n) : x >= m => Alone(x)}
  BY DEF Going
<1>2. /\ Above(o, n) \subseteq Numbers(o) /\ n \in Above(o, n)
      /\ \A m \in Above(o, n) : m \in Nat /\ m <= n
      /\ \A m \in Above(o, n) \ {0} : Parents(o, m) \in Above(o, n) /\ Parents(o, m) < m
  BY AboveIs, AboveIsBelow DEF Upward, Sound, Tree
<1>3. G \subseteq Above(o, n) \ {0} /\ \A g \in G : Alone(g)
  BY <1>1, <1>2
<1>4. ASSUME NEW g \in G, Parents(o, g) # 0, Alone(Parents(o, g)) PROVE Parents(o, g) \in G
  <2>1. /\ g \in Above(o, n) \ {0} /\ g \in Numbers(o) /\ Parents(o, g) \in Above(o, n) \ {0}
        /\ Parents(o, g) < g /\ Parents(o, g) \in Nat /\ g \in Nat
    BY <1>2, <1>3, <1>4
  <2>2. ASSUME NEW x \in Above(o, n), x >= Parents(o, g) PROVE Alone(x)
    <3>0. x \in Nat /\ x \in Numbers(o)
      BY <1>2
    <3>1. CASE x >= g
      BY <3>1, <1>1
    <3>2. CASE x = Parents(o, g)
      BY <3>2, <1>4
    <3>3. CASE x < g /\ x # Parents(o, g)
      <4>1. CASE x \in Above(o, g)
        <5>1. x \in Above(o, Parents(o, g))
          BY <4>1, <3>3, <2>1, AboveSteps
        <5>2. x <= Parents(o, g)
          BY <5>1, <2>1, <1>2, AboveIsBelow
        <5> QED BY <5>2, <3>3, <3>0, <2>1, <2>2
      <4>2. CASE g \in Above(o, x)
        <5>1. g <= x
          BY <4>2, <3>0, AboveIsBelow
        <5> QED BY <5>1, <3>3, <3>0, <2>1
      <4> QED BY <4>1, <4>2, <2>1, OneWayUp
    <3> QED BY <3>0, <3>1, <3>2, <3>3, <2>1
  <2> QED BY <2>1, <2>2, <1>1
<1>5. ASSUME NEW x \in Numbers(o) \ {0}, Parents(o, x) \in G PROVE x \in G
  <2>1. x \in Kids(o, Parents(o, x)) /\ Parents(o, x) \in Numbers(o) /\ Parents(o, x) \in Above(o, n)
    BY <1>5, <1>2, <1>3 DEF Kids
  <2>2. Alone(Parents(o, x))
    BY <1>5, <1>3
  <2>3. Parents(o, x) # n
    BY <2>1, <2>2, CountsAre
  <2>4. PICK y \in Above(o, n) \ {0} : Parents(o, y) = Parents(o, x)
    BY <2>1, <2>3, AboveSteps
  <2>5. y \in Kids(o, Parents(o, x))
    BY <2>4, <1>2 DEF Kids
  <2>6. Cardinality(Kids(o, Parents(o, x))) = 1
    BY <2>1, <2>2, <2>3, CountsAre
  <2>7. \E z : Kids(o, Parents(o, x)) = {z}
    BY <2>6, KidsAreFinite, FS_Singleton
  <2>8. x = y
    BY <2>1, <2>5, <2>7
  <2>9. \A z \in Above(o, n) : z >= y => z >= Parents(o, y)
    BY <1>2
  <2> QED BY <2>4, <2>8, <2>9, <1>1, <1>5
<1>6. ASSUME NEW g \in G PROVE n \in G
  <2>1. \A x \in Above(o, n) : x >= n => x >= g
    BY <1>2, <1>3
  <2> QED BY <2>1, <1>1, <1>2
<1>7. ASSUME n \notin G, o.branches[n].lease # "caller" PROVE o.branches[n].children # 0
  <2>1. \A x \in Above(o, n) : x >= n => x = n
    BY <1>2
  <2> QED BY <2>1, <1>1, <1>2, <1>7
<1>8. ~Astray(o, n)
  <2>1. ~(o.branches[n].children < 0)
    BY CountsAre
  <2>2. ASSUME NEW g \in G PROVE Parents(o, g) \in Numbers(o) /\ ~(o.branches[Parents(o, g)].children <= 0)
    <3>1. Parents(o, g) \in Numbers(o) /\ g \in Kids(o, Parents(o, g))
      BY <1>2, <1>3 DEF Kids
    <3>2. o.branches[Parents(o, g)].children \in Nat /\ o.branches[Parents(o, g)].children # 0
      BY <3>1, CountsAre
    <3> QED BY <3>1, <3>2
  <2> QED BY <2>1, <2>2 DEF Astray
<1>9. \A g \in G : Parents(o, g) # 0 /\ o.branches[Parents(o, g)].lease # "caller" /\ o.branches[Parents(o, g)].children = 1
        => Parents(o, g) \in G
  <2>1. ASSUME NEW g \in G PROVE Parents(o, g) # n
    BY <1>2, <1>3
  <2> QED BY <2>1, <1>4
<1> QED BY <1>2, <1>3, <1>5, <1>6, <1>7, <1>8, <1>9

\* The fields but the tree of an owner.
Alike(o, w) == w.epoch = o.epoch /\ w.closed = o.closed

\* Branches that nobody holds are deleted together with all below them.
LEMMA WithoutIs ==
  ASSUME NEW o, Sound(o), NEW gone, gone \subseteq Numbers(o) \ {0},
         \A x \in Numbers(o) \ {0} : Parents(o, x) \in gone => x \in gone
  PROVE  LET w == Without(o, gone)
         IN /\ Numbers(w) = Numbers(o) \ gone /\ Alike(o, w) /\ w.next = o.next /\ w.applications = o.applications
            /\ w \in Owners
            /\ \A m \in Numbers(w) :
                 /\ Parents(w, m) = Parents(o, m) /\ w.branches[m].lease = o.branches[m].lease
                 /\ w.branches[m].resident = o.branches[m].resident
                 /\ w.branches[m].application = o.branches[m].application
                 /\ Kids(w, m) = Kids(o, m) \ gone
                 /\ w.branches[m].children = Cardinality(Kids(w, m))
<1> DEFINE w == Without(o, gone)
           Lost(m) == {g \in gone : Parents(o, g) = m}
           less(m) == [o.branches[m] EXCEPT !.children = @ - Cardinality(Lost(m))]
           f == [m \in Numbers(o) \ gone |-> less(m)]
<1>1. w = [o EXCEPT !.branches = f]
  BY DEF Without
<1>2. o \in Owners /\ Numbers(o) \subseteq Nat /\ o.next \in Nat \ {0} /\ o.applications \in SUBSET Applications
      /\ \A m \in Numbers(o) : o.branches[m] \in Branches
  BY OwnerIs DEF Sound
<1>3. ASSUME NEW m \in Numbers(o)
      PROVE  /\ Kids(o, m) \ gone \in SUBSET Kids(o, m)
             /\ o.branches[m].children - Cardinality(Lost(m)) = Cardinality(Kids(o, m) \ gone)
  <2>1. Lost(m) \in SUBSET Kids(o, m) /\ Kids(o, m) \ gone \in SUBSET Kids(o, m)
    BY DEF Kids
  <2>2. Kids(o, m) = (Kids(o, m) \ gone) \cup Lost(m) /\ (Kids(o, m) \ gone) \cap Lost(m) = {}
    BY DEF Kids
  <2>3. /\ IsFiniteSet(Kids(o, m) \ gone) /\ IsFiniteSet(Lost(m))
        /\ Cardinality(Kids(o, m) \ gone) \in Nat /\ Cardinality(Lost(m)) \in Nat
    BY <2>1, KidsAreFinite
  <2>4. Cardinality(Kids(o, m)) = Cardinality(Kids(o, m) \ gone) + Cardinality(Lost(m)) - Cardinality({})
    BY <2>2, <2>3, FS_Union
  <2>5. o.branches[m].children = Cardinality(Kids(o, m))
    BY CountsAre
  <2> QED BY <2>1, <2>3, <2>4, <2>5, FS_EmptySet
<1>4. ASSUME NEW m \in Numbers(o) \ gone PROVE less(m) \in Branches
  <2>1. o.branches[m].children - Cardinality(Lost(m)) \in Nat
    <3>1. Kids(o, m) \ gone \in SUBSET Kids(o, m)
      BY <1>3
    <3>2. Cardinality(Kids(o, m) \ gone) \in Nat
      BY <3>1, KidsAreFinite
    <3> QED BY <3>2, <1>3
  <2> HIDE DEF Lost
  <2> QED BY <2>1, <1>2 DEF Branches
<1>5. \A m \in Numbers(o) \ gone :
        /\ f[m] = less(m) /\ less(m) \in Branches /\ less(m).parent = o.branches[m].parent /\ less(m).lease = o.branches[m].lease
        /\ less(m).resident = o.branches[m].resident /\ less(m).application = o.branches[m].application
        /\ less(m).children = o.branches[m].children - Cardinality(Lost(m))
  <2> SUFFICES ASSUME NEW m \in Numbers(o) \ gone
               PROVE  /\ f[m] = less(m) /\ less(m) \in Branches /\ less(m).parent = o.branches[m].parent
                      /\ less(m).lease = o.branches[m].lease
                      /\ less(m).resident = o.branches[m].resident /\ less(m).application = o.branches[m].application
                      /\ less(m).children = o.branches[m].children - Cardinality(Lost(m))
    OBVIOUS
  <2>1. f[m] = less(m) /\ less(m) \in Branches
    BY <1>4
  <2> HIDE DEF Lost
  <2>2. o.branches[m] \in Branches
    BY <1>2
  <2> QED BY <2>1, <2>2 DEF Branches
<1> HIDE DEF less, Lost
<1>6. DOMAIN f = Numbers(o) \ gone /\ f = [n \in DOMAIN f |-> f[n]] /\ \A n \in DOMAIN f : f[n] \in Branches
  BY <1>5
<1> HIDE DEF f
<1>7. w = [o EXCEPT !.next = o.next, !.branches = f, !.applications = o.applications]
  BY <1>1, <1>2 DEF Owners
<1>8. w \in Owners /\ Alike(o, w) /\ w.branches = f /\ w.applications = o.applications /\ w.next = o.next
  <2>1. DOMAIN f \subseteq Nat
    BY <1>2, <1>6
  <2> HIDE DEF w
  <2>2. \A n \in DOMAIN f : f[n] \in Branches
    BY <1>6
  <2>3. f = [n \in DOMAIN f |-> f[n]]
    BY <1>6
  <2>4. f \in Forests
    <3>1. f \in [DOMAIN f -> Branches]
      BY <2>2, <2>3
    <3> QED BY <2>1, <3>1, ForestIs
  <2>5. o \in [epoch : Nat, closed : BOOLEAN, next : Nat \ {0}, branches : Forests, applications : SUBSET Applications]
    BY <1>2 DEF Owners
  <2>6. w \in Owners /\ w.branches = f /\ w.applications = o.applications /\ w.next = o.next
    BY <2>4, <2>5, <1>7 DEF Owners
  <2> QED BY <2>6, <2>5, <1>7 DEF Alike
<1> HIDE DEF w
<1>9. Numbers(w) = Numbers(o) \ gone
  BY <1>6, <1>8 DEF Numbers
<1>10. \A m \in Numbers(w) : Parents(w, m) = Parents(o, m)
  BY <1>5, <1>8, <1>9 DEF Parents
<1>11. \A m \in Numbers(w) : Kids(w, m) = Kids(o, m) \ gone
  BY <1>9, <1>10 DEF Kids
<1>12. ASSUME NEW m \in Numbers(w)
       PROVE /\ w.branches[m].lease = o.branches[m].lease
             /\ w.branches[m].resident = o.branches[m].resident
             /\ w.branches[m].application = o.branches[m].application
             /\ w.branches[m].children = Cardinality(Kids(w, m))
  BY <1>3, <1>5, <1>8, <1>9, <1>11
<1> QED BY <1>8, <1>9, <1>10, <1>11, <1>12 DEF w

LEMMA WithoutSound ==
  ASSUME NEW o, Sound(o), NEW gone, gone \subseteq Numbers(o) \ {0},
         \A g \in gone : o.branches[g].lease # "caller",
         \A x \in Numbers(o) \ {0} : Parents(o, x) \in gone => x \in gone
  PROVE  Sound(Without(o, gone))
<1> DEFINE w == Without(o, gone)
<1>1. /\ Numbers(w) = Numbers(o) \ gone /\ Alike(o, w) /\ w.next = o.next /\ w.applications = o.applications
      /\ w \in Owners
      /\ \A m \in Numbers(w) :
           /\ Parents(w, m) = Parents(o, m) /\ w.branches[m].lease = o.branches[m].lease
           /\ w.branches[m].resident = o.branches[m].resident
           /\ w.branches[m].application = o.branches[m].application
           /\ w.branches[m].children = Cardinality(Kids(w, m))
  BY WithoutIs
<1> HIDE DEF w
<1>2. Tree(w)
  BY <1>1 DEF Sound, Tree
<1>3. Counted(w)
  BY <1>1 DEF Counted
<1>4. Leased(w)
  BY <1>1 DEF Sound, Leased
<1>5. Reused(w)
  <2> SUFFICES ASSUME NEW x \in o.applications
               PROVE  /\ x.child \in Numbers(w) \ {0} /\ w.branches[x.child].resident
                      /\ Parents(w, x.child) = x.key[1] /\ w.branches[x.child].application = x.key
    BY <1>1 DEF Reused, Leads
  <2>1. /\ x.child \in Numbers(o) \ {0} /\ o.branches[x.child].resident
        /\ Parents(o, x.child) = x.key[1] /\ o.branches[x.child].application = x.key
    BY DEF Sound, Reused, Leads
  <2>2. x.child \notin gone
    BY <2>1 DEF Sound, Leased
  <2> QED BY <1>1, <2>1, <2>2
<1> QED BY <1>1, <1>2, <1>3, <1>4, <1>5 DEF Sound, w

\* What is left after a collection needs what it has.
LEMMA CollectedSound ==
  ASSUME NEW o, Sound(o), NEW n \in Numbers(o) \ {0}, Needed(o, n)
  PROVE  LET w == Without(o, Going(o, n))
         IN /\ Collected(o, n) = {w} /\ Sound(w) /\ Needed(w, 0) /\ Alike(o, w) /\ w.next = o.next
            /\ Numbers(w) \subseteq Numbers(o)
            /\ \A m \in Numbers(o) : o.branches[m].lease = "caller" => m \in Numbers(w)
            /\ \A m \in Numbers(w) : w.branches[m].lease = o.branches[m].lease /\ w.branches[m].resident = o.branches[m].resident
<1> DEFINE G == Going(o, n)
           w == Without(o, G)
<1>1. /\ G \subseteq Numbers(o) \ {0} /\ G \subseteq Above(o, n)
      /\ \A g \in G : o.branches[g].lease # "caller"
      /\ \A x \in Numbers(o) \ {0} : Parents(o, x) \in G => x \in G
      /\ \A g \in G :
           Parents(o, g) # 0 /\ o.branches[Parents(o, g)].lease # "caller" /\ o.branches[Parents(o, g)].children = 1
             => Parents(o, g) \in G
      /\ ~Astray(o, n)
      /\ n \notin G => G = {} /\ (o.branches[n].lease # "caller" => o.branches[n].children # 0)
  BY GoingGoes
<1>2. Collected(o, n) = {w}
  BY <1>1 DEF Collected
<1> HIDE DEF G
<1>3. Sound(w)
  BY <1>1, WithoutSound
<1>4. /\ Numbers(w) = Numbers(o) \ G /\ Alike(o, w) /\ w.next = o.next
      /\ \A m \in Numbers(w) :
           /\ Parents(w, m) = Parents(o, m) /\ w.branches[m].lease = o.branches[m].lease
           /\ w.branches[m].resident = o.branches[m].resident
           /\ Kids(w, m) = Kids(o, m) \ G
  BY <1>1, WithoutIs
<1> HIDE DEF w
<1>5. ASSUME NEW m \in Numbers(w) \ {0}, w.branches[m].lease # "caller" PROVE w.branches[m].children > 0
  <2>1. m \in Numbers(o) \ {0} /\ m \notin G /\ o.branches[m].lease # "caller" /\ m \in Nat
    BY <1>4, <1>5, OwnerIs DEF Sound
  <2>2. Kids(o, m) # {}
    <3>1. CASE m = n
      BY <3>1, <2>1, <1>1, CountsAre
    <3>2. CASE m # n
      BY <3>2, <2>1, CountsAre DEF Needed
    <3> QED BY <3>1, <3>2
  <2>3. Kids(w, m) # {}
    <3> SUFFICES ASSUME Kids(o, m) \subseteq G PROVE FALSE
      BY <1>4, <1>5
    <3>1. PICK g \in Kids(o, m) : TRUE
      BY <2>2
    <3>2. g \in G /\ Parents(o, g) = m /\ g \in Numbers(o) /\ g \in Above(o, n) /\ g \in Nat /\ m < g
      BY <3>1, <2>1, <1>1, OwnerIs DEF Kids, Sound, Tree
    <3>3. o.branches[m].children # 1
      BY <3>2, <2>1, <1>1
    <3>4. \A z : Kids(o, m) # {z}
      BY <3>3, <2>1, CountsAre, KidsAreFinite, FS_Singleton
    <3>5. PICK h \in Kids(o, m) : h # g
      BY <3>1, <3>4
    <3>6. h \in G /\ Parents(o, h) = m /\ h \in Numbers(o) /\ h \in Above(o, n) /\ h \in Nat /\ m < h
      BY <3>5, <2>1, <1>1, OwnerIs DEF Kids, Sound, Tree
    <3>7. ASSUME NEW x \in Numbers(o), NEW y \in Above(o, x), y # x, Parents(o, x) = m PROVE y <= m
      <4>1. y \in Above(o, m)
        BY <3>7, AboveSteps
      <4> QED BY <4>1, <2>1, AboveIsBelow
    <3>8. CASE g \in Above(o, h)
      BY <3>8, <3>2, <3>5, <3>6, <3>7, <2>1
    <3>9. CASE h \in Above(o, g)
      BY <3>9, <3>2, <3>5, <3>6, <3>7, <2>1
    <3> QED BY <3>2, <3>6, <3>8, <3>9, OneWayUp
  <2>4. m \in Numbers(w)
    BY <1>5
  <2>5. w.branches[m].children \in Nat /\ w.branches[m].children # 0
    BY <2>3, <2>4, <1>3, CountsAre
  <2> QED BY <2>5
<1>6. Needed(w, 0)
  BY <1>5 DEF Needed
<1>7. \A m \in Numbers(o) : o.branches[m].lease = "caller" => m \in Numbers(w)
  BY <1>1, <1>4
<1> QED BY <1>2, <1>3, <1>4, <1>6, <1>7 DEF w, G

-----------------------------------------------------------------------------
(* New branches, and branches that lose their state.                       *)

\* No application of apps leads to a branch of S.
Unserved(o, S, apps) == \A x \in apps : \A n \in S : x.key # o.branches[n].application

\* w is o but for what the branches of S have lost.
RetiredTo(o, S, lease, w) ==
  /\ w \in Owners /\ Alike(o, w) /\ w.next = o.next /\ Numbers(w) = Numbers(o)
  /\ w.applications \subseteq o.applications /\ Unserved(o, S, w.applications)
  /\ \A m \in Numbers(o) : Parents(w, m) = Parents(o, m) /\ w.branches[m].children = o.branches[m].children
  /\ \A m \in S : w.branches[m].lease = lease /\ w.branches[m].resident = FALSE
  /\ \A m \in Numbers(o) \ S : w.branches[m] = o.branches[m]

LEMMA RetiredIs ==
  ASSUME NEW o, Sound(o), NEW S, S \subseteq Numbers(o) \ {0}, NEW lease \in Leases
  PROVE  RetiredTo(o, S, lease, Retired(o, S, lease))
<1> DEFINE w == Retired(o, S, lease)
           lost(m) == [o.branches[m] EXCEPT !.resident = FALSE, !.application = <<>>, !.lease = lease]
           f == [m \in Numbers(o) |-> IF m \in S THEN lost(m) ELSE o.branches[m]]
           apps == {x \in o.applications : \A n \in S : x.key # o.branches[n].application}
<1>1. o \in Owners /\ Numbers(o) \subseteq Nat /\ o.next \in Nat \ {0} /\ o.applications \in SUBSET Applications
      /\ \A m \in Numbers(o) : o.branches[m] \in Branches
  BY OwnerIs DEF Sound
<1>2. w = [o EXCEPT !.next = o.next, !.branches = f, !.applications = apps]
  BY <1>1 DEF Retired, Owners
<1>3. \A m \in Numbers(o) :
        /\ lost(m) \in Branches /\ lost(m).parent = o.branches[m].parent /\ lost(m).lease = lease
        /\ lost(m).resident = FALSE /\ lost(m).children = o.branches[m].children
  <2>1. <<>> \in Keys
    BY DEF Keys
  <2> HIDE DEF Keys, Leases
  <2> QED BY <2>1, <1>1 DEF Branches
<1> HIDE DEF lost
<1>4. DOMAIN f = Numbers(o) /\ f \in [Numbers(o) -> Branches]
      /\ \A m \in Numbers(o) : f[m] = IF m \in S THEN lost(m) ELSE o.branches[m]
  BY <1>1, <1>3
<1>5. apps \subseteq o.applications /\ apps \in SUBSET Applications /\ Unserved(o, S, apps)
  BY <1>1 DEF Unserved
<1> HIDE DEF f, apps, w
<1>6. w \in Owners /\ Alike(o, w) /\ w.branches = f /\ w.applications = apps /\ w.next = o.next
  <2>1. o \in Owners /\ DOMAIN f \subseteq Nat /\ f \in [DOMAIN f -> Branches] /\ apps \in SUBSET Applications /\ o.next \in Nat \ {0}
    BY <1>1, <1>4, <1>5
  <2>2. f \in Forests
    BY <2>1, ForestIs
  <2> QED BY <2>1, <2>2, <1>2 DEF Owners, Alike
<1>7. Numbers(w) = Numbers(o) /\ \A m \in Numbers(o) : w.branches[m] = IF m \in S THEN lost(m) ELSE o.branches[m]
  BY <1>4, <1>6 DEF Numbers
<1>8. \A m \in Numbers(o) : Parents(w, m) = Parents(o, m) /\ w.branches[m].children = o.branches[m].children
  BY <1>3, <1>7 DEF Parents
<1>9. \A m \in S : w.branches[m].lease = lease /\ w.branches[m].resident = FALSE
  BY <1>3, <1>7
<1>10. \A m \in Numbers(o) \ S : w.branches[m] = o.branches[m]
  BY <1>7
<1> QED BY <1>5, <1>6, <1>7, <1>8, <1>9, <1>10 DEF w, RetiredTo

LEMMA RetiredSound ==
  ASSUME NEW o, Sound(o), NEW S, S \subseteq Numbers(o) \ {0}, NEW lease \in Leases
  PROVE  Sound(Retired(o, S, lease))
<1> DEFINE w == Retired(o, S, lease)
<1>0. RetiredTo(o, S, lease, w)
  BY RetiredIs
<1>1. /\ w \in Owners /\ Alike(o, w) /\ w.next = o.next /\ Numbers(w) = Numbers(o)
      /\ w.applications \subseteq o.applications /\ Unserved(o, S, w.applications)
      /\ \A m \in Numbers(o) : Parents(w, m) = Parents(o, m) /\ w.branches[m].children = o.branches[m].children
      /\ \A m \in S : w.branches[m].lease = lease /\ w.branches[m].resident = FALSE
      /\ \A m \in Numbers(o) \ S : w.branches[m] = o.branches[m]
  BY <1>0 DEF RetiredTo
<1> HIDE DEF w
<1>2. Tree(w)
  BY <1>1 DEF Sound, Tree
<1>3. Counted(w)
  <2>1. \A m \in Numbers(o) : Kids(w, m) = Kids(o, m)
    BY <1>1 DEF Kids
  <2> QED BY <2>1, <1>1 DEF Sound, Counted
<1>4. Leased(w)
  BY <1>1 DEF Sound, Leased
<1>5. Reused(w)
  <2> SUFFICES ASSUME NEW x \in w.applications
               PROVE  /\ x.child \in Numbers(w) \ {0} /\ w.branches[x.child].resident
                      /\ Parents(w, x.child) = x.key[1] /\ w.branches[x.child].application = x.key
    BY DEF Reused, Leads
  <2>1. /\ x.child \in Numbers(o) \ {0} /\ o.branches[x.child].resident
        /\ Parents(o, x.child) = x.key[1] /\ o.branches[x.child].application = x.key
    BY <1>1 DEF Sound, Reused, Leads
  <2>2. x.child \notin S
    BY <1>1, <2>1 DEF Unserved
  <2> QED BY <1>1, <2>1, <2>2
<1> QED BY <1>1, <1>2, <1>3, <1>4, <1>5 DEF Sound, w

LEMMA GrownIs ==
  ASSUME NEW o, Sound(o), NEW p \in Numbers(o), NEW k \in Nat, NEW application \in Keys
  PROVE  LET w == Grown(o, p, k, application)
             new == o.next..(o.next + k - 1)
         IN /\ w \in Owners /\ Alike(o, w) /\ w.next = o.next + k /\ w.applications = o.applications
            /\ Numbers(w) = Numbers(o) \cup new
            /\ \A m \in Numbers(o) :
                 /\ m \notin new /\ Parents(w, m) = Parents(o, m) /\ w.branches[m].lease = o.branches[m].lease
                 /\ w.branches[m].resident = o.branches[m].resident
                 /\ w.branches[m].application = o.branches[m].application
                 /\ w.branches[m].children = o.branches[m].children + (IF m = p /\ k > 0 THEN 1 ELSE 0)
            /\ \A m \in new :
                 /\ Parents(w, m) = (IF m = o.next THEN p ELSE m - 1) /\ w.branches[m].lease = "caller"
                 /\ w.branches[m].resident /\ w.branches[m].application = application
                 /\ w.branches[m].children = IF m = o.next + k - 1 THEN 0 ELSE 1
<1> DEFINE w == Grown(o, p, k, application)
           new == o.next..(o.next + k - 1)
           grown(n) == [parent |-> IF n = o.next THEN p ELSE n - 1, resident |-> TRUE, lease |-> "caller",
                       children |-> IF n = o.next + k - 1 THEN 0 ELSE 1, application |-> application]
           staying(n) == IF n = p /\ k > 0 THEN [o.branches[n] EXCEPT !.children = @ + 1] ELSE o.branches[n]
           f == [n \in Numbers(o) \cup new |-> IF n \in new THEN grown(n) ELSE staying(n)]
<1>1. o \in Owners /\ Numbers(o) \subseteq Nat /\ o.next \in Nat \ {0} /\ o.applications \in SUBSET Applications
      /\ \A m \in Numbers(o) : o.branches[m] \in Branches /\ m \notin new
  BY OwnerIs DEF Sound, Tree
<1>2. w = [o EXCEPT !.next = o.next + k, !.branches = f, !.applications = o.applications]
  BY <1>1 DEF Grown, Owners
<1>3. \A n \in new :
        /\ grown(n) \in Branches /\ grown(n).parent = (IF n = o.next THEN p ELSE n - 1) /\ grown(n).lease = "caller"
        /\ grown(n).resident /\ grown(n).application = application
        /\ grown(n).children = IF n = o.next + k - 1 THEN 0 ELSE 1
  <2> HIDE DEF Keys
  <2> QED BY <1>1 DEF Branches, Leases
<1>4. \A n \in Numbers(o) :
        /\ staying(n) \in Branches /\ staying(n).parent = o.branches[n].parent /\ staying(n).lease = o.branches[n].lease
        /\ staying(n).resident = o.branches[n].resident /\ staying(n).application = o.branches[n].application
        /\ staying(n).children = o.branches[n].children + (IF n = p /\ k > 0 THEN 1 ELSE 0)
  <2> HIDE DEF Keys, Leases
  <2> QED BY <1>1 DEF Branches
<1> HIDE DEF grown, staying
<1>5. DOMAIN f = Numbers(o) \cup new /\ f \in [Numbers(o) \cup new -> Branches]
      /\ (\A m \in new : f[m] = grown(m)) /\ (\A m \in Numbers(o) : f[m] = staying(m))
  BY <1>1, <1>3, <1>4
<1> HIDE DEF f, w
<1>6. w \in Owners /\ Alike(o, w) /\ w.branches = f /\ w.applications = o.applications /\ w.next = o.next + k
  <2>1. o \in Owners /\ DOMAIN f \subseteq Nat /\ f \in [DOMAIN f -> Branches] /\ o.applications \in SUBSET Applications
        /\ o.next + k \in Nat \ {0}
    BY <1>1, <1>5
  <2>2. f \in Forests
    BY <2>1, ForestIs
  <2> QED BY <2>1, <2>2, <1>2 DEF Owners, Alike
<1>7. Numbers(w) = Numbers(o) \cup new
  BY <1>5, <1>6 DEF Numbers
<1>8. \A m \in Numbers(o) :
        /\ m \notin new /\ Parents(w, m) = Parents(o, m) /\ w.branches[m].lease = o.branches[m].lease
        /\ w.branches[m].resident = o.branches[m].resident
        /\ w.branches[m].application = o.branches[m].application
        /\ w.branches[m].children = o.branches[m].children + (IF m = p /\ k > 0 THEN 1 ELSE 0)
  BY <1>1, <1>4, <1>5, <1>6 DEF Parents
<1>9. \A m \in new :
        /\ Parents(w, m) = (IF m = o.next THEN p ELSE m - 1) /\ w.branches[m].lease = "caller"
        /\ w.branches[m].resident /\ w.branches[m].application = application
        /\ w.branches[m].children = IF m = o.next + k - 1 THEN 0 ELSE 1
  BY <1>3, <1>5, <1>6 DEF Parents
<1> QED BY <1>6, <1>7, <1>8, <1>9 DEF w

LEMMA GrownSound ==
  ASSUME NEW o, Sound(o), NEW p \in Numbers(o), NEW k \in Nat, NEW application \in Keys
  PROVE  Sound(Grown(o, p, k, application))
<1> DEFINE w == Grown(o, p, k, application)
           new == o.next..(o.next + k - 1)
<1>1. /\ w \in Owners /\ w.next = o.next + k /\ w.applications = o.applications
      /\ Numbers(w) = Numbers(o) \cup new
      /\ \A m \in Numbers(o) :
           /\ m \notin new /\ Parents(w, m) = Parents(o, m) /\ w.branches[m].lease = o.branches[m].lease
           /\ w.branches[m].resident = o.branches[m].resident
           /\ w.branches[m].application = o.branches[m].application
           /\ w.branches[m].children = o.branches[m].children + (IF m = p /\ k > 0 THEN 1 ELSE 0)
      /\ \A m \in new :
           /\ Parents(w, m) = (IF m = o.next THEN p ELSE m - 1) /\ w.branches[m].lease = "caller"
           /\ w.branches[m].resident /\ w.branches[m].application = application
           /\ w.branches[m].children = IF m = o.next + k - 1 THEN 0 ELSE 1
  BY GrownIs
<1> HIDE DEF w
<1>2. o.next \in Nat \ {0} /\ Numbers(o) \subseteq 0..(o.next - 1) /\ 0 \in Numbers(o) /\ p \in Nat /\ p < o.next
      /\ \A m \in Numbers(o) : Parents(o, m) \in Numbers(o)
  BY OwnerIs DEF Sound, Tree
<1>3. Tree(w)
  <2>1. Numbers(w) \subseteq 0..(w.next - 1)
    BY <1>1, <1>2
  <2>2. ASSUME NEW n \in Numbers(w) \ {0} PROVE Parents(w, n) \in Numbers(w) /\ Parents(w, n) < n
    <3>1. CASE n \in Numbers(o)
      BY <3>1, <2>2, <1>1 DEF Sound, Tree
    <3>2. CASE n \in new
      BY <3>2, <1>1, <1>2
    <3> QED BY <3>1, <3>2, <1>1
  <2> QED BY <2>1, <2>2, <1>1, <1>2 DEF Sound, Tree
<1>4. Counted(w)
  <2> SUFFICES ASSUME NEW n \in Numbers(w) PROVE w.branches[n].children = Cardinality(Kids(w, n))
    BY DEF Counted
  <2>1. CASE n \in Numbers(o) /\ ~(n = p /\ k > 0)
    <3>1. Kids(w, n) = Kids(o, n)
      BY <2>1, <1>1, <1>2 DEF Kids
    <3>2. w.branches[n].children = o.branches[n].children /\ o.branches[n].children = Cardinality(Kids(o, n))
      BY <2>1, <1>1, CountsAre
    <3> QED BY <3>1, <3>2
  <2>2. CASE n = p /\ k > 0
    <3>1. Kids(w, n) = Kids(o, n) \cup {o.next} /\ o.next \notin Kids(o, n)
      <4>1. ASSUME NEW m \in new, m # o.next PROVE Parents(w, m) \in new
        <5>1. Parents(w, m) = m - 1
          <6>1. Parents(w, m) = (IF m = o.next THEN p ELSE m - 1)
            BY <4>1, <1>1
          <6> QED BY <6>1, <4>1
        <5>2. m - 1 \in new
          BY <4>1, <1>2
        <5> QED BY <5>1, <5>2
      <4> QED BY <4>1, <2>2, <1>1, <1>2 DEF Kids
    <3>2. Cardinality(Kids(w, n)) = Cardinality(Kids(o, n)) + 1
      BY <3>1, KidsAreFinite, FS_AddElement
    <3>3. w.branches[n].children = o.branches[n].children + 1 /\ o.branches[n].children = Cardinality(Kids(o, n))
      BY <2>2, <1>1, CountsAre
    <3> QED BY <3>2, <3>3
  <2>3. CASE n \in new /\ n = o.next + k - 1
    <3>1. Kids(w, n) = {}
      BY <2>3, <1>1, <1>2 DEF Kids
    <3> QED BY <3>1, <2>3, <1>1, FS_EmptySet
  <2>4. CASE n \in new /\ n # o.next + k - 1
    <3>1. n + 1 \in new
      BY <2>4, <1>2
    <3>2. Kids(w, n) = {n + 1}
      BY <3>1, <2>4, <1>1, <1>2 DEF Kids
    <3>3. Cardinality(Kids(w, n)) = 1
      BY <3>2, FS_Singleton, Zenon
    <3> QED BY <3>3, <2>4, <1>1
  <2> QED BY <2>1, <2>2, <2>3, <2>4, <1>1
<1>5. Leased(w)
  BY <1>1 DEF Sound, Leased
<1>6. Reused(w)
  BY <1>1 DEF Sound, Reused, Leads
<1> QED BY <1>1, <1>3, <1>4, <1>5, <1>6 DEF Sound, w

-----------------------------------------------------------------------------
(* What a request does.                                                    *)

Holds(o) == {n \in Numbers(o) : o.branches[n].lease = "caller"}
Present(o) == {n \in Numbers(o) : o.branches[n].resident}
Handle(o, n) == [epoch |-> o.epoch, branch |-> n]

LEMMA PresentIsHeld ==
  ASSUME NEW o, Sound(o)
  PROVE  Present(o) \subseteq Holds(o) /\ Holds(o) \subseteq Numbers(o) /\ Numbers(o) \subseteq Nat
BY OwnerIs DEF Sound, Leased, Present, Holds

\* The outcome x of a request leaves an owner in order.  What was held is, but for
\* gone, and what was there is, but for lost; what is held anew was given.
GoesThrough(o, gone, lost, x) ==
  /\ Sound(x.owner) /\ Needed(x.owner, 0) /\ Alike(o, x.owner) /\ o.next <= x.owner.next
  /\ x.answer \in {"ok", "rejected"} /\ (x.answer = "rejected" => x.handles = {} /\ Holds(o) \subseteq Holds(x.owner) /\ Present(o) \subseteq Present(x.owner))
  /\ x.handles \subseteq Handles /\ (gone # {} => x.handles = {})
  /\ \A h \in x.handles : h.epoch = o.epoch /\ h.branch \in Present(x.owner)
  /\ Holds(o) \ gone \subseteq Holds(x.owner) /\ Present(o) \ lost \subseteq Present(x.owner)
  /\ \A n \in Holds(x.owner) : n \in Holds(o) \/ Handle(o, n) \in x.handles
  /\ x.answer = "ok" => gone \cap Holds(x.owner) = {}

LEMMA GrownHolds ==
  ASSUME NEW o, Sound(o), Needed(o, 0), NEW p \in Numbers(o), NEW k \in Nat, NEW application \in Keys
  PROVE  LET w == Grown(o, p, k, application)
             new == o.next..(o.next + k - 1)
         IN /\ Sound(w) /\ Needed(w, 0) /\ Alike(o, w) /\ w.next = o.next + k /\ w.applications = o.applications
            /\ Holds(w) = Holds(o) \cup new /\ Present(w) = Present(o) \cup new
<1> DEFINE w == Grown(o, p, k, application)
           new == o.next..(o.next + k - 1)
<1>1. /\ w \in Owners /\ Alike(o, w) /\ w.next = o.next + k /\ w.applications = o.applications
      /\ Numbers(w) = Numbers(o) \cup new
      /\ \A m \in Numbers(o) :
           /\ m \notin new /\ Parents(w, m) = Parents(o, m) /\ w.branches[m].lease = o.branches[m].lease
           /\ w.branches[m].resident = o.branches[m].resident
           /\ w.branches[m].application = o.branches[m].application
           /\ w.branches[m].children = o.branches[m].children + (IF m = p /\ k > 0 THEN 1 ELSE 0)
      /\ \A m \in new :
           /\ Parents(w, m) = (IF m = o.next THEN p ELSE m - 1) /\ w.branches[m].lease = "caller"
           /\ w.branches[m].resident /\ w.branches[m].application = application
           /\ w.branches[m].children = IF m = o.next + k - 1 THEN 0 ELSE 1
  BY GrownIs
<1>2. Sound(w)
  BY GrownSound
<1> HIDE DEF w
<1>3. ASSUME NEW m \in Numbers(w) \ {0}, w.branches[m].lease # "caller" PROVE w.branches[m].children > 0
  <2>1. m \in Numbers(o) \ {0} /\ o.branches[m].lease # "caller"
    BY <1>1, <1>3
  <2>2. o.branches[m].children > 0 /\ o.branches[m].children \in Nat
    BY <2>1, CountsAre DEF Needed
  <2> QED BY <2>1, <2>2, <1>1
<1>4. Needed(w, 0)
  BY <1>3 DEF Needed
<1>5. Holds(w) = Holds(o) \cup new
  BY <1>1 DEF Holds
<1>6. Present(w) = Present(o) \cup new
  BY <1>1 DEF Present
<1> QED BY <1>1, <1>2, <1>4, <1>5, <1>6 DEF w

LEMMA RefusedProceeds ==
  ASSUME Sound(owner), Needed(owner, 0), NEW gone, NEW lost
  PROVE  GoesThrough(owner, gone, lost, Rejected)
<1>1. owner.next \in Nat
  BY OwnerIs DEF Sound
<1>2. Rejected.owner = owner /\ Rejected.answer = "rejected" /\ Rejected.handles = {}
  BY DEF Rejected, Outcome
<1> HIDE DEF Rejected
<1> QED BY <1>1, <1>2 DEF GoesThrough, Alike

\* A check makes one branch, which is given.
LEMMA SolvedProceeds ==
  ASSUME Sound(owner), Needed(owner, 0), NEW p \in Numbers(owner), NEW x \in Solved(p)
  PROVE  GoesThrough(owner, {}, {}, x)
<1>1. CASE x = Rejected
  BY <1>1, RefusedProceeds
<1>2. ASSUME NEW n \in {owner.next} \cap 1..MaxBranch, x = Outcome(CheckedBelow(owner, p, <<>>), "ok", Given(owner, n))
      PROVE  GoesThrough(owner, {}, {}, x)
  <2> DEFINE w == Grown(owner, p, 1, <<>>)
  <2>1. x.owner = w /\ x.answer = "ok" /\ x.handles = {Handle(owner, owner.next)}
    BY <1>2 DEF Outcome, Given, CheckedBelow, Handle
  <2>2. owner.next \in Nat /\ owner.epoch \in Nat /\ 1 \in Nat /\ <<>> \in Keys
    BY OwnerIs DEF Sound, Keys
  <2>3. /\ Sound(w) /\ Needed(w, 0) /\ Alike(owner, w) /\ w.next = owner.next + 1
        /\ Holds(w) = Holds(owner) \cup owner.next..(owner.next + 1 - 1)
        /\ Present(w) = Present(owner) \cup owner.next..(owner.next + 1 - 1)
    BY <2>2, GrownHolds
  <2> HIDE DEF w
  <2>4. owner.next..(owner.next + 1 - 1) = {owner.next} /\ owner.next <= w.next
    BY <2>2, <2>3
  <2>5. Handle(owner, owner.next) \in Handles /\ Handle(owner, owner.next).epoch = owner.epoch
        /\ Handle(owner, owner.next).branch = owner.next
    BY <2>2 DEF Handle, Handles
  <2> QED BY <2>1, <2>3, <2>4, <2>5 DEF GoesThrough
<1> QED BY <1>1, <1>2 DEF Solved

\* Other applications may be kept for the same branches.
LEMMA KeptApplications ==
  ASSUME NEW o, Sound(o), NEW apps \in SUBSET Applications, Leads(o, apps)
  PROVE  LET w == [o EXCEPT !.applications = apps]
         IN /\ Sound(w) /\ (Needed(o, 0) => Needed(w, 0)) /\ Alike(o, w) /\ w.next = o.next
            /\ Holds(w) = Holds(o) /\ Present(w) = Present(o)
<1> DEFINE w == [o EXCEPT !.applications = apps]
<1>1. w \in Owners /\ w.epoch = o.epoch /\ w.closed = o.closed /\ w.next = o.next /\ w.branches = o.branches /\ w.applications = apps
  BY DEF Sound, Owners
<1> HIDE DEF w
<1>2. Numbers(w) = Numbers(o) /\ \A m : Parents(w, m) = Parents(o, m)
  BY <1>1 DEF Numbers, Parents
<1>3. \A m : Kids(w, m) = Kids(o, m)
  BY <1>2 DEF Kids
<1>4. Tree(w)
  BY <1>1, <1>2 DEF Sound, Tree
<1>5. Counted(w)
  BY <1>1, <1>2, <1>3 DEF Sound, Counted
<1>6. Leased(w)
  BY <1>1, <1>2 DEF Sound, Leased
<1>7. Reused(w)
  BY <1>1, <1>2 DEF Reused, Leads
<1>8. Needed(o, 0) => Needed(w, 0)
  BY <1>1, <1>2 DEF Needed
<1>9. Holds(w) = Holds(o) /\ Present(w) = Present(o)
  BY <1>1, <1>2 DEF Holds, Present
<1> QED BY <1>1, <1>4, <1>5, <1>6, <1>7, <1>8, <1>9 DEF Sound, Alike, w

\* The application that is known gives its child, and another one makes it.
LEMMA AppliedProceeds ==
  ASSUME Sound(owner), Needed(owner, 0), NEW p \in Numbers(owner), NEW a \in Actions, NEW x \in Applied(p, a)
  PROVE  GoesThrough(owner, {}, {}, x)
<1>0. owner.next \in Nat \ {0} /\ owner.epoch \in Nat /\ p \in Nat /\ <<p, a>> \in Keys /\ owner.applications \subseteq Applications
  BY OwnerIs DEF Sound, Keys
<1>1. CASE x = Rejected
  BY <1>1, RefusedProceeds
<1>2. ASSUME NEW y \in owner.applications, Found(owner, [epoch |-> owner.epoch, branch |-> y.child]),
             x = Outcome(owner, "ok", Given(owner, y.child))
      PROVE  GoesThrough(owner, {}, {}, x)
  <2>1. x.owner = owner /\ x.answer = "ok" /\ x.handles = {Handle(owner, y.child)}
    BY <1>2 DEF Outcome, Given, Handle
  <2>2. y.child \in Nat /\ y.child \in Present(owner)
    BY <1>0, <1>2 DEF Found, Present, Applications
  <2>3. Handle(owner, y.child) \in Handles /\ Handle(owner, y.child).epoch = owner.epoch /\ Handle(owner, y.child).branch = y.child
    BY <1>0, <2>2 DEF Handle, Handles
  <2> QED BY <1>0, <2>1, <2>2, <2>3 DEF GoesThrough, Alike
<1>3. ASSUME NEW n \in {owner.next} \cap 1..MaxBranch,
             x = Outcome([CheckedBelow(owner, p, <<p, a>>) EXCEPT !.applications =
                            {y \in owner.applications : y.key # <<p, a>>} \cup {[key |-> <<p, a>>, child |-> n]}],
                         "ok", Given(owner, n))
      PROVE  GoesThrough(owner, {}, {}, x)
  <2>0. PICK key \in Keys : key = <<p, a>>
    BY <1>0
  <2> DEFINE w == Grown(owner, p, 1, key)
             apps == {y \in owner.applications : y.key # key} \cup {[key |-> key, child |-> n]}
             v == [w EXCEPT !.applications = apps]
  <2>1. x.owner = v /\ x.answer = "ok" /\ x.handles = {Handle(owner, owner.next)} /\ n = owner.next
    BY <1>3, <2>0 DEF Outcome, Given, CheckedBelow, Handle
  <2>2. /\ Sound(w) /\ Needed(w, 0) /\ Alike(owner, w) /\ w.next = owner.next + 1
        /\ Holds(w) = Holds(owner) \cup owner.next..(owner.next + 1 - 1)
        /\ Present(w) = Present(owner) \cup owner.next..(owner.next + 1 - 1)
    BY <1>0, GrownHolds
  <2>3. owner.next..(owner.next + 1 - 1) = {owner.next} /\ owner.next <= w.next
    BY <1>0, <2>2
  <2>4. /\ Numbers(w) = Numbers(owner) \cup {owner.next}
        /\ \A m \in Numbers(owner) :
             /\ Parents(w, m) = Parents(owner, m) /\ w.branches[m].resident = owner.branches[m].resident
             /\ w.branches[m].application = owner.branches[m].application
        /\ Parents(w, owner.next) = p /\ w.branches[owner.next].resident /\ w.branches[owner.next].application = key
    <3>1. /\ Numbers(w) = Numbers(owner) \cup owner.next..(owner.next + 1 - 1)
          /\ \A m \in Numbers(owner) :
               /\ Parents(w, m) = Parents(owner, m) /\ w.branches[m].resident = owner.branches[m].resident
               /\ w.branches[m].application = owner.branches[m].application
          /\ \A m \in owner.next..(owner.next + 1 - 1) :
               /\ Parents(w, m) = (IF m = owner.next THEN p ELSE m - 1)
               /\ w.branches[m].resident /\ w.branches[m].application = key
      BY <1>0, GrownIs
    <3> HIDE DEF w
    <3> QED BY <3>1, <2>3
  <2> HIDE DEF w
  <2>5. apps \in SUBSET Applications
    BY <1>0, <2>0, <2>1 DEF Applications
  <2>6. ASSUME NEW y \in apps
        PROVE  /\ y.child \in Numbers(w) \ {0} /\ w.branches[y.child].resident
               /\ Parents(w, y.child) = y.key[1] /\ w.branches[y.child].application = y.key
    <3>1. CASE y \in owner.applications
      <4>1. /\ y.child \in Numbers(owner) \ {0} /\ owner.branches[y.child].resident
            /\ Parents(owner, y.child) = y.key[1] /\ owner.branches[y.child].application = y.key
        BY <3>1 DEF Sound, Reused, Leads
      <4> QED BY <4>1, <2>4
    <3>2. CASE y = [key |-> key, child |-> n]
      <4>1. y.child = owner.next /\ y.key = key /\ y.key[1] = p
        BY <3>2, <2>0, <2>1
      <4> QED BY <4>1, <2>4, <1>0
    <3> QED BY <3>1, <3>2
  <2>9. Leads(w, apps)
    BY <2>6 DEF Leads
  <2> HIDE DEF apps
  <2>7. Sound(v) /\ Needed(v, 0) /\ Alike(w, v) /\ v.next = w.next /\ Holds(v) = Holds(w) /\ Present(v) = Present(w)
    BY <2>2, <2>5, <2>9, KeptApplications
  <2> HIDE DEF v
  <2>8. Handle(owner, owner.next) \in Handles /\ Handle(owner, owner.next).epoch = owner.epoch
        /\ Handle(owner, owner.next).branch = owner.next
    BY <1>0 DEF Handle, Handles
  <2> QED BY <2>1, <2>2, <2>3, <2>7, <2>8 DEF GoesThrough, Alike
<1> QED BY <1>1, <1>2, <1>3 DEF Applied

LEMMA ExportedProceeds ==
  ASSUME Sound(owner), Needed(owner, 0), NEW p \in Numbers(owner), NEW descendant, NEW k \in Nat,
         NEW x \in Exported(p, descendant, k)
  PROVE  GoesThrough(owner, {}, {}, x)
<1> DEFINE w == Grown(owner, p, k, <<>>)
           new == owner.next..(owner.next + k - 1)
<1>1. CASE x = Rejected
  BY <1>1, RefusedProceeds
<1>2. CASE x = Outcome(w, "ok", Fresh(owner, w))
  <2>1. owner.next \in Nat \ {0} /\ owner.epoch \in Nat /\ <<>> \in Keys
    BY OwnerIs DEF Sound, Keys
  <2>2. /\ Sound(w) /\ Needed(w, 0) /\ Alike(owner, w) /\ w.next = owner.next + k
        /\ Holds(w) = Holds(owner) \cup new /\ Present(w) = Present(owner) \cup new
    BY <2>1, GrownHolds
  <2> HIDE DEF w
  <2>3. x.owner = w /\ x.answer = "ok" /\ x.handles = {Handle(owner, n) : n \in new}
    <3>1. \A n \in new : Given(w, n) = {Handle(owner, n)}
      BY <2>2 DEF Given, Handle, Alike
    <3>2. w.next - 1 = owner.next + k - 1
      BY <2>1, <2>2
    <3>3. Fresh(owner, w) = UNION {Given(w, n) : n \in new}
      BY <3>2 DEF Fresh
    <3> HIDE DEF new
    <3> QED BY <1>2, <3>1, <3>3 DEF Outcome
  <2>4. \A n \in new : /\ Handle(owner, n) \in Handles /\ Handle(owner, n).epoch = owner.epoch
                       /\ Handle(owner, n).branch = n
    BY <2>1 DEF Handle, Handles
  <2>5. owner.next <= w.next
    BY <2>1, <2>2
  <2> HIDE DEF new
  <2> QED BY <2>2, <2>3, <2>4, <2>5 DEF GoesThrough
<1> QED BY <1>1, <1>2 DEF Exported, Chained

\* What the branches of S have lost is all that is lost.
LEMMA RetiredHolds ==
  ASSUME NEW o, Sound(o), NEW S, S \subseteq Numbers(o) \ {0}, NEW lease \in Leases
  PROVE  /\ RetiredTo(o, S, lease, Retired(o, S, lease)) /\ Sound(Retired(o, S, lease))
         /\ Present(Retired(o, S, lease)) = Present(o) \ S
<1> DEFINE w == Retired(o, S, lease)
<1>1. RetiredTo(o, S, lease, w) /\ Sound(w)
  BY RetiredIs, RetiredSound
<1> HIDE DEF w
<1>2. Present(w) = Present(o) \ S
  BY <1>1 DEF RetiredTo, Present
<1> QED BY <1>1, <1>2 DEF w

LEMMA EvictedProceeds ==
  ASSUME Sound(owner), Needed(owner, 0), NEW n \in Numbers(owner), NEW x \in Evicted(n)
  PROVE  GoesThrough(owner, {}, {n}, x)
<1>1. CASE x = Rejected
  BY <1>1, RefusedProceeds
<1>2. CASE n # 0 /\ x = Outcome(Retired(owner, {n}, owner.branches[n].lease), "ok", {})
  <2> DEFINE S == {n}
             w == Retired(owner, S, owner.branches[n].lease)
  <2>1. owner.branches[n].lease \in Leases /\ owner.next \in Nat
    BY OwnerIs DEF Sound, Branches
  <2>2. /\ Sound(w) /\ Alike(owner, w) /\ w.next = owner.next /\ Numbers(w) = Numbers(owner)
        /\ \A m \in S : w.branches[m].lease = owner.branches[n].lease /\ w.branches[m].resident = FALSE
        /\ \A m \in Numbers(owner) \ S : w.branches[m] = owner.branches[m]
        /\ \A m \in Numbers(owner) : w.branches[m].children = owner.branches[m].children
        /\ Present(w) = Present(owner) \ S
    <3>1. RetiredTo(owner, S, owner.branches[n].lease, w) /\ Sound(w) /\ Present(w) = Present(owner) \ S
      BY <1>2, <2>1, RetiredHolds
    <3> HIDE DEF w, S
    <3> QED BY <3>1 DEF RetiredTo
  <2>3. x.owner = w /\ x.answer = "ok" /\ x.handles = {}
    BY <1>2 DEF Outcome
  <2> HIDE DEF w
  <2>4. \A m \in Numbers(owner) : w.branches[m].lease = owner.branches[m].lease
    BY <2>2
  <2>5. Holds(w) = Holds(owner) /\ Needed(w, 0)
    BY <2>2, <2>4 DEF Holds, Needed
  <2> QED BY <2>1, <2>2, <2>3, <2>5 DEF GoesThrough
<1> QED BY <1>1, <1>2 DEF Evicted

\* v is o without the holds and the states of S.
GoneFrom(o, S, v) ==
  /\ Sound(v) /\ Needed(v, 0) /\ Alike(o, v) /\ v.next = o.next
  /\ Holds(v) = Holds(o) \ S /\ Present(v) = Present(o) \ S

\* Branches that lost their holder go, or stay because something below needs them.
LEMMA RetiredGo ==
  ASSUME NEW o, Sound(o), NEW S, S \subseteq Numbers(o) \ {0}, NEW lease \in Leases \ {"caller"}, NEW n \in S,
         Needed(Retired(o, S, lease), n)
  PROVE  \E v : Collected(Retired(o, S, lease), n) = {v} /\ GoneFrom(o, S, v)
<1> DEFINE w == Retired(o, S, lease)
           v == Without(w, Going(w, n))
<1>1. RetiredTo(o, S, lease, w) /\ Sound(w) /\ Present(w) = Present(o) \ S
  BY RetiredHolds
<1>2. Needed(w, n)
  OBVIOUS
<1> HIDE DEF w
<1>3. n \in Numbers(w) \ {0}
  BY <1>1 DEF RetiredTo
<1>4. /\ Collected(w, n) = {v} /\ Sound(v) /\ Needed(v, 0) /\ Alike(w, v) /\ v.next = w.next
      /\ Numbers(v) \subseteq Numbers(w)
      /\ \A m \in Numbers(w) : w.branches[m].lease = "caller" => m \in Numbers(v)
      /\ \A m \in Numbers(v) : v.branches[m].lease = w.branches[m].lease /\ v.branches[m].resident = w.branches[m].resident
  BY <1>1, <1>2, <1>3, CollectedSound
<1> HIDE DEF v
<1>5. Holds(v) = Holds(o) \ S
  <2>1. \A m \in S : w.branches[m].lease # "caller"
    BY <1>1 DEF RetiredTo
  <2>2. Holds(w) = Holds(o) \ S
    BY <2>1, <1>1 DEF RetiredTo, Holds
  <2>3. Holds(v) = Holds(w)
    BY <1>4 DEF Holds
  <2> QED BY <2>2, <2>3
<1>6. Present(v) = Present(w)
  <2>1. \A m \in Numbers(w) : w.branches[m].resident => w.branches[m].lease = "caller"
    BY <1>1 DEF Sound, Leased
  <2> QED BY <1>4, <2>1 DEF Present
<1>7. Alike(o, v) /\ v.next = o.next
  BY <1>1, <1>4 DEF RetiredTo, Alike
<1>8. GoneFrom(o, S, v)
  BY <1>1, <1>4, <1>5, <1>6, <1>7 DEF GoneFrom
<1>9. Collected(w, n) = {v}
  BY <1>4
<1> QED BY <1>8, <1>9 DEF w

LEMMA ReleasedProceeds ==
  ASSUME Sound(owner), Needed(owner, 0), NEW n, NEW x \in Released(n)
  PROVE  GoesThrough(owner, {n}, {n}, x)
<1>1. CASE x = Rejected
  BY <1>1, RefusedProceeds
<1>2. CASE n \in Numbers(owner) \ {0} /\ x # Rejected
  <2> DEFINE w == Retired(owner, {n}, "released")
  <2>1. "released" \in Leases \ {"caller"} /\ owner.next \in Nat /\ {n} \subseteq Numbers(owner) \ {0} /\ n \in {n}
    BY <1>2, OwnerIs DEF Sound, Leases
  <2>2. RetiredTo(owner, {n}, "released", w)
    BY <2>1, RetiredHolds
  <2>3. Needed(w, n)
    <3> HIDE DEF w
    <3> QED BY <2>2 DEF Needed, RetiredTo
  <2>4. PICK v : Collected(w, n) = {v} /\ GoneFrom(owner, {n}, v)
    BY <2>1, <2>3, RetiredGo
  <2>5. x = Outcome(v, "ok", {})
    BY <1>2, <2>4 DEF Released
  <2>6. x.owner = v /\ x.answer = "ok" /\ x.handles = {}
    BY <2>5 DEF Outcome
  <2> QED BY <2>1, <2>4, <2>6 DEF GoesThrough, GoneFrom
<1> QED BY <1>1, <1>2 DEF Released

\* The nearest state on the way up, and the steps that are missing below it.
LEMMA NearestIs ==
  ASSUME NEW o, Sound(o), NEW n \in Numbers(o),
         NEW ancestors, ancestors = {m \in Above(o, n) : o.branches[m].resident}, ancestors # {}
  PROVE  LET nearest == CHOOSE m \in ancestors : \A other \in ancestors : other <= m
         IN nearest \in Present(o) /\ Cardinality({m \in Above(o, n) : m > nearest}) \in Nat
<1> DEFINE nearest == CHOOSE m \in ancestors : \A other \in ancestors : other <= m
<1>1. ancestors \subseteq Nat /\ n \in Nat /\ \A m \in ancestors : m <= n
  BY AboveIs, AboveIsBelow, OwnerIs DEF Sound
<1>2. \E m \in ancestors : \A other \in ancestors : other <= m
  BY <1>1, GreatestNatural, Zenon
<1>3. nearest \in ancestors
  BY <1>2
<1>4. nearest \in Present(o)
  BY <1>3, AboveIs DEF Present
<1> HIDE DEF nearest
<1> DEFINE Missing == {m \in Above(o, n) : m > nearest}
<1>5. Missing \in SUBSET Nat /\ \A m \in Missing : m <= n
  BY AboveIs, AboveIsBelow, OwnerIs DEF Sound
<1>6. IsFiniteSet(Missing)
  BY <1>1, <1>5, FS_BoundedSetOfNaturals
<1>7. Cardinality(Missing) \in Nat
  BY <1>6, FS_CardinalityType
<1> QED BY <1>4, <1>7 DEF nearest

LEMMA RerunProceeds ==
  ASSUME Sound(owner), Needed(owner, 0), NEW nearest \in Present(owner), NEW missing \in Nat, NEW k \in 0..missing,
         NEW x \in Rerun(nearest, missing, k)
  PROVE  GoesThrough(owner, {}, {}, x)
<1> DEFINE rebuilt == Grown(owner, nearest, k, <<>>)
           new == owner.next..(owner.next + k - 1)
           newest == rebuilt.next - (IF k = missing THEN 2 ELSE 1)
           S == owner.next..newest
           given == Given(owner, IF k = 0 THEN nearest ELSE rebuilt.next - 1)
           done == IF newest < owner.next THEN {rebuilt} ELSE Collected(Retired(rebuilt, S, "replay"), newest)
<1>1. owner.next \in Nat \ {0} /\ owner.epoch \in Nat /\ <<>> \in Keys /\ k \in Nat /\ nearest \in Nat /\ nearest \in Numbers(owner)
  BY OwnerIs, PresentIsHeld DEF Sound, Keys
<1>2. /\ Sound(rebuilt) /\ Needed(rebuilt, 0) /\ Alike(owner, rebuilt) /\ rebuilt.next = owner.next + k
      /\ Holds(rebuilt) = Holds(owner) \cup new /\ Present(rebuilt) = Present(owner) \cup new
  BY <1>1, GrownHolds
<1>3. /\ Numbers(rebuilt) = Numbers(owner) \cup new
      /\ \A m \in new : rebuilt.branches[m].children = IF m = owner.next + k - 1 THEN 0 ELSE 1
  BY <1>1, GrownIs
<1>4. x \in IF done = {} THEN {Outcome(owner, "broken", {})}
            ELSE IF k = missing THEN {Outcome(o, "ok", given) : o \in done}
            ELSE {Outcome(o, "rejected", {}) : o \in done}
  BY DEF Rerun, Chained
<1> HIDE DEF rebuilt
<1>5. newest = (owner.next + k) - (IF k = missing THEN 2 ELSE 1) /\ newest \in Int
  BY <1>1, <1>2
<1>6. \E v : done = {v} /\ GoneFrom(rebuilt, S, v)
  <2>1. CASE newest < owner.next
    <3>1. S = {}
      BY <2>1, <1>1, <1>5
    <3>2. GoneFrom(rebuilt, S, rebuilt)
      BY <3>1, <1>2 DEF GoneFrom, Alike
    <3> QED BY <3>2, <2>1
  <2>2. CASE ~(newest < owner.next)
    <3>1. "replay" \in Leases \ {"caller"} /\ newest \in S /\ S \subseteq new /\ S \subseteq Numbers(rebuilt) \ {0}
      <4>1. newest \in S /\ S \subseteq new
        BY <2>2, <1>1, <1>5
      <4>2. 0 \notin S
        BY <1>1
      <4> QED BY <4>1, <4>2, <1>3 DEF Leases
    <3>2. RetiredTo(rebuilt, S, "replay", Retired(rebuilt, S, "replay"))
      BY <3>1, <1>2, RetiredHolds
    <3>3. Needed(Retired(rebuilt, S, "replay"), newest)
      <4> DEFINE w == Retired(rebuilt, S, "replay")
      <4>1. RetiredTo(rebuilt, S, "replay", w)
        BY <3>2
      <4> HIDE DEF w
      <4>2. ASSUME NEW m \in Numbers(w) \ {0}, m # newest, w.branches[m].lease # "caller" PROVE w.branches[m].children > 0
        <5>1. m \in Numbers(rebuilt) \ {0} /\ w.branches[m].children = rebuilt.branches[m].children
          BY <4>1, <4>2 DEF RetiredTo
        <5>2. CASE m \in S
          <6>1. m \in new /\ m # owner.next + k - 1
            BY <5>2, <4>2, <3>1, <1>1, <1>5
          <6> QED BY <6>1, <5>1, <1>3
        <5>3. CASE m \notin S
          <6>1. w.branches[m] = rebuilt.branches[m]
            BY <5>1, <5>3, <4>1 DEF RetiredTo
          <6>2. rebuilt.branches[m].children > 0
            BY <6>1, <5>1, <4>2, <1>2 DEF Needed
          <6> QED BY <6>2, <5>1
        <5> QED BY <5>2, <5>3
      <4> QED BY <4>2 DEF Needed, w
    <3>4. \E v : Collected(Retired(rebuilt, S, "replay"), newest) = {v} /\ GoneFrom(rebuilt, S, v)
      <4> HIDE DEF S, newest
      <4> QED BY <3>1, <3>3, <1>2, RetiredGo
    <3> QED BY <3>4, <2>2
  <2> QED BY <2>1, <2>2
<1>7. PICK v : done = {v} /\ GoneFrom(rebuilt, S, v)
  BY <1>6
<1>8. x = IF k = missing THEN Outcome(v, "ok", given) ELSE Outcome(v, "rejected", {})
  <2> HIDE DEF done, given
  <2> QED BY <1>4, <1>7
<1>9. x.owner = v /\ x.answer = (IF k = missing THEN "ok" ELSE "rejected") /\ x.handles = IF k = missing THEN given ELSE {}
  <2> HIDE DEF given
  <2> QED BY <1>8 DEF Outcome
<1>10. /\ Sound(v) /\ Needed(v, 0) /\ Alike(owner, v) /\ v.next = owner.next + k
       /\ Holds(v) = (Holds(owner) \cup new) \ S /\ Present(v) = (Present(owner) \cup new) \ S
  BY <1>2, <1>7 DEF GoneFrom, Alike
<1>11. Holds(owner) \cap new = {} /\ Present(owner) \cap new = {}
  BY <1>1, PresentIsHeld DEF Sound, Tree
<1>12. CASE k # missing
  <2>1. new \subseteq S /\ S \subseteq new
    BY <1>12, <1>1, <1>5
  <2>2. Holds(v) = Holds(owner) /\ Present(v) = Present(owner)
    BY <2>1, <1>10, <1>11
  <2> QED BY <1>1, <1>9, <1>10, <1>12, <2>2 DEF GoesThrough
<1>13. CASE k = missing /\ k = 0
  <2>1. new = {} /\ S = {}
    BY <1>13, <1>1, <1>5
  <2>2. Holds(v) = Holds(owner) /\ Present(v) = Present(owner)
    BY <2>1, <1>10
  <2>3. x.handles = {Handle(owner, nearest)}
    BY <1>9, <1>13 DEF Given, Handle
  <2>4. Handle(owner, nearest) \in Handles /\ Handle(owner, nearest).epoch = owner.epoch /\ Handle(owner, nearest).branch = nearest
    BY <1>1 DEF Handle, Handles
  <2> QED BY <1>1, <1>9, <1>10, <1>13, <2>2, <2>3, <2>4 DEF GoesThrough
<1>14. CASE k = missing /\ k # 0
  <2> DEFINE final == owner.next + k - 1
  <2>1. new \ S = {final} /\ S \subseteq new /\ final \in Nat
    <3>1. newest = final - 1 /\ final \in Nat /\ owner.next <= final
      BY <1>14, <1>1, <1>5
    <3>2. S = owner.next..(final - 1) /\ new = owner.next..final
      BY <3>1
    <3> HIDE DEF final, S, new
    <3> QED BY <3>1, <3>2, <1>1
  <2>2. Holds(v) = Holds(owner) \cup {final} /\ Present(v) = Present(owner) \cup {final}
    BY <2>1, <1>10, <1>11
  <2>3. x.handles = {Handle(owner, final)}
    BY <1>1, <1>2, <1>9, <1>14 DEF Given, Handle
  <2>4. Handle(owner, final) \in Handles /\ Handle(owner, final).epoch = owner.epoch /\ Handle(owner, final).branch = final
    BY <1>1, <2>1 DEF Handle, Handles
  <2>5. owner.next <= v.next
    BY <1>1, <1>10
  <2> HIDE DEF final
  <2> QED BY <1>9, <1>10, <1>14, <2>2, <2>3, <2>4, <2>5 DEF GoesThrough
<1> QED BY <1>12, <1>13, <1>14

LEMMA ReplayedProceeds ==
  ASSUME Sound(owner), Needed(owner, 0), NEW n, NEW x \in Replayed(n)
  PROVE  GoesThrough(owner, {}, {}, x)
<1> DEFINE ancestors == {m \in Above(owner, n) : owner.branches[m].resident}
           nearest == CHOOSE m \in ancestors : \A other \in ancestors : other <= m
           missing == Cardinality({m \in Above(owner, n) : m > nearest})
<1>1. CASE x = Rejected
  BY <1>1, RefusedProceeds
<1>2. CASE x # Rejected
  <2>1. n \in Numbers(owner) /\ ancestors # {} /\ \E k \in 0..missing : x \in Rerun(nearest, missing, k)
    BY <1>2 DEF Replayed
  <2>2. nearest \in Present(owner) /\ missing \in Nat
    BY <2>1, NearestIs
  <2> HIDE DEF nearest, missing
  <2> QED BY <2>1, <2>2, RerunProceeds
<1> QED BY <1>1, <1>2

-----------------------------------------------------------------------------
(* The owner with a request.                                               *)

\* release looks up no more than the epoch, and replay too.
Requested(j, o) ==
  /\ j.op \in {"inspect", "apply", "solve", "export", "evict", "release", "replay"}
  /\ j.ref \in Handles /\ Found(o, Looked(j.op, j.ref))
  /\ j.op = "apply" => j.with \in Actions
  /\ j.op = "export" => j.with.goals \in Nat

Gone(j) == IF j.op = "release" THEN {j.ref.branch} ELSE {}
Lost(j) == IF j.op \in {"evict", "release"} THEN {j.ref.branch} ELSE {}

LEMMA HandleIs ==
  ASSUME NEW h \in Handles
  PROVE  /\ h.epoch \in Nat /\ h.branch \in Nat
         /\ \A o : o.epoch = h.epoch => Handle(o, h.branch) = h
BY DEF Handles, Handle

LEMMA RequestedIs ==
  ASSUME NEW j, NEW o, Requested(j, o)
  PROVE  /\ j.ref.epoch = o.epoch /\ ~o.closed
         /\ j.op \notin {"release", "replay"} => j.ref.branch \in Present(o)
BY DEF Requested, Looked, Found, RootKey, Present

LEMMA OutcomesProceed ==
  ASSUME Sound(owner), Needed(owner, 0), Requested(job, owner), NEW x \in Outcomes(job)
  PROVE  GoesThrough(owner, Gone(job), Lost(job), x)
<1>1. /\ job.op \notin {"release", "replay"} => job.ref.branch \in Numbers(owner)
      /\ owner.next \in Nat
  BY RequestedIs, OwnerIs DEF Present, Sound
<1>2. CASE job.op = "inspect"
  <2>1. x = Outcome(owner, "ok", {}) \/ x = Rejected
    BY <1>2 DEF Outcomes
  <2>2. Gone(job) = {}
    BY <1>2 DEF Gone
  <2>3. CASE x = Rejected
    BY <2>3, RefusedProceeds
  <2>4. CASE x = Outcome(owner, "ok", {})
    <3>1. x.owner = owner /\ x.answer = "ok" /\ x.handles = {}
      BY <2>4 DEF Outcome
    <3> QED BY <1>1, <2>2, <3>1 DEF GoesThrough, Alike
  <2> QED BY <2>1, <2>3, <2>4
<1>3. CASE job.op = "apply"
  <2>1. x \in Applied(job.ref.branch, job.with) /\ job.with \in Actions
    BY <1>3 DEF Outcomes, Requested
  <2>2. GoesThrough(owner, {}, {}, x)
    BY <1>1, <1>3, <2>1, AppliedProceeds
  <2> QED BY <1>3, <2>2 DEF Gone, Lost
<1>4. CASE job.op = "solve"
  <2>1. x \in Solved(job.ref.branch)
    BY <1>4 DEF Outcomes
  <2>2. GoesThrough(owner, {}, {}, x)
    BY <1>1, <1>4, <2>1, SolvedProceeds
  <2> QED BY <1>4, <2>2 DEF Gone, Lost
<1>5. CASE job.op = "export"
  <2>1. x \in Exported(job.ref.branch, job.with.descendant, job.with.goals) /\ job.with.goals \in Nat
    BY <1>5 DEF Outcomes, Requested
  <2>2. GoesThrough(owner, {}, {}, x)
    BY <1>1, <1>5, <2>1, ExportedProceeds
  <2> QED BY <1>5, <2>2 DEF Gone, Lost
<1>6. CASE job.op = "evict"
  <2>1. x \in Evicted(job.ref.branch)
    BY <1>6 DEF Outcomes
  <2>2. GoesThrough(owner, {}, {job.ref.branch}, x)
    BY <1>1, <1>6, <2>1, EvictedProceeds
  <2> QED BY <1>6, <2>2 DEF Gone, Lost
<1>7. CASE job.op = "release"
  <2>1. x \in Released(job.ref.branch)
    BY <1>7 DEF Outcomes
  <2>2. GoesThrough(owner, {job.ref.branch}, {job.ref.branch}, x)
    BY <2>1, ReleasedProceeds
  <2> QED BY <1>7, <2>2 DEF Gone, Lost
<1>8. CASE job.op = "replay"
  <2>1. x \in Replayed(job.ref.branch)
    BY <1>8 DEF Outcomes
  <2>2. GoesThrough(owner, {}, {}, x)
    BY <2>1, ReplayedProceeds
  <2> QED BY <1>8, <2>2 DEF Gone, Lost
<1> QED BY <1>2, <1>3, <1>4, <1>5, <1>6, <1>7, <1>8 DEF Requested

LEMMA InvalidatedIs ==
  ASSUME NEW o, Sound(o)
  PROVE  LET w == Invalidated(o)
         IN /\ Sound(w) /\ Needed(w, 0) /\ w.epoch = o.epoch + 1 /\ w.next = o.next /\ Holds(w) = {}
            /\ Sound([w EXCEPT !.closed = TRUE]) /\ Needed([w EXCEPT !.closed = TRUE], 0)
            /\ [w EXCEPT !.closed = TRUE].epoch = o.epoch + 1 /\ [w EXCEPT !.closed = TRUE].next = o.next
            /\ Holds([w EXCEPT !.closed = TRUE]) = {}
<1>1. o \in Owners /\ o.epoch \in Nat
  BY OwnerIs DEF Sound
<1>2. DOMAIN <<>> = {} /\ <<>> \in Forests
  <2>1. DOMAIN <<>> = {}
    OBVIOUS
  <2>2. <<>> \in [{} -> Branches]
    OBVIOUS
  <2> QED BY <2>1, <2>2, ForestIs
<1>3. ASSUME NEW w \in Owners, w.branches = <<>>, w.applications = {} PROVE Sound(w) /\ Needed(w, 0) /\ Holds(w) = {}
  BY <1>2, <1>3 DEF Sound, Needed, Holds, Tree, Counted, Leased, Reused, Leads, Numbers
<1> DEFINE w == Invalidated(o)
           v == [w EXCEPT !.closed = TRUE]
<1>4. w \in Owners /\ w.branches = <<>> /\ w.applications = {} /\ w.epoch = o.epoch + 1 /\ w.next = o.next
  <2> DEFINE none == <<>>
             next == o.epoch + 1
  <2>1. none \in Forests /\ next \in Nat
    BY <1>1, <1>2
  <2>2. w = [o EXCEPT !.epoch = next, !.branches = none, !.applications = {}]
    BY <1>1 DEF Invalidated, Owners
  <2> HIDE DEF none, next, w
  <2>3. w \in Owners /\ w.branches = none /\ w.applications = {} /\ w.epoch = next /\ w.next = o.next
    BY <1>1, <2>1, <2>2 DEF Owners
  <2> QED BY <2>3 DEF none, next
<1> HIDE DEF w
<1>5. v \in Owners /\ v.branches = <<>> /\ v.applications = {} /\ v.epoch = o.epoch + 1 /\ v.next = o.next
  BY <1>4 DEF Owners
<1> HIDE DEF v
<1>6. Sound(w) /\ Needed(w, 0) /\ Holds(w) = {}
  BY <1>3, <1>4
<1>7. Sound(v) /\ Needed(v, 0) /\ Holds(v) = {}
  BY <1>3, <1>5
<1> QED BY <1>4, <1>5, <1>6, <1>7 DEF w, v

Ordered(o) == Sound(o) /\ Needed(o, 0)

\* A handle that was given out leads to a branch that is held.
Held(o, given) ==
  /\ given \subseteq Handles
  /\ \A h \in given : h.epoch <= o.epoch /\ (h.epoch = o.epoch => h.branch \in Holds(o))

\* What is held was given out, if it is not left by a cancelled request.
Accounted(o, given, lost) == \A n \in Holds(o) \ {0} : Handle(o, n) \in given \/ lost

AnswerIs(j, o) ==
  /\ j.pc = "answered" /\ j.answer \in {"ok", "rejected", "unknown", "stale", "cancelled"}
  /\ IF j.answer = "ok" THEN j.files = "loaded" ELSE j.handles = {}
  /\ j.handles \subseteq Handles /\ \A h \in j.handles : h.branch < o.next

JobIs(j, o) == j = NoJob \/ (j.pc = "running" /\ Requested(j, o)) \/ AnswerIs(j, o)

OwnerFine == Ordered(owner) /\ Held(owner, handed) /\ Accounted(owner, handed, unsure) /\ JobIs(job, owner)

LEMMA PcIs == NoJob.pc = "none"
BY DEF NoJob

LEMMA AnswersIs ==
  ASSUME NEW answer, NEW handles, Answers(answer, handles)
  PROVE  job'.pc = "answered" /\ job'.answer = answer /\ job'.handles = handles /\ job'.files = files
BY DEF Answers

LEMMA InvalidatedKeeps ==
  ASSUME Ordered(owner), Held(owner, handed), NEW w, w \in {Invalidated(owner), [Invalidated(owner) EXCEPT !.closed = TRUE]}
  PROVE  /\ Ordered(w) /\ owner.next <= w.next /\ w.epoch = owner.epoch + 1
         /\ \A given \in SUBSET handed : Held(w, given)
         /\ \A given, lost : Accounted(w, given, lost)
<1>1. owner.epoch \in Nat /\ owner.next \in Nat
  BY OwnerIs DEF Ordered, Sound
<1>2. Sound(w) /\ Needed(w, 0) /\ w.epoch = owner.epoch + 1 /\ w.next = owner.next /\ Holds(w) = {}
  BY InvalidatedIs DEF Ordered
<1>3. ASSUME NEW given \in SUBSET handed PROVE Held(w, given)
  <2> SUFFICES ASSUME NEW h \in given PROVE h \in Handles /\ h.epoch <= w.epoch /\ h.epoch # w.epoch
    BY DEF Held
  <2>1. h \in Handles /\ h.epoch \in Nat /\ h.epoch <= owner.epoch
    BY HandleIs DEF Held
  <2> QED BY <2>1, <1>1, <1>2
<1>4. \A given, lost : Accounted(w, given, lost)
  BY <1>2 DEF Accounted
<1> QED BY <1>1, <1>2, <1>3, <1>4 DEF Ordered

LEMMA AsksKeeps ==
  ASSUME OwnerFine, NEW op \in {"inspect", "apply", "solve", "export", "evict", "release", "replay"}, NEW ref \in Handles,
         NEW with, op = "apply" => with \in Actions, op = "export" => with.goals \in Nat, Asks(op, ref, with)
  PROVE  OwnerFine' /\ owner.next <= owner'.next
<1>1. owner.next \in Nat
  BY OwnerIs DEF OwnerFine, Ordered, Sound
<1>2. handed' = handed /\ unsure' = unsure
  BY DEF Asks
<1>3. CASE ~Found(owner, Looked(op, ref))
  <2>1. Answers("unknown", {}) /\ owner' = owner
    BY <1>3 DEF Asks
  <2>2. JobIs(job', owner')
    BY <2>1, AnswersIs DEF JobIs, AnswerIs
  <2> QED BY <1>1, <1>2, <2>1, <2>2 DEF OwnerFine
<1>4. CASE Found(owner, Looked(op, ref)) /\ files # "loaded"
  <2>1. Answers("stale", {}) /\ owner' = Invalidated(owner)
    BY <1>4 DEF Asks
  <2>2. JobIs(job', owner')
    BY <2>1, AnswersIs DEF JobIs, AnswerIs
  <2>3. Ordered(owner') /\ owner.next <= owner'.next /\ Held(owner', handed) /\ Accounted(owner', handed, unsure)
    BY <2>1, InvalidatedKeeps DEF OwnerFine
  <2> QED BY <1>2, <2>2, <2>3 DEF OwnerFine
<1>5. CASE Found(owner, Looked(op, ref)) /\ files = "loaded"
  <2>1. job' = [pc |-> "running", op |-> op, ref |-> ref, with |-> with] /\ owner' = owner
    BY <1>5 DEF Asks
  <2>2. Requested(job', owner)
    BY <1>5, <2>1 DEF Requested
  <2>3. JobIs(job', owner')
    BY <2>1, <2>2 DEF JobIs
  <2> QED BY <1>1, <1>2, <2>1, <2>3 DEF OwnerFine
<1> QED BY <1>3, <1>4, <1>5

\* What a request has done is in order whether its answer arrives or not.
LEMMA OutcomeKeeps ==
  ASSUME OwnerFine, job.pc = "running", NEW x \in Outcomes(job)
  PROVE  /\ Ordered(x.owner) /\ owner.next <= x.owner.next
         /\ x.answer \in {"ok", "rejected"} /\ (x.answer = "rejected" => x.handles = {})
         /\ x.handles \subseteq Handles /\ \A h \in x.handles : h.branch < x.owner.next
         /\ LET given == IF x.answer = "ok" THEN HandedAfter(job.op, job.ref, x.handles) ELSE handed
            IN Held(x.owner, given) /\ Accounted(x.owner, given, unsure)
         /\ Held(x.owner, IF job.op = "release" THEN handed \ {job.ref} ELSE handed)
<1>1. Requested(job, owner)
  BY PcIs DEF OwnerFine, JobIs, AnswerIs
<1>2. GoesThrough(owner, Gone(job), Lost(job), x)
  BY <1>1, OutcomesProceed DEF OwnerFine, Ordered
<1>3. /\ Sound(x.owner) /\ Needed(x.owner, 0) /\ Alike(owner, x.owner) /\ owner.next <= x.owner.next
      /\ x.answer \in {"ok", "rejected"} /\ (x.answer = "rejected" => x.handles = {} /\ Holds(owner) \subseteq Holds(x.owner))
      /\ x.handles \subseteq Handles /\ (Gone(job) # {} => x.handles = {})
      /\ \A h \in x.handles : h.epoch = owner.epoch /\ h.branch \in Present(x.owner)
      /\ Holds(owner) \ Gone(job) \subseteq Holds(x.owner)
      /\ \A n \in Holds(x.owner) : n \in Holds(owner) \/ Handle(owner, n) \in x.handles
      /\ x.answer = "ok" => Gone(job) \cap Holds(x.owner) = {}
  BY <1>2 DEF GoesThrough
<1>4. owner.epoch \in Nat /\ x.owner.epoch = owner.epoch /\ \A n : Handle(x.owner, n) = Handle(owner, n)
  BY <1>3, OwnerIs DEF OwnerFine, Ordered, Sound, Alike, Handle
<1>5. Present(x.owner) \subseteq Holds(x.owner) /\ \A n \in Holds(x.owner) : n < x.owner.next /\ n \in Nat
  BY <1>3, PresentIsHeld, OwnerIs DEF Sound, Tree
<1>6. job.ref \in Handles /\ job.ref.epoch = owner.epoch /\ Handle(owner, job.ref.branch) = job.ref
  BY <1>1, RequestedIs, HandleIs DEF Requested
<1>7. /\ handed \subseteq Handles
      /\ \A h \in handed : h.epoch <= owner.epoch /\ (h.epoch = owner.epoch => h.branch \in Holds(owner))
  BY DEF OwnerFine, Held
<1>8. \A n \in Holds(owner) \ {0} : Handle(owner, n) \in handed \/ unsure
  BY DEF OwnerFine, Accounted
<1> DEFINE staying == IF job.op = "release" THEN handed \ {job.ref} ELSE handed
<1>9. \A h \in staying : h.epoch = owner.epoch => h.branch \in Holds(x.owner)
  <2> SUFFICES ASSUME NEW h \in staying, h.epoch = owner.epoch PROVE h.branch \in Holds(x.owner)
    OBVIOUS
  <2>1. h \in handed /\ h \in Handles /\ h.branch \in Holds(owner) /\ Handle(owner, h.branch) = h
    BY <1>7, HandleIs
  <2>2. h.branch \notin Gone(job)
    BY <2>1, <1>6 DEF Gone
  <2> QED BY <2>1, <2>2, <1>3
<1>10. Held(x.owner, staying)
  BY <1>4, <1>7, <1>9 DEF Held
<1> DEFINE given == IF x.answer = "ok" THEN HandedAfter(job.op, job.ref, x.handles) ELSE handed
<1>11. ASSUME x.answer = "ok" /\ job.op = "release" PROVE Held(x.owner, given) /\ Accounted(x.owner, given, unsure)
  <2>1. given = staying
    BY <1>11 DEF HandedAfter
  <2>2. \A n \in Holds(x.owner) \ {0} : Handle(owner, n) \in staying \/ unsure
    <3> SUFFICES ASSUME NEW n \in Holds(x.owner) \ {0} PROVE Handle(owner, n) \in staying \/ unsure
      OBVIOUS
    <3>1. n # job.ref.branch
      BY <1>3, <1>11 DEF Gone
    <3>2. Handle(owner, n) # job.ref
      BY <3>1 DEF Handle
    <3>3. x.handles = {}
      BY <1>3, <1>11 DEF Gone
    <3> QED BY <3>2, <3>3, <1>3, <1>8
  <2> HIDE DEF staying
  <2> QED BY <2>1, <2>2, <1>4, <1>10 DEF Accounted
<1>12. ASSUME x.answer = "ok" /\ job.op # "release" PROVE Held(x.owner, given) /\ Accounted(x.owner, given, unsure)
  <2>1. given = handed \cup x.handles /\ staying = handed
    BY <1>12 DEF HandedAfter
  <2>2. Held(x.owner, handed \cup x.handles)
    BY <2>1, <1>3, <1>4, <1>5, <1>10 DEF Held
  <2>3. Accounted(x.owner, handed \cup x.handles, unsure)
    BY <1>3, <1>4, <1>8 DEF Accounted
  <2> QED BY <2>1, <2>2, <2>3
<1>13. ASSUME x.answer = "rejected" PROVE Held(x.owner, given) /\ Accounted(x.owner, given, unsure)
  <2>1. given = handed /\ Holds(x.owner) \subseteq Holds(owner)
    BY <1>3, <1>13
  <2>2. Accounted(x.owner, handed, unsure)
    BY <2>1, <1>4, <1>8 DEF Accounted
  <2>3. Held(x.owner, handed)
    BY <1>3, <1>4, <1>7, <1>13 DEF Held
  <2> QED BY <2>1, <2>2, <2>3
<1>14. \A h \in x.handles : h.branch < x.owner.next
  BY <1>3, <1>5
<1> QED BY <1>3, <1>10, <1>11, <1>12, <1>13, <1>14 DEF Ordered

LEMMA ConcludesKeeps ==
  ASSUME OwnerFine, ConcludesRequest
  PROVE  OwnerFine' /\ owner.next <= owner'.next
<1>1. job.pc = "running" /\ unsure' = unsure
  BY DEF ConcludesRequest
<1>2. CASE files # "loaded"
  <2>1. owner' = Invalidated(owner) /\ Answers("stale", {}) /\ handed' = handed
    BY <1>2 DEF ConcludesRequest
  <2>2. JobIs(job', owner')
    BY <2>1, AnswersIs DEF JobIs, AnswerIs
  <2>3. Ordered(owner') /\ owner.next <= owner'.next /\ Held(owner', handed) /\ Accounted(owner', handed, unsure)
    BY <2>1, InvalidatedKeeps DEF OwnerFine
  <2> QED BY <1>1, <2>1, <2>2, <2>3 DEF OwnerFine
<1>3. CASE files = "loaded"
  <2>1. PICK x \in Outcomes(job) :
          /\ owner' = x.owner /\ Answers(x.answer, x.handles)
          /\ handed' = IF x.answer = "ok" THEN HandedAfter(job.op, job.ref, x.handles) ELSE handed
    BY <1>3 DEF ConcludesRequest
  <2>2. /\ Ordered(x.owner) /\ owner.next <= x.owner.next
        /\ x.answer \in {"ok", "rejected"} /\ (x.answer = "rejected" => x.handles = {})
        /\ x.handles \subseteq Handles /\ \A h \in x.handles : h.branch < x.owner.next
        /\ Held(x.owner, handed') /\ Accounted(x.owner, handed', unsure)
    BY <1>1, <2>1, OutcomeKeeps
  <2>3. job'.pc = "answered" /\ job'.answer = x.answer /\ job'.handles = x.handles /\ job'.files = "loaded"
    BY <1>3, <2>1, AnswersIs
  <2>4. JobIs(job', owner')
    BY <2>1, <2>2, <2>3 DEF JobIs, AnswerIs
  <2> QED BY <1>1, <2>1, <2>2, <2>4 DEF OwnerFine
<1> QED BY <1>2, <1>3

LEMMA CancelKeeps ==
  ASSUME OwnerFine, IsCancelled
  PROVE  OwnerFine' /\ owner.next <= owner'.next
<1>1. /\ job.pc = "running" /\ Answers("cancelled", {}) /\ unsure' = TRUE
      /\ handed' = IF job.op = "release" THEN handed \ {job.ref} ELSE handed
      /\ owner' \in {owner} \cup (IF files = "loaded" THEN {x.owner : x \in Outcomes(job)} ELSE {Invalidated(owner)})
  BY DEF IsCancelled
<1>2. owner.next \in Nat
  BY OwnerIs DEF OwnerFine, Ordered, Sound
<1>3. JobIs(job', owner')
  BY <1>1, AnswersIs DEF JobIs, AnswerIs
<1>4. Accounted(owner', handed', unsure')
  BY <1>1 DEF Accounted
<1>5. handed' \in SUBSET handed
  BY <1>1
<1>6. Ordered(owner') /\ owner.next <= owner'.next /\ Held(owner', handed')
  <2>1. CASE owner' = owner
    <3>1. Held(owner, handed')
      BY <1>5 DEF OwnerFine, Held
    <3> QED BY <2>1, <3>1, <1>2 DEF OwnerFine
  <2>2. CASE owner' = Invalidated(owner)
    BY <2>2, <1>5, InvalidatedKeeps DEF OwnerFine
  <2>3. ASSUME NEW x \in Outcomes(job), owner' = x.owner
        PROVE  Ordered(owner') /\ owner.next <= owner'.next /\ Held(owner', handed')
    BY <1>1, <2>3, OutcomeKeeps
  <2> QED BY <1>1, <2>1, <2>2, <2>3
<1> QED BY <1>3, <1>4, <1>6 DEF OwnerFine

LEMMA ClosesKeeps ==
  ASSUME OwnerFine, ClosesSession
  PROVE  OwnerFine' /\ owner.next <= owner'.next
<1>1. job.pc # "running" /\ owner' = [Invalidated(owner) EXCEPT !.closed = TRUE] /\ handed' = handed /\ job' = job /\ unsure' = unsure
  BY DEF ClosesSession
<1>2. Ordered(owner') /\ owner.next <= owner'.next /\ Held(owner', handed) /\ Accounted(owner', handed, unsure)
  BY <1>1, InvalidatedKeeps DEF OwnerFine
<1>3. owner.next \in Nat /\ owner'.next \in Nat
  BY <1>2, OwnerIs DEF OwnerFine, Ordered, Sound
<1>4. ASSUME AnswerIs(job, owner) PROVE AnswerIs(job, owner')
  <2>1. \A h \in job.handles : h.branch \in Nat /\ h.branch < owner.next
    BY <1>4, HandleIs DEF AnswerIs
  <2> QED BY <1>2, <1>3, <1>4, <2>1 DEF AnswerIs
<1>5. JobIs(job, owner')
  BY <1>1, <1>4 DEF OwnerFine, JobIs
<1> QED BY <1>1, <1>2, <1>5 DEF OwnerFine

\* The answer is taken or forgotten, or nothing happens to the owner.
LEMMA LeavesKeeps ==
  ASSUME OwnerFine, owner' = owner, handed' = handed, unsure' = unsure, job' = job \/ job' = NoJob
  PROVE  OwnerFine' /\ owner.next <= owner'.next
<1>1. owner.next \in Nat
  BY OwnerIs DEF OwnerFine, Ordered, Sound
<1>2. JobIs(job', owner)
  BY DEF OwnerFine, JobIs
<1> QED BY <1>1, <1>2 DEF OwnerFine

-----------------------------------------------------------------------------
(* The run.                                                                *)

\* What the run names was given to it.
RunFine ==
  /\ native \in NativeTasks \cup {NoNative}
  /\ states \subseteq Handles
  /\ exports \subseteq Handles /\ \A h \in exports : h.branch < owner.next

NativeInv == OwnerFine /\ RunFine

LEMMA TaskIs ==
  ASSUME native \in NativeTasks \cup {NoNative}
  PROVE  native.goals \in Nat
BY TasksAssumption DEF NoNative

LEMMA NativeInitIsFine == NativeInit => NativeInv
<1> SUFFICES ASSUME NativeInit PROVE NativeInv
  OBVIOUS
<1>1. /\ owner = [epoch |-> 0, closed |-> FALSE, next |-> 1, branches |-> [n \in {0} |-> RootBranch], applications |-> {}]
      /\ job = NoJob /\ handed = {} /\ unsure = FALSE
  BY DEF NativeInit, OwnerInit
<1>2. /\ RootBranch \in Branches /\ RootBranch.parent = 0 /\ RootBranch.resident /\ RootBranch.lease = "caller"
      /\ RootBranch.children = 0
  <2>1. <<>> \in Keys
    BY DEF Keys
  <2> HIDE DEF Keys
  <2> QED BY <2>1 DEF RootBranch, Branches, Leases
<1> DEFINE f == [n \in {0} |-> RootBranch]
<1>3. DOMAIN f = {0} /\ f \in [DOMAIN f -> Branches] /\ f[0] = RootBranch
  BY <1>2
<1> HIDE DEF f
<1>4. owner.branches = f /\ owner.next = 1 /\ owner.applications = {} /\ owner.epoch = 0 /\ owner.closed = FALSE
  BY <1>1 DEF f
<1>5. owner \in Owners
  <2>1. f \in Forests
    BY <1>3, ForestIs
  <2> QED BY <1>1, <2>1 DEF Owners, f
<1>6. Numbers(owner) = {0} /\ owner.branches[0] = RootBranch /\ Parents(owner, 0) = 0
  BY <1>2, <1>3, <1>4 DEF Numbers, Parents
<1>7. Sound(owner)
  <2>1. Tree(owner)
    BY <1>2, <1>4, <1>6 DEF Tree
  <2>2. Kids(owner, 0) = {}
    BY <1>6 DEF Kids
  <2>3. Counted(owner)
    BY <1>2, <1>6, <2>2, FS_EmptySet DEF Counted
  <2> QED BY <1>2, <1>4, <1>5, <1>6, <2>1, <2>3 DEF Sound, Leased, Reused, Leads
<1>8. Holds(owner) = {0} /\ Needed(owner, 0)
  BY <1>2, <1>6 DEF Holds, Needed
<1>9. OwnerFine
  BY <1>1, <1>7, <1>8 DEF OwnerFine, Ordered, Held, Accounted, JobIs
<1>10. RunFine
  BY DEF NativeInit, RunFine
<1> QED BY <1>9, <1>10 DEF NativeInv

LEMMA RunKeeps ==
  ASSUME NativeInv, OwnerFine', owner.next <= owner'.next,
         native' = native, states' = states, exports' \in SUBSET exports
  PROVE  NativeInv'
<1>1. owner.next \in Nat /\ owner'.next \in Nat
  BY OwnerIs DEF NativeInv, OwnerFine, Ordered, Sound
<1>2. \A h \in exports' : h \in Handles /\ h.branch < owner.next /\ h.branch \in Nat
  BY HandleIs DEF NativeInv, RunFine
<1>3. \A h \in exports' : h.branch < owner'.next
  BY <1>1, <1>2
<1> QED BY <1>2, <1>3 DEF NativeInv, RunFine

LEMMA StillKeeps ==
  ASSUME NativeInv, UNCHANGED <<native, states, exports, owner, handed, unsure>>, job' = job \/ job' = NoJob
  PROVE  NativeInv'
<1>1. OwnerFine' /\ owner.next <= owner'.next
  BY LeavesKeeps DEF NativeInv
<1> QED BY <1>1, RunKeeps

LEMMA RootIsAHandle == RootKey(0) \in Handles
BY DEF RootKey, Handles

LastExport == CHOOSE h \in exports : \A other \in exports : other.branch <= h.branch

LEMMA LastIs ==
  ASSUME NativeInv, exports # {}
  PROVE  LastExport \in exports
<1> DEFINE B == {h.branch : h \in exports}
<1>1. owner.next \in Nat
  BY OwnerIs DEF NativeInv, OwnerFine, Ordered, Sound
<1>2. \A h \in exports : h.branch \in Nat /\ h.branch < owner.next
  BY HandleIs DEF NativeInv, RunFine
<1>3. B \subseteq Nat /\ B # {} /\ \A b \in B : b <= owner.next
  BY <1>1, <1>2
<1>4. \E b \in B : \A c \in B : c <= b
  BY <1>1, <1>3, GreatestNatural, Zenon
<1>5. \E h \in exports : \A other \in exports : other.branch <= h.branch
  BY <1>4
<1> QED BY <1>5 DEF LastExport

LEMMA EngineKeeps ==
  ASSUME NativeInv, EngineSteps
  PROVE  NativeInv'
<1>0. native.goals \in Nat /\ states \subseteq Handles /\ exports \subseteq Handles
  BY TaskIs DEF NativeInv, RunFine
<1>1. CASE Prepares \/ Opens \/ Advances \/ NativeAnswers \/ Views
  <2>1. UNCHANGED <<native, states, exports, ownerVars>>
    BY <1>1 DEF Prepares, Opens, Advances, NativeAnswers, Views
  <2> QED BY <2>1, StillKeeps DEF ownerVars
<1>2. CASE Judges \/ Reads \/ Checks \/ ConcludesCheck \/ FinishesRun \/ SourceDrifts
  <2>1. UNCHANGED <<native, states, exports, ownerVars>>
    BY <1>2 DEF Judges, Reads, Checks, ConcludesCheck, FinishesRun, SourceDrifts
  <2> QED BY <2>1, StillKeeps DEF ownerVars
<1>3. CASE StartsSearch
  <2>1. native' = native /\ states' = states /\ exports' = exports
    BY <1>3 DEF StartsSearch
  <2>2. CASE Asks("inspect", RootKey(0), <<>>)
    <3>1. OwnerFine' /\ owner.next <= owner'.next
      BY <2>2, AsksKeeps, RootIsAHandle DEF NativeInv
    <3> QED BY <2>1, <3>1, RunKeeps
  <2>3. CASE TakesAnswer
    BY <2>1, <2>3, StillKeeps DEF TakesAnswer
  <2> QED BY <1>3, <2>2, <2>3 DEF StartsSearch, Requests
<1>4. CASE NativeApplies
  <2>1. native' = native /\ states' = states /\ exports' = exports
    BY <1>4 DEF NativeApplies
  <2>2. CASE Asks("solve", RootKey(0), <<>>)
    <3>1. OwnerFine' /\ owner.next <= owner'.next
      BY <2>2, AsksKeeps, RootIsAHandle DEF NativeInv
    <3> QED BY <2>1, <3>1, RunKeeps
  <2>3. ASSUME NEW s \in {RootKey(0)} \cup states, NEW a \in Actions, Asks("apply", s, a) PROVE NativeInv'
    <3>1. s \in Handles
      BY <1>0, RootIsAHandle
    <3>2. OwnerFine' /\ owner.next <= owner'.next
      BY <2>3, <3>1, AsksKeeps DEF NativeInv
    <3> QED BY <2>1, <3>2, RunKeeps
  <2> QED BY <1>4, <2>2, <2>3 DEF NativeApplies, Requests
<1>5. CASE NativeLearns
  <2>1. /\ TakesAnswer /\ job.pc = "answered" /\ states' = states \cup job.handles
        /\ native' = native /\ exports' = exports
    BY <1>5 DEF NativeLearns, Answered
  <2>2. OwnerFine' /\ owner' = owner
    BY <2>1, LeavesKeeps DEF TakesAnswer, NativeInv
  <2>3. job.handles \subseteq Handles
    BY <2>1, PcIs DEF NativeInv, OwnerFine, JobIs, AnswerIs
  <2> QED BY <2>1, <2>2, <2>3 DEF NativeInv, RunFine
<1>6. CASE Exports
  <2>1. native' = native /\ states' = states /\ exports' = exports
    BY <1>6 DEF Exports
  <2>2. ASSUME NEW s, NEW k \in Nat, Asks("export", RootKey(0), [descendant |-> s, goals |-> k]) PROVE NativeInv'
    <3>1. [descendant |-> s, goals |-> k].goals \in Nat
      OBVIOUS
    <3>2. OwnerFine' /\ owner.next <= owner'.next
      BY <2>2, <3>1, AsksKeeps, RootIsAHandle DEF NativeInv
    <3> QED BY <2>1, <3>2, RunKeeps
  <2> QED BY <1>0, <1>6, <2>2 DEF Exports, Requests
<1>7. CASE TakesExport
  <2>1. /\ TakesAnswer /\ job.pc = "answered" /\ exports' \in {job.handles, {}}
        /\ native' = native /\ states' = states
    BY <1>7 DEF TakesExport, Answered
  <2>2. OwnerFine' /\ owner' = owner
    BY <2>1, LeavesKeeps DEF TakesAnswer, NativeInv
  <2>3. job.handles \subseteq Handles /\ \A h \in job.handles : h.branch < owner.next
    BY <2>1, PcIs DEF NativeInv, OwnerFine, JobIs, AnswerIs
  <2> QED BY <2>1, <2>2, <2>3 DEF NativeInv, RunFine
<1>8. CASE ReleasesExports
  <2>1. native' = native /\ states' = states
    BY <1>8 DEF ReleasesExports
  <2>2. CASE UNCHANGED <<exports, ownerVars>>
    BY <2>1, <2>2, StillKeeps DEF ownerVars
  <2>3. CASE exports # {} /\ Asks("release", LastExport, <<>>) /\ UNCHANGED exports
    <3>1. LastExport \in Handles
      BY <2>3, <1>0, LastIs
    <3>2. OwnerFine' /\ owner.next <= owner'.next
      BY <2>3, <3>1, AsksKeeps DEF NativeInv
    <3> QED BY <2>1, <2>3, <3>2, RunKeeps
  <2>4. CASE TakesAnswer /\ exports' = exports \ {LastExport}
    <3>1. OwnerFine' /\ owner.next <= owner'.next
      BY <2>4, LeavesKeeps DEF TakesAnswer, NativeInv
    <3> QED BY <2>1, <2>4, <3>1, RunKeeps
  <2> QED BY <1>8, <2>2, <2>3, <2>4 DEF ReleasesExports, Requests, LastExport
<1>9. CASE HandsOver
  <2>1. OwnerFine' /\ owner.next <= owner'.next /\ native' = native /\ states' = states /\ exports' = exports
    BY <1>9, ClosesKeeps DEF HandsOver, NativeInv
  <2> QED BY <2>1, RunKeeps
<1>10. CASE ClosesRun
  <2>1. native' = native /\ states' = states /\ exports' = exports
    BY <1>10 DEF ClosesRun
  <2>2. CASE UNCHANGED ownerVars
    BY <2>1, <2>2, StillKeeps DEF ownerVars
  <2>3. CASE ClosesSession
    <3>1. OwnerFine' /\ owner.next <= owner'.next
      BY <2>3, ClosesKeeps DEF NativeInv
    <3> QED BY <2>1, <3>1, RunKeeps
  <2> QED BY <1>10, <2>2, <2>3 DEF ClosesRun
<1>11. CASE NativeTrouble
  BY <1>11, StillKeeps DEF NativeTrouble
<1> QED BY <1>1, <1>2, <1>3, <1>4, <1>5, <1>6, <1>7, <1>8, <1>9, <1>10, <1>11 DEF EngineSteps

LEMMA DirectKeeps ==
  ASSUME NativeInv, DirectClient
  PROVE  NativeInv'
<1>1. native' = native /\ states' = states /\ exports' = exports
  BY DEF DirectClient, engineVars
<1> DEFINE refs == [epoch : {owner.epoch}, branch : Numbers(owner)] \cup {RootKey(0)}
<1>2. refs \subseteq Handles
  <2>1. owner.epoch \in Nat /\ Numbers(owner) \subseteq Nat
    BY OwnerIs DEF NativeInv, OwnerFine, Ordered, Sound
  <2> QED BY <2>1, RootIsAHandle DEF Handles
<1> HIDE DEF refs
<1>3. ASSUME NEW op \in {"evict", "release", "replay"}, NEW r \in refs, Asks(op, r, <<>>) PROVE NativeInv'
  <2>1. r \in Handles /\ op # "apply" /\ op # "export" /\ op \in {"inspect", "apply", "solve", "export", "evict", "release", "replay"}
    BY <1>2, <1>3
  <2>2. OwnerFine' /\ owner.next <= owner'.next
    BY <1>3, <2>1, AsksKeeps DEF NativeInv
  <2> QED BY <1>1, <2>2, RunKeeps
<1>4. ASSUME NEW r \in refs, NEW a \in Actions, Asks("apply", r, a) PROVE NativeInv'
  <2>1. OwnerFine' /\ owner.next <= owner'.next
    BY <1>2, <1>4, AsksKeeps DEF NativeInv
  <2> QED BY <1>1, <2>1, RunKeeps
<1>5. ASSUME NEW r \in refs, Asks("export", RootKey(0), [descendant |-> r, goals |-> 1]) PROVE NativeInv'
  <2>1. [descendant |-> r, goals |-> 1].goals \in Nat
    OBVIOUS
  <2>2. OwnerFine' /\ owner.next <= owner'.next
    BY <1>5, <2>1, AsksKeeps, RootIsAHandle DEF NativeInv
  <2> QED BY <1>1, <2>2, RunKeeps
<1>6. CASE TakesAnswer
  BY <1>1, <1>6, StillKeeps DEF TakesAnswer
<1>7. CASE IsCancelled
  <2>1. OwnerFine' /\ owner.next <= owner'.next
    BY <1>7, CancelKeeps DEF NativeInv
  <2> QED BY <1>1, <2>1, RunKeeps
<1>8. CASE ClosesSession
  <2>1. OwnerFine' /\ owner.next <= owner'.next
    BY <1>8, ClosesKeeps DEF NativeInv
  <2> QED BY <1>1, <2>1, RunKeeps
<1> QED BY <1>3, <1>4, <1>5, <1>6, <1>7, <1>8 DEF DirectClient, refs

LEMMA NativeKeeps == NativeInv /\ [NativeSteps]_nativeVars => NativeInv'
<1> SUFFICES ASSUME NativeInv, [NativeSteps]_nativeVars PROVE NativeInv'
  OBVIOUS
<1>1. CASE EngineSteps
  BY <1>1, EngineKeeps
<1>2. CASE DirectClient
  BY <1>2, DirectKeeps
<1>3. CASE OwnerSteps
  <2>1. native' = native /\ states' = states /\ exports' = exports
    BY <1>3 DEF OwnerSteps, engineVars
  <2>2. CASE ConcludesRequest
    <3>1. OwnerFine' /\ owner.next <= owner'.next
      BY <2>2, ConcludesKeeps DEF NativeInv
    <3> QED BY <2>1, <3>1, RunKeeps
  <2>3. CASE FilesChange
    BY <2>1, <2>3, StillKeeps DEF FilesChange
  <2> QED BY <1>3, <2>2, <2>3 DEF OwnerSteps
<1>4. CASE UNCHANGED nativeVars
  BY <1>4, StillKeeps DEF nativeVars, engineVars, ownerVars
<1> QED BY <1>1, <1>2, <1>3, <1>4 DEF NativeSteps

LEMMA OwnerIsGood == OwnerFine => HandlesStayGood
<1> SUFFICES ASSUME OwnerFine PROVE HandlesStayGood
  OBVIOUS
<1> DEFINE current == {h.branch : h \in {h \in handed : h.epoch = owner.epoch}}
<1>1. Sound(owner) /\ Needed(owner, 0)
  BY DEF OwnerFine, Ordered
<1>2. ASSUME NEW n \in current
      PROVE  /\ 0 \in Above(owner, n) /\ owner.branches[n].lease = "caller"
             /\ \E m \in Above(owner, n) : owner.branches[m].resident
  <2>1. n \in Holds(owner)
    BY <1>2 DEF OwnerFine, Held
  <2>2. n \in Numbers(owner) /\ owner.branches[n].lease = "caller"
    BY <2>1 DEF Holds
  <2>3. 0 \in Above(owner, n) /\ 0 \in Numbers(owner)
    BY <1>1, <2>2, AboveIs, AboveIsBelow
  <2>4. owner.branches[0].resident
    BY <1>1, <2>3 DEF Sound, Tree
  <2> QED BY <2>2, <2>3, <2>4
<1>3. \A n \in Numbers(owner) : owner.branches[n].children = Cardinality({m \in Numbers(owner) \ {0} : Parents(owner, m) = n})
  BY <1>1 DEF Sound, Counted, Kids
<1>4. ASSUME NEW n \in Numbers(owner) \ {0}, owner.branches[n].lease = "caller" PROVE n \in current \/ unsure
  <2>1. Handle(owner, n) \in handed \/ unsure
    BY <1>4 DEF OwnerFine, Accounted, Holds
  <2>2. Handle(owner, n).epoch = owner.epoch /\ Handle(owner, n).branch = n
    BY DEF Handle
  <2> QED BY <2>1, <2>2
<1>5. \A n \in Numbers(owner) \ {0} : owner.branches[n].lease # "caller" => owner.branches[n].children > 0
  BY <1>1 DEF Needed
<1>6. \A x \in owner.applications :
        /\ x.child \in Numbers(owner) /\ owner.branches[x.child].resident
        /\ Parents(owner, x.child) = x.key[1] /\ owner.branches[x.child].application = x.key
  BY <1>1 DEF Sound, Reused, Leads
<1>7. job.pc = "answered" => job.answer # "broken" /\ (job.answer = "ok" => job.files = "loaded")
  BY PcIs DEF OwnerFine, JobIs, AnswerIs
<1> HIDE DEF current
<1>8. \A n \in IF owner.closed THEN {} ELSE current :
         /\ 0 \in Above(owner, n) /\ owner.branches[n].lease = "caller"
         /\ \E m \in Above(owner, n) : owner.branches[m].resident
  BY <1>2
<1>9. \A n \in Numbers(owner) \ {0} :
         IF owner.branches[n].lease = "caller" THEN n \in current \/ unsure ELSE owner.branches[n].children > 0
  BY <1>4, <1>5
<1> QED BY <1>3, <1>6, <1>7, <1>8, <1>9 DEF HandlesStayGood, current

\* HandlesStayGood holds of every run and every other client, whatever it asks
\* for: check, solve, export, evict, release, replay, a cancelled request, an edit
\* of the files, the end of the session.
THEOREM HandlesAreGood == NativeSpec => []HandlesStayGood
<1>1. NativeInit => NativeInv
  BY NativeInitIsFine
<1>2. NativeInv /\ [NativeSteps]_nativeVars => NativeInv'
  BY NativeKeeps
<1>3. NativeInv => HandlesStayGood
  BY OwnerIsGood DEF NativeInv
<1> QED BY <1>1, <1>2, <1>3, PTL DEF NativeSpec

-----------------------------------------------------------------------------
(* What a run claims.                                                      *)

Statuses == {"internal-error", "unsolved", "invalid-task", "toolchain-error", "resource-exhausted",
             "verified", "impossible", "accepted-step"}
Edits == {<<>>, <<"task", "task">>}
Claims == [status : Statuses, patch : Edits, certificate : BOOLEAN, action : Edits, credits : BOOLEAN, exhausted : BOOLEAN]
Ended == {"closing", "finishing", "done"}

\* While the search goes on at most a step is claimed.
Claimless(c) ==
  /\ c.patch = <<>> /\ c.certificate = FALSE /\ c.credits = FALSE /\ c.exhausted = FALSE
  /\ c.status = "accepted-step" <=> c.action # <<>>
  /\ c.status \in {"internal-error", "unsolved", "accepted-step"}

\* After it a step may still be there that the status does not go with.
Fair(c) ==
  /\ c.status = "verified" => c.patch # <<>> /\ c.certificate = FALSE
  /\ c.status = "impossible" => c.certificate = TRUE /\ c.patch = <<>>
  /\ c.status = "accepted-step" => c.action # <<>>
  /\ c.status \in {"unsolved", "invalid-task"} => c.patch = <<>> /\ c.certificate = FALSE
  /\ c.credits = TRUE => c.patch # <<>>

Honest(c) ==
  /\ Fair(c) /\ (c.status = "accepted-step" <=> c.action # <<>>)
  /\ c.exhausted = TRUE => c.patch = <<>> /\ c.certificate = FALSE /\ c.status = "resource-exhausted"

\* The edit that is checked was read from the inputs as they still are.
AboutInputs ==
  found # "refutation" /\ inputs = "task" =>
    /\ at \in {"checking", "running"} => about = <<"task">>
    /\ at = "checked" => about = <<"task", "task">>

ClaimInv ==
  /\ claim \in Claims
  /\ at \notin Ended => Claimless(claim)
  /\ at \in {"closing", "finishing"} => Fair(claim) /\ claim.exhausted = FALSE
  /\ at = "done" => Honest(claim)
  /\ at \in {"setup", "inspected"} => claim.action = <<>>
  /\ at = "reading" => found # "refutation"
  /\ at \in {"checking", "running", "checked"} /\ found = "refutation" => ~OneMove
  /\ AboutInputs

LEMMA EditsDiffer == <<"task", "task">> # <<>> /\ <<"task", "task">> \in Edits /\ <<>> \in Edits
BY DEF Edits

LEMMA BareIsFair ==
  ASSUME NEW c \in Claims, Claimless(c),
         NEW s \in {"internal-error", "unsolved", "invalid-task", "toolchain-error", "resource-exhausted"}
  PROVE  /\ Fair(c) /\ c.exhausted = FALSE
         /\ [c EXCEPT !.status = s] \in Claims /\ Fair([c EXCEPT !.status = s]) /\ [c EXCEPT !.status = s].exhausted = FALSE
<1>1. Fair(c) /\ c.exhausted = FALSE
  BY DEF Claimless, Fair
<1> DEFINE d == [c EXCEPT !.status = s]
<1>2. /\ d \in Claims /\ d.status = s /\ d.patch = c.patch /\ d.certificate = c.certificate /\ d.action = c.action
      /\ d.credits = c.credits /\ d.exhausted = c.exhausted
  <2>1. s \in Statuses
    BY DEF Statuses
  <2> HIDE DEF Edits, Statuses
  <2> QED BY <2>1 DEF Claims
<1> HIDE DEF d
<1>3. Fair(d) /\ d.exhausted = FALSE
  BY <1>2 DEF Claimless, Fair
<1> QED BY <1>1, <1>2, <1>3 DEF d

LEMMA RaisesIsFair ==
  ASSUME claim \in Claims, Claimless(claim), at \notin Ended,
         NEW s \in {"internal-error", "unsolved", "invalid-task", "toolchain-error", "resource-exhausted"}, Raises(s)
  PROVE  ClaimInv'
<1>1. at' \in {"closing", "finishing"} /\ claim' = [claim EXCEPT !.status = s]
  BY DEF Raises, Status
<1>2. claim' \in Claims /\ Fair(claim') /\ claim'.exhausted = FALSE
  BY <1>1, BareIsFair
<1> QED BY <1>1, <1>2 DEF ClaimInv, AboutInputs, Ended

\* Nothing is claimed anew, and nothing is being checked.
LEMMA GoesOnFairly ==
  ASSUME claim \in Claims, Claimless(claim), claim' = claim,
         at' \notin {"checking", "running", "checked", "finishing", "done", "setup", "inspected", "reading"}
  PROVE  ClaimInv'
<1>1. Fair(claim) /\ claim.exhausted = FALSE
  BY BareIsFair
<1> QED BY <1>1 DEF ClaimInv, AboutInputs, Ended

LEMMA AcceptedIsFair ==
  ASSUME claim \in Claims, Claimless(claim), ClaimAccepted,
         found = "refutation" => ~OneMove, found # "refutation" => about = <<"task", "task">>
  PROVE  ClaimInv'
<1> DEFINE edit == <<"task", "task">>
<1>0. edit # <<>> /\ edit \in Edits /\ (found # "refutation" => about = edit)
  BY EditsDiffer
<1> HIDE DEF edit
<1>1. claim.patch = <<>> /\ claim.certificate = FALSE /\ claim.credits = FALSE /\ claim.exhausted = FALSE
  BY DEF Claimless
<1>2. CASE found = "refutation"
  <2>1. at' = "closing" /\ claim' = [claim EXCEPT !.certificate = TRUE, !.status = "impossible"]
    BY <1>2 DEF ClaimAccepted
  <2>2. /\ claim' \in Claims /\ claim'.status = "impossible" /\ claim'.certificate = TRUE /\ claim'.patch = <<>>
        /\ claim'.credits = FALSE /\ claim'.exhausted = FALSE
    <3>1. "impossible" \in Statuses
      BY DEF Statuses
    <3> HIDE DEF Statuses, Edits
    <3> QED BY <2>1, <3>1, <1>1 DEF Claims
  <2> QED BY <2>1, <2>2 DEF ClaimInv, AboutInputs, Ended, Fair
<1>3. CASE found # "refutation" /\ OneMove
  <2>1. /\ at' = IF native.mode = "steps" THEN "advancing" ELSE "closing"
        /\ claim' = [claim EXCEPT !.action = IF claim.action = <<>> THEN about ELSE claim.action, !.status = "accepted-step"]
    BY <1>3 DEF ClaimAccepted
  <2> DEFINE action == IF claim.action = <<>> THEN about ELSE claim.action
  <2>2. action # <<>> /\ action \in Edits
    BY <1>0, <1>3 DEF Claims
  <2> HIDE DEF action
  <2>3. /\ claim' \in Claims /\ claim'.status = "accepted-step" /\ claim'.certificate = FALSE /\ claim'.patch = <<>>
        /\ claim'.credits = FALSE /\ claim'.exhausted = FALSE /\ claim'.action # <<>>
    <3>1. "accepted-step" \in Statuses
      BY DEF Statuses
    <3>2. claim' = [claim EXCEPT !.action = action, !.status = "accepted-step"]
      BY <2>1 DEF action
    <3> HIDE DEF Statuses, Edits
    <3> QED BY <2>2, <3>1, <3>2, <1>1 DEF Claims
  <2> QED BY <2>1, <2>3 DEF ClaimInv, AboutInputs, Ended, Fair, Claimless
<1>4. CASE found # "refutation" /\ ~OneMove
  <2>1. PICK clean \in BOOLEAN :
          at' = "closing" /\ claim' = [claim EXCEPT !.patch = about, !.status = "verified", !.credits = clean]
    BY <1>4 DEF ClaimAccepted
  <2>2. /\ claim' \in Claims /\ claim'.status = "verified" /\ claim'.certificate = FALSE /\ claim'.patch # <<>>
        /\ claim'.exhausted = FALSE
    <3>1. "verified" \in Statuses
      BY DEF Statuses
    <3> HIDE DEF Statuses, Edits
    <3> QED BY <1>0, <1>1, <1>4, <2>1, <3>1 DEF Claims
  <2> QED BY <2>1, <2>2 DEF ClaimInv, AboutInputs, Ended, Fair
<1> QED BY <1>2, <1>3, <1>4

LEMMA FinishedIsHonest ==
  ASSUME ClaimInv, FinishesRun
  PROVE  ClaimInv'
<1>1. claim \in Claims /\ Fair(claim) /\ claim.exhausted = FALSE /\ at' = "done"
  BY DEF ClaimInv, FinishesRun
<1>2. PICK exhausted \in BOOLEAN :
        LET left == [claim EXCEPT !.exhausted = exhausted, !.status = IF exhausted THEN "resource-exhausted" ELSE claim.status]
            bare == [left EXCEPT !.patch = <<>>, !.certificate = FALSE, !.action = <<>>, !.credits = FALSE]
        IN claim' = IF exhausted THEN bare
                    ELSE IF left.status # "accepted-step" THEN [left EXCEPT !.action = <<>>] ELSE left
  BY DEF FinishesRun
<1>3. "resource-exhausted" \in Statuses /\ <<>> \in Edits
  BY EditsDiffer DEF Statuses
<1> DEFINE none == <<>>
<1>4. none \in Edits
  BY <1>3
<1>5. CASE exhausted = TRUE
  <2>1. claim' = [claim EXCEPT !.exhausted = TRUE, !.status = "resource-exhausted", !.patch = none, !.certificate = FALSE,
                               !.action = none, !.credits = FALSE]
    BY <1>1, <1>2, <1>5 DEF Claims
  <2> HIDE DEF none, Edits, Statuses
  <2>2. /\ claim' \in Claims /\ claim'.status = "resource-exhausted" /\ claim'.patch = none /\ claim'.certificate = FALSE
        /\ claim'.action = none /\ claim'.credits = FALSE
    BY <1>1, <1>3, <1>4, <2>1 DEF Claims
  <2> QED BY <1>1, <2>2 DEF ClaimInv, AboutInputs, Ended, Honest, Fair, none
<1>6. CASE exhausted = FALSE /\ claim.status # "accepted-step"
  <2>1. claim' = [claim EXCEPT !.exhausted = FALSE, !.action = none]
    BY <1>1, <1>2, <1>6 DEF Claims
  <2> HIDE DEF none, Edits, Statuses
  <2>2. /\ claim' \in Claims /\ claim'.status = claim.status /\ claim'.patch = claim.patch
        /\ claim'.certificate = claim.certificate /\ claim'.action = none /\ claim'.credits = claim.credits
        /\ claim'.exhausted = FALSE
    BY <1>1, <1>4, <2>1 DEF Claims
  <2> QED BY <1>1, <1>6, <2>2 DEF ClaimInv, AboutInputs, Ended, Honest, Fair, none
<1>7. CASE exhausted = FALSE /\ claim.status = "accepted-step"
  <2>1. claim' = claim
    BY <1>1, <1>2, <1>7 DEF Claims
  <2> QED BY <1>1, <1>7, <2>1 DEF ClaimInv, AboutInputs, Ended, Honest, Fair
<1> QED BY <1>2, <1>5, <1>6, <1>7

LEMMA EngineIsFair ==
  ASSUME ClaimInv, EngineSteps
  PROVE  ClaimInv'
<1>0. claim \in Claims /\ (at \notin Ended => Claimless(claim))
  BY DEF ClaimInv
<1>1. ASSUME NEW s \in {"internal-error", "unsolved", "invalid-task", "toolchain-error", "resource-exhausted"}, at \notin Ended, Raises(s)
      PROVE  ClaimInv'
  BY <1>0, <1>1, RaisesIsFair
<1>2. CASE Prepares
  <2>1. CASE at = "setup" /\ GoesTo("inspected")
    BY <2>1, <1>2, <1>0 DEF GoesTo, ClaimInv, AboutInputs, Ended
  <2>2. CASE at = "inspected" /\ Status("unsolved") /\ at' = "opening"
    <3>1. claim' = [claim EXCEPT !.status = "unsolved"] /\ claim.action = <<>> /\ Claimless(claim)
      BY <2>2, <1>0 DEF Status, ClaimInv, Ended
    <3>2. claim' \in Claims /\ claim'.status = "unsolved" /\ claim'.patch = claim.patch /\ claim'.certificate = claim.certificate
          /\ claim'.action = <<>> /\ claim'.credits = claim.credits /\ claim'.exhausted = claim.exhausted
      <4>1. "unsolved" \in Statuses
        BY DEF Statuses
      <4> HIDE DEF Statuses, Edits
      <4> QED BY <3>1, <4>1, <1>0 DEF Claims
    <3>3. Claimless(claim')
      BY <3>1, <3>2 DEF Claimless
    <3> QED BY <2>2, <3>2, <3>3 DEF ClaimInv, AboutInputs, Ended
  <2>3. CASE at = "inspected" /\ Raises("internal-error")
    BY <2>3, <1>1 DEF Ended
  <2> QED BY <1>2, <2>1, <2>2, <2>3 DEF Prepares, WhileCurrent
<1>3. CASE Opens
  <2>1. CASE at = "opening" /\ GoesTo("starting")
    BY <2>1, <1>0, GoesOnFairly DEF GoesTo, Ended
  <2>2. CASE at = "opening" /\ Raises("toolchain-error")
    BY <2>2, <1>1 DEF Ended
  <2> QED BY <1>3, <2>1, <2>2 DEF Opens
<1>4. CASE StartsSearch
  <2>1. at = "starting"
    BY <1>4 DEF StartsSearch, Answered
  <2>2. CASE Raises("internal-error")
    BY <2>1, <2>2, <1>1 DEF Ended
  <2>3. CASE \E place \in {"starting", "searching", "viewing", "advancing"} : GoesTo(place)
    BY <2>1, <2>3, <1>0, GoesOnFairly DEF GoesTo, Ended
  <2> QED BY <1>4, <2>2, <2>3 DEF StartsSearch, Requests
<1>5. CASE Advances \/ NativeApplies
  <2>1. at \in {"advancing", "searching"} /\ GoesTo("searching")
    BY <1>5 DEF Advances, NativeApplies, Requests
  <2> QED BY <2>1, <1>0, GoesOnFairly DEF GoesTo, Ended
<1>6. CASE NativeLearns \/ NativeAnswers
  <2>1. at = "searching" /\ \E place \in {"searching", "handing", "judging", "viewing", "advancing", "exporting"} : GoesTo(place)
    BY <1>6 DEF NativeLearns, NativeAnswers, Answered, Yields
  <2> QED BY <2>1, <1>0, GoesOnFairly DEF GoesTo, Ended
<1>7. CASE Exports
  <2>1. at \in {"exporting", "viewing"} /\ GoesTo("exported")
    BY <1>7 DEF Exports, Requests
  <2> QED BY <2>1, <1>0, GoesOnFairly DEF GoesTo, Ended
<1>8. CASE TakesExport \/ ReleasesExports
  <2>1. at \in {"exported", "releasing"}
        /\ \/ \E place \in {"releasing", "viewing", "handing", "judging"} : GoesTo(place)
           \/ Raises("internal-error")
    BY <1>8 DEF TakesExport, ReleasesExports, Answered, Yields, Requests
  <2>2. CASE Raises("internal-error")
    BY <2>1, <2>2, <1>1 DEF Ended
  <2>3. CASE \E place \in {"releasing", "viewing", "handing", "judging"} : GoesTo(place)
    BY <2>1, <2>3, <1>0, GoesOnFairly DEF GoesTo, Ended
  <2> QED BY <2>1, <2>2, <2>3
<1>9. CASE Views
  <2>1. at = "viewing"
        /\ \/ \E place \in {"exporting", "judging", "advancing"} : GoesTo(place)
           \/ Raises("internal-error")
    BY <1>9 DEF Views, WhileCurrent
  <2>2. CASE Raises("internal-error")
    BY <2>1, <2>2, <1>1 DEF Ended
  <2>3. CASE \E place \in {"exporting", "judging", "advancing"} : GoesTo(place)
    BY <2>1, <2>3, <1>0, GoesOnFairly DEF GoesTo, Ended
  <2> QED BY <2>1, <2>2, <2>3
<1>10. CASE HandsOver
  <2>1. at = "handing" /\ (GoesTo("judging") \/ Raises("toolchain-error"))
    BY <1>10 DEF HandsOver
  <2>2. CASE Raises("toolchain-error")
    BY <2>1, <2>2, <1>1 DEF Ended
  <2>3. CASE GoesTo("judging")
    BY <2>1, <2>3, <1>0, GoesOnFairly DEF GoesTo, Ended
  <2> QED BY <2>1, <2>2, <2>3
<1>11. CASE Judges
  <2>1. at = "judging" /\ found' = found /\ inputs' = inputs /\ about' = about /\ native' = native
    BY <1>11 DEF Judges
  <2>2. ASSUME \E s \in {"internal-error", "resource-exhausted"} : Raises(s) PROVE ClaimInv'
    BY <2>1, <2>2, <1>1 DEF Ended
  <2>3. ASSUME \E place \in {"closing", "advancing"} : GoesTo(place) PROVE ClaimInv'
    BY <2>1, <2>3, <1>0, GoesOnFairly DEF GoesTo, Ended
  <2>4. CASE inputs # "task"
    BY <1>11, <2>2, <2>4 DEF Judges, WhileCurrent
  <2>5. CASE inputs = "task" /\ found \in {"failure", "allowance"}
    BY <1>11, <2>2, <2>3, <2>5 DEF Judges, WhileCurrent
  <2>6. CASE inputs = "task" /\ found \in {"unsolved", "resource-exhausted"}
    <3>1. at' = "closing" /\ claim' = IF claim.action = <<>> THEN [claim EXCEPT !.status = found] ELSE claim
      BY <1>11, <2>6 DEF Judges, WhileCurrent
    <3>2. Claimless(claim) /\ claim \in Claims
      BY <2>1, <1>0 DEF Ended
    <3>3. claim' \in Claims /\ Fair(claim') /\ claim'.exhausted = FALSE
      BY <3>1, <3>2, <2>6, BareIsFair
    <3> QED BY <3>1, <3>3 DEF ClaimInv, AboutInputs, Ended
  <2>7. CASE inputs = "task" /\ found = "refutation"
    <3>1. (OneMove /\ Raises("internal-error")) \/ (~OneMove /\ GoesTo("checking"))
      BY <1>11, <2>7 DEF Judges, WhileCurrent
    <3>2. CASE ~OneMove /\ GoesTo("checking")
      BY <3>2, <2>1, <2>7, <1>0 DEF GoesTo, ClaimInv, AboutInputs, Ended, OneMove
    <3> QED BY <3>1, <3>2, <2>2
  <2>8. CASE inputs = "task" /\ found \notin {"failure", "allowance", "unsolved", "resource-exhausted", "refutation"}
    <3>1. GoesTo("reading") \/ SearchesOn
      BY <1>11, <2>8 DEF Judges, WhileCurrent
    <3>2. CASE GoesTo("reading")
      BY <3>2, <2>1, <2>8, <1>0 DEF GoesTo, ClaimInv, AboutInputs, Ended
    <3>3. CASE SearchesOn
      BY <3>3, <2>3 DEF SearchesOn
    <3> QED BY <3>1, <3>2, <3>3
  <2> QED BY <2>4, <2>5, <2>6, <2>7, <2>8
<1>12. CASE Reads
  <2>1. at = "reading" /\ about' = <<inputs>> /\ found' = found /\ inputs' = inputs /\ native' = native /\ found # "refutation"
    BY <1>12 DEF Reads, ClaimInv
  <2>2. CASE GoesTo("checking")
    BY <2>1, <2>2, <1>0 DEF GoesTo, ClaimInv, AboutInputs, Ended
  <2>3. CASE SearchesOn
    BY <2>1, <2>3, <1>0, GoesOnFairly DEF SearchesOn, GoesTo, Ended
  <2>4. CASE Raises("internal-error")
    BY <2>1, <2>4, <1>1 DEF Ended
  <2> QED BY <1>12, <2>2, <2>3, <2>4 DEF Reads
<1>13. CASE Checks
  <2>1. found' = found /\ inputs' = inputs /\ native' = native
    BY <1>13 DEF Checks
  <2>2. CASE at = "checking" /\ about' = about /\ GoesTo("running")
    BY <2>1, <2>2, <1>0 DEF GoesTo, ClaimInv, AboutInputs, Ended, OneMove
  <2>3. CASE at = "checking" /\ Raises("internal-error")
    BY <2>3, <1>1 DEF Ended
  <2>4. CASE at = "running" /\ GoesTo("checked") /\ about' = IF found = "refutation" THEN <<>> ELSE <<about[1], inputs>>
    <3>1. found # "refutation" /\ inputs = "task" => about' = <<"task", "task">>
      BY <2>4 DEF ClaimInv, AboutInputs
    <3> QED BY <2>1, <2>4, <3>1, <1>0 DEF GoesTo, ClaimInv, AboutInputs, Ended, OneMove
  <2> QED BY <1>13, <2>2, <2>3, <2>4 DEF Checks, WhileCurrent
<1>14. CASE ConcludesCheck
  <2>1. at = "checked" /\ at \notin Ended
    BY <1>14 DEF ConcludesCheck, Ended
  <2>2. CASE inputs = "task" /\ ClaimAccepted
    <3>1. (found = "refutation" => ~OneMove) /\ (found # "refutation" => about = <<"task", "task">>)
      BY <2>1, <2>2 DEF ClaimInv, AboutInputs
    <3> QED BY <2>1, <2>2, <3>1, <1>0, AcceptedIsFair
  <2>3. CASE SearchesOn
    BY <2>1, <2>3, <1>0, GoesOnFairly DEF SearchesOn, GoesTo
  <2>4. CASE Raises("internal-error") \/ Raises("resource-exhausted")
    BY <2>1, <2>4, <1>1
  <2> QED BY <1>14, <2>2, <2>3, <2>4 DEF ConcludesCheck, WhileCurrent
<1>15. CASE ClosesRun
  <2>1. at = "closing" /\ at' = "finishing" /\ Fair(claim) /\ claim.exhausted = FALSE
    BY <1>15 DEF ClosesRun, ClaimInv
  <2>2. CASE claim' = claim
    BY <2>1, <2>2, <1>0 DEF ClaimInv, AboutInputs, Ended
  <2>3. CASE claim' = [claim EXCEPT !.status = claim.status]
    <3>1. claim' = claim
      BY <2>3, <1>0 DEF Claims
    <3> QED BY <3>1, <2>2
  <2>4. CASE claim' = [claim EXCEPT !.status = "toolchain-error"]
    <3>1. /\ claim' \in Claims /\ claim'.status = "toolchain-error" /\ claim'.patch = claim.patch
          /\ claim'.exhausted = claim.exhausted /\ claim'.credits = claim.credits
      <4>1. "toolchain-error" \in Statuses
        BY DEF Statuses
      <4> HIDE DEF Statuses, Edits
      <4> QED BY <2>4, <4>1, <1>0 DEF Claims
    <3>2. Fair(claim')
      BY <2>1, <3>1 DEF Fair
    <3> QED BY <2>1, <3>1, <3>2 DEF ClaimInv, AboutInputs, Ended
  <2> QED BY <1>15, <2>2, <2>3, <2>4 DEF ClosesRun, Status
<1>16. CASE FinishesRun
  BY <1>16, FinishedIsHonest
<1>17. CASE NativeTrouble
  <2>1. at \notin Ended
    BY <1>17 DEF NativeTrouble, Ended
  <2>2. \E s \in {"resource-exhausted", "toolchain-error", "invalid-task", "internal-error"} : Raises(s)
    BY <1>17 DEF NativeTrouble
  <2> QED BY <2>1, <2>2, <1>1
<1>18. CASE SourceDrifts
  BY <1>18 DEF SourceDrifts, ClaimInv, AboutInputs, OneMove
<1> QED BY <1>2, <1>3, <1>4, <1>5, <1>6, <1>7, <1>8, <1>9, <1>10, <1>11, <1>12, <1>13, <1>14, <1>15, <1>16, <1>17, <1>18 DEF EngineSteps

LEMMA StillFair ==
  ASSUME ClaimInv, UNCHANGED engineVars
  PROVE  ClaimInv'
BY DEF ClaimInv, AboutInputs, OneMove, engineVars

LEMMA ClaimStays == ClaimInv /\ [NativeSteps]_nativeVars => ClaimInv'
<1> SUFFICES ASSUME ClaimInv, [NativeSteps]_nativeVars PROVE ClaimInv'
  OBVIOUS
<1>1. CASE EngineSteps
  BY <1>1, EngineIsFair
<1>2. CASE UNCHANGED engineVars
  BY <1>2, StillFair
<1> QED BY <1>1, <1>2 DEF NativeSteps, DirectClient, OwnerSteps, nativeVars

LEMMA ClaimStarts == NativeInit => ClaimInv
<1> SUFFICES ASSUME NativeInit PROVE ClaimInv
  OBVIOUS
<1>1. claim = Unclaimed /\ at = "setup"
  BY DEF NativeInit
<1>2. claim \in Claims
  BY <1>1, EditsDiffer DEF Unclaimed, Claims, Statuses
<1>3. Claimless(claim) /\ claim.action = <<>>
  BY <1>1 DEF Unclaimed, Claimless
<1> QED BY <1>1, <1>2, <1>3 DEF ClaimInv, AboutInputs, Ended

-----------------------------------------------------------------------------
(* Where the run is.                                                       *)

\* The branches of the present epoch that were given out have their states.
Here(o, given) == \A h \in given : h.epoch = o.epoch => h.branch \in Present(o)

Pending == IF job.pc = "answered" THEN job.handles ELSE {}
Quiet == {"setup", "inspected", "opening", "advancing", "viewing", "exporting", "judging", "reading",
          "checking", "running", "checked"}

\* What the run was given is its states and what the request at hand is about.
Placed ==
  /\ ~owner.closed /\ Here(owner, handed) /\ \A s \in states : s.branch < owner.next
  /\ at # "handing" /\ (job.pc = "running" => at \in {"starting", "searching", "exported", "releasing"})
  /\ at \in Quiet => job = NoJob /\ exports = {} /\ handed = states
  /\ at = "starting" => exports = {} /\ handed = states /\ (job.pc = "running" => job.op = "inspect")
  /\ at = "searching" => exports = {} /\ handed = states \cup Pending /\ (job.pc = "running" => job.op = "apply")
  /\ at = "exported" =>
       /\ exports = {} /\ handed = states \cup Pending /\ states \cap Pending = {}
       /\ job.pc = "running" => job.op = "export"
  /\ at = "releasing" =>
       /\ exports \cap states = {} /\ (exports = {} => job = NoJob)
       /\ job.pc # "answered" => handed = states \cup exports
       /\ job.pc = "running" => job.op = "release" /\ job.ref = LastExport
       /\ job.pc = "answered" /\ job.answer = "ok" => handed = states \cup (exports \ {LastExport})

\* search_evidence views nothing but what comes before its candidate.
OnlyCandidates ==
  /\ at \notin {"advancing"}
  /\ at = "viewing" => found = "candidate"
  /\ at \in {"exported", "releasing"} /\ why = "view" => found = "candidate"

PlaceInv ==
  IF ~Engaged THEN at = "setup"
  ELSE IF native.mode = "evidence" THEN OnlyCandidates ELSE at \in Ended \/ Placed

LEMMA ExportIsFresh ==
  ASSUME NEW p, NEW descendant, NEW k, NEW x \in Exported(p, descendant, k), owner.next \in Nat
  PROVE  \A h \in x.handles : h.branch >= owner.next
<1>1. CASE x = Rejected
  <2>1. x.handles = {}
    BY <1>1 DEF Rejected, Outcome
  <2> QED BY <2>1
<1>2. CASE x = Outcome(Chained(owner, p, k), "ok", Fresh(owner, Chained(owner, p, k)))
  <2> DEFINE w == Chained(owner, p, k)
  <2>1. x.handles = Fresh(owner, w)
    BY <1>2 DEF Outcome
  <2> HIDE DEF w
  <2> QED BY <2>1 DEF Fresh, Given
<1> QED BY <1>1, <1>2 DEF Exported

LEMMA InvalidatedHere ==
  ASSUME NativeInv, NEW w, w \in {Invalidated(owner), [Invalidated(owner) EXCEPT !.closed = TRUE]}
  PROVE  Here(w, handed)
<1>1. owner.epoch \in Nat /\ w.epoch = owner.epoch + 1
  BY OwnerIs, InvalidatedKeeps DEF NativeInv, OwnerFine, Ordered, Sound
<1>2. \A h \in handed : h.epoch \in Nat /\ h.epoch <= owner.epoch
  BY HandleIs DEF NativeInv, OwnerFine, Held
<1> QED BY <1>1, <1>2 DEF Here

LEMMA AskedIs ==
  ASSUME NativeInv, Here(owner, handed), NEW op, NEW ref, NEW with, Asks(op, ref, with)
  PROVE  /\ job = NoJob /\ handed' = handed /\ owner'.closed = owner.closed /\ owner'.next = owner.next /\ Here(owner', handed)
         /\ \/ job'.pc = "running" /\ job'.op = op /\ job'.ref = ref
            \/ job'.pc = "answered" /\ job'.handles = {} /\ job'.answer # "ok"
<1>1. job = NoJob /\ handed' = handed
  BY DEF Asks
<1>2. CASE owner' = owner /\ Answers("unknown", {})
  BY <1>1, <1>2, AnswersIs
<1>3. CASE owner' = Invalidated(owner) /\ Answers("stale", {})
  <2>1. owner'.closed = owner.closed /\ owner'.next = owner.next
    BY <1>3, OwnerIs DEF Invalidated, NativeInv, OwnerFine, Ordered, Sound, Owners
  <2> QED BY <1>1, <1>3, <2>1, AnswersIs, InvalidatedHere
<1>4. CASE owner' = owner /\ job' = [pc |-> "running", op |-> op, ref |-> ref, with |-> with]
  BY <1>1, <1>4
<1> QED BY <1>2, <1>3, <1>4 DEF Asks

LEMMA ConcludedIs ==
  ASSUME NativeInv, Here(owner, handed), ConcludesRequest, job.op \in {"inspect", "apply", "export", "release"}
  PROVE  /\ owner'.closed = owner.closed /\ owner.next <= owner'.next /\ Here(owner', handed') /\ job'.pc = "answered"
         /\ job'.answer # "ok" => handed' = handed /\ job'.handles = {}
         /\ job'.answer = "ok" => handed' = HandedAfter(job.op, job.ref, job'.handles)
         /\ job.op = "inspect" => job'.handles = {}
         /\ job.op = "export" => \A h \in job'.handles : h.branch >= owner.next
<1>0. job.pc = "running" /\ owner.next \in Nat /\ owner \in Owners
  BY OwnerIs DEF ConcludesRequest, NativeInv, OwnerFine, Ordered, Sound
<1>1. CASE files # "loaded"
  <2>1. owner' = Invalidated(owner) /\ Answers("stale", {}) /\ handed' = handed
    BY <1>1 DEF ConcludesRequest
  <2>2. owner'.closed = owner.closed /\ owner.next <= owner'.next
    BY <2>1, <1>0 DEF Invalidated, Owners
  <2> QED BY <2>1, <2>2, AnswersIs, InvalidatedHere
<1>2. CASE files = "loaded"
  <2>1. PICK x \in Outcomes(job) :
          /\ owner' = x.owner /\ Answers(x.answer, x.handles)
          /\ handed' = IF x.answer = "ok" THEN HandedAfter(job.op, job.ref, x.handles) ELSE handed
    BY <1>2 DEF ConcludesRequest
  <2>2. job'.pc = "answered" /\ job'.answer = x.answer /\ job'.handles = x.handles
    BY <2>1, AnswersIs
  <2>3. Requested(job, owner)
    BY <1>0, PcIs DEF NativeInv, OwnerFine, JobIs, AnswerIs
  <2>4. GoesThrough(owner, Gone(job), Lost(job), x)
    BY <2>1, <2>3, OutcomesProceed DEF NativeInv, OwnerFine, Ordered
  <2>5. /\ x.owner.epoch = owner.epoch /\ x.owner.closed = owner.closed /\ owner.next <= x.owner.next /\ x.answer \in {"ok", "rejected"}
        /\ x.answer = "rejected" => x.handles = {} /\ Present(owner) \subseteq Present(x.owner)
        /\ \A h \in x.handles : h.branch \in Present(x.owner)
        /\ Present(owner) \ Lost(job) \subseteq Present(x.owner)
    BY <2>4 DEF GoesThrough, Alike
  <2>6. Here(x.owner, handed')
    <3> SUFFICES ASSUME NEW h \in handed', h.epoch = owner.epoch PROVE h.branch \in Present(x.owner)
      BY <2>5 DEF Here
    <3>1. CASE h \in x.handles
      BY <3>1, <2>5
    <3>2. CASE h \in handed /\ x.answer = "rejected"
      BY <3>2, <2>5 DEF Here
    <3>3. CASE h \in handed /\ (job.op = "release" => h # job.ref)
      <4>1. h \in Handles /\ Handle(owner, h.branch) = h /\ h.branch \in Present(owner)
        BY <3>3, HandleIs DEF NativeInv, OwnerFine, Held, Here
      <4>2. job.ref \in Handles /\ Handle(owner, job.ref.branch) = job.ref
        BY <2>3, RequestedIs, HandleIs DEF Requested
      <4>3. h.branch \notin Lost(job)
        BY <3>3, <4>1, <4>2 DEF Lost
      <4> QED BY <4>1, <4>3, <2>5
    <3> QED BY <2>1, <2>5, <3>1, <3>2, <3>3 DEF HandedAfter
  <2>7. job.op = "inspect" => x.handles = {}
    BY <2>1 DEF Outcomes, Outcome, Rejected
  <2>8. job.op = "export" => \A h \in x.handles : h.branch >= owner.next
    <3> SUFFICES ASSUME job.op = "export" PROVE \A h \in x.handles : h.branch >= owner.next
      OBVIOUS
    <3>1. x \in Exported(job.ref.branch, job.with.descendant, job.with.goals)
      BY <2>1 DEF Outcomes
    <3> QED BY <3>1, <1>0, ExportIsFresh
  <2> QED BY <2>1, <2>2, <2>5, <2>6, <2>7, <2>8
<1> QED BY <1>1, <1>2

LEMMA StatesBelow ==
  ASSUME NativeInv, NativeInv', owner.next <= owner'.next, \A s \in states : s.branch < owner.next
  PROVE  \A s \in states : s.branch < owner'.next
<1>1. owner.next \in Nat /\ owner'.next \in Nat
  BY OwnerIs DEF NativeInv, OwnerFine, Ordered, Sound
<1>2. \A s \in states : s.branch \in Nat
  BY HandleIs DEF NativeInv, RunFine
<1> QED BY <1>1, <1>2

\* Between requests the run goes from place to place.
LEMMA QuietGoesOn ==
  ASSUME Placed, at \notin {"exported", "releasing"}, job = NoJob, UNCHANGED <<owner, handed, states, exports, job>>,
         at' \in Quiet \cup {"starting", "searching"} \cup Ended, at \in Quiet \cup {"starting", "searching"}
  PROVE  at' \in Ended \/ Placed'
<1>1. exports = {} /\ handed = states /\ ~owner.closed /\ Here(owner, handed) /\ \A s \in states : s.branch < owner.next
  BY PcIs DEF Placed, Pending
<1> QED BY <1>1, PcIs DEF Placed, Pending, Quiet, Ended

LEMMA EngineStays ==
  ASSUME NativeInv, NativeInv', native.goals > 0, native.mode # "evidence", at \in Ended \/ Placed, EngineSteps
  PROVE  at' \in Ended \/ Placed'
<1>1. CASE Prepares \/ Opens \/ Advances \/ Views
  <2>1. /\ at \in {"setup", "inspected", "opening", "advancing", "viewing"} /\ UNCHANGED <<owner, handed, states, exports, job>>
        /\ at' \in {"inspected", "opening", "starting", "searching", "exporting", "judging", "advancing", "closing", "finishing"}
    BY <1>1 DEF Prepares, Opens, Advances, Views, GoesTo, WhileCurrent, Raises, ownerVars
  <2>2. Placed /\ job = NoJob
    BY <2>1 DEF Ended, Placed, Quiet
  <2> QED BY <2>1, <2>2, QuietGoesOn DEF Quiet, Ended
<1>2. CASE Judges \/ Reads \/ Checks \/ ConcludesCheck \/ SourceDrifts
  <2>1. CASE at \in Ended
    BY <1>2, <2>1 DEF Judges, Reads, Checks, ConcludesCheck, SourceDrifts, Ended
  <2>2. CASE at \notin Ended /\ SourceDrifts
    BY <2>2 DEF SourceDrifts, Placed, Pending, LastExport, ownerVars
  <2>3. CASE Judges \/ Reads \/ Checks \/ ConcludesCheck
    <3>1. /\ at \in {"judging", "reading", "checking", "running", "checked"} /\ UNCHANGED <<owner, handed, states, exports, job>>
          /\ at' \in {"closing", "finishing", "reading", "checking", "running", "checked", "advancing"}
      BY <2>3 DEF Judges, Reads, Checks, ConcludesCheck, ClaimAccepted, SearchesOn, GoesTo, WhileCurrent, Raises, ownerVars
    <3>2. Placed /\ job = NoJob
      BY <2>3, <3>1 DEF Ended, Placed, Quiet
    <3> QED BY <3>1, <3>2, QuietGoesOn DEF Quiet, Ended
  <2> QED BY <1>2, <2>1, <2>2, <2>3
<1>3. CASE StartsSearch
  <2>0. at = "starting" /\ states' = states /\ exports' = exports /\ Placed
    BY <1>3 DEF StartsSearch, Answered, Ended
  <2>1. exports = {} /\ handed = states /\ ~owner.closed /\ Here(owner, handed) /\ \A s \in states : s.branch < owner.next
    BY <2>0 DEF Placed
  <2>2. CASE Asks("inspect", RootKey(0), <<>>) /\ at' = "starting"
    <3>1. /\ handed' = handed /\ owner'.closed = owner.closed /\ owner'.next = owner.next /\ Here(owner', handed)
          /\ job'.pc = "running" => job'.op = "inspect"
      BY <2>1, <2>2, AskedIs
    <3> QED BY <2>0, <2>1, <2>2, <3>1 DEF Placed, Quiet
  <2>3. CASE TakesAnswer /\ at' \in {"closing", "finishing", "searching", "viewing", "advancing"}
    BY <2>0, <2>1, <2>3, PcIs DEF Placed, Quiet, TakesAnswer, Pending, Ended
  <2> QED BY <1>3, <2>2, <2>3 DEF StartsSearch, Requests, GoesTo, Raises
<1>4. CASE NativeApplies
  <2>0. at = "searching" /\ states' = states /\ exports' = exports /\ Placed /\ job = NoJob
    BY <1>4 DEF NativeApplies, Ended
  <2>1. exports = {} /\ handed = states /\ ~owner.closed /\ Here(owner, handed) /\ \A s \in states : s.branch < owner.next
    BY <2>0, PcIs DEF Placed, Pending
  <2>2. PICK r, a : Asks("apply", r, a) /\ at' = "searching"
    BY <1>4 DEF NativeApplies, Requests, GoesTo
  <2>3. /\ handed' = handed /\ owner'.closed = owner.closed /\ owner'.next = owner.next /\ Here(owner', handed)
        /\ \/ job'.pc = "running" /\ job'.op = "apply"
           \/ job'.pc = "answered" /\ job'.handles = {}
    BY <2>1, <2>2, AskedIs
  <2> QED BY <2>0, <2>1, <2>2, <2>3 DEF Placed, Quiet, Pending
<1>5. CASE NativeLearns
  <2>1. /\ at = "searching" /\ job.pc = "answered" /\ TakesAnswer /\ states' = states \cup job.handles /\ exports' = exports
        /\ at' \in {"searching", "judging"} /\ Placed
    BY <1>5 DEF NativeLearns, Answered, GoesTo, Yields, Ended
  <2>2. exports = {} /\ handed = states \cup job.handles /\ ~owner.closed /\ Here(owner, handed) /\ \A s \in states : s.branch < owner.next
    BY <2>1 DEF Placed, Pending
  <2>3. \A s \in job.handles : s.branch < owner.next
    BY <2>1, PcIs DEF NativeInv, OwnerFine, JobIs, AnswerIs
  <2> QED BY <2>1, <2>2, <2>3, PcIs DEF Placed, Quiet, TakesAnswer, Pending
<1>6. CASE NativeAnswers
  <2>1. /\ at = "searching" /\ job = NoJob /\ UNCHANGED <<owner, handed, states, exports, job>>
        /\ at' \in {"viewing", "advancing", "exporting", "judging"} /\ Placed
    BY <1>6 DEF NativeAnswers, GoesTo, Yields, Ended, ownerVars
  <2> QED BY <2>1, QuietGoesOn DEF Quiet, Ended
<1>7. CASE Exports
  <2>0. at \in {"exporting", "viewing"} /\ states' = states /\ exports' = exports /\ Placed /\ job = NoJob
    BY <1>7 DEF Exports, Ended
  <2>1. exports = {} /\ handed = states /\ ~owner.closed /\ Here(owner, handed) /\ \A s \in states : s.branch < owner.next
    BY <2>0 DEF Placed, Quiet
  <2>2. PICK d : Asks("export", RootKey(0), d) /\ at' = "exported"
    BY <1>7 DEF Exports, Requests, GoesTo
  <2>3. /\ handed' = handed /\ owner'.closed = owner.closed /\ owner'.next = owner.next /\ Here(owner', handed)
        /\ \/ job'.pc = "running" /\ job'.op = "export"
           \/ job'.pc = "answered" /\ job'.handles = {}
    BY <2>1, <2>2, AskedIs
  <2> QED BY <2>0, <2>1, <2>2, <2>3 DEF Placed, Quiet, Pending
<1>8. CASE TakesExport
  <2>1. /\ at = "exported" /\ job.pc = "answered" /\ TakesAnswer /\ states' = states /\ Placed
        /\ \/ exports' = job.handles /\ job.answer = "ok" /\ at' = "releasing"
           \/ exports' = {} /\ job.answer = "rejected" /\ at' \in {"viewing", "judging"}
           \/ at' = "closing"
    BY <1>8 DEF TakesExport, Answered, GoesTo, Yields, Raises, Ended
  <2>2. /\ handed = states \cup job.handles /\ states \cap job.handles = {} /\ ~owner.closed /\ Here(owner, handed)
        /\ \A s \in states : s.branch < owner.next
    BY <2>1 DEF Placed, Pending
  <2>3. CASE exports' = job.handles /\ at' = "releasing"
    BY <2>1, <2>2, <2>3, PcIs DEF Placed, Quiet, TakesAnswer, Pending
  <2>4. CASE exports' = {} /\ job.answer = "rejected" /\ at' \in {"viewing", "judging"}
    <3>1. job.handles = {}
      BY <2>1, <2>4, PcIs DEF NativeInv, OwnerFine, JobIs, AnswerIs
    <3> QED BY <2>1, <2>2, <2>4, <3>1, PcIs DEF Placed, Quiet, TakesAnswer, Pending
  <2> QED BY <2>1, <2>3, <2>4 DEF Ended
<1>9. CASE ReleasesExports
  <2>0. at = "releasing" /\ states' = states /\ Placed
    BY <1>9 DEF ReleasesExports, Ended
  <2>1. /\ exports \cap states = {} /\ (exports = {} => job = NoJob) /\ ~owner.closed /\ Here(owner, handed) /\ \A s \in states : s.branch < owner.next
        /\ job.pc # "answered" => handed = states \cup exports
        /\ job.pc = "answered" /\ job.answer = "ok" => handed = states \cup (exports \ {LastExport})
    BY <2>0 DEF Placed
  <2>2. \/ exports = {} /\ at' \in {"viewing", "judging"} /\ UNCHANGED <<exports, ownerVars>>
        \/ job = NoJob /\ exports # {} /\ Asks("release", LastExport, <<>>) /\ at' = "releasing" /\ exports' = exports
        \/ job.pc = "answered" /\ TakesAnswer /\ exports' = exports \ {LastExport} /\ job.answer = "ok" /\ at' = "releasing"
        \/ at' = "closing"
    BY <1>9, <2>0 DEF ReleasesExports, Requests, GoesTo, Yields, Raises, LastExport
  <2>3. CASE exports = {} /\ at' \in {"viewing", "judging"} /\ UNCHANGED <<exports, ownerVars>>
    BY <2>0, <2>1, <2>3, PcIs DEF Placed, Quiet, ownerVars
  <2>4. CASE job = NoJob /\ exports # {} /\ Asks("release", LastExport, <<>>) /\ at' = "releasing" /\ exports' = exports
    <3>1. /\ handed' = handed /\ owner'.closed = owner.closed /\ owner'.next = owner.next /\ Here(owner', handed)
          /\ \/ job'.pc = "running" /\ job'.op = "release" /\ job'.ref = LastExport
             \/ job'.pc = "answered" /\ job'.handles = {} /\ job'.answer # "ok"
      BY <2>1, <2>4, AskedIs
    <3>2. LastExport' = LastExport
      BY <2>4 DEF LastExport
    <3> QED BY <2>0, <2>1, <2>4, <3>1, <3>2, PcIs DEF Placed, Quiet
  <2>5. CASE job.pc = "answered" /\ TakesAnswer /\ exports' = exports \ {LastExport} /\ job.answer = "ok" /\ at' = "releasing"
    BY <2>0, <2>1, <2>5, PcIs DEF Placed, Quiet, TakesAnswer
  <2> QED BY <2>2, <2>3, <2>4, <2>5 DEF Ended
<1>10. CASE HandsOver
  BY <1>10 DEF HandsOver, Placed, Ended
<1>11. CASE ClosesRun \/ FinishesRun \/ NativeTrouble
  BY <1>11 DEF ClosesRun, FinishesRun, NativeTrouble, Raises, Ended
<1> QED BY <1>1, <1>2, <1>3, <1>4, <1>5, <1>6, <1>7, <1>8, <1>9, <1>10, <1>11 DEF EngineSteps

LEMMA EvidenceStays ==
  ASSUME native.mode = "evidence", OnlyCandidates, EngineSteps
  PROVE  OnlyCandidates'
<1>1. CASE Prepares \/ Opens \/ StartsSearch \/ Advances \/ NativeApplies \/ NativeLearns
  BY <1>1 DEF Prepares, Opens, StartsSearch, Advances, NativeApplies, NativeLearns, OnlyCandidates, GoesTo, Yields, WhileCurrent,
              Raises, Requests, Answered
<1>2. CASE NativeAnswers
  BY <1>2 DEF NativeAnswers, OnlyCandidates, GoesTo, Yields
<1>3. CASE Exports \/ TakesExport
  BY <1>3 DEF Exports, TakesExport, OnlyCandidates, GoesTo, Yields, Raises, Requests, Answered
<1>4. CASE ReleasesExports
  BY <1>4 DEF ReleasesExports, OnlyCandidates, GoesTo, Yields, Raises, Requests
<1>5. CASE Views
  BY <1>5 DEF Views, OnlyCandidates, GoesTo, WhileCurrent, Raises
<1>6. CASE HandsOver \/ Judges \/ Reads
  BY <1>6 DEF HandsOver, Judges, Reads, OnlyCandidates, GoesTo, SearchesOn, WhileCurrent, Raises
<1>7. CASE Checks \/ ConcludesCheck
  BY <1>7 DEF Checks, ConcludesCheck, ClaimAccepted, OneMove, OnlyCandidates, GoesTo, SearchesOn, WhileCurrent, Raises
<1>8. CASE ClosesRun \/ FinishesRun \/ NativeTrouble \/ SourceDrifts
  BY <1>8 DEF ClosesRun, FinishesRun, NativeTrouble, SourceDrifts, OnlyCandidates, Raises
<1> QED BY <1>1, <1>2, <1>3, <1>4, <1>5, <1>6, <1>7, <1>8 DEF EngineSteps

LEMMA OwnerStays ==
  ASSUME NativeInv, NativeInv', at \in Ended \/ Placed, OwnerSteps
  PROVE  at' \in Ended \/ Placed'
<1>0. UNCHANGED <<at, states, exports>>
  BY DEF OwnerSteps, engineVars
<1>1. CASE at \in Ended
  BY <1>0, <1>1
<1>2. CASE Placed /\ FilesChange
  BY <1>0, <1>2 DEF FilesChange, Placed, Pending, LastExport
<1>3. CASE Placed /\ at \notin Ended /\ ConcludesRequest
  <2>1. job.pc = "running" /\ job # NoJob /\ at \notin Quiet /\ at # "handing" /\ at \in {"starting", "searching", "exported", "releasing"}
    BY <1>3, PcIs DEF ConcludesRequest, Placed
  <2>2. ~owner.closed /\ Here(owner, handed) /\ \A s \in states : s.branch < owner.next
    BY <1>3 DEF Placed
  <2>3. job.op \in {"inspect", "apply", "export", "release"}
    BY <1>3, <2>1 DEF Placed
  <2>4. /\ owner'.closed = owner.closed /\ owner.next <= owner'.next /\ Here(owner', handed') /\ job'.pc = "answered"
        /\ job'.answer # "ok" => handed' = handed /\ job'.handles = {}
        /\ job'.answer = "ok" => handed' = HandedAfter(job.op, job.ref, job'.handles)
        /\ job.op = "inspect" => job'.handles = {}
        /\ job.op = "export" => \A h \in job'.handles : h.branch >= owner.next
    BY <1>3, <2>2, <2>3, ConcludedIs
  <2>5. \A s \in states : s.branch < owner'.next
    BY <2>2, <2>4, StatesBelow
  <2>6. CASE at = "starting"
    BY <2>6, <1>0, <1>3, <2>1, <2>2, <2>4, <2>5 DEF Placed, Quiet, HandedAfter
  <2>7. CASE at = "searching"
    BY <2>7, <1>0, <1>3, <2>1, <2>2, <2>4, <2>5 DEF Placed, Quiet, HandedAfter, Pending
  <2>8. CASE at = "exported"
    <3>1. states \cap job'.handles = {}
      <4>1. \A s \in states : s.branch \in Nat /\ s.branch < owner.next
        BY <2>2, HandleIs DEF NativeInv, RunFine
      <4>2. \A h \in job'.handles : h.branch >= owner.next
        BY <2>8, <1>3, <2>1, <2>4 DEF Placed
      <4>3. owner.next \in Nat
        BY OwnerIs DEF NativeInv, OwnerFine, Ordered, Sound
      <4>4. ~\E s \in states : s \in job'.handles
        BY <4>1, <4>2, <4>3
      <4> QED BY <4>4
    <3> QED BY <2>8, <3>1, <1>0, <1>3, <2>1, <2>2, <2>4, <2>5 DEF Placed, Quiet, HandedAfter, Pending
  <2>9. CASE at = "releasing"
    <3>1. LastExport' = LastExport
      BY <1>0 DEF LastExport
    <3>2. exports \cap states = {} /\ exports # {} /\ handed = states \cup exports /\ job.op = "release" /\ job.ref = LastExport
      BY <2>9, <1>3, <2>1 DEF Placed
    <3>3. job'.answer = "ok" => handed' = handed \ {LastExport}
      BY <2>4, <3>2 DEF HandedAfter
    <3>4. LastExport \notin states
      <4>1. LastExport \in exports
        BY <3>2, LastIs
      <4> QED BY <4>1, <3>2
    <3>5. job'.answer = "ok" => handed' = states \cup (exports \ {LastExport})
      BY <3>2, <3>3, <3>4
    <3> QED BY <2>9, <3>1, <3>2, <3>5, <1>0, <1>3, <2>1, <2>2, <2>4, <2>5 DEF Placed, Quiet
  <2> QED BY <2>1, <2>6, <2>7, <2>8, <2>9
<1> QED BY <1>1, <1>2, <1>3 DEF OwnerSteps

LEMMA PlaceStarts == NativeInit => PlaceInv
<1> SUFFICES ASSUME NativeInit PROVE PlaceInv
  OBVIOUS
<1>1. at = "setup" /\ states = {} /\ exports = {} /\ handed = {} /\ job = NoJob /\ owner.closed = FALSE
  BY DEF NativeInit, OwnerInit
<1>2. Placed
  BY <1>1, PcIs DEF Placed, Here, Quiet
<1>3. OnlyCandidates
  BY <1>1 DEF OnlyCandidates
<1> QED BY <1>1, <1>2, <1>3 DEF PlaceInv

LEMMA PlaceStays == NativeInv /\ NativeInv' /\ PlaceInv /\ [NativeSteps]_nativeVars => PlaceInv'
<1> SUFFICES ASSUME NativeInv, NativeInv', PlaceInv, [NativeSteps]_nativeVars PROVE PlaceInv'
  OBVIOUS
<1>1. CASE Engaged /\ EngineSteps
  <2>1. native' = native
    BY <1>1 DEF EngineSteps, Prepares, Opens, StartsSearch, Advances, NativeApplies, NativeLearns, NativeAnswers, Exports, TakesExport,
                ReleasesExports, Views, HandsOver, Judges, Reads, Checks, ConcludesCheck, ClosesRun, FinishesRun, NativeTrouble,
                SourceDrifts
  <2>2. Engaged'
    BY <2>1, <1>1 DEF Engaged
  <2>3. CASE native.mode = "evidence"
    BY <1>1, <2>1, <2>2, <2>3, EvidenceStays DEF PlaceInv
  <2>4. CASE native.mode # "evidence"
    <3>1. at' \in Ended \/ Placed'
      BY <1>1, <2>4, EngineStays DEF PlaceInv, Engaged
    <3> QED BY <2>1, <2>2, <2>4, <3>1 DEF PlaceInv, Ended
  <2> QED BY <2>3, <2>4
<1>2. CASE native = Direct /\ DirectClient
  <2>1. ~Engaged /\ UNCHANGED <<native, at>>
    BY <1>2 DEF Direct, Engaged, DirectClient, engineVars
  <2> QED BY <2>1 DEF PlaceInv, Engaged
<1>3. CASE OwnerSteps
  <2>1. UNCHANGED <<native, at, found, why>>
    BY <1>3 DEF OwnerSteps, engineVars
  <2>2. (at \in Ended \/ Placed) => at' \in Ended \/ Placed'
    BY <1>3, OwnerStays
  <2>3. OnlyCandidates => OnlyCandidates'
    BY <2>1 DEF OnlyCandidates
  <2> QED BY <2>1, <2>2, <2>3 DEF PlaceInv, Engaged, Ended
<1>4. CASE UNCHANGED nativeVars
  <2>1. UNCHANGED <<native, at, found, why, states, exports, owner, job, handed>>
    BY <1>4 DEF nativeVars, engineVars, ownerVars
  <2>2. Placed => Placed'
    BY <2>1 DEF Placed, Pending, LastExport
  <2>3. OnlyCandidates => OnlyCandidates'
    BY <2>1 DEF OnlyCandidates
  <2> QED BY <2>1, <2>2, <2>3 DEF PlaceInv, Engaged, Ended
<1> QED BY <1>1, <1>2, <1>3, <1>4 DEF NativeSteps

LEMMA RunIsHonest == NativeInv /\ ClaimInv /\ PlaceInv => NativeRunIsHonest
<1> SUFFICES ASSUME NativeInv, ClaimInv, PlaceInv PROVE NativeRunIsHonest
  OBVIOUS
<1>1. ASSUME at = "done"
      PROVE  /\ claim.patch \in {<<>>, <<"task", "task">>} /\ claim.action \in {<<>>, <<"task", "task">>}
             /\ claim.status = "verified" => claim.patch # <<>> /\ ~claim.certificate
             /\ claim.status = "impossible" => claim.certificate /\ claim.patch = <<>>
             /\ claim.status = "accepted-step" <=> claim.action # <<>>
             /\ claim.status \in {"unsolved", "invalid-task"} => claim.patch = <<>> /\ ~claim.certificate
             /\ claim.credits => claim.patch # <<>>
             /\ claim.exhausted => claim.patch = <<>> /\ ~claim.certificate /\ claim.status = "resource-exhausted"
  <2>1. Honest(claim) /\ claim \in Claims
    BY <1>1 DEF ClaimInv
  <2>2. claim.patch \in Edits /\ claim.action \in Edits /\ claim.certificate \in BOOLEAN /\ claim.credits \in BOOLEAN /\ claim.exhausted \in BOOLEAN
    BY <2>1 DEF Claims
  <2> QED BY <2>1, <2>2 DEF Honest, Fair, Edits
<1>2. ASSUME at = "advancing"
      PROVE  handed = states /\ exports = {} /\ \A s \in states : owner.epoch = 0 => Found(owner, s)
  <2>1. Placed
    BY <1>2 DEF PlaceInv, OnlyCandidates, Ended
  <2>2. handed = states /\ exports = {} /\ ~owner.closed /\ Here(owner, handed)
    BY <1>2, <2>1 DEF Placed, Quiet
  <2>3. ASSUME NEW s \in states, owner.epoch = 0 PROVE Found(owner, s)
    <3>1. s.epoch \in Nat /\ s.epoch <= owner.epoch
      BY <2>2, HandleIs DEF NativeInv, OwnerFine, Held
    <3>2. s.epoch = owner.epoch
      BY <3>1, <2>3
    <3>3. s.branch \in Present(owner) /\ s.branch \in Holds(owner)
      BY <2>2, <3>2, PresentIsHeld DEF Here, NativeInv, OwnerFine, Ordered
    <3> QED BY <2>2, <3>2, <3>3 DEF Found, Present, Holds
  <2> QED BY <2>2, <2>3
<1> QED BY <1>1, <1>2 DEF NativeRunIsHonest

\* NativeRunIsHonest holds of every task and every slice: a patch or a step that
\* a run claims was made from the task's inputs and checked with them, nothing is
\* claimed that its status does not go with, and nothing at all by a run that was
\* over its limits; and when the search goes on, what the run was given is its own
\* states, which are all there, and no branch of an export is left.
THEOREM RunsAreHonest == NativeSpec => []NativeRunIsHonest
<1>1. NativeInit => NativeInv /\ ClaimInv /\ PlaceInv
  BY NativeInitIsFine, ClaimStarts, PlaceStarts
<1>2. (NativeInv /\ ClaimInv /\ PlaceInv) /\ [NativeSteps]_nativeVars => (NativeInv /\ ClaimInv /\ PlaceInv)'
  BY NativeKeeps, ClaimStays, PlaceStays
<1>3. NativeInv /\ ClaimInv /\ PlaceInv => NativeRunIsHonest
  BY RunIsHonest
<1> QED BY <1>1, <1>2, <1>3, PTL DEF NativeSpec


-----------------------------------------------------------------------------
(* InteractiveRun: the inductive invariant.                                *)

\* What is left of pause, resume and stop.
Bare == {<<>>, <<"pause">>, <<"resume">>, <<"stop">>, <<"freeze", "gather">>, <<"gather">>,
         <<"pause", "term">>, <<"freeze", "gather", "term">>, <<"gather", "term">>, <<"term">>, <<"wait">>}

\* What is left of accept_goal, from the choice of the patch to its validation.
Validating == {<<"hold", "validate", "stop", "report">>, <<"pause", "validate", "stop", "report">>,
               <<"freeze", "gather", "validate", "stop", "report">>, <<"gather", "validate", "stop", "report">>,
               <<"validate", "stop", "report">>}

\* What is left of it once the patch is validated.
Reporting == {<<"stop", "report">>, <<"pause", "term", "report">>, <<"freeze", "gather", "term", "report">>,
              <<"gather", "term", "report">>, <<"term", "report">>, <<"wait", "report">>, <<"report">>}

\* What may be left of a command.
Plans == Bare \cup {<<"check", "hold", "validate", "stop", "report">>} \cup Validating \cup Reporting

\* What accept_goal knows of the goal it is about.
Accepting == [named : {0} \cup Variations, patch : {0} \cup Variations, foreign : BOOLEAN, validated : BOOLEAN]

\* The types of the state.
RunTypes ==
  /\ control \in {"none", "running", "paused"} \cup Over
  /\ doing \in Plans
  /\ accepting \in Accepting
  /\ accepted \in BOOLEAN /\ groups \in BOOLEAN /\ result \in BOOLEAN /\ drifted \in BOOLEAN /\ term \in BOOLEAN
  /\ worker \in {"running", "frozen", "gone"}
  /\ stage \in {"starting", "searching", "writing", "over"}
  /\ agda \in {"none", "running", "frozen"}
  /\ variation \in {0} \cup Variations
  /\ serving \in {"yes", "closing", "no"}

\* A frozen Agda is in _paused_groups, which is what resume and stop signal; and
\* none is frozen while the run goes on or after it was stopped.
FrozenIsKnown == agda = "frozen" => groups /\ control # "running" /\ control # "stopped"

\* A run that was found to be over has no worker.
OverIsGone == control \in Over => worker = "gone"

\* What a step finds when it is its turn: groups are gathered for a run that goes
\* on, the signals go to a paused one, and a report is made of one that is over.
StepsReady ==
  /\ Due("freeze") \/ Due("gather") => control = "running"
  /\ Due("term") \/ Due("wait") => control = "paused"
  /\ Due("wait") => agda # "frozen"
  /\ Due("report") => control \in Over

\* From the check on the patch is the named one's, and from the validation on it is valid.
PatchIsNamed ==
  /\ doing \in Validating \cup Reporting \/ accepted => accepting.patch = accepting.named /\ ~accepting.foreign
  /\ doing \in Reporting \/ accepted => accepting.validated

\* An acceptance is reported at the end of its command, of a run that is over.
AcceptedIsLast == accepted => doing = <<>> /\ control \in Over

\* A run without a controller has no commands.
Unattended == control = "none" => serving = "no" /\ doing = <<>>

\* The invariant that is inductive.
RunInv == Unattended /\ RunTypes /\ FrozenIsKnown /\ OverIsGone /\ StepsReady /\ PatchIsNamed /\ AcceptedIsLast

-----------------------------------------------------------------------------
(* Sequences of a few elements.                                            *)

\* A sequence is the tuple of its elements, for two elements up to five.
LEMMA TwoSteps ==
  ASSUME NEW X, NEW r \in Seq(X), NEW a \in X, NEW b \in X, Len(r) = 2,
         r[1] = a, r[2] = b
  PROVE  r = <<a, b>>
  OBVIOUS

LEMMA ThreeSteps ==
  ASSUME NEW X, NEW r \in Seq(X), NEW a \in X, NEW b \in X, NEW c \in X, Len(r) = 3,
         r[1] = a, r[2] = b, r[3] = c
  PROVE  r = <<a, b, c>>
  OBVIOUS

LEMMA FourSteps ==
  ASSUME NEW X, NEW r \in Seq(X), NEW a \in X, NEW b \in X, NEW c \in X, NEW d \in X, Len(r) = 4,
         r[1] = a, r[2] = b, r[3] = c, r[4] = d
  PROVE  r = <<a, b, c, d>>
  OBVIOUS

LEMMA FiveSteps ==
  ASSUME NEW X, NEW r \in Seq(X), NEW a \in X, NEW b \in X, NEW c \in X, NEW d \in X, NEW e \in X, Len(r) = 5,
         r[1] = a, r[2] = b, r[3] = c, r[4] = d, r[5] = e
  PROVE  r = <<a, b, c, d, e>>
  OBVIOUS

\* Short tuples one after the other, for the steps a step puts before the rest.
LEMMA OneThenOne ==
  ASSUME NEW X, NEW a \in X, NEW b \in X
  PROVE  <<a>> \o <<b>> = <<a, b>>
<1> DEFINE r == <<a>> \o <<b>>
<1>1. r \in Seq(X)
  OBVIOUS
<1>2. Len(r) = 2
  OBVIOUS
<1>3. r[1] = a
  OBVIOUS
<1>4. r[2] = b
  OBVIOUS
<1> HIDE DEF r
<1>5. r = <<a, b>>
  BY <1>1, <1>2, <1>3, <1>4, TwoSteps
<1> QED BY <1>5 DEF r

LEMMA OneThenThree ==
  ASSUME NEW X, NEW a \in X, NEW b \in X, NEW c \in X, NEW d \in X
  PROVE  <<a>> \o <<b, c, d>> = <<a, b, c, d>>
<1> DEFINE r == <<a>> \o <<b, c, d>>
<1>1. r \in Seq(X)
  OBVIOUS
<1>2. Len(r) = 4
  OBVIOUS
<1>3. r[1] = a
  OBVIOUS
<1>4. r[2] = b /\ r[3] = c /\ r[4] = d
  OBVIOUS
<1> HIDE DEF r
<1>5. r = <<a, b, c, d>>
  BY <1>1, <1>2, <1>3, <1>4, FourSteps
<1> QED BY <1>5 DEF r

LEMMA TwoThenOne ==
  ASSUME NEW X, NEW a \in X, NEW b \in X, NEW c \in X
  PROVE  <<a, b>> \o <<c>> = <<a, b, c>>
<1> DEFINE r == <<a, b>> \o <<c>>
<1>1. r \in Seq(X)
  OBVIOUS
<1>2. Len(r) = 3
  OBVIOUS
<1>3. r[1] = a /\ r[2] = b
  OBVIOUS
<1>4. r[3] = c
  OBVIOUS
<1> HIDE DEF r
<1>5. r = <<a, b, c>>
  BY <1>1, <1>2, <1>3, <1>4, ThreeSteps
<1> QED BY <1>5 DEF r

LEMMA TwoThenTwo ==
  ASSUME NEW X, NEW a \in X, NEW b \in X, NEW c \in X, NEW d \in X
  PROVE  <<a, b>> \o <<c, d>> = <<a, b, c, d>>
<1> DEFINE r == <<a, b>> \o <<c, d>>
<1>1. r \in Seq(X)
  OBVIOUS
<1>2. Len(r) = 4
  OBVIOUS
<1>3. r[1] = a /\ r[2] = b
  OBVIOUS
<1>4. r[3] = c /\ r[4] = d
  OBVIOUS
<1> HIDE DEF r
<1>5. r = <<a, b, c, d>>
  BY <1>1, <1>2, <1>3, <1>4, FourSteps
<1> QED BY <1>5 DEF r

LEMMA TwoThenThree ==
  ASSUME NEW X, NEW a \in X, NEW b \in X, NEW c \in X, NEW d \in X, NEW e \in X
  PROVE  <<a, b>> \o <<c, d, e>> = <<a, b, c, d, e>>
<1> DEFINE r == <<a, b>> \o <<c, d, e>>
<1>1. r \in Seq(X)
  OBVIOUS
<1>2. Len(r) = 5
  OBVIOUS
<1>3. r[1] = a /\ r[2] = b
  OBVIOUS
<1>4. r[3] = c /\ r[4] = d /\ r[5] = e
  OBVIOUS
<1> HIDE DEF r
<1>5. r = <<a, b, c, d, e>>
  BY <1>1, <1>2, <1>3, <1>4, FiveSteps
<1> QED BY <1>5 DEF r
\* The tuples that the steps of InteractiveRun put together.
LEMMA Joined ==
  /\ <<"freeze", "gather">> \o <<>> = <<"freeze", "gather">>
  /\ <<"freeze", "gather">> \o <<"term">> = <<"freeze", "gather", "term">>
  /\ <<"freeze", "gather">> \o <<"term", "report">> = <<"freeze", "gather", "term", "report">>
  /\ <<"freeze", "gather">> \o <<"validate", "stop", "report">> = <<"freeze", "gather", "validate", "stop", "report">>
  /\ <<"pause", "term">> \o <<>> = <<"pause", "term">>
  /\ <<"pause", "term">> \o <<"report">> = <<"pause", "term", "report">>
  /\ <<"pause">> \o <<"validate", "stop", "report">> = <<"pause", "validate", "stop", "report">>
  /\ <<"term">> \o <<>> = <<"term">> /\ <<"term">> \o <<"report">> = <<"term", "report">>
  /\ <<"wait">> \o <<>> = <<"wait">> /\ <<"wait">> \o <<"report">> = <<"wait", "report">>
<1> DEFINE X == {"freeze", "gather", "pause", "term", "wait", "validate", "stop", "report"}
<1>1. /\ "freeze" \in X /\ "gather" \in X /\ "pause" \in X /\ "term" \in X /\ "wait" \in X
      /\ "validate" \in X /\ "stop" \in X /\ "report" \in X
  OBVIOUS
<1>2. /\ <<"freeze", "gather">> \o <<>> = <<"freeze", "gather">>
      /\ <<"pause", "term">> \o <<>> = <<"pause", "term">>
      /\ <<"term">> \o <<>> = <<"term">> /\ <<"wait">> \o <<>> = <<"wait">>
  OBVIOUS
<1> HIDE DEF X
<1>3. <<"freeze", "gather">> \o <<"term">> = <<"freeze", "gather", "term">>
  BY <1>1, TwoThenOne, Zenon
<1>4. <<"freeze", "gather">> \o <<"term", "report">> = <<"freeze", "gather", "term", "report">>
  <2>1. "freeze" \in X /\ "gather" \in X /\ "term" \in X /\ "report" \in X
    BY <1>1
  <2> QED BY <2>1, TwoThenTwo
<1>5. <<"freeze", "gather">> \o <<"validate", "stop", "report">> = <<"freeze", "gather", "validate", "stop", "report">>
  <2>1. "freeze" \in X /\ "gather" \in X /\ "validate" \in X /\ "stop" \in X /\ "report" \in X
    BY <1>1
  <2> QED BY <2>1, TwoThenThree
<1>6. <<"pause", "term">> \o <<"report">> = <<"pause", "term", "report">>
  BY <1>1, TwoThenOne, Zenon
<1>7. <<"pause">> \o <<"validate", "stop", "report">> = <<"pause", "validate", "stop", "report">>
  BY <1>1, OneThenThree
<1>8. <<"term">> \o <<"report">> = <<"term", "report">> /\ <<"wait">> \o <<"report">> = <<"wait", "report">>
  BY <1>1, OneThenOne, Zenon
<1> QED BY <1>2, <1>3, <1>4, <1>5, <1>6, <1>7, <1>8, Zenon

\* Head and Tail of the tuples.
LEMMA TailsAre ==
  /\ \A a : Tail(<<a>>) = <<>>
  /\ \A a, b : Tail(<<a, b>>) = <<b>>
  /\ \A a, b, c : Tail(<<a, b, c>>) = <<b, c>>
  /\ \A a, b, c, d : Tail(<<a, b, c, d>>) = <<b, c, d>>
  /\ \A a, b, c, d, e : Tail(<<a, b, c, d, e>>) = <<b, c, d, e>>
<1>1. \A a : Tail(<<a>>) = <<>>
  OBVIOUS
<1>2. \A a, b : Tail(<<a, b>>) = <<b>>
  OBVIOUS
<1>3. \A a, b, c : Tail(<<a, b, c>>) = <<b, c>>
  OBVIOUS
<1>4. \A a, b, c, d : Tail(<<a, b, c, d>>) = <<b, c, d>>
  OBVIOUS
<1>5. \A a, b, c, d, e : Tail(<<a, b, c, d, e>>) = <<b, c, d, e>>
  OBVIOUS
<1> QED BY <1>1, <1>2, <1>3, <1>4, <1>5
LEMMA HeadsAre ==
  /\ \A a : Head(<<a>>) = a /\ <<a>> # <<>>
  /\ \A a, b : Head(<<a, b>>) = a /\ <<a, b>> # <<>>
  /\ \A a, b, c : Head(<<a, b, c>>) = a /\ <<a, b, c>> # <<>>
  /\ \A a, b, c, d : Head(<<a, b, c, d>>) = a /\ <<a, b, c, d>> # <<>>
  /\ \A a, b, c, d, e : Head(<<a, b, c, d, e>>) = a /\ <<a, b, c, d, e>> # <<>>
  OBVIOUS

-----------------------------------------------------------------------------
(* The plans: what is left of a command after each of its steps.           *)

\* After the worker was frozen its groups are gathered, in the same command.
LEMMA AfterFreeze ==
  ASSUME doing \in Plans, Due("freeze"), Proceeds(<<>>)
  PROVE  /\ doing' \in Plans
         /\ Due("gather")'
         /\ doing' \in Validating => doing \in Validating
         /\ doing' \in Reporting => doing \in Reporting
<1>1. doing \in {<<"freeze", "gather">>, <<"freeze", "gather", "term">>,
                 <<"freeze", "gather", "validate", "stop", "report">>,
                 <<"freeze", "gather", "term", "report">>}
  BY DEF Plans, Bare, Validating, Reporting, Due
<1>2. CASE doing = <<"freeze", "gather">>
  <2>1. doing' = <<"gather">>
    BY <1>2, Joined DEF Proceeds
  <2> QED BY <1>2, <2>1 DEF Plans, Bare, Validating, Reporting, Due
<1>3. CASE doing = <<"freeze", "gather", "term">>
  <2>1. doing' = <<"gather", "term">>
    BY <1>3, Joined DEF Proceeds
  <2> QED BY <1>3, <2>1 DEF Plans, Bare, Validating, Reporting, Due
<1>4. CASE doing = <<"freeze", "gather", "validate", "stop", "report">>
  <2>1. doing' = <<"gather", "validate", "stop", "report">>
    BY <1>4, Joined DEF Proceeds
  <2> QED BY <1>4, <2>1 DEF Plans, Bare, Validating, Reporting, Due
<1>5. CASE doing = <<"freeze", "gather", "term", "report">>
  <2>1. doing' = <<"gather", "term", "report">>
    BY <1>5, Joined DEF Proceeds
  <2> QED BY <1>5, <2>1 DEF Plans, Bare, Validating, Reporting, Due
<1> QED BY <1>1, <1>2, <1>3, <1>4, <1>5

\* After the groups were gathered the command ends, or goes on to its signals or its validation.
LEMMA AfterGather ==
  ASSUME doing \in Plans, Due("gather"), Proceeds(<<>>)
  PROVE  /\ doing' \in Plans
         /\ doing' = <<>> \/ Due("term")' \/ Due("validate")'
         /\ doing' \in Validating => doing \in Validating
         /\ doing' \in Reporting => doing \in Reporting
<1>1. doing \in {<<"gather">>, <<"gather", "term">>, <<"gather", "validate", "stop", "report">>,
                 <<"gather", "term", "report">>}
  BY DEF Plans, Bare, Validating, Reporting, Due
<1>2. CASE doing = <<"gather">>
  <2>1. doing' = <<>>
    BY <1>2, Joined DEF Proceeds
  <2> QED BY <1>2, <2>1 DEF Plans, Bare, Validating, Reporting, Due
<1>3. CASE doing = <<"gather", "term">>
  <2>1. doing' = <<"term">>
    BY <1>3, Joined DEF Proceeds
  <2> QED BY <1>3, <2>1 DEF Plans, Bare, Validating, Reporting, Due
<1>4. CASE doing = <<"gather", "validate", "stop", "report">>
  <2>1. doing' = <<"validate", "stop", "report">>
    BY <1>4, Joined DEF Proceeds
  <2> QED BY <1>4, <2>1 DEF Plans, Bare, Validating, Reporting, Due
<1>5. CASE doing = <<"gather", "term", "report">>
  <2>1. doing' = <<"term", "report">>
    BY <1>5, Joined DEF Proceeds
  <2> QED BY <1>5, <2>1 DEF Plans, Bare, Validating, Reporting, Due
<1> QED BY <1>1, <1>2, <1>3, <1>4, <1>5

\* So it does after a pause that found the run paused.
LEMMA AfterPause ==
  ASSUME doing \in Plans, Due("pause"), Proceeds(<<>>)
  PROVE  /\ doing' \in Plans
         /\ doing' = <<>> \/ Due("term")' \/ Due("validate")'
         /\ doing' \in Validating => doing \in Validating
         /\ doing' \in Reporting => doing \in Reporting
<1>1. doing \in {<<"pause">>, <<"pause", "term">>, <<"pause", "validate", "stop", "report">>,
                 <<"pause", "term", "report">>}
  BY DEF Plans, Bare, Validating, Reporting, Due
<1>2. CASE doing = <<"pause">>
  <2>1. doing' = <<>>
    BY <1>2, Joined DEF Proceeds
  <2> QED BY <1>2, <2>1 DEF Plans, Bare, Validating, Reporting, Due
<1>3. CASE doing = <<"pause", "term">>
  <2>1. doing' = <<"term">>
    BY <1>3, Joined DEF Proceeds
  <2> QED BY <1>3, <2>1 DEF Plans, Bare, Validating, Reporting, Due
<1>4. CASE doing = <<"pause", "validate", "stop", "report">>
  <2>1. doing' = <<"validate", "stop", "report">>
    BY <1>4, Joined DEF Proceeds
  <2> QED BY <1>4, <2>1 DEF Plans, Bare, Validating, Reporting, Due
<1>5. CASE doing = <<"pause", "term", "report">>
  <2>1. doing' = <<"term", "report">>
    BY <1>5, Joined DEF Proceeds
  <2> QED BY <1>5, <2>1 DEF Plans, Bare, Validating, Reporting, Due
<1> QED BY <1>1, <1>2, <1>3, <1>4, <1>5

\* A pause of a run that goes on begins with the worker.
LEMMA AfterPauseBegun ==
  ASSUME doing \in Plans, Due("pause"), Proceeds(<<"freeze", "gather">>)
  PROVE  /\ doing' \in Plans
         /\ Due("freeze")'
         /\ doing' \in Validating => doing \in Validating
         /\ doing' \in Reporting => doing \in Reporting
<1>1. doing \in {<<"pause">>, <<"pause", "term">>, <<"pause", "validate", "stop", "report">>,
                 <<"pause", "term", "report">>}
  BY DEF Plans, Bare, Validating, Reporting, Due
<1>2. CASE doing = <<"pause">>
  <2>1. doing' = <<"freeze", "gather">>
    BY <1>2, Joined DEF Proceeds
  <2> QED BY <1>2, <2>1 DEF Plans, Bare, Validating, Reporting, Due
<1>3. CASE doing = <<"pause", "term">>
  <2>1. doing' = <<"freeze", "gather", "term">>
    BY <1>3, Joined DEF Proceeds
  <2> QED BY <1>3, <2>1 DEF Plans, Bare, Validating, Reporting, Due
<1>4. CASE doing = <<"pause", "validate", "stop", "report">>
  <2>1. doing' = <<"freeze", "gather", "validate", "stop", "report">>
    BY <1>4, Joined DEF Proceeds
  <2> QED BY <1>4, <2>1 DEF Plans, Bare, Validating, Reporting, Due
<1>5. CASE doing = <<"pause", "term", "report">>
  <2>1. doing' = <<"freeze", "gather", "term", "report">>
    BY <1>5, Joined DEF Proceeds
  <2> QED BY <1>5, <2>1 DEF Plans, Bare, Validating, Reporting, Due
<1> QED BY <1>1, <1>2, <1>3, <1>4, <1>5

\* Nothing is left after a resume.
LEMMA AfterResume ==
  ASSUME doing \in Plans, Due("resume"), Proceeds(<<>>)
  PROVE  /\ doing' \in Plans
         /\ doing' = <<>>
         /\ doing' \notin Validating
         /\ doing' \notin Reporting
<1>1. doing = <<"resume">>
  BY DEF Plans, Bare, Validating, Reporting, Due
<1>2. doing' = <<>>
  BY <1>1, Joined DEF Proceeds
<1> QED BY <1>1, <1>2 DEF Plans, Bare, Validating, Reporting, Due

\* A stop that found the run over leaves at most the report.
LEMMA AfterStopped ==
  ASSUME doing \in Plans, Due("stop"), Proceeds(<<>>)
  PROVE  /\ doing' \in Plans
         /\ doing' = <<>> \/ Due("report")'
         /\ doing' \notin Validating
         /\ doing' \in Reporting => doing \in Reporting
<1>1. doing \in {<<"stop">>, <<"stop", "report">>}
  BY DEF Plans, Bare, Validating, Reporting, Due
<1>2. CASE doing = <<"stop">>
  <2>1. doing' = <<>>
    BY <1>2, Joined DEF Proceeds
  <2> QED BY <1>2, <2>1 DEF Plans, Bare, Validating, Reporting, Due
<1>3. CASE doing = <<"stop", "report">>
  <2>1. doing' = <<"report">>
    BY <1>3, Joined DEF Proceeds
  <2> QED BY <1>3, <2>1 DEF Plans, Bare, Validating, Reporting, Due
<1> QED BY <1>1, <1>2, <1>3

\* A stop of a run that goes on begins with a pause; the report stays behind it.
LEMMA AfterStopPauses ==
  ASSUME doing \in Plans, Due("stop"), Proceeds(<<"pause", "term">>)
  PROVE  /\ doing' \in Plans
         /\ Due("pause")'
         /\ doing' \notin Validating
         /\ doing' \in Reporting => doing \in Reporting
<1>1. doing \in {<<"stop">>, <<"stop", "report">>}
  BY DEF Plans, Bare, Validating, Reporting, Due
<1>2. CASE doing = <<"stop">>
  <2>1. doing' = <<"pause", "term">>
    BY <1>2, Joined DEF Proceeds
  <2> QED BY <1>2, <2>1 DEF Plans, Bare, Validating, Reporting, Due
<1>3. CASE doing = <<"stop", "report">>
  <2>1. doing' = <<"pause", "term", "report">>
    BY <1>3, Joined DEF Proceeds
  <2> QED BY <1>3, <2>1 DEF Plans, Bare, Validating, Reporting, Due
<1> QED BY <1>1, <1>2, <1>3

\* A stop of a paused run begins with the signals.
LEMMA AfterStopEnds ==
  ASSUME doing \in Plans, Due("stop"), Proceeds(<<"term">>)
  PROVE  /\ doing' \in Plans
         /\ Due("term")'
         /\ doing' \notin Validating
         /\ doing' \in Reporting => doing \in Reporting
<1>1. doing \in {<<"stop">>, <<"stop", "report">>}
  BY DEF Plans, Bare, Validating, Reporting, Due
<1>2. CASE doing = <<"stop">>
  <2>1. doing' = <<"term">>
    BY <1>2, Joined DEF Proceeds
  <2> QED BY <1>2, <2>1 DEF Plans, Bare, Validating, Reporting, Due
<1>3. CASE doing = <<"stop", "report">>
  <2>1. doing' = <<"term", "report">>
    BY <1>3, Joined DEF Proceeds
  <2> QED BY <1>3, <2>1 DEF Plans, Bare, Validating, Reporting, Due
<1> QED BY <1>1, <1>2, <1>3

\* After the signals the worker is waited for.
LEMMA AfterTerm ==
  ASSUME doing \in Plans, Due("term"), Proceeds(<<"wait">>)
  PROVE  /\ doing' \in Plans
         /\ Due("wait")'
         /\ doing' \notin Validating
         /\ doing' \in Reporting => doing \in Reporting
<1>1. doing \in {<<"term">>, <<"term", "report">>}
  BY DEF Plans, Bare, Validating, Reporting, Due
<1>2. CASE doing = <<"term">>
  <2>1. doing' = <<"wait">>
    BY <1>2, Joined DEF Proceeds
  <2> QED BY <1>2, <2>1 DEF Plans, Bare, Validating, Reporting, Due
<1>3. CASE doing = <<"term", "report">>
  <2>1. doing' = <<"wait", "report">>
    BY <1>3, Joined DEF Proceeds
  <2> QED BY <1>3, <2>1 DEF Plans, Bare, Validating, Reporting, Due
<1> QED BY <1>1, <1>2, <1>3

\* After the worker was waited for at most the report is left.
LEMMA AfterWait ==
  ASSUME doing \in Plans, Due("wait"), Proceeds(<<>>)
  PROVE  /\ doing' \in Plans
         /\ doing' = <<>> \/ Due("report")'
         /\ doing' \notin Validating
         /\ doing' \in Reporting => doing \in Reporting
<1>1. doing \in {<<"wait">>, <<"wait", "report">>}
  BY DEF Plans, Bare, Validating, Reporting, Due
<1>2. CASE doing = <<"wait">>
  <2>1. doing' = <<>>
    BY <1>2, Joined DEF Proceeds
  <2> QED BY <1>2, <2>1 DEF Plans, Bare, Validating, Reporting, Due
<1>3. CASE doing = <<"wait", "report">>
  <2>1. doing' = <<"report">>
    BY <1>3, Joined DEF Proceeds
  <2> QED BY <1>3, <2>1 DEF Plans, Bare, Validating, Reporting, Due
<1> QED BY <1>1, <1>2, <1>3

\* After the check the run is held.
LEMMA AfterCheck ==
  ASSUME doing \in Plans, Due("check"), Proceeds(<<>>)
  PROVE  /\ doing' \in Plans
         /\ Due("hold")'
         /\ doing' \notin Reporting
<1>1. doing = <<"check", "hold", "validate", "stop", "report">>
  BY DEF Plans, Bare, Validating, Reporting, Due
<1>2. doing' = <<"hold", "validate", "stop", "report">>
  BY <1>1, Joined DEF Proceeds
<1> QED BY <1>1, <1>2 DEF Plans, Bare, Validating, Reporting, Due

\* A run that goes on is paused before the validation.
LEMMA AfterHoldPauses ==
  ASSUME doing \in Plans, Due("hold"), Proceeds(<<"pause">>)
  PROVE  /\ doing' \in Plans
         /\ Due("pause")'
         /\ doing' \in Validating => doing \in Validating
         /\ doing' \notin Reporting
<1>1. doing = <<"hold", "validate", "stop", "report">>
  BY DEF Plans, Bare, Validating, Reporting, Due
<1>2. doing' = <<"pause", "validate", "stop", "report">>
  BY <1>1, Joined DEF Proceeds
<1> QED BY <1>1, <1>2 DEF Plans, Bare, Validating, Reporting, Due

\* Another run is held already.
LEMMA AfterHeld ==
  ASSUME doing \in Plans, Due("hold"), Proceeds(<<>>)
  PROVE  /\ doing' \in Plans
         /\ Due("validate")'
         /\ doing' \in Validating => doing \in Validating
         /\ doing' \notin Reporting
<1>1. doing = <<"hold", "validate", "stop", "report">>
  BY DEF Plans, Bare, Validating, Reporting, Due
<1>2. doing' = <<"validate", "stop", "report">>
  BY <1>1, Joined DEF Proceeds
<1> QED BY <1>1, <1>2 DEF Plans, Bare, Validating, Reporting, Due

\* After the validation the run is stopped, and then the report is made.
LEMMA AfterValidation ==
  ASSUME doing \in Plans, Due("validate"), Proceeds(<<>>)
  PROVE  /\ doing' \in Plans
         /\ Due("stop")'
         /\ doing' \notin Validating
         /\ doing' \in Reporting => doing \in Validating
<1>1. doing = <<"validate", "stop", "report">>
  BY DEF Plans, Bare, Validating, Reporting, Due
<1>2. doing' = <<"stop", "report">>
  BY <1>1, Joined DEF Proceeds
<1> QED BY <1>1, <1>2 DEF Plans, Bare, Validating, Reporting, Due

\* Nothing is left after the report.
LEMMA AfterReport ==
  ASSUME doing \in Plans, Due("report"), Proceeds(<<>>)
  PROVE  /\ doing' \in Plans
         /\ doing' = <<>>
         /\ doing' \notin Validating
         /\ doing' \notin Reporting
<1>1. doing = <<"report">>
  BY DEF Plans, Bare, Validating, Reporting, Due
<1>2. doing' = <<>>
  BY <1>1, Joined DEF Proceeds
<1> QED BY <1>1, <1>2 DEF Plans, Bare, Validating, Reporting, Due
-----------------------------------------------------------------------------
(* The invariant, action by action.                                        *)

\* RunInv holds before the first command, with or without a controller.
LEMMA RunStarts == RunInit => RunInv
<1> SUFFICES ASSUME RunInit PROVE RunInv
  OBVIOUS
<1>1. accepting \in Accepting /\ accepted = FALSE /\ doing = <<>> /\ control \in {"none", "running"} /\ agda = "none"
  BY DEF RunInit, Accepting, NoAccept, Variations
<1>2. doing \in Plans /\ doing \notin Validating /\ doing \notin Reporting /\ \A name : ~Due(name)
  BY <1>1 DEF Plans, Bare, Validating, Reporting, Due
<1>3. RunTypes
  BY <1>1, <1>2 DEF RunInit, RunTypes
<1> QED BY <1>1, <1>2, <1>3
   DEF RunInit, RunInv, FrozenIsKnown, OverIsGone, Unattended, Over, StepsReady, PatchIsNamed,
     AcceptedIsLast

\* A command that has ended is none of the plans above and is at no step.
LEMMA NothingLeft ==
  ASSUME doing' = <<>>
  PROVE  doing' \in Plans /\ doing' \notin Validating /\ doing' \notin Reporting /\ \A name : ~Due(name)'
  BY DEF Plans, Bare, Validating, Reporting, Due

\* Whatever the worker, Agda or the editor of the source does between two steps of
\* a command leaves RunInv as it is: they touch nothing the steps count on, but that
\* the worker may go.
LEMMA WorkerKeeps ==
  ASSUME RunInv, WorkerSteps \/ Publishes \/ Returns \/ AgdaEnds \/ Drifts \/ UNCHANGED runVars
  PROVE  RunInv'
<1>1. CASE Starts
  BY <1>1
     DEF RunInv, RunTypes, FrozenIsKnown, OverIsGone, StepsReady, Due, PatchIsNamed, AcceptedIsLast, Unattended,
         Starts, Alive, commandVars
<1>2. CASE Publishes
  BY <1>2
     DEF RunInv, RunTypes, FrozenIsKnown, OverIsGone, StepsReady, Due, PatchIsNamed, AcceptedIsLast, Unattended,
         Publishes, Alive, commandVars
<1>3. CASE Returns
  BY <1>3
     DEF RunInv, RunTypes, FrozenIsKnown, OverIsGone, StepsReady, Due, PatchIsNamed, AcceptedIsLast, Unattended,
         Returns, Alive, commandVars
<1>4. CASE WritesResult
  BY <1>4
     DEF RunInv, RunTypes, FrozenIsKnown, OverIsGone, StepsReady, Due, PatchIsNamed, AcceptedIsLast, Unattended,
         WritesResult, Alive, commandVars
<1>5. CASE Exits
  BY <1>5
     DEF RunInv, RunTypes, FrozenIsKnown, OverIsGone, StepsReady, Due, PatchIsNamed, AcceptedIsLast, Unattended,
         Exits, commandVars
<1>6. CASE AgdaEnds
  BY <1>6
     DEF RunInv, RunTypes, FrozenIsKnown, OverIsGone, StepsReady, Due, PatchIsNamed, AcceptedIsLast, Unattended,
         AgdaEnds, commandVars
<1>7. CASE Drifts
  BY <1>7
     DEF RunInv, RunTypes, FrozenIsKnown, OverIsGone, StepsReady, Due, PatchIsNamed, AcceptedIsLast, Unattended,
         Drifts, commandVars, workerVars
<1>8. CASE UNCHANGED runVars
  BY <1>8
     DEF RunInv, RunTypes, FrozenIsKnown, OverIsGone, StepsReady, Due, PatchIsNamed, AcceptedIsLast, Unattended,
         runVars
<1> QED BY <1>1, <1>2, <1>3, <1>4, <1>5, <1>6, <1>7, <1>8 DEF WorkerSteps

\* pause, of a run that is paused, goes on or is over.
LEMMA PauseKeeps == RunInv /\ Pause => RunInv'
<1> SUFFICES ASSUME RunInv, Pause PROVE RunInv'
  OBVIOUS
<1> USE
   DEF RunInv, RunTypes, FrozenIsKnown, OverIsGone, PatchIsNamed, AcceptedIsLast, Unattended, controlled,
       workerVars
<1>0. doing \in Plans /\ Due("pause")
  BY DEF Pause
<1>1. CASE Read = "paused"
  <2>1. Proceeds(<<>>) /\ control' = "paused" /\ UNCHANGED <<accepting, controlled, workerVars>>
    BY <1>1 DEF Pause
  <2> QED BY <1>0, <1>1, <2>1, AfterPause, NothingLeft DEF Due, StepsReady, Over, Read
<1>2. CASE Read = "running"
  <2>1. Proceeds(<<"freeze", "gather">>) /\ control' = "running" /\ UNCHANGED <<accepting, controlled, workerVars>>
    BY <1>2 DEF Pause
  <2> QED BY <1>0, <1>2, <2>1, AfterPauseBegun, NothingLeft DEF Due, StepsReady, Over, Read
<1>3. CASE Read \notin {"paused", "running"}
  <2>1. Errs /\ control' = Read /\ UNCHANGED <<controlled, workerVars>>
    BY <1>3 DEF Pause
  <2> QED BY <1>0, <1>3, <2>1, NothingLeft DEF Due, StepsReady, Over, Read, Errs, NoAccept, Accepting, Variations
<1> QED BY <1>1, <1>2, <1>3

\* SIGSTOP to the worker; one that is gone stays so.
LEMMA FreezeKeeps == RunInv /\ Freeze => RunInv'
<1> SUFFICES ASSUME RunInv, Freeze PROVE RunInv'
  OBVIOUS
<1>1. doing \in Plans /\ Due("freeze")
  BY DEF Freeze, RunInv, RunTypes
<1> QED BY <1>1, AfterFreeze, NothingLeft
   DEF Freeze, RunInv, Unattended, RunTypes, FrozenIsKnown, OverIsGone, StepsReady, PatchIsNamed, AcceptedIsLast, Due,
       Over, Read, controlled, workerVars

\* The groups are gathered: whoever is frozen now is known, whatever ps has shown.
LEMMA GatherKeeps == RunInv /\ Gather => RunInv'
<1> SUFFICES ASSUME RunInv, Gather PROVE RunInv'
  OBVIOUS
<1>0. doing \in Plans /\ Due("gather") /\ control = "running"
  BY DEF Gather, RunInv, RunTypes, StepsReady
<1>1. PICK sees \in LiveGroups : groups' = sees /\ agda' = (IF sees /\ agda = "running" THEN "frozen" ELSE agda)
  BY DEF Gather
<1>2. sees \in BOOLEAN
  BY DEF LiveGroups
<1>3. groups' \in BOOLEAN /\ agda' \in {"none", "running", "frozen"} /\ (agda' = "frozen" => groups')
  BY <1>0, <1>1, <1>2 DEF RunInv, RunTypes, FrozenIsKnown
<1>4. /\ Proceeds(<<>>) /\ control' = "paused"
      /\ UNCHANGED <<accepting, accepted, serving, drifted, worker, stage, term, variation, result>>
  BY DEF Gather
<1> QED BY <1>0, <1>3, <1>4, AfterGather, NothingLeft
   DEF RunInv, Unattended, RunTypes, FrozenIsKnown, OverIsGone, StepsReady, PatchIsNamed, AcceptedIsLast, Due, Over,
       Read, controlled, workerVars

\* resume wakes all that is known, so it may forget the groups.
LEMMA ResumeRunKeeps == RunInv /\ ResumeRun => RunInv'
<1> SUFFICES ASSUME RunInv, ResumeRun PROVE RunInv'
  OBVIOUS
<1>0. doing \in Plans /\ Due("resume")
  BY DEF ResumeRun, RunInv, RunTypes
<1>1. CASE Read = "running"
  BY <1>0, <1>1, AfterResume, NothingLeft
     DEF ResumeRun, RunInv, Unattended, RunTypes, FrozenIsKnown, OverIsGone, StepsReady, PatchIsNamed, AcceptedIsLast,
         Due, Over, Read, controlled, workerVars
<1>2. CASE Read = "paused"
  <2>1. PICK sees \in LiveGroups : Continues(groups \/ sees)
    BY <1>2 DEF ResumeRun
  <2>2. /\ groups' = FALSE /\ control' = "running" /\ Proceeds(<<>>)
        /\ UNCHANGED <<accepting, accepted, serving, drifted, stage, term, variation, result>>
    BY <1>2 DEF ResumeRun
  <2>3. agda' # "frozen" /\ agda' \in {"none", "running", "frozen"} /\ worker' \in {"running", "frozen", "gone"}
    BY <2>1 DEF Continues, RunInv, RunTypes, FrozenIsKnown
  <2> QED BY <1>0, <1>2, <2>2, <2>3, AfterResume, NothingLeft
     DEF RunInv, Unattended, RunTypes, FrozenIsKnown, OverIsGone, StepsReady, PatchIsNamed, AcceptedIsLast, Due, Over,
         Read, controlled, workerVars
<1>3. CASE Read \notin {"running", "paused"}
  <2>1. /\ doing' = <<>> /\ control' = Read /\ accepting' \in Accepting
        /\ UNCHANGED <<groups, worker, agda, accepted, serving, drifted, stage, term, variation, result>>
    <3>1. NoAccept \in Accepting
      BY DEF NoAccept, Accepting, Variations
    <3>2. Errs /\ control' = Read /\ UNCHANGED <<groups, worker, agda, accepted, serving, drifted, stage, term, variation, result>>
      BY <1>3 DEF ResumeRun
    <3> QED BY <3>1, <3>2 DEF Errs
  <2> QED BY <1>0, <1>3, <2>1, NothingLeft
     DEF RunInv, Unattended, RunTypes, FrozenIsKnown, OverIsGone, StepsReady, PatchIsNamed, AcceptedIsLast, Due, Over,
         Read, controlled, workerVars
<1> QED BY <1>1, <1>2, <1>3

\* stop, of a run that is over, goes on or is paused.
LEMMA StopKeeps == RunInv /\ Stop => RunInv'
<1> SUFFICES ASSUME RunInv, Stop PROVE RunInv'
  OBVIOUS
<1>0. doing \in Plans /\ Due("stop")
  BY DEF Stop, RunInv, RunTypes
<1>1. CASE Read \in Over
  BY <1>0, <1>1, AfterStopped, NothingLeft
     DEF Stop, RunInv, Unattended, RunTypes, FrozenIsKnown, OverIsGone, StepsReady, PatchIsNamed, AcceptedIsLast, Due,
         Over, Read, controlled, workerVars
<1>2. CASE Read = "running"
  BY <1>0, <1>2, AfterStopPauses, NothingLeft
     DEF Stop, RunInv, Unattended, RunTypes, FrozenIsKnown, OverIsGone, StepsReady, PatchIsNamed, AcceptedIsLast, Due,
         Over, Read, controlled, workerVars
<1>3. CASE Read \notin Over \cup {"running"}
  <2>1. Proceeds(<<"term">>) /\ control' = Read /\ UNCHANGED <<accepting, controlled, workerVars>>
    BY <1>3 DEF Stop
  <2>2. control # "none"
    BY <1>0
       DEF RunInv, Unattended, RunTypes, FrozenIsKnown, OverIsGone, StepsReady, PatchIsNamed, AcceptedIsLast, Due,
           Over, Read, controlled, workerVars
  <2> QED BY <1>0, <1>3, <2>1, <2>2, AfterStopEnds, NothingLeft
     DEF RunInv, Unattended, RunTypes, FrozenIsKnown, OverIsGone, StepsReady, PatchIsNamed, AcceptedIsLast, Due, Over,
         Read, controlled, workerVars
<1> QED BY <1>1, <1>2, <1>3

\* The signals end a frozen Agda, since it is known; none is frozen while the worker is waited for.
LEMMA TermKeeps == RunInv /\ Term => RunInv'
<1> SUFFICES ASSUME RunInv, Term PROVE RunInv'
  OBVIOUS
<1>0. doing \in Plans /\ Due("term")
  BY DEF Term, RunInv, RunTypes
<1>1. PICK sees \in LiveGroups : agda' = (IF groups \/ sees THEN "none" ELSE agda) /\ groups' = (groups \/ sees)
  BY DEF Term
<1>2. agda' # "frozen" /\ agda' \in {"none", "running", "frozen"} /\ groups' \in BOOLEAN
  BY <1>1 DEF RunInv, RunTypes, FrozenIsKnown
<1>3. /\ Proceeds(<<"wait">>) /\ term' = TRUE /\ worker' = IF worker = "frozen" THEN "running" ELSE worker
      /\ UNCHANGED <<control, accepting, accepted, serving, drifted, stage, variation, result>>
  BY DEF Term
<1> QED BY <1>0, <1>2, <1>3, AfterTerm, NothingLeft
   DEF RunInv, Unattended, RunTypes, FrozenIsKnown, OverIsGone, StepsReady, PatchIsNamed, AcceptedIsLast, Due, Over,
       Read, controlled, workerVars

\* The worker has gone or is killed, and the run is stopped.
LEMMA WaitKeeps == RunInv /\ Wait => RunInv'
<1> SUFFICES ASSUME RunInv, Wait PROVE RunInv'
  OBVIOUS
<1>0. doing \in Plans /\ Due("wait") /\ agda # "frozen"
  BY DEF Wait, RunInv, RunTypes, StepsReady
<1>1. agda' \in {"none", "running"}
  BY <1>0 DEF Wait, RunInv, RunTypes
<1>2. /\ Proceeds(<<>>) /\ control' = "stopped" /\ worker' = "gone" /\ groups' = FALSE
      /\ UNCHANGED <<accepted, accepting, serving, drifted, stage, term, variation, result>>
  BY DEF Wait
<1> QED BY <1>0, <1>1, <1>2, AfterWait, NothingLeft
   DEF RunInv, Unattended, RunTypes, FrozenIsKnown, OverIsGone, StepsReady, PatchIsNamed, AcceptedIsLast, Due, Over,
       Read, controlled, workerVars

\* The check of accept_goal takes the patch of the named variation or leaves the command.
LEMMA CheckKeeps == RunInv /\ Check => RunInv'
<1> SUFFICES ASSUME RunInv, Check PROVE RunInv'
  OBVIOUS
<1>0. doing \in Plans /\ Due("check") /\ UNCHANGED <<control, controlled, workerVars>>
  BY DEF Check, RunInv, RunTypes
<1>1. CASE Errs
  BY <1>0, <1>1, NothingLeft
     DEF Errs, NoAccept, Accepting, Variations, RunInv, Unattended, RunTypes, FrozenIsKnown, OverIsGone, StepsReady,
         PatchIsNamed, AcceptedIsLast, Due, Over, Read, controlled, workerVars
<1>2. CASE ~Errs
  <2>1. /\ variation = accepting.named /\ ~drifted /\ Proceeds(<<>>)
        /\ accepting' = [accepting EXCEPT !.patch = variation, !.foreign = drifted]
    BY <1>2 DEF Check
  <2>2. accepting' \in Accepting /\ accepting'.patch = accepting'.named /\ ~accepting'.foreign
    BY <2>1 DEF RunInv, RunTypes, Accepting
  <2> QED BY <1>0, <2>1, <2>2, AfterCheck, NothingLeft
     DEF RunInv, Unattended, RunTypes, FrozenIsKnown, OverIsGone, StepsReady, PatchIsNamed, AcceptedIsLast, Due, Over,
         Read, controlled, workerVars
<1> QED BY <1>1, <1>2

\* The run is held; the patch stays.
LEMMA HoldKeeps == RunInv /\ Hold => RunInv'
<1> SUFFICES ASSUME RunInv, Hold PROVE RunInv'
  OBVIOUS
<1>0. doing \in Plans /\ Due("hold")
  BY DEF Hold, RunInv, RunTypes
<1>1. CASE Read = "running"
  BY <1>0, <1>1, AfterHoldPauses, NothingLeft
     DEF Hold, RunInv, Unattended, RunTypes, FrozenIsKnown, OverIsGone, StepsReady, PatchIsNamed, AcceptedIsLast, Due,
         Over, Read, controlled, workerVars
<1>2. CASE Read # "running"
  BY <1>0, <1>2, AfterHeld, NothingLeft
     DEF Hold, RunInv, Unattended, RunTypes, FrozenIsKnown, OverIsGone, StepsReady, PatchIsNamed, AcceptedIsLast, Due,
         Over, Read, controlled, workerVars
<1> QED BY <1>1, <1>2

\* The validation accepts the patch or leaves the command.
LEMMA ValidateOptionKeeps == RunInv /\ ValidateOption => RunInv'
<1> SUFFICES ASSUME RunInv, ValidateOption PROVE RunInv'
  OBVIOUS
<1>0. doing \in Plans /\ Due("validate") /\ UNCHANGED <<control, controlled, workerVars>>
  BY DEF ValidateOption, RunInv, RunTypes
<1>1. CASE Errs
  BY <1>0, <1>1, NothingLeft
     DEF Errs, NoAccept, Accepting, Variations, RunInv, Unattended, RunTypes, FrozenIsKnown, OverIsGone, StepsReady,
         PatchIsNamed, AcceptedIsLast, Due, Over, Read, controlled, workerVars
<1>2. CASE ~Errs
  <2>1. Proceeds(<<>>) /\ accepting' = [accepting EXCEPT !.validated = TRUE]
    BY <1>2 DEF ValidateOption
  <2>2. /\ accepting' \in Accepting /\ accepting'.validated
        /\ accepting'.patch = accepting.patch /\ accepting'.named = accepting.named /\ accepting'.foreign = accepting.foreign
    BY <2>1 DEF RunInv, RunTypes, Accepting
  <2> QED BY <1>0, <2>1, <2>2, AfterValidation, NothingLeft
     DEF RunInv, Unattended, RunTypes, FrozenIsKnown, OverIsGone, StepsReady, PatchIsNamed, AcceptedIsLast, Due, Over,
         Read, controlled, workerVars
<1> QED BY <1>1, <1>2

\* The report is the last step of accept_goal, and the run is over.
LEMMA ReportKeeps == RunInv /\ Report => RunInv'
<1> SUFFICES ASSUME RunInv, Report PROVE RunInv'
  OBVIOUS
<1>0. doing \in Plans /\ Due("report")
  BY DEF Report, RunInv, RunTypes
<1>1. doing \in Reporting
  BY <1>0 DEF Plans, Bare, Validating, Reporting, Due
<1>2. doing' = <<>>
  BY <1>0, AfterReport DEF Report
<1> QED BY <1>0, <1>1, <1>2, NothingLeft
   DEF Report, RunInv, Unattended, RunTypes, FrozenIsKnown, OverIsGone, StepsReady, PatchIsNamed, AcceptedIsLast, Due,
       Over, Read, controlled, workerVars

\* The service ends between two commands.
LEMMA ServedKeeps == RunInv /\ Served => RunInv'
  BY
     DEF Served, RunInv, Unattended, RunTypes, FrozenIsKnown, OverIsGone, StepsReady, PatchIsNamed, AcceptedIsLast,
         Due, Over, Read, controlled, workerVars

\* The end of the input stops a run that is not over; one with a report is.
LEMMA EndOfInputKeeps == RunInv /\ EndOfInput => RunInv'
<1> SUFFICES ASSUME RunInv, EndOfInput PROVE RunInv'
  OBVIOUS
<1>1. CASE Read \in {"running", "paused"}
  <2>1. doing' = <<"stop">>
    BY <1>1 DEF EndOfInput
  <2>2. /\ doing' \in Plans /\ doing' \notin Validating /\ doing' \notin Reporting
        /\ Due("stop")'
    BY <2>1 DEF Plans, Bare, Validating, Reporting, Due
  <2>3. ~accepted
    BY <1>1
       DEF EndOfInput, RunInv, Unattended, RunTypes, FrozenIsKnown, OverIsGone, StepsReady, PatchIsNamed,
           AcceptedIsLast, Due, Over, Read, controlled, workerVars
  <2> QED BY <1>1, <2>1, <2>2, <2>3
     DEF EndOfInput, Awaits, RunInv, Unattended, RunTypes, FrozenIsKnown, OverIsGone, StepsReady, PatchIsNamed,
         AcceptedIsLast, Due, Over, Read, controlled, workerVars
<1>2. CASE Read \notin {"running", "paused"}
  <2>1. doing' = <<>>
    BY <1>2 DEF EndOfInput
  <2> QED BY <1>2, <2>1, NothingLeft
     DEF EndOfInput, Awaits, RunInv, Unattended, RunTypes, FrozenIsKnown, OverIsGone, StepsReady, PatchIsNamed,
         AcceptedIsLast, Due, Over, Read, controlled, workerVars
<1> QED BY <1>1, <1>2

\* A new command begins with a plan of its own and takes the last report back.
LEMMA CommandKeeps == ASSUME NEW name \in Commands, RunInv, Command(name) PROVE RunInv'
<1>1. accepting' \in Accepting
  <2>1. PICK named \in Variations :
          accepting' = IF name = "accept" THEN [NoAccept EXCEPT !.named = named] ELSE NoAccept
    BY DEF Command
  <2> QED BY <2>1 DEF NoAccept, Accepting, Variations
<1>2. /\ doing' \in Plans /\ doing' \notin Validating /\ doing' \notin Reporting
      /\ ~Due("freeze")' /\ ~Due("gather")' /\ ~Due("term")' /\ ~Due("wait")' /\ ~Due("report")'
  <2>1. CASE name = "accept"
    BY <2>1 DEF Command, Plans, Validating, Reporting, Due
  <2>2. CASE name = "status"
    BY <2>2, NothingLeft DEF Command
  <2>3. CASE name \notin {"accept", "status"}
    BY <2>3 DEF Command, Commands, Plans, Bare, Validating, Reporting, Due
  <2> QED BY <2>1, <2>2, <2>3
<1>3. control' = control \/ control' = Read
  BY DEF Command
<1>4. doing = <<>> /\ serving = "yes" /\ accepted' = FALSE /\ UNCHANGED <<groups, serving, workerVars, drifted>>
  BY DEF Command, Awaits
<1>5. RunTypes'
  <2>1. control' \in {"none", "running", "paused"} \cup Over
    BY <1>3 DEF RunInv, RunTypes, Read, Over
  <2> QED BY <1>1, <1>2, <1>4, <2>1 DEF RunInv, RunTypes, workerVars
<1>6. (FrozenIsKnown /\ OverIsGone /\ Unattended)'
  BY <1>3, <1>4 DEF RunInv, RunTypes, FrozenIsKnown, OverIsGone, Unattended, Read, Over, workerVars
<1>7. (StepsReady /\ PatchIsNamed /\ AcceptedIsLast)'
  BY <1>2, <1>4 DEF StepsReady, PatchIsNamed, AcceptedIsLast
<1> QED BY <1>5, <1>6, <1>7 DEF RunInv

\* Every step keeps RunInv.
LEMMA StepKeeps == RunInv /\ [RunNext]_runVars => RunInv'
  BY WorkerKeeps, PauseKeeps, FreezeKeeps, GatherKeeps, ResumeRunKeeps, StopKeeps, TermKeeps, WaitKeeps, CheckKeeps, HoldKeeps,
     ValidateOptionKeeps, ReportKeeps, ServedKeeps, EndOfInputKeeps, CommandKeeps
  DEF RunNext, ControllerSteps, OperatorSteps

-----------------------------------------------------------------------------
(* InteractiveRun: the theorems.                                           *)

\* The plan at hand and the state of the processes fit together at all times.
THEOREM RunInvariant == RunSpec => []RunInv
  BY RunStarts, StepKeeps, PTL DEF RunSpec

\* When the state of a run is stopped its worker is gone and Agda is not left
\* frozen: InteractiveRunController.stop, for every fault and any order of the
\* worker's steps and the signals.
THEOREM StoppedIsGone == RunSpec => []StoppedMeansGone
<1>1. RunInv => StoppedMeansGone
  BY DEF RunInit, RunInv, FrozenIsKnown, OverIsGone, Over, StoppedMeansGone
<1> QED BY RunInvariant, <1>1, PTL

\* accept_goal reports a goal only when the patch of the variation the operator
\* named was validated, of the source of the launch, and the run is over.
THEOREM AcceptedIsValidated == RunSpec => []AcceptedWasValidated
<1>1. RunInv => AcceptedWasValidated
  BY DEF RunInv, PatchIsNamed, AcceptedIsLast, OverIsGone, AcceptedWasValidated
<1> QED BY RunInvariant, <1>1, PTL

-----------------------------------------------------------------------------
(* The fold of a sample.                                                   *)

\* What a sample of one area makes of a ledger of scope s.
Step(s, a, l) == IF s <= leased[a] THEN Checked(s, [l EXCEPT !.disk[a] = size[a]]) ELSE l

\* The right-hand side of the recursive equation of the fold, at the set T.
Body(s, l0, g, T) ==
  IF T = {} THEN l0 ELSE LET x == CHOOSE y \in T : TRUE IN Step(s, x, g[T \ {x}])

\* A sample is the value of that function at the set of areas sampled.
LEMMA SampledIs ==
  ASSUME NEW areas, NEW s \in Scopes, s \in Opened
  PROVE  Sampled(areas)[s] = (CHOOSE g : g = [T \in SUBSET areas |-> Body(s, ledger[s], g, T)])[areas]
  BY DEF Sampled, FoldSet, MapThenFoldSet, Step, Body

\* The function g satisfies the recursive equation.
Iterates(s, l0, areas, g) == g = [T \in SUBSET areas |-> Body(s, l0, g, T)]

\* The fold goes on with a smaller set.
LEMMA SmallerSet ==
  ASSUME NEW T, IsFiniteSet(T), T # {}
  PROVE  LET x == CHOOSE y \in T : TRUE
         IN  x \in T /\ IsFiniteSet(T \ {x}) /\ Cardinality(T \ {x}) \in Nat /\ Cardinality(T) = Cardinality(T \ {x}) + 1
<1> DEFINE x == CHOOSE y \in T : TRUE
<1>1. x \in T
  OBVIOUS
<1> HIDE DEF x
<1>2. IsFiniteSet(T \ {x}) /\ Cardinality(T \ {x}) = Cardinality(T) - 1
  BY <1>1, FS_RemoveElement
<1>3. Cardinality(T) \in Nat /\ Cardinality(T \ {x}) \in Nat
  BY <1>2, FS_CardinalityType
<1> QED BY <1>1, <1>2, <1>3 DEF x

\* There is such a function: one that satisfies the equation up to sets of n areas
\* is made into one that satisfies it up to n + 1.
LEMMA IterationExists ==
  ASSUME NEW s, NEW areas, IsFiniteSet(areas), NEW L, NEW l0 \in L, \A a \in areas, l \in L : Step(s, a, l) \in L
  PROVE  \E g : Iterates(s, l0, areas, g)
<1> DEFINE Upto(n) == \E g \in [SUBSET areas -> L] :
                        \A T \in SUBSET areas : Cardinality(T) <= n => g[T] = Body(s, l0, g, T)
<1>1. Upto(0)
  <2> DEFINE g == [T \in SUBSET areas |-> l0]
  <2>1. \A T \in SUBSET areas : Cardinality(T) <= 0 => T = {}
    <3> TAKE T \in SUBSET areas
    <3> QED BY FS_Subset, FS_EmptySet, FS_CardinalityType
  <2>2. g \in [SUBSET areas -> L]
    OBVIOUS
  <2>3. \A T \in SUBSET areas : Cardinality(T) <= 0 => g[T] = Body(s, l0, g, T)
    BY <2>1 DEF Body
  <2> HIDE DEF g
  <2> QED BY <2>2, <2>3
<1>2. ASSUME NEW n \in Nat, Upto(n) PROVE Upto(n + 1)
  <2>1. PICK g \in [SUBSET areas -> L] : \A T \in SUBSET areas : Cardinality(T) <= n => g[T] = Body(s, l0, g, T)
    BY <1>2
  <2> DEFINE h == [T \in SUBSET areas |-> IF Cardinality(T) = n + 1 THEN Body(s, l0, g, T) ELSE g[T]]
  <2>2. \A T \in SUBSET areas : Body(s, l0, g, T) \in L
    BY SmallerSet, FS_Subset DEF Body
  <2>3. h \in [SUBSET areas -> L]
    BY <2>2
  <2>4. ASSUME NEW T \in SUBSET areas, Cardinality(T) <= n + 1
        PROVE  h[T] = Body(s, l0, h, T)
    <3>1. h[T] = Body(s, l0, g, T)
      BY <2>1, <2>4, FS_Subset, FS_CardinalityType
    <3>2. Body(s, l0, g, T) = Body(s, l0, h, T)
      <4>1. CASE T = {}
        BY <4>1 DEF Body
      <4>2. CASE T # {}
        <5> DEFINE x == CHOOSE y \in T : TRUE
        <5>1. x \in T /\ Cardinality(T \ {x}) \in Nat /\ Cardinality(T) = Cardinality(T \ {x}) + 1
          BY <4>2, SmallerSet, FS_Subset
        <5>2. T \ {x} \in SUBSET areas /\ Cardinality(T \ {x}) # n + 1
          BY <5>1, <2>4
        <5>3. h[T \ {x}] = g[T \ {x}]
          BY <5>2
        <5> QED BY <4>2, <5>3 DEF Body
      <4> QED BY <4>1, <4>2
    <3> QED BY <3>1, <3>2
  <2> HIDE DEF h
  <2> QED BY <2>3, <2>4
<1> HIDE DEF Upto
<1>3. \A n \in Nat : Upto(n)
  <2> SUFFICES ASSUME {n \in Nat : ~Upto(n)} # {} PROVE FALSE
    OBVIOUS
  <2>1. PICK n \in {k \in Nat : ~Upto(k)} : \A m \in {k \in Nat : ~Upto(k)} : n <= m
    BY LeastNatural
  <2>2. n # 0
    BY <1>1, <2>1
  <2>3. n - 1 \in Nat /\ Upto(n - 1)
    BY <2>1, <2>2
  <2> QED BY <1>2, <2>1, <2>3
<1>4. Upto(Cardinality(areas))
  BY <1>3, FS_CardinalityType
<1>5. PICK g \in [SUBSET areas -> L] : \A T \in SUBSET areas : Cardinality(T) <= Cardinality(areas) => g[T] = Body(s, l0, g, T)
  BY <1>4 DEF Upto
<1>6. \A T \in SUBSET areas : Cardinality(T) <= Cardinality(areas)
  BY FS_Subset
<1>7. g = [T \in SUBSET areas |-> Body(s, l0, g, T)]
  BY <1>5, <1>6
<1> QED BY <1>7 DEF Iterates

\* What every step of the fold preserves is true of its result.
LEMMA IterationStays ==
  ASSUME NEW s, NEW areas, IsFiniteSet(areas), NEW L, NEW l0 \in L, \A a \in areas, l \in L : Step(s, a, l) \in L,
         NEW g, Iterates(s, l0, areas, g)
  PROVE  g[areas] \in L
<1> DEFINE Upto(n) == \A T \in SUBSET areas : Cardinality(T) = n => g[T] \in L
<1>0. \A T \in SUBSET areas : g[T] = Body(s, l0, g, T)
  BY DEF Iterates
<1>1. Upto(0)
  <2>1. \A T \in SUBSET areas : Cardinality(T) = 0 => T = {}
    <3> TAKE T \in SUBSET areas
    <3> QED BY FS_Subset, FS_EmptySet
  <2> QED BY <1>0, <2>1 DEF Body
<1>2. ASSUME NEW n \in Nat, Upto(n) PROVE Upto(n + 1)
  <2> TAKE T \in SUBSET areas
  <2> HAVE Cardinality(T) = n + 1
  <2>1. T # {} /\ IsFiniteSet(T)
    BY FS_Subset, FS_EmptySet
  <2> DEFINE x == CHOOSE y \in T : TRUE
  <2>2. x \in T /\ Cardinality(T \ {x}) \in Nat /\ Cardinality(T) = Cardinality(T \ {x}) + 1
    BY <2>1, SmallerSet
  <2>3. T \ {x} \in SUBSET areas /\ Cardinality(T \ {x}) = n /\ x \in areas
    BY <2>2
  <2>4. g[T \ {x}] \in L
    BY <1>2, <2>3
  <2>5. g[T] = Step(s, x, g[T \ {x}])
    BY <1>0, <2>1 DEF Body
  <2> HIDE DEF x
  <2> QED BY <2>3, <2>4, <2>5
<1> HIDE DEF Upto
<1>3. \A n \in Nat : Upto(n)
  <2> SUFFICES ASSUME {n \in Nat : ~Upto(n)} # {} PROVE FALSE
    OBVIOUS
  <2>1. PICK n \in {k \in Nat : ~Upto(k)} : \A m \in {k \in Nat : ~Upto(k)} : n <= m
    BY LeastNatural
  <2>2. n # 0
    BY <1>1, <2>1
  <2>3. n - 1 \in Nat /\ Upto(n - 1)
    BY <2>1, <2>2
  <2> QED BY <1>2, <2>1, <2>3
<1> QED BY <1>3, FS_CardinalityType DEF Upto

-----------------------------------------------------------------------------
(* The inductive invariant.                                                *)

\* What a scope has spent, where, and whether it was found to be too much.
Ledger == [io : Nat, disk : [Areas -> Nat], exhausted : BOOLEAN]

\* The ledgers a sample may make of l0 in scope s: it adds no input, forgets no
\* exhaustion, and shows one that has come about.
FollowsFrom(s, l0) ==
  {l \in Ledger : l.io = l0.io /\ (l0.exhausted => l.exhausted) /\ (l.io > limits[s].io => l.exhausted)}

\* The types of the state.
BudgetTypes ==
  /\ open \in 0..Depth /\ limits \in [Scopes -> Allowances]
  /\ meter \in [Scopes -> [used : Nat, denied : Nat]]
  /\ ledger \in [Scopes -> Ledger]
  /\ finished \in [Scopes -> {"no", "clean", "exhausted"}]
  /\ leased \in [Areas -> 0..Depth] /\ size \in [Areas -> Nat]
  /\ made \in [Scopes -> Nat] /\ over \subseteq Scopes

\* A check changes the verdict only, and exhausts what has overspent its input.
LEMMA CheckedType ==
  ASSUME NEW s, NEW l \in Ledger
  PROVE  /\ Checked(s, l) \in Ledger /\ Checked(s, l).io = l.io /\ Checked(s, l).disk = l.disk
         /\ (l.exhausted \/ l.io > limits[s].io) => Checked(s, l).exhausted
<1> DEFINE full == l.exhausted \/ l.io > limits[s].io \/ Live(l) > limits[s].disk
<1>1. full \in BOOLEAN /\ (l.exhausted \/ l.io > limits[s].io => full)
  OBVIOUS
<1>2. Checked(s, l) = [l EXCEPT !.exhausted = full]
  BY DEF Checked
<1> HIDE DEF full
<1> QED BY <1>1, <1>2 DEF Ledger

\* A step of the fold stays within what may follow.
LEMMA StepStays ==
  ASSUME BudgetTypes, NEW s \in Scopes, NEW l0 \in Ledger, NEW a \in Areas, NEW l \in FollowsFrom(s, l0)
  PROVE  Step(s, a, l) \in FollowsFrom(s, l0)
<1>1. CASE ~(s <= leased[a])
  BY <1>1 DEF Step
<1>2. CASE s <= leased[a]
  <2> DEFINE m == [l EXCEPT !.disk[a] = size[a]]
  <2>1. m \in Ledger /\ m.io = l.io /\ m.exhausted = l.exhausted
    BY DEF FollowsFrom, Ledger, BudgetTypes
  <2> HIDE DEF m
  <2>2. /\ Checked(s, m) \in Ledger /\ Checked(s, m).io = m.io
        /\ (m.exhausted \/ m.io > limits[s].io) => Checked(s, m).exhausted
    BY <2>1, CheckedType
  <2>3. Step(s, a, l) = Checked(s, m)
    BY <1>2 DEF Step, m
  <2> QED BY <2>1, <2>2, <2>3 DEF FollowsFrom
<1> QED BY <1>1, <1>2

\* And so does a sample of any areas.
LEMMA SampledFollows ==
  ASSUME BudgetTypes, IsFiniteSet(Areas), NEW areas \in SUBSET Areas, NEW s \in Scopes,
         ledger[s].io > limits[s].io => ledger[s].exhausted
  PROVE  Sampled(areas)[s] \in FollowsFrom(s, ledger[s])
<1>1. ledger[s] \in FollowsFrom(s, ledger[s])
  BY DEF BudgetTypes, FollowsFrom
<1>2. CASE s \notin Opened
  BY <1>1, <1>2 DEF Sampled
<1>3. CASE s \in Opened
  <2> DEFINE L == FollowsFrom(s, ledger[s])
  <2>1. \A a \in areas, l \in L : Step(s, a, l) \in L
    BY StepStays DEF BudgetTypes
  <2>2. IsFiniteSet(areas)
    BY FS_Subset
  <2> HIDE DEF L
  <2>3. \E g : Iterates(s, ledger[s], areas, g)
    BY <1>1, <2>1, <2>2, IterationExists DEF L
  <2> DEFINE g == CHOOSE h : Iterates(s, ledger[s], areas, h)
  <2>4. Iterates(s, ledger[s], areas, g)
    BY <2>3
  <2>5. Sampled(areas)[s] = g[areas]
    BY <1>3, SampledIs DEF Iterates
  <2> HIDE DEF g
  <2>6. g[areas] \in L
    BY <1>1, <2>1, <2>2, <2>4, IterationStays DEF L
  <2> QED BY <2>5, <2>6 DEF L
<1> QED BY <1>2, <1>3

\* The scopes that have ever been over are those whose ledgers say so: no step
\* takes that back.
Overs == over = {s \in Scopes : ledger[s].exhausted}

\* Input above the allowance is shown.
Shown == \A s \in Scopes : ledger[s].io > limits[s].io => ledger[s].exhausted

\* A scope has counted the requests that were made in it, and none too many.
Paid == \A s \in Scopes : meter[s].used = made[s] /\ meter[s].used <= limits[s].calls

\* An outer scope counts what the inner ones do.
NestedScopes == \A s, t \in Scopes : s < t => ledger[s].io >= ledger[t].io /\ meter[s].used >= meter[t].used

\* An open scope has not finished.
Unfinished == \A s \in Scopes : s \in Opened => finished[s] = "no"

\* A scope that finished as clean is not charged later.
CleanStays == \A s \in Scopes : finished[s] = "clean" => ~ledger[s].exhausted

\* The invariant that is inductive.
BudgetInv == BudgetTypes /\ Overs /\ Shown /\ Paid /\ NestedScopes /\ Unfinished /\ CleanStays

\* What a step may do to the ledgers.
LedgerMoves ==
  /\ ledger' \in [Scopes -> Ledger]
  /\ \A s \in Scopes : ledger[s].exhausted => ledger'[s].exhausted
  /\ \A s \in Scopes : ledger'[s].io > limits[s].io => ledger'[s].exhausted
  /\ \A s, t \in Scopes : s < t => ledger'[s].io >= ledger'[t].io
  /\ \A s \in Scopes : s \notin Opened => ledger'[s].exhausted = ledger[s].exhausted

\* What a step may do to the meters.
MeterMoves ==
  /\ meter' \in [Scopes -> [used : Nat, denied : Nat]] /\ made' \in [Scopes -> Nat]
  /\ \A s \in Scopes : meter'[s].used = made'[s] /\ meter'[s].used <= limits[s].calls
  /\ \A s, t \in Scopes : s < t => meter'[s].used >= meter'[t].used

\* A step that leaves the ledgers alone is one of those moves.
LEMMA LedgerRests == BudgetInv /\ UNCHANGED ledger => LedgerMoves
  BY DEF BudgetInv, LedgerMoves, BudgetTypes, Shown, NestedScopes

\* A step that leaves the meters alone is one of those moves.
LEMMA MeterRests == BudgetInv /\ UNCHANGED <<meter, made>> => MeterMoves
  BY DEF BudgetInv, MeterMoves, BudgetTypes, Paid, NestedScopes

\* A step whose ledgers are those of a sample, up to the disk, is one of the moves.
LEMMA SampledMoves ==
  ASSUME BudgetInv, IsFiniteSet(Areas), NEW areas \in SUBSET Areas,
         ledger' \in [Scopes -> Ledger],
         \A s \in Scopes : ledger'[s].io = Sampled(areas)[s].io /\ ledger'[s].exhausted = Sampled(areas)[s].exhausted
  PROVE  LedgerMoves
<1>1. ASSUME NEW s \in Scopes
      PROVE  /\ Sampled(areas)[s].io = ledger[s].io
             /\ ledger[s].exhausted => Sampled(areas)[s].exhausted
             /\ Sampled(areas)[s].io > limits[s].io => Sampled(areas)[s].exhausted
             /\ s \notin Opened => Sampled(areas)[s] = ledger[s]
  <2>1. Sampled(areas)[s] \in FollowsFrom(s, ledger[s])
    BY SampledFollows DEF BudgetInv, Shown
  <2>2. s \notin Opened => Sampled(areas)[s] = ledger[s]
    BY DEF Sampled
  <2> QED BY <2>1, <2>2 DEF FollowsFrom
<1> QED BY <1>1 DEF LedgerMoves, BudgetInv, NestedScopes

\* A sample gives every scope a ledger.
LEMMA SampledType ==
  ASSUME BudgetInv, IsFiniteSet(Areas), NEW areas \in SUBSET Areas
  PROVE  Sampled(areas) \in [Scopes -> Ledger]
<1>1. \A s \in Scopes : Sampled(areas)[s] \in Ledger
  BY SampledFollows DEF BudgetInv, Shown, FollowsFrom
<1>2. Sampled(areas) = [s \in Scopes |-> Sampled(areas)[s]]
  BY DEF Sampled
<1> QED BY <1>1, <1>2

\* A request is counted in every open scope, or denied from the first that is spent.
LEMMA ChargedMoves ==
  ASSUME BudgetInv, meter' = ChargedMeters,
         made' = [s \in Scopes |-> made[s] + (IF s \in Opened /\ ~\E t \in Opened : Spent(t) THEN 1 ELSE 0)]
  PROVE  MeterMoves
<1>0. Opened \subseteq Scopes /\ Depth \in Nat /\ open \in 0..Depth
  BY BudgetsAssumption DEF BudgetInv, BudgetTypes, Opened, Scopes
<1>1. CASE ~\E t \in Opened : Spent(t)
  <2>1. \A s \in Scopes : meter'[s] = IF s \in Opened THEN [meter[s] EXCEPT !.used = @ + 1] ELSE meter[s]
    BY <1>0, <1>1 DEF ChargedMeters
  <2>2. \A s \in Scopes : made'[s] = IF s \in Opened THEN made[s] + 1 ELSE made[s]
    BY <1>1 DEF BudgetInv, BudgetTypes
  <2>3. ASSUME NEW s \in Scopes
        PROVE  /\ meter'[s] \in [used : Nat, denied : Nat]
               /\ meter'[s].used = IF s \in Opened THEN meter[s].used + 1 ELSE meter[s].used
               /\ made'[s] \in Nat /\ meter'[s].used = made'[s] /\ meter'[s].used <= limits[s].calls
    <3>1. /\ meter[s] \in [used : Nat, denied : Nat] /\ made[s] \in Nat /\ limits[s].calls \in Nat
          /\ meter[s].used = made[s] /\ meter[s].used <= limits[s].calls
      BY BudgetsAssumption DEF BudgetInv, BudgetTypes, Paid
    <3>2. s \in Opened => meter[s].used < limits[s].calls
      BY <1>1, <3>1 DEF Spent
    <3>3. CASE s \in Opened
      <4>1. meter'[s] = [meter[s] EXCEPT !.used = @ + 1] /\ made'[s] = made[s] + 1
        BY <2>1, <2>2, <3>3
      <4>2. meter'[s] \in [used : Nat, denied : Nat] /\ meter'[s].used = meter[s].used + 1
        BY <3>1, <4>1
      <4> QED BY <3>1, <3>2, <3>3, <4>1, <4>2
    <3>4. CASE s \notin Opened
      BY <2>1, <2>2, <3>1, <3>4
    <3> QED BY <3>3, <3>4
  <2>4. ASSUME NEW s \in Scopes, NEW t \in Scopes, s < t
        PROVE  meter'[s].used >= meter'[t].used
    <3>1. meter[s].used \in Nat /\ meter[t].used \in Nat /\ meter[s].used >= meter[t].used
      BY <2>4 DEF BudgetInv, BudgetTypes, NestedScopes
    <3>2. t \in Opened => s \in Opened
      BY <1>0, <2>4 DEF Opened, Scopes
    <3> QED BY <2>3, <3>1, <3>2
  <2>5. meter' \in [Scopes -> [used : Nat, denied : Nat]] /\ made' \in [Scopes -> Nat]
    <3>1. meter' = [s \in Scopes |-> meter'[s]] /\ made' = [s \in Scopes |-> made'[s]]
      BY DEF ChargedMeters
    <3> QED BY <2>3, <3>1
  <2> QED BY <2>3, <2>4, <2>5 DEF MeterMoves
<1>2. CASE \E t \in Opened : Spent(t)
  <2> DEFINE first == Min({s \in Opened : Spent(s)})
  <2>1. first \in Opened
    <3>1. {s \in Opened : Spent(s)} \subseteq Nat /\ {s \in Opened : Spent(s)} # {}
      BY <1>0, <1>2 DEF Opened
    <3>2. \E n \in {s \in Opened : Spent(s)} : \A m \in {s \in Opened : Spent(s)} : n <= m
      BY <3>1, LeastNatural
    <3> QED BY <3>2 DEF Min
  <2>2. ChargedMeters = [s \in Scopes |-> IF s \notin Opened THEN meter[s]
                       ELSE IF first > open THEN [meter[s] EXCEPT !.used = @ + 1]
                       ELSE IF s >= first THEN [meter[s] EXCEPT !.denied = @ + 1]
                       ELSE meter[s]]
    BY <1>2 DEF ChargedMeters
  <2> HIDE DEF first
  <2>3. \A s \in Scopes : meter'[s] = IF s \in Opened /\ s >= first THEN [meter[s] EXCEPT !.denied = @ + 1] ELSE meter[s]
    BY <1>0, <2>1, <2>2 DEF Opened
  <2>4. ASSUME NEW s \in Scopes
        PROVE  meter'[s] \in [used : Nat, denied : Nat] /\ meter'[s].used = meter[s].used
    <3>1. meter[s] \in [used : Nat, denied : Nat]
      BY DEF BudgetInv, BudgetTypes
    <3>2. meter'[s] = [meter[s] EXCEPT !.denied = @ + 1] \/ meter'[s] = meter[s]
      BY <2>3
    <3> QED BY <3>1, <3>2
  <2>5. made' = made
    BY <1>2 DEF BudgetInv, BudgetTypes
  <2>6. meter' \in [Scopes -> [used : Nat, denied : Nat]]
    BY <2>2, <2>4
  <2> QED BY <2>4, <2>5, <2>6 DEF MeterMoves, BudgetInv, BudgetTypes, Paid, NestedScopes
<1> QED BY <1>1, <1>2

\* A charge for input is made in every open scope.
LEMMA InputMoves ==
  ASSUME BudgetInv, ChargeIO
  PROVE  LedgerMoves
<1>1. PICK n \in 1..MaxSize :
        ledger' = [s \in Scopes |-> IF s \in Opened THEN Checked(s, [ledger[s] EXCEPT !.io = @ + n]) ELSE ledger[s]]
  BY DEF ChargeIO
<1>2. n \in Nat
  BY BudgetsAssumption
<1>3. ASSUME NEW s \in Scopes, s \in Opened
      PROVE  /\ ledger'[s] \in Ledger /\ ledger'[s].io = ledger[s].io + n
             /\ ledger[s].exhausted \/ ledger'[s].io > limits[s].io => ledger'[s].exhausted
  <2> DEFINE l == [ledger[s] EXCEPT !.io = @ + n]
  <2>1. l \in Ledger /\ l.io = ledger[s].io + n /\ l.exhausted = ledger[s].exhausted
    BY <1>2 DEF BudgetInv, BudgetTypes, Ledger
  <2> HIDE DEF l
  <2>2. ledger'[s] = Checked(s, l)
    BY <1>1, <1>3 DEF l
  <2> QED BY <2>1, <2>2, CheckedType
<1>4. \A s \in Scopes : s \notin Opened => ledger'[s] = ledger[s]
  BY <1>1
<1>5. ledger' \in [Scopes -> Ledger]
  BY <1>1, <1>3, <1>4 DEF BudgetInv, BudgetTypes
<1>6. ASSUME NEW s \in Scopes, NEW t \in Scopes, s < t
      PROVE  ledger'[s].io >= ledger'[t].io
  <2>1. ledger[s].io \in Nat /\ ledger[t].io \in Nat /\ ledger[s].io >= ledger[t].io
    BY <1>6 DEF BudgetInv, BudgetTypes, NestedScopes, Ledger
  <2>2. t \in Opened => s \in Opened
    BY <1>6 DEF Opened, Scopes, BudgetInv, BudgetTypes
  <2> QED BY <1>2, <1>3, <1>4, <2>1, <2>2
<1> QED BY <1>3, <1>4, <1>5, <1>6 DEF LedgerMoves, BudgetInv, Shown

-----------------------------------------------------------------------------
(* Every step keeps the invariant.                                         *)

\* The invariant survives such moves, when what is open has not finished and what
\* finished as clean is not exhausted.
LEMMA Kept ==
  ASSUME BudgetInv, LedgerMoves, MeterMoves, over' = over \cup {s \in Scopes : ledger'[s].exhausted}, limits' = limits,
         open' \in 0..Depth, leased' \in [Areas -> 0..Depth], size' \in [Areas -> Nat],
         finished' \in [Scopes -> {"no", "clean", "exhausted"}],
         \A s \in Scopes : s \in Opened' => finished'[s] = "no",
         \A s \in Scopes : finished'[s] = "clean" => ~ledger'[s].exhausted
  PROVE  BudgetInv'
<1>1. BudgetTypes'
  BY DEF BudgetInv, BudgetTypes, LedgerMoves, MeterMoves, Scopes
<1>2. Overs'
  BY DEF BudgetInv, Overs, LedgerMoves, Scopes
<1>3. (Shown /\ Paid /\ NestedScopes /\ Unfinished /\ CleanStays)'
  BY DEF LedgerMoves, MeterMoves, Shown, Paid, NestedScopes, Unfinished, CleanStays, Scopes
<1> QED BY <1>1, <1>2, <1>3 DEF BudgetInv

\* The steps that finish no scope.
LEMMA KeptOpen ==
  ASSUME BudgetInv, LedgerMoves, MeterMoves, over' = over \cup {s \in Scopes : ledger'[s].exhausted},
         limits' = limits, open' = open, leased' \in [Areas -> 0..Depth], size' \in [Areas -> Nat], finished' = finished
  PROVE  BudgetInv'
<1>1. \A s \in Scopes : finished[s] = "clean" => ~ledger'[s].exhausted
  BY DEF BudgetInv, Unfinished, CleanStays, LedgerMoves
<1>2. \A s \in Scopes : s \in Opened' => finished'[s] = "no"
  BY DEF BudgetInv, Unfinished, Opened
<1>3. open' \in 0..Depth /\ finished' \in [Scopes -> {"no", "clean", "exhausted"}]
  BY DEF BudgetInv, BudgetTypes
<1> QED BY <1>1, <1>2, <1>3, Kept

\* The invariant is true at the start.
LEMMA BudgetStarts == BudgetsInit => BudgetInv
<1> SUFFICES ASSUME BudgetsInit PROVE BudgetInv
  OBVIOUS
<1>1. NoLedger \in Ledger /\ NoLedger.io = 0 /\ ~NoLedger.exhausted
  BY DEF NoLedger, Ledger
<1> HIDE DEF NoLedger
<1>2. BudgetTypes
  BY <1>1, BudgetsAssumption DEF BudgetsInit, BudgetTypes
<1>3. \A s \in Scopes : limits[s].io \in Nat /\ limits[s].calls \in Nat
  BY <1>2, BudgetsAssumption DEF BudgetTypes
<1> QED BY <1>1, <1>2, <1>3 DEF BudgetsInit, BudgetInv, Overs, Shown, Paid, NestedScopes, Unfinished, CleanStays, Opened

\* Every step keeps the invariant.
LEMMA BudgetInvKept == ASSUME BudgetInv, [BudgetSteps]_budgetVars PROVE BudgetInv'
<1>0. open \in 0..Depth /\ Depth \in Nat /\ leased \in [Areas -> 0..Depth] /\ size \in [Areas -> Nat] /\ IsFiniteSet(Areas)
  BY BudgetsAssumption DEF BudgetInv, BudgetTypes
<1>1. CASE UNCHANGED budgetVars
  <2>1. LedgerMoves /\ MeterMoves
    BY <1>1, LedgerRests, MeterRests DEF budgetVars
  <2>2. over' = over \cup {s \in Scopes : ledger'[s].exhausted}
    BY <1>1 DEF budgetVars, BudgetInv, Overs
  <2> QED BY <1>0, <1>1, <2>1, <2>2, KeptOpen DEF budgetVars
<1>2. CASE BudgetSteps
  <2>0. over' = over \cup {s \in Scopes : ledger'[s].exhausted}
    BY <1>2 DEF BudgetSteps
  <2>1. CASE OpenScope
    <3>1. LedgerMoves /\ MeterMoves
      BY <2>1, LedgerRests, MeterRests DEF OpenScope
    <3>2. open' \in 0..Depth /\ open' = open + 1 /\ finished' = finished /\ finished[open + 1] = "no"
      BY <1>0, <2>1 DEF OpenScope
    <3>3. \A s \in Scopes : s \in Opened' => finished'[s] = "no"
      BY <1>0, <3>2 DEF BudgetInv, Unfinished, Opened, Scopes
    <3>4. \A s \in Scopes : finished'[s] = "clean" => ~ledger'[s].exhausted
      BY <2>1 DEF OpenScope, BudgetInv, CleanStays
    <3> QED BY <1>0, <2>0, <2>1, <3>1, <3>2, <3>3, <3>4, Kept DEF OpenScope, BudgetInv, BudgetTypes
  <2>2. CASE Request
    BY <1>0, <2>0, <2>2, LedgerRests, ChargedMoves, KeptOpen DEF Request
  <2>3. CASE ChargeIO
    BY <1>0, <2>0, <2>3, InputMoves, MeterRests, KeptOpen DEF ChargeIO
  <2>4. CASE FinishScope
    <3> DEFINE own == {a \in Areas : leased[a] >= open}
    <3> DEFINE sampled == Sampled(own)
    <3>1. /\ open > 0 /\ open' = open - 1 /\ UNCHANGED <<meter, limits, leased, size, made>>
          /\ ledger' = [sampled EXCEPT ![open].disk = [a \in Areas |-> 0]]
      BY <2>4 DEF FinishScope
    <3>2. finished' = [finished EXCEPT ![open] =
            IF \E s \in {open} \cup {s \in Opened : own # {}} : sampled[s].exhausted THEN "exhausted" ELSE "clean"]
      BY <2>4 DEF FinishScope
    <3>3. own \in SUBSET Areas /\ sampled \in [Scopes -> Ledger] /\ open \in Scopes
      BY <1>0, <3>1, SampledType DEF Scopes
    <3> HIDE DEF sampled
    <3>4. /\ ledger' \in [Scopes -> Ledger]
          /\ \A s \in Scopes : ledger'[s].io = sampled[s].io /\ ledger'[s].exhausted = sampled[s].exhausted
      BY <3>1, <3>3 DEF Ledger
    <3>5. LedgerMoves /\ MeterMoves
      BY <1>0, <3>1, <3>3, <3>4, SampledMoves, MeterRests DEF sampled
    <3>6. finished'[open] = "clean" => ~ledger'[open].exhausted
      BY <3>2, <3>3, <3>4 DEF BudgetInv, BudgetTypes
    <3>7. \A s \in Scopes : s # open => finished'[s] = finished[s]
      BY <3>2 DEF BudgetInv, BudgetTypes
    <3>8. \A s \in Scopes : finished'[s] = "clean" => ~ledger'[s].exhausted
      BY <3>5, <3>6, <3>7 DEF BudgetInv, Unfinished, CleanStays, LedgerMoves
    <3>9. \A s \in Scopes : s \in Opened' => finished'[s] = "no"
      BY <1>0, <3>1, <3>7 DEF BudgetInv, Unfinished, Opened
    <3>10. finished' \in [Scopes -> {"no", "clean", "exhausted"}]
      <4> DEFINE answer == IF \E s \in {open} \cup {s \in Opened : own # {}} : sampled[s].exhausted THEN "exhausted" ELSE "clean"
      <4>1. answer \in {"no", "clean", "exhausted"}
        OBVIOUS
      <4>2. finished' = [finished EXCEPT ![open] = answer]
        BY <3>2
      <4> HIDE DEF answer
      <4> QED BY <4>1, <4>2 DEF BudgetInv, BudgetTypes
    <3>11. open' \in 0..Depth
      BY <1>0, <3>1
    <3> QED BY <1>0, <2>0, <3>1, <3>5, <3>8, <3>9, <3>10, <3>11, Kept
  <2>5. ASSUME NEW a \in Areas, Lease(a)
        PROVE  BudgetInv'
    <3>1. leased' \in [Areas -> 0..Depth]
      BY <1>0, <2>5 DEF Lease
    <3> QED BY <1>0, <2>0, <2>5, <3>1, LedgerRests, MeterRests, KeptOpen DEF Lease
  <2>6. ASSUME NEW a \in Areas, Change(a)
        PROVE  BudgetInv'
    <3>1. size' \in [Areas -> Nat]
      BY <1>0, <2>6, BudgetsAssumption DEF Change
    <3> QED BY <1>0, <2>0, <2>6, <3>1, LedgerRests, MeterRests, KeptOpen DEF Change
  <2>7. ASSUME NEW a \in Areas, Sample(a)
        PROVE  BudgetInv'
    <3>1. ledger' = Sampled({a}) /\ ledger' \in [Scopes -> Ledger]
      BY <1>0, <2>7, SampledType DEF Sample
    <3>2. LedgerMoves
      BY <1>0, <3>1, SampledMoves
    <3> QED BY <1>0, <2>0, <2>7, <3>2, MeterRests, KeptOpen DEF Sample
  <2>8. ASSUME NEW a \in Areas, CloseLease(a)
        PROVE  BudgetInv'
    <3> DEFINE sampled == Sampled({a})
    <3>1. ledger' = [s \in Scopes |-> [sampled[s] EXCEPT !.disk[a] = 0]] /\ sampled \in [Scopes -> Ledger]
      BY <1>0, <2>8, SampledType DEF CloseLease
    <3> HIDE DEF sampled
    <3>2. /\ ledger' \in [Scopes -> Ledger]
          /\ \A s \in Scopes : ledger'[s].io = sampled[s].io /\ ledger'[s].exhausted = sampled[s].exhausted
      BY <3>1 DEF Ledger
    <3>3. LedgerMoves
      BY <1>0, <3>2, SampledMoves DEF sampled
    <3>4. leased' \in [Areas -> 0..Depth] /\ size' \in [Areas -> Nat]
      BY <1>0, <2>8 DEF CloseLease
    <3> QED BY <2>0, <2>8, <3>3, <3>4, MeterRests, KeptOpen DEF CloseLease
  <2> QED BY <1>2, <2>1, <2>2, <2>3, <2>4, <2>5, <2>6, <2>7, <2>8 DEF BudgetSteps
<1> QED BY <1>1, <1>2

\* The invariant is true of every state, which includes the types.
THEOREM BudgetsInvariant == BudgetsSpec => []BudgetInv
<1>1. BudgetsInit => BudgetInv
  BY BudgetStarts
<1>2. BudgetInv /\ [BudgetSteps]_budgetVars => BudgetInv'
  BY BudgetInvKept
<1> QED BY <1>1, <1>2, PTL DEF BudgetsSpec

\* The nested budgets hold (BudgetsHold), whatever is charged, sampled and closed in
\* whatever order: the property the run of Prover checks with one area and a depth
\* of two.
THEOREM BudgetsAreKept == BudgetsSpec => []BudgetsHold
<1>1. BudgetInv => BudgetsHold
  <2> SUFFICES ASSUME BudgetInv PROVE BudgetsHold
    OBVIOUS
  <2>1. \A s \in Scopes : finished[s] = "clean" => s \notin over /\ ledger[s].io <= limits[s].io
    BY BudgetsAssumption DEF BudgetInv, CleanStays, Overs, Shown, BudgetTypes, Ledger
  <2> QED BY <2>1 DEF BudgetInv, Paid, NestedScopes, BudgetsHold
<1> QED BY <1>1, BudgetsInvariant, PTL

-----------------------------------------------------------------------------
(* The prover and its parts.                                               *)

\* The searches, the run, the budgets and the native run behave in the prover as
\* they do by themselves: a step of the prover is a step of each or leaves it alone.
THEOREM TheProverRunsItsParts == Spec => SearchSpec /\ RunSpec /\ BudgetsSpec /\ NativeSpec
<1>1. Init => SearchInit /\ RunInit /\ BudgetsInit /\ NativeInit
  BY DEF Init, SearchInit
<1>2. [Next]_vars => [SearchNext]_proverVars
  BY DEF Next, vars, SearchNext, SearchSteps, SearchTroubles, Leaves, Controls, Charges, Engages, CaseTrouble
<1>3. [Next]_vars => [RunNext]_runVars
  BY DEF Next, vars, RunNext, SearchSteps, SearchTroubles, Publication, Leaves, Controls, Charges, Engages, Around
<1>4. [Next]_vars => [BudgetSteps]_budgetVars
  BY DEF Next, vars, SearchSteps, SearchTroubles, Leaves, Controls, Charges, Engages
<1>5. [Next]_vars => [NativeSteps]_nativeVars
  BY DEF Next, vars, SearchSteps, SearchTroubles, Leaves, Controls, Charges, Engages
<1> QED BY <1>1, <1>2, <1>3, <1>4, <1>5, PTL DEF Spec, SearchSpec, RunSpec, BudgetsSpec, NativeSpec

\* What was proved of the parts is true of the prover: edits fit the source they are
\* made for, a case search exceeds its allowance by no more than a round, answers are
\* honest, a stopped run is gone, an accepted goal was validated, the budgets hold, the
\* handles that clients keep are good, and a native run claims what it has checked.
THEOREM TheProverKeepsItsPromises ==
  Spec => [](/\ EditsFitTheSource /\ OverspendBounded /\ SessionHoldsTheState /\ AnswersAreHonest
             /\ StoppedMeansGone /\ AcceptedWasValidated /\ BudgetsHold /\ HandlesStayGood /\ NativeRunIsHonest)
<1>1. CaseInv => EditsFitTheSource /\ OverspendBounded
  BY DEF CaseInv, Visiting, BehindKept, SolvedIsWhole, EditsFitTheSource, Spending, Bound, Most, OverspendBounded
<1> QED BY <1>1, TheProverRunsItsParts, SearchInvariant, TheSessionHoldsTheState, AnswersAreAlwaysHonest,
     StoppedIsGone, AcceptedIsValidated, BudgetsAreKept, HandlesAreGood, RunsAreHonest, PTL

================================================================================
