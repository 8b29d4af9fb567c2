---------------------------- MODULE JointSearchProofs ----------------------------
(***************************************************************************)
(* Proofs about JointSearch and about the CaseSearch it calls.             *)
(*                                                                         *)
(* The case search: edits are placed in the source they were found for and *)
(* never touch what lies behind the region, and a search exceeds its       *)
(* allowance by a bounded amount; for every request, and whatever Agda     *)
(* answers in whichever lane.  A goal goes through the lanes in one        *)
(* direction (LanesMove): a step of a lane goes on to a later one, or ends *)
(* the visit with one edit of one goal, or ends the search.  So the lanes  *)
(* that take without asking are each passed once per goal, and the goal's  *)
(* visit began with an action left: Spending says how much may be gone at  *)
(* which of them.                                                          *)
(*                                                                         *)
(* The joint search: the session holds the state a specialist asks about,  *)
(* and answers are honest.  Whatever a specialist does, the frontier only  *)
(* grows (Grows): what was proposed is expanded, waits, or its loss was    *)
(* seen.  An expansion that was cut short is made good because its         *)
(* allowance was narrow (Narrow): the same source with more to try was     *)
(* proposed, or is about to be (CutsRecover), and nothing has more to try  *)
(* than the widest (CutsEnd).                                              *)
(***************************************************************************)
EXTENDS JointSearch, FiniteSetTheorems, WellFoundedInduction, TLAPS

\* Every set of naturals with a member has a least one.
LEMMA LeastNatural ==
  ASSUME NEW S, S \subseteq Nat, S # {}
  PROVE  \E n \in S : \A m \in S : n <= m
<1>1. PICK R : IsWellFoundedOn(R, Nat) /\ \A m, n \in Nat : m < n => <<m, n>> \in R
  <2>1. IsWellFoundedOn(OpToRel(<, Nat), Nat)
    BY NatLessThanWellFounded
  <2>2. \A m, n \in Nat : m < n => <<m, n>> \in OpToRel(<, Nat)
    BY DEF OpToRel
  <2> QED BY <2>1, <2>2, Zenon
<1>2. PICK n \in S : \A m \in S : ~(<<m, n>> \in R)
  <2>1. IsWellFoundedOn(R, Nat)
    BY <1>1
  <2> QED BY <2>1, WFMin, Zenon
<1>3. \A m \in S : ~(m < n)
  BY <1>1, <1>2
<1> QED BY <1>3

-----------------------------------------------------------------------------
(* Lanes.                                                                  *)

\* CaseLanes is these, the lanes of the relations, and the last ones.
FirstLanes == <<
  "ellipsis", "rigid relation", "program parameter", "program calls", "program wrappers",
  "program structure", "program constants", "exact local", "arrow", "copattern",
  "result split", "focused leaf", "empty refinement", "zero constructors", "recursive specs">>

LastLanes == <<
  "recursive clause", "transformations", "direct premises", "construction", "case splits", "selection">>

\* The three parts, as sequences of what they hold.
LEMMA Words ==
  /\ FirstLanes \in Seq({FirstLanes[i] : i \in 1..15}) /\ Len(FirstLanes) = 15
  /\ RelationLanes \in Seq({RelationLanes[i] : i \in 1..18}) /\ Len(RelationLanes) = 18
  /\ LastLanes \in Seq({LastLanes[i] : i \in 1..6}) /\ Len(LastLanes) = 6
<1>1. DOMAIN FirstLanes = 1..15 /\ DOMAIN RelationLanes = 1..18 /\ DOMAIN LastLanes = 1..6
  BY DEF FirstLanes, LastLanes, RelationLanes
<1>2. /\ FirstLanes = [i \in 1..15 |-> FirstLanes[i]]
      /\ RelationLanes = [i \in 1..18 |-> RelationLanes[i]]
      /\ LastLanes = [i \in 1..6 |-> LastLanes[i]]
  BY DEF FirstLanes, LastLanes, RelationLanes
<1> QED BY <1>2

\* Where the lanes are that take without asking, or more than is left.  The last
\* lane is always entered if no other is.
LEMMA LanesInOrder ==
  /\ Len(CaseLanes) = 39 /\ CaseLanes[39] = "selection"
  /\ \A i \in 1..39 :
       /\ CaseLanes[i] = "ellipsis" => i = 1
       /\ CaseLanes[i] = "exact local" => i = 8
       /\ CaseLanes[i] = "arrow" => i = 9
       /\ CaseLanes[i] \in {"calls", "speculative context", "construction", "selection"} => i >= 10
<1>1. /\ FirstLanes[1] = "ellipsis" /\ FirstLanes[2] = "rigid relation" /\ FirstLanes[3] = "program parameter"
      /\ FirstLanes[4] = "program calls" /\ FirstLanes[5] = "program wrappers" /\ FirstLanes[6] = "program structure"
      /\ FirstLanes[7] = "program constants" /\ FirstLanes[8] = "exact local" /\ FirstLanes[9] = "arrow"
      /\ FirstLanes[10] = "copattern" /\ FirstLanes[11] = "result split" /\ FirstLanes[12] = "focused leaf"
      /\ FirstLanes[13] = "empty refinement" /\ FirstLanes[14] = "zero constructors" /\ FirstLanes[15] = "recursive specs"
  BY DEF FirstLanes
<1> DEFINE Special == {"ellipsis", "exact local", "arrow"}
<1>2. \A i \in 1..15 :
        /\ FirstLanes[i] = "ellipsis" => i = 1
        /\ FirstLanes[i] = "exact local" => i = 8
        /\ FirstLanes[i] = "arrow" => i = 9
  <2> TAKE i \in 1..15
  <2>1. \/ i = 1 \/ i = 2 \/ i = 3 \/ i = 4 \/ i = 5 \/ i = 6 \/ i = 7 \/ i = 8
        \/ i = 9 \/ i = 10 \/ i = 11 \/ i = 12 \/ i = 13 \/ i = 14 \/ i = 15
    OBVIOUS
  <2> QED BY <1>1, <2>1
<1>17. \A i \in 1..9 : FirstLanes[i] \notin {"calls", "speculative context", "construction", "selection"}
  <2> TAKE i \in 1..9
  <2>1. i = 1 \/ i = 2 \/ i = 3 \/ i = 4 \/ i = 5 \/ i = 6 \/ i = 7 \/ i = 8 \/ i = 9
    OBVIOUS
  <2> QED BY <1>1, <2>1
<1>3. \A i \in 1..18 : RelationLanes[i] \notin Special
  <2>1. /\ RelationLanes[1] \notin Special /\ RelationLanes[2] \notin Special /\ RelationLanes[3] \notin Special
        /\ RelationLanes[4] \notin Special /\ RelationLanes[5] \notin Special /\ RelationLanes[6] \notin Special
        /\ RelationLanes[7] \notin Special /\ RelationLanes[8] \notin Special /\ RelationLanes[9] \notin Special
        /\ RelationLanes[10] \notin Special /\ RelationLanes[11] \notin Special /\ RelationLanes[12] \notin Special
        /\ RelationLanes[13] \notin Special /\ RelationLanes[14] \notin Special /\ RelationLanes[15] \notin Special
        /\ RelationLanes[16] \notin Special /\ RelationLanes[17] \notin Special /\ RelationLanes[18] \notin Special
    BY DEF RelationLanes
  <2> HIDE DEF Special
  <2> QED BY <2>1
<1>4. \A i \in 1..6 : LastLanes[i] \notin Special
  <2>1. /\ LastLanes[1] \notin Special /\ LastLanes[2] \notin Special /\ LastLanes[3] \notin Special
        /\ LastLanes[4] \notin Special /\ LastLanes[5] \notin Special /\ LastLanes[6] \notin Special
    BY DEF LastLanes
  <2> HIDE DEF Special
  <2> QED BY <2>1
<1>5. LastLanes[6] = "selection"
  BY DEF LastLanes
<1>6. CaseLanes = FirstLanes \o RelationLanes \o LastLanes
  BY DEF FirstLanes, CaseLanes, LastLanes
<1> DEFINE X == {FirstLanes[i] : i \in 1..15} \cup {RelationLanes[i] : i \in 1..18} \cup {LastLanes[i] : i \in 1..6}
<1>7. FirstLanes \in Seq(X) /\ RelationLanes \in Seq(X) /\ LastLanes \in Seq(X)
  BY Words
<1> HIDE DEF X
<1> HIDE DEF Special
<1>12. Len(FirstLanes) = 15 /\ Len(RelationLanes) = 18 /\ Len(LastLanes) = 6
  BY Words
<1>8. /\ Len(CaseLanes) = 39
      /\ \A i \in 1..15 : CaseLanes[i] = FirstLanes[i]
      /\ \A i \in 1..18 : CaseLanes[15 + i] = RelationLanes[i]
      /\ \A i \in 1..6 : CaseLanes[33 + i] = LastLanes[i]
  <2>1. /\ Len(CaseLanes) = Len(FirstLanes) + Len(RelationLanes) + Len(LastLanes)
        /\ \A i \in 1..Len(FirstLanes) : CaseLanes[i] = FirstLanes[i]
        /\ \A i \in 1..Len(RelationLanes) : CaseLanes[Len(FirstLanes) + i] = RelationLanes[i]
        /\ \A i \in 1..Len(LastLanes) : CaseLanes[Len(FirstLanes) + Len(RelationLanes) + i] = LastLanes[i]
    <3> DEFINE a == FirstLanes  b == RelationLanes  c == LastLanes
    <3>1. a \in Seq(X) /\ b \in Seq(X) /\ c \in Seq(X) /\ CaseLanes = a \o b \o c
      BY <1>6, <1>7
    <3> HIDE DEF a, b, c
    <3>2. /\ Len(CaseLanes) = Len(a) + Len(b) + Len(c)
          /\ \A i \in 1..Len(a) : CaseLanes[i] = a[i]
          /\ \A i \in 1..Len(b) : CaseLanes[Len(a) + i] = b[i]
          /\ \A i \in 1..Len(c) : CaseLanes[Len(a) + Len(b) + i] = c[i]
      BY <3>1
    <3> QED BY <3>2 DEF a, b, c
  <2> QED BY <1>12, <2>1
<1>9. \A i \in 1..39 : i \in 1..15 \/ (i - 15 \in 1..18 /\ i = 15 + (i - 15)) \/ (i - 33 \in 1..6 /\ i = 33 + (i - 33))
  OBVIOUS
<1>10. CaseLanes[39] = "selection"
  BY <1>5, <1>8
<1>11. \A i \in 1..39 : i \in 1..15 \/ CaseLanes[i] \notin Special
  <2> TAKE i \in 1..39
  <2>1. CASE i - 15 \in 1..18 /\ i = 15 + (i - 15)
    BY <1>3, <1>8, <2>1
  <2>2. CASE i - 33 \in 1..6 /\ i = 33 + (i - 33)
    BY <1>4, <1>8, <2>2
  <2> QED BY <1>9, <2>1, <2>2
<1>13. \A i \in 1..15 :
        /\ CaseLanes[i] = "ellipsis" => i = 1
        /\ CaseLanes[i] = "exact local" => i = 8
        /\ CaseLanes[i] = "arrow" => i = 9
  BY <1>2, <1>8
<1>16. \A i \in 1..39 : CaseLanes[i] \in {"calls", "speculative context", "construction", "selection"} => i >= 10
  <2> TAKE i \in 1..39
  <2>1. i >= 10 \/ (i \in 1..9 /\ i \in 1..15)
    OBVIOUS
  <2>2. i \in 1..9 /\ i \in 1..15 => CaseLanes[i] = FirstLanes[i] /\ FirstLanes[i] \notin {"calls", "speculative context", "construction", "selection"}
    BY <1>17, <1>8
  <2> QED BY <2>1, <2>2
<1>14. \A i \in 1..39 : i \in 1..15 \/ CaseLanes[i] \notin {"ellipsis", "exact local", "arrow"}
  BY <1>11 DEF Special
<1>15. Len(CaseLanes) = 39
  BY <1>8
<1> QED BY <1>10, <1>13, <1>14, <1>15, <1>16

\* Selection needs nothing before it.
LEMMA SelectionIsReady == ASSUME NEW known PROVE Ready("selection", known)
<1>1. "selection" \notin Range(RelationLanes)
  <2> DEFINE Other(n) == RelationLanes[n] # "selection"
  <2>1. /\ Other(1) /\ Other(2) /\ Other(3) /\ Other(4) /\ Other(5) /\ Other(6) /\ Other(7) /\ Other(8) /\ Other(9)
        /\ Other(10) /\ Other(11) /\ Other(12) /\ Other(13) /\ Other(14) /\ Other(15) /\ Other(16) /\ Other(17) /\ Other(18)
    BY DEF RelationLanes
  <2>2. \A i \in 1..18 : Other(i)
    <3> HIDE DEF Other
    <3> QED BY <2>1
  <2>3. DOMAIN RelationLanes = 1..18
    BY DEF RelationLanes
  <2> QED BY <2>2, <2>3 DEF Range
<1> QED BY <1>1 DEF Ready, Program

\* There is a next lane after each but the last, and it lies behind it.
LEMMA NextLaneIs ==
  ASSUME NEW i \in 0..38, NEW known
  PROVE  NextLane(i, known) \in (i + 1)..39
<1> DEFINE after == {j \in (i + 1)..Len(CaseLanes) : CaseLanes[j] \in asked.lanes \cup Reached /\ Ready(CaseLanes[j], known)}
<1>0. Len(CaseLanes) = 39 /\ CaseLanes[39] = "selection"
  BY LanesInOrder
<1>1. 39 \in after
  <2>1. 39 \in (i + 1)..39 /\ "selection" \in asked.lanes \cup Reached
    BY DEF Reached
  <2>2. Ready("selection", known)
    BY SelectionIsReady
  <2> QED BY <1>0, <2>1, <2>2
<1>2. after \subseteq (i + 1)..39 /\ after \subseteq Nat
  <2>1. after \subseteq (i + 1)..39
    BY <1>0
  <2>2. (i + 1)..39 \subseteq Nat
    OBVIOUS
  <2> QED BY <2>1, <2>2
<1>3. NextLane(i, known) = CHOOSE j \in after : \A k \in after : j <= k
  BY DEF NextLane
<1> HIDE DEF after
<1>4. \E j \in after : \A k \in after : j <= k
  BY <1>1, <1>2, LeastNatural
<1> QED BY <1>2, <1>3, <1>4

-----------------------------------------------------------------------------
(* Edits.                                                                  *)

\* What FlattenSeq chooses: the sequence of the partial concatenations.
Flattens(n, s, f) == f = [i \in 1..n |-> IF i = 1 THEN s[i] ELSE f[i - 1] \o s[i]]

\* There is such a sequence, by induction on how far it goes.
LEMMA FlattenExists ==
  ASSUME NEW X, NEW N \in Nat \ {0}, NEW s \in [1..N -> Seq(X)]
  PROVE  \E f \in [1..N -> Seq(X)] : Flattens(N, s, f)
<1> DEFINE Upto(n) == \E f \in [1..N -> Seq(X)] :
                        \A i \in 1..N : i <= n => f[i] = IF i = 1 THEN s[i] ELSE f[i - 1] \o s[i]
<1>1. Upto(0)
  <2> DEFINE f == [i \in 1..N |-> s[i]]
  <2>1. f \in [1..N -> Seq(X)]
    OBVIOUS
  <2>2. \A i \in 1..N : ~(i <= 0)
    OBVIOUS
  <2> QED BY <2>1, <2>2
<1>2. ASSUME NEW n \in Nat, Upto(n) PROVE Upto(n + 1)
  <2>1. PICK f \in [1..N -> Seq(X)] : \A i \in 1..N : i <= n => f[i] = IF i = 1 THEN s[i] ELSE f[i - 1] \o s[i]
    BY <1>2
  <2> DEFINE Next1(i) == IF i = 1 THEN s[i] ELSE f[i - 1] \o s[i]
  <2> DEFINE h == [i \in 1..N |-> IF i = n + 1 THEN Next1(i) ELSE f[i]]
  <2>2. \A i \in 1..N : Next1(i) \in Seq(X)
    <3> TAKE i \in 1..N
    <3>1. s[i] \in Seq(X)
      OBVIOUS
    <3>2. CASE i = 1
      BY <3>1, <3>2
    <3>3. CASE i # 1
      <4>1. i - 1 \in 1..N
        BY <3>3
      <4>2. f[i - 1] \in Seq(X)
        BY <4>1
      <4> QED BY <3>1, <3>3, <4>2
    <3> QED BY <3>2, <3>3
  <2> HIDE DEF Next1
  <2>3. h \in [1..N -> Seq(X)]
    BY <2>2
  <2>4. ASSUME NEW i \in 1..N, i <= n + 1
        PROVE  h[i] = IF i = 1 THEN s[i] ELSE h[i - 1] \o s[i]
    <3>1. h[i] = Next1(i)
      <4>1. CASE i = n + 1
        BY <4>1
      <4>2. CASE i # n + 1
        <5>1. i <= n /\ h[i] = f[i]
          BY <2>4, <4>2
        <5> QED BY <2>1, <5>1 DEF Next1
      <4> QED BY <4>1, <4>2
    <3>2. i # 1 => h[i - 1] = f[i - 1]
      BY <2>4
    <3> QED BY <3>1, <3>2 DEF Next1
  <2> HIDE DEF h
  <2> QED BY <2>3, <2>4
<1> HIDE DEF Upto
<1>3. \A n \in Nat : Upto(n)
  <2> SUFFICES ASSUME {n \in Nat : ~Upto(n)} # {} PROVE FALSE
    OBVIOUS
  <2>1. PICK n \in {k \in Nat : ~Upto(k)} : \A m \in {k \in Nat : ~Upto(k)} : n <= m
    BY LeastNatural
  <2>2. n # 0
    BY <1>1, <2>1
  <2>3. n - 1 \in Nat /\ Upto(n - 1)
    BY <2>1, <2>2
  <2> QED BY <1>2, <2>1, <2>3
<1>4. Upto(N)
  BY <1>3
<1>5. PICK f \in [1..N -> Seq(X)] : \A i \in 1..N : i <= N => f[i] = IF i = 1 THEN s[i] ELSE f[i - 1] \o s[i]
  BY <1>4 DEF Upto
<1>7. \A i \in 1..N : f[i] = IF i = 1 THEN s[i] ELSE f[i - 1] \o s[i]
  BY <1>5
<1>6. f = [i \in 1..N |-> IF i = 1 THEN s[i] ELSE f[i - 1] \o s[i]]
  BY <1>7
<1> QED BY <1>6 DEF Flattens

\* So FlattenSeq is its last member, for there is only one.
LEMMA FlattenIs ==
  ASSUME NEW X, NEW N \in Nat \ {0}, NEW s \in [1..N -> Seq(X)]
  PROVE  \E f \in [1..N -> Seq(X)] : Flattens(N, s, f) /\ FlattenSeq(s) = f[N]
<1> DEFINE f == CHOOSE g : Flattens(N, s, g)
<1>1. PICK g \in [1..N -> Seq(X)] : Flattens(N, s, g)
  BY FlattenExists
<1>2. Flattens(N, s, f)
  BY <1>1
<1>3. FlattenSeq(s) = f[N]
  <2>1. Len(s) = N /\ N # 0
    OBVIOUS
  <2> QED BY <2>1 DEF FlattenSeq, Flattens
<1> HIDE DEF f
<1>4. \A n \in Nat : n \in 1..N => f[n] = g[n]
  <2> SUFFICES ASSUME {n \in 1..N : f[n] # g[n]} # {} PROVE FALSE
    OBVIOUS
  <2>0. {n \in 1..N : f[n] # g[n]} \subseteq Nat
    OBVIOUS
  <2>1. PICK n \in {k \in 1..N : f[k] # g[k]} : \A m \in {k \in 1..N : f[k] # g[k]} : n <= m
    BY <2>0, LeastNatural
  <2>2. n # 1 => f[n - 1] = g[n - 1]
    BY <2>1
  <2>3. /\ f[n] = IF n = 1 THEN s[n] ELSE f[n - 1] \o s[n]
        /\ g[n] = IF n = 1 THEN s[n] ELSE g[n - 1] \o s[n]
    BY <1>1, <1>2 DEF Flattens
  <2> QED BY <2>1, <2>2, <2>3
<1>5. FlattenSeq(s) = g[N]
  BY <1>3, <1>4
<1> QED BY <1>1, <1>5

\* Sequences with the same members in the same order are the same.
LEMMA SameSequence ==
  ASSUME NEW X, NEW b \in Seq(X), NEW c \in Seq(X), Len(b) = Len(c), \A i \in 1..Len(b) : b[i] = c[i]
  PROVE  b = c
  OBVIOUS

\* After position k nothing is edited; the text after it is found after `end`.
Untouched(t, N, s, k) == \A i \in (k + 1)..N : s[i] = <<t[i]>>
Carried(t, k, u, end) == end \in 0..Len(u) /\ SubSeq(u, end + 1, Len(u)) = SubSeq(t, k + 1, Len(t))

\* The tail of a sequence has what the sequence has there.
LEMMA TailIs ==
  ASSUME NEW X, NEW w \in Seq(X), NEW a \in Nat, NEW d \in Nat, Len(w) = a + d
  PROVE  /\ SubSeq(w, a + 1, Len(w)) \in Seq(X) /\ Len(SubSeq(w, a + 1, Len(w))) = d
         /\ \A i \in 1..d : SubSeq(w, a + 1, Len(w))[i] = w[a + i]
<1> DEFINE b == SubSeq(w, a + 1, Len(w))
<1>1. b \in Seq(X) /\ Len(b) = d
  OBVIOUS
<1>2. \A i \in 1..d : b[i] = w[a + i]
  OBVIOUS
<1> QED BY <1>1, <1>2

\* What lies behind the last edit is moved, and nothing else.
LEMMA FlattenKeepsTail ==
  ASSUME NEW X, NEW t \in Seq(X), NEW N \in Nat, N = Len(t), NEW s \in [1..N -> Seq(X)],
         NEW k \in 1..N, Untouched(t, N, s, k)
  PROVE  FlattenSeq(s) \in Seq(X) /\ Carried(t, k, FlattenSeq(s), k + (Len(FlattenSeq(s)) - Len(t)))
<1>1. PICK f \in [1..N -> Seq(X)] : Flattens(N, s, f) /\ FlattenSeq(s) = f[N]
  <2>1. N \in Nat \ {0}
    OBVIOUS
  <2> QED BY <2>1, FlattenIs
<1> DEFINE Good(j) == /\ Len(f[j]) = Len(f[k]) + (j - k)
                      /\ \A i \in 1..(j - k) : f[j][Len(f[k]) + i] = t[k + i]
<1>2. Good(k)
  OBVIOUS
<1>3. ASSUME NEW j \in k..N, j # N, Good(j) PROVE Good(j + 1)
  <2>0. j \in 1..N /\ j + 1 \in (k + 1)..N /\ j + 1 \in 1..N /\ j + 1 # 1 /\ (j + 1) - 1 = j
    BY <1>3
  <2>1. f[j + 1] = f[j] \o <<t[j + 1]>>
    <3>1. f[j + 1] = f[j] \o s[j + 1]
      BY <1>1, <2>0 DEF Flattens
    <3> QED BY <2>0, <3>1 DEF Untouched
  <2>2. f[j] \in Seq(X) /\ f[k] \in Seq(X) /\ t[j + 1] \in X
    BY <2>0
  <2>3. Len(f[j + 1]) = Len(f[j]) + 1
    BY <2>1, <2>2
  <2>4. ASSUME NEW i \in 1..((j + 1) - k) PROVE f[j + 1][Len(f[k]) + i] = t[k + i]
    <3>1. Len(f[k]) \in Nat /\ Len(f[j]) = Len(f[k]) + (j - k)
      BY <1>3, <2>2
    <3>2. CASE i = (j + 1) - k
      <4>1. Len(f[k]) + i = Len(f[j]) + 1 /\ k + i = j + 1
        BY <3>1, <3>2
      <4>2. (f[j] \o <<t[j + 1]>>)[Len(f[j]) + 1] = t[j + 1]
        BY <2>2
      <4> QED BY <2>1, <4>1, <4>2
    <3>3. CASE i # (j + 1) - k
      <4>1. i \in 1..(j - k) /\ Len(f[k]) + i \in 1..Len(f[j])
        BY <3>1, <3>3
      <4>2. f[j + 1][Len(f[k]) + i] = f[j][Len(f[k]) + i]
        BY <2>1, <2>2, <4>1
      <4> QED BY <1>3, <4>1, <4>2
    <3> QED BY <3>2, <3>3
  <2> QED BY <1>3, <2>2, <2>3, <2>4
<1> HIDE DEF Good
<1>4. \A j \in k..N : Good(j)
  <2> SUFFICES ASSUME {j \in k..N : ~Good(j)} # {} PROVE FALSE
    OBVIOUS
  <2>0. {j \in k..N : ~Good(j)} \subseteq Nat
    OBVIOUS
  <2>1. PICK n \in {j \in k..N : ~Good(j)} : \A m \in {j \in k..N : ~Good(j)} : n <= m
    BY <2>0, LeastNatural
  <2>2. n # k
    BY <1>2, <2>1
  <2>3. n - 1 \in k..N /\ n - 1 # N /\ Good(n - 1)
    BY <2>1, <2>2
  <2>4. Good((n - 1) + 1)
    BY <1>3, <2>3
  <2> QED BY <2>1, <2>4
<1> DEFINE whole == f[N]
<1>5. /\ whole \in Seq(X) /\ Len(f[k]) \in Nat /\ Len(whole) = Len(f[k]) + (N - k)
      /\ \A i \in 1..(N - k) : whole[Len(f[k]) + i] = t[k + i]
  <2>1. Good(N) /\ N \in 1..N
    BY <1>4
  <2> QED BY <2>1 DEF Good
<1>6. FlattenSeq(s) = whole
  BY <1>1
<1> HIDE DEF whole
<1>7. k + (Len(whole) - N) = Len(f[k])
  BY <1>5
<1> DEFINE b == SubSeq(whole, Len(f[k]) + 1, Len(whole))
<1> DEFINE c == SubSeq(t, k + 1, N)
<1>8. b \in Seq(X) /\ Len(b) = N - k /\ \A i \in 1..(N - k) : b[i] = whole[Len(f[k]) + i]
  <2>1. N - k \in Nat
    OBVIOUS
  <2> QED BY <1>5, <2>1, TailIs
<1>9. c \in Seq(X) /\ Len(c) = N - k /\ \A i \in 1..(N - k) : c[i] = t[k + i]
  OBVIOUS
<1> HIDE DEF b, c
<1>10. b = c
  <2>1. \A i \in 1..(N - k) : b[i] = c[i]
    <3> TAKE i \in 1..(N - k)
    <3>1. b[i] = whole[Len(f[k]) + i]
      BY <1>8
    <3>2. whole[Len(f[k]) + i] = t[k + i]
      BY <1>5
    <3>3. c[i] = t[k + i]
      BY <1>9
    <3> QED BY <3>1, <3>2, <3>3
  <2>2. Len(b) = Len(c) /\ \A i \in 1..Len(b) : b[i] = c[i]
    BY <1>8, <1>9, <2>1
  <2>3. b \in Seq(X) /\ c \in Seq(X)
    BY <1>8, <1>9
  <2> QED BY <2>2, <2>3, SameSequence
<1>11. SubSeq(whole, Len(f[k]) + 1, Len(whole)) = SubSeq(t, k + 1, N)
  BY <1>10 DEF b, c
<1>12. whole \in Seq(X) /\ k + (Len(whole) - N) \in 0..Len(whole)
  BY <1>5, <1>7
<1>13. SubSeq(whole, k + (Len(whole) - N) + 1, Len(whole)) = SubSeq(t, k + 1, N)
  BY <1>7, <1>11
<1> QED BY <1>6, <1>12, <1>13 DEF Carried

\* What follows the first member of a sequence.
LEMMA Behind1 ==
  ASSUME NEW X, NEW a \in X, NEW b \in Seq(X)
  PROVE  /\ <<a>> \o b \in Seq(X) /\ Len(<<a>> \o b) = Len(b) + 1
         /\ SubSeq(<<a>> \o b, 2, Len(<<a>> \o b)) = b
<1> DEFINE t == <<a>> \o b
<1>1. t \in Seq(X) /\ Len(t) = Len(b) + 1 /\ \A i \in 1..Len(b) : t[i + 1] = b[i]
  OBVIOUS
<1> HIDE DEF t
<1>2. SubSeq(t, 2, Len(t)) = b
  BY <1>1
<1> QED BY <1>1, <1>2 DEF t

-----------------------------------------------------------------------------
(* The invariant.                                                          *)

\* Goals and edits are positions of holes in the region; a level that has edits
\* has an edited goal.
CaseTypes ==
  /\ IsRequest(asked)
  /\ text \in Seq(Pieces) /\ last \in 0..Len(text)
  /\ lane \in 0..39 /\ used \in Nat
  /\ todo \subseteq Holes(text, last)
  /\ DOMAIN edits \subseteq Holes(text, last)
  /\ \A i \in DOMAIN edits : edits[i] \in Seq(Pieces)
  /\ edits # <<>> => DOMAIN edits # {}
  /\ cases \subseteq [binds : BOOLEAN, leaves : Nat]

\* While a level is worked on, its source is loaded, and each of its goals is
\* either still to be visited or edited; one is being visited while a lane is entered.
Visiting ==
  verdict = "searching" /\ (lane # 0 \/ edits # <<>> \/ todo # {}) =>
    /\ loaded = text /\ todo \cap DOMAIN edits = {} /\ todo \cup DOMAIN edits = Holes(text, last)
    /\ lane # 0 => todo # {}

\* The two other parts of EditsFitTheSource.
BehindKept == SubSeq(text, last + 1, Len(text)) = asked.behind

SolvedIsWhole == verdict = "solved" => Holes(text, last) = {}

\* What wrapped recursive calls may take beyond the allowance, and what a search may use.
Most == Lesser(WrapSlice, asked.budget)
Bound == asked.budget + Greater(Greater(1, MaxQueries), Most)

\* A visit starts with an action left.  Up to an exact local or an introduction no
\* more than the allowance is used; these take one more, and the visit has ended or
\* is past them.
Spending ==
  /\ used <= Bound
  /\ verdict = "searching" /\ lane # 0 =>
       /\ lane = 1 => used < asked.budget
       /\ lane <= 9 => used <= asked.budget

CaseInv == CaseTypes /\ Visiting /\ BehindKept /\ SolvedIsWhole /\ Spending

-----------------------------------------------------------------------------
(* A step of a lane.                                                       *)

\* A step of a lane goes on to a later lane with the same goals and edits; or it
\* lands, with an edit or at the end of the search.
Onward == lane' \in (lane + 1)..39 /\ UNCHANGED <<todo, edits, verdict>> /\ cases' \subseteq [binds : BOOLEAN, leaves : Nat]
Lands == (\E items \in Seq(Pieces) : Puts(items)) \/ (\E how \in {"no-proof", "resource-exhausted"} : Ends(how))
Moves == UNCHANGED still /\ (Onward \/ Lands)

\* What it uses: no more than the allowance; or up to the bound, and then no lane
\* that takes unasked comes after it.
Within == used' \in Nat /\ used' <= Greater(used, asked.budget)
Spends ==
  /\ used' \in Nat
  /\ \/ used' <= Greater(used, asked.budget)
     \/ lane >= 10 /\ used' <= Bound
     \/ used' <= Bound /\ (lane' \notin 1..9 \/ verdict' # "searching")

\* The numbers are numbers, and in this order.
LEMMA Bounds ==
  /\ QuerySlice \in Nat /\ MaxQueries \in Nat /\ FocusSlice \in Nat /\ CaseSlice \in Nat /\ MaxClauses \in Nat
  /\ WrapSlice \in Nat /\ MaxSpecs * QuerySlice \in Nat /\ MaxSpecs * FocusSlice \in Nat
  /\ CaseTypes => /\ asked.budget \in Nat /\ used \in Nat /\ Most \in Nat /\ Bound \in Nat
                  /\ asked.budget + 1 <= Bound /\ asked.budget + MaxQueries <= Bound
                  /\ asked.budget + Most <= Bound
<1>1. /\ QuerySlice \in Nat /\ MaxQueries \in Nat /\ FocusSlice \in Nat /\ CaseSlice \in Nat /\ MaxClauses \in Nat
      /\ WrapSlice \in Nat /\ MaxSpecs \in Nat
  BY CaseAssumption
<1>2. MaxSpecs * QuerySlice \in Nat /\ MaxSpecs * FocusSlice \in Nat
  BY <1>1
<1>3. CaseTypes => asked.budget \in Nat /\ used \in Nat
  BY DEF CaseTypes, IsRequest
<1>4. ASSUME NEW b \in Nat, NEW m \in Nat
      PROVE  /\ b + Greater(Greater(1, MaxQueries), m) \in Nat
             /\ b + 1 <= b + Greater(Greater(1, MaxQueries), m)
             /\ b + MaxQueries <= b + Greater(Greater(1, MaxQueries), m)
             /\ b + m <= b + Greater(Greater(1, MaxQueries), m)
  BY <1>1 DEF Greater
<1>5. CaseTypes => Most \in Nat
  BY <1>1, <1>3 DEF Most, Lesser
<1> QED BY <1>1, <1>2, <1>3, <1>4, <1>5 DEF Bound

\* A step of a lane is made at that lane; only selection has none after it.
LEMMA AtLane ==
  ASSUME CaseTypes, NEW l, l # "selection", At(l)
  PROVE  lane \in 1..38 /\ verdict = "searching" /\ CaseLanes[lane] = l
<1>1. lane \in 0..39
  BY DEF CaseTypes
<1>2. CaseLanes[39] = "selection"
  BY LanesInOrder
<1>3. verdict = "searching" /\ lane # 0 /\ CaseLanes[lane] = l
  BY DEF At
<1>4. lane # 39
  BY <1>2, <1>3
<1> QED BY <1>1, <1>3, <1>4

\* Where the lanes are that take without asking, or more than is left.
LEMMA LanesOfExcess ==
  ASSUME CaseTypes
  PROVE  /\ At("ellipsis") => lane = 1
         /\ At("exact local") => lane = 8
         /\ At("arrow") => lane = 9
         /\ At("calls") \/ At("speculative context") \/ At("construction") \/ At("selection") => lane >= 10
<1>1. \A i \in 1..39 :
        /\ CaseLanes[i] = "ellipsis" => i = 1
        /\ CaseLanes[i] = "exact local" => i = 8
        /\ CaseLanes[i] = "arrow" => i = 9
        /\ CaseLanes[i] \in {"calls", "speculative context", "construction", "selection"} => i >= 10
  BY LanesInOrder
<1>2. lane # 0 => lane \in 1..39
  BY DEF CaseTypes
<1> QED BY <1>1, <1>2 DEF At

\* Learning and falling through go on.
LEMMA LearnsMoves ==
  ASSUME CaseTypes, lane \in 1..38, NEW new, Learns(new)
  PROVE  Onward
<1>1. lane' = NextLane(lane, facts \cup new) /\ cases' = cases /\ UNCHANGED <<todo, edits, verdict>>
  BY DEF Learns
<1>2. lane \in 0..38
  OBVIOUS
<1>3. lane' \in (lane + 1)..39
  BY <1>1, <1>2, NextLaneIs
<1>4. cases \subseteq [binds : BOOLEAN, leaves : Nat]
  BY DEF CaseTypes
<1> QED BY <1>1, <1>3, <1>4 DEF Onward

LEMMA FallsMoves ==
  ASSUME CaseTypes, lane \in 1..38, Falls
  PROVE  Onward
  BY LearnsMoves DEF Falls

\* What is put in the place of a hole is text.
LEMMA Items ==
  /\ Terms \subseteq Seq(Pieces)
  /\ \A n \in Nat : Clauses(n) \in Seq(Pieces)
<1>1. "done" \in Pieces /\ "mark" \in Pieces /\ "hole" \in Pieces
  BY DEF Pieces
<1>2. \A X : \A x \in X : <<x>> \in Seq(X) /\ \A n \in Nat : [i \in 1..n |-> x] \in Seq(X)
  OBVIOUS
<1>3. <<"done">> \in Seq(Pieces) /\ <<"mark">> \in Seq(Pieces)
  BY <1>1, <1>2, Zenon
<1>4. \A n \in Nat : [i \in 1..n |-> "hole"] \in Seq(Pieces)
  BY <1>1, <1>2, Zenon
<1> QED BY <1>3, <1>4 DEF Terms, Clauses

\* An edit lands.
LEMMA EditLands == ASSUME NEW items \in Seq(Pieces), Edit(items) PROVE Lands
  BY DEF Edit, Misplaced, Lands

LEMMA ClosesLands == ASSUME Closes PROVE Lands
  BY EditLands, Items DEF Closes

\* What the kinds of lanes spend.
LEMMA NothingSpent == ASSUME CaseTypes, used' = used PROVE Within
  BY Bounds DEF Within, Greater

LEMMA QueriesSpend ==
  ASSUME CaseTypes, NEW k \in {1, 2}, NEW n \in Queries(k), Uses(k * n)
  PROVE  Within
<1>1. n \in Nat /\ k * n \in Nat /\ (k * n = n \/ k * n = n + n)
  BY Bounds DEF Queries
<1>2. n = 0 \/ used + k * n <= asked.budget
  BY DEF Queries, MayUse
<1>3. used' = used + k * n
  BY DEF Uses
<1> DEFINE m == k * n
<1> HIDE DEF m
<1>4. m \in Nat /\ (m = 0 \/ used + m <= asked.budget) /\ used' = used + m
  BY <1>1, <1>2, <1>3 DEF m
<1> QED BY <1>4, Bounds DEF Within, Greater

\* A slice is of what is left, and wrapped calls exceed it by no more than Most.
LEMMA Sliced ==
  ASSUME CaseTypes, NEW slice \in Nat
  PROVE  /\ Allowance(slice) \in Nat /\ used + Allowance(slice) <= Greater(used, asked.budget)
         /\ Excess(slice, FALSE) = 0
         /\ Excess(slice, TRUE) \in Nat /\ Excess(slice, TRUE) <= Most
         /\ used >= asked.budget => Excess(slice, TRUE) = 0
<1>1. asked.budget \in Nat /\ used \in Nat /\ WrapSlice \in Nat
  BY Bounds
<1>2. Allowance(slice) \in Nat /\ used + Allowance(slice) <= Greater(used, asked.budget)
  BY <1>1 DEF Allowance, AtLeastZero, Lesser, Greater
<1>3. Allowance(slice) <= asked.budget /\ (used >= asked.budget => Allowance(slice) = 0)
  BY <1>1 DEF Allowance, AtLeastZero, Lesser
<1> DEFINE a == Allowance(slice)
<1>4. Excess(slice, FALSE) = 0 /\ Excess(slice, TRUE) = Lesser(WrapSlice, a)
  BY DEF Excess
<1>5. a \in Nat /\ a <= asked.budget /\ (used >= asked.budget => a = 0)
  BY <1>2, <1>3
<1> HIDE DEF a
<1>6. /\ Lesser(WrapSlice, a) \in Nat /\ Lesser(WrapSlice, a) <= Lesser(WrapSlice, asked.budget)
      /\ used >= asked.budget => Lesser(WrapSlice, a) = 0
  BY <1>1, <1>5 DEF Lesser
<1>7. Excess(slice, TRUE) \in Nat /\ Excess(slice, TRUE) <= Most /\ (used >= asked.budget => Excess(slice, TRUE) = 0)
  BY <1>4, <1>6 DEF Most
<1> QED BY <1>2, <1>4, <1>7

\* An amount out of a slice is within the allowance.
LEMMA SliceSpends ==
  ASSUME CaseTypes, NEW slice \in Nat, NEW n \in 0..Allowance(slice), used' = used + n
  PROVE  Within
<1> DEFINE a == Allowance(slice)
           g == Greater(used, asked.budget)
<1>1. a \in Nat /\ used + a <= g
  BY Sliced
<1>2. g \in Nat /\ used \in Nat
  BY Bounds DEF Greater
<1>3. n \in Nat /\ n <= a
  BY <1>1
<1> HIDE DEF a, g
<1>4. used' \in Nat /\ used' <= g
  BY <1>1, <1>2, <1>3
<1> QED BY <1>4 DEF Within, g

LEMMA NestedSpends ==
  ASSUME CaseTypes, NEW slice \in Nat, Nested(slice, FALSE)
  PROVE  Within
<1>1. PICK n \in 0..(Allowance(slice) + 0) : used' = used + n
  BY DEF Nested, Uses, Excess
<1>2. Allowance(slice) \in Nat
  BY Sliced
<1>3. n \in 0..Allowance(slice)
  BY <1>1, <1>2
<1> QED BY <1>1, <1>3, SliceSpends

\* With wrapped calls it may take more than is left, in a lane that may.
LEMMA Exceeds ==
  ASSUME CaseTypes, NEW slice \in Nat, NEW more \in Nat, NEW wraps \in BOOLEAN, lane >= 10,
         NEW n \in 0..(Allowance(slice) + Excess(more, wraps)), used' = used + n
  PROVE  Spends
<1> DEFINE a == Allowance(slice)
           e == Excess(more, wraps)
           g == Greater(used, asked.budget)
<1>1. a \in Nat /\ used + a <= g /\ e \in Nat /\ e <= Most /\ (used >= asked.budget => e = 0)
  <2>1. a \in Nat /\ used + a <= g
    BY Sliced
  <2>2. CASE wraps
    BY <2>1, <2>2, Sliced
  <2>3. CASE wraps = FALSE
    <3>1. e = 0
      BY <2>3, Sliced
    <3> QED BY <2>1, <3>1, Bounds
  <2> QED BY <2>2, <2>3
<1>2. n \in Nat /\ n <= a + e
  BY <1>1
<1> HIDE DEF a, e
<1>3. CASE used >= asked.budget
  <2>1. used' \in Nat /\ used' <= used + a
    BY <1>1, <1>2, <1>3, Bounds
  <2>2. used' <= g /\ g \in Nat
    BY <1>1, <2>1, Bounds DEF Greater
  <2> QED BY <2>1, <2>2 DEF Spends
<1>4. CASE used < asked.budget
  <2>1. g = asked.budget
    BY <1>4, Bounds DEF Greater
  <2>2. used' \in Nat /\ used' <= asked.budget + Most
    BY <1>1, <1>2, <2>1, Bounds
  <2> QED BY <2>2, Bounds DEF Spends
<1> QED BY <1>3, <1>4, Bounds

LEMMA WrappedSpends ==
  ASSUME CaseTypes, NEW slice \in Nat, Nested(slice, MayWrap), lane >= 10
  PROVE  Spends
<1>1. PICK n \in 0..(Allowance(slice) + Excess(slice, MayWrap)) : used' = used + n
  BY DEF Nested, Uses
<1>2. MayWrap \in BOOLEAN
  BY DEF MayWrap
<1> QED BY <1>1, <1>2, Exceeds

\* The actions of recursive calls.
LEMMA CallsSpend ==
  ASSUME CaseTypes, NEW n \in CallQueries(FALSE), Uses(n)
  PROVE  Within
<1>1. QuerySlice \in Nat /\ MaxSpecs * QuerySlice \in Nat
  BY Bounds
<1> DEFINE slice == MaxSpecs * QuerySlice
<1>2. Allowance(slice) \in Nat
  BY <1>1, Sliced
<1>3. n \in 0..(Allowance(slice) + 0) /\ used' = used + n
  BY DEF CallQueries, Uses, Excess
<1>4. slice \in Nat
  BY <1>1
<1> HIDE DEF slice
<1>5. n \in 0..Allowance(slice)
  BY <1>2, <1>3
<1> QED BY <1>3, <1>4, <1>5, SliceSpends

LEMMA WrappedCallsSpend ==
  ASSUME CaseTypes, NEW n \in CallQueries(MayWrap), Uses(n), lane >= 10
  PROVE  Spends
<1>1. n \in 0..(Allowance(MaxSpecs * QuerySlice) + Excess(QuerySlice, MayWrap)) /\ used' = used + n
  BY DEF CallQueries, Uses
<1>2. QuerySlice \in Nat /\ MaxSpecs * QuerySlice \in Nat /\ MayWrap \in BOOLEAN
  BY Bounds DEF MayWrap
<1> QED BY <1>1, <1>2, Exceeds

LEMMA OneSpent == ASSUME CaseTypes, MayUse(1), Uses(1) PROVE Within
  BY Bounds DEF Within, Greater, Uses, MayUse

LEMMA WithinSpends == ASSUME Within PROVE Spends
  BY DEF Within, Spends

\* The lanes that only query, then those that do not.
LEMMA AttemptsMoves ==
  ASSUME CaseTypes, NEW l, l # "selection", NEW k \in {1, 2}, Attempts(l, k)
  PROVE  Moves /\ Spends
<1>1. lane \in 1..38 /\ UNCHANGED still
  BY AtLane DEF Attempts, kept
<1>2. PICK n \in Queries(k) : Uses(k * n) /\ (Falls \/ (n > 0 /\ Closes))
  BY DEF Attempts
<1> QED BY <1>1, <1>2, FallsMoves, ClosesLands, QueriesSpend, WithinSpends DEF Moves

LEMMA ExploresMoves ==
  ASSUME CaseTypes, NEW l, l # "selection", NEW k \in {1, 2}, NEW new, Explores(l, k, new)
  PROVE  Moves /\ Spends
<1>1. lane \in 1..38 /\ UNCHANGED still
  BY AtLane DEF Explores, kept
<1>2. PICK n \in Queries(k) : Uses(k * n) /\ (Falls \/ (n > 0 /\ (Learns(new) \/ Closes)))
  BY DEF Explores
<1> QED BY <1>1, <1>2, FallsMoves, LearnsMoves, ClosesLands, QueriesSpend, WithinSpends DEF Moves

LEMMA InfersMoves ==
  ASSUME CaseTypes, NEW l, l # "selection", NEW k \in {1, 2}, NEW new, Infers(l, k, new)
  PROVE  Moves /\ Spends
<1>1. lane \in 1..38 /\ UNCHANGED still
  BY AtLane DEF Infers, kept
<1>2. PICK n \in Queries(k) : Uses(k * n) /\ (Falls \/ (n > 0 /\ Learns(new)))
  BY DEF Infers
<1> QED BY <1>1, <1>2, FallsMoves, LearnsMoves, QueriesSpend, WithinSpends DEF Moves

LEMMA ConcludesMoves ==
  ASSUME CaseTypes, NEW l, l # "selection", Concludes(l)
  PROVE  Moves /\ Spends
<1>1. lane \in 1..38 /\ UNCHANGED still /\ used' = used /\ (Falls \/ Closes)
  BY AtLane DEF Concludes, kept
<1> QED BY <1>1, FallsMoves, ClosesLands, NothingSpent, WithinSpends DEF Moves

\* The lanes that are only one of those.
LEMMA AskingLanes ==
  ASSUME CaseTypes,
         \/ ProgramParameter \/ ProgramWrappers \/ ProgramConstants \/ ZeroConstructors
         \/ SeedFunctions \/ ScopeFunctions \/ FunctionLifts \/ LiftedApplications
         \/ Descendants \/ Bridges \/ NestedTower \/ DirectClosure \/ Preliminary \/ Saturation
         \/ SaturatedClosure \/ LastClosure \/ DirectPremises
  PROVE  Moves /\ Spends
<1> DEFINE Done == Moves /\ Spends
<1>1. CASE \/ ProgramParameter \/ ProgramWrappers \/ ProgramConstants \/ ZeroConstructors
           \/ LiftedApplications \/ NestedTower \/ DirectPremises
  <2>1. \E l : l # "selection" /\ Attempts(l, 1)
    BY <1>1 DEF ProgramParameter, ProgramWrappers, ProgramConstants, ZeroConstructors, LiftedApplications, NestedTower, DirectPremises
  <2> QED BY <2>1, AttemptsMoves
<1>2. CASE SeedFunctions \/ ScopeFunctions \/ Descendants \/ Bridges \/ Preliminary \/ Saturation
  <2>1. \E l, new : \E k \in {1, 2} : l # "selection" /\ Infers(l, k, new)
    BY <1>2 DEF SeedFunctions, ScopeFunctions, Descendants, Bridges, Preliminary, Saturation
  <2> QED BY <2>1, InfersMoves
<1>3. CASE FunctionLifts
  BY <1>3, ExploresMoves DEF FunctionLifts
<1>4. CASE DirectClosure \/ SaturatedClosure \/ LastClosure
  <2>1. \E l : l # "selection" /\ Concludes(l)
    BY <1>4 DEF DirectClosure, SaturatedClosure, LastClosure
  <2> QED BY <2>1, ConcludesMoves
<1> QED BY <1>1, <1>2, <1>3, <1>4

\* The ellipsis and the recursive programs, whose lane is known, and the lanes that
\* take an action unasked.
LEMMA FirstLanesMove ==
  ASSUME CaseTypes, Spending, Ellipsis \/ RigidRelation \/ ProgramCalls \/ ExactLocal \/ ArrowIntroduction
  PROVE  Moves /\ Spends
<1>1. CASE Ellipsis
  <2>1. lane \in 1..38 /\ UNCHANGED still /\ lane = 1 /\ verdict = "searching"
    BY <1>1, AtLane, LanesOfExcess DEF Ellipsis
  <2>2. Onward \/ Lands
    <3>1. CASE Falls
      BY <2>1, <3>1, FallsMoves
    <3>2. CASE Puts(Clauses(1))
      BY <3>2, Items DEF Lands
    <3> QED BY <1>1, <3>1, <3>2 DEF Ellipsis
  <2>3. used < asked.budget
    BY <2>1 DEF Spending
  <2>4. Spends
    BY <1>1, <2>3, Bounds DEF Ellipsis, Uses, Spends, Greater
  <2> QED BY <2>1, <2>2, <2>4 DEF Moves
<1>2. CASE RigidRelation
  <2>1. lane \in 1..38 /\ UNCHANGED still /\ used' = used /\ (Falls \/ Ends("no-proof"))
    BY <1>2, AtLane DEF RigidRelation, kept
  <2>2. Onward \/ Lands
    BY <2>1, FallsMoves DEF Lands
  <2> QED BY <2>1, <2>2, NothingSpent, WithinSpends DEF Moves
<1>3. CASE ProgramCalls
  <2>1. lane \in 1..38 /\ UNCHANGED still
    BY <1>3, AtLane DEF ProgramCalls, kept
  <2>2. PICK n \in CallQueries(FALSE) : Uses(n) /\ (Falls \/ (n > 0 /\ Learns({"program"})))
    BY <1>3 DEF ProgramCalls
  <2> QED BY <2>1, <2>2, FallsMoves, LearnsMoves, CallsSpend, WithinSpends DEF Moves
<1>4. CASE ExactLocal
  <2>1. lane \in 1..38 /\ lane = 8 /\ verdict = "searching" /\ UNCHANGED still /\ Uses(1) /\ Closes
    BY <1>4, AtLane, LanesOfExcess DEF ExactLocal, kept
  <2>2. used <= asked.budget
    BY <2>1 DEF Spending
  <2>3. lane' = 0 \/ verdict' # "searching"
    BY <2>1 DEF Closes, Edit, Puts, Misplaced, Ends
  <2>4. Spends
    BY <2>1, <2>2, <2>3, Bounds DEF Spends, Uses
  <2> QED BY <2>1, <2>4, ClosesLands DEF Moves
<1>5. CASE ArrowIntroduction
  <2>1. lane \in 1..38 /\ lane = 9 /\ verdict = "searching" /\ UNCHANGED still /\ Uses(1) /\ (Falls \/ Edit(Clauses(1)))
    BY <1>5, AtLane, LanesOfExcess DEF ArrowIntroduction, kept
  <2>2. used <= asked.budget
    BY <2>1 DEF Spending
  <2>3. Falls => Onward
    BY <2>1, FallsMoves
  <2>4. Edit(Clauses(1)) => Lands /\ (lane' = 0 \/ verdict' # "searching")
    BY EditLands, Items DEF Edit, Puts, Misplaced, Ends
  <2>5. lane' \notin 1..9 \/ verdict' # "searching"
    BY <2>1, <2>3, <2>4 DEF Onward
  <2>6. Spends
    BY <2>1, <2>2, <2>5, Bounds DEF Spends, Uses
  <2> QED BY <2>1, <2>3, <2>4, <2>6 DEF Moves
<1> QED BY <1>1, <1>2, <1>3, <1>4, <1>5

\* Lanes with a nested search, or with one action of their own.
LEMMA ConstructingLanes ==
  ASSUME CaseTypes, ProgramStructure \/ CopatternConstruction \/ ResultSplit \/ FocusedLeaf \/ EmptyRefinement \/ RecursiveClause
  PROVE  Moves /\ Spends
<1>1. CASE ProgramStructure
  <2>1. lane \in 1..38 /\ UNCHANGED still
    BY <1>1, AtLane DEF ProgramStructure, kept
  <2>2. (used' = used \/ Nested(MaxSpecs * FocusSlice, FALSE)) /\ (Falls \/ Closes)
    BY <1>1 DEF ProgramStructure
  <2>3. Within
    BY <2>2, NothingSpent, NestedSpends, Bounds
  <2> QED BY <2>1, <2>2, <2>3, FallsMoves, ClosesLands, WithinSpends DEF Moves
<1>2. CASE CopatternConstruction
  <2>1. lane \in 1..38 /\ UNCHANGED still
    BY <1>2, AtLane DEF CopatternConstruction, kept
  <2>2. (used' = used \/ \E slice \in {CaseSlice, asked.budget} : Nested(slice, FALSE)) /\ (Falls \/ Closes)
    BY <1>2 DEF CopatternConstruction
  <2>3. Within
    BY <2>2, NothingSpent, NestedSpends, Bounds
  <2> QED BY <2>1, <2>2, <2>3, FallsMoves, ClosesLands, WithinSpends DEF Moves
<1>3. CASE ResultSplit
  <2>1. lane \in 1..38 /\ UNCHANGED still
    BY <1>3, AtLane DEF ResultSplit
  <2>2. /\ used' = used \/ (MayUse(1) /\ Uses(1))
        /\ Falls \/ \E n \in 1..MaxClauses : Puts(Clauses(n))
    BY <1>3 DEF ResultSplit
  <2>3. Within
    BY <2>2, NothingSpent, OneSpent
  <2>4. (\E n \in 1..MaxClauses : Puts(Clauses(n))) => Lands
    BY Items, Bounds DEF Lands
  <2> QED BY <2>1, <2>2, <2>3, <2>4, FallsMoves, WithinSpends DEF Moves
<1>4. CASE FocusedLeaf
  <2>1. lane \in 1..38 /\ UNCHANGED still
    BY <1>4, AtLane DEF FocusedLeaf, kept
  <2>2. /\ \/ used' = used
           \/ \E n \in 0..Allowance(FocusSlice) : Uses(n)
           \/ \E n \in 0..Allowance(FocusSlice) : MayUse(n + 1) /\ Uses(n + 1)
        /\ Falls \/ Closes
    BY <1>4 DEF FocusedLeaf
  <2>3. ASSUME NEW n \in 0..Allowance(FocusSlice), MayUse(n + 1), Uses(n + 1) PROVE Within
    BY <2>3, Bounds DEF MayUse, Uses, Within, Greater
  <2>4. ASSUME NEW n \in 0..Allowance(FocusSlice), Uses(n) PROVE Within
    <3>1. FocusSlice \in Nat /\ used' = used + n
      BY <2>4, Bounds DEF Uses
    <3> QED BY <2>4, <3>1, SliceSpends
  <2>5. Within
    BY <2>2, <2>3, <2>4, NothingSpent
  <2> QED BY <2>1, <2>2, <2>5, FallsMoves, ClosesLands, WithinSpends DEF Moves
<1>5. CASE EmptyRefinement \/ RecursiveClause
  <2>1. lane \in 1..38 /\ UNCHANGED still
    BY <1>5, AtLane DEF EmptyRefinement, RecursiveClause, kept
  <2>2. (used' = used \/ (MayUse(1) /\ Uses(1))) /\ (Falls \/ Closes)
    BY <1>5 DEF EmptyRefinement, RecursiveClause
  <2> QED BY <2>1, <2>2, NothingSpent, OneSpent, FallsMoves, ClosesLands, WithinSpends DEF Moves
<1> QED BY <1>1, <1>2, <1>3, <1>4, <1>5

\* Lanes of the relations that are not of a common form.
LEMMA RelationLanesMove ==
  ASSUME CaseTypes,
         \/ RecursiveSpecs \/ RecursiveCalls \/ Anchors \/ SpeculativeContext \/ EndpointEvidence
         \/ ContextualAlignment \/ RelationRounds \/ Transformations
  PROVE  Moves /\ Spends
<1>1. CASE RecursiveSpecs \/ Anchors
  <2>1. lane \in 1..38 /\ UNCHANGED still /\ used' = used /\ (Falls \/ \E new : Learns(new))
    BY <1>1, AtLane DEF RecursiveSpecs, Anchors, kept
  <2> QED BY <2>1, FallsMoves, LearnsMoves, NothingSpent, WithinSpends DEF Moves
<1>2. CASE RecursiveCalls
  <2>1. lane \in 1..38 /\ lane >= 10 /\ UNCHANGED still
    BY <1>2, AtLane, LanesOfExcess DEF RecursiveCalls, kept
  <2>2. \/ used' = used /\ Falls
        \/ \E n \in CallQueries(MayWrap) : Uses(n) /\ ((\E new : Learns(new)) \/ Closes)
    BY <1>2 DEF RecursiveCalls
  <2> QED BY <2>1, <2>2, FallsMoves, LearnsMoves, ClosesLands, NothingSpent, WrappedCallsSpend, WithinSpends DEF Moves
<1>3. CASE SpeculativeContext
  <2>1. lane \in 1..38 /\ lane >= 10 /\ UNCHANGED still
    BY <1>3, AtLane, LanesOfExcess DEF SpeculativeContext, kept
  <2>2. /\ used' = used \/ (MayUse(1) /\ \E n \in 0..MaxQueries : Uses(n))
        /\ Falls \/ Closes
    BY <1>3 DEF SpeculativeContext
  <2>3. Falls => Onward
    BY <2>1, FallsMoves
  <2>4. Closes => Lands /\ (lane' = 0 \/ verdict' # "searching")
    BY ClosesLands DEF Closes, Edit, Puts, Misplaced, Ends
  <2>5. lane' \notin 1..9 \/ verdict' # "searching"
    BY <2>1, <2>2, <2>3, <2>4 DEF Onward
  <2>6. ASSUME MayUse(1), NEW n \in 0..MaxQueries, Uses(n) PROVE Spends
    BY <2>5, <2>6, Bounds DEF MayUse, Uses, Spends
  <2> QED BY <2>1, <2>2, <2>3, <2>4, <2>6, NothingSpent, WithinSpends DEF Moves
<1>4. CASE EndpointEvidence \/ ContextualAlignment \/ RelationRounds \/ Transformations
  <2>1. lane \in 1..38 /\ UNCHANGED still
    BY <1>4, AtLane DEF EndpointEvidence, ContextualAlignment, RelationRounds, Transformations, kept
  <2>2. PICK n \in Queries(1) : Uses(n) /\ (Falls \/ Closes)
    BY <1>4 DEF EndpointEvidence, ContextualAlignment, RelationRounds, Transformations
  <2>3. n \in Nat /\ 1 * n = n
    BY Bounds DEF Queries
  <2>4. Within
    BY <2>2, <2>3, QueriesSpend
  <2> QED BY <2>1, <2>2, <2>4, FallsMoves, ClosesLands, WithinSpends DEF Moves
<1> QED BY <1>1, <1>2, <1>3, <1>4

\* Construction, the case splits and what is selected.
LEMMA LastLanesMove ==
  ASSUME CaseTypes, Construction \/ CaseSplits \/ NothingAccepted \/ TakesSplit \/ TakesBinding
  PROVE  Moves /\ Spends
<1>1. CASE Construction
  <2>1. lane \in 1..38 /\ lane >= 10 /\ UNCHANGED still
    BY <1>1, AtLane, LanesOfExcess DEF Construction, kept
  <2>2. \/ used' = used /\ Falls
        \/ /\ \E slice \in {CaseSlice, asked.budget} : Nested(slice, MayWrap)
           /\ \/ Closes \/ Ends("resource-exhausted")
              \/ lane' = NextLane(lane, facts) /\ UNCHANGED <<todo, edits, cases, verdict>>
    BY <1>1 DEF Construction
  <2>3. Spends
    BY <2>1, <2>2, NothingSpent, WithinSpends, WrappedSpends, Bounds
  <2>4. lane' = NextLane(lane, facts) /\ UNCHANGED <<todo, edits, cases, verdict>> => Onward
    <3>1. lane \in 0..38 /\ NextLane(lane, facts) \in (lane + 1)..39
      BY <2>1, NextLaneIs
    <3> QED BY <3>1 DEF Onward, CaseTypes
  <2>5. Ends("resource-exhausted") => Lands
    BY DEF Lands
  <2> QED BY <2>1, <2>2, <2>3, <2>4, <2>5, FallsMoves, ClosesLands DEF Moves
<1>2. CASE CaseSplits
  <2>1. lane \in 1..38 /\ UNCHANGED still
    BY <1>2, AtLane DEF CaseSplits, kept
  <2>2. PICK n \in Queries(1) :
          /\ Uses(n)
          /\ \/ \E those \in Accepted : cases' = those /\ lane' = NextLane(lane, facts) /\ UNCHANGED <<todo, edits, verdict>>
             \/ Ends("resource-exhausted")
    BY <1>2 DEF CaseSplits
  <2>3. n \in Nat /\ 1 * n = n
    BY Bounds DEF Queries
  <2>4. Within
    BY <2>2, <2>3, QueriesSpend
  <2>5. \A those \in Accepted : those \subseteq [binds : BOOLEAN, leaves : Nat]
    <3>1. \A n2 \in 0..MaxClauses : Split(n2) \in [binds : BOOLEAN, leaves : Nat]
      BY Bounds DEF Split
    <3>2. Binding \in [binds : BOOLEAN, leaves : Nat]
      BY DEF Binding
    <3> QED BY <3>1, <3>2 DEF Accepted
  <2>6. lane \in 0..38 /\ NextLane(lane, facts) \in (lane + 1)..39
    BY <2>1, NextLaneIs
  <2>7. Onward \/ Lands
    BY <2>2, <2>5, <2>6 DEF Onward, Lands
  <2> QED BY <2>1, <2>4, <2>7, WithinSpends DEF Moves
<1>3. CASE NothingAccepted
  <2>1. UNCHANGED still /\ lane >= 10
    BY <1>3, LanesOfExcess DEF NothingAccepted, kept
  <2>2. /\ used' = used \/ Nested(asked.budget, MayWrap)
        /\ Closes \/ Ends("resource-exhausted") \/ Ends("no-proof")
    BY <1>3 DEF NothingAccepted
  <2>3. Spends
    BY <2>1, <2>2, NothingSpent, WithinSpends, WrappedSpends, Bounds
  <2>4. Lands
    BY <2>2, ClosesLands DEF Lands
  <2> QED BY <2>1, <2>3, <2>4 DEF Moves
<1>4. CASE TakesSplit \/ TakesBinding
  <2>1. UNCHANGED still /\ used' = used /\ \E c \in cases : Puts(Clauses(c.leaves))
    BY <1>4 DEF TakesSplit, TakesBinding, Takes
  <2>2. \A c \in cases : Clauses(c.leaves) \in Seq(Pieces)
    BY Items DEF CaseTypes
  <2> QED BY <2>1, <2>2, NothingSpent, WithinSpends DEF Moves, Lands
<1> QED BY <1>1, <1>2, <1>3, <1>4

\* Every lane.
LEMMA LanesMove ==
  ASSUME CaseTypes, Spending, LaneSteps
  PROVE  Moves /\ Spends /\ verdict = "searching" /\ lane # 0
<1>1. verdict = "searching" /\ lane # 0
  BY DEF LaneSteps, At, Ellipsis, RigidRelation, ProgramParameter, ProgramCalls, ProgramWrappers,
     ProgramStructure, ProgramConstants, ExactLocal, ArrowIntroduction, CopatternConstruction, ResultSplit,
     FocusedLeaf, EmptyRefinement, ZeroConstructors, RecursiveSpecs, RecursiveCalls, SeedFunctions,
     ScopeFunctions, FunctionLifts, LiftedApplications, Anchors, Descendants, Bridges, NestedTower,
     DirectClosure, SpeculativeContext, EndpointEvidence, Preliminary, ContextualAlignment, Saturation,
     SaturatedClosure, RelationRounds, LastClosure, RecursiveClause, Transformations, DirectPremises,
     Construction, CaseSplits, NothingAccepted, TakesSplit, TakesBinding, Takes, Attempts, Explores, Infers, Concludes
<1>2. Moves /\ Spends
  BY AskingLanes, FirstLanesMove, ConstructingLanes, RelationLanesMove, LastLanesMove DEF LaneSteps
<1> QED BY <1>1, <1>2

-----------------------------------------------------------------------------
(* Every step keeps the invariant.                                         *)

\* The goal that is visited is the leftmost one left.
LEMMA GoalIsAHole ==
  ASSUME CaseTypes, todo # {}
  PROVE  Goal \in todo /\ Goal \in Holes(text, last)
<1>1. todo \subseteq Nat
  BY DEF CaseTypes, Holes
<1>2. \E i \in todo : \A j \in todo : i <= j
  BY <1>1, LeastNatural
<1> QED BY <1>2 DEF Goal, CaseTypes

\* A step that moves and spends like that keeps the account.
LEMMA LaneSpends ==
  ASSUME CaseTypes, Spending, verdict = "searching", lane # 0, Moves, Spends
  PROVE  Spending'
<1>1. asked' = asked /\ Most' = Most /\ Bound' = Bound
  BY DEF Moves, still, Most, Bound, Lesser, Greater
<1>2. used' <= Bound
  BY Bounds DEF Spends, Spending, Greater
<1>3. ASSUME verdict' = "searching", lane' # 0
      PROVE  /\ lane' = 1 => used' < asked.budget
             /\ lane' <= 9 => used' <= asked.budget
  <2>1. lane' \in (lane + 1)..39 /\ lane \in 1..38
    BY <1>3 DEF Moves, Onward, Lands, Puts, Ends, CaseTypes
  <2> QED BY <1>3, <2>1, Bounds DEF Spends, Spending, Greater
<1> QED BY <1>1, <1>2, <1>3 DEF Spending

\* Every lane keeps the invariant.
LEMMA LaneKeeps == ASSUME CaseInv, LaneSteps PROVE CaseInv'
<1>1. CaseTypes /\ Visiting /\ BehindKept /\ SolvedIsWhole /\ Spending
  BY DEF CaseInv
<1>2. Moves /\ Spends /\ verdict = "searching" /\ lane # 0
  BY <1>1, LanesMove
<1>3. UNCHANGED <<asked, text, last, loaded>> /\ used' \in Nat
  BY <1>2 DEF Moves, Spends, still
<1>4. Spending'
  BY <1>1, <1>2, LaneSpends
<1>5. BehindKept'
  BY <1>1, <1>3 DEF BehindKept
<1>6. IsRequest(asked)' /\ (text \in Seq(Pieces))' /\ (last \in 0..Len(text))' /\ Holes(text, last)' = Holes(text, last)
  BY <1>1, <1>3 DEF CaseTypes, IsRequest, Holes
<1>7. /\ loaded = text /\ todo \cap DOMAIN edits = {} /\ todo \cup DOMAIN edits = Holes(text, last)
      /\ todo # {}
  BY <1>1, <1>2 DEF Visiting
<1>8. CASE Onward
  <2>1. CaseTypes'
    BY <1>1, <1>3, <1>6, <1>8 DEF CaseTypes, Onward
  <2>2. Visiting'
    BY <1>3, <1>6, <1>7, <1>8 DEF Visiting, Onward
  <2>3. SolvedIsWhole'
    BY <1>2, <1>8 DEF SolvedIsWhole, Onward
  <2> QED BY <1>4, <1>5, <2>1, <2>2, <2>3 DEF CaseInv
<1>9. CASE \E items \in Seq(Pieces) : Puts(items)
  <2>1. PICK items \in Seq(Pieces) : Puts(items)
    BY <1>9
  <2>2. Goal \in todo /\ Goal \in Holes(text, last)
    BY <1>1, <1>7, GoalIsAHole
  <2> DEFINE g == Goal
  <2>3. /\ edits' = [i \in DOMAIN edits \cup {g} |-> IF i = g THEN items ELSE edits[i]]
        /\ todo' = todo \ {g} /\ lane' = 0 /\ cases' = {} /\ verdict' = verdict
        /\ g \in todo /\ g \in Holes(text, last)
    BY <2>1, <2>2 DEF Puts
  <2> HIDE DEF g
  <2>4. DOMAIN edits' = DOMAIN edits \cup {g}
    BY <2>3
  <2>5. \A i \in DOMAIN edits' : edits'[i] \in Seq(Pieces)
    BY <1>1, <2>3, <2>4 DEF CaseTypes
  <2>6. todo' \subseteq Holes(text, last) /\ DOMAIN edits' \subseteq Holes(text, last) /\ DOMAIN edits' # {}
    BY <1>1, <2>3, <2>4 DEF CaseTypes
  <2>7. lane' \in 0..39 /\ cases' \subseteq [binds : BOOLEAN, leaves : Nat]
    BY <2>3
  <2>8. CaseTypes'
    BY <1>3, <1>6, <2>5, <2>6, <2>7 DEF CaseTypes
  <2>9. Visiting'
    BY <1>3, <1>6, <1>7, <2>3, <2>4 DEF Visiting
  <2>10. SolvedIsWhole'
    BY <1>2, <2>3 DEF SolvedIsWhole
  <2> QED BY <1>4, <1>5, <2>8, <2>9, <2>10 DEF CaseInv
<1>10. CASE \E how \in {"no-proof", "resource-exhausted"} : Ends(how)
  <2>1. UNCHANGED <<todo, lane, edits, cases>> /\ verdict' # "searching" /\ verdict' # "solved"
    BY <1>10 DEF Ends, goal
  <2>2. CaseTypes'
    BY <1>1, <1>3, <1>6, <2>1 DEF CaseTypes
  <2> QED BY <1>4, <1>5, <2>1, <2>2 DEF CaseInv, Visiting, SolvedIsWhole
<1> QED BY <1>2, <1>8, <1>9, <1>10 DEF Moves, Lands

\* So does the end of a search, and each step of a level.
LEMMA ConcludedKeeps ==
  ASSUME CaseInv, NEW how, how # "searching", how # "solved", Concluded(how)
  PROVE  CaseInv'
<1>1. UNCHANGED <<asked, text, last, loaded, todo, lane, edits, cases, used>> /\ verdict' = how
  BY DEF Concluded, source, goal
<1>2. CaseTypes' /\ BehindKept'
  BY <1>1 DEF CaseInv, CaseTypes, IsRequest, Holes, BehindKept
<1>3. Visiting' /\ SolvedIsWhole'
  BY <1>1 DEF Visiting, SolvedIsWhole
<1>4. Spending'
  BY <1>1 DEF CaseInv, Spending, Bound, Most, Lesser, Greater
<1> QED BY <1>2, <1>3, <1>4 DEF CaseInv

LEMMA LoadKeeps == ASSUME CaseInv, LoadLevel PROVE CaseInv'
<1>1. CASE \E how \in {"resource-exhausted", "no-proof"} : Concluded(how)
  BY <1>1, ConcludedKeeps
<1>2. CASE /\ loaded' = text /\ todo' = Holes(text, last)
           /\ UNCHANGED <<asked, text, last, level, learnt, lane, facts, edits, cases, tried, used, overdue, verdict>>
  <2>1. lane = 0 /\ edits = <<>> /\ verdict = "searching"
    BY DEF LoadLevel, Between
  <2>2. DOMAIN edits = {}
    BY <2>1
  <2>3. CaseTypes' /\ BehindKept' /\ SolvedIsWhole'
    BY <1>2 DEF CaseInv, CaseTypes, IsRequest, Holes, BehindKept, SolvedIsWhole
  <2>4. Holes(text, last)' = Holes(text, last)
    BY <1>2 DEF Holes
  <2>5. DOMAIN edits' = {} /\ todo' = Holes(text, last)' /\ loaded' = text' /\ lane' = 0
    BY <1>2, <2>1, <2>2, <2>4
  <2>6. Visiting'
    BY <2>5 DEF Visiting
  <2>7. Spending'
    BY <1>2, <2>5 DEF CaseInv, Spending, Bound, Most, Lesser, Greater
  <2> QED BY <2>3, <2>6, <2>7 DEF CaseInv
<1> QED BY <1>1, <1>2 DEF LoadLevel

LEMMA VisitKeeps == ASSUME CaseInv, VisitGoal PROVE CaseInv'
<1>1. CASE Concluded("resource-exhausted")
  BY <1>1, ConcludedKeeps
<1>2. CASE /\ MayUse(1) /\ lane' = NextLane(0, {})
           /\ UNCHANGED <<asked, source, todo, edits, cases, tried, used, overdue, verdict>>
  <2>1. lane = 0 /\ todo # {} /\ verdict = "searching"
    BY DEF VisitGoal, Between
  <2>2. lane' \in 1..39
    <3>1. NextLane(0, {}) \in (0 + 1)..39
      BY NextLaneIs
    <3> QED BY <1>2, <3>1
  <2>3. UNCHANGED <<asked, text, last, loaded, todo, edits, cases, used, verdict>>
    BY <1>2 DEF source
  <2>4. CaseTypes' /\ BehindKept' /\ SolvedIsWhole'
    BY <2>2, <2>3 DEF CaseInv, CaseTypes, IsRequest, Holes, BehindKept, SolvedIsWhole
  <2>5. Visiting'
    BY <2>1, <2>2, <2>3 DEF CaseInv, Visiting, Holes
  <2>6. used < asked.budget /\ used <= Bound
    BY <1>2, Bounds DEF MayUse, CaseInv
  <2>7. asked' = asked /\ used' = used /\ Most' = Most /\ Bound' = Bound
    BY <2>3 DEF Most, Bound, Lesser, Greater
  <2>8. asked.budget \in Nat /\ used \in Nat
    BY Bounds DEF CaseInv
  <2>9. Spending'
    BY <2>6, <2>7, <2>8 DEF Spending
  <2> QED BY <2>4, <2>5, <2>9 DEF CaseInv
<1> QED BY <1>1, <1>2 DEF VisitGoal

\* The edits lie in the region: what follows it is where the region now ends.
LEMMA EditedIs ==
  ASSUME CaseTypes, edits # <<>>
  PROVE  /\ Edited \in Seq(Pieces)
         /\ last + Delta \in 0..Len(Edited)
         /\ SubSeq(Edited, last + Delta + 1, Len(Edited)) = SubSeq(text, last + 1, Len(text))
<1> DEFINE N == Len(text)
<1> DEFINE s == [i \in 1..N |-> IF i \in DOMAIN edits THEN edits[i] ELSE <<text[i]>>]
<1>1. text \in Seq(Pieces) /\ N \in Nat /\ N = Len(text) /\ last \in 0..N
  BY DEF CaseTypes
<1>2. DOMAIN edits \subseteq 1..last /\ DOMAIN edits # {}
  BY DEF CaseTypes, Holes
<1>3. Edited = FlattenSeq(s) /\ Delta = Len(FlattenSeq(s)) - Len(text)
  BY DEF Edited, Delta
<1> HIDE DEF N
<1>4. last \in 1..N
  BY <1>1, <1>2
<1>5. s \in [1..N -> Seq(Pieces)]
  <2>1. \A i \in 1..N : <<text[i]>> \in Seq(Pieces)
    BY <1>1
  <2>2. \A i \in DOMAIN edits : edits[i] \in Seq(Pieces)
    BY DEF CaseTypes
  <2> QED BY <2>1, <2>2
<1>6. \A i \in (last + 1)..N : s[i] = <<text[i]>>
  <2> TAKE i \in (last + 1)..N
  <2>1. i \in 1..N /\ i \notin DOMAIN edits
    BY <1>1, <1>2
  <2> QED BY <2>1
<1> HIDE DEF s
<1>7. Untouched(text, N, s, last)
  BY <1>6 DEF Untouched
<1>8. FlattenSeq(s) \in Seq(Pieces) /\ Carried(text, last, FlattenSeq(s), last + (Len(FlattenSeq(s)) - Len(text)))
  BY <1>1, <1>4, <1>5, <1>7, FlattenKeepsTail
<1> QED BY <1>3, <1>8 DEF Carried

LEMMA CommitKeeps == ASSUME CaseInv, CommitLevel PROVE CaseInv'
<1>1. CASE Concluded("no-proof")
  BY <1>1, ConcludedKeeps
<1>2. CASE /\ text' = Edited /\ last' = last + Delta
           /\ todo' = {} /\ edits' = <<>>
           /\ verdict' = IF Holes(text', last') = {} THEN Answer(text', last') ELSE verdict
           /\ UNCHANGED <<asked, loaded, learnt, lane, facts, cases, tried, used, overdue>>
  <2>1. lane = 0 /\ edits # <<>> /\ verdict = "searching"
    BY DEF CommitLevel, Between, LevelOver
  <2>2. /\ Edited \in Seq(Pieces) /\ last + Delta \in 0..Len(Edited)
        /\ SubSeq(Edited, last + Delta + 1, Len(Edited)) = SubSeq(text, last + 1, Len(text))
    BY <2>1, EditedIs DEF CaseInv
  <2>3. DOMAIN edits' = {} /\ edits' = <<>> /\ todo' = {} /\ lane' = 0
    BY <1>2, <2>1
  <2>4. /\ IsRequest(asked)' /\ (used \in Nat)' /\ (cases \subseteq [binds : BOOLEAN, leaves : Nat])'
        /\ (text \in Seq(Pieces))' /\ (last \in 0..Len(text))'
    BY <1>2, <2>2 DEF CaseInv, CaseTypes, IsRequest
  <2>5. CaseTypes'
    BY <2>3, <2>4 DEF CaseTypes
  <2>6. BehindKept'
    BY <1>2, <2>2 DEF CaseInv, BehindKept
  <2>7. Visiting'
    BY <2>3 DEF Visiting
  <2>8. SolvedIsWhole'
    BY <1>2, <2>1 DEF SolvedIsWhole
  <2>9. Spending'
    BY <1>2, <2>1 DEF CaseInv, Spending, Bound, Most, Lesser, Greater
  <2> QED BY <2>5, <2>6, <2>7, <2>8, <2>9 DEF CaseInv
<1> QED BY <1>1, <1>2 DEF CommitLevel

LEMMA TroubleKeeps == ASSUME CaseInv, CaseRaise \/ CaseExpire PROVE CaseInv'
<1>1. CASE CaseRaise
  BY <1>1, ConcludedKeeps DEF CaseRaise
<1>2. CASE CaseExpire
  <2>1. UNCHANGED <<asked, text, last, loaded, todo, lane, edits, cases, used, verdict>>
    BY <1>2 DEF CaseExpire, source, goal
  <2> QED BY <2>1 DEF CaseInv, CaseTypes, IsRequest, Holes, BehindKept, Visiting, SolvedIsWhole, Spending, Bound, Most, Lesser, Greater
<1> QED BY <1>1, <1>2

\* A search that begins has its goal for the region, and used nothing yet.
LEMMA StartIs ==
  ASSUME NEW r, IsRequest(r)
  PROVE  /\ <<"hole">> \o r.behind \in Seq(Pieces) /\ 1 \in 0..Len(<<"hole">> \o r.behind)
         /\ SubSeq(<<"hole">> \o r.behind, 1 + 1, Len(<<"hole">> \o r.behind)) = r.behind
<1>1. "hole" \in Pieces /\ r.behind \in Seq(Pieces)
  BY DEF Pieces, IsRequest
<1> DEFINE b == r.behind
<1> HIDE DEF b
<1>2. /\ <<"hole">> \o b \in Seq(Pieces) /\ Len(<<"hole">> \o b) = Len(b) + 1 /\ Len(b) \in Nat
      /\ SubSeq(<<"hole">> \o b, 2, Len(<<"hole">> \o b)) = b
  BY <1>1, Behind1 DEF b
<1> QED BY <1>2 DEF b

LEMMA BeginsKeeps == ASSUME IsRequest(asked'), Begins(asked', loaded') PROVE CaseInv'
<1>1. /\ text' = <<"hole">> \o asked'.behind /\ last' = 1 /\ todo' = {} /\ lane' = 0
      /\ edits' = <<>> /\ cases' = {} /\ used' = 0 /\ verdict' # "solved"
  BY DEF Begins
<1>2. DOMAIN edits' = {}
  BY <1>1
<1>3. CaseTypes' /\ BehindKept'
  BY <1>1, <1>2, StartIs DEF CaseTypes, BehindKept
<1>4. Visiting' /\ SolvedIsWhole'
  BY <1>1 DEF Visiting, SolvedIsWhole
<1>5. Spending'
  <2>1. asked'.budget \in Nat
    BY DEF IsRequest
  <2>2. 0 <= asked'.budget + Greater(Greater(1, MaxQueries), Lesser(WrapSlice, asked'.budget))
    BY <2>1, Bounds DEF Greater, Lesser
  <2> QED BY <1>1, <2>2 DEF Spending, Bound, Most, Lesser, Greater
<1> QED BY <1>3, <1>4, <1>5 DEF CaseInv

LEMMA CallerKeeps == ASSUME CaseInv, CallerSteps PROVE CaseInv'
<1>1. CASE IsRequest(asked') /\ Begins(asked', loaded')
  BY <1>1, BeginsKeeps
<1>2. CASE UNCHANGED <<asked, source, goal, used, verdict>>
  <2>1. UNCHANGED <<asked, text, last, loaded, todo, lane, edits, cases, used, verdict>>
    BY <1>2 DEF source, goal
  <2> QED BY <2>1 DEF CaseInv, CaseTypes, IsRequest, Holes, BehindKept, Visiting, SolvedIsWhole, Spending, Bound, Most, Lesser, Greater
<1> QED BY <1>1, <1>2 DEF CallerSteps

\* The invariant holds at the start, is kept, and so always holds.
LEMMA CaseStarts == ASSUME CaseInit PROVE CaseInv
<1>1. IsRequest(asked)
  <2>1. IsRequest(NotAsked)
    BY DEF IsRequest, NotAsked
  <2> QED BY <2>1, CaseAssumption DEF CaseInit
<1>2. /\ text = <<"hole">> \o asked.behind /\ last = 1 /\ todo = {} /\ lane = 0
      /\ edits = <<>> /\ cases = {} /\ used = 0 /\ verdict # "solved"
  BY DEF CaseInit
<1>3. DOMAIN edits = {}
  BY <1>2
<1>4. CaseTypes /\ BehindKept
  BY <1>1, <1>2, <1>3, StartIs DEF CaseTypes, BehindKept
<1>5. Visiting /\ SolvedIsWhole
  BY <1>2 DEF Visiting, SolvedIsWhole
<1>6. Spending
  <2>1. Bound \in Nat
    BY <1>4, Bounds
  <2> QED BY <1>2, <2>1 DEF Spending
<1> QED BY <1>4, <1>5, <1>6 DEF CaseInv

LEMMA CaseKeeps == CaseInv /\ [CaseNext]_caseVars => CaseInv'
<1> SUFFICES ASSUME CaseInv, [CaseNext]_caseVars PROVE CaseInv'
  OBVIOUS
<1>1. CASE UNCHANGED caseVars
  <2>1. UNCHANGED <<asked, text, last, loaded, todo, lane, edits, cases, used, verdict>>
    BY <1>1 DEF caseVars, source, goal
  <2> QED BY <2>1 DEF CaseInv, CaseTypes, IsRequest, Holes, BehindKept, Visiting, SolvedIsWhole, Spending, Bound, Most, Lesser, Greater
<1> QED BY <1>1, LaneKeeps, LoadKeeps, VisitKeeps, CommitKeeps, TroubleKeeps, CallerKeeps DEF CaseNext, CaseSteps

LEMMA CaseInvariant == CaseSpec => []CaseInv
BY CaseStarts, CaseKeeps, PTL DEF CaseSpec

\* Goals and edits are always positions in the source the session holds, no edited
\* goal is visited again, the text behind the region is never touched however often
\* the edits move it (_apply_disjoint_edits and current_end), and a region that is
\* reported as solved has no hole.
THEOREM EditsAlwaysFit == CaseSpec => []EditsFitTheSource
<1>1. CaseInv => EditsFitTheSource
  BY DEF CaseInv, Visiting, BehindKept, SolvedIsWhole, EditsFitTheSource
<1> QED BY <1>1, CaseInvariant, PTL

\* However many goals and levels a search has, it uses at most one action, or one
\* round of closures, or the searches for the subjects of one wrapped recursive call
\* (recursive_calls.py:525) beyond its allowance: what the lanes take without asking
\* available(), and what nested searches report beyond their slice, does not add up.
THEOREM OverspendAlwaysBounded == CaseSpec => []OverspendBounded
<1>1. CaseInv => OverspendBounded
  BY DEF CaseInv, Spending, Bound, Most, OverspendBounded
<1> QED BY <1>1, CaseInvariant, PTL

-----------------------------------------------------------------------------
(* The joint search: its states and its frontier.                          *)

States == [src : Seq(Pieces), depth : Nat, wide : BOOLEAN, bwide : BOOLEAN, noTerms : BOOLEAN, noObs : BOOLEAN]

Frontiers == [queue : SUBSET States, deferred : Seq(States), saw : BOOLEAN, made : SUBSET States, cut : SUBSET States]

Works ==
  [here : Nat, start : Nat, cap : Nat, terms : BOOLEAN, needs : BOOLEAN, rel : BOOLEAN, tried : BOOLEAN,
   cased : BOOLEAN, cons : BOOLEAN, again : BOOLEAN, omitted : BOOLEAN, programs : Nat, restore : BOOLEAN,
   back : {"loop", "programs", "refine"}]

\* What waits in a frontier: every state that was proposed is expanded or waits,
\* unless the search has seen exhaustion.
Waits(f) == {Digest(q) : q \in f.queue} \cup {Digest(f.deferred[i]) : i \in DOMAIN f.deferred}

Whole(f) ==
  /\ seen \cup Waits(f) \subseteq f.made
  /\ ~f.saw => f.made \subseteq seen \cup Waits(f)

\* The same but for one state, which is at hand.
WholeBut(f, d) ==
  /\ seen \cup Waits(f) \subseteq f.made
  /\ ~f.saw => f.made \subseteq (seen \cup Waits(f)) \cup {d}

\* What the frontier's operations do to it.
Grows(f, g) ==
  /\ g \in Frontiers
  /\ f.saw => g.saw
  /\ f.made \subseteq g.made
  /\ g.cut = f.cut
  /\ Whole(f) => Whole(g)

LEMMA DigestIs ==
  ASSUME NEW s \in States
  PROVE  /\ Digest(s) \in States
         /\ Digest(s).src = s.src /\ Digest(s).wide = s.wide /\ Digest(s).bwide = s.bwide
BY DEF Digest, States

LEMMA WidenedIs ==
  ASSUME NEW s \in States
  PROVE  /\ Widened(s) \in States /\ Widened(s).src = s.src /\ Widened(s).wide
         /\ [s EXCEPT !.bwide = TRUE] \in States
         /\ [s EXCEPT !.bwide = TRUE].src = s.src /\ [s EXCEPT !.bwide = TRUE].wide = s.wide /\ [s EXCEPT !.bwide = TRUE].bwide
         /\ [s EXCEPT !.noTerms = TRUE] \in States /\ [s EXCEPT !.noObs = TRUE] \in States
BY DEF Widened, States

LEMMA RootIs == ASSUME NEW t, t.goals \in Nat PROVE Root(t) \in States
<1>1. [i \in 1..t.goals |-> "hole"] \in Seq(Pieces)
  BY DEF Pieces
<1> QED BY <1>1 DEF Root, States

LEMMA PlaceIs ==
  ASSUME NEW s \in Seq(Pieces), NEW i \in 1..Len(s), NEW items \in Seq(Pieces)
  PROVE  Place(s, i, items) \in Seq(Pieces) /\ SubSeq(s, 1, i - 1) \in Seq(Pieces) /\ SubSeq(s, i + 1, Len(s)) \in Seq(Pieces)
<1>1. SubSeq(s, 1, i - 1) \in Seq(Pieces) /\ SubSeq(s, i + 1, Len(s)) \in Seq(Pieces)
  OBVIOUS
<1> QED BY <1>1 DEF Place

LEMMA SawGrows ==
  ASSUME NEW f \in Frontiers, NEW yes \in BOOLEAN
  PROVE  Grows(f, Saw(f, yes)) /\ (yes => Saw(f, yes).saw) /\ Saw(f, yes).queue = f.queue
<1> DEFINE g == Saw(f, yes)
<1>1. g = [f EXCEPT !.saw = f.saw \/ yes]
  BY DEF Saw
<1>2. (f.saw \/ yes) \in BOOLEAN
  OBVIOUS
<1>3. g \in Frontiers /\ g.queue = f.queue /\ g.deferred = f.deferred /\ g.made = f.made /\ g.cut = f.cut /\ g.saw = (f.saw \/ yes)
  BY <1>1, <1>2 DEF Frontiers
<1> HIDE DEF g
<1>4. Waits(g) = Waits(f)
  BY <1>3 DEF Waits
<1> QED BY <1>3, <1>4, Zenon DEF Grows, Whole, g

\* What growing is, for a frontier with one more state in its queue.
LEMMA QueuedGrows ==
  ASSUME NEW f \in Frontiers, NEW g \in Frontiers, NEW s \in States,
         g.queue = f.queue \cup {s}, g.made = f.made \cup {Digest(s)}, g.cut = f.cut, f.saw => g.saw,
         \/ g.deferred = f.deferred
         \/ g.saw /\ \A i \in DOMAIN g.deferred : i \in DOMAIN f.deferred /\ g.deferred[i] = f.deferred[i]
  PROVE  Grows(f, g) /\ (WholeBut(f, Digest(s)) => Whole(g))
<1>1. Waits(g) \subseteq Waits(f) \cup {Digest(s)}
  BY DEF Waits
<1>2. g.deferred = f.deferred => Waits(g) = Waits(f) \cup {Digest(s)}
  BY DEF Waits
<1>3. CASE g.deferred = f.deferred
  <2>1. Grows(f, g)
    BY <1>2, <1>3, Zenon DEF Grows, Whole
  <2> DEFINE d == Digest(s)  A == Waits(f)
  <2>2. Waits(g) = A \cup {d} /\ g.made = f.made \cup {d} /\ (f.saw => g.saw)
    BY <1>2, <1>3
  <2> HIDE DEF d, A
  <2>3. WholeBut(f, d) => Whole(g)
    BY <2>2 DEF WholeBut, Whole, A
  <2> QED BY <2>1, <2>3 DEF d
<1>4. CASE g.saw /\ \A i \in DOMAIN g.deferred : i \in DOMAIN f.deferred /\ g.deferred[i] = f.deferred[i]
  <2>1. Grows(f, g)
    BY <1>1, <1>4, Zenon DEF Grows, Whole
  <2>2. WholeBut(f, Digest(s)) => Whole(g)
    BY <1>1, <1>4, Zenon DEF WholeBut, Whole
  <2> QED BY <2>1, <2>2
<1> QED BY <1>3, <1>4

LEMMA SameGrows == ASSUME NEW f \in Frontiers PROVE Grows(f, f)
BY DEF Grows

LEMMA GrowsOn == ASSUME NEW f, NEW g, NEW h, Grows(f, g), Grows(g, h) PROVE Grows(f, h)
BY Zenon DEF Grows

LEMMA EnqueuedGrows ==
  ASSUME NEW f \in Frontiers, NEW s \in States
  PROVE  /\ Grows(f, Enqueued(f, s))
         /\ Whole(f) => Digest(s) \in Enqueued(f, s).made
         /\ WholeBut(f, Digest(s)) => Whole(Enqueued(f, s))
<1> DEFINE g == Enqueued(f, s)  d == Digest(s)
<1>0. d \in States /\ f.queue \subseteq States /\ f.deferred \in Seq(States) /\ f.saw \in BOOLEAN /\ f.made \subseteq States /\ f.cut \subseteq States
  BY DigestIs DEF Frontiers
<1>1. CASE Known(f, s)
  <2>1. g = f
    BY <1>1 DEF Enqueued
  <2>2. d \in seen \cup Waits(f)
    BY <1>1 DEF Known, Waits
  <2>3. WholeBut(f, d) => Whole(f)
    <3> HIDE DEF d
    <3> QED BY <2>2 DEF WholeBut, Whole
  <2> QED BY <2>1, <2>2, <2>3, SameGrows, Zenon DEF Whole
<1>2. CASE ~Known(f, s) /\ Cardinality(f.queue) >= task.limit
  <2> DEFINE h == [f EXCEPT !.made = f.made \cup {d}, !.saw = TRUE]
  <2>1. g = h
    BY <1>2 DEF Enqueued
  <2>2. h \in Frontiers /\ h.queue = f.queue /\ h.deferred = f.deferred /\ h.made = f.made \cup {d} /\ h.cut = f.cut /\ h.saw
    BY <1>0 DEF Frontiers
  <2> HIDE DEF h
  <2>3. Waits(h) = Waits(f)
    BY <2>2 DEF Waits
  <2>4. Grows(f, h) /\ d \in h.made /\ (WholeBut(f, d) => Whole(h))
    BY <2>2, <2>3, Zenon DEF Grows, Whole, WholeBut
  <2> QED BY <2>1, <2>4
<1>3. CASE ~Known(f, s) /\ ~(Cardinality(f.queue) >= task.limit)
  <2> DEFINE tight == Waiting(f) >= task.limit
             front == IF tight THEN Front(f.deferred) ELSE f.deferred
             saw == f.saw \/ tight
             h == [f EXCEPT !.queue = f.queue \cup {s}, !.made = f.made \cup {d}, !.saw = saw, !.deferred = front]
  <2>1. g = h
    BY <1>3 DEF Enqueued
  <2>2. front \in Seq(States) /\ saw \in BOOLEAN /\ (f.saw => saw)
    <3>1. Front(f.deferred) \in Seq(States)
      BY <1>0 DEF Front
    <3> QED BY <1>0, <3>1
  <2>3. front = f.deferred \/ (saw /\ \A i \in DOMAIN front : i \in DOMAIN f.deferred /\ front[i] = f.deferred[i])
    <3>1. \A i \in DOMAIN Front(f.deferred) : i \in DOMAIN f.deferred /\ Front(f.deferred)[i] = f.deferred[i]
      BY <1>0 DEF Front
    <3> QED BY <3>1
  <2> HIDE DEF front, saw, tight
  <2>4. h \in Frontiers /\ h.queue = f.queue \cup {s} /\ h.deferred = front /\ h.made = f.made \cup {d} /\ h.cut = f.cut /\ h.saw = saw
    BY <1>0, <2>2 DEF Frontiers
  <2> HIDE DEF h
  <2>5. Grows(f, h) /\ (WholeBut(f, d) => Whole(h))
    BY <2>2, <2>3, <2>4, QueuedGrows
  <2>6. d \in h.made
    BY <2>4
  <2> QED BY <2>1, <2>5, <2>6
<1> QED BY <1>1, <1>2, <1>3

LEMMA DeferredGrows ==
  ASSUME NEW f \in Frontiers, NEW s \in States
  PROVE  Grows(f, Deferred(f, s))
<1> DEFINE g == Deferred(f, s)  d == Digest(s)
<1>0. d \in States /\ f.queue \subseteq States /\ f.deferred \in Seq(States) /\ f.saw \in BOOLEAN /\ f.made \subseteq States /\ f.cut \subseteq States
  BY DigestIs DEF Frontiers
<1>1. CASE Waiting(f) >= task.limit
  <2> DEFINE h == [f EXCEPT !.made = f.made \cup {d}, !.saw = TRUE]
  <2>1. g = h
    BY <1>1 DEF Deferred
  <2>2. h \in Frontiers /\ h.queue = f.queue /\ h.deferred = f.deferred /\ h.made = f.made \cup {d} /\ h.cut = f.cut /\ h.saw
    BY <1>0 DEF Frontiers
  <2> HIDE DEF h
  <2>3. Waits(h) = Waits(f)
    BY <2>2 DEF Waits
  <2>4. Grows(f, h)
    BY <2>2, <2>3, Zenon DEF Grows, Whole
  <2> QED BY <2>1, <2>4
<1>2. CASE ~(Waiting(f) >= task.limit)
  <2> DEFINE after == Append(f.deferred, s)
             h == [f EXCEPT !.made = f.made \cup {d}, !.deferred = after]
  <2>1. g = h
    BY <1>2 DEF Deferred
  <2>2. /\ after \in Seq(States)
        /\ Len(after) = Len(f.deferred) + 1 /\ after[Len(f.deferred) + 1] = s
        /\ \A i \in 1..Len(f.deferred) : after[i] = f.deferred[i]
        /\ DOMAIN f.deferred = 1..Len(f.deferred) /\ DOMAIN after = 1..Len(after) /\ Len(f.deferred) \in Nat
    BY <1>0
  <2> HIDE DEF after
  <2>3. h \in Frontiers /\ h.queue = f.queue /\ h.deferred = after /\ h.made = f.made \cup {d} /\ h.cut = f.cut /\ h.saw = f.saw
    BY <1>0, <2>2 DEF Frontiers
  <2> HIDE DEF h
  <2>4. {Digest(after[i]) : i \in DOMAIN after} = {Digest(f.deferred[i]) : i \in DOMAIN f.deferred} \cup {d}
    <3> DEFINE D(i) == Digest(after[i])
    <3>1. DOMAIN after = DOMAIN f.deferred \cup {Len(f.deferred) + 1}
      BY <2>2
    <3>2. D(Len(f.deferred) + 1) = d /\ \A i \in DOMAIN f.deferred : D(i) = Digest(f.deferred[i])
      BY <2>2
    <3> HIDE DEF D, d
    <3>3. {D(i) : i \in DOMAIN after} = {Digest(f.deferred[i]) : i \in DOMAIN f.deferred} \cup {d}
      BY <3>1, <3>2, Zenon
    <3> QED BY <3>3 DEF D
  <2>5. Waits(h) = Waits(f) \cup {d}
    <3> DEFINE A == {Digest(q) : q \in f.queue}  B == {Digest(f.deferred[i]) : i \in DOMAIN f.deferred}
    <3>1. Waits(f) = A \cup B /\ Waits(h) = A \cup (B \cup {d})
      BY <2>3, <2>4, Zenon DEF Waits
    <3> HIDE DEF A, B
    <3> QED BY <3>1
  <2>6. Grows(f, h)
    BY <2>3, <2>5, Zenon DEF Grows, Whole
  <2> QED BY <2>1, <2>6
<1> QED BY <1>1, <1>2

LEMMA FollowsGrows ==
  ASSUME NEW f \in Frontiers, NEW term, NEW terms, Child(term, 1) \in States
  PROVE  Grows(f, Follows(f, term, terms))
BY EnqueuedGrows, SameGrows DEF Follows

-----------------------------------------------------------------------------
(* The invariant of the joint search.                                      *)

JointTypes ==
  /\ task.goals \in Nat /\ task.limit \in Nat /\ task.depth \in Nat
  /\ state \in States /\ frontier \in Frontiers /\ seen \subseteq States
  /\ pending \in [state : States, start : Nat \cup {-1}]
  /\ work \in Works
  /\ counted \in Nat /\ spent \in Nat /\ spent <= counted /\ spent <= task.limit
  /\ level \in Nat

\* Before the case search may leave the session elsewhere, and after.
Early == {"observe", "equations", "focus", "case"}
Late == {"programs", "construct", "widen", "late case", "refine", "split"}
AtWork == Early \cup Late \cup {"case search"}

\* The session holds the state at hand; or a case was accepted, and the goal needs
\* no alternatives.
SessionKept ==
  /\ step \in {"select", "validate"} \cup Early => held = state.src
  /\ step \in Late => held = state.src \/ (work.cased /\ ~Demanded)
  /\ step = "case search" => (work.restore \/ ~Demanded) /\ work.back \in {"programs", "refine"}

\* A narrow allowance is made good: the state with its declaration widened was
\* proposed, or the state waits to be proposed with the task's allowance.
Narrow ==
  \/ work.cap = task.limit
  \/ work.cap = GoalLimit /\ ~state.wide /\ Digest(Widened(state)) \in frontier.made
  \/ work.cap = GoalLimit /\ ~state.bwide /\ pending = [state |-> state, start |-> work.start]

AtGoal ==
  /\ step = "select" => state.depth < task.depth
  /\ step \in AtWork => work.here \in 1..Len(state.src) /\ state.depth < task.depth /\ work.start <= counted /\ Narrow
  /\ step \in {"load", "select", "validate", "batch"} => pending = NoPending
  /\ step = "batch" => counted = 0 /\ spent = 0

\* A state of the same source with more to try was proposed.
Better(d, f) == \E e \in f.made : e.src = d.src /\ ((e.wide /\ ~d.wide) \/ (e.wide = d.wide /\ e.bwide /\ ~d.bwide))

\* The pending state was cut: what it used is its narrow allowance.
CutPending(d) ==
  /\ pending.start # -1 /\ d = Digest(pending.state) /\ ~pending.state.bwide
  /\ counted - pending.start >= GoalLimit

\* Nothing was given up, nothing counted that was not charged, and there is more.
Sane == ~frontier.saw /\ counted = spent /\ Left > 0

CutsRecover == Sane => \A d \in frontier.cut : Better(d, frontier) \/ CutPending(d)

Ending ==
  /\ step \notin {"end", "done"} => status = "none"
  /\ step = "end" => status \in {"none", "verified", "toolchain-error", "resource-exhausted", "invalid-task", "policy-rejected"}
  /\ step = "end" /\ status = "none" => pending = NoPending /\ (~frontier.saw => frontier.queue = {} /\ frontier.deferred = <<>>)
  /\ step = "validate" => GoalsOf(state) = {}
  /\ step = "end" /\ status = "verified" => proof = state.src /\ held = proof /\ GoalsOf(state) = {}

JointInv == JointTypes /\ SessionKept /\ Whole(frontier) /\ AtGoal /\ CutsRecover /\ Ending /\ AnswersAreHonest

-----------------------------------------------------------------------------
(* The specialists.                                                        *)

\* A step of a specialist.
Uncharged == \E n, m \in Nat : counted' = counted + n /\ spent' = spent + m /\ m <= n /\ m <= Left

GrowsOrCuts ==
  \/ Grows(frontier, frontier')
  \/ frontier' = Cut(frontier) /\ GoalLeft = 0 /\ counted' = counted /\ spent' = spent

Forward ==
  /\ step \in AtWork /\ step' \in AtWork \cup {"loop"}
  /\ UNCHANGED <<task, state, status, proof, pending, seen>>
  /\ work' \in Works /\ work'.here = work.here /\ work'.start = work.start /\ work'.cap = work.cap
  /\ Uncharged /\ GrowsOrCuts
  /\ SessionKept' /\ level' \in Nat

LEMMA Steps ==
  /\ \A s \in AtWork : s \notin {"end", "done", "load", "select", "validate", "batch", "loop"}
  /\ \A s \in Early : s \notin Late /\ s # "case search"
  /\ \A s \in Late : s # "case search"
BY DEF AtWork, Early, Late

LEMMA CutIs ==
  ASSUME JointTypes
  PROVE  /\ Cut(frontier) \in Frontiers
         /\ Cut(frontier).queue = frontier.queue /\ Cut(frontier).deferred = frontier.deferred
         /\ Cut(frontier).saw = frontier.saw /\ Cut(frontier).made = frontier.made
         /\ Cut(frontier).cut = frontier.cut \cup {Digest(state)}
         /\ Waits(Cut(frontier)) = Waits(frontier)
<1> DEFINE g == Cut(frontier)
<1>1. Digest(state) \in States /\ frontier \in Frontiers
  BY DigestIs DEF JointTypes
<1>2. g = [frontier EXCEPT !.cut = frontier.cut \cup {Digest(state)}]
  BY DEF Cut
<1>3. /\ g \in Frontiers /\ g.queue = frontier.queue /\ g.deferred = frontier.deferred /\ g.saw = frontier.saw
      /\ g.made = frontier.made /\ g.cut = frontier.cut \cup {Digest(state)}
  BY <1>1, <1>2 DEF Frontiers
<1> HIDE DEF g
<1>4. Waits(g) = Waits(frontier)
  BY <1>3 DEF Waits
<1> QED BY <1>3, <1>4 DEF g

LEMMA GrowsTypes == ASSUME JointTypes, GrowsOrCuts, Whole(frontier), seen' = seen
  PROVE  /\ frontier' \in Frontiers /\ frontier.made \subseteq frontier'.made /\ (frontier.saw => frontier'.saw)
         /\ Whole(frontier)'
<1>1. CASE Grows(frontier, frontier')
  <2>1. Whole(frontier') /\ frontier' \in Frontiers /\ frontier.made \subseteq frontier'.made /\ (frontier.saw => frontier'.saw)
    BY <1>1, Zenon DEF Grows
  <2> QED BY <2>1 DEF Whole, Waits
<1>2. CASE frontier' = Cut(frontier)
  <2> QED BY <1>2, CutIs DEF Whole, Waits
<1> QED BY <1>1, <1>2 DEF GrowsOrCuts

\* A state that was cut, and for which there is more, stays so.
LEMMA CutsStay ==
  ASSUME JointInv, task' = task, Uncharged, pending' = pending \/ pending = NoPending,
         frontier.made \subseteq frontier'.made, frontier.saw => frontier'.saw, Sane'
  PROVE  Sane /\ \A c \in frontier.cut : Better(c, frontier)' \/ CutPending(c)'
<1>1. PICK n, m \in Nat : counted' = counted + n /\ spent' = spent + m /\ m <= n /\ m <= Left
  BY DEF Uncharged
<1>2. counted \in Nat /\ spent \in Nat /\ spent <= counted /\ task.limit \in Nat /\ CutsRecover
  BY DEF JointInv, JointTypes
<1>3. Sane
  <2>1. ~frontier'.saw /\ counted' = spent' /\ task.limit - spent' > 0
    BY DEF Sane, Left
  <2>2. counted = spent /\ task.limit - spent > 0
    BY <1>1, <1>2, <2>1
  <2> QED BY <2>1, <2>2 DEF Sane, Left
<1>4. ASSUME NEW c \in frontier.cut PROVE Better(c, frontier)' \/ CutPending(c)'
  <2>1. Better(c, frontier) \/ CutPending(c)
    BY <1>2, <1>3, <1>4 DEF CutsRecover
  <2>2. CASE Better(c, frontier)
    BY <2>2 DEF Better
  <2>3. CASE CutPending(c)
    <3>1. pending' = pending /\ pending.start \in Nat /\ GoalLimit \in Nat
      BY <2>3, JointAssumption DEF JointInv, JointTypes, CutPending, NoPending
    <3> QED BY <1>1, <1>2, <2>3, <3>1 DEF CutPending, Digest
  <2> QED BY <2>1, <2>2, <2>3
<1> QED BY <1>3, <1>4

LEMMA ForwardKeeps == ASSUME JointInv, Forward PROVE JointInv'
<1>0. /\ JointTypes /\ SessionKept /\ Whole(frontier) /\ AtGoal /\ CutsRecover /\ Ending
      /\ task' = task /\ state' = state /\ status' = status /\ proof' = proof /\ pending' = pending /\ seen' = seen
      /\ step \in AtWork /\ step' \in AtWork \cup {"loop"} /\ SessionKept' /\ level' \in Nat
      /\ work' \in Works /\ work'.here = work.here /\ work'.start = work.start /\ work'.cap = work.cap
  BY DEF JointInv, Forward
<1>1. frontier' \in Frontiers /\ frontier.made \subseteq frontier'.made /\ (frontier.saw => frontier'.saw) /\ Whole(frontier)'
  BY <1>0, GrowsTypes DEF Forward
<1>2. PICK n, m \in Nat : counted' = counted + n /\ spent' = spent + m /\ m <= n /\ m <= Left
  BY DEF Forward, Uncharged
<1>3. counted \in Nat /\ spent \in Nat /\ spent <= counted /\ spent <= task.limit /\ task.limit \in Nat
  BY <1>0 DEF JointTypes
<1>4. counted' \in Nat /\ spent' \in Nat /\ spent' <= counted' /\ spent' <= task.limit /\ counted <= counted'
  BY <1>2, <1>3 DEF Left
<1>5. JointTypes'
  BY <1>0, <1>1, <1>4 DEF JointTypes
<1>6. step' \notin {"end", "done", "load", "select", "validate", "batch"}
  BY <1>0, Steps
<1>7. AtGoal'
  <2>1. work.here \in 1..Len(state.src) /\ state.depth < task.depth /\ work.start <= counted /\ Narrow
    BY <1>0 DEF AtGoal
  <2>2. Narrow'
    BY <1>0, <1>1, <2>1 DEF Narrow, Digest, Widened
  <2>3. work.start \in Nat
    BY <1>0 DEF JointTypes, Works
  <2>4. work'.start <= counted'
    BY <1>0, <1>3, <1>4, <2>1, <2>3
  <2> QED BY <1>0, <1>6, <2>1, <2>2, <2>4 DEF AtGoal
<1>8. Ending' /\ AnswersAreHonest'
  <2>1. status = "none"
    BY <1>0, Steps DEF Ending
  <2> QED BY <1>0, <1>6, <2>1 DEF Ending, AnswersAreHonest
<1>9. CutsRecover'
  <2> SUFFICES ASSUME Sane', NEW d \in frontier'.cut PROVE Better(d, frontier)' \/ CutPending(d)'
    BY DEF CutsRecover
  <2>1. Sane
    BY <1>0, <1>1, CutsStay DEF Forward
  <2>2. \A c \in frontier.cut : Better(c, frontier)' \/ CutPending(c)'
    BY <1>0, <1>1, CutsStay DEF Forward
  <2>3. CASE Grows(frontier, frontier')
    BY <2>2, <2>3 DEF Grows
  <2>4. CASE frontier' = Cut(frontier) /\ GoalLeft = 0 /\ counted' = counted /\ spent' = spent
    <3>1. d \in frontier.cut \/ d = Digest(state)
      BY <1>0, <2>4, CutIs
    <3>2. CASE d = Digest(state)
      <4>1. work.start <= counted /\ work.start \in Nat /\ work.cap \in Nat /\ Narrow
        BY <1>0 DEF AtGoal, JointTypes, Works
      <4>2. counted - work.start >= work.cap
        BY <1>3, <2>1, <2>4, <4>1 DEF GoalLeft, Lesser, AtLeastZero, Sane, Left
      <4>3. work.cap # task.limit
        BY <1>3, <2>1, <4>1, <4>2 DEF Sane, Left
      <4>4. state \in States
        BY <1>0 DEF JointTypes
      <4>5. CASE work.cap = GoalLimit /\ ~state.wide /\ Digest(Widened(state)) \in frontier.made
        <5> DEFINE e == Digest(Widened(state))
        <5>1. e.src = state.src /\ e.wide /\ d.src = state.src /\ d.wide = state.wide
          BY <3>2, <4>4, DigestIs, WidenedIs
        <5>2. e \in frontier'.made
          BY <1>1, <4>5
        <5> HIDE DEF e
        <5> QED BY <4>5, <5>1, <5>2 DEF Better
      <4>6. CASE work.cap = GoalLimit /\ ~state.bwide /\ pending = [state |-> state, start |-> work.start]
        <5>1. pending.state = state /\ pending.start = work.start
          BY <4>6
        <5> QED BY <1>0, <2>4, <3>2, <4>1, <4>2, <4>6, <5>1 DEF CutPending, Digest
      <4> QED BY <4>1, <4>3, <4>5, <4>6 DEF Narrow
    <3> QED BY <2>2, <3>1, <3>2
  <2> QED BY <2>3, <2>4 DEF Forward, GrowsOrCuts
<1> QED BY <1>0, <1>1, <1>5, <1>7, <1>8, <1>9 DEF JointInv

\* What the steps of the specialists have in common.
LEMMA AtHand ==
  ASSUME JointInv
  PROVE  /\ state \in States /\ frontier \in Frontiers /\ work \in Works
         /\ task.goals \in Nat /\ task.limit \in Nat /\ task.depth \in Nat /\ level \in Nat
         /\ counted \in Nat /\ spent \in Nat /\ Left \in Nat /\ GoalLeft \in Nat /\ GoalLeft <= Left
         /\ step \in AtWork => state.src \in Seq(Pieces) /\ work.here \in 1..Len(state.src) /\ task.depth - state.depth \in Nat
<1>1. JointTypes /\ AtGoal
  BY DEF JointInv
<1>2. /\ state \in States /\ frontier \in Frontiers /\ work \in Works
      /\ task.goals \in Nat /\ task.limit \in Nat /\ task.depth \in Nat /\ level \in Nat
      /\ counted \in Nat /\ spent \in Nat /\ spent <= task.limit
  BY <1>1 DEF JointTypes
<1>3. work.cap \in Nat /\ work.start \in Nat
  BY <1>2 DEF Works
<1>4. state.src \in Seq(Pieces) /\ state.depth \in Nat
  BY <1>2 DEF States
<1>5. Left \in Nat /\ GoalLeft \in Nat /\ GoalLeft <= Left
  BY <1>2, <1>3 DEF Left, GoalLeft, Lesser, AtLeastZero
<1>6. step \in AtWork => work.here \in 1..Len(state.src) /\ state.depth < task.depth
  BY <1>1 DEF AtGoal
<1> QED BY <1>2, <1>4, <1>5, <1>6

LEMMA ChildIs ==
  ASSUME JointInv, step \in AtWork, NEW items \in Seq(Pieces), NEW deeper \in Nat
  PROVE  Child(items, deeper) \in States
<1>1. /\ state.src \in Seq(Pieces) /\ work.here \in 1..Len(state.src) /\ state \in States /\ task.goals \in Nat
  BY AtHand
<1>2. Place(state.src, work.here, items) \in Seq(Pieces)
  BY <1>1, PlaceIs
<1>3. state.depth + deeper \in Nat
  BY <1>1 DEF States
<1>4. Root(task) \in States
  BY <1>1, RootIs
<1> QED BY <1>2, <1>3, <1>4 DEF Child, States

\* What closes a goal, and what splits it.
LEMMA ItemsAre ==
  /\ <<"done">> \in Seq(Pieces) /\ <<"built">> \in Seq(Pieces) /\ <<>> \in Seq(Pieces)
  /\ \A n \in Nat : Clauses(n) \in Seq(Pieces) /\ [i \in 1..n |-> "done"] \in Seq(Pieces)
<1>1. "done" \in Pieces /\ "built" \in Pieces /\ "hole" \in Pieces
  BY DEF Pieces
<1>2. <<"done">> \in Seq(Pieces) /\ <<"built">> \in Seq(Pieces) /\ <<>> \in Seq(Pieces)
  BY <1>1
<1>3. ASSUME NEW n \in Nat PROVE [i \in 1..n |-> "done"] \in Seq(Pieces) /\ [i \in 1..n |-> "hole"] \in Seq(Pieces)
  BY <1>1, <1>3
<1> QED BY <1>2, <1>3 DEF Clauses

LEMMA NoneCharged == ASSUME JointInv, counted' = counted, spent' = spent PROVE Uncharged
<1>1. counted \in Nat /\ spent \in Nat /\ Left \in Nat
  BY AtHand
<1>2. counted' = counted + 0 /\ spent' = spent + 0 /\ 0 <= 0 /\ 0 <= Left
  BY <1>1
<1> QED BY <1>2 DEF Uncharged

LEMMA Counts == ASSUME JointInv, NEW n \in Nat, counted' = counted + n, spent' = spent PROVE Uncharged
<1>1. spent \in Nat /\ Left \in Nat
  BY AtHand
<1>2. counted' = counted + n /\ spent' = spent + 0 /\ 0 <= n /\ 0 <= Left /\ 0 \in Nat
  BY <1>1
<1> QED BY <1>2 DEF Uncharged

LEMMA ChargeKeeps == ASSUME JointInv, NEW n \in Nat, n <= GoalLeft \/ n <= Left, counted' = counted + n, spent' = spent + n PROVE Uncharged
<1>1. Left \in Nat /\ GoalLeft \in Nat /\ GoalLeft <= Left
  BY AtHand
<1>2. counted' = counted + n /\ spent' = spent + n /\ n <= n /\ n <= Left
  BY <1>1
<1> QED BY <1>2 DEF Uncharged

LEMMA FrontierSame == ASSUME JointInv, frontier' = frontier PROVE GrowsOrCuts
BY AtHand, SameGrows DEF GrowsOrCuts

LEMMA FrontierQueued == ASSUME JointInv, NEW s \in States, frontier' = Enqueued(frontier, s) PROVE GrowsOrCuts
BY AtHand, EnqueuedGrows DEF GrowsOrCuts

LEMMA FrontierSaw == ASSUME JointInv, NEW yes \in BOOLEAN, frontier' = Saw(frontier, yes) PROVE GrowsOrCuts
BY AtHand, SawGrows DEF GrowsOrCuts

LEMMA SkipsKeeps == ASSUME JointInv, NEW wanted, Skips(wanted), counted' = counted, spent' = spent PROVE GrowsOrCuts
<1>1. frontier' = frontier \/ (frontier' = Cut(frontier) /\ GoalLeft = 0)
  BY DEF Skips
<1> QED BY <1>1, FrontierSame DEF GrowsOrCuts

LEMMA SettledIs ==
  ASSUME JointInv, UNCHANGED settled
  PROVE  /\ UNCHANGED <<task, state, status, proof, pending, seen>> /\ held' = held /\ level' = level /\ level' \in Nat
BY AtHand DEF settled, jointRest, caseVars, source

SameGoal == work' \in Works /\ work'.here = work.here /\ work'.start = work.start /\ work'.cap = work.cap

LEMMA EarlyForward ==
  ASSUME JointInv, UNCHANGED settled, step \in Early, step' \in Early \cup Late \cup {"loop"}, SameGoal, Uncharged, GrowsOrCuts
  PROVE  Forward
<1>1. held' = held /\ state' = state /\ held = state.src
  BY SettledIs DEF JointInv, SessionKept
<1>2. step' \notin {"select", "validate", "case search"}
  BY DEF Early, Late
<1>3. SessionKept'
  BY <1>1, <1>2 DEF SessionKept
<1> QED BY <1>3, SettledIs DEF Forward, SameGoal, AtWork

LEMMA LateForward ==
  ASSUME JointInv, UNCHANGED settled, step \in Late, step' \in Late \cup {"loop"}, SameGoal, Uncharged, GrowsOrCuts,
         work'.cased = work.cased, work'.needs = work.needs, work'.rel = work.rel
  PROVE  Forward
<1>1. held' = held /\ state' = state /\ (held = state.src \/ (work.cased /\ ~Demanded))
  BY SettledIs DEF JointInv, SessionKept
<1>2. step' \notin {"select", "validate", "case search"} \cup Early
  BY DEF Early, Late
<1>3. SessionKept'
  BY <1>1, <1>2 DEF SessionKept, Demanded
<1> QED BY <1>3, SettledIs DEF Forward, SameGoal, AtWork

LEMMA SameWork == ASSUME JointInv, work' = work PROVE SameGoal
BY AtHand DEF SameGoal

LEMMA InEarly == {"observe", "equations", "focus", "case"} \subseteq Early
BY DEF Early
LEMMA InLate == {"programs", "construct", "widen", "late case", "refine", "split"} \subseteq Late
BY DEF Late

LEMMA ObservedTermsForward == ASSUME JointInv, ObservedTerms PROVE Forward
<1>1. UNCHANGED settled /\ step = "observe" /\ step' \in {"equations", "loop"} /\ spent' = spent /\ work' = work
  BY DEF ObservedTerms, On, Then
<1>2. Uncharged /\ GrowsOrCuts
  <2>1. CASE counted' = counted /\ frontier' = frontier
    BY <1>1, <2>1, NoneCharged, FrontierSame
  <2>2. ASSUME NEW n \in 1..Lesser(MaxObserved, GoalLeft), counted' = counted + n,
               \/ frontier' = frontier
               \/ frontier' = Deferred(Enqueued(frontier, Child(<<"done">>, 1)), [state EXCEPT !.noObs = TRUE])
        PROVE  Uncharged /\ GrowsOrCuts
    <3>1. n \in Nat
      BY AtHand, JointAssumption, <2>2 DEF Lesser
    <3>2. Uncharged
      BY <1>1, <2>2, <3>1, Counts
    <3>3. Child(<<"done">>, 1) \in States /\ [state EXCEPT !.noObs = TRUE] \in States /\ frontier \in Frontiers
      BY <1>1, AtHand, WidenedIs, ChildIs, ItemsAre, InEarly DEF AtWork
    <3> DEFINE c == Child(<<"done">>, 1)  o == [state EXCEPT !.noObs = TRUE]
    <3> HIDE DEF c, o
    <3>4. c \in States /\ o \in States /\ (frontier' = frontier \/ frontier' = Deferred(Enqueued(frontier, c), o))
      BY <2>2, <3>3 DEF c, o
    <3>5. Grows(frontier, Enqueued(frontier, c)) /\ Enqueued(frontier, c) \in Frontiers
      BY <3>3, <3>4, EnqueuedGrows DEF Grows
    <3>6. Grows(frontier, Deferred(Enqueued(frontier, c), o))
      BY <3>4, <3>5, DeferredGrows, GrowsOn
    <3> QED BY <3>2, <3>4, <3>6, FrontierSame DEF GrowsOrCuts
  <2> QED BY <1>1, <2>1, <2>2 DEF ObservedTerms
<1> QED BY <1>1, <1>2, EarlyForward, SameWork, InEarly, InLate

LEMMA ObservedEquationsForward == ASSUME JointInv, ObservedEquations PROVE Forward
<1>1. UNCHANGED settled /\ step = "equations" /\ step' \in {"focus", "loop"} /\ spent' = spent /\ work' = work
  BY DEF ObservedEquations, On, Then
<1>2. Uncharged /\ GrowsOrCuts
  <2>1. CASE counted' = counted /\ frontier' = frontier
    BY <1>1, <2>1, NoneCharged, FrontierSame
  <2>2. CASE counted' = counted + 1 /\ frontier' = frontier
    BY <1>1, <2>2, Counts, FrontierSame
  <2>3. ASSUME counted' = counted + 1, NEW n \in 1..MaxClauses,
               frontier' = Deferred(Enqueued(frontier, Child([i \in 1..n |-> "done"], 1)), [state EXCEPT !.noObs = TRUE])
        PROVE  Uncharged /\ GrowsOrCuts
    <3>1. n \in Nat
      BY CaseAssumption, <2>3
    <3>2. Uncharged
      BY <1>1, <2>3, Counts
    <3>3. Child([i \in 1..n |-> "done"], 1) \in States /\ [state EXCEPT !.noObs = TRUE] \in States /\ frontier \in Frontiers
      <4>1. [i \in 1..n |-> "done"] \in Seq(Pieces)
        BY <3>1, ItemsAre
      <4> QED BY <1>1, <4>1, AtHand, WidenedIs, ChildIs, InEarly DEF AtWork
    <3> DEFINE c == Child([i \in 1..n |-> "done"], 1)  o == [state EXCEPT !.noObs = TRUE]
    <3>4. c \in States /\ o \in States /\ frontier' = Deferred(Enqueued(frontier, c), o)
      BY <2>3, <3>3
    <3> HIDE DEF c, o
    <3>5. Grows(frontier, Enqueued(frontier, c)) /\ Enqueued(frontier, c) \in Frontiers
      BY <3>3, <3>4, EnqueuedGrows DEF Grows
    <3>6. Grows(frontier, Deferred(Enqueued(frontier, c), o))
      BY <3>4, <3>5, DeferredGrows, GrowsOn
    <3> QED BY <3>2, <3>4, <3>6 DEF GrowsOrCuts
  <2> QED BY <1>1, <2>1, <2>2, <2>3 DEF ObservedEquations
<1> QED BY <1>1, <1>2, EarlyForward, SameWork, InEarly, InLate

LEMMA FacetIs ==
  ASSUME NEW A, NEW B, A \subseteq BOOLEAN, B \subseteq BOOLEAN,
         NEW f \in {[needs |-> a, rel |-> b] : a \in A, b \in B}
  PROVE  f.needs \in BOOLEAN /\ f.rel \in BOOLEAN
<1>1. PICK a \in A, b \in B : f = [needs |-> a, rel |-> b]
  OBVIOUS
<1>2. f.needs = a /\ f.rel = b
  BY <1>1
<1> QED BY <1>2

LEMMA FocusedForward == ASSUME JointInv, Focused PROVE Forward
<1>1. UNCHANGED settled /\ step = "focus" /\ step' = "case"
  BY DEF Focused, On, Then
<1>2. PICK n \in (IF state.noTerms THEN {0} ELSE 0..FocusLeft), terms \in SUBSET {<<"done">>, <<"built">>} :
       /\ Account(n)
       /\ \E f \in Facets(terms) : work' = [work EXCEPT !.terms = terms # {}, !.needs = f.needs, !.rel = f.rel]
       /\ \E exhausted \in (IF n = FocusLeft /\ terms = {} /\ ~state.noTerms THEN BOOLEAN ELSE {FALSE}) :
            frontier' = LET kept2 == IF terms = {} THEN Saw(frontier, exhausted)
                                     ELSE Deferred(frontier, [state EXCEPT !.noTerms = TRUE])
                        IN IF state.wide THEN kept2 ELSE Follows(Follows(kept2, <<"done">>, terms), <<"built">>, terms)
  BY Zenon DEF Focused
<1>3. n \in Nat /\ n <= Left
  <2>1. Left \in Nat /\ work.cap \in Nat
    BY AtHand DEF Works
  <2>2. FocusLeft \in Nat /\ FocusLeft <= Left
    BY <2>1 DEF FocusLeft, Lesser
  <2> QED BY <1>2, <2>1, <2>2
<1>4. Uncharged
  BY <1>2, <1>3, ChargeKeeps DEF Account
<1>5. SameGoal
  <2>1. PICK f \in Facets(terms) : work' = [work EXCEPT !.terms = terms # {}, !.needs = f.needs, !.rel = f.rel]
    BY <1>2
  <2>2. f.needs \in BOOLEAN /\ f.rel \in BOOLEAN
    <3> DEFINE A == IF Wants("alternatives") THEN BOOLEAN ELSE {FALSE}
               b == Wants("relation")
               B == {b}
    <3>1. b \in BOOLEAN
      BY DEF Wants
    <3>2. f \in {[needs |-> needs, rel |-> rel] : needs \in A, rel \in B}
      <4>1. Facets(terms) = {[needs |-> needs, rel |-> rel] : needs \in A, rel \in B}
        BY DEF Facets
      <4>2. f \in Facets(terms)
        BY <2>1
      <4> HIDE DEF A, B, b
      <4> DEFINE F == {[needs |-> needs, rel |-> rel] : needs \in A, rel \in B}
      <4>3. Facets(terms) = F
        BY <4>1
      <4> HIDE DEF F
      <4>4. f \in F
        BY <4>2, <4>3
      <4> QED BY <4>4 DEF F
    <3>3. A \subseteq BOOLEAN
      OBVIOUS
    <3> HIDE DEF A, b
    <3>4. B \subseteq BOOLEAN
      BY <3>1
    <3> HIDE DEF B
    <3> QED BY <3>2, <3>3, <3>4, FacetIs
  <2> DEFINE some == terms # {}  needs == f.needs  rel == f.rel
  <2>3. some \in BOOLEAN /\ needs \in BOOLEAN /\ rel \in BOOLEAN /\ work' = [work EXCEPT !.terms = some, !.needs = needs, !.rel = rel]
    BY <2>1, <2>2
  <2> HIDE DEF some, needs, rel
  <2> QED BY <2>3, AtHand DEF SameGoal, Works
<1>6. GrowsOrCuts
  <2>1. PICK exhausted \in BOOLEAN :
            frontier' = LET kept2 == IF terms = {} THEN Saw(frontier, exhausted)
                                     ELSE Deferred(frontier, [state EXCEPT !.noTerms = TRUE])
                        IN IF state.wide THEN kept2 ELSE Follows(Follows(kept2, <<"done">>, terms), <<"built">>, terms)
    BY <1>2
  <2> DEFINE kept2 == IF terms = {} THEN Saw(frontier, exhausted) ELSE Deferred(frontier, [state EXCEPT !.noTerms = TRUE])
             once == Follows(kept2, <<"done">>, terms)
             twice == Follows(once, <<"built">>, terms)
  <2>2. frontier' = IF state.wide THEN kept2 ELSE twice
    BY <2>1
  <2>3. frontier \in Frontiers /\ [state EXCEPT !.noTerms = TRUE] \in States
    BY AtHand, WidenedIs
  <2>4. Grows(frontier, kept2) /\ kept2 \in Frontiers
    <3>1. Grows(frontier, kept2)
      BY <2>3, SawGrows, DeferredGrows
    <3> QED BY <3>1 DEF Grows
  <2>5. Child(<<"done">>, 1) \in States /\ Child(<<"built">>, 1) \in States
    BY <1>1, ChildIs, ItemsAre, InEarly DEF AtWork
  <2> HIDE DEF kept2
  <2>6. Grows(kept2, once) /\ once \in Frontiers
    <3>1. Grows(kept2, once)
      BY <2>4, <2>5, FollowsGrows
    <3> QED BY <3>1 DEF Grows
  <2> HIDE DEF once
  <2>7. Grows(once, twice)
    BY <2>6, <2>5, FollowsGrows
  <2> HIDE DEF twice
  <2>8. Grows(frontier, twice)
    BY <2>4, <2>6, <2>7, GrowsOn
  <2> QED BY <2>2, <2>4, <2>8 DEF GrowsOrCuts
<1> QED BY <1>1, <1>4, <1>5, <1>6, EarlyForward, InEarly, InLate

LEMMA NoFirstCaseForward == ASSUME JointInv, NoFirstCase PROVE Forward
<1>1. UNCHANGED settled /\ step = "case" /\ step' = "construct" /\ work' = work /\ counted' = counted /\ spent' = spent /\ Skips(FirstWanted)
  BY DEF NoFirstCase, On, Then, uncounted
<1> QED BY <1>1, EarlyForward, SameWork, InEarly, InLate, NoneCharged, SkipsKeeps

LEMMA ProgramsOverForward == ASSUME JointInv, ProgramsOver PROVE Forward
<1>1. UNCHANGED settled /\ step = "programs" /\ step' = "construct" /\ work' = work /\ counted' = counted /\ spent' = spent
      /\ frontier' = Saw(frontier, work.programs > 0) /\ (work.programs > 0) \in BOOLEAN
  BY DEF ProgramsOver, On, Then, uncounted
<1> QED BY <1>1, LateForward, SameWork, InLate, NoneCharged, FrontierSaw

LEMMA ConstructForward == ASSUME JointInv, Construct PROVE Forward
<1>1. UNCHANGED settled /\ step = "construct" /\ step' = "widen"
  BY DEF Construct, On, Then
<1>2. PICK n \in 0..GoalLeft, found \in BOOLEAN, again \in BOOLEAN, exhausted \in BOOLEAN :
       /\ Account(n) /\ work' = [work EXCEPT !.cons = found, !.again = again]
       /\ frontier' = LET saw == Saw(frontier, exhausted) IN IF found THEN Enqueued(saw, Child(<<"built">>, 1)) ELSE saw
  BY Zenon DEF Construct
<1>3. n \in Nat /\ n <= GoalLeft
  BY <1>2, AtHand
<1>4. Uncharged
  BY <1>2, <1>3, ChargeKeeps DEF Account
<1>5. SameGoal /\ work'.cased = work.cased /\ work'.needs = work.needs /\ work'.rel = work.rel
  BY <1>2, AtHand DEF SameGoal, Works
<1>6. GrowsOrCuts
  <2> DEFINE saw == Saw(frontier, exhausted)  c == Child(<<"built">>, 1)
  <2>1. frontier' = IF found THEN Enqueued(saw, c) ELSE saw
    BY <1>2
  <2>2. Grows(frontier, saw) /\ saw \in Frontiers
    <3>1. Grows(frontier, saw)
      BY AtHand, SawGrows
    <3> QED BY <3>1 DEF Grows
  <2>3. c \in States
    BY <1>1, ChildIs, ItemsAre, InLate DEF AtWork
  <2> HIDE DEF saw, c
  <2>4. Grows(frontier, Enqueued(saw, c))
    BY <2>2, <2>3, EnqueuedGrows, GrowsOn
  <2> QED BY <2>1, <2>2, <2>4 DEF GrowsOrCuts
<1> QED BY <1>1, <1>4, <1>5, <1>6, LateForward, InLate

LEMMA NoConstructForward == ASSUME JointInv, NoConstruct PROVE Forward
<1>1. UNCHANGED settled /\ step = "construct" /\ step' = "widen" /\ work' = work /\ counted' = counted /\ spent' = spent /\ Skips(ConstructWanted)
  BY DEF NoConstruct, On, Then, uncounted
<1> QED BY <1>1, LateForward, SameWork, InLate, NoneCharged, SkipsKeeps

LEMMA WidenProgramsForward == ASSUME JointInv, WidenPrograms PROVE Forward
<1>1. UNCHANGED settled /\ step = "widen" /\ step' = "late case" /\ work' = work /\ counted' = counted /\ spent' = spent
      /\ (frontier' = Enqueued(frontier, Widened(state)) \/ frontier' = frontier)
  BY DEF WidenPrograms, On, Then, uncounted
<1>2. Widened(state) \in States
  BY AtHand, WidenedIs
<1>3. GrowsOrCuts
  BY <1>1, <1>2, FrontierQueued, FrontierSame
<1> QED BY <1>1, <1>3, LateForward, SameWork, InLate, NoneCharged

LEMMA NoLateCaseForward == ASSUME JointInv, NoLateCase PROVE Forward
<1>1. UNCHANGED settled /\ step = "late case" /\ step' = "refine" /\ work' = work /\ counted' = counted /\ spent' = spent /\ Skips(LateWanted)
  BY DEF NoLateCase, On, Then, uncounted
<1> QED BY <1>1, LateForward, SameWork, InLate, NoneCharged, SkipsKeeps

LEMMA FrontierSplit ==
  ASSUME JointInv, step \in AtWork, NEW n \in 0..MaxClauses, frontier' = Enqueued(frontier, Child(Clauses(n), 1)) PROVE GrowsOrCuts
<1>1. Clauses(n) \in Seq(Pieces)
  BY ItemsAre, CaseAssumption
<1>2. Child(Clauses(n), 1) \in States
  BY <1>1, ChildIs
<1> QED BY <1>2, FrontierQueued

LEMMA OneCharged == ASSUME JointInv, Charged, MayCharge PROVE Uncharged
<1>1. 1 <= GoalLeft
  BY AtHand DEF MayCharge
<1> QED BY <1>1, ChargeKeeps DEF Charged

LEMMA RefineForward == ASSUME JointInv, Refine PROVE Forward
<1>1. UNCHANGED settled /\ step = "refine" /\ work' = work
  BY DEF Refine, On
<1>2. step' \in {"loop", "split"} /\ Uncharged /\ GrowsOrCuts
  <2>1. CASE ~work.terms /\ ~Extended /\ MayCharge
    <3>1. Charged /\ step' \in {"loop", "split"} /\ (frontier' = frontier \/ \E n \in 0..MaxClauses : frontier' = Enqueued(frontier, Child(Clauses(n), 1)))
      BY <2>1 DEF Refine, Then
    <3> QED BY <1>1, <2>1, <3>1, OneCharged, FrontierSame, FrontierSplit, InLate DEF AtWork
  <2>2. CASE ~(~work.terms /\ ~Extended /\ MayCharge)
    <3>1. step' \in {"loop", "split"} /\ counted' = counted /\ spent' = spent /\ frontier' = Saw(frontier, ~work.terms /\ ~Extended)
      BY <2>2 DEF Refine, Then, uncounted
    <3>2. (~work.terms /\ ~Extended) \in BOOLEAN
      OBVIOUS
    <3> QED BY <3>1, <3>2, NoneCharged, FrontierSaw
  <2> QED BY <2>1, <2>2
<1> QED BY <1>1, <1>2, LateForward, SameWork, InLate

LEMMA SplitOnForward == ASSUME JointInv, SplitOn PROVE Forward
<1>1. UNCHANGED settled /\ step = "split" /\ step' \in {"loop", "split"} /\ work' = work
  BY DEF SplitOn, On, Then
<1>2. Uncharged /\ GrowsOrCuts
  <2>1. CASE UNCHANGED <<frontier, uncounted>>
    BY <2>1, NoneCharged, FrontierSame DEF uncounted
  <2>2. CASE frontier' = Saw(frontier, TRUE) /\ UNCHANGED uncounted
    BY <2>2, NoneCharged, FrontierSaw DEF uncounted
  <2>3. CASE MayCharge /\ Charged /\ (frontier' = frontier \/ \E n \in 0..MaxClauses : frontier' = Enqueued(frontier, Child(Clauses(n), 1)))
    BY <1>1, <2>3, OneCharged, FrontierSame, FrontierSplit, InLate DEF AtWork
  <2> QED BY <2>1, <2>2, <2>3 DEF SplitOn
<1> QED BY <1>1, <1>2, LateForward, SameWork, InLate

-----------------------------------------------------------------------------
(* Calls of the case search.                                               *)

\* What a call asks for is a request.
LEMMA CallsAsks ==
  ASSUME JointInv, step \in AtWork, NEW back, NEW restore, NEW exactLocal, NEW known, Calls(back, restore, exactLocal, known)
  PROVE  IsRequest(asked') /\ Begins(asked', loaded') /\ level' = 0
<1> DEFINE behind == SubSeq(state.src, work.here + 1, Len(state.src))
           request == [lanes |-> task.lanes, budget |-> GoalLeft, depth |-> task.depth - state.depth, behind |-> behind,
                       reuse |-> TRUE, exactLocal |-> exactLocal, trouble |-> task.trouble \cap CaseTroubles]
           holds == SubSeq(held, work.here, Len(held))
<1>1. Begins(request, holds)
  BY DEF Calls
<1>2. behind \in Seq(Pieces)
  <2>1. state.src \in Seq(Pieces) /\ work.here \in 1..Len(state.src)
    BY AtHand
  <2> QED BY <2>1, PlaceIs
<1>3. IsRequest(request)
  <2>1. request.budget = GoalLeft /\ request.depth = task.depth - state.depth /\ request.behind = behind /\ request.trouble = task.trouble \cap CaseTroubles
    OBVIOUS
  <2> HIDE DEF request, behind
  <2> QED BY <1>2, <2>1, AtHand DEF IsRequest
<1> HIDE DEF request, holds
<1>4. asked' = request /\ loaded' = holds /\ level' = 0
  BY <1>1 DEF Begins
<1> QED BY <1>1, <1>3, <1>4

LEMMA CallsForward ==
  ASSUME JointInv, step \in {"case"} \cup Late, NEW back \in {"programs", "refine"}, NEW restore \in BOOLEAN, restore \/ ~Demanded,
         NEW known \in Works, known.here = work.here, known.start = work.start, known.cap = work.cap,
         known.needs = work.needs, known.rel = work.rel, NEW exactLocal, Calls(back, restore, exactLocal, known)
  PROVE  Forward
<1>1. /\ step' = "case search" /\ work' = [known EXCEPT !.back = back, !.restore = restore, !.tried = TRUE]
      /\ UNCHANGED <<task, state, held, status, proof, frontier, pending, seen>> /\ counted' = counted /\ spent' = spent
  BY DEF Calls, Then, uncounted
<1>2. /\ work' \in Works /\ work'.here = work.here /\ work'.start = work.start /\ work'.cap = work.cap
      /\ work'.needs = work.needs /\ work'.rel = work.rel /\ work'.back = back /\ work'.restore = restore
  BY <1>1 DEF Works
<1>3. step \in AtWork
  BY DEF Early, AtWork
<1>4. level' \in Nat
  BY <1>3, CallsAsks
<1>5. SessionKept'
  BY <1>1, <1>2 DEF SessionKept, Early, Late, Demanded
<1> QED BY <1>1, <1>2, <1>3, <1>4, <1>5, NoneCharged, FrontierSame DEF Forward, AtWork

LEMMA FirstCaseForward == ASSUME JointInv, FirstCase PROVE Forward
<1>1. step = "case"
  BY DEF FirstCase, On
<1>2. PICK all \in 1..MaxPrograms :
       LET known == [work EXCEPT !.omitted = ~state.wide /\ work.needs /\ all > 1,
                                 !.programs = IF ~work.needs THEN 0 ELSE IF state.wide THEN all ELSE 1]
       IN IF ~work.terms \/ ~work.needs \/ work.rel THEN Calls("programs", Demanded, TRUE, known)
          ELSE Then("programs") /\ work' = [known EXCEPT !.tried = TRUE] /\ UNCHANGED <<settled, frontier, uncounted>>
  BY DEF FirstCase
<1> DEFINE omitted == ~state.wide /\ work.needs /\ all > 1
           programs == IF ~work.needs THEN 0 ELSE IF state.wide THEN all ELSE 1
           known == [work EXCEPT !.omitted = omitted, !.programs = programs]
<1>3. \/ Calls("programs", Demanded, TRUE, known)
      \/ Then("programs") /\ work' = [known EXCEPT !.tried = TRUE] /\ UNCHANGED <<settled, frontier, uncounted>>
  BY <1>2
<1>4. omitted \in BOOLEAN /\ programs \in Nat
  BY JointAssumption
<1> HIDE DEF omitted, programs
<1>5. /\ known \in Works /\ known.here = work.here /\ known.start = work.start /\ known.cap = work.cap
      /\ known.needs = work.needs /\ known.rel = work.rel
  BY <1>4, AtHand DEF Works
<1> HIDE DEF known
<1>6. CASE Calls("programs", Demanded, TRUE, known)
  <2>1. Demanded \in BOOLEAN /\ (Demanded \/ ~Demanded)
    BY DEF Demanded
  <2>2. "programs" \in {"programs", "refine"} /\ step \in {"case"} \cup Late
    BY <1>1
  <2> QED BY <1>5, <1>6, <2>1, <2>2, CallsForward
<1>7. CASE Then("programs") /\ work' = [known EXCEPT !.tried = TRUE] /\ UNCHANGED <<settled, frontier, uncounted>>
  <2>1. SameGoal
    BY <1>5, <1>7 DEF SameGoal, Works
  <2> QED BY <1>1, <1>7, <2>1, EarlyForward, NoneCharged, FrontierSame, InEarly, InLate DEF Then, uncounted
<1> QED BY <1>3, <1>6, <1>7

LEMMA RecursiveProgramForward == ASSUME JointInv, RecursiveProgram PROVE Forward
<1> DEFINE known == [work EXCEPT !.programs = work.programs - 1]
<1>1. step = "programs" /\ work.programs > 0 /\ Calls("programs", TRUE, FALSE, known)
  BY DEF RecursiveProgram, On
<1>2. work.programs \in Nat
  BY AtHand DEF Works
<1>3. work.programs - 1 \in Nat
  BY <1>1, <1>2
<1>4. /\ known \in Works /\ known.here = work.here /\ known.start = work.start /\ known.cap = work.cap
      /\ known.needs = work.needs /\ known.rel = work.rel
  BY <1>3, AtHand DEF Works
<1> HIDE DEF known
<1> QED BY <1>1, <1>4, CallsForward, InLate

LEMMA LateCaseForward == ASSUME JointInv, LateCase PROVE Forward
<1>1. step = "late case" /\ Calls("refine", TRUE, TRUE, work)
  BY DEF LateCase, On
<1> QED BY <1>1, AtHand, CallsForward, InLate

LEMMA ReturnCaseForward == ASSUME JointInv, CaseInv, ReturnCase PROVE Forward
<1>1. /\ step = "case search" /\ used <= Left /\ Account(used) /\ step' = work.back
      /\ UNCHANGED <<task, state, status, proof, pending, seen>> /\ level' = 0
  BY DEF ReturnCase, Then, Begins
<1>2. used \in Nat /\ text \in Seq(Pieces)
  BY DEF CaseInv, CaseTypes
<1>3. Uncharged
  BY <1>1, <1>2, ChargeKeeps DEF Account
<1>4. step \in AtWork /\ work.back \in {"programs", "refine"} /\ (work.restore \/ ~Demanded)
  BY <1>1 DEF AtWork, JointInv, SessionKept
<1> DEFINE solved == verdict = "solved"
           cased == work.cased \/ solved
           deeper == IF level = 0 THEN 1 ELSE level
           child == Child(<<>>, deeper)
           written == SubSeq(state.src, 1, work.here - 1) \o text
           found == [child EXCEPT !.src = written]
           exhausted == Saw(frontier, verdict = "resource-exhausted")
<1>5. /\ work' = [work EXCEPT !.cased = cased]
      /\ frontier' = IF solved THEN Enqueued(exhausted, found) ELSE exhausted
      /\ held' = IF Restored(solved) THEN state.src ELSE CaseSource
  BY DEF ReturnCase
<1>6. found \in States
  <2>1. deeper \in Nat
    BY AtHand
  <2>2. child \in States
    BY <1>4, <2>1, ChildIs, ItemsAre
  <2>3. written \in Seq(Pieces)
    <3>1. SubSeq(state.src, 1, work.here - 1) \in Seq(Pieces)
      BY <1>4, AtHand, PlaceIs
    <3> QED BY <1>2, <3>1
  <2> HIDE DEF child, written
  <2> QED BY <2>2, <2>3 DEF States
<1>7. GrowsOrCuts
  <2>1. Grows(frontier, exhausted) /\ exhausted \in Frontiers
    <3>1. (verdict = "resource-exhausted") \in BOOLEAN
      OBVIOUS
    <3>2. Grows(frontier, exhausted)
      BY <3>1, AtHand, SawGrows
    <3> QED BY <3>2 DEF Grows
  <2> HIDE DEF exhausted, found
  <2>2. Grows(frontier, Enqueued(exhausted, found))
    BY <1>6, <2>1, EnqueuedGrows, GrowsOn
  <2> QED BY <1>5, <2>1, <2>2 DEF GrowsOrCuts
<1>8. cased \in BOOLEAN
  BY AtHand DEF Works
<1>9. SameGoal /\ work'.needs = work.needs /\ work'.rel = work.rel /\ work'.cased = cased
  <2> HIDE DEF cased
  <2> QED BY <1>5, <1>8, AtHand DEF SameGoal, Works
<1>10. SessionKept'
  <2>1. step' \in {"programs", "refine"}
    BY <1>1, <1>4
  <2>2. step' \in Late /\ step' \notin Early /\ step' \notin {"select", "validate", "case search"}
    BY <2>1 DEF Late, Early
  <2>3. held' = state'.src \/ (work'.cased /\ ~Demanded')
    <3>1. CASE Restored(solved)
      BY <1>1, <1>5, <3>1
    <3>2. CASE ~Restored(solved)
      <4>1. cased /\ ~work.restore
        BY <3>2 DEF Restored
      <4> QED BY <1>4, <1>9, <4>1 DEF Demanded
    <3> QED BY <3>1, <3>2
  <2> QED BY <2>2, <2>3 DEF SessionKept
<1> QED BY <1>1, <1>3, <1>4, <1>7, <1>9, <1>10, InLate DEF Forward, SameGoal, AtWork

-----------------------------------------------------------------------------
(* The loop.                                                               *)

LEMMA Nothing == NoState \in States /\ NoPending \in [state : States, start : Nat \cup {-1}] /\ NoPending.start = -1 /\ NoWork \in Works
<1>1. NoTask.goals \in Nat
  BY DEF NoTask
<1>2. NoState \in States
  BY <1>1, RootIs DEF NoState
<1>3. NoWork \in Works
  BY DEF NoWork, Works
<1> QED BY <1>2, <1>3 DEF NoPending

\* A step that ends the work on a state.
LEMMA Loops ==
  ASSUME Ending, step \notin {"end", "done"}, status' = status, step' = "loop"
  PROVE  SessionKept' /\ AtGoal' /\ Ending' /\ AnswersAreHonest'
BY DEF Ending, SessionKept, AtGoal, AtWork, Early, Late, AnswersAreHonest

\* A step that ends the search without a proof.
LEMMA EndsWithout ==
  ASSUME step' = "end", status' \in {"toolchain-error", "resource-exhausted", "invalid-task", "policy-rejected"}
  PROVE  SessionKept' /\ AtGoal' /\ Ending' /\ AnswersAreHonest'
BY DEF Ending, SessionKept, AtGoal, AtWork, Early, Late, AnswersAreHonest

\* A step that leaves the frontier and the counters alone.
LEMMA Unmoved ==
  ASSUME JointInv, UNCHANGED <<task, frontier, pending, seen, work, counted, spent>>, level' \in Nat, state' \in States
  PROVE  JointTypes' /\ Whole(frontier)' /\ CutsRecover'
<1>1. JointTypes /\ Whole(frontier) /\ CutsRecover
  BY DEF JointInv
<1>2. JointTypes'
  BY <1>1 DEF JointTypes
<1>3. Whole(frontier)'
  BY <1>1 DEF Whole, Waits, Digest
<1>4. CutsRecover'
  BY <1>1 DEF CutsRecover, Sane, Left, Better, CutPending, Digest
<1> QED BY <1>2, <1>3, <1>4

\* A step in which the frontier grows, apart from the specialists'.
LEMMA GrowsKeeps ==
  ASSUME JointInv, Grows(frontier, frontier'), Uncharged, UNCHANGED <<task, state, seen>>,
         pending' = pending \/ pending = NoPending, pending' \in [state : States, start : Nat \cup {-1}],
         work' \in Works, level' \in Nat
  PROVE  JointTypes' /\ Whole(frontier)' /\ CutsRecover'
<1>0. JointTypes /\ Whole(frontier)
  BY DEF JointInv
<1>1. frontier' \in Frontiers /\ frontier.made \subseteq frontier'.made /\ (frontier.saw => frontier'.saw) /\ Whole(frontier)'
  BY <1>0, GrowsTypes DEF GrowsOrCuts
<1>2. PICK n, m \in Nat : counted' = counted + n /\ spent' = spent + m /\ m <= n /\ m <= Left
  BY DEF Uncharged
<1>3. counted' \in Nat /\ spent' \in Nat /\ spent' <= counted' /\ spent' <= task.limit
  BY <1>0, <1>2 DEF JointTypes, Left
<1>4. JointTypes'
  BY <1>0, <1>1, <1>3 DEF JointTypes
<1>5. CutsRecover'
  <2> SUFFICES ASSUME Sane', NEW d \in frontier'.cut PROVE Better(d, frontier)' \/ CutPending(d)'
    BY DEF CutsRecover
  <2>1. d \in frontier.cut
    BY DEF Grows
  <2> QED BY <1>1, <2>1, CutsStay
<1> QED BY <1>1, <1>4, <1>5

LEMMA BatchKeeps == ASSUME JointInv, Batch PROVE JointInv'
<1>1. /\ step = "batch" /\ step' = "loop" /\ pending = NoPending /\ counted = 0 /\ spent = 0 /\ Ending
      /\ UNCHANGED <<task, state, status, seen, work, pending>> /\ level' = level
  BY DEF Batch, JointInv, AtGoal, jointRest, caseVars, source
<1>2. PICK n \in 0..task.limit, those \in SUBSET GoalsOf(Root(task)) :
       /\ Cardinality(those) <= n /\ Account(n)
       /\ LET closed == [i \in 1..task.goals |-> IF i \in those THEN "done" ELSE "hole"]
              batch == [Root(task) EXCEPT !.src = closed, !.depth = Cardinality(those)]
          IN frontier' = IF those = {} \/ batch.depth > task.depth THEN frontier ELSE Enqueued(frontier, batch)
  BY DEF Batch
<1> DEFINE closed == [i \in 1..task.goals |-> IF i \in those THEN "done" ELSE "hole"]
           depth == Cardinality(those)
           batch == [Root(task) EXCEPT !.src = closed, !.depth = depth]
<1>3. frontier' = frontier \/ frontier' = Enqueued(frontier, batch)
  BY <1>2
<1>4. Uncharged
  <2>1. n \in Nat /\ n <= Left
    BY <1>1, <1>2, AtHand DEF Left
  <2> QED BY <1>2, <2>1, ChargeKeeps DEF Account
<1>5. batch \in States
  <2>1. Root(task) \in States /\ task.goals \in Nat
    BY AtHand, RootIs
  <2>2. closed \in Seq(Pieces)
    <3> DEFINE at(i) == IF i \in those THEN "done" ELSE "hole"
    <3>1. \A i \in 1..task.goals : at(i) \in Pieces
      BY DEF Pieces
    <3>2. closed = [i \in 1..task.goals |-> at(i)]
      OBVIOUS
    <3> HIDE DEF at, closed
    <3> QED BY <2>1, <3>1, <3>2
  <2>3. depth \in Nat
    <3>1. Len(Root(task).src) = task.goals
      BY <2>1 DEF Root
    <3>2. those \subseteq 1..task.goals
      BY <3>1 DEF GoalsOf, Holes
    <3>3. IsFiniteSet(1..task.goals)
      BY <2>1, FS_Interval
    <3>4. IsFiniteSet(those)
      BY <3>2, <3>3, FS_Subset
    <3> QED BY <3>4, FS_CardinalityType
  <2> HIDE DEF closed, depth
  <2> QED BY <2>1, <2>2, <2>3 DEF States
<1> HIDE DEF batch
<1>6. Grows(frontier, frontier')
  BY <1>3, <1>5, AtHand, SameGrows, EnqueuedGrows
<1>7. JointTypes' /\ Whole(frontier)' /\ CutsRecover'
  <2>1. work' \in Works /\ level' \in Nat /\ pending' \in [state : States, start : Nat \cup {-1}]
    BY <1>1, AtHand DEF JointInv, JointTypes
  <2> QED BY <1>1, <1>4, <1>6, <2>1, GrowsKeeps
<1> QED BY <1>1, <1>7, Loops DEF JointInv

LEMMA WidenPendingKeeps == ASSUME JointInv, WidenPending PROVE JointInv'
<1>1. /\ step = "loop" /\ step' = "loop" /\ pending' = NoPending /\ Ending /\ JointTypes /\ CutsRecover
      /\ UNCHANGED <<task, state, status, seen, work, counted, spent>> /\ level' = level
  BY DEF WidenPending, JointInv, jointRest, caseVars, source, uncounted
<1> DEFINE s == [pending.state EXCEPT !.bwide = TRUE]
<1>2. frontier' = IF counted - pending.start >= GoalLimit THEN Enqueued(frontier, s) ELSE frontier
  BY DEF WidenPending
<1>3. pending.state \in States /\ frontier \in Frontiers
  BY <1>1 DEF JointTypes
<1>4. s \in States /\ s.src = pending.state.src /\ s.wide = pending.state.wide /\ s.bwide
  BY <1>3, WidenedIs
<1> HIDE DEF s
<1>5. Grows(frontier, frontier')
  BY <1>2, <1>3, <1>4, SameGrows, EnqueuedGrows
<1>6. frontier' \in Frontiers /\ frontier.made \subseteq frontier'.made /\ (frontier.saw => frontier'.saw) /\ Whole(frontier)' /\ frontier'.cut = frontier.cut
  BY <1>1, <1>5, GrowsTypes DEF GrowsOrCuts, JointInv, Grows
<1>7. JointTypes'
  BY <1>1, <1>6, Nothing DEF JointTypes
<1>8. CutsRecover'
  <2> SUFFICES ASSUME Sane', NEW d \in frontier.cut PROVE Better(d, frontier)'
    BY <1>6 DEF CutsRecover
  <2>1. Sane
    BY <1>1, <1>6 DEF Sane, Left
  <2>2. Better(d, frontier) \/ CutPending(d)
    BY <1>1, <2>1 DEF CutsRecover
  <2>3. CASE Better(d, frontier)
    BY <1>6, <2>3 DEF Better
  <2>4. CASE CutPending(d)
    <3>1. Whole(frontier) /\ frontier' = Enqueued(frontier, s)
      BY <1>2, <2>4 DEF CutPending, JointInv
    <3>2. Digest(s) \in frontier'.made
      BY <1>3, <1>4, <3>1, EnqueuedGrows
    <3>3. d = Digest(pending.state) /\ ~pending.state.bwide
      BY <2>4 DEF CutPending
    <3> DEFINE e == Digest(s)
    <3>4. e.src = d.src /\ e.wide = d.wide /\ e.bwide /\ ~d.bwide
      BY <1>3, <1>4, <3>3, DigestIs
    <3> HIDE DEF e
    <3>5. e \in frontier'.made
      BY <3>2 DEF e
    <3> QED BY <3>4, <3>5 DEF Better
  <2> QED BY <2>2, <2>3, <2>4
<1> QED BY <1>1, <1>6, <1>7, <1>8, Loops DEF JointInv

LEMMA ResumeKeeps == ASSUME JointInv, Resume PROVE JointInv'
<1>1. /\ step = "loop" /\ step' = "loop" /\ Ending /\ JointTypes /\ CutsRecover /\ Whole(frontier) /\ frontier.deferred # <<>>
      /\ UNCHANGED <<task, state, status, pending, seen, work, counted, spent>> /\ level' = level
  BY DEF Resume, Looping, JointInv, jointRest, caseVars, source, uncounted
<1> DEFINE front == Front(frontier.deferred)  s == Last(frontier.deferred)
           f == [frontier EXCEPT !.deferred = front]
<1>2. frontier' = Enqueued(f, s)
  BY DEF Resume
<1>3. frontier \in Frontiers /\ frontier.deferred \in Seq(States)
  BY <1>1 DEF JointTypes, Frontiers
<1>4. /\ front \in Seq(States) /\ s \in States
      /\ \A i \in DOMAIN frontier.deferred : frontier.deferred[i] = s \/ (i \in DOMAIN front /\ front[i] = frontier.deferred[i])
      /\ \A i \in DOMAIN front : i \in DOMAIN frontier.deferred /\ front[i] = frontier.deferred[i]
  BY <1>1, <1>3 DEF Front, Last
<1> HIDE DEF front, s
<1>5. f \in Frontiers /\ f.queue = frontier.queue /\ f.deferred = front /\ f.saw = frontier.saw /\ f.made = frontier.made /\ f.cut = frontier.cut
  BY <1>3, <1>4 DEF Frontiers
<1> HIDE DEF f
<1>6. Waits(f) \subseteq Waits(frontier) /\ Waits(frontier) \subseteq Waits(f) \cup {Digest(s)}
  BY <1>4, <1>5 DEF Waits
<1>7. WholeBut(f, Digest(s))
  BY <1>1, <1>5, <1>6 DEF Whole, WholeBut
<1>8. Grows(f, frontier') /\ Whole(frontier')
  BY <1>2, <1>4, <1>5, <1>7, EnqueuedGrows
<1>9. frontier' \in Frontiers /\ frontier.made \subseteq frontier'.made /\ (frontier.saw => frontier'.saw) /\ frontier'.cut = frontier.cut /\ Whole(frontier)'
  <2>1. frontier' \in Frontiers /\ frontier.made \subseteq frontier'.made /\ (frontier.saw => frontier'.saw) /\ frontier'.cut = frontier.cut
    BY <1>5, <1>8 DEF Grows
  <2> QED BY <1>1, <1>8, <2>1 DEF Whole, Waits
<1>10. JointTypes'
  BY <1>1, <1>9 DEF JointTypes
<1>11. CutsRecover'
  <2> SUFFICES ASSUME Sane', NEW d \in frontier.cut PROVE Better(d, frontier)' \/ CutPending(d)'
    BY <1>9 DEF CutsRecover
  <2>1. Uncharged
    BY <1>1, NoneCharged
  <2> QED BY <1>1, <1>9, <2>1, CutsStay
<1> QED BY <1>1, <1>9, <1>10, <1>11, Loops DEF JointInv

LEMMA TakeKeeps == ASSUME JointInv, Take PROVE JointInv'
<1>1. /\ step = "loop" /\ pending = NoPending /\ Ending /\ JointTypes /\ CutsRecover /\ Whole(frontier)
      /\ UNCHANGED <<task, held, status, proof, pending, work, counted, spent>> /\ level' = level /\ status = "none"
  BY DEF Take, Looping, JointInv, caseVars, source, uncounted, Ending
<1>2. CASE /\ frontier.queue # {} \/ frontier.deferred = <<>>
           /\ step' = "end" /\ frontier' = Saw(frontier, frontier.queue # {}) /\ UNCHANGED <<state, seen>>
  <2> DEFINE yes == frontier.queue # {}
  <2>1. yes \in BOOLEAN /\ frontier \in Frontiers
    BY <1>1 DEF JointTypes
  <2>2. Grows(frontier, frontier') /\ (yes => frontier'.saw) /\ frontier'.queue = frontier.queue
    BY <1>2, <2>1, SawGrows
  <2>3. frontier'.deferred = frontier.deferred
    BY <1>2, <2>1 DEF Saw, Frontiers
  <2>4. JointTypes' /\ Whole(frontier)' /\ CutsRecover'
    <3>1. work' \in Works /\ level' \in Nat /\ pending' \in [state : States, start : Nat \cup {-1}]
      BY <1>1 DEF JointTypes
    <3> QED BY <1>1, <1>2, <2>2, <3>1, NoneCharged, GrowsKeeps
  <2>5. SessionKept' /\ AtGoal' /\ AnswersAreHonest'
    BY <1>2 DEF SessionKept, AtGoal, AtWork, Early, Late, AnswersAreHonest
  <2>6. Ending'
    BY <1>1, <1>2, <2>2, <2>3 DEF Ending
  <2> QED BY <2>4, <2>5, <2>6 DEF JointInv
<1>3. ASSUME NEW s \in frontier.queue, frontier' = [frontier EXCEPT !.queue = @ \ {s}], seen' = seen \cup {Digest(s)}, state' = s, step' = "load"
      PROVE  JointInv'
  <2>1. frontier \in Frontiers /\ s \in States /\ Digest(s) \in States
    BY <1>1, <1>3, DigestIs DEF JointTypes, Frontiers
  <2>2. /\ frontier' \in Frontiers /\ frontier'.queue = frontier.queue \ {s} /\ frontier'.deferred = frontier.deferred
        /\ frontier'.saw = frontier.saw /\ frontier'.made = frontier.made /\ frontier'.cut = frontier.cut
    BY <1>3, <2>1 DEF Frontiers
  <2>3. JointTypes'
    BY <1>1, <1>3, <2>1, <2>2 DEF JointTypes
  <2>4. Whole(frontier)'
    <3> DEFINE A == {Digest(q) : q \in frontier.queue}  B == {Digest(q) : q \in frontier.queue \ {s}}
               C == {Digest(frontier.deferred[i]) : i \in DOMAIN frontier.deferred}
    <3>1. A = B \cup {Digest(s)}
      BY <1>3
    <3>2. Waits(frontier) = A \cup C /\ Waits(frontier)' = B \cup C
      BY <2>2, Zenon DEF Waits, Digest
    <3> HIDE DEF A, B, C
    <3> QED BY <1>1, <1>3, <2>2, <3>1, <3>2 DEF Whole
  <2>5. CutsRecover'
    BY <1>1, <2>2 DEF CutsRecover, Sane, Left, Better, CutPending, Digest
  <2>6. SessionKept' /\ AtGoal' /\ Ending' /\ AnswersAreHonest'
    BY <1>1, <1>3 DEF Ending, SessionKept, AtGoal, AtWork, Early, Late, AnswersAreHonest, NoPending, NoState, Root
  <2> QED BY <2>3, <2>4, <2>5, <2>6 DEF JointInv
<1> QED BY <1>2, <1>3 DEF Take

\* The positions of holes are finitely many.
LEMMA GoalsAre ==
  ASSUME NEW s \in States
  PROVE  /\ GoalsOf(s) \subseteq 1..Len(s.src) /\ Cardinality(GoalsOf(s)) \in Nat
         /\ GoalsOf(s) # {} => Cardinality(GoalsOf(s)) >= 1
<1>1. Len(s.src) \in Nat
  BY DEF States
<1>2. GoalsOf(s) \subseteq 1..Len(s.src)
  BY DEF GoalsOf, Holes
<1>3. IsFiniteSet(1..Len(s.src))
  BY <1>1, FS_Interval
<1>4. IsFiniteSet(GoalsOf(s))
  BY <1>2, <1>3, FS_Subset
<1>5. Cardinality(GoalsOf(s)) \in Nat /\ (Cardinality(GoalsOf(s)) = 0 <=> GoalsOf(s) = {})
  BY <1>4, FS_CardinalityType, FS_EmptySet
<1> QED BY <1>2, <1>5

LEMMA LoadStateKeeps == ASSUME JointInv, Load PROVE JointInv'
<1>1. /\ step = "load" /\ pending = NoPending /\ Ending /\ JointTypes /\ status = "none"
      /\ UNCHANGED <<task, state, status, proof, pending, seen, work, counted, spent>> /\ level' = level /\ level \in Nat
  BY DEF Load, JointInv, AtGoal, caseVars, source, uncounted, Ending, JointTypes
<1>2. CASE held' = <<>> /\ step' = "loop" /\ UNCHANGED frontier
  <2>1. JointTypes' /\ Whole(frontier)' /\ CutsRecover'
    BY <1>1, <1>2, Unmoved, AtHand
  <2> QED BY <1>1, <1>2, <2>1, Loops DEF JointInv
<1>3. CASE /\ held' = state.src
           /\ step' = CASE GoalsOf(state) = {} -> "validate" [] state.depth >= task.depth -> "loop" [] OTHER -> "select"
           /\ frontier' = Saw(frontier, GoalsOf(state) # {} /\ state.depth >= task.depth)
  <2> DEFINE yes == GoalsOf(state) # {} /\ state.depth >= task.depth
  <2>1. yes \in BOOLEAN /\ frontier \in Frontiers
    BY <1>1 DEF JointTypes
  <2>2. Grows(frontier, frontier')
    BY <1>3, <2>1, SawGrows
  <2>3. JointTypes' /\ Whole(frontier)' /\ CutsRecover'
    <3>1. work' \in Works /\ level' \in Nat /\ pending' \in [state : States, start : Nat \cup {-1}]
      BY <1>1 DEF JointTypes
    <3> QED BY <1>1, <2>2, <3>1, NoneCharged, GrowsKeeps
  <2>4. state.depth \in Nat /\ task.depth \in Nat
    BY <1>1 DEF JointTypes, States
  <2>5. \/ step' = "validate" /\ GoalsOf(state) = {}
        \/ step' = "loop"
        \/ step' = "select" /\ state.depth < task.depth
    BY <1>3, <2>4
  <2>6. SessionKept' /\ AtGoal' /\ Ending' /\ AnswersAreHonest'
    <3>1. CASE step' = "loop"
      BY <1>1, <3>1, Loops
    <3>2. CASE step' = "validate" /\ GoalsOf(state) = {}
      BY <1>1, <1>3, <3>2 DEF Ending, SessionKept, AtGoal, AtWork, Early, Late, AnswersAreHonest, NoPending, NoState, Root, GoalsOf, Holes
    <3>3. CASE step' = "select" /\ state.depth < task.depth
      BY <1>1, <1>3, <3>3 DEF Ending, SessionKept, AtGoal, AtWork, Early, Late, AnswersAreHonest, NoPending, NoState, Root
    <3> QED BY <2>5, <3>1, <3>2, <3>3
  <2> QED BY <2>3, <2>6 DEF JointInv
<1> QED BY <1>2, <1>3 DEF Load

LEMMA ValidateKeeps == ASSUME JointInv, Validate PROVE JointInv'
<1>1. /\ step = "validate" /\ Ending /\ JointTypes /\ status = "none" /\ held = state.src /\ GoalsOf(state) = {}
      /\ UNCHANGED <<task, state, held, frontier, pending, seen, work, counted, spent>> /\ level' = level /\ level \in Nat
  BY DEF Validate, JointInv, SessionKept, caseVars, source, uncounted, Ending, JointTypes
<1>2. JointTypes' /\ Whole(frontier)' /\ CutsRecover'
  BY <1>1, Unmoved, AtHand
<1>3. CASE proof' = state.src /\ status' = "verified" /\ step' = "end"
  <2>1. SessionKept' /\ AtGoal' /\ AnswersAreHonest'
    BY <1>3 DEF SessionKept, AtGoal, AtWork, Early, Late, AnswersAreHonest
  <2>2. Ending'
    BY <1>1, <1>3 DEF Ending, GoalsOf, Holes
  <2> QED BY <1>2, <2>1, <2>2 DEF JointInv
<1>4. CASE step' = "end" /\ status' \in {"toolchain-error", "resource-exhausted"}
  BY <1>2, <1>4, EndsWithout DEF JointInv
<1>5. CASE step' = "loop" /\ status' = status
  BY <1>1, <1>2, <1>5, Loops DEF JointInv
<1> QED BY <1>3, <1>4, <1>5 DEF Validate

LEMMA SelectKeeps == ASSUME JointInv, Select PROVE JointInv'
<1>1. /\ step = "select" /\ Ending /\ JointTypes /\ status = "none" /\ held = state.src /\ pending = NoPending
      /\ state.depth < task.depth
      /\ UNCHANGED <<task, state, held, status, proof, seen, counted, spent>> /\ level' = level /\ level \in Nat
  BY DEF Select, JointInv, SessionKept, AtGoal, caseVars, source, jointRest, uncounted, Ending, JointTypes
<1>2. PICK i \in GoalsOf(state) :
       LET first == \A j \in GoalsOf(state) : i <= j
           narrow == ~first /\ ~state.wide
           offered == IF narrow THEN Enqueued(frontier, Widened(state)) ELSE frontier
           competes == Wants("compete") /\ offered.queue # {} /\ ~state.bwide
                         /\ Left > GoalLimit * Cardinality(GoalsOf(state))
           cap == IF narrow \/ competes THEN GoalLimit ELSE task.limit
       IN /\ pending' = IF competes /\ Left > cap THEN [state |-> state, start |-> counted] ELSE NoPending
          /\ frontier' = Saw(offered, Left = 0)
          /\ IF Left = 0 THEN step' = "loop" /\ UNCHANGED work
             ELSE step' = "observe" /\ work' = [NoWork EXCEPT !.here = i, !.start = counted, !.cap = cap]
  BY DEF Select
<1> DEFINE first == \A j \in GoalsOf(state) : i <= j
           narrow == ~first /\ ~state.wide
           offered == IF narrow THEN Enqueued(frontier, Widened(state)) ELSE frontier
           competes == Wants("compete") /\ offered.queue # {} /\ ~state.bwide
                         /\ Left > GoalLimit * Cardinality(GoalsOf(state))
           cap == IF narrow \/ competes THEN GoalLimit ELSE task.limit
<1>3. /\ pending' = IF competes /\ Left > cap THEN [state |-> state, start |-> counted] ELSE NoPending
      /\ frontier' = Saw(offered, Left = 0)
      /\ IF Left = 0 THEN step' = "loop" /\ UNCHANGED work
         ELSE step' = "observe" /\ work' = [NoWork EXCEPT !.here = i, !.start = counted, !.cap = cap]
  BY <1>2
<1>4. competes => ~state.bwide /\ Left > GoalLimit * Cardinality(GoalsOf(state))
  OBVIOUS
<1>5. narrow => ~state.wide
  OBVIOUS
<1>6. frontier \in Frontiers /\ state \in States /\ Widened(state) \in States /\ Whole(frontier) /\ counted \in Nat /\ Left \in Nat
      /\ task.limit \in Nat /\ GoalLimit \in Nat \ {0}
  BY AtHand, WidenedIs, JointAssumption DEF JointInv
<1>7. Grows(frontier, offered) /\ offered \in Frontiers /\ (narrow => Digest(Widened(state)) \in offered.made)
  <2>1. Grows(frontier, offered) /\ (narrow => Digest(Widened(state)) \in offered.made)
    BY <1>6, EnqueuedGrows, SameGrows
  <2> QED BY <2>1 DEF Grows
<1> HIDE DEF offered, competes, narrow, first
<1>8. Grows(offered, frontier') /\ Grows(frontier, frontier') /\ (narrow => Digest(Widened(state)) \in frontier'.made)
  <2>1. (Left = 0) \in BOOLEAN
    OBVIOUS
  <2>2. Grows(offered, frontier')
    BY <1>3, <1>7, <2>1, SawGrows
  <2>3. Grows(frontier, frontier')
    BY <1>7, <2>2, GrowsOn
  <2> QED BY <1>7, <2>2, <2>3 DEF Grows
<1>9. i \in 1..Len(state.src) /\ (competes => Left > GoalLimit)
  <2>1. i \in 1..Len(state.src) /\ Cardinality(GoalsOf(state)) \in Nat /\ Cardinality(GoalsOf(state)) >= 1
    BY <1>6, GoalsAre
  <2>2. GoalLimit * Cardinality(GoalsOf(state)) >= GoalLimit
    BY <1>6, <2>1
  <2>3. GoalLimit * Cardinality(GoalsOf(state)) \in Nat
    BY <1>6, <2>1
  <2> QED BY <1>4, <1>6, <2>1, <2>2, <2>3
<1>10. cap \in Nat /\ ((narrow \/ competes) => cap = GoalLimit) /\ (~(narrow \/ competes) => cap = task.limit)
  BY <1>6
<1> HIDE DEF cap
<1>11. i \in Nat
  BY <1>6, <1>9 DEF States
<1>12. pending' \in [state : States, start : Nat \cup {-1}] /\ work' \in Works
  <2>1. pending' \in [state : States, start : Nat \cup {-1}]
    BY <1>3, <1>6, Nothing
  <2>2. work' \in Works
    BY <1>3, <1>6, <1>10, <1>11, Nothing, AtHand DEF Works
  <2> QED BY <2>1, <2>2
<1>13. JointTypes' /\ Whole(frontier)'
  <2>1. frontier' \in Frontiers /\ Whole(frontier)'
    BY <1>1, <1>6, <1>8, GrowsTypes DEF GrowsOrCuts
  <2> QED BY <1>1, <1>12, <2>1 DEF JointTypes
<1>14. CutsRecover'
  <2> SUFFICES ASSUME Sane', NEW d \in frontier.cut PROVE Better(d, frontier)'
    BY <1>8 DEF CutsRecover, Grows
  <2>1. frontier.made \subseteq frontier'.made /\ (frontier.saw => frontier'.saw)
    BY <1>8 DEF Grows
  <2>2. Sane
    BY <1>1, <2>1 DEF Sane, Left
  <2>3. Better(d, frontier) \/ CutPending(d)
    BY <2>2 DEF JointInv, CutsRecover
  <2>4. ~CutPending(d)
    BY <1>1, Nothing DEF CutPending
  <2> QED BY <2>1, <2>3, <2>4 DEF Better
<1>15. SessionKept' /\ AtGoal' /\ Ending' /\ AnswersAreHonest'
  <2>1. CASE step' = "loop"
    BY <1>1, <2>1, Loops
  <2>2. CASE Left # 0 /\ step' = "observe" /\ work' = [NoWork EXCEPT !.here = i, !.start = counted, !.cap = cap]
    <3>1. work'.here = i /\ work'.start = counted /\ work'.cap = cap
      BY <2>2 DEF NoWork
    <3>2. Narrow'
      <4>1. CASE narrow
        BY <1>1, <1>5, <1>8, <1>10, <3>1, <4>1 DEF Narrow, Digest, Widened
      <4>2. CASE ~narrow /\ competes
        <5>1. Left > cap /\ cap = GoalLimit /\ ~state.bwide
          BY <1>4, <1>9, <1>10, <4>2
        <5>2. pending' = [state |-> state, start |-> counted]
          BY <1>3, <4>2, <5>1
        <5> QED BY <1>1, <3>1, <5>1, <5>2 DEF Narrow
      <4>3. CASE ~narrow /\ ~competes
        BY <1>1, <1>10, <3>1, <4>3 DEF Narrow
      <4> QED BY <4>1, <4>2, <4>3
    <3>3. AtGoal'
      BY <1>1, <1>6, <1>9, <2>2, <3>1, <3>2 DEF AtGoal
    <3>4. SessionKept' /\ Ending' /\ AnswersAreHonest'
      BY <1>1, <2>2 DEF SessionKept, Ending, AnswersAreHonest, Early, Late
    <3> QED BY <3>3, <3>4
  <2> QED BY <1>3, <2>1, <2>2
<1> QED BY <1>13, <1>14, <1>15 DEF JointInv

-----------------------------------------------------------------------------
(* The end.                                                                *)

LEMMA CaseFailsKeeps == ASSUME JointInv, CaseFails PROVE JointInv' /\ asked' = NotAsked /\ Begins(asked', loaded')
<1>1. /\ step' = "end" /\ status' \in {"toolchain-error", "resource-exhausted", "invalid-task", "policy-rejected"}
      /\ UNCHANGED <<task, state, frontier, pending, seen, work, counted, spent>>
  BY DEF CaseFails, Raised, Fails, Then, uncounted
<1>2. asked' = NotAsked /\ loaded' = <<>> /\ level' = 0 /\ Begins(asked', loaded')
  BY DEF CaseFails, Begins
<1>3. JointTypes' /\ Whole(frontier)' /\ CutsRecover'
  BY <1>1, <1>2, Unmoved, AtHand
<1> QED BY <1>1, <1>2, <1>3, EndsWithout DEF JointInv

LEMMA JointRaiseKeeps == ASSUME JointInv, JointRaise PROVE JointInv'
<1>1. /\ step' = "end" /\ status' \in {"toolchain-error", "resource-exhausted", "invalid-task", "policy-rejected"}
      /\ UNCHANGED <<task, state, frontier, pending, seen, work, counted, spent>> /\ level' = level
  BY DEF JointRaise, Raised, Fails, Then, uncounted, caseVars, source
<1>2. JointTypes' /\ Whole(frontier)' /\ CutsRecover'
  BY <1>1, Unmoved, AtHand
<1> QED BY <1>1, <1>2, EndsWithout DEF JointInv

\* A step of the case search alone.
LEMMA Elsewhere == ASSUME JointInv, UNCHANGED jointVars, level' \in Nat PROVE JointInv'
<1>1. UNCHANGED <<task, frontier, pending, seen, state, step, work, counted, spent, held, status, proof>>
  BY DEF jointVars
<1>2. JointTypes' /\ Whole(frontier)' /\ CutsRecover'
  BY <1>1, Unmoved, AtHand
<1>3. SessionKept'
  BY <1>1 DEF JointInv, SessionKept, Demanded
<1>4. AtGoal'
  BY <1>1 DEF JointInv, AtGoal, Narrow, Digest, Widened
<1>5. Ending'
  BY <1>1 DEF JointInv, Ending, GoalsOf, Holes
<1>6. AnswersAreHonest'
  BY <1>1 DEF JointInv, AnswersAreHonest, CutsMadeUp
<1> QED BY <1>2, <1>3, <1>4, <1>5, <1>6 DEF JointInv

\* Whatever was cut short, a state of the same source with more to try is expanded
\* in the end: each has a better one, and none is better than the widest.
LEMMA CutsEnd ==
  ASSUME JointTypes, frontier.made \subseteq seen, \A d \in frontier.cut : Better(d, frontier)
  PROVE  CutsMadeUp
<1>1. frontier.made \subseteq States /\ frontier.cut \subseteq States
  BY DEF JointTypes, Frontiers
<1> DEFINE MadeUp(d) == \E e \in seen \ frontier.cut : e.src = d.src
<1>2. \A d \in frontier.cut : \E e \in seen : e.src = d.src /\ e \in States /\ ((e.wide /\ ~d.wide) \/ (e.wide = d.wide /\ e.bwide /\ ~d.bwide))
  BY <1>1 DEF Better
<1>3. ASSUME NEW d \in frontier.cut, d.wide /\ d.bwide PROVE MadeUp(d)
  BY <1>2, <1>3
<1>4. ASSUME NEW d \in frontier.cut, d.wide PROVE MadeUp(d)
  <2>1. PICK e \in seen : e.src = d.src /\ e \in States /\ ((e.wide /\ ~d.wide) \/ (e.wide = d.wide /\ e.bwide /\ ~d.bwide))
    BY <1>2, <1>4
  <2>2. e.wide /\ e.bwide
    BY <1>4, <2>1
  <2> QED BY <1>3, <2>1, <2>2
<1>5. ASSUME NEW d \in frontier.cut, d.bwide PROVE MadeUp(d)
  <2>1. PICK e \in seen : e.src = d.src /\ e \in States /\ ((e.wide /\ ~d.wide) \/ (e.wide = d.wide /\ e.bwide /\ ~d.bwide))
    BY <1>2, <1>5
  <2>2. e.wide
    BY <1>5, <2>1
  <2> QED BY <1>4, <2>1, <2>2
<1>6. ASSUME NEW d \in frontier.cut PROVE MadeUp(d)
  <2>1. PICK e \in seen : e.src = d.src /\ e \in States /\ ((e.wide /\ ~d.wide) \/ (e.wide = d.wide /\ e.bwide /\ ~d.bwide))
    BY <1>2, <1>6
  <2>2. e.wide \/ e.bwide
    BY <2>1
  <2> QED BY <1>4, <1>5, <2>1, <2>2
<1> QED BY <1>6 DEF CutsMadeUp

LEMMA FinishKeeps == ASSUME JointInv, Finish PROVE JointInv'
<1>1. /\ step = "end" /\ step' = "done" /\ Ending /\ JointTypes /\ Whole(frontier) /\ CutsRecover
      /\ UNCHANGED <<task, state, held, proof, frontier, pending, seen, work, counted, spent>> /\ level' = level /\ level \in Nat
  BY DEF Finish, Then, JointInv, uncounted, caseVars, source, JointTypes
<1>2. \/ status # "none" /\ status' = status
      \/ status' = "resource-exhausted"
      \/ status = "none" /\ ~frontier.saw /\ Left # 0 /\ status' = "unsolved"
  BY DEF Finish
<1>3. JointTypes' /\ Whole(frontier)' /\ CutsRecover'
  BY <1>1, Unmoved, AtHand
<1>4. SessionKept' /\ AtGoal' /\ Ending'
  BY <1>1 DEF SessionKept, AtGoal, AtWork, Early, Late, Ending
<1>5. status' = "verified" => proof = state.src /\ held = proof /\ "hole" \notin Range(proof)
  <2> SUFFICES ASSUME status' = "verified" PROVE proof = state.src /\ held = proof /\ "hole" \notin Range(proof)
    OBVIOUS
  <2>1. proof = state.src /\ held = proof /\ GoalsOf(state) = {}
    BY <1>1, <1>2 DEF Ending
  <2>2. state.src \in Seq(Pieces)
    BY <1>1 DEF JointTypes, States
  <2>3. \A i \in DOMAIN state.src : state.src[i] # "hole"
    BY <2>1, <2>2 DEF GoalsOf, Holes
  <2> QED BY <2>1, <2>3 DEF Range
<1>6. status' = "unsolved" => frontier.made \subseteq seen /\ (counted = spent => CutsMadeUp)
  <2> SUFFICES ASSUME status' = "unsolved" PROVE frontier.made \subseteq seen /\ (counted = spent => CutsMadeUp)
    OBVIOUS
  <2>1. status = "none" /\ ~frontier.saw /\ Left # 0 /\ pending = NoPending /\ frontier.queue = {} /\ frontier.deferred = <<>>
    BY <1>1, <1>2 DEF Ending
  <2>2. Waits(frontier) = {}
    BY <2>1 DEF Waits
  <2>3. frontier.made \subseteq seen
    BY <1>1, <2>1, <2>2 DEF Whole
  <2>4. ASSUME counted = spent PROVE CutsMadeUp
    <3>1. Left \in Nat
      BY AtHand
    <3>2. Sane
      BY <2>1, <2>4, <3>1 DEF Sane
    <3>3. \A d \in frontier.cut : Better(d, frontier)
      BY <1>1, <2>1, <3>2, Nothing DEF CutsRecover, CutPending
    <3> QED BY <1>1, <2>3, <3>3, CutsEnd
  <2> QED BY <2>3, <2>4
<1>7. AnswersAreHonest'
  BY <1>1, <1>5, <1>6 DEF AnswersAreHonest, CutsMadeUp
<1> QED BY <1>3, <1>4, <1>7 DEF JointInv

-----------------------------------------------------------------------------
(* The two searches together.                                              *)

LEMMA SearchStarts == ASSUME SearchInit PROVE CaseInv /\ JointInv
<1>1. CaseInit /\ JointInit
  BY DEF SearchInit
<1>2. CaseInv /\ level = 0
  BY <1>1, CaseStarts DEF CaseInit
<1>3. task.goals \in Nat /\ task.limit \in Nat /\ task.depth \in Nat
  <2>1. NoTask.goals \in Nat /\ NoTask.limit \in Nat /\ NoTask.depth \in Nat
    BY DEF NoTask
  <2> QED BY <1>1, <2>1, JointAssumption DEF JointInit
<1> DEFINE r == Root(task)
<1>4. r \in States /\ Digest(r) = r
  <2>1. r \in States
    BY <1>3, RootIs
  <2>2. r.depth = 0
    BY DEF Root
  <2> HIDE DEF r
  <2>3. [r EXCEPT !.depth = 0] = r
    BY <2>1, <2>2 DEF States
  <2> QED BY <2>1, <2>3 DEF Digest
<1> HIDE DEF r
<1>5. /\ frontier = [queue |-> {r}, deferred |-> <<>>, saw |-> FALSE, made |-> {r}, cut |-> {}]
      /\ pending = NoPending /\ seen = {} /\ state = NoState /\ work = NoWork
      /\ step \in {"done", "batch"} /\ counted = 0 /\ spent = 0 /\ status = "none"
  BY <1>1 DEF JointInit, r
<1>6. frontier \in Frontiers
  BY <1>4, <1>5 DEF Frontiers
<1>7. JointTypes
  BY <1>2, <1>3, <1>5, <1>6, Nothing DEF JointTypes
<1>8. Whole(frontier)
  <2>1. Waits(frontier) = {r}
    BY <1>4, <1>5 DEF Waits
  <2> QED BY <1>5, <2>1 DEF Whole
<1>9. CutsRecover
  BY <1>5 DEF CutsRecover
<1>10. SessionKept /\ AtGoal /\ Ending /\ AnswersAreHonest
  BY <1>5 DEF SessionKept, AtGoal, AtWork, Early, Late, Ending, AnswersAreHonest
<1> QED BY <1>2, <1>7, <1>8, <1>9, <1>10 DEF JointInv

\* A search that begins has the invariant of a case search, and one that rests keeps it.
LEMMA Rests == ASSUME CaseInv, UNCHANGED <<asked, source, goal, used, verdict>> PROVE CaseInv'
<1>1. UNCHANGED <<asked, text, last, loaded, todo, lane, edits, cases, used, verdict>>
  BY DEF source, goal
<1> QED BY <1>1 DEF CaseInv, CaseTypes, IsRequest, Holes, BehindKept, Visiting, SolvedIsWhole, Spending, Bound, Most, Lesser, Greater

LEMMA NotAskedIs == IsRequest(NotAsked)
BY DEF IsRequest, NotAsked

LEMMA JointStepKeeps == ASSUME CaseInv, JointInv, JointSteps PROVE CaseInv' /\ JointInv'
<1>1. CASE Batch \/ WidenPending \/ Resume \/ Take \/ Load \/ Validate \/ Select
  <2>1. JointInv'
    BY <1>1, BatchKeeps, WidenPendingKeeps, ResumeKeeps, TakeKeeps, LoadStateKeeps, ValidateKeeps, SelectKeeps
  <2>2. UNCHANGED caseVars
    BY <1>1 DEF Batch, WidenPending, Resume, Take, Load, Validate, Select
  <2> QED BY <2>1, <2>2, Rests DEF caseVars
<1>2. CASE ObservedTerms \/ ObservedEquations \/ Focused \/ NoFirstCase \/ ProgramsOver \/ Construct \/ NoConstruct
           \/ WidenPrograms \/ NoLateCase \/ Refine \/ SplitOn
  <2>1. Forward
    BY <1>2, ObservedTermsForward, ObservedEquationsForward, FocusedForward, NoFirstCaseForward, ProgramsOverForward,
       ConstructForward, NoConstructForward, WidenProgramsForward, NoLateCaseForward, RefineForward, SplitOnForward
  <2>2. UNCHANGED settled
    BY <1>2 DEF ObservedTerms, ObservedEquations, Focused, NoFirstCase, ProgramsOver, Construct, NoConstruct,
                WidenPrograms, NoLateCase, Refine, SplitOn
  <2> QED BY <2>1, <2>2, ForwardKeeps, Rests DEF settled, caseVars
<1>3. CASE FirstCase \/ RecursiveProgram \/ LateCase
  <2>1. Forward
    BY <1>3, FirstCaseForward, RecursiveProgramForward, LateCaseForward
  <2>2. step \in AtWork
    BY <2>1 DEF Forward
  <2>3. (\E back, restore, exactLocal, known : Calls(back, restore, exactLocal, known)) \/ UNCHANGED settled
    BY <1>3 DEF FirstCase, RecursiveProgram, LateCase
  <2>4. CaseInv'
    <3>1. CASE \E back, restore, exactLocal, known : Calls(back, restore, exactLocal, known)
      BY <2>2, <3>1, CallsAsks, BeginsKeeps
    <3>2. CASE UNCHANGED settled
      BY <3>2, Rests DEF settled, caseVars
    <3> QED BY <2>3, <3>1, <3>2
  <2> QED BY <2>1, <2>4, ForwardKeeps
<1>4. CASE ReturnCase
  <2>1. IsRequest(asked') /\ Begins(asked', loaded')
    BY <1>4, NotAskedIs DEF ReturnCase, Begins
  <2> QED BY <1>4, <2>1, ReturnCaseForward, ForwardKeeps, BeginsKeeps
<1>5. CASE CaseFails
  BY <1>5, CaseFailsKeeps, NotAskedIs, BeginsKeeps
<1>6. CASE Finish
  <2>1. UNCHANGED caseVars
    BY <1>6 DEF Finish
  <2> QED BY <1>6, <2>1, FinishKeeps, Rests DEF caseVars
<1> QED BY <1>1, <1>2, <1>3, <1>4, <1>5, <1>6 DEF JointSteps

LEMMA CaseLevel == ASSUME level \in Nat, CaseSteps \/ CaseRaise \/ CaseExpire, CaseInv PROVE level' \in Nat
<1>1. CASE LaneSteps
  BY <1>1, LanesMove DEF CaseInv, Moves, still
<1>2. CASE LoadLevel \/ VisitGoal \/ CommitLevel \/ CaseRaise \/ CaseExpire
  BY <1>2 DEF LoadLevel, VisitGoal, CommitLevel, CaseRaise, CaseExpire, Concluded, source
<1> QED BY <1>1, <1>2 DEF CaseSteps

LEMMA SearchKeeps == CaseInv /\ JointInv /\ [SearchNext]_proverVars => CaseInv' /\ JointInv'
<1> SUFFICES ASSUME CaseInv, JointInv, [SearchNext]_proverVars PROVE CaseInv' /\ JointInv'
  OBVIOUS
<1>0. level \in Nat
  BY AtHand
<1>1. CASE JointSteps
  BY <1>1, JointStepKeeps
<1>2. CASE JointRaise
  <2>1. UNCHANGED caseVars
    BY <1>2 DEF JointRaise
  <2> QED BY <1>2, <2>1, JointRaiseKeeps, Rests DEF caseVars
<1>3. CASE JointExpire
  <2>1. UNCHANGED jointVars /\ UNCHANGED <<asked, source, goal, used, verdict>>
    BY <1>3 DEF JointExpire
  <2>2. level' \in Nat
    BY <1>0, <2>1 DEF source
  <2> QED BY <2>1, <2>2, Elsewhere, Rests
<1>4. CASE CalledCase
  <2>1. CaseSteps /\ UNCHANGED jointVars
    BY <1>4 DEF CalledCase
  <2>2. level' \in Nat
    BY <1>0, <2>1, CaseLevel
  <2>3. CaseInv'
    BY <2>1, CaseKeeps DEF CaseNext
  <2> QED BY <2>1, <2>2, <2>3, Elsewhere
<1>5. CASE CaseTrouble
  <2>1. (CaseRaise \/ CaseExpire) /\ UNCHANGED jointVars
    BY <1>5 DEF CaseTrouble
  <2>2. level' \in Nat
    BY <1>0, <2>1, CaseLevel
  <2>3. CaseInv'
    BY <2>1, CaseKeeps DEF CaseNext
  <2> QED BY <2>1, <2>2, <2>3, Elsewhere
<1>6. CASE UNCHANGED proverVars
  <2>1. UNCHANGED caseVars /\ UNCHANGED jointVars
    BY <1>6 DEF proverVars
  <2>2. UNCHANGED <<asked, source, goal, used, verdict>> /\ level' \in Nat
    BY <1>0, <2>1 DEF caseVars, source
  <2> QED BY <2>1, <2>2, Elsewhere, Rests
<1> QED BY <1>1, <1>2, <1>3, <1>4, <1>5, <1>6 DEF SearchNext

LEMMA SearchInvariant == SearchSpec => [](CaseInv /\ JointInv)
BY SearchStarts, SearchKeeps, PTL DEF SearchSpec

\* While a specialist may still ask about the goal, the session holds the state at
\* hand, whatever the case search that shares it loaded and however it ended
\* (run_case_batch restores the parent's source unless nothing comes after it).
THEOREM TheSessionHoldsTheState == SearchSpec => []SessionHoldsTheState
<1>1. JointInv => SessionHoldsTheState
  BY DEF JointInv, SessionKept, SessionHoldsTheState, Specialists, Early, Late, Extended
<1> QED BY <1>1, SearchInvariant, PTL

\* A verified answer is the complete source that was validated; an unsolved one has
\* expanded every state that was proposed, and no expansion was cut short for good
\* unless by what is counted and not charged (the frontier of prove_joint_prefix,
\* its fallbacks, its pending widening and saw_exhaustion).
THEOREM AnswersAreAlwaysHonest == SearchSpec => []AnswersAreHonest
<1>1. JointInv => AnswersAreHonest
  BY DEF JointInv
<1> QED BY <1>1, SearchInvariant, PTL

================================================================================
