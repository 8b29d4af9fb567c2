----------------------------- MODULE FocusedProofs -----------------------------
(***************************************************************************)
(* Proofs about the focused search (FocusedSearch) and its terms           *)
(* (FocusedTerms), for all contexts, eliminators, goals and allowances,    *)
(* and whether one term is wanted or many.                                 *)
(*                                                                         *)
(* The terms of a problem are in storeys, a term above its arguments; a    *)
(* term has a type on one storey if it has it on one above (HigherUp), so  *)
(* the number of actions taken and of frames bounds where to look.         *)
(*                                                                         *)
(* TypedInv: what a frame comes back with has the type the frame below it  *)
(* asked for, under the binders that frame has opened.  A memo entry is    *)
(* keyed by what was known and the depth, so that it may be used wherever  *)
(* the same is known (MemoIs): a goal knows its context and then one       *)
(* binder for each level below its depth (KnownIs), by which a head counts *)
(* (HeadAt).                                                               *)
(*                                                                         *)
(* OwnedInv: the head of each decision is in a term that some frame has    *)
(* taken as an argument, or in the one that was returned last; what a      *)
(* frame recorded that gives up is above its mark and goes with it.        *)
(***************************************************************************)
EXTENDS FocusedTerms, FiniteSetTheorems, SequenceTheorems, WellFoundedInduction, TLAPS

-----------------------------------------------------------------------------
(* Numbers, frames and stacks.                                              *)

\* Every set of naturals with a member has a least one.
LEMMA LeastMember ==
  ASSUME NEW S, S \subseteq Nat, S # {}
  PROVE  \E n \in S : \A m \in S : n <= m
<1>1. PICK R : IsWellFoundedOn(R, Nat) /\ \A m, n \in Nat : m < n => <<m, n>> \in R
  <2>1. IsWellFoundedOn(OpToRel(<, Nat), Nat)
    BY NatLessThanWellFounded
  <2>2. \A m, n \in Nat : m < n => <<m, n>> \in OpToRel(<, Nat)
    BY DEF OpToRel
  <2> QED BY <2>1, <2>2, Zenon
<1>2. PICK n \in S : \A m \in S : ~(<<m, n>> \in R)
  <2>1. IsWellFoundedOn(R, Nat)
    BY <1>1
  <2> QED BY <2>1, WFMin, Zenon
<1>3. \A m \in S : ~(m < n)
  BY <1>1, <1>2
<1> QED BY <1>3

\* Induction over a set: no predicate has to be handed on.
LEMMA EveryNatural ==
  ASSUME NEW S, 0 \in S, \A n \in Nat : n \in S => n + 1 \in S
  PROVE  \A n \in Nat : n \in S
<1> DEFINE without == Nat \ S
<1> SUFFICES ASSUME without # {} PROVE FALSE
  OBVIOUS
<1>1. without \subseteq Nat
  OBVIOUS
<1> HIDE DEF without
<1>2. PICK n \in without : \A m \in without : n <= m
  BY <1>1, LeastMember
<1>3. n # 0 /\ n - 1 \in Nat /\ n - 1 \notin without
  BY <1>1, <1>2 DEF without
<1> QED BY <1>2, <1>3 DEF without

\* A sequence, whatever its members.
Sequence(s) == \E S : s \in Seq(S)

IsFrame(f) ==
  f \in [known : {f.known}, goal : {f.goal}, depth : {f.depth}, level : {f.level}, at : {f.at},
         before : {f.before}, actions : {f.actions}, args : {f.args}, failed : {f.failed},
         mark : {f.mark}, found : {f.found}]

\* Where the frames of _Search are, and those of a goal that is worked on below.
OnePlaces == {"exact", "introduce", "body", "focus", "try", "argument"}

LEMMA NewFrame ==
  ASSUME NEW known, NEW goal, NEW depth, NEW level
  PROVE  IsFrame(Frame(known, goal, depth, level)) /\ Frame(known, goal, depth, level).at = "enter"
BY DEF IsFrame, Frame

LEMMA Popped ==
  ASSUME NEW s, Sequence(s), s # <<>>
  PROVE  /\ Len(s) \in Nat /\ Len(s) >= 1
         /\ Sequence(SubSeq(s, 1, Len(s) - 1)) /\ Len(SubSeq(s, 1, Len(s) - 1)) = Len(s) - 1
         /\ \A k \in 1..(Len(s) - 1) : SubSeq(s, 1, Len(s) - 1)[k] = s[k]
<1>1. PICK S : s \in Seq(S)
  BY DEF Sequence
<1>2. Len(s) \in Nat /\ Len(s) >= 1 /\ Len(s) - 1 \in Int
  BY <1>1
<1>3. \A k \in 1..(Len(s) - 1) : s[k] \in S
  BY <1>1, <1>2
<1>4. /\ SubSeq(s, 1, Len(s) - 1) \in Seq(S)
      /\ Len(SubSeq(s, 1, Len(s) - 1)) = IF 1 <= Len(s) - 1 THEN Len(s) - 1 - 1 + 1 ELSE 0
      /\ \A k \in 1..(Len(s) - 1 - 1 + 1) : SubSeq(s, 1, Len(s) - 1)[k] = s[1 + k - 1]
  BY <1>2, <1>3, SubSeqProperties
<1>5. Len(SubSeq(s, 1, Len(s) - 1)) = Len(s) - 1
  <2>1. CASE Len(s) = 1
    BY <2>1, <1>4
  <2>2. CASE Len(s) # 1
    <3>1. PICK n \in Nat : n = Len(s)
      BY <1>2
    <3>2. 1 <= n - 1 /\ n - 1 - 1 + 1 = n - 1
      BY <2>2, <1>2, <3>1
    <3> QED
      BY <3>1, <3>2, <1>4
  <2> QED
    BY <2>1, <2>2
<1>6. \A k \in 1..(Len(s) - 1) : SubSeq(s, 1, Len(s) - 1)[k] = s[k]
  BY <1>2, <1>4
<1> QED
  BY <1>2, <1>4, <1>5, <1>6 DEF Sequence

LEMMA Pushed ==
  ASSUME NEW s, Sequence(s), NEW f
  PROVE  /\ Sequence(Append(s, f)) /\ Len(Append(s, f)) = Len(s) + 1
         /\ Append(s, f)[Len(s) + 1] = f /\ \A k \in 1..Len(s) : Append(s, f)[k] = s[k]
<1>1. PICK S : s \in Seq(S)
  BY DEF Sequence
<1>2. s \in Seq(S \cup {f})
  BY <1>1
<1> QED
  BY <1>2, AppendProperties DEF Sequence

LEMMA PushedTwice ==
  ASSUME NEW s, Sequence(s), NEW f, NEW g
  PROVE  /\ Sequence(s \o <<f, g>>) /\ Len(s \o <<f, g>>) = Len(s) + 2
         /\ (s \o <<f, g>>)[Len(s) + 1] = f /\ (s \o <<f, g>>)[Len(s) + 2] = g
         /\ \A k \in 1..Len(s) : (s \o <<f, g>>)[k] = s[k]
<1>1. PICK S : s \in Seq(S)
  BY DEF Sequence
<1>2. s \in Seq(S \cup {f, g}) /\ <<f, g>> \in Seq(S \cup {f, g}) /\ Len(<<f, g>>) = 2
  BY <1>1
<1>3. Len(s) \in Nat
  BY <1>1
<1>4. /\ s \o <<f, g>> \in Seq(S \cup {f, g})
      /\ Len(s \o <<f, g>>) = Len(s) + Len(<<f, g>>)
      /\ \A i \in 1..(Len(s) + Len(<<f, g>>)) :
           (s \o <<f, g>>)[i] = IF i <= Len(s) THEN s[i] ELSE <<f, g>>[i - Len(s)]
  BY <1>2, ConcatProperties
<1>5. <<f, g>>[1] = f /\ <<f, g>>[2] = g
  OBVIOUS
<1>6. (s \o <<f, g>>)[Len(s) + 1] = <<f, g>>[1] /\ (s \o <<f, g>>)[Len(s) + 2] = <<f, g>>[2]
  BY <1>2, <1>3, <1>4
<1> QED
  BY <1>2, <1>3, <1>4, <1>5, <1>6 DEF Sequence

-----------------------------------------------------------------------------
(* Terms, storeys and types.                                                *)

\* The storeys are what they are said to be: the function there is one of.
StoreyOf(p, g, n) == IF n = 0 THEN Ground ELSE Storey(p, g[n - 1])
AreStoreys(p, g, N) == g = [n \in N |-> StoreyOf(p, g, n)]

LEMMA StoreysUpTo ==
  ASSUME NEW p
  PROVE  \A m \in Nat : \E g : AreStoreys(p, g, 0..m)
<1> DEFINE S == {m \in Nat : \E g : AreStoreys(p, g, 0..m)}
<1>1. 0 \in S
  <2> DEFINE g == [n \in 0..0 |-> Ground]
  <2>1. g = [n \in 0..0 |-> StoreyOf(p, g, n)]
    BY DEF StoreyOf
  <2> QED BY <2>1 DEF AreStoreys
<1>2. ASSUME NEW m \in Nat, m \in S PROVE m + 1 \in S
  <2>1. PICK g : AreStoreys(p, g, 0..m)
    BY <1>2
  <2> DEFINE next == StoreyOf(p, g, m + 1)
             h == [n \in 0..(m + 1) |-> IF n = m + 1 THEN next ELSE g[n]]
  <2> HIDE DEF next
  <2>2. \A n \in 0..m : h[n] = g[n]
    OBVIOUS
  <2>3. h[m + 1] = next
    OBVIOUS
  <2>4. \A n \in 0..m : g[n] = StoreyOf(p, g, n)
    BY <2>1 DEF AreStoreys
  <2>5. DOMAIN h = 0..(m + 1) /\ h = [n \in 0..(m + 1) |-> h[n]]
    OBVIOUS
  <2> HIDE DEF h
  <2>6. \A n \in 0..(m + 1) : StoreyOf(p, h, n) = StoreyOf(p, g, n)
    <3> TAKE n \in 0..(m + 1)
    <3>1. n = 0 \/ n - 1 \in 0..m
      OBVIOUS
    <3> QED BY <3>1, <2>2 DEF StoreyOf
  <2>7. \A n \in 0..(m + 1) : h[n] = StoreyOf(p, h, n)
    <3> TAKE n \in 0..(m + 1)
    <3>1. n = m + 1 \/ n \in 0..m
      OBVIOUS
    <3> QED BY <3>1, <2>2, <2>3, <2>4, <2>6 DEF next
  <2>8. AreStoreys(p, h, 0..(m + 1))
    BY <2>5, <2>7 DEF AreStoreys
  <2> QED BY <2>8
<1> HIDE DEF S
<1>3. \A m \in Nat : m \in S
  BY <1>1, <1>2, EveryNatural
<1> QED BY <1>3 DEF S

LEMMA StoreysAgree ==
  ASSUME NEW p, NEW m \in Nat, NEW k \in Nat, NEW g, NEW h, AreStoreys(p, g, 0..m), AreStoreys(p, h, 0..k)
  PROVE  \A n \in Nat : n <= m /\ n <= k => g[n] = h[n]
<1> DEFINE S == {n \in Nat : n <= m /\ n <= k => g[n] = h[n]}
<1>1. \A n \in 0..m : g[n] = StoreyOf(p, g, n)
  BY DEF AreStoreys
<1>2. \A n \in 0..k : h[n] = StoreyOf(p, h, n)
  BY DEF AreStoreys
<1>3. 0 \in S
  BY <1>1, <1>2 DEF StoreyOf
<1>4. ASSUME NEW n \in Nat, n \in S PROVE n + 1 \in S
  <2> SUFFICES ASSUME n + 1 <= m, n + 1 <= k PROVE g[n + 1] = h[n + 1]
    OBVIOUS
  <2>1. g[n] = h[n] /\ n + 1 \in 0..m /\ n + 1 \in 0..k /\ (n + 1) - 1 = n /\ n + 1 # 0
    BY <1>4
  <2>2. StoreyOf(p, g, n + 1) = StoreyOf(p, h, n + 1)
    BY <2>1 DEF StoreyOf
  <2> QED BY <1>1, <1>2, <2>1, <2>2
<1> HIDE DEF S
<1>5. \A n \in Nat : n \in S
  BY <1>3, <1>4, EveryNatural
<1> QED BY <1>5 DEF S

LEMMA StoreysExist ==
  ASSUME NEW p
  PROVE  AreStoreys(p, Storeys(p), Nat)
<1> DEFINE G(m) == CHOOSE g : AreStoreys(p, g, 0..m)
           f == [n \in Nat |-> G(n)[n]]
<1>1. \A m \in Nat : AreStoreys(p, G(m), 0..m)
  BY StoreysUpTo
<1> HIDE DEF G
<1>2. \A n \in Nat : f[n] = StoreyOf(p, f, n)
  <2> SUFFICES ASSUME NEW n \in Nat PROVE f[n] = StoreyOf(p, f, n)
    OBVIOUS
  <2>1. G(n)[n] = StoreyOf(p, G(n), n)
    <3>1. n \in 0..n
      OBVIOUS
    <3> QED BY <1>1, <3>1 DEF AreStoreys
  <2>2. CASE n = 0
    BY <2>1, <2>2 DEF StoreyOf
  <2>3. CASE n # 0
    <3>1. n - 1 \in Nat /\ n - 1 <= n /\ n - 1 <= n - 1
      BY <2>3
    <3>2. G(n - 1)[n - 1] = G(n)[n - 1]
      BY <1>1, <3>1, StoreysAgree
    <3>3. f[n - 1] = G(n)[n - 1] /\ f[n] = G(n)[n]
      BY <3>1, <3>2
    <3> HIDE DEF f
    <3> QED BY <2>1, <2>3, <3>3 DEF StoreyOf
  <2> QED BY <2>2, <2>3
<1>3. f = [n \in Nat |-> f[n]]
  OBVIOUS
<1> HIDE DEF f
<1>4. AreStoreys(p, f, Nat)
  BY <1>2, <1>3 DEF AreStoreys
<1>5. Storeys(p) = CHOOSE storey : AreStoreys(p, storey, Nat)
  BY DEF Storeys, AreStoreys, StoreyOf
<1> QED BY <1>4, <1>5

TermsOf(p, n) == Storeys(p)[n].terms
HeadsOf(p, n, t) == Storeys(p)[n].heads[t]

TypedOf(p, n, below) ==
  {j \in [term : TermsOf(p, n), goal : Types, binders : Seq(Types)] : Derives(p, j, Storeys(p)[below].typed)}
HeadsBelow(p, n, t) == {<<t.head.name, Len(t.args)>>} \cup UNION {HeadsOf(p, n, t.args[k]) : k \in DOMAIN t.args}

\* Each storey stands on the one below.
LEMMA StoreysRise ==
  ASSUME NEW p
  PROVE  /\ Storeys(p)[0] = Ground
         /\ \A n \in Nat : Storeys(p)[n + 1] = Storey(p, Storeys(p)[n])
<1>1. \A n \in Nat : Storeys(p)[n] = StoreyOf(p, Storeys(p), n)
  BY StoreysExist DEF AreStoreys
<1>2. \A n \in Nat : n + 1 \in Nat /\ n + 1 # 0 /\ (n + 1) - 1 = n
  OBVIOUS
<1> QED BY <1>1, <1>2 DEF StoreyOf

LEMMA OfStorey ==
  ASSUME NEW p, NEW n \in Nat, NEW m \in Nat, m = n + 1
  PROVE  /\ TermsOf(p, m) = [lams : Nat, head : HeadSet(p), args : Seq(TermsOf(p, n))]
         /\ Storeys(p)[m].typed = TypedOf(p, m, n)
         /\ \A t \in TermsOf(p, m) : HeadsOf(p, m, t) = HeadsBelow(p, n, t)
<1> DEFINE below == Storeys(p)[n]
           terms == [lams : Nat, head : HeadSet(p), args : Seq(below.terms)]
           typed == {j \in [term : terms, goal : Types, binders : Seq(Types)] : Derives(p, j, below.typed)}
           heads == [t \in terms |-> {<<t.head.name, Len(t.args)>>} \cup UNION {below.heads[t.args[k]] : k \in DOMAIN t.args}]
<1>1. Storey(p, below) = [terms |-> terms, typed |-> typed, heads |-> heads]
  BY Zenon DEF Storey
<1>2. Storeys(p)[m] = Storey(p, below)
  BY StoreysRise
<1> HIDE DEF terms, typed, heads
<1>3. Storeys(p)[m].terms = terms /\ Storeys(p)[m].typed = typed /\ Storeys(p)[m].heads = heads
  BY <1>1, <1>2
<1>4. TermsOf(p, m) = terms
  BY <1>3 DEF TermsOf
<1>5. typed = TypedOf(p, m, n)
  BY <1>4, Zenon DEF typed, TypedOf
<1>6. \A t \in terms : heads[t] = HeadsBelow(p, n, t)
  BY DEF heads, HeadsBelow, HeadsOf
<1> QED BY <1>3, <1>4, <1>5, <1>6 DEF terms, TermsOf, HeadsOf

LEMMA TermsRise ==
  ASSUME NEW p
  PROVE  \A n \in Nat : TermsOf(p, n) \subseteq TermsOf(p, n + 1)
<1> DEFINE S == {n \in Nat : TermsOf(p, n) \subseteq TermsOf(p, n + 1)}
<1>1. 0 \in S
  <2>1. TermsOf(p, 0) = {}
    BY StoreysRise DEF Ground, TermsOf
  <2> QED BY <2>1
<1>2. ASSUME NEW n \in Nat, n \in S PROVE n + 1 \in S
  <2>m. PICK m \in Nat : m = n + 1
    OBVIOUS
  <2>k. PICK k \in Nat : k = m + 1
    OBVIOUS
  <2>1. TermsOf(p, n) \subseteq TermsOf(p, m)
    BY <1>2, <2>m
  <2>2. /\ TermsOf(p, m) = [lams : Nat, head : HeadSet(p), args : Seq(TermsOf(p, n))]
        /\ TermsOf(p, k) = [lams : Nat, head : HeadSet(p), args : Seq(TermsOf(p, m))]
    BY <2>m, <2>k, OfStorey, Zenon
  <2>3. Seq(TermsOf(p, n)) \subseteq Seq(TermsOf(p, m))
    BY <2>1
  <2> DEFINE fewer == Seq(TermsOf(p, n))
             more == Seq(TermsOf(p, m))
  <2>4. fewer \subseteq more
    BY <2>3
  <2> HIDE DEF fewer, more
  <2>5. [lams : Nat, head : HeadSet(p), args : fewer] \subseteq [lams : Nat, head : HeadSet(p), args : more]
    BY <2>4
  <2> QED BY <2>m, <2>k, <2>2, <2>5 DEF fewer, more
<1> HIDE DEF S
<1>3. \A n \in Nat : n \in S
  BY <1>1, <1>2, EveryNatural
<1> QED BY <1>3 DEF S

LEMMA TypingsRise ==
  ASSUME NEW p
  PROVE  \A n \in Nat : Storeys(p)[n].typed \subseteq Storeys(p)[n + 1].typed
<1> DEFINE S == {n \in Nat : Storeys(p)[n].typed \subseteq Storeys(p)[n + 1].typed}
<1>1. 0 \in S
  <2>1. Storeys(p)[0].typed = {}
    BY StoreysRise DEF Ground, TermsOf
  <2> QED BY <2>1
<1>2. ASSUME NEW n \in Nat, n \in S PROVE n + 1 \in S
  <2>m. PICK m \in Nat : m = n + 1
    OBVIOUS
  <2>k. PICK k \in Nat : k = m + 1
    OBVIOUS
  <2>1. Storeys(p)[n].typed \subseteq Storeys(p)[m].typed
    BY <1>2, <2>m
  <2>2. \A j : Derives(p, j, Storeys(p)[n].typed) => Derives(p, j, Storeys(p)[m].typed)
    BY <2>1 DEF Derives
  <2>3. TermsOf(p, m) \subseteq TermsOf(p, k)
    BY <2>k, TermsRise
  <2>4. Storeys(p)[m].typed = TypedOf(p, m, n)
    BY <2>m, OfStorey, Zenon
  <2>5. Storeys(p)[k].typed = TypedOf(p, k, m)
    BY <2>k, OfStorey, Zenon
  <2>6. [term : TermsOf(p, m), goal : Types, binders : Seq(Types)] \subseteq [term : TermsOf(p, k), goal : Types, binders : Seq(Types)]
    BY <2>k, <2>3
  <2>7. Storeys(p)[m].typed \subseteq Storeys(p)[k].typed
    BY <2>2, <2>4, <2>5, <2>6, Zenon DEF TypedOf
  <2> QED BY <2>m, <2>k, <2>7
<1> HIDE DEF S
<1>3. \A n \in Nat : n \in S
  BY <1>1, <1>2, EveryNatural
<1> QED BY <1>3 DEF S

LEMMA HeadsStay ==
  ASSUME NEW p
  PROVE  \A n \in Nat : \A t \in TermsOf(p, n) : HeadsOf(p, n + 1, t) = HeadsOf(p, n, t)
<1> DEFINE S == {n \in Nat : \A t \in TermsOf(p, n) : HeadsOf(p, n + 1, t) = HeadsOf(p, n, t)}
<1>1. 0 \in S
  <2>1. TermsOf(p, 0) = {}
    BY StoreysRise DEF Ground, TermsOf
  <2> QED BY <2>1
<1>2. ASSUME NEW n \in Nat, n \in S PROVE n + 1 \in S
  <2>m. PICK m \in Nat : m = n + 1
    OBVIOUS
  <2>k. PICK k \in Nat : k = m + 1
    OBVIOUS
  <2> SUFFICES ASSUME NEW t \in TermsOf(p, m)
               PROVE  HeadsOf(p, k, t) = HeadsOf(p, m, t)
    BY <2>m, <2>k
  <2>1. \A u \in TermsOf(p, n) : HeadsOf(p, m, u) = HeadsOf(p, n, u)
    BY <1>2, <2>m
  <2>2. t.args \in Seq(TermsOf(p, n))
    <3>1. TermsOf(p, m) = [lams : Nat, head : HeadSet(p), args : Seq(TermsOf(p, n))]
      BY <2>m, OfStorey, Zenon
    <3> QED BY <3>1
  <2>3. \A i \in DOMAIN t.args : t.args[i] \in TermsOf(p, n)
    BY <2>2
  <2>4. {HeadsOf(p, m, t.args[i]) : i \in DOMAIN t.args} = {HeadsOf(p, n, t.args[i]) : i \in DOMAIN t.args}
    BY <2>1, <2>3
  <2>5. t \in TermsOf(p, k)
    BY <2>k, TermsRise
  <2>6. HeadsOf(p, m, t) = HeadsBelow(p, n, t)
    BY <2>m, OfStorey, Zenon
  <2>7. HeadsOf(p, k, t) = HeadsBelow(p, m, t)
    BY <2>k, <2>5, OfStorey, Zenon
  <2> QED BY <2>m, <2>k, <2>4, <2>6, <2>7 DEF HeadsBelow
<1> HIDE DEF S
<1>3. \A n \in Nat : n \in S
  BY <1>1, <1>2, EveryNatural
<1> QED BY <1>3 DEF S

\* What is true of a term stays true higher up.
LEMMA HigherUp ==
  ASSUME NEW p, NEW n \in Nat, NEW m \in Nat, n <= m
  PROVE  /\ TermsOf(p, n) \subseteq TermsOf(p, m)
         /\ Storeys(p)[n].typed \subseteq Storeys(p)[m].typed
         /\ \A t \in TermsOf(p, n) : HeadsOf(p, m, t) = HeadsOf(p, n, t)
<1> DEFINE Lasts(k) == /\ TermsOf(p, n) \subseteq TermsOf(p, n + k)
                       /\ Storeys(p)[n].typed \subseteq Storeys(p)[n + k].typed
                       /\ \A t \in TermsOf(p, n) : HeadsOf(p, n + k, t) = HeadsOf(p, n, t)
           S == {k \in Nat : Lasts(k)}
<1>1. 0 \in S
  OBVIOUS
<1>2. ASSUME NEW k \in Nat, k \in S PROVE k + 1 \in S
  <2>1. Lasts(k)
    BY <1>2
  <2>2. n + k \in Nat /\ n + (k + 1) = (n + k) + 1
    OBVIOUS
  <2>3. /\ TermsOf(p, n + k) \subseteq TermsOf(p, (n + k) + 1)
        /\ Storeys(p)[n + k].typed \subseteq Storeys(p)[(n + k) + 1].typed
        /\ \A t \in TermsOf(p, n + k) : HeadsOf(p, (n + k) + 1, t) = HeadsOf(p, n + k, t)
    BY <2>2, TermsRise, TypingsRise, HeadsStay
  <2>4. Lasts(k + 1)
    BY <2>1, <2>2, <2>3
  <2> QED BY <2>4
<1> HIDE DEF S
<1>3. \A k \in Nat : k \in S
  BY <1>1, <1>2, EveryNatural
<1>4. m - n \in Nat /\ n + (m - n) = m
  OBVIOUS
<1>5. Lasts(m - n)
  BY <1>3, <1>4 DEF S
<1> QED BY <1>4, <1>5

-----------------------------------------------------------------------------
(* Parts of sequences.                                                      *)

\* What a part of a sequence is.
LEMMA Slice ==
  ASSUME NEW S, NEW s \in Seq(S), NEW a \in 1..(Len(s) + 1), NEW b \in (a - 1)..Len(s)
  PROVE  /\ SubSeq(s, a, b) \in Seq(S) /\ Len(SubSeq(s, a, b)) = b - a + 1
         /\ \A i \in 1..(b - a + 1) : SubSeq(s, a, b)[i] = s[a + i - 1]
<1>1. Len(s) \in Nat /\ a \in Int /\ b \in Int
  OBVIOUS
<1>2. \A i \in a..b : s[i] \in S
  OBVIOUS
<1>3. /\ SubSeq(s, a, b) \in Seq(S)
      /\ Len(SubSeq(s, a, b)) = IF a <= b THEN b - a + 1 ELSE 0
      /\ \A i \in 1..(b - a + 1) : SubSeq(s, a, b)[i] = s[a + i - 1]
  BY <1>1, <1>2, SubSeqProperties
<1>4. (IF a <= b THEN b - a + 1 ELSE 0) = b - a + 1
  BY <1>1
<1> QED BY <1>3, <1>4

LEMMA SliceOfRest ==
  ASSUME NEW S, NEW s \in Seq(S), NEW k \in 0..Len(s), NEW a \in 1..(Len(s) - k + 1), NEW b \in (a - 1)..(Len(s) - k)
  PROVE  SubSeq(SubSeq(s, k + 1, Len(s)), a, b) = SubSeq(s, k + a, k + b)
<1> DEFINE r == SubSeq(s, k + 1, Len(s))
           u == SubSeq(r, a, b)
           v == SubSeq(s, k + a, k + b)
<1>0. Len(s) \in Nat
  OBVIOUS
<1>1. PICK i \in 1..(Len(s) + 1) : i = k + 1
  BY <1>0
<1>2. /\ r \in Seq(S) /\ Len(r) = Len(s) - k
      /\ \A j \in 1..(Len(s) - k) : r[j] = s[k + j]
  <2>1. /\ SubSeq(s, i, Len(s)) \in Seq(S) /\ Len(SubSeq(s, i, Len(s))) = Len(s) - i + 1
        /\ \A j \in 1..(Len(s) - i + 1) : SubSeq(s, i, Len(s))[j] = s[i + j - 1]
    <3>1. Len(s) \in (i - 1)..Len(s)
      BY <1>0, <1>1
    <3> QED BY <3>1, Slice
  <2>2. r = SubSeq(s, i, Len(s)) /\ Len(s) - i + 1 = Len(s) - k
    BY <1>0, <1>1
  <2> HIDE DEF r
  <2>3. \A j \in 1..(Len(s) - k) : i + j - 1 = k + j
    BY <1>0, <1>1
  <2> QED BY <2>1, <2>2, <2>3
<1> HIDE DEF r
<1>3. /\ u \in Seq(S) /\ Len(u) = b - a + 1
      /\ \A j \in 1..(b - a + 1) : u[j] = r[a + j - 1]
  <2>1. a \in 1..(Len(r) + 1) /\ b \in (a - 1)..Len(r)
    BY <1>0, <1>2
  <2> QED BY <1>2, <2>1, Slice
<1>4. PICK c \in 1..(Len(s) + 1), d \in 0..Len(s) : c = k + a /\ d = k + b
  BY <1>0
<1>5. /\ v \in Seq(S) /\ Len(v) = b - a + 1
      /\ \A j \in 1..(b - a + 1) : v[j] = s[c + j - 1]
  <2>1. d \in (c - 1)..Len(s) /\ d - c + 1 = b - a + 1
    BY <1>0, <1>4
  <2>2. /\ SubSeq(s, c, d) \in Seq(S) /\ Len(SubSeq(s, c, d)) = d - c + 1
        /\ \A j \in 1..(d - c + 1) : SubSeq(s, c, d)[j] = s[c + j - 1]
    BY <2>1, Slice
  <2> QED BY <1>4, <2>1, <2>2
<1> HIDE DEF u, v
<1>6. \A j \in 1..(b - a + 1) : u[j] = v[j]
  <2> TAKE j \in 1..(b - a + 1)
  <2>1. a + j - 1 \in 1..(Len(s) - k) /\ k + (a + j - 1) = c + j - 1
    BY <1>0, <1>4
  <2>2. r[a + j - 1] = s[c + j - 1]
    BY <1>2, <2>1
  <2> QED BY <1>3, <1>5, <2>2
<1>7. u = v
  BY <1>3, <1>5, <1>6, SeqEqual
<1> QED BY <1>7 DEF u, v, r

\* What is typed is a term.
LEMMA TypedTerms ==
  ASSUME NEW p, NEW n \in Nat, NEW t, NEW goal, NEW binders, HasType(p, n, t, goal, binders)
  PROVE  n # 0 /\ t \in TermsOf(p, n) /\ goal \in Types /\ binders \in Seq(Types)
<1> DEFINE j == [term |-> t, goal |-> goal, binders |-> binders]
<1>1. j \in Storeys(p)[n].typed
  BY DEF HasType
<1>2. CASE n = 0
  BY <1>1, <1>2, StoreysRise DEF Ground
<1>3. CASE n # 0
  <2>1. PICK m \in Nat : n = m + 1
    BY <1>3
  <2>2. Storeys(p)[n].typed = TypedOf(p, n, m)
    BY <2>1, OfStorey, Zenon
  <2>3. j \in [term : TermsOf(p, n), goal : Types, binders : Seq(Types)]
    BY <1>1, <2>2, Zenon DEF TypedOf
  <2> QED BY <1>3, <2>3
<1> QED BY <1>2, <1>3

LEMMA TypesAre ==
  ASSUME NEW t \in Types
  PROVE  /\ t.from \in Seq(Types) /\ t = Arrow(t.from, t.to)
         /\ \A n \in 0..Len(t.from) : Arrow(SubSeq(t.from, n + 1, Len(t.from)), t.to) \in Types
BY TypesAssumption, Zenon

\* A head that is given arguments of the types it asks for.
LEMMA Application ==
  ASSUME NEW p, NEW n \in Nat, NEW head \in HeadSet(p), NEW goal \in Types, NEW binders \in Seq(Types),
         NEW args, Sequence(args), NEW h \in HeadTypes(p, head, binders, goal),
         Len(args) <= Len(h.from), Arrow(SubSeq(h.from, Len(args) + 1, Len(h.from)), h.to) = goal,
         \A k \in DOMAIN args : HasType(p, n, args[k], h.from[k], binders)
  PROVE  HasType(p, n + 1, Applied(head, args), goal, binders)
<1> DEFINE t == Applied(head, args)
           j == [term |-> t, goal |-> goal, binders |-> binders]
<1>m. PICK m \in Nat : m = n + 1
  OBVIOUS
<1>1. args \in Seq(TermsOf(p, n))
  <2>1. PICK S : args \in Seq(S)
    BY DEF Sequence
  <2>2. \A k \in DOMAIN args : args[k] \in TermsOf(p, n)
    BY TypedTerms
  <2>3. Len(args) \in Nat /\ DOMAIN args = 1..Len(args) /\ args = [k \in 1..Len(args) |-> args[k]]
    BY <2>1
  <2> QED BY <2>2, <2>3
<1>2. t = [lams |-> 0, head |-> head, args |-> args]
  BY DEF Applied
<1>3. t \in TermsOf(p, m)
  <2>1. TermsOf(p, m) = [lams : Nat, head : HeadSet(p), args : Seq(TermsOf(p, n))]
    BY <1>m, OfStorey, Zenon
  <2> QED BY <1>1, <1>2, <2>1
<1>4. t.lams = 0 /\ t.head = head /\ t.args = args
  BY <1>2
<1> HIDE DEF t
<1>5. binders \o SubSeq(goal.from, 1, 0) = binders
  <2>1. SubSeq(goal.from, 1, 0) = <<>>
    BY SubSeqEmpty
  <2> QED BY <2>1, ConcatEmptySeq
<1>6. Arrow(SubSeq(goal.from, 1, Len(goal.from)), goal.to) = goal /\ Len(goal.from) \in Nat
  <2>1. goal.from \in Seq(Types) /\ goal = Arrow(goal.from, goal.to)
    BY TypesAre, Zenon
  <2>2. SubSeq(goal.from, 1, Len(goal.from)) = goal.from
    BY <2>1, SubSeqFull
  <2>3. Arrow(SubSeq(goal.from, 1, Len(goal.from)), goal.to) = goal
    BY <2>1, <2>2, Zenon
  <2>4. Len(goal.from) \in Nat
    BY <2>1
  <2> QED BY <2>3, <2>4, Zenon
<1>7. \A k \in DOMAIN args : [term |-> args[k], goal |-> h.from[k], binders |-> binders] \in Storeys(p)[n].typed
  BY DEF HasType
<1>8. Derives(p, j, Storeys(p)[n].typed)
  <2>1. j.term = t /\ j.goal = goal /\ j.binders = binders
    OBVIOUS
  <2> HIDE DEF j
  <2>2. 0 <= Len(goal.from) /\ 0 + 1 = 1
    BY <1>6
  <2> QED BY <2>1, <2>2, <1>4, <1>5, <1>6, <1>7 DEF Derives
<1>9. j \in [term : TermsOf(p, m), goal : Types, binders : Seq(Types)]
  BY <1>3
<1>10. Storeys(p)[m].typed = TypedOf(p, m, n)
  BY <1>m, OfStorey, Zenon
<1>11. j \in Storeys(p)[m].typed
  <2> HIDE DEF j
  <2> QED BY <1>8, <1>9, <1>10, Zenon DEF TypedOf
<1> QED BY <1>11, <1>m DEF HasType, t

\* A term for what is left of a type, under the binders of the others.
LEMMA Abstraction ==
  ASSUME NEW p, NEW n \in Nat, NEW t, NEW goal \in Types, NEW k \in 0..Len(goal.from), NEW binders \in Seq(Types),
         HasType(p, n, t, Arrow(SubSeq(goal.from, k + 1, Len(goal.from)), goal.to), binders \o SubSeq(goal.from, 1, k))
  PROVE  HasType(p, n, Lambda(k, t), goal, binders)
<1> DEFINE from == goal.from
           rest == Arrow(SubSeq(from, k + 1, Len(from)), goal.to)
           under == binders \o SubSeq(from, 1, k)
           j == [term |-> t, goal |-> rest, binders |-> under]
           u == Lambda(k, t)
           i == [term |-> u, goal |-> goal, binders |-> binders]
<1>0. n # 0 /\ t \in TermsOf(p, n) /\ rest \in Types /\ under \in Seq(Types)
  BY TypedTerms, Zenon
<1>m. PICK m \in Nat : n = m + 1
  BY <1>0
<1>1. from \in Seq(Types) /\ Len(from) \in Nat
  BY TypesAre
<1>2. Derives(p, j, Storeys(p)[m].typed)
  <2>1. j \in Storeys(p)[n].typed
    BY DEF HasType
  <2>2. Storeys(p)[n].typed = TypedOf(p, n, m)
    BY <1>m, OfStorey, Zenon
  <2> QED BY <2>1, <2>2, Zenon DEF TypedOf
<1>3. t \in [lams : Nat, head : HeadSet(p), args : Seq(TermsOf(p, m))]
  <2>1. TermsOf(p, n) = [lams : Nat, head : HeadSet(p), args : Seq(TermsOf(p, m))]
    BY <1>m, OfStorey, Zenon
  <2> QED BY <1>0, <2>1
<1>4. u \in TermsOf(p, n) /\ u.lams = t.lams + k /\ u.head = t.head /\ u.args = t.args /\ t.lams \in Nat
  <2>1. TermsOf(p, n) = [lams : Nat, head : HeadSet(p), args : Seq(TermsOf(p, m))]
    BY <1>m, OfStorey, Zenon
  <2>2. u = [t EXCEPT !.lams = t.lams + k]
    BY DEF Lambda
  <2>3. t.lams + k \in Nat
    BY <1>1, <1>3
  <2> QED BY <1>3, <2>1, <2>2, <2>3
<1>5. rest.from = SubSeq(from, k + 1, Len(from)) /\ rest.to = goal.to
  BY DEF Arrow
<1>6. Len(rest.from) = Len(from) - k
  <2>1. PICK e \in 1..(Len(from) + 1) : e = k + 1
    BY <1>1
  <2>2. Len(from) \in (e - 1)..Len(from)
    BY <1>1, <2>1
  <2>3. Len(SubSeq(from, e, Len(from))) = Len(from) - e + 1
    BY <1>1, <2>1, <2>2, Slice
  <2>4. rest.from = SubSeq(from, e, Len(from))
    BY <1>5, <2>1, Zenon
  <2> HIDE DEF rest
  <2> QED BY <1>1, <2>1, <2>3, <2>4
<1> HIDE DEF rest, under, u
<1>7. PICK l \in Nat : l = t.lams
  BY <1>4
<1>8. j.term = t /\ j.goal = rest /\ j.binders = under
  OBVIOUS
<1>9. /\ l <= Len(rest.from)
      /\ \E h \in HeadTypes(p, t.head, under \o SubSeq(rest.from, 1, l), Arrow(SubSeq(rest.from, l + 1, Len(rest.from)), rest.to)) :
           /\ Len(t.args) <= Len(h.from)
           /\ Arrow(SubSeq(h.from, Len(t.args) + 1, Len(h.from)), h.to) = Arrow(SubSeq(rest.from, l + 1, Len(rest.from)), rest.to)
           /\ \A a \in DOMAIN t.args :
                [term |-> t.args[a], goal |-> h.from[a], binders |-> under \o SubSeq(rest.from, 1, l)] \in Storeys(p)[m].typed
  <2> HIDE DEF j
  <2> QED BY <1>2, <1>7, <1>8 DEF Derives
<1>10. SubSeq(rest.from, l + 1, Len(rest.from)) = SubSeq(from, (l + k) + 1, Len(from))
  <2>1. PICK a \in 1..(Len(from) - k + 1), b \in 0..(Len(from) - k) : a = l + 1 /\ b = Len(from) - k
    <3>1. l + 1 \in 1..(Len(from) - k + 1) /\ Len(from) - k \in 0..(Len(from) - k)
      BY <1>1, <1>6, <1>9
    <3> QED BY <3>1
  <2>2. SubSeq(SubSeq(from, k + 1, Len(from)), a, b) = SubSeq(from, k + a, k + b)
    <3>1. b \in (a - 1)..(Len(from) - k)
      BY <1>1, <1>6, <1>9, <2>1
    <3> QED BY <1>1, <3>1, SliceOfRest
  <2>3. k + a = (l + k) + 1 /\ k + b = Len(from)
    BY <1>1, <2>1
  <2> QED BY <1>5, <1>6, <2>1, <2>2, <2>3
<1>11. under \o SubSeq(rest.from, 1, l) = binders \o SubSeq(from, 1, l + k)
  <2>1. SubSeq(rest.from, 1, l) = SubSeq(from, k + 1, k + l)
    <3>1. 1 \in 1..(Len(from) - k + 1) /\ l \in 0..(Len(from) - k)
      BY <1>1, <1>6, <1>9
    <3>2. SubSeq(SubSeq(from, k + 1, Len(from)), 1, l) = SubSeq(from, k + 1, k + l)
      BY <1>1, <3>1, SliceOfRest
    <3> QED BY <1>5, <3>2
  <2>2. SubSeq(from, 1, k) \o SubSeq(from, k + 1, k + l) = SubSeq(from, 1, k + l)
    <3>1. 1 \in 1..(Len(from) + 1) /\ k \in (1 - 1)..Len(from) /\ k + l \in k..Len(from)
      BY <1>1, <1>6, <1>9
    <3> QED BY <1>1, <3>1, ConcatAdjacentSubSeq
  <2>3. SubSeq(from, 1, k) \in Seq(Types)
    <3>1. 1 \in 1..(Len(from) + 1) /\ k \in (1 - 1)..Len(from)
      BY <1>1
    <3> QED BY <1>1, <3>1, Slice
  <2>4. SubSeq(from, k + 1, k + l) \in Seq(Types)
    <3>1. PICK a \in 1..(Len(from) + 1), b \in 0..Len(from) : a = k + 1 /\ b = k + l
      <4>1. k + 1 \in 1..(Len(from) + 1) /\ k + l \in 0..Len(from)
        BY <1>1, <1>6, <1>9
      <4> QED BY <4>1
    <3>2. b \in (a - 1)..Len(from)
      BY <1>1, <3>1, <1>7
    <3> QED BY <1>1, <3>1, <3>2, Slice
  <2>5. (binders \o SubSeq(from, 1, k)) \o SubSeq(from, k + 1, k + l) = binders \o SubSeq(from, 1, k + l)
    <3> DEFINE one == SubSeq(from, 1, k)
               two == SubSeq(from, k + 1, k + l)
    <3>1. one \in Seq(Types) /\ two \in Seq(Types)
      BY <2>3, <2>4
    <3> HIDE DEF one, two
    <3>2. (binders \o one) \o two = binders \o (one \o two)
      BY <3>1, ConcatAssociative
    <3> QED BY <2>2, <3>2, Zenon DEF one, two
  <2>6. k + l = l + k
    BY <1>1
  <2> QED BY <2>1, <2>5, <2>6 DEF under
<1>12. i.term = u /\ i.goal = goal /\ i.binders = binders
  OBVIOUS
<1>13. l + k <= Len(from) /\ u.lams = l + k
  BY <1>1, <1>4, <1>6, <1>7, <1>9
<1>14. /\ u.lams <= Len(goal.from)
       /\ \E h \in HeadTypes(p, u.head, binders \o SubSeq(goal.from, 1, u.lams), Arrow(SubSeq(goal.from, u.lams + 1, Len(goal.from)), goal.to)) :
            /\ Len(u.args) <= Len(h.from)
            /\ Arrow(SubSeq(h.from, Len(u.args) + 1, Len(h.from)), h.to) = Arrow(SubSeq(goal.from, u.lams + 1, Len(goal.from)), goal.to)
            /\ \A a \in DOMAIN u.args :
                 [term |-> u.args[a], goal |-> h.from[a], binders |-> binders \o SubSeq(goal.from, 1, u.lams)] \in Storeys(p)[m].typed
  BY <1>4, <1>5, <1>9, <1>10, <1>11, <1>13
<1> HIDE DEF i
<1>15. Derives(p, i, Storeys(p)[m].typed)
  BY <1>12, <1>14 DEF Derives
<1>16. i \in [term : TermsOf(p, n), goal : Types, binders : Seq(Types)]
  BY <1>4 DEF i
<1>17. Storeys(p)[n].typed = TypedOf(p, n, m)
  BY <1>m, OfStorey, Zenon
<1>18. i \in Storeys(p)[n].typed
  BY <1>15, <1>16, <1>17, Zenon DEF TypedOf
<1> QED BY <1>18 DEF HasType, i, u

-----------------------------------------------------------------------------
(* What is known below a goal.                                              *)

\* What is known below a goal: its context, and then the binders by their level.
KnownIs(p, known, depth) ==
  /\ depth \in Nat /\ Sequence(known) /\ Len(known) = Len(p.context) + depth
  /\ \A k \in 1..Len(known) : known[k].type \in Types
  /\ \A k \in 1..Len(p.context) : known[k].name = p.context[k].name /\ known[k].type = p.context[k].type
  /\ \A k \in 1..depth : known[Len(p.context) + k].name = "" /\ known[Len(p.context) + k].level = k - 1

SequentIs(p, s) == KnownIs(p, s.known, s.depth) /\ s.goal \in Types

LEMMA GoalsAreTypes ==
  ASSUME NEW p \in Problems
  PROVE  p.goal \in Types
BY TypesAssumption, Zenon

LEMMA Contexts ==
  ASSUME NEW p \in Problems
  PROVE  Len(p.context) \in Nat /\ DOMAIN p.context = 1..Len(p.context)
<1> DEFINE S == [name : STRING, type : Types]
<1>1. p.context \in Seq(S)
  BY TypesAssumption, Zenon
<1> HIDE DEF S
<1> QED BY <1>1

LEMMA ContextIs ==
  ASSUME NEW p \in Problems, NEW k \in 1..Len(p.context)
  PROVE  p.context[k].name # "" /\ p.context[k].type \in Types
<1>1. p.context \in Seq([name : STRING, type : Types])
  BY TypesAssumption, Zenon
<1>2. p.context[k] \in [name : STRING, type : Types]
  <2> DEFINE S == [name : STRING, type : Types]
  <2>1. p.context \in Seq(S)
    BY <1>1
  <2> HIDE DEF S
  <2>2. p.context[k] \in S
    BY <2>1, ElementOfSeq
  <2> QED BY <2>2 DEF S
<1>3. p.context[k].type \in Types
  BY <1>2
<1>4. k \in DOMAIN p.context
  BY Contexts
<1>5. p.context[k].name # ""
  BY <1>4, TypesAssumption, Zenon
<1> QED BY <1>3, <1>5

LEMMA Locals ==
  ASSUME NEW p \in Problems, NEW known, NEW depth, KnownIs(p, known, depth)
  PROVE  /\ LocalTypes(p, known) \in Seq(Types) /\ Len(LocalTypes(p, known)) = depth
         /\ \A k \in 1..depth : LocalTypes(p, known)[k] = known[Len(p.context) + k].type
<1>1. Len(p.context) \in Nat /\ depth \in Nat /\ Len(known) = Len(p.context) + depth
  BY Contexts DEF KnownIs
<1>2. Len(known) - Len(p.context) = depth
  BY <1>1
<1>3. LocalTypes(p, known) = [k \in 1..depth |-> known[Len(p.context) + k].type]
  BY <1>2 DEF LocalTypes
<1>4. \A k \in 1..depth : Len(p.context) + k \in 1..Len(known)
  BY <1>1
<1>5. \A k \in 1..depth : known[Len(p.context) + k].type \in Types
  BY <1>4 DEF KnownIs
<1> QED BY <1>1, <1>3, <1>5

\* What is known is a head of its type.
LEMMA HeadOfKnown ==
  ASSUME NEW p \in Problems, NEW known, NEW depth, KnownIs(p, known, depth), NEW k \in DOMAIN known, NEW goal
  PROVE  /\ HeadAt(known[k], depth) \in HeadSet(p)
         /\ known[k].type \in HeadTypes(p, HeadAt(known[k], depth), LocalTypes(p, known), goal)
<1> DEFINE h == HeadAt(known[k], depth)
           binders == LocalTypes(p, known)
<1>1. /\ Len(p.context) \in Nat /\ depth \in Nat /\ Len(known) = Len(p.context) + depth
      /\ DOMAIN p.context = 1..Len(p.context) /\ k \in 1..Len(known)
  <2>1. PICK S : known \in Seq(S)
    BY DEF KnownIs, Sequence
  <2>2. k \in 1..Len(known)
    BY <2>1
  <2> QED BY <2>2, Contexts DEF KnownIs
<1>2. CASE k <= Len(p.context)
  <2>0. k \in 1..Len(p.context)
    BY <1>1, <1>2
  <2>1. k \in 1..Len(p.context) /\ p.context[k].name # ""
    BY <2>0, ContextIs, Zenon
  <2>2. known[k].name = p.context[k].name /\ known[k].type = p.context[k].type
    BY <2>1 DEF KnownIs
  <2>3. h = [name |-> p.context[k].name, index |-> -1]
    BY <2>1, <2>2 DEF HeadAt
  <2> HIDE DEF h, binders
  <2>4. h.name = p.context[k].name /\ h.index = -1 /\ h.name # ""
    BY <2>1, <2>3
  <2>5. h \in HeadSet(p)
    <3> DEFINE names == {""} \cup {p.context[j].name : j \in DOMAIN p.context} \cup {p.eliminators[j].name : j \in DOMAIN p.eliminators}
    <3>1. p.context[k].name \in names
      BY <1>1, <2>1
    <3> HIDE DEF names
    <3>2. h \in [name : names, index : Int]
      BY <2>3, <3>1
    <3> QED BY <3>2 DEF HeadSet, names
  <2>6. known[k].type \in {p.context[i].type : i \in {j \in DOMAIN p.context : p.context[j].name = h.name}}
    BY <1>1, <2>1, <2>2, <2>4
  <2>7. known[k].type \in HeadTypes(p, h, binders, goal)
    BY <2>4, <2>6 DEF HeadTypes
  <2> QED BY <2>5, <2>7 DEF h, binders
<1>3. CASE k > Len(p.context)
  <2>1. PICK i \in 1..depth : k = Len(p.context) + i
    <3>1. k - Len(p.context) \in 1..depth /\ k = Len(p.context) + (k - Len(p.context))
      BY <1>1, <1>3
    <3> QED BY <3>1
  <2>2. known[k].name = "" /\ known[k].level = i - 1
    BY <2>1 DEF KnownIs
  <2>3. h = [name |-> "", index |-> depth - 1 - (i - 1)]
    BY <2>2 DEF HeadAt
  <2> HIDE DEF h
  <2>4. h.name = "" /\ h.index = depth - 1 - (i - 1)
    BY <2>3
  <2>5. h.index = depth - i /\ h.index \in 0..(depth - 1) /\ h.index \in Int
    <3>1. PICK e \in Nat, d \in Nat : e = i /\ d = depth /\ 1 <= e /\ e <= d
      BY <1>1
    <3>2. d - 1 - (e - 1) = d - e /\ d - e \in 0..(d - 1) /\ d - e \in Int
      BY <3>1
    <3> QED BY <2>4, <3>1, <3>2
  <2>6. h \in HeadSet(p)
    <3> DEFINE names == {""} \cup {p.context[j].name : j \in DOMAIN p.context} \cup {p.eliminators[j].name : j \in DOMAIN p.eliminators}
    <3>1. "" \in names
      OBVIOUS
    <3> HIDE DEF names
    <3>2. depth - 1 - (i - 1) \in Int
      BY <1>1
    <3>3. h \in [name : names, index : Int]
      BY <2>3, <3>1, <3>2
    <3> QED BY <3>3 DEF HeadSet, names
  <2>7. Len(binders) = depth /\ binders[i] = known[k].type
    BY <2>1, Locals
  <2> HIDE DEF binders
  <2>8. Len(binders) - h.index = i /\ h.index \in 0..(Len(binders) - 1)
    BY <1>1, <2>1, <2>5, <2>7
  <2>9. HeadTypes(p, h, binders, goal) = {binders[Len(binders) - h.index]}
    BY <2>4, <2>8 DEF HeadTypes
  <2>10. known[k].type \in HeadTypes(p, h, binders, goal)
    BY <2>7, <2>8, <2>9
  <2> QED BY <2>6, <2>10 DEF h, binders
<1> QED BY <1>1, <1>2, <1>3

\* A new binder comes after what is known.
LEMMA Opened ==
  ASSUME NEW p \in Problems, NEW f, KnownIs(p, f.known, f.depth), NEW domains \in Seq(Types)
  PROVE  /\ KnownIs(p, f.known \o Introduced(domains, f), f.depth + Len(domains))
         /\ LocalTypes(p, f.known \o Introduced(domains, f)) = LocalTypes(p, f.known) \o domains
<1> DEFINE new == Introduced(domains, f)
           known == f.known
           all == known \o new
           C == Len(p.context)
           D == Len(domains)
<1>1. C \in Nat /\ f.depth \in Nat /\ Len(known) = C + f.depth /\ D \in Nat
  <2>1. D \in Nat
    OBVIOUS
  <2> HIDE DEF D
  <2> QED BY <2>1, Contexts DEF KnownIs
<1>2. new = [k \in 1..D |-> Local(domains[k], Len(known) + k - 1, f.depth + k - 1)]
  BY DEF Introduced
<1>3. \A k \in 1..D : new[k].type = domains[k] /\ new[k].name = "" /\ new[k].level = f.depth + k - 1
  <2> TAKE k \in 1..D
  <2>1. new[k] = Local(domains[k], Len(known) + k - 1, f.depth + k - 1)
    BY <1>2
  <2> HIDE DEF new
  <2> DEFINE order == Len(known) + k - 1
             level == f.depth + k - 1
             type == domains[k]
  <2>2. new[k] = [type |-> type, order |-> order, name |-> "", level |-> level]
    BY <2>1 DEF Local
  <2> DEFINE r == [type |-> type, order |-> order, name |-> "", level |-> level]
  <2> HIDE DEF order, level, type
  <2>3. r.type = type /\ r.name = "" /\ r.level = level
    OBVIOUS
  <2>4. new[k] = r
    BY <2>2
  <2> HIDE DEF r
  <2>5. new[k].type = type /\ new[k].name = "" /\ new[k].level = level
    BY <2>3, <2>4, Zenon
  <2> QED BY <2>5 DEF type, level
<1>4. PICK S : known \in Seq(S)
  BY DEF KnownIs, Sequence
<1> DEFINE U == S \cup {new[k] : k \in 1..D}
<1>5. known \in Seq(U) /\ new \in Seq(U) /\ Len(new) = D
  <2>1. \A k \in 1..D : new[k] \in U
    OBVIOUS
  <2>2. new = [k \in 1..D |-> new[k]]
    BY <1>2
  <2> HIDE DEF new
  <2>3. S \subseteq U
    OBVIOUS
  <2> HIDE DEF U
  <2> QED BY <1>1, <1>4, <2>1, <2>2, <2>3
<1> HIDE DEF new, U
<1>6. /\ all \in Seq(U) /\ Len(all) = Len(known) + D
      /\ \A i \in 1..(Len(known) + D) : all[i] = IF i <= Len(known) THEN known[i] ELSE new[i - Len(known)]
  <2>1. /\ known \o new \in Seq(U) /\ Len(known \o new) = Len(known) + Len(new)
        /\ \A i \in 1..(Len(known) + Len(new)) :
             (known \o new)[i] = IF i <= Len(known) THEN known[i] ELSE new[i - Len(known)]
    BY <1>5, ConcatProperties
  <2> QED BY <2>1, <1>5
<1> HIDE DEF all
<1>7. \A k \in 1..Len(known) : all[k] = known[k]
  BY <1>1, <1>6
<1>8. \A k \in 1..D : all[Len(known) + k] = new[k]
  <2> TAKE k \in 1..D
  <2>1. Len(known) + k \in 1..(Len(known) + D) /\ ~(Len(known) + k <= Len(known)) /\ (Len(known) + k) - Len(known) = k
    BY <1>1
  <2> QED BY <1>6, <2>1
<1>9. KnownIs(p, all, f.depth + D)
  <2>1. f.depth + D \in Nat /\ Sequence(all) /\ Len(all) = C + (f.depth + D)
    BY <1>1, <1>6 DEF Sequence
  <2>2. \A k \in 1..Len(all) : all[k].type \in Types
    <3> TAKE k \in 1..Len(all)
    <3>1. CASE k <= Len(known)
      <4>1. k \in 1..Len(known)
        BY <1>1, <2>1, <3>1
      <4>2. known[k].type \in Types
        BY <4>1 DEF KnownIs
      <4> QED BY <4>1, <4>2, <1>7
    <3>2. CASE k > Len(known)
      <4>1. PICK i \in 1..D : k = Len(known) + i
        <5>1. PICK l \in Nat : l = Len(known) /\ Len(all) = l + D /\ D \in Nat
          <6>1. Len(known) \in Nat /\ Len(all) = Len(known) + D
            BY <1>1, <2>1
          <6> QED BY <1>1, <6>1
        <5>2. k - l \in 1..D /\ k = l + (k - l)
          <6> HIDE DEF D
          <6> QED BY <5>1, <3>2
        <5> QED BY <5>1, <5>2
      <4>2. all[k] = new[i] /\ new[i].type = domains[i] /\ domains[i] \in Types
        <5>1. all[k] = new[i]
          BY <1>8, <4>1
        <5>2. new[i].type = domains[i]
          BY <1>3
        <5> QED BY <5>1, <5>2
      <4> QED BY <4>2
    <3> QED BY <1>1, <2>1, <3>1, <3>2
  <2>3. \A k \in 1..C : all[k].name = p.context[k].name /\ all[k].type = p.context[k].type
    <3> TAKE k \in 1..C
    <3>1. k \in 1..Len(known)
      BY <1>1
    <3>2. known[k].name = p.context[k].name /\ known[k].type = p.context[k].type
      BY DEF KnownIs
    <3> QED BY <1>7, <3>1, <3>2
  <2>4. \A k \in 1..(f.depth + D) : all[C + k].name = "" /\ all[C + k].level = k - 1
    <3> TAKE k \in 1..(f.depth + D)
    <3>1. CASE k <= f.depth
      <4>1. k \in 1..f.depth /\ C + k \in 1..Len(known)
        BY <1>1, <3>1
      <4>2. known[C + k].name = "" /\ known[C + k].level = k - 1
        BY <4>1 DEF KnownIs
      <4> QED BY <1>7, <4>1, <4>2
    <3>2. CASE k > f.depth
      <4>1. PICK i \in 1..D : k = f.depth + i
        <5>1. k - f.depth \in 1..D /\ k = f.depth + (k - f.depth)
          BY <1>1, <3>2
        <5> QED BY <5>1
      <4>2. C + k = Len(known) + i /\ k - 1 = f.depth + i - 1
        BY <1>1, <4>1
      <4>3. all[C + k] = new[i] /\ new[i].name = "" /\ new[i].level = f.depth + i - 1
        BY <1>3, <1>8, <4>2
      <4> QED BY <4>2, <4>3
    <3>3. k <= f.depth \/ k > f.depth
      <4> HIDE DEF D
      <4> QED BY <1>1
    <3> QED BY <3>1, <3>2, <3>3, Zenon
  <2> QED BY <2>1, <2>2, <2>3, <2>4 DEF KnownIs
<1>10. LocalTypes(p, all) = LocalTypes(p, known) \o domains
  <2> DEFINE a == LocalTypes(p, all)
             b == LocalTypes(p, known)
             c == b \o domains
  <2>1. a \in Seq(Types) /\ Len(a) = f.depth + D /\ \A k \in 1..(f.depth + D) : a[k] = all[C + k].type
    BY <1>9, Locals
  <2>2. b \in Seq(Types) /\ Len(b) = f.depth /\ \A k \in 1..f.depth : b[k] = known[C + k].type
    BY Locals
  <2> HIDE DEF a, b
  <2>3. /\ c \in Seq(Types) /\ Len(c) = f.depth + D
        /\ \A i \in 1..(f.depth + D) : c[i] = IF i <= f.depth THEN b[i] ELSE domains[i - f.depth]
    <3>1. /\ b \o domains \in Seq(Types) /\ Len(b \o domains) = Len(b) + Len(domains)
          /\ \A i \in 1..(Len(b) + Len(domains)) :
               (b \o domains)[i] = IF i <= Len(b) THEN b[i] ELSE domains[i - Len(b)]
      BY <2>2, ConcatProperties
    <3> QED BY <2>2, <3>1
  <2> HIDE DEF c
  <2>4. \A k \in 1..(f.depth + D) : a[k] = c[k]
    <3> TAKE k \in 1..(f.depth + D)
    <3>1. CASE k <= f.depth
      <4>1. k \in 1..f.depth /\ C + k \in 1..Len(known)
        BY <1>1, <3>1
      <4>2. a[k] = all[C + k].type /\ all[C + k] = known[C + k]
        BY <1>7, <2>1, <4>1
      <4>3. c[k] = b[k] /\ b[k] = known[C + k].type
        BY <2>2, <2>3, <3>1, <4>1
      <4> QED BY <4>2, <4>3, Zenon
    <3>2. CASE k > f.depth
      <4>1. PICK i \in 1..D : k = f.depth + i
        <5>1. k - f.depth \in 1..D /\ k = f.depth + (k - f.depth)
          BY <1>1, <3>2
        <5> QED BY <5>1
      <4>2. C + k = Len(known) + i /\ ~(k <= f.depth) /\ k - f.depth = i
        BY <1>1, <4>1
      <4>3. a[k] = all[Len(known) + i].type
        BY <2>1, <4>2
      <4>4. all[Len(known) + i].type = domains[i]
        BY <1>3, <1>8
      <4> QED BY <2>3, <4>2, <4>3, <4>4
    <3> QED BY <1>1, <3>1, <3>2
  <2>5. a = c
    BY <2>1, <2>3, <2>4, SeqEqual
  <2> QED BY <2>5 DEF a, b, c
<1> QED BY <1>9, <1>10 DEF all, new

-----------------------------------------------------------------------------
(* Introducing binders.                                                     *)

\* What each step hands on.
LEMMA HandedOn ==
  ASSUME NEW N \in Nat, NEW S, NEW g, g[0] \in S[0], \A k \in 1..N : g[k - 1] \in S[k - 1] => g[k] \in S[k]
  PROVE  \A k \in 0..N : g[k] \in S[k]
<1> DEFINE Q == {k \in Nat : k <= N => g[k] \in S[k]}
<1>1. 0 \in Q
  OBVIOUS
<1>2. ASSUME NEW k \in Nat, k \in Q PROVE k + 1 \in Q
  <2> SUFFICES ASSUME k + 1 <= N PROVE g[k + 1] \in S[k + 1]
    OBVIOUS
  <2>1. PICK m \in 1..N : m = k + 1
    OBVIOUS
  <2>2. m - 1 = k /\ k <= N
    BY <2>1
  <2>3. g[m - 1] \in S[m - 1]
    BY <1>2, <2>2
  <2> QED BY <2>1, <2>3
<1> HIDE DEF Q
<1>3. \A k \in Nat : k \in Q
  BY <1>1, <1>2, EveryNatural
<1> QED BY <1>3 DEF Q

\* A function that is given by its first value and by what follows a value.
FollowOf(a, step, g, k) == IF k = 0 THEN a ELSE step[k][g[k - 1]]
IsFollowed(a, step, g, m) == g = [k \in 0..m |-> FollowOf(a, step, g, k)]

LEMMA Follow ==
  ASSUME NEW N \in Nat, NEW a, NEW step
  PROVE  \A m \in Nat : \E g : IsFollowed(a, step, g, m)
<1> DEFINE S == {m \in Nat : \E g : IsFollowed(a, step, g, m)}
<1>1. 0 \in S
  <2> DEFINE g == [k \in 0..0 |-> a]
  <2>1. g = [k \in 0..0 |-> FollowOf(a, step, g, k)]
    BY DEF FollowOf
  <2> QED BY <2>1 DEF IsFollowed
<1>2. ASSUME NEW m \in Nat, m \in S PROVE m + 1 \in S
  <2>1. PICK g : IsFollowed(a, step, g, m)
    BY <1>2
  <2> DEFINE next == FollowOf(a, step, g, m + 1)
             h == [n \in 0..(m + 1) |-> IF n = m + 1 THEN next ELSE g[n]]
  <2> HIDE DEF next
  <2>2. \A n \in 0..m : h[n] = g[n]
    OBVIOUS
  <2>3. h[m + 1] = next
    OBVIOUS
  <2>4. \A n \in 0..m : g[n] = FollowOf(a, step, g, n)
    BY <2>1 DEF IsFollowed
  <2>5. DOMAIN h = 0..(m + 1) /\ h = [n \in 0..(m + 1) |-> h[n]]
    OBVIOUS
  <2> HIDE DEF h
  <2>6. \A n \in 0..(m + 1) : FollowOf(a, step, h, n) = FollowOf(a, step, g, n)
    <3> TAKE n \in 0..(m + 1)
    <3>1. n = 0 \/ n - 1 \in 0..m
      OBVIOUS
    <3> QED BY <3>1, <2>2 DEF FollowOf
  <2>7. \A n \in 0..(m + 1) : h[n] = FollowOf(a, step, h, n)
    <3> TAKE n \in 0..(m + 1)
    <3>1. n = m + 1 \/ n \in 0..m
      OBVIOUS
    <3> QED BY <3>1, <2>2, <2>3, <2>4, <2>6 DEF next
  <2>8. IsFollowed(a, step, h, m + 1)
    BY <2>5, <2>7 DEF IsFollowed
  <2> QED BY <2>8
<1> HIDE DEF S
<1>3. \A m \in Nat : m \in S
  BY <1>1, <1>2, EveryNatural
<1> QED BY <1>3 DEF S

-----------------------------------------------------------------------------

KeptOf(found, terms, g, k) ==
  IF k = 0 THEN found
  ELSE IF terms[k] \in Range(g[k - 1]) \/ Len(g[k - 1]) >= problem.wanted THEN g[k - 1] ELSE Append(g[k - 1], terms[k])

IsKept(found, terms, g) == g = [k \in 0..Len(terms) |-> KeptOf(found, terms, g, k)]

LEMMA RangeIs ==
  ASSUME NEW s, Sequence(s)
  PROVE  /\ Len(s) \in Nat /\ DOMAIN s = 1..Len(s) /\ s \in Seq(Range(s)) /\ \A k \in 1..Len(s) : s[k] \in Range(s)
         /\ \A x \in Range(s) : \E k \in 1..Len(s) : x = s[k]
<1>1. PICK S : s \in Seq(S)
  BY DEF Sequence
<1>2. Len(s) \in Nat /\ DOMAIN s = 1..Len(s) /\ s = [k \in 1..Len(s) |-> s[k]]
  BY <1>1
<1>3. Range(s) = {s[k] : k \in 1..Len(s)}
  BY <1>2 DEF Range
<1>4. \A k \in 1..Len(s) : s[k] \in Range(s)
  BY <1>3
<1> QED BY <1>2, <1>3, <1>4

LEMMA KeptIs ==
  ASSUME NEW found, Sequence(found), NEW terms, Sequence(terms)
  PROVE  \E g : IsKept(found, terms, g)
<1> DEFINE N == Len(terms)
           U == Seq(Range(found) \cup Range(terms))
           step == [k \in 1..N |-> [x \in U |-> IF terms[k] \in Range(x) \/ Len(x) >= problem.wanted THEN x ELSE Append(x, terms[k])]]
<1>1. N \in Nat
  BY RangeIs
<1>2. PICK g : IsFollowed(found, step, g, N)
  BY <1>1, Follow
<1>3. \A k \in 1..N : \A x \in U :
        /\ step[k][x] = IF terms[k] \in Range(x) \/ Len(x) >= problem.wanted THEN x ELSE Append(x, terms[k])
        /\ step[k][x] \in U
  <2> TAKE k \in 1..N
  <2> TAKE x \in U
  <2>1. step[k][x] = IF terms[k] \in Range(x) \/ Len(x) >= problem.wanted THEN x ELSE Append(x, terms[k])
    OBVIOUS
  <2>2. terms[k] \in Range(found) \cup Range(terms)
    BY RangeIs
  <2>3. x \in U /\ Append(x, terms[k]) \in U
    BY <2>2
  <2> HIDE DEF step, U
  <2> QED BY <2>1, <2>3
<1>4. found \in U
  <2>1. found \in Seq(Range(found)) /\ Range(found) \subseteq Range(found) \cup Range(terms)
    BY RangeIs
  <2> QED BY <2>1, SeqMonotonic
<1> HIDE DEF step, U, N
<1>5. \A k \in 0..N : g[k] = FollowOf(found, step, g, k)
  BY <1>2 DEF IsFollowed
<1> DEFINE S == [k \in 0..N |-> U]
<1>6. \A k \in 0..N : g[k] \in S[k]
  <2>1. g[0] \in S[0]
    BY <1>1, <1>4, <1>5 DEF FollowOf
  <2>2. \A k \in 1..N : g[k - 1] \in S[k - 1] => g[k] \in S[k]
    <3> TAKE k \in 1..N
    <3>1. k \in 0..N /\ k # 0 /\ k - 1 \in 0..N /\ S[k] = U /\ S[k - 1] = U
      BY <1>1
    <3> HIDE DEF S
    <3> HAVE g[k - 1] \in S[k - 1]
    <3>2. g[k] = step[k][g[k - 1]]
      BY <1>5, <3>1 DEF FollowOf
    <3> QED BY <1>3, <3>1, <3>2
  <2> HIDE DEF S
  <2> QED BY <1>1, <2>1, <2>2, HandedOn
<1>7. \A k \in 0..N : g[k] = KeptOf(found, terms, g, k)
  <2> TAKE k \in 0..N
  <2>1. CASE k = 0
    BY <1>5, <2>1 DEF FollowOf, KeptOf
  <2>2. CASE k # 0
    <3>1. k \in 1..N /\ k - 1 \in 0..N
      BY <1>1, <2>2
    <3>2. g[k - 1] \in U
      BY <1>6, <3>1
    <3>3. g[k] = step[k][g[k - 1]]
      BY <1>5, <2>2 DEF FollowOf
    <3> QED BY <1>3, <2>2, <3>1, <3>2, <3>3 DEF KeptOf
  <2> QED BY <2>1, <2>2
<1>8. g = [k \in 0..N |-> g[k]]
  BY <1>2 DEF IsFollowed
<1>9. g = [k \in 0..N |-> KeptOf(found, terms, g, k)]
  BY <1>7, <1>8
<1> QED BY <1>9 DEF IsKept, N

\* Nothing is retained that was not found.
LEMMA Retains ==
  ASSUME NEW found, Sequence(found), NEW terms, Sequence(terms)
  PROVE  Sequence(Retain(found, terms)) /\ Range(Retain(found, terms)) \subseteq Range(found) \cup Range(terms)
<1> DEFINE N == Len(terms)
           U == Seq(Range(found) \cup Range(terms))
           g == CHOOSE g : IsKept(found, terms, g)
<1>1. N \in Nat
  BY RangeIs
<1>2. IsKept(found, terms, g)
  BY KeptIs
<1>3. Retain(found, terms) = g[N]
  BY DEF Retain, IsKept, KeptOf
<1> HIDE DEF g
<1>4. \A k \in 0..N : g[k] = KeptOf(found, terms, g, k)
  BY <1>2 DEF IsKept
<1> DEFINE S == [k \in 0..N |-> U]
<1>5. \A k \in 0..N : g[k] \in S[k]
  <2>1. g[0] \in S[0]
    <3>1. found \in Seq(Range(found)) /\ Range(found) \subseteq Range(found) \cup Range(terms)
      BY RangeIs
    <3>2. found \in U
      BY <3>1, SeqMonotonic
    <3>3. g[0] = found
      BY <1>1, <1>4 DEF KeptOf
    <3> HIDE DEF U
    <3> QED BY <1>1, <3>2, <3>3
  <2>2. \A k \in 1..N : g[k - 1] \in S[k - 1] => g[k] \in S[k]
    <3> TAKE k \in 1..N
    <3>1. k \in 0..N /\ k # 0 /\ k - 1 \in 0..N /\ S[k] = U /\ S[k - 1] = U
      BY <1>1
    <3> HIDE DEF S
    <3> HAVE g[k - 1] \in S[k - 1]
    <3>2. g[k] = g[k - 1] \/ g[k] = Append(g[k - 1], terms[k])
      BY <1>4, <3>1 DEF KeptOf
    <3>3. terms[k] \in Range(found) \cup Range(terms)
      BY RangeIs
    <3>4. g[k - 1] \in U
      BY <3>1
    <3>5. Append(g[k - 1], terms[k]) \in U
      BY <3>3, <3>4
    <3> HIDE DEF U
    <3>6. g[k] \in U
      BY <3>2, <3>4, <3>5, Zenon
    <3> QED BY <3>1, <3>6, Zenon
  <2> HIDE DEF S
  <2> QED BY <1>1, <2>1, <2>2, HandedOn
<1>6. g[N] \in U
  <2>1. N \in 0..N
    BY <1>1
  <2> HIDE DEF U, N
  <2> QED BY <1>5, <2>1
<1>7. Sequence(g[N]) /\ Range(g[N]) \in SUBSET (Range(found) \cup Range(terms))
  <2> HIDE DEF N
  <2> QED BY <1>6, RangeOfSeq DEF Sequence
<1> QED BY <1>3, <1>7

-----------------------------------------------------------------------------

\* The combinations of one member each of the first k lists.
Tuples(sets, k) ==
  {t \in Seq(UNION {Range(sets[i]) : i \in DOMAIN sets}) : Len(t) = k /\ \A i \in 1..k : t[i] \in Range(sets[i])}

LEMMA Quotient ==
  ASSUME NEW j \in Nat, NEW a \in Nat, NEW b \in Nat, j < a * b
  PROVE  j \div b \in 0..(a - 1) /\ j % b \in 0..(b - 1)
<1>1. b > 0
  <2> SUFFICES ASSUME b = 0 PROVE FALSE
    OBVIOUS
  <2>1. a * b = 0
    OBVIOUS
  <2> QED BY <2>1
<1>2. j % b \in 0..(b - 1)
  BY <1>1
<1>3. j = b * (j \div b) + (j % b)
  BY <1>1
<1>4. j \div b \in Int /\ j \div b >= 0
  BY <1>1
<1>5. ASSUME NEW q \in Int, NEW r \in Int, j = b * q + r, 0 <= r, r < b PROVE q < a
  BY <1>1, <1>5
<1>6. j % b \in Int /\ 0 <= j % b /\ j % b < b
  BY <1>1, <1>2
<1>7. j \div b < a
  BY <1>3, <1>4, <1>5, <1>6, Zenon
<1>8. ASSUME NEW q \in Int, q >= 0, q < a PROVE q \in 0..(a - 1)
  BY <1>8
<1> QED BY <1>2, <1>4, <1>7, <1>8, Zenon

LEMMA Quotients ==
  ASSUME NEW m \in Nat, NEW n \in Nat, NEW i \in 1..(m * n)
  PROVE  1 + ((i - 1) \div n) \in 1..m /\ 1 + ((i - 1) % n) \in 1..n
<1>0. m * n \in Int
  OBVIOUS
<1>1. i \in Int /\ 1 <= i /\ i <= m * n
  BY <1>0
<1>2. PICK j \in Nat : j = i - 1 /\ j < m * n
  BY <1>0, <1>1
<1>3. j \div n \in 0..(m - 1) /\ j % n \in 0..(n - 1)
  BY <1>2, Quotient, Zenon
<1>4. \A k \in Nat : \A q \in 0..(k - 1) : 1 + q \in 1..k
  OBVIOUS
<1>5. 1 + (j \div n) \in 1..m /\ 1 + (j % n) \in 1..n
  BY <1>3, <1>4, Zenon
<1> QED BY <1>2, <1>5, Zenon

LEMMA Combines ==
  ASSUME NEW sets, Sequence(sets), \A i \in DOMAIN sets : Sequence(sets[i]),
         NEW k \in 1..Len(sets), NEW lists \in Seq(Tuples(sets, k - 1))
  PROVE  Combined(lists, sets[k]) \in Seq(Tuples(sets, k))
<1> DEFINE set == sets[k]
           n == Len(set)
           m == Len(lists)
           at(i) == 1 + ((i - 1) \div n)
           of(i) == 1 + ((i - 1) % n)
<1>1. Len(sets) \in Nat /\ DOMAIN sets = 1..Len(sets) /\ k \in DOMAIN sets
  BY RangeIs
<1>2. Sequence(set)
  BY <1>1
<1>3. n \in Nat /\ m \in Nat
  BY <1>2, RangeIs
<1>4. ASSUME NEW i \in 1..(m * n) PROVE at(i) \in 1..m /\ of(i) \in 1..n
  BY <1>3, Quotients
<1> DEFINE e == [i \in 1..(m * n) |-> Append(lists[at(i)], set[of(i)])]
<1>5. Combined(lists, set) = e
  BY DEF Combined
<1>6. ASSUME NEW i \in 1..(m * n) PROVE Append(lists[at(i)], set[of(i)]) \in Tuples(sets, k)
  <2>1. PICK a \in 1..m, o \in 1..n : a = at(i) /\ o = of(i)
    BY <1>4, Zenon
  <2> DEFINE t == lists[a]
             x == set[o]
             R == UNION {Range(sets[j]) : j \in DOMAIN sets}
             l == Append(t, x)
  <2>2. t \in Tuples(sets, k - 1)
    BY <2>1, ElementOfSeq, Zenon
  <2>3. x \in Range(sets[k])
    BY <1>2, <2>1, RangeIs
  <2> HIDE DEF t, x
  <2>4. x \in R
    BY <1>1, <2>3
  <2>5. t \in Seq(R) /\ Len(t) = k - 1 /\ \A j \in 1..(k - 1) : t[j] \in Range(sets[j])
    BY <2>2 DEF Tuples
  <2> HIDE DEF R
  <2>6. /\ l \in Seq(R) /\ Len(l) = Len(t) + 1 /\ \A j \in 1..Len(t) : l[j] = t[j]
        /\ l[Len(t) + 1] = x
    BY <2>4, <2>5, AppendProperties
  <2> HIDE DEF l
  <2>7. Len(l) = k /\ l[k] = x
    BY <1>1, <2>5, <2>6
  <2>8. \A j \in 1..k : l[j] \in Range(sets[j])
    <3> TAKE j \in 1..k
    <3>1. CASE j = k
      BY <2>3, <2>7, <3>1
    <3>2. CASE j # k
      <4>1. j \in 1..(k - 1) /\ j \in 1..Len(t)
        BY <1>1, <2>5, <3>2
      <4> QED BY <2>5, <2>6, <4>1
    <3> QED BY <3>1, <3>2
  <2>9. l \in Tuples(sets, k)
    BY <2>6, <2>7, <2>8 DEF Tuples, R
  <2> QED BY <2>1, <2>9 DEF l, t, x
<1>7. m * n \in Nat
  BY <1>3
<1>8. e \in Seq(Tuples(sets, k))
  <2> DEFINE c == m * n
             E(i) == Append(lists[at(i)], set[of(i)])
  <2>1. \A i \in 1..c : E(i) \in Tuples(sets, k)
    BY <1>6
  <2>2. e = [i \in 1..c |-> E(i)] /\ c \in Nat
    BY <1>7
  <2> HIDE DEF e, E, c
  <2> QED BY <2>1, <2>2
<1> QED BY <1>5, <1>8

ListOf(sets, g, k) == IF k = 0 THEN << <<>> >> ELSE Combined(g[k - 1], sets[k])
AreLists(sets, g) == g = [k \in 0..Len(sets) |-> ListOf(sets, g, k)]

LEMMA NoTuple ==
  ASSUME NEW sets
  PROVE  << <<>> >> \in Seq(Tuples(sets, 0))
<1>1. <<>> \in Tuples(sets, 0)
  BY DEF Tuples
<1> QED BY <1>1

LEMMA ListsExist ==
  ASSUME NEW sets, Sequence(sets), \A i \in DOMAIN sets : Sequence(sets[i])
  PROVE  \E g : AreLists(sets, g)
<1> DEFINE N == Len(sets)
           start == << <<>> >>
           step == [k \in 1..N |-> [x \in Seq(Tuples(sets, k - 1)) |-> Combined(x, sets[k])]]
           S == [k \in 0..N |-> Seq(Tuples(sets, k))]
<1>1. N \in Nat
  BY RangeIs
<1>2. PICK g : IsFollowed(start, step, g, N)
  BY <1>1, Follow
<1>3. \A k \in 0..N : g[k] = FollowOf(start, step, g, k)
  BY <1>2 DEF IsFollowed
<1>4. \A k \in 1..N : k \in 0..N /\ k # 0 /\ k - 1 \in 0..N /\ S[k] = Seq(Tuples(sets, k)) /\ S[k - 1] = Seq(Tuples(sets, k - 1))
  BY <1>1
<1>5. \A k \in 1..N : \A x \in S[k - 1] : step[k][x] = Combined(x, sets[k])
  <2> TAKE k \in 1..N
  <2> TAKE x \in S[k - 1]
  <2>1. x \in Seq(Tuples(sets, k - 1))
    BY <1>4
  <2> QED BY <2>1
<1> HIDE DEF step
<1>6. \A k \in 0..N : g[k] \in S[k]
  <2>1. g[0] \in S[0]
    <3>1. g[0] = start
      BY <1>1, <1>3 DEF FollowOf
    <3>2. S[0] = Seq(Tuples(sets, 0))
      BY <1>1
    <3> QED BY <3>1, <3>2, NoTuple
  <2>2. \A k \in 1..N : g[k - 1] \in S[k - 1] => g[k] \in S[k]
    <3> TAKE k \in 1..N
    <3> HAVE g[k - 1] \in S[k - 1]
    <3>1. g[k] = step[k][g[k - 1]]
      BY <1>3, <1>4 DEF FollowOf
    <3>2. g[k] = Combined(g[k - 1], sets[k])
      BY <1>5, <3>1
    <3>3. g[k - 1] \in Seq(Tuples(sets, k - 1))
      BY <1>4
    <3>4. g[k] \in Seq(Tuples(sets, k))
      BY <3>2, <3>3, Combines
    <3> QED BY <1>4, <3>4
  <2> HIDE DEF S
  <2> QED BY <1>1, <2>1, <2>2, HandedOn
<1>7. \A k \in 0..N : g[k] = ListOf(sets, g, k)
  <2> TAKE k \in 0..N
  <2>1. CASE k = 0
    BY <1>3, <2>1 DEF FollowOf, ListOf
  <2>2. CASE k # 0
    <3>1. k \in 1..N
      BY <1>1, <2>2
    <3>2. g[k - 1] \in S[k - 1]
      BY <1>4, <1>6, <3>1
    <3> HIDE DEF S
    <3>3. g[k] = step[k][g[k - 1]]
      BY <1>3, <2>2 DEF FollowOf
    <3> QED BY <1>5, <2>2, <3>1, <3>2, <3>3 DEF ListOf
  <2> QED BY <2>1, <2>2
<1>8. g = [k \in 0..N |-> g[k]]
  BY <1>2 DEF IsFollowed
<1> QED BY <1>7, <1>8 DEF AreLists

\* The product has one member of each list in each of its lists.
LEMMA Products ==
  ASSUME NEW sets, Sequence(sets), \A i \in DOMAIN sets : Sequence(sets[i])
  PROVE  Product(sets) \in Seq(Tuples(sets, Len(sets)))
<1> DEFINE N == Len(sets)
           S == [k \in 0..N |-> Seq(Tuples(sets, k))]
           g == CHOOSE g : AreLists(sets, g)
<1>1. N \in Nat
  BY RangeIs
<1>2. AreLists(sets, g)
  BY ListsExist
<1>3. Product(sets) = g[N]
  BY DEF Product, AreLists, ListOf
<1> HIDE DEF g
<1>4. \A k \in 0..N : g[k] = ListOf(sets, g, k)
  BY <1>2 DEF AreLists
<1>5. \A k \in 0..N : g[k] \in S[k]
  <2>1. g[0] \in S[0]
    <3>1. g[0] = << <<>> >>
      BY <1>1, <1>4 DEF ListOf
    <3>2. S[0] = Seq(Tuples(sets, 0))
      BY <1>1
    <3> QED BY <3>1, <3>2, NoTuple
  <2>2. \A k \in 1..N : g[k - 1] \in S[k - 1] => g[k] \in S[k]
    <3> TAKE k \in 1..N
    <3>1. k \in 0..N /\ k # 0 /\ k - 1 \in 0..N /\ S[k] = Seq(Tuples(sets, k)) /\ S[k - 1] = Seq(Tuples(sets, k - 1))
      BY <1>1
    <3> HAVE g[k - 1] \in S[k - 1]
    <3>2. g[k] = Combined(g[k - 1], sets[k])
      BY <1>4, <3>1 DEF ListOf
    <3>3. g[k - 1] \in Seq(Tuples(sets, k - 1))
      BY <3>1
    <3>4. g[k] \in Seq(Tuples(sets, k))
      BY <3>2, <3>3, Combines
    <3> QED BY <3>1, <3>4
  <2> HIDE DEF S
  <2> QED BY <1>1, <2>1, <2>2, HandedOn
<1>6. N \in 0..N /\ S[N] = Seq(Tuples(sets, N))
  BY <1>1
<1> HIDE DEF S
<1> QED BY <1>3, <1>5, <1>6

-----------------------------------------------------------------------------
(* The terms that were found.                                               *)

\* Places of _EnumerationSearch.
ManyPlaces == {"arrow", "bodies", "exacts", "many", "arguments"}
Waiting == {"body", "argument", "bodies", "arguments"}

Shows(p, n, t, s) == HasType(p, n, t, s.goal, LocalTypes(p, s.known))
AllShow(p, n, terms, s) ==
  Sequence(terms) /\ (~p.many => Len(terms) <= 1) /\ \A k \in 1..Len(terms) : Shows(p, n, terms[k], s)

\* An action gives the goal when its head is given its domains.
FitsAs(h, a, s) ==
  /\ Len(a.domains) <= Len(h.from)
  /\ \A k \in 1..Len(a.domains) : a.domains[k] = h.from[k]
  /\ Arrow(SubSeq(h.from, Len(a.domains) + 1, Len(h.from)), h.to) = s.goal
FitsGoal(p, s, a) ==
  /\ a.domains \in Seq(Types) /\ HeadAt(a.assumption, s.depth) \in HeadSet(p)
  /\ \E h \in HeadTypes(p, HeadAt(a.assumption, s.depth), LocalTypes(p, s.known), s.goal) : FitsAs(h, a, s)

ActionsFit(p, f) ==
  /\ Sequence(f.actions)
  /\ \A k \in 1..Len(f.actions) :
       /\ FitsGoal(p, SequentOf(f), f.actions[k])
       /\ f.at = "exacts" => f.actions[k].domains = <<>>
       /\ f.at \in {"try", "argument", "many", "arguments"} => f.actions[k].domains # <<>>

ArgShows(p, n, t, f, goal) == HasType(p, n, t, goal, LocalTypes(p, f.known))

ArgsShow(p, n, f) ==
  /\ f.actions # <<>> /\ Sequence(f.args) /\ Len(f.args) < Len(f.actions[1].domains)
  /\ f.at = "argument" => \A k \in 1..Len(f.args) : ArgShows(p, n, f.args[k], f, f.actions[1].domains[k])
  /\ f.at = "arguments" => \A k \in 1..Len(f.args) :
       Sequence(f.args[k]) /\ \A i \in 1..Len(f.args[k]) : ArgShows(p, n, f.args[k][i], f, f.actions[1].domains[k])

FoundShow(p, n, f) == Sequence(f.found) /\ \A k \in 1..Len(f.found) : Shows(p, n, f.found[k], SequentOf(f))

\* The binders a frame introduces for the goal below it.
Opens(f) == IF f.at = "body" THEN 1 ELSE f.mark

Stands(p, f) ==
  /\ IsFrame(f) /\ SequentIs(p, SequentOf(f))
  /\ f.at \in {"enter"} \cup (IF p.many THEN ManyPlaces ELSE OnePlaces)
  /\ f.at \in {"body", "bodies"} => Opens(f) \in 1..Len(f.goal.from)

FrameIs(p, n, f) ==
  Stands(p, f) /\ ActionsFit(p, f) /\ FoundShow(p, n, f) /\ (f.at \in {"argument", "arguments"} => ArgsShow(p, n, f))

\* The goal below a frame.
OpenedBy(f) ==
  [known |-> f.known \o Introduced(SubSeq(f.goal.from, 1, Opens(f)), f),
   goal |-> Arrow(SubSeq(f.goal.from, Opens(f) + 1, Len(f.goal.from)), f.goal.to), depth |-> f.depth + Opens(f)]
AskedBy(f) == [known |-> f.known, goal |-> f.actions[1].domains[Len(f.args) + 1], depth |-> f.depth]
Awaits(f) == IF f.at \in {"body", "bodies"} THEN OpenedBy(f) ELSE AskedBy(f)

ContextOf(p) == [k \in DOMAIN p.context |-> Named(p.context[k].type, k - 1, p.context[k].name)]
Root(p) == [known |-> ContextOf(p), goal |-> p.goal, depth |-> 0]

StackIs(p, n, s) ==
  /\ Sequence(s) /\ \A k \in 1..Len(s) : FrameIs(p, n, s[k])
  /\ Len(s) > 0 => SequentOf(s[1]) = Root(p)
  /\ \A k \in 1..(Len(s) - 1) : s[k].at \in Waiting /\ SequentOf(s[k + 1]) = Awaits(s[k])

MemoIs(p, n, m) == \A key \in DOMAIN m : AllShow(p, n, m[key], key.sequent)

\* What the terms that were returned last are for, if anyone looks at them.
IsDue(s) == Len(s) = 0 \/ s[Len(s)].at \in Waiting
Due(p, s) == IF Len(s) = 0 THEN Root(p) ELSE Awaits(s[Len(s)])

\* How many actions are taken whose terms are not made yet.
AwaitsOne(s) == IF Len(s) = 0 THEN 0 ELSE IF s[Len(s)].at \in Waiting THEN Len(s) ELSE Len(s) - 1
Height == considered - AwaitsOne(calls)

TypedInv ==
  /\ problem \in Problems /\ considered \in Nat /\ Height \in Nat
  /\ StackIs(problem, Height, calls) /\ MemoIs(problem, Height, memo)
  /\ IsDue(calls) => AllShow(problem, Height, returned, Due(problem, calls))
  /\ verdict = "asked" => returned = <<>>
  /\ verdict # "running" => calls = <<>>

-----------------------------------------------------------------------------
(* What was shown stays so higher up.                                      *)

LEMMA ShowsHigher ==
  ASSUME NEW p, NEW n \in Nat, NEW m \in Nat, n <= m, NEW t, NEW goal, NEW binders, HasType(p, n, t, goal, binders)
  PROVE  HasType(p, m, t, goal, binders)
<1>1. Storeys(p)[n].typed \subseteq Storeys(p)[m].typed
  BY HigherUp, Zenon
<1> QED BY <1>1 DEF HasType

LEMMA AllHigher ==
  ASSUME NEW p, NEW n \in Nat, NEW m \in Nat, n <= m
  PROVE  /\ \A terms, s : AllShow(p, n, terms, s) => AllShow(p, m, terms, s)
         /\ \A f : FrameIs(p, n, f) => FrameIs(p, m, f)
         /\ \A memory : MemoIs(p, n, memory) => MemoIs(p, m, memory)
<1>0. \A t, goal, binders : HasType(p, n, t, goal, binders) => HasType(p, m, t, goal, binders)
  BY ShowsHigher
<1>1. \A terms, s : AllShow(p, n, terms, s) => AllShow(p, m, terms, s)
  BY <1>0, Zenon DEF AllShow, Shows
<1>2. ASSUME NEW f, FrameIs(p, n, f) PROVE FrameIs(p, m, f)
  <2>1. FoundShow(p, m, f)
    <3>1. FoundShow(p, n, f)
      BY <1>2 DEF FrameIs
    <3> QED BY <1>0, <3>1, Zenon DEF FoundShow, Shows
  <2>2. f.at \in {"argument", "arguments"} => ArgsShow(p, m, f)
    <3> HAVE f.at \in {"argument", "arguments"}
    <3>1. ArgsShow(p, n, f)
      BY <1>2 DEF FrameIs
    <3> QED BY <1>0, <3>1, Zenon DEF ArgsShow, ArgShows
  <2> QED BY <1>2, <2>1, <2>2 DEF FrameIs
<1>3. \A memory : MemoIs(p, n, memory) => MemoIs(p, m, memory)
  BY <1>1, Zenon DEF MemoIs
<1> QED BY <1>1, <1>2, <1>3

-----------------------------------------------------------------------------
(* Frames and what they wait for.                                          *)

LEMMA FirstFrame ==
  ASSUME NEW p, NEW n, NEW known, NEW goal, NEW depth, NEW level,
         SequentIs(p, [known |-> known, goal |-> goal, depth |-> depth])
  PROVE  /\ FrameIs(p, n, Frame(known, goal, depth, level))
         /\ Frame(known, goal, depth, level).at = "enter"
         /\ SequentOf(Frame(known, goal, depth, level)) = [known |-> known, goal |-> goal, depth |-> depth]
<1> DEFINE f == Frame(known, goal, depth, level)
<1>1. /\ f.known = known /\ f.goal = goal /\ f.depth = depth /\ f.at = "enter"
      /\ f.actions = <<>> /\ f.found = <<>>
  BY DEF Frame
<1>2. IsFrame(f)
  BY NewFrame
<1> HIDE DEF f
<1>3. SequentOf(f) = [known |-> known, goal |-> goal, depth |-> depth]
  BY <1>1 DEF SequentOf
<1>4. <<>> \in Seq({}) /\ Len(<<>>) = 0
  OBVIOUS
<1>5. Stands(p, f)
  BY <1>1, <1>2, <1>3 DEF Stands
<1>6. ActionsFit(p, f) /\ FoundShow(p, n, f)
  BY <1>1, <1>4 DEF ActionsFit, FoundShow, Sequence
<1> QED BY <1>1, <1>3, <1>5, <1>6 DEF FrameIs, f

LEMMA SequentParts ==
  ASSUME NEW f
  PROVE  SequentOf(f).known = f.known /\ SequentOf(f).goal = f.goal /\ SequentOf(f).depth = f.depth
BY DEF SequentOf

LEMMA StandsIs ==
  ASSUME NEW p \in Problems, NEW f, Stands(p, f)
  PROVE  /\ KnownIs(p, f.known, f.depth) /\ f.goal \in Types
         /\ f.goal.from \in Seq(Types) /\ Len(f.goal.from) \in Nat
         /\ LocalTypes(p, f.known) \in Seq(Types)
<1>1. KnownIs(p, f.known, f.depth) /\ f.goal \in Types
  BY SequentParts DEF Stands, SequentIs
<1>2. f.goal.from \in Seq(Types)
  BY <1>1, TypesAre
<1> QED BY <1>1, <1>2, Locals

\* The goal below a frame that opens binders.
LEMMA OpensIs ==
  ASSUME NEW p \in Problems, NEW f, Stands(p, f), f.at \in {"body", "bodies"}
  PROVE  /\ SequentIs(p, OpenedBy(f))
         /\ \A n \in Nat : \A t : Shows(p, n, t, OpenedBy(f)) => Shows(p, n, Lambda(Opens(f), t), SequentOf(f))
<1> DEFINE k == Opens(f)
           from == f.goal.from
           domains == SubSeq(from, 1, k)
           known == f.known \o Introduced(domains, f)
           rest == Arrow(SubSeq(from, k + 1, Len(from)), f.goal.to)
           s == OpenedBy(f)
<1>1. KnownIs(p, f.known, f.depth) /\ f.goal \in Types /\ from \in Seq(Types) /\ Len(from) \in Nat
  BY StandsIs
<1>2. k \in 1..Len(from)
  BY DEF Stands
<1>3. s = [known |-> known, goal |-> rest, depth |-> f.depth + k]
  BY DEF OpenedBy
<1> HIDE DEF k
<1>4. domains \in Seq(Types) /\ Len(domains) = k
  <2>1. 1 \in 1..(Len(from) + 1) /\ k \in (1 - 1)..Len(from) /\ k - 1 + 1 = k
    BY <1>1, <1>2
  <2>2. SubSeq(from, 1, k) \in Seq(Types) /\ Len(SubSeq(from, 1, k)) = k - 1 + 1
    BY <1>1, <2>1, Slice
  <2> QED BY <2>1, <2>2
<1> HIDE DEF domains
<1>5. KnownIs(p, known, f.depth + Len(domains)) /\ LocalTypes(p, known) = LocalTypes(p, f.known) \o domains
  BY <1>1, <1>4, Opened, Zenon
<1>6. rest \in Types
  <2>1. k \in 0..Len(from)
    BY <1>1, <1>2
  <2> QED BY <1>1, <2>1, TypesAre, Zenon
<1> HIDE DEF known, rest
<1>7. s.known = known /\ s.goal = rest /\ s.depth = f.depth + k
  BY <1>3
<1> HIDE DEF s
<1>8. SequentIs(p, s)
  BY <1>4, <1>5, <1>6, <1>7 DEF SequentIs
<1>9. ASSUME NEW n \in Nat, NEW t, Shows(p, n, t, s) PROVE Shows(p, n, Lambda(k, t), SequentOf(f))
  <2>1. HasType(p, n, t, Arrow(SubSeq(from, k + 1, Len(from)), f.goal.to), LocalTypes(p, f.known) \o SubSeq(from, 1, k))
    BY <1>5, <1>7, <1>9, Zenon DEF Shows, rest, domains
  <2>2. k \in 0..Len(from) /\ LocalTypes(p, f.known) \in Seq(Types)
    BY <1>1, <1>2, StandsIs
  <2>3. HasType(p, n, Lambda(k, t), f.goal, LocalTypes(p, f.known))
    BY <1>1, <2>1, <2>2, Abstraction, Zenon
  <2> QED BY <2>3, SequentParts, Zenon DEF Shows
<1> QED BY <1>8, <1>9 DEF s, k

\* The goal below a frame that takes the arguments of an action.
LEMMA AsksIs ==
  ASSUME NEW p \in Problems, NEW n, NEW f, FrameIs(p, n, f), f.at \in {"argument", "arguments"}
  PROVE  SequentIs(p, AskedBy(f))
<1>1. Stands(p, f) /\ ActionsFit(p, f) /\ ArgsShow(p, n, f)
  BY DEF FrameIs
<1>2. KnownIs(p, f.known, f.depth)
  BY <1>1, StandsIs
<1>3. f.actions # <<>> /\ Sequence(f.actions) /\ Sequence(f.args)
  BY <1>1 DEF ArgsShow, ActionsFit
<1>4. 1 \in 1..Len(f.actions) /\ Len(f.args) \in Nat
  BY <1>3, Popped, RangeIs
<1>5. f.actions[1].domains \in Seq(Types) /\ Len(f.args) < Len(f.actions[1].domains)
  BY <1>1, <1>4 DEF ActionsFit, FitsGoal, ArgsShow
<1>6. f.actions[1].domains[Len(f.args) + 1] \in Types
  <2> DEFINE d == f.actions[1].domains
  <2>1. d \in Seq(Types) /\ Len(f.args) < Len(d)
    BY <1>5
  <2> HIDE DEF d
  <2>2. Len(f.args) + 1 \in 1..Len(d)
    BY <1>4, <2>1
  <2>3. d[Len(f.args) + 1] \in Types
    BY <2>1, <2>2
  <2> QED BY <2>3 DEF d
<1>7. AskedBy(f).known = f.known /\ AskedBy(f).depth = f.depth /\ AskedBy(f).goal = f.actions[1].domains[Len(f.args) + 1]
  BY DEF AskedBy
<1> QED BY <1>2, <1>6, <1>7 DEF SequentIs

LEMMA AwaitsIs ==
  ASSUME NEW p \in Problems, NEW n, NEW f, FrameIs(p, n, f), f.at \in Waiting
  PROVE  SequentIs(p, Awaits(f))
<1>1. CASE f.at \in {"body", "bodies"}
  BY <1>1, OpensIs DEF Awaits, FrameIs
<1>2. CASE f.at \in {"argument", "arguments"}
  BY <1>2, AsksIs DEF Awaits
<1> QED BY <1>1, <1>2 DEF Waiting

-----------------------------------------------------------------------------
(* How the stack moves.                                                     *)

\* How calls may move, in terms of positions.
LEMMA Moves ==
  ASSUME Sequence(calls), calls # <<>>
  PROVE  /\ Len(calls) \in Nat /\ Len(calls) >= 1
         /\ \A terms : Return(terms) =>
              /\ Sequence(calls') /\ Len(calls') = Len(calls) - 1
              /\ \A k \in 1..(Len(calls) - 1) : calls'[k] = calls[k]
         /\ \A f : Becomes(f) =>
              /\ Sequence(calls') /\ Len(calls') = Len(calls) /\ calls'[Len(calls)] = f
              /\ \A k \in 1..(Len(calls) - 1) : calls'[k] = calls[k]
         /\ \A f, known, goal, depth : Descends(f, known, goal, depth) =>
              /\ Sequence(calls') /\ Len(calls') = Len(calls) + 1 /\ calls'[Len(calls)] = f
              /\ calls'[Len(calls) + 1] = Frame(known, goal, depth, f.level + 1)
              /\ \A k \in 1..(Len(calls) - 1) : calls'[k] = calls[k]
<1>1. /\ Len(calls) \in Nat /\ Len(calls) >= 1
      /\ Sequence(Suspended) /\ Len(Suspended) = Len(calls) - 1
      /\ \A k \in 1..(Len(calls) - 1) : Suspended[k] = calls[k]
  BY Popped DEF Suspended
<1>2. ASSUME NEW terms, Return(terms)
      PROVE  calls' = Suspended
  BY <1>2 DEF Return
<1>3. ASSUME NEW f, Becomes(f)
      PROVE  /\ Sequence(calls') /\ Len(calls') = Len(calls) /\ calls'[Len(calls)] = f
             /\ \A k \in 1..(Len(calls) - 1) : calls'[k] = calls[k]
  <2>1. calls' = Append(Suspended, f)
    BY <1>3 DEF Becomes
  <2>2. /\ Sequence(calls') /\ Len(calls') = Len(Suspended) + 1
        /\ calls'[Len(Suspended) + 1] = f /\ \A k \in 1..Len(Suspended) : calls'[k] = Suspended[k]
    BY <2>1, <1>1, Pushed
  <2> QED
    BY <2>2, <1>1
<1>4. ASSUME NEW f, NEW known, NEW goal, NEW depth, Descends(f, known, goal, depth)
      PROVE  /\ Sequence(calls') /\ Len(calls') = Len(calls) + 1 /\ calls'[Len(calls)] = f
             /\ calls'[Len(calls) + 1] = Frame(known, goal, depth, f.level + 1)
             /\ \A k \in 1..(Len(calls) - 1) : calls'[k] = calls[k]
  <2> DEFINE g == Frame(known, goal, depth, f.level + 1)
  <2>1. calls' = Suspended \o <<f, g>>
    BY <1>4 DEF Descends
  <2> HIDE DEF g
  <2>2. /\ Sequence(calls') /\ Len(calls') = Len(Suspended) + 2
        /\ calls'[Len(Suspended) + 1] = f /\ calls'[Len(Suspended) + 2] = g
        /\ \A k \in 1..Len(Suspended) : calls'[k] = Suspended[k]
    <3>1. Sequence(Suspended)
      BY <1>1
    <3> QED
      BY <2>1, <3>1, PushedTwice
  <2>3. Len(Suspended) + 1 = Len(calls) /\ Len(Suspended) + 2 = Len(calls) + 1
    BY <1>1
  <2> QED
    BY <2>2, <2>3, <1>1 DEF g
<1> QED
  BY <1>1, <1>2, <1>3, <1>4

\* What is known of the frame at hand.
LEMMA AtHand ==
  ASSUME TypedInv, calls # <<>>
  PROVE  /\ Len(calls) \in Nat /\ Len(calls) >= 1 /\ verdict = "running"
         /\ FrameIs(problem, Height, Current)
         /\ AwaitsOne(calls) = (IF Current.at \in Waiting THEN Len(calls) ELSE Len(calls) - 1)
         /\ Current.at \in Waiting => AllShow(problem, Height, returned, Awaits(Current))
<1>1. Sequence(calls)
  BY DEF TypedInv, StackIs
<1>2. Len(calls) \in Nat /\ Len(calls) >= 1
  BY <1>1, Moves
<1>3. FrameIs(problem, Height, calls[Len(calls)])
  BY <1>2 DEF TypedInv, StackIs
<1>4. Len(calls) # 0
  BY <1>2
<1>5. AwaitsOne(calls) = (IF Current.at \in Waiting THEN Len(calls) ELSE Len(calls) - 1)
  BY <1>4 DEF AwaitsOne, Current
<1>6. ASSUME Current.at \in Waiting PROVE AllShow(problem, Height, returned, Awaits(Current))
  <2>1. IsDue(calls) /\ Due(problem, calls) = Awaits(Current)
    BY <1>4, <1>6 DEF IsDue, Due, Current
  <2> QED BY <2>1 DEF TypedInv
<1> QED BY <1>2, <1>3, <1>5, <1>6 DEF TypedInv, Current

\* A term is made no higher than the actions that are taken for it.
Rises(n) == n \in Nat /\ considered' \in Nat /\ n = considered' - (Len(calls) - 1) /\ Height <= n

LEMMA Rising ==
  ASSUME TypedInv, calls # <<>>, considered' \in {considered, considered + 1}
  PROVE  \E n \in Nat :
           /\ Rises(n)
           /\ considered' = considered + 1 \/ Current.at \in Waiting => n >= Height + 1
<1>1. PICK c \in Nat, l \in Nat : c = considered /\ l = Len(calls) /\ l >= 1
  BY AtHand DEF TypedInv
<1>2. PICK h \in Nat : h = Height
  BY DEF TypedInv
<1>3. h = c - (IF Current.at \in Waiting THEN l ELSE l - 1)
  BY <1>1, <1>2, AtHand DEF Height
<1>4. considered' \in {c, c + 1}
  BY <1>1
<1>w. PICK w \in {0, 1} : c = h + (l - 1) + w /\ (Current.at \in Waiting => w = 1)
  <2>1. CASE Current.at \in Waiting
    <3>1. c = h + (l - 1) + 1
      BY <1>1, <1>2, <1>3, <2>1
    <3> QED BY <3>1
  <2>2. CASE Current.at \notin Waiting
    <3>1. c = h + (l - 1) + 0
      BY <1>1, <1>2, <1>3, <2>2
    <3> QED BY <2>2, <3>1
  <2> QED BY <2>1, <2>2
<1>e. PICK e \in {0, 1} : considered' = c + e
  <2>1. considered' = c + 0 \/ considered' = c + 1
    BY <1>4
  <2> QED BY <2>1
<1>5. PICK n \in Nat : n = considered' - (l - 1) /\ h <= n /\ n = h + w + e
  <2>1. h + w + e \in Nat /\ h + w + e = considered' - (l - 1) /\ h <= h + w + e
    BY <1>1, <1>2, <1>w, <1>e
  <2> QED BY <2>1
<1>6. considered' = c + 1 \/ Current.at \in Waiting => n >= h + 1
  <2>1. CASE considered' = c + 1
    BY <1>1, <1>2, <1>w, <1>e, <1>5, <2>1
  <2>2. CASE Current.at \in Waiting
    BY <1>1, <1>2, <1>w, <1>e, <1>5, <2>2
  <2> QED BY <2>1, <2>2
<1>7. Rises(n)
  BY <1>1, <1>2, <1>4, <1>5 DEF Rises
<1> QED BY <1>1, <1>2, <1>6, <1>7

LEMMA SameBelow ==
  ASSUME TypedInv, calls # <<>>, NEW n \in Nat, Height <= n
  PROVE  /\ \A k \in 1..(Len(calls) - 1) : FrameIs(problem, n, calls[k])
         /\ \A k \in 1..(Len(calls) - 1) : calls[k].at \in Waiting /\ SequentOf(calls[k + 1]) = Awaits(calls[k])
         /\ SequentOf(calls[1]) = Root(problem)
         /\ MemoIs(problem, n, memo) /\ FrameIs(problem, n, Current)
         /\ Current.at \in Waiting => AllShow(problem, n, returned, Awaits(Current))
<1>1. Len(calls) \in Nat /\ Len(calls) >= 1 /\ Height \in Nat
  BY AtHand DEF TypedInv
<1>2. StackIs(problem, Height, calls) /\ MemoIs(problem, Height, memo)
  BY DEF TypedInv
<1>3. /\ \A f : FrameIs(problem, Height, f) => FrameIs(problem, n, f)
      /\ \A memory : MemoIs(problem, Height, memory) => MemoIs(problem, n, memory)
      /\ \A terms, s : AllShow(problem, Height, terms, s) => AllShow(problem, n, terms, s)
  <2> DEFINE h == Height
  <2>1. h \in Nat /\ h <= n
    BY <1>1
  <2> HIDE DEF h
  <2>2. /\ \A f : FrameIs(problem, h, f) => FrameIs(problem, n, f)
        /\ \A memory : MemoIs(problem, h, memory) => MemoIs(problem, n, memory)
        /\ \A terms, s : AllShow(problem, h, terms, s) => AllShow(problem, n, terms, s)
    BY <2>1, AllHigher, Zenon
  <2> QED BY <2>2, Zenon DEF h
<1>4. \A k \in 1..(Len(calls) - 1) : k \in 1..Len(calls)
  BY <1>1
<1>5. \A k \in 1..(Len(calls) - 1) : FrameIs(problem, n, calls[k])
  BY <1>2, <1>3, <1>4 DEF StackIs
<1>6. SequentOf(calls[1]) = Root(problem)
  BY <1>1, <1>2 DEF StackIs
<1> QED BY <1>2, <1>3, <1>5, <1>6, AtHand DEF StackIs

\* The frame at hand ends with terms for its goal.
LEMMA TypedReturns ==
  ASSUME TypedInv, calls # <<>>, NEW terms, Return(terms), problem' = problem, verdict' = verdict,
         NEW n \in Nat, Rises(n), AllShow(problem, n, terms, SequentOf(Current)), MemoIs(problem, n, memo')
  PROVE  TypedInv'
<1>0. PICK l : l = Len(calls)
  OBVIOUS
<1>1. /\ l \in Nat /\ l >= 1 /\ Sequence(calls') /\ Len(calls') = l - 1
      /\ \A k \in 1..(l - 1) : calls'[k] = calls[k]
  BY <1>0, Moves DEF TypedInv, StackIs
<1>2. /\ \A k \in 1..(l - 1) : FrameIs(problem, n, calls[k])
      /\ \A k \in 1..(l - 1) : calls[k].at \in Waiting /\ SequentOf(calls[k + 1]) = Awaits(calls[k])
      /\ SequentOf(calls[1]) = Root(problem)
  BY <1>0, SameBelow DEF Rises
<1>3. AwaitsOne(calls') = l - 1
  <2>1. CASE l = 1
    BY <1>1, <2>1 DEF AwaitsOne
  <2>2. CASE l # 1
    <3>1. l - 1 \in 1..(l - 1) /\ l - 1 # 0
      BY <1>1, <2>2
    <3>2. calls'[l - 1].at \in Waiting
      BY <1>1, <1>2, <3>1
    <3> QED BY <1>1, <3>1, <3>2 DEF AwaitsOne
  <2> QED BY <2>1, <2>2
<1>4. Height' = n /\ considered' \in Nat
  BY <1>0, <1>3 DEF Rises, Height
<1>5. StackIs(problem, n, calls')
  <2>1. \A k \in 1..(l - 1) : FrameIs(problem, n, calls'[k])
    BY <1>1, <1>2
  <2>2. l - 1 > 0 => SequentOf(calls'[1]) = Root(problem)
    BY <1>1, <1>2
  <2>3. \A k \in 1..(l - 1 - 1) : calls'[k].at \in Waiting /\ SequentOf(calls'[k + 1]) = Awaits(calls'[k])
    <3> TAKE k \in 1..(l - 1 - 1)
    <3>1. k \in 1..(l - 1) /\ k + 1 \in 1..(l - 1)
      BY <1>1
    <3> QED BY <1>1, <1>2, <3>1
  <2> QED BY <1>1, <2>1, <2>2, <2>3 DEF StackIs
<1>6. AllShow(problem, n, returned', Due(problem, calls'))
  <2>1. returned' = terms
    BY DEF Return
  <2>2. Due(problem, calls') = SequentOf(Current)
    <3>1. CASE l = 1
      BY <1>0, <1>1, <1>2, <3>1 DEF Due, Current
    <3>2. CASE l # 1
      <4>1. PICK m \in 1..(l - 1) : m = l - 1
        BY <1>1, <3>2
      <4>2. Len(calls') = m /\ m # 0 /\ m + 1 = l
        BY <1>1, <4>1
      <4>3. Due(problem, calls') = Awaits(calls[m])
        BY <1>1, <4>1, <4>2 DEF Due
      <4>4. SequentOf(calls[m + 1]) = Awaits(calls[m])
        BY <1>2
      <4> QED BY <1>0, <4>2, <4>3, <4>4 DEF Current
    <3> QED BY <3>1, <3>2
  <2> QED BY <2>1, <2>2
<1>7. verdict' = "running"
  BY AtHand
<1> QED BY <1>4, <1>5, <1>6, <1>7 DEF TypedInv

\* The frame at hand goes on.
LEMMA TypedBecomes ==
  ASSUME TypedInv, calls # <<>>, NEW g, Becomes(g), problem' = problem, verdict' = verdict,
         NEW n \in Nat, Rises(n), FrameIs(problem, n, g), SequentOf(g) = SequentOf(Current), g.at \notin Waiting,
         MemoIs(problem, n, memo')
  PROVE  TypedInv'
<1>0. PICK l : l = Len(calls)
  OBVIOUS
<1>1. /\ l \in Nat /\ l >= 1 /\ Sequence(calls') /\ Len(calls') = l /\ calls'[l] = g
      /\ \A k \in 1..(l - 1) : calls'[k] = calls[k]
  BY <1>0, Moves DEF TypedInv, StackIs
<1>2. /\ \A k \in 1..(l - 1) : FrameIs(problem, n, calls[k])
      /\ \A k \in 1..(l - 1) : calls[k].at \in Waiting /\ SequentOf(calls[k + 1]) = Awaits(calls[k])
      /\ SequentOf(calls[1]) = Root(problem)
  BY <1>0, SameBelow DEF Rises
<1>3. AwaitsOne(calls') = l - 1 /\ ~IsDue(calls')
  BY <1>1 DEF AwaitsOne, IsDue
<1>4. Height' = n /\ considered' \in Nat
  BY <1>0, <1>3 DEF Rises, Height
<1>5. StackIs(problem, n, calls')
  <2>1. \A k \in 1..l : FrameIs(problem, n, calls'[k])
    BY <1>1, <1>2
  <2>2. \A k \in 1..l : SequentOf(calls'[k]) = SequentOf(calls[k])
    BY <1>0, <1>1 DEF Current
  <2>3. SequentOf(calls'[1]) = Root(problem)
    BY <1>1, <1>2, <2>2
  <2>4. \A k \in 1..(l - 1) : calls'[k].at \in Waiting /\ SequentOf(calls'[k + 1]) = Awaits(calls'[k])
    <3> TAKE k \in 1..(l - 1)
    <3>1. k \in 1..l /\ k + 1 \in 1..l
      BY <1>1
    <3> QED BY <1>1, <1>2, <2>2, <3>1
  <2> QED BY <1>1, <2>1, <2>3, <2>4 DEF StackIs
<1>7. verdict' = "running"
  BY AtHand
<1> QED BY <1>3, <1>4, <1>5, <1>7 DEF TypedInv

\* A goal is worked on below.
LEMMA TypedDescends ==
  ASSUME TypedInv, calls # <<>>, NEW f, NEW known, NEW goal, NEW depth, Descends(f, known, goal, depth),
         problem' = problem, verdict' = verdict, memo' = memo,
         considered' = (IF Current.at \in Waiting THEN considered ELSE considered + 1),
         FrameIs(problem, Height, f), SequentOf(f) = SequentOf(Current), f.at \in Waiting,
         Awaits(f) = [known |-> known, goal |-> goal, depth |-> depth]
  PROVE  TypedInv'
<1> DEFINE g == Frame(known, goal, depth, f.level + 1)
           n == Height
<1>0. PICK l : l = Len(calls)
  OBVIOUS
<1>1. /\ l \in Nat /\ l >= 1 /\ Sequence(calls') /\ Len(calls') = l + 1 /\ calls'[l] = f /\ calls'[l + 1] = g
      /\ \A k \in 1..(l - 1) : calls'[k] = calls[k]
  BY <1>0, Moves DEF TypedInv, StackIs
<1>2. n \in Nat /\ considered \in Nat /\ problem \in Problems
  BY DEF TypedInv
<1>3. /\ \A k \in 1..(l - 1) : FrameIs(problem, n, calls[k])
      /\ \A k \in 1..(l - 1) : calls[k].at \in Waiting /\ SequentOf(calls[k + 1]) = Awaits(calls[k])
      /\ SequentOf(calls[1]) = Root(problem) /\ MemoIs(problem, n, memo)
  <2> HIDE DEF n
  <2>1. Height <= n
    BY <1>2 DEF n
  <2> QED BY <1>0, <1>2, <2>1, SameBelow
<1>4. SequentIs(problem, Awaits(f))
  BY <1>2, AwaitsIs
<1>5. FrameIs(problem, n, g) /\ g.at = "enter" /\ SequentOf(g) = Awaits(f)
  <2>1. SequentIs(problem, [known |-> known, goal |-> goal, depth |-> depth])
    BY <1>4
  <2> HIDE DEF n
  <2> QED BY <2>1, FirstFrame
<1> HIDE DEF g
<1>6. AwaitsOne(calls') = l /\ ~IsDue(calls')
  <2>1. calls'[l + 1].at = "enter" /\ l + 1 # 0 /\ l + 1 - 1 = l
    BY <1>1, <1>5
  <2> QED BY <1>1, <2>1 DEF AwaitsOne, IsDue, Waiting
<1>7. Height' = n /\ considered' \in Nat
  <2>1. Height' = considered' - l
    BY <1>6 DEF Height
  <2>2. n = considered - (IF Current.at \in Waiting THEN l ELSE l - 1)
    BY <1>0, AtHand DEF Height
  <2> HIDE DEF n
  <2>3. CASE Current.at \in Waiting
    BY <1>1, <1>2, <2>1, <2>2, <2>3
  <2>4. CASE Current.at \notin Waiting
    BY <1>1, <1>2, <2>1, <2>2, <2>4
  <2> QED BY <2>3, <2>4
<1>8. StackIs(problem, n, calls')
  <2> HIDE DEF n
  <2>1. \A k \in 1..(l + 1) : FrameIs(problem, n, calls'[k])
    <3> TAKE k \in 1..(l + 1)
    <3>1. k \in 1..(l - 1) \/ k = l \/ k = l + 1
      BY <1>1
    <3> QED BY <1>1, <1>3, <1>5, <3>1 DEF n
  <2>2. \A k \in 1..l : SequentOf(calls'[k]) = SequentOf(calls[k])
    BY <1>0, <1>1 DEF Current
  <2>3. SequentOf(calls'[1]) = Root(problem)
    BY <1>1, <1>3, <2>2
  <2>4. \A k \in 1..((l + 1) - 1) : calls'[k].at \in Waiting /\ SequentOf(calls'[k + 1]) = Awaits(calls'[k])
    <3> TAKE k \in 1..((l + 1) - 1)
    <3>1. CASE k = l
      BY <1>1, <1>5, <3>1
    <3>2. CASE k # l
      <4>1. k \in 1..(l - 1) /\ k \in 1..l /\ k + 1 \in 1..l
        BY <1>1, <3>2
      <4> QED BY <1>1, <1>3, <2>2, <4>1
    <3> QED BY <3>1, <3>2
  <2> QED BY <1>1, <2>1, <2>3, <2>4 DEF StackIs
<1>9. verdict' = "running"
  BY AtHand
<1> QED BY <1>2, <1>3, <1>6, <1>7, <1>8, <1>9 DEF TypedInv

-----------------------------------------------------------------------------
(* Actions and their order.                                                 *)

LEMMA NoTerms ==
  ASSUME NEW p, NEW n, NEW s
  PROVE  AllShow(p, n, <<>>, s)
<1>1. <<>> \in Seq({}) /\ Len(<<>>) = 0
  OBVIOUS
<1> QED BY <1>1 DEF AllShow, Sequence

LEMMA OneTerm ==
  ASSUME NEW p, NEW n, NEW s, NEW t, Shows(p, n, t, s)
  PROVE  AllShow(p, n, <<t>>, s)
<1> DEFINE s1 == <<t>>
<1>1. s1 \in Seq({t}) /\ Len(s1) = 1 /\ s1[1] = t
  OBVIOUS
<1> HIDE DEF s1
<1>2. Sequence(s1)
  BY <1>1 DEF Sequence
<1>3. \A k \in 1..Len(s1) : Shows(p, n, s1[k], s)
  BY <1>1
<1>4. AllShow(p, n, s1, s)
  BY <1>1, <1>2, <1>3 DEF AllShow
<1> QED BY <1>4 DEF s1

LEMMA Remembers ==
  ASSUME NEW f, NEW terms, NEW n, Remember(f, terms), MemoIs(problem, n, memo), AllShow(problem, n, terms, SequentOf(f))
  PROVE  MemoIs(problem, n, memo')
<1>1. MemoKey(f).sequent = SequentOf(f)
  BY DEF MemoKey
<1>2. DOMAIN memo' = DOMAIN memo \cup {MemoKey(f)}
      /\ \A k \in DOMAIN memo' : memo'[k] = IF k = MemoKey(f) THEN terms ELSE memo[k]
  BY DEF Remember
<1>3. ASSUME NEW k \in DOMAIN memo' PROVE AllShow(problem, n, memo'[k], k.sequent)
  <2>1. CASE k = MemoKey(f)
    BY <1>1, <1>2, <2>1
  <2>2. CASE k # MemoKey(f)
    <3>1. k \in DOMAIN memo /\ memo'[k] = memo[k]
      BY <1>2, <2>2
    <3> QED BY <3>1 DEF MemoIs
  <2> QED BY <2>1, <2>2
<1> QED BY <1>3 DEF MemoIs

-----------------------------------------------------------------------------
(* Terms for a goal.                                                       *)

LEMMA TakesAction ==
  ASSUME NEW p \in Problems, NEW s, SequentIs(p, s), NEW a, FitsGoal(p, s, a), NEW n \in Nat, NEW args, Sequence(args),
         Len(args) = Len(a.domains), \A k \in 1..Len(args) : HasType(p, n, args[k], a.domains[k], LocalTypes(p, s.known))
  PROVE  Shows(p, n + 1, Applied(HeadAt(a.assumption, s.depth), args), s)
<1> DEFINE head == HeadAt(a.assumption, s.depth)
           binders == LocalTypes(p, s.known)
<1>1. head \in HeadSet(p) /\ s.goal \in Types /\ binders \in Seq(Types)
  BY Locals DEF FitsGoal, SequentIs
<1>2. PICK h \in HeadTypes(p, head, binders, s.goal) : FitsAs(h, a, s)
  BY DEF FitsGoal
<1> HIDE DEF head, binders
<1>3. DOMAIN args = 1..Len(args)
  BY RangeIs
<1>4. \A k \in DOMAIN args : HasType(p, n, args[k], h.from[k], binders)
  <2> TAKE k \in DOMAIN args
  <2>1. HasType(p, n, args[k], a.domains[k], binders)
    BY <1>3 DEF binders
  <2>2. a.domains[k] = h.from[k]
    BY <1>2, <1>3 DEF FitsAs
  <2> QED BY <2>1, <2>2
<1>5. Len(args) <= Len(h.from) /\ Arrow(SubSeq(h.from, Len(args) + 1, Len(h.from)), h.to) = s.goal
  BY <1>2 DEF FitsAs
<1>6. HasType(p, n + 1, Applied(head, args), s.goal, binders)
  BY <1>1, <1>2, <1>4, <1>5, Application
<1> QED BY <1>6 DEF Shows, head, binders

LEMMA WholeType ==
  ASSUME NEW t \in Types
  PROVE  Arrow(SubSeq(t.from, 1, Len(t.from)), t.to) = t
<1>1. t.from \in Seq(Types) /\ t = Arrow(t.from, t.to)
  BY TypesAre, Zenon
<1>2. SubSeq(t.from, 1, Len(t.from)) = t.from
  BY <1>1, SubSeqFull
<1> QED BY <1>1, <1>2, Zenon

LEMMA KnownFits ==
  ASSUME NEW p \in Problems, NEW s, SequentIs(p, s), NEW k \in DOMAIN s.known, NEW type, type = s.known[k].type, NEW domains,
         \/ domains = <<>> /\ type = s.goal
         \/ domains = type.from /\ Atom(type.to) = s.goal,
         NEW observed
  PROVE  FitsGoal(p, s, Action(s.known[k], domains, observed))
<1> DEFINE a == Action(s.known[k], domains, observed)
           head == HeadAt(s.known[k], s.depth)
           binders == LocalTypes(p, s.known)
<1>1. a.assumption = s.known[k] /\ a.domains = domains
  BY DEF Action
<1>2. head \in HeadSet(p) /\ type \in HeadTypes(p, head, binders, s.goal)
  BY HeadOfKnown DEF SequentIs
<1>3. type \in Types
  <2>1. Sequence(s.known)
    BY DEF SequentIs, KnownIs
  <2>2. k \in 1..Len(s.known)
    BY <2>1, RangeIs
  <2> QED BY <2>2 DEF SequentIs, KnownIs
<1>4. type.from \in Seq(Types) /\ Len(type.from) \in Nat
  BY <1>3, TypesAre
<1> HIDE DEF head, binders, a
<1>5. CASE domains = <<>> /\ type = s.goal
  <2>1. <<>> \in Seq(Types) /\ Len(<<>>) = 0
    OBVIOUS
  <2>2. a.domains \in Seq(Types) /\ Len(a.domains) = 0
    BY <1>1, <1>5, <2>1
  <2>3. Arrow(SubSeq(type.from, 0 + 1, Len(type.from)), type.to) = s.goal
    BY <1>3, <1>5, WholeType
  <2>4. FitsAs(type, a, s)
    BY <1>4, <2>2, <2>3 DEF FitsAs
  <2> QED BY <1>1, <1>2, <2>2, <2>4 DEF FitsGoal, head, binders, a
<1>6. CASE domains = type.from /\ Atom(type.to) = s.goal
  <2>1. a.domains \in Seq(Types) /\ a.domains = type.from
    BY <1>1, <1>4, <1>6
  <2>2. SubSeq(type.from, Len(type.from) + 1, Len(type.from)) = <<>>
    <3>1. Len(type.from) + 1 \in Int /\ Len(type.from) \in Int /\ Len(type.from) < Len(type.from) + 1
      BY <1>4
    <3> QED BY <3>1, SubSeqEmpty
  <2>3. Arrow(SubSeq(type.from, Len(type.from) + 1, Len(type.from)), type.to) = s.goal
    BY <1>6, <2>2 DEF Atom
  <2>4. FitsAs(type, a, s)
    BY <1>4, <2>1, <2>3 DEF FitsAs
  <2> QED BY <1>1, <1>2, <2>1, <2>4 DEF FitsGoal, head, binders, a
<1> QED BY <1>5, <1>6

LEMMA Eliminators ==
  ASSUME NEW p \in Problems, NEW k \in DOMAIN p.eliminators
  PROVE  /\ p.eliminators[k].from \in Seq(Types) /\ p.eliminators[k].from # <<>> /\ p.eliminators[k].name # ""
         /\ DOMAIN p.eliminators = 1..Len(p.eliminators) /\ Len(p.eliminators) \in Nat
<1> DEFINE S == [name : STRING, from : Seq(Types) \ {<<>>}]
<1>1. p.eliminators \in Seq(S)
  BY TypesAssumption, Zenon
<1>2. p.eliminators[k].name # ""
  BY TypesAssumption, Zenon
<1> HIDE DEF S
<1>3. DOMAIN p.eliminators = 1..Len(p.eliminators) /\ Len(p.eliminators) \in Nat /\ p.eliminators[k] \in S
  BY <1>1
<1>4. p.eliminators[k].from \in Seq(Types) \ {<<>>}
  <2> DEFINE N == Seq(Types) \ {<<>>}
  <2>1. p.eliminators[k] \in [name : STRING, from : N]
    BY <1>3 DEF S
  <2> HIDE DEF N
  <2>2. p.eliminators[k].from \in N
    BY <2>1
  <2> QED BY <2>2 DEF N
<1> QED BY <1>2, <1>3, <1>4

LEMMA EliminatorFits ==
  ASSUME NEW p \in Problems, NEW s, SequentIs(p, s), NEW k \in DOMAIN p.eliminators, NEW order
  PROVE  FitsGoal(p, s, Elimination(p.eliminators[k], order, s.goal))
<1> DEFINE e == p.eliminators[k]
           goal == s.goal
           h == Arrow(e.from \o goal.from, goal.to)
           a == Elimination(e, order, goal)
           head == HeadAt(a.assumption, s.depth)
           binders == LocalTypes(p, s.known)
<1>1. e.from \in Seq(Types) /\ e.name # ""
  BY Eliminators
<1>2. goal \in Types /\ goal.from \in Seq(Types)
  BY TypesAre DEF SequentIs
<1>3. a.domains = e.from /\ a.assumption = Named(h, order, e.name)
  BY DEF Elimination, Action
<1>4. head = [name |-> e.name, index |-> -1]
  <2>1. Named(h, order, e.name).name = e.name
    BY DEF Named
  <2>2. a.assumption.name = e.name
    BY <1>3, <2>1
  <2> HIDE DEF a, e, h
  <2>3. a.assumption.name = e.name /\ e.name # ""
    BY <1>1, <2>2
  <2> QED BY <2>3, Zenon DEF HeadAt
<1> HIDE DEF a, head
<1>5. head \in HeadSet(p)
  <2> DEFINE names == {""} \cup {p.context[j].name : j \in DOMAIN p.context} \cup {p.eliminators[j].name : j \in DOMAIN p.eliminators}
  <2>1. e.name \in names
    OBVIOUS
  <2> HIDE DEF names, e
  <2>2. head \in [name : names, index : Int]
    BY <1>4, <2>1
  <2> QED BY <2>2 DEF HeadSet, names
<1>6. h \in HeadTypes(p, head, binders, goal)
  <2>1. head.name = e.name
    BY <1>4
  <2>2. h \in {Arrow(p.eliminators[i].from \o goal.from, goal.to) : i \in {j \in DOMAIN p.eliminators : p.eliminators[j].name = head.name}}
    BY <2>1
  <2>3. head.name # ""
    BY <1>1, <2>1
  <2> HIDE DEF e, h, goal, binders
  <2> QED BY <2>2, <2>3, Zenon DEF HeadTypes
<1>7. FitsAs(h, a, s)
  <2> DEFINE c == e.from
             d == goal.from
             m == Len(c)
  <2>1. /\ c \o d \in Seq(Types) /\ Len(c \o d) = Len(c) + Len(d)
        /\ \A i \in 1..(Len(c) + Len(d)) : (c \o d)[i] = IF i <= Len(c) THEN c[i] ELSE d[i - Len(c)]
    BY <1>1, <1>2, ConcatProperties
  <2>2. h.from = c \o d /\ h.to = goal.to
    BY DEF Arrow
  <2>3. Len(c) \in Nat /\ Len(d) \in Nat /\ c \in Seq(Types) /\ d \in Seq(Types)
    <3>1. c \in Seq(Types) /\ d \in Seq(Types)
      BY <1>1, <1>2, Zenon
    <3> HIDE DEF c, d
    <3> QED BY <3>1
  <2> HIDE DEF c, d, e, h
  <2>4. m <= Len(c \o d) /\ \A i \in 1..m : c[i] = (c \o d)[i]
    BY <2>1, <2>3
  <2>5. SubSeq(c \o d, m + 1, Len(c \o d)) = d
    <3> DEFINE r == SubSeq(c \o d, m + 1, Len(c \o d))
    <3>1. PICK i \in 1..(Len(c \o d) + 1) : i = m + 1
      BY <2>1, <2>3
    <3>2. Len(c \o d) \in (i - 1)..Len(c \o d) /\ Len(c \o d) - i + 1 = Len(d)
      BY <2>1, <2>3, <3>1
    <3>3. /\ r \in Seq(Types) /\ Len(r) = Len(d) /\ \A j \in 1..Len(d) : r[j] = (c \o d)[i + j - 1]
      BY <2>1, <3>1, <3>2, Slice
    <3> HIDE DEF r
    <3>4. \A j \in 1..Len(d) : r[j] = d[j]
      <4> TAKE j \in 1..Len(d)
      <4>1. i + j - 1 \in 1..(Len(c) + Len(d)) /\ ~(i + j - 1 <= Len(c)) /\ (i + j - 1) - Len(c) = j
        BY <2>3, <3>1
      <4> QED BY <2>1, <3>3, <4>1
    <3>5. r = d
      BY <2>3, <3>3, <3>4, SeqEqual
    <3> QED BY <3>5 DEF r
  <2>6. Arrow(d, goal.to) = goal
    BY <1>2, TypesAre DEF d
  <2>7. a.domains = c
    BY <1>3 DEF c
  <2> QED BY <2>2, <2>4, <2>5, <2>6, <2>7 DEF FitsAs
<1> QED BY <1>1, <1>3, <1>5, <1>6, <1>7 DEF FitsGoal, head, a

-----------------------------------------------------------------------------
(* Orders.                                                                 *)

LEMMA FiniteImage ==
  ASSUME NEW N \in Nat, NEW F
  PROVE  IsFiniteSet({F[k] : k \in 1..N})
<1> DEFINE T == {F[k] : k \in 1..N}
           f == [k \in 1..N |-> F[k]]
<1>1. IsFiniteSet(1..N)
  BY FS_Interval
<1>2. f \in Surjection(1..N, T)
  BY DEF Surjection
<1> HIDE DEF f, T
<1>3. IsFiniteSet(T)
  BY <1>1, <1>2, FS_Surjection
<1> QED BY <1>3 DEF T

LEMMA OrdersAre ==
  ASSUME NEW S, IsFiniteSet(S), NEW known, NEW order \in Orders(S, known)
  PROVE  order \in Seq(S)
<1>1. order \in SetToSeqs(S)
  BY DEF Orders
<1>2. Cardinality(S) \in Nat
  BY FS_CardinalityType
<1>3. order \in [1..Cardinality(S) -> S]
  BY <1>1 DEF SetToSeqs
<1> QED BY <1>2, <1>3

LEMMA Appliable ==
  ASSUME problem \in Problems, NEW f, SequentIs(problem, SequentOf(f))
  PROVE  /\ IsFiniteSet(Applicable(f))
         /\ \A a \in Applicable(f) : FitsGoal(problem, SequentOf(f), a) /\ a.domains # <<>>
<1> DEFINE s == SequentOf(f)
           N == Len(f.known)
           M == Len(problem.eliminators)
           F == [k \in 1..N |-> Action(f.known[k], f.known[k].type.from, FALSE)]
           G == [k \in 1..M |-> Elimination(problem.eliminators[k], Len(f.known) + k - 1, f.goal)]
           one == {F[k] : k \in 1..N}
           two == {G[k] : k \in 1..M}
<1>1. s.known = f.known /\ s.goal = f.goal /\ s.depth = f.depth
  BY SequentParts
<1>2. Sequence(f.known)
  BY <1>1 DEF SequentIs, KnownIs
<1>3. N \in Nat /\ DOMAIN f.known = 1..N
  BY <1>2, RangeIs
<1>4. M \in Nat /\ DOMAIN problem.eliminators = 1..M
  <2> DEFINE E == [name : STRING, from : Seq(Types) \ {<<>>}]
  <2>1. problem.eliminators \in Seq(E)
    BY TypesAssumption, Zenon
  <2> HIDE DEF E
  <2> QED BY <2>1
<1>5. Applicable(f) \subseteq one \cup two
  <2> SUFFICES ASSUME NEW a \in Applicable(f) PROVE a \in one \cup two
    OBVIOUS
  <2>1. CASE \E k \in DOMAIN f.known : a = Action(f.known[k], f.known[k].type.from, FALSE)
    <3>1. PICK k \in 1..N : a = F[k]
      BY <1>3, <2>1
    <3> QED BY <3>1
  <2>2. CASE \E k \in DOMAIN problem.eliminators : a = Elimination(problem.eliminators[k], Len(f.known) + k - 1, f.goal)
    <3>1. PICK k \in 1..M : a = G[k]
      BY <1>4, <2>2
    <3> QED BY <3>1
  <2>3. \/ \E k \in DOMAIN f.known : a = Action(f.known[k], f.known[k].type.from, FALSE)
        \/ \E k \in DOMAIN problem.eliminators : a = Elimination(problem.eliminators[k], Len(f.known) + k - 1, f.goal)
    BY Zenon DEF Applicable
  <2> QED BY <2>1, <2>2, <2>3
<1>6. IsFiniteSet(one) /\ IsFiniteSet(two)
  <2> HIDE DEF F, G, N, M
  <2> QED BY <1>3, <1>4, FiniteImage
<1>7. IsFiniteSet(Applicable(f))
  <2> HIDE DEF one, two
  <2>1. IsFiniteSet(one \cup two)
    BY <1>6, FS_Union
  <2> QED BY <1>5, <2>1, FS_Subset
<1>8. ASSUME NEW a \in Applicable(f) PROVE FitsGoal(problem, s, a) /\ a.domains # <<>>
  <2>1. CASE \E k \in DOMAIN f.known : /\ f.known[k].type.from # <<>> /\ Atom(f.known[k].type.to) = f.goal
                                       /\ a = Action(f.known[k], f.known[k].type.from, FALSE)
    <3>1. PICK k \in DOMAIN f.known : /\ f.known[k].type.from # <<>> /\ Atom(f.known[k].type.to) = f.goal
                                      /\ a = Action(f.known[k], f.known[k].type.from, FALSE)
      BY <2>1
    <3>2. a.domains = f.known[k].type.from
      BY <3>1 DEF Action
    <3>3. FitsGoal(problem, s, a)
      <4> HIDE DEF s
      <4>1. k \in DOMAIN s.known /\ a = Action(s.known[k], s.known[k].type.from, FALSE) /\ Atom(s.known[k].type.to) = s.goal
        BY <1>1, <3>1
      <4>2. SequentIs(problem, s)
        BY DEF s
      <4> QED BY <4>1, <4>2, KnownFits, Zenon
    <3> QED BY <3>1, <3>2, <3>3
  <2>2. CASE \E k \in DOMAIN problem.eliminators : a = Elimination(problem.eliminators[k], Len(f.known) + k - 1, f.goal)
    <3>1. PICK k \in DOMAIN problem.eliminators : a = Elimination(problem.eliminators[k], Len(f.known) + k - 1, f.goal)
      BY <2>2
    <3>2. a.domains = problem.eliminators[k].from
      BY <3>1 DEF Elimination, Action
    <3>3. problem.eliminators[k].from # <<>>
      BY Eliminators
    <3>4. FitsGoal(problem, s, a)
      <4> DEFINE order == Len(f.known) + k - 1
      <4>1. a = Elimination(problem.eliminators[k], order, s.goal)
        BY <1>1, <3>1
      <4> HIDE DEF order, s
      <4>2. SequentIs(problem, s)
        BY DEF s
      <4> QED BY <4>1, <4>2, EliminatorFits, Zenon
    <3> QED BY <3>2, <3>3, <3>4
  <2>3. \/ \E k \in DOMAIN f.known : /\ f.known[k].type.from # <<>> /\ Atom(f.known[k].type.to) = f.goal
                                     /\ a = Action(f.known[k], f.known[k].type.from, FALSE)
        \/ \E k \in DOMAIN problem.eliminators : a = Elimination(problem.eliminators[k], Len(f.known) + k - 1, f.goal)
    BY Zenon DEF Applicable
  <2> QED BY <2>1, <2>2, <2>3
<1> QED BY <1>7, <1>8

LEMMA Exactly ==
  ASSUME problem \in Problems, SequentIs(problem, SequentOf(Current))
  PROVE  /\ IsFiniteSet(ExactMany)
         /\ \A a \in ExactMany : FitsGoal(problem, SequentOf(Current), a) /\ a.domains = <<>>
<1> DEFINE f == Current
           s == SequentOf(f)
           N == Len(f.known)
           F == [k \in 1..N |-> Action(f.known[k], <<>>, FALSE)]
           one == {F[k] : k \in 1..N}
<1>1. s.known = f.known /\ s.goal = f.goal /\ s.depth = f.depth
  BY SequentParts
<1>2. Sequence(f.known)
  BY <1>1 DEF SequentIs, KnownIs
<1>3. N \in Nat /\ DOMAIN f.known = 1..N
  BY <1>2, RangeIs
<1>4. \A a \in ExactMany : \E k \in DOMAIN f.known : f.known[k].type = f.goal /\ a = Action(f.known[k], <<>>, FALSE)
  BY Zenon DEF ExactMany, Exact
<1> HIDE DEF f
<1>5. ExactMany \subseteq one
  <2> SUFFICES ASSUME NEW a \in ExactMany PROVE a \in one
    OBVIOUS
  <2>1. PICK k \in 1..N : a = F[k]
    BY <1>3, <1>4
  <2> QED BY <2>1
<1>6. IsFiniteSet(one)
  <2> HIDE DEF F, N
  <2> QED BY <1>3, FiniteImage
<1>7. IsFiniteSet(ExactMany)
  <2> HIDE DEF one
  <2> QED BY <1>5, <1>6, FS_Subset
<1>8. ASSUME NEW a \in ExactMany PROVE FitsGoal(problem, s, a) /\ a.domains = <<>>
  <2>1. PICK k \in DOMAIN f.known : f.known[k].type = f.goal /\ a = Action(f.known[k], <<>>, FALSE)
    BY <1>4
  <2>2. a.domains = <<>>
    BY <2>1 DEF Action
  <2> HIDE DEF s
  <2>3. k \in DOMAIN s.known /\ a = Action(s.known[k], <<>>, FALSE) /\ s.known[k].type = s.goal
    BY <1>1, <2>1
  <2>4. SequentIs(problem, s)
    BY DEF s, f
  <2>5. FitsGoal(problem, s, a)
    BY <2>3, <2>4, KnownFits, Zenon
  <2> QED BY <2>2, <2>5
<1> QED BY <1>7, <1>8 DEF s, f

-----------------------------------------------------------------------------
(* Actions that are tried.                                                  *)

Taking == {"try", "argument", "many", "arguments"}
SameGoal(f, g) == g.known = f.known /\ g.goal = f.goal /\ g.depth = f.depth

LEMMA ActionsGo ==
  ASSUME NEW p, NEW f, NEW g, ActionsFit(p, f), SameGoal(f, g), Sequence(g.actions),
         \A k \in 1..Len(g.actions) : \E j \in 1..Len(f.actions) : g.actions[k] = f.actions[j],
         g.at = "exacts" => f.at = "exacts", g.at \in Taking => f.at \in Taking
  PROVE  ActionsFit(p, g)
<1>1. SequentOf(g) = SequentOf(f)
  BY DEF SameGoal, SequentOf
<1>2. ASSUME NEW k \in 1..Len(g.actions)
      PROVE  /\ FitsGoal(p, SequentOf(g), g.actions[k])
             /\ g.at = "exacts" => g.actions[k].domains = <<>>
             /\ g.at \in Taking => g.actions[k].domains # <<>>
  <2>1. PICK j \in 1..Len(f.actions) : g.actions[k] = f.actions[j]
    BY <1>2
  <2>2. /\ FitsGoal(p, SequentOf(f), f.actions[j])
        /\ f.at = "exacts" => f.actions[j].domains = <<>>
        /\ f.at \in Taking => f.actions[j].domains # <<>>
    BY DEF ActionsFit, Taking
  <2> QED BY <1>1, <2>1, <2>2
<1> QED BY <1>2 DEF ActionsFit, Taking

LEMMA NewActions ==
  ASSUME NEW p, NEW S, NEW g, g.actions \in Seq(S),
         \A a \in S : FitsGoal(p, SequentOf(g), a),
         g.at = "exacts" => \A a \in S : a.domains = <<>>,
         g.at \in Taking => \A a \in S : a.domains # <<>>
  PROVE  ActionsFit(p, g)
<1>1. \A k \in 1..Len(g.actions) : g.actions[k] \in S
  BY ElementOfSeq
<1> QED BY <1>1 DEF ActionsFit, Sequence, Taking

LEMMA FrameStays ==
  ASSUME NEW p, NEW n, NEW f, NEW g, FrameIs(p, n, f), IsFrame(g), SameGoal(f, g),
         g.at \in (IF p.many THEN ManyPlaces ELSE OnePlaces) \ Waiting, ActionsFit(p, g), FoundShow(p, n, g)
  PROVE  FrameIs(p, n, g) /\ SequentOf(g) = SequentOf(f)
<1>1. SequentOf(g) = SequentOf(f)
  BY DEF SameGoal, SequentOf
<1>2. g.at \notin {"body", "bodies", "argument", "arguments"}
  BY DEF Waiting
<1> QED BY <1>1, <1>2 DEF FrameIs, Stands

\* The frame at hand.
LEMMA Hands ==
  ASSUME TypedInv, calls # <<>>
  PROVE  /\ problem \in Problems /\ IsFrame(Current) /\ Stands(problem, Current) /\ SequentIs(problem, SequentOf(Current))
         /\ ActionsFit(problem, Current) /\ Height \in Nat
         /\ Current.at \in OnePlaces => ~problem.many
         /\ Current.at \in ManyPlaces => problem.many
<1>1. FrameIs(problem, Height, Current)
  BY AtHand
<1>2. Stands(problem, Current) /\ ActionsFit(problem, Current)
  BY <1>1 DEF FrameIs
<1>3. OnePlaces \cap ({"enter"} \cup ManyPlaces) = {} /\ ManyPlaces \cap ({"enter"} \cup OnePlaces) = {}
  BY DEF OnePlaces, ManyPlaces
<1> QED BY <1>2, <1>3 DEF TypedInv, Stands

LEMMA ReturnsNothing ==
  ASSUME TypedInv, calls # <<>>, Return(<<>>), problem' = problem, verdict' = verdict,
         considered' \in {considered, considered + 1},
         memo' = memo \/ Remember(Current, <<>>)
  PROVE  TypedInv'
<1>1. PICK n \in Nat : Rises(n)
  BY Rising
<1>2. AllShow(problem, n, <<>>, SequentOf(Current))
  BY NoTerms
<1>3. MemoIs(problem, n, memo)
  BY <1>1, SameBelow DEF Rises
<1>4. MemoIs(problem, n, memo')
  BY <1>2, <1>3, Remembers
<1> QED BY <1>1, <1>2, <1>4, TypedReturns

\* Terms are made for the goal, on top of what is there.
LEMMA ReturnsTerms ==
  ASSUME TypedInv, calls # <<>>, NEW terms, Return(terms), problem' = problem, verdict' = verdict,
         considered' = considered + 1 \/ (considered' = considered /\ Current.at \in Waiting),
         memo' = memo \/ Remember(Current, terms),
         AllShow(problem, Height + 1, terms, SequentOf(Current))
  PROVE  TypedInv'
<1>1. PICK n \in Nat : Rises(n) /\ n >= Height + 1
  BY Rising
<1>2. AllShow(problem, n, terms, SequentOf(Current))
  <2>1. PICK m \in Nat : m = Height + 1
    BY DEF TypedInv
  <2>2. m <= n /\ AllShow(problem, m, terms, SequentOf(Current))
    BY <1>1, <2>1
  <2> QED BY <2>2, AllHigher, Zenon
<1>3. MemoIs(problem, n, memo)
  BY <1>1, SameBelow DEF Rises
<1>4. MemoIs(problem, n, memo')
  BY <1>2, <1>3, Remembers
<1> QED BY <1>1, <1>2, <1>4, TypedReturns

LEMMA GoesOn ==
  ASSUME TypedInv, calls # <<>>, NEW g, Becomes(g), problem' = problem, verdict' = verdict, memo' = memo,
         considered' \in {considered, considered + 1}, IsFrame(g), SameGoal(Current, g),
         g.at \in (IF problem.many THEN ManyPlaces ELSE OnePlaces) \ Waiting,
         ActionsFit(problem, g),
         \A n \in Nat : /\ Height <= n
                        /\ considered' = considered + 1 \/ Current.at \in Waiting => n >= Height + 1
                        => FoundShow(problem, n, g)
  PROVE  TypedInv'
<1>1. PICK n \in Nat : Rises(n) /\ (considered' = considered + 1 \/ Current.at \in Waiting => n >= Height + 1)
  BY Rising
<1>2. FoundShow(problem, n, g)
  BY <1>1 DEF Rises
<1>3. MemoIs(problem, n, memo) /\ FrameIs(problem, n, Current)
  BY <1>1, SameBelow DEF Rises
<1>4. FrameIs(problem, n, g) /\ SequentOf(g) = SequentOf(Current)
  BY <1>2, <1>3, FrameStays
<1> QED BY <1>1, <1>3, <1>4, TypedBecomes

LEMMA FoundStays ==
  ASSUME TypedInv, calls # <<>>, NEW g, SameGoal(Current, g), g.found = Current.found, NEW n \in Nat, Height <= n
  PROVE  FoundShow(problem, n, g)
<1>1. FoundShow(problem, n, Current)
  BY SameBelow DEF FrameIs
<1>2. SequentOf(g) = SequentOf(Current)
  BY DEF SameGoal, SequentOf
<1> QED BY <1>1, <1>2 DEF FoundShow

-----------------------------------------------------------------------------

LEMMA TypedEnter ==
  ASSUME TypedInv, Stopped \/ Remembered \/ Cycle \/ Expand
  PROVE  TypedInv'
<1>1. /\ calls # <<>> /\ Current.at = "enter" /\ problem' = problem /\ verdict' = verdict
      /\ considered' = considered /\ memo' = memo
  BY DEF Stopped, Remembered, Cycle, Expand, Enters, Reached, counters
<1>2. considered' \in {considered, considered + 1}
  BY <1>1
<1>3. CASE Stopped \/ Cycle
  BY <1>1, <1>2, <1>3, ReturnsNothing DEF Stopped, Cycle
<1>4. CASE Remembered
  <2>1. PICK n \in Nat : Rises(n)
    BY <1>1, <1>2, Rising
  <2>2. MemoKey(Current) \in DOMAIN memo /\ Return(memo[MemoKey(Current)])
    BY <1>4 DEF Remembered
  <2>3. MemoIs(problem, n, memo)
    BY <1>1, <2>1, SameBelow DEF Rises
  <2>4. MemoKey(Current).sequent = SequentOf(Current)
    BY DEF MemoKey
  <2>5. AllShow(problem, n, memo[MemoKey(Current)], SequentOf(Current))
    BY <2>2, <2>3, <2>4 DEF MemoIs
  <2> QED BY <1>1, <2>1, <2>2, <2>3, <2>5, TypedReturns
<1>5. CASE Expand
  <2> DEFINE place == IF problem.many THEN "arrow" ELSE "exact"
             g == [Current EXCEPT !.at = place, !.before = pruned]
  <2>1. Becomes(g)
    BY <1>5 DEF Expand
  <2>2. /\ IsFrame(g) /\ SameGoal(Current, g) /\ g.at = place
        /\ g.actions = Current.actions /\ g.found = Current.found
    BY <1>1, Hands DEF IsFrame, SameGoal
  <2>3. g.at \in (IF problem.many THEN ManyPlaces ELSE OnePlaces) \ Waiting /\ g.at \notin Taking \cup {"exacts"}
    BY <2>2 DEF ManyPlaces, OnePlaces, Waiting, Taking
  <2> HIDE DEF g
  <2>4. ActionsFit(problem, g)
    <3>1. ActionsFit(problem, Current)
      BY <1>1, Hands
    <3>2. Sequence(g.actions)
      BY <2>2, <3>1 DEF ActionsFit
    <3> QED BY <2>2, <2>3, <3>1, <3>2, ActionsGo
  <2>5. \A n \in Nat : Height <= n => FoundShow(problem, n, g)
    BY <1>1, <2>2, FoundStays
  <2> QED BY <1>1, <1>2, <2>1, <2>2, <2>3, <2>4, <2>5, GoesOn
<1> QED BY <1>3, <1>4, <1>5

\* A frame that goes on with the actions it has.
LEMMA MovesOn ==
  ASSUME TypedInv, calls # <<>>, NEW place \in {"introduce", "focus"}, Becomes([Current EXCEPT !.at = place]), ~problem.many,
         problem' = problem, verdict' = verdict, memo' = memo, considered' = considered
  PROVE  TypedInv'
<1> DEFINE g == [Current EXCEPT !.at = place]
<1>2. /\ IsFrame(g) /\ SameGoal(Current, g) /\ g.at = place
      /\ g.actions = Current.actions /\ g.found = Current.found
  BY Hands DEF IsFrame, SameGoal
<1>3. g.at \in (IF problem.many THEN ManyPlaces ELSE OnePlaces) \ Waiting /\ g.at \notin Taking \cup {"exacts"}
  BY <1>2 DEF ManyPlaces, OnePlaces, Waiting, Taking
<1>b. Becomes(g)
  OBVIOUS
<1> HIDE DEF g
<1>4. ActionsFit(problem, g)
  <2>1. ActionsFit(problem, Current)
    BY Hands
  <2>2. Sequence(g.actions)
    BY <1>2, <2>1 DEF ActionsFit
  <2> QED BY <1>2, <1>3, <2>1, <2>2, ActionsGo
<1>5. \A n \in Nat : Height <= n => FoundShow(problem, n, g)
  BY <1>2, FoundStays
<1>6. considered' \in {considered, considered + 1}
  OBVIOUS
<1> QED BY <1>b, <1>2, <1>3, <1>4, <1>5, <1>6, GoesOn

LEMMA TypedExactOne ==
  ASSUME TypedInv, ExactOne
  PROVE  TypedInv'
<1>1. calls # <<>> /\ Current.at = "exact" /\ problem' = problem /\ verdict' = verdict
  BY DEF ExactOne, Reached, counters
<1>2. ~problem.many /\ problem \in Problems /\ SequentIs(problem, SequentOf(Current)) /\ Height \in Nat
  BY <1>1, Hands DEF OnePlaces
<1>3. CASE Exact(Current) = {}
  <2>1. Becomes([Current EXCEPT !.at = "introduce"]) /\ memo' = memo /\ considered' = considered
    BY <1>3 DEF ExactOne
  <2> QED BY <1>1, <1>2, <2>1, MovesOn
<1>4. CASE Exact(Current) # {}
  <2> DEFINE first == CHOOSE k \in Exact(Current) : \A j \in Exact(Current) : k <= j
             term == Applied(HeadAt(Current.known[first], Current.depth), <<>>)
  <2>1. \/ Charge /\ Remember(Current, <<term>>) /\ Return(<<term>>)
        \/ Refuse /\ Return(<<>>) /\ memo' = memo
    BY <1>4 DEF ExactOne
  <2>2. CASE Refuse /\ Return(<<>>) /\ memo' = memo
    BY <1>1, <2>2, ReturnsNothing DEF Refuse
  <2>3. CASE Charge /\ Remember(Current, <<term>>) /\ Return(<<term>>)
    <3>1. Sequence(Current.known)
      BY <1>2, SequentParts DEF SequentIs, KnownIs
    <3>2. Exact(Current) \subseteq Nat /\ Exact(Current) \subseteq DOMAIN Current.known
      BY <3>1, RangeIs DEF Exact
    <3>3. first \in Exact(Current)
      BY <1>4, <3>2, LeastMember
    <3> HIDE DEF first
    <3>4. first \in DOMAIN Current.known /\ Current.known[first].type = Current.goal
      BY <3>3 DEF Exact
    <3> DEFINE s == SequentOf(Current)
               a == Action(s.known[first], <<>>, FALSE)
    <3>5. s.known = Current.known /\ s.goal = Current.goal /\ s.depth = Current.depth
      BY SequentParts
    <3>6. SequentIs(problem, s)
      BY <1>2
    <3> HIDE DEF s
    <3>7. FitsGoal(problem, s, a)
      BY <1>2, <3>4, <3>5, <3>6, KnownFits, Zenon
    <3>8. a.domains = <<>> /\ a.assumption = Current.known[first]
      BY <3>5 DEF Action
    <3> HIDE DEF a
    <3>9. Shows(problem, Height + 1, Applied(HeadAt(a.assumption, s.depth), <<>>), s)
      <4>1. Sequence(<<>>) /\ Len(<<>>) = 0
        <5>1. <<>> \in Seq({}) /\ Len(<<>>) = 0
          OBVIOUS
        <5> QED BY <5>1 DEF Sequence
      <4>2. Len(<<>>) = Len(a.domains)
        BY <3>8
      <4>3. \A k \in 1..Len(<<>>) : HasType(problem, Height, <<>>[k], a.domains[k], LocalTypes(problem, s.known))
        BY <4>1
      <4> QED BY <1>2, <3>6, <3>7, <4>1, <4>2, <4>3, TakesAction
    <3>10. Shows(problem, Height + 1, term, s)
      BY <3>5, <3>8, <3>9
    <3> HIDE DEF term
    <3>11. AllShow(problem, Height + 1, <<term>>, SequentOf(Current))
      BY <3>10, OneTerm DEF s
    <3> QED BY <1>1, <2>3, <3>11, ReturnsTerms DEF Charge
  <2> QED BY <2>1, <2>2, <2>3
<1> QED BY <1>3, <1>4

-----------------------------------------------------------------------------
(* A goal, and a frame that is worked on.                                   *)

\* The first and the rest of a sequence.
LEMMA FirstAndRest ==
  ASSUME NEW s, Sequence(s), s # <<>>
  PROVE  /\ Len(s) \in Nat /\ Len(s) >= 1 /\ Head(s) = s[1] /\ SubSeq(s, 1, 1) = <<Head(s)>> /\ Tail(s) = SubSeq(s, 2, Len(s))
         /\ Sequence(Tail(s)) /\ \A k \in 1..Len(Tail(s)) : \E j \in 1..Len(s) : Tail(s)[k] = s[j]
<1>1. PICK S : s \in Seq(S)
  BY DEF Sequence
<1>2. Len(s) \in Nat /\ Len(s) >= 1 /\ Head(s) = s[1] /\ s[1] \in S
  BY <1>1
<1>3. Tail(s) = SubSeq(s, 2, Len(s))
  BY <1>1, TailIsSubSeq
<1>4. SubSeq(s, 1, 1) = <<s[1]>>
  <2> DEFINE a == SubSeq(s, 1, 1)
             b == <<s[1]>>
  <2>1. 1 \in 1..(Len(s) + 1) /\ 1 \in (1 - 1)..Len(s) /\ 1 - 1 + 1 = 1
    BY <1>2
  <2>2. a \in Seq(S) /\ Len(a) = 1 /\ a[1] = s[1]
    <3>1. /\ a \in Seq(S) /\ Len(a) = 1 - 1 + 1
          /\ \A i \in 1..(1 - 1 + 1) : a[i] = s[1 + i - 1]
      BY <1>1, <2>1, Slice
    <3> HIDE DEF a
    <3> QED BY <3>1
  <2>3. b \in Seq(S) /\ Len(b) = 1 /\ b[1] = s[1]
    BY <1>2
  <2> HIDE DEF a, b
  <2>4. \A i \in 1..Len(a) : a[i] = b[i]
    BY <2>2, <2>3
  <2>5. a = b
    BY <2>2, <2>3, <2>4, SeqEqual
  <2> QED BY <2>5 DEF a, b
<1>5. Tail(s) \in Seq(S) /\ Len(Tail(s)) = Len(s) - 1 /\ \A k \in 1..(Len(s) - 1) : Tail(s)[k] = s[k + 1]
  BY <1>1, <1>2
<1>6. ASSUME NEW k \in 1..Len(Tail(s)) PROVE \E j \in 1..Len(s) : Tail(s)[k] = s[j]
  <2>1. k + 1 \in 1..Len(s) /\ Tail(s)[k] = s[k + 1]
    BY <1>2, <1>5
  <2> QED BY <2>1
<1>7. Sequence(Tail(s))
  BY <1>5 DEF Sequence
<1> QED BY <1>2, <1>3, <1>4, <1>6, <1>7

\* A frame that opens binders of its goal.
LEMMA OpensUp ==
  ASSUME TypedInv, calls # <<>>, NEW g, IsFrame(g), SameGoal(Current, g), g.actions = Current.actions, g.found = Current.found,
         g.at = (IF problem.many THEN "bodies" ELSE "body"), Opens(g) \in 1..Len(Current.goal.from),
         NEW known, known = Current.known \o Introduced(SubSeq(Current.goal.from, 1, Opens(g)), Current),
         NEW goal, goal = Arrow(SubSeq(Current.goal.from, Opens(g) + 1, Len(Current.goal.from)), Current.goal.to),
         NEW depth, depth = Current.depth + Opens(g), Descends(g, known, goal, depth),
         problem' = problem, verdict' = verdict, memo' = memo, considered' = considered + 1, Current.at \notin Waiting
  PROVE  TypedInv'
<1>1. g.at \in {"body", "bodies"} /\ g.at \in Waiting /\ g.at \notin Taking /\ g.at # "exacts"
      /\ g.at \in (IF problem.many THEN ManyPlaces ELSE OnePlaces)
  BY DEF Waiting, Taking, ManyPlaces, OnePlaces
<1>2. SequentOf(g) = SequentOf(Current)
  BY DEF SameGoal, SequentOf
<1>3. ActionsFit(problem, g)
  <2>1. ActionsFit(problem, Current)
    BY Hands
  <2>2. Sequence(g.actions)
    BY <2>1 DEF ActionsFit
  <2> QED BY <1>1, <2>1, <2>2, ActionsGo
<1>4. FoundShow(problem, Height, g)
  <2> DEFINE n == Height
  <2>1. n \in Nat /\ Height <= n
    BY Hands
  <2> HIDE DEF n
  <2>2. FoundShow(problem, n, g)
    BY <2>1, FoundStays
  <2> QED BY <2>2 DEF n
<1>5. Stands(problem, g)
  <2>1. SequentIs(problem, SequentOf(g))
    BY <1>2, Hands
  <2>2. g.goal = Current.goal
    BY DEF SameGoal
  <2> QED BY <1>1, <2>1, <2>2 DEF Stands
<1>6. FrameIs(problem, Height, g)
  <2>1. g.at \notin {"argument", "arguments"}
    OBVIOUS
  <2> QED BY <1>3, <1>4, <1>5, <2>1 DEF FrameIs
<1>7. Awaits(g) = [known |-> known, goal |-> goal, depth |-> depth]
  <2>1. Awaits(g) = OpenedBy(g)
    BY <1>1 DEF Awaits
  <2>2. Introduced(SubSeq(Current.goal.from, 1, Opens(g)), g) = Introduced(SubSeq(Current.goal.from, 1, Opens(g)), Current)
    BY DEF Introduced, SameGoal
  <2>3. OpenedBy(g) = [known |-> known, goal |-> goal, depth |-> depth]
    BY <2>2 DEF OpenedBy, SameGoal
  <2> QED BY <2>1, <2>3
<1> QED BY <1>1, <1>2, <1>6, <1>7, TypedDescends

LEMMA TypedIntroduceOne ==
  ASSUME TypedInv, IntroduceOne
  PROVE  TypedInv'
<1>1. calls # <<>> /\ Current.at = "introduce" /\ problem' = problem /\ verdict' = verdict /\ memo' = memo
  BY DEF IntroduceOne, Reached, counters
<1>2. ~problem.many /\ problem \in Problems
  BY <1>1, Hands DEF OnePlaces
<1>3. CASE ~IsArrow(Current.goal)
  <2>1. Becomes([Current EXCEPT !.at = "focus"]) /\ considered' = considered
    BY <1>3 DEF IntroduceOne
  <2> QED BY <1>1, <1>2, <2>1, MovesOn
<1>4. CASE IsArrow(Current.goal)
  <2> DEFINE g == [Current EXCEPT !.at = "body"]
             from == Current.goal.from
             known == Current.known \o Introduced(<<Head(from)>>, Current)
             goal == Arrow(Tail(from), Current.goal.to)
             depth == Current.depth + 1
  <2>1. \/ considered' = considered + 1 /\ Descends(g, known, goal, depth)
        \/ considered' = considered /\ Return(<<>>)
    BY <1>4 DEF IntroduceOne, Charge, Refuse
  <2>2. CASE considered' = considered /\ Return(<<>>)
    BY <1>1, <2>2, ReturnsNothing
  <2>3. CASE considered' = considered + 1 /\ Descends(g, known, goal, depth)
    <3>1. /\ IsFrame(g) /\ SameGoal(Current, g) /\ g.at = "body"
          /\ g.actions = Current.actions /\ g.found = Current.found
      BY <1>1, Hands DEF IsFrame, SameGoal
    <3>2. Descends(g, known, goal, depth)
      BY <2>3
    <3> HIDE DEF g
    <3>3. Opens(g) = 1
      BY <3>1 DEF Opens
    <3>4. from \in Seq(Types) /\ from # <<>>
      BY <1>1, <1>2, <1>4, Hands, StandsIs DEF IsArrow
    <3>5. /\ Len(from) \in Nat /\ Len(from) >= 1
          /\ SubSeq(from, 1, 1) = <<Head(from)>> /\ Tail(from) = SubSeq(from, 2, Len(from))
      BY <3>4, FirstAndRest DEF Sequence
    <3>6. 1 \in 1..Len(from) /\ 1 + 1 = 2
      BY <3>5
    <3>7. known = Current.known \o Introduced(SubSeq(from, 1, Opens(g)), Current)
          /\ goal = Arrow(SubSeq(from, Opens(g) + 1, Len(from)), Current.goal.to)
          /\ depth = Current.depth + Opens(g) /\ Opens(g) \in 1..Len(from)
      BY <3>3, <3>5, <3>6
    <3>8. Current.at \notin Waiting
      BY <1>1 DEF Waiting
    <3> HIDE DEF known, goal, depth
    <3> QED BY <1>1, <1>2, <2>3, <3>1, <3>2, <3>7, <3>8, OpensUp
  <2> QED BY <2>1, <2>2, <2>3
<1> QED BY <1>3, <1>4

LEMMA TypedBodyOne ==
  ASSUME TypedInv, BodyOne
  PROVE  TypedInv'
<1>1. /\ calls # <<>> /\ Current.at = "body" /\ problem' = problem /\ verdict' = verdict /\ considered' = considered
  BY DEF BodyOne, Reached, counters
<1>2. ~problem.many /\ problem \in Problems /\ Height \in Nat /\ Stands(problem, Current)
  BY <1>1, Hands DEF OnePlaces
<1>3. CASE returned # <<>>
  <2> DEFINE term == Lambda(1, returned[1])
  <2>1. Remember(Current, <<term>>) /\ Return(<<term>>)
    BY <1>3 DEF BodyOne
  <2>2. AllShow(problem, Height, returned, OpenedBy(Current))
    BY <1>1, AtHand DEF Waiting, Awaits
  <2>3. Shows(problem, Height, returned[1], OpenedBy(Current))
    <3>1. Sequence(returned)
      BY <2>2 DEF AllShow
    <3>2. 1 \in 1..Len(returned)
      BY <1>3, <3>1, Popped
    <3> QED BY <2>2, <3>2 DEF AllShow
  <2>4. Opens(Current) = 1
    BY <1>1 DEF Opens
  <2>5. Shows(problem, Height, term, SequentOf(Current))
    BY <1>1, <1>2, <2>3, <2>4, OpensIs
  <2> HIDE DEF term
  <2>6. AllShow(problem, Height, <<term>>, SequentOf(Current))
    BY <2>5, OneTerm
  <2>7. AllShow(problem, Height + 1, <<term>>, SequentOf(Current))
    <3>1. PICK m \in Nat, h \in Nat : h = Height /\ m = Height + 1 /\ h <= m
      BY <1>2
    <3>2. AllShow(problem, h, <<term>>, SequentOf(Current))
      BY <2>6, <3>1
    <3>3. AllShow(problem, m, <<term>>, SequentOf(Current))
      BY <3>1, <3>2, AllHigher, Zenon
    <3> QED BY <3>1, <3>3
  <2>8. Current.at \in Waiting
    BY <1>1 DEF Waiting
  <2> QED BY <1>1, <2>1, <2>7, <2>8, ReturnsTerms
<1>4. CASE returned = <<>>
  <2>1. memo' = memo /\ (Return(<<>>) \/ Becomes([Current EXCEPT !.at = "focus"]))
    BY <1>4 DEF BodyOne
  <2>2. CASE Return(<<>>)
    BY <1>1, <2>1, <2>2, ReturnsNothing
  <2>3. CASE Becomes([Current EXCEPT !.at = "focus"])
    BY <1>1, <1>2, <2>1, <2>3, MovesOn
  <2> QED BY <2>1, <2>2, <2>3
<1> QED BY <1>3, <1>4

LEMMA TypedFocus ==
  ASSUME TypedInv, Focus
  PROVE  TypedInv'
<1>1. /\ calls # <<>> /\ Current.at = "focus" /\ problem' = problem /\ verdict' = verdict
      /\ considered' = considered /\ memo' = memo
  BY DEF Focus, Reached, counters
<1>2. ~problem.many /\ problem \in Problems /\ SequentIs(problem, SequentOf(Current))
  BY <1>1, Hands DEF OnePlaces
<1>3. PICK order \in Orders(Applicable(Current), Current.known) : Becomes([Current EXCEPT !.at = "try", !.actions = order])
  BY DEF Focus
<1>4. /\ IsFiniteSet(Applicable(Current))
      /\ \A a \in Applicable(Current) : FitsGoal(problem, SequentOf(Current), a) /\ a.domains # <<>>
  BY <1>2, Appliable
<1>5. order \in Seq(Applicable(Current))
  BY <1>4, OrdersAre
<1> DEFINE g == [Current EXCEPT !.at = "try", !.actions = order]
<1>6. Becomes(g)
  BY <1>3
<1>7. IsFrame(g) /\ SameGoal(Current, g) /\ g.at = "try" /\ g.actions = order /\ g.found = Current.found
  BY <1>1, Hands DEF IsFrame, SameGoal
<1> HIDE DEF g
<1>8. ActionsFit(problem, g)
  <2>1. SequentOf(g) = SequentOf(Current)
    BY <1>7 DEF SameGoal, SequentOf
  <2>2. g.at # "exacts"
    BY <1>7
  <2> QED BY <1>4, <1>5, <1>7, <2>1, <2>2, NewActions
<1>9. \A n \in Nat : Height <= n => FoundShow(problem, n, g)
  BY <1>1, <1>7, FoundStays
<1>10. g.at \in (IF problem.many THEN ManyPlaces ELSE OnePlaces) \ Waiting
  BY <1>2, <1>7 DEF OnePlaces, Waiting
<1> QED BY <1>1, <1>6, <1>7, <1>8, <1>9, <1>10, GoesOn

-----------------------------------------------------------------------------
(* Arguments, one after the other.                                          *)

\* A frame that asks for an argument of the action at hand.
LEMMA AsksFor ==
  ASSUME TypedInv, calls # <<>>, NEW g, IsFrame(g), SameGoal(Current, g), g.actions = Current.actions, g.found = Current.found,
         g.at = (IF problem.many THEN "arguments" ELSE "argument"), Current.at \in Taking, ArgsShow(problem, Height, g),
         Descends(g, Current.known, Current.actions[1].domains[Len(g.args) + 1], Current.depth),
         problem' = problem, verdict' = verdict, memo' = memo,
         considered' = (IF Current.at \in Waiting THEN considered ELSE considered + 1)
  PROVE  TypedInv'
<1>1. g.at \in {"argument", "arguments"} /\ g.at \in Waiting /\ g.at \in Taking /\ g.at \notin {"exacts", "body", "bodies"}
      /\ g.at \in (IF problem.many THEN ManyPlaces ELSE OnePlaces)
  BY DEF Waiting, Taking, ManyPlaces, OnePlaces
<1>2. SequentOf(g) = SequentOf(Current)
  BY DEF SameGoal, SequentOf
<1>3. ActionsFit(problem, g)
  <2>1. ActionsFit(problem, Current)
    BY Hands
  <2>2. Sequence(g.actions)
    BY <2>1 DEF ActionsFit
  <2> QED BY <1>1, <2>1, <2>2, ActionsGo
<1>4. FoundShow(problem, Height, g)
  <2> DEFINE n == Height
  <2>1. n \in Nat /\ Height <= n
    BY Hands
  <2> HIDE DEF n
  <2>2. FoundShow(problem, n, g)
    BY <2>1, FoundStays
  <2> QED BY <2>2 DEF n
<1>5. Stands(problem, g)
  <2>1. SequentIs(problem, SequentOf(g))
    BY <1>2, Hands
  <2> QED BY <1>1, <2>1 DEF Stands
<1>6. FrameIs(problem, Height, g)
  BY <1>3, <1>4, <1>5 DEF FrameIs
<1>7. Awaits(g) = [known |-> Current.known, goal |-> Current.actions[1].domains[Len(g.args) + 1], depth |-> Current.depth]
  <2>1. Awaits(g) = AskedBy(g)
    BY <1>1 DEF Awaits
  <2> QED BY <2>1 DEF AskedBy, SameGoal
<1> QED BY <1>1, <1>2, <1>6, <1>7, TypedDescends

\* A frame that gives up the action at hand.
LEMMA GivesUp ==
  ASSUME TypedInv, calls # <<>>, NEW g, IsFrame(g), SameGoal(Current, g), Current.actions # <<>>,
         g.actions = Tail(Current.actions), Current.at \in Taking, g.at = (IF problem.many THEN "many" ELSE "try")
  PROVE  ActionsFit(problem, g) /\ g.at \in (IF problem.many THEN ManyPlaces ELSE OnePlaces) \ Waiting
<1>1. /\ g.at \in (IF problem.many THEN ManyPlaces ELSE OnePlaces) \ Waiting
      /\ g.at # "exacts"
  BY DEF ManyPlaces, OnePlaces, Waiting
<1>2. ActionsFit(problem, Current)
  BY Hands
<1>3. Sequence(Current.actions)
  BY <1>2 DEF ActionsFit
<1>4. Sequence(g.actions) /\ \A k \in 1..Len(g.actions) : \E j \in 1..Len(Current.actions) : g.actions[k] = Current.actions[j]
  BY <1>3, FirstAndRest
<1> QED BY <1>1, <1>2, <1>4, ActionsGo

LEMMA TypedTryOne ==
  ASSUME TypedInv, TryOne
  PROVE  TypedInv'
<1>1. calls # <<>> /\ Current.at = "try" /\ problem' = problem /\ verdict' = verdict
  BY DEF TryOne, Reached, counters
<1>2. ~problem.many /\ problem \in Problems /\ Height \in Nat /\ ActionsFit(problem, Current)
  BY <1>1, Hands DEF OnePlaces
<1>3. CASE Current.actions = <<>>
  <2>1. considered' = considered /\ Return(<<>>) /\ Fails(Current)
    BY <1>3 DEF TryOne
  <2>2. memo' = memo \/ Remember(Current, <<>>)
    BY <2>1 DEF Fails
  <2> QED BY <1>1, <2>1, <2>2, ReturnsNothing
<1>4. CASE Current.actions # <<>>
  <2> DEFINE g == [Current EXCEPT !.at = "argument", !.args = <<>>, !.mark = Len(decided)]
  <2>1. /\ memo' = memo
        /\ \/ considered' = considered + 1 /\ Descends(g, Current.known, Head(Current.actions).domains[1], Current.depth)
           \/ considered' = considered /\ Return(<<>>)
    BY <1>4 DEF TryOne, Charge, Refuse
  <2>2. CASE considered' = considered /\ Return(<<>>)
    BY <1>1, <2>1, <2>2, ReturnsNothing
  <2>3. CASE considered' = considered + 1 /\ Descends(g, Current.known, Head(Current.actions).domains[1], Current.depth)
    <3>1. /\ IsFrame(g) /\ SameGoal(Current, g) /\ g.at = "argument" /\ g.args = <<>>
          /\ g.actions = Current.actions /\ g.found = Current.found
      BY <1>1, Hands DEF IsFrame, SameGoal
    <3>2. Descends(g, Current.known, Head(Current.actions).domains[1], Current.depth)
      BY <2>3
    <3> HIDE DEF g
    <3>3. Sequence(Current.actions)
      BY <1>2 DEF ActionsFit
    <3>4. Head(Current.actions) = Current.actions[1] /\ 1 \in 1..Len(Current.actions)
      BY <1>4, <3>3, FirstAndRest
    <3>5. Current.actions[1].domains \in Seq(Types) /\ Current.actions[1].domains # <<>>
      BY <1>1, <1>2, <3>4 DEF ActionsFit, FitsGoal
    <3>6. <<>> \in Seq({}) /\ Len(<<>>) = 0
      OBVIOUS
    <3>7. Sequence(g.args) /\ Len(g.args) = 0 /\ Len(g.args) + 1 = 1
      BY <3>1, <3>6 DEF Sequence
    <3>8. ArgsShow(problem, Height, g)
      <4> DEFINE d == Current.actions[1].domains
      <4>1. d \in Seq(Types) /\ d # <<>>
        BY <3>5
      <4> HIDE DEF d
      <4>2. 0 < Len(d)
        BY <4>1
      <4>3. g.actions[1].domains = d /\ g.actions # <<>>
        BY <1>4, <3>1 DEF d
      <4> QED BY <3>1, <3>7, <4>2, <4>3 DEF ArgsShow
    <3>9. Current.at \in Taking /\ Current.at \notin Waiting
      BY <1>1 DEF Taking, Waiting
    <3>10. Descends(g, Current.known, Current.actions[1].domains[Len(g.args) + 1], Current.depth)
      BY <3>2, <3>4, <3>7
    <3> QED BY <1>1, <1>2, <2>1, <2>3, <3>1, <3>8, <3>9, <3>10, AsksFor
  <2> QED BY <2>1, <2>2, <2>3
<1> QED BY <1>3, <1>4

\* The arguments with the one that was found last.
LEMMA Argued ==
  ASSUME TypedInv, calls # <<>>, Current.at = "argument", returned # <<>>,
         NEW args, args = Current.args \o returned
  PROVE  /\ Sequence(args) /\ Len(args) = Len(Current.args) + 1 /\ Len(Current.args) \in Nat
         /\ \A k \in 1..Len(Current.args) : args[k] = Current.args[k]
         /\ args[Len(Current.args) + 1] = returned[1]
         /\ \A k \in 1..Len(args) : ArgShows(problem, Height, args[k], Current, Current.actions[1].domains[k])
<1> DEFINE f == Current
<1>1. ~problem.many /\ ArgsShow(problem, Height, f) /\ AllShow(problem, Height, returned, AskedBy(f))
  BY Hands, AtHand DEF FrameIs, Waiting, Awaits, OnePlaces
<1>2. /\ Sequence(f.args) /\ Sequence(returned)
      /\ \A k \in 1..Len(f.args) : ArgShows(problem, Height, f.args[k], f, f.actions[1].domains[k])
  BY <1>1 DEF ArgsShow, AllShow
<1>3. Len(returned) = 1
  <2>1. Len(returned) <= 1
    BY <1>1 DEF AllShow
  <2>2. Len(returned) \in Nat /\ Len(returned) >= 1
    BY <1>2, Popped
  <2>3. \A l \in Nat : l <= 1 /\ l >= 1 => l = 1
    OBVIOUS
  <2> QED BY <2>1, <2>2, <2>3, Zenon
<1>4. ArgShows(problem, Height, returned[1], f, f.actions[1].domains[Len(f.args) + 1])
  <2>1. Shows(problem, Height, returned[1], AskedBy(f))
    BY <1>1, <1>3 DEF AllShow
  <2>2. AskedBy(f).known = f.known /\ AskedBy(f).goal = f.actions[1].domains[Len(f.args) + 1]
    BY DEF AskedBy
  <2> QED BY <2>1, <2>2 DEF Shows, ArgShows
<1> DEFINE a == f.args
           n == Len(a)
<1>5. PICK S, T : a \in Seq(S) /\ returned \in Seq(T)
  BY <1>2 DEF Sequence
<1>6. a \in Seq(S \cup T) /\ returned \in Seq(S \cup T) /\ n \in Nat
  <2> HIDE DEF a
  <2> QED BY <1>5
<1> HIDE DEF a
<1>7. /\ args \in Seq(S \cup T) /\ Len(args) = n + 1
      /\ \A k \in 1..(n + 1) : args[k] = IF k <= n THEN a[k] ELSE returned[k - n]
  <2>1. args = a \o returned
    BY DEF a
  <2>2. /\ a \o returned \in Seq(S \cup T) /\ Len(a \o returned) = Len(a) + Len(returned)
        /\ \A k \in 1..(Len(a) + Len(returned)) : (a \o returned)[k] = IF k <= Len(a) THEN a[k] ELSE returned[k - Len(a)]
    BY <1>6, ConcatProperties
  <2> HIDE DEF f
  <2> QED BY <1>3, <1>6, <2>1, <2>2
<1>8. \A k \in 1..n : args[k] = a[k]
  BY <1>6, <1>7
<1>9. args[n + 1] = returned[1]
  <2>1. n + 1 \in 1..(n + 1) /\ ~(n + 1 <= n) /\ (n + 1) - n = 1
    BY <1>6
  <2> QED BY <1>7, <2>1
<1>10. ASSUME NEW k \in 1..Len(args) PROVE ArgShows(problem, Height, args[k], f, f.actions[1].domains[k])
  <2> HIDE DEF f
  <2>1. CASE k \in 1..n
    BY <1>2, <1>8, <2>1 DEF a
  <2>2. CASE k = n + 1
    BY <1>4, <1>9, <2>2 DEF a
  <2>3. k \in 1..n \/ k = n + 1
    BY <1>6, <1>7
  <2> QED BY <2>1, <2>2, <2>3, Zenon
<1> QED BY <1>6, <1>7, <1>8, <1>9, <1>10 DEF Sequence, a

LEMMA TypedArgumentOne ==
  ASSUME TypedInv, ArgumentOne
  PROVE  TypedInv'
<1> DEFINE f == Current
           action == Head(f.actions)
           args == f.args \o returned
           term == Applied(HeadAt(action.assumption, f.depth), args)
<1>1. /\ calls # <<>> /\ f.at = "argument" /\ problem' = problem /\ verdict' = verdict /\ considered' = considered
  BY DEF ArgumentOne, Reached
<1>2. ~problem.many /\ problem \in Problems /\ Height \in Nat /\ SequentIs(problem, SequentOf(f)) /\ ActionsFit(problem, f)
  BY <1>1, Hands DEF OnePlaces
<1>3. ArgsShow(problem, Height, f) /\ AllShow(problem, Height, returned, AskedBy(f)) /\ f.at \in Waiting /\ f.at \in Taking
  BY <1>1, AtHand DEF FrameIs, Waiting, Awaits, Taking
<1>4. /\ f.actions # <<>> /\ Sequence(f.actions) /\ Sequence(f.args) /\ Sequence(returned)
      /\ \A k \in 1..Len(f.args) : ArgShows(problem, Height, f.args[k], f, f.actions[1].domains[k])
  BY <1>1, <1>2, <1>3 DEF ArgsShow, ActionsFit, AllShow
<1>5. action = f.actions[1] /\ 1 \in 1..Len(f.actions)
  BY <1>4, FirstAndRest
<1>6. CASE /\ returned = <<>> /\ memo' = memo
           /\ Return(<<>>) \/ Becomes([f EXCEPT !.at = "try", !.actions = Tail(@), !.failed = @ \cup {action}])
  <2>1. CASE Return(<<>>)
    BY <1>1, <1>6, <2>1, ReturnsNothing
  <2>2. CASE Becomes([f EXCEPT !.at = "try", !.actions = Tail(@), !.failed = @ \cup {action}])
    <3> DEFINE g == [f EXCEPT !.at = "try", !.actions = Tail(@), !.failed = @ \cup {action}]
    <3>1. /\ IsFrame(g) /\ SameGoal(f, g) /\ g.at = "try" /\ g.actions = Tail(f.actions) /\ g.found = f.found
      BY <1>1, Hands DEF IsFrame, SameGoal
    <3>2. Becomes(g)
      BY <2>2
    <3> HIDE DEF g
    <3>3. ActionsFit(problem, g) /\ g.at \in (IF problem.many THEN ManyPlaces ELSE OnePlaces) \ Waiting
      BY <1>1, <1>2, <1>3, <1>4, <3>1, GivesUp
    <3>4. \A n \in Nat : Height <= n => FoundShow(problem, n, g)
      BY <1>1, <3>1, FoundStays
    <3> QED BY <1>1, <1>6, <3>1, <3>2, <3>3, <3>4, GoesOn
  <2> QED BY <1>6, <2>1, <2>2
<1>e. ASSUME returned # <<>>
      PROVE  /\ Sequence(args) /\ Len(args) \in Nat
             /\ \A k \in 1..Len(args) : ArgShows(problem, Height, args[k], f, f.actions[1].domains[k])
  BY <1>1, <1>e, Argued, RangeIs
<1>7. CASE /\ returned # <<>> /\ Len(args) < Len(action.domains) /\ memo' = memo
           /\ Descends([f EXCEPT !.args = args], f.known, action.domains[Len(args) + 1], f.depth)
  <2> HIDE DEF args
  <2> DEFINE g == [f EXCEPT !.args = args]
  <2>1. /\ IsFrame(g) /\ SameGoal(f, g) /\ g.at = "argument" /\ g.args = args
        /\ g.actions = f.actions /\ g.found = f.found
    BY <1>1, Hands DEF IsFrame, SameGoal
  <2>2. Descends(g, f.known, f.actions[1].domains[Len(args) + 1], f.depth)
    BY <1>5, <1>7
  <2> HIDE DEF g
  <2>3. ArgsShow(problem, Height, g)
    <3>1. \A k \in 1..Len(args) : ArgShows(problem, Height, args[k], g, f.actions[1].domains[k])
      BY <1>e, <1>7, <2>1 DEF ArgShows, SameGoal
    <3> HIDE DEF f
    <3> QED BY <1>4, <1>5, <1>e, <1>7, <2>1, <3>1 DEF ArgsShow
  <2>4. Descends(g, f.known, f.actions[1].domains[Len(g.args) + 1], f.depth)
    BY <2>1, <2>2
  <2> QED BY <1>1, <1>2, <1>3, <1>7, <2>1, <2>3, <2>4, AsksFor
<1>8. CASE returned # <<>> /\ Len(args) = Len(action.domains) /\ Remember(f, <<term>>) /\ Return(<<term>>)
  <2>0. returned # <<>> /\ Len(args) = Len(f.actions[1].domains) /\ term = Applied(HeadAt(f.actions[1].assumption, f.depth), args)
    BY <1>5, <1>8
  <2> HIDE DEF args, term, action
  <2>1. FitsGoal(problem, SequentOf(f), f.actions[1])
    BY <1>2, <1>5 DEF ActionsFit
  <2> DEFINE s == SequentOf(f)
             a == f.actions[1]
             n == Height
  <2>2. \A k \in 1..Len(args) : HasType(problem, n, args[k], a.domains[k], LocalTypes(problem, s.known))
    BY <1>e, <2>0, SequentParts DEF ArgShows
  <2>3. SequentIs(problem, s) /\ FitsGoal(problem, s, a) /\ n \in Nat /\ Sequence(args) /\ Len(args) = Len(a.domains)
        /\ problem \in Problems /\ term = Applied(HeadAt(a.assumption, s.depth), args)
    BY <1>2, <1>e, <2>0, <2>1, SequentParts
  <2> HIDE DEF s, a, n
  <2>4. Shows(problem, n + 1, Applied(HeadAt(a.assumption, s.depth), args), s)
    BY <2>2, <2>3, TakesAction, Zenon
  <2>5. Shows(problem, Height + 1, term, SequentOf(f))
    BY <2>3, <2>4 DEF s, n
  <2>6. AllShow(problem, Height + 1, <<term>>, SequentOf(f))
    BY <2>5, OneTerm
  <2> QED BY <1>1, <1>3, <1>8, <2>6, ReturnsTerms
<1> QED
  <2>1. \/ /\ returned = <<>> /\ memo' = memo
           /\ Return(<<>>) \/ Becomes([f EXCEPT !.at = "try", !.actions = Tail(@), !.failed = @ \cup {action}])
        \/ /\ returned # <<>> /\ Len(args) < Len(action.domains) /\ memo' = memo
           /\ Descends([f EXCEPT !.args = args], f.known, action.domains[Len(args) + 1], f.depth)
        \/ returned # <<>> /\ Len(args) = Len(action.domains) /\ Remember(f, <<term>>) /\ Return(<<term>>)
    BY DEF ArgumentOne
  <2> QED BY <1>6, <1>7, <1>8, <2>1, Zenon

-----------------------------------------------------------------------------
(* All the terms of a goal.                                                 *)

LEMMA RetainedShow ==
  ASSUME NEW p, NEW n, NEW s, NEW found, NEW terms, Sequence(found), Sequence(terms),
         \A k \in 1..Len(found) : Shows(p, n, found[k], s), \A k \in 1..Len(terms) : Shows(p, n, terms[k], s)
  PROVE  Sequence(Retain(found, terms)) /\ \A k \in 1..Len(Retain(found, terms)) : Shows(p, n, Retain(found, terms)[k], s)
<1> DEFINE kept == Retain(found, terms)
<1>1. Sequence(kept) /\ Range(kept) \subseteq Range(found) \cup Range(terms)
  BY Retains
<1> HIDE DEF kept
<1>2. ASSUME NEW k \in 1..Len(kept) PROVE Shows(p, n, kept[k], s)
  <2>1. kept[k] \in Range(found) \cup Range(terms)
    BY <1>1, RangeIs
  <2>2. CASE kept[k] \in Range(found)
    <3>1. PICK j \in 1..Len(found) : kept[k] = found[j]
      BY <2>2, RangeIs
    <3> QED BY <3>1
  <2>3. CASE kept[k] \in Range(terms)
    <3>1. PICK j \in 1..Len(terms) : kept[k] = terms[j]
      BY <2>3, RangeIs
    <3> QED BY <3>1
  <2> QED BY <2>1, <2>2, <2>3
<1> QED BY <1>1, <1>2 DEF kept

\* Terms that are there already are returned.
LEMMA ReturnsFound ==
  ASSUME TypedInv, calls # <<>>, NEW terms, Return(terms), problem' = problem, verdict' = verdict,
         considered' \in {considered, considered + 1},
         memo' = memo \/ Remember(Current, terms),
         AllShow(problem, Height, terms, SequentOf(Current))
  PROVE  TypedInv'
<1>1. PICK n \in Nat : Rises(n)
  BY Rising
<1>2. AllShow(problem, n, terms, SequentOf(Current))
  <2>1. PICK h \in Nat : h = Height /\ h <= n
    BY <1>1 DEF TypedInv, Rises
  <2>2. AllShow(problem, h, terms, SequentOf(Current))
    BY <2>1
  <2> QED BY <2>1, <2>2, AllHigher, Zenon
<1>3. MemoIs(problem, n, memo)
  BY <1>1, SameBelow DEF Rises
<1>4. MemoIs(problem, n, memo')
  BY <1>2, <1>3, Remembers
<1> QED BY <1>1, <1>2, <1>4, TypedReturns

LEMMA TypedIntroduceMany ==
  ASSUME TypedInv, IntroduceMany
  PROVE  TypedInv'
<1>1. calls # <<>> /\ Current.at = "arrow" /\ problem' = problem /\ verdict' = verdict /\ memo' = memo
  BY DEF IntroduceMany, Reached, counters
<1>2. problem.many /\ problem \in Problems /\ SequentIs(problem, SequentOf(Current))
  BY <1>1, Hands DEF ManyPlaces
<1>3. CASE ~IsArrow(Current.goal)
  <2>1. PICK order \in Orders(ExactMany, Current.known) : Becomes([Current EXCEPT !.at = "exacts", !.actions = order])
    BY <1>3 DEF IntroduceMany
  <2>2. considered' = considered
    BY <1>3 DEF IntroduceMany
  <2>3. /\ IsFiniteSet(ExactMany)
        /\ \A a \in ExactMany : FitsGoal(problem, SequentOf(Current), a) /\ a.domains = <<>>
    BY <1>2, Exactly
  <2>4. order \in Seq(ExactMany)
    BY <2>3, OrdersAre
  <2> DEFINE g == [Current EXCEPT !.at = "exacts", !.actions = order]
  <2>5. Becomes(g)
    BY <2>1
  <2>6. IsFrame(g) /\ SameGoal(Current, g) /\ g.at = "exacts" /\ g.actions = order /\ g.found = Current.found
    BY <1>1, Hands DEF IsFrame, SameGoal
  <2> HIDE DEF g
  <2>7. ActionsFit(problem, g)
    <3>1. SequentOf(g) = SequentOf(Current)
      BY <2>6 DEF SameGoal, SequentOf
    <3>2. g.at \notin Taking
      BY <2>6 DEF Taking
    <3> QED BY <2>3, <2>4, <2>6, <3>1, <3>2, NewActions
  <2>8. \A n \in Nat : Height <= n => FoundShow(problem, n, g)
    BY <1>1, <2>6, FoundStays
  <2>9. g.at \in (IF problem.many THEN ManyPlaces ELSE OnePlaces) \ Waiting
    BY <1>2, <2>6 DEF ManyPlaces, Waiting
  <2> QED BY <1>1, <2>2, <2>5, <2>6, <2>7, <2>8, <2>9, GoesOn
<1>4. CASE IsArrow(Current.goal)
  <2> DEFINE from == Current.goal.from
             n == IF problem.batch THEN Len(from) ELSE 1
             g == [Current EXCEPT !.at = "bodies", !.mark = n]
             known == Current.known \o Introduced(SubSeq(from, 1, n), Current)
             goal == Arrow(SubSeq(from, n + 1, Len(from)), Current.goal.to)
             depth == Current.depth + n
  <2>1. \/ considered' = considered + 1 /\ Descends(g, known, goal, depth)
        \/ considered' = considered /\ Return(<<>>)
    BY <1>4 DEF IntroduceMany, Charge, Refuse
  <2>2. CASE considered' = considered /\ Return(<<>>)
    BY <1>1, <2>2, ReturnsNothing
  <2>3. CASE considered' = considered + 1 /\ Descends(g, known, goal, depth)
    <3>1. from \in Seq(Types) /\ from # <<>>
      BY <1>1, <1>2, <1>4, Hands, StandsIs DEF IsArrow
    <3>2. n \in 1..Len(from)
      <4> HIDE DEF from
      <4>1. Len(from) \in Nat /\ Len(from) >= 1
        BY <3>1
      <4> QED BY <4>1
    <3> HIDE DEF n
    <3>3. /\ IsFrame(g) /\ SameGoal(Current, g) /\ g.at = "bodies" /\ g.mark = n
          /\ g.actions = Current.actions /\ g.found = Current.found
      BY <1>1, Hands DEF IsFrame, SameGoal
    <3>4. Descends(g, known, goal, depth)
      BY <2>3
    <3> HIDE DEF g
    <3>5. Opens(g) = n
      BY <3>3 DEF Opens
    <3>7. known = Current.known \o Introduced(SubSeq(from, 1, Opens(g)), Current)
          /\ goal = Arrow(SubSeq(from, Opens(g) + 1, Len(from)), Current.goal.to)
          /\ depth = Current.depth + Opens(g) /\ Opens(g) \in 1..Len(from)
      BY <3>2, <3>5
    <3>8. Current.at \notin Waiting
      BY <1>1 DEF Waiting
    <3> HIDE DEF known, goal, depth
    <3> QED BY <1>1, <1>2, <2>3, <3>3, <3>4, <3>7, <3>8, OpensUp
  <2> QED BY <2>1, <2>2, <2>3
<1> QED BY <1>3, <1>4

LEMMA TypedBodiesMany ==
  ASSUME TypedInv, BodiesMany
  PROVE  TypedInv'
<1> DEFINE terms == [k \in DOMAIN returned |-> Lambda(Current.mark, returned[k])]
           answer == Retain(<<>>, terms)
           s == SequentOf(Current)
<1>1. /\ calls # <<>> /\ Current.at = "bodies" /\ problem' = problem /\ verdict' = verdict /\ considered' = considered
      /\ Answers(Current, answer)
  BY DEF BodiesMany, Reached, counters
<1>2. problem.many /\ problem \in Problems /\ Height \in Nat /\ Stands(problem, Current)
  BY <1>1, Hands DEF ManyPlaces
<1>3. AllShow(problem, Height, returned, OpenedBy(Current))
  BY <1>1, AtHand DEF Waiting, Awaits
<1>4. Sequence(returned) /\ \A k \in 1..Len(returned) : Shows(problem, Height, returned[k], OpenedBy(Current))
  BY <1>3 DEF AllShow
<1>5. Len(returned) \in Nat /\ DOMAIN returned = 1..Len(returned)
  BY <1>4, RangeIs
<1>6. Sequence(terms) /\ Len(terms) = Len(returned) /\ \A k \in 1..Len(terms) : terms[k] = Lambda(Current.mark, returned[k])
  <2> DEFINE T == {Lambda(Current.mark, returned[k]) : k \in 1..Len(returned)}
  <2>1. terms = [k \in 1..Len(returned) |-> Lambda(Current.mark, returned[k])]
    BY <1>5
  <2> HIDE DEF terms
  <2>2. \A k \in 1..Len(returned) : terms[k] \in T /\ terms[k] = Lambda(Current.mark, returned[k])
    BY <2>1
  <2> HIDE DEF T
  <2>3. DOMAIN terms = 1..Len(returned) /\ terms \in [1..Len(returned) -> T]
    BY <2>1, <2>2
  <2>4. terms \in Seq(T) /\ Len(terms) = Len(returned)
    BY <1>5, <2>3
  <2> QED BY <2>2, <2>4 DEF Sequence
<1> HIDE DEF terms
<1>7. Opens(Current) = Current.mark
  BY <1>1 DEF Opens
<1>8. \A k \in 1..Len(terms) : Shows(problem, Height, terms[k], s)
  <2> TAKE k \in 1..Len(terms)
  <2>1. terms[k] = Lambda(Opens(Current), returned[k]) /\ Shows(problem, Height, returned[k], OpenedBy(Current))
    BY <1>4, <1>6, <1>7
  <2>2. Shows(problem, Height, Lambda(Opens(Current), returned[k]), s)
    BY <1>1, <1>2, <2>1, OpensIs
  <2> QED BY <2>1, <2>2
<1>9. AllShow(problem, Height, answer, s)
  <2>1. <<>> \in Seq({}) /\ Len(<<>>) = 0
    OBVIOUS
  <2>2. Sequence(<<>>)
    BY <2>1 DEF Sequence
  <2>3. \A k \in 1..Len(<<>>) : Shows(problem, Height, <<>>[k], s)
    BY <2>1
  <2> HIDE DEF s
  <2>4. Sequence(answer) /\ \A k \in 1..Len(answer) : Shows(problem, Height, answer[k], s)
    BY <1>6, <1>8, <2>2, <2>3, RetainedShow, Zenon
  <2> QED BY <1>2, <2>4 DEF AllShow
<1>10. Return(answer) /\ (memo' = memo \/ Remember(Current, answer))
  BY <1>1 DEF Answers
<1> HIDE DEF answer
<1> QED BY <1>1, <1>9, <1>10, ReturnsFound

\* A frame that goes on to the assumptions that end in its goal.
LEMMA GoesOnward ==
  ASSUME TypedInv, calls # <<>>, Current.at = "exacts", NEW order \in Orders(Applicable(Current), Current.known),
         Becomes([Current EXCEPT !.at = "many", !.actions = order]),
         problem' = problem, verdict' = verdict, memo' = memo, considered' = considered
  PROVE  TypedInv'
<1>1. problem.many /\ problem \in Problems /\ SequentIs(problem, SequentOf(Current))
  BY Hands DEF ManyPlaces
<1>2. /\ IsFiniteSet(Applicable(Current))
      /\ \A a \in Applicable(Current) : FitsGoal(problem, SequentOf(Current), a) /\ a.domains # <<>>
  BY <1>1, Appliable
<1>3. order \in Seq(Applicable(Current))
  BY <1>2, OrdersAre
<1> DEFINE g == [Current EXCEPT !.at = "many", !.actions = order]
<1>4. Becomes(g)
  OBVIOUS
<1>5. IsFrame(g) /\ SameGoal(Current, g) /\ g.at = "many" /\ g.actions = order /\ g.found = Current.found
  BY Hands DEF IsFrame, SameGoal
<1> HIDE DEF g
<1>6. ActionsFit(problem, g)
  <2>1. SequentOf(g) = SequentOf(Current)
    BY <1>5 DEF SameGoal, SequentOf
  <2>2. g.at # "exacts"
    BY <1>5
  <2> QED BY <1>2, <1>3, <1>5, <2>1, <2>2, NewActions
<1>7. \A n \in Nat : Height <= n => FoundShow(problem, n, g)
  BY <1>5, FoundStays
<1>8. g.at \in (IF problem.many THEN ManyPlaces ELSE OnePlaces) \ Waiting
  BY <1>1, <1>5 DEF ManyPlaces, Waiting
<1>9. considered' \in {considered, considered + 1}
  OBVIOUS
<1> QED BY <1>4, <1>5, <1>6, <1>7, <1>8, <1>9, GoesOn

LEMMA TypedExactsMany ==
  ASSUME TypedInv, ExactsMany
  PROVE  TypedInv'
<1> DEFINE f == Current
           a == Head(f.actions).assumption
           term == Applied(HeadAt(a, f.depth), <<>>)
<1>1. calls # <<>> /\ f.at = "exacts" /\ problem' = problem /\ verdict' = verdict /\ memo' = memo
  BY DEF ExactsMany, Reached, counters
<1>2. /\ problem.many /\ problem \in Problems /\ SequentIs(problem, SequentOf(f)) /\ Height \in Nat
      /\ ActionsFit(problem, f)
  BY <1>1, Hands DEF ManyPlaces
<1>3. CASE /\ considered' = considered
           /\ \E order \in Orders(Applicable(f), f.known) : Becomes([f EXCEPT !.at = "many", !.actions = order])
  BY <1>1, <1>3, GoesOnward
<1>4. CASE /\ f.actions # <<>> /\ considered' = considered + 1
           /\ Becomes([f EXCEPT !.actions = Tail(@), !.found = Retain(@, <<term>>)])
  <2>1. Sequence(f.actions)
    BY <1>2 DEF ActionsFit
  <2>2. /\ Head(f.actions) = f.actions[1] /\ 1 \in 1..Len(f.actions)
        /\ Sequence(Tail(f.actions)) /\ \A k \in 1..Len(Tail(f.actions)) : \E j \in 1..Len(f.actions) : Tail(f.actions)[k] = f.actions[j]
    <3> DEFINE acts == f.actions
    <3>1. Sequence(acts) /\ acts # <<>>
      BY <1>4, <2>1
    <3> HIDE DEF acts
    <3>2. /\ Len(acts) \in Nat /\ Len(acts) >= 1 /\ Head(acts) = acts[1]
          /\ Sequence(Tail(acts)) /\ \A k \in 1..Len(Tail(acts)) : \E j \in 1..Len(acts) : Tail(acts)[k] = acts[j]
      BY <3>1, FirstAndRest
    <3>3. 1 \in 1..Len(acts)
      BY <3>2
    <3> QED BY <3>2, <3>3, Zenon DEF acts
  <2>3. FitsGoal(problem, SequentOf(f), f.actions[1]) /\ f.actions[1].domains = <<>>
    BY <1>1, <1>2, <2>2 DEF ActionsFit
  <2>4. Shows(problem, Height + 1, term, SequentOf(f))
    <3> DEFINE s == SequentOf(f)
               act == f.actions[1]
               n == Height
    <3>1. <<>> \in Seq({}) /\ Len(<<>>) = 0
      OBVIOUS
    <3>2. Sequence(<<>>) /\ Len(<<>>) = Len(act.domains)
      BY <2>3, <3>1 DEF Sequence
    <3>3. \A k \in 1..Len(<<>>) : HasType(problem, n, <<>>[k], act.domains[k], LocalTypes(problem, s.known))
      BY <3>1
    <3>4. SequentIs(problem, s) /\ FitsGoal(problem, s, act) /\ n \in Nat /\ problem \in Problems
          /\ term = Applied(HeadAt(act.assumption, s.depth), <<>>)
      BY <1>2, <2>2, <2>3, SequentParts
    <3> HIDE DEF s, act, n, term
    <3>5. Shows(problem, n + 1, Applied(HeadAt(act.assumption, s.depth), <<>>), s)
      BY <3>2, <3>3, <3>4, TakesAction, Zenon
    <3> QED BY <3>4, <3>5 DEF s, n
  <2> HIDE DEF term
  <2> DEFINE kept == Retain(f.found, <<term>>)
             g == [f EXCEPT !.actions = Tail(@), !.found = kept]
  <2>5. Becomes(g)
    BY <1>4
  <2>6. IsFrame(g) /\ SameGoal(f, g) /\ g.at = "exacts" /\ g.actions = Tail(f.actions) /\ g.found = kept
    BY <1>1, Hands DEF IsFrame, SameGoal
  <2> HIDE DEF g
  <2>7. ActionsFit(problem, g)
    <3>1. g.at \notin Taking
      BY <2>6 DEF Taking
    <3> QED BY <1>1, <1>2, <2>2, <2>6, <3>1, ActionsGo
  <2>8. ASSUME NEW n \in Nat, Height <= n, n >= Height + 1
        PROVE  FoundShow(problem, n, g)
    <3>1. FoundShow(problem, n, f)
      BY <1>1, <2>8, SameBelow DEF FrameIs
    <3>2. AllShow(problem, n, <<term>>, SequentOf(f))
      <4>1. PICK m \in Nat : m = Height + 1 /\ m <= n
        BY <1>2, <2>8
      <4>2. Shows(problem, m, term, SequentOf(f))
        BY <2>4, <4>1
      <4>3. AllShow(problem, m, <<term>>, SequentOf(f))
        BY <4>2, OneTerm
      <4> QED BY <4>1, <4>3, AllHigher, Zenon
    <3> DEFINE one == <<term>>
               s == SequentOf(f)
    <3> HIDE DEF one
    <3>3. Sequence(one) /\ \A k \in 1..Len(one) : Shows(problem, n, one[k], s)
      BY <3>2 DEF AllShow, one
    <3>4. Sequence(f.found) /\ \A k \in 1..Len(f.found) : Shows(problem, n, f.found[k], s)
      BY <3>1 DEF FoundShow
    <3> HIDE DEF s
    <3>5. Sequence(Retain(f.found, one)) /\ \A k \in 1..Len(Retain(f.found, one)) : Shows(problem, n, Retain(f.found, one)[k], s)
      BY <3>3, <3>4, RetainedShow, Zenon
    <3>6. g.found = Retain(f.found, one)
      BY <2>6 DEF one
    <3>7. SequentOf(g) = s
      BY <2>6 DEF SameGoal, SequentOf, s
    <3> QED BY <3>5, <3>6, <3>7 DEF FoundShow
  <2>9. g.at \in (IF problem.many THEN ManyPlaces ELSE OnePlaces) \ Waiting
    BY <1>2, <2>6 DEF ManyPlaces, Waiting
  <2>10. \A n \in Nat : /\ Height <= n
                        /\ considered' = considered + 1 \/ Current.at \in Waiting => n >= Height + 1
                        => FoundShow(problem, n, g)
    BY <1>4, <2>8
  <2> QED BY <1>1, <1>4, <2>5, <2>6, <2>7, <2>9, <2>10, GoesOn
<1> QED
  <2>1. \/ /\ considered' = considered
           /\ \E order \in Orders(Applicable(f), f.known) : Becomes([f EXCEPT !.at = "many", !.actions = order])
        \/ /\ f.actions # <<>> /\ considered' = considered + 1
           /\ Becomes([f EXCEPT !.actions = Tail(@), !.found = Retain(@, <<term>>)])
    BY DEF ExactsMany, Refuse, Charge, Enough
  <2> QED BY <1>3, <1>4, <2>1, Zenon

-----------------------------------------------------------------------------
(* All the arguments of an action.                                          *)

LEMMA TypedTryMany ==
  ASSUME TypedInv, TryMany
  PROVE  TypedInv'
<1> DEFINE g == [Current EXCEPT !.at = "arguments", !.args = <<>>]
<1>1. calls # <<>> /\ Current.at = "many" /\ problem' = problem /\ verdict' = verdict
  BY DEF TryMany, Reached, counters
<1>2. problem.many /\ problem \in Problems /\ Height \in Nat /\ ActionsFit(problem, Current)
  BY <1>1, Hands DEF ManyPlaces
<1>3. CASE considered' = considered /\ Answers(Current, Current.found)
  <2>1. FoundShow(problem, Height, Current)
    BY <1>1, AtHand DEF FrameIs
  <2>2. AllShow(problem, Height, Current.found, SequentOf(Current))
    BY <1>2, <2>1 DEF FoundShow, AllShow
  <2>3. Return(Current.found) /\ (memo' = memo \/ Remember(Current, Current.found))
    BY <1>3 DEF Answers
  <2> QED BY <1>1, <1>3, <2>2, <2>3, ReturnsFound
<1>4. CASE /\ Current.actions # <<>> /\ considered' = considered + 1 /\ memo' = memo
           /\ Descends(g, Current.known, Head(Current.actions).domains[1], Current.depth)
  <2>1. /\ IsFrame(g) /\ SameGoal(Current, g) /\ g.at = "arguments" /\ g.args = <<>>
        /\ g.actions = Current.actions /\ g.found = Current.found
    BY <1>1, Hands DEF IsFrame, SameGoal
  <2>2. Descends(g, Current.known, Head(Current.actions).domains[1], Current.depth)
    BY <1>4
  <2> HIDE DEF g
  <2>3. Sequence(Current.actions)
    BY <1>2 DEF ActionsFit
  <2>4. Head(Current.actions) = Current.actions[1] /\ 1 \in 1..Len(Current.actions)
    BY <1>4, <2>3, FirstAndRest
  <2>5. Current.actions[1].domains \in Seq(Types) /\ Current.actions[1].domains # <<>>
    BY <1>1, <1>2, <2>4 DEF ActionsFit, FitsGoal
  <2>6. <<>> \in Seq({}) /\ Len(<<>>) = 0
    OBVIOUS
  <2>7. Sequence(g.args) /\ Len(g.args) = 0 /\ Len(g.args) + 1 = 1
    BY <2>1, <2>6 DEF Sequence
  <2>8. ArgsShow(problem, Height, g)
    <3> DEFINE d == Current.actions[1].domains
    <3>1. d \in Seq(Types) /\ d # <<>>
      BY <2>5
    <3> HIDE DEF d
    <3>2. 0 < Len(d)
      BY <3>1
    <3>3. g.actions[1].domains = d /\ g.actions # <<>>
      BY <1>4, <2>1 DEF d
    <3> QED BY <2>1, <2>7, <3>2, <3>3 DEF ArgsShow
  <2>9. Current.at \in Taking /\ Current.at \notin Waiting
    BY <1>1 DEF Taking, Waiting
  <2>10. Descends(g, Current.known, Current.actions[1].domains[Len(g.args) + 1], Current.depth)
    BY <2>2, <2>4, <2>7
  <2> QED BY <1>1, <1>2, <1>4, <2>1, <2>8, <2>9, <2>10, AsksFor
<1> QED
  <2>1. \/ considered' = considered /\ Answers(Current, Current.found)
        \/ /\ Current.actions # <<>> /\ considered' = considered + 1 /\ memo' = memo
           /\ Descends(g, Current.known, Head(Current.actions).domains[1], Current.depth)
    BY DEF TryMany, Refuse, Charge, Enough
  <2> QED BY <1>3, <1>4, <2>1, Zenon

\* The terms that the arguments at hand make.
MadeOf(f, lists) == [k \in DOMAIN lists |-> Applied(HeadAt(Head(f.actions).assumption, f.depth), lists[k])]

\* The arguments of an action: a list of terms for each of its domains so far.
ListsShow(p, n, f, sets) ==
  /\ Sequence(sets)
  /\ \A k \in 1..Len(sets) :
       Sequence(sets[k]) /\ \A i \in 1..Len(sets[k]) : ArgShows(p, n, sets[k][i], f, f.actions[1].domains[k])

LEMMA MadeAll ==
  ASSUME NEW p \in Problems, NEW n \in Nat, NEW f, SequentIs(p, SequentOf(f)), f.actions # <<>>, Sequence(f.actions),
         FitsGoal(p, SequentOf(f), f.actions[1]), NEW sets, ListsShow(p, n, f, sets), NEW m \in Nat, m = n + 1
  PROVE  /\ Sequence(MadeOf(f, Product(sets))) /\ Len(MadeOf(f, Product(sets))) \in Nat
         /\ Len(sets) = Len(f.actions[1].domains) =>
              \A k \in 1..Len(MadeOf(f, Product(sets))) : Shows(p, m, MadeOf(f, Product(sets))[k], SequentOf(f))
<1> DEFINE lists == Product(sets)
           terms == MadeOf(f, lists)
           N == Len(sets)
           U == UNION {Range(sets[i]) : i \in DOMAIN sets}
           head == HeadAt(Head(f.actions).assumption, f.depth)
<1>1. Sequence(sets) /\ \A i \in DOMAIN sets : Sequence(sets[i])
  BY RangeIs DEF ListsShow
<1>2. lists \in Seq(Tuples(sets, N))
  BY <1>1, Products
<1>3. terms = [k \in DOMAIN lists |-> Applied(head, lists[k])]
  BY DEF MadeOf
<1> HIDE DEF lists, terms
<1>4. DOMAIN lists = 1..Len(lists) /\ Len(lists) \in Nat /\ \A k \in 1..Len(lists) : lists[k] \in Tuples(sets, N)
  BY <1>2
<1>5. Sequence(terms) /\ Len(terms) = Len(lists) /\ \A k \in 1..Len(lists) : terms[k] = Applied(head, lists[k])
  <2> DEFINE T == {Applied(head, lists[k]) : k \in 1..Len(lists)}
  <2>1. \A k \in 1..Len(lists) : terms[k] \in T /\ terms[k] = Applied(head, lists[k])
    BY <1>3, <1>4
  <2>2. DOMAIN terms = 1..Len(lists) /\ terms = [k \in 1..Len(lists) |-> terms[k]]
    BY <1>3, <1>4
  <2> HIDE DEF T
  <2>3. terms \in Seq(T) /\ Len(terms) = Len(lists)
    BY <1>4, <2>1, <2>2
  <2> QED BY <2>1, <2>3 DEF Sequence
<1>6. ASSUME N = Len(f.actions[1].domains), NEW k \in 1..Len(lists)
      PROVE  Shows(p, m, terms[k], SequentOf(f))
  <2> DEFINE t == lists[k]
             s == SequentOf(f)
             a == f.actions[1]
  <2>1. t \in Tuples(sets, N)
    BY <1>4, <1>6
  <2> HIDE DEF t
  <2>2. t \in Seq(U) /\ Len(t) = N /\ \A i \in 1..N : t[i] \in Range(sets[i])
    BY <2>1 DEF Tuples
  <2>3. Sequence(t)
    BY <2>2 DEF Sequence
  <2>4. ASSUME NEW i \in 1..Len(t) PROVE HasType(p, n, t[i], a.domains[i], LocalTypes(p, s.known))
    <3>1. i \in 1..Len(sets) /\ t[i] \in Range(sets[i])
      BY <2>2, <2>4
    <3>2. Sequence(sets[i]) /\ \A j \in 1..Len(sets[i]) : ArgShows(p, n, sets[i][j], f, f.actions[1].domains[i])
      BY <3>1 DEF ListsShow
    <3>3. PICK j \in 1..Len(sets[i]) : t[i] = sets[i][j]
      BY <3>1, <3>2, RangeIs
    <3>4. ArgShows(p, n, t[i], f, f.actions[1].domains[i])
      BY <3>2, <3>3
    <3> QED BY <3>4, SequentParts DEF ArgShows
  <2>5. Head(f.actions) = f.actions[1]
    BY FirstAndRest
  <2>6. terms[k] = Applied(HeadAt(a.assumption, s.depth), t)
    BY <1>5, <1>6, <2>5, SequentParts DEF t
  <2>7. SequentIs(p, s) /\ FitsGoal(p, s, a) /\ Len(t) = Len(a.domains)
    BY <1>6, <2>2
  <2> HIDE DEF s, a
  <2>8. Shows(p, n + 1, Applied(HeadAt(a.assumption, s.depth), t), s)
    BY <2>3, <2>4, <2>7, TakesAction, Zenon
  <2> QED BY <2>6, <2>8 DEF s
<1>7. \A k \in 1..Len(terms) : N = Len(f.actions[1].domains) => Shows(p, m, terms[k], SequentOf(f))
  BY <1>5, <1>6
<1>8. Sequence(terms) /\ Len(terms) \in Nat
  BY <1>4, <1>5
<1> QED BY <1>7, <1>8 DEF terms, lists

LEMMA TypedArgumentsMany ==
  ASSUME TypedInv, ArgumentsMany
  PROVE  TypedInv'
<1> DEFINE f == Current
           action == Head(f.actions)
           sets == Append(f.args, returned)
           terms == MadeOf(f, Product(sets))
           first(n) == Retain(f.found, SubSeq(terms, 1, n))
           after(n) == Becomes([f EXCEPT !.at = "many", !.actions = Tail(@), !.found = first(n)])
<1>1. /\ calls # <<>> /\ f.at = "arguments" /\ problem' = problem /\ verdict' = verdict /\ considered' = considered
      /\ memo' = memo
  BY DEF ArgumentsMany, Reached
<1>2. problem.many /\ problem \in Problems /\ Height \in Nat /\ SequentIs(problem, SequentOf(f)) /\ ActionsFit(problem, f)
  BY <1>1, Hands DEF ManyPlaces
<1>3. ArgsShow(problem, Height, f) /\ AllShow(problem, Height, returned, AskedBy(f)) /\ f.at \in Waiting /\ f.at \in Taking
  BY <1>1, AtHand DEF FrameIs, Waiting, Awaits, Taking
<1>4. /\ f.actions # <<>> /\ Sequence(f.actions) /\ Sequence(f.args) /\ Sequence(returned)
      /\ \A k \in 1..Len(f.args) :
           Sequence(f.args[k]) /\ \A i \in 1..Len(f.args[k]) : ArgShows(problem, Height, f.args[k][i], f, f.actions[1].domains[k])
  BY <1>1, <1>2, <1>3 DEF ArgsShow, ActionsFit, AllShow
<1>5. action = f.actions[1] /\ 1 \in 1..Len(f.actions)
  BY <1>4, FirstAndRest
<1>6. FitsGoal(problem, SequentOf(f), f.actions[1])
  BY <1>2, <1>5 DEF ActionsFit
<1>7. ListsShow(problem, Height, f, sets) /\ Len(sets) \in Nat
  <2>1. /\ Sequence(sets) /\ Len(sets) = Len(f.args) + 1 /\ Len(f.args) \in Nat
        /\ sets[Len(f.args) + 1] = returned /\ \A k \in 1..Len(f.args) : sets[k] = f.args[k]
    BY <1>4, Pushed, RangeIs
  <2> HIDE DEF sets
  <2>2. ASSUME NEW i \in 1..Len(returned) PROVE ArgShows(problem, Height, returned[i], f, f.actions[1].domains[Len(f.args) + 1])
    <3>1. Shows(problem, Height, returned[i], AskedBy(f))
      BY <1>3 DEF AllShow
    <3>2. AskedBy(f).known = f.known /\ AskedBy(f).goal = f.actions[1].domains[Len(f.args) + 1]
      BY DEF AskedBy
    <3> QED BY <3>1, <3>2 DEF Shows, ArgShows
  <2>3. ASSUME NEW k \in 1..Len(sets)
        PROVE  Sequence(sets[k]) /\ \A i \in 1..Len(sets[k]) : ArgShows(problem, Height, sets[k][i], f, f.actions[1].domains[k])
    <3>1. CASE k \in 1..Len(f.args)
      <4>1. sets[k] = f.args[k]
        BY <2>1, <3>1
      <4> QED BY <1>4, <3>1, <4>1
    <3>2. CASE k = Len(f.args) + 1
      BY <1>4, <2>1, <2>2, <3>2
    <3>3. k \in 1..Len(f.args) \/ k = Len(f.args) + 1
      BY <2>1
    <3> QED BY <3>1, <3>2, <3>3, Zenon
  <2> QED BY <2>1, <2>3 DEF ListsShow
<1> HIDE DEF sets
<1>8. CASE returned # <<>> /\ Len(sets) < Len(action.domains)
           /\ Descends([f EXCEPT !.args = sets], f.known, action.domains[Len(sets) + 1], f.depth)
  <2> DEFINE g == [f EXCEPT !.args = sets]
  <2>1. /\ IsFrame(g) /\ SameGoal(f, g) /\ g.at = "arguments" /\ g.args = sets
        /\ g.actions = f.actions /\ g.found = f.found
    BY <1>1, Hands DEF IsFrame, SameGoal
  <2>2. Descends(g, f.known, f.actions[1].domains[Len(sets) + 1], f.depth)
    BY <1>5, <1>8
  <2> HIDE DEF g
  <2>3. ArgsShow(problem, Height, g)
    <3>1. g.known = f.known
      BY <2>1 DEF SameGoal
    <3>2. ListsShow(problem, Height, g, sets)
      BY <1>7, <2>1, <3>1 DEF ListsShow, ArgShows
    <3>3. Len(sets) < Len(g.actions[1].domains) /\ g.actions # <<>>
      BY <1>4, <1>5, <1>8, <2>1
    <3> QED BY <2>1, <3>2, <3>3 DEF ArgsShow, ListsShow
  <2>4. Descends(g, f.known, f.actions[1].domains[Len(g.args) + 1], f.depth)
    BY <2>1, <2>2
  <2> QED BY <1>1, <1>2, <1>3, <1>8, <2>1, <2>3, <2>4, AsksFor
<1>9. ASSUME NEW n \in 0..Len(terms), n # 0 => Len(sets) = Len(action.domains), after(n)
      PROVE  TypedInv'
  <2> DEFINE kept == first(n)
             some == SubSeq(terms, 1, n)
             g == [f EXCEPT !.at = "many", !.actions = Tail(@), !.found = kept]
  <2>m. PICK m \in Nat : m = Height + 1
    BY <1>2
  <2>h. PICK h \in Nat : h = Height
    BY <1>2
  <2>1. Becomes(g)
    BY <1>9
  <2>2. kept = Retain(f.found, some)
    OBVIOUS
  <2> HIDE DEF kept
  <2>3. IsFrame(g) /\ SameGoal(f, g) /\ g.at = "many" /\ g.actions = Tail(f.actions) /\ g.found = kept
    BY <1>1, Hands DEF IsFrame, SameGoal
  <2> HIDE DEF g
  <2>4. /\ Sequence(terms) /\ Len(terms) \in Nat
        /\ Len(sets) = Len(f.actions[1].domains) => \A k \in 1..Len(terms) : Shows(problem, m, terms[k], SequentOf(f))
    <3>1. ListsShow(problem, h, f, sets) /\ m = h + 1
      BY <1>7, <2>m, <2>h
    <3> HIDE DEF f
    <3> QED BY <1>2, <1>4, <1>6, <3>1, MadeAll
  <2> HIDE DEF terms
  <2>5. Sequence(some) /\ \A k \in 1..Len(some) : Shows(problem, m, some[k], SequentOf(f))
    <3>1. PICK S : terms \in Seq(S)
      BY <2>4 DEF Sequence
    <3>2. 1 \in 1..(Len(terms) + 1) /\ n \in (1 - 1)..Len(terms) /\ n - 1 + 1 = n /\ n \in Nat
      BY <1>9, <2>4
    <3>3. some \in Seq(S) /\ Len(some) = n - 1 + 1 /\ \A i \in 1..(n - 1 + 1) : some[i] = terms[1 + i - 1]
      BY <3>1, <3>2, Slice
    <3> HIDE DEF some
    <3>4. \A k \in 1..Len(some) : some[k] = terms[k] /\ k \in 1..Len(terms) /\ n # 0
      BY <3>2, <3>3, <2>4, <1>9
    <3>5. ASSUME NEW k \in 1..Len(some) PROVE Shows(problem, m, some[k], SequentOf(f))
      BY <1>5, <1>9, <2>4, <3>4, <3>5
    <3> QED BY <3>3, <3>5 DEF Sequence
  <2>6. ASSUME NEW i \in Nat, Height <= i, i >= Height + 1
        PROVE  FoundShow(problem, i, g)
    <3> DEFINE s == SequentOf(f)
    <3>1. Sequence(f.found) /\ \A k \in 1..Len(f.found) : Shows(problem, i, f.found[k], s)
      BY <1>1, <2>6, SameBelow DEF FrameIs, FoundShow
    <3> HIDE DEF s, some
    <3>2. ASSUME NEW k \in 1..Len(some) PROVE Shows(problem, i, some[k], s)
      <4>1. Shows(problem, m, some[k], s) /\ m <= i
        BY <2>5, <2>6, <2>m, <3>2 DEF s
      <4> QED BY <4>1, ShowsHigher DEF Shows
    <3>3. Sequence(Retain(f.found, some)) /\ \A k \in 1..Len(Retain(f.found, some)) : Shows(problem, i, Retain(f.found, some)[k], s)
      BY <2>5, <3>1, <3>2, RetainedShow, Zenon
    <3>4. SequentOf(g) = s
      BY <2>3 DEF SameGoal, SequentOf, s
    <3>5. g.found = Retain(f.found, some)
      BY <2>2, <2>3
    <3> QED BY <3>3, <3>4, <3>5 DEF FoundShow
  <2>7. ActionsFit(problem, g) /\ g.at \in (IF problem.many THEN ManyPlaces ELSE OnePlaces) \ Waiting
    BY <1>1, <1>2, <1>3, <1>4, <2>3, GivesUp
  <2>8. \A i \in Nat : /\ Height <= i
                       /\ considered' = considered + 1 \/ Current.at \in Waiting => i >= Height + 1
                       => FoundShow(problem, i, g)
    BY <1>3, <2>6
  <2> QED BY <1>1, <2>1, <2>3, <2>7, <2>8, GoesOn
<1> QED
  <2>0. Len(terms) \in Nat
    <3>1. PICK h \in Nat, m \in Nat : h = Height /\ m = h + 1
      BY <1>2
    <3>2. ListsShow(problem, h, f, sets)
      BY <1>7, <3>1
    <3> HIDE DEF f
    <3> QED BY <1>2, <1>4, <1>6, <3>1, <3>2, MadeAll
  <2>1. \/ after(0)
        \/ /\ returned # <<>> /\ Len(sets) < Len(action.domains)
           /\ Descends([f EXCEPT !.args = sets], f.known, action.domains[Len(sets) + 1], f.depth)
        \/ /\ Len(sets) = Len(action.domains)
           /\ after(Len(terms)) \/ \E n \in 0..(IF overdue THEN 0 ELSE Len(terms) - 1) : after(n)
    BY DEF ArgumentsMany, MadeOf, sets
  <2>2. CASE after(0)
    <3>1. 0 \in 0..Len(terms)
      BY <2>0
    <3> QED BY <1>9, <2>2, <3>1
  <2>3. CASE Len(sets) = Len(action.domains) /\ after(Len(terms))
    <3>1. Len(terms) \in 0..Len(terms)
      BY <2>0
    <3> QED BY <1>9, <2>3, <3>1
  <2>4. CASE Len(sets) = Len(action.domains) /\ \E n \in 0..(IF overdue THEN 0 ELSE Len(terms) - 1) : after(n)
    <3>1. PICK n \in 0..(IF overdue THEN 0 ELSE Len(terms) - 1) : after(n)
      BY <2>4
    <3>2. n \in 0..Len(terms)
      BY <2>0
    <3> QED BY <1>9, <2>4, <3>1, <3>2
  <2> QED BY <1>8, <2>1, <2>2, <2>3, <2>4, Zenon

-----------------------------------------------------------------------------
(* The search as a whole.                                                   *)

LEMMA RootIs ==
  ASSUME NEW p \in Problems
  PROVE  SequentIs(p, Root(p)) /\ LocalTypes(p, Root(p).known) = <<>> /\ Root(p).goal = p.goal
<1> DEFINE known == ContextOf(p)
           N == Len(p.context)
<1>1. N \in Nat /\ DOMAIN p.context = 1..N
  BY Contexts
<1>2. known = [k \in 1..N |-> Named(p.context[k].type, k - 1, p.context[k].name)]
  BY <1>1 DEF ContextOf
<1> HIDE DEF known, N
<1>3. DOMAIN known = 1..N /\ known = [k \in 1..N |-> known[k]]
      /\ \A k \in 1..N : known[k] = Named(p.context[k].type, k - 1, p.context[k].name)
  BY <1>2
<1>4. \A k \in 1..N : known[k].type = p.context[k].type /\ known[k].name = p.context[k].name
  BY <1>3 DEF Named
<1>5. Sequence(known) /\ Len(known) = N
  <2> DEFINE T == {known[k] : k \in 1..N}
  <2>1. \A k \in 1..N : known[k] \in T
    OBVIOUS
  <2> HIDE DEF T
  <2>2. known \in Seq(T) /\ Len(known) = N
    BY <1>1, <1>3, <2>1
  <2> QED BY <2>2 DEF Sequence
<1>6. \A k \in 1..N : known[k].type \in Types
  BY <1>4, ContextIs DEF N
<1>7. KnownIs(p, known, 0)
  <2>1. Len(known) = N + 0 /\ \A k \in 1..0 : FALSE
    BY <1>1, <1>5
  <2> QED BY <1>4, <1>5, <1>6, <2>1 DEF KnownIs, N
<1>8. Root(p).known = known /\ Root(p).goal = p.goal /\ Root(p).depth = 0
  BY DEF Root, known
<1>9. LocalTypes(p, known) = <<>>
  <2>1. LocalTypes(p, known) \in Seq(Types) /\ Len(LocalTypes(p, known)) = 0
    BY <1>7, Locals
  <2> QED BY <2>1
<1> QED BY <1>7, <1>8, <1>9, GoalsAreTypes DEF SequentIs

LEMMA NoStack ==
  ASSUME NEW p, NEW n
  PROVE  StackIs(p, n, <<>>) /\ AwaitsOne(<<>>) = 0 /\ IsDue(<<>>) /\ Due(p, <<>>) = Root(p)
<1>1. <<>> \in Seq({}) /\ Len(<<>>) = 0
  OBVIOUS
<1>2. /\ Sequence(<<>>) /\ \A k \in 1..Len(<<>>) : FrameIs(p, n, <<>>[k])
      /\ ~(Len(<<>>) > 0) /\ \A k \in 1..(Len(<<>>) - 1) : FALSE
  BY <1>1 DEF Sequence
<1>3. StackIs(p, n, <<>>)
  BY <1>2, Zenon DEF StackIs
<1>4. AwaitsOne(<<>>) = 0 /\ IsDue(<<>>) /\ Due(p, <<>>) = Root(p)
  BY <1>1 DEF AwaitsOne, IsDue, Due
<1> QED BY <1>3, <1>4

LEMMA TypedInitially == FocusedInit => TypedInv
<1> SUFFICES ASSUME FocusedInit PROVE TypedInv
  OBVIOUS
<1>1. problem \in Problems /\ calls = <<>> /\ returned = <<>> /\ memo = <<>> /\ considered = 0 /\ verdict = "asked"
  BY DEF FocusedInit
<1>2. Height = 0
  BY <1>1, NoStack DEF Height
<1>3. MemoIs(problem, Height, memo)
  <2>1. DOMAIN memo = {}
    BY <1>1
  <2> QED BY <2>1 DEF MemoIs
<1>4. StackIs(problem, Height, calls)
  BY <1>1, NoStack
<1>5. AllShow(problem, Height, returned, Due(problem, calls))
  BY <1>1, NoTerms
<1> QED BY <1>1, <1>2, <1>3, <1>4, <1>5 DEF TypedInv

LEMMA TypedBegin ==
  ASSUME TypedInv, Begin
  PROVE  TypedInv'
<1>1. /\ verdict = "asked" /\ problem' = problem /\ returned' = returned /\ memo' = memo /\ considered' = considered
      /\ verdict' # "asked"
      /\ \/ calls' = calls
         \/ calls' = <<Frame(ContextOf(problem), problem.goal, 0, 0)>> /\ verdict' = "running"
  BY DEF Begin, ContextOf
<1>2. /\ calls = <<>> /\ returned = <<>> /\ problem \in Problems /\ considered \in Nat /\ MemoIs(problem, Height, memo)
  BY <1>1 DEF TypedInv
<1>3. Height = considered
  BY <1>2, NoStack DEF Height
<1>4. CASE calls' = calls
  <2>1. Height' = Height /\ StackIs(problem, Height, calls')
    BY <1>1, <1>2, <1>4, NoStack DEF Height
  <2>2. AllShow(problem, Height, returned, Due(problem, calls'))
    BY <1>2, NoTerms
  <2> QED BY <1>1, <1>2, <1>3, <1>4, <2>1, <2>2 DEF TypedInv
<1>5. CASE calls' = <<Frame(ContextOf(problem), problem.goal, 0, 0)>> /\ verdict' = "running"
  <2> DEFINE f == Frame(ContextOf(problem), problem.goal, 0, 0)
             s == <<f>>
             n == Height
  <2>1. FrameIs(problem, n, f) /\ f.at = "enter" /\ SequentOf(f) = Root(problem)
    <3>1. SequentIs(problem, [known |-> ContextOf(problem), goal |-> problem.goal, depth |-> 0])
      BY <1>2, RootIs DEF Root
    <3> HIDE DEF n
    <3> QED BY <3>1, FirstFrame DEF Root
  <2> HIDE DEF f, n
  <2>2. s \in Seq({f}) /\ Len(s) = 1 /\ s[1] = f
    OBVIOUS
  <2>3. calls' = s
    BY <1>5 DEF f
  <2> HIDE DEF s
  <2>4. StackIs(problem, n, s)
    <3>1. \A k \in 1..(Len(s) - 1) : FALSE
      BY <2>2
    <3> QED BY <2>1, <2>2, <3>1 DEF StackIs, Sequence
  <2>5. AwaitsOne(s) = 0 /\ ~IsDue(s)
    BY <2>1, <2>2 DEF AwaitsOne, IsDue, Waiting
  <2>6. Height' = n
    BY <1>1, <1>2, <1>3, <2>3, <2>5 DEF Height, n
  <2> QED BY <1>1, <1>2, <1>3, <1>5, <2>3, <2>4, <2>5, <2>6 DEF TypedInv, n
<1> QED BY <1>1, <1>4, <1>5

LEMMA TypedStays ==
  ASSUME TypedInv, UNCHANGED <<problem, calls, returned, memo, considered>>,
         verdict' = verdict \/ (calls = <<>> /\ verdict' # "asked")
  PROVE  TypedInv'
BY DEF TypedInv, Height

LEMMA TypedKeeps ==
  ASSUME TypedInv, [FocusedNext]_focusedVars
  PROVE  TypedInv'
<1>1. CASE Begin
  BY <1>1, TypedBegin
<1>2. CASE Stopped \/ Remembered \/ Cycle \/ Expand
  BY <1>2, TypedEnter
<1>3. CASE ExactOne
  BY <1>3, TypedExactOne
<1>4. CASE IntroduceOne
  BY <1>4, TypedIntroduceOne
<1>5. CASE BodyOne
  BY <1>5, TypedBodyOne
<1>6. CASE Focus
  BY <1>6, TypedFocus
<1>7. CASE TryOne
  BY <1>7, TypedTryOne
<1>8. CASE ArgumentOne
  BY <1>8, TypedArgumentOne
<1>9. CASE IntroduceMany
  BY <1>9, TypedIntroduceMany
<1>10. CASE BodiesMany
  BY <1>10, TypedBodiesMany
<1>11. CASE ExactsMany
  BY <1>11, TypedExactsMany
<1>12. CASE TryMany
  BY <1>12, TypedTryMany
<1>13. CASE ArgumentsMany
  BY <1>13, TypedArgumentsMany
<1>14. CASE FocusedFinish
  <2>1. UNCHANGED <<problem, calls, returned, memo, considered>> /\ calls = <<>> /\ verdict' # "asked"
    BY <1>14 DEF FocusedFinish
  <2> QED BY <2>1, TypedStays
<1>15. CASE FocusedExpires
  <2>1. UNCHANGED <<problem, calls, returned, memo, considered>> /\ verdict' = verdict
    BY <1>15 DEF FocusedExpires
  <2> QED BY <2>1, TypedStays
<1>16. CASE UNCHANGED focusedVars
  <2>1. UNCHANGED <<problem, calls, returned, memo, considered>> /\ verdict' = verdict
    BY <1>16 DEF focusedVars
  <2> QED BY <2>1, TypedStays
<1> QED
  BY <1>1, <1>2, <1>3, <1>4, <1>5, <1>6, <1>7, <1>8, <1>9, <1>10, <1>11, <1>12, <1>13, <1>14, <1>15, <1>16
  DEF FocusedNext, FocusedStep

\* What the invariant says of the terms that can be seen.
LEMMA TypedShows == TypedInv => TermsAreTyped
<1> SUFFICES ASSUME TypedInv PROVE TermsAreTyped
  OBVIOUS
<1>1. PICK h \in Nat : h = Height /\ h <= considered /\ considered \in Nat
  <2>1. Sequence(calls) /\ considered \in Nat /\ Height \in Nat
    BY DEF TypedInv, StackIs
  <2>2. Len(calls) \in Nat
    BY <2>1, RangeIs
  <2>3. AwaitsOne(calls) \in Nat
    BY <2>2 DEF AwaitsOne
  <2>4. Height <= considered
    BY <2>1, <2>3 DEF Height
  <2> QED BY <2>1, <2>4
<1>2. problem \in Problems /\ MemoIs(problem, h, memo)
  BY <1>1 DEF TypedInv
<1>3. ASSUME NEW terms, NEW s, AllShow(problem, h, terms, s), NEW k \in DOMAIN terms
      PROVE  HasType(problem, considered, terms[k], s.goal, LocalTypes(problem, s.known))
  <2>1. Sequence(terms)
    BY <1>3 DEF AllShow
  <2>2. k \in 1..Len(terms)
    BY <1>3, <2>1, RangeIs
  <2>3. HasType(problem, h, terms[k], s.goal, LocalTypes(problem, s.known))
    BY <1>3, <2>2 DEF AllShow, Shows
  <2> QED BY <1>1, <2>3, ShowsHigher, Zenon
<1>4. ASSUME NEW key \in DOMAIN memo, NEW k \in DOMAIN memo[key]
      PROVE  HasType(problem, considered, memo[key][k], key.sequent.goal, LocalTypes(problem, key.sequent.known))
  <2>1. AllShow(problem, h, memo[key], key.sequent)
    BY <1>2 DEF MemoIs
  <2> QED BY <1>3, <1>4, <2>1, Zenon
<1>5. ASSUME verdict \notin {"asked", "running"}, NEW k \in DOMAIN returned
      PROVE  HasType(problem, considered, returned[k], problem.goal, <<>>)
  <2>1. calls = <<>>
    BY <1>5 DEF TypedInv
  <2>2. AllShow(problem, h, returned, Root(problem))
    BY <1>1, <2>1, NoStack DEF TypedInv
  <2>3. HasType(problem, considered, returned[k], Root(problem).goal, LocalTypes(problem, Root(problem).known))
    BY <1>3, <1>5, <2>2, Zenon
  <2> QED BY <1>2, <2>3, RootIs
<1> QED BY <1>4, <1>5 DEF TermsAreTyped

-----------------------------------------------------------------------------
(* HeadSet of terms.                                                          *)

\* The head that a decision put into the proof, and the terms it is in.
HeadOf(d) == <<d.positive.assumption.name, Len(d.positive.domains)>>
HasHead(p, d, t) == \E n \in Nat : t \in TermsOf(p, n) /\ HeadOf(d) \in HeadsOf(p, n, t)

LEMMA HasAt ==
  ASSUME NEW p, NEW d, NEW t, HasHead(p, d, t), NEW n \in Nat, t \in TermsOf(p, n)
  PROVE  HeadOf(d) \in HeadsOf(p, n, t)
<1>1. PICK m \in Nat : t \in TermsOf(p, m) /\ HeadOf(d) \in HeadsOf(p, m, t)
  BY DEF HasHead
<1>2. HeadsOf(p, m, t) = HeadsOf(p, n, t)
  <2>1. CASE m <= n
    BY <1>1, <2>1, HigherUp, Zenon
  <2>2. CASE n <= m
    BY <2>2, HigherUp, Zenon
  <2>3. m <= n \/ n <= m
    OBVIOUS
  <2> QED BY <2>1, <2>2, <2>3, Zenon
<1> QED BY <1>1, <1>2

LEMMA HasUnder ==
  ASSUME NEW p, NEW d, NEW t, NEW k \in Nat, HasHead(p, d, t)
  PROVE  HasHead(p, d, Lambda(k, t))
<1> DEFINE u == Lambda(k, t)
<1>1. PICK n \in Nat : t \in TermsOf(p, n) /\ HeadOf(d) \in HeadsOf(p, n, t)
  BY DEF HasHead
<1>2. PICK m \in Nat : n = m + 1
  <2>1. n # 0
    BY <1>1, StoreysRise DEF TermsOf, Ground
  <2> QED BY <2>1
<1>3. TermsOf(p, n) = [lams : Nat, head : HeadSet(p), args : Seq(TermsOf(p, m))]
  BY <1>2, OfStorey, Zenon
<1>4. u \in TermsOf(p, n) /\ u.head = t.head /\ u.args = t.args
  <2>1. t \in [lams : Nat, head : HeadSet(p), args : Seq(TermsOf(p, m))]
    BY <1>1, <1>3
  <2>2. u = [t EXCEPT !.lams = t.lams + k]
    BY DEF Lambda
  <2>3. t.lams + k \in Nat
    BY <2>1
  <2> QED BY <1>3, <2>1, <2>2, <2>3
<1> HIDE DEF u
<1>5. HeadsOf(p, n, u) = HeadsBelow(p, m, u) /\ HeadsOf(p, n, t) = HeadsBelow(p, m, t)
  BY <1>1, <1>2, <1>4, OfStorey, Zenon
<1>6. HeadsBelow(p, m, u) = HeadsBelow(p, m, t)
  BY <1>4, Zenon DEF HeadsBelow
<1> QED BY <1>1, <1>4, <1>5, <1>6 DEF HasHead, u

LEMMA HasOver ==
  ASSUME NEW p, NEW h \in Nat, NEW head \in HeadSet(p), NEW args, Sequence(args),
         \A k \in 1..Len(args) : args[k] \in TermsOf(p, h), NEW d,
         \/ HeadOf(d) = <<head.name, Len(args)>>
         \/ \E k \in 1..Len(args) : HasHead(p, d, args[k])
  PROVE  HasHead(p, d, Applied(head, args))
<1> DEFINE t == Applied(head, args)
<1>m. PICK m \in Nat : m = h + 1
  OBVIOUS
<1>1. args \in Seq(TermsOf(p, h)) /\ DOMAIN args = 1..Len(args)
  <2>1. Len(args) \in Nat /\ DOMAIN args = 1..Len(args) /\ args \in Seq(Range(args))
    BY RangeIs
  <2>2. args = [k \in 1..Len(args) |-> args[k]]
    BY <2>1
  <2> QED BY <2>1, <2>2
<1>2. t = [lams |-> 0, head |-> head, args |-> args]
  BY DEF Applied
<1>3. t \in TermsOf(p, m)
  <2>1. TermsOf(p, m) = [lams : Nat, head : HeadSet(p), args : Seq(TermsOf(p, h))]
    BY <1>m, OfStorey, Zenon
  <2> QED BY <1>1, <1>2, <2>1
<1>4. t.head = head /\ t.args = args
  BY <1>2
<1> HIDE DEF t
<1>5. HeadsOf(p, m, t) = HeadsBelow(p, h, t)
  BY <1>m, <1>3, OfStorey, Zenon
<1>6. HeadOf(d) \in HeadsBelow(p, h, t)
  <2>1. CASE HeadOf(d) = <<head.name, Len(args)>>
    BY <1>4, <2>1 DEF HeadsBelow
  <2>2. CASE \E k \in 1..Len(args) : HasHead(p, d, args[k])
    <3>1. PICK k \in 1..Len(args) : HasHead(p, d, args[k])
      BY <2>2
    <3>2. HeadOf(d) \in HeadsOf(p, h, args[k])
      BY <3>1, HasAt
    <3>3. k \in DOMAIN t.args /\ t.args[k] = args[k]
      BY <1>1, <1>4
    <3> QED BY <3>2, <3>3, Zenon DEF HeadsBelow
  <2> QED BY <2>1, <2>2
<1> QED BY <1>3, <1>5, <1>6 DEF HasHead, t

-----------------------------------------------------------------------------
(* Decisions and the terms they are in.                                    *)

\* What is decided below the first i frames was decided after they began to ask.
Marked(s, i, k) == \A j \in 1..i : s[j].at = "argument" => s[j].mark < k

MarksRise(s, n) ==
  \A i \in 1..Len(s) : s[i].at = "argument" =>
    s[i].mark \in 0..n /\ \A j \in 1..i : s[j].at = "argument" => s[j].mark <= s[i].mark

Taken(p, s, i, d, k) ==
  s[i].at = "argument" /\ Marked(s, i, k) /\ \E j \in 1..Len(s[i].args) : HasHead(p, d, s[i].args[j])

IsTaken(p, s, n, d, k) == \E i \in 1..n : Taken(p, s, i, d, k)

Pending(p, s, terms, d, k) == IsDue(s) /\ terms # <<>> /\ HasHead(p, d, terms[1]) /\ Marked(s, Len(s), k)

\* Every decision is in a term that was taken as an argument, or in the one
\* that was returned last.
OwnedInv ==
  /\ Sequence(decided)
  /\ problem.many => decided = <<>>
  /\ problem.many \/ verdict \in {"asked", "running", "solved"} \/ returned = <<>>
  /\ MarksRise(calls, Len(decided))
  /\ \A k \in 1..Len(decided) :
       IsTaken(problem, calls, Len(calls), decided[k], k) \/ Pending(problem, calls, returned, decided[k], k)

\* What the frames below have is not touched by the frame at hand.
LEMMA StaysTaken ==
  ASSUME NEW p, NEW s, NEW r, NEW n \in Nat, NEW m \in Nat, n <= m, \A i \in 1..n : r[i] = s[i], NEW d, NEW k, IsTaken(p, s, n, d, k)
  PROVE  IsTaken(p, r, m, d, k)
<1>1. PICK i \in 1..n : Taken(p, s, i, d, k)
  BY DEF IsTaken
<1>2. \A j \in 1..i : j \in 1..n
  OBVIOUS
<1>3. Marked(r, i, k)
  BY <1>1, <1>2 DEF Taken, Marked
<1>4. Taken(p, r, i, d, k)
  BY <1>1, <1>3 DEF Taken
<1> QED BY <1>4 DEF IsTaken

\* A stack of which only what is above n changes.
LEMMA RiseStill ==
  ASSUME NEW s, NEW r, NEW n \in Nat, n <= Len(s), Len(s) \in Nat, Len(r) \in Nat, \A i \in 1..n : r[i] = s[i],
         NEW a, NEW b \in Nat, MarksRise(s, a),
         \A i \in 1..n : s[i].at = "argument" => s[i].mark <= b,
         \A i \in 1..Len(r) : i > n /\ r[i].at = "argument" => i = n + 1 /\ r[i].mark \in 0..b /\ \A j \in 1..n : s[j].at = "argument" => s[j].mark <= r[i].mark
  PROVE  MarksRise(r, b)
<1> SUFFICES ASSUME NEW i \in 1..Len(r), r[i].at = "argument"
             PROVE  r[i].mark \in 0..b /\ \A j \in 1..i : r[j].at = "argument" => r[j].mark <= r[i].mark
  BY DEF MarksRise
<1>1. CASE i <= n
  <2>1. i \in 1..n /\ i \in 1..Len(s) /\ r[i] = s[i]
    BY <1>1
  <2>2. s[i].mark \in 0..a /\ s[i].mark <= b /\ \A j \in 1..i : s[j].at = "argument" => s[j].mark <= s[i].mark
    BY <2>1 DEF MarksRise
  <2>3. \A j \in 1..i : j \in 1..n
    BY <2>1
  <2>4. s[i].mark \in 0..b
    BY <2>2
  <2> QED BY <2>1, <2>2, <2>3, <2>4
<1>2. CASE i > n
  <2>1. i = n + 1 /\ r[i].mark \in 0..b /\ \A j \in 1..n : s[j].at = "argument" => s[j].mark <= r[i].mark
    BY <1>2
  <2>2. r[i].mark <= r[i].mark
    BY <2>1
  <2>3. \A j \in 1..i : j \in 1..n \/ j = i
    BY <2>1
  <2> QED BY <2>1, <2>2, <2>3
<1> QED BY <1>1, <1>2

-----------------------------------------------------------------------------
(* Decisions, step by step.                                                 *)

\* A step of the frame at hand, which leaves the others alone: the frame ends,
\* goes on elsewhere, or goes below with what was decided so far marked.
Steps(mark) ==
  \/ \E terms : Return(terms)
  \/ \E g : Becomes(g) /\ g.at # "argument"
  \/ \E g, known, goal, depth : Descends(g, known, goal, depth) /\ (g.at = "argument" => g.mark = mark)

LEMMA Stepping ==
  ASSUME TypedInv, calls # <<>>, NEW mark, Steps(mark), NEW l, l = Len(calls)
  PROVE  /\ l \in Nat /\ l >= 1 /\ Sequence(calls') /\ Len(calls') \in Nat /\ l - 1 <= Len(calls')
         /\ \A i \in 1..(l - 1) : calls'[i] = calls[i]
         /\ \A i \in 1..Len(calls') : i > l - 1 /\ calls'[i].at = "argument" => i = l /\ calls'[i].mark = mark
         /\ verdict = "running"
<1>1. /\ Len(calls) \in Nat /\ Len(calls) >= 1
      /\ \A terms : Return(terms) =>
           /\ Sequence(calls') /\ Len(calls') = Len(calls) - 1
           /\ \A k \in 1..(Len(calls) - 1) : calls'[k] = calls[k]
      /\ \A f : Becomes(f) =>
           /\ Sequence(calls') /\ Len(calls') = Len(calls) /\ calls'[Len(calls)] = f
           /\ \A k \in 1..(Len(calls) - 1) : calls'[k] = calls[k]
      /\ \A f, known, goal, depth : Descends(f, known, goal, depth) =>
           /\ Sequence(calls') /\ Len(calls') = Len(calls) + 1 /\ calls'[Len(calls)] = f
           /\ calls'[Len(calls) + 1] = Frame(known, goal, depth, f.level + 1)
           /\ \A k \in 1..(Len(calls) - 1) : calls'[k] = calls[k]
  BY Moves DEF TypedInv, StackIs
<1>2. verdict = "running"
  BY AtHand
<1>3. CASE \E terms : Return(terms)
  BY <1>1, <1>2, <1>3
<1>4. CASE \E g : Becomes(g) /\ g.at # "argument"
  <2>1. PICK g : Becomes(g) /\ g.at # "argument"
    BY <1>4
  <2>2. /\ Sequence(calls') /\ Len(calls') = l /\ calls'[l] = g
        /\ \A k \in 1..(l - 1) : calls'[k] = calls[k]
    BY <1>1, <2>1
  <2>3. ASSUME NEW i \in 1..Len(calls'), i > l - 1, calls'[i].at = "argument" PROVE FALSE
    <3>1. i = l
      BY <1>1, <2>2, <2>3
    <3> QED BY <2>1, <2>2, <2>3, <3>1
  <2> QED BY <1>1, <1>2, <2>2, <2>3
<1>5. CASE \E g, known, goal, depth : Descends(g, known, goal, depth) /\ (g.at = "argument" => g.mark = mark)
  <2>1. PICK g, known, goal, depth : Descends(g, known, goal, depth) /\ (g.at = "argument" => g.mark = mark)
    BY <1>5
  <2> DEFINE top == Frame(known, goal, depth, g.level + 1)
  <2>2. /\ Sequence(calls') /\ Len(calls') = l + 1 /\ calls'[l] = g /\ calls'[l + 1] = top
        /\ \A k \in 1..(l - 1) : calls'[k] = calls[k]
    BY <1>1, <2>1
  <2>3. top.at # "argument"
    BY NewFrame
  <2> HIDE DEF top
  <2>4. ASSUME NEW i \in 1..Len(calls'), i > l - 1, calls'[i].at = "argument" PROVE i = l /\ calls'[i].mark = mark
    <3>1. i = l \/ i = l + 1
      BY <1>1, <2>2, <2>4
    <3> QED BY <2>1, <2>2, <2>3, <2>4, <3>1
  <2> QED BY <1>1, <1>2, <2>2, <2>4
<1> QED BY <1>3, <1>4, <1>5 DEF Steps

\* What was decided so far is as it was, or some of it is forgotten.
LEMMA MarksStay ==
  ASSUME TypedInv, OwnedInv, calls # <<>>, NEW mark, Steps(mark), mark \in 0..Len(decided), NEW b \in Nat, mark <= b, Len(decided) <= b \/ b = mark,
         \A i \in 1..(Len(calls) - 1) : calls[i].at = "argument" => calls[i].mark <= mark
  PROVE  MarksRise(calls', b)
<1> DEFINE l == Len(calls)
           n == l - 1
<1>1. /\ l \in Nat /\ l >= 1 /\ Len(calls') \in Nat /\ l - 1 <= Len(calls')
      /\ \A i \in 1..(l - 1) : calls'[i] = calls[i]
      /\ \A i \in 1..Len(calls') : i > l - 1 /\ calls'[i].at = "argument" => i = l /\ calls'[i].mark = mark
  BY Stepping
<1>2. MarksRise(calls, Len(decided)) /\ Len(decided) \in Nat
  BY RangeIs DEF OwnedInv
<1>3. \A i \in 1..n : calls[i].at = "argument" => calls[i].mark <= b
  <2> SUFFICES ASSUME NEW i \in 1..n, calls[i].at = "argument" PROVE calls[i].mark <= b
    OBVIOUS
  <2>1. i \in 1..Len(calls) /\ calls[i].mark <= mark
    BY <1>1
  <2>2. calls[i].mark \in 0..Len(decided)
    BY <1>2, <2>1 DEF MarksRise
  <2> QED BY <1>2, <2>1, <2>2
<1>4. mark \in 0..b
  BY <1>2
<1>5. n \in Nat /\ n <= l /\ n + 1 = l
  BY <1>1
<1>6. \A i \in 1..Len(calls') : i > n /\ calls'[i].at = "argument" =>
        i = n + 1 /\ calls'[i].mark \in 0..b /\ \A j \in 1..n : calls[j].at = "argument" => calls[j].mark <= calls'[i].mark
  BY <1>1, <1>4, <1>5
<1> HIDE DEF l, n
<1>7. n <= Len(calls) /\ Len(calls) \in Nat /\ \A i \in 1..n : calls'[i] = calls[i]
  BY <1>1, <1>5 DEF l, n
<1> QED BY <1>1, <1>2, <1>3, <1>5, <1>6, <1>7, RiseStill

\* The marks below are no higher than what was decided, nor than the mark at hand.
LEMMA MarksBelow ==
  ASSUME TypedInv, OwnedInv, calls # <<>>
  PROVE  /\ Len(decided) \in Nat
         /\ \A i \in 1..(Len(calls) - 1) : calls[i].at = "argument" => calls[i].mark <= Len(decided)
         /\ Current.at = "argument" =>
              /\ Current.mark \in 0..Len(decided)
              /\ \A i \in 1..(Len(calls) - 1) : calls[i].at = "argument" => calls[i].mark <= Current.mark
<1>1. MarksRise(calls, Len(decided)) /\ Len(decided) \in Nat /\ Len(calls) \in Nat /\ Len(calls) >= 1
  BY RangeIs, AtHand DEF OwnedInv
<1>2. Len(calls) \in 1..Len(calls) /\ \A i \in 1..(Len(calls) - 1) : i \in 1..Len(calls)
  BY <1>1
<1>3. \A i \in 1..(Len(calls) - 1) : calls[i].at = "argument" => calls[i].mark <= Len(decided)
  <2> SUFFICES ASSUME NEW i \in 1..(Len(calls) - 1), calls[i].at = "argument" PROVE calls[i].mark <= Len(decided)
    OBVIOUS
  <2>1. calls[i].mark \in 0..Len(decided)
    BY <1>1, <1>2 DEF MarksRise
  <2> QED BY <1>1, <2>1
<1>4. ASSUME Current.at = "argument"
      PROVE  /\ Current.mark \in 0..Len(decided)
             /\ \A i \in 1..(Len(calls) - 1) : calls[i].at = "argument" => calls[i].mark <= Current.mark
  BY <1>1, <1>2, <1>4 DEF MarksRise, Current
<1> QED BY <1>1, <1>3, <1>4

\* A step of a frame that has nothing of what was decided.
LEMMA OwnedStep ==
  ASSUME TypedInv, OwnedInv, calls # <<>>, ~problem.many, decided' = decided, problem' = problem, verdict' = verdict,
         Current.at # "argument", Current.at \notin Waiting \/ returned = <<>>, Steps(Len(decided))
  PROVE  OwnedInv'
<1>0. PICK l : l = Len(calls)
  OBVIOUS
<1>1. /\ l \in Nat /\ l >= 1 /\ Len(calls') \in Nat /\ l - 1 <= Len(calls')
      /\ \A i \in 1..(l - 1) : calls'[i] = calls[i] /\ verdict = "running"
  BY <1>0, Stepping
<1>2. /\ Len(decided) \in Nat /\ Len(decided) \in 0..Len(decided) /\ Len(decided) <= Len(decided)
      /\ \A i \in 1..(Len(calls) - 1) : calls[i].at = "argument" => calls[i].mark <= Len(decided)
  BY MarksBelow
<1>3. MarksRise(calls', Len(decided))
  BY <1>2, MarksStay
<1>4. ASSUME NEW k \in 1..Len(decided)
      PROVE  IsTaken(problem, calls', Len(calls'), decided[k], k)
  <2>1. ~Pending(problem, calls, returned, decided[k], k)
    <3>1. IsDue(calls) => Current.at \in Waiting
      BY <1>0, <1>1 DEF IsDue, Current
    <3> QED BY <3>1 DEF Pending
  <2>2. PICK i \in 1..l : Taken(problem, calls, i, decided[k], k)
    BY <1>0, <2>1 DEF OwnedInv, IsTaken
  <2>3. i # l
    BY <1>0, <2>2 DEF Taken, Current
  <2>4. IsTaken(problem, calls, l - 1, decided[k], k)
    <3>1. i \in 1..(l - 1)
      BY <1>1, <2>3
    <3> QED BY <2>2, <3>1 DEF IsTaken
  <2>5. PICK n \in Nat : n = l - 1
    BY <1>1
  <2> QED BY <1>1, <2>4, <2>5, StaysTaken
<1>5. verdict = "running"
  BY AtHand
<1> QED BY <1>3, <1>4, <1>5 DEF OwnedInv

\* A frame that goes on somewhere else than at its arguments.
LEMMA ElsewhereIs ==
  ASSUME TypedInv, calls # <<>>, NEW place, place # "argument"
  PROVE  [Current EXCEPT !.at = place].at # "argument"
<1>1. IsFrame(Current)
  BY Hands
<1> QED BY <1>1 DEF IsFrame

LEMMA OwnedEnter ==
  ASSUME TypedInv, OwnedInv, ~problem.many,
         Stopped \/ Remembered \/ Cycle \/ Expand \/ ExactOne \/ IntroduceOne \/ Focus \/ TryOne \/ (BodyOne /\ returned = <<>>)
  PROVE  OwnedInv'
<1>1. calls # <<>> /\ problem' = problem /\ verdict' = verdict /\ decided' = decided
  BY DEF Stopped, Remembered, Cycle, Expand, ExactOne, IntroduceOne, Focus, TryOne, BodyOne, Enters, Reached, counters
<1>2. Current.at # "argument" /\ (Current.at \notin Waiting \/ returned = <<>>)
  BY DEF Stopped, Remembered, Cycle, Expand, ExactOne, IntroduceOne, Focus, TryOne, BodyOne, Enters, Reached, Waiting
<1>3. IsFrame(Current)
  BY <1>1, Hands
<1>4. Steps(Len(decided))
  <2>1. CASE Stopped \/ Remembered \/ Cycle
    BY <2>1 DEF Steps, Stopped, Remembered, Cycle
  <2>2. CASE Expand
    <3> DEFINE place == IF problem.many THEN "arrow" ELSE "exact"
               g == [Current EXCEPT !.at = place, !.before = pruned]
    <3>1. Becomes(g)
      BY <2>2 DEF Expand
    <3>2. g.at = place
      BY <1>3 DEF IsFrame
    <3> HIDE DEF g
    <3> QED BY <3>1, <3>2 DEF Steps
  <2>3. CASE ExactOne
    <3> DEFINE g == [Current EXCEPT !.at = "introduce"]
    <3>1. Becomes(g) \/ \E terms : Return(terms)
      BY <2>3 DEF ExactOne
    <3>2. g.at # "argument"
      BY <1>1, ElsewhereIs
    <3> HIDE DEF g
    <3> QED BY <3>1, <3>2 DEF Steps
  <2>4. CASE IntroduceOne
    <3> DEFINE g == [Current EXCEPT !.at = "focus"]
               h == [Current EXCEPT !.at = "body"]
    <3>1. Becomes(g) \/ (\E terms : Return(terms)) \/ \E known, goal, depth : Descends(h, known, goal, depth)
      BY <2>4 DEF IntroduceOne
    <3>2. g.at # "argument" /\ h.at # "argument"
      BY <1>1, ElsewhereIs
    <3> HIDE DEF g, h
    <3> QED BY <3>1, <3>2 DEF Steps
  <2>5. CASE Focus
    <3>1. PICK order : Becomes([Current EXCEPT !.at = "try", !.actions = order])
      BY <2>5 DEF Focus
    <3> DEFINE g == [Current EXCEPT !.at = "try", !.actions = order]
    <3>2. Becomes(g) /\ g.at = "try"
      BY <1>3, <3>1 DEF IsFrame
    <3> HIDE DEF g
    <3> QED BY <3>2 DEF Steps
  <2>6. CASE TryOne
    <3> DEFINE g == [Current EXCEPT !.at = "argument", !.args = <<>>, !.mark = Len(decided)]
    <3>1. (\E terms : Return(terms)) \/ \E known, goal, depth : Descends(g, known, goal, depth)
      BY <2>6 DEF TryOne
    <3>2. g.mark = Len(decided)
      BY <1>3 DEF IsFrame
    <3> HIDE DEF g
    <3> QED BY <3>1, <3>2 DEF Steps
  <2>7. CASE BodyOne /\ returned = <<>>
    <3> DEFINE g == [Current EXCEPT !.at = "focus"]
    <3>1. Becomes(g) \/ \E terms : Return(terms)
      BY <2>7 DEF BodyOne
    <3>2. g.at # "argument"
      BY <1>1, ElsewhereIs
    <3> HIDE DEF g
    <3> QED BY <3>1, <3>2 DEF Steps
  <2> QED BY <2>1, <2>2, <2>3, <2>4, <2>5, <2>6, <2>7
<1> QED BY <1>1, <1>2, <1>4, OwnedStep

-----------------------------------------------------------------------------
(* Decisions and arguments.                                                 *)

\* When the frame at hand ends, what it comes back with is looked at.
LEMMA NowDue ==
  ASSUME TypedInv, calls # <<>>, NEW terms, Return(terms)
  PROVE  /\ IsDue(calls') /\ Len(calls') = Len(calls) - 1 /\ Len(calls) \in Nat /\ Len(calls) >= 1
         /\ \A k \in 1..(Len(calls) - 1) : calls'[k] = calls[k]
<1>1. /\ Len(calls) \in Nat /\ Len(calls) >= 1 /\ Len(calls') = Len(calls) - 1
      /\ \A k \in 1..(Len(calls) - 1) : calls'[k] = calls[k]
  BY Moves DEF TypedInv, StackIs
<1>2. \A k \in 1..(Len(calls) - 1) : calls[k].at \in Waiting
  BY DEF TypedInv, StackIs
<1>3. CASE Len(calls) = 1
  BY <1>1, <1>3 DEF IsDue
<1>4. CASE Len(calls) # 1
  <2>1. Len(calls) - 1 \in 1..(Len(calls) - 1)
    BY <1>1, <1>4
  <2> QED BY <1>1, <1>2, <2>1 DEF IsDue
<1> QED BY <1>1, <1>3, <1>4

\* The frame at hand comes back with a term that has what it and the last term had.
LEMMA PendingStays ==
  ASSUME TypedInv, OwnedInv, calls # <<>>, NEW term, Return(<<term>>), problem' = problem, NEW k, NEW d,
         Marked(calls, Len(calls), k) \/ Marked(calls, Len(calls) - 1, k), HasHead(problem, d, term)
  PROVE  Pending(problem, calls', returned', d, k)
<1>1. /\ IsDue(calls') /\ Len(calls') = Len(calls) - 1 /\ Len(calls) \in Nat /\ Len(calls) >= 1
      /\ \A i \in 1..(Len(calls) - 1) : calls'[i] = calls[i]
  BY NowDue
<1>2. Marked(calls', Len(calls) - 1, k)
  <2>1. \A i \in 1..(Len(calls) - 1) : i \in 1..Len(calls)
    BY <1>1
  <2>2. \A i \in 1..(Len(calls) - 1) : calls[i].at = "argument" => calls[i].mark < k
    BY <2>1 DEF Marked
  <2> QED BY <1>1, <2>2 DEF Marked
<1>3. returned' = <<term>>
  BY DEF Return
<1>4. returned' # <<>> /\ returned'[1] = term
  BY <1>3
<1> QED BY <1>1, <1>2, <1>4 DEF Pending

LEMMA OwnedBody ==
  ASSUME TypedInv, OwnedInv, ~problem.many, BodyOne, returned # <<>>
  PROVE  OwnedInv'
<1> DEFINE term == Lambda(1, returned[1])
<1>1. /\ calls # <<>> /\ Current.at = "body" /\ problem' = problem /\ verdict' = verdict /\ decided' = decided
      /\ Return(<<term>>)
  BY DEF BodyOne, Reached, counters
<1>0. PICK l : l = Len(calls)
  OBVIOUS
<1>2. /\ l \in Nat /\ l >= 1 /\ Len(calls') = l - 1 /\ \A i \in 1..(l - 1) : calls'[i] = calls[i]
  BY <1>0, <1>1, NowDue
<1>3. MarksRise(calls', Len(decided))
  <2>1. Steps(Len(decided))
    BY <1>1 DEF Steps
  <2>2. /\ Len(decided) \in Nat /\ Len(decided) \in 0..Len(decided) /\ Len(decided) <= Len(decided)
        /\ \A i \in 1..(Len(calls) - 1) : calls[i].at = "argument" => calls[i].mark <= Len(decided)
    BY <1>1, MarksBelow
  <2> QED BY <1>1, <2>1, <2>2, MarksStay
<1>4. ASSUME NEW k \in 1..Len(decided)
      PROVE  IsTaken(problem, calls', Len(calls'), decided[k], k) \/ Pending(problem, calls', returned', decided[k], k)
  <2>1. CASE IsTaken(problem, calls, l, decided[k], k)
    <3>1. PICK i \in 1..l : Taken(problem, calls, i, decided[k], k)
      BY <2>1 DEF IsTaken
    <3>2. i # l
      BY <1>0, <1>1, <3>1 DEF Taken, Current
    <3>3. PICK n \in Nat : n = l - 1
      BY <1>2
    <3>4. IsTaken(problem, calls, n, decided[k], k)
      <4>1. i \in 1..n
        BY <1>2, <3>2, <3>3
      <4> QED BY <3>1, <4>1 DEF IsTaken
    <3>5. IsTaken(problem, calls', n, decided[k], k)
      BY <1>2, <3>3, <3>4, StaysTaken
    <3> QED BY <1>2, <3>3, <3>5
  <2>2. CASE Pending(problem, calls, returned, decided[k], k)
    <3>1. HasHead(problem, decided[k], returned[1]) /\ Marked(calls, Len(calls), k)
      BY <2>2 DEF Pending
    <3>2. HasHead(problem, decided[k], term)
      BY <3>1, HasUnder
    <3> HIDE DEF term
    <3> QED BY <1>1, <3>1, <3>2, PendingStays
  <2>3. IsTaken(problem, calls, l, decided[k], k) \/ Pending(problem, calls, returned, decided[k], k)
    BY <1>0 DEF OwnedInv
  <2> QED BY <2>1, <2>2, <2>3
<1>5. verdict = "running"
  BY <1>1, AtHand
<1> QED BY <1>1, <1>3, <1>4, <1>5 DEF OwnedInv

\* What was decided before the frame at hand began to ask.
LEMMA OwnedAbandon ==
  ASSUME TypedInv, OwnedInv, ~problem.many, calls # <<>>, Current.at = "argument", returned = <<>>,
         decided' = Abandons(Current), problem' = problem, verdict' = verdict,
         Return(<<>>) \/ Becomes([Current EXCEPT !.at = "try", !.actions = Tail(@), !.failed = @ \cup {Head(Current.actions)}])
  PROVE  OwnedInv'
<1>0. PICK l, m : l = Len(calls) /\ m = Current.mark
  OBVIOUS
<1>1. Steps(m)
  <2> DEFINE g == [Current EXCEPT !.at = "try", !.actions = Tail(@), !.failed = @ \cup {Head(Current.actions)}]
  <2>1. Return(<<>>) \/ Becomes(g)
    OBVIOUS
  <2>2. g.at = "try"
    BY Hands DEF IsFrame
  <2> HIDE DEF g
  <2> QED BY <2>1, <2>2 DEF Steps
<1>2. /\ Len(decided) \in Nat /\ m \in 0..Len(decided)
      /\ \A i \in 1..(l - 1) : calls[i].at = "argument" => calls[i].mark <= m
  BY <1>0, MarksBelow
<1>3. /\ l \in Nat /\ l >= 1 /\ Len(calls') \in Nat /\ l - 1 <= Len(calls')
      /\ \A i \in 1..(l - 1) : calls'[i] = calls[i]
  BY <1>0, <1>1, Stepping
<1>4. Sequence(decided') /\ Len(decided') = m /\ \A k \in 1..m : decided'[k] = decided[k] /\ k \in 1..Len(decided)
  <2>1. PICK S : decided \in Seq(S)
    BY DEF OwnedInv, Sequence
  <2>2. decided' = SubSeq(decided, 1, m)
    BY <1>0 DEF Abandons
  <2>3. 1 \in 1..(Len(decided) + 1) /\ m \in (1 - 1)..Len(decided) /\ m - 1 + 1 = m
    BY <1>2
  <2>4. /\ decided' \in Seq(S) /\ Len(decided') = m - 1 + 1
        /\ \A k \in 1..(m - 1 + 1) : decided'[k] = decided[1 + k - 1]
    BY <2>1, <2>2, <2>3, Slice
  <2>5. \A k \in 1..m : 1 + k - 1 = k /\ k \in 1..Len(decided)
    BY <1>2
  <2> QED BY <2>3, <2>4, <2>5 DEF Sequence
<1>5. MarksRise(calls', Len(decided'))
  <2>1. m \in Nat /\ m <= m
    BY <1>2
  <2> QED BY <1>0, <1>1, <1>2, <1>4, <2>1, MarksStay
<1>6. ASSUME NEW k \in 1..Len(decided')
      PROVE  IsTaken(problem, calls', Len(calls'), decided'[k], k)
  <2>0. decided'[k] = decided[k] /\ k \in 1..Len(decided) /\ ~(m < k)
    BY <1>2, <1>4
  <2>1. PICK i \in 1..l : Taken(problem, calls, i, decided[k], k)
    BY <1>0, <2>0 DEF OwnedInv, Pending, IsTaken
  <2>2. i # l
    <3>1. SUFFICES ASSUME i = l PROVE FALSE
      OBVIOUS
    <3>2. Marked(calls, l, k)
      BY <2>1, <3>1 DEF Taken
    <3>3. l \in 1..l
      BY <1>3
    <3> QED BY <1>0, <2>0, <3>2, <3>3 DEF Marked, Current
  <2>3. PICK n \in Nat : n = l - 1
    BY <1>3
  <2>4. IsTaken(problem, calls, n, decided[k], k)
    <3>1. i \in 1..n
      BY <1>3, <2>2, <2>3
    <3> QED BY <2>1, <3>1 DEF IsTaken
  <2>5. IsTaken(problem, calls', Len(calls'), decided[k], k)
    BY <1>3, <2>3, <2>4, StaysTaken
  <2> QED BY <2>0, <2>5
<1>7. verdict = "running"
  BY AtHand
<1> QED BY <1>4, <1>5, <1>6, <1>7 DEF OwnedInv

\* One more argument is taken.
LEMMA OwnedTakes ==
  ASSUME TypedInv, OwnedInv, ~problem.many, calls # <<>>, Current.at = "argument", returned # <<>>,
         decided' = decided, problem' = problem, verdict' = verdict,
         NEW known, NEW goal, NEW depth, Descends([Current EXCEPT !.args = Current.args \o returned], known, goal, depth)
  PROVE  OwnedInv'
<1> DEFINE args == Current.args \o returned
           g == [Current EXCEPT !.args = args]
<1>0. PICK l : l = Len(calls)
  OBVIOUS
<1>a. /\ Len(args) = Len(Current.args) + 1 /\ Len(Current.args) \in Nat
      /\ \A k \in 1..Len(Current.args) : args[k] = Current.args[k]
      /\ args[Len(Current.args) + 1] = returned[1]
  BY Argued
<1>d. Descends(g, known, goal, depth)
  OBVIOUS
<1> HIDE DEF args
<1>1. g.at = "argument" /\ g.mark = Current.mark /\ g.args = args
  BY Hands DEF IsFrame
<1> HIDE DEF g
<1>2. Steps(Current.mark)
  BY <1>d, <1>1 DEF Steps
<1>3. /\ l \in Nat /\ l >= 1 /\ Len(calls') = l + 1 /\ calls'[l] = g /\ \A i \in 1..(l - 1) : calls'[i] = calls[i]
  BY <1>0, <1>d, Moves DEF TypedInv, StackIs
<1>4. MarksRise(calls', Len(decided))
  <2>1. /\ Len(decided) \in Nat /\ Current.mark \in 0..Len(decided) /\ Current.mark <= Len(decided) /\ Len(decided) <= Len(decided)
        /\ \A i \in 1..(Len(calls) - 1) : calls[i].at = "argument" => calls[i].mark <= Current.mark
    BY MarksBelow
  <2> QED BY <1>2, <2>1, MarksStay
<1>5. ASSUME NEW k \in 1..Len(decided)
      PROVE  IsTaken(problem, calls', Len(calls'), decided[k], k)
  <2>1. ASSUME Marked(calls, l, k), NEW j \in 1..Len(args), HasHead(problem, decided[k], args[j])
        PROVE  IsTaken(problem, calls', Len(calls'), decided[k], k)
    <3>1. Marked(calls', l, k)
      <4> SUFFICES ASSUME NEW i \in 1..l, calls'[i].at = "argument" PROVE calls'[i].mark < k
        BY DEF Marked
      <4>1. CASE i = l
        <5>1. calls[l].mark < k
          BY <1>0, <2>1, <4>1 DEF Marked, Current
        <5> QED BY <1>0, <1>1, <1>3, <4>1, <5>1 DEF Current
      <4>2. CASE i # l
        <5>1. i \in 1..(l - 1)
          BY <1>3, <4>2
        <5> QED BY <1>3, <2>1, <5>1 DEF Marked
      <4> QED BY <4>1, <4>2
    <3>2. Taken(problem, calls', l, decided[k], k)
      BY <1>1, <1>3, <2>1, <3>1 DEF Taken
    <3>3. l \in 1..Len(calls')
      BY <1>3
    <3> QED BY <3>2, <3>3 DEF IsTaken
  <2>2. CASE IsTaken(problem, calls, l, decided[k], k)
    <3>1. PICK i \in 1..l : Taken(problem, calls, i, decided[k], k)
      BY <2>2 DEF IsTaken
    <3>2. CASE i = l
      <4>1. PICK j \in 1..Len(Current.args) : HasHead(problem, decided[k], Current.args[j])
        BY <1>0, <3>1, <3>2 DEF Taken, Current
      <4>2. j \in 1..Len(args) /\ args[j] = Current.args[j]
        BY <1>a
      <4>3. Marked(calls, l, k)
        BY <3>1, <3>2 DEF Taken
      <4> QED BY <2>1, <4>1, <4>2, <4>3
    <3>3. CASE i # l
      <4>1. PICK n \in Nat : n = l - 1
        BY <1>3
      <4>2. IsTaken(problem, calls, n, decided[k], k)
        <5>1. i \in 1..n
          BY <1>3, <3>3, <4>1
        <5> QED BY <3>1, <5>1 DEF IsTaken
      <4>3. Len(calls') \in Nat /\ n <= Len(calls') /\ \A e \in 1..n : calls'[e] = calls[e]
        BY <1>3, <4>1
      <4> QED BY <4>2, <4>3, StaysTaken
    <3> QED BY <3>2, <3>3
  <2>3. CASE Pending(problem, calls, returned, decided[k], k)
    <3>1. HasHead(problem, decided[k], returned[1]) /\ Marked(calls, l, k)
      BY <1>0, <2>3 DEF Pending
    <3>2. Len(Current.args) + 1 \in 1..Len(args)
      BY <1>a
    <3> QED BY <1>a, <2>1, <3>1, <3>2
  <2>4. IsTaken(problem, calls, l, decided[k], k) \/ Pending(problem, calls, returned, decided[k], k)
    BY <1>0 DEF OwnedInv
  <2> QED BY <2>2, <2>3, <2>4
<1>6. verdict = "running"
  BY AtHand
<1> QED BY <1>4, <1>5, <1>6 DEF OwnedInv

\* The action has its arguments, and is decided for.
LEMMA OwnedDecides ==
  ASSUME TypedInv, OwnedInv, ~problem.many, calls # <<>>, Current.at = "argument", returned # <<>>,
         problem' = problem, verdict' = verdict,
         NEW action, action = Head(Current.actions), NEW args, args = Current.args \o returned, Len(args) = Len(action.domains),
         NEW head, head = HeadAt(action.assumption, Current.depth),
         NEW term, term = Applied(head, args), Return(<<term>>),
         \/ decided' = decided
         \/ \E d : decided' = Append(decided, d) /\ HeadOf(d) = <<action.assumption.name, Len(action.domains)>>
  PROVE  OwnedInv'
<1>0. PICK l, b : l = Len(calls) /\ b = Len(decided)
  OBVIOUS
<1>a. /\ Sequence(args) /\ Len(args) = Len(Current.args) + 1 /\ Len(Current.args) \in Nat
      /\ \A k \in 1..Len(Current.args) : args[k] = Current.args[k]
      /\ args[Len(Current.args) + 1] = returned[1]
      /\ \A k \in 1..Len(args) : ArgShows(problem, Height, args[k], Current, Current.actions[1].domains[k])
  BY Argued
<1>1. PICK h \in Nat : h = Height
  BY Hands
<1>2. \A k \in 1..Len(args) : args[k] \in TermsOf(problem, h)
  BY <1>1, <1>a, TypedTerms DEF ArgShows
<1>3. head \in HeadSet(problem) /\ head.name = action.assumption.name
  <2>1. Sequence(Current.actions) /\ Current.actions # <<>> /\ ActionsFit(problem, Current)
    <3>1. ActionsFit(problem, Current)
      BY Hands
    <3>2. FrameIs(problem, Height, Current)
      BY AtHand
    <3> QED BY <3>1, <3>2 DEF ActionsFit, FrameIs, ArgsShow
  <2>2. action = Current.actions[1] /\ 1 \in 1..Len(Current.actions)
    BY <2>1, FirstAndRest
  <2>3. FitsGoal(problem, SequentOf(Current), Current.actions[1])
    BY <2>1, <2>2 DEF ActionsFit
  <2>4. head \in HeadSet(problem)
    BY <2>2, <2>3, SequentParts DEF FitsGoal
  <2>5. head.name = action.assumption.name
    BY DEF HeadAt
  <2> QED BY <2>4, <2>5
<1>4. \A d : HeadOf(d) = <<head.name, Len(args)>> \/ (\E k \in 1..Len(args) : HasHead(problem, d, args[k])) => HasHead(problem, d, term)
  BY <1>2, <1>3, <1>a, HasOver
<1>5. /\ l \in Nat /\ l >= 1 /\ Len(calls') = l - 1 /\ \A i \in 1..(l - 1) : calls'[i] = calls[i]
  BY <1>0, NowDue
<1>6. /\ b \in Nat /\ \A i \in 1..(l - 1) : calls[i].at = "argument" => calls[i].mark <= b
      /\ MarksRise(calls, b)
  BY <1>0, MarksBelow DEF OwnedInv
<1>7. ASSUME NEW k \in 1..b
      PROVE  IsTaken(problem, calls', Len(calls'), decided[k], k) \/ Pending(problem, calls', returned', decided[k], k)
  <2>1. ASSUME Marked(calls, l, k), NEW j \in 1..Len(args), HasHead(problem, decided[k], args[j])
        PROVE  Pending(problem, calls', returned', decided[k], k)
    <3>1. HasHead(problem, decided[k], term)
      BY <1>4, <2>1
    <3> QED BY <1>0, <2>1, <3>1, PendingStays
  <2>2. CASE IsTaken(problem, calls, l, decided[k], k)
    <3>1. PICK i \in 1..l : Taken(problem, calls, i, decided[k], k)
      BY <2>2 DEF IsTaken
    <3>2. CASE i = l
      <4>1. PICK j \in 1..Len(Current.args) : HasHead(problem, decided[k], Current.args[j])
        BY <1>0, <3>1, <3>2 DEF Taken, Current
      <4>2. j \in 1..Len(args) /\ args[j] = Current.args[j]
        BY <1>a
      <4>3. Marked(calls, l, k)
        BY <3>1, <3>2 DEF Taken
      <4> QED BY <2>1, <4>1, <4>2, <4>3
    <3>3. CASE i # l
      <4>1. PICK n \in Nat : n = l - 1
        BY <1>5
      <4>2. IsTaken(problem, calls, n, decided[k], k)
        <5>1. i \in 1..n
          BY <1>5, <3>3, <4>1
        <5> QED BY <3>1, <5>1 DEF IsTaken
      <4>3. n <= n /\ Len(calls') = n /\ \A e \in 1..n : calls'[e] = calls[e]
        BY <1>5, <4>1
      <4> QED BY <4>2, <4>3, StaysTaken
    <3> QED BY <3>2, <3>3
  <2>3. CASE Pending(problem, calls, returned, decided[k], k)
    <3>1. HasHead(problem, decided[k], returned[1]) /\ Marked(calls, l, k)
      BY <1>0, <2>3 DEF Pending
    <3>2. Len(Current.args) + 1 \in 1..Len(args)
      BY <1>a
    <3> QED BY <1>a, <2>1, <3>1, <3>2
  <2>4. IsTaken(problem, calls, l, decided[k], k) \/ Pending(problem, calls, returned, decided[k], k)
    BY <1>0 DEF OwnedInv
  <2> QED BY <2>2, <2>3, <2>4
<1>8. Sequence(decided) /\ verdict = "running"
  BY AtHand DEF OwnedInv
<1>9. CASE decided' = decided
  <2>1. MarksRise(calls', b)
    <3>1. Steps(b) /\ b \in 0..Len(decided) /\ b <= b /\ Len(decided) <= b
      BY <1>0, <1>6 DEF Steps
    <3> QED BY <1>0, <1>6, <3>1, MarksStay
  <2> QED BY <1>0, <1>7, <1>8, <1>9, <2>1 DEF OwnedInv
<1>10. CASE \E d : decided' = Append(decided, d) /\ HeadOf(d) = <<action.assumption.name, Len(action.domains)>>
  <2>1. PICK d : decided' = Append(decided, d) /\ HeadOf(d) = <<action.assumption.name, Len(action.domains)>>
    BY <1>10
  <2>2. Sequence(decided') /\ Len(decided') = b + 1 /\ decided'[b + 1] = d /\ \A k \in 1..b : decided'[k] = decided[k]
    BY <1>0, <1>8, <2>1, Pushed
  <2>3. MarksRise(calls', b + 1)
    <3>1. PICK c \in Nat : c = b + 1
      BY <1>6
    <3>2. Steps(b) /\ b \in 0..Len(decided) /\ b <= c /\ Len(decided) <= c
      BY <1>0, <1>6, <3>1 DEF Steps
    <3>3. MarksRise(calls', c)
      BY <1>0, <1>6, <3>2, MarksStay
    <3> QED BY <3>1, <3>3
  <2>4. Pending(problem, calls', returned', d, b + 1)
    <3>1. HasHead(problem, d, term)
      BY <1>3, <1>4, <2>1
    <3>2. Marked(calls, Len(calls) - 1, b + 1)
      <4> SUFFICES ASSUME NEW i \in 1..(l - 1), calls[i].at = "argument" PROVE calls[i].mark < b + 1
        BY <1>0 DEF Marked
      <4>1. i \in 1..Len(calls)
        BY <1>0, <1>5
      <4>2. calls[i].mark \in 0..b
        BY <1>6, <4>1 DEF MarksRise
      <4> QED BY <1>6, <4>2
    <3> QED BY <3>1, <3>2, PendingStays
  <2>5. ASSUME NEW k \in 1..Len(decided')
        PROVE  IsTaken(problem, calls', Len(calls'), decided'[k], k) \/ Pending(problem, calls', returned', decided'[k], k)
    <3>1. CASE k \in 1..b
      BY <1>7, <2>2, <3>1
    <3>2. CASE k = b + 1
      BY <2>2, <2>4, <3>2
    <3>3. k \in 1..b \/ k = b + 1
      BY <1>6, <2>2
    <3> QED BY <3>1, <3>2, <3>3
  <2> QED BY <1>8, <2>2, <2>3, <2>5 DEF OwnedInv
<1> QED BY <1>9, <1>10

LEMMA OwnedArgument ==
  ASSUME TypedInv, OwnedInv, ~problem.many, ArgumentOne
  PROVE  OwnedInv'
<1> DEFINE f == Current
           action == Head(f.actions)
           args == f.args \o returned
           head == HeadAt(action.assumption, f.depth)
           term == Applied(head, args)
           d == [sequent |-> SequentOf(f), positive |-> action, negatives |-> f.failed]
<1>1. calls # <<>> /\ f.at = "argument" /\ problem' = problem /\ verdict' = verdict
  BY DEF ArgumentOne, Reached
<1>2. \/ /\ returned = <<>> /\ decided' = Abandons(f)
         /\ Return(<<>>) \/ Becomes([f EXCEPT !.at = "try", !.actions = Tail(@), !.failed = @ \cup {action}])
      \/ /\ returned # <<>> /\ decided' = decided
         /\ Descends([f EXCEPT !.args = args], f.known, action.domains[Len(args) + 1], f.depth)
      \/ /\ returned # <<>> /\ Len(args) = Len(action.domains) /\ Return(<<term>>)
         /\ decided' = decided \/ decided' = Append(decided, d)
  BY DEF ArgumentOne
<1>3. CASE /\ returned = <<>> /\ decided' = Abandons(f)
           /\ Return(<<>>) \/ Becomes([f EXCEPT !.at = "try", !.actions = Tail(@), !.failed = @ \cup {action}])
  BY <1>1, <1>3, OwnedAbandon
<1>4. CASE /\ returned # <<>> /\ decided' = decided
           /\ Descends([f EXCEPT !.args = args], f.known, action.domains[Len(args) + 1], f.depth)
  BY <1>1, <1>4, OwnedTakes
<1>5. CASE /\ returned # <<>> /\ Len(args) = Len(action.domains) /\ Return(<<term>>)
           /\ decided' = decided \/ decided' = Append(decided, d)
  <2>1. HeadOf(d) = <<action.assumption.name, Len(action.domains)>>
    BY DEF HeadOf
  <2> HIDE DEF d
  <2>2. \/ decided' = decided
        \/ \E e : decided' = Append(decided, e) /\ HeadOf(e) = <<action.assumption.name, Len(action.domains)>>
    BY <1>5, <2>1
  <2> HIDE DEF action, args, head, term
  <2>3. action = Head(Current.actions) /\ args = Current.args \o returned /\ head = HeadAt(action.assumption, Current.depth)
        /\ term = Applied(head, args)
    BY Zenon DEF action, args, head, term
  <2> QED BY <1>1, <1>5, <2>2, <2>3, OwnedDecides
<1> QED BY <1>2, <1>3, <1>4, <1>5, Zenon

-----------------------------------------------------------------------------
(* The decisions that leave the search.                                     *)

LEMMA OnlyArgumentsDecide ==
  ASSUME [FocusedNext]_focusedVars
  PROVE  problem' = problem /\ (decided' = decided \/ ArgumentOne)
BY DEF FocusedNext, FocusedStep, focusedVars, counters, Begin, Stopped, Remembered, Cycle, Expand, ExactOne, IntroduceOne,
       BodyOne, Focus, TryOne, ArgumentOne, IntroduceMany, BodiesMany, ExactsMany, TryMany, ArgumentsMany, FocusedFinish, FocusedExpires

\* A search for several terms decides nothing.
LEMMA OwnedByNone ==
  ASSUME TypedInv, TypedInv', OwnedInv, problem.many, problem' = problem, decided' = decided
  PROVE  OwnedInv'
<1>1. decided' = <<>> /\ Len(decided') = 0 /\ Sequence(decided') /\ problem'.many
  BY DEF OwnedInv
<1>2. MarksRise(calls', Len(decided'))
  <2>1. \A i \in 1..Len(calls') : FrameIs(problem', Height', calls'[i])
    BY DEF TypedInv, StackIs
  <2>2. \A i \in 1..Len(calls') : calls'[i].at # "argument"
    BY <1>1, <2>1 DEF FrameIs, Stands, ManyPlaces
  <2> QED BY <2>2 DEF MarksRise
<1>3. \A k \in 1..Len(decided') : FALSE
  BY <1>1
<1> QED BY <1>1, <1>2, <1>3 DEF OwnedInv

LEMMA OwnedBegin ==
  ASSUME TypedInv, OwnedInv, Begin
  PROVE  OwnedInv'
<1>1. /\ verdict = "asked" /\ problem' = problem /\ returned' = returned /\ decided' = decided
      /\ \/ calls' = calls
         \/ calls' = <<Frame(ContextOf(problem), problem.goal, 0, 0)>>
  BY DEF Begin, ContextOf
<1>2. calls = <<>> /\ returned = <<>> /\ Sequence(decided)
  BY <1>1 DEF TypedInv, OwnedInv
<1>3. Len(decided) \in Nat
  BY <1>2, RangeIs
<1>4. \A k \in 1..Len(decided) : FALSE
  <2> SUFFICES ASSUME NEW k \in 1..Len(decided) PROVE FALSE
    OBVIOUS
  <2>1. IsTaken(problem, calls, Len(calls), decided[k], k)
    BY <1>2 DEF OwnedInv, Pending
  <2>2. \A i \in 1..Len(calls) : FALSE
    BY <1>2
  <2> QED BY <2>1, <2>2 DEF IsTaken
<1>5. MarksRise(calls', Len(decided))
  <2>1. CASE calls' = calls
    BY <2>1 DEF OwnedInv
  <2>2. CASE calls' = <<Frame(ContextOf(problem), problem.goal, 0, 0)>>
    <3> DEFINE f == Frame(ContextOf(problem), problem.goal, 0, 0)
    <3>1. f.at # "argument"
      BY NewFrame
    <3>2. calls' = <<f>>
      BY <2>2
    <3> HIDE DEF f
    <3>3. Len(calls') = 1 /\ calls'[1] = f
      BY <3>2
    <3>4. \A i \in 1..Len(calls') : calls'[i].at # "argument"
      BY <3>1, <3>3
    <3> QED BY <3>4 DEF MarksRise
  <2> QED BY <1>1, <2>1, <2>2
<1> QED BY <1>1, <1>2, <1>4, <1>5 DEF OwnedInv

LEMMA OwnedStays ==
  ASSUME OwnedInv, UNCHANGED <<problem, calls, returned, decided>>,
         problem.many \/ verdict' \in {"asked", "running", "solved"} \/ returned = <<>>
  PROVE  OwnedInv'
BY DEF OwnedInv

LEMMA OwnedInitially == FocusedInit => OwnedInv
<1> SUFFICES ASSUME FocusedInit PROVE OwnedInv
  OBVIOUS
<1>1. calls = <<>> /\ decided = <<>> /\ verdict = "asked"
  BY DEF FocusedInit
<1>2. <<>> \in Seq({}) /\ Len(<<>>) = 0
  OBVIOUS
<1>3. Sequence(decided) /\ (\A k \in 1..Len(decided) : FALSE) /\ (\A k \in 1..Len(calls) : FALSE)
  BY <1>1, <1>2 DEF Sequence
<1>4. MarksRise(calls, Len(decided))
  BY <1>3 DEF MarksRise
<1> QED BY <1>1, <1>3, <1>4 DEF OwnedInv

LEMMA OwnedKeeps ==
  ASSUME TypedInv, OwnedInv, [FocusedNext]_focusedVars
  PROVE  OwnedInv'
<1>1. TypedInv'
  BY TypedKeeps
<1>2. problem' = problem /\ (decided' = decided \/ ArgumentOne)
  BY OnlyArgumentsDecide
<1>3. ASSUME ArgumentOne PROVE ~problem.many
  <2>1. calls # <<>> /\ Current.at \in OnePlaces
    BY <1>3 DEF ArgumentOne, Reached, OnePlaces
  <2> QED BY <2>1, Hands
<1>4. CASE problem.many
  BY <1>1, <1>2, <1>3, <1>4, OwnedByNone
<1>5. CASE ~problem.many
  <2>1. CASE Begin
    BY <2>1, OwnedBegin
  <2>2. CASE Stopped \/ Remembered \/ Cycle \/ Expand \/ ExactOne \/ IntroduceOne \/ Focus \/ TryOne \/ (BodyOne /\ returned = <<>>)
    BY <1>5, <2>2, OwnedEnter
  <2>3. CASE BodyOne /\ returned # <<>>
    BY <1>5, <2>3, OwnedBody
  <2>4. CASE ArgumentOne
    BY <1>5, <2>4, OwnedArgument
  <2>5. CASE IntroduceMany \/ BodiesMany \/ ExactsMany \/ TryMany \/ ArgumentsMany
    <3>1. calls # <<>> /\ Current.at \in ManyPlaces
      BY <2>5 DEF IntroduceMany, BodiesMany, ExactsMany, TryMany, ArgumentsMany, Reached, ManyPlaces
    <3> QED BY <1>5, <3>1, Hands
  <2>6. CASE FocusedFinish
    <3>1. UNCHANGED <<problem, calls, returned, decided>> /\ (problem.many \/ verdict' = "solved" \/ returned = <<>>)
      BY <2>6 DEF FocusedFinish
    <3> QED BY <3>1, OwnedStays
  <2>7. CASE FocusedExpires
    <3>1. UNCHANGED <<problem, calls, returned, decided>> /\ verdict' = verdict
      BY <2>7 DEF FocusedExpires
    <3>2. problem.many \/ verdict' \in {"asked", "running", "solved"} \/ returned = <<>>
      BY <3>1 DEF OwnedInv
    <3> QED BY <3>1, <3>2, OwnedStays
  <2>8. CASE UNCHANGED focusedVars
    <3>1. UNCHANGED <<problem, calls, returned, decided>> /\ verdict' = verdict
      BY <2>8 DEF focusedVars
    <3>2. problem.many \/ verdict' \in {"asked", "running", "solved"} \/ returned = <<>>
      BY <3>1 DEF OwnedInv
    <3> QED BY <3>1, <3>2, OwnedStays
  <2> QED
    BY <2>1, <2>2, <2>3, <2>4, <2>5, <2>6, <2>7, <2>8 DEF FocusedNext, FocusedStep
<1> QED BY <1>4, <1>5

LEMMA OwnedShows == TypedInv /\ OwnedInv => LabelsBelong
<1> SUFFICES ASSUME TypedInv, OwnedInv, verdict \notin {"asked", "running"}, NEW k \in DOMAIN decided
             PROVE  /\ verdict = "solved"
                    /\ <<decided[k].positive.assumption.name, Len(decided[k].positive.domains)>>
                         \in Storeys(problem)[considered].heads[returned[1]]
  BY DEF LabelsBelong
<1>1. calls = <<>> /\ considered \in Nat
  BY DEF TypedInv
<1>2. k \in 1..Len(decided) /\ Len(decided) \in Nat
  <2>1. Sequence(decided)
    BY DEF OwnedInv
  <2> QED BY <2>1, RangeIs
<1>3. ~problem.many
  <2> SUFFICES ASSUME problem.many PROVE FALSE
    OBVIOUS
  <2>1. decided = <<>>
    BY DEF OwnedInv
  <2> QED BY <1>2, <2>1
<1>4. returned # <<>> /\ HasHead(problem, decided[k], returned[1])
  <2>1. ~IsTaken(problem, calls, Len(calls), decided[k], k)
    <3>1. \A i \in 1..Len(calls) : FALSE
      BY <1>1
    <3> QED BY <3>1 DEF IsTaken
  <2> QED BY <1>2, <2>1 DEF OwnedInv, Pending
<1>5. verdict = "solved"
  BY <1>3, <1>4 DEF OwnedInv
<1>6. returned[1] \in TermsOf(problem, considered)
  <2>1. AllShow(problem, Height, returned, Due(problem, calls))
    BY <1>1, NoStack DEF TypedInv
  <2>2. Sequence(returned)
    BY <2>1 DEF AllShow
  <2>3. Len(returned) \in Nat /\ Len(returned) >= 1 /\ DOMAIN returned = 1..Len(returned)
    BY <1>4, <2>2, Popped, RangeIs
  <2>4. 1 \in DOMAIN returned
    BY <2>3
  <2>5. HasType(problem, considered, returned[1], problem.goal, <<>>)
    BY <2>4, TypedShows DEF TermsAreTyped
  <2> QED BY <1>1, <2>5, TypedTerms
<1>7. HeadOf(decided[k]) \in HeadsOf(problem, considered, returned[1])
  BY <1>1, <1>4, <1>6, HasAt
<1> QED BY <1>5, <1>7 DEF HeadOf, HeadsOf

-----------------------------------------------------------------------------
(* What is proved of the search.                                           *)

\* What is known of the terms and of the decisions at every step.
FocusedProofInv == TypedInv /\ OwnedInv

\* A step of whoever runs the search may leave the search alone.
LEMMA ProofsStay ==
  ASSUME FocusedProofInv, UNCHANGED <<problem, calls, returned, memo, considered, decided, verdict>>
  PROVE  FocusedProofInv'
<1>1. TypedInv'
  BY TypedStays DEF FocusedProofInv
<1>2. OwnedInv'
  BY DEF FocusedProofInv, OwnedInv, Current
<1> QED BY <1>1, <1>2 DEF FocusedProofInv

LEMMA ProofsKeep ==
  ASSUME FocusedProofInv, [FocusedNext]_focusedVars
  PROVE  FocusedProofInv'
BY TypedKeeps, OwnedKeeps DEF FocusedProofInv

LEMMA FocusedProofInvariant == FocusedSpec => []FocusedProofInv
<1>1. FocusedInit => FocusedProofInv
  BY TypedInitially, OwnedInitially DEF FocusedProofInv
<1>2. FocusedProofInv /\ [FocusedNext]_focusedVars => FocusedProofInv'
  BY ProofsKeep
<1> QED BY <1>1, <1>2, PTL DEF FocusedSpec

\* Every term the focused search remembers or returns has the type it was found
\* for, wherever the memo entry it was made from was found.
THEOREM FoundTermsAreTyped == FocusedSpec => []TermsAreTyped
<1>1. FocusedProofInv => TermsAreTyped
  BY TypedShows DEF FocusedProofInv
<1> QED BY <1>1, FocusedProofInvariant, PTL

\* Every decision that leaves the focused search was made in the term it returns:
\* its head is there, with as many arguments.
THEOREM DecisionsBelong == FocusedSpec => []LabelsBelong
<1>1. FocusedProofInv => LabelsBelong
  BY OwnedShows DEF FocusedProofInv
<1> QED BY <1>1, FocusedProofInvariant, PTL

================================================================================
