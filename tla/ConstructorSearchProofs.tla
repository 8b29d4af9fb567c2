------------------------ MODULE ConstructorSearchProofs ------------------------
(***************************************************************************)
(* The structural search for every goal, every request and every answer of *)
(* Agda: what is on the stack fits together, so a solution that reaches    *)
(* the root closes it and its plan has one node for every action.          *)
(*                                                                         *)
(* The heart of it: an activation works on the state in which the goals of *)
(* its parent from its own on are open, and a solution of it is offered in *)
(* the state in which the ones after it are.  Neither depends on how often *)
(* the generators below were resumed.                                      *)
(***************************************************************************)
EXTENDS ConstructorSearch, FiniteSetTheorems, WellFoundedInduction, TLAPS

-----------------------------------------------------------------------------
(* Types.                                                                  *)

Tokens == [open : SUBSET Nat, next : Nat, made : Nat, hidden : BOOLEAN]
Plans == [size : Nat, rec : BOOLEAN]
Links == [up : Int, nth : Int, sum : Plans]
Offered == [token : Tokens, plan : Plans, link : Links]
Keeping == [token : Tokens, keys : Seq(Sequents), nth : Int]
Kids == [goal : Nat, key : Sequents]
Intros == {"unasked", "one", "many", "cannot", "accepted", "record"}
Owners == Subjects \cup {"call", Nobody}
Activations ==
  [goal : Nat, key : Sequents, token : Tokens, depth : Nat, path : SUBSET Sequents, stop : Nat,
   link : Links, route : DOMAIN Route, at : Nat, left : Int, won : BOOLEAN, intro : Intros,
   ready : SUBSET Keeping, kids : Seq(Kids), grant : Nat, quota : Nat, width : Nat, owner : Owners]
Results == [token : Tokens, plan : Plans, again : BOOLEAN]
Statuses == {"asked", "running", "solved", "resource-exhausted", "no-proof", "raised"}

-----------------------------------------------------------------------------
(* Kernel states.                                                          *)

\* Interaction points are numbered in the order they are made.
Sound(t) == t \in Tokens /\ \A g \in t.open : g < t.next

\* u is reached from t by one action that replaces the goal by n others.
Follows(t, goal, n, u) ==
  /\ Sound(u) /\ u.next = t.next + n /\ u.made = t.made + 1
  /\ u.open = (t.open \ {goal}) \cup (t.next..(t.next + n - 1))

\* The goals of the link's parent from the n-th on, with what is open around it.
Rest(s, link, n) ==
  IF link.up = 0 THEN (n - 1)..0
  ELSE LET p == s[link.up]
       IN  (p.token.open \ {p.goal}) \cup
             ((p.token.next + n - 1)..(p.token.next + Len(p.kids) - 1))

\* The goal of the link, the actions before it, and a bound on the points so far.
GoalOf(s, link) == IF link.up = 0 THEN 0 ELSE s[link.up].token.next + link.nth - 1
MadeBefore(s, link) == IF link.up = 0 THEN 0 ELSE s[link.up].token.made + 1 + link.sum.size
NextAfter(s, link) == IF link.up = 0 THEN 1 ELSE s[link.up].token.next + Len(s[link.up].kids)

\* The place of the k-th of s: below its own position, one of its parent's kids.
Linked(s, k, link) ==
  /\ link.up \in 0..k - 1 /\ link.nth >= 1
  /\ IF link.up = 0 THEN link.nth = 1 ELSE link.nth <= Len(s[link.up].kids)

-----------------------------------------------------------------------------
(* One activation.                                                         *)

Core(r, f) ==
  /\ f \in Activations /\ Sound(f.token) /\ f.goal \in f.token.open /\ IsFiniteSet(f.ready)
  /\ f.depth <= r.depth + 1 /\ (f.route # "entering" => f.depth <= r.depth)
  /\ \A c \in f.ready : Follows(f.token, f.goal, Len(c.keys), c.token)
  /\ \A i \in DOMAIN f.kids : f.kids[i].goal = f.token.next + i - 1

\* A lane at which premises are tried, where the request and the goal allow it.
Wide(r, f, lane) ==
  /\ lane \in {"premises", "skeletons"} /\ lane \in r.found /\ f.key.head # "opaque"
  /\ lane = "skeletons" => ~(r.defer /\ f.key.nullary)
  /\ lane = "premises" => ~r.defer

Place(r, f) ==
  /\ f.at \in 1..Len(Route[f.route]) /\ (f.route = "entering" => f.at = 1)
  /\ Lane(f) \in {"premises", "skeletons"} => Wide(r, f, Lane(f))
  /\ Lane(f) = "copattern" => f.left <= 1
  /\ f.owner # Nobody => (f.owner = "call" <=> Lane(f) = "copattern")

-----------------------------------------------------------------------------
(* The invariant.                                                          *)

Scalars ==
  /\ ask \in Requests /\ status \in Statuses
  /\ spent \in Nat /\ spent <= Spendable /\ queries \in Nat /\ queries <= QueryLimit
  /\ saw \in BOOLEAN /\ late \in BOOLEAN /\ calling \in BOOLEAN
  /\ results \in Seq(Results) /\ offer \in Offered
  /\ status # "running" => stack = <<>> /\ offer = NoOffer
  /\ status = "asked" => spent = 0 /\ results = <<>>

\* The k-th activation of s works where its elder siblings left off.
Thread(r, s, k) ==
  LET f == s[k] IN
  /\ Core(r, f) /\ Place(r, f) /\ Linked(s, k, f.link)
  /\ f.goal = GoalOf(s, f.link) /\ f.token.open = Rest(s, f.link, f.link.nth)
  /\ f.token.made = MadeBefore(s, f.link) /\ f.token.next >= NextAfter(s, f.link)
  /\ f.link.up > 0 => f.depth = s[f.link.up].depth + 1 /\ s[f.link.up].route # "entering"

Threads == stack \in Seq(Activations) /\ \A k \in 1..Len(stack) : Thread(ask, stack, k)

\* A solution on its way leaves open what comes after its link.
Fits(s, o) ==
  /\ Sound(o.token) /\ Linked(s, Len(s), o.link)
  /\ o.token.open = Rest(s, o.link, o.link.nth + 1)
  /\ o.token.made = MadeBefore(s, o.link) + o.plan.size
  /\ o.token.next >= NextAfter(s, o.link)
  /\ o.link.up > 0 => s[o.link.up].route # "entering"

OfferFits == offer # NoOffer => Fits(stack, offer)

MarkHeld(s, mark) == \E k \in 1..Len(s) : s[k].owner = mark
Singly(s) == \A k, l \in 1..Len(s) : k # l /\ s[k].owner # Nobody => s[k].owner # s[l].owner

\* A copattern call that may still be made is the newest activation's, while
\* no other is open and no solution is on its way.
Waits ==
  \A k \in 1..Len(stack) :
    Lane(stack[k]) = "copattern" /\ stack[k].left > 0 => k = Len(stack) /\ ~calling /\ offer = NoOffer

\* The marks are held once each.
Marks ==
  /\ calling <=> MarkHeld(stack, "call")
  /\ \A s : s \in subjects <=> s \in Subjects /\ MarkHeld(stack, s)
  /\ Singly(stack) /\ Waits

Inv == Scalars /\ Threads /\ OfferFits /\ Marks /\ ResultsAreWhole

-----------------------------------------------------------------------------
(* Lemmas about the operators.                                             *)

\* A set of positions has a least one.
LEMMA LeastNatural ==
  ASSUME NEW S, S \subseteq Nat, S # {}
  PROVE  Least(S) \in S
<1>1. PICK R : IsWellFoundedOn(R, Nat) /\ \A m, n \in Nat : m < n => <<m, n>> \in R
  <2>1. IsWellFoundedOn(OpToRel(<, Nat), Nat)
    BY NatLessThanWellFounded
  <2>2. \A m, n \in Nat : m < n => <<m, n>> \in OpToRel(<, Nat)
    BY DEF OpToRel
  <2> QED BY <2>1, <2>2, Zenon
<1>2. PICK n \in S : \A m \in S : ~(<<m, n>> \in R)
  <2>1. IsWellFoundedOn(R, Nat)
    BY <1>1
  <2> QED BY <2>1, WFMin, Zenon
<1>3. \A m \in S : ~(m < n)
  BY <1>1, <1>2
<1>4. \A m \in S : n <= m
  BY <1>3
<1> QED BY <1>4 DEF Least

\* The state and the plan a search starts with.
LEMMA Roots ==
  /\ RootToken \in Tokens /\ Sound(RootToken) /\ RootToken.open = {0} /\ RootToken.next = 1
  /\ RootToken.made = 0 /\ RootToken.hidden = FALSE
  /\ NoPlan \in Plans /\ NoPlan.size = 0
BY DEF RootToken, Token, Tokens, Sound, NoPlan, Plan, Plans

\* A plan of one action.
LEMMA Leaves ==
  ASSUME NEW rec \in BOOLEAN
  PROVE  Leaf(rec) \in Plans /\ Leaf(rec).size = 1
BY DEF Leaf, Plan, Plans

\* Joining plans adds their actions.
LEMMA JoinedSizes ==
  ASSUME NEW p \in Plans, NEW q \in Plans
  PROVE  Joined(p, q) \in Plans /\ Joined(p, q).size = p.size + q.size
BY DEF Joined, Plan, Plans

\* Whether an action hides an obligation is a truth value.
LEMMA HidesOrNot ==
  ASSUME NEW t \in Tokens, NEW h \in Hides(t)
  PROVE  h \in BOOLEAN
BY DEF Hides, Tokens

\* A give replaces its goal by none.
LEMMA GivenFollows ==
  ASSUME NEW t, Sound(t), NEW goal, NEW u \in Given(t, goal)
  PROVE  Follows(t, goal, 0, u)
<1>1. t \in Tokens /\ t.next \in Nat /\ t.made \in Nat /\ t.open \in SUBSET Nat
      /\ \A g \in t.open : g < t.next
  BY DEF Sound, Tokens
<1>2. PICK h \in Hides(t) : u = Token(t.open \ {goal}, t.next, t.made + 1, h)
  BY DEF Given
<1>3. h \in BOOLEAN
  BY <1>1, HidesOrNot
<1>4. /\ u \in Tokens /\ u.open = t.open \ {goal} /\ u.next = t.next /\ u.made = t.made + 1
  BY <1>1, <1>2, <1>3 DEF Token, Tokens
<1>5. t.next..(t.next + 0 - 1) = {}
  BY <1>1
<1> QED BY <1>1, <1>4, <1>5 DEF Follows, Sound

\* A refinement replaces its goal by new ones.
LEMMA RefinedFollows ==
  ASSUME NEW t, Sound(t), NEW goal, NEW n \in Nat, NEW u \in Refined(t, goal, n)
  PROVE  Follows(t, goal, n, u)
<1>1. t \in Tokens /\ t.next \in Nat /\ t.made \in Nat /\ t.open \in SUBSET Nat
      /\ \A g \in t.open : g < t.next
  BY DEF Sound, Tokens
<1> DEFINE new == {t.next + i : i \in 0..(n - 1)}
<1>2. PICK h \in Hides(t) : u = Token((t.open \ {goal}) \cup new, t.next + n, t.made + 1, h)
  BY DEF Refined
<1>3. h \in BOOLEAN
  BY <1>1, HidesOrNot
<1>4. new = t.next..(t.next + n - 1)
  <2>1. ASSUME NEW g \in t.next..(t.next + n - 1)
        PROVE  g \in new
    <3>1. g - t.next \in 0..(n - 1) /\ g = t.next + (g - t.next)
      BY <1>1, <2>1
    <3> QED BY <3>1
  <2>2. ASSUME NEW g \in new
        PROVE  g \in t.next..(t.next + n - 1)
    BY <1>1, <2>2
  <2> QED BY <2>1, <2>2
<1> HIDE DEF new
<1>5. /\ u.open = (t.open \ {goal}) \cup new /\ u.next = t.next + n /\ u.made = t.made + 1
      /\ u.open \in SUBSET Nat /\ u \in Tokens
  <2>1. (t.open \ {goal}) \cup new \in SUBSET Nat /\ t.next + n \in Nat
    BY <1>1, <1>4
  <2> QED BY <1>1, <1>2, <1>3, <2>1 DEF Token, Tokens
<1>6. \A g \in u.open : g < u.next
  BY <1>1, <1>4, <1>5
<1> QED BY <1>4, <1>5, <1>6 DEF Follows, Sound

\* The goals after the n-th are those from the n-th on without it.
LEMMA RestWithout ==
  ASSUME NEW s, NEW link,
         link.up = 0 => link.nth = 1,
         link.up # 0 => /\ Sound(s[link.up].token) /\ link.nth \in Nat /\ link.nth >= 1
                        /\ Len(s[link.up].kids) \in Nat /\ link.nth <= Len(s[link.up].kids)
  PROVE  Rest(s, link, link.nth) \ {GoalOf(s, link)} = Rest(s, link, link.nth + 1)
<1>1. CASE link.up = 0
  BY <1>1 DEF Rest, GoalOf
<1>2. CASE link.up # 0
  <2> DEFINE p == s[link.up]
  <2>1. /\ p.token.next \in Nat /\ p.token.open \subseteq Nat /\ \A g \in p.token.open : g < p.token.next
        /\ link.nth \in Nat /\ link.nth >= 1 /\ Len(p.kids) \in Nat /\ link.nth <= Len(p.kids)
    BY <1>2 DEF Sound, Tokens
  <2>2. /\ Rest(s, link, link.nth) = (p.token.open \ {p.goal}) \cup
             ((p.token.next + link.nth - 1)..(p.token.next + Len(p.kids) - 1))
        /\ Rest(s, link, link.nth + 1) = (p.token.open \ {p.goal}) \cup
             ((p.token.next + (link.nth + 1) - 1)..(p.token.next + Len(p.kids) - 1))
        /\ GoalOf(s, link) = p.token.next + link.nth - 1
    BY <1>2 DEF Rest, GoalOf
  <2> HIDE DEF p
  <2> DEFINE a == p.token.next + link.nth - 1
             b == p.token.next + Len(p.kids) - 1
             around == p.token.open \ {p.goal}
  <2>3. a \in Int /\ b \in Int /\ a \notin around /\ a <= b
    BY <2>1
  <2>a. p.token.next + (link.nth + 1) - 1 = a + 1
    BY <2>1
  <2>4. /\ Rest(s, link, link.nth) = around \cup (a..b) /\ GoalOf(s, link) = a
        /\ Rest(s, link, link.nth + 1) = around \cup ((a + 1)..b)
    BY <2>2, <2>a
  <2> HIDE DEF a, b, around
  <2>5. (a..b) \ {a} = (a + 1)..b
    BY <2>3
  <2> QED BY <2>3, <2>4, <2>5
<1> QED BY <1>1, <1>2

-----------------------------------------------------------------------------
(* What a step of the newest activation comes to.                          *)

\* Another state of the same activation.
Kin(f, g) == g.goal = f.goal /\ g.key = f.key /\ g.token = f.token /\ g.link = f.link /\ g.depth = f.depth

Fine(f, owner) == Core(ask, f) /\ Place(ask, f) /\ Kin(Top, f) /\ f.owner = owner

Done(f) == Lane(f) = "copattern" => f.left <= 0

\* It stays the newest, or offers a solution, or starts the first goal of its
\* introduction, or returns.
Stays(g) == stack' = Put(g) /\ offer' = offer /\ (Lane(g) = "copattern" /\ g.left > 0 => ~calling')

Yields(g) ==
  /\ Done(g) /\ stack' = Put(g)
  /\ \E u \in Tokens, rec \in BOOLEAN :
       /\ Follows(Top.token, Top.goal, 0, u)
       /\ offer' = [token |-> u, plan |-> Leaf(rec), link |-> Top.link]

Begins(g) ==
  /\ Done(g) /\ g.route # "entering" /\ Len(g.kids) >= 1
  /\ \E u \in Tokens :
       /\ Follows(Top.token, Top.goal, Len(g.kids), u)
       /\ stack' = Append(Put(g), Child(g, 1, u, NoPlan, Len(stack)))
  /\ offer' = offer

Pops == stack' = Below /\ offer' = offer

Move(owner) == \E g \in Activations : Fine(g, owner) /\ (Stays(g) \/ Yields(g) \/ Begins(g))

Turn == Scalars /\ Threads /\ stack # <<>>

\* The newest activation is itself in order.
LEMMA TopIsFine ==
  ASSUME Turn
  PROVE  /\ Top \in Activations /\ Fine(Top, Top.owner) /\ Len(stack) \in Nat \ {0}
         /\ Thread(ask, stack, Len(stack)) /\ Sound(Top.token) /\ Top.goal \in Top.token.open
<1>1. stack \in Seq(Activations) /\ stack # <<>>
  BY DEF Turn, Threads
<1>2. Len(stack) \in Nat \ {0} /\ Len(stack) \in 1..Len(stack) /\ Top \in Activations
  BY <1>1 DEF Top
<1>3. Thread(ask, stack, Len(stack))
  BY <1>2 DEF Turn, Threads
<1>4. Core(ask, Top) /\ Place(ask, Top)
  BY <1>3 DEF Thread, Top
<1>5. Kin(Top, Top)
  BY DEF Kin
<1> QED BY <1>2, <1>3, <1>4, <1>5 DEF Fine, Core

\* What an activation in order keeps of the newest one.
LEMMA FineIsTyped ==
  ASSUME NEW f, NEW o, Fine(f, o)
  PROVE  /\ f \in Activations /\ Sound(f.token) /\ f.token = Top.token /\ f.goal = Top.goal
         /\ f.link = Top.link /\ f.owner = o /\ f.left \in Int /\ f.at \in Nat
BY DEF Fine, Core, Kin, Activations

\* An activation that is entering is in the lane that enters.
LEMMA EnteringEnters ==
  ASSUME NEW f, Place(ask, f), f.route = "entering"
  PROVE  Lane(f) = "enter"
BY DEF Place, Lane, Route

\* A try is used up.
LEMMA UsedIsFine ==
  ASSUME NEW f, NEW o, Fine(f, o)
  PROVE  Fine(Used(f), o) /\ Done(Used(f)) /\ Used(f) \in Activations /\ Lane(Used(f)) = Lane(f)
<1>1. f \in Activations /\ f.left \in Int
  BY FineIsTyped
<1>2. /\ Used(f) \in Activations /\ Used(f).left = f.left - 1
      /\ \A x \in {"goal", "key", "token", "depth", "path", "stop", "link", "route", "at", "won", "intro",
                   "ready", "kids", "grant", "quota", "width", "owner"} : Used(f)[x] = f[x]
  <2>1. \A x \in DOMAIN f \ {"left"} : Used(f)[x] = f[x]
    BY DEF Used
  <2>2. "left" \in DOMAIN f
    BY <1>1 DEF Activations
  <2>3. Used(f).left = f.left - 1
    BY <2>2 DEF Used
  <2>4. {"goal", "key", "token", "depth", "path", "stop", "link", "route", "at", "won", "intro",
         "ready", "kids", "grant", "quota", "width", "owner"} \subseteq DOMAIN f \ {"left"}
    BY <1>1 DEF Activations
  <2>5. Used(f) \in Activations
    BY <1>1, SMTT(60) DEF Used, Activations
  <2> QED BY <2>1, <2>3, <2>4, <2>5, Zenon
<1>3. Lane(Used(f)) = Lane(f)
  BY <1>2 DEF Lane
<1>4. Core(ask, Used(f))
  BY <1>2 DEF Fine, Core
<1>5. Place(ask, Used(f)) /\ Done(Used(f))
  BY <1>1, <1>2, <1>3 DEF Fine, Place, Wide, Done
<1>6. Kin(Top, Used(f)) /\ Used(f).owner = o
  BY <1>2 DEF Fine, Kin
<1> QED BY <1>2, <1>3, <1>4, <1>5, <1>6 DEF Fine

\* An edit in the lane keeps an activation in order.
LEMMA EditIsFine ==
  ASSUME NEW f, NEW o, Fine(f, o), NEW g \in Activations, Kin(f, g),
         g.route = f.route, g.at = f.at, g.left <= f.left, IsFiniteSet(g.ready),
         \A c \in g.ready : Follows(f.token, f.goal, Len(c.keys), c.token),
         \A i \in DOMAIN g.kids : g.kids[i].goal = f.token.next + i - 1,
         g.owner # Nobody => (g.owner = "call" <=> Lane(f) = "copattern")
  PROVE  Fine(g, g.owner) /\ Lane(g) = Lane(f) /\ (Done(f) => Done(g))
<1>1. f \in Activations /\ f.left \in Int /\ g.left \in Int
  BY FineIsTyped DEF Activations
<1>2. Lane(g) = Lane(f)
  BY DEF Lane
<1>3. Core(ask, g)
  BY DEF Fine, Core, Kin
<1>4. Place(ask, g)
  BY <1>1, <1>2 DEF Fine, Place, Wide, Kin
<1>5. Done(f) => Done(g)
  BY <1>1, <1>2 DEF Done
<1>6. Kin(Top, g)
  BY DEF Fine, Kin
<1> QED BY <1>2, <1>3, <1>4, <1>5, <1>6 DEF Fine

\* The lane has given a solution.
LEMMA WonIsFine ==
  ASSUME NEW f, NEW o, Fine(f, o), Done(f)
  PROVE  LET g == [f EXCEPT !.won = TRUE]
         IN  Fine(g, o) /\ Done(g) /\ g \in Activations /\ Lane(g) = Lane(f)
<1> DEFINE g == [f EXCEPT !.won = TRUE]
<1>1. f \in Activations
  BY FineIsTyped
<1>2. /\ g \in Activations
      /\ \A x \in {"goal", "key", "token", "depth", "path", "stop", "link", "route", "at", "left", "intro",
                   "ready", "kids", "grant", "quota", "width", "owner"} : g[x] = f[x]
  BY <1>1 DEF Activations
<1> HIDE DEF g
<1>3. Kin(f, g) /\ g.owner = o
  BY <1>2 DEF Kin, Fine
<1>4. Fine(g, g.owner) /\ Lane(g) = Lane(f) /\ (Done(f) => Done(g))
  <2>1. g.left <= f.left
    BY <1>1, <1>2 DEF Activations
  <2>2. /\ IsFiniteSet(g.ready)
        /\ \A c \in g.ready : Follows(f.token, f.goal, Len(c.keys), c.token)
        /\ \A i \in DOMAIN g.kids : g.kids[i].goal = f.token.next + i - 1
        /\ g.owner # Nobody => (g.owner = "call" <=> Lane(f) = "copattern")
    BY <1>2 DEF Fine, Core, Place
  <2> QED BY <1>2, <1>3, <2>1, <2>2, EditIsFine
<1>5. Fine(g, o) /\ Done(g) /\ g \in Activations /\ Lane(g) = Lane(f)
  BY <1>2, <1>3, <1>4
<1> QED BY <1>5 DEF g

\* The lane is cut short: it has nothing more to try.
LEMMA SpentIsFine ==
  ASSUME NEW f, NEW o, Fine(f, o), f.left > 0
  PROVE  LET g == [f EXCEPT !.left = 0, !.won = TRUE]
         IN  Fine(g, o) /\ Done(g) /\ g \in Activations /\ Lane(g) = Lane(f)
<1> DEFINE g == [f EXCEPT !.left = 0, !.won = TRUE]
<1>1. f \in Activations /\ f.left \in Int
  BY FineIsTyped
<1>2. /\ g \in Activations /\ g.left = 0
      /\ \A x \in {"goal", "key", "token", "depth", "path", "stop", "link", "route", "at", "intro",
                   "ready", "kids", "grant", "quota", "width", "owner"} : g[x] = f[x]
  <2> DEFINE h == [f EXCEPT !.left = 0]
  <2>1. /\ h \in Activations /\ h.left = 0
        /\ \A x \in {"goal", "key", "token", "depth", "path", "stop", "link", "route", "at", "intro",
                     "ready", "kids", "grant", "quota", "width", "owner"} : h[x] = f[x]
    BY <1>1 DEF Activations
  <2>2. g = [h EXCEPT !.won = TRUE]
    BY Zenon
  <2> HIDE DEF g, h
  <2> QED BY <2>1, <2>2 DEF Activations
<1> HIDE DEF g
<1>3. Kin(f, g) /\ g.owner = o
  BY <1>2 DEF Kin, Fine
<1>4. Fine(g, g.owner) /\ Lane(g) = Lane(f)
  <2>1. g.left <= f.left
    BY <1>1, <1>2
  <2>2. /\ IsFiniteSet(g.ready)
        /\ \A c \in g.ready : Follows(f.token, f.goal, Len(c.keys), c.token)
        /\ \A i \in DOMAIN g.kids : g.kids[i].goal = f.token.next + i - 1
        /\ g.owner # Nobody => (g.owner = "call" <=> Lane(f) = "copattern")
    BY <1>2 DEF Fine, Core, Place
  <2> QED BY <1>2, <1>3, <2>1, <2>2, EditIsFine
<1>5. Fine(g, o) /\ Done(g) /\ g \in Activations /\ Lane(g) = Lane(f)
  BY <1>2, <1>3, <1>4 DEF Done
<1> QED BY <1>5 DEF g

\* What Agda answered to an introduction is kept.
LEMMA IntroIsFine ==
  ASSUME NEW f, NEW o, Fine(f, o), Done(f), NEW how \in Intros
  PROVE  LET g == [f EXCEPT !.intro = how]
         IN  Fine(g, o) /\ Done(g) /\ g \in Activations /\ Lane(g) = Lane(f)
<1> DEFINE g == [f EXCEPT !.intro = how]
<1>1. f \in Activations /\ f.left \in Int
  BY FineIsTyped
<1>2. /\ g \in Activations
      /\ \A x \in {"goal", "key", "token", "depth", "path", "stop", "link", "route", "at", "left", "won",
                   "ready", "kids", "grant", "quota", "width", "owner"} : g[x] = f[x]
  BY <1>1 DEF Activations
<1> HIDE DEF g
<1>3. Kin(f, g) /\ g.owner = o
  BY <1>2 DEF Kin, Fine
<1>4. Fine(g, g.owner) /\ Lane(g) = Lane(f) /\ (Done(f) => Done(g))
  <2>1. g.left <= f.left
    BY <1>1, <1>2
  <2>2. /\ IsFiniteSet(g.ready)
        /\ \A c \in g.ready : Follows(f.token, f.goal, Len(c.keys), c.token)
        /\ \A i \in DOMAIN g.kids : g.kids[i].goal = f.token.next + i - 1
        /\ g.owner # Nobody => (g.owner = "call" <=> Lane(f) = "copattern")
    BY <1>2 DEF Fine, Core, Place
  <2> QED BY <1>2, <1>3, <2>1, <2>2, EditIsFine
<1>5. Fine(g, o) /\ Done(g) /\ g \in Activations /\ Lane(g) = Lane(f)
  BY <1>2, <1>3, <1>4
<1> QED BY <1>5 DEF g

\* The children get a slice of the queries.
LEMMA GrantIsFine ==
  ASSUME NEW f, NEW o, Fine(f, o), Done(f), NEW n \in Nat
  PROVE  LET g == [f EXCEPT !.grant = n]
         IN  Fine(g, o) /\ Done(g) /\ g \in Activations /\ Lane(g) = Lane(f)
<1> DEFINE g == [f EXCEPT !.grant = n]
<1>1. f \in Activations /\ f.left \in Int
  BY FineIsTyped
<1>2. /\ g \in Activations
      /\ \A x \in {"goal", "key", "token", "depth", "path", "stop", "link", "route", "at", "left", "won",
                   "ready", "kids", "intro", "quota", "width", "owner"} : g[x] = f[x]
  BY <1>1 DEF Activations
<1> HIDE DEF g
<1>3. Kin(f, g) /\ g.owner = o
  BY <1>2 DEF Kin, Fine
<1>4. Fine(g, g.owner) /\ Lane(g) = Lane(f) /\ (Done(f) => Done(g))
  <2>1. g.left <= f.left
    BY <1>1, <1>2
  <2>2. /\ IsFiniteSet(g.ready)
        /\ \A c \in g.ready : Follows(f.token, f.goal, Len(c.keys), c.token)
        /\ \A i \in DOMAIN g.kids : g.kids[i].goal = f.token.next + i - 1
        /\ g.owner # Nobody => (g.owner = "call" <=> Lane(f) = "copattern")
    BY <1>2 DEF Fine, Core, Place
  <2> QED BY <1>2, <1>3, <2>1, <2>2, EditIsFine
<1>5. Fine(g, o) /\ Done(g) /\ g \in Activations /\ Lane(g) = Lane(f)
  BY <1>2, <1>3, <1>4
<1> QED BY <1>5 DEF g

\* Committed constructors or kept evidence are noted.
LEMMA ReadyIsFine ==
  ASSUME NEW f, NEW o, Fine(f, o), Done(f), NEW K \in SUBSET Keeping, IsFiniteSet(K),
         \A c \in K : Follows(f.token, f.goal, Len(c.keys), c.token)
  PROVE  LET g == [f EXCEPT !.ready = K]
         IN  Fine(g, o) /\ Done(g) /\ g \in Activations /\ Lane(g) = Lane(f)
<1> DEFINE g == [f EXCEPT !.ready = K]
<1>1. f \in Activations /\ f.left \in Int
  BY FineIsTyped
<1>2. /\ g \in Activations /\ g.ready = K
      /\ \A x \in {"goal", "key", "token", "depth", "path", "stop", "link", "route", "at", "left", "won",
                   "grant", "kids", "intro", "quota", "width", "owner"} : g[x] = f[x]
  BY <1>1 DEF Activations
<1> HIDE DEF g
<1>3. Kin(f, g) /\ g.owner = o
  BY <1>2 DEF Kin, Fine
<1>4. Fine(g, g.owner) /\ Lane(g) = Lane(f) /\ (Done(f) => Done(g))
  <2>1. g.left <= f.left
    BY <1>1, <1>2
  <2>2. /\ IsFiniteSet(g.ready)
        /\ \A c \in g.ready : Follows(f.token, f.goal, Len(c.keys), c.token)
        /\ \A i \in DOMAIN g.kids : g.kids[i].goal = f.token.next + i - 1
        /\ g.owner # Nobody => (g.owner = "call" <=> Lane(f) = "copattern")
    BY <1>2 DEF Fine, Core, Place
  <2> QED BY <1>2, <1>3, <2>1, <2>2, EditIsFine
<1>5. Fine(g, o) /\ Done(g) /\ g \in Activations /\ Lane(g) = Lane(f)
  BY <1>2, <1>3, <1>4
<1> QED BY <1>5 DEF g

\* A mark is put on the activation whose introduction needs it.
LEMMA OwnerIsFine ==
  ASSUME NEW f, NEW o, Fine(f, o), NEW p \in Owners,
         p # Nobody => (p = "call" <=> Lane(f) = "copattern")
  PROVE  LET g == [f EXCEPT !.owner = p]
         IN  Fine(g, p) /\ (Done(f) => Done(g)) /\ g \in Activations /\ Lane(g) = Lane(f) /\ g.left = f.left
<1> DEFINE g == [f EXCEPT !.owner = p]
<1>1. f \in Activations /\ f.left \in Int
  BY FineIsTyped
<1>2. /\ g \in Activations /\ g.owner = p
      /\ \A x \in {"goal", "key", "token", "depth", "path", "stop", "link", "route", "at", "left", "won",
                   "grant", "kids", "intro", "quota", "width", "ready"} : g[x] = f[x]
  BY <1>1 DEF Activations
<1> HIDE DEF g
<1>3. Kin(f, g)
  BY <1>2 DEF Kin
<1>4. Fine(g, g.owner) /\ Lane(g) = Lane(f) /\ (Done(f) => Done(g))
  <2>1. g.left <= f.left
    BY <1>1, <1>2
  <2>2. /\ IsFiniteSet(g.ready)
        /\ \A c \in g.ready : Follows(f.token, f.goal, Len(c.keys), c.token)
        /\ \A i \in DOMAIN g.kids : g.kids[i].goal = f.token.next + i - 1
        /\ g.owner # Nobody => (g.owner = "call" <=> Lane(f) = "copattern")
    BY <1>2 DEF Fine, Core, Place
  <2> QED BY <1>2, <1>3, <2>1, <2>2, EditIsFine
<1>5. Fine(g, p) /\ (Done(f) => Done(g)) /\ g \in Activations /\ Lane(g) = Lane(f) /\ g.left = f.left
  BY <1>2, <1>3, <1>4
<1> QED BY <1>5 DEF g

\* The goals that an introduction leaves are numbered from the next point on.
LEMMA KidsAreFine ==
  ASSUME NEW f, NEW o, Fine(f, o), Done(f), NEW keys \in Seq(Sequents), NEW u,
         Follows(f.token, f.goal, Len(keys), u)
  PROVE  LET kids == [i \in 1..Len(keys) |-> [goal |-> u.next - Len(keys) + i - 1, key |-> keys[i]]]
             g == [f EXCEPT !.kids = kids]
         IN  /\ Fine(g, o) /\ Done(g) /\ g \in Activations /\ Lane(g) = Lane(f)
             /\ Len(g.kids) = Len(keys) /\ g.route = f.route
<1> DEFINE kids == [i \in 1..Len(keys) |-> [goal |-> u.next - Len(keys) + i - 1, key |-> keys[i]]]
           g == [f EXCEPT !.kids = kids]
<1>1. f \in Activations /\ f.left \in Int /\ f.token.next \in Nat /\ Len(keys) \in Nat
      /\ u.next = f.token.next + Len(keys)
  BY FineIsTyped DEF Sound, Tokens, Follows
<1>2. /\ kids \in Seq(Kids) /\ Len(kids) = Len(keys)
      /\ \A i \in DOMAIN kids : kids[i].goal = f.token.next + i - 1
  <2>1. ASSUME NEW i \in 1..Len(keys)
        PROVE  /\ u.next - Len(keys) + i - 1 = f.token.next + i - 1 /\ f.token.next + i - 1 \in Nat
               /\ keys[i] \in Sequents
    BY <1>1
  <2>2. kids \in [1..Len(keys) -> Kids]
    BY <2>1 DEF Kids
  <2>3. Len(kids) = Len(keys)
    BY <1>1
  <2>4. \A i \in DOMAIN kids : kids[i].goal = f.token.next + i - 1
    BY <2>1
  <2>5. kids \in Seq(Kids)
    <3> HIDE DEF kids
    <3> QED BY <1>1, <2>2
  <2> QED BY <2>3, <2>4, <2>5
<1> HIDE DEF kids
<1>3. /\ g \in Activations /\ g.kids = kids
      /\ \A x \in {"goal", "key", "token", "depth", "path", "stop", "link", "route", "at", "left", "won",
                   "ready", "grant", "intro", "quota", "width", "owner"} : g[x] = f[x]
  BY <1>1, <1>2 DEF Activations
<1> HIDE DEF g
<1>4. Kin(f, g) /\ g.owner = o
  BY <1>3 DEF Kin, Fine
<1>5. Fine(g, g.owner) /\ Lane(g) = Lane(f) /\ (Done(f) => Done(g))
  <2>1. g.left <= f.left
    BY <1>1, <1>3
  <2>2. /\ IsFiniteSet(g.ready)
        /\ \A c \in g.ready : Follows(f.token, f.goal, Len(c.keys), c.token)
        /\ g.owner # Nobody => (g.owner = "call" <=> Lane(f) = "copattern")
    BY <1>3 DEF Fine, Core, Place
  <2>3. \A i \in DOMAIN g.kids : g.kids[i].goal = f.token.next + i - 1
    BY <1>2, <1>3
  <2> QED BY <1>3, <1>4, <2>1, <2>2, <2>3, EditIsFine
<1>6. Fine(g, o) /\ Done(g) /\ g \in Activations /\ Lane(g) = Lane(f) /\ Len(g.kids) = Len(keys)
      /\ g.route = f.route
  BY <1>2, <1>3, <1>4, <1>5
<1> QED BY <1>6 DEF g, kids

-----------------------------------------------------------------------------
(* What a proposal comes to.                                               *)

\* A solution of the activation is one of its moves.
LEMMA OffersMove ==
  ASSUME NEW g \in Activations, NEW o, Fine(g, o), Done(g), stack' = Put(g),
         NEW u, Follows(Top.token, Top.goal, 0, u), NEW rec \in BOOLEAN, Offers(u, Leaf(rec), Top.link)
  PROVE  Move(o)
<1>1. u \in Tokens
  BY DEF Follows, Sound
<1>2. Yields(g)
  BY <1>1 DEF Yields, Offers
<1> QED BY <1>2 DEF Move

\* Staying the newest is one of the moves.
LEMMA StaysMove ==
  ASSUME NEW g \in Activations, NEW o, Fine(g, o), Done(g), stack' = Put(g), UNCHANGED offer
  PROVE  Move(o)
<1>1. g.left \in Int
  BY DEF Activations
<1>2. ~(Lane(g) = "copattern" /\ g.left > 0)
  BY <1>1 DEF Done
<1>3. Stays(g)
  BY <1>2 DEF Stays
<1> QED BY <1>3 DEF Move

\* A proposal that comes to nothing is a move.
LEMMA RejectsMove ==
  ASSUME NEW f, NEW o, Fine(f, o), Rejects(f)
  PROVE  Move(o)
<1>1. Fine(Used(f), o) /\ Done(Used(f)) /\ Used(f) \in Activations
  BY UsedIsFine
<1> QED BY <1>1, StaysMove DEF Rejects

\* The end of a give that Agda accepts.
LEMMA WinsMove ==
  ASSUME NEW f, NEW o, Fine(f, o), NEW u \in Given(f.token, f.goal), NEW rec \in BOOLEAN,
         NEW g \in Activations, Fine(g, o), Done(g), stack' = Put(g), Offers(u, Leaf(rec), f.link)
  PROVE  Move(o)
<1>1. Sound(f.token) /\ f.token = Top.token /\ f.goal = Top.goal /\ f.link = Top.link
  BY FineIsTyped
<1>2. Follows(f.token, f.goal, 0, u)
  BY <1>1, GivenFollows
<1>3. Follows(Top.token, Top.goal, 0, u) /\ Offers(u, Leaf(rec), Top.link)
  BY <1>1, <1>2
<1> QED BY <1>3, OffersMove

\* A give is a move, accepted or not.
LEMMA GivesMove ==
  ASSUME NEW f, NEW o, Fine(f, o), NEW rec \in BOOLEAN, Gives(f, rec)
  PROVE  Move(o)
<1>1. CASE Rejects(f)
  BY <1>1, RejectsMove
<1>2. ASSUME NEW u \in Given(f.token, f.goal),
             stack' = Put([Used(f) EXCEPT !.won = TRUE]), Offers(u, Leaf(rec), f.link)
      PROVE  Move(o)
  <2>1. Fine(Used(f), o) /\ Done(Used(f))
    BY UsedIsFine
  <2>2. LET g == [Used(f) EXCEPT !.won = TRUE] IN Fine(g, o) /\ Done(g) /\ g \in Activations
    BY <2>1, WonIsFine
  <2> QED BY <1>2, <2>2, WinsMove
<1> QED BY <1>1, <1>2 DEF Gives

\* An anonymous value is a move.
LEMMA AnonymousMoves ==
  ASSUME NEW f, NEW o, Fine(f, o), Anonymous(f)
  PROVE  Move(o)
<1>1. CASE Rejects(f)
  BY <1>1, RejectsMove
<1>2. ASSUME NEW u \in Given(f.token, f.goal),
             stack' = Put([Used(f) EXCEPT !.won = TRUE]), Offers(u, Leaf(FALSE), f.link)
      PROVE  Move(o)
  <2>1. Fine(Used(f), o) /\ Done(Used(f))
    BY UsedIsFine
  <2>2. LET g == [Used(f) EXCEPT !.won = TRUE] IN Fine(g, o) /\ Done(g) /\ g \in Activations
    BY <2>1, WonIsFine
  <2> QED BY <1>2, <2>2, WinsMove
<1> QED BY <1>1, <1>2 DEF Anonymous

\* An introduction is a move, with or without children.
LEMMA IntroducesMove ==
  ASSUME NEW f, NEW o, Fine(f, o), Done(f), f.route # "entering", NEW keys \in Seq(Sequents),
         NEW u, Follows(f.token, f.goal, Len(keys), u), Introduces(f, u, keys)
  PROVE  Move(o)
<1> DEFINE kids == [i \in 1..Len(keys) |-> [goal |-> u.next - Len(keys) + i - 1, key |-> keys[i]]]
           g == [f EXCEPT !.kids = kids]
<1>a. /\ Fine(g, o) /\ Done(g) /\ g \in Activations /\ Lane(g) = Lane(f)
      /\ Len(g.kids) = Len(keys) /\ g.route = f.route
  BY KidsAreFine, Zenon
<1> HIDE DEF g
<1>1. /\ Fine(g, o) /\ Done(g) /\ g \in Activations /\ Lane(g) = Lane(f)
      /\ Len(g.kids) = Len(keys) /\ g.route # "entering"
  BY <1>a
<1> USE DEF g
<1>2. f.token = Top.token /\ f.goal = Top.goal /\ f.link = Top.link /\ u \in Tokens
  BY FineIsTyped DEF Follows, Sound
<1>3. IF keys = <<>>
      THEN stack' = Put([g EXCEPT !.won = TRUE]) /\ Offers(u, Leaf(Lane(f) = "copattern"), f.link)
      ELSE stack' = Append(Put(g), Child(g, 1, u, NoPlan, Len(stack))) /\ UNCHANGED offer
  BY DEF Introduces
<1> HIDE DEF g
<1>4. CASE keys = <<>>
  <2>1. LET w == [g EXCEPT !.won = TRUE] IN Fine(w, o) /\ Done(w) /\ w \in Activations
    BY <1>1, WonIsFine
  <2>2. Follows(Top.token, Top.goal, 0, u)
    BY <1>2, <1>4
  <2>3. (Lane(f) = "copattern") \in BOOLEAN
    OBVIOUS
  <2>4. stack' = Put([g EXCEPT !.won = TRUE]) /\ Offers(u, Leaf(Lane(f) = "copattern"), Top.link)
    BY <1>2, <1>3, <1>4
  <2> HIDE DEF kids
  <2> QED BY <2>1, <2>2, <2>3, <2>4, OffersMove
<1>5. CASE keys # <<>>
  <2>1. Len(g.kids) >= 1
    BY <1>1, <1>5
  <2>2. Follows(Top.token, Top.goal, Len(g.kids), u)
    BY <1>1, <1>2
  <2>3. Begins(g)
    BY <1>1, <1>2, <1>3, <1>5, <2>1, <2>2 DEF Begins
  <2> QED BY <1>1, <2>3 DEF Move
<1> QED BY <1>4, <1>5

\* A refinement that Agda accepts.
LEMMA SplitsMove ==
  ASSUME NEW f, NEW o, Fine(f, o), f.route # "entering", NEW keys \in Shapes,
         NEW u \in Refined(f.token, f.goal, Len(keys)),
         NEW g, Fine(g, o), Done(g), g.route = f.route, Introduces(g, u, keys)
  PROVE  Move(o)
<1>1. /\ Sound(f.token) /\ f.token = g.token /\ f.goal = g.goal
  BY FineIsTyped
<1>2. keys \in Seq(Sequents) /\ Len(keys) \in Nat
  BY ConstructorAssumption DEF ConstructorAssumption
<1>3. Follows(f.token, f.goal, Len(keys), u)
  BY <1>1, <1>2, RefinedFollows
<1>4. Follows(g.token, g.goal, Len(keys), u)
  BY <1>1, <1>3
<1> QED BY <1>2, <1>4, IntroducesMove

\* A try does not leave its route.
LEMMA UsedRoute ==
  ASSUME NEW f, NEW o, Fine(f, o)
  PROVE  Used(f).route = f.route /\ Used(f).ready = f.ready /\ Used(f).token = f.token /\ Used(f).goal = f.goal
<1>1. f \in Activations
  BY FineIsTyped
<1> QED BY <1>1 DEF Used, Activations

\* A refinement is a move, accepted or not.
LEMMA RefinesMove ==
  ASSUME NEW f, NEW o, Fine(f, o), f.route # "entering", Refines(f)
  PROVE  Move(o)
<1>1. CASE Rejects(f)
  BY <1>1, RejectsMove
<1>2. ASSUME NEW keys \in Shapes, NEW u \in Refined(f.token, f.goal, Len(keys)), Introduces(Used(f), u, keys)
      PROVE  Move(o)
  <2>1. Fine(Used(f), o) /\ Done(Used(f)) /\ Used(f).route = f.route
    BY UsedIsFine, UsedRoute
  <2> QED BY <1>2, <2>1, SplitsMove
<1> QED BY <1>1, <1>2 DEF Refines

\* A structured result is given or refined, either way a move.
LEMMA StructuredMoves ==
  ASSUME NEW f, NEW o, Fine(f, o), f.route # "entering", StructuredAttempt(f) \/ HeadRefinement(f)
  PROVE  Move(o)
<1>1. CASE Term(f)
  BY <1>1, GivesMove DEF Term
<1>2. CASE Refines(f)
  BY <1>2, RefinesMove
<1> QED BY <1>1, <1>2 DEF StructuredAttempt, HeadRefinement

\* An application with placeholders is a move.
LEMMA SkeletonMoves ==
  ASSUME NEW f, NEW o, Fine(f, o), f.left > 0, Skeleton(f)
  PROVE  Move(o)
<1>1. CASE Rejects(f)
  BY <1>1, RejectsMove
<1>2. ASSUME NEW u \in Given(f.token, f.goal),
             stack' = Put([f EXCEPT !.left = 0, !.won = TRUE]), Offers(u, Leaf(FALSE), f.link)
      PROVE  Move(o)
  <2>1. LET g == [f EXCEPT !.left = 0, !.won = TRUE] IN Fine(g, o) /\ Done(g) /\ g \in Activations
    BY SpentIsFine, Zenon
  <2> DEFINE g == [f EXCEPT !.left = 0, !.won = TRUE]
  <2>2. stack' = Put(g) /\ Fine(g, o) /\ Done(g) /\ g \in Activations
    BY <1>2, <2>1, Zenon
  <2> HIDE DEF g
  <2> QED BY <1>2, <2>2, WinsMove
<1> QED BY <1>1, <1>2 DEF Skeleton

\* A premise given or refined is a move.
LEMMA PremiseMoves ==
  ASSUME Turn, NEW f, NEW o, Fine(f, o), f.left > 0, f.route # "entering", Premise(f)
  PROVE  Move(o)
<1>1. CASE Rejects(f)
  BY <1>1, RejectsMove
<1>2. ASSUME NEW u \in Given(f.token, f.goal),
             stack' = Put([f EXCEPT !.left = 0, !.won = TRUE]), Offers(u, Leaf(FALSE), f.link)
      PROVE  Move(o)
  <2>1. LET g == [f EXCEPT !.left = 0, !.won = TRUE] IN Fine(g, o) /\ Done(g) /\ g \in Activations
    BY SpentIsFine, Zenon
  <2> DEFINE g == [f EXCEPT !.left = 0, !.won = TRUE]
  <2>2. stack' = Put(g) /\ Fine(g, o) /\ Done(g) /\ g \in Activations
    BY <1>2, <2>1, Zenon
  <2> HIDE DEF g
  <2> QED BY <1>2, <2>2, WinsMove
<1>3. ASSUME NEW keys \in Shapes, NEW u \in Refined(f.token, f.goal, Len(keys)),
             Introduces([Used(f) EXCEPT !.grant = Smaller(f.stop, queries + 1 + BranchSlice)], u, keys)
      PROVE  Move(o)
  <2> DEFINE n == Smaller(f.stop, queries + 1 + BranchSlice)
             g == [Used(f) EXCEPT !.grant = n]
  <2>1. Fine(Used(f), o) /\ Done(Used(f)) /\ Used(f).route = f.route /\ Used(f) \in Activations
    BY UsedIsFine, UsedRoute
  <2>2. n \in Nat
    <3>1. f.stop \in Nat /\ queries \in Nat /\ BranchSlice \in Nat
      BY FineIsTyped, ConstructorAssumption DEF ConstructorAssumption, Activations, Turn, Scalars
    <3> QED BY <3>1 DEF Smaller
  <2> HIDE DEF n
  <2>3. LET h == [Used(f) EXCEPT !.grant = n]
        IN  Fine(h, o) /\ Done(h) /\ h \in Activations
    BY <2>1, <2>2, GrantIsFine, Zenon
  <2>4. g.route = f.route
    BY <2>1 DEF Activations
  <2>5. Fine(g, o) /\ Done(g)
    BY <2>3
  <2>6. Introduces(g, u, keys)
    BY <1>3 DEF n
  <2> HIDE DEF g
  <2> QED BY <2>4, <2>5, <2>6, SplitsMove
<1> QED BY <1>1, <1>2, <1>3 DEF Premise

\* Committing a constructor for later is a move.
LEMMA CommitsMoves ==
  ASSUME NEW f, NEW o, Fine(f, o), Commits(f)
  PROVE  Move(o)
<1>1. CASE Rejects(f)
  BY <1>1, RejectsMove
<1>2. ASSUME NEW keys \in Shapes, NEW u \in Refined(f.token, f.goal, Len(keys)), Keeps(Used(f), u, keys)
      PROVE  Move(o)
  <2> DEFINE h == Used(f)
             K == h.ready \cup {[token |-> u, keys |-> keys, nth |-> h.left]}
             g == [h EXCEPT !.ready = K]
  <2>1. Fine(h, o) /\ Done(h) /\ h \in Activations /\ h.token = f.token /\ h.goal = f.goal /\ h.left \in Int
    BY UsedIsFine, UsedRoute DEF Activations
  <2>2. keys \in Seq(Sequents) /\ Len(keys) \in Nat
    BY ConstructorAssumption DEF ConstructorAssumption
  <2>3. Follows(f.token, f.goal, Len(keys), u) /\ u \in Tokens
    <3>1. Follows(f.token, f.goal, Len(keys), u)
      BY <2>2, FineIsTyped, RefinedFollows
    <3> QED BY <3>1 DEF Follows, Sound
  <2>4. stack' = Put(g) /\ UNCHANGED offer
    BY <1>2 DEF Keeps
  <2> HIDE DEF h
  <2>5. K \in SUBSET Keeping
    BY <2>1, <2>2, <2>3 DEF Keeping, Activations
  <2>6. IsFiniteSet(K)
    <3>1. IsFiniteSet(h.ready)
      BY <2>1 DEF Fine, Core
    <3> QED BY <3>1, FS_AddElement
  <2>7. \A c \in K : Follows(h.token, h.goal, Len(c.keys), c.token)
    <3>1. \A c \in h.ready : Follows(h.token, h.goal, Len(c.keys), c.token)
      BY <2>1 DEF Fine, Core
    <3> QED BY <2>1, <2>3, <3>1
  <2> HIDE DEF K
  <2>8. Fine(g, o) /\ Done(g) /\ g \in Activations
    BY <2>1, <2>5, <2>6, <2>7, ReadyIsFine, Zenon
  <2> HIDE DEF g
  <2> QED BY <2>4, <2>8, StaysMove
<1> QED BY <1>1, <1>2 DEF Commits

\* Asking Agda for an introduction is a move, whatever it answers.
LEMMA AsksMove ==
  ASSUME NEW f, NEW o, Fine(f, o), f.route # "entering", NEW follow, Asks(f, follow)
  PROVE  Move(o)
<1>1. Fine(Used(f), o) /\ Done(Used(f)) /\ Used(f).route = f.route /\ Used(f) \in Activations
  BY UsedIsFine, UsedRoute
<1>2. ASSUME NEW how \in Intros
      PROVE  LET g == [Used(f) EXCEPT !.intro = how] IN Fine(g, o) /\ Done(g) /\ g \in Activations
  BY <1>1, <1>2, IntroIsFine
<1>3. ASSUME NEW how \in Intros, stack' = Put([Used(f) EXCEPT !.intro = how]), UNCHANGED offer
      PROVE  Move(o)
  BY <1>2, <1>3, StaysMove
<1>4. ASSUME NEW keys \in Shapes, NEW u \in Refined(f.token, f.goal, Len(keys)),
             Introduces([Used(f) EXCEPT !.intro = "accepted"], u, keys)
      PROVE  Move(o)
  <2> DEFINE g == [Used(f) EXCEPT !.intro = "accepted"]
  <2>1. "accepted" \in Intros
    BY DEF Intros
  <2>2. Fine(g, o) /\ Done(g)
    BY <1>2, <2>1
  <2>3. g.route = f.route
    BY <1>1 DEF Activations
  <2>4. Introduces(g, u, keys)
    BY <1>4
  <2> HIDE DEF g
  <2> QED BY <2>2, <2>3, <2>4, SplitsMove
<1>5. {"one", "many", "cannot", "accepted"} \subseteq Intros
  BY DEF Intros
<1>6. CASE \E how \in {"one", "many", "cannot"} :
             stack' = Put([Used(f) EXCEPT !.intro = how]) /\ UNCHANGED offer
  BY <1>3, <1>5, <1>6
<1>7. CASE \E keys \in Shapes : \E u \in Refined(f.token, f.goal, Len(keys)) :
             Introduces([Used(f) EXCEPT !.intro = "accepted"], u, keys)
  BY <1>4, <1>7
<1>8. CASE stack' = Put([Used(f) EXCEPT !.intro = "accepted"]) /\ UNCHANGED offer
  BY <1>3, <1>5, <1>8
<1> QED BY <1>6, <1>7, <1>8 DEF Asks

-----------------------------------------------------------------------------
(* Going on with the next lane.                                            *)

\* The tries of a lane are a number.
LEMMA TriesAreCounted ==
  ASSUME NEW f, IsFiniteSet(f.ready), NEW lane
  PROVE  Tries(f, lane) \in Nat /\ (lane = "copattern" => Tries(f, lane) = 1)
<1>1. Cardinality(f.ready) \in Nat
  BY FS_CardinalityType
<1>2. MaxTries \in Nat /\ MaxTries + 1 \in Nat
  BY ConstructorAssumption DEF ConstructorAssumption
<1>3. CASE lane \in {"introduce", "sole introduction", "sole alternative", "shared head", "pattern lambda",
                     "absurd", "anonymous", "introduction", "record", "copattern", "enter", "room",
                     "room again", "contextual evidence", "relation path", "late relation path"}
  BY <1>3 DEF Tries, CallLanes
<1>4. CASE lane \in {"ready constructors", "kept evidence"}
  BY <1>1, <1>4 DEF Tries, CallLanes
<1>5. CASE lane \in CallLanes
  BY <1>2, <1>5 DEF Tries, CallLanes
<1>6. CASE lane = "skeletons"
  BY <1>2, <1>6 DEF Tries, CallLanes
<1> QED BY <1>2, <1>3, <1>4, <1>5, <1>6, Zenon DEF Tries

\* The routes and how long they are.
LEMMA RoutesEnd ==
  /\ DOMAIN Route = {"entering", "cycle", "arrow", "leaf"}
  /\ \A route \in DOMAIN Route : Len(Route[route]) \in Nat
<1>1. DOMAIN Route = {"entering", "cycle", "arrow", "leaf"}
  BY DEF Route
<1>2. Len(Route.entering) \in Nat
  BY DEF Route
<1>3. Len(Route.cycle) \in Nat
  BY DEF Route
<1>4. Len(Route.arrow) \in Nat
  BY DEF Route
<1>5. Len(Route.leaf) \in Nat
  BY DEF Route
<1> QED BY <1>1, <1>2, <1>3, <1>4, <1>5

\* An activation that goes to an open lane of its route stays in order.
LEMMA GoesIsFine ==
  ASSUME Turn, NEW f, Core(ask, f), Kin(Top, f), f.owner = Nobody, f.route # "entering",
         NEW at \in 1..Len(Route[f.route]),
         Route[f.route][at] \in {"premises", "skeletons"} => Wide(ask, f, Route[f.route][at])
  PROVE  /\ Goes(f, at) \in Activations /\ Fine(Goes(f, at), Nobody)
         /\ Lane(Goes(f, at)) = Route[f.route][at]
<1> DEFINE lane == Route[f.route][at]
           left == Tries(f, lane)
           quota == IF lane \in Sliced THEN queries + BranchSlice ELSE QueryLimit
           g == Goes(f, at)
<1>1. f \in Activations /\ f.stop \in Nat /\ f.route \in DOMAIN Route
  BY DEF Core, Activations
<1>2. left \in Nat /\ (lane = "copattern" => left = 1)
  BY TriesAreCounted DEF Core
<1>3. quota \in Nat
  BY ConstructorAssumption DEF ConstructorAssumption, Turn, Scalars
<1>4. at \in Nat /\ at <= Len(Route[f.route])
  <2>1. Len(Route[f.route]) \in Nat
    BY <1>1, RoutesEnd
  <2> QED BY <2>1
<1> HIDE DEF left, quota
<1>5. g = [f EXCEPT !.at = at, !.left = left, !.won = FALSE, !.grant = f.stop, !.quota = quota]
  BY DEF Goes, left, quota
<1>6. /\ g \in Activations /\ g.at = at /\ g.left = left
      /\ \A x \in {"goal", "key", "token", "depth", "link", "route", "ready", "kids", "owner"} : g[x] = f[x]
  <2> DEFINE a == [f EXCEPT !.at = at]
             b == [a EXCEPT !.left = left]
             c == [b EXCEPT !.won = FALSE]
             d == [c EXCEPT !.grant = f.stop]
             Same(p, q) == \A x \in {"goal", "key", "token", "depth", "link", "route", "ready", "kids", "owner"} :
                             p[x] = q[x]
  <2>1. a \in Activations /\ a.at = at /\ Same(a, f)
    BY <1>1, <1>4 DEF Activations
  <2> HIDE DEF a
  <2>2. b \in Activations /\ b.at = at /\ b.left = left /\ Same(b, f)
    <3>1. left \in Int /\ left \in Nat
      BY <1>2
    <3>2. b \in Activations /\ b.at = a.at /\ b.left = left /\ Same(b, a)
      BY <2>1, <3>1 DEF Activations
    <3> QED BY <2>1, <3>2
  <2> HIDE DEF b
  <2>3. c \in Activations /\ c.at = at /\ c.left = left /\ Same(c, f)
    BY <2>2 DEF Activations
  <2> HIDE DEF c
  <2>4. d \in Activations /\ d.at = at /\ d.left = left /\ Same(d, f)
    BY <1>1, <2>3 DEF Activations
  <2> HIDE DEF d
  <2>5. LET e == [d EXCEPT !.quota = quota]
        IN  e \in Activations /\ e.at = at /\ e.left = left /\ Same(e, f)
    BY <1>3, <2>4 DEF Activations
  <2>6. g = [d EXCEPT !.quota = quota]
    BY <1>5, Zenon DEF a, b, c, d
  <2> HIDE DEF g
  <2> QED BY <2>5, <2>6
<1> HIDE DEF g
<1>7. Lane(g) = lane
  BY <1>6 DEF Lane
<1>8. Core(ask, g)
  BY <1>6 DEF Core
<1>9. Place(ask, g)
  BY <1>2, <1>4, <1>6, <1>7 DEF Place, Wide
<1>10. Kin(Top, g)
  BY <1>6 DEF Kin
<1>11. g \in Activations /\ Fine(g, Nobody) /\ Lane(g) = lane
  BY <1>6, <1>7, <1>8, <1>9, <1>10 DEF Fine
<1> QED BY <1>11 DEF g

\* The lanes of premises are the ones their conditions let in.
LEMMA OpenIsWide ==
  ASSUME NEW f, NEW lane \in {"premises", "skeletons"}, Open(f, lane)
  PROVE  Wide(ask, f, lane)
BY DEF Open, Wide, Certain, Following

\* Passing on is a move to a later lane, or a return.
LEMMA PassesMove ==
  ASSUME Turn, NEW f, Core(ask, f), Kin(Top, f), f.owner = Nobody, f.route = "entering" => f.at = 1,
         Passes(f), UNCHANGED <<offer, calling>>
  PROVE  Move(Nobody) \/ Pops
<1>1. CASE stack' = Below
  BY <1>1 DEF Pops
<1>2. CASE stack' # Below
  <2> DEFINE at == Least(Later(f))
  <2>1. Later(f) # {} /\ stack' = Put(Goes(f, at))
    BY <1>2 DEF Passes
  <2>2. f.at \in Nat /\ f.route \in DOMAIN Route /\ Len(Route[f.route]) \in Nat
    <3>1. f.at \in Nat /\ f.route \in DOMAIN Route
      BY DEF Core, Activations
    <3> QED BY <3>1, RoutesEnd
  <2>3. Later(f) \subseteq Nat
    BY <2>2 DEF Later
  <2>4. at \in Later(f)
    BY <2>1, <2>3, LeastNatural
  <2> HIDE DEF at
  <2>5. at \in 1..Len(Route[f.route]) /\ at > f.at /\ Open(f, Route[f.route][at])
    BY <2>2, <2>4 DEF Later
  <2>6. f.route # "entering"
    <3>1. Len(Route.entering) = 1
      BY DEF Route
    <3> QED BY <2>5, <3>1
  <2>7. Route[f.route][at] \in {"premises", "skeletons"} => Wide(ask, f, Route[f.route][at])
    BY <2>5, OpenIsWide
  <2>8. /\ Goes(f, at) \in Activations /\ Fine(Goes(f, at), Nobody)
        /\ Lane(Goes(f, at)) = Route[f.route][at]
    BY <2>5, <2>6, <2>7, GoesIsFine
  <2>9. Lane(Goes(f, at)) = "copattern" => ~calling'
    BY <2>5, <2>8 DEF Open
  <2>10. Stays(Goes(f, at))
    BY <2>1, <2>9 DEF Stays
  <2> QED BY <2>8, <2>10 DEF Move
<1> QED BY <1>1, <1>2

-----------------------------------------------------------------------------
(* The lanes.                                                              *)

Free == Turn /\ offer = NoOffer /\ running /\ Top.owner = Nobody /\ Lane(Top) # "enter"

\* What a lane may make of a proposal.
Proposed ==
  \/ Rejects(Top) \/ Gives(Top, FALSE) \/ Gives(Top, TRUE) \/ Anonymous(Top)
  \/ Refines(Top) \/ Refines([Top EXCEPT !.intro = "record"])
  \/ StructuredAttempt(Top) \/ HeadRefinement(Top) \/ Skeleton(Top) \/ Premise(Top)
  \/ Commits(Top) \/ Asks(Top, TRUE) \/ Asks(Top, ~ask.arity)

\* The proposal is paid for, as a query too where the quota allows it, or the
\* lane ends.
Paid ==
  /\ Top.left > 0 /\ Charges /\ Proposed
  /\ UNCHANGED queries \/ queries' = queries + 0 \/ (InQuota(Top) /\ queries' = queries + 1)

Quits ==
  /\ Refused \/ UNCHANGED <<spent, saw>>
  /\ Passes(Top) \/ Returns
  /\ UNCHANGED <<queries, offer>>

Plain == (Paid \/ Quits) /\ UNCHANGED <<calling, subjects, apart>>

\* The counters after a step: something is charged only where something is left.
Counts ==
  /\ spent' \in Nat /\ spent' >= spent /\ (spent' # spent => spent < ask.budget) /\ spent' <= Spendable
  /\ queries' \in Nat /\ queries' <= QueryLimit /\ saw' \in BOOLEAN

Ordinary == (Move(Nobody) \/ Pops) /\ Counts /\ UNCHANGED <<calling, subjects, apart>>

\* A lane runs only for a free activation.
LEMMA RunsFree ==
  ASSUME Turn, NEW lane, Runs(lane), lane # "enter"
  PROVE  Free /\ Lane(Top) = lane
BY DEF Runs, Free

\* A free activation has left its entering.
LEMMA FreeIsFine ==
  ASSUME Free
  PROVE  Fine(Top, Nobody) /\ Top.route # "entering" /\ Turn
<1>1. Turn /\ Top.owner = Nobody /\ Lane(Top) # "enter"
  BY DEF Free
<1>2. Fine(Top, Nobody)
  BY <1>1, TopIsFine
<1>3. Top.route # "entering"
  BY <1>1, <1>2, EnteringEnters DEF Fine
<1> QED BY <1>1, <1>2, <1>3

\* Whatever a lane proposes is a move.
LEMMA ProposedMoves ==
  ASSUME Free, Top.left > 0, Proposed
  PROVE  Move(Nobody)
<1>1. Fine(Top, Nobody) /\ Top.route # "entering" /\ Turn
  BY FreeIsFine
<1>2. CASE Rejects(Top)
  BY <1>1, <1>2, RejectsMove
<1>3. CASE Gives(Top, FALSE) \/ Gives(Top, TRUE)
  BY <1>1, <1>3, GivesMove
<1>4. CASE Anonymous(Top)
  BY <1>1, <1>4, AnonymousMoves
<1>5. CASE Refines(Top)
  BY <1>1, <1>5, RefinesMove
<1>6. CASE Refines([Top EXCEPT !.intro = "record"])
  <2> DEFINE g == [Top EXCEPT !.intro = "record"]
  <2>1. Top \in Activations /\ "record" \in Intros
    BY <1>1, TopIsFine DEF Intros
  <2>2. /\ g \in Activations
        /\ \A x \in {"goal", "key", "token", "depth", "path", "stop", "link", "route", "at", "left", "won",
                     "ready", "kids", "grant", "quota", "width", "owner"} : g[x] = Top[x]
    BY <2>1 DEF Activations
  <2> HIDE DEF g
  <2>3. Kin(Top, g) /\ g.owner = Nobody
    BY <1>1, <2>2 DEF Kin, Fine
  <2>4. Fine(g, g.owner)
    <3>1. g.left <= Top.left
      BY <2>1, <2>2 DEF Activations
    <3>2. /\ IsFiniteSet(g.ready)
          /\ \A c \in g.ready : Follows(Top.token, Top.goal, Len(c.keys), c.token)
          /\ \A i \in DOMAIN g.kids : g.kids[i].goal = Top.token.next + i - 1
          /\ g.owner # Nobody => (g.owner = "call" <=> Lane(Top) = "copattern")
      BY <1>1, <2>2, <2>3 DEF Fine, Core, Place
    <3> QED BY <1>1, <2>2, <2>3, <3>1, <3>2, EditIsFine
  <2>5. Fine(g, Nobody) /\ g.route # "entering"
    BY <1>1, <2>2, <2>3, <2>4
  <2>6. Refines(g)
    BY <1>6 DEF g
  <2> QED BY <2>5, <2>6, RefinesMove
<1>7. CASE StructuredAttempt(Top) \/ HeadRefinement(Top)
  BY <1>1, <1>7, StructuredMoves
<1>8. CASE Skeleton(Top)
  BY <1>1, <1>8, SkeletonMoves
<1>9. CASE Premise(Top)
  BY <1>1, <1>9, PremiseMoves
<1>10. CASE Commits(Top)
  BY <1>1, <1>10, CommitsMoves
<1>11. CASE Asks(Top, TRUE)
  BY <1>1, <1>11, AsksMove
<1>12. CASE Asks(Top, ~ask.arity)
  BY <1>1, <1>12, AsksMove
<1> QED BY <1>2, <1>3, <1>4, <1>5, <1>6, <1>7, <1>8, <1>9, <1>10, <1>11, <1>12 DEF Proposed

\* The bounds of a request are numbers.
LEMMA AskedIsTyped ==
  ASSUME Scalars
  PROVE  /\ ask.budget \in Nat /\ ask.depth \in Nat /\ ask.limit \in Nat /\ QueryLimit \in Nat
         /\ Spendable \in Nat /\ ask.budget <= Spendable
<1>1. ask.budget \in Nat /\ ask.depth \in Nat /\ ask.limit \in Nat /\ QueryLimit \in Nat /\ WrapSlice \in Nat
  BY ConstructorAssumption DEF ConstructorAssumption, Scalars
<1>2. WrapExcess(ask.budget) \in Nat
  BY <1>1 DEF WrapExcess, Smaller
<1> QED BY <1>1, <1>2 DEF Spendable

\* What may be spent is the request's.
LEMMA SpendableStays ==
  ASSUME UNCHANGED ask
  PROVE  Spendable' = Spendable
BY DEF Spendable, WrapExcess

\* Ending the lane is a move.
LEMMA TopPasses ==
  ASSUME Free, Passes(Top) \/ Returns, UNCHANGED <<offer, calling>>
  PROVE  Move(Nobody) \/ Pops
<1>1. CASE Passes(Top)
  <2>1. Fine(Top, Nobody) /\ Top.route # "entering" /\ Turn
    BY FreeIsFine
  <2> QED BY <1>1, <2>1, PassesMove DEF Fine
<1>2. CASE Returns
  BY <1>2 DEF Returns, Pops
<1> QED BY <1>1, <1>2

\* A paid proposal and a lane that ends are ordinary steps.
LEMMA PlainIsOrdinary ==
  ASSUME Free, Plain
  PROVE  Ordinary
<1>1. Scalars /\ ask.budget \in Nat /\ QueryLimit \in Nat /\ Spendable \in Nat /\ ask.budget <= Spendable
  BY AskedIsTyped DEF Free, Turn
<1>2. CASE Paid
  <2>1. Move(Nobody)
    BY <1>2, ProposedMoves DEF Paid
  <2>2. spent' = spent + 1 /\ spent < ask.budget /\ saw' = saw
    BY <1>2 DEF Paid, Charges, Available
  <2>3. queries' = queries \/ queries' = queries + 0 \/ (InQuota(Top) /\ queries' = queries + 1)
    BY <1>2 DEF Paid
  <2>4. Top.quota \in Nat /\ Top.stop \in Nat
    BY TopIsFine DEF Free, Activations
  <2>5. InQuota(Top) => queries < QueryLimit
    BY <1>1, <2>4 DEF InQuota, Smaller, Scalars
  <2>6. Counts
    BY <1>1, <2>2, <2>3, <2>5 DEF Counts, Scalars
  <2> QED BY <2>1, <2>6 DEF Ordinary, Plain
<1>3. CASE Quits
  <2>1. UNCHANGED <<offer, calling>> /\ (Passes(Top) \/ Returns)
    BY <1>3 DEF Quits, Plain
  <2>a. Move(Nobody) \/ Pops
    BY <2>1, TopPasses
  <2>2. Counts
    <3>1. spent' = spent /\ queries' = queries /\ (saw' = saw \/ saw' = TRUE)
      BY <1>3 DEF Quits, Refused
    <3>2. saw \in BOOLEAN
      BY <1>1 DEF Scalars
    <3>3. saw' \in BOOLEAN
      BY <3>1, <3>2, Zenon
    <3> QED BY <1>1, <3>1, <3>3 DEF Counts, Scalars
  <2> QED BY <2>a, <2>2 DEF Ordinary, Plain
<1> QED BY <1>2, <1>3 DEF Plain

\* The same for a lane out of several.
LEMMA FreeWhenRunning ==
  ASSUME Turn, NEW lanes, "enter" \notin lanes, RunsAny(lanes)
  PROVE  Free /\ Lane(Top) \in lanes
BY RunsFree DEF RunsAny

\* Lanes written out in _solve_goal: a refused charge ends the activation.
LEMMA LanesOfTheirOwn ==
  ASSUME Turn, ExactLocals \/ ExactPremises \/ AbsurdFunction \/ AnonymousValue \/ PatternLambda
               \/ FunctionIntroduction \/ SoleIntroduction \/ SharedHead \/ EmptyIntroduction \/ Alternatives
               \/ RecordLiteral \/ Constructors
  PROVE  Free /\ Plain
<1>1. CASE ExactLocals
  <2>1. Free
    BY <1>1, RunsFree DEF ExactLocals
  <2>2. Plain
    BY <1>1 DEF ExactLocals, Term, ChargedHere, Plain, Paid, Quits, Proposed
  <2> QED BY <2>1, <2>2
<1>2. CASE ExactPremises
  <2>1. Free
    BY <1>2, RunsFree DEF ExactPremises
  <2>2. Plain
    BY <1>2 DEF ExactPremises, Term, ChargedHere, Plain, Paid, Quits, Proposed
  <2> QED BY <2>1, <2>2
<1>3. CASE AbsurdFunction
  <2>1. Free
    BY <1>3, RunsFree DEF AbsurdFunction
  <2>2. Plain
    BY <1>3 DEF AbsurdFunction, Term, ChargedHere, Plain, Paid, Quits, Proposed
  <2> QED BY <2>1, <2>2
<1>4. CASE AnonymousValue
  <2>1. Free
    BY <1>4, RunsFree DEF AnonymousValue
  <2>2. Plain
    BY <1>4 DEF AnonymousValue, ChargedHere, Plain, Paid, Quits, Proposed
  <2> QED BY <2>1, <2>2
<1>5. CASE PatternLambda
  <2>1. Free
    BY <1>5, RunsFree DEF PatternLambda
  <2>2. Plain
    BY <1>5 DEF PatternLambda, ChargedHere, Plain, Paid, Quits, Proposed
  <2> QED BY <2>1, <2>2
<1>6. CASE FunctionIntroduction
  <2>1. Free
    BY <1>6, RunsFree DEF FunctionIntroduction
  <2>2. Plain
    BY <1>6 DEF FunctionIntroduction, ChargedHere, Plain, Paid, Quits, Proposed
  <2> QED BY <2>1, <2>2
<1>7. CASE SoleIntroduction
  <2>1. Free
    BY <1>7, RunsFree DEF SoleIntroduction
  <2>2. Plain
    BY <1>7 DEF SoleIntroduction, ChargedHere, Plain, Paid, Quits, Proposed
  <2> QED BY <2>1, <2>2
<1>8. CASE SharedHead
  <2>1. Free
    BY <1>8, RunsFree DEF SharedHead
  <2>2. Plain
    BY <1>8 DEF SharedHead, ChargedHere, Plain, Paid, Quits, Proposed
  <2> QED BY <2>1, <2>2
<1>9. CASE EmptyIntroduction
  <2>1. Free
    BY <1>9, RunsFree DEF EmptyIntroduction
  <2>2. Plain
    BY <1>9 DEF EmptyIntroduction, ChargedHere, Plain, Paid, Quits, Proposed
  <2> QED BY <2>1, <2>2
<1>10. CASE Alternatives
  <2>1. Free
    BY <1>10, FreeWhenRunning DEF Alternatives
  <2>2. Plain
    BY <1>10 DEF Alternatives, ChargedHere, Plain, Paid, Quits, Proposed
  <2> QED BY <2>1, <2>2
<1>11. CASE RecordLiteral
  <2>1. Free
    BY <1>11, RunsFree DEF RecordLiteral
  <2>2. Plain
    BY <1>11 DEF RecordLiteral, ChargedHere, Plain, Paid, Quits, Proposed
  <2> QED BY <2>1, <2>2
<1>12. CASE Constructors
  <2>1. Free
    BY <1>12, RunsFree DEF Constructors
  <2>2. Plain
    BY <1>12 DEF Constructors, ChargedHere, Plain, Paid, Quits, Proposed
  <2> QED BY <2>1, <2>2
<1> QED BY <1>1, <1>2, <1>3, <1>4, <1>5, <1>6, <1>7, <1>8, <1>9, <1>10, <1>11, <1>12

\* Lanes that charge every proposal: a refused charge ends the lane.
LEMMA ChargedLanes ==
  ASSUME Turn, LocalMetaValues \/ Consequences \/ IndexedEvidence \/ LocalRefinements \/ VisibleEliminators
               \/ EvidenceRefinements \/ ApplicationSkeletons
  PROVE  Free /\ Plain
<1>1. CASE LocalMetaValues
  <2>1. Free
    BY <1>1, RunsFree DEF LocalMetaValues
  <2>2. Plain
    BY <1>1 DEF LocalMetaValues, Term, Charged, Plain, Paid, Quits, Proposed
  <2> QED BY <2>1, <2>2
<1>2. CASE Consequences
  <2>1. Free
    BY <1>2, RunsFree DEF Consequences
  <2>2. Plain
    BY <1>2 DEF Consequences, Term, Charged, Plain, Paid, Quits, Proposed
  <2> QED BY <2>1, <2>2
<1>3. CASE IndexedEvidence
  <2>1. Free
    BY <1>3, RunsFree DEF IndexedEvidence
  <2>2. Plain
    BY <1>3 DEF IndexedEvidence, Charged, Plain, Paid, Quits, Proposed
  <2> QED BY <2>1, <2>2
<1>4. CASE LocalRefinements
  <2>1. Free
    BY <1>4, FreeWhenRunning DEF LocalRefinements
  <2>2. Plain
    BY <1>4 DEF LocalRefinements, Charged, Plain, Paid, Quits, Proposed
  <2> QED BY <2>1, <2>2
<1>5. CASE VisibleEliminators
  <2>1. Free
    BY <1>5, FreeWhenRunning DEF VisibleEliminators
  <2>2. Plain
    BY <1>5 DEF VisibleEliminators, Charged, Plain, Paid, Quits, Proposed
  <2> QED BY <2>1, <2>2
<1>6. CASE EvidenceRefinements
  <2>1. Free
    BY <1>6, RunsFree DEF EvidenceRefinements
  <2>2. Plain
    BY <1>6 DEF EvidenceRefinements, Charged, Plain, Paid, Quits, Proposed
  <2> QED BY <2>1, <2>2
<1>7. CASE ApplicationSkeletons
  <2>1. Free
    BY <1>7, RunsFree DEF ApplicationSkeletons
  <2>2. Plain
    BY <1>7 DEF ApplicationSkeletons, Charged, Plain, Paid, Quits, Proposed
  <2> QED BY <2>1, <2>2
<1> QED BY <1>1, <1>2, <1>3, <1>4, <1>5, <1>6, <1>7

\* Lanes whose proposals are premise queries as well.
LEMMA QueriedLanes ==
  ASSUME Turn, ExpectedApplications \/ ExpectedEvidence \/ BackwardSupport \/ SuppliedValues
               \/ StructuredBuilders \/ ReadyEliminators \/ ReadyStructuredResults \/ ScopePremises
  PROVE  Free /\ Plain
<1>1. CASE ExpectedApplications
  <2>1. Free
    BY <1>1, RunsFree DEF ExpectedApplications
  <2>2. Plain
    BY <1>1 DEF ExpectedApplications, Term, Queried, Charged, Plain, Paid, Quits, Proposed
  <2> QED BY <2>1, <2>2
<1>2. CASE ExpectedEvidence
  <2>1. Free
    BY <1>2, RunsFree DEF ExpectedEvidence
  <2>2. Plain
    BY <1>2 DEF ExpectedEvidence, CheckedEvidence, Term, Queried, Charged, Plain, Paid, Quits, Proposed
  <2> QED BY <2>1, <2>2
<1>3. CASE BackwardSupport
  <2>1. Free
    BY <1>3, RunsFree DEF BackwardSupport
  <2>2. Plain
    BY <1>3 DEF BackwardSupport, CheckedEvidence, Term, Queried, Charged, Plain, Paid, Quits, Proposed
  <2> QED BY <2>1, <2>2
<1>4. CASE SuppliedValues
  <2>1. Free
    BY <1>4, RunsFree DEF SuppliedValues
  <2>2. Plain
    BY <1>4 DEF SuppliedValues, Term, Queried, Charged, Plain, Paid, Quits, Proposed
  <2> QED BY <2>1, <2>2
<1>5. CASE StructuredBuilders
  <2>1. Free
    BY <1>5, RunsFree DEF StructuredBuilders
  <2>2. Plain
    BY <1>5 DEF StructuredBuilders, Queried, Charged, Plain, Paid, Quits, Proposed
  <2> QED BY <2>1, <2>2
<1>6. CASE ReadyEliminators
  <2>1. Free
    BY <1>6, RunsFree DEF ReadyEliminators
  <2>2. Plain
    BY <1>6 DEF ReadyEliminators, Queried, Charged, Plain, Paid, Quits, Proposed
  <2> QED BY <2>1, <2>2
<1>7. CASE ReadyStructuredResults
  <2>1. Free
    BY <1>7, RunsFree DEF ReadyStructuredResults
  <2>2. Plain
    BY <1>7 DEF ReadyStructuredResults, Queried, Charged, Plain, Paid, Quits, Proposed
  <2> QED BY <2>1, <2>2
<1>8. CASE ScopePremises
  <2>1. Free
    BY <1>8, RunsFree DEF ScopePremises
  <2>2. Plain
    BY <1>8 DEF ScopePremises, Queried, Charged, Plain, Paid, Quits, Proposed
  <2> QED BY <2>1, <2>2
<1> QED BY <1>1, <1>2, <1>3, <1>4, <1>5, <1>6, <1>7, <1>8

\* What a step that is charged at once reports is within bounds.
LEMMA ChargesWithin ==
  ASSUME Scalars, NEW n \in Nat, spent' = spent + n, n # 0 => spent < ask.budget, spent + n <= Spendable,
         UNCHANGED queries, saw' \in BOOLEAN
  PROVE  Counts
BY DEF Counts, Scalars

\* The calls are generated with what is left, and the wrappers with as much again.
LEMMA GenerateCallsStep ==
  ASSUME Turn, GenerateCalls
  PROVE  Free /\ Ordinary
<1> DEFINE remaining == ask.budget - spent
<1>1. Free
  BY FreeWhenRunning DEF GenerateCalls, CallLanes
<1>2. Fine(Top, Nobody) /\ Top.route # "entering" /\ Scalars
  BY <1>1, FreeIsFine DEF Turn
<1>3. UNCHANGED <<queries, saw, offer, calling, subjects, apart>>
  BY DEF GenerateCalls
<1>4. ask.budget \in Nat /\ spent \in Nat /\ WrapSlice \in Nat /\ saw' \in BOOLEAN
  <2>1. saw' = saw /\ saw \in BOOLEAN
    BY <1>2, <1>3 DEF Scalars
  <2>2. saw' \in BOOLEAN
    BY <2>1, Zenon
  <2> QED BY <1>2, <2>2, AskedIsTyped, ConstructorAssumption DEF ConstructorAssumption, Scalars
<1>5. CASE remaining <= 0
  <2>1. Passes(Top) /\ UNCHANGED spent
    BY <1>5 DEF GenerateCalls
  <2>2. Move(Nobody) \/ Pops
    BY <1>1, <1>3, <2>1, TopPasses
  <2>3. Counts
    BY <1>2, <1>3, <1>4, <2>1 DEF Counts, Scalars
  <2> QED BY <1>1, <1>3, <2>2, <2>3 DEF Ordinary
<1>6. CASE ~(remaining <= 0)
  <2>1. /\ stack' = Put(Used(Top))
        /\ \E n \in IF late THEN {0} ELSE 0..(remaining + WrapExcess(remaining)) : spent' = spent + n
    BY <1>6 DEF GenerateCalls
  <2>2. remaining \in Nat /\ remaining <= ask.budget /\ spent + remaining = ask.budget
    BY <1>4, <1>6
  <2>3. /\ WrapExcess(remaining) \in Nat /\ WrapExcess(ask.budget) \in Nat
        /\ WrapExcess(remaining) <= WrapExcess(ask.budget)
    <3> HIDE DEF remaining
    <3> QED BY <1>4, <2>2 DEF WrapExcess, Smaller
  <2>4. PICK n \in Nat : spent' = spent + n /\ n <= remaining + WrapExcess(remaining)
    <3> HIDE DEF remaining
    <3> QED BY <2>1, <2>2, <2>3
  <2>5. spent + n <= Spendable /\ spent < ask.budget
    <3>1. spent + n <= ask.budget + WrapExcess(ask.budget)
      <4> HIDE DEF remaining
      <4> QED BY <1>4, <2>2, <2>3, <2>4
    <3> QED BY <1>4, <1>6, <3>1 DEF Spendable
  <2>6. Counts
    BY <1>2, <1>3, <1>4, <2>4, <2>5, ChargesWithin
  <2>7. Move(Nobody)
    BY <1>2, <1>3, <2>1, RejectsMove DEF Rejects
  <2> QED BY <1>1, <1>3, <2>6, <2>7 DEF Ordinary
<1> QED BY <1>5, <1>6

\* The calls that were generated are charged one by one.
LEMMA RecursiveCallsStep ==
  ASSUME Turn, RecursiveCalls
  PROVE  Free /\ Plain
<1>1. Free
  BY FreeWhenRunning DEF RecursiveCalls, CallLanes
<1>2. Plain
  BY DEF RecursiveCalls, Charged, Call, Plain, Paid, Quits, Proposed
<1> QED BY <1>1, <1>2

\* The terms of a focused search charge nothing.
LEMMA FocusedLanes ==
  ASSUME Turn, ShallowLocals \/ FocusedTerms
  PROVE  Free /\ Ordinary
<1>1. Free
  BY RunsFree DEF ShallowLocals, FocusedTerms
<1>2. Fine(Top, Nobody) /\ Scalars
  BY <1>1, FreeIsFine DEF Turn
<1>3. saw' \in BOOLEAN
  <2>1. saw \in BOOLEAN
    BY <1>2 DEF Scalars
  <2>2. saw' = saw \/ saw' = TRUE
    BY DEF ShallowLocals, FocusedTerms
  <2> QED BY <2>1, <2>2, Zenon
<1>4. Counts
  <2>1. spent' = spent /\ queries' = queries
    BY DEF ShallowLocals, FocusedTerms
  <2> QED BY <1>2, <1>3, <2>1 DEF Counts, Scalars
<1>5. Move(Nobody) \/ Pops
  <2>1. CASE Term(Top)
    BY <1>2, <2>1, GivesMove DEF Term
  <2>2. CASE Returns /\ UNCHANGED offer
    BY <2>2 DEF Returns, Pops
  <2> QED BY <2>1, <2>2 DEF ShallowLocals, FocusedTerms
<1>6. UNCHANGED <<calling, subjects, apart>>
  BY DEF ShallowLocals, FocusedTerms
<1> QED BY <1>1, <1>4, <1>5, <1>6 DEF Ordinary

\* What was committed is followed from the state it was committed in.
LEMMA FollowReadyStep ==
  ASSUME Turn, FollowReady
  PROVE  Free /\ Ordinary
<1>1. Free
  BY FreeWhenRunning DEF FollowReady
<1>2. Fine(Top, Nobody) /\ Top.route # "entering" /\ Scalars
  BY <1>1, FreeIsFine DEF Turn
<1>3. PICK c \in Top.ready : Introduces([Used(Top) EXCEPT !.ready = @ \ {c}], c.token, c.keys)
  BY DEF FollowReady
<1> DEFINE h == Used(Top)
           K == h.ready \ {c}
           g == [h EXCEPT !.ready = K]
<1>4. /\ Fine(h, Nobody) /\ Done(h) /\ h \in Activations /\ h.ready = Top.ready /\ h.route = Top.route
      /\ h.token = Top.token /\ h.goal = Top.goal
  BY <1>2, UsedIsFine, UsedRoute
<1>5. Introduces(g, c.token, c.keys)
  BY <1>3
<1> HIDE DEF h
<1>6. K \in SUBSET Keeping /\ IsFiniteSet(K) /\ \A d \in K : Follows(h.token, h.goal, Len(d.keys), d.token)
  <2>1. h.ready \in SUBSET Keeping /\ IsFiniteSet(h.ready)
        /\ \A d \in h.ready : Follows(h.token, h.goal, Len(d.keys), d.token)
    BY <1>4 DEF Fine, Core, Activations
  <2>2. K \subseteq h.ready
    OBVIOUS
  <2> QED BY <2>1, <2>2, FS_Subset
<1>7. c \in Keeping /\ Follows(h.token, h.goal, Len(c.keys), c.token)
  BY <1>4 DEF Fine, Core, Activations
<1> HIDE DEF K
<1>8. Fine(g, Nobody) /\ Done(g) /\ g \in Activations
  BY <1>4, <1>6, ReadyIsFine, Zenon
<1>9. g.route = Top.route /\ g.token = h.token /\ g.goal = h.goal
  BY <1>4 DEF Activations
<1> HIDE DEF g
<1>10. c.keys \in Seq(Sequents) /\ Follows(g.token, g.goal, Len(c.keys), c.token)
  BY <1>7, <1>9 DEF Keeping
<1>11. Move(Nobody)
  BY <1>2, <1>5, <1>8, <1>9, <1>10, IntroducesMove
<1>12. UNCHANGED <<spent, queries, saw, calling, subjects, apart>>
  BY DEF FollowReady
<1>13. saw' \in BOOLEAN
  BY <1>2, <1>12, Zenon DEF Scalars
<1>14. Counts
  BY <1>2, <1>12, <1>13 DEF Counts, Scalars
<1> QED BY <1>1, <1>11, <1>12, <1>14 DEF Ordinary

\* Agda's answer leaves the obligations, or adds one.
LEMMA ThreeAreFinite ==
  ASSUME NEW a, NEW b, NEW c, NEW S \in SUBSET {a, b, c}
  PROVE  IsFiniteSet(S)
<1>1. IsFiniteSet({})
  BY FS_EmptySet
<1>2. IsFiniteSet({} \cup {a})
  BY <1>1, FS_AddElement
<1>3. IsFiniteSet(({} \cup {a}) \cup {b})
  BY <1>2, FS_AddElement
<1>4. IsFiniteSet((({} \cup {a}) \cup {b}) \cup {c})
  BY <1>3, FS_AddElement
<1>5. S \in SUBSET ((({} \cup {a}) \cup {b}) \cup {c})
  OBVIOUS
<1> QED BY <1>4, <1>5, FS_Subset

\* A give leads to finitely many states.
LEMMA FewAreGiven ==
  ASSUME NEW t, NEW goal
  PROVE  \E a, b, c : Given(t, goal) \subseteq {a, b, c}
<1> DEFINE given(h) == Token(t.open \ {goal}, t.next, t.made + 1, h)
<1>1. Hides(t) \subseteq {t.hidden, TRUE, FALSE}
  BY DEF Hides
<1>2. Given(t, goal) = {given(h) : h \in Hides(t)}
  BY DEF Given
<1> HIDE DEF given
<1>3. Given(t, goal) \subseteq {given(t.hidden), given(TRUE), given(FALSE)}
  BY <1>1, <1>2
<1> QED BY <1>3

\* Collecting evidence may spend the action kept for a give, and no more.
LEMMA ContextualEvidenceStep ==
  ASSUME Turn, ContextualEvidence
  PROVE  Free /\ Ordinary
<1>1. Free
  BY RunsFree DEF ContextualEvidence
<1>2. Fine(Top, Nobody) /\ Top.route # "entering" /\ Scalars
  BY <1>1, FreeIsFine DEF Turn
<1>3. PICK i \in 0..EvidenceSlice, j \in 0..ask.limit :
        /\ EvidenceSpends(i, j) /\ spent' = spent + i + j
        /\ \E T \in SUBSET Given(Top.token, Top.goal) :
             stack' = Put([Used(Top) EXCEPT !.ready = {[token |-> t, keys |-> <<>>, nth |-> 0] : t \in T}])
  BY DEF ContextualEvidence
<1>4. PICK T \in SUBSET Given(Top.token, Top.goal) :
        stack' = Put([Used(Top) EXCEPT !.ready = {[token |-> t, keys |-> <<>>, nth |-> 0] : t \in T}])
  BY <1>3
<1> DEFINE h == Used(Top)
           kept(t) == [token |-> t, keys |-> <<>>, nth |-> 0]
           K == {kept(t) : t \in T}
           g == [h EXCEPT !.ready = K]
<1>5. /\ Fine(h, Nobody) /\ Done(h) /\ h \in Activations /\ h.token = Top.token /\ h.goal = Top.goal
  BY <1>2, UsedIsFine, UsedRoute
<1>6. stack' = Put(g)
  BY <1>4
<1> HIDE DEF h
<1>7. \A t \in T : Follows(h.token, h.goal, 0, t) /\ t \in Tokens
  <2> TAKE t \in T
  <2>1. Sound(Top.token) /\ t \in Given(Top.token, Top.goal)
    BY <1>2, FineIsTyped
  <2>2. Follows(h.token, h.goal, 0, t)
    BY <1>5, <2>1, GivenFollows
  <2> QED BY <2>2 DEF Follows, Sound
<1>8. K \in SUBSET Keeping /\ \A c \in K : Follows(h.token, h.goal, Len(c.keys), c.token)
  <2>1. \A t \in T : kept(t) \in Keeping /\ Follows(h.token, h.goal, Len(kept(t).keys), kept(t).token)
    BY <1>7 DEF Keeping
  <2> QED BY <2>1
<1>9. IsFiniteSet(K)
  <2>1. PICK a, b, c : Given(Top.token, Top.goal) \subseteq {a, b, c}
    BY FewAreGiven
  <2>2. K \in SUBSET {kept(a), kept(b), kept(c)}
    BY <2>1
  <2> QED BY <2>2, ThreeAreFinite
<1> HIDE DEF K
<1>10. Fine(g, Nobody) /\ Done(g) /\ g \in Activations
  BY <1>5, <1>8, <1>9, ReadyIsFine, Zenon
<1> HIDE DEF g
<1>11. UNCHANGED <<queries, offer, calling, subjects, apart>>
  BY DEF ContextualEvidence
<1>12. Move(Nobody)
  BY <1>6, <1>10, <1>11, StaysMove
<1>13. spent' \in Nat /\ spent' >= spent /\ (spent' # spent => spent < ask.budget) /\ spent' <= Spendable
  <2>1. /\ ask.budget \in Nat /\ ask.limit \in Nat /\ EvidenceSlice \in Nat /\ spent \in Nat
        /\ spent <= Spendable /\ Spendable \in Nat /\ ask.budget <= Spendable
    BY <1>2, AskedIsTyped, ConstructorAssumption DEF ConstructorAssumption, Scalars
  <2>2. i \in Nat /\ j \in Nat /\ spent' = spent + i + j /\ j <= i
    BY <1>3, <2>1 DEF EvidenceSpends
  <2>3. CASE i = 0
    BY <2>1, <2>2, <2>3
  <2>4. CASE i # 0
    <3>1. spent + i + j <= EvidenceStop + (IF j > 0 THEN 1 ELSE 0)
      BY <1>3, <2>4 DEF EvidenceSpends
    <3>2. EvidenceStop \in Int /\ EvidenceStop <= ask.budget - 1
      BY <2>1 DEF EvidenceStop, Smaller
    <3> QED BY <2>1, <2>2, <3>1, <3>2
  <2> QED BY <2>3, <2>4
<1>14. saw' \in BOOLEAN
  BY DEF ContextualEvidence
<1>15. Counts
  BY <1>2, <1>11, <1>13, <1>14 DEF Counts, Scalars
<1> QED BY <1>1, <1>11, <1>12, <1>15 DEF Ordinary

\* A relation path keeps one action for the give of what it finds.
LEMMA RelationPathStep ==
  ASSUME Turn, RelationPath
  PROVE  Free /\ Ordinary
<1>1. Free
  BY FreeWhenRunning DEF RelationPath
<1>2. Fine(Top, Nobody) /\ Top.route # "entering" /\ Scalars
  BY <1>1, FreeIsFine DEF Turn
<1>3. UNCHANGED <<queries, calling, subjects, apart>>
  BY DEF RelationPath
<1>4. saw' \in BOOLEAN
  <2>1. saw \in BOOLEAN /\ late \in BOOLEAN
    BY <1>2 DEF Scalars
  <2>2. saw' = saw \/ saw' = (saw \/ late)
    BY DEF RelationPath
  <2> QED BY <2>1, <2>2, Zenon
<1>5. Move(Nobody) \/ Pops
  <2>1. CASE Passes(Top) /\ UNCHANGED offer
    BY <1>1, <1>3, <2>1, TopPasses
  <2>2. CASE Rejects(Top)
    BY <1>2, <2>2, RejectsMove
  <2>3. CASE Gives(Top, FALSE)
    BY <1>2, <2>3, GivesMove
  <2> QED BY <2>1, <2>2, <2>3 DEF RelationPath
<1>6. spent' \in Nat /\ spent' >= spent /\ (spent' # spent => spent < ask.budget) /\ spent' <= Spendable
  <2>1. /\ ask.budget \in Nat /\ PathSlice \in Nat /\ spent \in Nat
        /\ spent <= Spendable /\ Spendable \in Nat /\ ask.budget <= Spendable
    BY <1>2, AskedIsTyped, ConstructorAssumption DEF ConstructorAssumption, Scalars
  <2>2. CASE ask.budget - spent <= 1
    <3>1. UNCHANGED <<spent, saw, offer>>
      BY <2>2, Zenon DEF RelationPath
    <3> QED BY <2>1, <3>1
  <2>3. CASE ~(ask.budget - spent <= 1)
    <3>1. PICK q \in 0..Smaller(PathSlice, ask.budget - spent - 1) : spent' = spent + q \/ spent' = spent + q + 1
      BY <2>3 DEF RelationPath
    <3>2. q \in Nat /\ q <= ask.budget - spent - 1
      BY <2>1, <2>3, <3>1 DEF Smaller
    <3> QED BY <2>1, <3>1, <3>2
  <2> QED BY <2>2, <2>3
<1>7. Counts
  BY <1>2, <1>3, <1>4, <1>6 DEF Counts, Scalars
<1> QED BY <1>1, <1>3, <1>5, <1>7 DEF Ordinary

\* The two lanes that put up a mark.
Takes(s) ==
  /\ s \in Subjects \ subjects /\ subjects' = subjects \cup {s}
  /\ Move(s) /\ Counts /\ UNCHANGED <<calling, apart>>

Calls ==
  /\ Lane(Top) = "copattern" /\ Top.left > 0 /\ calling' = TRUE
  /\ Move("call") /\ Counts /\ UNCHANGED <<subjects, apart>>

\* Taking a value apart is ordinary, or takes a mark that is free.
LEMMA ObservedEliminationStep ==
  ASSUME Turn, ObservedElimination
  PROVE  Free /\ (Ordinary \/ \E s \in Subjects : Takes(s))
<1>1. Free /\ Lane(Top) = "observed elimination"
  BY RunsFree DEF ObservedElimination
<1>2. Fine(Top, Nobody) /\ Top.route # "entering" /\ Scalars
  BY <1>1, FreeIsFine DEF Turn
<1>3. ask.budget \in Nat /\ QueryLimit \in Nat /\ Spendable \in Nat /\ ask.budget <= Spendable
  BY <1>2, AskedIsTyped
<1>4. UNCHANGED <<queries, calling, apart>>
  BY DEF ObservedElimination
<1>5. ASSUME NEW s \in Subjects \ subjects, Charges, subjects' = subjects \cup {s},
             Refines([Top EXCEPT !.owner = s])
      PROVE  Takes(s)
  <2> DEFINE g == [Top EXCEPT !.owner = s]
  <2>1. s \in Owners /\ s # "call"
    BY ConstructorAssumption DEF ConstructorAssumption, Owners
  <2>2. Fine(g, s) /\ g \in Activations
    BY <1>1, <1>2, <2>1, OwnerIsFine
  <2>3. g.route # "entering"
    BY <1>2, FineIsTyped DEF Activations
  <2>4. Refines(g)
    BY <1>5
  <2> HIDE DEF g
  <2>5. Move(s)
    BY <2>2, <2>3, <2>4, RefinesMove
  <2>6. spent' = spent + 1 /\ spent < ask.budget /\ saw' = saw
    BY <1>5 DEF Charges, Available
  <2>7. Counts
    BY <1>2, <1>3, <1>4, <2>6 DEF Counts, Scalars
  <2> QED BY <1>4, <1>5, <2>5, <2>7 DEF Takes
<1>6. CASE Refused /\ Passes(Top) /\ UNCHANGED <<subjects, offer>>
  <2>1. Move(Nobody) \/ Pops
    BY <1>1, <1>4, <1>6, TopPasses
  <2>2. spent' = spent /\ saw' = TRUE
    BY <1>6 DEF Refused
  <2>3. Counts
    BY <1>2, <1>3, <1>4, <2>2 DEF Counts, Scalars
  <2>4. Ordinary
    BY <1>4, <1>6, <2>1, <2>3 DEF Ordinary
  <2> QED BY <1>1, <2>4
<1> QED BY <1>1, <1>5, <1>6 DEF ObservedElimination

\* A copattern call is ordinary, or takes the mark of the call.
LEMMA CopatternCallStep ==
  ASSUME Turn, CopatternCall
  PROVE  Free /\ (Ordinary \/ Calls)
<1>1. Free /\ Lane(Top) = "copattern" /\ Top.left > 0
  BY RunsFree DEF CopatternCall
<1>2. Fine(Top, Nobody) /\ Top.route # "entering" /\ Scalars
  BY <1>1, FreeIsFine DEF Turn
<1>3. ask.budget \in Nat /\ QueryLimit \in Nat /\ Spendable \in Nat /\ ask.budget <= Spendable
  BY <1>2, AskedIsTyped
<1>4. UNCHANGED <<queries, subjects, apart>>
  BY DEF CopatternCall
<1>5. CASE Charges /\ stack' = Put(Used(Top)) /\ UNCHANGED <<calling, offer>>
  <2>1. Move(Nobody)
    BY <1>2, <1>5, RejectsMove DEF Rejects
  <2>2. spent' = spent + 1 /\ spent < ask.budget /\ saw' = saw
    BY <1>5 DEF Charges, Available
  <2>3. Counts
    BY <1>2, <1>3, <1>4, <2>2 DEF Counts, Scalars
  <2> QED BY <1>1, <1>4, <1>5, <2>1, <2>3 DEF Ordinary
<1>6. CASE /\ Available /\ spent + 1 < ask.budget /\ spent' = spent + 2 /\ UNCHANGED saw
           /\ \/ Rejects(Top) /\ UNCHANGED calling
              \/ /\ calling' = TRUE
                 /\ \E keys \in Shapes : \E t \in Refined(Top.token, Top.goal, Len(keys)) :
                      Introduces([Used(Top) EXCEPT !.owner = "call"], t, keys)
  <2>1. Counts
    BY <1>2, <1>3, <1>4, <1>6 DEF Counts, Scalars
  <2>2. CASE Rejects(Top) /\ UNCHANGED calling
    <3>1. Move(Nobody)
      BY <1>2, <2>2, RejectsMove
    <3> QED BY <1>1, <1>4, <2>1, <2>2, <3>1 DEF Ordinary
  <2>3. ASSUME NEW keys \in Shapes, NEW t \in Refined(Top.token, Top.goal, Len(keys)), calling' = TRUE,
               Introduces([Used(Top) EXCEPT !.owner = "call"], t, keys)
        PROVE  Calls
    <3> DEFINE h == Used(Top)
               g == [h EXCEPT !.owner = "call"]
    <3>1. Fine(h, Nobody) /\ Done(h) /\ h.route = Top.route /\ h \in Activations /\ Lane(h) = "copattern"
      BY <1>1, <1>2, UsedIsFine, UsedRoute
    <3>2. Introduces(g, t, keys)
      BY <2>3
    <3> HIDE DEF h
    <3>3. "call" \in Owners
      BY DEF Owners
    <3>4. Fine(g, "call") /\ Done(g)
      BY <3>1, <3>3, OwnerIsFine
    <3>5. g.route = Top.route
      BY <3>1 DEF Activations
    <3> HIDE DEF g
    <3>6. Sound(Top.token) /\ g.token = Top.token /\ g.goal = Top.goal
      BY <1>2, <3>4, FineIsTyped
    <3>7. keys \in Seq(Sequents) /\ Len(keys) \in Nat
      BY ConstructorAssumption DEF ConstructorAssumption
    <3>8. Follows(g.token, g.goal, Len(keys), t)
      BY <3>6, <3>7, RefinedFollows
    <3>9. Move("call")
      BY <1>2, <3>2, <3>4, <3>5, <3>7, <3>8, IntroducesMove
    <3> QED BY <1>1, <1>4, <2>1, <2>3, <3>9 DEF Calls
  <2>4. CASE /\ calling' = TRUE
             /\ \E keys \in Shapes : \E t \in Refined(Top.token, Top.goal, Len(keys)) :
                  Introduces([Used(Top) EXCEPT !.owner = "call"], t, keys)
    <3>1. Calls
      BY <2>3, <2>4
    <3> QED BY <1>1, <3>1
  <2> QED BY <1>6, <2>2, <2>4
<1>7. CASE /\ ~Available \/ spent + 1 = ask.budget
           /\ saw' = TRUE /\ spent' = (IF Available THEN spent + 1 ELSE spent)
           /\ Passes(Top) /\ UNCHANGED <<calling, offer>>
  <2>1. Move(Nobody) \/ Pops
    BY <1>1, <1>7, TopPasses
  <2>2. spent' \in Nat /\ spent' >= spent /\ (spent' # spent => spent < ask.budget) /\ spent' <= Spendable
    BY <1>2, <1>3, <1>7 DEF Available, Scalars
  <2>3. Counts
    BY <1>2, <1>3, <1>4, <1>7, <2>2 DEF Counts, Scalars
  <2> QED BY <1>1, <1>4, <1>7, <2>1, <2>3 DEF Ordinary
<1> QED BY <1>5, <1>6, <1>7 DEF CopatternCall

\* Every lane.
LEMMA LanesStep ==
  ASSUME Turn, Lanes
  PROVE  Free /\ (Ordinary \/ Calls \/ \E s \in Subjects : Takes(s))
<1>1. CASE \/ ExactLocals \/ ExactPremises \/ AbsurdFunction \/ AnonymousValue \/ PatternLambda
           \/ FunctionIntroduction \/ SoleIntroduction \/ SharedHead \/ EmptyIntroduction \/ Alternatives
           \/ RecordLiteral \/ Constructors
  BY <1>1, LanesOfTheirOwn, PlainIsOrdinary
<1>2. CASE \/ LocalMetaValues \/ Consequences \/ IndexedEvidence \/ LocalRefinements \/ VisibleEliminators
           \/ EvidenceRefinements \/ ApplicationSkeletons
  BY <1>2, ChargedLanes, PlainIsOrdinary
<1>3. CASE \/ ExpectedApplications \/ ExpectedEvidence \/ BackwardSupport \/ SuppliedValues
           \/ StructuredBuilders \/ ReadyEliminators \/ ReadyStructuredResults \/ ScopePremises
  BY <1>3, QueriedLanes, PlainIsOrdinary
<1>4. CASE GenerateCalls \/ RecursiveCalls
  BY <1>4, GenerateCallsStep, RecursiveCallsStep, PlainIsOrdinary
<1>5. CASE ShallowLocals \/ FocusedTerms
  BY <1>5, FocusedLanes
<1>6. CASE FollowReady
  BY <1>6, FollowReadyStep
<1>7. CASE ContextualEvidence
  BY <1>7, ContextualEvidenceStep
<1>8. CASE RelationPath
  BY <1>8, RelationPathStep
<1>9. CASE ObservedElimination
  BY <1>9, ObservedEliminationStep
<1>10. CASE CopatternCall
  BY <1>10, CopatternCallStep
<1> QED BY <1>1, <1>2, <1>3, <1>4, <1>5, <1>6, <1>7, <1>8, <1>9, <1>10 DEF Lanes

\* The goal is entered by the route its path and its type decide.
LEMMA EnterStep ==
  ASSUME Turn, Enter
  PROVE  offer = NoOffer /\ running /\ Top.owner = Nobody /\ Ordinary
<1>1. offer = NoOffer /\ running /\ Top.owner = Nobody /\ Lane(Top) = "enter"
  BY DEF Enter, Runs
<1>2. Fine(Top, Nobody) /\ Scalars /\ Top \in Activations
  BY <1>1, TopIsFine DEF Turn
<1>3. UNCHANGED <<spent, queries, offer, calling, subjects, apart>>
  BY DEF Enter
<1>4. saw' \in BOOLEAN
  <2>1. saw \in BOOLEAN /\ (saw' = saw \/ saw' = TRUE)
    BY <1>2 DEF Enter, Scalars
  <2> QED BY <2>1, Zenon
<1>5. Counts
  BY <1>2, <1>3, <1>4 DEF Counts, Scalars
<1>6. Move(Nobody) \/ Pops
  <2>1. CASE Returns
    BY <1>3, <2>1 DEF Returns, Pops
  <2>2. CASE ~Returns
    <3> DEFINE route == IF Top.key \in Top.path THEN "cycle"
                        ELSE IF Top.key.head = "arrow" THEN "arrow" ELSE "leaf"
               path == Top.path \cup {Top.key}
               f == [Top EXCEPT !.route = route, !.at = 0, !.path = path]
    <3>1. Top.depth <= ask.depth /\ Passes(f)
      <4>1. ~(~Available \/ Top.depth > ask.depth) /\ Passes(f)
        BY <2>2 DEF Enter
      <4>2. Top.depth \in Nat /\ ask.depth \in Nat
        BY <1>2, AskedIsTyped DEF Activations
      <4> QED BY <4>1, <4>2
    <3>2. route \in DOMAIN Route /\ route # "entering"
      BY RoutesEnd
    <3>3. path \in SUBSET Sequents
      BY <1>2 DEF Activations
    <3> HIDE DEF route, path
    <3>4. /\ f \in Activations /\ f.route = route
          /\ \A x \in {"goal", "key", "token", "depth", "link", "ready", "kids", "owner"} : f[x] = Top[x]
      <4> DEFINE a == [Top EXCEPT !.route = route]
                 b == [a EXCEPT !.at = 0]
                 Same(p, q) == \A x \in {"goal", "key", "token", "depth", "link", "ready", "kids", "owner"} :
                                 p[x] = q[x]
      <4>1. a \in Activations /\ a.route = route /\ Same(a, Top)
        BY <1>2, <3>2 DEF Activations
      <4> HIDE DEF a
      <4>2. b \in Activations /\ b.route = route /\ Same(b, Top)
        BY <4>1 DEF Activations
      <4> HIDE DEF b
      <4>3. LET c == [b EXCEPT !.path = path]
            IN  c \in Activations /\ c.route = route /\ Same(c, Top)
        BY <3>3, <4>2 DEF Activations
      <4>4. f = [b EXCEPT !.path = path]
        BY Zenon DEF a, b
      <4> HIDE DEF f
      <4> QED BY <4>3, <4>4
    <3> HIDE DEF f
    <3>5. Core(ask, f)
      BY <1>2, <3>1, <3>4 DEF Fine, Core
    <3>6. Kin(Top, f) /\ f.owner = Nobody /\ f.route # "entering"
      BY <1>1, <3>2, <3>4 DEF Kin
    <3> QED BY <1>3, <3>1, <3>5, <3>6, PassesMove
  <2> QED BY <2>1, <2>2
<1> QED BY <1>1, <1>3, <1>5, <1>6 DEF Ordinary

\* Asking for allowance, and the focused search that follows, is ordinary.
LEMMA RoomStep ==
  ASSUME Turn, Room
  PROVE  Free /\ Ordinary
<1>1. Free
  BY FreeWhenRunning DEF Room
<1>2. Scalars /\ ask.budget \in Nat /\ spent \in Nat /\ Spendable \in Nat /\ ask.budget <= Spendable
  BY AskedIsTyped DEF Turn, Scalars
<1>3. UNCHANGED <<queries, offer, calling, subjects, apart>> /\ (Passes(Top) \/ Returns)
  BY DEF Room
<1>4. saw' \in BOOLEAN
  <2>1. saw \in BOOLEAN /\ late \in BOOLEAN
    BY <1>2 DEF Scalars
  <2>2. saw' = saw \/ saw' = TRUE \/ saw' = (saw \/ late)
    BY DEF Room
  <2> QED BY <2>1, <2>2, Zenon
<1>5. Counts
  <2>1. CASE spent >= ask.budget
    <3>1. UNCHANGED spent
      BY <2>1 DEF Room
    <3> QED BY <1>2, <1>3, <1>4, <3>1 DEF Counts, Scalars
  <2>2. CASE ~(spent >= ask.budget)
    <3> DEFINE slice == IF Lane(Top) = "room again" THEN FocusedSlice ELSE IF Shallow(Top) THEN ShallowSlice ELSE 0
    <3>1. slice \in Nat
      BY ConstructorAssumption DEF ConstructorAssumption
    <3>2. PICK n \in FocusedSpends(Top) : spent' = spent + n
      BY <2>2 DEF Room
    <3>3. n \in IF late THEN {0} ELSE 0..Smaller(slice, ask.budget - spent)
      BY <3>2 DEF FocusedSpends
    <3> HIDE DEF slice
    <3>4. n \in Nat /\ spent + n <= ask.budget
      BY <1>2, <2>2, <3>1, <3>3 DEF Smaller
    <3>5. spent + n <= Spendable /\ spent < ask.budget
      BY <1>2, <2>2, <3>4
    <3> QED BY <1>2, <1>3, <1>4, <3>2, <3>4, <3>5, ChargesWithin
  <2> QED BY <2>1, <2>2
<1>6. Move(Nobody) \/ Pops
  BY <1>1, <1>3, TopPasses
<1> QED BY <1>1, <1>3, <1>5, <1>6 DEF Ordinary

\* Premises and skeletons are lanes of the leaf route only.
LEMMA PremiseLanesAreLeaves ==
  ASSUME NEW route \in DOMAIN Route, NEW at \in 1..Len(Route[route]),
         Route[route][at] \in {"premises", "skeletons"}
  PROVE  route = "leaf"
<1>1. route \in {"entering", "cycle", "arrow", "leaf"}
  BY RoutesEnd
<1>2. CASE route = "entering"
  <2>1. Len(Route.entering) = 1 /\ Route.entering[1] = "enter"
    BY DEF Route
  <2> QED BY <1>2, <2>1
<1>3. CASE route = "cycle"
  <2>1. /\ Len(Route.cycle) = 3 /\ Route.cycle[1] = "exact locals" /\ Route.cycle[2] = "exact premises"
        /\ Route.cycle[3] = "recursive calls"
    BY DEF Route
  <2>2. at \in 1..3
    <3>1. Route[route] = Route.cycle
      BY <1>3
    <3>2. Len(Route[route]) = 3
      BY <2>1, <3>1
    <3> QED BY <3>2
  <2>3. at \in {1, 2, 3}
    BY <2>2
  <2> QED BY <1>3, <2>1, <2>3
<1>4. CASE route = "arrow"
  <2>1. /\ Len(Route.arrow) = 7 /\ Route.arrow[1] = "expected applications"
        /\ Route.arrow[2] = "relation path" /\ Route.arrow[3] = "local metas"
        /\ Route.arrow[4] = "supplied values" /\ Route.arrow[5] = "pattern lambda"
        /\ Route.arrow[6] = "absurd" /\ Route.arrow[7] = "introduce"
    BY DEF Route
  <2>2. at \in 1..7
    <3>1. Route[route] = Route.arrow
      BY <1>4
    <3>2. Len(Route[route]) = 7
      BY <2>1, <3>1
    <3> QED BY <3>2
  <2>3. at \in {1, 2, 3, 4, 5, 6, 7}
    BY <2>2
  <2> QED BY <1>4, <2>1, <2>3
<1> QED BY <1>1, <1>2, <1>3, <1>4

\* A lane that is over passes on, or premises are retrieved wider.
LEMMA LaneOverStep ==
  ASSUME Turn, LaneOver
  PROVE  Free /\ Ordinary
<1>1. Free
  BY DEF LaneOver, Free
<1>2. Fine(Top, Nobody) /\ Top.route # "entering" /\ Scalars /\ Top \in Activations
  BY <1>1, FreeIsFine, TopIsFine DEF Turn
<1>3. UNCHANGED <<spent, queries, saw, offer, calling, subjects, apart>>
  BY DEF LaneOver
<1>4. saw' \in BOOLEAN
  <2>1. saw \in BOOLEAN /\ saw' = saw
    BY <1>2, <1>3 DEF Scalars
  <2> QED BY <2>1, Zenon
<1>5. Counts
  BY <1>2, <1>3, <1>4 DEF Counts, Scalars
<1>6. Move(Nobody) \/ Pops
  <2>1. CASE Passes(Top)
    BY <1>1, <1>3, <2>1, TopPasses
  <2>2. CASE ~Passes(Top)
    <3> DEFINE f == [Top EXCEPT !.width = @ + 1]
               W == WideLanes(Top)
               at == Least(W)
    <3>1. Lane(Top) \in {"premises", "skeletons"} /\ stack' = Put(Goes(f, at))
      BY <2>2 DEF LaneOver, Widened
    <3>2. Wide(ask, Top, Lane(Top)) /\ Top.route = "leaf" /\ Top.at \in 1..Len(Route.leaf)
      <4>1. Place(ask, Top) /\ Top.route \in DOMAIN Route
        BY <1>2 DEF Fine, Activations
      <4>2. Top.at \in 1..Len(Route[Top.route]) /\ Wide(ask, Top, Lane(Top))
        BY <3>1, <4>1 DEF Place
      <4>3. Top.route = "leaf"
        BY <3>1, <4>1, <4>2, PremiseLanesAreLeaves DEF Lane
      <4> QED BY <4>2, <4>3
    <3>3. /\ f \in Activations
          /\ \A x \in {"goal", "key", "token", "depth", "link", "route", "at", "intro", "ready", "kids", "owner"} :
               f[x] = Top[x]
      <4>1. \A x \in DOMAIN Top \ {"width"} : f[x] = Top[x]
        OBVIOUS
      <4>2. {"goal", "key", "token", "depth", "link", "route", "at", "intro", "ready", "kids", "owner"}
              \subseteq DOMAIN Top \ {"width"}
        BY <1>2 DEF Activations
      <4>3. f \in Activations
        BY <1>2, SMTT(60) DEF Activations
      <4> QED BY <4>1, <4>2, <4>3, Zenon
    <3>4. Len(Route.leaf) \in Nat
      BY RoutesEnd
    <3> HIDE DEF f
    <3>5. Top.at \in W
      <4>1. Open(Top, Lane(Top))
        BY <3>1, <3>2 DEF Open, Wide, CallLanes
      <4>2. Lane(Top) = Route.leaf[Top.at] /\ Top.at \in 1..Top.at
        BY <3>2, <3>4 DEF Lane
      <4> QED BY <3>1, <4>1, <4>2 DEF WideLanes
    <3>6. W \subseteq 1..Top.at
      BY DEF WideLanes
    <3>7. at \in W
      <4>1. W \subseteq Nat
        BY <3>2, <3>4, <3>6
      <4> HIDE DEF W
      <4> QED BY <3>5, <4>1, LeastNatural
    <3>8. Route.leaf[at] \in {"premises", "skeletons"} /\ Open(Top, Route.leaf[at])
      BY <3>7 DEF WideLanes
    <3>9. at \in 1..Len(Route.leaf)
      BY <3>2, <3>4, <3>6, <3>7
    <3> HIDE DEF at, W
    <3>10. Core(ask, f) /\ Kin(Top, f) /\ f.owner = Nobody /\ f.route = "leaf"
      BY <1>2, <3>2, <3>3 DEF Fine, Core, Kin
    <3>11. Wide(ask, f, Route.leaf[at])
      <4>1. Wide(ask, Top, Route.leaf[at])
        BY <3>8, OpenIsWide
      <4> QED BY <3>3, <4>1 DEF Wide
    <3>12. /\ Goes(f, at) \in Activations /\ Fine(Goes(f, at), Nobody)
           /\ Lane(Goes(f, at)) = Route.leaf[at]
      BY <3>9, <3>10, <3>11, GoesIsFine
    <3>13. Stays(Goes(f, at))
      BY <1>3, <3>1, <3>8, <3>12 DEF Stays
    <3> QED BY <3>12, <3>13 DEF Move
  <2> QED BY <2>1, <2>2
<1> QED BY <1>1, <1>3, <1>5, <1>6 DEF Ordinary

\* A finally clause takes the mark of its activation away.
Releases ==
  /\ Top.owner # Nobody /\ Move(Nobody) /\ Counts /\ UNCHANGED apart
  /\ IF Lane(Top) = "copattern" THEN calling' = FALSE /\ UNCHANGED subjects
     ELSE subjects' = subjects \ {Top.owner} /\ UNCHANGED calling

\* A finally clause takes away a mark.
LEMMA FinallyStep ==
  ASSUME Turn, Finally
  PROVE  offer = NoOffer /\ running /\ Releases
<1>1. offer = NoOffer /\ running /\ Top.owner # Nobody
  BY DEF Finally
<1>2. Fine(Top, Top.owner) /\ Scalars /\ Top \in Activations
  BY TopIsFine DEF Turn
<1>3. UNCHANGED <<spent, queries, saw, offer, apart>>
  BY DEF Finally
<1>4. saw' \in BOOLEAN
  <2>1. saw \in BOOLEAN /\ saw' = saw
    BY <1>2, <1>3 DEF Scalars
  <2> QED BY <2>1, Zenon
<1>5. Counts
  BY <1>2, <1>3, <1>4 DEF Counts, Scalars
<1>6. Move(Nobody)
  <2> DEFINE g == [Top EXCEPT !.owner = Nobody]
  <2>1. Nobody \in Owners
    BY DEF Owners
  <2>2. Fine(g, Nobody) /\ g \in Activations /\ Lane(g) = Lane(Top)
    BY <1>2, <2>1, OwnerIsFine
  <2>3. stack' = Put(g) /\ (Lane(Top) = "copattern" => calling' = FALSE)
    BY DEF Finally
  <2> HIDE DEF g
  <2>4. Stays(g)
    BY <1>3, <2>2, <2>3 DEF Stays
  <2> QED BY <2>2, <2>4 DEF Move
<1> QED BY <1>1, <1>3, <1>5, <1>6 DEF Finally, Releases

-----------------------------------------------------------------------------
(* The stack after a step.                                                 *)

\* All that the activations above one rely on.
Alike(p, q) ==
  p.token = q.token /\ p.goal = q.goal /\ p.kids = q.kids /\ p.depth = q.depth /\ p.route = q.route

\* A link reads the same in two stacks that agree on its parent.
LEMMA LinksAlike ==
  ASSUME NEW s, NEW u, NEW link, link.up # 0 => Alike(s[link.up], u[link.up])
  PROVE  /\ GoalOf(u, link) = GoalOf(s, link) /\ MadeBefore(u, link) = MadeBefore(s, link)
         /\ NextAfter(u, link) = NextAfter(s, link)
<1>1. CASE link.up = 0
  BY <1>1 DEF GoalOf, MadeBefore, NextAfter
<1>2. CASE link.up # 0
  BY <1>2 DEF GoalOf, MadeBefore, NextAfter, Alike
<1> QED BY <1>1, <1>2

\* So does what is left of its introduction.
LEMMA RestAlike ==
  ASSUME NEW s, NEW u, NEW link, link.up # 0 => Alike(s[link.up], u[link.up]), NEW n
  PROVE  Rest(u, link, n) = Rest(s, link, n)
<1>1. CASE link.up = 0
  BY <1>1 DEF Rest
<1>2. CASE link.up # 0
  BY <1>2 DEF Rest, Alike
<1> QED BY <1>1, <1>2

\* So does its place.
LEMMA LinkedAlike ==
  ASSUME NEW s, NEW u, NEW link, link.up # 0 => Alike(s[link.up], u[link.up]), NEW k, Linked(s, k, link)
  PROVE  Linked(u, k, link)
<1>1. CASE link.up = 0
  BY <1>1 DEF Linked
<1>2. CASE link.up # 0
  BY <1>2 DEF Linked, Alike
<1> QED BY <1>1, <1>2

\* An activation works where it did when those below it are alike.
LEMMA ThreadsAlike ==
  ASSUME NEW r, NEW s, NEW u, NEW k \in Nat, u[k] = s[k], \A j \in 1..k - 1 : Alike(s[j], u[j]),
         Thread(r, s, k)
  PROVE  Thread(r, u, k)
<1> DEFINE f == s[k]
           link == f.link
<1>1. link.up \in 0..k - 1
  BY DEF Thread, Linked
<1>2. link.up # 0 => Alike(s[link.up], u[link.up])
  BY <1>1
<1>3. /\ GoalOf(u, link) = GoalOf(s, link) /\ MadeBefore(u, link) = MadeBefore(s, link)
      /\ NextAfter(u, link) = NextAfter(s, link)
  BY <1>2, LinksAlike
<1>a. Rest(u, link, link.nth) = Rest(s, link, link.nth)
  BY <1>2, RestAlike
<1>b. Linked(u, k, link)
  <2>1. Linked(s, k, link)
    BY DEF Thread
  <2> QED BY <1>2, <2>1, LinkedAlike
<1>4. link.up > 0 => u[link.up].depth = s[link.up].depth /\ u[link.up].route = s[link.up].route
  BY <1>1, <1>2 DEF Alike
<1> QED BY <1>3, <1>a, <1>b, <1>4 DEF Thread

\* The newest activation changes.
LEMMA PutThreads ==
  ASSUME Turn, NEW g \in Activations, NEW o, Fine(g, o)
  PROVE  /\ Put(g) \in Seq(Activations) /\ Len(Put(g)) = Len(stack) /\ Put(g)[Len(stack)] = g
         /\ \A k \in 1..Len(stack) - 1 : Put(g)[k] = stack[k]
         /\ \A k \in 1..Len(stack) : Thread(ask, Put(g), k)
<1> DEFINE n == Len(stack)
           s == Put(g)
<1>1. stack \in Seq(Activations) /\ n \in Nat \ {0} /\ \A k \in 1..n : Thread(ask, stack, k)
  BY TopIsFine DEF Turn, Threads
<1>2. /\ s \in Seq(Activations) /\ Len(s) = n /\ s[n] = g
      /\ \A k \in 1..n - 1 : s[k] = stack[k]
  BY <1>1 DEF Put
<1> HIDE DEF s
<1>3. ASSUME NEW k \in 1..n - 1
      PROVE  Thread(ask, s, k)
  <2>1. Thread(ask, stack, k) /\ k \in Nat /\ s[k] = stack[k]
    BY <1>1, <1>2
  <2>2. \A j \in 1..k - 1 : Alike(stack[j], s[j])
    BY <1>1, <1>2 DEF Alike
  <2> QED BY <2>1, <2>2, ThreadsAlike
<1>4. Thread(ask, s, n)
  <2> DEFINE link == Top.link
  <2>1. Thread(ask, stack, n) /\ Top = stack[n]
    BY <1>1 DEF Top
  <2>2. link.up \in 0..n - 1
    BY <2>1 DEF Thread, Linked
  <2>3. link.up # 0 => Alike(stack[link.up], s[link.up])
    BY <1>1, <1>2, <2>2 DEF Alike
  <2>4. /\ GoalOf(s, link) = GoalOf(stack, link) /\ MadeBefore(s, link) = MadeBefore(stack, link)
        /\ NextAfter(s, link) = NextAfter(stack, link)
    BY <2>3, LinksAlike
  <2>a. Rest(s, link, link.nth) = Rest(stack, link, link.nth)
    BY <2>3, RestAlike
  <2>b. Linked(s, n, link)
    <3>1. Linked(stack, n, link)
      BY <2>1 DEF Thread
    <3> HIDE DEF link, n
    <3> QED BY <2>3, <3>1, LinkedAlike
  <2>5. link.up > 0 => s[link.up].depth = stack[link.up].depth /\ s[link.up].route = stack[link.up].route
    BY <2>2, <2>3 DEF Alike
  <2>6. /\ Core(ask, g) /\ Place(ask, g) /\ g.goal = Top.goal /\ g.token = Top.token /\ g.link = link
        /\ g.depth = Top.depth
    BY DEF Fine, Kin
  <2> HIDE DEF link
  <2> QED BY <1>2, <2>1, <2>4, <2>a, <2>b, <2>5, <2>6 DEF Thread, link
<1>5. \A k \in 1..n : Thread(ask, s, k)
  BY <1>1, <1>3, <1>4
<1> QED BY <1>2, <1>5 DEF s

\* A goal that an introduction left starts above the rest.
LEMMA ChildThreads ==
  ASSUME NEW r, r.depth \in Nat, NEW s \in Seq(Activations), \A k \in 1..Len(s) : Thread(r, s, k),
         NEW up \in 1..Len(s), s[up].route # "entering",
         NEW nth \in 1..Len(s[up].kids), NEW u, Sound(u), NEW sum \in Plans,
         u.open = Rest(s, [up |-> up, nth |-> nth, sum |-> sum], nth),
         u.made = s[up].token.made + 1 + sum.size, u.next >= s[up].token.next + Len(s[up].kids)
  PROVE  LET c == Child(s[up], nth, u, sum, up)
             t == Append(s, c)
         IN  /\ t \in Seq(Activations) /\ Len(t) = Len(s) + 1 /\ c.owner = Nobody /\ Lane(c) = "enter"
             /\ \A k \in 1..Len(t) : Thread(r, t, k)
<1> DEFINE p == s[up]
           c == Child(p, nth, u, sum, up)
           t == Append(s, c)
           link == [up |-> up, nth |-> nth, sum |-> sum]
           n == Len(s)
<1>1. n \in Nat /\ up \in Nat /\ up >= 1 /\ up <= n /\ p \in Activations
  OBVIOUS
<1>2. Core(r, p) /\ Sound(p.token) /\ p.goal \in p.token.open
  BY DEF Thread, Core
<1>3. /\ p.kids \in Seq(Kids) /\ p.depth \in Nat /\ p.grant \in Nat /\ p.token.next \in Nat /\ p.token.made \in Nat
      /\ p.path \in SUBSET Sequents /\ Len(p.kids) \in Nat /\ nth \in Nat /\ nth >= 1 /\ nth <= Len(p.kids)
      /\ p.depth <= r.depth
  <2>1. p.kids \in Seq(Kids) /\ p.depth \in Nat /\ p.grant \in Nat /\ p.path \in SUBSET Sequents
    BY <1>1 DEF Activations
  <2>2. p.token.next \in Nat /\ p.token.made \in Nat
    BY <1>2 DEF Sound, Tokens
  <2>3. p.depth <= r.depth
    BY <1>2 DEF Core
  <2>4. Len(p.kids) \in Nat /\ nth \in 1..Len(p.kids)
    BY <2>1
  <2> QED BY <2>1, <2>2, <2>3, <2>4
<1>4. p.kids[nth] \in Kids /\ p.kids[nth].goal = p.token.next + nth - 1
  BY <1>2, <1>3 DEF Core
<1>5. u \in Tokens /\ u.next \in Nat
  BY DEF Sound, Tokens
<1>6. link \in Links
  BY <1>1, <1>3 DEF Links
<1>7. c = [goal |-> p.kids[nth].goal, key |-> p.kids[nth].key, token |-> u, depth |-> p.depth + 1,
           path |-> p.path, stop |-> p.grant, link |-> link, route |-> "entering", at |-> 1, left |-> 1,
           won |-> FALSE, intro |-> "unasked", ready |-> {}, kids |-> <<>>, grant |-> p.grant,
           quota |-> p.grant, width |-> 1, owner |-> Nobody]
  BY DEF Child, Activation
<1>8. c \in Activations
  <2>1. p.kids[nth].goal \in Nat /\ p.kids[nth].key \in Sequents
    BY <1>4 DEF Kids
  <2>2. "entering" \in DOMAIN Route /\ "unasked" \in Intros /\ Nobody \in Owners /\ <<>> \in Seq(Kids)
    BY RoutesEnd DEF Intros, Owners
  <2>3. p.depth + 1 \in Nat
    BY <1>3
  <2>4. /\ u \in Tokens /\ p.path \in SUBSET Sequents /\ p.grant \in Nat /\ link \in Links
        /\ FALSE \in BOOLEAN /\ {} \in SUBSET Keeping /\ 1 \in Nat /\ 1 \in Int
    BY <1>3, <1>5, <1>6
  <2> HIDE DEF c, link, p
  <2> QED BY <1>7, <2>1, <2>2, <2>3, <2>4 DEF Activations
<1>9. /\ c.goal = p.kids[nth].goal /\ c.token = u /\ c.depth = p.depth + 1 /\ c.link = link
      /\ c.route = "entering" /\ c.at = 1 /\ c.ready = {} /\ c.kids = <<>> /\ c.owner = Nobody
  BY <1>7
<1>10. Lane(c) = "enter" /\ Len(Route.entering) = 1
  BY <1>9 DEF Lane, Route
<1> HIDE DEF c
<1>11. /\ t \in Seq(Activations) /\ Len(t) = n + 1 /\ t[n + 1] = c /\ \A k \in 1..n : t[k] = s[k]
  BY <1>1, <1>8
<1> HIDE DEF t
<1>12. ASSUME NEW k \in 1..n
       PROVE  Thread(r, t, k)
  <2>1. Thread(r, s, k) /\ k \in Nat /\ t[k] = s[k]
    BY <1>1, <1>11
  <2>2. \A j \in 1..k - 1 : Alike(s[j], t[j])
    BY <1>1, <1>11 DEF Alike
  <2> QED BY <2>1, <2>2, ThreadsAlike
<1>13. Thread(r, t, n + 1)
  <2>1. /\ link.up = up /\ link.nth = nth /\ link.sum = sum /\ t[up] = p
    BY <1>1, <1>11
  <2> HIDE DEF link
  <2>2. Linked(t, n + 1, link)
    BY <1>1, <1>3, <2>1 DEF Linked
  <2>3. c.goal = GoalOf(t, link) /\ u.made = MadeBefore(t, link) /\ u.next >= NextAfter(t, link)
    BY <1>1, <1>4, <1>9, <2>1 DEF GoalOf, MadeBefore, NextAfter
  <2>4. u.open = Rest(t, link, nth)
    <3>1. s[link.up] = t[link.up]
      BY <2>1
    <3>2. Rest(t, link, nth) = Rest(s, link, nth)
      BY <3>1, Zenon DEF Rest
    <3>3. u.open = Rest(s, link, nth)
      BY Zenon DEF link
    <3> QED BY <3>2, <3>3, Zenon
  <2>5. c.goal \in u.open
    <3>1. p.token.next + nth - 1 \in (p.token.next + nth - 1)..(p.token.next + Len(p.kids) - 1)
      BY <1>3
    <3>2. Rest(t, link, nth) = (p.token.open \ {p.goal}) \cup
            ((p.token.next + nth - 1)..(p.token.next + Len(p.kids) - 1))
      BY <1>1, <2>1 DEF Rest
    <3> QED BY <1>4, <1>9, <2>4, <3>1, <3>2
  <2>6. Core(r, c)
    <3>1. IsFiniteSet(c.ready) /\ \A d \in c.ready : Follows(c.token, c.goal, Len(d.keys), d.token)
      BY <1>9, FS_EmptySet
    <3>2. \A i \in DOMAIN c.kids : c.kids[i].goal = c.token.next + i - 1
      BY <1>9
    <3>3. c.depth <= r.depth + 1 /\ c.route = "entering"
      BY <1>3, <1>9
    <3> QED BY <1>8, <1>9, <2>5, <3>1, <3>2, <3>3 DEF Core
  <2>7. Place(r, c)
    <3>1. 1 \in 1..Len(Route[c.route])
      <4>1. Len(Route[c.route]) = 1
        BY <1>9, <1>10
      <4> QED BY <4>1
    <3> QED BY <1>9, <1>10, <3>1 DEF Place
  <2> QED BY <1>1, <1>9, <1>11, <2>1, <2>2, <2>3, <2>4, <2>6, <2>7 DEF Thread
<1>14. \A k \in 1..Len(t) : Thread(r, t, k)
  BY <1>1, <1>11, <1>12, <1>13
<1>15. /\ t \in Seq(Activations) /\ Len(t) = Len(s) + 1 /\ c.owner = Nobody /\ Lane(c) = "enter"
       /\ \A k \in 1..Len(t) : Thread(r, t, k)
  BY <1>9, <1>10, <1>11, <1>14
<1> QED BY <1>15 DEF t, c

\* What a move leaves of the stack: the activations below the newest one as
\* they were, the newest one with its mark, and above it nothing marked.
Grown(o) ==
  LET n == Len(stack) IN
  /\ Len(stack') \in Nat /\ Len(stack') >= n
  /\ \A k \in 1..n - 1 : stack'[k] = stack[k]
  /\ stack'[n].owner = o
  /\ \A k \in 1..Len(stack') : k > n => stack'[k].owner = Nobody /\ Lane(stack'[k]) # "copattern"
  /\ Lane(stack'[n]) = "copattern" /\ stack'[n].left > 0 => Len(stack') = n /\ ~calling' /\ offer' = NoOffer

Settled == Threads' /\ OfferFits' /\ offer' \in Offered

\* No solution is on its way.
LEMMA NoOfferIsTyped == NoOffer \in Offered
<1>1. RootToken \in Tokens /\ NoPlan \in Plans
  BY Roots
<1>2. [up |-> -1, nth |-> 0, sum |-> NoPlan] \in Links
  BY <1>1 DEF Links
<1> QED BY <1>1, <1>2 DEF NoOffer, Offered

\* The newest activation goes on: the stack fits.
LEMMA StaysSettle ==
  ASSUME Turn, offer = NoOffer, NEW o, NEW g \in Activations, Fine(g, o), Stays(g), UNCHANGED ask
  PROVE  Settled /\ Grown(o)
<1>1. /\ stack' = Put(g) /\ offer' = NoOffer
      /\ (Lane(g) = "copattern" /\ g.left > 0 => ~calling')
  BY DEF Stays
<1>2. /\ Put(g) \in Seq(Activations) /\ Len(Put(g)) = Len(stack) /\ Put(g)[Len(stack)] = g
      /\ \A k \in 1..Len(stack) - 1 : Put(g)[k] = stack[k]
      /\ \A k \in 1..Len(stack) : Thread(ask, Put(g), k)
  BY PutThreads
<1>3. Len(stack) \in Nat /\ g.owner = o
  BY TopIsFine DEF Fine
<1>4. Threads'
  BY <1>1, <1>2 DEF Threads
<1>5. OfferFits' /\ offer' \in Offered
  BY <1>1, NoOfferIsTyped DEF OfferFits
<1>6. Grown(o)
  BY <1>1, <1>2, <1>3 DEF Grown
<1> QED BY <1>4, <1>5, <1>6 DEF Settled

\* A solution of the newest activation leaves open what comes after its goal.
LEMMA YieldsSettle ==
  ASSUME Turn, offer = NoOffer, NEW o, NEW g \in Activations, Fine(g, o), Yields(g), UNCHANGED ask
  PROVE  Settled /\ Grown(o)
<1> DEFINE n == Len(stack)
           s == Put(g)
           link == Top.link
<1>1. PICK u \in Tokens, rec \in BOOLEAN :
        /\ Follows(Top.token, Top.goal, 0, u)
        /\ offer' = [token |-> u, plan |-> Leaf(rec), link |-> link]
  BY DEF Yields
<1>2. stack' = s /\ Done(g)
  BY DEF Yields
<1>3. /\ s \in Seq(Activations) /\ Len(s) = n /\ s[n] = g
      /\ \A k \in 1..n - 1 : s[k] = stack[k]
      /\ \A k \in 1..n : Thread(ask, s, k)
  BY PutThreads
<1>4. n \in Nat \ {0} /\ g.owner = o /\ g.left \in Int /\ g.link = link /\ g.token = Top.token /\ g.goal = Top.goal
      /\ Sound(g.token)
  BY TopIsFine DEF Fine, Activations, Kin
<1> HIDE DEF s
<1>5. Threads'
  BY <1>2, <1>3 DEF Threads
<1>6. Grown(o)
  BY <1>2, <1>3, <1>4 DEF Grown, Done
<1>7. Leaf(rec) \in Plans /\ Leaf(rec).size = 1
  BY Leaves
<1>8. link \in Links /\ link.up \in Int /\ link.nth \in Int /\ link.sum \in Plans
  BY <1>4 DEF Activations, Links
<1>9. offer' \in Offered
  BY <1>1, <1>7, <1>8 DEF Offered
<1>10. Fits(s, offer')
  <2>1. /\ offer'.token = u /\ offer'.plan.size = 1 /\ offer'.link = link
    BY <1>1, <1>7
  <2> HIDE DEF link
  <2>2. /\ Linked(s, n, link) /\ g.goal = GoalOf(s, link) /\ g.token.open = Rest(s, link, link.nth)
        /\ g.token.made = MadeBefore(s, link) /\ g.token.next >= NextAfter(s, link)
        /\ link.up > 0 => s[link.up].route # "entering"
    BY <1>3, <1>4 DEF Thread
  <2>3. /\ Sound(u) /\ u.next = g.token.next + 0 /\ u.made = g.token.made + 1
        /\ u.open = (g.token.open \ {g.goal}) \cup (g.token.next..(g.token.next + 0 - 1))
    BY <1>1, <1>4 DEF Follows
  <2>4. g.token.next \in Nat /\ u.next = g.token.next /\ u.open = g.token.open \ {g.goal}
    BY <1>4, <2>3 DEF Sound, Tokens
  <2>5. u.open = Rest(s, link, link.nth + 1)
    <3>1. link.up = 0 => link.nth = 1
      BY <2>2 DEF Linked
    <3>2. link.up # 0 => /\ Sound(s[link.up].token) /\ link.nth \in Nat /\ link.nth >= 1
                         /\ Len(s[link.up].kids) \in Nat /\ link.nth <= Len(s[link.up].kids)
      <4> SUFFICES ASSUME link.up # 0
                   PROVE  /\ Sound(s[link.up].token) /\ link.nth \in Nat /\ link.nth >= 1
                          /\ Len(s[link.up].kids) \in Nat /\ link.nth <= Len(s[link.up].kids)
        OBVIOUS
      <4>1. link.up \in 1..n /\ link.nth >= 1 /\ link.nth <= Len(s[link.up].kids)
        BY <1>4, <1>8, <2>2 DEF Linked
      <4>2. Core(ask, s[link.up])
        BY <1>3, <4>1 DEF Thread
      <4>3. s[link.up].kids \in Seq(Kids)
        BY <4>2 DEF Core, Activations
      <4> QED BY <1>8, <4>1, <4>2, <4>3 DEF Core
    <3>3. Rest(s, link, link.nth) \ {GoalOf(s, link)} = Rest(s, link, link.nth + 1)
      BY <3>1, <3>2, RestWithout
    <3> QED BY <2>2, <2>4, <3>3
  <2>6. u.made = MadeBefore(s, link) + 1
    BY <2>2, <2>3
  <2> QED BY <1>3, <2>1, <2>2, <2>3, <2>4, <2>5, <2>6 DEF Fits
<1>11. OfferFits'
  BY <1>2, <1>10 DEF OfferFits
<1> QED BY <1>5, <1>6, <1>9, <1>11 DEF Settled

\* The first child of an introduction works on the state it left.
LEMMA BeginsSettle ==
  ASSUME Turn, offer = NoOffer, NEW o, NEW g \in Activations, Fine(g, o), Begins(g), UNCHANGED ask
  PROVE  Settled /\ Grown(o)
<1> DEFINE n == Len(stack)
           s == Put(g)
<1>1. Done(g) /\ g.route # "entering" /\ Len(g.kids) >= 1 /\ offer' = NoOffer
  BY DEF Begins
<1>2. PICK u \in Tokens :
        /\ Follows(Top.token, Top.goal, Len(g.kids), u)
        /\ stack' = Append(s, Child(g, 1, u, NoPlan, n))
  BY DEF Begins
<1>3. /\ s \in Seq(Activations) /\ Len(s) = n /\ s[n] = g
      /\ \A k \in 1..n - 1 : s[k] = stack[k]
      /\ \A k \in 1..n : Thread(ask, s, k)
  BY PutThreads
<1>4. /\ n \in Nat \ {0} /\ g.owner = o /\ g.left \in Int /\ g.token = Top.token /\ g.goal = Top.goal
      /\ Sound(g.token) /\ ask.depth \in Nat
  BY TopIsFine, AskedIsTyped DEF Fine, Activations, Kin, Turn
<1>5. g.kids \in Seq(Kids) /\ Len(g.kids) \in Nat /\ 1 \in 1..Len(g.kids)
  <2>1. g.kids \in Seq(Kids)
    BY DEF Activations
  <2>2. Len(g.kids) \in Nat
    BY <2>1
  <2> QED BY <1>1, <2>1, <2>2
<1> HIDE DEF s
<1>6. Sound(u) /\ u.next = g.token.next + Len(g.kids) /\ u.made = g.token.made + 1
      /\ u.open = (g.token.open \ {g.goal}) \cup (g.token.next..(g.token.next + Len(g.kids) - 1))
  BY <1>2, <1>4 DEF Follows
<1>7. g.token.next \in Nat /\ g.token.made \in Nat
  BY <1>4 DEF Sound, Tokens
<1>8. u.open = Rest(s, [up |-> n, nth |-> 1, sum |-> NoPlan], 1)
  <2>1. g.token.next + 1 - 1 = g.token.next
    BY <1>7
  <2> QED BY <1>3, <1>4, <1>6, <2>1 DEF Rest
<1>9. NoPlan \in Plans /\ NoPlan.size = 0
  BY Roots
<1>10. u.made = s[n].token.made + 1 + NoPlan.size /\ u.next >= s[n].token.next + Len(s[n].kids)
  BY <1>3, <1>5, <1>6, <1>7, <1>9
<1> DEFINE c == Child(s[n], 1, u, NoPlan, n)
<1>11. /\ Append(s, c) \in Seq(Activations) /\ Len(Append(s, c)) = Len(s) + 1 /\ c.owner = Nobody
       /\ Lane(c) = "enter" /\ \A k \in 1..Len(Append(s, c)) : Thread(ask, Append(s, c), k)
  <2>1. n \in 1..Len(s) /\ s[n].route # "entering" /\ 1 \in 1..Len(s[n].kids)
    BY <1>1, <1>3, <1>4, <1>5
  <2>2. \A k \in 1..Len(s) : Thread(ask, s, k)
    BY <1>3
  <2>3. /\ ask.depth \in Nat /\ s \in Seq(Activations) /\ Sound(u) /\ NoPlan \in Plans
        /\ u.open = Rest(s, [up |-> n, nth |-> 1, sum |-> NoPlan], 1)
        /\ u.made = s[n].token.made + 1 + NoPlan.size /\ u.next >= s[n].token.next + Len(s[n].kids)
    BY <1>3, <1>4, <1>6, <1>8, <1>9, <1>10
  <2> HIDE DEF n
  <2> QED BY <2>1, <2>2, <2>3, ChildThreads, Zenon
<1>12. stack' = Append(s, c)
  BY <1>2, <1>3
<1> HIDE DEF c
<1>13. Threads'
  BY <1>11, <1>12 DEF Threads
<1>14. OfferFits' /\ offer' \in Offered
  BY <1>1, NoOfferIsTyped DEF OfferFits
<1>15. /\ Len(stack') = n + 1 /\ stack'[n + 1] = c /\ \A k \in 1..n : stack'[k] = s[k]
  BY <1>3, <1>4, <1>12
<1>16. Grown(o)
  <2>1. \A k \in 1..n - 1 : stack'[k] = stack[k]
    BY <1>3, <1>4, <1>15
  <2>2. stack'[n] = g
    BY <1>3, <1>4, <1>15
  <2>3. \A k \in 1..Len(stack') : k > n => stack'[k] = c
    BY <1>4, <1>15
  <2>4. ~(Lane(g) = "copattern" /\ g.left > 0)
    BY <1>1, <1>4 DEF Done
  <2> QED BY <1>4, <1>11, <1>15, <2>1, <2>2, <2>3, <2>4 DEF Grown
<1> QED BY <1>13, <1>14, <1>16 DEF Settled

\* Every move leaves a stack that fits.
LEMMA MoveSettles ==
  ASSUME Turn, offer = NoOffer, NEW o, Move(o), UNCHANGED ask
  PROVE  Settled /\ Grown(o)
BY StaysSettle, YieldsSettle, BeginsSettle DEF Move

\* A sequence without its last element.
LEMMA FrontOf ==
  ASSUME NEW S, NEW s \in Seq(S), s # <<>>
  PROVE  /\ SubSeq(s, 1, Len(s) - 1) \in Seq(S) /\ Len(SubSeq(s, 1, Len(s) - 1)) = Len(s) - 1
         /\ \A k \in 1..Len(s) - 1 : SubSeq(s, 1, Len(s) - 1)[k] = s[k]
<1>1. SubSeq(s, 1, Len(s) - 1) \in Seq(S)
  OBVIOUS
<1>2. \A k \in 1..Len(s) - 1 : SubSeq(s, 1, Len(s) - 1)[k] = s[k]
  OBVIOUS
<1>3. Len(SubSeq(s, 1, Len(s) - 1)) = Len(s) - 1
  <2> DEFINE m == Len(s) - 1
  <2>1. m \in Nat /\ m <= Len(s)
    OBVIOUS
  <2> HIDE DEF m
  <2>2. Len(SubSeq(s, 1, m)) = m
    BY <2>1
  <2> QED BY <2>2 DEF m
<1> QED BY <1>1, <1>2, <1>3

\* What remains when the newest activation returns.
LEMMA PopsSettle ==
  ASSUME Turn, offer = NoOffer, Pops, UNCHANGED ask
  PROVE  /\ Settled /\ offer' = NoOffer /\ Len(stack') = Len(stack) - 1
         /\ \A k \in 1..Len(stack') : stack'[k] = stack[k]
<1> DEFINE n == Len(stack)
<1>1. stack' = SubSeq(stack, 1, n - 1) /\ offer' = NoOffer
  BY DEF Pops, Below
<1>2. stack \in Seq(Activations) /\ n \in Nat \ {0} /\ \A k \in 1..n : Thread(ask, stack, k)
  BY TopIsFine DEF Turn, Threads
<1>3. stack' \in Seq(Activations) /\ Len(stack') = n - 1 /\ \A k \in 1..Len(stack') : stack'[k] = stack[k]
  <2>1. stack \in Seq(Activations) /\ stack # <<>>
    BY <1>2 DEF Turn
  <2> QED BY <1>1, <2>1, FrontOf
<1>4. ASSUME NEW k \in 1..Len(stack')
      PROVE  Thread(ask, stack', k)
  <2>1. k \in Nat /\ Thread(ask, stack, k) /\ stack'[k] = stack[k]
    BY <1>2, <1>3
  <2>2. \A j \in 1..k - 1 : Alike(stack[j], stack'[j])
    BY <1>2, <1>3 DEF Alike
  <2> QED BY <2>1, <2>2, ThreadsAlike
<1>5. Threads'
  BY <1>3, <1>4 DEF Threads
<1>6. OfferFits' /\ offer' \in Offered
  BY <1>1, NoOfferIsTyped DEF OfferFits
<1> QED BY <1>1, <1>3, <1>5, <1>6 DEF Settled

-----------------------------------------------------------------------------
(* The marks after a step.                                                 *)

\* Held by an activation below the newest one.
Lower(mark) == \E k \in 1..Len(stack) - 1 : stack[k].owner = mark

\* The marks are told apart.
LEMMA MarksDiffer ==
  "call" # Nobody /\ "call" \notin Subjects /\ \A s \in Subjects : s # Nobody /\ s # "call"
BY ConstructorAssumption DEF ConstructorAssumption

\* A mark is held by the newest activation or below it.
LEMMA HeldNow ==
  ASSUME Turn, NEW mark
  PROVE  MarkHeld(stack, mark) <=> Top.owner = mark \/ Lower(mark)
<1>1. Len(stack) \in Nat \ {0}
  BY TopIsFine
<1> QED BY <1>1 DEF MarkHeld, Lower, Top

\* No mark is held twice.
LEMMA HeldByTopOnly ==
  ASSUME Turn, Marks, Top.owner # Nobody
  PROVE  ~Lower(Top.owner)
<1>1. Len(stack) \in Nat \ {0} /\ Len(stack) \in 1..Len(stack)
  BY TopIsFine
<1>2. ASSUME NEW k \in 1..Len(stack) - 1
      PROVE  stack[k].owner # Top.owner
  <2>1. k \in 1..Len(stack) /\ Len(stack) # k
    BY <1>1
  <2> QED BY <1>1, <2>1 DEF Marks, Singly, Top
<1> QED BY <1>2 DEF Lower

\* After a move, by the mark it leaves or below it.
LEMMA HeldThen ==
  ASSUME Turn, NEW o, Grown(o), NEW mark, mark # Nobody
  PROVE  MarkHeld(stack', mark) <=> o = mark \/ Lower(mark)
<1> DEFINE n == Len(stack)
           s == stack'
<1>1. n \in Nat \ {0}
  BY TopIsFine
<1>2. /\ Len(s) \in Nat /\ Len(s) >= n /\ s[n].owner = o
      /\ \A k \in 1..n - 1 : s[k] = stack[k]
      /\ \A k \in 1..Len(s) : k > n => s[k].owner = Nobody
  BY DEF Grown
<1> HIDE DEF s
<1>3. ASSUME MarkHeld(s, mark)
      PROVE  o = mark \/ Lower(mark)
  <2>1. PICK k \in 1..Len(s) : s[k].owner = mark
    BY <1>3 DEF MarkHeld
  <2>2. k <= n
    BY <1>1, <1>2, <2>1
  <2>3. CASE k = n
    BY <1>2, <2>1, <2>3
  <2>4. CASE k # n
    <3>1. k \in 1..n - 1
      BY <1>1, <1>2, <2>2, <2>4
    <3> QED BY <1>2, <2>1, <3>1 DEF Lower
  <2> QED BY <2>3, <2>4
<1>4. ASSUME o = mark
      PROVE  MarkHeld(s, mark)
  <2>1. n \in 1..Len(s)
    BY <1>1, <1>2
  <2> QED BY <1>2, <1>4, <2>1 DEF MarkHeld
<1>5. ASSUME Lower(mark)
      PROVE  MarkHeld(s, mark)
  <2>1. PICK k \in 1..n - 1 : stack[k].owner = mark
    BY <1>5 DEF Lower
  <2>2. k \in 1..Len(s) /\ s[k] = stack[k]
    BY <1>1, <1>2
  <2> QED BY <2>1, <2>2 DEF MarkHeld
<1>6. MarkHeld(s, mark) <=> o = mark \/ Lower(mark)
  BY <1>3, <1>4, <1>5
<1> QED BY <1>6 DEF s

\* A move to a mark nobody holds keeps the marks single.
LEMMA SinglyThen ==
  ASSUME Turn, Marks, NEW o, Grown(o), o # Nobody => ~Lower(o)
  PROVE  Singly(stack')
<1> DEFINE n == Len(stack)
           s == stack'
<1>1. n \in Nat \ {0} /\ Singly(stack)
  BY TopIsFine DEF Marks
<1>2. /\ Len(s) \in Nat /\ Len(s) >= n /\ s[n].owner = o
      /\ \A k \in 1..n - 1 : s[k] = stack[k]
      /\ \A k \in 1..Len(s) : k > n => s[k].owner = Nobody
  BY DEF Grown
<1>3. ASSUME NEW k \in 1..Len(s), NEW l \in 1..Len(s), k # l, s[k].owner # Nobody
      PROVE  s[k].owner # s[l].owner
  <2>1. k <= n
    BY <1>1, <1>2, <1>3
  <2>2. CASE l > n
    BY <1>2, <1>3, <2>2
  <2>3. CASE l <= n /\ k # n /\ l # n
    <3>1. k \in 1..n - 1 /\ l \in 1..n - 1 /\ k \in 1..n /\ l \in 1..n
      BY <1>1, <1>2, <2>1, <2>3
    <3>2. s[k] = stack[k] /\ s[l] = stack[l]
      BY <1>2, <3>1
    <3>3. stack[k].owner # Nobody
      BY <1>3, <3>2
    <3>4. stack[k].owner # stack[l].owner
      BY <1>1, <1>3, <3>1, <3>3 DEF Singly
    <3> QED BY <3>2, <3>4
  <2>4. CASE k = n /\ l <= n
    <3>1. l \in 1..n - 1 /\ o # Nobody
      BY <1>1, <1>2, <1>3, <2>4
    <3>2. s[l] = stack[l] /\ ~Lower(o)
      BY <1>2, <3>1
    <3> QED BY <1>2, <2>4, <3>1, <3>2 DEF Lower
  <2>5. CASE l = n /\ k # n
    <3>1. k \in 1..n - 1
      BY <1>1, <1>2, <2>1, <2>5
    <3>2. s[k] = stack[k] /\ Lower(s[k].owner)
      BY <1>2, <3>1 DEF Lower
    <3> QED BY <1>2, <1>3, <2>5, <3>2
  <2> QED BY <1>1, <1>2, <2>1, <2>2, <2>3, <2>4, <2>5
<1> QED BY <1>3 DEF Singly

\* A move leaves no copattern call waiting below the newest activation.
LEMMA WaitsThen ==
  ASSUME Turn, Marks, NEW o, Grown(o)
  PROVE  Waits'
<1> DEFINE n == Len(stack)
           s == stack'
<1>1. n \in Nat \ {0}
  BY TopIsFine
<1>2. /\ Len(s) \in Nat /\ Len(s) >= n
      /\ \A k \in 1..n - 1 : s[k] = stack[k]
      /\ \A k \in 1..Len(s) : k > n => Lane(s[k]) # "copattern"
      /\ Lane(s[n]) = "copattern" /\ s[n].left > 0 => Len(s) = n /\ ~calling' /\ offer' = NoOffer
  BY DEF Grown
<1>3. ASSUME NEW k \in 1..Len(s), Lane(s[k]) = "copattern", s[k].left > 0
      PROVE  k = Len(s) /\ ~calling' /\ offer' = NoOffer
  <2>1. k <= n
    BY <1>1, <1>2, <1>3
  <2>2. CASE k = n
    BY <1>2, <1>3, <2>2
  <2>3. CASE k # n
    <3>1. k \in 1..n - 1 /\ k \in 1..n
      BY <1>1, <1>2, <2>1, <2>3
    <3>2. Lane(stack[k]) = "copattern" /\ stack[k].left > 0
      BY <1>2, <1>3, <3>1
    <3>3. k = n
      BY <3>1, <3>2 DEF Marks, Waits
    <3> QED BY <2>3, <3>3
  <2> QED BY <2>2, <2>3
<1> QED BY <1>3 DEF Waits

\* An ordinary step moves no mark.
LEMMA OrdinaryMarks ==
  ASSUME Turn, Marks, offer = NoOffer, Top.owner = Nobody, Ordinary
  PROVE  Settled /\ Marks'
<1>1. UNCHANGED <<calling, subjects, ask>>
  BY DEF Ordinary, apart
<1>2. CASE Move(Nobody)
  <2>1. Settled /\ Grown(Nobody)
    BY <1>1, <1>2, MoveSettles
  <2>2. Singly(stack') /\ Waits'
    BY <2>1, SinglyThen, WaitsThen
  <2>3. ASSUME NEW mark, mark # Nobody
        PROVE  MarkHeld(stack', mark) <=> MarkHeld(stack, mark)
    BY <2>1, <2>3, HeldNow, HeldThen
  <2>4. calling' <=> MarkHeld(stack', "call")
    <3>1. MarkHeld(stack', "call") <=> MarkHeld(stack, "call")
      BY <2>3, MarksDiffer
    <3> QED BY <1>1, <3>1, Zenon DEF Marks
  <2>5. \A s : s \in subjects' <=> s \in Subjects /\ MarkHeld(stack', s)
    <3> TAKE s
    <3>1. s \in Subjects => (MarkHeld(stack', s) <=> MarkHeld(stack, s))
      BY <2>3, MarksDiffer
    <3> QED BY <1>1, <3>1 DEF Marks
  <2> QED BY <2>1, <2>2, <2>4, <2>5 DEF Marks
<1>3. CASE Pops
  <2> DEFINE n == Len(stack)
  <2>1. /\ Settled /\ offer' = NoOffer /\ Len(stack') = n - 1
        /\ \A k \in 1..Len(stack') : stack'[k] = stack[k]
    BY <1>1, <1>3, PopsSettle
  <2>2. n \in Nat \ {0}
    BY TopIsFine
  <2>3. ASSUME NEW mark, mark # Nobody
        PROVE  MarkHeld(stack', mark) <=> MarkHeld(stack, mark)
    <3>1. MarkHeld(stack, mark) <=> Lower(mark)
      BY <2>3, HeldNow
    <3>2. MarkHeld(stack', mark) <=> Lower(mark)
      BY <2>1, <2>2 DEF MarkHeld, Lower
    <3> QED BY <3>1, <3>2
  <2>4. calling' <=> MarkHeld(stack', "call")
    <3>1. MarkHeld(stack', "call") <=> MarkHeld(stack, "call")
      BY <2>3, MarksDiffer
    <3> QED BY <1>1, <3>1, Zenon DEF Marks
  <2>5. \A s : s \in subjects' <=> s \in Subjects /\ MarkHeld(stack', s)
    <3> TAKE s
    <3>1. s \in Subjects => (MarkHeld(stack', s) <=> MarkHeld(stack, s))
      BY <2>3, MarksDiffer
    <3> QED BY <1>1, <3>1 DEF Marks
  <2>6. Singly(stack')
    <3>1. Singly(stack)
      BY DEF Marks
    <3> QED BY <2>1, <2>2, <3>1 DEF Singly
  <2>7. Waits'
    <3>1. ASSUME NEW k \in 1..Len(stack'), Lane(stack'[k]) = "copattern", stack'[k].left > 0
          PROVE  FALSE
      <4>1. k \in 1..n /\ k # n /\ stack'[k] = stack[k]
        BY <2>1, <2>2
      <4> QED BY <3>1, <4>1 DEF Marks, Waits
    <3> QED BY <3>1 DEF Waits
  <2> QED BY <2>1, <2>4, <2>5, <2>6, <2>7 DEF Marks
<1> QED BY <1>2, <1>3 DEF Ordinary

\* Taking a value apart puts up its mark.
LEMMA TakesMarks ==
  ASSUME Turn, Marks, offer = NoOffer, Top.owner = Nobody, NEW s \in Subjects, Takes(s)
  PROVE  Settled /\ Marks'
<1>1. s \notin subjects /\ subjects' = subjects \cup {s} /\ UNCHANGED <<calling, ask>>
  BY DEF Takes, apart
<1>2. Settled /\ Grown(s)
  BY <1>1, MoveSettles DEF Takes
<1>3. s # Nobody /\ s # "call" /\ "call" # Nobody
  BY MarksDiffer
<1>4. ASSUME NEW mark, mark # Nobody
      PROVE  /\ MarkHeld(stack, mark) <=> Lower(mark)
             /\ MarkHeld(stack', mark) <=> mark = s \/ Lower(mark)
  BY <1>2, <1>4, HeldNow, HeldThen
<1>5. ~Lower(s)
  BY <1>1, <1>3, <1>4 DEF Marks
<1>6. Singly(stack') /\ Waits'
  BY <1>2, <1>5, SinglyThen, WaitsThen
<1>7. calling' <=> MarkHeld(stack', "call")
  <2>1. MarkHeld(stack', "call") <=> MarkHeld(stack, "call")
    BY <1>3, <1>4
  <2> QED BY <1>1, <2>1, Zenon DEF Marks
<1>8. \A m : m \in subjects' <=> m \in Subjects /\ MarkHeld(stack', m)
  <2> TAKE m
  <2>1. m \in Subjects => (MarkHeld(stack', m) <=> m = s \/ MarkHeld(stack, m))
    BY <1>4, MarksDiffer
  <2> QED BY <1>1, <2>1 DEF Marks
<1> QED BY <1>2, <1>6, <1>7, <1>8 DEF Marks

\* A copattern call puts up its mark.
LEMMA CallsMarks ==
  ASSUME Turn, Marks, offer = NoOffer, Top.owner = Nobody, Calls
  PROVE  Settled /\ Marks'
<1>1. Lane(Top) = "copattern" /\ Top.left > 0 /\ calling' = TRUE /\ UNCHANGED <<subjects, ask>>
  BY DEF Calls, apart
<1>2. Settled /\ Grown("call")
  BY <1>1, MoveSettles DEF Calls
<1>3. "call" # Nobody /\ \A m \in Subjects : m # Nobody /\ m # "call"
  BY MarksDiffer
<1>4. ASSUME NEW mark, mark # Nobody
      PROVE  /\ MarkHeld(stack, mark) <=> Lower(mark)
             /\ MarkHeld(stack', mark) <=> mark = "call" \/ Lower(mark)
  BY <1>2, <1>4, HeldNow, HeldThen
<1>5. ~calling
  <2>1. Len(stack) \in 1..Len(stack)
    BY TopIsFine
  <2> QED BY <1>1, <2>1 DEF Marks, Waits, Top
<1>6. ~Lower("call")
  BY <1>3, <1>4, <1>5 DEF Marks
<1>7. Singly(stack') /\ Waits'
  BY <1>2, <1>6, SinglyThen, WaitsThen
<1>8. calling' <=> MarkHeld(stack', "call")
  BY <1>1, <1>3, <1>4, Zenon
<1>9. \A m : m \in subjects' <=> m \in Subjects /\ MarkHeld(stack', m)
  <2> TAKE m
  <2>1. m \in Subjects => (MarkHeld(stack', m) <=> MarkHeld(stack, m))
    BY <1>3, <1>4
  <2> QED BY <1>1, <2>1 DEF Marks
<1> QED BY <1>2, <1>7, <1>8, <1>9 DEF Marks

\* A finally clause takes the mark of its own activation, the only one to hold it.
LEMMA ReleasesMarks ==
  ASSUME Turn, Marks, offer = NoOffer, Releases
  PROVE  Settled /\ Marks'
<1>1. Top.owner # Nobody /\ UNCHANGED ask
  BY DEF Releases, apart
<1>2. Settled /\ Grown(Nobody)
  BY <1>1, MoveSettles DEF Releases
<1>3. "call" # Nobody /\ \A m \in Subjects : m # Nobody /\ m # "call"
  BY MarksDiffer
<1>4. ASSUME NEW mark, mark # Nobody
      PROVE  /\ MarkHeld(stack, mark) <=> Top.owner = mark \/ Lower(mark)
             /\ MarkHeld(stack', mark) <=> Lower(mark)
  BY <1>2, <1>4, HeldNow, HeldThen
<1>5. ~Lower(Top.owner)
  BY <1>1, HeldByTopOnly
<1>6. Singly(stack') /\ Waits'
  BY <1>2, SinglyThen, WaitsThen
<1>7. /\ Top.owner \in Subjects \cup {"call"}
      /\ Top.owner = "call" <=> Lane(Top) = "copattern"
  BY <1>1, TopIsFine DEF Fine, Place, Activations, Owners
<1>8. calling' <=> MarkHeld(stack', "call")
  <2>1. CASE Lane(Top) = "copattern"
    <3>1. calling' = FALSE
      BY <2>1 DEF Releases
    <3>2. ~MarkHeld(stack', "call")
      BY <1>3, <1>4, <1>5, <1>7, <2>1
    <3> QED BY <3>1, <3>2
  <2>2. CASE Lane(Top) # "copattern"
    <3>1. calling' = calling
      BY <2>2 DEF Releases
    <3>2. MarkHeld(stack', "call") <=> MarkHeld(stack, "call")
      BY <1>3, <1>4, <1>7, <2>2
    <3> QED BY <3>1, <3>2, Zenon DEF Marks
  <2> QED BY <2>1, <2>2
<1>9. \A m : m \in subjects' <=> m \in Subjects /\ MarkHeld(stack', m)
  <2>1. CASE Lane(Top) = "copattern"
    <3> TAKE m
    <3>1. subjects' = subjects /\ Top.owner = "call"
      BY <1>7, <2>1 DEF Releases
    <3>2. m \in Subjects => (MarkHeld(stack', m) <=> MarkHeld(stack, m))
      BY <1>3, <1>4, <3>1
    <3> QED BY <3>1, <3>2 DEF Marks
  <2>2. CASE Lane(Top) # "copattern"
    <3> TAKE m
    <3>1. subjects' = subjects \ {Top.owner}
      BY <2>2 DEF Releases
    <3>2. m \in Subjects => (MarkHeld(stack', m) <=> m # Top.owner /\ MarkHeld(stack, m))
      BY <1>3, <1>4, <1>5
    <3> QED BY <3>1, <3>2 DEF Marks
  <2> QED BY <2>1, <2>2
<1> QED BY <1>2, <1>6, <1>8, <1>9 DEF Marks

-----------------------------------------------------------------------------
(* A solution rises.                                                       *)

\* An activation remembers that it gave a solution; nothing else moves.
LEMMA WonThreads ==
  ASSUME Threads, NEW up \in 1..Len(stack)
  PROVE  LET s == [stack EXCEPT ![up].won = TRUE]
         IN  /\ s \in Seq(Activations) /\ Len(s) = Len(stack)
             /\ \A k \in 1..Len(s) : /\ Thread(ask, s, k) /\ s[k].owner = stack[k].owner
                                     /\ Lane(s[k]) = Lane(stack[k]) /\ s[k].left = stack[k].left
                                     /\ s[k].link = stack[k].link /\ Alike(stack[k], s[k])
<1> DEFINE n == Len(stack)
           g == [stack[up] EXCEPT !.won = TRUE]
           s == [stack EXCEPT ![up].won = TRUE]
<1>1. stack \in Seq(Activations) /\ n \in Nat /\ \A k \in 1..n : Thread(ask, stack, k) /\ stack[k] \in Activations
  BY DEF Threads
<1>2. /\ g \in Activations
      /\ \A x \in {"goal", "key", "token", "depth", "path", "stop", "link", "route", "at", "left", "intro",
                   "ready", "kids", "grant", "quota", "width", "owner"} : g[x] = stack[up][x]
  <2>1. stack[up] \in Activations
    BY <1>1
  <2> QED BY <2>1 DEF Activations
<1>3. s = [stack EXCEPT ![up] = g]
  BY Zenon
<1> HIDE DEF g
<1>4. s \in Seq(Activations) /\ Len(s) = n /\ s[up] = g /\ \A k \in 1..n : k # up => s[k] = stack[k]
  <2> HIDE DEF s
  <2>1. up \in 1..Len(stack)
    OBVIOUS
  <2> QED BY <1>1, <1>2, <1>3, <2>1
<1> HIDE DEF s
<1>5. ASSUME NEW k \in 1..n
      PROVE  /\ s[k].owner = stack[k].owner /\ Lane(s[k]) = Lane(stack[k]) /\ s[k].left = stack[k].left
             /\ s[k].link = stack[k].link /\ Alike(stack[k], s[k])
  <2>1. CASE k = up
    BY <1>2, <1>4, <2>1 DEF Lane, Alike
  <2>2. CASE k # up
    BY <1>4, <2>2 DEF Alike
  <2> QED BY <2>1, <2>2
<1>6. ASSUME NEW k \in 1..n
      PROVE  Thread(ask, s, k)
  <2>a. k \in Nat /\ \A j \in 1..k - 1 : Alike(stack[j], s[j])
    BY <1>1, <1>5
  <2>1. CASE k # up
    <3>1. Thread(ask, stack, k) /\ s[k] = stack[k]
      BY <1>1, <1>4, <2>1
    <3> QED BY <2>a, <3>1, ThreadsAlike
  <2>2. CASE k = up
    <3> DEFINE link == stack[k].link
    <3>1. Thread(ask, stack, k)
      BY <1>1
    <3>2. link.up \in 0..k - 1
      BY <3>1 DEF Thread, Linked
    <3>3. link.up # 0 => Alike(stack[link.up], s[link.up])
      BY <2>a, <3>2
    <3>4. /\ GoalOf(s, link) = GoalOf(stack, link) /\ MadeBefore(s, link) = MadeBefore(stack, link)
          /\ NextAfter(s, link) = NextAfter(stack, link)
      BY <3>3, LinksAlike
    <3>5. Rest(s, link, link.nth) = Rest(stack, link, link.nth)
      <4>1. CASE link.up = 0
        BY <4>1, Zenon DEF Rest
      <4>2. CASE link.up # 0
        <5>1. Alike(stack[link.up], s[link.up])
          BY <3>3, <4>2
        <5> HIDE DEF link
        <5> QED BY <4>2, <5>1 DEF Rest, Alike
      <4> QED BY <4>1, <4>2
    <3>6. Linked(s, k, link)
      <4>1. Linked(stack, k, link)
        BY <3>1 DEF Thread
      <4> HIDE DEF link
      <4> QED BY <3>3, <4>1, LinkedAlike
    <3>7. link.up > 0 => s[link.up].depth = stack[link.up].depth /\ s[link.up].route = stack[link.up].route
      BY <2>a, <3>2, <3>3 DEF Alike
    <3>8. s[k] = g /\ g.goal = stack[k].goal /\ g.token = stack[k].token /\ g.link = link /\ g.depth = stack[k].depth
      BY <1>2, <1>4, <2>2
    <3>9. Core(ask, g) /\ Place(ask, g)
      <4>1. Core(ask, stack[k]) /\ Place(ask, stack[k])
        BY <3>1 DEF Thread
      <4>2. Lane(g) = Lane(stack[k])
        BY <1>2, <2>2 DEF Lane
      <4>3. Core(ask, g)
        BY <1>2, <2>2, <4>1 DEF Core
      <4> QED BY <1>2, <2>2, <4>1, <4>2, <4>3 DEF Place, Wide
    <3> HIDE DEF link
    <3> QED BY <3>1, <3>4, <3>5, <3>6, <3>7, <3>8, <3>9 DEF Thread, link
  <2> QED BY <2>1, <2>2
<1>7. /\ s \in Seq(Activations) /\ Len(s) = n
      /\ \A k \in 1..Len(s) : /\ Thread(ask, s, k) /\ s[k].owner = stack[k].owner
                              /\ Lane(s[k]) = Lane(stack[k]) /\ s[k].left = stack[k].left
                              /\ s[k].link = stack[k].link /\ Alike(stack[k], s[k])
  BY <1>4, <1>5, <1>6
<1> QED BY <1>7 DEF s

\* Where a solution on its way belongs.
LEMMA OfferIsPlaced ==
  ASSUME Scalars, Threads, OfferFits, offer # NoOffer, offer.link.up > 0
  PROVE  LET link == offer.link
             p == stack[link.up]
         IN  /\ link.up \in 1..Len(stack) - 1 /\ p \in Activations /\ Core(ask, p) /\ p.route # "entering"
             /\ link.nth \in 1..Len(p.kids) /\ Len(p.kids) \in Nat
             /\ link.sum \in Plans /\ offer.plan \in Plans /\ Sound(offer.token)
             /\ offer.token.open = Rest(stack, link, link.nth + 1)
             /\ offer.token.made = p.token.made + 1 + link.sum.size + offer.plan.size
             /\ offer.token.next >= p.token.next + Len(p.kids)
<1> DEFINE link == offer.link
           p == stack[link.up]
           n == Len(stack)
<1>1. stack \in Seq(Activations) /\ n \in Nat /\ \A k \in 1..n : Thread(ask, stack, k)
  BY DEF Threads
<1>2. offer \in Offered /\ Fits(stack, offer)
  BY DEF Scalars, OfferFits
<1>3. link.up \in Int /\ link.nth \in Int /\ link.sum \in Plans /\ offer.plan \in Plans
  BY <1>2 DEF Offered, Links
<1>4. link.up \in 1..n - 1 /\ link.nth >= 1 /\ link.nth <= Len(p.kids)
  BY <1>1, <1>2, <1>3 DEF Fits, Linked
<1>5. link.up \in 1..n
  BY <1>1, <1>4
<1>6. p \in Activations /\ Core(ask, p)
  BY <1>1, <1>5 DEF Thread
<1>7. Len(p.kids) \in Nat
  <2>1. p.kids \in Seq(Kids)
    BY <1>6 DEF Activations
  <2> QED BY <2>1
<1>8. link.nth \in 1..Len(p.kids)
  BY <1>3, <1>4, <1>7
<1>9. /\ p.route # "entering" /\ Sound(offer.token)
      /\ offer.token.open = Rest(stack, link, link.nth + 1)
      /\ offer.token.made = p.token.made + 1 + link.sum.size + offer.plan.size
      /\ offer.token.next >= p.token.next + Len(p.kids)
  BY <1>2 DEF Fits, MadeBefore, NextAfter
<1> HIDE DEF link, p
<1>10. /\ link.up \in 1..n - 1 /\ p \in Activations /\ Core(ask, p) /\ p.route # "entering"
      /\ link.nth \in 1..Len(p.kids) /\ Len(p.kids) \in Nat
      /\ link.sum \in Plans /\ offer.plan \in Plans /\ Sound(offer.token)
      /\ offer.token.open = Rest(stack, link, link.nth + 1)
      /\ offer.token.made = p.token.made + 1 + link.sum.size + offer.plan.size
      /\ offer.token.next >= p.token.next + Len(p.kids)
  BY <1>3, <1>4, <1>6, <1>7, <1>8, <1>9
<1> QED BY <1>10 DEF p, link

\* While a solution is on its way no mark changes.
LEMMA RiseKeepsMarks ==
  ASSUME Threads, Marks, offer # NoOffer, UNCHANGED <<calling, subjects>>,
         Len(stack') \in Nat, Len(stack') >= Len(stack),
         \A k \in 1..Len(stack) : /\ stack'[k].owner = stack[k].owner /\ Lane(stack'[k]) = Lane(stack[k])
                                  /\ stack'[k].left = stack[k].left,
         \A k \in 1..Len(stack') : k > Len(stack) => stack'[k].owner = Nobody /\ Lane(stack'[k]) # "copattern"
  PROVE  Marks'
<1> DEFINE n == Len(stack)
           s == stack'
<1>1. n \in Nat
  BY DEF Threads
<1>2. ASSUME NEW mark, mark # Nobody
      PROVE  MarkHeld(s, mark) <=> MarkHeld(stack, mark)
  <2>1. ASSUME MarkHeld(s, mark)
        PROVE  MarkHeld(stack, mark)
    <3>1. PICK k \in 1..Len(s) : s[k].owner = mark
      BY <2>1 DEF MarkHeld
    <3>2. k \in 1..n
      BY <1>1, <1>2, <3>1
    <3> QED BY <3>1, <3>2 DEF MarkHeld
  <2>2. ASSUME MarkHeld(stack, mark)
        PROVE  MarkHeld(s, mark)
    <3>1. PICK k \in 1..n : stack[k].owner = mark
      BY <2>2 DEF MarkHeld
    <3>2. k \in 1..Len(s) /\ s[k].owner = mark
      BY <1>1, <3>1
    <3> QED BY <3>2 DEF MarkHeld
  <2> QED BY <2>1, <2>2
<1>3. calling' <=> MarkHeld(s, "call")
  <2>1. MarkHeld(s, "call") <=> MarkHeld(stack, "call")
    BY <1>2, MarksDiffer
  <2> QED BY <2>1, Zenon DEF Marks
<1>4. \A m : m \in subjects' <=> m \in Subjects /\ MarkHeld(s, m)
  <2> TAKE m
  <2>1. m \in Subjects => (MarkHeld(s, m) <=> MarkHeld(stack, m))
    BY <1>2, MarksDiffer
  <2> QED BY <2>1 DEF Marks
<1>5. Singly(s)
  <2>1. ASSUME NEW k \in 1..Len(s), NEW l \in 1..Len(s), k # l, s[k].owner # Nobody
        PROVE  s[k].owner # s[l].owner
    <3>1. k \in 1..n /\ s[k].owner = stack[k].owner
      BY <1>1, <2>1
    <3>2. CASE l \in 1..n
      <4>1. s[l].owner = stack[l].owner
        BY <3>2
      <4> QED BY <2>1, <3>1, <3>2, <4>1 DEF Marks, Singly
    <3>3. CASE l \notin 1..n
      BY <1>1, <2>1, <3>3
    <3> QED BY <3>2, <3>3
  <2> QED BY <2>1 DEF Singly
<1>6. Waits'
  <2>1. ASSUME NEW k \in 1..Len(s), Lane(s[k]) = "copattern", s[k].left > 0
        PROVE  FALSE
    <3>1. k \in 1..n
      BY <1>1, <2>1
    <3>2. Lane(stack[k]) = "copattern" /\ stack[k].left > 0
      BY <2>1, <3>1
    <3> QED BY <3>1, <3>2 DEF Marks, Waits
  <2> QED BY <2>1 DEF Waits
<1> QED BY <1>3, <1>4, <1>5, <1>6 DEF Marks

\* The next sibling starts in the state the solution left.
LEMMA RiseToSibling ==
  ASSUME Scalars, Threads, OfferFits, Marks, Rise, offer.link.nth < Len(stack[offer.link.up].kids)
  PROVE  Settled /\ Marks'
<1> DEFINE link == offer.link
           up == link.up
           p == stack[up]
           n == Len(stack)
           sum == Joined(link.sum, offer.plan)
           c == Child(p, link.nth + 1, offer.token, sum, up)
<1>1. /\ offer # NoOffer /\ link.up > 0 /\ offer' = NoOffer /\ stack' = Append(stack, c)
      /\ UNCHANGED <<calling, subjects, ask>>
  BY DEF Rise, apart
<1>2. /\ up \in 1..n - 1 /\ p \in Activations /\ Core(ask, p) /\ p.route # "entering"
      /\ link.nth \in 1..Len(p.kids) /\ Len(p.kids) \in Nat
      /\ link.sum \in Plans /\ offer.plan \in Plans /\ Sound(offer.token)
      /\ offer.token.open = Rest(stack, link, link.nth + 1)
      /\ offer.token.made = p.token.made + 1 + link.sum.size + offer.plan.size
      /\ offer.token.next >= p.token.next + Len(p.kids)
  BY <1>1, OfferIsPlaced
<1>3. stack \in Seq(Activations) /\ n \in Nat /\ \A k \in 1..n : Thread(ask, stack, k)
  BY DEF Threads
<1>4. sum \in Plans /\ sum.size = link.sum.size + offer.plan.size
  BY <1>2, JoinedSizes
<1>5. up \in 1..n /\ link.nth + 1 \in 1..Len(p.kids)
  BY <1>2, <1>3
<1>6. offer.token.open = Rest(stack, [up |-> up, nth |-> link.nth + 1, sum |-> sum], link.nth + 1)
  <2>1. up # 0
    BY <1>2
  <2> HIDE DEF sum
  <2> QED BY <1>2, <2>1 DEF Rest
<1>7. offer.token.made = p.token.made + 1 + sum.size
  <2>1. p.token.made \in Nat /\ link.sum.size \in Nat /\ offer.plan.size \in Nat
    BY <1>2 DEF Core, Sound, Tokens, Plans
  <2>2. /\ offer.token.made = p.token.made + 1 + link.sum.size + offer.plan.size
        /\ sum.size = link.sum.size + offer.plan.size
    BY <1>2, <1>4
  <2> HIDE DEF sum, p, link
  <2> QED BY <2>1, <2>2
<1>8. ask.depth \in Nat
  BY AskedIsTyped DEF Scalars
<1> HIDE DEF sum
<1>9. /\ Append(stack, c) \in Seq(Activations) /\ Len(Append(stack, c)) = n + 1 /\ c.owner = Nobody
      /\ Lane(c) = "enter" /\ \A k \in 1..Len(Append(stack, c)) : Thread(ask, Append(stack, c), k)
  <2> DEFINE nth == link.nth + 1
             u == offer.token
  <2>1. nth \in 1..Len(stack[up].kids) /\ up \in 1..Len(stack) /\ stack[up].route # "entering"
    BY <1>2, <1>5
  <2>2. /\ Sound(u) /\ u.open = Rest(stack, [up |-> up, nth |-> nth, sum |-> sum], nth)
        /\ u.made = stack[up].token.made + 1 + sum.size /\ u.next >= stack[up].token.next + Len(stack[up].kids)
    BY <1>2, <1>6, <1>7
  <2> HIDE DEF nth, u, up
  <2>3. LET d == Child(stack[up], nth, u, sum, up)
            t == Append(stack, d)
        IN  /\ t \in Seq(Activations) /\ Len(t) = Len(stack) + 1 /\ d.owner = Nobody /\ Lane(d) = "enter"
            /\ \A k \in 1..Len(t) : Thread(ask, t, k)
    BY <1>3, <1>4, <1>8, <2>1, <2>2, ChildThreads, Zenon
  <2> QED BY <2>3, Zenon DEF nth, u
<1> HIDE DEF c
<1>10. Threads'
  BY <1>1, <1>9 DEF Threads
<1>11. OfferFits' /\ offer' \in Offered
  BY <1>1, NoOfferIsTyped DEF OfferFits
<1>12. /\ Len(stack') = n + 1 /\ stack'[n + 1] = c /\ \A k \in 1..n : stack'[k] = stack[k]
  BY <1>1, <1>3
<1>13. Marks'
  <2>1. \A k \in 1..Len(stack') : k > n => stack'[k].owner = Nobody /\ Lane(stack'[k]) # "copattern"
    <3>1. \A k \in 1..Len(stack') : k > n => stack'[k] = c
      BY <1>3, <1>12
    <3> QED BY <1>9, <3>1
  <2> QED BY <1>1, <1>3, <1>12, <2>1, RiseKeepsMarks
<1> QED BY <1>10, <1>11, <1>13 DEF Settled

\* The last child is solved: the introduction is a solution of its own goal.
LEMMA RiseToParent ==
  ASSUME Scalars, Threads, OfferFits, Marks, Rise, ~(offer.link.nth < Len(stack[offer.link.up].kids))
  PROVE  Settled /\ Marks'
<1> DEFINE link == offer.link
           up == link.up
           p == stack[up]
           n == Len(stack)
           sum == Joined(link.sum, offer.plan)
           plan == Joined(Leaf(Lane(p) = "copattern"), sum)
           s == [stack EXCEPT ![up].won = TRUE]
<1>1. /\ offer # NoOffer /\ link.up > 0 /\ stack' = s
      /\ offer' = [token |-> offer.token, plan |-> plan, link |-> p.link]
      /\ UNCHANGED <<calling, subjects, ask>>
  BY DEF Rise, Offers, apart
<1>2. /\ up \in 1..n - 1 /\ p \in Activations /\ Core(ask, p) /\ p.route # "entering"
      /\ link.nth \in 1..Len(p.kids) /\ Len(p.kids) \in Nat
      /\ link.sum \in Plans /\ offer.plan \in Plans /\ Sound(offer.token)
      /\ offer.token.open = Rest(stack, link, link.nth + 1)
      /\ offer.token.made = p.token.made + 1 + link.sum.size + offer.plan.size
      /\ offer.token.next >= p.token.next + Len(p.kids)
  BY <1>1, OfferIsPlaced
<1>3. stack \in Seq(Activations) /\ n \in Nat /\ \A k \in 1..n : Thread(ask, stack, k)
  BY DEF Threads
<1>4. up \in 1..n /\ link.nth = Len(p.kids)
  BY <1>2, <1>3
<1>5. /\ s \in Seq(Activations) /\ Len(s) = n
      /\ \A k \in 1..Len(s) : /\ Thread(ask, s, k) /\ s[k].owner = stack[k].owner
                              /\ Lane(s[k]) = Lane(stack[k]) /\ s[k].left = stack[k].left
                              /\ s[k].link = stack[k].link /\ Alike(stack[k], s[k])
  BY <1>4, WonThreads
<1>6. /\ plan \in Plans /\ plan.size = 1 + link.sum.size + offer.plan.size
  <2>1. sum \in Plans /\ sum.size = link.sum.size + offer.plan.size
    BY <1>2, JoinedSizes
  <2> DEFINE leaf == Leaf(Lane(p) = "copattern")
  <2>2. leaf \in Plans /\ leaf.size = 1
    <3>1. (Lane(p) = "copattern") \in BOOLEAN
      OBVIOUS
    <3> QED BY <3>1, Leaves, Zenon
  <2>a. link.sum.size \in Nat /\ offer.plan.size \in Nat
    BY <1>2 DEF Plans
  <2> HIDE DEF sum, leaf, link
  <2>3. Joined(leaf, sum) \in Plans /\ Joined(leaf, sum).size = leaf.size + sum.size
    BY <2>1, <2>2, JoinedSizes
  <2>4. plan = Joined(leaf, sum)
    BY Zenon DEF leaf
  <2> QED BY <2>1, <2>2, <2>a, <2>3, <2>4
<1> HIDE DEF plan, s, sum
<1>7. Threads'
  BY <1>1, <1>5 DEF Threads
<1> DEFINE l == p.link
<1>8. l \in Links /\ l.up \in Int /\ l.nth \in Int /\ l.sum \in Plans
  BY <1>2 DEF Activations, Links
<1>9. offer' \in Offered
  <2>1. offer.token \in Tokens
    BY <1>2 DEF Sound
  <2> QED BY <1>1, <1>6, <1>8, <2>1 DEF Offered
<1>10. /\ Linked(s, up, l) /\ p.goal = GoalOf(s, l) /\ p.token.open = Rest(s, l, l.nth)
       /\ p.token.made = MadeBefore(s, l) /\ p.token.next >= NextAfter(s, l)
       /\ l.up > 0 => s[l.up].route # "entering"
  <2>1. Thread(ask, s, up) /\ s[up].link = l /\ s[up].goal = p.goal /\ s[up].token = p.token
    BY <1>4, <1>5 DEF Alike
  <2> HIDE DEF l, p, up
  <2> QED BY <2>1 DEF Thread
<1>11. Sound(p.token) /\ p.goal \in p.token.open /\ p.token.next \in Nat /\ p.token.made \in Nat
       /\ p.token.open \subseteq Nat
  BY <1>2 DEF Core, Sound, Tokens
<1>12. offer.token.open = p.token.open \ {p.goal}
  <2> DEFINE a == p.token.next
             m == Len(p.kids)
  <2>1. offer.token.open = (p.token.open \ {p.goal}) \cup ((a + (m + 1) - 1)..(a + m - 1))
    <3>1. Rest(stack, link, link.nth + 1) =
            (p.token.open \ {p.goal}) \cup ((a + (link.nth + 1) - 1)..(a + m - 1))
      <4>1. link.up # 0
        BY <1>2
      <4> HIDE DEF link
      <4> QED BY <4>1, Zenon DEF Rest
    <3> HIDE DEF p, link
    <3> QED BY <1>2, <1>4, <3>1
  <2>2. a \in Nat /\ m \in Nat
    BY <1>2, <1>11
  <2> HIDE DEF a, m
  <2>3. (a + (m + 1) - 1)..(a + m - 1) = {}
    BY <2>2
  <2> QED BY <2>1, <2>3
<1>13. offer.token.open = Rest(s, l, l.nth + 1)
  <2>1. l.up = 0 => l.nth = 1
    BY <1>10 DEF Linked
  <2>2. l.up # 0 => /\ Sound(s[l.up].token) /\ l.nth \in Nat /\ l.nth >= 1
                    /\ Len(s[l.up].kids) \in Nat /\ l.nth <= Len(s[l.up].kids)
    <3> SUFFICES ASSUME l.up # 0
                 PROVE  /\ Sound(s[l.up].token) /\ l.nth \in Nat /\ l.nth >= 1
                        /\ Len(s[l.up].kids) \in Nat /\ l.nth <= Len(s[l.up].kids)
      OBVIOUS
    <3>1. l.up \in 1..n /\ l.nth >= 1 /\ l.nth <= Len(s[l.up].kids)
      BY <1>3, <1>4, <1>8, <1>10 DEF Linked
    <3>2. Core(ask, s[l.up])
      BY <1>5, <3>1 DEF Thread
    <3>3. s[l.up].kids \in Seq(Kids) /\ Sound(s[l.up].token)
      BY <3>2 DEF Core, Activations
    <3>4. Len(s[l.up].kids) \in Nat
      <4> HIDE DEF l
      <4> QED BY <3>3
    <3> HIDE DEF l
    <3> QED BY <1>8, <3>1, <3>3, <3>4
  <2> HIDE DEF l
  <2>3. Rest(s, l, l.nth) \ {GoalOf(s, l)} = Rest(s, l, l.nth + 1)
    BY <2>1, <2>2, RestWithout
  <2> QED BY <1>10, <1>12, <2>3
<1>14. Linked(s, n, l)
  BY <1>2, <1>3, <1>8, <1>10 DEF Linked
<1>15. offer.token.made = MadeBefore(s, l) + plan.size
  <2>1. /\ offer.token.made = p.token.made + 1 + link.sum.size + offer.plan.size
        /\ p.token.made = MadeBefore(s, l) /\ plan.size = 1 + link.sum.size + offer.plan.size
        /\ p.token.made \in Nat /\ link.sum.size \in Nat /\ offer.plan.size \in Nat
    BY <1>2, <1>6, <1>10, <1>11 DEF Plans
  <2> HIDE DEF p, link, l
  <2> QED BY <2>1
<1>16. offer.token.next >= NextAfter(s, l)
  <2>1. NextAfter(s, l) \in Int
    <3>1. CASE l.up = 0
      BY <3>1 DEF NextAfter
    <3>2. CASE l.up # 0
      <4>1. l.up \in 1..n
        BY <1>3, <1>4, <1>8, <1>10, <3>2 DEF Linked
      <4>2. Core(ask, s[l.up])
        BY <1>5, <4>1 DEF Thread
      <4>3. s[l.up].kids \in Seq(Kids) /\ s[l.up].token.next \in Nat
        BY <4>2 DEF Core, Activations, Sound, Tokens
      <4> HIDE DEF l
      <4>4. Len(s[l.up].kids) \in Nat
        BY <4>3
      <4> QED BY <3>2, <4>3, <4>4 DEF NextAfter
    <3> QED BY <3>1, <3>2
  <2>2. /\ offer.token.next >= p.token.next + Len(p.kids) /\ p.token.next \in Nat /\ Len(p.kids) \in Nat
        /\ p.token.next >= NextAfter(s, l) /\ offer.token.next \in Nat
    BY <1>2, <1>10, <1>11 DEF Sound, Tokens
  <2> HIDE DEF p, l
  <2> QED BY <2>1, <2>2
<1>17. Fits(s, offer')
  <2>1. offer'.token = offer.token /\ offer'.plan = plan /\ offer'.link = l
    BY <1>1
  <2>2. Sound(offer.token)
    BY <1>2
  <2> HIDE DEF l
  <2> QED BY <1>5, <1>10, <1>13, <1>14, <1>15, <1>16, <2>1, <2>2 DEF Fits
<1>18. OfferFits'
  BY <1>1, <1>17 DEF OfferFits
<1>19. Marks'
  <2>1. Len(stack') = n
    BY <1>1, <1>5
  <2>2. \A k \in 1..n : /\ stack'[k].owner = stack[k].owner /\ Lane(stack'[k]) = Lane(stack[k])
                        /\ stack'[k].left = stack[k].left
    BY <1>1, <1>5
  <2>3. \A k \in 1..Len(stack') : k > n => stack'[k].owner = Nobody /\ Lane(stack'[k]) # "copattern"
    BY <1>3, <2>1
  <2>4. Len(stack') \in Nat /\ Len(stack') >= Len(stack)
    BY <1>3, <2>1
  <2> QED BY <1>1, <2>2, <2>3, <2>4, RiseKeepsMarks
<1> QED BY <1>7, <1>9, <1>18, <1>19 DEF Settled

-----------------------------------------------------------------------------
(* Every step keeps the invariant.                                         *)

\* The steps of the newest activation, and of a solution that rises.
OwnTurns == Enter \/ Lanes \/ Room \/ LaneOver \/ Finally

\* What all steps of the newest activation come to.
LEMMA TurnsStep ==
  ASSUME Inv, OwnTurns
  PROVE  running /\ Settled /\ Marks' /\ Counts /\ UNCHANGED apart /\ calling' \in BOOLEAN
<1>1. Scalars /\ Threads /\ Marks /\ calling \in BOOLEAN
  BY DEF Inv, Scalars
<1>2. stack # <<>>
  BY DEF OwnTurns, Enter, Lanes, Room, LaneOver, Finally, Runs, RunsAny, ExactLocals, ExactPremises, GenerateCalls, RecursiveCalls,
         ExpectedApplications, ExpectedEvidence, BackwardSupport, LocalMetaValues, Consequences,
         AbsurdFunction, SuppliedValues, ShallowLocals, FocusedTerms, AnonymousValue, PatternLambda,
         FunctionIntroduction, IndexedEvidence, StructuredBuilders, LocalRefinements, ReadyEliminators,
         VisibleEliminators, ReadyStructuredResults, EvidenceRefinements, ObservedElimination,
         CopatternCall, SoleIntroduction, SharedHead, EmptyIntroduction, Alternatives, RecordLiteral,
         Constructors, FollowReady, ContextualEvidence, RelationPath, ScopePremises, ApplicationSkeletons
<1>3. Turn
  BY <1>1, <1>2 DEF Turn
<1>4. ASSUME offer = NoOffer, running, Top.owner = Nobody, Ordinary
      PROVE  Settled /\ Marks' /\ Counts /\ UNCHANGED apart /\ calling' \in BOOLEAN
  <2>1. Settled /\ Marks'
    BY <1>1, <1>3, <1>4, OrdinaryMarks
  <2>2. Counts /\ UNCHANGED apart /\ UNCHANGED calling
    BY <1>4 DEF Ordinary
  <2>3. calling' \in BOOLEAN
    BY <1>1, <2>2, Zenon
  <2> QED BY <2>1, <2>2, <2>3
<1>5. CASE Enter
  BY <1>3, <1>4, <1>5, EnterStep
<1>6. CASE Room \/ LaneOver
  <2>1. Free /\ Ordinary
    BY <1>3, <1>6, RoomStep, LaneOverStep
  <2> QED BY <1>4, <2>1 DEF Free
<1>7. CASE Lanes
  <2>1. Free /\ (Ordinary \/ Calls \/ \E s \in Subjects : Takes(s))
    BY <1>3, <1>7, LanesStep
  <2>2. offer = NoOffer /\ running /\ Top.owner = Nobody
    BY <2>1 DEF Free
  <2>3. CASE Ordinary
    BY <1>4, <2>2, <2>3
  <2>4. CASE Calls
    <3>1. Settled /\ Marks'
      BY <1>1, <1>3, <2>2, <2>4, CallsMarks
    <3>2. Counts /\ UNCHANGED apart /\ calling' = TRUE
      BY <2>4 DEF Calls, apart
    <3> QED BY <2>2, <3>1, <3>2
  <2>5. CASE \E s \in Subjects : Takes(s)
    <3>1. PICK s \in Subjects : Takes(s)
      BY <2>5
    <3>2. Settled /\ Marks'
      BY <1>1, <1>3, <2>2, <3>1, TakesMarks
    <3>3. Counts /\ UNCHANGED apart /\ UNCHANGED calling
      BY <3>1 DEF Takes
    <3>4. calling' \in BOOLEAN
      BY <1>1, <3>3, Zenon
    <3> QED BY <2>2, <3>2, <3>3, <3>4
  <2> QED BY <2>1, <2>3, <2>4, <2>5
<1>8. CASE Finally
  <2>1. offer = NoOffer /\ running /\ Releases
    BY <1>3, <1>8, FinallyStep
  <2>2. Settled /\ Marks'
    BY <1>1, <1>3, <2>1, ReleasesMarks
  <2>3. Counts /\ UNCHANGED apart
    BY <2>1 DEF Releases
  <2>4. calling' = FALSE \/ calling' = calling
    BY <2>1 DEF Releases
  <2>5. calling' \in BOOLEAN
    BY <1>1, <2>4, Zenon
  <2> QED BY <2>1, <2>2, <2>3, <2>5
<1> QED BY <1>5, <1>6, <1>7, <1>8 DEF OwnTurns

\* What the rise of a solution comes to.
LEMMA RiseStep ==
  ASSUME Inv, Rise
  PROVE  running /\ Settled /\ Marks' /\ Counts /\ UNCHANGED apart /\ calling' \in BOOLEAN
<1>1. Scalars /\ Threads /\ OfferFits /\ Marks /\ calling \in BOOLEAN /\ saw \in BOOLEAN
  BY DEF Inv, Scalars
<1>2. Settled /\ Marks'
  BY <1>1, RiseToSibling, RiseToParent
<1>3. running /\ UNCHANGED <<spent, queries, saw, calling, subjects, apart>>
  BY DEF Rise
<1>4. calling' \in BOOLEAN /\ saw' \in BOOLEAN
  BY <1>1, <1>3, Zenon
<1>5. Counts
  BY <1>1, <1>3, <1>4 DEF Counts, Scalars
<1> QED BY <1>2, <1>3, <1>4, <1>5

\* Both keep the invariant.
LEMMA TurnKeepsInv ==
  ASSUME Inv, running, Settled, Marks', Counts, UNCHANGED apart, calling' \in BOOLEAN
  PROVE  Inv'
<1>1. UNCHANGED <<ask, results, status>> /\ status = "running"
  BY DEF apart, running
<1>2. late' \in BOOLEAN
  <2>1. late \in BOOLEAN /\ late' = late
    BY DEF Inv, Scalars, apart
  <2> QED BY <2>1, Zenon
<1>3. Scalars'
  <2>1. Spendable' = Spendable
    BY <1>1, SpendableStays DEF apart
  <2> QED BY <1>1, <1>2, <2>1 DEF Scalars, Inv, Counts, Settled
<1>4. ResultsAreWhole'
  BY <1>1 DEF Inv, ResultsAreWhole
<1> QED BY <1>3, <1>4 DEF Inv, Settled

\* What reaches the root closes it, and its plan has a node for every action.
LEMMA RootSolution ==
  ASSUME Inv, AtRoot
  PROVE  /\ offer.token \in Tokens /\ offer.plan \in Plans /\ offer.token.open = {}
         /\ offer.token.made = offer.plan.size
<1>1. offer \in Offered /\ Fits(stack, offer) /\ offer.link.up = 0
  BY DEF Inv, Scalars, OfferFits, AtRoot
<1>2. offer.token \in Tokens /\ offer.plan \in Plans
  BY <1>1 DEF Offered
<1>3. /\ offer.token.open = Rest(stack, offer.link, offer.link.nth + 1) /\ offer.link.nth = 1
      /\ offer.token.made = MadeBefore(stack, offer.link) + offer.plan.size
  BY <1>1 DEF Fits, Linked
<1>4. offer.token.open = (1 + 1 - 1)..0
  BY <1>1, <1>3 DEF Rest
<1>5. offer.token.made = 0 + offer.plan.size
  BY <1>1, <1>3 DEF MadeBefore
<1> QED BY <1>2, <1>4, <1>5 DEF Plans

\* The caller keeps a whole solution.
LEMMA AppendedIsWhole ==
  ASSUME Inv, UNCHANGED ask, NEW r \in Results, results' = Append(results, r),
         r.token.open = {}, ~r.token.hidden, ~r.again => r.plan.size = r.token.made, ask.must => r.plan.rec
  PROVE  results' \in Seq(Results) /\ Len(results') = Len(results) + 1 /\ ResultsAreWhole'
<1>1. results \in Seq(Results) /\ ResultsAreWhole
  BY DEF Inv, Scalars
<1>2. /\ results' \in Seq(Results) /\ Len(results') = Len(results) + 1 /\ Len(results) \in Nat
      /\ results'[Len(results) + 1] = r /\ \A i \in 1..Len(results) : results'[i] = results[i]
  BY <1>1
<1>3. ASSUME NEW i \in 1..Len(results')
      PROVE  /\ results'[i].token.open = {} /\ ~results'[i].token.hidden
             /\ ~results'[i].again => results'[i].plan.size = results'[i].token.made
             /\ ask'.must => results'[i].plan.rec
  <2>1. CASE i = Len(results) + 1
    BY <1>2, <2>1
  <2>2. CASE i # Len(results) + 1
    <3>1. i \in 1..Len(results) /\ results'[i] = results[i]
      BY <1>2, <2>2
    <3> QED BY <1>1, <3>1 DEF ResultsAreWhole
  <2> QED BY <2>1, <2>2
<1> QED BY <1>2, <1>3 DEF ResultsAreWhole

\* Once a solution has left, the stack stands as it was or is closed.
LEMMA RootLeaves ==
  ASSUME Inv, offer # NoOffer, offer' = NoOffer, UNCHANGED <<ask, stack, calling, subjects>>
  PROVE  Settled /\ Marks' /\ calling' \in BOOLEAN
<1>1. Threads /\ Marks /\ calling \in BOOLEAN /\ offer # NoOffer
  BY DEF Inv, Scalars
<1>2. Threads'
  BY <1>1 DEF Threads
<1>3. OfferFits' /\ offer' \in Offered
  BY NoOfferIsTyped DEF OfferFits
<1>4. Waits'
  BY <1>1 DEF Marks, Waits
<1>5. calling' <=> MarkHeld(stack', "call")
  BY <1>1, Zenon DEF Marks
<1>6. \A s : s \in subjects' <=> s \in Subjects /\ MarkHeld(stack', s)
  BY <1>1 DEF Marks
<1>7. Singly(stack')
  BY <1>1 DEF Marks
<1>8. calling' \in BOOLEAN
  BY <1>1, Zenon
<1> QED BY <1>2, <1>3, <1>4, <1>5, <1>6, <1>7, <1>8 DEF Settled, Marks

\* A search that is closed holds nothing.
LEMMA ClosedIsSettled ==
  ASSUME Closes, offer' = NoOffer
  PROVE  Settled /\ Marks' /\ calling' \in BOOLEAN /\ stack' = <<>>
<1>1. stack' = <<>> /\ calling' = FALSE /\ subjects' = {} /\ Len(stack') = 0
  BY DEF Closes
<1>2. Threads'
  BY <1>1 DEF Threads
<1>3. OfferFits' /\ offer' \in Offered
  BY NoOfferIsTyped DEF OfferFits
<1>4. \A k : k \notin 1..Len(stack')
  BY <1>1
<1>5. \A mark : ~MarkHeld(stack', mark)
  BY <1>4 DEF MarkHeld
<1>6. Singly(stack') /\ Waits'
  BY <1>4 DEF Singly, Waits
<1> QED BY <1>1, <1>2, <1>3, <1>5, <1>6 DEF Settled, Marks

\* The solution is dropped, kept, or checked once more.
LEMMA RootStep ==
  ASSUME Inv, Drop \/ Keep \/ Again
  PROVE  /\ Inv' /\ running /\ UNCHANGED <<ask, status>> /\ spent' >= spent
         /\ spent' # spent => spent < ask.budget
         /\ Len(results') \in {Len(results), Len(results) + 1}
<1> DEFINE Same == UNCHANGED <<stack, calling, subjects>>
<1>1. AtRoot /\ running /\ offer # NoOffer /\ offer' = NoOffer /\ UNCHANGED unasked
  BY DEF Drop, Keep, Again, Wanted, AtRoot
<1>2. UNCHANGED <<ask, queries, late, status>>
  BY <1>1 DEF unasked
<1>3. /\ offer.token \in Tokens /\ offer.plan \in Plans /\ offer.token.open = {}
      /\ offer.token.made = offer.plan.size
  BY <1>1, RootSolution
<1>4. Scalars /\ results \in Seq(Results) /\ ask.budget \in Nat /\ Spendable \in Nat /\ ask.budget <= Spendable
  BY AskedIsTyped DEF Inv, Scalars
<1>5. Same \/ Closes
  BY DEF Drop, Keep, Again, Holds
<1>6. Settled /\ Marks' /\ calling' \in BOOLEAN
  BY <1>1, <1>2, <1>5, RootLeaves, ClosedIsSettled
<1>7. /\ spent' \in Nat /\ spent' >= spent /\ (spent' # spent => spent < ask.budget) /\ spent' <= Spendable
      /\ UNCHANGED saw \/ saw' = TRUE
  BY <1>4 DEF Drop, Keep, Again, Charges, Refused, Available, Scalars
<1>8. saw' \in BOOLEAN /\ late' \in BOOLEAN
  <2>1. saw \in BOOLEAN /\ late \in BOOLEAN /\ late' = late
    BY <1>2, <1>4 DEF Scalars
  <2> QED BY <1>7, <2>1, Zenon
<1>9. /\ results' \in Seq(Results) /\ ResultsAreWhole'
      /\ Len(results') \in {Len(results), Len(results) + 1}
  <2>1. CASE UNCHANGED results
    BY <1>2, <1>4, <2>1 DEF Inv, ResultsAreWhole
  <2>2. ASSUME NEW r \in Results, results' = Append(results, r),
               r.token.open = {}, ~r.token.hidden, ~r.again => r.plan.size = r.token.made, ask.must => r.plan.rec
        PROVE  /\ results' \in Seq(Results) /\ ResultsAreWhole'
               /\ Len(results') \in {Len(results), Len(results) + 1}
    BY <1>2, <2>2, AppendedIsWhole
  <2>3. CASE Drop
    BY <2>1, <2>3 DEF Drop
  <2>4. CASE Keep
    <3> DEFINE r == [token |-> offer.token, plan |-> offer.plan, again |-> FALSE]
    <3>1. results' = Append(results, r) /\ ~offer.token.hidden /\ (ask.must => offer.plan.rec)
      BY <2>4 DEF Keep, Wanted, Holds
    <3>2. r \in Results
      BY <1>3 DEF Results
    <3>3. /\ r.token.open = {} /\ ~r.token.hidden /\ (~r.again => r.plan.size = r.token.made)
          /\ (ask.must => r.plan.rec)
      BY <1>3, <3>1
    <3> HIDE DEF r
    <3> QED BY <2>2, <3>1, <3>2, <3>3
  <2>5. CASE Again
    <3>1. CASE UNCHANGED results
      BY <2>1, <3>1
    <3>2. CASE \E t \in Given(RootToken, 0) :
                 ~t.hidden /\ Holds([token |-> t, plan |-> offer.plan, again |-> TRUE])
      <4>1. PICK t \in Given(RootToken, 0) :
              ~t.hidden /\ Holds([token |-> t, plan |-> offer.plan, again |-> TRUE])
        BY <3>2
      <4> DEFINE r == [token |-> t, plan |-> offer.plan, again |-> TRUE]
      <4>2. results' = Append(results, r) /\ (ask.must => offer.plan.rec)
        BY <2>5, <4>1 DEF Holds, Again, Wanted
      <4>3. Follows(RootToken, 0, 0, t)
        BY Roots, GivenFollows
      <4>4. t \in Tokens /\ t.open = ({0} \ {0}) \cup (1..(1 + 0 - 1))
        BY <4>3, Roots DEF Follows, Sound
      <4>5. r \in Results
        BY <1>3, <4>4 DEF Results
      <4>6. r.token.open = {} /\ ~r.token.hidden /\ r.again /\ (ask.must => r.plan.rec)
        BY <4>1, <4>2, <4>4
      <4> HIDE DEF r
      <4> QED BY <2>2, <4>2, <4>5, <4>6
    <3> QED BY <2>5, <3>1, <3>2 DEF Again
  <2> QED BY <2>3, <2>4, <2>5
<1>10. Scalars'
  <2>1. Spendable' = Spendable
    BY <1>2, SpendableStays
  <2> QED BY <1>1, <1>2, <1>4, <1>6, <1>7, <1>8, <1>9, <2>1 DEF Scalars, Settled, running
<1>11. Inv'
  BY <1>6, <1>9, <1>10 DEF Inv, Settled
<1> QED BY <1>1, <1>2, <1>7, <1>9, <1>11

-----------------------------------------------------------------------------
(* The call begins and ends.                                               *)

\* The invariant holds before the call.
LEMMA InitInv ==
  ASSUME Init
  PROVE  Inv
<1>1. /\ ask \in Requests /\ status = "asked" /\ spent = 0 /\ queries = 0 /\ saw = FALSE /\ late = FALSE
      /\ stack = <<>> /\ offer = NoOffer /\ calling = FALSE /\ subjects = {} /\ results = <<>>
  BY DEF Init
<1>2. ask.budget \in Nat /\ QueryLimit \in Nat /\ Spendable \in Nat
  BY <1>1, ConstructorAssumption DEF ConstructorAssumption, Spendable, WrapExcess, Smaller
<1>3. Scalars
  <2>1. saw \in BOOLEAN /\ late \in BOOLEAN /\ calling \in BOOLEAN
    BY <1>1, Zenon
  <2>2. results \in Seq(Results) /\ offer \in Offered /\ status \in Statuses
    BY <1>1, NoOfferIsTyped DEF Statuses
  <2> QED BY <1>1, <1>2, <2>1, <2>2 DEF Scalars
<1>4. \A k : k \notin 1..Len(stack)
  BY <1>1
<1>5. Threads /\ OfferFits /\ ResultsAreWhole
  BY <1>1, <1>4 DEF Threads, OfferFits, ResultsAreWhole
<1>6. Marks
  BY <1>1, <1>4 DEF Marks, MarkHeld, Singly, Waits
<1> QED BY <1>3, <1>5, <1>6 DEF Inv

\* The goal itself is the first activation.
LEMMA RootThread ==
  ASSUME NEW r, r.depth \in Nat, NEW key \in Sequents
  PROVE  LET a == Activation(0, key, RootToken, 0, {}, QueryLimit, [up |-> 0, nth |-> 1, sum |-> NoPlan])
         IN  a \in Activations /\ a.owner = Nobody /\ Lane(a) = "enter" /\ Thread(r, <<a>>, 1)
<1> DEFINE link == [up |-> 0, nth |-> 1, sum |-> NoPlan]
           a == Activation(0, key, RootToken, 0, {}, QueryLimit, link)
           s == <<a>>
<1>1. a = [goal |-> 0, key |-> key, token |-> RootToken, depth |-> 0, path |-> {}, stop |-> QueryLimit,
           link |-> link, route |-> "entering", at |-> 1, left |-> 1, won |-> FALSE, intro |-> "unasked",
           ready |-> {}, kids |-> <<>>, grant |-> QueryLimit, quota |-> QueryLimit, width |-> 1,
           owner |-> Nobody]
  BY DEF Activation
<1>2. link \in Links
  BY Roots DEF Links
<1>3. QueryLimit \in Nat
  BY ConstructorAssumption DEF ConstructorAssumption
<1>4. a \in Activations
  <2>1. "entering" \in DOMAIN Route /\ "unasked" \in Intros /\ Nobody \in Owners /\ <<>> \in Seq(Kids)
    BY RoutesEnd DEF Intros, Owners
  <2>2. /\ RootToken \in Tokens /\ {} \in SUBSET Sequents /\ FALSE \in BOOLEAN /\ {} \in SUBSET Keeping
        /\ 0 \in Nat /\ 1 \in Nat /\ 1 \in Int
    BY Roots
  <2> HIDE DEF a, link
  <2> QED BY <1>1, <1>2, <1>3, <2>1, <2>2 DEF Activations
<1>5. /\ a.goal = 0 /\ a.token = RootToken /\ a.depth = 0 /\ a.link = link /\ a.route = "entering" /\ a.at = 1
      /\ a.ready = {} /\ a.kids = <<>> /\ a.owner = Nobody
  BY <1>1
<1> HIDE DEF a
<1>6. Lane(a) = "enter" /\ Len(Route.entering) = 1
  BY <1>5 DEF Lane, Route
<1>7. s[1] = a
  OBVIOUS
<1>8. link.up = 0 /\ link.nth = 1
  OBVIOUS
<1> HIDE DEF s, link
<1>9. Core(r, a)
  <2>1. IsFiniteSet(a.ready) /\ \A d \in a.ready : Follows(a.token, a.goal, Len(d.keys), d.token)
    BY <1>5, FS_EmptySet
  <2>2. \A i \in DOMAIN a.kids : a.kids[i].goal = a.token.next + i - 1
    BY <1>5
  <2>3. Sound(a.token) /\ a.goal \in a.token.open
    BY <1>5, Roots
  <2> QED BY <1>4, <1>5, <2>1, <2>2, <2>3 DEF Core
<1>10. Place(r, a)
  <2>1. 1 \in 1..Len(Route[a.route])
    <3>1. Len(Route[a.route]) = 1
      BY <1>5, <1>6
    <3> QED BY <3>1
  <2> QED BY <1>5, <1>6, <2>1 DEF Place
<1>11. Linked(s, 1, link) /\ a.goal = GoalOf(s, link) /\ a.token.made = MadeBefore(s, link)
       /\ a.token.next >= NextAfter(s, link)
  BY <1>5, <1>8, Roots DEF Linked, GoalOf, MadeBefore, NextAfter
<1>12. a.token.open = Rest(s, link, link.nth)
  <2>1. Rest(s, link, 1) = (1 - 1)..0
    BY <1>8 DEF Rest
  <2> QED BY <1>5, <1>8, <2>1, Roots
<1>13. a \in Activations /\ a.owner = Nobody /\ Lane(a) = "enter" /\ Thread(r, s, 1)
  BY <1>4, <1>5, <1>6, <1>7, <1>8, <1>9, <1>10, <1>11, <1>12 DEF Thread
<1> QED BY <1>13 DEF a, s, link

\* The call starts with its goal, or without allowance is over at once.
LEMMA StartStep ==
  ASSUME Inv, Start
  PROVE  Inv'
<1>1. /\ status = "asked" /\ UNCHANGED <<ask, spent, queries, saw, late, offer, calling, subjects, results>>
  BY DEF Start
<1>2. /\ Scalars /\ Marks /\ stack = <<>> /\ offer = NoOffer /\ offer' = NoOffer
  BY <1>1 DEF Inv, Scalars
<1>3. saw' \in BOOLEAN /\ late' \in BOOLEAN /\ calling' \in BOOLEAN
  <2>1. saw \in BOOLEAN /\ late \in BOOLEAN /\ calling \in BOOLEAN
    BY <1>2 DEF Scalars
  <2> QED BY <1>1, <2>1, Zenon
<1>4. /\ status' \in Statuses \ {"asked"} /\ (status' # "running" => stack' = <<>>)
  BY <1>1, <1>2 DEF Start, Ends, Statuses
<1>5. Scalars'
  BY <1>1, <1>2, <1>3, <1>4, SpendableStays DEF Scalars
<1>6. OfferFits' /\ ResultsAreWhole'
  BY <1>1, <1>2 DEF OfferFits, Inv, ResultsAreWhole
<1>7. ~calling' /\ subjects' = {}
  <2>1. \A k : k \notin 1..Len(stack)
    BY <1>2
  <2>2. ~calling /\ subjects = {}
    BY <1>2, <2>1 DEF Marks, MarkHeld
  <2> QED BY <1>1, <2>2, Zenon
<1>8. CASE stack' = <<>>
  <2>1. \A k : k \notin 1..Len(stack')
    BY <1>8
  <2>2. Threads'
    BY <1>8, <2>1 DEF Threads
  <2>3. Marks'
    BY <1>7, <2>1 DEF Marks, MarkHeld, Singly, Waits
  <2> QED BY <1>5, <1>6, <2>2, <2>3 DEF Inv
<1>9. CASE stack' # <<>>
  <2>1. PICK key \in Sequents :
          stack' = <<Activation(0, key, RootToken, 0, {}, QueryLimit, [up |-> 0, nth |-> 1, sum |-> NoPlan])>>
    BY <1>2, <1>9 DEF Start
  <2> DEFINE a == Activation(0, key, RootToken, 0, {}, QueryLimit, [up |-> 0, nth |-> 1, sum |-> NoPlan])
  <2>2. ask.depth \in Nat
    BY <1>2, AskedIsTyped
  <2>3. a \in Activations /\ a.owner = Nobody /\ Lane(a) = "enter" /\ Thread(ask, <<a>>, 1)
    BY <2>2, RootThread, Zenon
  <2>4. stack' = <<a>>
    BY <2>1
  <2> HIDE DEF a
  <2>5. Len(stack') = 1 /\ stack'[1] = a /\ stack' \in Seq(Activations) /\ \A k \in 1..Len(stack') : k = 1
    BY <2>3, <2>4
  <2>6. Threads'
    BY <1>1, <2>3, <2>4, <2>5 DEF Threads
  <2>7. \A mark : mark # Nobody => ~MarkHeld(stack', mark)
    BY <2>3, <2>5 DEF MarkHeld
  <2>8. Singly(stack') /\ Waits'
    BY <2>3, <2>5 DEF Singly, Waits
  <2>9. ~MarkHeld(stack', "call") /\ \A s \in Subjects : ~MarkHeld(stack', s)
    BY <2>7, MarksDiffer
  <2>10. Marks'
    BY <1>7, <2>8, <2>9 DEF Marks
  <2> QED BY <1>5, <1>6, <2>6, <2>10 DEF Inv
<1> QED BY <1>8, <1>9

\* The answer, an error and the passing of the deadline keep the invariant.
LEMMA EndStep ==
  ASSUME Inv, Finish \/ Raise \/ Expire
  PROVE  Inv'
<1>1. /\ running /\ UNCHANGED <<ask, spent, queries, saw, results>>
      /\ offer' = offer \/ offer' = NoOffer
  BY DEF Finish, Raise, Expire
<1>2. Scalars /\ Threads /\ OfferFits /\ Marks /\ status = "running"
  BY <1>1 DEF Inv, running
<1>3. saw' \in BOOLEAN /\ late' \in BOOLEAN
  <2>1. saw \in BOOLEAN /\ late \in BOOLEAN
    BY <1>2 DEF Scalars
  <2>2. late' = late \/ late' = TRUE
    BY DEF Finish, Raise, Expire
  <2> QED BY <1>1, <2>1, <2>2, Zenon
<1>4. ResultsAreWhole'
  BY <1>1 DEF Inv, ResultsAreWhole
<1>5. CASE UNCHANGED <<stack, offer, calling, subjects>> /\ ~Raise
  <2>1. calling' \in BOOLEAN
    <3>1. calling \in BOOLEAN
      BY <1>2 DEF Scalars
    <3> QED BY <1>5, <3>1, Zenon
  <2>2. status' \in Statuses \ {"asked"} /\ (status' # "running" => stack = <<>> /\ offer = NoOffer)
    BY <1>2, <1>5 DEF Finish, Expire, Ends, Statuses
  <2>3. Scalars'
    BY <1>1, <1>2, <1>3, <1>5, <2>1, <2>2, SpendableStays DEF Scalars
  <2>4. Threads' /\ OfferFits'
    BY <1>1, <1>2, <1>5 DEF Threads, OfferFits
  <2>5. Marks'
    <3>1. calling' <=> MarkHeld(stack', "call")
      BY <1>2, <1>5, Zenon DEF Marks
    <3>2. \A s : s \in subjects' <=> s \in Subjects /\ MarkHeld(stack', s)
      BY <1>2, <1>5 DEF Marks
    <3>3. Singly(stack')
      BY <1>2, <1>5 DEF Marks
    <3>4. Waits'
      <4>1. ~calling' <=> ~calling
        BY <1>5, Zenon
      <4> QED BY <1>2, <1>5, <4>1 DEF Marks, Waits
    <3> QED BY <3>1, <3>2, <3>3, <3>4 DEF Marks
  <2> QED BY <1>4, <2>3, <2>4, <2>5 DEF Inv
<1>6. CASE Raise
  <2>1. Closes /\ offer' = NoOffer /\ status' = "raised" /\ UNCHANGED late
    BY <1>6 DEF Raise, Ends
  <2>2. Settled /\ Marks' /\ calling' \in BOOLEAN /\ stack' = <<>>
    BY <2>1, ClosedIsSettled
  <2>3. Scalars'
    BY <1>1, <1>2, <1>3, <2>1, <2>2, SpendableStays DEF Scalars, Settled, Statuses
  <2> QED BY <1>4, <2>2, <2>3 DEF Inv, Settled
<1> QED BY <1>5, <1>6 DEF Finish, Expire

\* A step that changes nothing keeps it.
LEMMA StutterStep ==
  ASSUME Inv, UNCHANGED vars
  PROVE  Inv'
<1>1. /\ UNCHANGED <<ask, spent, queries, saw, late, stack, offer, calling, subjects, results, status>>
  BY DEF vars
<1>2. Scalars /\ Threads /\ OfferFits /\ Marks
  BY DEF Inv
<1>3. saw' \in BOOLEAN /\ late' \in BOOLEAN /\ calling' \in BOOLEAN
  <2>1. saw \in BOOLEAN /\ late \in BOOLEAN /\ calling \in BOOLEAN
    BY <1>2 DEF Scalars
  <2> QED BY <1>1, <2>1, Zenon
<1>4. Scalars'
  BY <1>1, <1>2, <1>3, SpendableStays DEF Scalars
<1>5. Threads' /\ OfferFits' /\ ResultsAreWhole'
  BY <1>1, <1>2 DEF Threads, OfferFits, Inv, ResultsAreWhole
<1>6. Marks'
  <2>1. calling' <=> MarkHeld(stack', "call")
    BY <1>1, <1>2, Zenon DEF Marks
  <2>2. \A s : s \in subjects' <=> s \in Subjects /\ MarkHeld(stack', s)
    BY <1>1, <1>2 DEF Marks
  <2>3. Singly(stack')
    BY <1>1, <1>2 DEF Marks
  <2>4. Waits'
    <3>1. ~calling' <=> ~calling
      BY <1>1, Zenon
    <3> QED BY <1>1, <1>2, <3>1 DEF Marks, Waits
  <2> QED BY <2>1, <2>2, <2>3, <2>4 DEF Marks
<1> QED BY <1>4, <1>5, <1>6 DEF Inv

\* Every step keeps it.
LEMMA StepInv ==
  ASSUME Inv, [Next]_vars
  PROVE  Inv'
<1>1. CASE Start
  BY <1>1, StartStep
<1>2. CASE OwnTurns
  BY <1>2, TurnsStep, TurnKeepsInv
<1>3. CASE Rise
  BY <1>3, RiseStep, TurnKeepsInv
<1>4. CASE Drop \/ Keep \/ Again
  BY <1>4, RootStep
<1>5. CASE Finish \/ Raise \/ Expire
  BY <1>5, EndStep
<1>6. CASE UNCHANGED vars
  BY <1>6, StutterStep
<1> QED BY <1>1, <1>2, <1>3, <1>4, <1>5, <1>6 DEF Next, Search, OwnTurns

-----------------------------------------------------------------------------
(* Theorems.                                                               *)

\* What is on the stack fits together in every state the search can be in.
THEOREM SearchInvariant == Spec => []Inv
<1>1. Init => Inv
  BY InitInv
<1>2. Inv /\ [Next]_vars => Inv'
  BY StepInv
<1> QED BY <1>1, <1>2, PTL DEF Spec

\* Every solution handed back closes the goal, hides nothing and has the
\* recursive call asked for; its plan has one node for every action.
THEOREM SolutionsAreWhole == Spec => []ResultsAreWhole
<1>1. Inv => ResultsAreWhole
  BY DEF Inv
<1> QED BY <1>1, SearchInvariant, PTL

\* The invariant gives each activation its state.
LEMMA InvThreads ==
  ASSUME Inv
  PROVE  SiblingsThread
<1> SUFFICES ASSUME NEW k \in 1..Len(stack)
             PROVE  LET f == stack[k] IN
                    /\ f.goal \in f.token.open
                    /\ f.link.up > 0 =>
                         LET p == stack[f.link.up] IN
                         /\ f.token.made = p.token.made + 1 + f.link.sum.size
                         /\ f.depth = p.depth + 1 /\ f.depth <= ask.depth + 1
                         /\ p.goal \notin f.token.open
  BY DEF SiblingsThread
<1> DEFINE f == stack[k]
           link == f.link
           p == stack[link.up]
<1>1. stack \in Seq(Activations) /\ \A j \in 1..Len(stack) : Thread(ask, stack, j)
  BY DEF Inv, Threads
<1>2. Thread(ask, stack, k) /\ Core(ask, f) /\ f \in Activations
  BY <1>1 DEF Thread
<1>3. f.goal \in f.token.open /\ f.depth <= ask.depth + 1
  BY <1>2 DEF Core
<1>4. ASSUME link.up > 0
      PROVE  /\ f.token.made = p.token.made + 1 + link.sum.size
             /\ f.depth = p.depth + 1 /\ p.goal \notin f.token.open
  <2>1. link.up \in 1..Len(stack) /\ link.nth \in Nat /\ link.nth >= 1 /\ link.up # 0
    <3>1. link.up \in Int /\ link.nth \in Int
      BY <1>2 DEF Activations, Links
    <3>2. link.up \in 0..k - 1 /\ link.nth >= 1
      BY <1>2 DEF Thread, Linked
    <3>3. k \in Int /\ k <= Len(stack) /\ Len(stack) \in Nat
      BY <1>1
    <3> HIDE DEF link
    <3> QED BY <1>4, <3>1, <3>2, <3>3
  <2>2. Core(ask, p)
    BY <1>1, <2>1 DEF Thread
  <2>3. p.goal \in p.token.open /\ p.token.next \in Nat /\ p.goal < p.token.next /\ p.goal \in Nat
    BY <2>2 DEF Core, Sound, Tokens
  <2>4. f.token.open = Rest(stack, link, link.nth) /\ f.token.made = MadeBefore(stack, link) /\ f.depth = p.depth + 1
    BY <1>2, <1>4 DEF Thread
  <2>5. f.token.open = (p.token.open \ {p.goal}) \cup
             ((p.token.next + link.nth - 1)..(p.token.next + Len(p.kids) - 1))
    BY <2>1, <2>4 DEF Rest
  <2>6. f.token.made = p.token.made + 1 + link.sum.size
    BY <2>1, <2>4 DEF MadeBefore
  <2>7. p.goal \notin (p.token.next + link.nth - 1)..(p.token.next + Len(p.kids) - 1)
    <3> DEFINE b == p.token.next + Len(p.kids) - 1
    <3> HIDE DEF b, p, link
    <3> QED BY <2>1, <2>3
  <2> QED BY <2>4, <2>5, <2>6, <2>7
<1> QED BY <1>3, <1>4

\* It gives each mark its one holder.
LEMMA InvCalls ==
  ASSUME Inv
  PROVE  OneCallOpen
<1> DEFINE held == {k \in 1..Len(stack) : stack[k].owner # Nobody}
           callers == {k \in held : stack[k].owner = "call"}
<1>1. stack \in Seq(Activations) /\ Marks
  BY DEF Inv, Threads
<1>2. ASSUME NEW k \in held
      PROVE  stack[k].owner \in Subjects \cup {"call"}
  <2>1. stack[k] \in Activations /\ stack[k].owner # Nobody
    BY <1>1
  <2> QED BY <2>1 DEF Activations, Owners
<1>3. Cardinality(callers) = (IF calling THEN 1 ELSE 0)
  <2>1. CASE calling
    <3>1. MarkHeld(stack, "call")
      BY <1>1, <2>1 DEF Marks
    <3>2. PICK k \in 1..Len(stack) : stack[k].owner = "call"
      BY <3>1 DEF MarkHeld
    <3>3. \A j \in 1..Len(stack) : stack[j].owner = "call" => j = k
      BY <1>1, <3>2, MarksDiffer DEF Marks, Singly
    <3>4. callers = {k}
      BY <3>2, <3>3, MarksDiffer
    <3> HIDE DEF callers
    <3>5. Cardinality(callers) = 1
      BY <3>4, FS_Singleton
    <3> QED BY <2>1, <3>5, Zenon
  <2>2. CASE ~calling
    <3>1. ~MarkHeld(stack, "call")
      BY <1>1, <2>2 DEF Marks
    <3>2. callers = {}
      BY <3>1 DEF MarkHeld
    <3> HIDE DEF callers
    <3>3. Cardinality(callers) = 0
      BY <3>2, FS_EmptySet
    <3> QED BY <2>2, <3>3, Zenon
  <2> QED BY <2>1, <2>2
<1>4. subjects = {stack[k].owner : k \in held} \ {"call"}
  <2>1. ASSUME NEW s \in subjects
        PROVE  s \in {stack[k].owner : k \in held} \ {"call"}
    <3>1. s \in Subjects /\ MarkHeld(stack, s)
      BY <1>1 DEF Marks
    <3>2. s # Nobody /\ s # "call"
      BY <3>1, MarksDiffer
    <3> QED BY <3>1, <3>2 DEF MarkHeld
  <2>2. ASSUME NEW s \in {stack[k].owner : k \in held} \ {"call"}
        PROVE  s \in subjects
    <3>1. PICK k \in held : stack[k].owner = s
      OBVIOUS
    <3>2. s \in Subjects
      BY <1>2, <3>1
    <3>3. MarkHeld(stack, s)
      BY <3>1 DEF MarkHeld
    <3> QED BY <1>1, <3>2, <3>3 DEF Marks
  <2> QED BY <2>1, <2>2
<1>5. \A k, l \in held : k # l => stack[k].owner # stack[l].owner
  BY <1>1 DEF Marks, Singly
<1> QED BY <1>3, <1>4, <1>5 DEF OneCallOpen

\* The suspended activations hold their states and their marks once each, and
\* share one allowance.
THEOREM StackAlwaysHolds == Spec => []StackHolds
<1>1. Inv => StackHolds
  BY InvThreads, InvCalls DEF StackHolds, AllowanceKept, Inv, Scalars
<1> QED BY <1>1, SearchInvariant, PTL

-----------------------------------------------------------------------------
(* The contract.                                                           *)

Answer == IF Terminated THEN status ELSE "none"

\* Every step works within the allowance, or answers, or is not to be seen.
LEMMA StepContract ==
  ASSUME Inv, [Next]_vars
  PROVE  [Promised!Works \/ Promised!Answers]_(Promised!contract)
<1>1. /\ Scalars /\ results \in Seq(Results) /\ Len(results) \in Nat /\ spent \in Nat /\ spent <= Spendable
      /\ ask.budget \in Nat
  BY AskedIsTyped DEF Inv, Scalars
<1>2. ASSUME running, UNCHANGED <<ask, status>>, spent' >= spent, spent' # spent => spent < ask.budget,
             spent' <= Spendable, Len(results') \in {Len(results), Len(results) + 1}
      PROVE  Promised!Works
  <2>1. spent' <= ask.budget + WrapExcess(ask.budget) /\ WrapExcess(ask.budget)' = WrapExcess(ask.budget)
    BY <1>2 DEF Spendable, WrapExcess
  <2> QED BY <1>2, <2>1 DEF Promised!Works, Terminated, running
<1>3. ASSUME UNCHANGED <<ask, spent, results>>, Answer' = Answer
      PROVE  UNCHANGED Promised!contract
  BY <1>3 DEF Promised!contract, Answer, WrapExcess
<1>4. CASE Start
  <2>1. status = "asked" /\ UNCHANGED <<ask, spent, results>> /\ results = <<>> /\ Answer = "none"
    BY <1>1, <1>4 DEF Start, Scalars, Answer, Terminated
  <2>2. CASE status' = "running"
    BY <1>3, <2>1, <2>2 DEF Answer, Terminated
  <2>3. CASE status' # "running"
    <3>1. status' = "resource-exhausted"
      BY <1>4, <2>3 DEF Start, Ends
    <3> QED BY <2>1, <3>1 DEF Promised!Answers, Answer, Terminated, WrapExcess
  <2> QED BY <2>2, <2>3
<1>5. CASE OwnTurns \/ Rise
  <2>1. running /\ Counts /\ UNCHANGED apart
    BY <1>5, TurnsStep, RiseStep
  <2> QED BY <1>1, <1>2, <2>1 DEF Counts, apart
<1>6. CASE Drop \/ Keep \/ Again
  <2>1. Inv' /\ running /\ UNCHANGED <<ask, status>> /\ spent' >= spent /\ (spent' # spent => spent < ask.budget)
        /\ Len(results') \in {Len(results), Len(results) + 1}
    BY <1>6, RootStep
  <2>2. spent' <= Spendable
    BY <2>1, SpendableStays DEF Inv, Scalars
  <2> QED BY <1>2, <2>1, <2>2
<1>7. CASE Finish
  <2>1. running /\ UNCHANGED <<ask, spent, results>>
        /\ status' = (IF results # <<>> THEN "solved" ELSE IF saw THEN "resource-exhausted" ELSE "no-proof")
    BY <1>7 DEF Finish, Ends
  <2>2. results # <<>> <=> Len(results) > 0
    BY <1>1
  <2> QED BY <1>1, <2>1, <2>2 DEF Promised!Answers, Terminated, running, WrapExcess
<1>8. CASE Raise
  BY <1>8 DEF Raise, Ends, Promised!Answers, Terminated, running, WrapExcess
<1>9. CASE Expire
  BY <1>3, <1>9 DEF Expire, Answer, Terminated
<1>10. CASE UNCHANGED vars
  BY <1>3, <1>10 DEF vars, Answer, Terminated
<1> QED BY <1>4, <1>5, <1>6, <1>7, <1>8, <1>9, <1>10 DEF Next, Search, OwnTurns

\* The search implements the contract its callers read in ConstructorResult.
THEOREM SearchKeepsContract == Spec => KeepsContract
<1>1. Init => Promised!Promise
  BY DEF Init, Promised!Promise, Terminated
<1>2. Inv /\ [Next]_vars => [Promised!Works \/ Promised!Answers]_(Promised!contract)
  BY StepContract
<1> QED BY <1>1, <1>2, SearchInvariant, PTL DEF Spec, KeepsContract, Promised!Contract

===============================================================================
