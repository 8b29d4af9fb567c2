------------------------------- MODULE Agenda -------------------------------
(***************************************************************************)
(* The native search agenda (AgdaProver.Symbolic.Agenda): one queue of     *)
(* alternatives under two indexes, and the work a depth limit has parked.  *)
(*                                                                         *)
(* activeEntries is ordered by spent cost plus an estimate.  When entries  *)
(* are localized, focusedEntries orders the same work by scope, and the    *)
(* two orders take turns.  stepWithDepth takes one entry out, asks the     *)
(* hooks about it and puts the alternatives of the answer back; the hooks  *)
(* answer anything here.  The agenda is an immutable value: a hook that    *)
(* throws leaves the previous one to its owner (AgendaSearch.hs).          *)
(***************************************************************************)
EXTENDS Integers, Sequences, FiniteSets

CONSTANTS
  States,        \* native proof states
  Estimates,     \* the estimates prioritize may be given
  Orders,        \* the entry orders localize may be given
  Unordered,     \* entryOrder is Nothing
  Limits,        \* the depth limits a request may carry
  NoLimit,       \* no depth limit
  Penalties,     \* what proposals and retained continuations may cost extra
  MaxProposals,  \* bound on the proposals of one answer
  MaxSerial,     \* bound on the entries of a run
  Reorder        \* whether a queue is reordered after its first step

ASSUME AgendaAssumption ==
  /\ States # {}
  /\ Estimates \subseteq [States -> Nat]
  /\ Orders \subseteq [States -> Nat] /\ Unordered \notin [States -> Nat]
  /\ NoLimit \notin Nat /\ Limits \subseteq Nat \cup {NoLimit}
  /\ Penalties \subseteq Nat
  /\ MaxProposals \in Nat /\ MaxSerial \in Nat /\ Reorder \in BOOLEAN

VARIABLES
  nextSerial,
  estimateCost,
  activeEntries,   \* a map from keys to entries
  heldEntries,     \* the entries parked at heldDepth
  heldDepth,
  entryOrder,
  focusedEntries,  \* a map from focus keys to the keys of activeEntries
  focusTurn,
  limit,           \* depthLimit of the run's settings
  outcome          \* of the last step

queueVars == <<activeEntries, heldEntries, focusedEntries>>
vars == <<nextSerial, estimateCost, activeEntries, heldEntries, heldDepth, entryOrder,
          focusedEntries, focusTurn, limit, outcome>>

Cost  == [global : Nat, local : Nat]
Scope == [progress : Nat, number : Nat]
Work  == [op : {"inspect", "apply", "resume"}, state : States, ancestors : Seq(States)]
Entry == [cost : Cost, scope : Scope, work : Work]
Key   == [priority : Nat, serial : Nat]
FocusKeys == [progress : Nat, number : Nat, local : Nat, serial : Nat]
Outcomes  == {"begun", "progress", "found", "censored", "depth-censored", "interrupted",
              "exhausted"}

Empty == [k \in {} |-> k]

IsMap(map, keys, values) == DOMAIN map \subseteq keys /\ \A k \in DOMAIN map : map[k] \in values

\* The types of the variables.
TypeOK ==
  /\ nextSerial \in Nat
  /\ estimateCost \in [States -> Nat]
  /\ IsMap(activeEntries, Key, Entry) /\ IsMap(heldEntries, Key, Entry)
  /\ IsMap(focusedEntries, FocusKeys, Key)
  /\ heldDepth \in Nat \cup {NoLimit} /\ limit \in Nat \cup {NoLimit}
  /\ entryOrder \in [States -> Nat] \cup {Unordered}
  /\ focusTurn \in BOOLEAN
  /\ outcome \in Outcomes

-----------------------------------------------------------------------------
(* Maps and orders.                                                        *)

Without(map, k)  == [j \in DOMAIN map \ {k} |-> map[j]]
With(map, k, v)  == [j \in DOMAIN map \cup {k} |-> IF j = k THEN v ELSE map[j]]
Merge(map, more) == [j \in DOMAIN map \cup DOMAIN more |->
                       IF j \in DOMAIN map THEN map[j] ELSE more[j]]

\* Keys and focus keys are compared field by field.
Before(j, k) ==
  j.priority < k.priority \/ (j.priority = k.priority /\ j.serial < k.serial)

FocusBefore(f, g) ==
  \/ f.progress < g.progress
  \/ f.progress = g.progress /\ f.number < g.number
  \/ /\ f.progress = g.progress /\ f.number = g.number
     /\ f.local < g.local \/ (f.local = g.local /\ f.serial < g.serial)

\* Every priority contains the global cost and the estimate.
FocusKey(k, e) ==
  [progress |-> e.scope.progress, number |-> e.scope.number,
   local |-> e.cost.local + (k.priority - e.cost.global), serial |-> k.serial]

\* reindex
Index(order, map) ==
  IF order = Unordered THEN Empty
  ELSE [f \in {FocusKey(k, map[k]) : k \in DOMAIN map} |->
          CHOOSE k \in DOMAIN map : FocusKey(k, map[k]) = f]

KeyOf(estimate, e, serial) ==
  [priority |-> e.cost.global + estimate[e.work.state], serial |-> serial]

Advance(cost, n) == [global |-> cost.global + n, local |-> cost.local + n]

-----------------------------------------------------------------------------
(* start, prioritize and localize.                                         *)

Init ==
  /\ \E root \in States :
       activeEntries =
         [k \in {[priority |-> 0, serial |-> 0]} |->
            [cost |-> [global |-> 0, local |-> 0], scope |-> [progress |-> 0, number |-> 0],
             work |-> [op |-> "inspect", state |-> root, ancestors |-> <<>>]]]
  /\ nextSerial = 1 /\ estimateCost = [s \in States |-> 0]
  /\ heldEntries = Empty /\ heldDepth = NoLimit
  /\ entryOrder = Unordered /\ focusedEntries = Empty /\ focusTurn = TRUE
  /\ limit \in Limits /\ outcome = "begun"

Reorders == outcome = "begun" \/ (Reorder /\ outcome # "exhausted")

Rekey(estimate, map) ==
  LET key(k) == KeyOf(estimate, map[k], k.serial)
  IN  [j \in {key(k) : k \in DOMAIN map} |-> map[CHOOSE k \in DOMAIN map : key(k) = j]]

Prioritize(estimate) ==
  /\ Reorders
  /\ estimateCost' = estimate
  /\ activeEntries' = Rekey(estimate, activeEntries)
  /\ heldEntries' = Rekey(estimate, heldEntries)
  /\ focusedEntries' = Index(entryOrder, activeEntries')
  /\ UNCHANGED <<nextSerial, heldDepth, entryOrder, focusTurn, limit, outcome>>

Assign(order, map) ==
  [k \in DOMAIN map |-> [map[k] EXCEPT !.scope.progress = order[map[k].work.state]]]

Localize(order) ==
  /\ Reorders
  /\ entryOrder' = order /\ focusTurn' = TRUE
  /\ activeEntries' = Assign(order, activeEntries)
  /\ heldEntries' = Assign(order, heldEntries)
  /\ focusedEntries' = Index(order, activeEntries')
  /\ UNCHANGED <<nextSerial, estimateCost, heldDepth, limit, outcome>>

\* withDepthLimit, between two slices of a run.
WithDepthLimit(depth) ==
  /\ outcome # "exhausted" /\ depth # limit
  /\ limit' = depth
  /\ UNCHANGED <<nextSerial, estimateCost, queueVars, heldDepth, entryOrder, focusTurn,
                 outcome>>

-----------------------------------------------------------------------------
(* stepWithDepth: the queue it works on, and the entry it takes.           *)

Restores == limit # heldDepth

Active  == IF Restores THEN Merge(activeEntries, heldEntries) ELSE activeEntries
Held    == IF Restores THEN Empty ELSE heldEntries
Focused == IF Restores THEN Index(entryOrder, Active) ELSE focusedEntries

Localized == entryOrder # Unordered

\* nextEntry: a focused turn looks the key up in the active map.
Selected(k) ==
  /\ outcome # "exhausted"
  /\ k \in DOMAIN Active
  /\ IF focusTurn /\ Localized
     THEN \E f \in DOMAIN Focused :
            k = Focused[f] /\ \A g \in DOMAIN Focused : ~FocusBefore(g, f)
     ELSE \A j \in DOMAIN Active : ~Before(j, k)

\* Wrong: a state at the limit may not even be looked at.
BlockedAtLimit(w) == limit # NoLimit /\ Len(w.ancestors) >= limit

Blocked(w) ==
  /\ limit # NoLimit
  /\ IF w.op = "inspect" THEN Len(w.ancestors) > limit ELSE Len(w.ancestors) >= limit

\* The censored outcomes return the queue with the parked work restored.
KeepsQueue ==
  /\ activeEntries' = Active /\ heldEntries' = Held /\ focusedEntries' = Focused
  /\ heldDepth' = limit
  /\ UNCHANGED <<nextSerial, estimateCost, entryOrder, focusTurn, limit>>

\* Wrong: held work does not count.
ForgetsHeld ==
  /\ outcome # "exhausted" /\ ~\E k \in DOMAIN Active : Selected(k)
  /\ outcome' = "exhausted"
  /\ activeEntries' = Empty /\ heldEntries' = Empty /\ focusedEntries' = Empty
  /\ heldDepth' = limit
  /\ UNCHANGED <<nextSerial, estimateCost, entryOrder, focusTurn, limit>>

\* An exhausted run is dropped with its queue.
Exhaust ==
  /\ outcome # "exhausted" /\ ~\E k \in DOMAIN Active : Selected(k)
  /\ DOMAIN Held = {}
  /\ outcome' = "exhausted"
  /\ activeEntries' = Empty /\ heldEntries' = Empty /\ focusedEntries' = Empty
  /\ heldDepth' = limit
  /\ UNCHANGED <<nextSerial, estimateCost, entryOrder, focusTurn, limit>>

DepthCensor ==
  /\ outcome # "exhausted" /\ ~\E k \in DOMAIN Active : Selected(k)
  /\ DOMAIN Held # {}
  /\ outcome' = "depth-censored"
  /\ KeepsQueue

\* charge refuses: the queue keeps the entry and the turn.
Censor ==
  /\ \E k \in DOMAIN Active : Selected(k)
  /\ outcome' = "censored"
  /\ KeepsQueue

\* A hook throws: the owner keeps the queue the step was given.
Interrupt ==
  /\ \E k \in DOMAIN Active : Selected(k)
  /\ outcome' = "interrupted"
  /\ UNCHANGED <<nextSerial, estimateCost, queueVars, heldDepth, entryOrder, focusTurn, limit>>

\* Wrong: the second index keeps the entry.
FocusedWith(k) == Focused

FocusedWithout(k) == Without(Focused, FocusKey(k, Active[k]))

\* Wrong: work beyond the limit goes back into the queue.
ParkInQueue(k) ==
  /\ Selected(k) /\ Blocked(Active[k].work)
  /\ activeEntries' = Active /\ heldEntries' = Held /\ focusedEntries' = Focused
  /\ focusTurn' = ~focusTurn
  /\ heldDepth' = limit /\ outcome' = "progress"
  /\ UNCHANGED <<nextSerial, estimateCost, entryOrder, limit>>

Park(k) ==
  /\ Selected(k) /\ Blocked(Active[k].work)
  /\ activeEntries' = Without(Active, k)
  /\ heldEntries' = With(Held, k, Active[k])
  /\ focusedEntries' = FocusedWithout(k)
  /\ focusTurn' = ~focusTurn
  /\ heldDepth' = limit /\ outcome' = "progress"
  /\ UNCHANGED <<nextSerial, estimateCost, entryOrder, limit>>

-----------------------------------------------------------------------------
(* Serving an entry.                                                       *)

\* insert, for a sequence of entries: they get the next serials in turn.
SerialKey(items, i) == KeyOf(estimateCost, items[i], nextSerial + i - 1)

Inserted(map, items) ==
  [k \in DOMAIN map \cup {SerialKey(items, i) : i \in DOMAIN items} |->
     LET i == k.serial - nextSerial + 1
     IN  IF i \in DOMAIN items /\ SerialKey(items, i) = k THEN items[i] ELSE map[k]]

InsertedFocus(map, items) ==
  LET focus(i) == FocusKey(SerialKey(items, i), items[i])
  IN  [f \in DOMAIN map \cup {focus(i) : i \in DOMAIN items} |->
         LET i == f.serial - nextSerial + 1
         IN  IF i \in DOMAIN items /\ focus(i) = f THEN SerialKey(items, i) ELSE map[f]]

Serve(k, items, result) ==
  /\ Selected(k) /\ ~Blocked(Active[k].work)
  /\ nextSerial + Len(items) <= MaxSerial
  /\ activeEntries' = Inserted(Without(Active, k), items)
  /\ focusedEntries' = IF Localized THEN InsertedFocus(FocusedWithout(k), items)
                                    ELSE FocusedWithout(k)
  /\ heldEntries' = Held /\ heldDepth' = limit
  /\ nextSerial' = nextSerial + Len(items)
  /\ focusTurn' = ~focusTurn
  /\ outcome' = result
  /\ UNCHANGED <<estimateCost, entryOrder, limit>>

\* More work on the same state, `amount` dearer.
More(e, op, amount) == [e EXCEPT !.cost = Advance(@, amount), !.work.op = op]

Child(e, s) ==
  [cost |-> Advance(e.cost, 1), scope |-> e.scope,
   work |-> [op |-> "inspect", state |-> s,
             ancestors |-> <<e.work.state>> \o e.work.ancestors]]

\* Wrong: the checkpoint stays in the scope of its parent.
SameScopeChild(e, s) ==
  [Child(e, s) EXCEPT !.cost.local = 0,
     !.scope.progress = IF Localized THEN entryOrder[s] ELSE @]

\* A completed original stage opens a local scope.
CheckpointChild(e, s) ==
  [Child(e, s) EXCEPT !.cost.local = 0,
     !.scope = IF Localized THEN [progress |-> entryOrder[s], number |-> nextSerial] ELSE @]

Seen(w) == {w.state} \cup {w.ancestors[i] : i \in DOMAIN w.ancestors}

\* Open or Planned: the proposals are queued behind their penalties.
Expand(k) ==
  \E n \in 0..MaxProposals : \E penalty \in [1..n -> Penalties] :
    Serve(k, [i \in 1..n |-> More(Active[k], "apply", 1 + penalty[i])], "progress")

\* Candidate: the other alternatives stay, for a rejection downstream.
Propose(k) == Active[k].work.op = "inspect" /\ Serve(k, <<>>, "found")

\* Stuck or Declined.
Drop(k) == Serve(k, <<>>, "progress")

Defer(k) ==
  /\ Active[k].work.op # "inspect"
  /\ \E extra \in Penalties : Serve(k, <<More(Active[k], "resume", 1 + extra)>>, "progress")

\* Advanced, AdvancedWithRemainder and Checkpoint: the next state, unless the
\* branch has been there, then the continuation that is retained.
Continue(k) ==
  /\ Active[k].work.op # "inspect"
  /\ \E s \in States, boundary \in BOOLEAN, rest \in
          {<<>>} \cup {<<More(Active[k], "resume", 1 + extra)>> : extra \in Penalties} :
       LET child == IF boundary THEN CheckpointChild(Active[k], s) ELSE Child(Active[k], s)
       IN  Serve(k, IF s \in Seen(Active[k].work) THEN rest ELSE <<child>> \o rest,
                 "progress")

\* A step whose charge is allowed and whose hooks answer.
Answered ==
  \E k \in DOMAIN Active :
    Park(k) \/ Expand(k) \/ Propose(k) \/ Drop(k) \/ Defer(k) \/ Continue(k)

Next ==
  \/ \E estimate \in Estimates : Prioritize(estimate)
  \/ \E order \in Orders : Localize(order)
  \/ \E depth \in Limits : WithDepthLimit(depth)
  \/ Exhaust \/ DepthCensor \/ Censor \/ Interrupt
  \/ Answered

Spec == Init /\ [][Next]_vars

\* advance goes on stepping while its allowances last, and they are raised.
FairSpec == Spec /\ WF_vars(Answered)

-----------------------------------------------------------------------------
(* Correctness.                                                            *)

\* One queue under two indexes: the focused index, which is only ever patched
\* by insert and by the removal of the served entry, is at every moment the
\* index reindex would build from the active entries.
IndexesAgree == focusedEntries = Index(entryOrder, activeEntries)

Serials(map) == {k.serial : k \in DOMAIN map}

\* No key is ever overwritten, and no entry is both active and parked: two
\* entries never have one serial.
OneEntryPerSerial ==
  /\ Serials(activeEntries) \cap Serials(heldEntries) = {}
  /\ \A map \in {activeEntries, heldEntries} : \A j, k \in DOMAIN map :
       j.serial = k.serial => j = k

Exceeds(w, depth) ==
  /\ depth # NoLimit
  /\ IF w.op = "inspect" THEN Len(w.ancestors) > depth ELSE Len(w.ancestors) >= depth

\* Work is parked for one limit setting only, and a search that reports that
\* its depth is spent has nothing left below its limit.
OnlyTooDeepIsParked ==
  /\ \A k \in DOMAIN heldEntries : Exceeds(heldEntries[k].work, heldDepth)
  /\ outcome = "depth-censored" => DOMAIN activeEntries = {}

\* A pair of an inspection and an application is charged at least two: there
\* are finitely many alternatives below every cost, so the global turns reach
\* each of them.
Charged(e) ==
  e.cost.global >= 2 * Len(e.work.ancestors) + (IF e.work.op = "inspect" THEN 0 ELSE 1)

DeeperIsDearer ==
  \A map \in {activeEntries, heldEntries} : \A k \in DOMAIN map :
    Charged(map[k]) /\ map[k].cost.local <= map[k].cost.global

\* What the two indexes need to reach every entry: they index the same entries,
\* every entry once, and deeper entries are dearer.
IndexesServeAll == IndexesAgree /\ OneEntryPerSerial /\ DeeperIsDearer

\* A scope is the work below one checkpoint: its entries agree on how many
\* original entries are left, so the oldest scope gets the focused turn.
ScopesAgree ==
  \A j, k \in DOMAIN activeEntries :
    activeEntries[j].scope.number = activeEntries[k].scope.number
      => activeEntries[j].scope.progress = activeEntries[k].scope.progress

Alternatives(map) ==
  {[serial |-> k.serial, cost |-> map[k].cost.global,
    path |-> <<map[k].work.state>> \o map[k].work.ancestors] : k \in DOMAIN map}

\* The agenda keeps the promises of Frontier: nothing is lost or served twice
\* whatever is parked, restored, reordered, censored or interrupted, no branch
\* revisits a state, and Exhausted means that nothing is left.
F == INSTANCE Frontier WITH
       frontier  <- Alternatives(activeEntries) \cup Alternatives(heldEntries),
       numbered  <- nextSerial,
       exhausted <- outcome = "exhausted"

NothingLost == F!Spec

\* Every alternative is served or parked in the end: none falls out of both
\* orders, and work beyond the depth limit does not keep the search busy.
EveryEntryGetsATurn ==
  \A n \in 0..MaxSerial : n \in Serials(activeEntries) ~> n \notin Serials(activeEntries)

=============================================================================
