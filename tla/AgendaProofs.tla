------------------------------ MODULE AgendaProofs ------------------------------
(***************************************************************************)
(* The agenda loses no work and serves none twice, for all states, costs,  *)
(* orders and depth limits: it implements Frontier, and its two indexes    *)
(* order the same entries.                                                 *)
(*                                                                         *)
(* Everything rests on the serials: a number is given to one entry, whose  *)
(* key and focus key both contain it, so no insertion overwrites an entry  *)
(* and every entry is found again in the other index.                      *)
(***************************************************************************)
EXTENDS Agenda, WellFoundedInduction, TLAPS

\* The entries of a map are filed under their cost, estimate and serial.
Filed(map, estimate, next) ==
  /\ DOMAIN map \subseteq Key /\ map \in [DOMAIN map -> Entry]
  /\ \A k \in DOMAIN map :
       /\ k.priority = map[k].cost.global + estimate[map[k].work.state]
       /\ k.serial < next
  /\ \A j, k \in DOMAIN map : j.serial = k.serial => j = k

Dear(map) == \A k \in DOMAIN map : Charged(map[k]) /\ map[k].cost.local <= map[k].cost.global

Apart(map, other) == \A j \in DOMAIN map, k \in DOMAIN other : j.serial # k.serial

TooDeep(map, depth) == \A k \in DOMAIN map : Exceeds(map[k].work, depth)

\* A queue: its active and its parked entries, and the second index.
Queue(active, held, focused, depth, estimate, order, next) ==
  /\ Filed(active, estimate, next) /\ Filed(held, estimate, next)
  /\ Apart(active, held)
  /\ Dear(active) /\ Dear(held)
  /\ focused = Index(order, active)
  /\ TooDeep(held, depth)

Scalars ==
  /\ nextSerial \in Nat /\ estimateCost \in [States -> Nat]
  /\ heldDepth \in Nat \cup {NoLimit} /\ limit \in Nat \cup {NoLimit}
  /\ entryOrder \in [States -> Nat] \cup {Unordered}
  /\ focusTurn \in BOOLEAN /\ outcome \in Outcomes

\* The inductive invariant.
Inv ==
  /\ Scalars
  /\ Queue(activeEntries, heldEntries, focusedEntries, heldDepth, estimateCost, entryOrder,
           nextSerial)
  /\ outcome = "depth-censored" => DOMAIN activeEntries = {}

-----------------------------------------------------------------------------
(* Entries and their keys.                                                 *)

LEMMA EntryTypes ==
  ASSUME NEW e \in Entry
  PROVE  /\ e.cost \in Cost /\ e.cost.global \in Nat /\ e.cost.local \in Nat
         /\ e.scope \in Scope /\ e.scope.progress \in Nat /\ e.scope.number \in Nat
         /\ e.work \in Work /\ e.work.state \in States /\ e.work.ancestors \in Seq(States)
         /\ e.work.op \in {"inspect", "apply", "resume"}
BY DEF Entry, Cost, Scope, Work

\* A focus key holds natural numbers, and the serial of its entry.
LEMMA FocusKeyTypes ==
  ASSUME NEW estimate \in [States -> Nat], NEW next \in Nat, NEW map, Filed(map, estimate, next),
         NEW k \in DOMAIN map
  PROVE  FocusKey(k, map[k]) \in FocusKeys /\ FocusKey(k, map[k]).serial = k.serial
<1>1. map[k] \in Entry /\ k \in Key
  BY DEF Filed
<1>2. /\ map[k].cost.global \in Nat /\ map[k].cost.local \in Nat
      /\ map[k].scope.progress \in Nat /\ map[k].scope.number \in Nat
      /\ map[k].work.state \in States
  BY <1>1, EntryTypes
<1>3. k.serial \in Nat /\ k.priority = map[k].cost.global + estimate[map[k].work.state]
  BY <1>1 DEF Filed, Key
<1>4. estimate[map[k].work.state] \in Nat
  BY <1>2
<1>5. map[k].cost.local + (k.priority - map[k].cost.global) \in Nat
  BY <1>2, <1>3, <1>4
<1> QED BY <1>2, <1>3, <1>5 DEF FocusKey, FocusKeys

LEMMA FocusKeysDiffer ==
  ASSUME NEW estimate \in [States -> Nat], NEW next \in Nat, NEW map, Filed(map, estimate, next),
         NEW j \in DOMAIN map, NEW k \in DOMAIN map, FocusKey(j, map[j]) = FocusKey(k, map[k])
  PROVE  j = k
<1>1. j.serial = k.serial
  BY FocusKeyTypes
<1> QED BY <1>1 DEF Filed

LEMMA IndexUnordered == ASSUME NEW map PROVE Index(Unordered, map) = Empty
  BY DEF Index

\* The index leads from the focus key of an entry to its key.
LEMMA IndexLeads ==
  ASSUME NEW estimate \in [States -> Nat], NEW next \in Nat, NEW map, Filed(map, estimate, next),
         NEW order, order # Unordered
  PROVE  /\ DOMAIN Index(order, map) = {FocusKey(k, map[k]) : k \in DOMAIN map}
         /\ \A k \in DOMAIN map : Index(order, map)[FocusKey(k, map[k])] = k
         /\ Index(order, map) = [f \in DOMAIN Index(order, map) |-> Index(order, map)[f]]
<1> DEFINE foci == {FocusKey(k, map[k]) : k \in DOMAIN map}
           key(f) == CHOOSE k \in DOMAIN map : FocusKey(k, map[k]) = f
<1>1. Index(order, map) = [f \in foci |-> key(f)]
  BY DEF Index
<1>2. ASSUME NEW k \in DOMAIN map
      PROVE  key(FocusKey(k, map[k])) = k
  <2>1. key(FocusKey(k, map[k])) \in DOMAIN map
        /\ FocusKey(key(FocusKey(k, map[k])), map[key(FocusKey(k, map[k]))]) = FocusKey(k, map[k])
    OBVIOUS
  <2> HIDE DEF key
  <2> QED BY <2>1, FocusKeysDiffer
<1> HIDE DEF key
<1> QED BY <1>1, <1>2

LEMMA IndexTypes ==
  ASSUME NEW estimate \in [States -> Nat], NEW next \in Nat, NEW map, Filed(map, estimate, next),
         NEW order
  PROVE  IsMap(Index(order, map), FocusKeys, Key)
<1>1. CASE order = Unordered
  BY <1>1, IndexUnordered DEF Empty, IsMap
<1>2. CASE order # Unordered
  <2>1. /\ DOMAIN Index(order, map) = {FocusKey(k, map[k]) : k \in DOMAIN map}
        /\ \A k \in DOMAIN map : Index(order, map)[FocusKey(k, map[k])] = k
    BY <1>2, IndexLeads
  <2>2. \A k \in DOMAIN map : FocusKey(k, map[k]) \in FocusKeys /\ k \in Key
    BY FocusKeyTypes DEF Filed
  <2> QED BY <2>1, <2>2 DEF IsMap
<1> QED BY <1>1, <1>2

-----------------------------------------------------------------------------
(* What the operations do to a map of entries.                             *)

LEMMA WithoutFiled ==
  ASSUME NEW estimate, NEW next, NEW map, Filed(map, estimate, next), NEW k \in DOMAIN map
  PROVE  Filed(Without(map, k), estimate, next)
<1>1. /\ DOMAIN Without(map, k) = DOMAIN map \ {k}
      /\ \A j \in DOMAIN map \ {k} : Without(map, k)[j] = map[j]
      /\ Without(map, k) = [j \in DOMAIN map \ {k} |-> map[j]]
  BY DEF Without
<1>2. map \in [DOMAIN map -> Entry]
  BY DEF Filed
<1>3. Without(map, k) \in [DOMAIN map \ {k} -> Entry]
  BY <1>1, <1>2
<1> QED BY <1>1, <1>3 DEF Filed

LEMMA WithFiled ==
  ASSUME NEW estimate, NEW next, NEW map, Filed(map, estimate, next), NEW k \in Key, NEW e \in Entry,
         k.priority = e.cost.global + estimate[e.work.state], k.serial < next,
         \A j \in DOMAIN map : j.serial # k.serial
  PROVE  Filed(With(map, k, e), estimate, next)
<1>1. map \in [DOMAIN map -> Entry] /\ k \notin DOMAIN map
  BY DEF Filed
<1>2. /\ DOMAIN With(map, k, e) = DOMAIN map \cup {k}
      /\ With(map, k, e)[k] = e
      /\ \A j \in DOMAIN map : With(map, k, e)[j] = map[j]
  BY <1>1 DEF With
<1>3. With(map, k, e) \in [DOMAIN map \cup {k} -> Entry]
  BY <1>1 DEF With
<1> QED BY <1>2, <1>3 DEF Filed

LEMMA MergeFiled ==
  ASSUME NEW estimate, NEW next, NEW map, NEW more, Filed(map, estimate, next),
         Filed(more, estimate, next), Apart(map, more)
  PROVE  Filed(Merge(map, more), estimate, next)
<1>1. map \in [DOMAIN map -> Entry] /\ more \in [DOMAIN more -> Entry]
      /\ \A j \in DOMAIN more : j \notin DOMAIN map
  BY DEF Filed, Apart
<1>2. /\ DOMAIN Merge(map, more) = DOMAIN map \cup DOMAIN more
      /\ \A j \in DOMAIN map : Merge(map, more)[j] = map[j]
      /\ \A j \in DOMAIN more : Merge(map, more)[j] = more[j]
  BY <1>1 DEF Merge
<1>3. Merge(map, more) \in [DOMAIN map \cup DOMAIN more -> Entry]
  BY <1>1 DEF Merge
<1>4. \A j, k \in DOMAIN map \cup DOMAIN more : j.serial = k.serial => j = k
  BY DEF Filed, Apart
<1> QED BY <1>2, <1>3, <1>4 DEF Filed

LEMMA EmptyFiled ==
  ASSUME NEW estimate, NEW next
  PROVE  Filed(Empty, estimate, next) /\ DOMAIN Empty = {} /\ Dear(Empty)
         /\ \A depth : TooDeep(Empty, depth)
<1>1. DOMAIN Empty = {} /\ Empty \in [{} -> Entry]
  BY DEF Empty
<1> QED BY <1>1 DEF Filed, Dear, TooDeep

\* prioritize gives every entry its new key: the same entry, the same serial.
LEMMA RekeyFiled ==
  ASSUME NEW estimate, NEW next, NEW map, Filed(map, estimate, next),
         NEW new \in [States -> Nat]
  PROVE  /\ Filed(Rekey(new, map), new, next)
         /\ \A k \in DOMAIN map : /\ KeyOf(new, map[k], k.serial) \in DOMAIN Rekey(new, map)
                                  /\ Rekey(new, map)[KeyOf(new, map[k], k.serial)] = map[k]
         /\ \A j \in DOMAIN Rekey(new, map) : \E k \in DOMAIN map :
              j = KeyOf(new, map[k], k.serial) /\ Rekey(new, map)[j] = map[k]
<1> DEFINE key(k) == KeyOf(new, map[k], k.serial)
           old(j) == CHOOSE k \in DOMAIN map : key(k) = j
<1>1. Rekey(new, map) = [j \in {key(k) : k \in DOMAIN map} |-> map[old(j)]]
  BY DEF Rekey
<1>2. \A k \in DOMAIN map : key(k).serial = k.serial
                            /\ key(k).priority = map[k].cost.global + new[map[k].work.state]
  BY DEF KeyOf
<1>3. ASSUME NEW k \in DOMAIN map
      PROVE  old(key(k)) = k
  <2>1. old(key(k)) \in DOMAIN map /\ key(old(key(k))) = key(k)
    OBVIOUS
  <2> HIDE DEF old
  <2> QED BY <2>1, <1>2 DEF Filed
<1>4. ASSUME NEW k \in DOMAIN map
      PROVE  map[k] \in Entry /\ key(k) \in Key
  <2>1. map[k] \in Entry /\ k \in Key
    BY DEF Filed
  <2>2. map[k].cost.global \in Nat /\ map[k].work.state \in States /\ k.serial \in Nat
    BY <2>1, EntryTypes DEF Key
  <2> QED BY <2>1, <2>2 DEF KeyOf, Key
<1> HIDE DEF old, key
<1>5. DOMAIN Rekey(new, map) = {key(k) : k \in DOMAIN map}
      /\ \A k \in DOMAIN map : Rekey(new, map)[key(k)] = map[k]
  BY <1>1, <1>3
<1>6. Rekey(new, map) \in [DOMAIN Rekey(new, map) -> Entry]
  BY <1>1, <1>3, <1>4
<1>7. \A j \in DOMAIN Rekey(new, map) :
        j.priority = Rekey(new, map)[j].cost.global + new[Rekey(new, map)[j].work.state]
        /\ j.serial < next
  BY <1>2, <1>5 DEF Filed
<1>8. \A j, k \in DOMAIN Rekey(new, map) : j.serial = k.serial => j = k
  BY <1>2, <1>5 DEF Filed
<1>9. DOMAIN Rekey(new, map) \subseteq Key
  BY <1>4, <1>5
<1>10. Filed(Rekey(new, map), new, next)
  BY <1>6, <1>7, <1>8, <1>9 DEF Filed
<1> QED BY <1>5, <1>10 DEF key

\* localize changes the progress of scopes, and nothing else.
LEMMA AssignFiled ==
  ASSUME NEW estimate, NEW next, NEW map, Filed(map, estimate, next),
         NEW order \in [States -> Nat]
  PROVE  /\ Filed(Assign(order, map), estimate, next)
         /\ DOMAIN Assign(order, map) = DOMAIN map
         /\ \A k \in DOMAIN map : Assign(order, map)[k].cost = map[k].cost
                                  /\ Assign(order, map)[k].work = map[k].work
<1>1. /\ DOMAIN Assign(order, map) = DOMAIN map
      /\ \A k \in DOMAIN map :
           Assign(order, map)[k] = [map[k] EXCEPT !.scope.progress = order[map[k].work.state]]
      /\ Assign(order, map) = [k \in DOMAIN map |-> Assign(order, map)[k]]
  BY DEF Assign
<1>2. ASSUME NEW k \in DOMAIN map
      PROVE  /\ Assign(order, map)[k] \in Entry
             /\ Assign(order, map)[k].cost = map[k].cost
             /\ Assign(order, map)[k].work = map[k].work
  <2>1. map[k] \in Entry
    BY DEF Filed
  <2>2. order[map[k].work.state] \in Nat
    BY <2>1, EntryTypes
  <2> QED BY <1>1, <2>1, <2>2 DEF Entry, Scope
<1>3. Assign(order, map) \in [DOMAIN map -> Entry]
  BY <1>1, <1>2
<1> QED BY <1>1, <1>2, <1>3 DEF Filed

-----------------------------------------------------------------------------
(* The second index is patched as the first one is.                        *)

LEMMA IndexWithout ==
  ASSUME NEW estimate \in [States -> Nat], NEW next \in Nat, NEW map, Filed(map, estimate, next),
         NEW order, NEW k \in DOMAIN map
  PROVE  Index(order, Without(map, k)) = Without(Index(order, map), FocusKey(k, map[k]))
<1> DEFINE rest == Without(map, k)
           f == FocusKey(k, map[k])
<1>1. /\ Filed(rest, estimate, next)
      /\ DOMAIN rest = DOMAIN map \ {k}
      /\ \A j \in DOMAIN map \ {k} : rest[j] = map[j]
  <2>1. Filed(rest, estimate, next)
    BY WithoutFiled
  <2> QED BY <2>1 DEF Without
<1>2. CASE order = Unordered
  <2>1. Index(order, map) = Empty /\ Index(order, rest) = Empty
    BY <1>2, IndexUnordered
  <2>2. Without(Empty, f) = Empty
    BY DEF Without, Empty
  <2> QED BY <2>1, <2>2
<1>3. CASE order # Unordered
  <2>1. /\ DOMAIN Index(order, map) = {FocusKey(j, map[j]) : j \in DOMAIN map}
        /\ \A j \in DOMAIN map : Index(order, map)[FocusKey(j, map[j])] = j
    BY <1>3, IndexLeads
  <2>2. /\ DOMAIN Index(order, rest) = {FocusKey(j, rest[j]) : j \in DOMAIN rest}
        /\ \A j \in DOMAIN rest : Index(order, rest)[FocusKey(j, rest[j])] = j
        /\ Index(order, rest) = [g \in DOMAIN Index(order, rest) |-> Index(order, rest)[g]]
    BY <1>1, <1>3, IndexLeads
  <2>3. \A j \in DOMAIN map \ {k} : FocusKey(j, map[j]) # f
    BY FocusKeysDiffer
  <2> HIDE DEF rest, f
  <2>4. DOMAIN Index(order, rest) = DOMAIN Index(order, map) \ {f}
    BY <1>1, <2>1, <2>2, <2>3 DEF f
  <2>5. \A g \in DOMAIN Index(order, rest) : Index(order, rest)[g] = Index(order, map)[g]
    BY <1>1, <2>1, <2>2
  <2>6. Without(Index(order, map), f) = [g \in DOMAIN Index(order, map) \ {f} |-> Index(order, map)[g]]
    BY DEF Without
  <2> QED BY <2>2, <2>4, <2>5, <2>6 DEF rest, f
<1> QED BY <1>2, <1>3

\* The entries inserted get keys and serials of their own.
LEMMA InsertedFiled ==
  ASSUME NEW map, nextSerial \in Nat, estimateCost \in [States -> Nat],
         Filed(map, estimateCost, nextSerial), NEW items \in Seq(Entry)
  PROVE  /\ Filed(Inserted(map, items), estimateCost, nextSerial + Len(items))
         /\ DOMAIN Inserted(map, items)
              = DOMAIN map \cup {SerialKey(items, i) : i \in DOMAIN items}
         /\ \A k \in DOMAIN map : Inserted(map, items)[k] = map[k]
         /\ \A i \in DOMAIN items : /\ Inserted(map, items)[SerialKey(items, i)] = items[i]
                                   /\ SerialKey(items, i).serial = nextSerial + i - 1
<1> DEFINE new == {SerialKey(items, i) : i \in DOMAIN items}
<1>1. DOMAIN items = 1..Len(items) /\ Len(items) \in Nat
      /\ \A i \in DOMAIN items : i \in Nat /\ i >= 1 /\ i <= Len(items) /\ items[i] \in Entry
  OBVIOUS
<1>2. ASSUME NEW i \in DOMAIN items
      PROVE  /\ SerialKey(items, i) \in Key
             /\ SerialKey(items, i).serial = nextSerial + i - 1
             /\ SerialKey(items, i).priority
                  = items[i].cost.global + estimateCost[items[i].work.state]
  <2>1. items[i].cost.global \in Nat /\ items[i].work.state \in States
    BY <1>1, EntryTypes
  <2>2. nextSerial + i - 1 \in Nat
    BY <1>1
  <2> QED BY <2>1, <2>2 DEF SerialKey, KeyOf, Key
<1>3. \A k \in DOMAIN map : k \in Key /\ k.serial \in Nat /\ k.serial < nextSerial
                         /\ map[k] \in Entry
  BY DEF Filed, Key
<1>4. ASSUME NEW k \in DOMAIN map
      PROVE  k.serial - nextSerial + 1 \notin DOMAIN items
  BY <1>1, <1>3
<1>5. ASSUME NEW i \in DOMAIN items
      PROVE  SerialKey(items, i).serial - nextSerial + 1 = i
  BY <1>1, <1>2
<1> HIDE DEF new
<1>6. DOMAIN Inserted(map, items) = DOMAIN map \cup new
  BY DEF Inserted, new
<1>7. \A k \in DOMAIN map : Inserted(map, items)[k] = map[k]
  BY <1>4, <1>6 DEF Inserted
<1>8. ASSUME NEW i \in DOMAIN items
      PROVE  Inserted(map, items)[SerialKey(items, i)] = items[i]
  <2>1. SerialKey(items, i) \in new
    BY DEF new
  <2> QED BY <2>1, <1>5 DEF Inserted, new
<1>9. ASSUME NEW k \in new
      PROVE  \E i \in DOMAIN items : k = SerialKey(items, i)
  BY DEF new
<1>10. Inserted(map, items) \in [DOMAIN map \cup new -> Entry]
  <2>1. Inserted(map, items) = [k \in DOMAIN map \cup new |-> Inserted(map, items)[k]]
    BY DEF Inserted, new
  <2> QED BY <2>1, <1>1, <1>3, <1>7, <1>8, <1>9
<1>11. DOMAIN map \cup new \subseteq Key
  BY <1>2, <1>3, <1>9
<1>12. ASSUME NEW k \in DOMAIN map \cup new
       PROVE  /\ k.priority = Inserted(map, items)[k].cost.global
                               + estimateCost[Inserted(map, items)[k].work.state]
              /\ k.serial < nextSerial + Len(items)
  <2>1. CASE k \in DOMAIN map
    BY <2>1, <1>1, <1>3, <1>7 DEF Filed
  <2>2. CASE k \in new
    BY <2>2, <1>1, <1>2, <1>8, <1>9
  <2> QED BY <2>1, <2>2
<1>13. ASSUME NEW j \in DOMAIN map \cup new, NEW k \in DOMAIN map \cup new, j.serial = k.serial
       PROVE  j = k
  <2>1. CASE j \in DOMAIN map /\ k \in DOMAIN map
    BY <1>13, <2>1 DEF Filed
  <2>2. CASE j \in new /\ k \in new
    BY <1>13, <2>2, <1>5, <1>9
  <2>3. CASE j \in DOMAIN map /\ k \in new
    BY <1>13, <2>3, <1>1, <1>2, <1>3, <1>9
  <2>4. CASE k \in DOMAIN map /\ j \in new
    BY <1>13, <2>4, <1>1, <1>2, <1>3, <1>9
  <2> QED BY <2>1, <2>2, <2>3, <2>4
<1>14. Filed(Inserted(map, items), estimateCost, nextSerial + Len(items))
  BY <1>6, <1>10, <1>11, <1>12, <1>13 DEF Filed
<1> QED BY <1>2, <1>6, <1>7, <1>8, <1>14 DEF new

LEMMA IndexInserted ==
  ASSUME NEW map, nextSerial \in Nat, estimateCost \in [States -> Nat],
         Filed(map, estimateCost, nextSerial), NEW items \in Seq(Entry),
         NEW order, order # Unordered
  PROVE  Index(order, Inserted(map, items)) = InsertedFocus(Index(order, map), items)
<1> DEFINE all == Inserted(map, items)
           key(i) == SerialKey(items, i)
           focus(i) == FocusKey(SerialKey(items, i), items[i])
           ind == Index(order, map)
           next == nextSerial + Len(items)
<1>1. /\ Filed(all, estimateCost, next)
      /\ DOMAIN all = DOMAIN map \cup {key(i) : i \in DOMAIN items}
      /\ \A k \in DOMAIN map : all[k] = map[k]
      /\ \A i \in DOMAIN items : all[key(i)] = items[i] /\ key(i).serial = nextSerial + i - 1
  BY InsertedFiled
<1>2. DOMAIN items = 1..Len(items) /\ Len(items) \in Nat /\ next \in Nat
  OBVIOUS
<1>3. /\ DOMAIN ind = {FocusKey(k, map[k]) : k \in DOMAIN map}
      /\ \A k \in DOMAIN map : ind[FocusKey(k, map[k])] = k
  BY IndexLeads
<1> HIDE DEF all, next
<1>4. /\ DOMAIN Index(order, all) = {FocusKey(k, all[k]) : k \in DOMAIN all}
      /\ \A k \in DOMAIN all : Index(order, all)[FocusKey(k, all[k])] = k
      /\ Index(order, all) = [f \in DOMAIN Index(order, all) |-> Index(order, all)[f]]
  BY <1>1, <1>2, IndexLeads
<1> HIDE DEF ind
<1>5. \A i \in DOMAIN items : focus(i) = FocusKey(key(i), all[key(i)])
  BY <1>1
<1>6. \A k \in DOMAIN map : FocusKey(k, map[k]) = FocusKey(k, all[k])
  BY <1>1
<1>7. DOMAIN Index(order, all) = DOMAIN ind \cup {focus(i) : i \in DOMAIN items}
  <2> HIDE DEF key, focus
  <2>1. ASSUME NEW f \in DOMAIN Index(order, all)
        PROVE  f \in DOMAIN ind \cup {focus(i) : i \in DOMAIN items}
    <3>1. PICK k \in DOMAIN all : f = FocusKey(k, all[k])
      BY <1>4
    <3>2. CASE k \in DOMAIN map
      BY <1>3, <1>6, <3>1, <3>2
    <3>3. CASE k \notin DOMAIN map
      BY <1>1, <1>5, <3>1, <3>3
    <3> QED BY <3>2, <3>3
  <2>2. ASSUME NEW f \in DOMAIN ind
        PROVE  f \in DOMAIN Index(order, all)
    BY <1>1, <1>3, <1>4, <1>6
  <2>3. ASSUME NEW i \in DOMAIN items
        PROVE  focus(i) \in DOMAIN Index(order, all)
    <3>1. key(i) \in DOMAIN all /\ focus(i) = FocusKey(key(i), all[key(i)])
      BY <1>1, <1>5
    <3> QED BY <3>1, <1>4
  <2> QED BY <2>1, <2>2, <2>3
<1>8. ASSUME NEW i \in DOMAIN items
      PROVE  focus(i).serial - nextSerial + 1 = i
  <2>1. focus(i).serial = nextSerial + i - 1
    BY <1>1 DEF FocusKey
  <2> QED BY <1>2, <2>1
<1>9. ASSUME NEW k \in DOMAIN map
      PROVE  FocusKey(k, map[k]).serial - nextSerial + 1 \notin DOMAIN items
  <2>1. k.serial \in Nat /\ k.serial < nextSerial
    BY DEF Filed, Key
  <2> QED BY <1>2, <2>1 DEF FocusKey
<1> DEFINE patched(f) ==
             LET i == f.serial - nextSerial + 1
             IN  IF i \in DOMAIN items /\ focus(i) = f THEN key(i) ELSE ind[f]
<1>10. InsertedFocus(ind, items)
         = [f \in DOMAIN ind \cup {focus(i) : i \in DOMAIN items} |-> patched(f)]
  BY DEF InsertedFocus
<1>11. ASSUME NEW i \in DOMAIN items
       PROVE  patched(focus(i)) = Index(order, all)[focus(i)]
  <2>1. patched(focus(i)) = key(i)
    BY <1>8
  <2>2. key(i) \in DOMAIN all
    BY <1>1
  <2> HIDE DEF patched, focus, key
  <2> QED BY <2>1, <2>2, <1>4, <1>5
<1>12. ASSUME NEW k \in DOMAIN map
       PROVE  patched(FocusKey(k, map[k])) = Index(order, all)[FocusKey(k, map[k])]
  <2>1. patched(FocusKey(k, map[k])) = k
    BY <1>3, <1>9
  <2>2. k \in DOMAIN all
    BY <1>1
  <2> HIDE DEF patched
  <2> QED BY <2>1, <2>2, <1>4, <1>6
<1> HIDE DEF patched, focus, key
<1>13. ASSUME NEW f \in DOMAIN Index(order, all)
       PROVE  patched(f) = Index(order, all)[f]
  BY <1>3, <1>7, <1>11, <1>12
<1> QED BY <1>4, <1>7, <1>10, <1>13 DEF all, ind

-----------------------------------------------------------------------------
(* A queue that is not empty has an entry to serve.                        *)

LEMMA LeastNatural ==
  ASSUME NEW S, S \subseteq Nat, S # {}
  PROVE  \E n \in S : \A m \in S : n <= m
<1>1. PICK R : IsWellFoundedOn(R, Nat) /\ \A m, n \in Nat : m < n => <<m, n>> \in R
  <2>1. IsWellFoundedOn(OpToRel(<, Nat), Nat)
    BY NatLessThanWellFounded
  <2>2. \A m, n \in Nat : m < n => <<m, n>> \in OpToRel(<, Nat)
    BY DEF OpToRel
  <2> QED BY <2>1, <2>2, Zenon
<1>2. PICK n \in S : \A m \in S : ~(<<m, n>> \in R)
  <2>1. IsWellFoundedOn(R, Nat)
    BY <1>1
  <2> QED BY <2>1, WFMin, Zenon
<1>3. \A m \in S : ~(m < n)
  BY <1>1, <1>2
<1> QED BY <1>3

LEMMA FirstKey ==
  ASSUME NEW S, S \subseteq Key, S # {}
  PROVE  \E k \in S : \A j \in S : ~Before(j, k)
<1>1. \A k \in S : k.priority \in Nat /\ k.serial \in Nat
  BY DEF Key
<1>2. PICK p \in {k.priority : k \in S} : \A m \in {k.priority : k \in S} : p <= m
  <2>1. {k.priority : k \in S} \subseteq Nat /\ {k.priority : k \in S} # {}
    BY <1>1
  <2> QED BY <2>1, LeastNatural
<1> DEFINE T == {k \in S : k.priority = p}
<1>3. PICK n \in {k.serial : k \in T} : \A m \in {k.serial : k \in T} : n <= m
  <2>1. {k.serial : k \in T} \subseteq Nat /\ {k.serial : k \in T} # {}
    BY <1>1, <1>2
  <2> QED BY <2>1, LeastNatural
<1>4. PICK k \in T : k.serial = n
  BY <1>3
<1>5. ASSUME NEW j \in S
      PROVE  ~Before(j, k)
  <2>1. k \in S /\ k.priority = p /\ k.priority <= j.priority
    BY <1>2, <1>4
  <2>2. j.priority = p => k.serial <= j.serial
    BY <1>3, <1>4
  <2> QED BY <2>1, <2>2, <1>1 DEF Before
<1> QED BY <1>4, <1>5

LEMMA FirstFocusKey ==
  ASSUME NEW S, S \subseteq FocusKeys, S # {}
  PROVE  \E f \in S : \A g \in S : ~FocusBefore(g, f)
<1>1. \A f \in S : f.progress \in Nat /\ f.number \in Nat /\ f.local \in Nat /\ f.serial \in Nat
  BY DEF FocusKeys
<1>2. PICK p \in {f.progress : f \in S} : \A m \in {f.progress : f \in S} : p <= m
  <2>1. {f.progress : f \in S} \subseteq Nat /\ {f.progress : f \in S} # {}
    BY <1>1
  <2> QED BY <2>1, LeastNatural
<1> DEFINE T == {f \in S : f.progress = p}
<1>3. PICK n \in {f.number : f \in T} : \A m \in {f.number : f \in T} : n <= m
  <2>1. {f.number : f \in T} \subseteq Nat /\ {f.number : f \in T} # {}
    BY <1>1, <1>2
  <2> QED BY <2>1, LeastNatural
<1> DEFINE U == {f \in T : f.number = n}
<1>4. PICK l \in {f.local : f \in U} : \A m \in {f.local : f \in U} : l <= m
  <2>1. {f.local : f \in U} \subseteq Nat /\ {f.local : f \in U} # {}
    BY <1>1, <1>3
  <2> QED BY <2>1, LeastNatural
<1> DEFINE V == {f \in U : f.local = l}
<1>5. PICK s \in {f.serial : f \in V} : \A m \in {f.serial : f \in V} : s <= m
  <2>1. {f.serial : f \in V} \subseteq Nat /\ {f.serial : f \in V} # {}
    BY <1>1, <1>4
  <2> QED BY <2>1, LeastNatural
<1>6. PICK f \in V : f.serial = s
  BY <1>5
<1>7. ASSUME NEW g \in S
      PROVE  ~FocusBefore(g, f)
  <2>1. f \in S /\ f.progress <= g.progress
    BY <1>2, <1>6
  <2>2. g.progress = f.progress => f.number <= g.number
    BY <1>3, <1>6
  <2>3. g.progress = f.progress /\ g.number = f.number => f.local <= g.local
    BY <1>4, <1>6
  <2>4. g.progress = f.progress /\ g.number = f.number /\ g.local = f.local => f.serial <= g.serial
    BY <1>5, <1>6
  <2> QED BY <2>1, <2>2, <2>3, <2>4, <1>1 DEF FocusBefore
<1> QED BY <1>6, <1>7

\* withDepthLimit restores the parked work: the same alternatives, all active.
LEMMA Restored ==
  ASSUME Inv
  PROVE  /\ Queue(Active, Held, Focused, limit, estimateCost, entryOrder, nextSerial)
         /\ Alternatives(Active) \cup Alternatives(Held)
              = Alternatives(activeEntries) \cup Alternatives(heldEntries)
<1>1. CASE ~Restores
  BY <1>1 DEF Inv, Restores, Active, Held, Focused
<1>2. CASE Restores
  <2>1. Active = Merge(activeEntries, heldEntries) /\ Held = Empty
        /\ Focused = Index(entryOrder, Active)
    BY <1>2 DEF Active, Held, Focused
  <2>2. /\ Filed(activeEntries, estimateCost, nextSerial)
        /\ Filed(heldEntries, estimateCost, nextSerial)
        /\ Apart(activeEntries, heldEntries) /\ Dear(activeEntries) /\ Dear(heldEntries)
    BY DEF Inv, Queue
  <2>3. /\ Filed(Active, estimateCost, nextSerial)
        /\ DOMAIN Active = DOMAIN activeEntries \cup DOMAIN heldEntries
        /\ \A j \in DOMAIN activeEntries : Active[j] = activeEntries[j]
        /\ \A j \in DOMAIN heldEntries : Active[j] = heldEntries[j]
    <3>1. \A j \in DOMAIN heldEntries : j \notin DOMAIN activeEntries
      BY <2>2 DEF Apart
    <3>2. Filed(Active, estimateCost, nextSerial)
      BY <2>1, <2>2, MergeFiled
    <3> QED BY <2>1, <3>1, <3>2 DEF Merge
  <2>4. Filed(Held, estimateCost, nextSerial) /\ DOMAIN Held = {} /\ Dear(Held)
        /\ TooDeep(Held, limit)
    BY <2>1, EmptyFiled
  <2>5. Dear(Active)
    BY <2>2, <2>3 DEF Dear
  <2>6. Apart(Active, Held)
    BY <2>4 DEF Apart
  <2>7. Alternatives(Held) = {}
    BY <2>4 DEF Alternatives
  <2>8. Alternatives(Active) = Alternatives(activeEntries) \cup Alternatives(heldEntries)
    BY <2>3 DEF Alternatives
  <2> QED BY <2>1, <2>3, <2>4, <2>5, <2>6, <2>7, <2>8 DEF Queue
<1> QED BY <1>1, <1>2

LEMMA SomeSelected ==
  ASSUME Inv, outcome # "exhausted", DOMAIN Active # {}
  PROVE  \E k \in DOMAIN Active : Selected(k)
<1>1. Filed(Active, estimateCost, nextSerial) /\ Focused = Index(entryOrder, Active)
  BY Restored DEF Queue
<1>2. nextSerial \in Nat /\ estimateCost \in [States -> Nat]
  BY DEF Inv, Scalars
<1>3. CASE focusTurn /\ Localized
  <2>1. entryOrder # Unordered
    BY <1>3 DEF Localized
  <2>2. /\ DOMAIN Focused = {FocusKey(k, Active[k]) : k \in DOMAIN Active}
        /\ \A k \in DOMAIN Active : Focused[FocusKey(k, Active[k])] = k
    BY <1>1, <1>2, <2>1, IndexLeads
  <2>3. DOMAIN Focused # {} /\ DOMAIN Focused \subseteq FocusKeys
    BY <1>1, <1>2, <2>2, FocusKeyTypes
  <2>4. PICK f \in DOMAIN Focused : \A g \in DOMAIN Focused : ~FocusBefore(g, f)
    BY <2>3, FirstFocusKey
  <2>5. PICK k \in DOMAIN Active : f = FocusKey(k, Active[k])
    BY <2>2
  <2>6. k = Focused[f]
    BY <2>2, <2>5
  <2> QED BY <1>3, <2>4, <2>6 DEF Selected
<1>4. CASE ~(focusTurn /\ Localized)
  <2>1. DOMAIN Active \subseteq Key
    BY <1>1 DEF Filed
  <2>2. PICK k \in DOMAIN Active : \A j \in DOMAIN Active : ~Before(j, k)
    BY <2>1, FirstKey
  <2> QED BY <1>4, <2>2 DEF Selected
<1> QED BY <1>3, <1>4

-----------------------------------------------------------------------------
(* The alternatives of an answer.                                          *)

Path(e) == <<e.work.state>> \o e.work.ancestors

\* What may be queued for the entry served: dearer work on its own state or on
\* one its branch has not visited, in its scope or in a new one.
Fits(e, parent) ==
  /\ e \in Entry /\ Charged(e) /\ e.cost.local <= e.cost.global
  /\ e.cost.global > parent.cost.global
  /\ F!Continues(Path(e), Path(parent))

Fit(items, parent) ==
  /\ items \in Seq(Entry)
  /\ \A i \in DOMAIN items :
       /\ Fits(items[i], parent)
       /\ items[i].scope = parent.scope \/ (i = 1 /\ items[i].scope.number = nextSerial)

LEMMA MoreFits ==
  ASSUME NEW e \in Entry, Charged(e), e.cost.local <= e.cost.global,
         NEW op \in {"apply", "resume"}, NEW extra \in Nat
  PROVE  Fits(More(e, op, 1 + extra), e) /\ More(e, op, 1 + extra).scope = e.scope
<1> DEFINE m == More(e, op, 1 + extra)
<1>1. /\ e.cost.global \in Nat /\ e.cost.local \in Nat /\ e.scope \in Scope /\ e.work.state \in States
      /\ e.work.ancestors \in Seq(States) /\ Len(e.work.ancestors) \in Nat
  BY EntryTypes
<1>2. /\ m.cost.global = e.cost.global + 1 + extra /\ m.cost.local = e.cost.local + 1 + extra
      /\ m.scope = e.scope /\ m.work.op = op
      /\ m.work.state = e.work.state /\ m.work.ancestors = e.work.ancestors
  BY DEF More, Advance, Entry, Cost, Work
<1>3. m \in Entry
  <2>1. Advance(e.cost, 1 + extra) \in Cost
    BY <1>1 DEF Advance, Cost
  <2>2. [e.work EXCEPT !.op = op] \in Work
    BY EntryTypes DEF Work
  <2> QED BY <2>1, <2>2 DEF More, Entry
<1> HIDE DEF m
<1>4. Charged(m) /\ m.cost.local <= m.cost.global /\ m.cost.global > e.cost.global
  <2>1. e.cost.global >= 2 * Len(e.work.ancestors)
    <3>1. CASE e.work.op = "inspect"
      BY <1>1, <3>1 DEF Charged
    <3>2. CASE e.work.op # "inspect"
      BY <1>1, <3>2 DEF Charged
    <3> QED BY <3>1, <3>2
  <2>2. m.cost.global >= 2 * Len(m.work.ancestors) + 1
    BY <1>1, <1>2, <2>1
  <2>3. m.work.op # "inspect"
    BY <1>2
  <2> QED BY <1>1, <1>2, <2>2, <2>3 DEF Charged
<1>5. F!Continues(Path(m), Path(e))
  BY <1>2 DEF Path, F!Continues
<1> QED BY <1>2, <1>3, <1>4, <1>5 DEF Fits, m

\* One step further on a branch.
LEMMA PathGrows ==
  ASSUME NEW e \in Entry, NEW s \in States, s \notin Seen(e.work), NEW c,
         c.work.state = s, c.work.ancestors = <<e.work.state>> \o e.work.ancestors
  PROVE  F!Continues(Path(c), Path(e))
<1>1. e.work.state \in States /\ e.work.ancestors \in Seq(States)
  BY EntryTypes
<1>2. Path(e) \in Seq(States) /\ Path(c) = <<s>> \o Path(e)
  BY <1>1 DEF Path
<1>3. Path(c) # <<>> /\ Tail(Path(c)) = Path(e) /\ Head(Path(c)) = s
  BY <1>2
<1>4. ASSUME NEW i \in DOMAIN Path(e)
      PROVE  Path(e)[i] # s
  <2>1. CASE i = 1
    BY <1>1, <2>1 DEF Path, Seen
  <2>2. CASE i # 1
    <3>1. i - 1 \in DOMAIN e.work.ancestors /\ Path(e)[i] = e.work.ancestors[i - 1]
      BY <1>1, <1>4, <2>2 DEF Path
    <3> QED BY <3>1 DEF Seen
  <2> QED BY <2>1, <2>2
<1> QED BY <1>3, <1>4 DEF F!Continues

LEMMA ChildFits ==
  ASSUME NEW e \in Entry, Charged(e), e.cost.local <= e.cost.global,
         e.work.op # "inspect", NEW s \in States, s \notin Seen(e.work)
  PROVE  Fits(Child(e, s), e) /\ Child(e, s).scope = e.scope
<1> DEFINE c == Child(e, s)
<1>1. /\ e.cost.global \in Nat /\ e.cost.local \in Nat /\ e.scope \in Scope /\ e.work.state \in States
      /\ e.work.ancestors \in Seq(States) /\ Len(e.work.ancestors) \in Nat
  BY EntryTypes
<1>2. /\ c.cost.global = e.cost.global + 1 /\ c.cost.local = e.cost.local + 1
      /\ c.scope = e.scope /\ c.work.op = "inspect" /\ c.work.state = s
      /\ c.work.ancestors = <<e.work.state>> \o e.work.ancestors
  BY DEF Child, Advance
<1>3. /\ c.work.ancestors \in Seq(States)
      /\ Len(c.work.ancestors) = Len(e.work.ancestors) + 1
  BY <1>1, <1>2
<1>4. c \in Entry
  BY <1>1, <1>2, <1>3 DEF Child, Advance, Entry, Cost, Work
<1> HIDE DEF c
<1>5. Charged(c) /\ c.cost.local <= c.cost.global /\ c.cost.global > e.cost.global
  BY <1>1, <1>2, <1>3 DEF Charged
<1>6. F!Continues(Path(c), Path(e))
  BY <1>2, PathGrows
<1> QED BY <1>2, <1>4, <1>5, <1>6 DEF Fits, c

LEMMA CheckpointChildFits ==
  ASSUME Scalars, NEW e \in Entry, Charged(e), e.cost.local <= e.cost.global,
         e.work.op # "inspect", NEW s \in States, s \notin Seen(e.work)
  PROVE  /\ Fits(CheckpointChild(e, s), e)
         /\ \/ CheckpointChild(e, s).scope = e.scope
            \/ CheckpointChild(e, s).scope.number = nextSerial
<1> DEFINE d == Child(e, s)
           c == CheckpointChild(e, s)
           scope == IF Localized THEN [progress |-> entryOrder[s], number |-> nextSerial] ELSE d.scope
<1>1. Fits(d, e) /\ d.scope = e.scope
  BY ChildFits
<1>2. d \in Entry
  BY <1>1 DEF Fits
<1>3. scope \in Scope
  <2>1. d.scope \in Scope
    BY <1>2, EntryTypes
  <2>2. CASE Localized
    <3>1. nextSerial \in Nat /\ entryOrder[s] \in Nat
      BY <2>2 DEF Localized, Scalars
    <3> QED BY <2>2, <3>1 DEF Scope
  <2> QED BY <2>1, <2>2
<1>4. c = [d EXCEPT !.cost.local = 0, !.scope = scope]
  BY DEF CheckpointChild, Child, Advance
<1>5. /\ d.cost.global \in Nat /\ d.cost \in Cost /\ d.work \in Work
      /\ Len(d.work.ancestors) \in Nat
  BY <1>2, EntryTypes
<1> HIDE DEF scope, d
<1>6. /\ c.cost.global = d.cost.global /\ c.cost.local = 0 /\ c.scope = scope /\ c.work = d.work
  BY <1>2, <1>4, <1>5 DEF Entry, Cost
<1> HIDE DEF c
<1>7. c \in Entry
  <2>1. [d.cost EXCEPT !.local = 0] \in Cost
    BY <1>5 DEF Cost
  <2>2. c = [d EXCEPT !.cost = [d.cost EXCEPT !.local = 0], !.scope = scope]
    BY <1>2, <1>4 DEF Entry
  <2> QED BY <1>2, <1>3, <2>1, <2>2 DEF Entry
<1>8. Charged(c) /\ c.cost.local <= c.cost.global /\ c.cost.global > e.cost.global
  <2>1. d.cost.global > e.cost.global /\ Charged(d)
    BY <1>1 DEF Fits
  <2>2. Charged(c)
    BY <1>6, <2>1 DEF Charged
  <2> QED BY <1>5, <1>6, <2>1, <2>2
<1>9. F!Continues(Path(c), Path(e))
  BY <1>1, <1>6 DEF Path, Fits
<1>10. c.scope = e.scope \/ c.scope.number = nextSerial
  BY <1>1, <1>6 DEF scope
<1> QED BY <1>7, <1>8, <1>9, <1>10 DEF Fits, c

Serves(k) == Expand(k) \/ Propose(k) \/ Drop(k) \/ Defer(k) \/ Continue(k)

\* Whatever the hooks answer, what is queued fits the entry served.
LEMMA AnswersFit ==
  ASSUME Inv, NEW k \in DOMAIN Active, Serves(k)
  PROVE  \E items, result : /\ result \in {"progress", "found"} /\ Fit(items, Active[k])
                            /\ Serve(k, items, result)
<1> DEFINE e == Active[k]
<1>1. e \in Entry /\ Charged(e) /\ e.cost.local <= e.cost.global
  BY Restored DEF Queue, Filed, Dear
<1>2. \A extra \in Penalties, op \in {"apply", "resume"} :
        Fits(More(e, op, 1 + extra), e) /\ More(e, op, 1 + extra).scope = e.scope
  BY <1>1, MoreFits, AgendaAssumption
<1>3. \A m : Fits(m, e) => m \in Entry
  BY DEF Fits
<1>4. Fit(<<>>, e)
  BY DEF Fit
<1>5. ASSUME NEW m, Fits(m, e), m.scope = e.scope \/ m.scope.number = nextSerial
      PROVE  Fit(<<m>>, e)
  BY <1>3, <1>5 DEF Fit
<1>6. CASE Expand(k)
  <2>0. PICK n \in 0..MaxProposals : \E penalty \in [1..n -> Penalties] :
          Serve(k, [i \in 1..n |-> More(e, "apply", 1 + penalty[i])], "progress")
    BY <1>6 DEF Expand
  <2>1. PICK penalty \in [1..n -> Penalties] :
          Serve(k, [i \in 1..n |-> More(e, "apply", 1 + penalty[i])], "progress")
    BY <2>0
  <2> DEFINE items == [i \in 1..n |-> More(e, "apply", 1 + penalty[i])]
  <2>2. \A i \in 1..n : Fits(items[i], e) /\ items[i].scope = e.scope
    BY <1>2
  <2>3. items \in Seq(Entry) /\ DOMAIN items = 1..n
    <3>1. n \in Nat /\ \A i \in 1..n : More(e, "apply", 1 + penalty[i]) \in Entry
      BY <1>3, <2>2, AgendaAssumption
    <3> QED BY <3>1
  <2> HIDE DEF items
  <2>4. Fit(items, e)
    BY <2>2, <2>3 DEF Fit
  <2> QED BY <2>1, <2>4 DEF items
<1>7. CASE Propose(k)
  BY <1>4, <1>7 DEF Propose
<1>8. CASE Drop(k)
  BY <1>4, <1>8 DEF Drop
<1>9. CASE Defer(k)
  <2>1. PICK extra \in Penalties : Serve(k, <<More(e, "resume", 1 + extra)>>, "progress")
    BY <1>9 DEF Defer
  <2>2. Fit(<<More(e, "resume", 1 + extra)>>, e)
    BY <1>2, <1>5
  <2> QED BY <2>1, <2>2
<1>10. CASE Continue(k)
  <2> DEFINE rests == {<<>>} \cup {<<More(e, "resume", 1 + extra)>> : extra \in Penalties}
             next(s, boundary) == IF boundary THEN CheckpointChild(e, s) ELSE Child(e, s)
  <2>1. PICK s \in States, boundary \in BOOLEAN, rest \in rests :
          Serve(k, IF s \in Seen(e.work) THEN rest ELSE <<next(s, boundary)>> \o rest, "progress")
    BY <1>10 DEF Continue
  <2>2. Fit(rest, e) /\ (rest = <<>> \/ \E m : /\ rest = <<m>> /\ Fits(m, e) /\ m.scope = e.scope)
    BY <1>2, <1>4, <1>5
  <2>3. CASE s \in Seen(e.work)
    BY <2>1, <2>2, <2>3
  <2>4. CASE s \notin Seen(e.work)
    <3> DEFINE c == next(s, boundary)
    <3>1. Fits(c, e) /\ (c.scope = e.scope \/ c.scope.number = nextSerial)
      <4>1. e.work.op # "inspect"
        BY <1>10 DEF Continue
      <4>2. Scalars
        BY DEF Inv
      <4> QED BY <1>1, <2>4, <4>1, <4>2, ChildFits, CheckpointChildFits
    <3> HIDE DEF c
    <3>2. Fit(<<c>> \o rest, e)
      <4>1. CASE rest = <<>>
        <5>1. <<c>> \o rest = <<c>>
          BY <1>3, <3>1, <4>1
        <5> QED BY <1>5, <3>1, <5>1
      <4>2. CASE rest # <<>>
        <5>1. PICK m : rest = <<m>> /\ Fits(m, e) /\ m.scope = e.scope
          BY <2>2, <4>2
        <5>2. c \in Entry /\ m \in Entry
          BY <1>3, <3>1, <5>1
        <5>3. LET q == <<c>> \o <<m>>
              IN  q \in Seq(Entry) /\ DOMAIN q = 1..2 /\ q[1] = c /\ q[2] = m
          BY <5>2
        <5>4. Fit(<<c>> \o <<m>>, e)
          BY <3>1, <5>1, <5>3 DEF Fit
        <5> QED BY <5>1, <5>4
      <4> QED BY <4>1, <4>2
    <3>3. Serve(k, <<c>> \o rest, "progress")
      BY <2>1, <2>4 DEF c
    <3> QED BY <3>2, <3>3
  <2> QED BY <2>3, <2>4
<1> QED BY <1>6, <1>7, <1>8, <1>9, <1>10 DEF Serves

\* What a step that serves does to the queue.
LEMMA ServeKeepsQueue ==
  ASSUME Inv, NEW k \in DOMAIN Active, NEW items, Fit(items, Active[k]), NEW result,
         Serve(k, items, result)
  PROVE  /\ Queue(activeEntries', heldEntries', focusedEntries', heldDepth', estimateCost',
                  entryOrder', nextSerial')
         /\ DOMAIN activeEntries' = (DOMAIN Active \ {k}) \cup {SerialKey(items, i) : i \in DOMAIN items}
         /\ \A j \in DOMAIN Active \ {k} : activeEntries'[j] = Active[j]
         /\ \A i \in DOMAIN items : /\ activeEntries'[SerialKey(items, i)] = items[i]
                                   /\ SerialKey(items, i).serial = nextSerial + i - 1
<1> DEFINE left == Without(Active, k)
           all  == Inserted(left, items)
           next == nextSerial + Len(items)
<1>1. Scalars /\ nextSerial \in Nat /\ estimateCost \in [States -> Nat]
  BY DEF Inv, Scalars
<1>2. /\ Filed(Active, estimateCost, nextSerial) /\ Filed(Held, estimateCost, nextSerial)
      /\ Apart(Active, Held) /\ Dear(Active) /\ Dear(Held)
      /\ Focused = Index(entryOrder, Active) /\ TooDeep(Held, limit)
  BY Restored DEF Queue
<1>3. /\ items \in Seq(Entry) /\ Len(items) \in Nat
      /\ \A i \in DOMAIN items : /\ i \in Nat /\ i >= 1 /\ Charged(items[i])
                                /\ items[i].cost.local <= items[i].cost.global
  BY DEF Fit, Fits
<1>4. Filed(left, estimateCost, nextSerial)
  BY <1>2, WithoutFiled
<1>5. DOMAIN left = DOMAIN Active \ {k} /\ \A j \in DOMAIN left : left[j] = Active[j]
  BY DEF Without
<1>6. /\ activeEntries' = all /\ heldEntries' = Held /\ heldDepth' = limit
      /\ nextSerial' = next /\ estimateCost' = estimateCost /\ entryOrder' = entryOrder
      /\ focusedEntries' = IF Localized THEN InsertedFocus(FocusedWithout(k), items)
                                        ELSE FocusedWithout(k)
  BY DEF Serve
<1> HIDE DEF left
<1>7. /\ Filed(all, estimateCost, next)
      /\ DOMAIN all = DOMAIN left \cup {SerialKey(items, i) : i \in DOMAIN items}
      /\ \A j \in DOMAIN left : all[j] = left[j]
      /\ \A i \in DOMAIN items : /\ all[SerialKey(items, i)] = items[i]
                                /\ SerialKey(items, i).serial = nextSerial + i - 1
  BY <1>1, <1>3, <1>4, InsertedFiled
<1>8. focusedEntries' = Index(entryOrder, all)
  <2>1. FocusedWithout(k) = Index(entryOrder, left)
    BY <1>1, <1>2, IndexWithout DEF FocusedWithout, left
  <2>2. CASE Localized
    BY <1>1, <1>3, <1>4, <1>6, <2>1, <2>2, IndexInserted DEF Localized
  <2>3. CASE ~Localized
    BY <1>6, <2>1, <2>3, IndexUnordered DEF Localized
  <2> QED BY <2>2, <2>3
<1> HIDE DEF all
<1>9. \A j \in DOMAIN Held : j.serial \in Nat /\ j.serial < nextSerial
  BY <1>2 DEF Filed, Key
<1>10. Filed(Held, estimateCost, next)
  <2>1. \A j \in DOMAIN Held : j.serial < next
    BY <1>1, <1>3, <1>9
  <2> HIDE DEF next
  <2> QED BY <1>2, <2>1 DEF Filed
<1>11. Apart(all, Held)
  <2>1. ASSUME NEW j \in DOMAIN all, NEW h \in DOMAIN Held
        PROVE  j.serial # h.serial
    <3>1. CASE j \in DOMAIN left
      BY <1>2, <1>5, <3>1 DEF Apart
    <3>2. CASE j \notin DOMAIN left
      BY <1>1, <1>3, <1>7, <1>9, <3>2
    <3> QED BY <3>1, <3>2
  <2> QED BY <2>1 DEF Apart
<1>12. Dear(all)
  <2>1. ASSUME NEW j \in DOMAIN all
        PROVE  Charged(all[j]) /\ all[j].cost.local <= all[j].cost.global
    <3>1. CASE j \in DOMAIN left
      BY <1>2, <1>5, <1>7, <3>1 DEF Dear
    <3>2. CASE j \notin DOMAIN left
      BY <1>3, <1>7, <3>2
    <3> QED BY <3>1, <3>2
  <2> QED BY <2>1 DEF Dear
<1>13. Queue(activeEntries', heldEntries', focusedEntries', heldDepth', estimateCost',
             entryOrder', nextSerial')
  BY <1>2, <1>6, <1>7, <1>8, <1>10, <1>11, <1>12 DEF Queue
<1> QED BY <1>5, <1>6, <1>7, <1>13

-----------------------------------------------------------------------------
(* Every step keeps the queue, and answers with a step of Frontier.        *)

Frontiers == Alternatives(activeEntries) \cup Alternatives(heldEntries)

\* The place of an entry in the frontier.
Place(k, e) == [serial |-> k.serial, cost |-> e.cost.global, path |-> Path(e)]

LEMMA AlternativesArePlaces ==
  ASSUME NEW map
  PROVE  Alternatives(map) = {Place(k, map[k]) : k \in DOMAIN map}
BY DEF Alternatives, Place, Path

\* The same work under other keys or in other scopes.
Alike(map, other) ==
  /\ \A j \in DOMAIN map : \E k \in DOMAIN other :
       j.serial = k.serial /\ map[j].cost = other[k].cost /\ map[j].work = other[k].work
  /\ \A k \in DOMAIN other : \E j \in DOMAIN map :
       j.serial = k.serial /\ map[j].cost = other[k].cost /\ map[j].work = other[k].work

LEMMA AlikeKeeps ==
  ASSUME NEW map, NEW other, Alike(map, other)
  PROVE  /\ Dear(other) => Dear(map)
         /\ \A depth : TooDeep(other, depth) => TooDeep(map, depth)
         /\ DOMAIN other = {} => DOMAIN map = {}
         /\ Alternatives(map) = Alternatives(other)
<1>1. Dear(other) => Dear(map)
  <2> SUFFICES ASSUME Dear(other), NEW j \in DOMAIN map
               PROVE  Charged(map[j]) /\ map[j].cost.local <= map[j].cost.global
    BY DEF Dear
  <2>1. PICK k \in DOMAIN other : map[j].cost = other[k].cost /\ map[j].work = other[k].work
    BY DEF Alike
  <2>2. Charged(other[k]) /\ other[k].cost.local <= other[k].cost.global
    BY DEF Dear
  <2> QED BY <2>1, <2>2 DEF Charged
<1>2. \A depth : TooDeep(other, depth) => TooDeep(map, depth)
  BY DEF Alike, TooDeep
<1>3. DOMAIN other = {} => DOMAIN map = {}
  BY DEF Alike
<1>4. /\ Alternatives(map) = {Place(j, map[j]) : j \in DOMAIN map}
      /\ Alternatives(other) = {Place(k, other[k]) : k \in DOMAIN other}
  BY AlternativesArePlaces
<1>5. \A j, k, d, e : j.serial = k.serial /\ d.cost = e.cost /\ d.work = e.work
                    => Place(j, d) = Place(k, e)
  BY DEF Place, Path
<1>6. Alternatives(map) \subseteq Alternatives(other)
  <2> SUFFICES ASSUME NEW j \in DOMAIN map
               PROVE  Place(j, map[j]) \in Alternatives(other)
    BY <1>4
  <2>1. PICK k \in DOMAIN other : j.serial = k.serial /\ map[j].cost = other[k].cost
                                /\ map[j].work = other[k].work
    BY DEF Alike
  <2> QED BY <1>4, <1>5, <2>1
<1>7. Alternatives(other) \subseteq Alternatives(map)
  <2> SUFFICES ASSUME NEW k \in DOMAIN other
               PROVE  Place(k, other[k]) \in Alternatives(map)
    BY <1>4
  <2>1. PICK j \in DOMAIN map : j.serial = k.serial /\ map[j].cost = other[k].cost
                              /\ map[j].work = other[k].work
    BY DEF Alike
  <2> QED BY <1>4, <1>5, <2>1
<1> QED BY <1>1, <1>2, <1>3, <1>6, <1>7

LEMMA AlikeApart ==
  ASSUME NEW map, NEW map2, NEW other, NEW other2, Alike(map2, map), Alike(other2, other),
         Apart(map, other)
  PROVE  Apart(map2, other2)
BY DEF Alike, Apart

LEMMA RekeyAlike ==
  ASSUME NEW estimate, NEW next, NEW map, Filed(map, estimate, next), NEW new \in [States -> Nat]
  PROVE  Alike(Rekey(new, map), map)
<1>1. /\ \A k \in DOMAIN map : /\ KeyOf(new, map[k], k.serial) \in DOMAIN Rekey(new, map)
                              /\ Rekey(new, map)[KeyOf(new, map[k], k.serial)] = map[k]
      /\ \A j \in DOMAIN Rekey(new, map) : \E k \in DOMAIN map :
           j = KeyOf(new, map[k], k.serial) /\ Rekey(new, map)[j] = map[k]
  BY RekeyFiled
<1>2. \A k \in DOMAIN map : KeyOf(new, map[k], k.serial).serial = k.serial
  BY DEF KeyOf
<1> QED BY <1>1, <1>2 DEF Alike

LEMMA AssignAlike ==
  ASSUME NEW estimate, NEW next, NEW map, Filed(map, estimate, next), NEW order \in [States -> Nat]
  PROVE  Alike(Assign(order, map), map)
<1>1. /\ DOMAIN Assign(order, map) = DOMAIN map
      /\ \A k \in DOMAIN map : /\ Assign(order, map)[k].cost = map[k].cost
                              /\ Assign(order, map)[k].work = map[k].work
  BY AssignFiled
<1> QED BY <1>1 DEF Alike

LEMMA Begins ==
  ASSUME Init
  PROVE  Inv /\ F!Init
<1> DEFINE k0 == [priority |-> 0, serial |-> 0]
           e0(root) == [cost |-> [global |-> 0, local |-> 0],
                        scope |-> [progress |-> 0, number |-> 0],
                        work |-> [op |-> "inspect", state |-> root, ancestors |-> <<>>]]
<1>1. PICK root \in States : activeEntries = [k \in {k0} |-> e0(root)]
  BY DEF Init
<1>2. DOMAIN activeEntries = {k0} /\ activeEntries[k0] = e0(root)
  BY <1>1
<1>3. e0(root) \in Entry /\ k0 \in Key
  BY DEF Entry, Cost, Scope, Work, Key
<1>4. /\ nextSerial = 1 /\ estimateCost = [s \in States |-> 0] /\ heldEntries = Empty
      /\ focusedEntries = Empty /\ heldDepth = NoLimit /\ entryOrder = Unordered
      /\ focusTurn = TRUE /\ limit \in Limits /\ outcome = "begun"
  BY DEF Init
<1>5. Filed(activeEntries, estimateCost, nextSerial)
  <2>1. activeEntries \in [DOMAIN activeEntries -> Entry]
    BY <1>1, <1>2, <1>3
  <2>2. k0.priority = 0 /\ k0.serial = 0 /\ e0(root).cost.global = 0 /\ e0(root).work.state = root
    OBVIOUS
  <2> HIDE DEF k0, e0
  <2> QED BY <1>2, <1>3, <1>4, <2>1, <2>2 DEF Filed
<1>6. Filed(heldEntries, estimateCost, nextSerial) /\ DOMAIN heldEntries = {} /\ Dear(heldEntries)
      /\ TooDeep(heldEntries, heldDepth)
  BY <1>4, EmptyFiled
<1>7. Dear(activeEntries)
  <2>1. Charged(e0(root)) /\ e0(root).cost.local <= e0(root).cost.global
    BY DEF Charged
  <2> QED BY <1>2, <2>1 DEF Dear
<1>8. Apart(activeEntries, heldEntries)
  BY <1>6 DEF Apart
<1>9. Scalars
  BY <1>4, AgendaAssumption DEF Scalars, Outcomes
<1>10. Inv
  BY <1>4, <1>5, <1>6, <1>7, <1>8, <1>9, IndexUnordered DEF Inv, Queue
<1>11. Frontiers = {[serial |-> 0, cost |-> 0, path |-> <<root>>]}
  <2>1. Alternatives(heldEntries) = {}
    BY <1>6 DEF Alternatives
  <2>2. Path(e0(root)) = <<root>>
    <3>1. <<root>> \in Seq(States)
      OBVIOUS
    <3>2. <<root>> \o <<>> = <<root>>
      BY <3>1
    <3> QED BY <3>2 DEF Path
  <2>3. k0.serial = 0 /\ e0(root).cost.global = 0
    OBVIOUS
  <2> HIDE DEF k0, e0
  <2>4. Alternatives(activeEntries)
          = {[serial |-> k0.serial, cost |-> e0(root).cost.global, path |-> Path(e0(root))]}
    BY <1>2 DEF Alternatives, Path
  <2>5. Alternatives(activeEntries) = {[serial |-> 0, cost |-> 0, path |-> <<root>>]}
    BY <2>2, <2>3, <2>4
  <2> QED BY <2>1, <2>5 DEF Frontiers
<1> QED BY <1>4, <1>10, <1>11 DEF F!Init, Frontiers

\* The frontier that a step must not change.
Same == Frontiers' = Frontiers /\ UNCHANGED nextSerial

LEMMA PrioritizeKeeps ==
  ASSUME Inv, NEW estimate \in Estimates, Prioritize(estimate)
  PROVE  Inv' /\ Same
<1>1. estimate \in [States -> Nat]
  BY AgendaAssumption
<1>2. Scalars /\ Filed(activeEntries, estimateCost, nextSerial)
      /\ Filed(heldEntries, estimateCost, nextSerial)
      /\ Apart(activeEntries, heldEntries) /\ Dear(activeEntries) /\ Dear(heldEntries)
      /\ TooDeep(heldEntries, heldDepth)
      /\ (outcome = "depth-censored" => DOMAIN activeEntries = {})
  BY DEF Inv, Queue
<1>3. /\ activeEntries' = Rekey(estimate, activeEntries) /\ heldEntries' = Rekey(estimate, heldEntries)
      /\ focusedEntries' = Index(entryOrder, activeEntries') /\ estimateCost' = estimate
      /\ UNCHANGED <<nextSerial, heldDepth, entryOrder, focusTurn, limit, outcome>>
  BY DEF Prioritize
<1>4. Filed(activeEntries', estimateCost', nextSerial') /\ Filed(heldEntries', estimateCost', nextSerial')
  BY <1>1, <1>2, <1>3, RekeyFiled
<1>5. Alike(activeEntries', activeEntries) /\ Alike(heldEntries', heldEntries)
  BY <1>1, <1>2, <1>3, RekeyAlike
<1>6. Apart(activeEntries', heldEntries')
  BY <1>2, <1>5, AlikeApart
<1>7. /\ Dear(activeEntries') /\ Dear(heldEntries') /\ TooDeep(heldEntries', heldDepth')
      /\ (outcome' = "depth-censored" => DOMAIN activeEntries' = {})
      /\ Alternatives(activeEntries') = Alternatives(activeEntries)
      /\ Alternatives(heldEntries') = Alternatives(heldEntries)
  BY <1>2, <1>3, <1>5, AlikeKeeps
<1>8. Scalars'
  BY <1>1, <1>2, <1>3 DEF Scalars
<1>9. Frontiers' = Frontiers
  BY <1>7 DEF Frontiers, Alternatives
<1> QED BY <1>3, <1>4, <1>6, <1>7, <1>8, <1>9 DEF Inv, Queue, Same

LEMMA LocalizeKeeps ==
  ASSUME Inv, NEW order \in Orders, Localize(order)
  PROVE  Inv' /\ Same
<1>1. order \in [States -> Nat]
  BY AgendaAssumption
<1>2. Scalars /\ Filed(activeEntries, estimateCost, nextSerial)
      /\ Filed(heldEntries, estimateCost, nextSerial)
      /\ Apart(activeEntries, heldEntries) /\ Dear(activeEntries) /\ Dear(heldEntries)
      /\ TooDeep(heldEntries, heldDepth)
      /\ (outcome = "depth-censored" => DOMAIN activeEntries = {})
  BY DEF Inv, Queue
<1>3. /\ activeEntries' = Assign(order, activeEntries) /\ heldEntries' = Assign(order, heldEntries)
      /\ focusedEntries' = Index(order, activeEntries') /\ entryOrder' = order /\ focusTurn' = TRUE
      /\ UNCHANGED <<nextSerial, estimateCost, heldDepth, limit, outcome>>
  BY DEF Localize
<1>4. Filed(activeEntries', estimateCost', nextSerial') /\ Filed(heldEntries', estimateCost', nextSerial')
  BY <1>1, <1>2, <1>3, AssignFiled
<1>5. Alike(activeEntries', activeEntries) /\ Alike(heldEntries', heldEntries)
  BY <1>1, <1>2, <1>3, AssignAlike
<1>6. Apart(activeEntries', heldEntries')
  BY <1>2, <1>5, AlikeApart
<1>7. /\ Dear(activeEntries') /\ Dear(heldEntries') /\ TooDeep(heldEntries', heldDepth')
      /\ (outcome' = "depth-censored" => DOMAIN activeEntries' = {})
      /\ Alternatives(activeEntries') = Alternatives(activeEntries)
      /\ Alternatives(heldEntries') = Alternatives(heldEntries)
  BY <1>2, <1>3, <1>5, AlikeKeeps
<1>8. Scalars'
  BY <1>1, <1>2, <1>3 DEF Scalars
<1>9. Frontiers' = Frontiers
  BY <1>7 DEF Frontiers, Alternatives
<1> QED BY <1>3, <1>4, <1>6, <1>7, <1>8, <1>9 DEF Inv, Queue, Same

LEMMA KeepsQueueKeeps ==
  ASSUME Inv, KeepsQueue, outcome' \in Outcomes,
         outcome' = "depth-censored" => DOMAIN Active = {}
  PROVE  Inv' /\ Same
<1>1. Queue(Active, Held, Focused, limit, estimateCost, entryOrder, nextSerial)
      /\ Alternatives(Active) \cup Alternatives(Held) = Frontiers
  BY Restored DEF Frontiers
<1>2. /\ activeEntries' = Active /\ heldEntries' = Held /\ focusedEntries' = Focused
      /\ heldDepth' = limit
      /\ UNCHANGED <<nextSerial, estimateCost, entryOrder, focusTurn, limit>>
  BY DEF KeepsQueue
<1>3. Scalars'
  BY <1>2 DEF Inv, Scalars
<1>4. Frontiers' = Alternatives(activeEntries') \cup Alternatives(heldEntries')
  BY DEF Frontiers, Alternatives
<1> QED BY <1>1, <1>2, <1>3, <1>4 DEF Inv, Same

LEMMA NothingSelected ==
  ASSUME Inv, outcome # "exhausted", ~\E k \in DOMAIN Active : Selected(k)
  PROVE  DOMAIN Active = {}
BY SomeSelected

LEMMA DepthCensorKeeps == ASSUME Inv, DepthCensor PROVE Inv' /\ Same
<1>1. KeepsQueue /\ outcome' = "depth-censored" /\ DOMAIN Active = {}
  BY NothingSelected DEF DepthCensor
<1> QED BY <1>1, KeepsQueueKeeps DEF Outcomes

LEMMA CensorKeeps == ASSUME Inv, Censor PROVE Inv' /\ Same
<1>1. KeepsQueue /\ outcome' = "censored"
  BY DEF Censor
<1> QED BY <1>1, KeepsQueueKeeps DEF Outcomes

LEMMA InterruptKeeps == ASSUME Inv, Interrupt PROVE Inv' /\ Same
<1>1. /\ outcome' = "interrupted"
      /\ UNCHANGED <<activeEntries, heldEntries, focusedEntries, nextSerial, estimateCost,
                    heldDepth, entryOrder, focusTurn, limit>>
  BY DEF Interrupt, queueVars
<1>2. Scalars'
  BY <1>1 DEF Inv, Scalars, Outcomes
<1>3. Frontiers' = Frontiers
  BY <1>1 DEF Frontiers, Alternatives
<1> QED BY <1>1, <1>2, <1>3 DEF Inv, Same

LEMMA WithDepthLimitKeeps ==
  ASSUME Inv, NEW depth \in Limits, WithDepthLimit(depth)
  PROVE  Inv' /\ Same
<1>1. /\ limit' = depth
      /\ UNCHANGED <<activeEntries, heldEntries, focusedEntries, nextSerial, estimateCost,
                    heldDepth, entryOrder, focusTurn, outcome>>
  BY DEF WithDepthLimit, queueVars
<1>2. Scalars'
  BY <1>1, AgendaAssumption DEF Inv, Scalars
<1>3. Frontiers' = Frontiers
  BY <1>1 DEF Frontiers, Alternatives
<1> QED BY <1>1, <1>2, <1>3 DEF Inv, Same

\* Exhausted is only answered when no work is left, active or parked.
LEMMA ExhaustKeeps ==
  ASSUME Inv, Exhaust
  PROVE  Inv' /\ F!Exhaust
<1>1. /\ outcome' = "exhausted" /\ DOMAIN Active = {} /\ DOMAIN Held = {}
      /\ activeEntries' = Empty /\ heldEntries' = Empty /\ focusedEntries' = Empty
      /\ heldDepth' = limit
      /\ UNCHANGED <<nextSerial, estimateCost, entryOrder, focusTurn, limit>>
  BY NothingSelected DEF Exhaust
<1>2. Frontiers = {}
  <2>1. Alternatives(Active) = {} /\ Alternatives(Held) = {}
    BY <1>1 DEF Alternatives
  <2> QED BY <2>1, Restored DEF Frontiers
<1>3. DOMAIN Empty = {}
  BY DEF Empty
<1>4. Frontiers' = {}
  BY <1>1, <1>3 DEF Frontiers, Alternatives
<1>5. Index(entryOrder', Empty) = Empty
  <2>1. CASE entryOrder' = Unordered
    BY <2>1, IndexUnordered
  <2>2. CASE entryOrder' # Unordered
    <3>1. {FocusKey(k, Empty[k]) : k \in DOMAIN Empty} = {}
      BY <1>3
    <3> QED BY <1>3, <2>2, <3>1 DEF Index, Empty
  <2> QED BY <2>1, <2>2
<1>6. Filed(Empty, estimateCost', nextSerial') /\ Dear(Empty) /\ TooDeep(Empty, heldDepth')
      /\ Apart(Empty, Empty)
  BY <1>3, EmptyFiled DEF Apart
<1>7. Scalars'
  BY <1>1 DEF Inv, Scalars, Outcomes
<1>8. Inv'
  BY <1>1, <1>5, <1>6, <1>7 DEF Inv, Queue
<1>9. F!Exhaust
  BY <1>1, <1>2, <1>4 DEF F!Exhaust, Frontiers
<1> QED BY <1>8, <1>9

LEMMA ParkKeeps ==
  ASSUME Inv, NEW k \in DOMAIN Active, Park(k)
  PROVE  Inv' /\ Same
<1> DEFINE left == Without(Active, k)
           parked == With(Held, k, Active[k])
<1>1. /\ Filed(Active, estimateCost, nextSerial) /\ Filed(Held, estimateCost, nextSerial)
      /\ Apart(Active, Held) /\ Dear(Active) /\ Dear(Held)
      /\ Focused = Index(entryOrder, Active) /\ TooDeep(Held, limit)
      /\ Alternatives(Active) \cup Alternatives(Held) = Frontiers
  BY Restored DEF Queue, Frontiers
<1>2. Scalars /\ nextSerial \in Nat /\ estimateCost \in [States -> Nat]
  BY DEF Inv, Scalars
<1>3. /\ activeEntries' = left /\ heldEntries' = parked /\ focusedEntries' = FocusedWithout(k)
      /\ focusTurn' = ~focusTurn /\ heldDepth' = limit /\ outcome' = "progress"
      /\ UNCHANGED <<nextSerial, estimateCost, entryOrder, limit>>
      /\ Blocked(Active[k].work)
  BY DEF Park
<1>4. Filed(left, estimateCost, nextSerial)
  BY <1>1, WithoutFiled
<1>5. DOMAIN left = DOMAIN Active \ {k} /\ \A j \in DOMAIN left : left[j] = Active[j]
  BY DEF Without
<1>6. \A j \in DOMAIN Held : j.serial # k.serial
  BY <1>1 DEF Apart
<1>7. Filed(parked, estimateCost, nextSerial)
  <2>1. /\ k \in Key /\ Active[k] \in Entry /\ k.serial < nextSerial
        /\ k.priority = Active[k].cost.global + estimateCost[Active[k].work.state]
    BY <1>1 DEF Filed
  <2> QED BY <1>1, <1>6, <2>1, WithFiled
<1>8. DOMAIN parked = DOMAIN Held \cup {k} /\ parked[k] = Active[k]
      /\ \A j \in DOMAIN Held : parked[j] = Held[j]
  BY <1>6 DEF With
<1>9. FocusedWithout(k) = Index(entryOrder, left)
  BY <1>1, <1>2, IndexWithout DEF FocusedWithout
<1> HIDE DEF left, parked
<1>10. Apart(left, parked)
  <2>1. \A j \in DOMAIN Active : j.serial = k.serial => j = k
    BY <1>1 DEF Filed
  <2> QED BY <1>1, <1>5, <1>8, <2>1 DEF Apart
<1>11. Dear(left) /\ Dear(parked)
  BY <1>1, <1>5, <1>8 DEF Dear
<1>12. TooDeep(parked, limit)
  <2>1. Exceeds(Active[k].work, limit)
    BY <1>3 DEF Blocked, Exceeds
  <2> QED BY <1>1, <1>8, <2>1 DEF TooDeep
<1>13. Scalars'
  <2>1. focusTurn' \in BOOLEAN
    BY <1>2, <1>3 DEF Scalars
  <2> QED BY <1>2, <1>3, <2>1 DEF Scalars, Outcomes
<1>14. Inv'
  BY <1>3, <1>4, <1>7, <1>9, <1>10, <1>11, <1>12, <1>13 DEF Inv, Queue
<1>15. Frontiers' = Frontiers
  <2>1. Frontiers' = Alternatives(left) \cup Alternatives(parked)
    BY <1>3 DEF Frontiers, Alternatives
  <2>2. ASSUME NEW a
        PROVE  a \in Alternatives(left) \cup Alternatives(parked)
                 <=> a \in Alternatives(Active) \cup Alternatives(Held)
    <3>1. \A map : Alternatives(map) = {Place(j, map[j]) : j \in DOMAIN map}
      BY AlternativesArePlaces
    <3> QED BY <1>5, <1>8, <3>1
  <2> QED BY <1>1, <2>1, <2>2
<1> QED BY <1>3, <1>14, <1>15 DEF Same

LEMMA ServeKeeps ==
  ASSUME Inv, NEW k \in DOMAIN Active, NEW items, Fit(items, Active[k]),
         NEW result \in {"progress", "found"}, Serve(k, items, result)
  PROVE  Inv'
<1>1. Queue(activeEntries', heldEntries', focusedEntries', heldDepth', estimateCost',
            entryOrder', nextSerial')
  BY ServeKeepsQueue
<1>2. /\ nextSerial' = nextSerial + Len(items) /\ focusTurn' = ~focusTurn /\ outcome' = result
      /\ heldDepth' = limit /\ UNCHANGED <<estimateCost, entryOrder, limit>>
  BY DEF Serve
<1>3. nextSerial' \in Nat /\ focusTurn' \in BOOLEAN /\ outcome' \in Outcomes
  <2>1. nextSerial \in Nat /\ focusTurn \in BOOLEAN /\ Len(items) \in Nat
    BY DEF Inv, Scalars, Fit
  <2>2. nextSerial' \in Nat
    BY <1>2, <2>1
  <2>3. focusTurn' \in BOOLEAN
    BY <1>2, <2>1
  <2> QED BY <1>2, <2>2, <2>3 DEF Outcomes
<1>4. Scalars'
  BY <1>2, <1>3 DEF Inv, Scalars
<1> QED BY <1>1, <1>2, <1>4 DEF Inv

LEMMA ServeServes ==
  ASSUME Inv, NEW k \in DOMAIN Active, NEW items, Fit(items, Active[k]),
         NEW result \in {"progress", "found"}, Serve(k, items, result)
  PROVE  F!Serve
<1> DEFINE served == Place(k, Active[k])
<1>1. /\ Filed(Active, estimateCost, nextSerial) /\ Filed(Held, estimateCost, nextSerial)
      /\ Apart(Active, Held)
      /\ Frontiers = Alternatives(Active) \cup Alternatives(Held)
  BY Restored DEF Queue, Frontiers
<1>2. /\ Filed(activeEntries', estimateCost', nextSerial')
      /\ Filed(heldEntries', estimateCost', nextSerial')
      /\ Apart(activeEntries', heldEntries')
      /\ DOMAIN activeEntries' = (DOMAIN Active \ {k}) \cup {SerialKey(items, i) : i \in DOMAIN items}
      /\ \A j \in DOMAIN Active \ {k} : activeEntries'[j] = Active[j]
      /\ \A i \in DOMAIN items : /\ activeEntries'[SerialKey(items, i)] = items[i]
                                /\ SerialKey(items, i).serial = nextSerial + i - 1
  BY ServeKeepsQueue DEF Queue
<1>3. /\ heldEntries' = Held /\ nextSerial' = nextSerial + Len(items)
      /\ outcome # "exhausted" /\ outcome' # "exhausted"
  BY DEF Serve, Selected
<1>4. \A map : Alternatives(map) = {Place(j, map[j]) : j \in DOMAIN map}
  BY AlternativesArePlaces
<1>5. Frontiers' = Alternatives(activeEntries') \cup Alternatives(Held)
  BY <1>3 DEF Frontiers, Alternatives
<1>6. /\ nextSerial \in Nat /\ Len(items) \in Nat
      /\ \A i \in DOMAIN items : /\ i \in Nat /\ i >= 1 /\ i <= Len(items)
                                /\ Fits(items[i], Active[k])
  BY DEF Inv, Scalars, Fit
<1>7. \A j, e : Place(j, e).serial = j.serial /\ Place(j, e).cost = e.cost.global
               /\ Place(j, e).path = Path(e)
  BY DEF Place
<1> HIDE DEF served
<1>8. served \in Frontiers
  BY <1>1, <1>4 DEF served
<1>9. k.serial \in Nat /\ k.serial < nextSerial
  BY <1>1 DEF Filed, Key
<1>10. Frontiers \ {served} \subseteq Frontiers'
  BY <1>1, <1>2, <1>4, <1>5 DEF served
<1>11. served \notin Frontiers'
  <2>1. ASSUME NEW j \in DOMAIN activeEntries'
        PROVE  j.serial # k.serial
    <3>1. CASE j \in DOMAIN Active \ {k}
      BY <1>1, <3>1 DEF Filed
    <3>2. CASE j \notin DOMAIN Active \ {k}
      BY <1>2, <1>6, <1>9, <3>2
    <3> QED BY <3>1, <3>2
  <2>2. \A j \in DOMAIN Held : j.serial # k.serial
    BY <1>1 DEF Apart
  <2> QED BY <1>4, <1>5, <1>7, <2>1, <2>2 DEF served
<1>12. ASSUME NEW a \in Frontiers' \ Frontiers
       PROVE  F!Follows(a, served) /\ nextSerial <= a.serial /\ a.serial < nextSerial'
  <2>1. PICK i \in DOMAIN items : a = Place(SerialKey(items, i), items[i])
    <3>1. a \notin Alternatives(Active) /\ a \notin Alternatives(Held)
      BY <1>1
    <3>2. PICK j \in DOMAIN activeEntries' : a = Place(j, activeEntries'[j])
      BY <1>4, <1>5, <3>1
    <3>3. j \notin DOMAIN Active \ {k}
      BY <1>2, <1>4, <3>1, <3>2
    <3> QED BY <1>2, <3>2, <3>3
  <2>2. a.serial = nextSerial + i - 1 /\ a.cost = items[i].cost.global /\ a.path = Path(items[i])
    BY <1>2, <1>7, <2>1
  <2>3. served.cost = Active[k].cost.global /\ served.path = Path(Active[k])
    BY <1>7 DEF served
  <2>4. items[i].cost.global > Active[k].cost.global /\ F!Continues(Path(items[i]), Path(Active[k]))
    BY <1>6 DEF Fits
  <2>5. F!Follows(a, served)
    BY <2>2, <2>3, <2>4 DEF F!Follows
  <2> QED BY <1>3, <1>6, <2>2, <2>5
<1>13. ASSUME NEW a \in Frontiers', NEW b \in Frontiers', a.serial = b.serial
       PROVE  a = b
  <2>1. \A j, l \in DOMAIN activeEntries' : j.serial = l.serial => j = l
    BY <1>2 DEF Filed
  <2>2. \A j, l \in DOMAIN Held : j.serial = l.serial => j = l
    BY <1>1 DEF Filed
  <2>3. \A j \in DOMAIN activeEntries', l \in DOMAIN Held : j.serial # l.serial
    BY <1>2, <1>3 DEF Apart
  <2>4. /\ Alternatives(activeEntries') = {Place(j, activeEntries'[j]) : j \in DOMAIN activeEntries'}
        /\ Alternatives(Held) = {Place(j, Held[j]) : j \in DOMAIN Held}
    BY <1>4
  <2>5. CASE a \in Alternatives(activeEntries') /\ b \in Alternatives(activeEntries')
    BY <1>7, <1>13, <2>1, <2>4, <2>5
  <2>6. CASE a \in Alternatives(Held) /\ b \in Alternatives(Held)
    BY <1>7, <1>13, <2>2, <2>4, <2>6
  <2>7. CASE a \in Alternatives(activeEntries') /\ b \in Alternatives(Held)
    BY <1>7, <1>13, <2>3, <2>4, <2>7
  <2>8. CASE a \in Alternatives(Held) /\ b \in Alternatives(activeEntries')
    BY <1>7, <1>13, <2>3, <2>4, <2>8
  <2> QED BY <1>5, <2>5, <2>6, <2>7, <2>8
<1>14. nextSerial' >= nextSerial
  BY <1>3, <1>6
<1> QED BY <1>3, <1>8, <1>10, <1>11, <1>12, <1>13, <1>14 DEF F!Serve, Frontiers

Promised == <<Frontiers, nextSerial, outcome = "exhausted">>

LEMMA Steps ==
  ASSUME Inv, [Next]_vars
  PROVE  Inv' /\ (F!Next \/ UNCHANGED Promised)
<1>1. CASE \E estimate \in Estimates : Prioritize(estimate)
  <2>1. UNCHANGED outcome
    BY <1>1 DEF Prioritize
  <2> QED BY <1>1, <2>1, PrioritizeKeeps DEF Same, Promised
<1>2. CASE \E order \in Orders : Localize(order)
  <2>1. UNCHANGED outcome
    BY <1>2 DEF Localize
  <2> QED BY <1>2, <2>1, LocalizeKeeps DEF Same, Promised
<1>3. CASE \E depth \in Limits : WithDepthLimit(depth)
  <2>1. UNCHANGED outcome
    BY <1>3 DEF WithDepthLimit
  <2> QED BY <1>3, <2>1, WithDepthLimitKeeps DEF Same, Promised
<1>4. CASE Exhaust
  BY <1>4, ExhaustKeeps DEF F!Next
<1>5. CASE DepthCensor
  <2>1. outcome # "exhausted" /\ outcome' # "exhausted"
    BY <1>5 DEF DepthCensor
  <2> QED BY <1>5, <2>1, DepthCensorKeeps DEF Same, Promised
<1>6. CASE Censor
  <2>1. outcome # "exhausted" /\ outcome' # "exhausted"
    BY <1>6 DEF Censor, Selected
  <2> QED BY <1>6, <2>1, CensorKeeps DEF Same, Promised
<1>7. CASE Interrupt
  <2>1. outcome # "exhausted" /\ outcome' # "exhausted"
    BY <1>7 DEF Interrupt, Selected
  <2> QED BY <1>7, <2>1, InterruptKeeps DEF Same, Promised
<1>8. CASE \E k \in DOMAIN Active : Park(k)
  <2>1. outcome # "exhausted" /\ outcome' # "exhausted"
    BY <1>8 DEF Park, Selected
  <2> QED BY <1>8, <2>1, ParkKeeps DEF Same, Promised
<1>9. CASE \E k \in DOMAIN Active : Serves(k)
  BY <1>9, AnswersFit, ServeKeeps, ServeServes DEF F!Next
<1>10. CASE UNCHANGED vars
  <2>1. Inv'
    BY <1>10 DEF vars, Inv, Scalars
  <2>2. UNCHANGED Promised
    BY <1>10 DEF vars, Promised, Frontiers, Alternatives
  <2> QED BY <2>1, <2>2
<1> QED BY <1>1, <1>2, <1>3, <1>4, <1>5, <1>6, <1>7, <1>8, <1>9, <1>10 DEF Next, Answered, Serves

\* The queue is well formed at every moment.
LEMMA QueueHolds == Spec => []Inv
<1>1. Init => Inv
  BY Begins
<1>2. Inv /\ [Next]_vars => Inv'
  BY Steps
<1> QED BY <1>1, <1>2, PTL DEF Spec

\* The variables keep their types (Agenda.hs: the fields of Agenda).
THEOREM AgendaTypeCorrect == Spec => []TypeOK
<1>1. Inv => TypeOK
  <2> SUFFICES ASSUME Inv PROVE TypeOK
    OBVIOUS
  <2>1. /\ Scalars /\ Filed(activeEntries, estimateCost, nextSerial)
        /\ Filed(heldEntries, estimateCost, nextSerial)
        /\ focusedEntries = Index(entryOrder, activeEntries)
    BY DEF Inv, Queue
  <2>2. IsMap(focusedEntries, FocusKeys, Key)
    BY <2>1, IndexTypes DEF Scalars
  <2>3. IsMap(activeEntries, Key, Entry) /\ IsMap(heldEntries, Key, Entry)
    BY <2>1 DEF Filed, IsMap
  <2> QED BY <2>1, <2>2, <2>3 DEF Scalars, TypeOK
<1> QED BY <1>1, QueueHolds, PTL

\* The two indexes, patched entry by entry in step, order the same work; no two
\* entries share a serial, and deeper entries are dearer (Agenda.hs: insert,
\* nextEntry, prioritize, localize).
THEOREM IndexesStayWhole == Spec => []IndexesServeAll
<1>1. Inv => IndexesServeAll
  <2> SUFFICES ASSUME Inv PROVE IndexesServeAll
    OBVIOUS
  <2>1. /\ Filed(activeEntries, estimateCost, nextSerial)
        /\ Filed(heldEntries, estimateCost, nextSerial)
        /\ Apart(activeEntries, heldEntries) /\ Dear(activeEntries) /\ Dear(heldEntries)
        /\ focusedEntries = Index(entryOrder, activeEntries)
    BY DEF Inv, Queue
  <2>2. OneEntryPerSerial
    <3>1. Serials(activeEntries) \cap Serials(heldEntries) = {}
      BY <2>1 DEF Serials, Apart
    <3> QED BY <2>1, <3>1 DEF Filed, OneEntryPerSerial
  <2>3. DeeperIsDearer
    BY <2>1 DEF Dear, DeeperIsDearer
  <2> QED BY <2>1, <2>2, <2>3 DEF IndexesServeAll, IndexesAgree
<1> QED BY <1>1, QueueHolds, PTL

\* Work is parked for the limit it exceeds, and a search that says its depth is
\* spent has nothing left to serve (Agenda.hs: stepWithDepth).
THEOREM ParkedIsTooDeep == Spec => []OnlyTooDeepIsParked
<1>1. Inv => OnlyTooDeepIsParked
  BY DEF Inv, Queue, TooDeep, OnlyTooDeepIsParked
<1> QED BY <1>1, QueueHolds, PTL

\* The agenda implements Frontier: whatever is parked, restored, reordered,
\* censored or interrupted, an alternative stays until it is served, is served
\* once, and exhausted means that nothing is left (Agenda.hs: stepWithDepth).
THEOREM AgendaLosesNothing == Spec => NothingLost
<1>1. Init => F!Init
  BY Begins
<1>2. Inv /\ [Next]_vars => [F!Next]_Promised
  BY Steps
<1> QED BY <1>1, <1>2, QueueHolds, PTL DEF Spec, NothingLost, F!Spec, Promised, Frontiers

-----------------------------------------------------------------------------
(* Scopes, when the queue is ordered before its first step only.           *)

ScopesOf(map) == {map[k].scope : k \in DOMAIN map}

InUse == ScopesOf(activeEntries) \cup ScopesOf(heldEntries)

\* Scopes are numbered by the serial of their checkpoint, and the root alone is
\* reordered.
ScopeInv ==
  /\ \A s \in InUse : s.number \in Nat /\ s.number < nextSerial
  /\ \A s, t \in InUse : s.number = t.number => s.progress = t.progress
  /\ outcome = "begun" => /\ \A j, k \in DOMAIN activeEntries : j = k
                          /\ DOMAIN heldEntries = {}

LEMMA RestoredScopes ==
  ASSUME Inv
  PROVE  ScopesOf(Active) \cup ScopesOf(Held) = InUse
<1>1. CASE ~Restores
  BY <1>1 DEF Restores, Active, Held, InUse
<1>2. CASE Restores
  <2>1. Active = Merge(activeEntries, heldEntries) /\ Held = Empty
    BY <1>2 DEF Active, Held
  <2>2. DOMAIN Held = {}
    BY <2>1 DEF Empty
  <2>3. \A j \in DOMAIN heldEntries : j \notin DOMAIN activeEntries
    BY DEF Inv, Queue, Apart
  <2>4. /\ DOMAIN Active = DOMAIN activeEntries \cup DOMAIN heldEntries
        /\ \A j \in DOMAIN activeEntries : Active[j] = activeEntries[j]
        /\ \A j \in DOMAIN heldEntries : Active[j] = heldEntries[j]
    BY <2>1, <2>3 DEF Merge
  <2> QED BY <2>2, <2>4 DEF ScopesOf, InUse
<1> QED BY <1>1, <1>2

\* A step after the first that brings no scope but those in use.
LEMMA ScopesStay ==
  ASSUME ScopeInv, nextSerial \in Nat, nextSerial' \in Nat, nextSerial' >= nextSerial,
         InUse' \subseteq InUse, outcome' # "begun"
  PROVE  ScopeInv'
BY DEF ScopeInv

LEMMA ServeScopes ==
  ASSUME Inv, ScopeInv, NEW k \in DOMAIN Active, NEW items, Fit(items, Active[k]),
         NEW result \in {"progress", "found"}, Serve(k, items, result)
  PROVE  ScopeInv'
<1>1. /\ DOMAIN activeEntries' = (DOMAIN Active \ {k}) \cup {SerialKey(items, i) : i \in DOMAIN items}
      /\ \A j \in DOMAIN Active \ {k} : activeEntries'[j] = Active[j]
      /\ \A i \in DOMAIN items : activeEntries'[SerialKey(items, i)] = items[i]
  BY ServeKeepsQueue
<1>2. /\ heldEntries' = Held /\ nextSerial' = nextSerial + Len(items) /\ outcome' = result
  BY DEF Serve
<1>3. /\ nextSerial \in Nat /\ Len(items) \in Nat
      /\ \A i \in DOMAIN items : i \in Nat /\ i >= 1 /\ i <= Len(items)
  BY DEF Inv, Scalars, Fit
<1>4. Active[k].scope \in InUse
  BY RestoredScopes DEF ScopesOf
<1>5. \A i \in DOMAIN items : items[i].scope \in InUse \/ (i = 1 /\ items[i].scope.number = nextSerial)
  BY <1>4 DEF Fit
<1>6. ASSUME NEW s \in InUse'
      PROVE  s \in InUse \/ (Len(items) >= 1 /\ s = items[1].scope /\ s.number = nextSerial)
  <2>1. CASE s \in ScopesOf(Held)
    BY <2>1, RestoredScopes
  <2>2. CASE s \notin ScopesOf(Held)
    <3>1. InUse' = ScopesOf(activeEntries') \cup ScopesOf(Held)
      BY <1>2 DEF InUse, ScopesOf
    <3>2. PICK j \in DOMAIN activeEntries' : s = activeEntries'[j].scope
      BY <2>2, <3>1 DEF ScopesOf
    <3>3. CASE j \in DOMAIN Active \ {k}
      BY <1>1, <3>2, <3>3, RestoredScopes DEF ScopesOf
    <3>4. CASE j \notin DOMAIN Active \ {k}
      BY <1>1, <1>3, <1>5, <3>2, <3>4
    <3> QED BY <3>3, <3>4
  <2> QED BY <2>1, <2>2
<1>7. \A s \in InUse : s.number \in Nat /\ s.number < nextSerial
  BY DEF ScopeInv
<1>8. \A s \in InUse' : s.number \in Nat /\ s.number < nextSerial'
  BY <1>2, <1>3, <1>6, <1>7
<1>9. \A s, t \in InUse' : s.number = t.number => s.progress = t.progress
  BY <1>3, <1>6, <1>7 DEF ScopeInv
<1>10. outcome' # "begun"
  BY <1>2
<1> QED BY <1>8, <1>9, <1>10 DEF ScopeInv

LEMMA ScopeSteps ==
  ASSUME Reorder = FALSE, Inv, ScopeInv, [Next]_vars
  PROVE  ScopeInv'
<1>1. nextSerial \in Nat
  BY DEF Inv, Scalars
<1>2. ASSUME NEW estimate \in Estimates, Prioritize(estimate)
      PROVE  ScopeInv'
  <2>1. /\ activeEntries' = Rekey(estimate, activeEntries)
        /\ heldEntries' = Rekey(estimate, heldEntries)
        /\ nextSerial' = nextSerial /\ outcome' = outcome /\ outcome = "begun"
    BY <1>2 DEF Prioritize, Reorders
  <2>2. estimate \in [States -> Nat] /\ Filed(activeEntries, estimateCost, nextSerial)
        /\ Filed(heldEntries, estimateCost, nextSerial)
    BY AgendaAssumption DEF Inv, Queue
  <2>3. /\ \A j \in DOMAIN activeEntries' : \E k \in DOMAIN activeEntries :
             j = KeyOf(estimate, activeEntries[k], k.serial) /\ activeEntries'[j] = activeEntries[k]
        /\ \A j \in DOMAIN heldEntries' : \E k \in DOMAIN heldEntries :
             j = KeyOf(estimate, heldEntries[k], k.serial) /\ heldEntries'[j] = heldEntries[k]
    BY <2>1, <2>2, RekeyFiled
  <2>4. InUse' \subseteq InUse
    BY <2>3 DEF InUse, ScopesOf
  <2>5. (\A j, k \in DOMAIN activeEntries' : j = k) /\ DOMAIN heldEntries' = {}
    BY <2>1, <2>3 DEF ScopeInv
  <2> QED BY <2>1, <2>4, <2>5 DEF ScopeInv
<1>3. ASSUME NEW order \in Orders, Localize(order)
      PROVE  ScopeInv'
  <2>1. /\ activeEntries' = Assign(order, activeEntries) /\ heldEntries' = Assign(order, heldEntries)
        /\ nextSerial' = nextSerial /\ outcome' = outcome /\ outcome = "begun"
    BY <1>3 DEF Localize, Reorders
  <2>2. DOMAIN activeEntries' = DOMAIN activeEntries /\ DOMAIN heldEntries' = DOMAIN heldEntries
    BY <2>1 DEF Assign
  <2>3. (\A j, k \in DOMAIN activeEntries' : j = k) /\ DOMAIN heldEntries' = {}
    BY <2>1, <2>2 DEF ScopeInv
  <2>4. \A s, t \in InUse' : s = t
    BY <2>3 DEF InUse, ScopesOf
  <2>5. \A s \in InUse' : s.number \in Nat /\ s.number < nextSerial'
    <3>1. ASSUME NEW k \in DOMAIN activeEntries
          PROVE  activeEntries'[k].scope.number = activeEntries[k].scope.number
      <4>1. activeEntries[k] \in Entry
        BY DEF Inv, Queue, Filed
      <4>2. activeEntries'[k]
              = [activeEntries[k] EXCEPT !.scope.progress = order[activeEntries[k].work.state]]
        BY <2>1 DEF Assign
      <4> QED BY <4>1, <4>2 DEF Entry, Scope
    <3>2. \A k \in DOMAIN activeEntries : activeEntries[k].scope \in InUse
      BY DEF InUse, ScopesOf
    <3> QED BY <2>1, <2>2, <2>3, <3>1, <3>2 DEF ScopeInv, InUse, ScopesOf
  <2> QED BY <2>3, <2>4, <2>5 DEF ScopeInv
<1>4. ASSUME NEW depth \in Limits, WithDepthLimit(depth)
      PROVE  ScopeInv'
  BY <1>4 DEF WithDepthLimit, queueVars, ScopeInv, InUse, ScopesOf
<1>5. CASE Exhaust
  <2>1. activeEntries' = Empty /\ heldEntries' = Empty /\ DOMAIN Empty = {}
        /\ outcome' = "exhausted"
    BY <1>5 DEF Exhaust, Empty
  <2>2. InUse' = {}
    BY <2>1 DEF InUse, ScopesOf
  <2> QED BY <2>1, <2>2 DEF ScopeInv
<1>6. CASE DepthCensor \/ Censor
  <2>1. /\ activeEntries' = Active /\ heldEntries' = Held /\ nextSerial' = nextSerial
        /\ outcome' # "begun"
    BY <1>6 DEF DepthCensor, Censor, KeepsQueue
  <2>2. InUse' = ScopesOf(Active) \cup ScopesOf(Held)
    BY <2>1 DEF InUse, ScopesOf
  <2> QED BY <1>1, <2>1, <2>2, RestoredScopes, ScopesStay
<1>7. CASE Interrupt
  <2>1. /\ activeEntries' = activeEntries /\ heldEntries' = heldEntries /\ nextSerial' = nextSerial
        /\ outcome' # "begun"
    BY <1>7 DEF Interrupt, queueVars
  <2>2. InUse' = InUse
    BY <2>1 DEF InUse, ScopesOf
  <2> QED BY <1>1, <2>1, <2>2, ScopesStay
<1>8. ASSUME NEW k \in DOMAIN Active, Park(k)
      PROVE  ScopeInv'
  <2>1. /\ activeEntries' = Without(Active, k) /\ heldEntries' = With(Held, k, Active[k])
        /\ nextSerial' = nextSerial /\ outcome' # "begun"
    BY <1>8 DEF Park
  <2>2. InUse' \subseteq ScopesOf(Active) \cup ScopesOf(Held)
    BY <2>1 DEF InUse, ScopesOf, Without, With
  <2> QED BY <1>1, <2>1, <2>2, RestoredScopes, ScopesStay
<1>9. ASSUME NEW k \in DOMAIN Active, Serves(k)
      PROVE  ScopeInv'
  BY <1>9, AnswersFit, ServeScopes
<1>10. CASE UNCHANGED vars
  BY <1>10 DEF vars, ScopeInv, InUse, ScopesOf
<1> QED BY <1>2, <1>3, <1>4, <1>5, <1>6, <1>7, <1>8, <1>9, <1>10 DEF Next, Answered, Serves

\* If localize is called before the first step only, the entries of a scope agree
\* on how many original entries are left (Agenda.hs: localize, Checkpoint).
THEOREM ScopesStayTogether == ASSUME Reorder = FALSE PROVE Spec => []ScopesAgree
<1>1. Init => ScopeInv
  <2> SUFFICES ASSUME Init PROVE ScopeInv
    OBVIOUS
  <2> DEFINE k0 == [priority |-> 0, serial |-> 0]
             e0(root) == [cost |-> [global |-> 0, local |-> 0],
                          scope |-> [progress |-> 0, number |-> 0],
                          work |-> [op |-> "inspect", state |-> root, ancestors |-> <<>>]]
  <2>1. PICK root \in States : activeEntries = [k \in {k0} |-> e0(root)]
    BY DEF Init
  <2>2. DOMAIN heldEntries = {} /\ nextSerial = 1
    BY DEF Init, Empty
  <2>3. e0(root).scope = [progress |-> 0, number |-> 0]
    OBVIOUS
  <2> HIDE DEF e0, k0
  <2>4. \A s \in InUse : s = [progress |-> 0, number |-> 0]
    BY <2>1, <2>2, <2>3 DEF InUse, ScopesOf
  <2> QED BY <2>1, <2>2, <2>4 DEF ScopeInv
<1>2. Inv /\ ScopeInv /\ [Next]_vars => ScopeInv'
  BY ScopeSteps
<1>3. ScopeInv => ScopesAgree
  BY DEF ScopeInv, InUse, ScopesOf, ScopesAgree
<1> QED BY <1>1, <1>2, <1>3, QueueHolds, PTL DEF Spec

=============================================================================
