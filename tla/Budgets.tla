-------------------------------- MODULE Budgets --------------------------------
(***************************************************************************)
(* The nested budgets of a run: resource_budget.py, verifier_budget.py.    *)
(*                                                                         *)
(* A scope opens with a meter of verifier requests and a ledger of input   *)
(* and output and of live temporary bytes, below the scopes that are open. *)
(* Work is charged to every open scope; a temporary area is leased from    *)
(* the scopes that are open when it is made.  Locks make one charge atomic *)
(* for a ledger.  Processor time and resident memory are sampled like the  *)
(* areas and left out.                                                     *)
(***************************************************************************)
EXTENDS Integers, FiniteSets, FiniteSetsExt

CONSTANTS
  Depth,       \* bound on the scopes
  Areas,       \* the temporary areas
  Allowances,  \* the allowances a scope may have
  MaxSize,     \* bound on the size of an area and on a charge of bytes
  MaxBytes,    \* bound on the bytes that are charged
  MaxDenied    \* bound on the denials of a meter

ASSUME BudgetsAssumption ==
  /\ {Depth, MaxSize, MaxBytes, MaxDenied} \subseteq Nat /\ IsFiniteSet(Areas)
  /\ Allowances \subseteq [calls : Nat, io : Nat, disk : Nat]

VARIABLES
  open,     \* the scopes that are open: 1..open
  meter,    \* of every scope: used, denied_calls
  ledger,   \* of every scope: io_bytes, _disk and exhaustion
  limits,   \* of every scope
  finished, \* of every scope: "no", or what finish returned
  leased,   \* of every area: how many scopes it is leased from, 0 when it is closed
  size,     \* of every area
  made,     \* of every scope: the requests that were made since it was opened
  over      \* the scopes that were exhausted at any time

budgetVars == <<open, meter, ledger, limits, finished, leased, size, made, over>>

Scopes == 1..Depth
Opened == 1..open
NoLedger == [io |-> 0, disk |-> [a \in Areas |-> 0], exhausted |-> FALSE]

BudgetsInit ==
  /\ open = 0 /\ limits \in [Scopes -> Allowances]
  /\ meter = [s \in Scopes |-> [used |-> 0, denied |-> 0]]
  /\ ledger = [s \in Scopes |-> NoLedger]
  /\ finished = [s \in Scopes |-> "no"]
  /\ leased = [a \in Areas |-> 0] /\ size = [a \in Areas |-> 0]
  /\ made = [s \in Scopes |-> 0] /\ over = {}

OpenScope ==
  /\ open < Depth /\ finished[open + 1] = "no" /\ open' = open + 1
  /\ UNCHANGED <<meter, ledger, limits, finished, leased, size, made>>

-----------------------------------------------------------------------------
(* Requests.                                                               *)

Spent(s) == meter[s].used >= limits[s].calls

\* Wrong: a meter is charged before the next is made.
ChargedOneByOne ==
  LET first == IF \E s \in Opened : Spent(s) THEN Min({s \in Opened : Spent(s)}) ELSE open + 1
  IN [s \in Scopes |-> IF s \notin Opened THEN meter[s]
                       ELSE IF s < first THEN [meter[s] EXCEPT !.used = @ + 1]
                       ELSE [meter[s] EXCEPT !.denied = @ + 1]]

\* charge_verifier_request: every meter is charged, or those from the first that
\* is used up note a denial.
ChargedMeters ==
  LET first == IF \E s \in Opened : Spent(s) THEN Min({s \in Opened : Spent(s)}) ELSE open + 1
  IN [s \in Scopes |-> IF s \notin Opened THEN meter[s]
                       ELSE IF first > open THEN [meter[s] EXCEPT !.used = @ + 1]
                       ELSE IF s >= first THEN [meter[s] EXCEPT !.denied = @ + 1]
                       ELSE meter[s]]

\* A request is made when no meter denies it.
Request ==
  /\ open > 0 /\ \A s \in Opened : meter[s].denied < MaxDenied
  /\ meter' = ChargedMeters
  /\ made' = [s \in Scopes |-> made[s] + (IF s \in Opened /\ ~\E t \in Opened : Spent(t) THEN 1 ELSE 0)]
  /\ UNCHANGED <<open, ledger, limits, finished, leased, size>>

-----------------------------------------------------------------------------
(* Bytes.                                                                  *)

Live(l) == MapThenSumSet(LAMBDA a : l.disk[a], Areas)

\* Wrong: what was exhausted once may recover.
Rechecked(s, l) == [l EXCEPT !.exhausted = l.io > limits[s].io \/ Live(l) > limits[s].disk]

\* _check: exhaustion is for good.
Checked(s, l) ==
  [l EXCEPT !.exhausted = @ \/ l.io > limits[s].io \/ Live(l) > limits[s].disk]

\* charge_io goes on to the other ledgers when one is exhausted.
ChargeIO ==
  /\ \E n \in 1..MaxSize :
       /\ open > 0 /\ ledger[1].io + n <= MaxBytes
       /\ ledger' = [s \in Scopes |-> IF s \in Opened THEN Checked(s, [ledger[s] EXCEPT !.io = @ + n]) ELSE ledger[s]]
  /\ UNCHANGED <<open, meter, limits, finished, leased, size, made>>

\* StorageLease.sample, in the scopes of the lease that are still open.
Sampled(areas) ==
  [s \in Scopes |-> IF s \notin Opened THEN ledger[s]
                    ELSE FoldSet(LAMBDA a, l : IF s <= leased[a] THEN Checked(s, [l EXCEPT !.disk[a] = size[a]]) ELSE l,
                                 ledger[s], areas)]

Lease(a) ==
  /\ open > 0 /\ leased[a] = 0 /\ size[a] = 0 /\ leased' = [leased EXCEPT ![a] = open]
  /\ UNCHANGED <<open, meter, ledger, limits, finished, size, made>>

\* The area changes without a word.
Change(a) ==
  /\ leased[a] > 0 /\ \E n \in 0..MaxSize : size' = [size EXCEPT ![a] = n]
  /\ UNCHANGED <<open, meter, ledger, limits, finished, leased, made>>

Sample(a) ==
  /\ leased[a] > 0 /\ ledger' = Sampled({a})
  /\ UNCHANGED <<open, meter, limits, finished, leased, size, made>>

\* StorageLease.close samples once more, keeps the exhaustion to itself and
\* releases the area.
CloseLease(a) ==
  /\ leased[a] > 0
  /\ ledger' = [s \in Scopes |-> [Sampled({a})[s] EXCEPT !.disk[a] = 0]]
  /\ leased' = [leased EXCEPT ![a] = 0] /\ size' = [size EXCEPT ![a] = 0]
  /\ UNCHANGED <<open, meter, limits, finished, made>>

\* finish: the areas leased from the scope are sampled in all their scopes, and
\* any exhaustion that shows there is the answer; then the scope lets go.
FinishScope ==
  LET own == {a \in Areas : leased[a] >= open}
      seen == Sampled(own)
      showing == {open} \cup {s \in Opened : own # {}}
  IN /\ open > 0 /\ open' = open - 1
     /\ finished' = [finished EXCEPT ![open] =
          IF \E s \in showing : seen[s].exhausted THEN "exhausted" ELSE "clean"]
     /\ ledger' = [seen EXCEPT ![open].disk = [a \in Areas |-> 0]]
     /\ UNCHANGED <<meter, limits, leased, size, made>>

BudgetSteps ==
  /\ \/ OpenScope \/ Request \/ ChargeIO \/ FinishScope
     \/ \E a \in Areas : Lease(a) \/ Change(a) \/ Sample(a) \/ CloseLease(a)
  /\ over' = over \cup {s \in Scopes : ledger'[s].exhausted}

BudgetsSpec == BudgetsInit /\ [][BudgetSteps]_budgetVars

-----------------------------------------------------------------------------
(* Properties.                                                             *)

\* What is done is charged to all scopes around it or, when one of them denies
\* it, to none; and no scope that was exhausted at any time finishes clean,
\* whatever was released since and wherever the exhaustion was kept quiet.
BudgetsHold ==
  \A s \in Scopes :
    /\ meter[s].used = made[s] /\ meter[s].used <= limits[s].calls
    /\ \A t \in Scopes : s < t => ledger[s].io >= ledger[t].io /\ meter[s].used >= meter[t].used
    /\ finished[s] = "clean" => s \notin over /\ ledger[s].io <= limits[s].io

================================================================================
