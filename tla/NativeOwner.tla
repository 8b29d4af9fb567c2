------------------------------ MODULE NativeOwner ------------------------------
(***************************************************************************)
(* The owner of the states in the native program: Session.hs.              *)
(*                                                                         *)
(* Every accepted check makes a branch below the one it was checked in.  A *)
(* caller names a branch by its epoch and number.  An evicted branch keeps *)
(* the recipe to replay it from an ancestor; a released one goes, and its  *)
(* released ancestors with it, when nothing below needs it.  When the      *)
(* files that were loaded have changed, the epoch ends with all branches.  *)
(* One session only: a handle of another is refused by its brand.          *)
(***************************************************************************)
EXTENDS Integers, FiniteSets

CONSTANTS
  MaxBranch,  \* bound on the numbers of the branches
  Actions     \* the issued actions an application is keyed by

ASSUME OwnerAssumption == MaxBranch \in Nat \ {0}

VARIABLES
  owner,  \* Owner: epoch, closed, next, branches, applications
  files,  \* the files of the session: "loaded" or "changed"
  job,    \* the request that has the lock, or its answer: pc, op, ref, with, answer, handles
  handed,   \* the handles that were given out and not released
  unsure  \* a request was cancelled, after which a caller cannot know what it did

ownerVars == <<owner, files, job, handed, unsure>>

RootBranch == [parent |-> 0, resident |-> TRUE, lease |-> "caller", children |-> 0, application |-> <<>>]
NoJob == [pc |-> "none"]
RootKey(e) == [epoch |-> e, branch |-> 0]

OwnerInit ==
  /\ owner = [epoch |-> 0, closed |-> FALSE, next |-> 1, branches |-> [n \in {0} |-> RootBranch], applications |-> {}]
  /\ files = "loaded" /\ job = NoJob /\ handed = {} /\ unsure = FALSE

Numbers(o) == DOMAIN o.branches
Parents(o, n) == o.branches[n].parent
Invalidated(o) == [o EXCEPT !.epoch = @ + 1, !.branches = <<>>, !.applications = {}]

\* lookupState.
Found(o, ref) ==
  /\ ~o.closed /\ ref.epoch = o.epoch /\ ref.branch \in Numbers(o)
  /\ o.branches[ref.branch].lease # "released" /\ o.branches[ref.branch].resident

-----------------------------------------------------------------------------
(* What the requests do with the owner.                                    *)

\* check, when Agda accepts: k new branches, the first below p and each other one
\* below the one before it.
Grown(o, p, k, application) ==
  LET new == o.next..(o.next + k - 1)
      made(n) == [parent |-> IF n = o.next THEN p ELSE n - 1, resident |-> TRUE, lease |-> "caller",
                  children |-> IF n = o.next + k - 1 THEN 0 ELSE 1, application |-> application]
      kept(n) == IF n = p /\ k > 0 THEN [o.branches[n] EXCEPT !.children = @ + 1] ELSE o.branches[n]
  IN [o EXCEPT !.next = @ + k,
               !.branches = [n \in Numbers(o) \cup new |-> IF n \in new THEN made(n) ELSE kept(n)]]

CheckedBelow(o, p, application) == Grown(o, p, 1, application)
Chained(o, p, k) == Grown(o, p, k, <<>>)

Given(o, n) == {[epoch |-> o.epoch, branch |-> n]}
Fresh(before, after) == UNION {Given(after, n) : n \in before.next..(after.next - 1)}

Outcome(o, answer, handles) == [owner |-> o, answer |-> answer, handles |-> handles]
Rejected == Outcome(owner, "rejected", {})

\* checkApplication: the child of the same application is given again while it
\* is resident.
Applied(p, a) ==
  LET hits == {x \in owner.applications : x.key = <<p, a>> /\ Found(owner, [epoch |-> owner.epoch, branch |-> x.child])}
      next == CheckedBelow(owner, p, <<p, a>>)
      kept == {x \in owner.applications : x.key # <<p, a>>}
  IN IF hits # {} THEN {Outcome(owner, "ok", Given(owner, x.child)) : x \in hits}
     ELSE {Rejected} \cup
       {Outcome([next EXCEPT !.applications = kept \cup {[key |-> <<p, a>>, child |-> n]}], "ok", Given(owner, n)) :
          n \in {owner.next} \cap 1..MaxBranch}

\* solveEvidence and the like check what they have found.
Solved(p) ==
  {Rejected} \cup {Outcome(CheckedBelow(owner, p, <<>>), "ok", Given(owner, n)) : n \in {owner.next} \cap 1..MaxBranch}

\* Above(o, n): n and what is above it, as far as the owner knows; the least set
\* that has n and is closed upwards.
Upward(o, S) == \A m \in S : Parents(o, m) \in Numbers(o) => Parents(o, m) \in S
Above(o, n) ==
  {m \in Numbers(o) : n \in Numbers(o) /\ \A S \in SUBSET Numbers(o) : n \in S /\ Upward(o, S) => m \in S}

\* exportGoals reconstructs k goals of p along the way to a descendant, by
\* checks below p that are their own; what a failed one made is not published.
Exported(p, descendant, k) ==
  LET next == Chained(owner, p, k)
      there ==
        /\ descendant.epoch = owner.epoch /\ descendant.branch \in Numbers(owner)
        /\ owner.branches[descendant.branch].lease # "released" /\ p \in Above(owner, descendant.branch)
  IN {Rejected} \cup IF there /\ next.next <= MaxBranch + 1 THEN {Outcome(next, "ok", Fresh(owner, next))} ELSE {}

\* The branches of S lose their states, and are not found by their applications.
Retired(o, S, lease) ==
  [o EXCEPT !.branches = [n \in Numbers(o) |->
              IF n \in S THEN [o.branches[n] EXCEPT !.resident = FALSE, !.application = <<>>, !.lease = lease]
              ELSE o.branches[n]],
            !.applications = {x \in @ : \A n \in S : x.key # o.branches[n].application}]

Evicted(n) ==
  IF n = 0 THEN {Rejected} ELSE {Outcome(Retired(owner, {n}, owner.branches[n].lease), "ok", {})}

\* The branches in gone are deleted, and are no longer counted by their parents.
Without(o, gone) ==
  [o EXCEPT !.branches = [m \in Numbers(o) \ gone |->
     [o.branches[m] EXCEPT !.children = @ - Cardinality({g \in gone : Parents(o, g) = m})]]]

\* n goes when nobody holds it and nothing is below it, and so does each above it
\* that nobody holds and that has only what goes below it.
Going(o, n) ==
  {m \in Above(o, n) \ {0} : \A x \in Above(o, n) :
     x >= m => o.branches[x].lease # "caller" /\ o.branches[x].children = IF x = n THEN 0 ELSE 1}

\* The failures of collectReleased: the counts or parents it meets are wrong.
Astray(o, n) ==
  \/ n \notin Numbers(o)
  \/ n # 0 /\ o.branches[n].lease # "caller" /\ o.branches[n].children < 0
  \/ \E g \in Going(o, n) : Parents(o, g) \notin Numbers(o) \/ o.branches[Parents(o, g)].children <= 0

\* Wrong: a branch goes though something below needs it.
CollectedAnyway(o, n) ==
  {Without(o, {m \in Above(o, n) \ {0} : \A x \in Above(o, n) : x >= m => o.branches[x].lease # "caller"})}

\* collectReleased, which has no outcome when it fails.
Collected(o, n) == IF Astray(o, n) THEN {} ELSE {Without(o, Going(o, n))}

\* release, whose lookup was that of the root.
Released(n) ==
  IF n \notin Numbers(owner) \ {0} \/ (n \in Numbers(owner) /\ owner.branches[n].lease = "released") THEN {Rejected}
  ELSE LET done == Collected(Retired(owner, {n}, "released"), n)
       IN IF done = {} THEN {Outcome(owner, "broken", {})} ELSE {Outcome(o, "ok", {}) : o \in done}

\* k of the missing steps below the nearest state are checked again, when Agda
\* rejects the next of them or none is left, and the last branch is given.  The
\* others lose their states, and go when nothing is below them.
Rerun(nearest, missing, k) ==
  LET rebuilt == Chained(owner, nearest, k)
      last == rebuilt.next - (IF k = missing THEN 2 ELSE 1)
      done == IF last < owner.next THEN {rebuilt} ELSE Collected(Retired(rebuilt, owner.next..last, "replay"), last)
      given == Given(owner, IF k = 0 THEN nearest ELSE rebuilt.next - 1)
  IN IF done = {} THEN {Outcome(owner, "broken", {})}
     ELSE IF k = missing THEN {Outcome(o, "ok", given) : o \in done}
     ELSE {Outcome(o, "rejected", {}) : o \in done}

\* replay checks again what is missing below the nearest resident ancestor.
Replayed(n) ==
  LET ancestors == {m \in Above(owner, n) : owner.branches[m].resident}
      nearest == CHOOSE m \in ancestors : \A other \in ancestors : other <= m
      missing == Cardinality({m \in Above(owner, n) : m > nearest})
  IN IF n \notin Numbers(owner) THEN {Rejected}
     ELSE IF owner.branches[n].lease = "released" \/ ancestors = {} THEN {Rejected}
     ELSE UNION {Rerun(nearest, missing, k) : k \in {i \in 0..missing : owner.next + i <= MaxBranch + 1}}

Outcomes(j) ==
  CASE j.op = "inspect" -> {Outcome(owner, "ok", {}), Rejected}
    [] j.op = "apply"   -> Applied(j.ref.branch, j.with)
    [] j.op = "solve"   -> Solved(j.ref.branch)
    [] j.op = "export"  -> Exported(j.ref.branch, j.with.descendant, j.with.goals)
    [] j.op = "evict"   -> Evicted(j.ref.branch)
    [] j.op = "release" -> Released(j.ref.branch)
    [] j.op = "replay"  -> Replayed(j.ref.branch)

-----------------------------------------------------------------------------
(* A request.                                                              *)

Answers(answer, handles) == job' = [pc |-> "answered", answer |-> answer, handles |-> handles, files |-> files]

\* release and replay look the root up, and find their branch under the lock.
Looked(op, ref) == IF op \in {"release", "replay"} THEN RootKey(ref.epoch) ELSE ref

Asks(op, ref, with) ==
  /\ job = NoJob
  /\ IF ~Found(owner, Looked(op, ref)) THEN Answers("unknown", {}) /\ owner' = owner
     ELSE IF files # "loaded" THEN Answers("stale", {}) /\ owner' = Invalidated(owner)
     ELSE job' = [pc |-> "running", op |-> op, ref |-> ref, with |-> with] /\ owner' = owner
  /\ UNCHANGED <<files, handed, unsure>>

HandedAfter(op, ref, handles) == IF op = "release" THEN handed \ {ref} ELSE handed \cup handles

\* The files are looked at again, and the owner is put back.
ConcludesRequest ==
  /\ job.pc = "running"
  /\ IF files # "loaded"
     THEN owner' = Invalidated(owner) /\ Answers("stale", {}) /\ handed' = handed
     ELSE \E x \in Outcomes(job) :
            /\ owner' = x.owner /\ Answers(x.answer, x.handles)
            /\ handed' = IF x.answer = "ok" THEN HandedAfter(job.op, job.ref, x.handles) ELSE handed
  /\ UNCHANGED <<files, unsure>>

\* ThreadKilled arrives: modifyMVar puts the owner back as it was, or has just
\* put the new one.
IsCancelled ==
  /\ job.pc = "running"
  /\ owner' \in {owner} \cup (IF files = "loaded" THEN {x.owner : x \in Outcomes(job)} ELSE {Invalidated(owner)})
  /\ Answers("cancelled", {})
  /\ handed' = IF job.op = "release" THEN handed \ {job.ref} ELSE handed
  /\ unsure' = TRUE /\ UNCHANGED files

\* Somebody edits the files, or puts them back.
FilesChange == files' \in {"loaded", "changed"} \ {files} /\ UNCHANGED <<owner, job, handed, unsure>>

ClosesSession ==
  /\ job.pc # "running" /\ ~owner.closed
  /\ owner' = [Invalidated(owner) EXCEPT !.closed = TRUE] /\ UNCHANGED <<files, job, handed, unsure>>

-----------------------------------------------------------------------------
(* Properties.                                                             *)

\* A handle that was given out and not released stays good through the eviction,
\* release, replay and export of others: its recipe leads up to the root, with a
\* state on the way.  The counts are right and nothing stays that neither a
\* caller holds nor something below needs, unless a cancelled request left it.
\* An application leads to a resident child, and nothing succeeds while the
\* files differ from what was loaded.
HandlesStayGood ==
  LET alive == Numbers(owner)
      current == {h.branch : h \in {h \in handed : h.epoch = owner.epoch}}
  IN /\ \A n \in IF owner.closed THEN {} ELSE current :
          /\ 0 \in Above(owner, n) /\ owner.branches[n].lease = "caller"
          /\ \E m \in Above(owner, n) : owner.branches[m].resident
     /\ \A n \in alive : owner.branches[n].children = Cardinality({m \in alive \ {0} : Parents(owner, m) = n})
     /\ \A n \in alive \ {0} :
          IF owner.branches[n].lease = "caller" THEN n \in current \/ unsure ELSE owner.branches[n].children > 0
     /\ \A x \in owner.applications :
          /\ x.child \in alive /\ owner.branches[x.child].resident
          /\ Parents(owner, x.child) = x.key[1] /\ owner.branches[x.child].application = x.key
     /\ job.pc = "answered" => job.answer # "broken" /\ (job.answer = "ok" => job.files = "loaded")

================================================================================
