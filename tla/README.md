# A verification project for agda-prover

agda-prover searches for proofs of open goals in an Agda file.  A Python
program drives Agda through its JSON interaction protocol, a native Haskell
program (linked against Agda) runs the same kind of search inside one process,
and editors drive either.  Everything the search believes comes from verdicts
of a process that can be killed, restarted, exhausted or moved to another state
between two questions.  This project models the parts of the program that keep
those beliefs true.

## 1. Inventory

| part | source (below `src/src/agdaprover` unless noted) | state | operations | what is hard | what must hold |
|---|---|---|---|---|---|
| kernel session | `bridge/session.py` | project, overlay, token table, active-state marker, cached read | open, reset, load, inspect, observe, try, commit, auto, cancel, close | partial failure between commands, restarts, source edits, cancellation | a verdict is about the state it was asked for; stale tokens stay stale |
| Agda transport | `bridge/transport.py` | child process, generation, buffer, closed flag | open, command, cancel, poison, close | every failure point of a command, silent respawn | after a failure the process is either unchanged, gone, or known to have moved |
| supervision | `bridge/resources.py` | owners, CPU baselines, last sample | sample, check, release, terminate tree | a process that disappears while it is measured | limits are enforced, work is never un-charged |
| resource ledger | `resource_budget.py`, `budget.py` | totals, live owners, sticky exhaustion | sample, charge, release, nested scopes, leases | nesting, release after exhaustion, threads | exhaustion is sticky and reaches every enclosing scope |
| verifier budget | `verifier_budget.py` | stack of meters | charge, scope open/close | an inner meter that is exhausted before an outer one | all meters are charged or none |
| source overlay | `bridge/overlay.py`, `bridge/workspace.py` | private copy of the sources | materialise, reuse root, publish, clean up | failure in the middle of publication | the old epoch stays usable until the new one is complete |
| native agenda | `src/native/symbolic-core/core/.../Agenda.hs` | two indexes over one queue, held entries, costs, serials | start, prioritize, localize, step | alternation of two orders, depth limits that change | nothing is lost, nothing starves, Exhausted means empty |
| native session protocol | `src/native/symbolic-core/app/SessionProtocol.hs`, `RunControl.hs` | one active worker, run table with revisions | requests, cancel, close, start/advance/discard | cancellation racing completion, stale keys | one result per request, a revision is consumed once |
| native session owner | `.../Agda28/Session.hs` | epoch, branches, retained applications | check, apply, export, evict, release, replay, close | inputs that change while an action runs, asynchronous kill, releases in any order | a handle keeps its recipe; results of an old epoch are never handed out |
| native search | `.../AgendaSearch.hs`, `AgendaExecution.hs`, `SearchTask.hs`, `EvidenceSearch.hs` | run, allowances, resumable tasks | advance, pause, resume | allowances spent in the middle of a task | a paused search resumes where it stopped |
| interactive run | `interactive.py`, `interactive_worker.py`, `principal_variation.py` | run state, paused groups, result and variation files | pause, resume, stop, accept | signals racing the worker's exit | a stopped run has no live process, an accepted goal was validated |
| constructor search | `constructor_search.py` | a stack of suspended generators, counters, marks, scoped pools | solve a goal, its lanes, resume | laziness: a generator resumes in a world that went on | states thread through siblings, allowances hold, results are whole |
| premise retrieval | `retrieval.py`, `premise_search.py` | index, pools, positions of widening lanes | update, retrieve, admit, widen | an index made from the previous one, pools pushed out while a lane is suspended | the index is fresh, rankings are prefix-stable, a lane stays in its scope |
| single-goal search | `search.py`, `focused.py`, `impossibility.py`, `guided.py` | memo, decisions, stage, chosen and credited policy choices | prove, focused search, refutation, guided search | memo entries used on other paths, rejected solutions, errors | proofs prove, refutations refute, credit is due |
| case search | `case_search.py` | source, end of the region, edits, lanes tried | levels, visits, lanes, commit | edits that move one another, a shared session | edits are positions in the loaded source |
| joint search | `joint.py` | frontier, deferred fallbacks, one narrow state, seen digests | take, load, validate, specialists | what was cut, deferred or narrowed and is never tried again | an answer is what it says |
| Python search agenda | `search_frontier.py`, `graph_search.py`, `reasoning/` | queues, frontiers | push, pop, batch | ordering, exhaustion | reference definitions |
| native client | `bridge/symbolic.py`, `bridge/agenda.py`, `bridge/source_export.py`, `application/native.py` | overlay, connection, exports, the result so far | prepare, search, preview, export and release, validate, finish | inputs that change between two looks, an error at any point | a result claims what was checked |
| candidate generation, policies, parsing, validation, CLI, editors | the remaining files | none or files | | | Agda's own check of every candidate |

How they interact: search controllers hold *tokens* of the kernel session and
ask it for verdicts; the session issues commands over the transport; the
transport samples the supervisor, which publishes to the resource ledgers of
the enclosing scopes and to the verifier meters; a cancelled or exhausted scope
surfaces as an exception out of any of these calls.  The native program has the
same structure in one process: protocol, session owner, agenda.

`PROJECT.json` lists every component with its status, and every hazard at the
line where it bites.

## 2. How the project is built

| family | modules | composition |
|---|---|---|
| kernel session | `KernelSession`, proofs in `KernelSessionProofs` | session and transport in one module, faults as a constant |
| native program | `Frontier`, `Agenda` (proofs in `AgendaProofs`); `RunControl`, `SessionProtocol` (proofs in `SessionProtocolProofs`) | `Agenda` implements `Frontier`; the protocol extends the run table |
| structural search | `SearchContract`, `ConstructorSearch` (proofs in `ConstructorSearchProofs`); `PremiseIndex`, `PremiseRetrieval`; `FocusedTypes`, `FocusedSearch` (proofs in `FocusedProofs`), `SingleGoal`; what they are checked against in `FocusedTerms`, `FocusedTruth`, `Refutation` | `StructuralSearch` (proofs of it, of the premises and of `SingleGoal` in `StructuralSearchProofs`), with the recursive references `StructuralTruth` |
| prover | `CaseSearch`, `JointSearch` (proofs of both in `JointSearchProofs`); `NativeOwner`, `NativeRun`; `InteractiveRun`, `Budgets` | `Prover` (proofs of it and of these four in `ProverProofs`) |

`MC*` modules give the constants small values.  Each family has its passing runs
and, where the code does not do what it says, a run that is expected to find the
violation (section 9).

Next in the plan: an abstract store of immutable states that `KernelSession`
implements under contained faults; the pure
algorithms of the Python search agenda (bounded shortest paths) and
`dependentFirst` against reference definitions;
publication of the overlay; the owner of the native session at the other end of
`SessionProtocol` with its run table.  Theorems worth having next: that a failure the
focused search remembers is one where no cycle was met (`FailuresAreReal`), and that a
refutation refutes; both are against references that are defined by recursion over
types, so their proofs would first have to construct these as functions.

## 3. The kernel session (`KernelSession.tla`)

Agda's protocol has no snapshots.  The session promises immutable proof states
all the same: a token stands for a source revision and a lineage of accepted
actions, and when the process holds something else the session reloads the
module and replays the lineage.  `_active_state` is its belief about what the
process holds.  The model keeps the belief (`active`) and the truth (`content`)
side by side.

| model | code |
|---|---|
| `project`, `overlay` | `_project`, `_runtime_sources` (`reset_project` installs them at different moments) |
| `intact` | whether the files on disk still have the hashes of the project |
| `up`, `gen`, `content` | the child process, `process_generation`, what Agda's current file and state stand for |
| `tclosed` | `AgdaJsonTransport._closed` |
| `halted` | cancellation, the deadline of the budget, or a sticky quota: once set, no command succeeds |
| `states`, `seq`, `active`, `lastRead` | `_states`, `_state_sequence`, `_active_state`, `_last_scoped_read` |
| `issued` | the tokens a client may still hold, stale ones included |
| `pc`, `call`, `pos`, `undo`, `pending` | the call in progress: the command it issues next and what its frame remembers |
| `reply` | the last completed verdict, with `at`, what the process held when it was computed |

A call is a sequence of transport commands and each command is one action.
Between two commands the process may exit, the deadline may pass, another
thread may cancel, a file may change.  A command has four outcomes: `Answered`,
`Refused` (raised before the write, the process unchanged or freshly
respawned), `Lost` (raised later and poisoned: the process is terminated) and
`Late` (raised by the resource check after the answer, *not* poisoned).
`Fails` is the disjunction of the failing ones, each enabled by a member of the
constant `Faults`; when `halted`, they are the only outcomes.

Kinds of calls: `load` (load_module and load_search_module), `check`
(check-term, transactional refine), `observe` (infer, normalize, make_clause:
they clear the marker before the command), `look` (goal views and scoped
retrieval: they do not), `trial` (give or refine without commit), `give` and
`check-give` (with commit, inspected or not), `auto`.

Abstractions: an action is an element of `Acts`; whether Agda accepts it is a
free choice wherever the process has the file loaded, and rejection wherever it
has not; what a rejected give leaves in Agda is the element `Residue` appended
to the lineage, so that a state it touched equals no token's.  Token hashes are
the token itself.  An exception is the absence of a reply.

### Runs

| run | faults | bounds | checks |
|---|---|---|---|
| `session` | contained; reuse of scoped reads on | two projects, one module, one action, 3 states, 4 tokens, 2 process starts | `VerdictsFaithful`, `MarkerFaithful` |
| `session_faults` | all | one project, 2 states, 4 tokens | `OneStatePerSequence`, `StaleForever`, `RollbackRestoresOrPoisons`; `CallsReturn`, under fairness |
| `session_leaks` | a refused command, the state limit, an exit inside a call | one project, two actions, 4 states, 7 tokens | `VerdictsFaithful` fails |

*Contained* faults are those after which the code leaves belief and truth
together: a lost command, a refusal before anything was written, a process that
exits between calls, a rejected replay.  The bounds let a lineage reach two
actions, both commit paths run, a reset go to the other project and back, and
the process be replaced once; every hazard listed needs no more than two tokens
and one replacement.  `MaxSequence` also bounds how many unregistered gives may
pile up in Agda's state.

`CHECK_DEADLOCK FALSE` because a closed session really is at its end.

Fairness: `FairSpec` assumes weak fairness of `CallStep`, the steps of the call
in progress.  The code justifies it: each command polls its deadline
(`_read_until_prompt`, `ResourceSupervisor._check_controls`), so it is answered
or raises.  Nothing is assumed of clients or of the environment.

### What the violation run shows

The session's class comment states the promise ("treats the source revision
plus an accepted action lineage as the snapshot").  Three paths break it.  Any of the three faults
of `session_leaks` is enough alone; TLC reports the shortest path, and a copy of
the configuration with one fault in `Faults` shows each of the others:

* refusal: `_activate` keeps the old marker while it reloads.  A
  command refused before its write (the verifier quota of an inner scope) in
  the middle of a replay leaves the process half way; the next call on the old
  token skips the reload.
* state limit: `_load_module` has reloaded the process when
  `_register_state` refuses the new state; the old marker survives.
* exit in a call: the process exits between a give and its inspection;
  `command()` starts a new one that has no file, `inspect_goals` skips the
  errors, and `_replace_state` stamps the state with the new generation.

The fault `late` has no run of its own but breaks the same property: the last
`supervisor.check` of `command()` raises a `BridgeError` after Agda accepted a
give, nothing is poisoned, and the parent is still marked active.

Each needs an exception at one particular point and a client that goes on using
the session afterwards; the controllers in the repository often close it.

## 4. The native agenda (`Agenda.tla`, `Frontier.tla`)

`AgdaProver.Symbolic.Agenda` is the scheduler of the native search: one queue of
alternatives (`activeEntries`) under two orders, and the work a depth limit has
parked (`heldEntries`).  The model has one variable per field of the record
`Agenda`, plus `limit`, the `depthLimit` of the run's settings, and `outcome`,
what the last step returned.  A step is one action, as in the code, where the
queue is an immutable value that a hook which throws cannot damage:

| model | code |
|---|---|
| `Init`, `Prioritize`, `Localize` | `start`, `prioritize`, `localize` |
| `WithDepthLimit` | `withDepthLimit` of `AgendaSearch.hs`, between two slices of a run |
| `Active`, `Held`, `Focused` | `original`: a changed limit restores the parked work |
| `Selected`, `FocusedWithout` | `nextEntry` and `remaining` |
| `Exhaust`, `DepthCensor`, `Censor`, `Interrupt` | the outcomes that serve nothing |
| `Park` | `DepthDeferred` |
| `Expand`, `Propose`, `Drop`, `Defer`, `Continue` | the answers of `inspect`, `apply` and `resume` |

The hooks are external: they give any answer.  `sameState` is equality of
states; proof states, actions and continuations are abstracted to the state.

`Frontier` says what the agenda promises in any order: an alternative stays
until it is served, serving one adds only costlier alternatives of the same
branch, no branch revisits a state, numbers are never reused, and the search is
exhausted only when nothing is left.  `NothingLost` is the refinement, under
which parking, restoring, reordering, censoring and interruption are stutters.

| run | bounds | checks |
|---|---|---|
| `agenda` | 3 states, 2 estimates, limits none/0/1, 2 proposals, 4 entries, reordering at any time | `IndexesServeAll` (`IndexesAgree`, `OneEntryPerSerial`, `DeeperIsDearer`), `OnlyTooDeepIsParked`, `NothingLost` |
| `agenda_turns` | limit 1, 5 entries, ordered once | `ScopesAgree`; `EveryEntryGetsATurn`, under fairness |

The exported functions allow reordering at any time, and `agenda` explores it;
the driver (`AgendaSearch.hs:83-98`) orders a queue once, before its first step,
and `ScopesAgree` is about that use: `localize` gives every entry the progress of
its own state, so applied later it would split a scope.  Four entries are enough
for an entry to be parked while a sibling of it is active and a limit is raised
and lowered; five for a checkpoint whose scope has two entries beside an older one.

Fairness: `advance` steps until its slice is spent and the owner then starts
another, with its allowances raised; so `Answered` is weakly fair, while
`Censor`, `Interrupt` and the changes of the limit are not.  `EveryEntryGetsATurn`
is checked for finitely many entries (`MaxSerial`), so what it shows is that an
entry never drops out of both orders and that work beyond the limit does not
keep the search busy.  That an unbounded stream of new entries cannot starve an
old one rests on the costs: `DeeperIsDearer` bounds the depth below each cost.

`CHECK_DEADLOCK FALSE` because an exhausted run is at its end.

## 5. The native session protocol (`SessionProtocol.tla`, `RunControl.tla`)

The resident program has one thread that reads requests and at most one worker.
`RunControl` is the table of retained searches, which `SessionProtocol` extends
with the two kinds of threads:

| model | code |
|---|---|
| `reader` | where `serve`'s loop is: reading, in `throwTo`, in `readMVar done`, in its finalizer |
| `active`, `latest` | the `active` and `serial` variables of `serve` |
| `workers[n]` | the worker of request `n`: `perform`, `search` (inside `G.advance`), `return` (the answer is there, `unmask` has not ended), `report` and `finish` (masked), `done` |
| `results`, `controls` | the `operation-result` and `control-result` events published |
| `entries`, `serial` | the table of `RunControl`: the revision of each run, the number of the next |
| `owner` | whether the native session is open, of another epoch (`stale`), or closed |

The reader holds the variable `active` from its test until the worker is forked,
so `Launch` is one action; `Publish` is one because the result is published with
`active` taken.  `throwTo` is two steps of the reader, with the delivery a step of
the worker: while it performs, or, with the fault `blocked-output`, while it is
masked but blocked.  `modifyMVar` restores what it guards, so an exception before
`Commit` leaves the table alone.  `ThreadKilled` inside a request of the native
session is caught there and pauses the search (`KilledInSession`).  Rejected
frames change nothing; ids are numbered by the requests accepted.

| run | faults | bounds | checks |
|---|---|---|---|
| `protocol` | adapter failure, stale inputs, broken output | all operations, 3 requests, 2 runs | `ActiveAccounts` (`ActiveIsTheWorker`, `ResultMeansRetired`, `EndedMeansIdle`), `CancelledIsOver`, `EveryStartHasItsResult`, `ConsumedOnce`, `RunsStayReachable` |
| `protocol_returns` | all | 3 requests | `ReaderReturns`, under fairness |
| `protocol_late_kill` | late kill | 4 requests | `CancelKeepsTheKey` fails |

Three requests are a worker, the one launched while it finishes, and a control
request to hit either, or a run that is started, advanced and cancelled or
advanced again.

Fairness: weak, for the reader's obligations and for each worker's delivery of
exceptions and masked end.  Nothing is assumed of `perform`, which may run for
ever; a search is made of many short requests, between which it is interruptible.

What the violation run shows: the table is updated inside
`unmask`, so `ThreadKilled` can still replace the answer that carries the new key
by a bare cancellation; the client's key is stale and the run out of its reach.
(The same holds of `start-search`, whose first key is lost.)  The
fault `overflow` has no run of its own: the worker's handlers rethrow every other
`AsyncException`, so a stack overflow ends a request without a result
(`EveryStartHasItsResult` fails) and leaves the session open, where the schema
(`schemas/symbolic-session-v1.md:122-130`) promises a result and a closed owner.

`CHECK_DEADLOCK FALSE` because `serve` ends.

## 6. Structural search (`StructuralSearch.tla`)

Three searches run in one thread: the constructor search, the retrieval of the
premises it reads, and the prover for one goal, which calls it.
`ConstructorSearch` takes whatever a ranking may offer and `SingleGoal` whatever
a search may answer, so interleaving them would only multiply their states.
`StructuralSearch` is their sum: a behaviour is about one search (`Searches`,
`SearchTroubles`), or about the premises of one request in every order
(`ReadsPremises`), or about one task of the prover (`Proves`, `ProverTroubles`).

### The constructor search (`ConstructorSearch.tla`)

`_solve_goal` is a Python generator: it yields a solution, stays suspended while
the search builds on it, and is resumed when that fails.  The generators alive
form a stack, and the newest one runs.

| model | code |
|---|---|
| `stack`, an `Activation` each | the suspended `_solve_goal` and `_solve_children` frames |
| `lane` of an activation, `Route` | which lane it is in; the order depends on the shape of the goal |
| `offer`, `Rise`, `Drop`, `Keep` | a solution on its way up, the root filter of `solve` |
| `spent`, `queries`, `saw`, `late` | `actions_considered`, the premise queries, `saw_exhaustion`, the deadline |
| `calling`, `subjects` | `_constructing_copattern_arguments`, the values being eliminated |
| one action per lane | the lane's guard, its charges and what it may yield |

Agda decides which gives and refinements are accepted; a goal is its sequent, a
plan its size and whether it calls the recursive definition.  What a lane finds
is a choice of the request (`found`), because two dozen lanes together have too
many behaviours: `SmallRequests` runs every lane beside a refinement and the
lanes that feed one another.

`KeepsContract` is a refinement: the search implements `SearchContract`, what its
callers read in `ConstructorResult` (starts nothing that is charged without an
action left, keeps what it found, answers once, solved exactly when something was
found).  The focused searches are charged whole when they return (`Room`,
`_record_focused`), the terms they propose are not; the calls of a goal are generated
once, before the first is tried, and charged together (`GenerateCalls`,
`_record_recursive`).  So `spent` stays within `Spendable`, which is the budget only
for a request whose recursive calls may not be wrapped: otherwise one generation may
report up to 48 actions more than it was granted (`WrapSlice`), because the search
for wrapped subjects is granted what the inferences of that goal used already
(`recursive_calls.py:525`).  It happens at most once, since nothing that is charged
is started without an action left.

Bounds: depth 2, at most 5 actions, 2 proposals of a lane, refinements with up to
2 goals, slices of 1 and 2 instead of dozens (`ShallowSlice` for 16, `FocusedSlice`
for 64, `WrapSlice` for 48); requests whose calls are wrapped are among them, and
reach the end of what `Spendable` allows.  They let an activation be resumed
after a sibling's failure, a depth limit cut a branch and each slice run out.

### Premises (`PremiseIndex.tla`, `PremiseRetrieval.tla`)

| model | code |
|---|---|
| `index`, `Updated` | `SymbolicPremiseIndex`, made from the one before it |
| `Fresh` | the same constructor without a predecessor |
| `RawRanking`, `Retrieved` | `retrieve`, `_retrieve_query_views` |
| `pools`, `Pools`, `Kept` | `_scoped_actions` and its eviction |
| `widening`, `StartsWidening`, `Widen`, `StopsWidening` | `_solve_with_progressive_premises` suspended between two widths |

Names are numbers whose order stands for the order of aliases and identities.
Rarity is an integer that is larger for a rarer symbol (the premises that do without
it are counted); the logarithm and the normalisation by length are left out, since the properties compare rankings of
the same query and index only.  The widths are 1 and 3 instead of the code's, two
pools are kept instead of 64, and the scope changes between goals in every way
the reuse of rows depends on: a member comes or goes, its type changes, only its
alias or only its references change, the graph is missing, the module is another.

### The prover for one goal (`FocusedSearch.tla`, `Refutation.tla`, `SingleGoal.tla`)

| model | code |
|---|---|
| `calls`, `returned` | the frames of `_solve` under `_drive` |
| `memo`, `decided`, `cycles`, `pruned` | the fields of `_Search` and its stats |
| `...One`, `...Many` | `_Search._solve`, `_EnumerationSearch._solve` |
| `PositiveValue`, `RefuteValue`, `Checks` | `compile_refutation`; Agda's check of its term |
| `Guide`, `GuidedPop`, ... | `guided_prove`, over a graph of texts (`region`) |
| `stage`, and one action per stage | `prove` |
| `chosen`, `credited`, `labelled`, `checked` | the policy choices and decisions, and what a fresh process has checked |

Types are arrows and atoms, as in `TypeExpr`, already parsed.  The answers of the
case and constructor searches, of the enumeration and of the validation are
choices of the task, and so are the errors.  The frames of the focused search
have no choices but the order of scored actions: run on the problems of `MCGoalTasks.tla`, the Python program gives the same
outcomes, actions considered, cycles and depth-pruned branches as the model.

The reference definitions do not use the search.  `HasType` (`FocusedTerms.tla`) is
the typing of terms, as a function on storeys: a term above its arguments.  It is
not recursive, so that it can be proved about; `Types` is a set that is closed under
domains and rests, and TLC computes it for the small problems.  `NormalTerms`
(`FocusedTruth.tla`), all normal terms up to depth `Bound` = 6, which is deeper than
the problems' shortest proofs, and the evaluation of formulas (`Refutation.tla`) are
recursive operators, and only `StructuralTruth`, which the runs use, reaches them:
`TypeSize` and `Refutations`, which the search takes as constants, are bound in the
configurations to the recursive `Size` and `Refuting`.  `FailuresAreReal` is limited to
searches that met no cycle; the run `focused_cycle` shows why.  The refutations
use at most two atoms (`AssignmentBudget` = 4 valuations).

| run | checks |
|---|---|
| `structural_search` | constructor search: `ResultsAreWhole`, `StackHolds`, `KeepsContract`; premises: `IndexIsFresh`, `RetrievalIsPrefixStable`, `WideningKeepsItsPool`; one goal: `ProofsAreProofs`, `FailuresAreReal`, `LabelsAreTheProofs`, `RefutationsRefute`, `CreditIsDue`, `UnsolvedIsEarned`; all: `SearchesEnd`, under fairness |
| `focused_cycle` | `NoProofMeansNone` fails |

Fairness: weak, for `Searches \/ Proves`: one Python thread runs on.  Nothing is
assumed of errors and deadlines.  `SearchesEnd` is not obvious for the constructor
search, which makes some calls to Agda without charging for them; cycles, depth
and allowance bound it all the same.

`CHECK_DEADLOCK FALSE` because a search ends.

## 7. The prover (`Prover.tla`)

| model | code |
|---|---|
| `CaseSearch` | `batched_case_prove`: levels, visits, 38 lanes in their order, edits made together |
| `JointSearch` (extends it) | `prove_joint_prefix`: frontier, deferred fallbacks, narrow and widened allowances, specialists |
| `InteractiveRun` | `interactive.py`, `interactive_worker.py`, `principal_variation.py` |
| `Budgets` | `resource_budget.py`, `verifier_budget.py` |
| `SearchSteps`, `SearchTroubles` | the worker's search, which publishes a variation where the code does |
| `Controls`, `Around` | a step of the controller; Agda, the editor, the operator, the worker's start and end |
| `Charges` | the budgets, whose behaviours are those of a worker without a search |
| `NativeOwner` | `Session.hs`: branches, epochs, reuse, eviction, release, replay |
| `NativeRun` (extends it) | `NativeProofEngine._run` with `search_agenda`, `search_evidence` and one `SymbolicConnection` |
| `Engages` | a worker that runs the native engine instead, or another client of the native session |

In the case search a source is the sequence of what the search tells apart in it
(holes, closed clauses, text that only reads as a hole), and Agda's answers are
choices; a lane has the guard, the charge and the order of the code, and `facts`
says what an earlier lane has found for a later one.  A nested constructor search
reports what `Spendable` allows: calls are wrapped (`MayWrap`) for a leaf two levels
below the split they recurse on, in the lanes "calls", "construction" and
"selection".  The recursive programs of `program_specs` (`case_search.py:573`) are not
wrapped, and the copattern's leaf gets no recursive call (`:1944`), so their searches
stay within their slice, however many specs they loop over.  Hence `OverspendBounded`:
one action taken unasked, the families of one closure, or one excess of wrapped calls.
The joint search calls the constructor search without a recursive call.  It adds the
frontier of such sources.  Its case search runs in the same Agda session and
loads what it likes, which is what `SessionHoldsTheState` is about.  In the
attended run a command of the operator is a list of steps, and the worker, Agda
and the editor of the source move between any two of them.

A native branch is a recipe: its parent and the action that was checked there.
`Asks` and `ConcludesRequest` are the two halves of `request`; between them the files may
change or the thread be killed, and as the kill may find the new owner just put
back, both owners are possible then.  The owner is called by `_run`, step by step as
the code goes (inputs hashed, looked at again, overlay made from what was hashed,
search, previews, exports and their release, verdict), in the modes `prove`, one step,
all steps and evidence; and, because the protocol is open to others, by a direct
client that applies, exports, evicts, releases and replays in any order, names what
is gone, and is killed.  What the native search finds is a choice.
`HandlesStayGood` is about the owner under both clients, `NativeRunIsHonest` about
the result of `_run` and about its exports, which leave the search its own states.

| run | checks |
|---|---|
| `prover` | case search: `EditsFitTheSource`, `OverspendBounded`; joint search: `SessionHoldsTheState`, `AnswersAreHonest`; attended run: `StoppedMeansGone`, `AcceptedWasValidated`; budgets: `BudgetsHold`; native: `HandlesStayGood`, `NativeRunIsHonest`; all: `ProverEnds`, under fairness |
| `prover_overspends` | `ValidTasksStayValid` fails |

Bounds: two clauses of a split, one query of a lane, slices of 1, two recursive
calls of a clause (`MaxSpecs`), two actions of a wrapper search (`WrapSlice`), a narrow
allowance of 1 (160 in the code), two observed candidates and two programs, up to
two goals; two nested scopes with one shared area, sizes up to 2 and 3 bytes of
input and output.  With a slice of 1 every lane meets the end of its slice; two
goals and two clauses are enough for edits that move each other's positions and
for a state that is proposed twice; two scopes are enough for an inner limit
below, at and above the outer one.  With a wrapper search longer than the one action
that is taken unasked, wrapped calls reach the bound that `OverspendBounded` states.  Four native branches for the direct client are enough
for a replay whose first step is not published and for siblings below a released
parent; it adds its own branches while there are fewer, and the files change and are
put back while there are at most two.  `JointSearch` leaves the order of priorities
open, has one declaration own every goal and finite quotas only.

`Prover` is a composition by interleaving: a step is one of `RunNext`, of
`BudgetSteps`, of the searches (`SearchNext`) or of the native engine
(`NativeSteps`), and leaves the variables of the others alone, except that a search
publishes a variation (`Publishes`, a disjunct of `RunNext`).  So its behaviours are
behaviours of `RunSpec`, `BudgetsSpec`, `SearchSpec` and `NativeSpec`
(`TheProverRunsItsParts`, section 8), and what is proved of the parts is true of it.

The walks of the owner along its branches are written as what they come to, so that
they can be reasoned about: `Above` is the least set with a branch that is closed
under parents, `Going` the part of it that `collectReleased` deletes, and `Astray` says
where it would meet a wrong count or parent.  Written recursively, branch by branch
as in the code, they give the same states in the run `prover`.

Fairness: weak, for the worker's search, for its return and for the controller.
The operator and the faults are under no obligation, so `ProverEnds` asks the end
of an attended run only when its operator has left, and shows that a paused or
deaf worker is got rid of.  `CHECK_DEADLOCK FALSE` because runs end.

## 8. What is proved

For every value of the constants (projects, modules, actions, scopes),
every fault set and every bound (`KernelSessionProofs.tla` unless another is named):

* `TypeCorrect == Spec => []TypeOK`.  `TypeOK` alone is not inductive: a token
  registered at the end of a call is well formed because the call carries a
  well-formed token and action, a project, and an overlay.  `CallOK` says so,
  and `TypeInv == TypeOK /\ CallOK` is inductive; the proof has one lemma per
  group of actions and one step per action.
* `NumbersNeverReused == Spec => []OneStatePerSequence` and
  `StaleTokensStayStale == Spec => StaleForever`.
  Every step of the session either forgets tokens or issues one with the next
  number, the current generation and the current project (`TokenStep`), and
  moves the process generation only forwards (`ProcessStep`); `TokenInv`, which
  bounds every number and generation by the counters, is then inductive.  Both
  hold whatever faults happen.
* `QuietVerdictsFaithful == Quiet => (Spec => []VerdictsFaithful)` and
  `QuietMarkerFaithful`, where `Quiet` says that
  none of the six failures in `Leaks` happens.  The invariant `FaithInv` is
  needed because faithfulness is not inductive: it also says that the worker of
  a call in progress lives, how far a replay has come (`Replayed`), and that no
  marker carries a generation of the future, which is what makes a silent
  respawn harmless.  The violation run shows that three of the six are not
  excluded in vain.
* `RollbacksEndWell == Spec => RollbackRestoresOrPoisons`, with every fault.  A
  session whose marker can no longer be trusted still rolls back well, because
  `CallInv` asks less than `FaithInv`: a replay whose process still lives has
  replayed the lineage so far, a call works on the project and module of its token,
  the overlay is the project's while a call is in progress, and a rollback is
  always in its reload or its replay.
* `AgendaProofs.tla`, for all states, estimates, depth limits and queue sizes:
  `IndexesStayWhole` (`IndexesServeAll`), `ParkedIsTooDeep`
  (`OnlyTooDeepIsParked`) and the refinement `AgendaLosesNothing == Spec =>
  NothingLost`.  The invariant `Inv` says in `Queue` how the fields of the record
  belong together: every entry is filed under the key of its own cost and
  serial (`Filed`), serials differ (`Apart`), which is what makes "insert" and
  "delete" touch one entry only, children are dearer (`Dear`), and the focused
  index is the one the estimates give.  The refinement has one step per action;
  that a step finds an entry at all needs a least key, which exists since the
  naturals are well founded.  `ScopesStayTogether` (`ScopesAgree`) assumes
  `Reorder = FALSE`, the driver's use of the module (section 4); without it the
  property is not claimed.
* `SessionProtocolProofs.tla`, for any number of requests, runs and revisions.
  With every failure: `ActiveIsTrue` (`ActiveAccounts`), `CancelIsLast`
  (`CancelledIsOver`), `NoneConsumedTwice` (`ConsumedOnce`).  The invariant `Inv`
  adds that requests not yet accepted have left no trace, that `active` names
  every worker that is not yet done with its result, and that the reader in
  `throw` or `await` waits for the worker that was active; so at most one worker
  is in its operation, its key is still current when it consumes it, and a
  consumed key stays behind the table (`Spent`).  `TableStep` and `AnswerStep`
  say what the fifteen steps of a worker have in common, and the proofs
  use only that.
  Short of named failures, which are what the hypotheses exclude and nothing
  else: `StartsHaveResults` (`EveryStartHasItsResult`) without `overflow` and
  `blocked-output`, `RunsAreReached` (`RunsStayReachable`) without `late-kill`
  and `blocked-output`, and `CancelSparesTheKey` (`CancelKeepsTheKey`) without
  `late-kill`: the failure of the run `protocol_late_kill` is the only way to
  break it.
* `ConstructorSearchProofs.tla`, for all goals, shapes of refinements, lanes that
  find something, widths, slices and answers of Agda: `SolutionsAreWhole`
  (`ResultsAreWhole`), `StackAlwaysHolds` (`StackHolds`) and the refinement
  `SearchKeepsContract == Spec => KeepsContract`.  A solution is whole because of
  what the stack is, not because of what its lane did, so the invariant `Inv` is
  about the stack.  The goals open in an activation's state are exactly `Rest`:
  those of its introduction from its own on, and what was open around the parent
  (`Thread`); a solution on its way leaves open the same without its own
  (`Fits`).  `RestWithout` carries one into the other, when a lane gives, when the
  next sibling starts and when the last one completes the introduction; at the
  root the rest is empty, and the actions counted on the way are those of the
  plan.  For the marks the invariant adds that a copattern call that may still be
  made is the newest activation's, with no other open (`Waits`): the lane tests
  the mark when it is entered, not when it takes it.
  The proof reads every lane once, as what it may do to the newest activation
  (`Move`: it stays, offers a solution, or starts a first child) and to the
  counters; `LanesStep` says that nothing else happens, and the stack lemmas
  (`MoveSettles`, `PopsSettle`, `RiseToSibling`, `RiseToParent`) need only that.
  Of the account it says that `spent` moves only while an action is left, and then at
  most to `Spendable` (`ChargesWithin`); `GenerateCallsStep` is the one step that may
  pass the budget.
* `IndexStaysFresh == IndexSpec => []IndexIsFresh` (`StructuralSearchProofs.tla`),
  for all scopes and any order in which they are reported.  `IndexInv` adds that the
  index's scope is well-formed; one lemma per kind of row says that updating the
  row of a fresh index gives the row of a fresh index.  The interesting one is
  `DirectedRowsFollow`: a row is kept although the membership changed, if none of
  the *type's* symbols came or went.  That is enough only because references of
  clauses are validated to be members of their own scope
  (`AllowedDependencies.validate`), so unchanged references are members of both.
* `WideningIsSteady == RetrievalSpec => []WideningKeepsItsPool`, in the same module.
  Since every index is fresh, a pool is a function of its goal (`OwnPool`), so one
  that was pushed out and is made again is the one that was pinned (`PoolsGive`,
  for whatever pools `KeptAre` leaves): the lookup at `constructor_search.py:4997`
  finds its key.  `LaneIs` says that what a lane has seen is what its last width
  admitted; it grows because the widths do.
* `NarrowBeginsWide == IndexSpec => []RetrievalIsPrefixStable`, in the same module,
  for every scope, query, view and set of lanes.  `retrieve` says in a comment that
  "each lane's first k entries suffice for a k-element merged prefix"
  (`retrieval.py:1022`); this is `MergeIsStable`.  The keys of a ranking order the
  premises strictly (`RankingKeys`, `BeforeIsOrder`), so every rank is taken once
  (`RanksAreTaken`) and a lane cut at `k` begins the whole lane (`SmallestIs`).  What a
  lane gives next is at most one place behind what was given (`GivesOne`), hence
  within the cut until `k` are given (`CutAgrees`); and the baseline lane, which has
  every premise, gives one in each round (`RoundsGive`), so the loop over the lanes
  ends with all of them.  The turns are a recursive function whose existence is
  proved first (`TurnsExist`).
* `StructuralSearchProofs.tla`, of the prover for one goal, for all tasks, regions of
  texts and answers of its searches: `OnlyTheProofIsCredited` (`CreditIsDue`) and
  `TheRegionWasSeen` (`UnsolvedIsEarned`).  The invariant `GoalInv` has four parts.
  `FocusedInv`: decisions are recorded only below an action that is being tried, so a
  focused search without a term leaves none (`DecidedInv`).  `CreditInv`: what was
  chosen for a candidate is forgotten when the candidate is rejected.  `OrderInv`: the
  searches come one after the other.  `GuidedInv`: a text waits or was seen, never
  both, and what follows from one that was seen waits or was seen, unless something
  was cut or it is the text at hand.
* `FocusedProofs.tla`, for all problems with any contexts, eliminators, goals and
  allowances, for one term and for several: what the focused search remembers and
  returns is typed (`FoundTermsAreTyped`), and the decisions it leaves are those of its
  term (`DecisionsBelong`).  `StructuralSearchProofs.tla` carries both over to the prover
  that calls it: `EveryProofIsTyped` (`ProofsAreProofs`), `TheLabelsAreOfTheProof`
  (`LabelsAreTheProofs`).
  `TypedInv` says of every frame on the stack which sequent it works on, that its
  actions fit that sequent and that the arguments and terms it has collected are typed
  there; of the stack, that each frame works on what the frame below it asked for
  (under the binders that frame opened); of what is on its way back, that it is typed
  where it is due.  A memo entry has to be right on paths it was not made on.  Its key
  is what is known, the goal and the number of binders; a local variable is known by
  its level and becomes an index by that number when a term is made (`HeadAt`).
  This is right because a goal knows its context and then one binder for each
  level below its depth (`KnownIs`), so the same key has the same binders.  Types are looked for on a storey that
  is high enough, which is bounded by the actions that were charged; that a term keeps
  its type and its heads higher up is `HigherUp` and its like, by induction over
  the storeys (the set of storeys where it holds contains all numbers, `EveryNatural`).
  `OwnedInv` adds the marks: those of the frames that are waiting for an argument rise
  with the stack, up to the number of decisions, and the head of each decision is in a
  term that such a frame has taken below this decision's place, or in the one that was
  returned last (`Pending`).  Only an argument that failed takes decisions back, and
  only those above its frame's own mark, so none of a term that is kept is lost.
* `TheStructuralSearchRunsItsParts`, that the structural search refines the
  constructor search, the premise retrieval and its index, and from it
  `TheStructuralSearchKeepsItsPromises`: the nine invariants of the run
  `structural_search` that have no recursive reference are invariants of the whole, and
  it implements the contract.
* `ProverProofs.tla`, of `InteractiveRun`, for all runs, plans of the operator and
  faults: `StoppedIsGone` (`StoppedMeansGone`) and `AcceptedIsValidated`
  (`AcceptedWasValidated`).  When `stop` answers the worker is gone because of what
  the controller knew at every step before: `FrozenIsKnown` (a frozen Agda is in the
  paused groups, and no run that goes on or was stopped has one), `OverIsGone`, and `StepsReady`,
  which says for each step of a command what the steps before it have left.  For `accept`, `PatchIsNamed` and `AcceptedIsLast`
  carry the variation from the moment it is read to the validation that names it.
* `BudgetsAreKept` (`ProverProofs.tla`, `BudgetsHold`), for any depth of scopes,
  any areas and all allowances.  The chain of enclosing scopes is walked by folds,
  so the module first proves that the fold exists and what it keeps
  (`IterationExists`, `IterationStays`), then that a ledger only moves
  forwards (`LedgerMoves`) and that the meters are charged all or none
  (`MeterMoves`).  The invariant says that a scope that was ever over is exhausted for good
  (`Overs`, `Shown`), that a meter has counted what was made in its scope and an
  outer one no less than an inner one (`Paid`, `NestedScopes`), and that a clean end
  stays clean (`CleanStays`).
* `JointSearchProofs.tla`, for all requests, tasks, budgets and bounds, first of
  the case search: `EditsAlwaysFit` (`EditsFitTheSource`) and
  `OverspendAlwaysBounded` (`OverspendBounded`).  `Visiting` says what a level has left: its
  source is the one that is loaded, and each of its goals is to be visited or
  edited, never both; `FlattenKeepsTail` says that edits inside the region, however
  long, leave the text behind it as it was.  `Spending` bounds what is spent by the
  position of the lane, since a lane that does not ask what is left comes but once
  in a visit, and those that may exceed it by wrapped calls (`Exceeds`) come after all
  that do not ask; `LanesMove` is what the 38 lanes have in common.
  Then of the joint search: `TheSessionHoldsTheState` (`SessionHoldsTheState`) and
  `AnswersAreAlwaysHonest` (`AnswersAreHonest`).  `Whole` is the conservation law: a
  state that was ever proposed waits in the queue or among the fallbacks or has been
  expanded, unless `saw_exhaustion` is set.  `CutsRecover` says that for every state
  whose expansion was cut a state of the same source with more to try waits, was
  expanded, or is pending, as long as nothing was given up and nothing counted that
  was not charged; `CutsEnd` follows that order to its end.  A specialist may do much, so the proof
  reads each once, as `Forward`: the frontier only grows, work of the goal is only
  added, and nothing but a case search moves the session.
  The attempt to prove `AnswersAreHonest` in its first form, without the condition
  `counted = spent`, failed at a candidate that was observed: the goal's counter and
  the budget's had parted (section 9); the theorem says that there is no other way.
* `ProverProofs.tla`, of `NativeOwner` and `NativeRun`, for all tasks, bounds and clients: `HandlesAreGood`
  (`HandlesStayGood`) and `RunsAreHonest` (`NativeRunIsHonest`).  The owner is `Sound`:
  a forest in which a parent has a lower number than its children (`Tree`), with right
  counts (`Counted`), whose states are all held by a caller (`Leased`); and nothing is
  there that nobody holds and nothing below needs (`Needed`).  Each operation keeps
  this: growing adds a chain (`GrownSound`), and what a collection deletes is a path of
  branches each of which was the only one below the next (`GoingGoes`,
  `CollectedSound`), so the counts it meets are positive and no branch a caller holds
  loses one above it.  In between, `Needed` fails at just the branch the collection
  starts from, which is why it has an exception.  `Held` and `Accounted` tie the handles
  that were given out to the branches that are held; they survive the kill, when either
  owner may be there, since what a client holds is in both unless it asked for its
  release.  A run's result is honest by `ClaimInv`: until a verdict is in nothing is
  claimed, and an edit is of the task's inputs, if these are still the task's
  (`AboutInputs`), so the look after the verdict (`WhileCurrent`) is needed.  `PlaceInv`
  says for each place of the run what it holds in the session: its own states, and
  besides at most the branches of one export.
* `ProverProofs.tla`, of the whole: `TheProverRunsItsParts`, that the prover refines
  `SearchSpec`, `RunSpec`, `BudgetsSpec` and `NativeSpec`, and from it
  `TheProverKeepsItsPromises`, that the nine invariants of the run `prover` are
  invariants of `Prover`, for every value of the constants.

Assumed: that the special values are not members of the sets they must be told
apart from (`ConstantsAssumption`, `RunAssumption`, `ProtocolAssumption`,
`ConstructorAssumption`: the mark of a copattern call is no term),
that the bounds are naturals, and that scopes are well-formed, as their
constructors check (`IndexAssumption`); the bounds and special values of section 7
(`ControllerAssumption`, `BudgetsAssumption`, `CaseAssumption`, `JointAssumption`, `OwnerAssumption`, and `TasksAssumption`:
a native run has a mode of the code's, and at least one goal).
Assumed of the premises besides (`RetrievalAssumption`): a scope and what a query mentions are
finite, identities are ordered, and the widths of a lane do not fall.
Assumed of the prover for one goal: that a task's problem is one of `Problems` and its
region is a graph of texts (`GoalTasksAssumption`, `Leads`), that the parts that do
not run have a task and a request of their own (`RestingAssumption`,
`ReaderAssumption`), and that the problems' types are arrows of types and their
names are not empty (`TypesAssumption`; the empty name marks a local variable).
Model-checked only: `FailuresAreReal` and `RefutationsRefute`, whose
references are defined by recursion over types, so that a proof would be an
induction over data;
and liveness (`CallsReturn`, `EveryEntryGetsATurn`,
`ReaderReturns`, `SearchesEnd`, `ProverEnds`), which is out of the prover's reach.

## 9. What the violation runs found

| run | what the code does |
|---|---|
| `session_leaks` | three failures leave a wrong belief about what the process holds (section 3) |
| `protocol_late_kill` | a kill between the update of the run table and the end of `unmask` loses the client's key (section 5) |
| `focused_cycle` | a branch that was cut because it came back to a goal of its own path is remembered as a failure; elsewhere the same goal may be provable, and the search then reports no proof of a goal that has one |
| `prover_overspends` | three charges of the case search are made without asking what is left; a child that was granted one action reports two, and the joint search ends a valid task as invalid input |

Seen in the source while modelling, and checked by no run:

* Constructor search: `_constructing_copattern_arguments` stays set while the
  generator is suspended; lanes that skip quietly do not set `saw_exhaustion`; the
  constructors lane drops introductions that are already committed when a charge
  is refused; a deadline inside backward support raises `TimeoutError` out of
  `constructor_tree_prove`; a progressive lane would raise `KeyError`
  (`constructor_search.py:4997`) if a pool that was made again after an eviction
  differed.  `prove` ignores the search's exhaustion.
* Case search: it may report no proof when its allowance ran out; a search with
  wrapped recursive calls may report up to 48 actions more than it was granted
  (`recursive_calls.py:525`), which would end a valid task of the joint search just as
  `prover_overspends` does;
  `reconstruction.py:489` refuses every `?` where `case_search.py:124` knows that
  a name may contain one.
* Joint search: an observed candidate that is refused is counted against its goal
  (`joint.py:1793`) and never charged to the budget.  `remaining_goal_actions` (:1756)
  may reach zero while the budget has actions left; the late case batch (:2649) is
  then skipped without `saw_exhaustion`, and the task ends as unsolved, "no jointly
  valid assignment was found in the finite search fragment" (:2843).
  `tests/test_observation_fallback.py` opens with "Source observations are proposals,
  never cuts".  `ProverOverspends.cfg` with `JointTasks <- MCObservedTasks` and the
  invariant `ObservationsNeverCut` shows it in seconds.
* Focused search: the alternatives that are recorded as failed include those a
  cycle or the depth cut, although only failed ones are meant to be.  The guided
  search drops a text whose focused term Agda rejects on load without trying its
  refinements.  Focused decisions stay in the policy trace when the validation of
  the focused term times out.
* Attended run: a worker that is killed from outside while paused leaves Agda
  frozen; `stop` and `accept` may raise `ValueError` when the worker exits between
  two looks at it.
* Native session: a kill that arrives as `modifyMVar` leaves reports `cancelled`
  though the owner has changed, so a branch may stay that no client knows
  (`unsure` in the model).  The source is put back to what it was and nobody notices,
  when that happens between two looks.  Closing the connection after a proof was
  verified may raise (`resources.py:409-430`); the result then has the status of the
  error and still carries the patch.
* Budgets: `finish` called from another thread than the opener's reports no
  exhaustion; an inner `finish` may return an outer scope's.  `prove` may return
  `resource-exhausted` or `toolchain-error` with a validated patch still set.

## 10. Not modelled

See the components of `PROJECT.json` with status `not_modelled` for the reason
in each case, and with status `partly` for what is abstracted.  In the session:
`check_definition` and `validate_patch` (they run a separate process and touch no
session state beyond `_activate`), the selection of features in `open_project`,
and what the views contain.  In the searches: everything that decides *which*
term, type or premise is proposed (`premise_search.py` but for admission,
`recursive_elimination.py`, `relation_path.py`, `algebraic_rewriting.py` and the
like).  These are heuristics over rendered Agda terms; Agda checks each of their
candidates, so what they find appears as a choice.  In the attended run: the
interrupt of the controller itself and the decoding of commands.  In the native
run: the bytes of the connection, receipts and models, the brand that keeps two
sessions apart, and how the native search chooses what it applies.
