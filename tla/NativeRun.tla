------------------------------- MODULE NativeRun -------------------------------
(***************************************************************************)
(* A run of the native engine: NativeProofEngine._run with search_agenda   *)
(* or search_evidence over one SymbolicConnection, and the owner of the    *)
(* native states (NativeOwner) at the other end.                           *)
(*                                                                         *)
(* The native search is here only as it uses the owner: it applies actions *)
(* to the states it has made and gives an answer.  A task without goals    *)
(* stands for another client of the session protocol, which makes any      *)
(* request it likes.                                                       *)
(***************************************************************************)
EXTENDS NativeOwner

CONSTANT
  NativeTasks  \* records: goals, mode ("prove", "step", "steps" to collect them, "evidence"), observed;
               \* or Direct

\* The modes of the callers of _run.
ASSUME TasksAssumption ==
  NativeTasks \subseteq [goals : Nat \ {0}, mode : {"prove", "step", "steps", "evidence"}, observed : BOOLEAN]
                        \cup {[goals |-> 0, mode |-> "direct", observed |-> FALSE]}

VARIABLES
  native,   \* the task, or NoNative
  at,       \* where _run is
  found,    \* the answer of the native search that is at hand
  reached,  \* the state of its candidate, and the grade of its export
  exports,  \* the branches of the last export that are not yet released
  why,      \* what the export is for: "candidate" or "view"
  states,   \* the states the native search has made
  inputs,   \* the inputs of the task: "task", or "changed" since they were hashed
  about,    \* the inputs the edit at hand was read from and then checked with
  claim     \* the result: status, patch, certificate, action, credits, exhausted

engineVars == <<native, at, found, reached, exports, why, states, inputs, about, claim>>
nativeVars == <<engineVars, ownerVars>>

NoNative == [goals |-> 0, mode |-> "none", observed |-> FALSE]
Direct == [goals |-> 0, mode |-> "direct", observed |-> FALSE]
Unclaimed == [status |-> "internal-error", patch |-> <<>>, certificate |-> FALSE, action |-> <<>>,
              credits |-> FALSE, exhausted |-> FALSE]

NativeInit ==
  /\ native \in NativeTasks \cup {NoNative}
  /\ at = "setup" /\ found = "nothing" /\ reached = <<RootKey(0), "none">> /\ exports = {} /\ why = "candidate"
  /\ states = {} /\ inputs = "task" /\ about = <<>> /\ claim = Unclaimed
  /\ OwnerInit

OneMove == native.mode \in {"step", "steps"}
Engaged == native.goals > 0
Status(s) == claim' = [claim EXCEPT !.status = s]

\* An exception leaves the loop; closing() ends the generator and with it the
\* connection, if there is one.
Raises(s) ==
  /\ at' = IF at \in {"setup", "inspected", "opening"} THEN "finishing" ELSE "closing"
  /\ Status(s)

GoesTo(place) == at' = place /\ claim' = claim

\* To _run; search_evidence has closed its connection by then.
Yields == GoesTo(IF native.mode = "evidence" THEN "handing" ELSE "judging")

\* inputs.assert_current.
WhileCurrent(then) == IF inputs = "task" THEN then ELSE Raises("internal-error")

-----------------------------------------------------------------------------
(* Before the search.                                                      *)

\* The inputs are hashed and the models loaded; the goals are inspected; and
\* the inputs are looked at again.
Prepares ==
  /\ \/ at = "setup" /\ GoesTo("inspected")
     \/ at = "inspected" /\ WhileCurrent(Status("unsolved") /\ at' = "opening")
  /\ UNCHANGED <<native, found, reached, exports, why, states, inputs, about, ownerVars>>

\* resident_session: the overlay is made of what was hashed, or not at all.
Opens ==
  /\ at = "opening" /\ IF inputs = "task" THEN GoesTo("starting") ELSE Raises("toolchain-error")
  /\ UNCHANGED <<native, found, reached, exports, why, states, inputs, about, ownerVars>>

-----------------------------------------------------------------------------
(* The requests of search_agenda.                                          *)

Requests(op, ref, with, place) == Asks(op, ref, with) /\ GoesTo(place)
Answered(place) == at = place /\ job.pc = "answered"
TakesAnswer == job' = NoJob /\ UNCHANGED <<owner, files, handed, unsure>>

StartsSearch ==
  /\ \/ at = "starting" /\ job = NoJob /\ Requests("inspect", RootKey(0), <<>>, "starting")
     \/ Answered("starting") /\ TakesAnswer
        /\ IF job.answer # "ok" THEN Raises("internal-error")
           ELSE GoesTo(IF native.mode = "evidence" THEN "searching" ELSE IF native.observed THEN "viewing" ELSE "advancing")
  /\ found' = "slice-ended" /\ UNCHANGED <<native, reached, exports, why, states, inputs, about>>

Advances ==
  /\ at = "advancing" /\ GoesTo("searching")
  /\ UNCHANGED <<native, found, reached, exports, why, states, inputs, about, ownerVars>>

\* The native search applies an action to the root or, beyond the first move, to
\* a state of its own, and solve-evidence solves the goal or not; either fails when the request does for
\* another reason than Agda's.
NativeApplies ==
  /\ at = "searching" /\ job = NoJob
  /\ IF native.mode = "evidence" THEN states = {} /\ Requests("solve", RootKey(0), <<>>, "searching")
     ELSE \E s \in {RootKey(0)} \cup (IF OneMove THEN {} ELSE states), a \in Actions : Requests("apply", s, a, "searching")
  /\ UNCHANGED <<native, found, reached, exports, why, states, inputs, about>>

NativeLearns ==
  /\ Answered("searching") /\ TakesAnswer
  /\ states' = states \cup job.handles
  /\ IF job.answer \in {"ok", "rejected"} THEN GoesTo("searching") /\ found' = found
     ELSE Yields /\ found' = "failure"
  /\ UNCHANGED <<native, reached, exports, why, inputs, about>>

\* The answer of a slice: the view comes first, when there is an observer.
NativeAnswers ==
  /\ at = "searching" /\ job = NoJob
  /\ found' \in {"unsolved", "resource-exhausted"} \cup {x \in {"candidate"} : states # {}}
       \cup (IF native.mode = "evidence" THEN {} ELSE {"slice-ended", "allowance"} \cup {x \in {"refutation"} : native.goals = 1})
  /\ IF found' = "candidate" THEN \E s \in states : reached' = <<s, "none">> ELSE reached' = reached
  /\ IF native.observed /\ found' \in {"slice-ended", "allowance", "candidate"} THEN GoesTo("viewing")
     ELSE IF found' = "slice-ended" THEN GoesTo("advancing")
     ELSE IF found' = "candidate" THEN GoesTo("exporting") ELSE Yields
  /\ UNCHANGED <<native, exports, why, states, inputs, about, ownerVars>>

Exports ==
  /\ job = NoJob
  /\ \/ /\ at = "exporting" /\ why' = "candidate"
        /\ Requests("export", RootKey(0), [descendant |-> reached[1], goals |-> native.goals], "exported")
     \/ /\ at = "viewing" /\ why' = "view"
        /\ \E s \in states : Requests("export", RootKey(0), [descendant |-> s, goals |-> 1], "exported")
  /\ UNCHANGED <<native, found, reached, exports, states, inputs, about>>

\* A preview that Agda refuses is left out, and another may follow; a candidate
\* is yielded with what Agda says.  The branches are to be released.
TakesExport ==
  /\ Answered("exported") /\ TakesAnswer
  /\ CASE job.answer = "ok" ->
            /\ exports' = job.handles /\ GoesTo("releasing")
            /\ reached' \in {<<reached[1], grade>> : grade \in IF why = "view" THEN {"none"} ELSE {"closed", "blocked"}}
       [] job.answer = "rejected" ->
            /\ exports' = {} /\ (IF why = "view" THEN GoesTo("viewing") ELSE Yields)
            /\ reached' = <<reached[1], "rejected">>
       [] OTHER -> exports' = {} /\ Raises("internal-error") /\ reached' = reached
  /\ UNCHANGED <<native, found, why, states, inputs, about>>

\* The last branch first; search_evidence leaves them to the session's end.
ReleasesExports ==
  /\ at = "releasing"
  /\ IF exports = {} \/ native.mode = "evidence"
     THEN (IF why = "view" THEN GoesTo("viewing") ELSE Yields) /\ UNCHANGED <<exports, ownerVars>>
     ELSE LET last == CHOOSE h \in exports : \A other \in exports : other.branch <= h.branch
          IN \/ job = NoJob /\ Requests("release", last, <<>>, "releasing") /\ UNCHANGED exports
             \/ /\ job.pc = "answered" /\ TakesAnswer /\ exports' = exports \ {last}
                /\ IF job.answer = "ok" THEN GoesTo("releasing") ELSE Raises("internal-error")
  /\ UNCHANGED <<native, found, reached, why, states, inputs, about>>

\* The view is yielded to the observer, and the search goes on.
Views ==
  /\ at = "viewing" /\ job = NoJob
  /\ WhileCurrent(GoesTo(CASE found = "candidate" -> "exporting" [] found = "allowance" -> "judging" [] OTHER -> "advancing"))
  /\ UNCHANGED <<native, found, reached, exports, why, states, inputs, about, ownerVars>>

\* search_evidence closes its connection before it gives the reply.
HandsOver ==
  /\ at = "handing" /\ ClosesSession
  /\ GoesTo("judging") \/ Raises("toolchain-error")
  /\ UNCHANGED <<native, found, reached, exports, why, states, inputs, about>>

-----------------------------------------------------------------------------
(* What _run does with a reply.                                            *)

\* Back to the generator; search_evidence gives one reply only.
SearchesOn == GoesTo(IF native.mode = "evidence" THEN "closing" ELSE "advancing")

Judges ==
  /\ at = "judging"
  /\ WhileCurrent(
       CASE found = "failure" -> Raises("internal-error")
         [] found = "allowance" -> IF claim.action # <<>> THEN GoesTo("closing") ELSE Raises("resource-exhausted")
         [] found \in {"unsolved", "resource-exhausted"} ->
              at' = "closing" /\ claim' = IF claim.action = <<>> THEN [claim EXCEPT !.status = found] ELSE claim
         [] found = "refutation" -> IF OneMove THEN Raises("internal-error") ELSE GoesTo("checking")
         [] OTHER -> IF reached[2] = "closed" THEN GoesTo("reading") ELSE SearchesOn)
  /\ UNCHANGED <<native, found, reached, exports, why, states, inputs, about, ownerVars>>

\* The edit is made of what the source is now.  It may not fit: a step is
\* then passed over.
Reads ==
  /\ at = "reading" /\ about' = <<inputs>>
  /\ GoesTo("checking") \/ IF OneMove THEN SearchesOn ELSE Raises("internal-error")
  /\ UNCHANGED <<native, found, reached, exports, why, states, inputs, ownerVars>>

\* A fresh process is to check the edit; the inputs of a proof are looked at
\* before.  It reads the source when it runs; the module of a refutation needs
\* none.
Checks ==
  /\ \/ at = "checking" /\ about' = about
        /\ IF OneMove \/ found = "refutation" THEN GoesTo("running") ELSE WhileCurrent(GoesTo("running"))
     \/ at = "running" /\ GoesTo("checked")
        /\ about' = IF found = "refutation" THEN <<>> ELSE <<about[1], inputs>>
  /\ UNCHANGED <<native, found, reached, exports, why, states, inputs, ownerVars>>

ClaimAccepted ==
  CASE found = "refutation" ->
         at' = "closing" /\ claim' = [claim EXCEPT !.certificate = TRUE, !.status = "impossible"]
    [] OneMove ->
         /\ at' = IF native.mode = "steps" THEN "advancing" ELSE "closing"
         /\ claim' = [claim EXCEPT !.action = IF @ = <<>> THEN about ELSE @, !.status = "accepted-step"]
    [] OTHER ->
         /\ at' = "closing"
         /\ \E clean \in BOOLEAN : claim' = [claim EXCEPT !.patch = about, !.status = "verified", !.credits = clean]

\* Wrong: the verdict is taken as it comes.
ConcludesAtOnce ==
  /\ at = "checked"
  /\ \/ ClaimAccepted
     \/ SearchesOn
     \/ ~OneMove /\ Raises("resource-exhausted")
  /\ UNCHANGED <<native, found, reached, exports, why, states, inputs, about, ownerVars>>

\* The verdict counts when the inputs are still the same.  A time-out ends the
\* run; a step that Agda refuses is passed over at once.
ConcludesCheck ==
  /\ at = "checked"
  /\ \/ WhileCurrent(ClaimAccepted)
     \/ IF OneMove THEN SearchesOn ELSE WhileCurrent(SearchesOn)
     \/ ~OneMove /\ WhileCurrent(Raises("resource-exhausted"))
  /\ UNCHANGED <<native, found, reached, exports, why, states, inputs, about, ownerVars>>

\* The connection is closed, the process killed and the overlay removed, which
\* may fail.
ClosesRun ==
  /\ at = "closing" /\ at' = "finishing"
  /\ IF owner.closed THEN claim' = claim /\ UNCHANGED ownerVars
     ELSE ClosesSession /\ \E s \in {claim.status, "toolchain-error"} : Status(s)
  /\ UNCHANGED <<native, found, reached, exports, why, states, inputs, about>>

\* scope.finish: a run that was over its limits at any time claims nothing.
FinishesRun ==
  /\ at = "finishing" /\ at' = "done"
  /\ \E exhausted \in BOOLEAN :
       LET left == [claim EXCEPT !.exhausted = exhausted, !.status = IF exhausted THEN "resource-exhausted" ELSE @]
           bare == [left EXCEPT !.patch = <<>>, !.certificate = FALSE, !.action = <<>>, !.credits = FALSE]
       IN claim' = IF exhausted THEN bare
                   ELSE IF left.status # "accepted-step" THEN [left EXCEPT !.action = <<>>] ELSE left
  /\ UNCHANGED <<native, found, reached, exports, why, states, inputs, about, ownerVars>>

-----------------------------------------------------------------------------
(* Troubles, and the other client.                                         *)

\* Time or an allowance runs out, the process dies or answers badly, or a file
\* cannot be read.
NativeTrouble ==
  /\ at \notin {"closing", "finishing", "done"}
  /\ \E s \in {"resource-exhausted", "toolchain-error", IF at = "setup" THEN "invalid-task" ELSE "internal-error"} : Raises(s)
  /\ job' = NoJob /\ UNCHANGED <<native, found, reached, exports, why, states, inputs, about, owner, files, handed, unsure>>

SourceDrifts ==
  /\ inputs = "task" /\ at # "done" /\ inputs' = "changed"
  /\ UNCHANGED <<native, at, found, reached, exports, why, states, about, claim, ownerVars>>

\* The other client names what it was given, or what is gone, and forgets the
\* answer.  Bound: branches are added, by other than replay, while there are few.
FewBranches == owner.next < MaxBranch

DirectClient ==
  LET refs == [epoch : {owner.epoch}, branch : Numbers(owner)] \cup {RootKey(0)}
  IN /\ \/ /\ job = NoJob /\ (unsure => FewBranches)
           /\ \/ \E r \in refs, op \in {"evict", "release", "replay"} : Asks(op, r, <<>>)
              \/ FewBranches /\ \E r \in refs, a \in Actions : Asks("apply", r, a)
              \/ FewBranches /\ \E r \in refs : Asks("export", RootKey(0), [descendant |-> r, goals |-> 1])
        \/ job.pc = "answered" /\ TakesAnswer
        \/ FewBranches /\ ~unsure /\ IsCancelled
        \/ ClosesSession
     /\ UNCHANGED engineVars

EngineSteps ==
  \/ Prepares \/ Opens \/ StartsSearch \/ Advances \/ NativeApplies \/ NativeLearns \/ NativeAnswers \/ Exports \/ TakesExport
  \/ ReleasesExports \/ Views \/ HandsOver \/ Judges \/ Reads \/ Checks \/ ConcludesCheck \/ ClosesRun \/ FinishesRun \/ NativeTrouble
  \/ SourceDrifts

OwnerSteps ==
  /\ ConcludesRequest \/ (owner.epoch = 0 /\ owner.next <= 2 /\ FilesChange)
  /\ UNCHANGED engineVars

NativeSteps ==
  \/ Engaged /\ EngineSteps
  \/ native = Direct /\ DirectClient
  \/ native # NoNative /\ at # "done" /\ OwnerSteps

NativeSpec == NativeInit /\ [][NativeSteps]_nativeVars

-----------------------------------------------------------------------------
(* Properties.                                                             *)

\* A run's result claims what was checked: a patch or a step was made from the
\* task's own inputs and checked with it; nothing is claimed that the status
\* does not go with, nor by a run that was over its limits.  When the search
\* goes on, the branches of the exports are gone and its own states are there.
NativeRunIsHonest ==
  /\ at = "done" =>
       /\ claim.patch \in {<<>>, <<"task", "task">>} /\ claim.action \in {<<>>, <<"task", "task">>}
       /\ claim.status = "verified" => claim.patch # <<>> /\ ~claim.certificate
       /\ claim.status = "impossible" => claim.certificate /\ claim.patch = <<>>
       /\ claim.status = "accepted-step" <=> claim.action # <<>>
       /\ claim.status \in {"unsolved", "invalid-task"} => claim.patch = <<>> /\ ~claim.certificate
       /\ claim.credits => claim.patch # <<>>
       /\ claim.exhausted => claim.patch = <<>> /\ ~claim.certificate /\ claim.status = "resource-exhausted"
  /\ at = "advancing" => handed = states /\ exports = {} /\ \A s \in states : owner.epoch = 0 => Found(owner, s)

================================================================================
