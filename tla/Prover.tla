--------------------------------- MODULE Prover ---------------------------------
(***************************************************************************)
(* The prover in Python, whole: a worker, with a controller or without one *)
(* (InteractiveRun), searches for a prefix (JointSearch), which calls the  *)
(* search by cases (CaseSearch).  A run is for one task, or for one case   *)
(* request.  A worker without either only has its budgets charged          *)
(* (Budgets), which the searches do everywhere and in no order, or runs    *)
(* the native engine (NativeRun) instead.                                  *)
(***************************************************************************)
EXTENDS JointSearch, InteractiveRun, Budgets, NativeRun

CONSTANT AttendedTasks  \* the tasks that have a controller

ASSUME ProverAssumption == AttendedTasks \subseteq JointTasks

vars == <<proverVars, runVars, budgetVars, nativeVars>>

Attended == control # "none"
Idle == asked = NotAsked /\ task = NoTask /\ native = NoNative
MaySearch == native = NoNative /\ Alive /\ stage = "searching"

\* publish_variation, before a goal is worked on or a proof validated.
Publication ==
  IF Attended /\ step \in {"select", "validate"} THEN Publishes ELSE UNCHANGED runVars

SearchSteps == MaySearch /\ (JointSteps \/ CalledCase) /\ Publication /\ UNCHANGED <<budgetVars, nativeVars>>

SearchTroubles ==
  MaySearch /\ (JointRaise \/ JointExpire \/ CaseTrouble) /\ UNCHANGED <<runVars, budgetVars, nativeVars>>

\* The worker leaves prove_prefix with the result of the search.
Leaves == Attended /\ step = "done" /\ Returns /\ UNCHANGED <<proverVars, budgetVars, nativeVars>>

Around == AgdaEnds \/ Drifts \/ OperatorSteps \/ WorkerSteps
Controls == Attended /\ ControllerSteps /\ UNCHANGED <<proverVars, budgetVars, nativeVars>>

Charges == Idle /\ BudgetSteps /\ UNCHANGED <<proverVars, runVars, nativeVars>>

Engages == NativeSteps /\ UNCHANGED <<proverVars, runVars, budgetVars>>

Init ==
  /\ CaseInit /\ JointInit /\ RunInit /\ BudgetsInit
  /\ asked = NotAsked \/ task = NoTask
  /\ NativeInit /\ (native # NoNative => asked = NotAsked /\ task = NoTask)
  /\ Attended <=> task \in AttendedTasks
  /\ ~Idle => limits = CHOOSE l \in [Scopes -> Allowances] : TRUE

Next ==
  \/ SearchSteps \/ SearchTroubles \/ Leaves \/ Controls \/ Charges \/ Engages
  \/ Attended /\ Around /\ UNCHANGED <<proverVars, budgetVars, nativeVars>>

Spec == Init /\ [][Next]_vars

\* The worker's thread runs on, and so does the controller's; the operator and
\* the faults are under no obligation.
FairSpec == Spec /\ WF_vars(SearchSteps) /\ WF_vars(Leaves) /\ WF_vars(Controls)

-----------------------------------------------------------------------------
(* Properties.                                                             *)

\* The session a specialist asks, the answer of the search and the ends of the
\* region are those of JointSearch and CaseSearch; what an operator, the budgets and
\* the clients of the native session may rely on is in InteractiveRun, Budgets,
\* NativeOwner and NativeRun; these are about all of it.

\* A search ends, whatever Agda and its specialists answer, and a run whose
\* operator has left ends though its worker be paused or deaf.
Finished == IF Attended THEN worker = "gone" ELSE step = "done" /\ verdict # "searching"

ProverEnds == (~Attended \/ <>(serving # "yes")) => <>Finished

\* A task with positive budgets is never turned down as invalid input, unless
\* Agda turns a source down: the children of a search keep the allowances they
\* are given.
ValidTasksStayValid == status = "invalid-task" => Goes("raises")

================================================================================
