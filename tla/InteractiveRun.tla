----------------------------- MODULE InteractiveRun -----------------------------
(***************************************************************************)
(* A prover run with an operator: interactive.py, interactive_worker.py    *)
(* and principal_variation.py.                                             *)
(*                                                                         *)
(* The controller owns a worker process, which owns the Agda process, in a *)
(* process group of its own.  The controller reads commands and carries    *)
(* them out with signals; the two sides share two files, the variation the *)
(* worker publishes and its result.  A command is a list of steps, and the *)
(* worker, Agda and whoever edits the source act between any two of them.  *)
(* What the worker searches for is JointSearch; see Prover.                *)
(***************************************************************************)
EXTENDS Integers, Sequences

CONSTANTS
  RunFaults  \* what may go wrong

\* crash: the worker dies on its own.  deaf: it does not get to its signal
\* handler.  blind: ps fails or takes too long.  drift: the source is edited.
RunFaultKinds == {"crash", "deaf", "blind", "drift"}

ASSUME ControllerAssumption == RunFaults \subseteq RunFaultKinds

VARIABLES
  control,   \* InteractiveRunController._state, or "none" for a run without one
  doing,     \* the steps of the command at hand
  accepting, \* accept_goal: the variation that was named and the one whose patch is checked
  accepted,  \* the last event says that a goal is accepted
  groups,    \* _paused_groups knows of Agda's group
  worker,    \* "running", "frozen" or "gone"
  stage,     \* what the worker does: "starting", "searching", "writing", "over"
  term,      \* SIGTERM is on its way to the worker
  agda,      \* "none", "running" or "frozen"
  variation, \* the file of the variation: its number, or 0
  result,    \* the file of the result exists
  drifted,   \* the source is not what it was at the launch
  serving    \* serve_interactive: "yes", "closing" after its input, "no"

runVars == <<control, doing, accepting, accepted, groups, worker, stage, term, agda, variation, result, drifted, serving>>
commandVars == <<control, doing, accepting, accepted, groups, serving>>
workerVars == <<worker, stage, term, agda, variation, result>>

Commands == {"status", "pause", "resume", "stop", "accept"}
Over == {"stopped", "completed", "failed"}
Faulty(fault) == fault \in RunFaults

\* Variations are known by their digests; two are enough to tell them apart.
Variations == {1, 2}
NoAccept == [named |-> 0, patch |-> 0, foreign |-> FALSE, validated |-> FALSE]

-----------------------------------------------------------------------------
(* The worker.                                                             *)

Alive == worker = "running" /\ ~(term /\ stage = "starting")

\* Until main has set its handler, SIGTERM ends the worker at once.
Starts ==
  /\ Alive /\ stage = "starting" /\ stage' = "searching" /\ agda' = "running"
  /\ UNCHANGED <<commandVars, worker, term, variation, result, drifted>>

\* The publisher replaces the file of the variation.
Publishes ==
  /\ Alive /\ stage = "searching" /\ variation' \in Variations
  /\ UNCHANGED <<commandVars, worker, stage, term, agda, result, drifted>>

\* prove_prefix returns; its session is closed.
Returns ==
  /\ Alive /\ stage = "searching" /\ stage' = "writing" /\ agda' = "none"
  /\ UNCHANGED <<commandVars, worker, term, variation, result, drifted>>

\* The result is written beside its place and moved there.
WritesResult ==
  /\ Alive /\ stage = "writing" /\ stage' = "over" /\ result' = TRUE
  /\ UNCHANGED <<commandVars, worker, term, agda, variation, drifted>>

\* The worker ends: it is done, its handler has raised KeyboardInterrupt, which
\* closes the session on the way out, or it dies and leaves Agda behind.
Exits ==
  /\ \/ Alive /\ stage = "over" /\ UNCHANGED agda
     \/ worker = "running" /\ term /\ (stage = "starting" \/ ~Faulty("deaf")) /\ agda' = "none"
     \/ Alive /\ Faulty("crash") /\ stage = "searching" /\ UNCHANGED agda
  /\ worker' = "gone"
  /\ UNCHANGED <<commandVars, stage, term, variation, result, drifted>>

\* Agda reads the end of its input once its worker is gone; frozen it reads
\* nothing.
AgdaEnds ==
  /\ worker = "gone" /\ agda = "running" /\ agda' = "none"
  /\ UNCHANGED <<commandVars, worker, stage, term, variation, result, drifted>>

Drifts ==
  /\ Faulty("drift") /\ ~drifted /\ drifted' = TRUE
  /\ UNCHANGED <<commandVars, workerVars>>

-----------------------------------------------------------------------------
(* The controller.                                                         *)

\* The state property: a worker that is gone has completed or failed.
Read == IF control \in {"stopped", "failed"} \/ worker # "gone" THEN control
        ELSE IF result THEN "completed" ELSE "failed"

Awaits == serving = "yes" /\ doing = <<>>
Due(step) == doing # <<>> /\ Head(doing) = step
Proceeds(steps) == doing' = steps \o Tail(doing)

\* A ValueError leaves the command, and serve_interactive when it is the last.
Errs == doing' = <<>> /\ accepting' = NoAccept

\* A line of input.  accept_goal names the variation the operator has seen.
Command(name) ==
  /\ Awaits
  /\ control' = IF name = "status" THEN Read ELSE control
  /\ doing' = CASE name = "accept" -> <<"check", "hold", "validate", "stop", "report">>
                [] name = "status" -> <<>>
                [] OTHER -> <<name>>
  /\ \E named \in Variations :
       accepting' = IF name = "accept" THEN [NoAccept EXCEPT !.named = named] ELSE NoAccept
  /\ accepted' = FALSE
  /\ UNCHANGED <<groups, serving, workerVars, drifted>>

EndOfInput ==
  /\ Awaits /\ serving' = "closing"
  /\ control' = Read
  /\ doing' = IF Read \in {"running", "paused"} THEN <<"stop">> ELSE <<>>
  /\ UNCHANGED <<accepting, accepted, groups, workerVars, drifted>>

Served ==
  /\ serving = "closing" /\ doing = <<>> /\ serving' = "no"
  /\ UNCHANGED <<control, doing, accepting, accepted, groups, workerVars, drifted>>

controlled == <<accepted, groups, serving, drifted>>

\* pause: freeze the worker, that it starts no more processes; then Agda.
Pause ==
  /\ Due("pause") /\ control' = Read
  /\ CASE Read = "paused" -> Proceeds(<<>>) /\ UNCHANGED accepting
       [] Read = "running" -> Proceeds(<<"freeze", "gather">>) /\ UNCHANGED accepting
       [] OTHER -> Errs
  /\ UNCHANGED <<controlled, workerVars>>

Freeze ==
  /\ Due("freeze") /\ Proceeds(<<>>)
  /\ worker' = IF worker = "gone" THEN worker ELSE "frozen"
  /\ UNCHANGED <<control, accepting, controlled, stage, term, agda, variation, result>>

\* _live_groups: what ps shows below the worker, unless ps fails.
LiveGroups == {worker # "gone" /\ agda # "none"} \cup (IF Faulty("blind") THEN {FALSE} ELSE {})

Gather ==
  /\ Due("gather") /\ Proceeds(<<>>) /\ control' = "paused"
  /\ \E sees \in LiveGroups :
       /\ groups' = sees
       /\ agda' = IF sees /\ agda = "running" THEN "frozen" ELSE agda
  /\ UNCHANGED <<accepting, accepted, serving, drifted, worker, stage, term, variation, result>>

Continues(all) ==
  /\ worker' = IF worker = "frozen" THEN "running" ELSE worker
  /\ agda' = IF all /\ agda = "frozen" THEN "running" ELSE agda

ResumeRun ==
  /\ Due("resume")
  /\ CASE Read = "running" -> Proceeds(<<>>) /\ control' = Read /\ UNCHANGED <<accepting, groups, worker, agda>>
       [] Read = "paused" ->
            /\ \E sees \in LiveGroups : Continues(groups \/ sees)
            /\ groups' = FALSE /\ control' = "running" /\ Proceeds(<<>>) /\ UNCHANGED accepting
       [] OTHER -> Errs /\ control' = Read /\ UNCHANGED <<groups, worker, agda>>
  /\ UNCHANGED <<accepted, serving, drifted, stage, term, variation, result>>

\* stop: a running worker is paused first.
Stop ==
  /\ Due("stop") /\ control' = Read
  /\ CASE Read \in Over -> Proceeds(<<>>)
       [] Read = "running" -> Proceeds(<<"pause", "term">>)
       [] OTHER -> Proceeds(<<"term">>)
  /\ UNCHANGED <<accepting, controlled, workerVars>>

\* Wrong: only what ps shows now is told to end.
TermForgets ==
  /\ Due("term") /\ Proceeds(<<"wait">>)
  /\ \E sees \in LiveGroups :
       /\ agda' = IF sees THEN "none" ELSE agda
       /\ groups' = sees
  /\ term' = TRUE /\ worker' = IF worker = "frozen" THEN "running" ELSE worker
  /\ UNCHANGED <<control, accepting, accepted, serving, drifted, stage, variation, result>>

\* All groups are sent SIGTERM and SIGCONT; Agda ends of it.
Term ==
  /\ Due("term") /\ Proceeds(<<"wait">>)
  /\ \E sees \in LiveGroups :
       /\ agda' = IF groups \/ sees THEN "none" ELSE agda
       /\ groups' = (groups \/ sees)
  /\ term' = TRUE /\ worker' = IF worker = "frozen" THEN "running" ELSE worker
  /\ UNCHANGED <<control, accepting, accepted, serving, drifted, stage, variation, result>>

\* Wrong: a deaf worker is waited for.
WaitsOnly ==
  /\ Due("wait") /\ worker = "gone" /\ Proceeds(<<>>) /\ control' = "stopped"
  /\ groups' = FALSE
  /\ UNCHANGED <<worker, agda, accepted, accepting, serving, drifted, stage, term, variation, result>>

\* The worker is gone within the grace, or is killed with its groups.
Wait ==
  /\ Due("wait") /\ Proceeds(<<>>) /\ control' = "stopped"
  /\ worker' = "gone"
  /\ agda' = IF worker # "gone" /\ groups THEN "none" ELSE agda
  /\ groups' = FALSE
  /\ UNCHANGED <<accepted, accepting, serving, drifted, stage, term, variation, result>>

\* Wrong: the variation may be another one by now.
ChecksSourceOnly ==
  /\ Due("check")
  /\ \/ variation # 0 /\ ~drifted /\ Proceeds(<<>>)
        /\ accepting' = [accepting EXCEPT !.patch = variation, !.foreign = drifted]
     \/ Errs
  /\ UNCHANGED <<control, controlled, workerVars>>

\* accept_goal: the variation is the one that was named and the source the one
\* of the launch; the goal has one complete step of its own, or not.
Check ==
  /\ Due("check")
  /\ \/ variation = accepting.named /\ ~drifted /\ Proceeds(<<>>)
        /\ accepting' = [accepting EXCEPT !.patch = variation, !.foreign = drifted]
     \/ Errs
  /\ UNCHANGED <<control, controlled, workerVars>>

Hold ==
  /\ Due("hold") /\ control' = Read
  /\ Proceeds(IF Read = "running" THEN <<"pause">> ELSE <<>>)
  /\ UNCHANGED <<accepting, controlled, workerVars>>

\* A fresh Agda checks the patch; a rejected one leaves the run paused.
ValidateOption ==
  /\ Due("validate")
  /\ \/ Proceeds(<<>>) /\ accepting' = [accepting EXCEPT !.validated = TRUE]
     \/ Errs
  /\ UNCHANGED <<control, controlled, workerVars>>

Report ==
  /\ Due("report") /\ Proceeds(<<>>) /\ accepted' = TRUE
  /\ control' = Read
  /\ UNCHANGED <<accepting, groups, serving, drifted, workerVars>>

-----------------------------------------------------------------------------
(* The specification.                                                      *)

RunInit ==
  /\ control \in {"none", "running"} /\ doing = <<>> /\ accepting = NoAccept /\ accepted = FALSE
  /\ groups = FALSE /\ worker = "running" /\ term = FALSE /\ agda = "none" /\ variation = 0
  /\ stage = IF control = "none" THEN "searching" ELSE "starting"
  /\ result = FALSE /\ drifted = FALSE
  /\ serving = IF control = "none" THEN "no" ELSE "yes"

ControllerSteps ==
  \/ Pause \/ Freeze \/ Gather \/ ResumeRun \/ Stop \/ Term \/ Wait \/ Check \/ Hold
  \/ ValidateOption \/ Report \/ Served

OperatorSteps == EndOfInput \/ \E name \in Commands : Command(name)

\* The worker's steps but those of its search.
WorkerSteps == Starts \/ WritesResult \/ Exits

\* The run by itself: a worker that publishes and returns when it likes.
RunNext == ControllerSteps \/ OperatorSteps \/ WorkerSteps \/ Publishes \/ Returns \/ AgdaEnds \/ Drifts

RunSpec == RunInit /\ [][RunNext]_runVars

-----------------------------------------------------------------------------
(* Properties.                                                             *)

\* stop answers that the run is stopped: the worker is gone, whatever it did
\* between the signals, and Agda is not left frozen, so that it will notice.
StoppedMeansGone == control = "stopped" => worker = "gone" /\ agda # "frozen"

\* A goal is reported as accepted only when the patch of the very variation the
\* operator named was validated, the source was the launch's when the patch was
\* chosen, and the run is over: no worker goes on from there.
AcceptedWasValidated ==
  accepted =>
    /\ accepting.patch = accepting.named /\ accepting.validated /\ ~accepting.foreign
    /\ worker = "gone" /\ control \in Over

================================================================================
