----------------------------- MODULE MCFocusedSearch -----------------------------
(* The small goals for the focused search alone.                                *)
EXTENDS FocusedTruth

Small == INSTANCE MCGoalTasks

MCProblems == Small!MCProblems
MCTypes == Small!MCTypes
==================================================================================
