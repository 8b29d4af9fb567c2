-------------------------------- MODULE MCProver --------------------------------
(***************************************************************************)
(* Small runs of the prover for TLC.                                       *)
(***************************************************************************)
EXTENDS Prover

CONSTANTS a1

Ask(lanes, budget, depth, reuse, trouble) ==
  [lanes |-> lanes, budget |-> budget, depth |-> depth, behind |-> <<"hole">>, reuse |-> reuse, exactLocal |-> TRUE,
   trouble |-> trouble]

Relations(lanes) == {"recursive specs", "calls"} \cup lanes

\* Every lane, with what comes before it, and every trouble.
MCCaseRequests ==
  {Ask({CaseLanes[i]}, 3, 2, TRUE, {}) : i \in 1..15}
  \cup {Ask({"result split", "copattern"}, 3, 1, TRUE, {"overlap", "late"})}
  \cup {Ask({CaseLanes[i]}, 3, 1, FALSE, {"unloadable"}) : i \in 34..37}
  \cup {Ask(Relations({"seed functions", "lifts", "anchors", "descendants", "bridges", "tower"}), 3, 0, TRUE, {}),
        Ask(Relations({"scope functions", "lifted applications", "preliminary", "contextual evidence"}), 3, 0, TRUE, {}),
        Ask(Relations({"direct closure", "speculative context", "endpoint evidence", "last closure"}), 2, 0, TRUE, {}),
        Ask(Relations({"saturation", "saturated closure", "rounds"}), 3, 0, TRUE, {}),
        Ask({"program calls", "program wrappers"}, 3, 1, TRUE, {}),
        Ask({"recursive specs", "calls"}, 2, 1, TRUE, {"late", "raises"}),
        Ask({"program parameter", "program structure", "focused leaf", "empty refinement", "recursive clause",
             "result split", "construction"}, 5, 1, TRUE, {}),
        Ask({"program parameter", "program calls", "arrow"}, 3, 1, TRUE, {}),
        Ask({"construction"}, 4, 2, TRUE, {}), Ask(Relations({}), 4, 2, TRUE, {}),
        Ask({"arrow"}, 2, 2, TRUE, {"marks", "malformed"})}

Task(goals, limit, depth, lanes, on, trouble) ==
  [goals |-> goals, limit |-> limit, depth |-> depth, lanes |-> lanes, on |-> on, trouble |-> trouble]

MCAttendedTasks == {Task(1, 1, 1, {}, {}, {})}

MCJointTasks == MCAttendedTasks \cup {
  Task(2, 3, 2, {"ellipsis", "exact local"}, {"relation"}, {}),
  Task(2, 2, 2, {}, {"observed"}, {"dead"}),
  Task(1, 3, 2, {}, {"batch", "compete"}, {"rejects"}),
  Task(2, 3, 1, {}, {"ready", "relation"}, {"dead"}),
  Task(1, 2, 2, {"exact local"}, {"nullary", "observed", "equations"}, {"late"}),
  Task(1, 2, 2, {}, {"alternatives"}, {}),
  Task(1, 2, 2, {"ellipsis", "arrow"}, {"nullary", "builder"}, {"raises", "unparsed", "timed out", "denied"})}

\* One function goal: its case search has one action left and takes two.
MCOverspendingTasks == {Task(1, 2, 2, {"ellipsis", "arrow"}, {"nullary"}, {})}

\* One goal for a value: an observed candidate is refused, and counts.
MCObservedTasks == {Task(1, 3, 2, {}, {"observed", "alternatives"}, {"rejects"})}

NoCaseRequests == {}
NoTasks == {}

MCAllowances == {[calls |-> 1, io |-> 1, disk |-> 1], [calls |-> 2, io |-> 2, disk |-> 2]}
MCOneAllowance == {[calls |-> 1, io |-> 1, disk |-> 1]}
NativeTask(goals, mode, observed) == [goals |-> goals, mode |-> mode, observed |-> observed]
MCNativeTasks == {NativeTask(0, "direct", FALSE), NativeTask(2, "prove", TRUE), NativeTask(1, "prove", FALSE), NativeTask(1, "step", FALSE),
                  NativeTask(1, "steps", FALSE), NativeTask(1, "evidence", FALSE)}

MCRunFaults == {"crash", "deaf", "blind", "drift"}
================================================================================
