-------------------------- MODULE MCKernelSession --------------------------
(***************************************************************************)
(* Small instances of KernelSession for TLC; they differ in the faults     *)
(* they let happen.                                                        *)
(***************************************************************************)
EXTENDS KernelSession

\* The faults after which the session's belief is still true.
Contained == {"lost", "denied", "exit", "replay-rejected"}

\* Faults after which it is not: a call refused before the process is asked,
\* after the marker should have moved, and an exit in the middle of a call.
\* Each of them alone is enough.
Leaking == {"denied-in-replay", "state-limit", "exit-in-call"}
=============================================================================
