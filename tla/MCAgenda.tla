------------------------------ MODULE MCAgenda ------------------------------
(***************************************************************************)
(* Small instances of Agenda for TLC.                                      *)
(***************************************************************************)
EXTENDS Agenda

CONSTANTS s1, s2, s3

Flat == [s \in States |-> 0]

\* The state reached last looks best: it has the fewest obligations.
Remaining == [s \in States |-> CASE s = s1 -> 2 [] s = s2 -> 1 [] OTHER -> 0]

MCEstimates == {Flat, Remaining}
MCOrders    == {Remaining}
NoLimits    == {NoLimit}
SomeLimits  == {NoLimit, 0, 1}
OneLimit    == {1}
MCPenalties == {0, 1}
=============================================================================
