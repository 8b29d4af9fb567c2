---------------------------- MODULE StructuralSearch ----------------------------
(***************************************************************************)
(* The structural search with the premises it reads and the prover for one *)
(* goal that calls it.  ConstructorSearch takes whatever a ranking may     *)
(* offer and SingleGoal whatever a search may answer, so the steps of the  *)
(* three are not interleaved: a behaviour is about one search, or, before  *)
(* the search of one request begins, about its premises in every order, or *)
(* about one task of the prover.                                           *)
(***************************************************************************)
EXTENDS ConstructorSearch, PremiseRetrieval, SingleGoal, FocusedTerms

CONSTANTS
  Reader,  \* the request whose premises are read
  Resting  \* the task of the behaviours that are not about the prover

ASSUME ReaderAssumption == Reader \in Requests
ASSUME RestingAssumption == Resting \in GoalTasks

driverVars == <<focusedVars, goalVars>>
allVars == <<vars, retrievalVars, driverVars>>

Searches == task = Resting /\ Search /\ UNCHANGED <<retrievalVars, driverVars>>

SearchTroubles == task = Resting /\ (Raise \/ Expire) /\ UNCHANGED <<retrievalVars, driverVars>>

ReadsPremises ==
  task = Resting /\ ask = Reader /\ status = "asked" /\ RetrievalNext /\ UNCHANGED <<vars, driverVars>>

Proves == task # Resting /\ GoalSteps /\ UNCHANGED <<vars, retrievalVars>>

ProverTroubles ==
  task # Resting /\ (GoalRaises \/ GoalExpires) /\ UNCHANGED <<vars, retrievalVars>>

StructuralInit == Init /\ RetrievalInit /\ GoalInit /\ (task = Resting \/ ask = Reader)

StructuralNext == Searches \/ SearchTroubles \/ ReadsPremises \/ Proves \/ ProverTroubles

\* One thread runs them all.
StructuralSpec == StructuralInit /\ [][StructuralNext]_allVars /\ WF_allVars(Searches \/ Proves)

-----------------------------------------------------------------------------

\* Every term that is remembered or returned has the type it was found for,
\* whatever path found it, see FocusedTerms.
ProofsAreProofs == stage = "focused" => TermsAreTyped

\* The decisions that leave the search are those of the proof it returns, see
\* FocusedTerms.
LabelsAreTheProofs == stage = "focused" => LabelsBelong

\* Every search comes to an answer: the structural search whatever Agda accepts,
\* since cycles, depth and allowance end it although no lane bounds the uncharged
\* gives, and the prover wherever the allowance or the deadline of its focused
\* and its guided search runs out.
SearchesEnd == <>(IF task = Resting THEN Terminated ELSE stage = "done")

=================================================================================
