------------------------------- MODULE SingleGoal -------------------------------
(***************************************************************************)
(* The prover for one goal (search.py, guided.py): the focused search, the *)
(* search by cases, the constructor search, a refutation, the guided       *)
(* search and at last the enumeration of small terms, on one allowance of  *)
(* actions and one deadline.  What any of them finds is rebuilt in the     *)
(* source and validated in a fresh process, and only then is it a proof.   *)
(* The focused search is FocusedSearch, the refutation is a constant, and  *)
(* the guided search is here; of the others only the answers are.          *)
(***************************************************************************)
EXTENDS FocusedSearch

CONSTANTS
  GoalTasks,    \* what is asked
  Refutations(_), \* what certify_impossible may come to, see Refutation
  MaxSolutions  \* how many solutions the constructor search returns

\* A task has its goal (problem) as the focused search reads it; what is so of
\* it (on): "alone" if another controller asks for the focused search and no
\* more, "productive", "opaque", "plain" for a session without transactions,
\* "spends" if the searches count actions, "exhausts" if the search by cases
\* may use up its share; the searches that find something
\* (finds); the answers of the validation (checks); the errors (trouble); the
\* number of small terms (terms); and the texts the guided search may make of
\* the clause (region), from the clause itself, which is text 0.
\* No text can be made.
NoText == -1

\* What the guided search may make of a text are texts of the region.
Leads(region) ==
  /\ 0 \in DOMAIN region /\ NoText \notin DOMAIN region
  /\ \A text \in DOMAIN region :
       /\ region[text].goals \in Nat
       /\ {region[text].focused.text, region[text].refined} \subseteq DOMAIN region \cup {NoText}
       /\ region[text].splits \in Seq(DOMAIN region \cup {NoText})

ASSUME GoalTasksAssumption ==
  /\ MaxSolutions \in Nat
  /\ \A t \in GoalTasks : t.problem \in Problems /\ Leads(t.region)

VARIABLES
  task,      \* the task
  stage,     \* where prove is
  outcome,   \* result.status
  patch,     \* result.patch, by the search that found it
  checked,   \* what a fresh process has checked
  chosen,    \* selected_policy_choices, by the solution they lead to
  credited,  \* the choices that were marked as those of a validated proof
  labelled,  \* the focused decisions are in the policy trace
  drawn,     \* budget.actions_used
  tried,     \* batched_attempted
  left,      \* solutions or terms that were not looked at yet
  complete,  \* generation_complete
  guided     \* the guided search

proofVars == <<patch, checked, chosen, credited, labelled>>
searchVars == <<drawn, tried, left, complete, guided>>
goalVars == <<task, stage, outcome, proofVars, searchVars>>

Nothing == "nothing"
Remaining == IF drawn < problem.budget THEN problem.budget - drawn ELSE 0
HasTerm == verdict = "solved"
Concludes(status) == stage' = "closing" /\ outcome' = status
GoesTo(next) == stage' = next /\ UNCHANGED outcome
Finds(search) == IF search \in task.finds THEN BOOLEAN ELSE {FALSE}

\* account_actions refuses what is more than was left.
Costs == IF "spends" \in task.on THEN {0, 1, Remaining + 1} ELSE {0}
Accounts(n, next) ==
  IF n <= Remaining THEN GoesTo(next) /\ drawn' = drawn + n ELSE Concludes("invalid-task") /\ UNCHANGED drawn

-----------------------------------------------------------------------------
(* What is found is validated.                                             *)

\* Wrong: the choices of a rejected solution stay selected.
ChoosesForGood(search) == chosen

\* After a rejection nothing of the solution is left.
Unchosen(search) == IF search \in {"cases", "constructor", "guided"} THEN Nothing ELSE chosen

\* _finish_guided_candidate and _finish_verified_candidate; next is where the
\* search goes on after an ordinary rejection.
Validates(search, next) ==
  /\ search \in task.finds
  /\ \/ /\ overdue /\ Concludes("resource-exhausted") /\ UNCHANGED proofVars
     \/ /\ ~overdue
        /\ \E answer \in task.checks :
             \/ /\ answer = "checked"
                /\ Concludes("verified") /\ patch' = search /\ checked' = search
                /\ UNCHANGED <<chosen, labelled>>
             \/ /\ answer \in {"timed out", "prefix exhausted", "prefix unavailable"}
                /\ Concludes(IF answer = "prefix unavailable" THEN "toolchain-error" ELSE "resource-exhausted")
                /\ patch' = Nothing
                /\ UNCHANGED <<checked, chosen, labelled>>
             \/ /\ answer = "rejected"
                /\ stage' = next /\ outcome' = "unsolved" /\ patch' = Nothing
                /\ chosen' = Unchosen(search)
                /\ labelled' = (labelled /\ search # "focused")
                /\ UNCHANGED checked
        /\ UNCHANGED credited

-----------------------------------------------------------------------------
(* prove, search by search.                                                *)

Starts ==
  /\ stage = "open"
  /\ IF problem.budget = 0 /\ "alone" \notin task.on THEN Concludes("invalid-task") ELSE GoesTo("focused")
  /\ UNCHANGED <<focusedVars, task, proofVars, searchVars>>

Focuses == stage = "focused" /\ FocusedNext /\ UNCHANGED goalVars

\* Only the deadline ends everything at once; a search that was asked for alone
\* goes back to whoever asked.
Focused ==
  /\ stage = "focused" /\ verdict \notin {"asked", "running"}
  /\ IF "alone" \in task.on \/ (verdict = "resource-exhausted" /\ hard = "wall-time")
     THEN Concludes("resource-exhausted") ELSE GoesTo("productive")
  /\ drawn' = considered /\ labelled' = (decided # <<>>)
  /\ UNCHANGED <<focusedVars, task, patch, checked, chosen, credited, tried, left, complete, guided>>

\* has_result_subject_elimination_shape: cases may come first.
Productive ==
  /\ stage = "productive"
  /\ GoesTo(IF "productive" \in task.on /\ ~HasTerm THEN "cases first" ELSE "construct")
  /\ UNCHANGED <<focusedVars, task, proofVars, searchVars>>

AfterCases == IF stage = "cases first" THEN "construct" ELSE "guide"

\* attempt_batched_case, which is made once.
Cases ==
  /\ stage \in {"cases first", "cases"}
  /\ \/ tried /\ GoesTo(AfterCases) /\ UNCHANGED <<drawn, tried, chosen>>
     \/ /\ ~tried /\ (Remaining = 0 \/ overdue)
        /\ Concludes("resource-exhausted") /\ tried' = TRUE /\ UNCHANGED <<drawn, chosen>>
     \/ /\ ~tried /\ Remaining > 0 /\ ~overdue /\ tried' = TRUE
        /\ \E n \in Costs, answer \in {"found", "no proof", "exhausted"} :
             \/ /\ answer = "found" /\ "cases" \in task.finds
                /\ Accounts(n, IF stage = "cases first" THEN "case proof first" ELSE "case proof")
                /\ chosen' = (IF n <= Remaining THEN "cases" ELSE chosen)
             \/ answer = "no proof" /\ Accounts(n, AfterCases) /\ UNCHANGED chosen
             \/ /\ answer = "exhausted" /\ "exhausts" \in task.on /\ n <= Remaining
                /\ Concludes("resource-exhausted") /\ drawn' = drawn + n /\ UNCHANGED chosen
  /\ UNCHANGED <<focusedVars, task, patch, checked, credited, labelled, left, complete, guided>>

CaseProof ==
  /\ stage \in {"case proof first", "case proof"}
  /\ Validates("cases", IF stage = "case proof first" THEN "construct" ELSE "guide")
  /\ UNCHANGED <<focusedVars, task, searchVars>>

\* Solutions that leave the goal for the source, the first first.
Construct ==
  /\ stage = "construct"
  /\ IF HasTerm \/ task.on \cap {"opaque", "plain"} # {}
     THEN GoesTo("refute") /\ UNCHANGED <<drawn, left>>
     ELSE \/ overdue /\ Concludes("resource-exhausted") /\ UNCHANGED <<drawn, left>>
          \/ /\ ~overdue
             /\ \E n \in Costs, k \in (IF "constructor" \in task.finds THEN 0..MaxSolutions ELSE {0}) :
                  Accounts(n, IF k = 0 THEN "refute" ELSE "solutions") /\ left' = k
  /\ UNCHANGED <<focusedVars, task, proofVars, tried, complete, guided>>

Choose ==
  /\ stage = "solutions"
  /\ GoesTo(IF left = 0 THEN "refute" ELSE "constructor proof")
  /\ chosen' = (IF left = 0 THEN chosen ELSE "constructor")
  /\ left' = (IF left = 0 THEN 0 ELSE left - 1)
  /\ UNCHANGED <<focusedVars, task, patch, checked, credited, labelled, drawn, tried, complete, guided>>

ConstructorProof ==
  /\ stage = "constructor proof"
  /\ Validates("constructor", "solutions")
  /\ UNCHANGED <<focusedVars, task, searchVars>>

\* A refutation is looked for when the focused search says there is no proof.
Refute ==
  /\ stage = "refute"
  /\ LET answers == IF verdict = "no-proof" /\ ~overdue THEN Refutations(problem) ELSE {"none"}
     IN \/ "certified" \in answers /\ Concludes("impossible")
        \/ ("none" \in answers \/ "checker" \in task.trouble) /\ GoesTo("check")
  /\ UNCHANGED <<focusedVars, task, proofVars, searchVars>>

\* Agda is asked about the focused term before it is rebuilt.
Check ==
  /\ stage = "check"
  /\ \/ ~HasTerm /\ GoesTo("cases") /\ UNCHANGED proofVars
     \/ HasTerm /\ Validates("focused", "cases")
     \/ /\ HasTerm /\ GoesTo("cases") /\ labelled' = FALSE
        /\ UNCHANGED <<patch, checked, chosen, credited>>
  /\ UNCHANGED <<focusedVars, task, searchVars>>

-----------------------------------------------------------------------------
(* guided_prove: a text is a state of the clause, known by its digest, with *)
(* what Agda and the policies say of it: whether it loads, its open goals,  *)
(* whether a text without goals can be rebuilt, what the focused search of  *)
(* its first goal comes to, the text of its empty refinement and those of   *)
(* its case splits, or NoText.                                             *)

Region(text) == task.region[text]

\* Wrong: the digest leaves the queue after it was looked for.
SeenOrQueued(g, text) == text \in g.seen \cup g.queued

AlreadyExpanded(g, text) == text \in g.seen

Enqueue(g, text) ==
  IF text \in g.seen \cup g.queued THEN g
  ELSE [g EXCEPT !.queued = @ \cup {text}, !.sequence = @ + 1,
                 !.queue = @ \cup {[text |-> text, depth |-> g.now.depth + 1, sequence |-> g.sequence + 1]}]

\* BatchedFrontier: by depth and open goals, by open goals, in order.
Priority(s) == <<s.depth + Region(s.text).goals, Region(s.text).goals, s.sequence>>
Best(g) == CHOOSE s \in g.queue : \A other \in g.queue \ {s} : Precedes(Priority(s), Priority(other))

InitialGuided(allowance) ==
  LET root == [text |-> 0, depth |-> 0, sequence |-> 0]
  IN [at |-> "pop", queue |-> {root}, sequence |-> 0, seen |-> {}, queued |-> {0}, now |-> root,
      splits |-> <<>>, used |-> 0, allowance |-> allowance, cut |-> FALSE]

Guides(place) == stage = "guided" /\ guided.at = place
Spent(g) == overdue \/ g.used >= g.allowance
GuidedStep(g) == guided' = g /\ UNCHANGED <<focusedVars, task, stage, outcome, proofVars, drawn, tried, left, complete>>
At(g, place) == [g EXCEPT !.at = place]

Guide ==
  /\ stage = "guide"
  /\ \/ (Remaining = 0 \/ overdue) /\ Concludes("resource-exhausted") /\ UNCHANGED guided
     \/ /\ Remaining > 0 /\ ~overdue /\ GoesTo("guided")
        /\ guided' = (IF "shapeless" \in task.on THEN At(InitialGuided(Remaining), "no-proof") ELSE InitialGuided(Remaining))
  /\ UNCHANGED <<focusedVars, task, proofVars, drawn, tried, left, complete>>

GuidedPop ==
  /\ Guides("pop")
  /\ LET s == Best(guided)
         r == Region(s.text)
         popped == [guided EXCEPT !.queue = @ \ {s}, !.queued = @ \ {s.text}, !.now = s]
         expanded == [popped EXCEPT !.seen = @ \cup {s.text}]
     IN GuidedStep(
          IF guided.queue = {} THEN At(guided, IF guided.cut THEN "exhausted" ELSE "no-proof")
          ELSE IF Spent(guided) THEN [guided EXCEPT !.at = "exhausted", !.cut = TRUE]
          ELSE IF AlreadyExpanded(guided, s.text) THEN popped
          ELSE IF ~r.loads \/ (r.goals = 0 /\ ~r.rebuilds) THEN expanded
          ELSE IF r.goals = 0 THEN At(expanded, "solved")
          ELSE IF problem.limit # NoLimit /\ s.depth >= problem.limit THEN [expanded EXCEPT !.cut = TRUE]
          ELSE At(expanded, "focus"))

\* A focused term is the only way on from its text; a search of its own that
\* was cut by the depth leaves the others.
GuidedFocus ==
  /\ Guides("focus")
  /\ LET f == Region(guided.now.text).focused
         done == [guided EXCEPT !.used = @ + f.costs]
     IN GuidedStep(
          IF overdue THEN [guided EXCEPT !.at = "pop", !.cut = TRUE]
          ELSE IF guided.used + f.costs > guided.allowance THEN [guided EXCEPT !.at = "pop", !.cut = TRUE, !.used = guided.allowance]
          ELSE IF f.text # NoText THEN At(Enqueue(done, f.text), "pop")
          ELSE [done EXCEPT !.at = "refine", !.cut = @ \/ f.deep])

GuidedRefine ==
  /\ Guides("refine")
  /\ LET r == Region(guided.now.text)
         charged == [guided EXCEPT !.used = @ + 1]
     IN GuidedStep(
          IF Spent(guided) THEN [guided EXCEPT !.at = "exhausted", !.cut = TRUE]
          ELSE IF r.refined # NoText THEN At(Enqueue(charged, r.refined), "pop")
          ELSE [charged EXCEPT !.at = "split", !.splits = r.splits])

GuidedSplit ==
  /\ Guides("split")
  /\ LET charged == [guided EXCEPT !.used = @ + 1, !.splits = Tail(@)]
     IN GuidedStep(
          IF guided.splits = <<>> THEN At(guided, "pop")
          ELSE IF Spent(guided) THEN [guided EXCEPT !.at = "pop", !.cut = TRUE]
          ELSE IF Head(guided.splits) = NoText THEN charged ELSE Enqueue(charged, Head(guided.splits)))

Guided ==
  /\ stage = "guided" /\ guided.at \in {"solved", "no-proof", "exhausted"}
  /\ IF guided.at = "exhausted" /\ guided.used <= Remaining
     THEN Concludes("resource-exhausted") /\ drawn' = drawn + guided.used
     ELSE Accounts(guided.used, IF guided.at = "solved" THEN "guided proof" ELSE "terms")
  /\ UNCHANGED <<focusedVars, task, proofVars, tried, left, complete, guided>>

GuidedProof ==
  /\ stage = "guided proof"
  /\ Validates("guided", "terms")
  /\ UNCHANGED <<focusedVars, task, searchVars>>

-----------------------------------------------------------------------------
(* The enumeration, and the end.                                           *)

\* As many terms as there are actions left; the fragment is complete only if
\* the generator came to its end before.
Enumerate ==
  /\ stage = "terms"
  /\ IF overdue THEN Concludes("resource-exhausted") /\ UNCHANGED <<left, complete>>
     ELSE /\ GoesTo("try")
          /\ complete' = (task.terms < Remaining)
          /\ left' = (IF task.terms < Remaining THEN task.terms ELSE Remaining)
  /\ UNCHANGED <<focusedVars, task, proofVars, drawn, tried, guided>>

Try ==
  /\ stage = "try"
  /\ \/ /\ left = 0 /\ Concludes(IF complete THEN "unsolved" ELSE "resource-exhausted")
        /\ UNCHANGED <<drawn, left>>
     \/ left > 0 /\ (overdue \/ Remaining = 0) /\ Concludes("resource-exhausted") /\ UNCHANGED <<drawn, left>>
     \/ /\ left > 0 /\ ~overdue /\ Remaining > 0
        /\ \E accepted \in Finds("terms") : GoesTo(IF accepted THEN "term proof" ELSE "try")
        /\ drawn' = drawn + 1 /\ left' = left - 1
  /\ UNCHANGED <<focusedVars, task, proofVars, tried, complete, guided>>

TermProof ==
  /\ stage = "term proof"
  /\ Validates("terms", "try")
  /\ UNCHANGED <<focusedVars, task, searchVars>>

\* Whatever ended the search, the ledger has the last word, and only a
\* verified result credits its choices.
GoalCloses ==
  /\ stage = "closing" /\ stage' = "done"
  /\ outcome' \in {outcome} \cup (IF "ledger" \in task.trouble THEN {"resource-exhausted"} ELSE {})
  /\ credited' = (IF outcome' = "verified" THEN chosen ELSE Nothing)
  /\ UNCHANGED <<focusedVars, task, patch, checked, chosen, labelled, searchVars>>

Busy == stage \notin {"open", "closing", "done"}

\* The errors that leave a search, and what prove makes of them.
ErrorStatus == [input |-> "invalid-task", protocol |-> "toolchain-error", policy |-> "policy-rejected",
                resource |-> "resource-exhausted", system |-> "toolchain-error"]

GoalRaises ==
  /\ Busy
  /\ \E error \in task.trouble \cap DOMAIN ErrorStatus : Concludes(ErrorStatus[error])
  /\ UNCHANGED <<focusedVars, task, proofVars, searchVars>>

GoalExpires ==
  /\ Busy /\ stage # "focused" /\ problem.slow /\ ~overdue /\ overdue' = TRUE
  /\ UNCHANGED <<problem, calls, returned, memo, considered, pruned, cycles, hard, decided, verdict, goalVars>>

GoalInit ==
  /\ task \in GoalTasks /\ FocusedInit /\ problem = task.problem
  /\ stage = "open" /\ outcome = "internal-error"
  /\ patch = Nothing /\ checked = Nothing /\ chosen = Nothing /\ credited = Nothing /\ labelled = FALSE
  /\ drawn = 0 /\ tried = FALSE /\ left = 0 /\ complete = FALSE
  /\ guided = InitialGuided(0)

GoalSteps ==
  \/ Starts \/ Focuses \/ Focused \/ Productive \/ Cases \/ CaseProof
  \/ Construct \/ Choose \/ ConstructorProof \/ Refute \/ Check
  \/ Guide \/ GuidedPop \/ GuidedFocus \/ GuidedRefine \/ GuidedSplit \/ Guided \/ GuidedProof
  \/ Enumerate \/ Try \/ TermProof \/ GoalCloses

GoalNext == GoalSteps \/ GoalRaises \/ GoalExpires

-----------------------------------------------------------------------------

\* What leaves prove is due to the proof it leaves with: a patch was checked in
\* a fresh process, a verified result has one, and the choices and decisions
\* that are published as those of a validated proof are the patch's, whatever
\* other solutions were chosen, checked and rejected before.
CreditIsDue ==
  stage = "done" =>
    /\ patch # Nothing => checked = patch
    /\ outcome = "verified" => patch # Nothing
    /\ credited # Nothing => outcome = "verified" /\ credited = patch
    /\ outcome = "verified" /\ labelled => patch = "focused"

\* The texts the guided search may reach from one it has expanded.
Continuations(r) ==
  IF ~r.loads \/ r.goals = 0 THEN {}
  ELSE IF r.focused.text # NoText THEN {r.focused.text}
  ELSE IF r.refined # NoText THEN {r.refined} ELSE Range(r.splits) \ {NoText}

\* The guided search reports no proof only of a region it has seen all of: the
\* clause, every text that follows from one it has seen, none of them a proof;
\* and the goal is unsolved only after that, or after a rejected proof, once
\* every small term was tried.
UnsolvedIsEarned ==
  /\ guided.at = "no-proof" /\ "shapeless" \notin task.on =>
       /\ 0 \in guided.seen /\ ~guided.cut
       /\ \A text \in guided.seen :
            /\ Continuations(Region(text)) \subseteq guided.seen
            /\ ~(Region(text).loads /\ Region(text).goals = 0 /\ Region(text).rebuilds)
  /\ stage = "done" /\ outcome = "unsolved" =>
       tried /\ complete /\ left = 0 /\ guided.at \in {"solved", "no-proof"}

=================================================================================
