--------------------------- MODULE KernelSession ---------------------------
(***************************************************************************)
(* ConformingKernelSession (bridge/session.py) over AgdaJsonTransport      *)
(* (bridge/transport.py): one client, one Agda process, and immutable      *)
(* proof-state tokens implemented by "source revision + accepted action    *)
(* lineage", i.e. by reloading the module and replaying the lineage.       *)
(*                                                                         *)
(* A call of the session is a sequence of transport commands.  Each        *)
(* command is one step; between two commands the process may exit, the     *)
(* sources on disk may change, another thread may cancel, the deadline     *)
(* may pass.  _active_state (variable active) is the session's belief      *)
(* about what the live process holds (variable content); everything here   *)
(* is about whether that belief is true when it is used.                   *)
(***************************************************************************)
EXTENDS Naturals, Sequences, FiniteSets

CONSTANTS
  Envs,           \* resolved projects: environment identity and source revision
  Modules,        \* modules of a resolved project
  Acts,           \* action inputs (an interaction and an expression)
  Residue,        \* what a rejected or automatic give may leave in Agda
  None,           \* no token, no reply, no project
  NoSnapshot,     \* the process has no current file
  ReuseReads,     \* AGDAPROVER_REUSE_SCOPED_READS
  MaxStates,      \* BridgeBudget.artifact_count
  Faults,         \* the failures this instance lets happen, see FaultKinds
  MaxSequence,    \* bound on issued tokens
  MaxGeneration   \* bound on process starts

(***************************************************************************)
(* "lost"     a timeout, EOF, oversized or malformed response, or a shared *)
(*            quota: the command fails and poisons the process             *)
(* "denied"   refused before the write (verifier quota, oversized wire)    *)
(* "denied-in-replay"  the same, between the commands of one activation    *)
(* "late"     the final supervisor.check fails after Agda answered         *)
(* "exit"     the process exits while no call is in progress               *)
(* "exit-in-call"  it exits between two commands of one call               *)
(* "replay-rejected"   Agda refuses a reload or a lineage action           *)
(* "load-rejected"     LoadModule of a module that does not load           *)
(* "state-limit"       LoadModule when artifact_count states exist         *)
(* "recheck"  a give is rejected although its check was accepted           *)
(***************************************************************************)
FaultKinds == {"lost", "denied", "denied-in-replay", "late", "exit",
               "exit-in-call", "replay-rejected", "load-rejected",
               "state-limit", "recheck"}

Snapshot == [env : Envs, mod : Modules, lin : Seq(Acts \cup {Residue})]
Token    == [env : Envs, mod : Modules, lin : Seq(Acts), gen : Nat, seq : Nat]

\* `at` is what the process held when it computed the verdict.
Committing == {"give", "check-give"}
Kinds == Committing \cup {"load", "check", "trial", "observe", "look", "auto"}
Call  == [kind : Kinds, tok : Token \cup {None}, mod : Modules,
          act : Acts \cup {None}]
Reply == [tok : Token, accepted : BOOLEAN, at : Snapshot \cup {NoSnapshot}]

ASSUME ConstantsAssumption ==
  /\ Faults \subseteq FaultKinds
  /\ Residue \notin Acts
  /\ None \notin Token \cup Envs \cup Acts \cup Reply \cup Call
  /\ NoSnapshot \notin Snapshot
  /\ ReuseReads \in BOOLEAN
  /\ MaxStates \in Nat /\ MaxSequence \in Nat /\ MaxGeneration \in Nat

VARIABLES
  project,   \* the resolved project the session is bound to
  overlay,   \* the project whose sources _runtime_sources holds
  intact,    \* the projects whose sources on disk still have their hashes
  up,        \* the child process: "none", "live" or "exited"
  gen,       \* transport.process_generation
  content,   \* what the live process's current file and TCM state stand for
  tclosed,   \* transport._closed
  halted,    \* cancelled, past the deadline, or a sticky quota exhausted
  states,    \* the tokens in _states (a token carries its record's lineage)
  issued,    \* every token ever registered: what a client may still hold
  seq,       \* _state_sequence
  active,    \* _active_state
  lastRead,  \* _last_scoped_read
  pc,        \* the command the current call issues next
  call,      \* the current call
  pos,       \* the lineage action to replay next
  undo,      \* the activation in progress is a rollback
  pending,   \* the verdict a rollback or an inspection has yet to deliver
  reply      \* the last completed verdict or observation

procVars  == <<up, gen, content>>
tableVars == <<states, issued, seq>>
projectVars == <<project, overlay, intact>>
vars == <<project, overlay, intact, up, gen, content, tclosed, halted, states,
          issued, seq, active, lastRead, pc, call, pos, undo, pending, reply>>

TypeOK ==
  /\ project \in Envs \cup {None} /\ overlay \in Envs \cup {None}
  /\ intact \subseteq Envs
  /\ up \in {"none", "live", "exited"} /\ gen \in Nat
  /\ content \in Snapshot \cup {NoSnapshot}
  /\ tclosed \in BOOLEAN /\ halted \in BOOLEAN
  /\ states \subseteq Token /\ issued \subseteq Token /\ seq \in Nat
  /\ active \in Token \cup {None}
  /\ lastRead \in [tok : Token, at : Snapshot \cup {NoSnapshot}] \cup {None}
  /\ pc \in {"idle", "open", "load", "replay", "act", "give", "inspect"}
  /\ call \in Call \cup {None}
  /\ pos \in Nat /\ undo \in BOOLEAN
  /\ pending \in Reply \cup {None} /\ reply \in Reply \cup {None}

Init ==
  /\ project = None /\ overlay = None /\ intact = Envs
  /\ up = "none" /\ gen = 0 /\ content = NoSnapshot
  /\ tclosed = FALSE /\ halted = FALSE
  /\ states = {} /\ issued = {} /\ seq = 0
  /\ active = None /\ lastRead = None
  /\ pc = "idle" /\ call = None /\ pos = 0 /\ undo = FALSE
  /\ pending = None /\ reply = None

-----------------------------------------------------------------------------
(* The transport: one command.                                             *)

Live == up = "live"

SnapshotOf(t) == [env |-> t.env, mod |-> t.mod, lin |-> t.lin]
RootOf(m)     == [env |-> overlay, mod |-> m, lin |-> <<>>]
Extend(c, a)  == [c EXCEPT !.lin = Append(@, a)]

\* command() respawns a process that exited: the new one has no current file.
Held == IF Live THEN content ELSE NoSnapshot

\* Agda serves a command only for the file it has loaded.
Serves(m) == Held # NoSnapshot /\ Held.mod = m

Verdicts(m) == IF Serves(m) THEN BOOLEAN ELSE {FALSE}

Opened == gen' = (IF Live THEN gen ELSE gen + 1) /\ up' = "live"

Poisoned == up' = "none" /\ content' = NoSnapshot

\* A complete response, and the state `next` it leaves the process in.
Answered(next) == ~tclosed /\ ~halted /\ Opened /\ content' = next

\* Raised before the write: nothing reached Agda.  open() may have respawned.
Refused ==
  \/ UNCHANGED procVars
  \/ ~tclosed /\ ~Live /\ Opened /\ content' = NoSnapshot

\* Write, read or decode failed: the process is terminated.
Lost == ~tclosed /\ Poisoned /\ gen' = (IF Live THEN gen ELSE gen + 1)

\* Agda answered and the final resource check raised: no poisoning.
Late(next) == ~tclosed /\ Opened /\ content' = next

\* A command that raises; `denial` names the fault that lets it be refused.
Fails(denial, next) ==
  \/ (tclosed \/ halted \/ denial \in Faults) /\ Refused
  \/ (halted \/ "lost" \in Faults) /\ Lost
  \/ (halted \/ "late" \in Faults) /\ Late(next)

MayFail(denial) == tclosed \/ halted \/ Faults \cap {denial, "lost", "late"} # {}

CloseTransport == tclosed' = TRUE /\ Poisoned /\ UNCHANGED gen

-----------------------------------------------------------------------------
(* Tokens and the end of a call.                                           *)

\* Wrong: tokens survive the restart of the process.
ValidAnyGeneration(t) == t.env = project /\ Live /\ t \in states

\* _validate_token; _states is searched by sequence number and hash.
Valid(t) == t.env = project /\ Live /\ t.gen = gen /\ t \in states

SourcesUnchanged == project \in intact

\* Wrong: numbered by the size of the table, so numbers come back.
NewTokenByCount(m, lin, n) ==
  [env |-> project, mod |-> m, lin |-> lin, gen |-> gen', seq |-> Cardinality(states) + 1]

\* A token of the generation the command just answered has.
NewToken(m, lin, n) ==
  [env |-> project, mod |-> m, lin |-> lin, gen |-> gen', seq |-> n]

Goto(label)  == pc' = label /\ pos' = 0 /\ UNCHANGED <<call, undo, pending, reply>>
Return(r)    == /\ pc' = "idle" /\ reply' = r
                /\ call' = None /\ pos' = 0 /\ undo' = FALSE /\ pending' = None
Raise        == Return(None)
Verdict(t, ok) == [tok |-> t, accepted |-> ok, at |-> Held]

-----------------------------------------------------------------------------
(* Calls on a token: _activate, then the command of the call.              *)

CanIssue == seq + 2 <= MaxSequence
CanSpawn == Live \/ gen < MaxGeneration

\* ActionInput: actions carry an expression, observations do not.
Expects(kind, a) == a # None <=> kind \in Committing \cup {"trial"}

Begin(kind, t, a) ==
  /\ pc = "idle" /\ project # None /\ ~halted
  /\ kind \in Kinds \ {"load"}
  /\ Expects(kind, a)
  /\ kind \in Committing => CanIssue
  /\ SourcesUnchanged /\ Valid(t)
  /\ call' = [kind |-> kind, tok |-> t, mod |-> t.mod, act |-> a]
  /\ pc' = (IF active = t THEN "act" ELSE "load")
  /\ reply' = None /\ UNCHANGED <<pos, undo, pending>>
  /\ UNCHANGED <<projectVars, procVars, tableVars, tclosed, halted, active, lastRead>>

\* Every call checks the sources first: a change forgets the active state.
BeginOnChangedSources ==
  /\ pc = "idle" /\ project # None /\ ~SourcesUnchanged
  /\ active' = None
  /\ Raise
  /\ UNCHANGED <<projectVars, procVars, tableVars, tclosed, halted, lastRead>>

\* A call on a halted session is refused before its first write, or poisons
\* the process during it.
BeginHalted ==
  /\ pc = "idle" /\ project # None /\ halted
  /\ UNCHANGED procVars \/ (Live /\ Poisoned /\ UNCHANGED gen)
  /\ active' \in {active, None}
  /\ Raise
  /\ UNCHANGED <<projectVars, tableVars, tclosed, halted, lastRead>>

-----------------------------------------------------------------------------
(* _activate: reload the module, then replay the lineage.                  *)

\* The activation is complete: run the command, or end the rollback.
Activated ==
  /\ active' = call.tok
  /\ IF undo THEN Return(pending) ELSE Goto("act")

\* Wrong: the failed rollback forgets the marker and leaves the process be,
\* or starts over.
OnlyForget == active' = None /\ Raise /\ UNCHANGED <<procVars, tclosed>>
RetryRollback ==
  /\ pc' = "load" /\ active' = None
  /\ UNCHANGED <<procVars, tclosed, call, pos, undo, pending, reply>>

\* _rollback_to closes the transport whatever stops the activation.
CloseAndForget == CloseTransport /\ active' = None /\ Raise

Reload ==
  /\ pc = "load"
  /\ undo => SourcesUnchanged /\ Valid(call.tok)
  /\ Answered(RootOf(call.mod))
  /\ IF call.tok.lin = <<>>
     THEN Activated
     ELSE /\ pc' = "replay" /\ pos' = 1
          /\ UNCHANGED <<active, call, undo, pending, reply>>
  /\ UNCHANGED <<projectVars, tableVars, tclosed, halted, lastRead>>

Replay ==
  /\ pc = "replay"
  /\ Serves(call.mod)
  /\ Answered(Extend(Held, call.tok.lin[pos]))
  /\ IF pos = Len(call.tok.lin)
     THEN Activated
     ELSE /\ pos' = pos + 1
          /\ UNCHANGED <<active, pc, call, undo, pending, reply>>
  /\ UNCHANGED <<projectVars, tableVars, tclosed, halted, lastRead>>

\* An error in the reload or in a replayed action closes the transport.
ActivationRejected ==
  /\ \/ pc = "load" /\ "replay-rejected" \in Faults
     \/ pc = "replay" /\ ("replay-rejected" \in Faults \/ ~Serves(call.mod))
  /\ ~tclosed /\ ~halted
  /\ CloseTransport /\ Raise
  /\ active' = (IF undo THEN None ELSE active)
  /\ UNCHANGED <<projectVars, tableVars, halted, lastRead>>

ReloadFails ==
  /\ pc = "load" /\ ~undo
  /\ Fails("denied", RootOf(call.mod))
  /\ Raise
  /\ UNCHANGED <<projectVars, tableVars, tclosed, halted, active, lastRead>>

ReplayFails ==
  /\ pc = "replay" /\ ~undo
  /\ Fails("denied-in-replay",
           IF Serves(call.mod) THEN Extend(Held, call.tok.lin[pos]) ELSE Held)
  /\ Raise
  /\ UNCHANGED <<projectVars, tableVars, tclosed, halted, active, lastRead>>

RollbackFails ==
  /\ undo
  /\ \/ pc = "load" /\ (~SourcesUnchanged \/ ~Valid(call.tok) \/ MayFail("denied"))
     \/ pc = "replay" /\ MayFail("denied-in-replay")
  /\ CloseAndForget
  /\ UNCHANGED <<projectVars, tableVars, halted, lastRead>>

-----------------------------------------------------------------------------
(* Commands that leave Agda's state alone: Cmd_goal_type_context Check, a  *)
(* transactional refine ("check"); infer, normalize, make_clause and the   *)
(* other observations that distrust the marker while they run ("observe"); *)
(* scoped retrieval and module contents, which do not ("look").            *)

Read ==
  /\ pc = "act" /\ call.kind \in {"check", "observe", "look"}
  /\ Answered(Held)
  /\ \E ok \in Verdicts(call.mod) :
       /\ Return(Verdict(call.tok, ok))
       /\ lastRead' = IF ReuseReads /\ ok /\ call.kind = "look"
                      THEN [tok |-> call.tok, at |-> Held] ELSE lastRead
  /\ active' = (IF call.kind = "look" THEN active ELSE call.tok)
  /\ UNCHANGED <<projectVars, tableVars, tclosed, halted>>

\* Wrong: the observation is reused for whatever state is asked for.
CachedReadForAny ==
  /\ pc = "act" /\ call.kind = "look" /\ ReuseReads /\ lastRead # None
  /\ Live /\ ~halted
  /\ Return([tok |-> call.tok, accepted |-> TRUE, at |-> lastRead.at])
  /\ UNCHANGED <<projectVars, procVars, tableVars, tclosed, halted, active, lastRead>>

\* A hit of _last_scoped_read spends no command, only check_resources.
CachedRead ==
  /\ pc = "act" /\ call.kind = "look" /\ ReuseReads
  /\ lastRead # None /\ lastRead.tok = call.tok
  /\ Live /\ ~halted
  /\ Return([tok |-> call.tok, accepted |-> TRUE, at |-> lastRead.at])
  /\ UNCHANGED <<projectVars, procVars, tableVars, tclosed, halted, active, lastRead>>

\* The command fails, or its complete response is not the view asked for.
ReadFails ==
  /\ pc = "act" /\ call.kind \in {"check", "observe", "look"}
  /\ \/ Fails("denied", Held)
     \/ call.kind # "check" /\ Answered(Held)
  /\ active' = (IF call.kind = "observe" THEN None ELSE active)
  /\ Raise
  /\ UNCHANGED <<projectVars, tableVars, tclosed, halted, lastRead>>

-----------------------------------------------------------------------------
(* _try_action: commands that mutate Agda's state.                         *)

\* MaxSequence also bounds what unregistered gives may pile up in Agda.
AfterGive(a) ==
  IF Serves(call.mod) /\ Len(Held.lin) < MaxSequence
  THEN {Held, Extend(Held, a)} ELSE {Held}

LimitReached ==
  /\ pc = "act" /\ call.kind \in Committing
  /\ Cardinality(states) >= MaxStates
  /\ Raise
  /\ UNCHANGED <<projectVars, procVars, tableVars, tclosed, halted, active, lastRead>>

\* check-term with commit first asks for the check.
CheckThenGive ==
  /\ pc = "act" /\ call.kind = "check-give" /\ Cardinality(states) < MaxStates
  /\ Answered(Held)
  /\ \E ok \in Verdicts(call.mod) :
       IF ok THEN Goto("give") /\ UNCHANGED active
             ELSE Return(Verdict(call.tok, FALSE)) /\ active' = call.tok
  /\ UNCHANGED <<projectVars, tableVars, tclosed, halted, lastRead>>

\* The next command of the call is a give or a refine of call.act.
Giving ==
  \/ pc = "act" /\ call.kind = "trial"
  \/ pc = "act" /\ call.kind = "give" /\ Cardinality(states) < MaxStates
  \/ pc = "give"

\* Wrong: the verdict is returned without restoring the parent.
SkipRollback(verdict) == active' = call.tok /\ Return(verdict)

Rollback(verdict) ==
  /\ active' = None
  /\ pc' = "load" /\ undo' = TRUE /\ pending' = verdict
  /\ UNCHANGED <<call, pos, reply>>

\* An accepted give without commit only previews: the parent is restored.
PreviewAccepted ==
  /\ Giving /\ call.kind = "trial" /\ Serves(call.mod)
  /\ Answered(Extend(Held, call.act))
  /\ Rollback(Verdict(call.tok, TRUE))
  /\ UNCHANGED <<projectVars, tableVars, tclosed, halted, lastRead>>

\* try_search_action: the provisional child is replaced without inspection.
CommitShallow ==
  /\ Giving /\ call.kind # "trial" /\ Serves(call.mod)
  /\ Answered(Extend(Held, call.act))
  /\ LET child == NewToken(call.mod, Append(call.tok.lin, call.act), seq + 2)
     IN  /\ states' = states \cup {child} /\ issued' = issued \cup {child}
         /\ active' = child
         /\ Return([tok |-> child, accepted |-> TRUE, at |-> content'])
  /\ seq' = seq + 2
  /\ UNCHANGED <<projectVars, tclosed, halted, lastRead>>

\* try_action: the provisional child is active while it is inspected.
CommitProvisional ==
  /\ Giving /\ call.kind # "trial" /\ Serves(call.mod)
  /\ Answered(Extend(Held, call.act))
  /\ LET child == NewToken(call.mod, Append(call.tok.lin, call.act), seq + 1)
     IN  /\ states' = states \cup {child} /\ active' = child
         /\ call' = [call EXCEPT !.tok = child]
  /\ pc' = "inspect" /\ seq' = seq + 1
  /\ UNCHANGED <<projectVars, issued, tclosed, halted, lastRead,
                 pos, undo, pending, reply>>

GiveRejected ==
  /\ Giving /\ pc = "act"
  /\ \E next \in AfterGive(Residue) : Answered(next)
  /\ Rollback(Verdict(call.tok, FALSE))
  /\ UNCHANGED <<projectVars, tableVars, tclosed, halted, lastRead>>

\* The two intro reports that are known not to touch the proof state, and the
\* give of a check-term commit: no rollback.
RejectedInPlace ==
  /\ Giving
  /\ \/ pc = "act" /\ Answered(Held)
     \/ /\ pc = "give" /\ ("recheck" \in Faults \/ ~Serves(call.mod))
        /\ \E next \in AfterGive(Residue) : Answered(next)
  /\ active' = call.tok
  /\ Return(Verdict(call.tok, FALSE))
  /\ UNCHANGED <<projectVars, tableVars, tclosed, halted, lastRead>>

GiveFails ==
  /\ Giving \/ (pc = "act" /\ call.kind = "check-give")
  /\ \E next \in IF Giving THEN AfterGive(call.act) ELSE {Held} : Fails("denied", next)
  /\ Raise
  /\ UNCHANGED <<projectVars, tableVars, tclosed, halted, active, lastRead>>

\* Wrong: the marker survives the search.
AutoOneKeepsMarker ==
  /\ pc = "act" /\ call.kind = "auto"
  /\ \E next \in AfterGive(Residue) :
       Answered(next) /\ \E ok \in Verdicts(call.mod) : Return(Verdict(call.tok, ok))
  /\ UNCHANGED <<projectVars, tableVars, tclosed, halted, active, lastRead>>

\* Cmd_autoOne commits in Agda and registers nothing: the marker is dropped.
AutoOne ==
  /\ pc = "act" /\ call.kind = "auto"
  /\ \E next \in AfterGive(Residue) :
       \/ Answered(next) /\ \E ok \in Verdicts(call.mod) : Return(Verdict(call.tok, ok))
       \/ Fails("denied", next) /\ Raise
  /\ active' = None
  /\ UNCHANGED <<projectVars, tableVars, tclosed, halted, lastRead>>

-----------------------------------------------------------------------------
(* _load_module and the inspection of a provisional state.                 *)

BeginLoad(m) ==
  /\ pc = "idle" /\ project # None /\ ~halted
  /\ CanIssue /\ CanSpawn
  /\ Cardinality(states) < MaxStates \/ "state-limit" \in Faults
  /\ SourcesUnchanged
  /\ call' = [kind |-> "load", tok |-> None, mod |-> m, act |-> None]
  /\ pc' = "open" /\ reply' = None /\ UNCHANGED <<pos, undo, pending>>
  /\ UNCHANGED <<projectVars, procVars, tableVars, tclosed, halted, active, lastRead>>

LoadFails ==
  /\ pc = "open"
  /\ \/ Fails("denied", RootOf(call.mod))
     \/ "load-rejected" \in Faults /\ Answered(NoSnapshot)
     \/ Cardinality(states) >= MaxStates /\ Answered(RootOf(call.mod))
  /\ Raise
  /\ UNCHANGED <<projectVars, tableVars, tclosed, halted, active, lastRead>>

\* load_search_module returns the shallow state at once.
LoadShallow ==
  /\ pc = "open" /\ Cardinality(states) < MaxStates
  /\ Answered(RootOf(call.mod))
  /\ LET root == NewToken(call.mod, <<>>, seq + 1)
     IN  /\ states' = states \cup {root} /\ issued' = issued \cup {root}
         /\ active' = root
         /\ Return([tok |-> root, accepted |-> TRUE, at |-> content'])
  /\ seq' = seq + 1
  /\ UNCHANGED <<projectVars, tclosed, halted, lastRead>>

LoadProvisional ==
  /\ pc = "open" /\ Cardinality(states) < MaxStates
  /\ Answered(RootOf(call.mod))
  /\ LET root == NewToken(call.mod, <<>>, seq + 1)
     IN  /\ states' = states \cup {root} /\ active' = root
         /\ call' = [call EXCEPT !.tok = root]
  /\ pc' = "inspect" /\ seq' = seq + 1
  /\ UNCHANGED <<projectVars, issued, tclosed, halted, lastRead,
                 pos, undo, pending, reply>>

\* inspect_goals skips the goals Agda reports an error for; _replace_state
\* stamps the completed state with the transport's current generation.
Inspect ==
  /\ pc = "inspect"
  /\ Answered(Held)
  /\ LET complete == NewToken(call.mod, call.tok.lin, seq + 1)
     IN  /\ states' = (states \ {call.tok}) \cup {complete}
         /\ issued' = issued \cup {complete}
         /\ active' = complete
         /\ Return([tok |-> complete, accepted |-> TRUE, at |-> Held])
  /\ seq' = seq + 1
  /\ UNCHANGED <<projectVars, tclosed, halted, lastRead>>

\* The provisional token stays in the table and is never returned.
InspectFails ==
  /\ pc = "inspect"
  /\ \/ ~SourcesUnchanged /\ active' = None /\ UNCHANGED procVars
     \/ ~Valid(call.tok) /\ UNCHANGED <<active, procVars>>
     \/ Fails("denied", Held) /\ UNCHANGED active
  /\ Raise
  /\ UNCHANGED <<projectVars, tableVars, tclosed, halted, lastRead>>

-----------------------------------------------------------------------------
(* The project, the end of the session, and the environment.               *)

OpenProject(e) ==
  /\ pc = "idle" /\ project = None /\ ~tclosed /\ e \in intact
  /\ project' = e /\ overlay' = e
  /\ UNCHANGED <<intact, procVars, tableVars, tclosed, halted, active, lastRead,
                 pc, call, pos, undo, pending, reply>>

\* A library registry moves with its overlay: the worker is then restarted.
ResetProject(e) ==
  /\ pc = "idle" /\ project # None /\ e \in intact
  /\ project' = e /\ overlay' = e
  /\ UNCHANGED procVars \/ (Poisoned /\ UNCHANGED gen)
  /\ states' = {} /\ active' = None /\ lastRead' = None
  /\ Raise
  /\ UNCHANGED <<intact, issued, seq, tclosed, halted>>

\* A sticky quota surfaces while the old worker is terminated: the new
\* overlay is already installed, the project is not.
ResetFails(e) ==
  /\ pc = "idle" /\ project # None /\ e \in intact /\ up # "none"
  /\ overlay' = e /\ Poisoned /\ UNCHANGED gen /\ halted' = TRUE
  /\ Raise
  /\ UNCHANGED <<project, intact, tableVars, tclosed, active, lastRead>>

Close ==
  /\ pc = "idle" /\ ~tclosed
  /\ CloseTransport
  /\ states' = {} /\ active' = None /\ lastRead' = None
  /\ Raise
  /\ UNCHANGED <<projectVars, issued, seq, halted>>

\* cancel(command) from another thread, while a command is in flight.
Cancel ==
  /\ pc # "idle" /\ ~halted
  /\ halted' = TRUE /\ active' = None
  /\ UNCHANGED <<projectVars, procVars, tableVars, tclosed, lastRead,
                 pc, call, pos, undo, pending, reply>>

DeadlinePasses ==
  /\ ~halted /\ halted' = TRUE
  /\ UNCHANGED <<projectVars, procVars, tableVars, tclosed, active, lastRead,
                 pc, call, pos, undo, pending, reply>>

ProcessExits ==
  /\ Live /\ gen < MaxGeneration
  /\ IF pc = "idle" THEN "exit" \in Faults ELSE "exit-in-call" \in Faults
  /\ up' = "exited" /\ content' = NoSnapshot
  /\ UNCHANGED <<projectVars, gen, tableVars, tclosed, halted, active, lastRead,
                 pc, call, pos, undo, pending, reply>>

\* Someone edits a source or a library file, or puts it back.
SourcesEdited(e) ==
  /\ intact' = (IF e \in intact THEN intact \ {e} ELSE intact \cup {e})
  /\ UNCHANGED <<project, overlay, procVars, tableVars, tclosed, halted, active,
                 lastRead, pc, call, pos, undo, pending, reply>>

-----------------------------------------------------------------------------

\* The steps of a call in progress: the deadline makes every command return.
CallStep ==
  \/ Reload \/ Replay \/ ActivationRejected \/ ReloadFails \/ ReplayFails
  \/ RollbackFails
  \/ Read \/ CachedRead \/ ReadFails
  \/ LimitReached \/ CheckThenGive \/ PreviewAccepted \/ CommitShallow
  \/ CommitProvisional \/ GiveRejected \/ RejectedInPlace \/ GiveFails \/ AutoOne
  \/ LoadFails \/ LoadShallow \/ LoadProvisional \/ Inspect \/ InspectFails

ClientStep ==
  \/ \E e \in Envs : OpenProject(e) \/ ResetProject(e) \/ ResetFails(e)
  \/ \E m \in Modules : BeginLoad(m)
  \/ \E kind \in Kinds, t \in issued, a \in Acts \cup {None} :
       Begin(kind, t, a)
  \/ BeginOnChangedSources \/ BeginHalted
  \/ Close

EnvironmentStep ==
  \/ Cancel \/ DeadlinePasses \/ ProcessExits
  \/ \E e \in Envs : SourcesEdited(e)

Next == CallStep \/ ClientStep \/ EnvironmentStep

Spec == Init /\ [][Next]_vars
FairSpec == Spec /\ WF_vars(CallStep)

-----------------------------------------------------------------------------
(* Correctness.                                                            *)

\* What _try_action, the observations and the cached reads promise: a verdict
\* about a token was computed while Agda held exactly that token's source
\* revision and action lineage, and a token that is handed out stands for the
\* state Agda was in.
VerdictsFaithful == reply # None => reply.at = SnapshotOf(reply.tok)

\* _activate skips the reload when _active_state is the requested token: the
\* marker may only name what the live process really holds.  (While a lineage
\* is being replayed the marker still names the previous state.)
MarkerFaithful ==
  active # None /\ Valid(active) /\ ~halted /\ pc # "replay"
    => content = SnapshotOf(active)

\* A token that _validate_token refuses once is refused for ever: generations
\* and sequence numbers are never reused, across restarts and resets.
StaleForever == [][\A t \in issued : ~Valid(t) => ~Valid(t)']_vars

\* _rollback_to either restores the parent it was asked for or closes the
\* transport, and then no token of the session is accepted any more.
RollbackRestoresOrPoisons ==
  [][undo /\ pc # "idle" /\ pc' = "idle"
       => \/ active' = call.tok /\ content' = SnapshotOf(call.tok)
          \/ tclosed' /\ \A t \in issued : ~Valid(t)']_vars

\* _register_state and _replace_state never give two states one sequence
\* number, so a token names at most one state.
OneStatePerSequence == \A t, u \in issued \cup states : t.seq = u.seq => t = u

\* Every call on the session returns: a command is answered, fails, or runs
\* into the deadline, and a lineage is finite.
CallsReturn == pc # "idle" ~> pc = "idle"

=============================================================================
