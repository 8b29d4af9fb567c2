-------------------------- MODULE SessionProtocol --------------------------
(***************************************************************************)
(* The resident native program: SessionProtocol.hs over RunControl.hs.     *)
(*                                                                         *)
(* One thread reads requests.  It answers the control requests itself and  *)
(* forks a worker for any other, one at a time; active names the request   *)
(* of that worker.  cancel and close throw ThreadKilled at it and wait for *)
(* it to be done.  A worker is interruptible while it performs (unmask);   *)
(* it publishes its result and retires masked, and its last step fills     *)
(* done even when that fails.                                              *)
(***************************************************************************)
EXTENDS RunControl, FiniteSets

CONSTANTS
  MaxId,      \* bound on the request ids
  Operations, \* the work a client asks for, a subset of AllOperations
  Faults,     \* the failures that may happen, a subset of AllFaults
  Nobody      \* active is Nothing

AllOperations == {"session", "start", "advance", "snapshot", "discard"}

AllFaults == {
  "late-kill",       \* ThreadKilled arrives after the table was updated
  "blocked-output",  \* or while a masked worker waits for a full pipe
  "overflow",        \* another AsyncException, such as StackOverflow
  "broken-output",   \* emit raises an IOException
  "adapter-failure", \* any other exception of perform
  "stale-inputs"}    \* the source files change

ASSUME ProtocolAssumption ==
  /\ MaxId \in Nat /\ Nobody \notin Nat
  /\ Operations \subseteq AllOperations /\ Faults \subseteq AllFaults

Ids == 0..MaxId

VARIABLES
  reader,   \* what the reading thread does: pc, the worker it kills, for which request
  latest,   \* the last request id accepted
  active,   \* the request whose worker is running, or Nobody
  workers,  \* the worker of each request: pc, operation, key, answer
  results,  \* the operation-results published
  controls, \* the control-results published
  owner,    \* the session: open, stale (another epoch) or closed
  output    \* open or broken

vars == <<store, reader, latest, active, workers, results, controls, owner, output>>

NoAnswer == [status |-> "none", key |-> NoKey]
Answer == [status : {"none", "done", "ready", "retained", "paused", "unsolved", "discarded",
                     "rejected", "cancelled", "failed"},
           key : Key \cup {NoKey}]

WorkerPCs == {"none", "perform", "search", "return", "report", "finish", "done", "dead"}
Worker == [pc : WorkerPCs, op : AllOperations \cup {"none"}, key : Key \cup {NoKey},
           answer : Answer, consumed : Key \cup {NoKey}]
Idle == [pc |-> "none", op |-> "none", key |-> NoKey, answer |-> NoAnswer, consumed |-> NoKey]

ReaderPCs == {"read", "throw", "await", "stop", "closing", "ended"}
Reader == [pc : ReaderPCs, target : Ids \cup {Nobody}, request : Ids \cup {Nobody},
           why : {"none", "cancel", "close", "stop"}]
At(pc) == [pc |-> pc, target |-> Nobody, request |-> Nobody, why |-> "none"]

Control == [status : {"none", "busy", "idle", "cancelled", "closed"}, target : Ids \cup {Nobody}]
NoControl == [status |-> "none", target |-> Nobody]

\* The types of the variables.
TypeOK ==
  /\ StoreOK
  /\ reader \in Reader /\ (reader.pc \in {"throw", "await"} => reader.target \in Ids)
  /\ latest \in Ids \cup {-1} /\ active \in Ids \cup {Nobody}
  /\ workers \in [Ids -> Worker] /\ results \in [Ids -> Answer]
  /\ controls \in [Ids -> Control]
  /\ owner \in {"open", "stale", "closed"} /\ output \in {"open", "broken"}

Init ==
  /\ InitStore
  /\ reader = At("read") /\ latest = -1 /\ active = Nobody
  /\ workers = [n \in Ids |-> Idle] /\ results = [n \in Ids |-> NoAnswer]
  /\ controls = [n \in Ids |-> NoControl]
  /\ owner = "open" /\ output = "open"

-----------------------------------------------------------------------------
(* The reading thread.                                                     *)

readerOnly == <<store, workers, results, owner, output>>

\* control: the loop dies with its output, and only its finalizer is left.
Answers(n, status, target, next) ==
  IF output = "open"
  THEN /\ controls' = [controls EXCEPT ![n] = [status |-> status, target |-> target]]
       /\ reader' = At(next)
  ELSE /\ reader' = At("stop") /\ UNCHANGED controls

\* Request ids must grow: any other frame is rejected and changes nothing.  An
\* id here is the place of its request among the accepted ones.
Accepts(n) == reader.pc = "read" /\ n = latest + 1 /\ latest' = n

\* operation-start is published before the worker is forked; the gate and the
\* active variable the reader holds keep the worker from retiring too early.
Launch(n, op, key) ==
  /\ Accepts(n) /\ active = Nobody
  /\ IF output = "open"
     THEN /\ active' = n
          /\ workers' = [workers EXCEPT ![n] = [Idle EXCEPT !.pc = "perform", !.op = op, !.key = key]]
          /\ UNCHANGED reader
     ELSE reader' = At("stop") /\ UNCHANGED <<active, workers>>
  /\ UNCHANGED <<store, results, controls, owner, output>>

Busy(n) ==
  /\ Accepts(n) /\ active # Nobody
  /\ Answers(n, "busy", Nobody, "read")
  /\ UNCHANGED <<readerOnly, active>>

Kills(n, why) ==
  reader' = [pc |-> "throw", target |-> active, request |-> n, why |-> why]

Cancel(n) ==
  /\ Accepts(n)
  /\ IF active = Nobody THEN Answers(n, "idle", Nobody, "read")
                        ELSE Kills(n, "cancel") /\ UNCHANGED controls
  /\ UNCHANGED <<readerOnly, active>>

Close(n) ==
  /\ Accepts(n)
  /\ IF active = Nobody THEN Answers(n, "closed", Nobody, "stop")
                        ELSE Kills(n, "close") /\ UNCHANGED controls
  /\ UNCHANGED <<readerOnly, active>>

\* No frame is left, or one that breaks the transport limits.
EndOfInput ==
  /\ reader.pc = "read" /\ reader' = At("stop")
  /\ UNCHANGED <<readerOnly, latest, active, controls>>

\* E.finally loop stop
Stop ==
  /\ reader.pc = "stop"
  /\ IF active = Nobody THEN reader' = At("closing") ELSE Kills(Nobody, "stop")
  /\ UNCHANGED <<readerOnly, latest, active, controls>>

\* throwTo a thread that has ended does nothing.
ThrowReturns ==
  /\ reader.pc = "throw" /\ workers[reader.target].pc = "done"
  /\ reader' = [reader EXCEPT !.pc = "await"]
  /\ UNCHANGED <<readerOnly, latest, active, controls>>

Acknowledge ==
  CASE reader.why = "cancel" -> Answers(reader.request, "cancelled", reader.target, "read")
    [] reader.why = "close"  -> Answers(reader.request, "closed", reader.target, "stop")
    [] OTHER                 -> reader' = At("closing") /\ UNCHANGED controls

\* Wrong: the answer does not wait for the worker.
AcknowledgesEarly ==
  /\ reader.pc = "await" /\ Acknowledge
  /\ UNCHANGED <<readerOnly, latest, active>>

\* readMVar done
Awaited ==
  /\ reader.pc = "await" /\ workers[reader.target].pc = "done"
  /\ Acknowledge
  /\ UNCHANGED <<readerOnly, latest, active>>

\* S.close, and session-end.
End ==
  /\ reader.pc = "closing"
  /\ reader' = At("ended") /\ owner' = "closed"
  /\ UNCHANGED <<store, latest, active, workers, results, controls, output>>

-----------------------------------------------------------------------------
(* A worker performs its operation.                                        *)

Is(n, pc) == workers[n].pc = pc

\* The worker of n goes on at pc with an answer.
Steps(n, pc, answer) ==
  workers' = [workers EXCEPT ![n].pc = pc, ![n].answer = answer]

Says(status)      == [status |-> status, key |-> NoKey]
SaysKey(status, key) == [status |-> status, key |-> key]

workerOnly == <<latest, controls, output>>

\* Every request of the session compares its inputs with the files.
SessionAnswers ==
  /\ owner = "open"
  /\ owner' = owner

SessionRefuses ==
  \/ owner # "open" /\ owner' = owner
  \/ owner = "open" /\ "stale-inputs" \in Faults /\ owner' = "stale"

\* An operation of the session that touches no run.
Session(n) ==
  /\ Is(n, "perform") /\ workers[n].op = "session"
  /\ \/ SessionAnswers /\ Steps(n, "return", Says("done"))
     \/ SessionRefuses /\ Steps(n, "return", Says("rejected"))
  /\ UNCHANGED <<store, reader, active, results, workerOnly>>

Start(n) ==
  /\ Is(n, "perform") /\ workers[n].op = "start"
  /\ \/ /\ SessionAnswers /\ StartRun
        /\ Steps(n, "return", SaysKey("ready", [run |-> serial, revision |-> 0]))
     \/ SessionRefuses /\ UNCHANGED store /\ Steps(n, "return", Says("rejected"))
  /\ UNCHANGED <<reader, active, results, workerOnly>>

Snapshot(n) ==
  /\ Is(n, "perform") /\ workers[n].op = "snapshot"
  /\ \/ /\ Resolves(workers[n].key) /\ SessionAnswers
        /\ Steps(n, "return", SaysKey("retained", workers[n].key))
     \/ ~Resolves(workers[n].key) /\ UNCHANGED owner /\ Steps(n, "return", Says("rejected"))
     \/ Resolves(workers[n].key) /\ SessionRefuses /\ Steps(n, "return", Says("rejected"))
  /\ UNCHANGED <<store, reader, active, results, workerOnly>>

\* discard asks nothing of the session.
Discard(n) ==
  /\ Is(n, "perform") /\ workers[n].op = "discard"
  /\ IF Resolves(workers[n].key)
     THEN Retire(workers[n].key) /\ Steps(n, "return", Says("discarded"))
     ELSE UNCHANGED store /\ Steps(n, "return", Says("rejected"))
  /\ UNCHANGED <<reader, active, results, owner, workerOnly>>

\* advance: the key is resolved and the root of the run looked up.
Advance(n) ==
  /\ Is(n, "perform") /\ workers[n].op = "advance"
  /\ \/ Resolves(workers[n].key) /\ SessionAnswers /\ Steps(n, "search", NoAnswer)
     \/ ~Resolves(workers[n].key) /\ UNCHANGED owner /\ Steps(n, "return", Says("rejected"))
     \/ Resolves(workers[n].key) /\ SessionRefuses /\ Steps(n, "return", Says("rejected"))
  /\ UNCHANGED <<store, reader, active, results, workerOnly>>

\* Wrong: the table keeps the revision that was consumed.
KeepsRevision(n, status) ==
  /\ UNCHANGED store
  /\ workers' = [workers EXCEPT ![n].pc = "return", ![n].consumed = workers[n].key,
                   ![n].answer = SaysKey(status, workers[n].key)]

\* The run is retained: its key is consumed and the answer carries the next.
Commit(n, status) ==
  /\ Retain(workers[n].key)
  /\ workers' = [workers EXCEPT ![n].pc = "return", ![n].consumed = workers[n].key,
                   ![n].answer = SaysKey(status, NextKey(workers[n].key))]

\* Refutation, Candidate, Paused and Failed; a session whose inputs changed
\* meanwhile is a Failed one.
Search(n) ==
  /\ Is(n, "search")
  /\ Commit(n, "paused")
  /\ SessionAnswers \/ SessionRefuses
  /\ UNCHANGED <<reader, active, results, workerOnly>>

Exhaust(n) ==
  /\ Is(n, "search")
  /\ Retire(workers[n].key)
  /\ workers' = [workers EXCEPT ![n].pc = "return", ![n].consumed = workers[n].key,
                   ![n].answer = Says("unsolved")]
  /\ UNCHANGED <<reader, active, results, owner, workerOnly>>

\* Leaving unmask.
Return(n) ==
  /\ Is(n, "return") /\ Steps(n, "report", workers[n].answer)
  /\ UNCHANGED <<store, reader, active, results, owner, workerOnly>>

-----------------------------------------------------------------------------
(* Exceptions.                                                             *)

Unfinished(n) == Is(n, "perform") \/ Is(n, "search")

KillOf(n) == reader.pc = "throw" /\ reader.target = n
KillReceived == reader' = [reader EXCEPT !.pc = "await"]

\* ThreadKilled ends perform; modifyMVar puts the table back.
Killed(n) ==
  /\ KillOf(n)
  /\ Unfinished(n) \/ (Is(n, "return") /\ "late-kill" \in Faults)
  /\ KillReceived /\ Steps(n, "report", Says("cancelled"))
  /\ UNCHANGED <<store, active, results, owner, workerOnly>>

\* Wrong: the run moves on and the client is not told its key.
PausesSilently(n) ==
  /\ KillOf(n) /\ Is(n, "search")
  /\ KillReceived /\ Retain(workers[n].key) /\ Steps(n, "report", Says("cancelled"))
  /\ UNCHANGED <<active, results, owner, workerOnly>>

\* ThreadKilled within a request of the session, which answers Cancelled: the
\* search pauses.
KilledInSession(n) ==
  /\ KillOf(n) /\ Is(n, "search")
  /\ KillReceived /\ Commit(n, "paused")
  /\ UNCHANGED <<active, results, owner, workerOnly>>

\* Wrong: the exception is not handled.
FailsSilently(n) ==
  /\ Unfinished(n)
  /\ Steps(n, "finish", NoAnswer)
  /\ UNCHANGED <<store, reader, active, results, owner, workerOnly>>

\* An IOException: a file of the request, or the trace on a broken output.
Fails(n) ==
  /\ Unfinished(n)
  /\ Steps(n, "report", Says("failed"))
  /\ UNCHANGED <<store, reader, active, results, owner, workerOnly>>

\* SomeException closes the session.
FailsBadly(n) ==
  /\ "adapter-failure" \in Faults /\ Unfinished(n)
  /\ Steps(n, "report", Says("failed")) /\ owner' = "closed"
  /\ UNCHANGED <<store, reader, active, results, workerOnly>>

\* Wrong: the worker dies without its finalizer.
DiesAtOnce(n) ==
  /\ "overflow" \in Faults /\ Unfinished(n)
  /\ Steps(n, "dead", NoAnswer)
  /\ UNCHANGED <<store, reader, active, results, owner, workerOnly>>

\* Another AsyncException is thrown on: there is no result.
Overflows(n) ==
  /\ "overflow" \in Faults /\ Unfinished(n)
  /\ Steps(n, "finish", NoAnswer)
  /\ UNCHANGED <<store, reader, active, results, owner, workerOnly>>

-----------------------------------------------------------------------------
(* The end of a worker, masked.                                            *)

\* Wrong: whoever is active.
RetireAnyone(n) == Nobody

\* A worker only retires itself: another may have been launched meanwhile.
Retired(n) == IF active = n THEN Nobody ELSE active

\* The result is published with active taken, so that the reader cannot find
\* the worker still active afterwards.
Publish(n) ==
  /\ Is(n, "report")
  /\ Steps(n, "finish", workers[n].answer)
  /\ IF output = "open"
     THEN results' = [results EXCEPT ![n] = workers[n].answer] /\ active' = Retired(n)
     ELSE UNCHANGED <<results, active>>
  /\ UNCHANGED <<store, reader, owner, workerOnly>>

\* A masked thread that blocks is interruptible: the result is lost.
KilledBlocked(n) ==
  /\ "blocked-output" \in Faults /\ Is(n, "report") /\ KillOf(n)
  /\ KillReceived /\ Steps(n, "finish", workers[n].answer)
  /\ UNCHANGED <<store, active, results, owner, workerOnly>>

\* putMVar done, and the thread is gone.
Finish(n) ==
  /\ Is(n, "finish")
  /\ workers' = [workers EXCEPT ![n] = [Idle EXCEPT !.pc = "done", !.consumed = workers[n].consumed]]
  /\ active' = Retired(n)
  /\ UNCHANGED <<store, reader, results, owner, workerOnly>>

BreakOutput ==
  /\ "broken-output" \in Faults /\ output = "open" /\ output' = "broken"
  /\ UNCHANGED <<store, reader, latest, active, workers, results, controls, owner>>

-----------------------------------------------------------------------------
Receive ==
  \E n \in Ids :
    \/ \E op \in Operations :
         IF op \in {"advance", "snapshot", "discard"}
         THEN \E key \in SentKeys : Launch(n, op, key)
         ELSE Launch(n, op, NoKey)
    \/ Busy(n) \/ Cancel(n) \/ Close(n)

\* What the reader owes once it has been asked.
ReaderStep == Stop \/ ThrowReturns \/ Awaited \/ End

Performs(n) ==
  Session(n) \/ Start(n) \/ Snapshot(n) \/ Discard(n) \/ Advance(n) \/ Search(n) \/ Exhaust(n)

\* What the run-time system and the masked end of a worker owe.
WorkerStep(n) == Return(n) \/ Killed(n) \/ KilledInSession(n) \/ Publish(n) \/ Finish(n)

Disturbs(n) == Fails(n) \/ FailsBadly(n) \/ Overflows(n) \/ KilledBlocked(n)

Next ==
  \/ Receive \/ EndOfInput \/ BreakOutput \/ ReaderStep
  \/ \E n \in Ids : Performs(n) \/ WorkerStep(n) \/ Disturbs(n)

Spec == Init /\ [][Next]_vars

\* An operation may run for ever, but exceptions are delivered and what
\* follows perform is a few steps of a thread that nobody blocks.
FairSpec == Spec /\ WF_vars(ReaderStep) /\ \A n \in Ids : WF_vars(WorkerStep(n))

-----------------------------------------------------------------------------
(* Correctness.                                                            *)

\* At most one native request is active, and active names it: whatever the
\* worker of an earlier request still does, busy, cancel and close find the
\* one that performs.
Running(n) == workers[n].pc \in {"perform", "search", "return", "report"}

ActiveIsTheWorker == \A n \in Ids : Running(n) => active = n

\* A client that has read the result of a request is not told busy, nor does
\* its next cancel hit that request.
ResultMeansRetired == \A n \in Ids : results[n] # NoAnswer => active # n

\* The answer to cancel is the last event of its target.
CancelledIsOver ==
  \A n \in Ids : controls[n].status = "cancelled" => Is(controls[n].target, "done")

\* An operation-start is followed by an operation-result: no worker ends
\* without one, killed or not.
EveryStartHasItsResult ==
  \A n \in Ids : Is(n, "done") => results[n] # NoAnswer \/ output = "broken"

\* A revision is consumed once: a frontend request that is repeated or delayed
\* does not advance the frontier of a run again.
ConsumedOnce ==
  \A m, n \in Ids : m # n /\ workers[m].consumed # NoKey => workers[m].consumed # workers[n].consumed

\* Whatever is cancelled, the client can go on with every retained run: it has
\* been given the current key, or the answer that carries it is on its way.
Handed == {results[n].key : n \in Ids}
Coming == {workers[n].answer.key : n \in {m \in Ids : workers[m].pc \in {"return", "report"}}}

RunsStayReachable ==
  output = "open" => \A r \in DOMAIN entries : Current(r) \in Handed \cup Coming

\* A cancelled advance either left its key valid or answers with the next one.
CancelKeepsTheKey ==
  \A n \in Ids : results[n].status = "cancelled" => workers[n].consumed = NoKey

\* However its loop ends, serve leaves no worker behind that performs or could
\* publish a result after session-end.
EndedMeansIdle ==
  reader.pc \in {"closing", "ended"} => \A n \in Ids : ~Running(n)

\* The one field active accounts for every worker: while it performs, once its
\* result is out, and when serve has ended.
ActiveAccounts == ActiveIsTheWorker /\ ResultMeansRetired /\ EndedMeansIdle

\* cancel, close and the end of the input get past the worker, which may be
\* anywhere in its operation or in its last steps.
ReaderReturns == reader.pc # "read" ~> reader.pc \in {"read", "ended"}

=============================================================================
