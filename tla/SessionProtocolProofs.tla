-------------------------- MODULE SessionProtocolProofs --------------------------
(***************************************************************************)
(* What a client of the resident program may rely on, for every number of  *)
(* requests, runs and revisions and for every order of failures.           *)
(*                                                                         *)
(* The field active is enough to tell which worker may still touch the run *)
(* table: a worker that has not published keeps it, and the reader, which  *)
(* alone launches workers, does so only when it is free.  So one worker at *)
(* a time is in its operation, and the key it resolved is still the current*)
(* one when it consumes it.                                                *)
(***************************************************************************)
EXTENDS SessionProtocol, TLAPS

RunningPCs == {"perform", "search", "return", "report"}

\* A worker in its operation has the key its request named.
WorkerTypes ==
  \A n \in Ids :
    /\ Is(n, "perform") /\ workers[n].op \in {"advance", "snapshot", "discard"}
         => workers[n].key \in Key
    /\ Is(n, "search") => workers[n].op = "advance" /\ workers[n].key \in Key

Types ==
  /\ TypeOK
  /\ entries \in [DOMAIN entries -> Nat]
  /\ WorkerTypes

\* Requests beyond the latest have no trace.
Unused ==
  \A n \in Ids : n > latest => workers[n] = Idle /\ results[n] = NoAnswer /\ active # n

\* active names the worker in its operation, and nobody whose result is out.
ActiveOK ==
  /\ \A n \in Ids : Running(n) => active = n
  /\ \A n \in Ids : active = n => workers[n].pc \in RunningPCs \cup {"finish"}
  /\ \A n \in Ids : results[n] # NoAnswer => active # n
  /\ \A n \in Ids : workers[n].pc \in {"return", "report"} => workers[n].answer.status # "none"

\* The reader waits for the worker that was active, and launches none meanwhile.
ReaderOK ==
  /\ reader.pc \in {"throw", "await"} =>
       reader.target \in Ids /\ reader.target <= latest /\ active \in {reader.target, Nobody}
  /\ reader.pc \in {"closing", "ended"} => active = Nobody

\* A cancellation that was acknowledged names a worker, and it is over.
Acknowledged ==
  \A n \in Ids : controls[n].status = "cancelled" =>
    controls[n].target \in Ids /\ Is(controls[n].target, "done")

ActiveInv == Unused /\ ActiveOK /\ ReaderOK /\ Acknowledged

\* The revision of a consumed key has been left behind, or its run retired.
Spent(key) ==
  /\ key \in Key /\ key.run < serial
  /\ key.run \in DOMAIN entries => key.revision < entries[key.run]

ConsumedInv ==
  /\ \A n \in Ids : Is(n, "search") => Resolves(workers[n].key)
  /\ \A n \in Ids : workers[n].consumed # NoKey => Spent(workers[n].consumed)
  /\ \A n \in Ids : workers[n].pc \in {"none", "perform", "search"} => workers[n].consumed = NoKey
  /\ ConsumedOnce

\* The inductive invariant.
Inv == Types /\ ActiveInv /\ ConsumedInv

-----------------------------------------------------------------------------
(* What a step of a worker in its operation does.                          *)

InFlight(n) ==
  /\ Running(n)
  /\ workers' \in [Ids -> Worker] /\ \A m \in Ids \ {n} : workers'[m] = workers[m]
  /\ workers'[n].op = workers[n].op /\ workers'[n].key = workers[n].key
  /\ workers'[n].pc \in {"search", "return", "report", "finish"}
  /\ workers'[n].pc = "search" =>
       Is(n, "perform") /\ workers[n].op = "advance" /\ Resolves(workers[n].key)
  /\ workers'[n].pc \in {"return", "report"} => workers'[n].answer.status # "none"
  /\ UNCHANGED <<latest, active, results, controls, output>>
  /\ owner' \in {"open", "stale", "closed"}
  /\ \/ UNCHANGED reader
     \/ reader.pc = "throw" /\ reader' = [reader EXCEPT !.pc = "await"]

\* What it does to the run table, and to the client that holds a key.
TableStep(n) ==
  \/ UNCHANGED store /\ workers'[n].consumed = workers[n].consumed
  \/ /\ Is(n, "perform") /\ StartRun /\ workers'[n].consumed = workers[n].consumed
     /\ workers'[n].pc = "return" /\ workers'[n].answer.key = [run |-> serial, revision |-> 0]
  \/ /\ Is(n, "perform") /\ workers[n].key \in Key /\ Retire(workers[n].key)
     /\ workers'[n].consumed = workers[n].consumed /\ workers'[n].pc = "return"
  \/ /\ Is(n, "search") /\ workers[n].key \in Key /\ workers'[n].consumed = workers[n].key
     /\ workers'[n].pc = "return" /\ workers'[n].answer.status # "cancelled"
     /\ \/ Retire(workers[n].key)
        \/ Retain(workers[n].key) /\ workers'[n].answer.key = NextKey(workers[n].key)

\* What it does to an answer that is on its way.
AnswerStep(n) ==
  /\ "overflow" \notin Faults /\ "blocked-output" \notin Faults => workers'[n].pc # "finish"
  /\ "blocked-output" \notin Faults => ~Is(n, "report")
  /\ "late-kill" \notin Faults /\ Is(n, "return") =>
       workers'[n].pc = "report" /\ workers'[n].answer = workers[n].answer
  /\ workers'[n].pc = "search" => workers'[n].answer = NoAnswer
  /\ workers'[n].pc = "return" => workers'[n].answer.status # "cancelled"
  /\ Is(n, "report") => workers'[n].pc = "finish" /\ workers'[n].answer = workers[n].answer

Acts(n) ==
  \/ Session(n) \/ Start(n) \/ Snapshot(n) \/ Discard(n) \/ Advance(n) \/ Search(n) \/ Exhaust(n)
  \/ Return(n) \/ Killed(n) \/ KilledInSession(n) \/ Fails(n) \/ FailsBadly(n) \/ Overflows(n)
  \/ KilledBlocked(n)

Others(n) == \A m \in Ids \ {n} : workers'[m] = workers[m]

LEMMA StepsTo ==
  ASSUME workers \in [Ids -> Worker], NEW n \in Ids, NEW pc \in WorkerPCs, NEW answer \in Answer,
         Steps(n, pc, answer)
  PROVE  /\ workers' \in [Ids -> Worker] /\ Others(n)
         /\ workers'[n].pc = pc /\ workers'[n].answer = answer
         /\ workers'[n].op = workers[n].op /\ workers'[n].key = workers[n].key
         /\ workers'[n].consumed = workers[n].consumed
<1>1. workers[n] \in Worker
  OBVIOUS
<1> DEFINE w == [workers[n] EXCEPT !.pc = pc, !.answer = answer]
<1>2. workers' = [workers EXCEPT ![n] = w]
  BY <1>1 DEF Steps, Worker
<1>3. /\ w \in Worker /\ w.pc = pc /\ w.answer = answer /\ w.op = workers[n].op
      /\ w.key = workers[n].key /\ w.consumed = workers[n].consumed
  BY <1>1 DEF Worker
<1> HIDE DEF w
<1> QED BY <1>2, <1>3 DEF Others

LEMMA ConsumesTo ==
  ASSUME workers \in [Ids -> Worker], NEW n \in Ids, NEW answer \in Answer,
         workers' = [workers EXCEPT ![n].pc = "return", ![n].consumed = workers[n].key,
                       ![n].answer = answer]
  PROVE  /\ workers' \in [Ids -> Worker] /\ Others(n)
         /\ workers'[n].pc = "return" /\ workers'[n].answer = answer
         /\ workers'[n].op = workers[n].op /\ workers'[n].key = workers[n].key
         /\ workers'[n].consumed = workers[n].key
<1>1. workers[n] \in Worker
  OBVIOUS
<1> DEFINE w == [workers[n] EXCEPT !.pc = "return", !.consumed = workers[n].key, !.answer = answer]
<1>2. workers' = [workers EXCEPT ![n] = w]
  BY <1>1 DEF Worker
<1>3. /\ w \in Worker /\ w.pc = "return" /\ w.answer = answer /\ w.op = workers[n].op
      /\ w.key = workers[n].key /\ w.consumed = workers[n].key
  BY <1>1 DEF Worker, WorkerPCs
<1> HIDE DEF w
<1> QED BY <1>2, <1>3 DEF Others

Spoken == {"done", "ready", "retained", "paused", "unsolved", "discarded", "rejected",
           "cancelled", "failed"}

LEMMA Saying ==
  ASSUME NEW status \in Spoken
  PROVE  Says(status) \in Answer /\ Says(status).status = status /\ Says(status).key = NoKey
BY DEF Says, Answer, Spoken

LEMMA SayingKey ==
  ASSUME NEW status \in Spoken, NEW key \in Key
  PROVE  /\ SaysKey(status, key) \in Answer /\ SaysKey(status, key).status = status
         /\ SaysKey(status, key).key = key
BY DEF SaysKey, Answer, Spoken

LEMMA PCs == WorkerPCs = {"none", "perform", "search", "return", "report", "finish", "done", "dead"}
BY DEF WorkerPCs

\* An answer to a step, whatever the operation.
LEMMA Answering ==
  ASSUME Inv, NEW n \in Ids, Running(n), NEW pc \in {"search", "return", "report", "finish"},
         NEW answer \in Answer, Steps(n, pc, answer),
         pc = "search" => Is(n, "perform") /\ workers[n].op = "advance" /\ Resolves(workers[n].key),
         pc \in {"return", "report"} => answer.status # "none",
         UNCHANGED <<latest, active, results, controls, output>>,
         owner' \in {"open", "stale", "closed"},
         UNCHANGED reader \/ (reader.pc = "throw" /\ reader' = [reader EXCEPT !.pc = "await"])
  PROVE  /\ InFlight(n)
         /\ workers'[n].pc = pc /\ workers'[n].answer = answer
         /\ workers'[n].consumed = workers[n].consumed
<1>1. workers \in [Ids -> Worker] /\ pc \in WorkerPCs
  BY PCs DEF Inv, Types, TypeOK
<1>2. /\ workers' \in [Ids -> Worker] /\ Others(n)
      /\ workers'[n].pc = pc /\ workers'[n].answer = answer
      /\ workers'[n].op = workers[n].op /\ workers'[n].key = workers[n].key
      /\ workers'[n].consumed = workers[n].consumed
  BY <1>1, StepsTo
<1> QED BY <1>2 DEF InFlight, Others

\* A step that consumes the key of the run.
LEMMA Consuming ==
  ASSUME Inv, NEW n \in Ids, Is(n, "search"), NEW answer \in Answer,
         answer.status \in {"paused", "unsolved"},
         workers' = [workers EXCEPT ![n].pc = "return", ![n].consumed = workers[n].key,
                       ![n].answer = answer],
         Retire(workers[n].key) \/ (Retain(workers[n].key) /\ answer.key = NextKey(workers[n].key)),
         UNCHANGED <<latest, active, results, controls, output>>,
         owner' \in {"open", "stale", "closed"},
         UNCHANGED reader \/ (reader.pc = "throw" /\ reader' = [reader EXCEPT !.pc = "await"])
  PROVE  InFlight(n) /\ TableStep(n) /\ AnswerStep(n)
<1>1. workers \in [Ids -> Worker] /\ workers[n].key \in Key
  BY DEF Inv, Types, TypeOK, WorkerTypes
<1>2. /\ workers' \in [Ids -> Worker] /\ Others(n)
      /\ workers'[n].pc = "return" /\ workers'[n].answer = answer
      /\ workers'[n].op = workers[n].op /\ workers'[n].key = workers[n].key
      /\ workers'[n].consumed = workers[n].key
  BY <1>1, ConsumesTo
<1>3. InFlight(n)
  BY <1>2 DEF InFlight, Others, Running, Is
<1>4. TableStep(n)
  BY <1>1, <1>2 DEF TableStep
<1>5. AnswerStep(n)
  BY <1>2 DEF AnswerStep, Is
<1> QED BY <1>3, <1>4, <1>5

LEMMA NextKeys ==
  ASSUME NEW key \in Key
  PROVE  /\ NextKey(key) \in Key
         /\ NextKey(key).run = key.run /\ NextKey(key).revision = key.revision + 1
BY DEF NextKey, Key

LEMMA CommitActs ==
  ASSUME Inv, NEW n \in Ids, Is(n, "search"), Commit(n, "paused"),
         UNCHANGED <<latest, active, results, controls, output>>,
         owner' \in {"open", "stale", "closed"},
         UNCHANGED reader \/ (reader.pc = "throw" /\ reader' = [reader EXCEPT !.pc = "await"])
  PROVE  InFlight(n) /\ TableStep(n) /\ AnswerStep(n)
<1> DEFINE answer == SaysKey("paused", NextKey(workers[n].key))
<1>1. workers[n].key \in Key
  BY DEF Inv, Types, WorkerTypes
<1>2. answer \in Answer /\ answer.status = "paused" /\ answer.key = NextKey(workers[n].key)
  BY <1>1, NextKeys, SayingKey DEF Spoken
<1>3. /\ Retain(workers[n].key)
      /\ workers' = [workers EXCEPT ![n].pc = "return", ![n].consumed = workers[n].key,
                        ![n].answer = answer]
  BY DEF Commit
<1> HIDE DEF answer
<1> QED BY <1>2, <1>3, Consuming

LEMMA Acting ==
  ASSUME Inv, NEW n \in Ids, Acts(n)
  PROVE  InFlight(n) /\ TableStep(n) /\ AnswerStep(n)
<1> USE DEF Running, Is
<1>1. owner \in {"open", "stale", "closed"} /\ serial \in Nat
  BY DEF Inv, Types, TypeOK, StoreOK
<1>2. workers[n].pc = "perform" /\ workers[n].op \in {"advance", "snapshot", "discard"}
        => workers[n].key \in Key
  BY DEF Inv, Types, WorkerTypes
<1>3. workers[n].answer \in Answer
      /\ (workers[n].pc \in {"return", "report"} => workers[n].answer.status # "none")
  <2>1. workers[n] \in Worker
    BY DEF Inv, Types, TypeOK
  <2> QED BY <2>1 DEF Worker, Inv, ActiveInv, ActiveOK
<1>4. NoAnswer \in Answer
  BY DEF NoAnswer, Answer
<1>a. \A status \in {"cancelled", "failed"} : Says(status) \in Answer /\ Says(status).status = status
  BY Saying DEF Spoken
<1> DEFINE still == UNCHANGED <<latest, active, results, controls, output>>
<1>5. ASSUME workers[n].pc = "perform", NEW status \in {"done", "rejected", "discarded"},
             Steps(n, "return", Says(status)), still, UNCHANGED reader,
             owner' \in {"open", "stale", "closed"},
             UNCHANGED store \/ (workers[n].key \in Key /\ Retire(workers[n].key))
      PROVE  InFlight(n) /\ TableStep(n) /\ AnswerStep(n)
  <2>1. /\ InFlight(n) /\ workers'[n].pc = "return" /\ workers'[n].answer = Says(status)
        /\ workers'[n].consumed = workers[n].consumed
    <3>1. Says(status) \in Answer /\ Says(status).status = status
      BY Saying DEF Spoken
    <3> QED BY <1>5, <3>1, Answering
  <2>2. Says(status).status = status
    BY Saying DEF Spoken
  <2> QED BY <1>5, <2>1, <2>2 DEF TableStep, AnswerStep
<1>6. ASSUME workers[n].pc = "perform", NEW status \in {"ready", "retained"}, NEW key \in Key,
             Steps(n, "return", SaysKey(status, key)), still, UNCHANGED <<reader, owner>>,
             UNCHANGED store \/ (StartRun /\ key = [run |-> serial, revision |-> 0])
      PROVE  InFlight(n) /\ TableStep(n) /\ AnswerStep(n)
  <2>1. /\ InFlight(n) /\ workers'[n].pc = "return" /\ workers'[n].answer = SaysKey(status, key)
        /\ workers'[n].consumed = workers[n].consumed
    <3>1. SaysKey(status, key) \in Answer /\ SaysKey(status, key).status = status
      BY SayingKey DEF Spoken
    <3> QED BY <1>1, <1>6, <3>1, Answering
  <2>2. SaysKey(status, key).status = status /\ SaysKey(status, key).key = key
    BY SayingKey DEF Spoken
  <2> QED BY <1>6, <2>1, <2>2 DEF TableStep, AnswerStep
<1>7. CASE Session(n)
  BY <1>1, <1>5, <1>7 DEF Session, SessionAnswers, SessionRefuses, workerOnly
<1>8. CASE Start(n)
  <2>1. [run |-> serial, revision |-> 0] \in Key
    BY <1>1 DEF Key
  <2> QED BY <1>1, <1>5, <1>6, <1>8, <2>1 DEF Start, SessionAnswers, SessionRefuses, workerOnly
<1>9. CASE Snapshot(n)
  BY <1>1, <1>2, <1>5, <1>6, <1>9 DEF Snapshot, SessionAnswers, SessionRefuses, workerOnly
<1>10. CASE Discard(n)
  BY <1>1, <1>2, <1>5, <1>10 DEF Discard, workerOnly
<1>11. CASE Advance(n)
  <2>1. CASE Resolves(workers[n].key) /\ SessionAnswers /\ Steps(n, "search", NoAnswer)
    <3>1. /\ InFlight(n) /\ workers'[n].pc = "search" /\ workers'[n].answer = NoAnswer
          /\ workers'[n].consumed = workers[n].consumed
      BY <1>1, <1>4, <1>11, <2>1, Answering DEF Advance, SessionAnswers, workerOnly
    <3> QED BY <1>11, <3>1 DEF Advance, TableStep, AnswerStep
  <2>2. CASE Steps(n, "return", Says("rejected")) /\ owner' \in {"open", "stale", "closed"}
    BY <1>5, <1>11, <2>2 DEF Advance, workerOnly
  <2> QED BY <1>1, <1>11, <2>1, <2>2 DEF Advance, SessionRefuses
<1>12. CASE Search(n)
  BY <1>1, <1>12, CommitActs DEF Search, SessionAnswers, SessionRefuses, workerOnly
<1>13. CASE Exhaust(n)
  <2>1. Says("unsolved") \in Answer /\ Says("unsolved").status = "unsolved"
    BY Saying DEF Spoken
  <2> QED BY <1>1, <1>13, <2>1, Consuming DEF Exhaust, workerOnly
<1>14. CASE Return(n)
  <2>1. /\ InFlight(n) /\ workers'[n].pc = "report" /\ workers'[n].answer = workers[n].answer
        /\ workers'[n].consumed = workers[n].consumed
    BY <1>1, <1>3, <1>14, Answering DEF Return, workerOnly
  <2> QED BY <1>14, <2>1 DEF Return, TableStep, AnswerStep
<1>15. CASE Killed(n)
  <2>1. /\ InFlight(n) /\ workers'[n].pc = "report" /\ workers'[n].consumed = workers[n].consumed
    BY <1>1, <1>15, <1>a, Answering DEF Killed, Unfinished, KillOf, KillReceived, workerOnly
  <2> QED BY <1>15, <2>1 DEF Killed, Unfinished, TableStep, AnswerStep
<1>16. CASE KilledInSession(n)
  BY <1>1, <1>16, CommitActs DEF KilledInSession, KillOf, KillReceived, workerOnly
<1>17. CASE Fails(n) \/ FailsBadly(n)
  <2>1. /\ InFlight(n) /\ workers'[n].pc = "report" /\ workers'[n].consumed = workers[n].consumed
    BY <1>1, <1>17, <1>a, Answering DEF Fails, FailsBadly, Unfinished, workerOnly
  <2> QED BY <1>17, <2>1 DEF Fails, FailsBadly, Unfinished, TableStep, AnswerStep
<1>18. CASE Overflows(n)
  <2>1. /\ InFlight(n) /\ workers'[n].pc = "finish" /\ workers'[n].consumed = workers[n].consumed
    BY <1>1, <1>4, <1>18, Answering DEF Overflows, Unfinished, workerOnly
  <2> QED BY <1>18, <2>1 DEF Overflows, Unfinished, TableStep, AnswerStep
<1>19. CASE KilledBlocked(n)
  <2>1. /\ InFlight(n) /\ workers'[n].pc = "finish" /\ workers'[n].answer = workers[n].answer
        /\ workers'[n].consumed = workers[n].consumed
    BY <1>1, <1>3, <1>19, Answering DEF KilledBlocked, KillOf, KillReceived, workerOnly
  <2> QED BY <1>19, <2>1 DEF KilledBlocked, TableStep, AnswerStep
<1> QED BY <1>7, <1>8, <1>9, <1>10, <1>11, <1>12, <1>13, <1>14, <1>15, <1>16, <1>17, <1>18, <1>19
        DEF Acts

-----------------------------------------------------------------------------
(* The run table.                                                          *)

TableOK == StoreOK /\ entries \in [DOMAIN entries -> Nat]

LEMMA StartRunTable ==
  ASSUME TableOK, StartRun
  PROVE  /\ TableOK' /\ serial' = serial + 1 /\ serial \in Nat
         /\ DOMAIN entries' = DOMAIN entries \cup {serial} /\ serial \notin DOMAIN entries
         /\ entries'[serial] = 0 /\ \A r \in DOMAIN entries : entries'[r] = entries[r]
<1>1. /\ serial \in Nat /\ serial' = serial + 1
      /\ entries' = [r \in DOMAIN entries \cup {serial} |-> IF r = serial THEN 0 ELSE entries[r]]
      /\ DOMAIN entries \subseteq 0..serial - 1
      /\ \A r \in DOMAIN entries : entries[r] \in Nat
  BY DEF TableOK, StoreOK, StartRun
<1>2. serial \notin DOMAIN entries
  BY <1>1
<1>3. /\ DOMAIN entries' = DOMAIN entries \cup {serial} /\ entries'[serial] = 0
      /\ \A r \in DOMAIN entries : entries'[r] = entries[r]
  BY <1>1, <1>2
<1>4. entries' \in [DOMAIN entries' -> Nat]
  BY <1>1
<1>5. DOMAIN entries' \subseteq 0..serial' - 1
  BY <1>1, <1>3
<1> QED BY <1>1, <1>2, <1>3, <1>4, <1>5 DEF TableOK, StoreOK

LEMMA RetainTable ==
  ASSUME TableOK, NEW key \in Key, Retain(key)
  PROVE  /\ TableOK' /\ serial' = serial /\ DOMAIN entries' = DOMAIN entries
         /\ key.run \in DOMAIN entries => entries'[key.run] = key.revision + 1
         /\ \A r \in DOMAIN entries : r # key.run => entries'[r] = entries[r]
<1>1. key.revision + 1 \in Nat
  BY DEF Key
<1>2. entries' = [entries EXCEPT ![key.run] = key.revision + 1] /\ serial' = serial
  BY DEF Retain
<1>3. entries \in [DOMAIN entries -> Nat]
  BY DEF TableOK
<1>4. entries' \in [DOMAIN entries -> Nat]
  BY <1>1, <1>2, <1>3
<1>5. /\ DOMAIN entries' = DOMAIN entries
      /\ key.run \in DOMAIN entries => entries'[key.run] = key.revision + 1
      /\ \A r \in DOMAIN entries : r # key.run => entries'[r] = entries[r]
  BY <1>2, <1>3
<1>6. \A r \in DOMAIN entries' : entries'[r] \in Nat
  BY <1>4, <1>5
<1> QED BY <1>2, <1>4, <1>5, <1>6 DEF TableOK, StoreOK

LEMMA RetireTable ==
  ASSUME TableOK, NEW key \in Key, Retire(key)
  PROVE  /\ TableOK' /\ serial' = serial /\ DOMAIN entries' = DOMAIN entries \ {key.run}
         /\ \A r \in DOMAIN entries' : entries'[r] = entries[r]
<1>1. entries' = [r \in DOMAIN entries \ {key.run} |-> entries[r]] /\ serial' = serial
  BY DEF Retire
<1>2. /\ DOMAIN entries' = DOMAIN entries \ {key.run}
      /\ \A r \in DOMAIN entries' : entries'[r] = entries[r]
  BY <1>1
<1>3. entries' \in [DOMAIN entries' -> Nat] /\ \A r \in DOMAIN entries' : entries'[r] \in Nat
  BY <1>1 DEF TableOK, StoreOK
<1> QED BY <1>1, <1>2, <1>3 DEF TableOK, StoreOK

\* A step of a worker adds a run, moves one on or drops it.
LEMMA TableSteps ==
  ASSUME Inv, NEW n \in Ids, TableStep(n)
  PROVE  TableOK'
<1>1. TableOK
  BY DEF Inv, Types, TypeOK, TableOK
<1>2. CASE UNCHANGED store
  BY <1>1, <1>2 DEF store, TableOK, StoreOK
<1>3. CASE StartRun
  BY <1>1, <1>3, StartRunTable
<1>4. CASE workers[n].key \in Key /\ Retain(workers[n].key)
  BY <1>1, <1>4, RetainTable
<1>5. CASE workers[n].key \in Key /\ Retire(workers[n].key)
  BY <1>1, <1>5, RetireTable
<1> QED BY <1>2, <1>3, <1>4, <1>5 DEF TableStep

\* Spent and Resolves, after the step.
SpentThen(key) ==
  /\ key \in Key /\ key.run < serial'
  /\ key.run \in DOMAIN entries' => key.revision < entries'[key.run]

ResolvesThen(key) == key.run \in DOMAIN entries' /\ entries'[key.run] = key.revision

\* A spent key stays spent.
LEMMA SpentStays ==
  ASSUME Inv, NEW n \in Ids, TableStep(n), InFlight(n), NEW key \in Key, Spent(key)
  PROVE  SpentThen(key)
<1>1. TableOK
  BY DEF Inv, Types, TypeOK, TableOK
<1>2. key \in Key /\ key.run \in Nat /\ key.revision \in Nat /\ key.run < serial
      /\ (key.run \in DOMAIN entries => key.revision < entries[key.run])
  BY DEF Spent, Key
<1>3. CASE UNCHANGED store
  BY <1>3 DEF store, Spent, SpentThen
<1>4. CASE StartRun
  <2>1. /\ serial' = serial + 1 /\ serial \in Nat
        /\ DOMAIN entries' = DOMAIN entries \cup {serial}
        /\ \A r \in DOMAIN entries : entries'[r] = entries[r]
    BY <1>1, <1>4, StartRunTable
  <2>2. key.run # serial
    BY <1>2, <2>1
  <2> QED BY <1>2, <2>1, <2>2 DEF SpentThen
<1>5. CASE workers[n].key \in Key /\ Retire(workers[n].key)
  <2>1. /\ serial' = serial /\ DOMAIN entries' \subseteq DOMAIN entries
        /\ \A r \in DOMAIN entries' : entries'[r] = entries[r]
    BY <1>1, <1>5, RetireTable
  <2> QED BY <1>2, <2>1 DEF SpentThen
<1>6. CASE workers[n].key \in Key /\ Retain(workers[n].key) /\ Is(n, "search")
  <2>1. /\ serial' = serial /\ DOMAIN entries' = DOMAIN entries
        /\ \A r \in DOMAIN entries : r # workers[n].key.run => entries'[r] = entries[r]
        /\ workers[n].key.run \in DOMAIN entries
             => entries'[workers[n].key.run] = workers[n].key.revision + 1
    BY <1>1, <1>6, RetainTable
  <2>2. entries[workers[n].key.run] = workers[n].key.revision
    BY <1>6 DEF Inv, ConsumedInv, Resolves
  <2>3. workers[n].key.revision \in Nat
    BY <1>6 DEF Key
  <2> QED BY <1>2, <2>1, <2>2, <2>3 DEF SpentThen
<1> QED BY <1>3, <1>4, <1>5, <1>6 DEF TableStep

-----------------------------------------------------------------------------
(* The invariant is inductive.                                             *)

LEMMA Begins == Init => Inv
<1> SUFFICES ASSUME Init PROVE Inv
  OBVIOUS
<1>1. /\ serial = 0 /\ entries = [r \in {} |-> 0] /\ reader = At("read") /\ latest = -1
      /\ active = Nobody /\ workers = [n \in Ids |-> Idle] /\ results = [n \in Ids |-> NoAnswer]
      /\ controls = [n \in Ids |-> NoControl] /\ owner = "open" /\ output = "open"
  BY DEF Init, InitStore
<1>2. Idle \in Worker /\ NoAnswer \in Answer /\ NoControl \in Control /\ At("read") \in Reader
  BY DEF Idle, Worker, WorkerPCs, NoAnswer, Answer, NoControl, Control, At, Reader, ReaderPCs
<1>3. /\ Idle.pc = "none" /\ Idle.consumed = NoKey /\ NoControl.status = "none"
      /\ At("read").pc = "read"
  BY DEF Idle, NoControl, At
<1>4. DOMAIN entries = {} /\ entries \in [{} -> Nat]
  BY <1>1
<1>5. Types
  <2>1. TypeOK
    BY <1>1, <1>2, <1>3, <1>4 DEF TypeOK, StoreOK
  <2>2. WorkerTypes
    BY <1>1, <1>3 DEF WorkerTypes, Is
  <2> QED BY <1>4, <2>1, <2>2 DEF Types
<1>6. ActiveInv
  <2>1. Unused
    BY <1>1, ProtocolAssumption DEF Unused, Ids
  <2>2. ActiveOK
    BY <1>1, <1>3, ProtocolAssumption DEF ActiveOK, Running, Ids
  <2>3. ReaderOK /\ Acknowledged
    BY <1>1, <1>3 DEF ReaderOK, Acknowledged
  <2> QED BY <2>1, <2>2, <2>3 DEF ActiveInv
<1>7. ConsumedInv
  BY <1>1, <1>3 DEF ConsumedInv, ConsumedOnce, Is
<1> QED BY <1>5, <1>6, <1>7 DEF Inv

\* One worker at a time is in its operation.
LEMMA OneRunning ==
  ASSUME Inv, NEW n \in Ids, Running(n), NEW m \in Ids, m # n
  PROVE  ~Running(m) /\ active = n
BY DEF Inv, ActiveInv, ActiveOK

LEMMA InFlightKeepsTypes ==
  ASSUME Inv, NEW n \in Ids, InFlight(n), TableStep(n)
  PROVE  Types'
<1>1. TableOK'
  BY TableSteps
<1>2. /\ workers' \in [Ids -> Worker] /\ owner' \in {"open", "stale", "closed"}
      /\ UNCHANGED <<latest, active, results, controls, output>>
  BY DEF InFlight
<1>3. reader' \in Reader /\ (reader'.pc \in {"throw", "await"} => reader'.target \in Ids)
  <2>1. reader \in Reader /\ (reader.pc \in {"throw", "await"} => reader.target \in Ids)
    BY DEF Inv, Types, TypeOK
  <2>2. CASE UNCHANGED reader
    BY <2>1, <2>2
  <2>3. CASE reader.pc = "throw" /\ reader' = [reader EXCEPT !.pc = "await"]
    BY <2>1, <2>3 DEF Reader, ReaderPCs
  <2> QED BY <2>2, <2>3 DEF InFlight
<1>4. TypeOK'
  BY <1>1, <1>2, <1>3 DEF Inv, Types, TypeOK, TableOK
<1>5. WorkerTypes'
  <2>1. ASSUME NEW m \in Ids
        PROVE  /\ workers'[m].pc = "perform" /\ workers'[m].op \in {"advance", "snapshot", "discard"}
                    => workers'[m].key \in Key
               /\ workers'[m].pc = "search" => workers'[m].op = "advance" /\ workers'[m].key \in Key
    <3>1. CASE m = n
      <4>1. workers[n].pc = "perform" /\ workers[n].op = "advance" => workers[n].key \in Key
        BY DEF Inv, Types, WorkerTypes, Is
      <4> QED BY <3>1, <4>1 DEF InFlight, Is
    <3>2. CASE m # n
      <4>1. workers'[m] = workers[m]
        BY <3>2 DEF InFlight
      <4> QED BY <4>1 DEF Inv, Types, WorkerTypes, Is
    <3> QED BY <3>1, <3>2
  <2> QED BY <2>1 DEF WorkerTypes, Is
<1> QED BY <1>1, <1>4, <1>5 DEF Types, TableOK

LEMMA InFlightKeepsActive ==
  ASSUME Inv, NEW n \in Ids, InFlight(n)
  PROVE  ActiveInv'
<1>1. /\ active = n /\ workers'[n].pc \in {"search", "return", "report", "finish"}
      /\ workers'[n].pc \in {"return", "report"} => workers'[n].answer.status # "none"
      /\ \A m \in Ids : m # n => workers'[m] = workers[m]
      /\ UNCHANGED <<latest, active, results, controls>>
      /\ UNCHANGED reader \/ (reader.pc = "throw" /\ reader' = [reader EXCEPT !.pc = "await"])
  BY OneRunning DEF Inv, ActiveInv, ActiveOK, InFlight
<1>2. Unused'
  BY <1>1 DEF Inv, ActiveInv, Unused
<1>3. ActiveOK'
  <2>1. ASSUME NEW m \in Ids
        PROVE  /\ workers'[m].pc \in RunningPCs => active' = m
               /\ active' = m => workers'[m].pc \in RunningPCs \cup {"finish"}
               /\ results'[m] # NoAnswer => active' # m
               /\ workers'[m].pc \in {"return", "report"} => workers'[m].answer.status # "none"
    <3>1. CASE m = n
      BY <1>1, <3>1 DEF Inv, ActiveInv, ActiveOK, RunningPCs
    <3>2. CASE m # n
      BY <1>1, <3>2 DEF Inv, ActiveInv, ActiveOK, Running, RunningPCs
    <3> QED BY <3>1, <3>2
  <2> QED BY <2>1 DEF ActiveOK, Running, RunningPCs
<1>4. ReaderOK'
  <2>1. CASE UNCHANGED reader
    BY <1>1, <2>1 DEF Inv, ActiveInv, ReaderOK
  <2>2. CASE reader.pc = "throw" /\ reader' = [reader EXCEPT !.pc = "await"]
    <3>1. reader'.pc = "await" /\ reader'.target = reader.target
      BY <2>2 DEF Inv, Types, TypeOK, Reader
    <3> QED BY <1>1, <2>2, <3>1 DEF Inv, ActiveInv, ReaderOK
  <2> QED BY <1>1, <2>1, <2>2
<1>5. Acknowledged'
  <2> SUFFICES ASSUME NEW m \in Ids, controls'[m].status = "cancelled"
               PROVE  controls'[m].target \in Ids /\ workers'[controls'[m].target].pc = "done"
    BY DEF Acknowledged, Is
  <2>1. controls' = controls /\ controls[m].target \in Ids /\ workers[controls[m].target].pc = "done"
    BY <1>1 DEF Inv, ActiveInv, Acknowledged, Is
  <2>2. workers[n].pc # "done"
    BY DEF InFlight, Running
  <2> QED BY <1>1, <2>1, <2>2
<1> QED BY <1>2, <1>3, <1>4, <1>5 DEF ActiveInv

LEMMA InFlightKeepsConsumed ==
  ASSUME Inv, NEW n \in Ids, InFlight(n), TableStep(n)
  PROVE  ConsumedInv'
<1>1. /\ Running(n) /\ workers'[n].key = workers[n].key
      /\ workers'[n].pc \in {"search", "return", "report", "finish"}
      /\ \A m \in Ids : m # n => workers'[m] = workers[m]
  BY DEF InFlight
<1>2. \A m \in Ids : m # n => ~Running(m)
  BY <1>1, OneRunning
<1>3. TableOK
  BY DEF Inv, Types, TypeOK, TableOK
<1>4. \A m \in Ids : workers[m].consumed # NoKey => Spent(workers[m].consumed)
  BY DEF Inv, ConsumedInv
<1>5. ASSUME workers'[n].consumed # workers[n].consumed
      PROVE  /\ SpentThen(workers'[n].consumed)
             /\ workers'[n].pc = "return"
             /\ \A m \in Ids : workers[m].consumed # workers'[n].consumed
  <2>1. /\ Is(n, "search") /\ workers[n].key \in Key /\ workers'[n].consumed = workers[n].key
        /\ workers'[n].pc = "return"
        /\ Retire(workers[n].key) \/ Retain(workers[n].key)
    BY <1>5 DEF TableStep
  <2> DEFINE key == workers[n].key
  <2>2. key.run \in DOMAIN entries /\ entries[key.run] = key.revision
    BY <2>1 DEF Inv, ConsumedInv, Resolves
  <2>3. serial \in Nat /\ key.run \in 0..serial - 1 /\ key.revision \in Nat
    BY <1>3, <2>1, <2>2 DEF TableOK, StoreOK, Key
  <2>4. SpentThen(key)
    <3>1. CASE Retire(key)
      <4>1. serial' = serial /\ key.run \notin DOMAIN entries'
        BY <1>3, <2>1, <3>1, RetireTable
      <4> QED BY <2>1, <2>3, <4>1 DEF SpentThen
    <3>2. CASE Retain(key)
      <4>1. serial' = serial /\ entries'[key.run] = key.revision + 1
        BY <1>3, <2>1, <2>2, <3>2, RetainTable
      <4> QED BY <2>1, <2>3, <4>1 DEF SpentThen
    <3> QED BY <2>1, <3>1, <3>2
  <2>5. ~Spent(key) /\ key # NoKey
    BY <2>1, <2>2, <2>3, RunAssumption DEF Spent
  <2>6. \A m \in Ids : workers[m].consumed # key
    BY <1>4, <2>5
  <2> QED BY <2>1, <2>4, <2>6
<1>6. ASSUME NEW m \in Ids, workers'[m].pc = "search"
      PROVE  ResolvesThen(workers'[m].key)
  <2>1. m = n
    BY <1>1, <1>2, <1>6 DEF Running
  <2>2. Is(n, "perform") /\ Resolves(workers[n].key) /\ workers'[n].pc = "search"
    BY <1>6, <2>1 DEF InFlight
  <2>3. UNCHANGED store
    BY <2>2 DEF TableStep, Is
  <2> QED BY <1>1, <2>1, <2>2, <2>3 DEF store, Resolves, ResolvesThen
<1>7. ASSUME NEW m \in Ids, workers'[m].consumed # NoKey
      PROVE  SpentThen(workers'[m].consumed)
  <2>1. CASE workers'[m].consumed = workers[m].consumed
    <3>1. Spent(workers[m].consumed)
      BY <1>4, <1>7, <2>1
    <3>2. workers[m].consumed \in Key
      BY <3>1 DEF Spent
    <3> QED BY <2>1, <3>1, <3>2, SpentStays
  <2>2. CASE workers'[m].consumed # workers[m].consumed
    <3>1. m = n
      BY <1>1, <2>2
    <3> QED BY <1>5, <2>2, <3>1
  <2> QED BY <2>1, <2>2
<1>8. ASSUME NEW m \in Ids, workers'[m].pc \in {"none", "perform", "search"}
      PROVE  workers'[m].consumed = NoKey
  <2>1. CASE m = n
    <3>1. Is(n, "perform") /\ workers'[n].pc = "search"
      BY <1>1, <1>8, <2>1 DEF InFlight
    <3>2. workers[n].consumed = NoKey
      BY <3>1 DEF Inv, ConsumedInv, Is
    <3> QED BY <1>5, <2>1, <3>1, <3>2
  <2>2. CASE m # n
    BY <1>1, <1>8, <2>2 DEF Inv, ConsumedInv
  <2> QED BY <2>1, <2>2
<1>9. ConsumedOnce'
  <2> SUFFICES ASSUME NEW l \in Ids, NEW m \in Ids, l # m, workers'[l].consumed # NoKey
               PROVE  workers'[l].consumed # workers'[m].consumed
    BY DEF ConsumedOnce
  <2>1. CASE l = n
    <3>1. workers'[m] = workers[m]
      BY <1>1, <2>1
    <3> QED BY <1>5, <2>1, <3>1 DEF Inv, ConsumedInv, ConsumedOnce
  <2>2. CASE m = n
    <3>1. workers'[l] = workers[l]
      BY <1>1, <2>2
    <3> QED BY <1>5, <2>2, <3>1 DEF Inv, ConsumedInv, ConsumedOnce
  <2>3. CASE l # n /\ m # n
    BY <1>1, <2>3 DEF Inv, ConsumedInv, ConsumedOnce
  <2> QED BY <2>1, <2>2, <2>3
<1>10. (\A m \in Ids : Is(m, "search") => Resolves(workers[m].key))'
  BY <1>6 DEF Is, Resolves, ResolvesThen
<1>11. (\A m \in Ids : workers[m].consumed # NoKey => Spent(workers[m].consumed))'
  BY <1>7 DEF Spent, SpentThen
<1> QED BY <1>8, <1>9, <1>10, <1>11 DEF ConsumedInv

\* A step that leaves the run table alone keeps what is known of the keys.
LEMMA KeysKept ==
  ASSUME Inv, UNCHANGED store,
         \A m \in Ids : \/ workers'[m] = workers[m]
                        \/ /\ workers'[m].consumed = workers[m].consumed
                           /\ workers'[m].pc # "search"
                           /\ workers'[m].pc \in {"none", "perform"} => workers[m].consumed = NoKey
  PROVE  ConsumedInv'
<1>1. \A m \in Ids : workers'[m].consumed = workers[m].consumed
  OBVIOUS
<1>2. ASSUME NEW m \in Ids, workers'[m].pc = "search"
      PROVE  ResolvesThen(workers'[m].key)
  <2>1. workers'[m] = workers[m]
    BY <1>2
  <2> QED BY <1>2, <2>1 DEF Inv, ConsumedInv, Is, store, Resolves, ResolvesThen
<1>3. ASSUME NEW m \in Ids, workers'[m].consumed # NoKey
      PROVE  SpentThen(workers'[m].consumed)
  <2>1. workers'[m].consumed = workers[m].consumed /\ Spent(workers[m].consumed)
    BY <1>1, <1>3 DEF Inv, ConsumedInv
  <2> QED BY <2>1 DEF store, Spent, SpentThen
<1>4. ASSUME NEW m \in Ids, workers'[m].pc \in {"none", "perform", "search"}
      PROVE  workers'[m].consumed = NoKey
  BY <1>1, <1>4 DEF Inv, ConsumedInv
<1>5. ConsumedOnce'
  BY <1>1 DEF Inv, ConsumedInv, ConsumedOnce
<1>6. (\A m \in Ids : Is(m, "search") => Resolves(workers[m].key))'
  BY <1>2 DEF Is, Resolves, ResolvesThen
<1>7. (\A m \in Ids : workers[m].consumed # NoKey => Spent(workers[m].consumed))'
  BY <1>3 DEF Spent, SpentThen
<1> QED BY <1>4, <1>5, <1>6, <1>7 DEF ConsumedInv

\* A step of the reader that launches nothing.
LEMMA ReaderKeeps ==
  ASSUME Inv, UNCHANGED <<store, workers, results, active>>,
         latest' \in Ids \cup {-1}, latest' >= latest, owner' \in {"open", "stale", "closed"},
         output' \in {"open", "broken"}, reader' \in Reader, controls' \in [Ids -> Control],
         ReaderOK', Acknowledged'
  PROVE  Inv'
<1>1. Types'
  <2>1. TypeOK'
    BY DEF Inv, Types, TypeOK, StoreOK, store, ReaderOK
  <2>2. WorkerTypes'
    BY DEF Inv, Types, WorkerTypes, Is
  <2> QED BY <2>1, <2>2 DEF Inv, Types, store
<1>2. Unused'
  <2>1. latest \in Int /\ latest' \in Int /\ Ids \subseteq Int
    BY DEF Inv, Types, TypeOK, Ids
  <2> QED BY <2>1 DEF Inv, ActiveInv, Unused
<1>3. ActiveOK'
  BY DEF Inv, ActiveInv, ActiveOK, Running
<1>4. ConsumedInv'
  BY KeysKept
<1> QED BY <1>1, <1>2, <1>3, <1>4 DEF Inv, ActiveInv

LEMMA AnswersTo ==
  ASSUME Inv, NEW n \in Ids \cup {Nobody}, NEW status \in {"busy", "idle", "cancelled", "closed"},
         NEW target \in Ids \cup {Nobody}, NEW next \in {"read", "stop"},
         Answers(n, status, target, next)
  PROVE  /\ reader' \in Reader /\ reader'.pc \in {"read", "stop"}
         /\ controls' \in [Ids -> Control]
         /\ \A m \in Ids : \/ controls'[m] = controls[m]
                           \/ controls'[m].status = status /\ controls'[m].target = target
<1> DEFINE control == [status |-> status, target |-> target]
<1>1. control \in Control /\ control.status = status /\ control.target = target
  BY DEF Control
<1>2. \A pc \in {"read", "stop"} : At(pc) \in Reader /\ At(pc).pc = pc
  BY DEF At, Reader, ReaderPCs
<1>3. controls \in [Ids -> Control]
  BY DEF Inv, Types, TypeOK
<1>4. \/ controls' = [controls EXCEPT ![n] = control] /\ reader' = At(next)
      \/ controls' = controls /\ reader' = At("stop")
  BY DEF Answers
<1> HIDE DEF control
<1> QED BY <1>1, <1>2, <1>3, <1>4

LEMMA KillsTo ==
  ASSUME Inv, active # Nobody, NEW n \in Ids \cup {Nobody}, NEW why \in {"cancel", "close", "stop"},
         Kills(n, why)
  PROVE  /\ reader' \in Reader /\ reader'.pc = "throw"
         /\ reader'.target = active /\ active \in Ids /\ active <= latest
<1>1. active \in Ids /\ latest \in Int /\ Ids \subseteq Int
  BY DEF Inv, Types, TypeOK, Ids
<1>2. active <= latest
  BY <1>1 DEF Inv, ActiveInv, Unused
<1> QED BY <1>1, <1>2 DEF Kills, Reader, ReaderPCs

\* Only a cancellation whose target is over may be added to the answers.
LEMMA AcknowledgedStays ==
  ASSUME Inv, UNCHANGED workers,
         \A m \in Ids : \/ controls'[m] = controls[m]
                        \/ controls'[m].status # "cancelled"
                        \/ controls'[m].target \in Ids /\ Is(controls'[m].target, "done")
  PROVE  Acknowledged'
<1> SUFFICES ASSUME NEW m \in Ids, controls'[m].status = "cancelled"
             PROVE  controls'[m].target \in Ids /\ workers'[controls'[m].target].pc = "done"
  BY DEF Acknowledged, Is
<1> QED BY DEF Inv, ActiveInv, Acknowledged, Is

LEMMA AcceptsTo ==
  ASSUME Inv, NEW n \in Ids, Accepts(n)
  PROVE  latest' \in Ids \cup {-1} /\ latest' >= latest /\ latest' = n /\ n > latest
BY DEF Inv, Types, TypeOK, Accepts, Ids

\* The reader's own steps.
Reads ==
  \/ \E n \in Ids : Busy(n) \/ Cancel(n) \/ Close(n)
  \/ EndOfInput \/ Stop \/ ThrowReturns \/ Awaited \/ End \/ BreakOutput

LEMMA ReadsKeep ==
  ASSUME Inv, Reads
  PROVE  Inv'
<1>1. /\ reader \in Reader /\ latest \in Ids \cup {-1} /\ active \in Ids \cup {Nobody}
      /\ controls \in [Ids -> Control] /\ owner \in {"open", "stale", "closed"}
      /\ output \in {"open", "broken"} /\ latest \in Int
  BY DEF Inv, Types, TypeOK, Ids
<1>2. UNCHANGED <<store, workers, results, active>>
  BY DEF Reads, Busy, Cancel, Close, EndOfInput, Stop, ThrowReturns, Awaited, End, BreakOutput,
         readerOnly
<1>3. ASSUME NEW n \in Ids \cup {Nobody}, NEW status \in {"busy", "idle", "cancelled", "closed"},
             NEW target \in Ids \cup {Nobody}, NEW next \in {"read", "stop"},
             Answers(n, status, target, next), UNCHANGED <<owner, output>>,
             latest' \in Ids \cup {-1}, latest' >= latest,
             status = "cancelled" => target \in Ids /\ Is(target, "done")
      PROVE  Inv'
  <2>1. /\ reader' \in Reader /\ reader'.pc \in {"read", "stop"}
        /\ controls' \in [Ids -> Control]
        /\ \A m \in Ids : \/ controls'[m] = controls[m]
                          \/ controls'[m].status = status /\ controls'[m].target = target
    BY <1>3, AnswersTo
  <2>2. ReaderOK'
    BY <2>1 DEF ReaderOK
  <2>3. Acknowledged'
    BY <1>2, <1>3, <2>1, AcknowledgedStays
  <2> QED BY <1>1, <1>2, <1>3, <2>1, <2>2, <2>3, ReaderKeeps
<1>4. ASSUME active # Nobody, NEW n \in Ids \cup {Nobody}, NEW why \in {"cancel", "close", "stop"},
             Kills(n, why), UNCHANGED <<controls, owner, output>>,
             latest' \in Ids \cup {-1}, latest' >= latest
      PROVE  Inv'
  <2>1. /\ reader' \in Reader /\ reader'.pc = "throw"
        /\ reader'.target = active /\ active \in Ids /\ active <= latest
    BY <1>4, KillsTo
  <2>2. latest' \in Int /\ active \in Int
    BY <1>4, <2>1 DEF Ids
  <2>3. ReaderOK'
    BY <1>1, <1>2, <1>4, <2>1, <2>2 DEF ReaderOK
  <2>4. Acknowledged'
    BY <1>2, <1>4, AcknowledgedStays
  <2> QED BY <1>1, <1>2, <1>4, <2>1, <2>3, <2>4, ReaderKeeps
<1>5. ASSUME NEW pc \in {"stop", "closing", "ended"}, reader' = At(pc), UNCHANGED <<controls, latest, output>>,
             owner' \in {owner, "closed"}, pc # "stop" => active = Nobody
      PROVE  Inv'
  <2>1. reader' \in Reader /\ reader'.pc = pc
    BY <1>5 DEF At, Reader, ReaderPCs
  <2>2. ReaderOK'
    BY <1>2, <1>5, <2>1 DEF ReaderOK
  <2>3. Acknowledged'
    BY <1>2, <1>5, AcknowledgedStays
  <2> QED BY <1>1, <1>2, <1>5, <2>1, <2>2, <2>3, ReaderKeeps
<1>6. ASSUME NEW n \in Ids, Busy(n)
      PROVE  Inv'
  BY <1>1, <1>3, <1>6, AcceptsTo DEF Busy, readerOnly
<1>7. ASSUME NEW n \in Ids, Cancel(n)
      PROVE  Inv'
  <2>1. CASE active = Nobody
    BY <1>1, <1>3, <1>7, <2>1, AcceptsTo DEF Cancel, readerOnly
  <2>2. CASE active # Nobody
    BY <1>1, <1>4, <1>7, <2>2, AcceptsTo DEF Cancel, readerOnly
  <2> QED BY <2>1, <2>2
<1>8. ASSUME NEW n \in Ids, Close(n)
      PROVE  Inv'
  <2>1. CASE active = Nobody
    BY <1>1, <1>3, <1>8, <2>1, AcceptsTo DEF Close, readerOnly
  <2>2. CASE active # Nobody
    BY <1>1, <1>4, <1>8, <2>2, AcceptsTo DEF Close, readerOnly
  <2> QED BY <2>1, <2>2
<1>9. CASE EndOfInput
  BY <1>1, <1>5, <1>9 DEF EndOfInput, readerOnly
<1>10. CASE Stop
  <2>1. CASE active = Nobody
    BY <1>5, <1>10, <2>1 DEF Stop, readerOnly
  <2>2. CASE active # Nobody
    <3>1. Kills(Nobody, "stop") /\ UNCHANGED <<controls, owner, output, latest>>
      BY <1>10, <2>2 DEF Stop, readerOnly
    <3>2. latest' \in Ids \cup {-1} /\ latest' >= latest
      BY <1>1, <3>1
    <3> QED BY <1>4, <2>2, <3>1, <3>2
  <2> QED BY <2>1, <2>2
<1>11. CASE ThrowReturns
  <2>1. reader' \in Reader /\ reader'.pc = "await" /\ reader'.target = reader.target
    BY <1>1, <1>11 DEF ThrowReturns, Reader, ReaderPCs
  <2>2. ReaderOK'
    BY <1>2, <1>11, <2>1 DEF Inv, ActiveInv, ReaderOK, ThrowReturns
  <2>3. Acknowledged'
    BY <1>2, <1>11, AcknowledgedStays DEF ThrowReturns
  <2> QED BY <1>1, <1>2, <1>11, <2>1, <2>2, <2>3, ReaderKeeps DEF ThrowReturns, readerOnly
<1>12. CASE Awaited
  <2>1. /\ reader.target \in Ids /\ Is(reader.target, "done") /\ active \in {reader.target, Nobody}
        /\ UNCHANGED <<latest, owner, output>>
    BY <1>12 DEF Awaited, Is, Inv, ActiveInv, ReaderOK, readerOnly
  <2>2. active = Nobody
    BY <2>1 DEF Inv, ActiveInv, ActiveOK, Is, RunningPCs
  <2>3. \/ Answers(reader.request, "cancelled", reader.target, "read")
        \/ Answers(reader.request, "closed", reader.target, "stop")
        \/ reader' = At("closing") /\ UNCHANGED controls
    BY <1>12 DEF Awaited, Acknowledge
  <2>4. latest' \in Ids \cup {-1} /\ latest' >= latest /\ reader.request \in Ids \cup {Nobody}
    BY <1>1, <2>1 DEF Reader
  <2>5. CASE Answers(reader.request, "cancelled", reader.target, "read")
    BY <1>3, <2>1, <2>4, <2>5
  <2>6. CASE Answers(reader.request, "closed", reader.target, "stop")
    BY <1>3, <2>1, <2>4, <2>6
  <2>7. CASE reader' = At("closing") /\ UNCHANGED controls
    BY <1>1, <1>5, <2>1, <2>2, <2>7
  <2> QED BY <2>3, <2>5, <2>6, <2>7
<1>13. CASE End
  <2>1. active = Nobody
    BY <1>13 DEF End, Inv, ActiveInv, ReaderOK
  <2> QED BY <1>1, <1>5, <1>13, <2>1 DEF End
<1>14. CASE BreakOutput
  <2>1. ReaderOK' /\ Acknowledged'
    <3>1. ReaderOK'
      BY <1>14 DEF BreakOutput, Inv, ActiveInv, ReaderOK
    <3>2. Acknowledged'
      BY <1>14, AcknowledgedStays DEF BreakOutput
    <3> QED BY <3>1, <3>2
  <2> QED BY <1>1, <1>2, <1>14, <2>1, ReaderKeeps DEF BreakOutput
<1> QED BY <1>6, <1>7, <1>8, <1>9, <1>10, <1>11, <1>12, <1>13, <1>14 DEF Reads

LEMMA LaunchKeeps ==
  ASSUME Inv, NEW n \in Ids, NEW op \in AllOperations, NEW key \in Key \cup {NoKey},
         op \in {"advance", "snapshot", "discard"} => key \in Key,
         Launch(n, op, key)
  PROVE  Inv'
<1>1. /\ reader \in Reader /\ latest \in Ids \cup {-1} /\ active = Nobody
      /\ controls \in [Ids -> Control] /\ output \in {"open", "broken"} /\ reader.pc = "read"
      /\ workers \in [Ids -> Worker] /\ results \in [Ids -> Answer]
      /\ UNCHANGED <<store, results, controls, owner, output>>
  BY DEF Inv, Types, TypeOK, Launch, Accepts
<1>2. /\ latest' \in Ids \cup {-1} /\ latest' = n /\ n > latest
      /\ \A m \in Ids : m > n => m > latest
  <2>1. latest' \in Ids \cup {-1} /\ latest' = n /\ n > latest
    BY AcceptsTo DEF Launch
  <2>2. latest \in Int /\ Ids \subseteq Int
    BY <1>1 DEF Ids
  <2> QED BY <2>1, <2>2
<1>3. workers[n] = Idle /\ results[n] = NoAnswer
  BY <1>2 DEF Inv, ActiveInv, Unused
<1>4. CASE output = "open"
  <2> DEFINE w == [Idle EXCEPT !.pc = "perform", !.op = op, !.key = key]
  <2>1. w \in Worker /\ w.pc = "perform" /\ w.op = op /\ w.key = key /\ w.consumed = NoKey
    BY DEF Idle, Worker, WorkerPCs, NoAnswer, Answer
  <2>2. workers' = [workers EXCEPT ![n] = w] /\ active' = n /\ UNCHANGED reader
    BY <1>4 DEF Launch
  <2> HIDE DEF w
  <2>3. /\ workers' \in [Ids -> Worker] /\ workers'[n] = w
        /\ \A m \in Ids : m # n => workers'[m] = workers[m]
    BY <1>1, <2>1, <2>2
  <2>4. Types'
    <3>1. TypeOK'
      BY <1>1, <1>2, <2>2, <2>3 DEF Inv, Types, TypeOK, StoreOK, store
    <3>2. WorkerTypes'
      BY <2>1, <2>3 DEF Inv, Types, WorkerTypes, Is
    <3> QED BY <1>1, <3>1, <3>2 DEF Inv, Types, store
  <2>5. Unused'
    BY <1>1, <1>2, <2>2, <2>3 DEF Inv, ActiveInv, Unused, Ids
  <2>6. ActiveOK'
    <3>1. \A m \in Ids : m # n => workers'[m].pc \notin RunningPCs
      BY <1>1, <2>3, ProtocolAssumption DEF Inv, ActiveInv, ActiveOK, Running, RunningPCs, Ids
    <3> QED BY <1>1, <1>3, <2>1, <2>2, <2>3, <3>1
            DEF Inv, ActiveInv, ActiveOK, Running, RunningPCs
  <2>7. ReaderOK'
    BY <1>1, <2>2 DEF ReaderOK
  <2>8. Acknowledged'
    <3>1. \A m \in Ids : Is(m, "done") => workers'[m].pc = "done"
      BY <1>3, <2>3 DEF Is, Idle
    <3> QED BY <1>1, <3>1 DEF Inv, ActiveInv, Acknowledged, Is
  <2>9. ConsumedInv'
    <3>1. workers[n].consumed = NoKey
      BY <1>3 DEF Idle
    <3> QED BY <1>1, <2>1, <2>3, <3>1, KeysKept
  <2> QED BY <2>4, <2>5, <2>6, <2>7, <2>8, <2>9 DEF Inv, ActiveInv
<1>5. CASE output # "open"
  <2>1. UNCHANGED <<active, workers>> /\ reader' = At("stop")
    BY <1>5 DEF Launch
  <2>2. reader' \in Reader /\ reader'.pc = "stop"
    BY <2>1 DEF At, Reader, ReaderPCs
  <2>3. ReaderOK'
    BY <2>2 DEF ReaderOK
  <2>4. Acknowledged'
    BY <1>1, <2>1, AcknowledgedStays
  <2>5. owner' \in {"open", "stale", "closed"} /\ latest' >= latest
    BY <1>1, <1>2 DEF Inv, Types, TypeOK, Ids
  <2> QED BY <1>1, <1>2, <2>1, <2>2, <2>3, <2>4, <2>5, ReaderKeeps
<1> QED BY <1>4, <1>5

\* The end of a worker, whether or not it says its result.
Ends(n) ==
  /\ workers' \in [Ids -> Worker] /\ Others(n)
  /\ workers'[n].consumed = workers[n].consumed
  /\ active' = active \/ (active = n /\ active' = Nobody)
  /\ active' = n => workers'[n].pc = "finish"
  /\ workers'[n].pc \in {"finish", "done"} /\ ~Is(n, "done")
  /\ results' \in [Ids -> Answer] /\ \A m \in Ids \ {n} : results'[m] = results[m]
  /\ active' = n => results'[n] = results[n]
  /\ n <= latest
  /\ UNCHANGED <<store, reader, latest, controls, owner, output>>

LEMMA EndsKeep ==
  ASSUME Inv, NEW n \in Ids, Ends(n)
  PROVE  Inv'
<1>1. /\ workers' \in [Ids -> Worker] /\ \A m \in Ids : m # n => workers'[m] = workers[m]
      /\ workers'[n].pc \in {"finish", "done"}
      /\ active' \in {active, Nobody} /\ active \in Ids \cup {Nobody}
      /\ UNCHANGED <<store, reader, latest, controls, owner, output>>
      /\ n <= latest /\ latest \in Int /\ Ids \subseteq Int /\ Nobody \notin Ids
  BY ProtocolAssumption DEF Ends, Others, Inv, Types, TypeOK, Ids
<1>2. Types'
  <2>1. TypeOK'
    BY <1>1 DEF Ends, Inv, Types, TypeOK, StoreOK, store
  <2>2. WorkerTypes'
    <3> SUFFICES ASSUME NEW m \in Ids, workers'[m].pc \in {"perform", "search"}
                 PROVE  workers'[m] = workers[m]
      BY DEF Inv, Types, WorkerTypes, Is
    <3> QED BY <1>1
  <2> QED BY <1>1, <2>1, <2>2 DEF Inv, Types, store
<1>3. Unused'
  <2> SUFFICES ASSUME NEW m \in Ids, m > latest
               PROVE  workers'[m] = Idle /\ results'[m] = NoAnswer /\ active' # m
    BY <1>1 DEF Unused
  <2> QED BY <1>1 DEF Inv, ActiveInv, Unused, Ends
<1>4. ActiveOK'
  <2>1. ASSUME NEW m \in Ids
        PROVE  /\ workers'[m].pc \in RunningPCs => active' = m
               /\ active' = m => workers'[m].pc \in RunningPCs \cup {"finish"}
               /\ results'[m] # NoAnswer => active' # m
               /\ workers'[m].pc \in {"return", "report"} => workers'[m].answer.status # "none"
    <3>1. CASE m = n
      BY <1>1, <3>1 DEF Inv, ActiveInv, ActiveOK, RunningPCs, Ends
    <3>2. CASE m # n
      <4>1. workers'[m] = workers[m] /\ results'[m] = results[m]
        BY <1>1, <3>2 DEF Ends
      <4>2. active' # active => active = n
        BY DEF Ends
      <4> QED BY <1>1, <3>2, <4>1, <4>2 DEF Inv, ActiveInv, ActiveOK, Running, RunningPCs
    <3> QED BY <3>1, <3>2
  <2> QED BY <2>1 DEF ActiveOK, Running, RunningPCs
<1>5. ReaderOK'
  BY <1>1 DEF Inv, ActiveInv, ReaderOK
<1>6. Acknowledged'
  <2>1. \A m \in Ids : Is(m, "done") => workers'[m].pc = "done"
    BY <1>1 DEF Is, Ends
  <2> QED BY <1>1, <2>1 DEF Inv, ActiveInv, Acknowledged, Is
<1>7. ConsumedInv'
  <2>1. \A m \in Ids : \/ workers'[m] = workers[m]
                       \/ /\ workers'[m].consumed = workers[m].consumed
                          /\ workers'[m].pc # "search"
                          /\ workers'[m].pc \in {"none", "perform"} => workers[m].consumed = NoKey
    BY <1>1 DEF Ends
  <2> QED BY <1>1, <2>1, KeysKept
<1> QED BY <1>2, <1>3, <1>4, <1>5, <1>6, <1>7 DEF Inv, ActiveInv

LEMMA PublishKeeps ==
  ASSUME Inv, NEW n \in Ids, Publish(n)
  PROVE  Inv' /\ Ends(n) /\ workers'[n].pc = "finish" /\ active = n
<1>1. workers \in [Ids -> Worker] /\ workers[n].answer \in Answer /\ Is(n, "report") /\ active = n
  BY DEF Inv, Types, TypeOK, Worker, Publish, ActiveInv, ActiveOK, Running, Is
<1>2. /\ workers' \in [Ids -> Worker] /\ Others(n) /\ workers'[n].pc = "finish"
      /\ workers'[n].consumed = workers[n].consumed
  BY <1>1, StepsTo, PCs DEF Publish
<1>3. /\ results \in [Ids -> Answer] /\ n <= latest
  BY <1>1 DEF Inv, Types, TypeOK, ActiveInv, Unused, Ids
<1>4. Ends(n)
  BY <1>1, <1>2, <1>3, ProtocolAssumption DEF Ends, Publish, Is, Retired, workerOnly, Ids
<1> QED BY <1>1, <1>2, <1>4, EndsKeep

LEMMA FinishKeeps ==
  ASSUME Inv, NEW n \in Ids, Finish(n)
  PROVE  Inv' /\ Ends(n) /\ workers'[n].pc = "done" /\ UNCHANGED results
<1>1. workers \in [Ids -> Worker] /\ workers[n] \in Worker /\ Is(n, "finish")
  BY DEF Inv, Types, TypeOK, Finish
<1> DEFINE w == [Idle EXCEPT !.pc = "done", !.consumed = workers[n].consumed]
<1>2. w \in Worker /\ w.pc = "done" /\ w.consumed = workers[n].consumed
  BY <1>1 DEF Idle, Worker, WorkerPCs, NoAnswer, Answer
<1>3. workers' = [workers EXCEPT ![n] = w]
  BY DEF Finish
<1> HIDE DEF w
<1>4. workers' \in [Ids -> Worker] /\ Others(n) /\ workers'[n] = w
  BY <1>1, <1>2, <1>3 DEF Others
<1>5. results \in [Ids -> Answer] /\ n <= latest
  BY <1>1 DEF Inv, Types, TypeOK, ActiveInv, Unused, Ids, Is, Idle
<1>6. Ends(n)
  BY <1>1, <1>2, <1>4, <1>5, ProtocolAssumption DEF Ends, Finish, Is, Retired, workerOnly, Ids
<1> QED BY <1>2, <1>4, <1>6, EndsKeep DEF Finish

LEMMA ActsKeep ==
  ASSUME Inv, NEW n \in Ids, Acts(n)
  PROVE  Inv'
<1>1. InFlight(n) /\ TableStep(n)
  BY Acting
<1> QED BY <1>1, InFlightKeepsTypes, InFlightKeepsActive, InFlightKeepsConsumed DEF Inv

\* Every step is one of these.
LEMMA NextIs ==
  ASSUME Next
  PROVE  \/ \E n \in Ids, op \in AllOperations, key \in Key \cup {NoKey} :
              /\ op \in {"advance", "snapshot", "discard"} => key \in Key
              /\ Launch(n, op, key)
         \/ Reads
         \/ \E n \in Ids : Acts(n) \/ Publish(n) \/ Finish(n)
<1>1. CASE Receive
  <2>1. SentKeys \subseteq Key /\ Operations \subseteq AllOperations
    BY RunAssumption, ProtocolAssumption DEF SentKeys, Key
  <2>2. PICK n \in Ids :
          \/ \E op \in Operations :
               IF op \in {"advance", "snapshot", "discard"}
               THEN \E key \in SentKeys : Launch(n, op, key)
               ELSE Launch(n, op, NoKey)
          \/ Busy(n) \/ Cancel(n) \/ Close(n)
    BY <1>1 DEF Receive
  <2>3. CASE Busy(n) \/ Cancel(n) \/ Close(n)
    BY <2>3 DEF Reads
  <2>4. ASSUME NEW op \in Operations, op \in {"advance", "snapshot", "discard"},
               NEW key \in SentKeys, Launch(n, op, key)
        PROVE  \E m \in Ids, o \in AllOperations, k \in Key \cup {NoKey} :
                 /\ o \in {"advance", "snapshot", "discard"} => k \in Key
                 /\ Launch(m, o, k)
    BY <2>1, <2>4
  <2>5. ASSUME NEW op \in Operations, op \notin {"advance", "snapshot", "discard"},
               Launch(n, op, NoKey)
        PROVE  \E m \in Ids, o \in AllOperations, k \in Key \cup {NoKey} :
                 /\ o \in {"advance", "snapshot", "discard"} => k \in Key
                 /\ Launch(m, o, k)
    BY <2>1, <2>5
  <2> QED BY <2>2, <2>3, <2>4, <2>5
<1>2. CASE EndOfInput \/ BreakOutput \/ ReaderStep
  BY <1>2 DEF Reads, ReaderStep
<1>3. CASE \E n \in Ids : Performs(n) \/ WorkerStep(n) \/ Disturbs(n)
  BY <1>3 DEF Performs, WorkerStep, Disturbs, Acts
<1> QED BY <1>1, <1>2, <1>3 DEF Next

LEMMA Stutters ==
  ASSUME Inv, UNCHANGED vars
  PROVE  Inv'
<1>1. UNCHANGED <<store, reader, latest, active, workers, results, controls, owner, output>>
  BY DEF vars
<1>2. ReaderOK'
  BY <1>1 DEF Inv, ActiveInv, ReaderOK
<1>3. Acknowledged'
  BY <1>1, AcknowledgedStays
<1> QED BY <1>1, <1>2, <1>3, ReaderKeeps DEF Inv, Types, TypeOK, Ids

LEMMA StepsKeep == Inv /\ [Next]_vars => Inv'
<1> SUFFICES ASSUME Inv, [Next]_vars PROVE Inv'
  OBVIOUS
<1>1. CASE Next
  BY <1>1, NextIs, LaunchKeeps, ReadsKeep, ActsKeep, PublishKeeps, FinishKeeps
<1>2. CASE UNCHANGED vars
  BY <1>2, Stutters
<1> QED BY <1>1, <1>2

LEMMA InvHolds == Spec => []Inv
BY Begins, StepsKeep, PTL DEF Spec

-----------------------------------------------------------------------------
(* What a client may rely on.                                              *)

\* The variables keep their types, every worker in an operation the key of its
\* request among them (SessionProtocol.hs: serve).
THEOREM ProtocolTypeCorrect == Spec => []TypeOK
<1>1. Inv => TypeOK
  BY DEF Inv, Types
<1> QED BY <1>1, InvHolds, PTL

\* active names the worker in its operation; who has read a result is not told
\* busy; and serve leaves nobody behind (SessionProtocol.hs: launch,
\* retire), with every failure.
THEOREM ActiveIsTrue == Spec => []ActiveAccounts
<1>1. Inv => ActiveAccounts
  <2> SUFFICES ASSUME Inv PROVE ActiveAccounts
    OBVIOUS
  <2>1. ActiveIsTheWorker /\ ResultMeansRetired
    BY DEF Inv, ActiveInv, ActiveOK, ActiveIsTheWorker, ResultMeansRetired
  <2>2. EndedMeansIdle
    BY ProtocolAssumption DEF Inv, ActiveInv, ActiveOK, ReaderOK, EndedMeansIdle, Ids
  <2> QED BY <2>1, <2>2 DEF ActiveAccounts
<1> QED BY <1>1, InvHolds, PTL

\* The answer to cancel is the last event of its target, with every failure
\* (SessionProtocol.hs: serve, which waits for done).
THEOREM CancelIsLast == Spec => []CancelledIsOver
<1>1. Inv => CancelledIsOver
  BY DEF Inv, ActiveInv, Acknowledged, CancelledIsOver
<1> QED BY <1>1, InvHolds, PTL

\* A revision of a run is consumed by one request at most, with every failure
\* (RunControl.hs: resolve, advance).
THEOREM NoneConsumedTwice == Spec => []ConsumedOnce
<1>1. Inv => ConsumedOnce
  BY DEF Inv, ConsumedInv
<1> QED BY <1>1, InvHolds, PTL

-----------------------------------------------------------------------------
(* What they may rely on short of some failures.                           *)

\* A thread that is not stopped by another exception, nor in its output, says
\* its result before it ends.
Told ==
  \A n \in Ids : workers[n].pc \in {"finish", "done"} => results[n] # NoAnswer \/ output = "broken"

LEMMA ToldKept ==
  ASSUME "overflow" \notin Faults, "blocked-output" \notin Faults, Inv, Told, [Next]_vars
  PROVE  Told'
<1> SUFFICES ASSUME NEW n \in Ids, workers'[n].pc \in {"finish", "done"}, output' # "broken"
             PROVE  results'[n] # NoAnswer
  BY DEF Told
<1>1. /\ output \in {"open", "broken"} /\ workers \in [Ids -> Worker]
      /\ workers[n].pc \in {"finish", "done"} => results[n] # NoAnswer \/ output = "broken"
  BY DEF Told, Inv, Types, TypeOK
<1>2. CASE UNCHANGED <<workers, results>> /\ (output' = output \/ output' = "broken")
  BY <1>1, <1>2
<1>3. ASSUME NEW m \in Ids, NEW op, NEW key, Launch(m, op, key)
      PROVE  results'[n] # NoAnswer
  <2>1. workers'[n] = workers[n] \/ workers'[n].pc = "perform"
    BY <1>1, <1>3 DEF Launch, Idle
  <2> QED BY <1>1, <1>3, <2>1 DEF Launch
<1>4. CASE Reads
  <2>1. UNCHANGED <<workers, results>> /\ (output' = output \/ output' = "broken")
    BY <1>4 DEF Reads, Busy, Cancel, Close, EndOfInput, Stop, ThrowReturns, Awaited, End,
                BreakOutput, readerOnly
  <2> QED BY <1>2, <2>1
<1>5. ASSUME NEW m \in Ids, Acts(m)
      PROVE  results'[n] # NoAnswer
  <2>1. InFlight(m) /\ AnswerStep(m)
    BY <1>5, Acting
  <2>2. m # n /\ workers'[n] = workers[n] /\ UNCHANGED <<results, output>>
    BY <2>1 DEF InFlight, AnswerStep
  <2> QED BY <1>1, <2>2
<1>6. ASSUME NEW m \in Ids, Publish(m)
      PROVE  results'[n] # NoAnswer
  <2>1. Ends(m) /\ Is(m, "report")
    BY <1>6, PublishKeeps DEF Publish
  <2>2. CASE m = n
    <3>1. /\ results \in [Ids -> Answer] /\ workers[n].answer.status # "none" /\ output = "open"
          /\ UNCHANGED output
      BY <1>1, <1>6, <2>1, <2>2 DEF Ends, Inv, Types, TypeOK, ActiveInv, ActiveOK, Is
    <3>2. results'[n] = workers[n].answer
      BY <1>6, <2>2, <3>1 DEF Publish
    <3> QED BY <3>1, <3>2 DEF NoAnswer
  <2>3. CASE m # n
    BY <1>1, <2>1, <2>3 DEF Ends, Others
  <2> QED BY <2>2, <2>3
<1>7. ASSUME NEW m \in Ids, Finish(m)
      PROVE  results'[n] # NoAnswer
  <2>1. Ends(m) /\ UNCHANGED results /\ Is(m, "finish")
    BY <1>7, FinishKeeps DEF Finish
  <2> QED BY <1>1, <2>1 DEF Ends, Others, Is
<1>8. CASE Next
  BY <1>3, <1>4, <1>5, <1>6, <1>7, <1>8, NextIs
<1>9. CASE UNCHANGED vars
  BY <1>2, <1>9 DEF vars
<1> QED BY <1>8, <1>9

\* An operation-start is followed by an operation-result unless the worker runs
\* into another AsyncException or is killed while it waits for a full pipe
\* (SessionProtocol.hs: launch).
THEOREM StartsHaveResults ==
  ASSUME "overflow" \notin Faults, "blocked-output" \notin Faults
  PROVE  Spec => []EveryStartHasItsResult
<1>1. Init => Told
  BY DEF Init, Idle, Told
<1>2. Inv /\ Told /\ [Next]_vars => Told'
  BY ToldKept
<1>3. Told => EveryStartHasItsResult
  BY DEF Told, EveryStartHasItsResult, Is
<1> QED BY <1>1, <1>2, <1>3, InvHolds, PTL DEF Spec

\* The client has been given the key, or it is in an answer on its way.
Held(key) ==
  \/ \E n \in Ids : results[n].key = key
  \/ \E n \in Ids : workers[n].pc \in {"return", "report"} /\ workers[n].answer.key = key

HeldThen(key) ==
  \/ \E n \in Ids : results'[n].key = key
  \/ \E n \in Ids : workers'[n].pc \in {"return", "report"} /\ workers'[n].answer.key = key

\* An answer on its way is published, and a published one is never replaced.
LEMMA HeldStays ==
  ASSUME "late-kill" \notin Faults, "blocked-output" \notin Faults, Inv, [Next]_vars,
         output' = "open", NEW key \in Key, Held(key)
  PROVE  HeldThen(key)
<1>1. /\ workers \in [Ids -> Worker] /\ results \in [Ids -> Answer] /\ output \in {"open", "broken"}
      /\ key # NoKey /\ NoAnswer.key = NoKey
  BY RunAssumption DEF Inv, Types, TypeOK, NoAnswer
<1>2. CASE UNCHANGED <<workers, results>>
  BY <1>2 DEF Held, HeldThen
<1>3. ASSUME NEW m \in Ids, NEW op, NEW k, Launch(m, op, k)
      PROVE  HeldThen(key)
  <2>1. UNCHANGED results /\ workers[m] = Idle
    BY <1>1, <1>3 DEF Launch, Accepts, Inv, ActiveInv, Unused, Types, TypeOK, Ids
  <2>2. \A n \in Ids : n # m => workers'[n] = workers[n]
    BY <1>1, <1>3 DEF Launch
  <2> QED BY <2>1, <2>2 DEF Held, HeldThen, Idle
<1>4. CASE Reads
  <2>1. UNCHANGED <<workers, results>>
    BY <1>4 DEF Reads, Busy, Cancel, Close, EndOfInput, Stop, ThrowReturns, Awaited, End,
                BreakOutput, readerOnly
  <2> QED BY <1>2, <2>1
<1>5. ASSUME NEW m \in Ids, Acts(m)
      PROVE  HeldThen(key)
  <2>1. InFlight(m) /\ AnswerStep(m)
    BY <1>5, Acting
  <2>2. UNCHANGED results /\ \A n \in Ids : n # m => workers'[n] = workers[n]
    BY <2>1 DEF InFlight
  <2>3. workers[m].pc \in {"return", "report"} =>
          workers'[m].pc = "report" /\ workers'[m].answer = workers[m].answer
    BY <2>1 DEF AnswerStep, Is
  <2> QED BY <2>2, <2>3 DEF Held, HeldThen
<1>6. ASSUME NEW m \in Ids, Publish(m)
      PROVE  HeldThen(key)
  <2>1. Ends(m) /\ active = m /\ output = "open"
    BY <1>1, <1>6, PublishKeeps DEF Ends
  <2>2. results[m] = NoAnswer
    BY <2>1 DEF Inv, ActiveInv, ActiveOK
  <2>3. results'[m] = workers[m].answer
    BY <1>1, <1>6, <2>1 DEF Publish
  <2>4. \A n \in Ids : n # m => workers'[n] = workers[n] /\ results'[n] = results[n]
    BY <2>1 DEF Ends, Others
  <2> QED BY <1>1, <2>2, <2>3, <2>4 DEF Held, HeldThen
<1>7. ASSUME NEW m \in Ids, Finish(m)
      PROVE  HeldThen(key)
  <2>1. Ends(m) /\ UNCHANGED results /\ Is(m, "finish")
    BY <1>7, FinishKeeps DEF Finish
  <2>2. \A n \in Ids : n # m => workers'[n] = workers[n]
    BY <2>1 DEF Ends, Others
  <2> QED BY <2>1, <2>2 DEF Held, HeldThen, Is
<1>8. CASE Next
  BY <1>3, <1>4, <1>5, <1>6, <1>7, <1>8, NextIs
<1>9. CASE UNCHANGED vars
  BY <1>2, <1>9 DEF vars
<1> QED BY <1>8, <1>9

\* A run is where it was, or the answer that moved or started it carries its key.
LEMMA KeyMoves ==
  ASSUME Inv, [Next]_vars, NEW r \in DOMAIN entries'
  PROVE  \/ r \in DOMAIN entries /\ entries'[r] = entries[r]
         \/ \E n \in Ids : /\ workers'[n].pc = "return"
                           /\ workers'[n].answer.key = [run |-> r, revision |-> entries'[r]]
<1>1. TableOK
  BY DEF Inv, Types, TypeOK, TableOK
<1>2. CASE UNCHANGED store
  BY <1>2 DEF store
<1>3. ASSUME NEW n \in Ids, Acts(n)
      PROVE  \/ r \in DOMAIN entries /\ entries'[r] = entries[r]
             \/ \E m \in Ids : /\ workers'[m].pc = "return"
                               /\ workers'[m].answer.key = [run |-> r, revision |-> entries'[r]]
  <2>1. TableStep(n)
    BY <1>3, Acting
  <2>2. CASE StartRun /\ workers'[n].pc = "return"
             /\ workers'[n].answer.key = [run |-> serial, revision |-> 0]
    <3>1. /\ DOMAIN entries' = DOMAIN entries \cup {serial} /\ entries'[serial] = 0
          /\ \A s \in DOMAIN entries : entries'[s] = entries[s]
      BY <1>1, <2>2, StartRunTable
    <3> QED BY <2>2, <3>1
  <2>3. CASE workers[n].key \in Key /\ Retire(workers[n].key)
    <3>1. /\ DOMAIN entries' = DOMAIN entries \ {workers[n].key.run}
          /\ \A s \in DOMAIN entries' : entries'[s] = entries[s]
      BY <1>1, <2>3, RetireTable
    <3> QED BY <3>1
  <2>4. CASE /\ Is(n, "search") /\ workers[n].key \in Key /\ Retain(workers[n].key)
             /\ workers'[n].pc = "return" /\ workers'[n].answer.key = NextKey(workers[n].key)
    <3>1. /\ DOMAIN entries' = DOMAIN entries
          /\ workers[n].key.run \in DOMAIN entries
               => entries'[workers[n].key.run] = workers[n].key.revision + 1
          /\ \A s \in DOMAIN entries : s # workers[n].key.run => entries'[s] = entries[s]
      BY <1>1, <2>4, RetainTable
    <3>2. CASE r = workers[n].key.run
      <4>1. NextKey(workers[n].key) = [run |-> r, revision |-> workers[n].key.revision + 1]
        BY <2>4, <3>2 DEF NextKey, Key
      <4> QED BY <2>4, <3>1, <3>2, <4>1
    <3>3. CASE r # workers[n].key.run
      BY <3>1, <3>3
    <3> QED BY <3>2, <3>3
  <2> QED BY <1>2, <2>1, <2>2, <2>3, <2>4 DEF TableStep
<1>4. CASE Next
  <2>1. ASSUME NEW n \in Ids, NEW op, NEW k, Launch(n, op, k)
        PROVE  UNCHANGED store
    BY <2>1 DEF Launch
  <2>2. ASSUME Reads
        PROVE  UNCHANGED store
    BY <2>2 DEF Reads, Busy, Cancel, Close, EndOfInput, Stop, ThrowReturns, Awaited, End,
                BreakOutput, readerOnly
  <2>3. ASSUME NEW n \in Ids, Publish(n) \/ Finish(n)
        PROVE  UNCHANGED store
    BY <2>3 DEF Publish, Finish
  <2> QED BY <1>2, <1>3, <1>4, <2>1, <2>2, <2>3, NextIs
<1>5. CASE UNCHANGED vars
  BY <1>2, <1>5 DEF vars
<1> QED BY <1>4, <1>5

\* Whatever is cancelled, the client can go on with every retained run, unless a
\* kill meets the worker on its way out of perform or in a full pipe
\* (SessionProtocol.hs: launch; RunControl.hs: advance).
THEOREM RunsAreReached ==
  ASSUME "late-kill" \notin Faults, "blocked-output" \notin Faults
  PROVE  Spec => []RunsStayReachable
<1> DEFINE Reached == output = "open" => \A r \in DOMAIN entries : Held(Current(r))
<1>1. Init => Reached
  BY DEF Init, InitStore
<1>2. Inv /\ Reached /\ [Next]_vars => Reached'
  <2> SUFFICES ASSUME Inv, Reached, [Next]_vars, output' = "open", NEW r \in DOMAIN entries'
               PROVE  HeldThen([run |-> r, revision |-> entries'[r]])
    BY DEF Held, HeldThen, Current
  <2>1. output = "open"
    <3>1. CASE BreakOutput \/ UNCHANGED output
      BY <3>1 DEF BreakOutput
    <3>2. CASE Next
      <4>1. ASSUME NEW n \in Ids, Acts(n)
            PROVE  UNCHANGED output
        BY <4>1, Acting DEF InFlight
      <4>2. ASSUME NEW n \in Ids, Publish(n) \/ Finish(n)
            PROVE  UNCHANGED output
        BY <4>2 DEF Publish, Finish, workerOnly
      <4>3. ASSUME NEW n \in Ids, NEW op, NEW k, Launch(n, op, k)
            PROVE  UNCHANGED output
        BY <4>3 DEF Launch
      <4>4. ASSUME Reads
            PROVE  BreakOutput \/ UNCHANGED output
        BY <4>4 DEF Reads, Busy, Cancel, Close, EndOfInput, Stop, ThrowReturns, Awaited, End,
                    readerOnly
      <4> QED BY <3>1, <3>2, <4>1, <4>2, <4>3, <4>4, NextIs
    <3>3. CASE UNCHANGED vars
      BY <3>1, <3>3 DEF vars
    <3> QED BY <3>2, <3>3
  <2>2. CASE r \in DOMAIN entries /\ entries'[r] = entries[r]
    <3> DEFINE key == [run |-> r, revision |-> entries[r]]
    <3>1. Held(key)
      BY <2>1, <2>2 DEF Current
    <3>2. key \in Key
      <4>1. r \in Nat /\ entries[r] \in Nat
        BY <2>2 DEF Inv, Types, TypeOK, StoreOK
      <4> QED BY <4>1 DEF Key
    <3> HIDE DEF key
    <3>3. HeldThen(key)
      BY <3>1, <3>2, HeldStays
    <3> QED BY <2>2, <3>3 DEF key
  <2>3. CASE \E n \in Ids : /\ workers'[n].pc = "return"
                            /\ workers'[n].answer.key = [run |-> r, revision |-> entries'[r]]
    BY <2>3 DEF HeldThen
  <2> QED BY <2>2, <2>3, KeyMoves
<1>3. Reached => RunsStayReachable
  BY DEF RunsStayReachable, Handed, Coming, Held
<1> HIDE DEF Reached
<1> QED BY <1>1, <1>2, <1>3, InvHolds, PTL DEF Spec

\* An answer that is a cancellation belongs to a key that was not consumed.
Unconsumed ==
  \A n \in Ids :
    /\ Is(n, "return") => workers[n].answer.status # "cancelled"
    /\ Is(n, "report") /\ workers[n].answer.status = "cancelled" => workers[n].consumed = NoKey
    /\ results[n].status = "cancelled" => workers[n].consumed = NoKey

LEMMA UnconsumedKept ==
  ASSUME "late-kill" \notin Faults, Inv, Unconsumed, [Next]_vars
  PROVE  Unconsumed'
<1> SUFFICES ASSUME NEW n \in Ids
             PROVE  /\ workers'[n].pc = "return" => workers'[n].answer.status # "cancelled"
                    /\ workers'[n].pc = "report" /\ workers'[n].answer.status = "cancelled"
                         => workers'[n].consumed = NoKey
                    /\ results'[n].status = "cancelled" => workers'[n].consumed = NoKey
  BY DEF Unconsumed, Is
<1> DEFINE Kept == /\ workers'[n].pc = "return" => workers'[n].answer.status # "cancelled"
                   /\ workers'[n].pc = "report" /\ workers'[n].answer.status = "cancelled"
                        => workers'[n].consumed = NoKey
                   /\ results'[n].status = "cancelled" => workers'[n].consumed = NoKey
<1>1. workers \in [Ids -> Worker] /\ results \in [Ids -> Answer] /\ NoAnswer.status # "cancelled"
  BY DEF Inv, Types, TypeOK, NoAnswer
<1>2. CASE workers'[n] = workers[n] /\ results'[n] = results[n]
  BY <1>2 DEF Unconsumed, Is
<1>3. ASSUME NEW m \in Ids, NEW op, NEW k, Launch(m, op, k)
      PROVE  Kept
  <2>1. UNCHANGED results /\ results[m] = NoAnswer
    BY <1>1, <1>3 DEF Launch, Accepts, Inv, ActiveInv, Unused, Types, TypeOK, Ids
  <2>2. workers'[n] = workers[n] \/ (n = m /\ workers'[n].pc = "perform")
    BY <1>1, <1>3 DEF Launch, Idle
  <2> QED BY <1>1, <1>2, <2>1, <2>2
<1>4. CASE Reads
  <2>1. UNCHANGED <<workers, results>>
    BY <1>4 DEF Reads, Busy, Cancel, Close, EndOfInput, Stop, ThrowReturns, Awaited, End,
                BreakOutput, readerOnly
  <2> QED BY <1>2, <2>1
<1>5. ASSUME NEW m \in Ids, Acts(m)
      PROVE  Kept
  <2>1. InFlight(m) /\ AnswerStep(m) /\ TableStep(m)
    BY <1>5, Acting
  <2>2. CASE n # m
    BY <1>2, <2>1, <2>2 DEF InFlight
  <2>3. CASE n = m
    <3>1. UNCHANGED results /\ results[n] = NoAnswer
      BY <2>1, <2>3, OneRunning DEF InFlight, Inv, ActiveInv, ActiveOK
    <3>2. workers'[n].pc = "return" => workers'[n].answer.status # "cancelled"
      BY <2>1, <2>3 DEF AnswerStep
    <3>3. ASSUME workers'[n].pc = "report", workers'[n].answer.status = "cancelled"
          PROVE  workers'[n].consumed = NoKey
      <4>1. workers'[n].consumed = workers[n].consumed
        BY <2>1, <2>3, <3>3 DEF TableStep
      <4>2. CASE workers[n].pc \in {"perform", "search"}
        BY <4>1, <4>2 DEF Inv, ConsumedInv
      <4>3. CASE workers[n].pc \in {"return", "report"}
        BY <2>1, <2>3, <3>3, <4>3 DEF AnswerStep, Is, Unconsumed
      <4> QED BY <2>1, <2>3, <4>2, <4>3 DEF InFlight, Running
    <3> QED BY <1>1, <3>1, <3>2, <3>3
  <2> QED BY <2>2, <2>3
<1>6. ASSUME NEW m \in Ids, Publish(m) \/ Finish(m)
      PROVE  Kept
  <2>1. Ends(m)
    BY <1>6, PublishKeeps, FinishKeeps
  <2>2. CASE n # m
    BY <1>2, <2>1, <2>2 DEF Ends, Others
  <2>3. CASE n = m
    <3>1. workers'[n].pc \in {"finish", "done"} /\ workers'[n].consumed = workers[n].consumed
      BY <2>1, <2>3 DEF Ends
    <3>2. results'[n] = results[n] \/ (Is(n, "report") /\ results'[n] = workers[n].answer)
      BY <1>1, <1>6, <2>3 DEF Publish, Finish
    <3> QED BY <3>1, <3>2 DEF Unconsumed, Is
  <2> QED BY <2>2, <2>3
<1>7. CASE Next
  BY <1>3, <1>4, <1>5, <1>6, <1>7, NextIs
<1>8. CASE UNCHANGED vars
  BY <1>2, <1>8 DEF vars
<1> QED BY <1>7, <1>8

\* The late kill is all there is to the finding about cancel: without it, the
\* key of an advance that is answered as cancelled was not consumed
\* (SessionProtocol.hs: launch, which turns ThreadKilled into cancelled).
THEOREM CancelSparesTheKey ==
  ASSUME "late-kill" \notin Faults
  PROVE  Spec => []CancelKeepsTheKey
<1>1. Init => Unconsumed
  BY DEF Init, Idle, NoAnswer, Unconsumed, Is
<1>2. Inv /\ Unconsumed /\ [Next]_vars => Unconsumed'
  BY UnconsumedKept
<1>3. Unconsumed => CancelKeepsTheKey
  BY DEF Unconsumed, CancelKeepsTheKey
<1> QED BY <1>1, <1>2, <1>3, InvHolds, PTL DEF Spec

=============================================================================
