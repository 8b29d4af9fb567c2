------------------------ MODULE KernelSessionProofs ------------------------
(***************************************************************************)
(* Proofs about KernelSession, for every set of projects, modules and      *)
(* actions, every budget and every bound.                                  *)
(***************************************************************************)
EXTENDS KernelSession, SequenceTheorems, FiniteSetTheorems, TLAPS

\* What a call in progress carries; needed to type the tokens it registers.
CallOK ==
  /\ project # None => overlay \in Envs
  /\ pc # "idle" => call \in Call /\ project \in Envs
  /\ pc \in {"load", "replay", "act", "give", "inspect"} => call.tok \in Token
  /\ pc # "idle" /\ call.kind \in Committing \cup {"trial"} => call.act \in Acts
  /\ pc = "give" => call.kind = "check-give"
  /\ pc = "replay" => pos \in 1..Len(call.tok.lin)

TypeInv == TypeOK /\ CallOK

(***************************************************************************)
(* Every outcome of a command keeps the process variables typed.           *)
(***************************************************************************)
LEMMA OutcomeTyped ==
  ASSUME TypeOK,
         NEW next \in Snapshot \cup {NoSnapshot},
         \/ Answered(next) \/ Refused \/ Lost \/ Late(next)
         \/ (Poisoned /\ UNCHANGED gen) \/ UNCHANGED procVars
  PROVE  /\ up' \in {"none", "live", "exited"} /\ gen' \in Nat
         /\ content' \in Snapshot \cup {NoSnapshot}
BY DEF TypeOK, Answered, Refused, Lost, Late, Poisoned, Opened, procVars

LEMMA HeldTyped ==
  ASSUME TypeOK
  PROVE  /\ Held \in Snapshot \cup {NoSnapshot}
         /\ \A m : Serves(m) => Held \in Snapshot /\ Held.mod = m
         /\ \A a \in Acts \cup {Residue} : Held \in Snapshot => Extend(Held, a) \in Snapshot
<1>1. Held \in Snapshot \cup {NoSnapshot}
  BY DEF TypeOK, Held
<1>2. \A m : Serves(m) => Held \in Snapshot /\ Held.mod = m
  BY <1>1 DEF Serves
<1>3. ASSUME NEW a \in Acts \cup {Residue}, Held \in Snapshot
      PROVE  Extend(Held, a) \in Snapshot
  <2>1. Held.lin \in Seq(Acts \cup {Residue})
    BY <1>3 DEF Snapshot
  <2>2. Append(Held.lin, a) \in Seq(Acts \cup {Residue})
    BY <1>3, <2>1
  <2> QED
    BY <1>3, <2>2 DEF Extend, Snapshot
<1> QED
  BY <1>1, <1>2, <1>3

LEMMA TokenTyped ==
  ASSUME project \in Envs, gen' \in Nat,
         NEW m \in Modules, NEW lin \in Seq(Acts), NEW n \in Nat
  PROVE  NewToken(m, lin, n) \in Token
BY DEF NewToken, Token

(***************************************************************************)
(* Type correctness: the session's tables hold well-formed tokens whatever *)
(* faults happen, and a call in progress carries the token it acts on.     *)
(***************************************************************************)
LEMMA TypeInit == Init => TypeInv
<1> SUFFICES ASSUME Init PROVE TypeInv
  OBVIOUS
<1>1. TypeOK
  BY DEF Init, TypeOK
<1>2. CallOK
  BY DEF Init, CallOK
<1> QED
  BY <1>1, <1>2 DEF TypeInv

LEMMA TypeActivation ==
  ASSUME TypeInv, Reload \/ Replay \/ ActivationRejected \/ ReloadFails
                  \/ ReplayFails \/ RollbackFails
  PROVE  TypeInv'
<1>a. TypeOK /\ CallOK
  BY DEF TypeInv
<1>1. pc \in {"load", "replay"}
  BY DEF Reload, Replay, ActivationRejected, ReloadFails, ReplayFails, RollbackFails
<1>2. /\ call \in Call /\ call.tok \in Token /\ project \in Envs
      /\ project # None /\ overlay \in Envs
  BY <1>a, <1>1, ConstantsAssumption DEF CallOK
<1>3. call.mod \in Modules /\ call.tok.lin \in Seq(Acts)
  BY <1>2 DEF Call, Token
<1>4. RootOf(call.mod) \in Snapshot
  BY <1>2, <1>3 DEF RootOf, Snapshot
<1>5. pc = "replay" => call.tok.lin[pos] \in Acts
  BY <1>a, <1>3 DEF CallOK
<1>6. Held \in Snapshot \cup {NoSnapshot}
  BY <1>a, HeldTyped
<1>7. pc = "replay" /\ Serves(call.mod) => Extend(Held, call.tok.lin[pos]) \in Snapshot
  BY <1>a, <1>5, HeldTyped
<1>8. CASE Reload
  <2>1. /\ up' \in {"none", "live", "exited"} /\ gen' \in Nat
        /\ content' \in Snapshot \cup {NoSnapshot}
    BY <1>8, <1>4, <1>a, OutcomeTyped DEF Reload
  <2>2. TypeOK'
    <3>1. /\ pc' \in {"idle", "replay", "act"} /\ pos' \in Nat
          /\ call' \in Call \cup {None} /\ active' \in Token \cup {None}
      BY <1>8, <1>a, <1>2 DEF Reload, Activated, Goto, Return, TypeOK
    <3>2. undo' \in BOOLEAN
      BY <1>8, <1>a DEF Reload, Activated, Goto, Return, TypeOK
    <3>3. pending' \in Reply \cup {None} /\ reply' \in Reply \cup {None}
      BY <1>8, <1>a DEF Reload, Activated, Goto, Return, TypeOK
    <3> QED
      BY <2>1, <3>1, <3>2, <3>3, <1>8, <1>a DEF Reload, TypeOK, projectVars, tableVars
  <2>3. CallOK'
    <3>1. CASE pc' = "replay"
      BY <3>1, <1>8, <1>a, <1>2, <1>3
         DEF Reload, Activated, Goto, Return, CallOK, projectVars, tableVars
    <3>2. CASE pc' = "act"
      BY <3>2, <1>8, <1>a, <1>2, <1>3
         DEF Reload, Activated, Goto, Return, CallOK, projectVars, tableVars
    <3>3. CASE pc' = "idle"
      BY <3>3, <1>8, <1>a, <1>2, <1>3
         DEF Reload, Activated, Goto, Return, CallOK, projectVars, tableVars
    <3> QED
      BY <3>1, <3>2, <3>3, <1>8 DEF Reload, Activated, Goto, Return
  <2> QED
    BY <2>2, <2>3 DEF TypeInv
<1>9. CASE Replay
  <2>1. /\ up' \in {"none", "live", "exited"} /\ gen' \in Nat
        /\ content' \in Snapshot \cup {NoSnapshot}
    BY <1>9, <1>7, <1>a, OutcomeTyped DEF Replay
  <2>2. TypeOK'
    <3>1. /\ pc' \in {"idle", "replay", "act"} /\ pos' \in Nat
          /\ call' \in Call \cup {None} /\ active' \in Token \cup {None}
      BY <1>9, <1>a, <1>2 DEF Replay, Activated, Goto, Return, TypeOK
    <3>2. undo' \in BOOLEAN
      BY <1>9, <1>a DEF Replay, Activated, Goto, Return, TypeOK
    <3>3. pending' \in Reply \cup {None} /\ reply' \in Reply \cup {None}
      BY <1>9, <1>a DEF Replay, Activated, Goto, Return, TypeOK
    <3> QED
      BY <2>1, <3>1, <3>2, <3>3, <1>9, <1>a DEF Replay, TypeOK, projectVars, tableVars
  <2>3. CallOK'
    BY <1>9, <1>a, <1>2, <1>3
       DEF Replay, Activated, Goto, Return, CallOK, projectVars, tableVars
  <2> QED
    BY <2>2, <2>3 DEF TypeInv
<1>10. CASE ActivationRejected
  <2>1. /\ up' \in {"none", "live", "exited"} /\ gen' \in Nat
        /\ content' \in Snapshot \cup {NoSnapshot}
    BY <1>10, <1>a, <1>6, OutcomeTyped DEF ActivationRejected, CloseTransport
  <2> QED
    BY <2>1, <1>10, <1>a, <1>2
       DEF ActivationRejected, CloseTransport, Raise, Return, TypeInv, TypeOK, CallOK,
           projectVars, tableVars
<1>11. CASE ReloadFails
  <2>1. /\ up' \in {"none", "live", "exited"} /\ gen' \in Nat
        /\ content' \in Snapshot \cup {NoSnapshot}
    BY <1>11, <1>4, <1>a, OutcomeTyped DEF ReloadFails, Fails
  <2> QED
    BY <2>1, <1>11, <1>a, <1>2
       DEF ReloadFails, Raise, Return, TypeInv, TypeOK, CallOK, projectVars, tableVars
<1>12. CASE ReplayFails
  <2>1. /\ up' \in {"none", "live", "exited"} /\ gen' \in Nat
        /\ content' \in Snapshot \cup {NoSnapshot}
    <3>1. (IF Serves(call.mod) THEN Extend(Held, call.tok.lin[pos]) ELSE Held)
            \in Snapshot \cup {NoSnapshot}
      BY <1>12, <1>6, <1>7 DEF ReplayFails
    <3> QED
      BY <3>1, <1>12, <1>a, OutcomeTyped DEF ReplayFails, Fails
  <2> QED
    BY <2>1, <1>12, <1>a, <1>2
       DEF ReplayFails, Raise, Return, TypeInv, TypeOK, CallOK, projectVars, tableVars
<1>13. CASE RollbackFails
  <2>1. /\ up' \in {"none", "live", "exited"} /\ gen' \in Nat
        /\ content' \in Snapshot \cup {NoSnapshot}
    BY <1>13, <1>a, <1>6, OutcomeTyped DEF RollbackFails, CloseAndForget, CloseTransport
  <2> QED
    BY <2>1, <1>13, <1>a, <1>2
       DEF RollbackFails, CloseAndForget, CloseTransport, Raise, Return, TypeInv, TypeOK,
           CallOK, projectVars, tableVars
<1> QED
  BY <1>8, <1>9, <1>10, <1>11, <1>12, <1>13

(***************************************************************************)
(* Facts shared by the remaining calls.                                    *)
(***************************************************************************)
LEMMA ReturnTyped ==
  ASSUME TypeInv, NEW r \in Reply \cup {None}, Return(r),
         project' # None => overlay' \in Envs
  PROVE  /\ pc' = "idle" /\ call' \in Call \cup {None} /\ pos' \in Nat
         /\ undo' \in BOOLEAN /\ pending' \in Reply \cup {None}
         /\ reply' \in Reply \cup {None} /\ CallOK'
BY DEF Return, CallOK

LEMMA VerdictTyped ==
  ASSUME TypeOK, NEW t \in Token, NEW ok \in BOOLEAN
  PROVE  Verdict(t, ok) \in Reply
BY HeldTyped DEF Verdict, Reply

LEMMA CallTyped ==
  ASSUME TypeInv, pc \in {"act", "give", "inspect"}
  PROVE  /\ call \in Call /\ call.tok \in Token /\ project \in Envs
         /\ call.mod \in Modules /\ call.tok.lin \in Seq(Acts)
         /\ project # None => overlay \in Envs
BY DEF TypeInv, CallOK, Call, Token

LEMMA VerdictsTyped == \A m : Verdicts(m) \subseteq BOOLEAN
BY DEF Verdicts

LEMMA TypeReading ==
  ASSUME TypeInv, Read \/ CachedRead \/ ReadFails
  PROVE  TypeInv'
<1>a. TypeOK /\ CallOK
  BY DEF TypeInv
<1>1. /\ call \in Call /\ call.tok \in Token /\ project \in Envs
      /\ project # None => overlay \in Envs
  BY CallTyped DEF Read, CachedRead, ReadFails
<1>2. Held \in Snapshot \cup {NoSnapshot}
  BY <1>a, HeldTyped
<1>3. CASE Read
  <2>1. /\ up' \in {"none", "live", "exited"} /\ gen' \in Nat
        /\ content' \in Snapshot \cup {NoSnapshot}
    BY <1>3, <1>2, <1>a, OutcomeTyped DEF Read
  <2>2. PICK ok \in Verdicts(call.mod) :
          /\ Return(Verdict(call.tok, ok))
          /\ lastRead' = IF ReuseReads /\ ok /\ call.kind = "look"
                         THEN [tok |-> call.tok, at |-> Held] ELSE lastRead
    BY <1>3 DEF Read
  <2>3. Verdict(call.tok, ok) \in Reply
    BY <1>1, <1>a, VerdictsTyped, VerdictTyped
  <2>4. /\ pc' = "idle" /\ call' \in Call \cup {None} /\ pos' \in Nat
        /\ undo' \in BOOLEAN /\ pending' \in Reply \cup {None}
        /\ reply' \in Reply \cup {None} /\ CallOK'
    BY <2>2, <2>3, <1>1, <1>3, ReturnTyped DEF Read, projectVars
  <2>5. lastRead' \in [tok : Token, at : Snapshot \cup {NoSnapshot}] \cup {None}
    BY <2>2, <1>1, <1>2, <1>a DEF TypeOK
  <2>6. active' \in Token \cup {None}
    BY <1>3, <1>1, <1>a DEF Read, TypeOK
  <2> QED
    BY <2>1, <2>4, <2>5, <2>6, <1>3, <1>a
       DEF Read, TypeInv, TypeOK, projectVars, tableVars
<1>4. CASE CachedRead
  <2>1. [tok |-> call.tok, accepted |-> TRUE, at |-> lastRead.at] \in Reply
    BY <1>4, <1>1, <1>a DEF CachedRead, TypeOK, Reply
  <2>2. /\ pc' = "idle" /\ call' \in Call \cup {None} /\ pos' \in Nat
        /\ undo' \in BOOLEAN /\ pending' \in Reply \cup {None}
        /\ reply' \in Reply \cup {None} /\ CallOK'
    BY <2>1, <1>1, <1>4, ReturnTyped DEF CachedRead, projectVars
  <2> QED
    BY <2>2, <1>4, <1>a
       DEF CachedRead, TypeInv, TypeOK, projectVars, procVars, tableVars
<1>5. CASE ReadFails
  <2>1. /\ up' \in {"none", "live", "exited"} /\ gen' \in Nat
        /\ content' \in Snapshot \cup {NoSnapshot}
    BY <1>5, <1>2, <1>a, OutcomeTyped DEF ReadFails, Fails
  <2>2. /\ pc' = "idle" /\ call' \in Call \cup {None} /\ pos' \in Nat
        /\ undo' \in BOOLEAN /\ pending' \in Reply \cup {None}
        /\ reply' \in Reply \cup {None} /\ CallOK'
    BY <1>1, <1>5, ReturnTyped DEF ReadFails, Raise, projectVars
  <2>3. active' \in Token \cup {None}
    BY <1>5, <1>a DEF ReadFails, TypeOK
  <2> QED
    BY <2>1, <2>2, <2>3, <1>5, <1>a
       DEF ReadFails, TypeInv, TypeOK, projectVars, tableVars
<1> QED
  BY <1>3, <1>4, <1>5

LEMMA GivingTyped ==
  ASSUME TypeInv, Giving
  PROVE  /\ pc \in {"act", "give"} /\ call.act \in Acts
         /\ call.kind # "trial" => call.kind \in Committing
BY DEF TypeInv, CallOK, Giving, Committing

LEMMA AfterGiveTyped ==
  ASSUME TypeInv, NEW a \in Acts \cup {Residue}, NEW next \in AfterGive(a)
  PROVE  next \in Snapshot \cup {NoSnapshot}
BY HeldTyped DEF AfterGive, TypeInv

LEMMA TypeGiving1 ==
  ASSUME TypeInv, LimitReached \/ CheckThenGive \/ PreviewAccepted
  PROVE  TypeInv'
<1>a. TypeOK /\ CallOK
  BY DEF TypeInv
<1>1. pc \in {"act", "give"}
  BY GivingTyped DEF LimitReached, CheckThenGive, PreviewAccepted
<1>2. /\ call \in Call /\ call.tok \in Token /\ project \in Envs
      /\ project # None => overlay \in Envs
  BY <1>1, CallTyped
<1>3. Held \in Snapshot \cup {NoSnapshot}
  BY <1>a, HeldTyped
<1>4. CASE LimitReached
  <2>1. /\ pc' = "idle" /\ call' \in Call \cup {None} /\ pos' \in Nat
        /\ undo' \in BOOLEAN /\ pending' \in Reply \cup {None}
        /\ reply' \in Reply \cup {None} /\ CallOK'
    BY <1>4, <1>2, ReturnTyped DEF LimitReached, Raise, projectVars
  <2> QED
    BY <2>1, <1>4, <1>a
       DEF LimitReached, TypeInv, TypeOK, projectVars, procVars, tableVars
<1>5. CASE CheckThenGive
  <2>1. /\ up' \in {"none", "live", "exited"} /\ gen' \in Nat
        /\ content' \in Snapshot \cup {NoSnapshot}
    BY <1>5, <1>3, <1>a, OutcomeTyped DEF CheckThenGive
  <2>2. PICK ok \in Verdicts(call.mod) :
          IF ok THEN Goto("give") /\ UNCHANGED active
                ELSE Return(Verdict(call.tok, FALSE)) /\ active' = call.tok
    BY <1>5 DEF CheckThenGive
  <2>3. CASE ok
    <3>1. Goto("give") /\ UNCHANGED active
      BY <2>2, <2>3
    <3>2. CallOK'
      BY <3>1, <1>5, <1>a, <1>2 DEF Goto, CallOK, CheckThenGive, projectVars
    <3> QED
      BY <3>1, <3>2, <2>1, <1>5, <1>a
         DEF Goto, CheckThenGive, TypeInv, TypeOK, projectVars, tableVars
  <2>4. CASE ~ok
    <3>1. Return(Verdict(call.tok, FALSE)) /\ active' = call.tok
      BY <2>2, <2>4
    <3>2. /\ pc' = "idle" /\ call' \in Call \cup {None} /\ pos' \in Nat
        /\ undo' \in BOOLEAN /\ pending' \in Reply \cup {None}
        /\ reply' \in Reply \cup {None} /\ CallOK'
      BY <3>1, <1>2, <1>5, <1>a, VerdictTyped, ReturnTyped DEF CheckThenGive, projectVars
    <3> QED
      BY <3>1, <3>2, <2>1, <1>5, <1>a, <1>2
         DEF CheckThenGive, TypeInv, TypeOK, projectVars, tableVars
  <2> QED
    BY <2>3, <2>4
<1>6. CASE PreviewAccepted
  <2>1. Extend(Held, call.act) \in Snapshot
    BY <1>6, <1>a, HeldTyped, GivingTyped DEF PreviewAccepted
  <2>2. /\ up' \in {"none", "live", "exited"} /\ gen' \in Nat
        /\ content' \in Snapshot \cup {NoSnapshot}
    BY <2>1, <1>6, <1>a, OutcomeTyped DEF PreviewAccepted
  <2>3. Verdict(call.tok, TRUE) \in Reply
    BY <1>2, <1>a, VerdictTyped
  <2>4. CallOK'
    BY <1>6, <1>a, <1>1, <1>2 DEF PreviewAccepted, Rollback, CallOK, projectVars
  <2>5. /\ pc' = "load" /\ undo' \in BOOLEAN /\ pos' \in Nat
        /\ active' \in Token \cup {None} /\ call' \in Call \cup {None}
    BY <1>6, <1>a DEF PreviewAccepted, Rollback, TypeOK
  <2>6. pending' \in Reply \cup {None} /\ reply' \in Reply \cup {None}
    BY <2>3, <1>6, <1>a DEF PreviewAccepted, Rollback, TypeOK
  <2> QED
    BY <2>2, <2>4, <2>5, <2>6, <1>6, <1>a
       DEF PreviewAccepted, TypeInv, TypeOK, projectVars, tableVars
<1> QED
  BY <1>4, <1>5, <1>6

LEMMA TypeCommit ==
  ASSUME TypeInv, CommitShallow \/ CommitProvisional
  PROVE  TypeInv'
<1>a. TypeOK /\ CallOK
  BY DEF TypeInv
<1>1. pc \in {"act", "give"} /\ call.act \in Acts
  BY GivingTyped DEF CommitShallow, CommitProvisional
<1>2. /\ call \in Call /\ call.tok \in Token /\ project \in Envs
      /\ call.mod \in Modules /\ call.tok.lin \in Seq(Acts)
      /\ project # None => overlay \in Envs
  BY <1>1, CallTyped
<1>3. Extend(Held, call.act) \in Snapshot
  BY <1>1, <1>a, HeldTyped DEF CommitShallow, CommitProvisional
<1>4. /\ up' \in {"none", "live", "exited"} /\ gen' \in Nat
      /\ content' \in Snapshot \cup {NoSnapshot}
  BY <1>3, <1>a, OutcomeTyped DEF CommitShallow, CommitProvisional
<1>5. Append(call.tok.lin, call.act) \in Seq(Acts)
  BY <1>1, <1>2
<1>6. \A n \in Nat : NewToken(call.mod, Append(call.tok.lin, call.act), n) \in Token
  BY <1>2, <1>4, <1>5, TokenTyped
<1>7. CASE CommitShallow
  <2> DEFINE child == NewToken(call.mod, Append(call.tok.lin, call.act), seq + 2)
  <2>1. child \in Token
    BY <1>6, <1>a DEF TypeOK
  <2>2. /\ states' = states \cup {child} /\ issued' = issued \cup {child}
        /\ active' = child
        /\ Return([tok |-> child, accepted |-> TRUE, at |-> content'])
    BY <1>7 DEF CommitShallow
  <2>3. [tok |-> child, accepted |-> TRUE, at |-> content'] \in Reply
    BY <2>1, <1>4 DEF Reply
  <2> HIDE DEF child
  <2>4. /\ pc' = "idle" /\ call' \in Call \cup {None} /\ pos' \in Nat
        /\ undo' \in BOOLEAN /\ pending' \in Reply \cup {None}
        /\ reply' \in Reply \cup {None} /\ CallOK'
    BY <2>2, <2>3, <1>2, <1>7, ReturnTyped DEF CommitShallow, projectVars
  <2> QED
    BY <2>1, <2>2, <2>4, <1>4, <1>7, <1>a
       DEF CommitShallow, TypeInv, TypeOK, projectVars
<1>8. CASE CommitProvisional
  <2> DEFINE child == NewToken(call.mod, Append(call.tok.lin, call.act), seq + 1)
  <2>1. child \in Token
    BY <1>6, <1>a DEF TypeOK
  <2>2. /\ states' = states \cup {child} /\ active' = child
        /\ call' = [call EXCEPT !.tok = child]
    BY <1>8 DEF CommitProvisional
  <2> HIDE DEF child
  <2>3. call' \in Call /\ call'.tok \in Token /\ call'.act = call.act
    BY <2>1, <2>2, <1>2 DEF Call
  <2>4. CallOK'
    BY <2>3, <1>1, <1>2, <1>8, <1>a DEF CommitProvisional, CallOK, projectVars
  <2>5. undo' \in BOOLEAN /\ pos' \in Nat /\ pc' = "inspect"
    BY <1>8, <1>a DEF CommitProvisional, TypeOK
  <2>6. pending' \in Reply \cup {None} /\ reply' \in Reply \cup {None}
    BY <1>8, <1>a DEF CommitProvisional, TypeOK
  <2>7. /\ states' \subseteq Token /\ issued' \subseteq Token /\ seq' \in Nat
        /\ active' \in Token \cup {None}
    BY <2>1, <2>2, <1>8, <1>a DEF CommitProvisional, TypeOK
  <2> QED
    BY <2>3, <2>4, <2>5, <2>6, <2>7, <1>4, <1>8, <1>a
       DEF CommitProvisional, TypeInv, TypeOK, projectVars
<1> QED
  BY <1>7, <1>8

LEMMA TypeGiving2 ==
  ASSUME TypeInv, GiveRejected \/ RejectedInPlace \/ GiveFails \/ AutoOne
  PROVE  TypeInv'
<1>a. TypeOK /\ CallOK
  BY DEF TypeInv
<1>1. pc \in {"act", "give"}
  <2>1. Giving \/ pc = "act"
    BY DEF GiveRejected, RejectedInPlace, GiveFails, AutoOne
  <2> QED
    BY <2>1, GivingTyped
<1>2. /\ call \in Call /\ call.tok \in Token /\ project \in Envs
      /\ project # None => overlay \in Envs
  BY <1>1, CallTyped
<1>3. Held \in Snapshot \cup {NoSnapshot}
  BY <1>a, HeldTyped
<1>4. \A next \in AfterGive(Residue) : next \in Snapshot \cup {NoSnapshot}
  BY AfterGiveTyped
<1>5. \A ok \in BOOLEAN : Verdict(call.tok, ok) \in Reply
  BY <1>2, <1>a, VerdictTyped
<1>6. CASE GiveRejected
  <2>1. /\ up' \in {"none", "live", "exited"} /\ gen' \in Nat
        /\ content' \in Snapshot \cup {NoSnapshot}
    BY <1>6, <1>4, <1>a, OutcomeTyped DEF GiveRejected
  <2>2. CallOK'
    BY <1>6, <1>a, <1>2 DEF GiveRejected, Rollback, CallOK, projectVars
  <2> QED
    BY <2>1, <2>2, <1>5, <1>6, <1>a
       DEF GiveRejected, Rollback, TypeInv, TypeOK, projectVars, tableVars
<1>7. CASE RejectedInPlace
  <2>1. /\ up' \in {"none", "live", "exited"} /\ gen' \in Nat
        /\ content' \in Snapshot \cup {NoSnapshot}
    BY <1>7, <1>3, <1>4, <1>a, OutcomeTyped DEF RejectedInPlace
  <2>2. /\ pc' = "idle" /\ call' \in Call \cup {None} /\ pos' \in Nat
        /\ undo' \in BOOLEAN /\ pending' \in Reply \cup {None}
        /\ reply' \in Reply \cup {None} /\ CallOK'
    BY <1>7, <1>5, <1>2, ReturnTyped DEF RejectedInPlace, projectVars
  <2> QED
    BY <2>1, <2>2, <1>2, <1>7, <1>a
       DEF RejectedInPlace, TypeInv, TypeOK, projectVars, tableVars
<1>8. CASE GiveFails
  <2>1. PICK next \in IF Giving THEN AfterGive(call.act) ELSE {Held} :
          Fails("denied", next)
    BY <1>8 DEF GiveFails
  <2>2. next \in Snapshot \cup {NoSnapshot}
    BY <2>1, <1>3, GivingTyped, AfterGiveTyped
  <2>3. /\ up' \in {"none", "live", "exited"} /\ gen' \in Nat
        /\ content' \in Snapshot \cup {NoSnapshot}
    BY <2>1, <2>2, <1>a, OutcomeTyped DEF Fails
  <2>4. /\ pc' = "idle" /\ call' \in Call \cup {None} /\ pos' \in Nat
        /\ undo' \in BOOLEAN /\ pending' \in Reply \cup {None}
        /\ reply' \in Reply \cup {None} /\ CallOK'
    BY <1>8, <1>2, ReturnTyped DEF GiveFails, Raise, projectVars
  <2> QED
    BY <2>3, <2>4, <1>8, <1>a DEF GiveFails, TypeInv, TypeOK, projectVars, tableVars
<1>9. CASE AutoOne
  <2>1. PICK next \in AfterGive(Residue) :
          \/ Answered(next) /\ \E ok \in Verdicts(call.mod) : Return(Verdict(call.tok, ok))
          \/ Fails("denied", next) /\ Raise
    BY <1>9 DEF AutoOne
  <2>2. /\ up' \in {"none", "live", "exited"} /\ gen' \in Nat
        /\ content' \in Snapshot \cup {NoSnapshot}
    <3>1. \/ Answered(next) \/ Refused \/ Lost \/ Late(next)
      BY <2>1 DEF Fails
    <3> QED
      BY <3>1, <1>4, <1>a, OutcomeTyped
  <2>3. PICK r \in Reply \cup {None} : Return(r)
    BY <2>1, <1>5, VerdictsTyped DEF Raise
  <2>4. /\ pc' = "idle" /\ call' \in Call \cup {None} /\ pos' \in Nat
        /\ undo' \in BOOLEAN /\ pending' \in Reply \cup {None}
        /\ reply' \in Reply \cup {None} /\ CallOK'
    <3>1. UNCHANGED projectVars
      BY <1>9 DEF AutoOne
    <3> QED
      BY <3>1, <2>3, <1>2, ReturnTyped DEF projectVars
  <2> QED
    <3>1. /\ active' = None
          /\ UNCHANGED <<projectVars, tableVars, tclosed, halted, lastRead>>
      BY <1>9 DEF AutoOne
    <3> QED
      BY <3>1, <2>2, <2>4, <1>a DEF TypeInv, TypeOK, projectVars, tableVars
<1> QED
  BY <1>6, <1>7, <1>8, <1>9

LEMMA TypeLoading ==
  ASSUME TypeInv, LoadFails \/ LoadShallow \/ LoadProvisional
  PROVE  TypeInv'
<1>a. TypeOK /\ CallOK
  BY DEF TypeInv
<1>1. pc = "open"
  BY DEF LoadFails, LoadShallow, LoadProvisional
<1>2. /\ call \in Call /\ call.mod \in Modules /\ project \in Envs
      /\ project # None /\ overlay \in Envs
  BY <1>1, <1>a, ConstantsAssumption DEF CallOK, Call
<1>3. RootOf(call.mod) \in Snapshot
  BY <1>2 DEF RootOf, Snapshot
<1>4. /\ up' \in {"none", "live", "exited"} /\ gen' \in Nat
      /\ content' \in Snapshot \cup {NoSnapshot}
  <2>1. PICK next \in {RootOf(call.mod), NoSnapshot} :
          Answered(next) \/ Refused \/ Lost \/ Late(next)
    BY DEF LoadFails, LoadShallow, LoadProvisional, Fails
  <2> QED
    BY <2>1, <1>3, <1>a, OutcomeTyped
<1>5. \A n \in Nat : NewToken(call.mod, <<>>, n) \in Token
  <2>1. <<>> \in Seq(Acts)
    OBVIOUS
  <2> QED
    BY <2>1, <1>2, <1>4, TokenTyped
<1>6. CASE LoadFails
  <2>1. /\ pc' = "idle" /\ call' \in Call \cup {None} /\ pos' \in Nat
        /\ undo' \in BOOLEAN /\ pending' \in Reply \cup {None}
        /\ reply' \in Reply \cup {None} /\ CallOK'
    BY <1>6, <1>2, ReturnTyped DEF LoadFails, Raise, projectVars
  <2> QED
    BY <2>1, <1>4, <1>6, <1>a DEF LoadFails, TypeInv, TypeOK, projectVars, tableVars
<1>7. CASE LoadShallow
  <2> DEFINE root == NewToken(call.mod, <<>>, seq + 1)
  <2>1. root \in Token
    BY <1>5, <1>a DEF TypeOK
  <2>2. /\ states' = states \cup {root} /\ issued' = issued \cup {root}
        /\ active' = root
        /\ Return([tok |-> root, accepted |-> TRUE, at |-> content'])
    BY <1>7 DEF LoadShallow
  <2>3. [tok |-> root, accepted |-> TRUE, at |-> content'] \in Reply
    BY <2>1, <1>4 DEF Reply
  <2> HIDE DEF root
  <2>4. /\ pc' = "idle" /\ call' \in Call \cup {None} /\ pos' \in Nat
        /\ undo' \in BOOLEAN /\ pending' \in Reply \cup {None}
        /\ reply' \in Reply \cup {None} /\ CallOK'
    BY <2>2, <2>3, <1>2, <1>7, ReturnTyped DEF LoadShallow, projectVars
  <2> QED
    BY <2>1, <2>2, <2>4, <1>4, <1>7, <1>a DEF LoadShallow, TypeInv, TypeOK, projectVars
<1>8. CASE LoadProvisional
  <2> DEFINE root == NewToken(call.mod, <<>>, seq + 1)
  <2>1. root \in Token
    BY <1>5, <1>a DEF TypeOK
  <2>2. /\ states' = states \cup {root} /\ active' = root
        /\ call' = [call EXCEPT !.tok = root]
    BY <1>8 DEF LoadProvisional
  <2> HIDE DEF root
  <2>3. call' \in Call /\ call'.tok \in Token /\ call'.act = call.act /\ call'.kind = call.kind
    BY <2>1, <2>2, <1>2 DEF Call
  <2>4. CallOK'
    BY <2>3, <1>1, <1>2, <1>8, <1>a DEF LoadProvisional, CallOK, projectVars
  <2>5. undo' \in BOOLEAN /\ pos' \in Nat /\ pc' = "inspect"
    BY <1>8, <1>a DEF LoadProvisional, TypeOK
  <2>6. pending' \in Reply \cup {None} /\ reply' \in Reply \cup {None}
    BY <1>8, <1>a DEF LoadProvisional, TypeOK
  <2>7. /\ states' \subseteq Token /\ issued' \subseteq Token /\ seq' \in Nat
        /\ active' \in Token \cup {None}
    BY <2>1, <2>2, <1>8, <1>a DEF LoadProvisional, TypeOK
  <2> QED
    BY <2>3, <2>4, <2>5, <2>6, <2>7, <1>4, <1>8, <1>a
       DEF LoadProvisional, TypeInv, TypeOK, projectVars
<1> QED
  BY <1>6, <1>7, <1>8

LEMMA TypeInspection ==
  ASSUME TypeInv, Inspect \/ InspectFails
  PROVE  TypeInv'
<1>a. TypeOK /\ CallOK
  BY DEF TypeInv
<1>1. pc = "inspect"
  BY DEF Inspect, InspectFails
<1>2. /\ call \in Call /\ call.tok \in Token /\ project \in Envs
      /\ call.mod \in Modules /\ call.tok.lin \in Seq(Acts)
      /\ project # None => overlay \in Envs
  BY <1>1, CallTyped
<1>3. Held \in Snapshot \cup {NoSnapshot}
  BY <1>a, HeldTyped
<1>4. /\ up' \in {"none", "live", "exited"} /\ gen' \in Nat
      /\ content' \in Snapshot \cup {NoSnapshot}
  BY <1>3, <1>a, OutcomeTyped DEF Inspect, InspectFails, Fails
<1>5. CASE Inspect
  <2> DEFINE complete == NewToken(call.mod, call.tok.lin, seq + 1)
  <2>1. complete \in Token
    BY <1>2, <1>4, <1>a, TokenTyped DEF TypeOK
  <2>2. /\ states' = (states \ {call.tok}) \cup {complete}
        /\ issued' = issued \cup {complete}
        /\ active' = complete
        /\ Return([tok |-> complete, accepted |-> TRUE, at |-> Held])
    BY <1>5 DEF Inspect
  <2>3. [tok |-> complete, accepted |-> TRUE, at |-> Held] \in Reply
    BY <2>1, <1>3 DEF Reply
  <2> HIDE DEF complete
  <2>4. /\ pc' = "idle" /\ call' \in Call \cup {None} /\ pos' \in Nat
        /\ undo' \in BOOLEAN /\ pending' \in Reply \cup {None}
        /\ reply' \in Reply \cup {None} /\ CallOK'
    BY <2>2, <2>3, <1>2, <1>5, ReturnTyped DEF Inspect, projectVars
  <2> QED
    BY <2>1, <2>2, <2>4, <1>4, <1>5, <1>a DEF Inspect, TypeInv, TypeOK, projectVars
<1>6. CASE InspectFails
  <2>1. /\ pc' = "idle" /\ call' \in Call \cup {None} /\ pos' \in Nat
        /\ undo' \in BOOLEAN /\ pending' \in Reply \cup {None}
        /\ reply' \in Reply \cup {None} /\ CallOK'
    BY <1>6, <1>2, ReturnTyped DEF InspectFails, Raise, projectVars
  <2>2. active' \in Token \cup {None}
    BY <1>6, <1>a DEF InspectFails, TypeOK
  <2> QED
    BY <2>1, <2>2, <1>4, <1>6, <1>a DEF InspectFails, TypeInv, TypeOK, projectVars, tableVars
<1> QED
  BY <1>5, <1>6

LEMMA TypeClient ==
  ASSUME TypeInv, ClientStep
  PROVE  TypeInv'
<1>a. TypeOK /\ CallOK
  BY DEF TypeInv
<1>r. ASSUME Raise, project' # None => overlay' \in Envs
      PROVE  /\ pc' = "idle" /\ call' \in Call \cup {None} /\ pos' \in Nat
             /\ undo' \in BOOLEAN /\ pending' \in Reply \cup {None}
             /\ reply' \in Reply \cup {None} /\ CallOK'
  BY <1>r, ReturnTyped DEF Raise
<1>1. ASSUME NEW e \in Envs, OpenProject(e)
      PROVE  TypeInv'
  BY <1>1, <1>a
     DEF OpenProject, TypeInv, TypeOK, CallOK, procVars, tableVars
<1>2. ASSUME NEW e \in Envs, ResetProject(e)
      PROVE  TypeInv'
  <2>1. /\ pc' = "idle" /\ call' \in Call \cup {None} /\ pos' \in Nat
        /\ undo' \in BOOLEAN /\ pending' \in Reply \cup {None}
        /\ reply' \in Reply \cup {None} /\ CallOK'
    BY <1>2, <1>r DEF ResetProject
  <2> QED
    BY <2>1, <1>2, <1>a DEF ResetProject, Poisoned, TypeInv, TypeOK, procVars
<1>3. ASSUME NEW e \in Envs, ResetFails(e)
      PROVE  TypeInv'
  <2>1. /\ pc' = "idle" /\ call' \in Call \cup {None} /\ pos' \in Nat
        /\ undo' \in BOOLEAN /\ pending' \in Reply \cup {None}
        /\ reply' \in Reply \cup {None} /\ CallOK'
    BY <1>3, <1>r DEF ResetFails
  <2> QED
    BY <2>1, <1>3, <1>a DEF ResetFails, Poisoned, TypeInv, TypeOK, tableVars
<1>4. ASSUME NEW m \in Modules, BeginLoad(m)
      PROVE  TypeInv'
  <2>1. project \in Envs /\ overlay \in Envs
    BY <1>4, <1>a DEF BeginLoad, TypeOK, CallOK
  <2>2. call' \in Call /\ call'.kind = "load" /\ pc' = "open" /\ reply' = None
    BY <1>4 DEF BeginLoad, Call, Kinds
  <2>3. CallOK'
    BY <2>1, <2>2, <1>4 DEF BeginLoad, CallOK, Committing, projectVars
  <2>4. pos' \in Nat /\ undo' \in BOOLEAN /\ pending' \in Reply \cup {None}
    BY <1>4, <1>a DEF BeginLoad, TypeOK
  <2> QED
    BY <2>2, <2>3, <2>4, <1>4, <1>a
       DEF BeginLoad, TypeInv, TypeOK, projectVars, procVars, tableVars
<1>5. ASSUME NEW kind \in Kinds, NEW t \in issued, NEW a \in Acts \cup {None},
             Begin(kind, t, a)
      PROVE  TypeInv'
  <2>1. project \in Envs /\ overlay \in Envs /\ t \in Token
    BY <1>5, <1>a DEF Begin, TypeOK, CallOK
  <2>2. call' = [kind |-> kind, tok |-> t, mod |-> t.mod, act |-> a]
    BY <1>5 DEF Begin
  <2>3. call' \in Call /\ call'.tok \in Token
    BY <2>1, <2>2 DEF Call, Token
  <2>4. kind \in Committing \cup {"trial"} => a \in Acts
    BY <1>5 DEF Begin, Expects
  <2>5. pc' \in {"act", "load"} /\ reply' = None
    BY <1>5 DEF Begin
  <2>6. CallOK'
    BY <2>1, <2>2, <2>3, <2>4, <2>5, <1>5 DEF Begin, CallOK, projectVars
  <2>7. pos' \in Nat /\ undo' \in BOOLEAN /\ pending' \in Reply \cup {None}
    BY <1>5, <1>a DEF Begin, TypeOK
  <2> QED
    BY <2>3, <2>5, <2>6, <2>7, <1>5, <1>a
       DEF Begin, TypeInv, TypeOK, projectVars, procVars, tableVars
<1>6. CASE BeginOnChangedSources
  <2>1. /\ pc' = "idle" /\ call' \in Call \cup {None} /\ pos' \in Nat
        /\ undo' \in BOOLEAN /\ pending' \in Reply \cup {None}
        /\ reply' \in Reply \cup {None} /\ CallOK'
    BY <1>6, <1>r, <1>a DEF BeginOnChangedSources, CallOK, projectVars
  <2> QED
    BY <2>1, <1>6, <1>a
       DEF BeginOnChangedSources, TypeInv, TypeOK, projectVars, procVars, tableVars
<1>7. CASE BeginHalted
  <2>1. /\ pc' = "idle" /\ call' \in Call \cup {None} /\ pos' \in Nat
        /\ undo' \in BOOLEAN /\ pending' \in Reply \cup {None}
        /\ reply' \in Reply \cup {None} /\ CallOK'
    BY <1>7, <1>r, <1>a DEF BeginHalted, CallOK, projectVars
  <2>2. active' \in Token \cup {None}
    BY <1>7, <1>a DEF BeginHalted, TypeOK
  <2> QED
    BY <2>1, <2>2, <1>7, <1>a
       DEF BeginHalted, Poisoned, TypeInv, TypeOK, projectVars, procVars, tableVars
<1>8. CASE Close
  <2>1. /\ pc' = "idle" /\ call' \in Call \cup {None} /\ pos' \in Nat
        /\ undo' \in BOOLEAN /\ pending' \in Reply \cup {None}
        /\ reply' \in Reply \cup {None} /\ CallOK'
    BY <1>8, <1>r, <1>a DEF Close, CallOK, projectVars
  <2> QED
    BY <2>1, <1>8, <1>a
       DEF Close, CloseTransport, Poisoned, TypeInv, TypeOK, projectVars
<1> QED
  BY <1>1, <1>2, <1>3, <1>4, <1>5, <1>6, <1>7, <1>8 DEF ClientStep

LEMMA TypeEnvironment ==
  ASSUME TypeInv, EnvironmentStep
  PROVE  TypeInv'
<1>1. CASE Cancel
  BY <1>1 DEF Cancel, TypeInv, TypeOK, CallOK, projectVars, procVars, tableVars
<1>2. CASE DeadlinePasses
  BY <1>2 DEF DeadlinePasses, TypeInv, TypeOK, CallOK, projectVars, procVars, tableVars
<1>3. CASE ProcessExits
  BY <1>3 DEF ProcessExits, TypeInv, TypeOK, CallOK, projectVars, tableVars
<1>4. ASSUME NEW e \in Envs, SourcesEdited(e)
      PROVE  TypeInv'
  BY <1>4 DEF SourcesEdited, TypeInv, TypeOK, CallOK, procVars, tableVars
<1> QED
  BY <1>1, <1>2, <1>3, <1>4 DEF EnvironmentStep

LEMMA TypeStutter ==
  ASSUME TypeInv, UNCHANGED vars
  PROVE  TypeInv'
BY DEF vars, TypeInv, TypeOK, CallOK

LEMMA TypeStep == TypeInv /\ [Next]_vars => TypeInv'
BY TypeActivation, TypeReading, TypeGiving1, TypeCommit, TypeGiving2, TypeLoading,
   TypeInspection, TypeClient, TypeEnvironment, TypeStutter
   DEF Next, CallStep

THEOREM TypeCorrect == Spec => []TypeOK
<1>1. Init => TypeInv
  BY TypeInit
<1>2. TypeInv /\ [Next]_vars => TypeInv'
  BY TypeStep
<1>3. TypeInv => TypeOK
  BY DEF TypeInv
<1> QED
  BY <1>1, <1>2, <1>3, PTL DEF Spec

-----------------------------------------------------------------------------
(***************************************************************************)
(* Tokens are never reused and never revived: the numbering of             *)
(* _register_state and _replace_state and the checks of _validate_token,   *)
(* whatever faults happen.                                                 *)
(***************************************************************************)

\* What one step may do to the process: nothing, start it, or end it.
ProcessStep ==
  \/ UNCHANGED <<up, gen>>
  \/ Opened
  \/ up' # "live" /\ gen' \in {gen, gen + 1}

\* What one step may do to the tokens: forget some, forget all of them while
\* the project changes, or issue one of the next numbers.
Forgets ==
  /\ states' \subseteq states /\ issued' = issued /\ seq' = seq
  /\ \/ project' = project
     \/ project' \in Envs /\ (states' = {} \/ project = None)

Issues(t) ==
  /\ t \in Token /\ t.env = project /\ t.gen = gen' /\ t.seq = seq' /\ seq' > seq
  /\ states' \subseteq states \cup {t} /\ issued' \subseteq issued \cup {t}
  /\ project' = project

TokenStep == Forgets \/ \E t : Issues(t)

(***************************************************************************)
(* A failed command starts the process, ends it or leaves it alone.        *)
(***************************************************************************)
LEMMA FailureStep ==
  ASSUME NEW next, \/ Answered(next) \/ Refused \/ Lost \/ Late(next)
                   \/ (Poisoned /\ UNCHANGED gen) \/ UNCHANGED procVars
  PROVE  ProcessStep
BY DEF ProcessStep, Answered, Refused, Lost, Late, Poisoned, Opened, procVars, Live

LEMMA ActivationSteps ==
  ASSUME Reload \/ Replay \/ ActivationRejected \/ ReloadFails \/ ReplayFails
         \/ RollbackFails
  PROVE  ProcessStep /\ Forgets
<1>1. Forgets
  BY DEF Reload, Replay, ActivationRejected, ReloadFails, ReplayFails, RollbackFails,
         projectVars, tableVars, Forgets
<1>2. ProcessStep
  <2>1. PICK next : \/ Answered(next) \/ Refused \/ Lost \/ Late(next)
                    \/ (Poisoned /\ UNCHANGED gen) \/ UNCHANGED procVars
    BY DEF Reload, Replay, ActivationRejected, ReloadFails, ReplayFails, RollbackFails,
           CloseAndForget, CloseTransport, Fails
  <2> QED
    BY <2>1, FailureStep
<1> QED
  BY <1>1, <1>2

LEMMA ReadingSteps ==
  ASSUME Read \/ CachedRead \/ ReadFails \/ LimitReached \/ CheckThenGive
  PROVE  ProcessStep /\ Forgets
<1>1. Forgets
  BY DEF Read, CachedRead, ReadFails, LimitReached, CheckThenGive,
         projectVars, tableVars, Forgets
<1>2. ProcessStep
  <2>1. PICK next : \/ Answered(next) \/ Refused \/ Lost \/ Late(next)
                    \/ (Poisoned /\ UNCHANGED gen) \/ UNCHANGED procVars
    BY DEF Read, CachedRead, ReadFails, LimitReached, CheckThenGive, Fails
  <2> QED
    BY <2>1, FailureStep
<1> QED
  BY <1>1, <1>2

LEMMA GivingSteps ==
  ASSUME PreviewAccepted \/ GiveRejected \/ RejectedInPlace \/ GiveFails \/ AutoOne
  PROVE  ProcessStep /\ Forgets
<1>1. Forgets
  BY DEF PreviewAccepted, GiveRejected, RejectedInPlace, GiveFails, AutoOne,
         projectVars, tableVars, Forgets
<1>2. ProcessStep
  <2>1. PICK next : \/ Answered(next) \/ Refused \/ Lost \/ Late(next)
                    \/ (Poisoned /\ UNCHANGED gen) \/ UNCHANGED procVars
    BY DEF PreviewAccepted, GiveRejected, RejectedInPlace, GiveFails, AutoOne, Fails
  <2> QED
    BY <2>1, FailureStep
<1> QED
  BY <1>1, <1>2

LEMMA LoadingSteps ==
  ASSUME LoadFails \/ InspectFails
  PROVE  ProcessStep /\ Forgets
<1>1. Forgets
  BY DEF LoadFails, InspectFails, projectVars, tableVars, Forgets
<1>2. ProcessStep
  <2>1. PICK next : \/ Answered(next) \/ Refused \/ Lost \/ Late(next)
                    \/ (Poisoned /\ UNCHANGED gen) \/ UNCHANGED procVars
    BY DEF LoadFails, InspectFails, Fails
  <2> QED
    BY <2>1, FailureStep
<1> QED
  BY <1>1, <1>2

LEMMA IssuingSteps ==
  ASSUME TypeInv,
         CommitShallow \/ CommitProvisional \/ LoadShallow \/ LoadProvisional \/ Inspect
  PROVE  ProcessStep /\ \E t : Issues(t)
<1>a. TypeOK /\ CallOK
  BY DEF TypeInv
<1>1. ProcessStep
  <2>1. PICK next : Answered(next)
    BY DEF CommitShallow, CommitProvisional, LoadShallow, LoadProvisional, Inspect
  <2> QED
    BY <2>1, FailureStep
<1>2. seq \in Nat /\ gen' \in Nat /\ project' = project
  BY <1>a DEF TypeOK, CommitShallow, CommitProvisional, LoadShallow, LoadProvisional,
              Inspect, Answered, Opened, projectVars
<1>3. pc # "idle"
  BY DEF CommitShallow, CommitProvisional, LoadShallow, LoadProvisional, Inspect, Giving
<1>4. call \in Call /\ project \in Envs /\ call.mod \in Modules
  BY <1>3, <1>a DEF CallOK, Call
<1>5. \A lin \in Seq(Acts), n \in Nat :
        LET t == NewToken(call.mod, lin, n)
        IN  t \in Token /\ t.seq = n /\ t.env = project /\ t.gen = gen'
  BY <1>2, <1>4, TokenTyped DEF NewToken
<1>6. CASE CommitShallow \/ CommitProvisional
  <2> DEFINE child(n) == NewToken(call.mod, Append(call.tok.lin, call.act), n)
  <2>1. pc \in {"act", "give"} /\ call.act \in Acts
    BY <1>6, GivingTyped DEF CommitShallow, CommitProvisional
  <2>2. Append(call.tok.lin, call.act) \in Seq(Acts)
    BY <2>1, CallTyped
  <2>3. \A n \in Nat : /\ child(n) \in Token /\ child(n).seq = n
                       /\ child(n).env = project /\ child(n).gen = gen'
    BY <2>2, <1>5
  <2>4. \/ /\ states' = states \cup {child(seq + 2)} /\ issued' = issued \cup {child(seq + 2)}
           /\ seq' = seq + 2
        \/ /\ states' = states \cup {child(seq + 1)} /\ issued' = issued
           /\ seq' = seq + 1
    BY <1>6 DEF CommitShallow, CommitProvisional
  <2> HIDE DEF child
  <2>5. PICK n \in Nat : /\ seq' = n /\ seq < n /\ states' = states \cup {child(n)}
                         /\ issued' \subseteq issued \cup {child(n)}
    BY <2>4, <1>2
  <2>6. /\ child(n) \in Token /\ child(n).seq = n
        /\ child(n).env = project /\ child(n).gen = gen'
    BY <2>3
  <2>7. Issues(child(n))
    BY <2>5, <2>6, <1>2 DEF Issues
  <2> QED
    BY <1>1, <2>7
<1>7. CASE LoadShallow \/ LoadProvisional
  <2> DEFINE empty == <<>>
         root == NewToken(call.mod, empty, seq + 1)
  <2>0. empty \in Seq(Acts)
    OBVIOUS
  <2> HIDE DEF empty
  <2>1. /\ root \in Token /\ root.seq = seq + 1
        /\ root.env = project /\ root.gen = gen'
    BY <2>0, <1>2, <1>5
  <2>2. /\ states' = states \cup {root} /\ seq' = seq + 1
        /\ issued' = issued \/ issued' = issued \cup {root}
    BY <1>7 DEF LoadShallow, LoadProvisional, empty
  <2> HIDE DEF root
  <2>3. Issues(root)
    BY <2>1, <2>2, <1>2 DEF Issues
  <2> QED
    BY <1>1, <2>3
<1>8. CASE Inspect
  <2> DEFINE complete == NewToken(call.mod, call.tok.lin, seq + 1)
  <2>1. call.tok.lin \in Seq(Acts)
    BY <1>8, CallTyped DEF Inspect
  <2>2. /\ complete \in Token /\ complete.seq = seq + 1
        /\ complete.env = project /\ complete.gen = gen'
    BY <2>1, <1>2, <1>5
  <2>3. /\ states' = (states \ {call.tok}) \cup {complete} /\ seq' = seq + 1
        /\ issued' = issued \cup {complete}
    BY <1>8 DEF Inspect
  <2> HIDE DEF complete
  <2>4. Issues(complete)
    BY <2>2, <2>3, <1>2 DEF Issues
  <2> QED
    BY <1>1, <2>4
<1> QED
  BY <1>6, <1>7, <1>8

LEMMA ClientSteps ==
  ASSUME ClientStep
  PROVE  ProcessStep /\ Forgets
<1>1. ASSUME NEW e \in Envs, OpenProject(e) \/ ResetProject(e) \/ ResetFails(e)
      PROVE  ProcessStep /\ Forgets
  BY <1>1 DEF OpenProject, ResetProject, ResetFails, Poisoned, ProcessStep, Forgets,
              procVars, tableVars
<1>2. ASSUME NEW m \in Modules, BeginLoad(m)
      PROVE  ProcessStep /\ Forgets
  BY <1>2 DEF BeginLoad, ProcessStep, Forgets, procVars, tableVars, projectVars
<1>3. ASSUME NEW kind \in Kinds, NEW t \in issued, NEW a \in Acts \cup {None},
             Begin(kind, t, a)
      PROVE  ProcessStep /\ Forgets
  BY <1>3 DEF Begin, ProcessStep, Forgets, procVars, tableVars, projectVars
<1>4. CASE BeginOnChangedSources \/ BeginHalted \/ Close
  BY <1>4 DEF BeginOnChangedSources, BeginHalted, Close, CloseTransport, Poisoned,
              ProcessStep, Forgets, procVars, tableVars, projectVars
<1> QED
  BY <1>1, <1>2, <1>3, <1>4 DEF ClientStep

LEMMA EnvironmentSteps ==
  ASSUME EnvironmentStep \/ UNCHANGED vars
  PROVE  ProcessStep /\ Forgets
BY DEF EnvironmentStep, Cancel, DeadlinePasses, ProcessExits, SourcesEdited, vars,
       ProcessStep, Forgets, procVars, tableVars, projectVars

LEMMA EveryStep ==
  ASSUME TypeInv, [Next]_vars
  PROVE  ProcessStep /\ TokenStep
BY ActivationSteps, ReadingSteps, GivingSteps, LoadingSteps, IssuingSteps, ClientSteps,
   EnvironmentSteps DEF Next, CallStep, TokenStep

-----------------------------------------------------------------------------

\* What _register_state and reset_project keep true of the table.
TokenInv ==
  /\ \A t \in issued \cup states : t.seq <= seq /\ t.gen <= gen
  /\ \A t \in states : t.env = project
  /\ project = None => states = {} /\ issued = {}
  /\ OneStatePerSequence

LEMMA GenerationGrows ==
  ASSUME TypeInv, ProcessStep
  PROVE  /\ gen' \in Nat /\ gen <= gen'
         /\ Live' => (Live /\ gen' = gen) \/ gen < gen'
BY DEF TypeInv, TypeOK, ProcessStep, Opened, Live

LEMMA TokenInvStep ==
  ASSUME TypeInv, TypeInv', TokenInv, [Next]_vars
  PROVE  TokenInv'
<1>a. /\ project \in Envs \cup {None} /\ None \notin Envs
      /\ states \subseteq Token /\ issued \subseteq Token /\ seq \in Nat /\ gen \in Nat
      /\ gen' \in Nat /\ seq' \in Nat
  BY ConstantsAssumption DEF TypeInv, TypeOK
<1>1. gen <= gen'
  BY EveryStep, GenerationGrows
<1>2. \A t \in Token : t.gen \in Nat /\ t.seq \in Nat /\ t.env \in Envs
  BY DEF Token
<1>3. CASE Forgets
  <2>1. \A t \in issued' \cup states' : t \in issued \cup states /\ t \in Token
    BY <1>3, <1>a DEF Forgets
  <2>2. \A t \in issued' \cup states' : t.seq <= seq' /\ t.gen <= gen'
    BY <2>1, <1>1, <1>2, <1>3, <1>a DEF TokenInv, Forgets
  <2>3. \A t \in states' : t.env = project'
    BY <1>3 DEF TokenInv, Forgets
  <2>4. project' = None => states' = {} /\ issued' = {}
    BY <1>3, <1>a DEF TokenInv, Forgets
  <2>5. OneStatePerSequence'
    BY <2>1 DEF TokenInv, OneStatePerSequence
  <2> QED
    BY <2>2, <2>3, <2>4, <2>5 DEF TokenInv
<1>4. ASSUME NEW t, Issues(t)
      PROVE  TokenInv'
  <2>1. \A u \in issued' \cup states' : u = t \/ (u \in issued \cup states /\ u \in Token)
    BY <1>4, <1>a DEF Issues
  <2>2. \A u \in issued \cup states : u.seq <= seq /\ u.gen <= gen /\ u.seq < seq'
    BY <1>4, <1>2, <1>a DEF TokenInv, Issues
  <2>3. \A u \in issued' \cup states' : u.seq <= seq' /\ u.gen <= gen'
    BY <2>1, <2>2, <1>1, <1>2, <1>4, <1>a DEF Issues
  <2>4. \A u \in states' : u.env = project'
    BY <1>4 DEF TokenInv, Issues
  <2>5. project' # None
    BY <1>4, <1>2, <1>a DEF Issues
  <2>6. ASSUME NEW u \in issued' \cup states', NEW v \in issued' \cup states',
               u.seq = v.seq
        PROVE  u = v
    <3>1. CASE u = t
      BY <3>1, <2>1, <2>2, <2>6, <1>2, <1>4, <1>a DEF Issues
    <3>2. CASE v = t
      BY <3>2, <2>1, <2>2, <2>6, <1>2, <1>4, <1>a DEF Issues
    <3>3. CASE u # t /\ v # t
      BY <3>3, <2>1, <2>6 DEF TokenInv, OneStatePerSequence
    <3> QED
      BY <3>1, <3>2, <3>3
  <2>7. OneStatePerSequence'
    BY <2>6 DEF OneStatePerSequence
  <2> QED
    BY <2>3, <2>4, <2>5, <2>7 DEF TokenInv
<1> QED
  BY <1>3, <1>4, EveryStep DEF TokenStep

LEMMA TokenInvInit == Init => TokenInv
BY DEF Init, TokenInv, OneStatePerSequence

\* _register_state and _replace_state never number two states alike.
THEOREM NumbersNeverReused == Spec => []OneStatePerSequence
<1>1. Init => TypeInv /\ TokenInv
  BY TypeInit, TokenInvInit
<1>2. (TypeInv /\ TokenInv) /\ [Next]_vars => (TypeInv /\ TokenInv)'
  BY TypeStep, TokenInvStep
<1>3. TypeInv /\ TokenInv => OneStatePerSequence
  BY DEF TokenInv
<1> QED
  BY <1>1, <1>2, <1>3, PTL DEF Spec

LEMMA StaleStep ==
  ASSUME TypeInv, TypeInv', TokenInv, [Next]_vars, NEW t \in issued, ~Valid(t)
  PROVE  ~Valid(t)'
<1> SUFFICES ASSUME Valid(t)'
             PROVE  FALSE
  OBVIOUS
<1>a. /\ t \in Token /\ t.gen \in Nat /\ t.seq \in Nat /\ gen \in Nat /\ seq \in Nat
      /\ t.gen <= gen /\ t.seq <= seq
  BY DEF TypeInv, TypeOK, TokenInv, Token
<1>1. Live' /\ t.gen = gen' /\ t \in states' /\ t.env = project'
  BY DEF Valid, Live
<1>2. Live /\ gen' = gen
  BY <1>a, <1>1, EveryStep, GenerationGrows
<1>3. CASE Forgets
  <2>1. t \in states
    BY <1>1, <1>3 DEF Forgets
  <2>2. t.env = project
    BY <2>1 DEF TokenInv
  <2> QED
    BY <2>1, <2>2, <1>1, <1>2 DEF Valid
<1>4. ASSUME NEW u, Issues(u)
      PROVE  FALSE
  <2>1. t # u
    BY <1>4, <1>a DEF Issues, TypeInv, TypeOK
  <2>2. t \in states /\ t.env = project
    BY <2>1, <1>1, <1>4 DEF Issues
  <2> QED
    BY <2>2, <1>1, <1>2 DEF Valid
<1> QED
  BY <1>3, <1>4, EveryStep DEF TokenStep

\* A token _validate_token refuses once is refused for ever, through restarts
\* of the process and through reset_project.
THEOREM StaleTokensStayStale == Spec => StaleForever
<1>1. Init => TypeInv /\ TokenInv
  BY TypeInit, TokenInvInit
<1>2. (TypeInv /\ TokenInv) /\ [Next]_vars => (TypeInv /\ TokenInv)'
  BY TypeStep, TokenInvStep
<1>3. (TypeInv /\ TokenInv) /\ (TypeInv /\ TokenInv)' /\ [Next]_vars
        => [\A t \in issued : ~Valid(t) => ~Valid(t)']_vars
  BY StaleStep
<1> QED
  BY <1>1, <1>2, <1>3, PTL DEF Spec, StaleForever

-----------------------------------------------------------------------------
(***************************************************************************)
(* Without the failures of Leaks every verdict is about the token it       *)
(* names: proof of VerdictsFaithful and MarkerFaithful.  The violation     *)
(* runs show what the members of Leaks do; this part shows that nothing    *)
(* else can: not a lost command, a denial before the write, an exit        *)
(* between calls, a refused replay, a cancellation, a deadline, an edit.   *)
(***************************************************************************)
Leaks == {"denied-in-replay", "late", "exit-in-call", "load-rejected",
          "state-limit", "recheck"}

\* A verdict, a pending verdict and a cached read name what Agda held.
Attested(r) == r # None => r.at = SnapshotOf(r.tok)

InCall == {"load", "replay", "act", "give", "inspect"}

\* What is true whatever the halt: the worker of a call in progress lives, the
\* call is about the session's project, and no marker is from the future.
Steady ==
  /\ Attested(reply) /\ Attested(pending) /\ Attested(lastRead)
  /\ active # None => active.gen <= gen
  /\ tclosed => ~Live
  /\ project = None => active = None
  /\ pc = "open" => Cardinality(states) < MaxStates
  /\ pc \in InCall => /\ Live /\ call.tok.env = project
                      /\ call.tok.mod = call.mod /\ call.tok.gen <= gen

\* The lineage actions before pos have been replayed.
Replayed ==
  /\ content \in Snapshot /\ content.env = project /\ content.mod = call.mod
  /\ Len(content.lin) = pos - 1
  /\ \A i \in 1..(pos - 1) : content.lin[i] = call.tok.lin[i]

\* What a session that was not stopped knows about the process.
Known ==
  /\ overlay = project
  /\ pc \in {"act", "give", "inspect"} => content = SnapshotOf(call.tok)
  /\ pc = "replay" => Replayed
  /\ MarkerFaithful

Faith == Steady /\ (~halted => Known)

FaithInv == TypeInv /\ Faith /\ IsFiniteSet(states)

Quiet == Faults \cap Leaks = {}

-----------------------------------------------------------------------------

LEMMA QuietFaults ==
  ASSUME Quiet
  PROVE  /\ "denied-in-replay" \notin Faults /\ "late" \notin Faults
         /\ "exit-in-call" \notin Faults /\ "load-rejected" \notin Faults
         /\ "state-limit" \notin Faults /\ "recheck" \notin Faults
BY DEF Quiet, Leaks

(***************************************************************************)
(* A failed command leaves the process alone, ends it, or has started a    *)
(* new one; an answered one leaves `next` in a live process.               *)
(***************************************************************************)
Failed == UNCHANGED procVars \/ ~Live' \/ gen < gen'

LEMMA FailureKeeps ==
  ASSUME Quiet, TypeInv, Steady, NEW denial, NEW next, Fails(denial, next),
         UNCHANGED <<tclosed, halted>>
  PROVE  /\ gen' \in Nat /\ gen <= gen'
         /\ tclosed' => ~Live'
         /\ ~halted => Failed
<1>1. gen \in Nat
  BY DEF TypeInv, TypeOK
<1>2. CASE Refused
  BY <1>1, <1>2 DEF Refused, Opened, Live, Steady, procVars, Failed
<1>3. CASE Lost
  BY <1>1, <1>3 DEF Lost, Poisoned, Live, Failed
<1>4. CASE Late(next) /\ halted
  BY <1>1, <1>4 DEF Late, Opened, Live
<1> QED
  BY <1>2, <1>3, <1>4, QuietFaults DEF Fails

LEMMA AnswerKeeps ==
  ASSUME TypeInv, Steady, NEW next, Answered(next), UNCHANGED tclosed
  PROVE  /\ gen' \in Nat /\ gen <= gen' /\ ~halted /\ ~tclosed'
         /\ Live' /\ content' = next
         /\ Live => gen' = gen /\ up' = up
BY DEF TypeInv, TypeOK, Answered, Opened, Live

LEMMA MarkerKept ==
  ASSUME TypeInv, Steady, MarkerFaithful, ~halted, pc # "replay", Failed,
         active' \in {active, None}, states' \subseteq states, project' = project
  PROVE  MarkerFaithful'
<1> SUFFICES ASSUME active' # None, Valid(active)'
             PROVE  content' = SnapshotOf(active)'
  BY DEF MarkerFaithful
<1>1. active' = active /\ active.gen <= gen /\ active.gen = gen' /\ Live'
  BY DEF Steady, Valid
<1>2. gen \in Nat /\ gen' \in Nat
  BY <1>1 DEF TypeInv, TypeOK, Token
<1>3. UNCHANGED procVars
  BY <1>1, <1>2 DEF Failed
<1>4. Valid(active)
  BY <1>1, <1>3 DEF Valid, Live, procVars
<1> QED
  BY <1>1, <1>3, <1>4 DEF MarkerFaithful, SnapshotOf, procVars

LEMMA DeadMarker ==
  ASSUME ~Live' \/ active' = None
  PROVE  MarkerFaithful'
BY DEF MarkerFaithful, Valid

(***************************************************************************)
(* The end of a call.                                                      *)
(***************************************************************************)
LEMMA Ends ==
  ASSUME NEW r, Return(r), Attested(r), Attested(lastRead)',
         active' # None => active'.gen <= gen',
         tclosed' => ~Live',
         project' = None => active' = None
  PROVE  /\ Steady'
         /\ overlay' = project' /\ MarkerFaithful' => Known'
BY DEF Return, Steady, Known, Attested, InCall

LEMMA NothingAttested == Attested(None)
BY DEF Attested

\* A call that fails and keeps or forgets the marker.
LEMMA Fizzles ==
  ASSUME Quiet, TypeInv, Faith, Raise, pc # "replay",
         NEW next, Fails("denied", next),
         active' \in {active, None}, UNCHANGED <<projectVars, tableVars>>,
         UNCHANGED <<tclosed, halted, lastRead>>
  PROVE  Faith'
<1>1. /\ gen' \in Nat /\ gen <= gen'
      /\ tclosed' => ~Live'
      /\ ~halted => Failed
  BY FailureKeeps DEF Faith
<1>2. active # None => active.gen \in Nat
  BY DEF TypeInv, TypeOK, Token
<1>3. active' # None => active'.gen <= gen'
  BY <1>1, <1>2 DEF Faith, Steady, TypeInv, TypeOK
<1>4. Steady' /\ (overlay' = project' /\ MarkerFaithful' => Known')
  BY <1>1, <1>3, Ends, NothingAttested DEF Raise, Faith, Steady, Attested, projectVars
<1>5. ASSUME ~halted' PROVE overlay' = project' /\ MarkerFaithful'
  BY <1>5, <1>1, MarkerKept DEF Faith, Known, projectVars, tableVars
<1> QED
  BY <1>4, <1>5 DEF Faith

(***************************************************************************)
(* _activate.                                                              *)
(***************************************************************************)

\* Facts about a call in progress.
LEMMA InProgress ==
  ASSUME TypeInv, Faith, pc \in InCall
  PROVE  /\ Live /\ ~tclosed /\ call.tok.env = project /\ call.tok.mod = call.mod
         /\ call.tok.gen <= gen /\ gen \in Nat /\ call.tok.gen \in Nat
         /\ call \in Call /\ call.tok \in Token /\ project \in Envs
         /\ project # None
         /\ call.tok.lin \in Seq(Acts) /\ Held = content
         /\ content \in Snapshot \cup {NoSnapshot}
<1>1. /\ Live /\ call.tok.env = project /\ call.tok.mod = call.mod /\ call.tok.gen <= gen
      /\ ~tclosed
  BY DEF Faith, Steady
<1>2. pc # "idle" /\ call \in Call /\ call.tok \in Token /\ project \in Envs
  BY DEF TypeInv, CallOK, InCall
<1>3. call.tok.lin \in Seq(Acts) /\ call.tok.gen \in Nat
  BY <1>2 DEF Token
<1> QED
  BY <1>1, <1>2, <1>3, ConstantsAssumption DEF TypeInv, TypeOK, Held

\* The marker is set to the token whose state the process now holds.
LEMMA Reaches ==
  ASSUME TypeInv, Faith, pc \in {"load", "replay"}, ~halted, NEW next, Answered(next),
         next = SnapshotOf(call.tok), Activated,
         UNCHANGED <<projectVars, tableVars, tclosed, halted, lastRead>>
  PROVE  Faith'
<1>1. /\ gen' = gen /\ Live' /\ content' = SnapshotOf(call.tok)
      /\ active' = call.tok /\ ~tclosed'
  BY InProgress, AnswerKeeps DEF Activated, Faith, InCall
<1>2. MarkerFaithful' /\ overlay' = project'
  BY <1>1 DEF MarkerFaithful, SnapshotOf, Faith, Known, projectVars
<1>3. CASE undo
  <2>1. Return(pending)
    BY <1>3 DEF Activated
  <2> QED
    BY <2>1, <1>1, <1>2, InProgress, Ends
       DEF Faith, Steady, Attested, InCall, projectVars
<1>4. CASE ~undo
  <2>1. pc' = "act" /\ UNCHANGED <<call, pending, reply>>
    BY <1>4 DEF Activated, Goto
  <2>2. Steady'
    BY <2>1, <1>1, InProgress DEF Faith, Steady, Attested, InCall, projectVars
  <2>3. Known'
    BY <2>1, <1>1, <1>2 DEF Known, SnapshotOf
  <2> QED
    BY <2>2, <2>3 DEF Faith
<1> QED
  BY <1>3, <1>4

LEMMA FaithReload ==
  ASSUME TypeInv, Faith, Reload
  PROVE  Faith'
<1>1. /\ Live /\ call.tok.env = project /\ call.tok.mod = call.mod /\ project \in Envs
      /\ call.tok \in Token /\ call.tok.lin \in Seq(Acts) /\ call.mod \in Modules
  BY InProgress DEF Reload, InCall, Call
<1>2. ~halted /\ Answered(RootOf(call.mod)) /\ overlay = project
  BY DEF Reload, Answered, Faith, Known
<1>3. CASE call.tok.lin = <<>>
  <2>1. RootOf(call.mod) = SnapshotOf(call.tok)
    BY <1>1, <1>2, <1>3 DEF RootOf, SnapshotOf
  <2>2. Activated
    BY <1>3 DEF Reload
  <2> QED
    BY <2>1, <2>2, <1>2, Reaches DEF Reload
<1>4. CASE call.tok.lin # <<>>
  <2>1. pc' = "replay" /\ pos' = 1 /\ UNCHANGED <<active, call, undo, pending, reply>>
    BY <1>4 DEF Reload
  <2>2. /\ gen' = gen /\ Live' /\ content' = RootOf(call.mod) /\ ~tclosed'
        /\ UNCHANGED <<project, overlay, states, halted, lastRead>>
    BY <1>1, <1>2, AnswerKeeps DEF Reload, Faith, projectVars, tableVars
  <2>3. Steady'
    BY <2>1, <2>2, InProgress DEF Reload, Faith, Steady, Attested, InCall
  <2>4. Replayed'
    <3>1. content' \in Snapshot /\ content'.lin = <<>>
      BY <2>2, <1>1, <1>2 DEF RootOf, Snapshot
    <3>2. content'.env = project /\ content'.mod = call.mod
      BY <2>2, <1>2 DEF RootOf
    <3> QED
      BY <3>1, <3>2, <2>1, <2>2 DEF Replayed
  <2>5. Known'
    BY <2>1, <2>2, <2>4, <1>2 DEF Known, MarkerFaithful
  <2> QED
    BY <2>3, <2>5 DEF Faith
<1> QED
  BY <1>3, <1>4

LEMMA FaithReplay ==
  ASSUME TypeInv, Faith, Replay
  PROVE  Faith'
<1>1. /\ Live /\ call.tok.env = project /\ call.tok.mod = call.mod /\ project \in Envs
      /\ call.tok \in Token /\ call.tok.lin \in Seq(Acts) /\ Held = content
  BY InProgress DEF Replay, InCall
<1>2. ~halted /\ overlay = project /\ Replayed
  BY DEF Replay, Answered, Faith, Known
<1>3. pos \in 1..Len(call.tok.lin) /\ call.tok.lin[pos] \in Acts
  BY <1>1 DEF TypeInv, CallOK, Replay
<1> DEFINE next == Extend(content, call.tok.lin[pos])
<1>4. /\ next \in Snapshot /\ next.env = project /\ next.mod = call.mod
      /\ Len(next.lin) = pos
      /\ \A i \in 1..pos : next.lin[i] = call.tok.lin[i]
  <2>1. content.lin \in Seq(Acts \cup {Residue}) /\ Len(content.lin) = pos - 1
    BY <1>2 DEF Replayed, Snapshot
  <2>2. next = [content EXCEPT !.lin = Append(content.lin, call.tok.lin[pos])]
    BY DEF Extend
  <2>3. /\ Append(content.lin, call.tok.lin[pos]) \in Seq(Acts \cup {Residue})
        /\ Len(Append(content.lin, call.tok.lin[pos])) = pos
        /\ \A i \in 1..pos : Append(content.lin, call.tok.lin[pos])[i] = call.tok.lin[i]
    BY <2>1, <1>2, <1>3 DEF Replayed
  <2> QED
    BY <2>2, <2>3, <1>2 DEF Replayed, Snapshot
<1>5. Answered(next)
  BY <1>1 DEF Replay
<1> HIDE DEF next
<1>6. CASE pos = Len(call.tok.lin)
  <2>1. next.lin = call.tok.lin
    <3>1. next.lin \in Seq(Acts \cup {Residue}) /\ call.tok.lin \in Seq(Acts \cup {Residue})
      BY <1>1, <1>4 DEF Snapshot
    <3> QED
      BY <3>1, <1>4, <1>6, SeqEqual
  <2>2. next = SnapshotOf(call.tok)
    BY <2>1, <1>1, <1>4 DEF SnapshotOf, Snapshot
  <2>3. Activated
    BY <1>6 DEF Replay
  <2> QED
    BY <2>2, <2>3, <1>2, <1>5, Reaches DEF Replay
<1>7. CASE pos # Len(call.tok.lin)
  <2>1. pc' = "replay" /\ pos' = pos + 1 /\ UNCHANGED <<active, call, undo, pending, reply>>
    BY <1>7 DEF Replay
  <2>2. /\ gen' = gen /\ Live' /\ content' = next /\ ~tclosed'
        /\ UNCHANGED <<project, overlay, states, halted, lastRead>>
    BY <1>1, <1>5, AnswerKeeps DEF Replay, Faith, projectVars, tableVars
  <2>3. Steady'
    BY <2>1, <2>2, InProgress DEF Replay, Faith, Steady, Attested, InCall
  <2>4. Replayed'
    BY <1>3, <1>4, <2>1, <2>2 DEF Replayed
  <2>5. Known'
    BY <2>1, <2>2, <2>4, <1>2 DEF Known, MarkerFaithful
  <2> QED
    BY <2>3, <2>5 DEF Faith
<1> QED
  BY <1>6, <1>7

\* The calls that end by ending the process.
LEMMA Dies ==
  ASSUME TypeInv, Faith, Raise, active' \in {active, None}, ~Live',
         gen' \in Nat, gen <= gen',
         UNCHANGED <<projectVars, halted>>,
         lastRead' \in {lastRead, None}
  PROVE  Faith'
<1>1. active # None => active.gen \in Nat /\ gen \in Nat /\ active.gen <= gen
  BY DEF TypeInv, TypeOK, Token, Faith, Steady
<1>2. active' # None => active'.gen <= gen'
  BY <1>1
<1>3. Attested(lastRead)' /\ (project' = None => active' = None)
  BY DEF Faith, Steady, Attested, projectVars
<1>4. Steady' /\ (overlay' = project' /\ MarkerFaithful' => Known')
  BY <1>2, <1>3, Ends, NothingAttested DEF Raise
<1>5. ASSUME ~halted' PROVE overlay' = project' /\ MarkerFaithful'
  BY <1>5, DeadMarker DEF Faith, Known, projectVars
<1> QED
  BY <1>4, <1>5 DEF Faith

LEMMA FaithActivationFails ==
  ASSUME Quiet, TypeInv, Faith,
         ActivationRejected \/ ReloadFails \/ ReplayFails \/ RollbackFails
  PROVE  Faith'
<1>0. gen \in Nat
  BY DEF TypeInv, TypeOK
<1>1. CASE ActivationRejected
  BY <1>0, <1>1, Dies DEF ActivationRejected, CloseTransport, Poisoned, Live
<1>2. CASE RollbackFails
  BY <1>0, <1>2, Dies DEF RollbackFails, CloseAndForget, CloseTransport, Poisoned, Live
<1>3. CASE ReloadFails
  BY <1>3, Fizzles DEF ReloadFails
<1>4. CASE ReplayFails
  <2>1. Live /\ ~tclosed
    BY <1>4, InProgress DEF ReplayFails, InCall
  <2>2. PICK next : Fails("denied-in-replay", next)
    BY <1>4 DEF ReplayFails
  <2>3. gen' \in Nat /\ gen <= gen' /\ (tclosed' => ~Live')
    BY <1>4, <2>2, FailureKeeps DEF Faith, ReplayFails
  <2>4. CASE halted
    <3>1. Attested(lastRead)' /\ (active' # None => active'.gen <= gen')
          /\ (project' = None => active' = None)
      BY <1>0, <1>4, <2>3
         DEF ReplayFails, Faith, Steady, Attested, TypeInv, TypeOK, Token, projectVars
    <3>2. Steady'
      BY <1>4, <2>3, <3>1, Ends, NothingAttested DEF Raise, ReplayFails
    <3> QED
      BY <3>2, <2>4, <1>4 DEF ReplayFails, Faith
  <2>5. CASE ~halted
    <3>1. ~Live'
      BY <2>1, <2>2, <2>5, QuietFaults DEF Fails, Lost, Poisoned, Live
    <3> QED
      BY <3>1, <2>3, <1>4, Dies DEF ReplayFails
  <2> QED
    BY <2>4, <2>5
<1> QED
  BY <1>1, <1>2, <1>3, <1>4

(***************************************************************************)
(* The commands of a call.                                                 *)
(***************************************************************************)

\* A command that is answered with a verdict and leaves Agda as it was.
LEMMA Observes ==
  ASSUME TypeInv, Faith, pc \in {"act", "give", "inspect"}, Answered(Held), NEW ok,
         Return(Verdict(call.tok, ok)), active' \in {active, call.tok},
         lastRead' \in {lastRead, [tok |-> call.tok, at |-> Held]},
         UNCHANGED <<projectVars, tableVars, tclosed, halted>>
  PROVE  Faith'
<1>1. /\ gen' = gen /\ Live' /\ Live /\ content' = content /\ ~tclosed' /\ ~halted
      /\ call.tok.gen <= gen /\ project # None
  BY InProgress, AnswerKeeps DEF Faith, InCall
<1>2. content = SnapshotOf(call.tok) /\ Held = content
  BY <1>1, InProgress DEF Faith, Known, InCall
<1>3. Attested(Verdict(call.tok, ok)) /\ Attested(lastRead)'
  BY <1>2 DEF Attested, Verdict, Faith, Steady
<1>4. active' # None => active'.gen <= gen'
  BY <1>1 DEF Faith, Steady
<1>5. Steady' /\ (overlay' = project' /\ MarkerFaithful' => Known')
  BY <1>1, <1>3, <1>4, Ends DEF projectVars
<1>6. MarkerFaithful'
  <2>1. CASE active' = call.tok
    BY <2>1, <1>1, <1>2 DEF MarkerFaithful, SnapshotOf
  <2>2. CASE active' = active
    BY <2>2, <1>1
       DEF MarkerFaithful, SnapshotOf, Faith, Known, Valid, Live, projectVars, tableVars
  <2> QED
    BY <2>1, <2>2
<1> QED
  BY <1>1, <1>5, <1>6 DEF Faith, Known, projectVars

LEMMA FaithReading ==
  ASSUME Quiet, TypeInv, Faith, Read \/ CachedRead \/ ReadFails
  PROVE  Faith'
<1>1. CASE Read
  <2>1. PICK ok \in Verdicts(call.mod) :
          /\ Return(Verdict(call.tok, ok))
          /\ lastRead' \in {lastRead, [tok |-> call.tok, at |-> Held]}
    BY <1>1 DEF Read
  <2> QED
    BY <2>1, <1>1, Observes DEF Read
<1>2. CASE CachedRead
  <2> DEFINE r == [tok |-> call.tok, accepted |-> TRUE, at |-> lastRead.at]
  <2>1. Attested(r)
    BY <1>2 DEF CachedRead, Attested, Faith, Steady
  <2>2. Return(r) /\ UNCHANGED <<projectVars, procVars, tableVars, tclosed, halted,
                                active, lastRead>>
    BY <1>2 DEF CachedRead
  <2> HIDE DEF r
  <2>3. Attested(lastRead)' /\ (active' # None => active'.gen <= gen')
        /\ (tclosed' => ~Live') /\ (project' = None => active' = None)
    BY <2>2 DEF Attested, Faith, Steady, Live, projectVars, procVars
  <2>4. Steady' /\ (overlay' = project' /\ MarkerFaithful' => Known')
    BY <2>1, <2>2, <2>3, Ends
  <2>5. ASSUME ~halted' PROVE overlay' = project' /\ MarkerFaithful'
    BY <2>2, <2>5, <1>2
       DEF CachedRead, Faith, Known, MarkerFaithful, SnapshotOf, Valid, Live, projectVars,
           procVars, tableVars
  <2> QED
    BY <2>4, <2>5 DEF Faith
<1>3. CASE ReadFails
  <2>1. CASE Fails("denied", Held)
    BY <2>1, <1>3, Fizzles DEF ReadFails
  <2>2. CASE Answered(Held)
    <3>1. /\ gen' = gen /\ up' = up /\ content' = content /\ ~halted /\ ~tclosed'
      BY <2>2, <1>3, InProgress, AnswerKeeps DEF ReadFails, Faith, InCall
    <3>2. active # None => active.gen <= gen
      BY DEF Faith, Steady
    <3>3. Attested(lastRead)' /\ (active' # None => active'.gen <= gen')
          /\ (project' = None => active' = None)
      BY <3>1, <3>2, <1>3 DEF ReadFails, Attested, Faith, Steady, projectVars
    <3>4. Steady' /\ (overlay' = project' /\ MarkerFaithful' => Known')
      BY <3>1, <3>3, <1>3, Ends, NothingAttested DEF Raise, ReadFails
    <3>5. MarkerFaithful'
      BY <3>1, <1>3, MarkerKept
         DEF ReadFails, Faith, Known, Failed, procVars, projectVars, tableVars
    <3> QED
      BY <3>1, <3>4, <3>5, <1>3 DEF ReadFails, Faith, Known, projectVars
  <2> QED
    BY <2>1, <2>2, <1>3 DEF ReadFails
<1> QED
  BY <1>1, <1>2, <1>3

\* A command of _try_action and what it is given: the process holds the token.
LEMMA Holding ==
  ASSUME TypeInv, Faith, pc \in {"act", "give", "inspect"}, ~halted
  PROVE  /\ Live /\ Held = SnapshotOf(call.tok) /\ content = SnapshotOf(call.tok)
         /\ Held \in Snapshot /\ Held.mod = call.mod /\ Serves(call.mod)
         /\ \A ok : Attested(Verdict(call.tok, ok))
<1>1. content = SnapshotOf(call.tok) /\ Held = content /\ Live /\ call.tok.mod = call.mod
      /\ call.tok \in Token
  BY InProgress DEF Faith, Known, InCall
<1>2. call.tok.lin \in Seq(Acts \cup {Residue})
  BY <1>1 DEF Token
<1>3. Held \in Snapshot /\ Held.mod = call.mod
  BY <1>1, <1>2 DEF SnapshotOf, Snapshot, Token
<1>4. Serves(call.mod)
  BY <1>3, ConstantsAssumption DEF Serves
<1> QED
  BY <1>1, <1>3, <1>4 DEF Attested, Verdict

\* The parent will be restored before the verdict is delivered.
LEMMA RollsBack ==
  ASSUME TypeInv, Faith, pc = "act", NEW next, Answered(next), NEW ok,
         Rollback(Verdict(call.tok, ok)),
         UNCHANGED <<projectVars, tableVars, tclosed, halted, lastRead>>
  PROVE  Faith'
<1>1. /\ gen' = gen /\ Live' /\ ~tclosed' /\ ~halted /\ call.tok.gen <= gen
      /\ call.tok.env = project /\ call.tok.mod = call.mod
  BY InProgress, AnswerKeeps DEF Faith, InCall
<1>2. Attested(Verdict(call.tok, ok))
  BY <1>1, Holding
<1>3. pc' = "load" /\ active' = None /\ pending' = Verdict(call.tok, ok)
      /\ UNCHANGED <<call, reply, lastRead, project>>
  BY DEF Rollback, projectVars
<1>4. Steady'
  BY <1>1, <1>2, <1>3 DEF Faith, Steady, Attested
<1>5. Known'
  BY <1>1, <1>3, DeadMarker DEF Faith, Known, projectVars
<1> QED
  BY <1>4, <1>5 DEF Faith

LEMMA FaithGiving1 ==
  ASSUME Quiet, TypeInv, Faith,
         LimitReached \/ CheckThenGive \/ PreviewAccepted \/ GiveRejected
  PROVE  Faith'
<1>1. CASE LimitReached
  <2>1. Attested(lastRead)' /\ (active' # None => active'.gen <= gen')
        /\ (tclosed' => ~Live') /\ (project' = None => active' = None)
    BY <1>1 DEF LimitReached, Attested, Faith, Steady, Live, projectVars, procVars
  <2>2. Steady' /\ (overlay' = project' /\ MarkerFaithful' => Known')
    BY <1>1, <2>1, Ends, NothingAttested DEF LimitReached, Raise
  <2>3. ASSUME ~halted' PROVE overlay' = project' /\ MarkerFaithful'
    BY <1>1, <2>3, MarkerKept
       DEF LimitReached, Faith, Known, Failed, projectVars, tableVars
  <2> QED
    BY <2>2, <2>3 DEF Faith
<1>2. CASE CheckThenGive
  <2>1. PICK ok \in Verdicts(call.mod) :
          IF ok THEN Goto("give") /\ UNCHANGED active
                ELSE Return(Verdict(call.tok, FALSE)) /\ active' = call.tok
    BY <1>2 DEF CheckThenGive
  <2>2. CASE ok
    <3>1. pc' = "give" /\ UNCHANGED <<active, call, pending, reply>>
      BY <2>1, <2>2 DEF Goto
    <3>2. /\ gen' = gen /\ up' = up /\ Live /\ Live' /\ content' = content /\ ~tclosed'
          /\ ~halted /\ content = SnapshotOf(call.tok)
          /\ UNCHANGED <<project, overlay, states, lastRead>>
      BY <1>2, InProgress, AnswerKeeps, Holding
         DEF CheckThenGive, Faith, InCall, projectVars, tableVars
    <3>3. Steady'
      BY <1>2, <3>1, <3>2 DEF CheckThenGive, Faith, Steady, Attested, InCall
    <3>4. MarkerFaithful'
      BY <1>2, <3>1, <3>2
         DEF CheckThenGive, MarkerFaithful, SnapshotOf, Faith, Known, Valid, Live
    <3>5. Known'
      BY <3>1, <3>2, <3>4 DEF Faith, Known, SnapshotOf
    <3> QED
      BY <3>3, <3>5 DEF Faith
  <2>3. CASE ~ok
    BY <1>2, <2>1, <2>3, Observes DEF CheckThenGive
  <2> QED
    BY <2>2, <2>3
<1>3. CASE PreviewAccepted
  <2>1. pc = "act"
    BY <1>3 DEF PreviewAccepted, Giving, TypeInv, CallOK
  <2> QED
    BY <2>1, <1>3, RollsBack DEF PreviewAccepted
<1>4. CASE GiveRejected
  BY <1>4, RollsBack DEF GiveRejected
<1> QED
  BY <1>1, <1>2, <1>3, <1>4

LEMMA FaithGiving2 ==
  ASSUME Quiet, TypeInv, Faith, RejectedInPlace \/ GiveFails \/ AutoOne
  PROVE  Faith'
<1>1. CASE RejectedInPlace
  <2>1. pc \in {"act", "give"} /\ ~halted
    BY <1>1, GivingTyped DEF RejectedInPlace, Answered
  <2>2. Answered(Held)
    BY <1>1, <2>1, Holding, QuietFaults DEF RejectedInPlace
  <2>3. /\ active' = call.tok /\ Return(Verdict(call.tok, FALSE))
        /\ UNCHANGED <<projectVars, tableVars, tclosed, halted, lastRead>>
    BY <1>1 DEF RejectedInPlace
  <2> QED
    BY <2>1, <2>2, <2>3, Observes
<1>2. CASE GiveFails
  <2>1. pc \in {"act", "give"}
    BY <1>2, GivingTyped DEF GiveFails
  <2> QED
    BY <2>1, <1>2, Fizzles DEF GiveFails
<1>3. CASE AutoOne
  <2>1. PICK next :
          \/ Answered(next) /\ \E ok \in Verdicts(call.mod) : Return(Verdict(call.tok, ok))
          \/ Fails("denied", next) /\ Raise
    BY <1>3 DEF AutoOne
  <2>2. pc = "act" /\ active' = None
        /\ UNCHANGED <<projectVars, tableVars, tclosed, halted, lastRead>>
    BY <1>3 DEF AutoOne
  <2>3. CASE Fails("denied", next) /\ Raise
    BY <2>2, <2>3, Fizzles
  <2>4. CASE Answered(next) /\ \E ok \in Verdicts(call.mod) : Return(Verdict(call.tok, ok))
    <3>1. PICK ok : Return(Verdict(call.tok, ok))
      BY <2>4
    <3>2. ~halted /\ ~tclosed'
      BY <2>2, <2>4, AnswerKeeps DEF Faith
    <3>3. Attested(Verdict(call.tok, ok)) /\ Attested(lastRead)'
      BY <2>2, <3>2, Holding DEF Faith, Steady, Attested
    <3>4. Steady' /\ (overlay' = project' /\ MarkerFaithful' => Known')
      BY <2>2, <3>1, <3>2, <3>3, Ends
    <3> QED
      BY <2>2, <3>2, <3>4, DeadMarker DEF Faith, Known, projectVars
  <2> QED
    BY <2>1, <2>3, <2>4
<1> QED
  BY <1>1, <1>2, <1>3

(***************************************************************************)
(* The commands that register a state.                                     *)
(***************************************************************************)

\* A registered state is returned: it stands for what the process holds.
LEMMA Registers ==
  ASSUME TypeInv, Faith, ~halted, NEW next, Answered(next),
         NEW t, t.gen = gen', next = SnapshotOf(t), active' = t,
         NEW at, at = next, Return([tok |-> t, accepted |-> TRUE, at |-> at]),
         project # None, UNCHANGED <<projectVars, tclosed, halted, lastRead>>
  PROVE  Faith'
<1>1. /\ gen' \in Nat /\ ~tclosed' /\ content' = next
  BY AnswerKeeps DEF Faith
<1> DEFINE r == [tok |-> t, accepted |-> TRUE, at |-> at]
<1>2. Attested(r) /\ Attested(lastRead)' /\ Return(r)
  BY DEF Attested, Faith, Steady
<1> HIDE DEF r
<1>3. Steady' /\ (overlay' = project' /\ MarkerFaithful' => Known')
  BY <1>1, <1>2, Ends DEF projectVars
<1>4. MarkerFaithful' /\ overlay' = project'
  BY <1>1 DEF MarkerFaithful, SnapshotOf, Faith, Known, projectVars
<1> QED
  BY <1>3, <1>4 DEF Faith

\* A provisional state becomes the state of the call, to be inspected.
LEMMA RegistersProvisionally ==
  ASSUME TypeInv, Faith, ~halted, NEW next, Answered(next), pc # "idle", call \in Call,
         NEW t, t.gen = gen', t.env = project, t.mod = call.mod, next = SnapshotOf(t),
         active' = t, call' = [call EXCEPT !.tok = t], pc' = "inspect",
         project # None,
         UNCHANGED <<projectVars, tclosed, halted, lastRead, pending, reply>>
  PROVE  Faith'
<1>1. /\ gen' \in Nat /\ ~tclosed' /\ Live' /\ content' = next
  BY AnswerKeeps DEF Faith
<1>2. call'.tok = t /\ call'.mod = call.mod
  BY DEF Call
<1>3. Steady'
  BY <1>1, <1>2 DEF Faith, Steady, Attested, InCall, projectVars
<1>4. Known'
  BY <1>1, <1>2 DEF MarkerFaithful, SnapshotOf, Faith, Known, projectVars
<1> QED
  BY <1>3, <1>4 DEF Faith

LEMMA ChildHeld ==
  ASSUME TypeInv, Faith, pc \in {"act", "give"}, ~halted
  PROVE  \A a, n :
           LET t == NewToken(call.mod, Append(call.tok.lin, a), n)
           IN  /\ Extend(Held, a) = SnapshotOf(t)
               /\ t.gen = gen' /\ t.env = project /\ t.mod = call.mod
<1>1. Held = SnapshotOf(call.tok) /\ call.tok.env = project /\ call.tok.mod = call.mod
  BY Holding, InProgress DEF InCall
<1> QED
  BY <1>1 DEF Extend, SnapshotOf, NewToken

LEMMA FaithCommit ==
  ASSUME TypeInv, Faith, CommitShallow \/ CommitProvisional
  PROVE  Faith'
<1>1. pc \in {"act", "give"} /\ ~halted
  BY GivingTyped DEF CommitShallow, CommitProvisional, Answered
<1>2. project # None /\ call \in Call /\ pc # "idle"
  BY <1>1, InProgress DEF InCall
<1> DEFINE child(n) == NewToken(call.mod, Append(call.tok.lin, call.act), n)
<1>3. \A n : /\ Extend(Held, call.act) = SnapshotOf(child(n)) /\ child(n).gen = gen'
             /\ child(n).env = project /\ child(n).mod = call.mod
  BY <1>1, ChildHeld
<1>4. CASE CommitShallow
  <2>1. PICK t : /\ t = child(seq + 2) /\ active' = t
                 /\ Return([tok |-> t, accepted |-> TRUE, at |-> content'])
    BY <1>4 DEF CommitShallow
  <2>2. /\ Answered(Extend(Held, call.act)) /\ content' = Extend(Held, call.act)
        /\ UNCHANGED <<projectVars, tclosed, halted, lastRead>>
    BY <1>4 DEF CommitShallow, Answered
  <2>3. t.gen = gen' /\ Extend(Held, call.act) = SnapshotOf(t)
    BY <1>3, <2>1
  <2> HIDE DEF child
  <2> QED
    BY <1>1, <1>2, <2>1, <2>2, <2>3, Registers
<1>5. CASE CommitProvisional
  <2>1. PICK t : /\ t = child(seq + 1) /\ active' = t
                 /\ call' = [call EXCEPT !.tok = t]
    BY <1>5 DEF CommitProvisional
  <2>2. /\ Answered(Extend(Held, call.act)) /\ pc' = "inspect"
        /\ UNCHANGED <<projectVars, tclosed, halted, lastRead, pending, reply>>
    BY <1>5 DEF CommitProvisional
  <2>3. /\ t.gen = gen' /\ Extend(Held, call.act) = SnapshotOf(t)
        /\ t.env = project /\ t.mod = call.mod
    BY <1>3, <2>1
  <2> HIDE DEF child
  <2> QED
    BY <1>1, <1>2, <2>1, <2>2, <2>3, RegistersProvisionally
<1> QED
  BY <1>4, <1>5

LEMMA FaithLoading ==
  ASSUME Quiet, TypeInv, Faith, IsFiniteSet(states),
         LoadFails \/ LoadShallow \/ LoadProvisional
  PROVE  Faith'
<1>1. pc = "open" /\ call \in Call /\ project # None
  BY ConstantsAssumption
     DEF LoadFails, LoadShallow, LoadProvisional, TypeInv, CallOK
<1>2. CASE LoadFails
  <2>1. ~(Cardinality(states) >= MaxStates /\ Answered(RootOf(call.mod)))
    <3>1. Cardinality(states) < MaxStates
      BY <1>1 DEF Faith, Steady
    <3>2. Cardinality(states) \in Nat
      BY FS_CardinalityType
    <3> QED
      BY <3>1, <3>2, ConstantsAssumption
  <2> QED
    BY <2>1, <1>1, <1>2, QuietFaults, Fizzles DEF LoadFails
<1> DEFINE root == NewToken(call.mod, <<>>, seq + 1)
<1>3. ASSUME ~halted
      PROVE  /\ RootOf(call.mod) = SnapshotOf(root) /\ root.gen = gen'
             /\ root.env = project /\ root.mod = call.mod
  BY <1>3 DEF NewToken, RootOf, SnapshotOf, Faith, Known
<1>4. CASE LoadShallow
  <2>1. /\ active' = root /\ content' = RootOf(call.mod) /\ Answered(RootOf(call.mod))
        /\ Return([tok |-> root, accepted |-> TRUE, at |-> content'])
        /\ UNCHANGED <<projectVars, tclosed, halted, lastRead>>
    BY <1>4 DEF LoadShallow, Answered
  <2>2. ~halted
    BY <2>1 DEF Answered
  <2>3. RootOf(call.mod) = SnapshotOf(root) /\ root.gen = gen'
    BY <1>3, <2>2
  <2> HIDE DEF root
  <2> QED
    BY <1>1, <2>1, <2>2, <2>3, Registers
<1>5. CASE LoadProvisional
  <2>1. /\ active' = root /\ Answered(RootOf(call.mod))
        /\ call' = [call EXCEPT !.tok = root] /\ pc' = "inspect"
        /\ UNCHANGED <<projectVars, tclosed, halted, lastRead, pending, reply>>
    BY <1>5 DEF LoadProvisional
  <2>2. ~halted
    BY <2>1 DEF Answered
  <2>3. /\ RootOf(call.mod) = SnapshotOf(root) /\ root.gen = gen'
        /\ root.env = project /\ root.mod = call.mod
    BY <1>3, <2>2
  <2> HIDE DEF root
  <2> QED
    BY <1>1, <2>1, <2>2, <2>3, RegistersProvisionally
<1> QED
  BY <1>2, <1>4, <1>5

LEMMA FaithInspection ==
  ASSUME Quiet, TypeInv, Faith, Inspect \/ InspectFails
  PROVE  Faith'
<1>1. pc = "inspect" /\ project # None /\ gen \in Nat
  BY InProgress DEF Inspect, InspectFails, InCall
<1>2. CASE Inspect
  <2>1. ~halted /\ Answered(Held)
    BY <1>2 DEF Inspect, Answered
  <2>2. Held = SnapshotOf(call.tok) /\ call.tok.env = project /\ call.tok.mod = call.mod
    BY <1>1, <2>1, Holding, InProgress DEF InCall
  <2>3. PICK t : /\ t = NewToken(call.mod, call.tok.lin, seq + 1) /\ active' = t
                 /\ Return([tok |-> t, accepted |-> TRUE, at |-> Held])
                 /\ UNCHANGED <<projectVars, tclosed, halted, lastRead>>
    BY <1>2 DEF Inspect
  <2>4. t.gen = gen' /\ Held = SnapshotOf(t)
    BY <2>2, <2>3 DEF NewToken, SnapshotOf
  <2> QED
    BY <1>1, <2>1, <2>3, <2>4, Registers
<1>3. CASE InspectFails
  <2>1. CASE Fails("denied", Held)
    BY <2>1, <1>1, <1>3, Fizzles DEF InspectFails
  <2>2. CASE UNCHANGED procVars
    <3>1. active' \in {active, None} /\ Raise
          /\ UNCHANGED <<projectVars, tableVars, tclosed, halted, lastRead>>
      BY <1>3 DEF InspectFails
    <3>2. Attested(lastRead)' /\ (active' # None => active'.gen <= gen')
          /\ (tclosed' => ~Live') /\ (project' = None => active' = None)
      BY <2>2, <3>1 DEF Attested, Faith, Steady, Live, projectVars, procVars
    <3>3. Steady' /\ (overlay' = project' /\ MarkerFaithful' => Known')
      BY <3>1, <3>2, Ends, NothingAttested DEF Raise
    <3>4. ASSUME ~halted' PROVE overlay' = project' /\ MarkerFaithful'
      BY <2>2, <3>1, <3>4, <1>1, MarkerKept
         DEF Faith, Known, Failed, projectVars, tableVars
    <3> QED
      BY <3>3, <3>4 DEF Faith
  <2> QED
    BY <2>1, <2>2, <1>3 DEF InspectFails
<1> QED
  BY <1>2, <1>3

(***************************************************************************)
(* The client and the environment.                                         *)
(***************************************************************************)

\* A call begins or the session stays idle: the process is as it was.
LEMMA Untouched ==
  ASSUME TypeInv, Faith, pc = "idle", UNCHANGED procVars,
         UNCHANGED <<project, overlay, states, tclosed>>, halted' = halted \/ halted',
         active' \in {active, None}, UNCHANGED lastRead
  PROVE  /\ Attested(lastRead)' /\ (active' # None => active'.gen <= gen')
         /\ (tclosed' => ~Live') /\ (project' = None => active' = None)
         /\ ~halted' => ~halted /\ overlay' = project' /\ MarkerFaithful'
<1>1. /\ Attested(lastRead)' /\ (active' # None => active'.gen <= gen')
      /\ (tclosed' => ~Live') /\ (project' = None => active' = None)
  BY DEF Attested, Faith, Steady, Live, procVars
<1>2. ASSUME ~halted' PROVE ~halted /\ overlay' = project' /\ MarkerFaithful'
  BY <1>2, MarkerKept DEF Faith, Known, Failed
<1> QED
  BY <1>1, <1>2

LEMMA FaithBegin ==
  ASSUME Quiet, TypeInv, Faith, IsFiniteSet(states),
         \/ \E m \in Modules : BeginLoad(m)
         \/ \E kind \in Kinds, t \in issued, a \in Acts \cup {None} : Begin(kind, t, a)
  PROVE  Faith'
<1>1. ASSUME NEW m \in Modules, BeginLoad(m)
      PROVE  Faith'
  <2>1. /\ Attested(lastRead)' /\ (active' # None => active'.gen <= gen')
        /\ (tclosed' => ~Live') /\ (project' = None => active' = None)
        /\ ~halted /\ ~halted' /\ overlay' = project' /\ MarkerFaithful'
    BY <1>1, Untouched DEF BeginLoad, projectVars, tableVars
  <2>2. Cardinality(states)' < MaxStates /\ pc' = "open" /\ reply' = None /\ pending' = pending
    BY <1>1, QuietFaults DEF BeginLoad, tableVars
  <2>3. Steady'
    BY <2>1, <2>2 DEF Faith, Steady, Attested, InCall
  <2> QED
    BY <2>1, <2>2, <2>3 DEF Faith, Known
<1>2. ASSUME NEW kind \in Kinds, NEW t \in issued, NEW a \in Acts \cup {None},
             Begin(kind, t, a)
      PROVE  Faith'
  <2>1. /\ Attested(lastRead)' /\ (active' # None => active'.gen <= gen')
        /\ (tclosed' => ~Live') /\ (project' = None => active' = None)
        /\ ~halted /\ ~halted' /\ overlay' = project' /\ MarkerFaithful'
    BY <1>2, Untouched DEF Begin, projectVars, tableVars
  <2>2. /\ t \in Token /\ t.env = project /\ Live /\ t.gen = gen /\ gen \in Nat
        /\ Valid(t)
    BY <1>2 DEF Begin, Valid, TypeInv, TypeOK
  <2>3. /\ call' = [kind |-> kind, tok |-> t, mod |-> t.mod, act |-> a]
        /\ pc' = (IF active = t THEN "act" ELSE "load")
        /\ reply' = None /\ UNCHANGED <<pending, project, up, gen, content, active>>
    BY <1>2 DEF Begin, procVars, projectVars
  <2>4. Steady'
    BY <2>1, <2>2, <2>3 DEF Faith, Steady, Attested, InCall, Live
  <2>5. pc' = "act" => content' = SnapshotOf(t)
    <3>1. t # None
      BY <2>2, ConstantsAssumption
    <3>2. active = t => content = SnapshotOf(t)
      BY <2>1, <2>2, <3>1, <1>2 DEF Begin, Faith, Known, MarkerFaithful
    <3> QED
      BY <3>2, <2>3
  <2>6. Known'
    BY <2>1, <2>3, <2>5 DEF Known, SnapshotOf
  <2> QED
    BY <2>4, <2>6 DEF Faith
<1> QED
  BY <1>1, <1>2

LEMMA FaithClient ==
  ASSUME Quiet, TypeInv, Faith, IsFiniteSet(states), ClientStep
  PROVE  Faith'
<1>0. gen \in Nat
  BY DEF TypeInv, TypeOK
<1>1. ASSUME NEW e \in Envs, OpenProject(e)
      PROVE  Faith'
  <2>1. active = None /\ ~(pc \in InCall) /\ pc # "open"
    BY <1>1 DEF OpenProject, Faith, Steady, InCall
  <2>2. active' = None /\ UNCHANGED <<procVars, tableVars, tclosed, halted, lastRead,
                                      pc, call, pos, undo, pending, reply>>
    BY <1>1, <2>1 DEF OpenProject
  <2>3. Steady'
    BY <2>1, <2>2 DEF Faith, Steady, Attested, Live, procVars
  <2>4. Known'
    BY <2>1, <2>2, <1>1, DeadMarker DEF OpenProject, Known, InCall
  <2> QED
    BY <2>3, <2>4 DEF Faith
<1>2. ASSUME NEW e \in Envs, ResetProject(e)
      PROVE  Faith'
  <2>1. /\ Raise /\ active' = None /\ lastRead' = None /\ overlay' = project'
        /\ tclosed' => ~Live'
    BY <1>2 DEF ResetProject, Faith, Steady, Live, Poisoned, procVars
  <2>2. Steady' /\ (overlay' = project' /\ MarkerFaithful' => Known')
    BY <2>1, Ends, NothingAttested DEF Raise, Attested
  <2> QED
    BY <2>1, <2>2, DeadMarker DEF Faith
<1>3. ASSUME NEW e \in Envs, ResetFails(e)
      PROVE  Faith'
  <2>1. /\ Raise /\ UNCHANGED <<active, lastRead, project, gen>> /\ halted' /\ ~Live'
    BY <1>3 DEF ResetFails, Poisoned, Live
  <2>2. Attested(lastRead)' /\ (active' # None => active'.gen <= gen')
        /\ (project' = None => active' = None)
    BY <2>1 DEF Faith, Steady, Attested
  <2>3. Steady'
    BY <2>1, <2>2, Ends, NothingAttested DEF Raise
  <2> QED
    BY <2>1, <2>3 DEF Faith
<1>4. ASSUME NEW m \in Modules, BeginLoad(m)
      PROVE  Faith'
  BY <1>4, FaithBegin
<1>5. ASSUME NEW kind \in Kinds, NEW t \in issued, NEW a \in Acts \cup {None},
             Begin(kind, t, a)
      PROVE  Faith'
  BY <1>5, FaithBegin
<1>6. CASE BeginOnChangedSources
  <2>1. /\ Attested(lastRead)' /\ (active' # None => active'.gen <= gen')
        /\ (tclosed' => ~Live') /\ (project' = None => active' = None)
        /\ ~halted' => ~halted /\ overlay' = project' /\ MarkerFaithful'
    BY <1>6, Untouched DEF BeginOnChangedSources, projectVars, tableVars
  <2>2. Steady' /\ (overlay' = project' /\ MarkerFaithful' => Known')
    BY <1>6, <2>1, Ends, NothingAttested DEF BeginOnChangedSources, Raise
  <2> QED
    BY <2>1, <2>2 DEF Faith
<1>7. CASE BeginHalted
  <2>1. /\ Raise /\ halted' /\ active' \in {active, None} /\ gen' = gen
        /\ UNCHANGED <<project, lastRead, tclosed>> /\ (up' = up \/ ~Live')
    BY <1>7 DEF BeginHalted, Poisoned, Live, procVars, projectVars
  <2>2. Attested(lastRead)' /\ (active' # None => active'.gen <= gen')
        /\ (tclosed' => ~Live') /\ (project' = None => active' = None)
    BY <2>1 DEF Faith, Steady, Attested, Live
  <2>3. Steady'
    BY <2>1, <2>2, Ends, NothingAttested DEF Raise
  <2> QED
    BY <2>1, <2>3 DEF Faith
<1>8. CASE Close
  BY <1>0, <1>8, Dies DEF Close, CloseTransport, Poisoned, Live
<1> QED
  BY <1>1, <1>2, <1>3, <1>4, <1>5, <1>6, <1>7, <1>8 DEF ClientStep

LEMMA FaithEnvironment ==
  ASSUME Quiet, TypeInv, Faith, EnvironmentStep \/ UNCHANGED vars
  PROVE  Faith'
<1>1. CASE Cancel \/ DeadlinePasses
  <2>1. /\ halted' /\ active' \in {active, None}
        /\ UNCHANGED <<project, up, gen, states, tclosed, lastRead, pc, call, pending, reply>>
    BY <1>1 DEF Cancel, DeadlinePasses, projectVars, procVars, tableVars
  <2> QED
    BY <2>1 DEF Faith, Steady, Attested, Live
<1>2. CASE ProcessExits
  <2>1. pc = "idle" /\ ~Live'
    BY <1>2, QuietFaults DEF ProcessExits, Live
  <2>2. UNCHANGED <<project, overlay, gen, halted, states, tclosed, active, lastRead, pc,
                    call, pending, reply>>
    BY <1>2 DEF ProcessExits, projectVars, tableVars
  <2>3. Steady'
    BY <2>1, <2>2 DEF Faith, Steady, Attested, InCall
  <2>4. ~halted' => Known'
    BY <2>1, <2>2, DeadMarker DEF Faith, Known
  <2> QED
    BY <2>3, <2>4 DEF Faith
<1>3. CASE UNCHANGED vars \/ \E e \in Envs : SourcesEdited(e)
  <2>1. UNCHANGED <<project, overlay, up, gen, content, halted, states, tclosed, active,
                    lastRead, pc, call, pos, pending, reply>>
    BY <1>3 DEF SourcesEdited, vars, procVars, tableVars
  <2>2. Steady'
    BY <2>1 DEF Faith, Steady, Attested, Live
  <2>3. ~halted' => Known'
    BY <2>1 DEF Faith, Known, Replayed, MarkerFaithful, SnapshotOf, Valid, Live
  <2> QED
    BY <2>2, <2>3 DEF Faith
<1> QED
  BY <1>1, <1>2, <1>3 DEF EnvironmentStep

-----------------------------------------------------------------------------

LEMMA FaithInit == Init => FaithInv
<1> SUFFICES ASSUME Init PROVE FaithInv
  OBVIOUS
<1>1. IsFiniteSet(states)
  BY FS_EmptySet DEF Init
<1>2. Steady
  BY DEF Init, Steady, Attested, Live, InCall
<1>3. Known
  BY DEF Init, Known, MarkerFaithful
<1> QED
  BY <1>1, <1>2, <1>3, TypeInit DEF FaithInv, Faith

\* At most one state is registered in a step.
LEMMA FinitelyManyStates ==
  ASSUME TypeInv, IsFiniteSet(states), [Next]_vars
  PROVE  IsFiniteSet(states)'
<1>1. CASE Forgets
  BY <1>1, FS_Subset DEF Forgets
<1>2. ASSUME NEW t, Issues(t) PROVE IsFiniteSet(states)'
  BY <1>2, FS_AddElement, FS_Subset DEF Issues
<1> QED
  BY <1>1, <1>2, EveryStep DEF TokenStep

LEMMA FaithStep ==
  ASSUME Quiet, FaithInv, [Next]_vars
  PROVE  FaithInv'
<1>1. TypeInv /\ Faith /\ IsFiniteSet(states)
  BY DEF FaithInv
<1>2. TypeInv' /\ IsFiniteSet(states)'
  BY <1>1, TypeStep, FinitelyManyStates
<1>3. Faith'
  BY <1>1, FaithReload, FaithReplay, FaithActivationFails, FaithReading, FaithGiving1,
     FaithGiving2, FaithCommit, FaithLoading, FaithInspection, FaithClient,
     FaithEnvironment DEF Next, CallStep
<1> QED
  BY <1>2, <1>3 DEF FaithInv

(***************************************************************************)
(* What _try_action, the observations and the cached reads promise holds   *)
(* of every session in which none of the failures of Leaks happens, for    *)
(* every set of projects, modules and actions: a verdict about a token was *)
(* computed while Agda held exactly the token's source revision and        *)
(* lineage.                                                                *)
(***************************************************************************)
THEOREM QuietVerdictsFaithful == Quiet => (Spec => []VerdictsFaithful)
<1> SUFFICES ASSUME Quiet PROVE Spec => []VerdictsFaithful
  OBVIOUS
<1>1. Init => FaithInv
  BY FaithInit
<1>2. FaithInv /\ [Next]_vars => FaithInv'
  BY FaithStep
<1>3. FaithInv => VerdictsFaithful
  BY DEF FaithInv, Faith, Steady, Attested, VerdictsFaithful
<1> QED
  BY <1>1, <1>2, <1>3, PTL DEF Spec

(***************************************************************************)
(* And whenever _activate skips the reload because _active_state names the *)
(* requested token, the live process holds that token's state.             *)
(***************************************************************************)
THEOREM QuietMarkerFaithful == Quiet => (Spec => []MarkerFaithful)
<1> SUFFICES ASSUME Quiet PROVE Spec => []MarkerFaithful
  OBVIOUS
<1>1. Init => FaithInv
  BY FaithInit
<1>2. FaithInv /\ [Next]_vars => FaithInv'
  BY FaithStep
<1>3. FaithInv => MarkerFaithful
  BY DEF FaithInv, Faith, Known, MarkerFaithful
<1> QED
  BY <1>1, <1>2, <1>3, PTL DEF Spec

-----------------------------------------------------------------------------
(***************************************************************************)
(* The rollback of a preview, whatever faults happen: it ends in the state *)
(* of the parent or with the session closed.  What that rests on is less   *)
(* than Faith: neither the marker nor the process of a faulty session can  *)
(* be trusted, but a replay that still has a live process has the lineage  *)
(* so far, and a call works on the project it began with.                  *)
(***************************************************************************)
CallInv ==
  /\ pc # "idle" \/ ~halted => overlay = project
  /\ undo => pc \in {"load", "replay"}
  /\ pc \in InCall => call.tok.env = project /\ call.tok.mod = call.mod
  /\ pc = "replay" /\ Live => Replayed

RollbackInv == TypeInv /\ CallInv

\* The end of a call leaves nothing of it behind.
LEMMA CallEnds ==
  ASSUME CallInv, NEW r, Return(r), UNCHANGED <<projectVars, halted>>
  PROVE  CallInv'
BY DEF CallInv, Return, projectVars, InCall

LEMMA CallsEnd ==
  ASSUME CallInv,
         \/ ActivationRejected \/ ReloadFails \/ ReplayFails \/ RollbackFails
         \/ Read \/ CachedRead \/ ReadFails
         \/ LimitReached \/ CommitShallow \/ RejectedInPlace \/ GiveFails \/ AutoOne
         \/ LoadFails \/ LoadShallow \/ Inspect \/ InspectFails
         \/ BeginOnChangedSources \/ BeginHalted \/ Close
  PROVE  CallInv'
<1>1. UNCHANGED <<projectVars, halted>>
  BY DEF ActivationRejected, ReloadFails, ReplayFails, RollbackFails, Read, CachedRead,
         ReadFails, LimitReached, CommitShallow, RejectedInPlace, GiveFails, AutoOne,
         LoadFails, LoadShallow, Inspect, InspectFails, BeginOnChangedSources,
         BeginHalted, Close, projectVars
<1>2. PICK r : Return(r)
  BY DEF ActivationRejected, ReloadFails, ReplayFails, RollbackFails, CloseAndForget,
         Read, CachedRead,
         ReadFails, LimitReached, CommitShallow, RejectedInPlace, GiveFails, AutoOne,
         LoadFails, LoadShallow, Inspect, InspectFails, BeginOnChangedSources,
         BeginHalted, Close, Raise
<1> QED
  BY <1>1, <1>2, CallEnds

(***************************************************************************)
(* _activate: a reload or a replayed action that completes the activation  *)
(* has put Agda in the state of the token; an earlier one has replayed the *)
(* lineage up to the next action.                                          *)
(***************************************************************************)
LEMMA ReloadReaches ==
  ASSUME RollbackInv, Reload
  PROVE  /\ call.tok.lin = <<>> => content' = SnapshotOf(call.tok)
         /\ call.tok.lin # <<>> => CallInv'
<1>1. /\ call.tok.env = project /\ call.tok.mod = call.mod /\ overlay = project
      /\ project \in Envs /\ call.mod \in Modules
  BY DEF RollbackInv, CallInv, TypeInv, CallOK, Reload, InCall, Call
<1>2. content' = RootOf(call.mod) /\ UNCHANGED <<project, overlay, halted>>
  BY DEF Reload, Answered, projectVars
<1>3. CASE call.tok.lin = <<>>
  BY <1>1, <1>2, <1>3 DEF RootOf, SnapshotOf
<1>4. CASE call.tok.lin # <<>>
  <2>1. pc' = "replay" /\ pos' = 1 /\ UNCHANGED <<call, undo>>
    BY <1>4 DEF Reload
  <2>2. content' \in Snapshot /\ content'.lin = <<>>
    BY <1>1, <1>2 DEF RootOf, Snapshot
  <2>3. content'.env = project /\ content'.mod = call.mod
    BY <1>1, <1>2 DEF RootOf
  <2>4. Replayed'
    BY <2>1, <2>2, <2>3, <1>2 DEF Replayed
  <2> QED
    BY <1>1, <1>2, <1>4, <2>1, <2>4 DEF CallInv, InCall
<1> QED
  BY <1>3, <1>4

LEMMA ReplayReaches ==
  ASSUME RollbackInv, Replay
  PROVE  /\ pos = Len(call.tok.lin) => content' = SnapshotOf(call.tok)
         /\ pos # Len(call.tok.lin) => CallInv'
<1>1. /\ call.tok.env = project /\ call.tok.mod = call.mod /\ overlay = project
      /\ call.tok \in Token /\ call.tok.lin \in Seq(Acts)
  BY DEF RollbackInv, CallInv, TypeInv, CallOK, Replay, InCall, Token
<1>2. Live /\ Held = content
  BY DEF Replay, Serves, Held
<1>3. Replayed
  BY <1>2 DEF RollbackInv, CallInv, Replay
<1>4. pos \in 1..Len(call.tok.lin) /\ call.tok.lin[pos] \in Acts
  BY <1>1 DEF RollbackInv, TypeInv, CallOK, Replay
<1> DEFINE next == Extend(content, call.tok.lin[pos])
<1>5. /\ next \in Snapshot /\ next.env = project /\ next.mod = call.mod
      /\ Len(next.lin) = pos
      /\ \A i \in 1..pos : next.lin[i] = call.tok.lin[i]
  <2>1. content.lin \in Seq(Acts \cup {Residue}) /\ Len(content.lin) = pos - 1
    BY <1>3 DEF Replayed, Snapshot
  <2>2. next = [content EXCEPT !.lin = Append(content.lin, call.tok.lin[pos])]
    BY DEF Extend
  <2>3. /\ Append(content.lin, call.tok.lin[pos]) \in Seq(Acts \cup {Residue})
        /\ Len(Append(content.lin, call.tok.lin[pos])) = pos
        /\ \A i \in 1..pos : Append(content.lin, call.tok.lin[pos])[i] = call.tok.lin[i]
    BY <2>1, <1>3, <1>4 DEF Replayed
  <2> QED
    BY <2>2, <2>3, <1>3 DEF Replayed, Snapshot
<1>6. content' = next /\ UNCHANGED <<project, overlay, halted>>
  BY <1>2 DEF Replay, Answered, projectVars
<1> HIDE DEF next
<1>7. CASE pos = Len(call.tok.lin)
  <2>1. next.lin \in Seq(Acts \cup {Residue}) /\ call.tok.lin \in Seq(Acts \cup {Residue})
    BY <1>1, <1>5 DEF Snapshot
  <2>2. next.lin = call.tok.lin
    BY <2>1, <1>5, <1>7, SeqEqual
  <2> QED
    BY <2>2, <1>1, <1>5, <1>6, <1>7 DEF SnapshotOf, Snapshot
<1>8. CASE pos # Len(call.tok.lin)
  <2>1. pc' = pc /\ pos' = pos + 1 /\ UNCHANGED <<call, undo>>
    BY <1>8 DEF Replay
  <2>2. Replayed'
    BY <1>4, <1>5, <1>6, <2>1 DEF Replayed
  <2> QED
    BY <1>6, <1>8, <2>1, <2>2 DEF RollbackInv, CallInv, Replay, InCall
<1> QED
  BY <1>7, <1>8

\* Both keep the invariant: the activation continues, the call goes on to its
\* command, or the rollback ends.
LEMMA CallActivation ==
  ASSUME RollbackInv, Reload \/ Replay
  PROVE  CallInv'
<1>1. CASE ~Activated
  BY <1>1, ReloadReaches, ReplayReaches DEF Reload, Replay
<1>2. CASE Activated /\ undo
  BY <1>2, CallEnds DEF Activated, Reload, Replay, RollbackInv, projectVars
<1>3. CASE Activated /\ ~undo
  <2>1. pc' = "act" /\ UNCHANGED <<call, undo>>
    BY <1>3 DEF Activated, Goto
  <2>2. /\ call.tok.env = project /\ call.tok.mod = call.mod /\ overlay = project
        /\ UNCHANGED <<project, overlay>>
    BY DEF RollbackInv, CallInv, Reload, Replay, InCall, projectVars
  <2> QED
    BY <1>3, <2>1, <2>2 DEF CallInv
<1> QED
  BY <1>1, <1>2, <1>3

(***************************************************************************)
(* The other steps of a call.                                              *)
(***************************************************************************)
LEMMA CallGoesOn ==
  ASSUME RollbackInv,
         CheckThenGive \/ PreviewAccepted \/ GiveRejected
  PROVE  CallInv'
<1>1. /\ pc \in {"act", "give"} /\ ~undo
      /\ call.tok.env = project /\ call.tok.mod = call.mod /\ overlay = project
      /\ UNCHANGED <<project, overlay, halted>>
  BY DEF RollbackInv, CallInv, CheckThenGive, PreviewAccepted, GiveRejected, Giving,
         InCall, projectVars
<1>2. CASE PreviewAccepted \/ GiveRejected
  <2>1. pc' = "load" /\ call' = call
    BY <1>2 DEF PreviewAccepted, GiveRejected, Rollback
  <2> QED
    BY <1>1, <2>1 DEF CallInv
<1>3. CASE CheckThenGive
  <2>1. (\E r : Return(r)) \/ Goto("give")
    BY <1>3 DEF CheckThenGive
  <2>2. CASE Goto("give")
    BY <1>1, <2>2 DEF Goto, CallInv
  <2> QED
    BY <1>3, <2>1, <2>2, CallEnds DEF RollbackInv, CheckThenGive
<1> QED
  BY <1>2, <1>3

LEMMA CallRegisters ==
  ASSUME RollbackInv, CommitProvisional \/ LoadProvisional
  PROVE  CallInv'
<1>1. /\ pc # "idle" /\ pc \notin {"load", "replay"} /\ call \in Call
  BY DEF RollbackInv, TypeInv, CallOK, CommitProvisional, LoadProvisional, Giving
<1>2. overlay = project /\ ~undo
  BY <1>1 DEF RollbackInv, CallInv
<1>3. PICK lin, n : call' = [call EXCEPT !.tok = NewToken(call.mod, lin, n)]
  BY DEF CommitProvisional, LoadProvisional
<1>4. /\ pc' = "inspect" /\ undo' = undo
      /\ UNCHANGED <<project, overlay, halted>>
  BY DEF CommitProvisional, LoadProvisional, projectVars
<1>5. call'.mod = call.mod /\ call'.tok = NewToken(call.mod, lin, n)
  BY <1>1, <1>3 DEF Call
<1>6. call'.tok.env = project /\ call'.tok.mod = call'.mod
  BY <1>5 DEF NewToken
<1> QED
  BY <1>2, <1>4, <1>6 DEF CallInv

LEMMA CallBegins ==
  ASSUME RollbackInv,
         NEW kind \in Kinds, NEW t \in issued, NEW a \in Acts \cup {None},
         Begin(kind, t, a)
  PROVE  CallInv'
<1>1. /\ overlay = project /\ ~undo /\ t.env = project
      /\ UNCHANGED <<project, overlay, halted, undo>>
      /\ pc' \in {"load", "act"}
  BY DEF RollbackInv, CallInv, Begin, Valid, projectVars
<1>2. call' = [kind |-> kind, tok |-> t, mod |-> t.mod, act |-> a]
  BY DEF Begin
<1>3. call'.tok = t /\ call'.mod = t.mod
  BY <1>2
<1> QED
  BY <1>1, <1>3 DEF CallInv

LEMMA CallClient ==
  ASSUME RollbackInv, ClientStep
  PROVE  CallInv'
<1>1. ASSUME NEW e \in Envs, OpenProject(e) \/ ResetProject(e)
      PROVE  CallInv'
  BY <1>1 DEF OpenProject, ResetProject, Raise, Return, RollbackInv, CallInv, InCall
<1>2. ASSUME NEW e \in Envs, ResetFails(e)
      PROVE  CallInv'
  BY <1>2 DEF ResetFails, Raise, Return, CallInv, InCall
<1>3. ASSUME NEW m \in Modules, BeginLoad(m)
      PROVE  CallInv'
  BY <1>3 DEF BeginLoad, RollbackInv, CallInv, InCall, projectVars
<1>4. CASE BeginOnChangedSources \/ BeginHalted \/ Close
  BY <1>4, CallsEnd DEF RollbackInv
<1> QED
  BY <1>1, <1>2, <1>3, <1>4, CallBegins DEF ClientStep

LEMMA CallEnvironment ==
  ASSUME RollbackInv, EnvironmentStep \/ UNCHANGED vars
  PROVE  CallInv'
<1>1. CASE ProcessExits
  <2>1. ~Live' /\ UNCHANGED <<project, overlay, halted, pc, call, undo>>
    BY <1>1 DEF ProcessExits, Live, projectVars
  <2> QED
    BY <2>1 DEF RollbackInv, CallInv
<1>2. CASE Cancel \/ DeadlinePasses \/ (\E e \in Envs : SourcesEdited(e)) \/ UNCHANGED vars
  <2>1. /\ UNCHANGED <<project, overlay, up, content, pc, call, pos, undo>>
        /\ ~halted' => ~halted
    BY <1>2 DEF Cancel, DeadlinePasses, SourcesEdited, vars, projectVars, procVars
  <2> QED
    BY <2>1 DEF RollbackInv, CallInv, Replayed, Live
<1> QED
  BY <1>1, <1>2 DEF EnvironmentStep

LEMMA RollbackStep ==
  ASSUME RollbackInv, [Next]_vars
  PROVE  RollbackInv'
<1>1. TypeInv'
  BY TypeStep DEF RollbackInv
<1>2. CallInv'
  <2>1. CASE CallStep
    BY <2>1, CallsEnd, CallActivation, CallGoesOn, CallRegisters
       DEF CallStep, RollbackInv
  <2> QED
    BY <2>1, CallClient, CallEnvironment DEF Next
<1> QED
  BY <1>1, <1>2 DEF RollbackInv

\* The steps that end a rollback: the one that reaches the parent, and the
\* ones that close the transport.
LEMMA RollbackEnds ==
  ASSUME RollbackInv, [Next]_vars, undo, pc # "idle", pc' = "idle"
  PROVE  \/ active' = call.tok /\ content' = SnapshotOf(call.tok)
         \/ tclosed' /\ \A t \in issued : ~Valid(t)'
<1>1. pc \in {"load", "replay"}
  BY DEF RollbackInv, CallInv
<1>2. CASE Reload \/ Replay
  <2>1. Activated /\ content' = SnapshotOf(call.tok)
    <3>1. CASE Reload
      BY <3>1, ReloadReaches DEF Reload
    <3>2. CASE Replay
      BY <3>2, ReplayReaches DEF Replay
    <3> QED
      BY <1>2, <3>1, <3>2
  <2> QED
    BY <2>1 DEF Activated
<1>3. CASE ActivationRejected \/ RollbackFails
  <2>1. CloseTransport
    BY <1>3 DEF ActivationRejected, RollbackFails, CloseAndForget
  <2> QED
    BY <2>1 DEF CloseTransport, Poisoned, Valid, Live
<1>4. Reload \/ Replay \/ ActivationRejected \/ RollbackFails
  <2>1. ~(ReloadFails \/ ReplayFails)
    BY DEF ReloadFails, ReplayFails
  <2>2. ~(Read \/ CachedRead \/ ReadFails \/ LimitReached \/ CheckThenGive
           \/ LoadFails \/ LoadShallow \/ LoadProvisional \/ Inspect \/ InspectFails
           \/ AutoOne)
    BY <1>1 DEF Read, CachedRead, ReadFails, LimitReached, CheckThenGive, LoadFails,
                LoadShallow, LoadProvisional, Inspect, InspectFails, AutoOne
  <2>3. ~(PreviewAccepted \/ CommitShallow \/ CommitProvisional \/ GiveRejected
           \/ RejectedInPlace \/ GiveFails)
    BY <1>1 DEF PreviewAccepted, CommitShallow, CommitProvisional, GiveRejected,
                RejectedInPlace, GiveFails, Giving
  <2>4. ~ClientStep
    BY DEF ClientStep, OpenProject, ResetProject, ResetFails, BeginLoad, Begin,
           BeginOnChangedSources, BeginHalted, Close
  <2>5. ~EnvironmentStep /\ ~UNCHANGED vars
    BY DEF EnvironmentStep, Cancel, DeadlinePasses, ProcessExits, SourcesEdited, vars
  <2> QED
    BY <2>1, <2>2, <2>3, <2>4, <2>5 DEF Next, CallStep
<1> QED
  BY <1>2, <1>3, <1>4

(***************************************************************************)
(* _rollback_to keeps its promise under every fault: when the activation   *)
(* it started is over, Agda holds the parent again, or the transport is    *)
(* closed and no token of the session is accepted any more.                *)
(***************************************************************************)
THEOREM RollbacksEndWell == Spec => RollbackRestoresOrPoisons
<1>1. Init => RollbackInv
  <2> SUFFICES ASSUME Init PROVE RollbackInv
    OBVIOUS
  <2>1. CallInv
    BY DEF Init, CallInv, InCall
  <2> QED
    BY <2>1, TypeInit DEF RollbackInv
<1>2. RollbackInv /\ [Next]_vars => RollbackInv'
  BY RollbackStep
<1>3. RollbackInv /\ [Next]_vars
        => [undo /\ pc # "idle" /\ pc' = "idle"
              => \/ active' = call.tok /\ content' = SnapshotOf(call.tok)
                 \/ tclosed' /\ \A t \in issued : ~Valid(t)']_vars
  BY RollbackEnds
<1> QED
  BY <1>1, <1>2, <1>3, PTL DEF Spec, RollbackRestoresOrPoisons

=============================================================================
