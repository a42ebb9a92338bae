---------------------------- MODULE ShopFrontProofs ----------------------------
(***************************************************************************)
(* Theorems about what customers and staff meet, for any number of runs,     *)
(* accounts, orders, rows and calls: workflow runs, logins and roles, guest  *)
(* orders, the address book, the cart, the catalogue and notices.            *)
(***************************************************************************)
EXTENDS WorkflowEngine, Accounts, StoreAccount, AddressBook, StoreCatalog, Notifications, Totals,
        SequenceTheorems

-----------------------------------------------------------------------------
(* What a call looks like at each place, and what its key is.                *)
LEMMA CallShape ==
  ASSUME WorkflowAssumption, TypeOK, NEW c \in Caller
  PROVE  /\ call[c].at \in {"create", "resume"} =>
              call[c].event \in Event /\ KeyOfCall(c) \in Key
         /\ call[c].at \in RunningAt =>
              /\ call[c] \in [at : RunningAt, event : Event, completed : SUBSET Rule]
              /\ KeyOfCall(c) \in Key
              /\ Matches[call[c].event] \subseteq Rule
BY DEF TypeOK, Call, Idle, RunningAt, KeyOfCall, WorkflowAssumption

(* A run that proceeds stays well typed, and no other call is touched.       *)
LEMMA ProceedKeepsType ==
  ASSUME TypeOK, NEW c \in Caller, call[c].event \in Event, NEW at \in RunningAt,
         NEW completed \in SUBSET Rule, Proceed(c, at, completed)
  PROVE  /\ call' \in [Caller -> Call]
         /\ call'[c] = [at |-> at, event |-> call[c].event, completed |-> completed]
         /\ KeyOfCall(c)' = KeyOfCall(c)
         /\ \A d \in Caller : d # c => call'[d] = call[d]
<1> DEFINE next == [at |-> at, event |-> call[c].event, completed |-> completed]
<1>1. next \in [at : RunningAt, event : Event, completed : SUBSET Rule]
  OBVIOUS
<1>2. next \in Call
  BY <1>1 DEF Call
<1> QED
  BY <1>2 DEF Proceed, TypeOK, KeyOfCall

(* A committed action is counted.                                            *)
LEMMA CommitKeepsType ==
  ASSUME TypeOK, NEW k \in Key, NEW r \in Rule, Commit(k, r)
  PROVE  done' \in [Key -> [Rule -> Nat]]
<1>1. [done[k] EXCEPT ![r] = @ + 1] \in [Rule -> Nat]
  BY DEF TypeOK
<1> QED
  BY <1>1 DEF TypeOK, Commit

(* The bound on runs is kept by its guard.                                   *)
LEMMA StartKeepsType ==
  ASSUME WorkflowAssumption, TypeOK, NEW k \in Key, Start(k)
  PROVE  starts' \in [Key -> 0..MaxStarts]
<1>1. starts[k] + 1 \in 0..MaxStarts
  BY DEF WorkflowAssumption, TypeOK, Start
<1> QED
  BY <1>1 DEF TypeOK, Start

(* Statuses, checkpoints and counters keep their types.                      *)
THEOREM EngineTypeCorrect == Spec => []TypeOK
<1>1. Init => TypeOK
  <2> SUFFICES ASSUME Init PROVE TypeOK
    OBVIOUS
  <2>1. 0 \in 0..MaxStarts
    BY WorkflowAssumption
  <2> QED
    BY <2>1 DEF Init, TypeOK, Status, Call
<1>2. TypeOK /\ [Next]_vars => TypeOK'
  <2> SUFFICES ASSUME TypeOK, [Next]_vars PROVE TypeOK'
    OBVIOUS
  <2> USE DEF TypeOK
  <2>1. ASSUME NEW c \in Caller, NEW e \in Event, FindExecution(c, e) PROVE TypeOK'
    <3>1. /\ [at |-> "create", event |-> e] \in Call
          /\ [at |-> "resume", event |-> e] \in Call
      BY DEF Call
    <3> QED
      BY <2>1, <3>1 DEF FindExecution, History
  <2>2. ASSUME NEW c \in Caller, NEW r \in Rule, ExecuteAction(c, r) PROVE TypeOK'
    <3>1. /\ call[c] \in [at : RunningAt, event : Event, completed : SUBSET Rule]
          /\ KeyOfCall(c) \in Key
      BY <2>2, CallShape, WorkflowAssumption DEF ExecuteAction, RunningAt
    <3>2. call' \in [Caller -> Call]
      <4>1. call[c].completed \cup {r} \in SUBSET Rule /\ "checkpoint" \in RunningAt
        BY <3>1 DEF RunningAt
      <4>2. Proceed(c, "checkpoint", call[c].completed \cup {r})
        BY <2>2 DEF ExecuteAction
      <4> HIDE DEF TypeOK
      <4> QED
        BY <3>1, <4>1, <4>2, ProceedKeepsType
    <3>3. done' \in [Key -> [Rule -> Nat]]
      BY <2>2, <3>1, CommitKeepsType DEF ExecuteAction
    <3> QED
      BY <2>2, <3>2, <3>3 DEF ExecuteAction
  <2>3. ASSUME NEW c \in Caller, NEW r \in Rule, ActionThrowsAfterCommit(c, r) PROVE TypeOK'
    <3>1. /\ call[c] \in [at : RunningAt, event : Event, completed : SUBSET Rule]
          /\ KeyOfCall(c) \in Key
      BY <2>3, CallShape, WorkflowAssumption DEF ActionThrowsAfterCommit, RunningAt
    <3>2. call' \in [Caller -> Call]
      BY <2>3, <3>1, ProceedKeepsType DEF ActionThrowsAfterCommit, RunningAt
    <3>3. done' \in [Key -> [Rule -> Nat]]
      BY <2>3, <3>1, CommitKeepsType DEF ActionThrowsAfterCommit
    <3>4. uncertain' \in [Key -> [Rule -> Nat]]
      <4>1. [uncertain[KeyOfCall(c)] EXCEPT ![r] = @ + 1] \in [Rule -> Nat]
        BY <3>1
      <4> QED
        BY <2>3, <3>1, <4>1 DEF ActionThrowsAfterCommit
    <3> QED
      BY <2>3, <3>2, <3>3, <3>4 DEF ActionThrowsAfterCommit
  <2>4. ASSUME NEW c \in Caller, CreateExecution(c) PROVE TypeOK'
    <3>1. call[c].event \in Event /\ KeyOfCall(c) \in Key
      BY <2>4, CallShape, WorkflowAssumption DEF CreateExecution
    <3>2. CASE execution[KeyOfCall(c)].status = "NONE"
      <4>1. call' \in [Caller -> Call]
        <5>1. Proceed(c, "run", {}) /\ "run" \in RunningAt /\ {} \in SUBSET Rule
          BY <2>4, <3>2 DEF CreateExecution, RunningAt
        <5> HIDE DEF TypeOK
        <5> QED
          BY <3>1, <5>1, ProceedKeepsType
      <4>2. starts' \in [Key -> 0..MaxStarts]
        BY <2>4, <3>1, <3>2, StartKeepsType, WorkflowAssumption DEF CreateExecution
      <4>3. execution' \in [Key -> [status : Status, completed : SUBSET Rule]]
        <5>1. [status |-> "RUNNING", completed |-> {}]
                \in [status : Status, completed : SUBSET Rule]
          BY DEF Status
        <5> QED
          BY <2>4, <3>1, <3>2, <5>1 DEF CreateExecution
      <4> QED
        BY <2>4, <4>1, <4>2, <4>3 DEF CreateExecution
    <3>3. CASE execution[KeyOfCall(c)].status # "NONE"
      BY <2>4, <3>3 DEF CreateExecution, Call
    <3> QED
      BY <3>2, <3>3
  <2>5. ASSUME NEW c \in Caller, ResumeExecution(c) PROVE TypeOK'
    <3>1. call[c].event \in Event /\ KeyOfCall(c) \in Key
      BY <2>5, CallShape, WorkflowAssumption DEF ResumeExecution
    <3>2. call' \in [Caller -> Call]
      BY <2>5, <3>1, ProceedKeepsType DEF ResumeExecution, RunningAt
    <3>3. starts' \in [Key -> 0..MaxStarts]
      BY <2>5, <3>1, StartKeepsType, WorkflowAssumption DEF ResumeExecution
    <3>4. execution' \in [Key -> [status : Status, completed : SUBSET Rule]]
      BY <2>5, <3>1 DEF ResumeExecution, Status
    <3>5. overtaken' \subseteq Key
      BY <2>5, <3>1 DEF ResumeExecution
    <3> QED
      BY <2>5, <3>2, <3>3, <3>4, <3>5 DEF ResumeExecution
  <2>6. ASSUME NEW c \in Caller, StepThrows(c) PROVE TypeOK'
    <3>1. call[c] \in [at : RunningAt, event : Event, completed : SUBSET Rule]
      BY <2>6, CallShape, WorkflowAssumption DEF StepThrows, RunningAt
    <3> QED
      BY <2>6, <3>1, ProceedKeepsType DEF StepThrows, History, RunningAt
  <2>7. ASSUME NEW c \in Caller, Checkpoint(c) PROVE TypeOK'
    <3>1. /\ call[c] \in [at : RunningAt, event : Event, completed : SUBSET Rule]
          /\ KeyOfCall(c) \in Key
      BY <2>7, CallShape, WorkflowAssumption DEF Checkpoint, RunningAt
    <3> QED
      <4>1. call' \in [Caller -> Call]
        <5>1. Proceed(c, "run", call[c].completed) /\ "run" \in RunningAt
          BY <2>7 DEF Checkpoint, RunningAt
        <5> HIDE DEF TypeOK
        <5> QED
          BY <3>1, <5>1, ProceedKeepsType
      <4> QED
        BY <2>7, <3>1, <4>1 DEF Checkpoint, History
  <2>8. ASSUME NEW c \in Caller, MarkSuccess(c) PROVE TypeOK'
    BY <2>8 DEF MarkSuccess, History, Call, Status
  <2>9. ASSUME NEW c \in Caller, MarkFailed(c) PROVE TypeOK'
    <3>1. call[c].completed \in SUBSET Rule
      BY <2>9, CallShape, WorkflowAssumption DEF MarkFailed, RunningAt
    <3> QED
      BY <2>9, <3>1 DEF MarkFailed, History, Call, Status
  <2>10. ASSUME NEW c \in Caller, Crash(c) PROVE TypeOK'
    BY <2>10 DEF Crash, Call
  <2>11. CASE UNCHANGED vars
    BY <2>11 DEF vars
  <2> QED
    BY <2>1, <2>2, <2>3, <2>4, <2>5, <2>6, <2>7, <2>8, <2>9, <2>10, <2>11 DEF Next
<1> QED
  BY <1>1, <1>2, PTL DEF Spec

-----------------------------------------------------------------------------
(* Nobody's copy of a checkpoint, and no row's, names a rule whose action    *)
(* was not committed.                                                        *)
Truthful ==
  /\ \A c \in Caller : call[c].at \in RunningAt =>
       \A r \in call[c].completed : done[KeyOfCall(c)][r] > 0
  /\ \A k \in Key : \A r \in execution[k].completed : done[k][r] > 0

\* What a step needs and leaves of the results.
TruthInv == TypeOK /\ Truthful /\ SuccessIsComplete

(* Counters only grow, so what was true of them stays true.                  *)
LEMMA CommitGrows ==
  ASSUME WorkflowAssumption, TypeOK, NEW k \in Key, NEW r \in Rule, Commit(k, r)
  PROVE  /\ \A x \in Key, q \in Rule : done[x][q] > 0 => done'[x][q] > 0
         /\ done'[k][r] > 0
BY DEF Commit, TypeOK

(* A step that writes no row and only lets done grow keeps TruthInv if the   *)
(* copies stay truthful.                                                     *)
LEMMA TruthOfRows ==
  ASSUME WorkflowAssumption, TruthInv, execution' = execution,
         \A x \in Key, q \in Rule : done[x][q] > 0 => done'[x][q] > 0
  PROVE  /\ \A k \in Key : \A r \in execution'[k].completed : done'[k][r] > 0
         /\ SuccessIsComplete'
<1>1. \A k \in Key : execution[k].completed \subseteq Rule
  BY DEF TruthInv, TypeOK
<1>2. \A e \in Event : Matches[e] \subseteq Rule
  BY DEF WorkflowAssumption
<1> QED
  BY <1>1, <1>2 DEF TruthInv, Truthful, SuccessIsComplete

(* Every step keeps the checkpoints truthful.                                *)
THEOREM TruthInvariant == Spec => []TruthInv
<1>1. Init => TruthInv
  <2> SUFFICES ASSUME Init PROVE TruthInv
    OBVIOUS
  <2>1. TypeOK
    BY WorkflowAssumption DEF Init, TypeOK, Status, Call
  <2> QED
    BY <2>1 DEF Init, TruthInv, Truthful, SuccessIsComplete, Idle, RunningAt
<1>2. TruthInv /\ TypeOK' /\ [Next]_vars => TruthInv'
  <2> SUFFICES ASSUME TruthInv, TypeOK', [Next]_vars PROVE TruthInv'
    OBVIOUS
  <2> USE DEF TruthInv
  <2>1. ASSUME NEW c \in Caller, NEW e \in Event, FindExecution(c, e) PROVE TruthInv'
    <3>1. \A d \in Caller : call'[d].at \in RunningAt => call'[d] = call[d]
      BY <2>1 DEF FindExecution, TypeOK, RunningAt
    <3> QED
      BY <2>1, <3>1 DEF FindExecution, History, Truthful, SuccessIsComplete, KeyOfCall
  <2>2. ASSUME NEW c \in Caller, NEW r \in Rule, ExecuteAction(c, r) PROVE TruthInv'
    <3>1. /\ call[c] \in [at : RunningAt, event : Event, completed : SUBSET Rule]
          /\ KeyOfCall(c) \in Key
      BY <2>2, CallShape, WorkflowAssumption DEF ExecuteAction, RunningAt
    <3>2. /\ \A x \in Key, q \in Rule : done[x][q] > 0 => done'[x][q] > 0
          /\ done'[KeyOfCall(c)][r] > 0
      BY <2>2, <3>1, CommitGrows, WorkflowAssumption DEF ExecuteAction
    <3>3. ASSUME NEW d \in Caller, call'[d].at \in RunningAt, NEW q \in call'[d].completed
          PROVE  done'[KeyOfCall(d)'][q] > 0
      <4>1. CASE d = c
        <5>1. KeyOfCall(c)' = KeyOfCall(c) /\ (q = r \/ q \in call[c].completed)
          BY <2>2, <3>1, <3>3, <4>1 DEF ExecuteAction, Proceed, KeyOfCall, TypeOK
        <5>2. call[c].at \in RunningAt /\ call[c].completed \subseteq Rule
          BY <3>1
        <5> QED
          BY <3>1, <3>2, <5>1, <5>2, <4>1 DEF Truthful
      <4>2. CASE d # c
        <5>1. call'[d] = call[d]
          BY <2>2, <4>2 DEF ExecuteAction, Proceed, TypeOK
        <5>2. call[d].completed \subseteq Rule /\ KeyOfCall(d) \in Key
          BY <3>3, <5>1, CallShape, WorkflowAssumption
        <5> QED
          BY <3>2, <3>3, <5>1, <5>2 DEF Truthful, KeyOfCall
      <4> QED
        BY <4>1, <4>2
    <3>4. execution' = execution
      BY <2>2 DEF ExecuteAction
    <3> QED
      BY <3>2, <3>3, <3>4, TruthOfRows, WorkflowAssumption DEF Truthful
  <2>3. ASSUME NEW c \in Caller, NEW r \in Rule, ActionThrowsAfterCommit(c, r) PROVE TruthInv'
    <3>1. /\ call[c] \in [at : RunningAt, event : Event, completed : SUBSET Rule]
          /\ KeyOfCall(c) \in Key
      BY <2>3, CallShape, WorkflowAssumption DEF ActionThrowsAfterCommit, RunningAt
    <3>2. \A x \in Key, q \in Rule : done[x][q] > 0 => done'[x][q] > 0
      BY <2>3, <3>1, CommitGrows, WorkflowAssumption DEF ActionThrowsAfterCommit
    <3>3. ASSUME NEW d \in Caller, call'[d].at \in RunningAt, NEW q \in call'[d].completed
          PROVE  done'[KeyOfCall(d)'][q] > 0
      <4>1. /\ call[d].at \in RunningAt
            /\ call'[d].completed = call[d].completed
            /\ KeyOfCall(d)' = KeyOfCall(d)
        BY <2>3, <3>1, <3>3 DEF ActionThrowsAfterCommit, Proceed, KeyOfCall, TypeOK
      <4>2. call[d].completed \subseteq Rule /\ KeyOfCall(d) \in Key
        BY <4>1, CallShape, WorkflowAssumption
      <4> QED
        BY <3>2, <3>3, <4>1, <4>2 DEF Truthful
    <3>4. execution' = execution
      BY <2>3 DEF ActionThrowsAfterCommit
    <3> QED
      BY <3>2, <3>3, <3>4, TruthOfRows, WorkflowAssumption DEF Truthful
  <2>4. ASSUME NEW c \in Caller, CreateExecution(c) PROVE TruthInv'
    <3>1. \A d \in Caller : call'[d].at \in RunningAt =>
            call'[d].completed = {} \/ call'[d] = call[d]
      BY <2>4 DEF CreateExecution, Proceed, TypeOK, Idle, RunningAt
    <3>2. done' = done
      BY <2>4 DEF CreateExecution
    <3>3. \A k \in Key : \/ execution'[k] = execution[k]
                         \/ execution'[k] = [status |-> "RUNNING", completed |-> {}]
      BY <2>4 DEF CreateExecution, TypeOK
    <3>4. Truthful'
      BY <3>1, <3>2, <3>3 DEF Truthful, KeyOfCall
    <3>5. SuccessIsComplete'
      BY <3>2, <3>3 DEF SuccessIsComplete
    <3> QED
      BY <3>4, <3>5
  <2>5. ASSUME NEW c \in Caller, ResumeExecution(c) PROVE TruthInv'
    <3>1. call[c].event \in Event /\ KeyOfCall(c) \in Key
      BY <2>5, CallShape, WorkflowAssumption DEF ResumeExecution
    <3>2. /\ KeyOfCall(c)' = KeyOfCall(c)
          /\ call'[c].completed = execution[KeyOfCall(c)].completed
          /\ \A d \in Caller : d # c => call'[d] = call[d]
      BY <2>5, <3>1 DEF ResumeExecution, Proceed, KeyOfCall, TypeOK
    <3>3. done' = done
      BY <2>5 DEF ResumeExecution
    <3>4. \A k \in Key : /\ execution'[k].completed = execution[k].completed
                         /\ execution'[k].status \in {"RUNNING", execution[k].status}
      BY <2>5, <3>1 DEF ResumeExecution, TypeOK
    <3>5. Truthful'
      BY <3>1, <3>2, <3>3, <3>4 DEF Truthful, KeyOfCall
    <3>6. SuccessIsComplete'
      BY <3>3, <3>4 DEF SuccessIsComplete
    <3> QED
      BY <3>5, <3>6
  <2>6. ASSUME NEW c \in Caller, StepThrows(c) PROVE TruthInv'
    <3>1. \A d \in Caller : call'[d].at \in RunningAt =>
            /\ call[d].at \in RunningAt
            /\ call'[d].completed = call[d].completed
            /\ KeyOfCall(d)' = KeyOfCall(d)
      BY <2>6 DEF StepThrows, Proceed, KeyOfCall, TypeOK, RunningAt
    <3> QED
      BY <2>6, <3>1 DEF StepThrows, History, Truthful, SuccessIsComplete
  <2>7. ASSUME NEW c \in Caller, Checkpoint(c) PROVE TruthInv'
    <3>1. KeyOfCall(c) \in Key /\ call[c].at \in RunningAt
      BY <2>7, CallShape, WorkflowAssumption DEF Checkpoint, RunningAt
    <3>2. \A d \in Caller : call'[d].at \in RunningAt =>
            /\ call[d].at \in RunningAt
            /\ call'[d].completed = call[d].completed
            /\ KeyOfCall(d)' = KeyOfCall(d)
      BY <2>7 DEF Checkpoint, Proceed, KeyOfCall, TypeOK, RunningAt
    <3>3. \A k \in Key :
            /\ execution'[k].status = execution[k].status
            /\ \/ execution'[k].completed = execution[k].completed
               \/ k = KeyOfCall(c) /\ execution'[k].completed = call[c].completed
      BY <2>7, <3>1 DEF Checkpoint, TypeOK
    <3>4. done' = done
      BY <2>7 DEF Checkpoint, History
    <3>5. Truthful'
      BY <3>1, <3>2, <3>3, <3>4 DEF Truthful
    <3>6. SuccessIsComplete'
      BY <3>3, <3>4 DEF SuccessIsComplete
    <3> QED
      BY <3>5, <3>6
  <2>8. ASSUME NEW c \in Caller, MarkSuccess(c) PROVE TruthInv'
    <3>1. /\ KeyOfCall(c) \in Key /\ call[c].at \in RunningAt
          /\ call[c].event \in Event
      BY <2>8, CallShape, WorkflowAssumption DEF MarkSuccess, RunningAt
    <3>2. \A r \in Matches[call[c].event] : done[KeyOfCall(c)][r] > 0
      BY <2>8, <3>1 DEF MarkSuccess, Pending, Truthful
    <3>3. \A d \in Caller : call'[d].at \in RunningAt => call'[d] = call[d]
      BY <2>8 DEF MarkSuccess, TypeOK, Idle, RunningAt
    <3>4. \A k \in Key : \/ execution'[k] = execution[k]
                         \/ k = KeyOfCall(c) /\ execution'[k].completed = {}
      BY <2>8, <3>1 DEF MarkSuccess, TypeOK
    <3>5. done' = done
      BY <2>8 DEF MarkSuccess, History
    <3>6. Truthful'
      BY <3>3, <3>4, <3>5 DEF Truthful, KeyOfCall
    <3>7. SuccessIsComplete'
      BY <3>1, <3>2, <3>4, <3>5 DEF SuccessIsComplete, KeyOfCall
    <3> QED
      BY <3>6, <3>7
  <2>9. ASSUME NEW c \in Caller, MarkFailed(c) PROVE TruthInv'
    <3>1. KeyOfCall(c) \in Key /\ call[c].at \in RunningAt
      BY <2>9, CallShape, WorkflowAssumption DEF MarkFailed, RunningAt
    <3>2. \A d \in Caller : call'[d].at \in RunningAt => call'[d] = call[d]
      BY <2>9 DEF MarkFailed, TypeOK, Idle, RunningAt
    <3>3. \A k \in Key :
            \/ execution'[k] = execution[k]
            \/ /\ k = KeyOfCall(c)
               /\ execution'[k] = [status |-> "FAILED", completed |-> call[c].completed]
      BY <2>9, <3>1 DEF MarkFailed, TypeOK
    <3>4. done' = done
      BY <2>9 DEF MarkFailed, History
    <3>5. Truthful'
      BY <3>1, <3>2, <3>3, <3>4 DEF Truthful, KeyOfCall
    <3>6. SuccessIsComplete'
      BY <3>3, <3>4 DEF SuccessIsComplete
    <3> QED
      BY <3>5, <3>6
  <2>10. ASSUME NEW c \in Caller, Crash(c) PROVE TruthInv'
    <3>1. \A d \in Caller : call'[d].at \in RunningAt => call'[d] = call[d]
      BY <2>10 DEF Crash, TypeOK, Idle, RunningAt
    <3> QED
      BY <2>10, <3>1 DEF Crash, Truthful, SuccessIsComplete, KeyOfCall
  <2>11. CASE UNCHANGED vars
    BY <2>11 DEF vars, Truthful, SuccessIsComplete, KeyOfCall
  <2> QED
    BY <2>1, <2>2, <2>3, <2>4, <2>5, <2>6, <2>7, <2>8, <2>9, <2>10, <2>11 DEF Next
<1> QED
  BY <1>1, <1>2, EngineTypeCorrect, PTL DEF Spec

(* SUCCESS means that every matching action was committed.                   *)
THEOREM SuccessesAreComplete == Spec => []SuccessIsComplete
<1>1. TruthInv => SuccessIsComplete
  BY DEF TruthInv
<1> QED
  BY <1>1, TruthInvariant, PTL
-----------------------------------------------------------------------------
(* A run that proceeds: its own key stays, and the other calls too.          *)
LEMMA ProceedRuns ==
  ASSUME TypeOK, NEW c \in Caller, call[c].event \in Event, NEW at \in RunningAt,
         NEW completed \in SUBSET Rule, Proceed(c, at, completed), NEW k \in Key
  PROVE  /\ Runs(c, k)' <=> KeyOfCall(c) = k
         /\ call'[c].completed = completed
         /\ \A d \in Caller : d # c => call'[d] = call[d] /\ (Runs(d, k)' <=> Runs(d, k))
<1>1. /\ call'[c] = [at |-> at, event |-> call[c].event, completed |-> completed]
      /\ KeyOfCall(c)' = KeyOfCall(c)
      /\ \A d \in Caller : d # c => call'[d] = call[d]
  BY ProceedKeepsType
<1> QED
  BY <1>1 DEF Runs, KeyOfCall

(* A call that ends runs nothing any more.                                   *)
LEMMA IdleRuns ==
  ASSUME TypeOK, NEW c \in Caller, call' = [call EXCEPT ![c] = Idle], NEW k \in Key
  PROVE  /\ ~Runs(c, k)'
         /\ \A d \in Caller : d # c => call'[d] = call[d] /\ (Runs(d, k)' <=> Runs(d, k))
BY DEF TypeOK, Runs, KeyOfCall, Idle, RunningAt

-----------------------------------------------------------------------------
(* A step that proceeds with c's run, or starts it, leaves every running key *)
(* a runner.                                                                 *)
LEMMA ProceedHasRunner ==
  ASSUME TypeOK, RunningHasRunner, NEW c \in Caller, call[c].event \in Event,
         NEW at \in RunningAt, NEW completed \in SUBSET Rule, Proceed(c, at, completed),
         orphaned' = orphaned, NEW k \in Key,
         execution[k].status = "RUNNING" \/ k = KeyOfCall(c)
  PROVE  k \in orphaned' \/ \E d \in Caller : Runs(d, k)'
<1>1. /\ Runs(c, k)' <=> KeyOfCall(c) = k
      /\ \A d \in Caller : d # c => (Runs(d, k)' <=> Runs(d, k))
  BY ProceedRuns
<1>2. Runs(c, k) => KeyOfCall(c) = k
  BY DEF Runs
<1> QED
  BY <1>1, <1>2 DEF RunningHasRunner

(* An execution is only left RUNNING by a death in the middle of its run:    *)
(* every other way out of executeWorkflow writes SUCCESS or FAILED.          *)
THEOREM RunningExecutionsHaveRunners == Spec => []RunningHasRunner
<1>1. Init => RunningHasRunner
  BY DEF Init, RunningHasRunner
<1>2. TypeOK /\ RunningHasRunner /\ [Next]_vars => RunningHasRunner'
  <2> SUFFICES ASSUME TypeOK, RunningHasRunner, [Next]_vars,
                      NEW k \in Key, execution'[k].status = "RUNNING"
               PROVE  k \in orphaned' \/ \E d \in Caller : Runs(d, k)'
    BY DEF RunningHasRunner
  <2> DEFINE Goal == k \in orphaned' \/ \E d \in Caller : Runs(d, k)'
  <2>1. ASSUME NEW c \in Caller, NEW e \in Event, FindExecution(c, e) PROVE Goal
    <3>1. \A d \in Caller : Runs(d, k) => Runs(d, k)'
      <4>1. ~Runs(c, k)
        BY <2>1 DEF FindExecution, Idle, Runs, RunningAt
      <4>2. \A d \in Caller : d # c => call'[d] = call[d]
        BY <2>1 DEF FindExecution, TypeOK
      <4> QED
        BY <4>1, <4>2 DEF Runs, KeyOfCall
    <3> QED
      BY <2>1, <3>1 DEF FindExecution, History, RunningHasRunner
  <2>2. ASSUME NEW c \in Caller, NEW r \in Rule, ExecuteAction(c, r) PROVE Goal
    <3>1. call[c].event \in Event /\ call[c].completed \cup {r} \in SUBSET Rule
      BY <2>2, CallShape, WorkflowAssumption DEF ExecuteAction, RunningAt
    <3>2. /\ Proceed(c, "checkpoint", call[c].completed \cup {r}) /\ "checkpoint" \in RunningAt
          /\ orphaned' = orphaned /\ execution' = execution
      BY <2>2 DEF ExecuteAction, RunningAt
    <3> QED
      BY <3>1, <3>2, ProceedHasRunner
  <2>3. ASSUME NEW c \in Caller, NEW r \in Rule, ActionThrowsAfterCommit(c, r) PROVE Goal
    <3>1. call[c].event \in Event /\ call[c].completed \in SUBSET Rule
      BY <2>3, CallShape, WorkflowAssumption DEF ActionThrowsAfterCommit, RunningAt
    <3>2. /\ Proceed(c, "fail", call[c].completed) /\ "fail" \in RunningAt
          /\ orphaned' = orphaned /\ execution' = execution
      BY <2>3 DEF ActionThrowsAfterCommit, RunningAt
    <3> QED
      BY <3>1, <3>2, ProceedHasRunner
  <2>4. ASSUME NEW c \in Caller, CreateExecution(c) PROVE Goal
    <3>1. call[c].event \in Event /\ KeyOfCall(c) \in Key /\ orphaned' = orphaned
      BY <2>4, CallShape, WorkflowAssumption DEF CreateExecution
    <3>2. CASE execution[KeyOfCall(c)].status = "NONE"
      <4>1. Proceed(c, "run", {}) /\ "run" \in RunningAt /\ {} \in SUBSET Rule
        BY <2>4, <3>2 DEF CreateExecution, RunningAt
      <4>2. execution[k].status = "RUNNING" \/ k = KeyOfCall(c)
        BY <2>4, <3>1, <3>2 DEF CreateExecution, TypeOK
      <4> QED
        BY <3>1, <4>1, <4>2, ProceedHasRunner
    <3>3. CASE execution[KeyOfCall(c)].status # "NONE"
      <4>1. call' = [call EXCEPT ![c] = Idle] /\ execution' = execution /\ ~Runs(c, k)
        BY <2>4, <3>3 DEF CreateExecution, Runs, RunningAt
      <4>2. \A d \in Caller : Runs(d, k) => Runs(d, k)'
        BY <4>1, IdleRuns
      <4> QED
        BY <3>1, <4>1, <4>2 DEF RunningHasRunner
    <3> QED
      BY <3>2, <3>3
  <2>5. ASSUME NEW c \in Caller, ResumeExecution(c) PROVE Goal
    <3>1. call[c].event \in Event /\ KeyOfCall(c) \in Key /\ orphaned' = orphaned
      BY <2>5, CallShape, WorkflowAssumption DEF ResumeExecution
    <3>2. /\ Proceed(c, "run", execution[KeyOfCall(c)].completed) /\ "run" \in RunningAt
          /\ execution[KeyOfCall(c)].completed \in SUBSET Rule
      BY <2>5, <3>1 DEF ResumeExecution, RunningAt, TypeOK
    <3>3. execution[k].status = "RUNNING" \/ k = KeyOfCall(c)
      BY <2>5, <3>1 DEF ResumeExecution, TypeOK
    <3> QED
      BY <3>1, <3>2, <3>3, ProceedHasRunner
  <2>6. ASSUME NEW c \in Caller, StepThrows(c) PROVE Goal
    <3>1. call[c].event \in Event /\ call[c].completed \in SUBSET Rule
      BY <2>6, CallShape, WorkflowAssumption DEF StepThrows, RunningAt
    <3>2. /\ Proceed(c, "fail", call[c].completed) /\ "fail" \in RunningAt
          /\ orphaned' = orphaned /\ execution' = execution
      BY <2>6 DEF StepThrows, RunningAt, History
    <3> QED
      BY <3>1, <3>2, ProceedHasRunner
  <2>7. ASSUME NEW c \in Caller, Checkpoint(c) PROVE Goal
    <3>1. /\ call[c].event \in Event /\ call[c].completed \in SUBSET Rule
          /\ KeyOfCall(c) \in Key
      BY <2>7, CallShape, WorkflowAssumption DEF Checkpoint, RunningAt
    <3>2. /\ Proceed(c, "run", call[c].completed) /\ "run" \in RunningAt
          /\ orphaned' = orphaned
      BY <2>7 DEF Checkpoint, RunningAt, History
    <3>3. execution[k].status = "RUNNING" \/ k = KeyOfCall(c)
      BY <2>7, <3>1 DEF Checkpoint, TypeOK
    <3> QED
      BY <3>1, <3>2, <3>3, ProceedHasRunner
  <2>8. ASSUME NEW c \in Caller, MarkSuccess(c) \/ MarkFailed(c) PROVE Goal
    <3>1. /\ \A d \in Caller : d # c => (Runs(d, k)' <=> Runs(d, k))
          /\ orphaned' = orphaned
      BY <2>8, IdleRuns DEF MarkSuccess, MarkFailed, History
    <3>2. KeyOfCall(c) \in Key /\ call[c].at \in RunningAt
      BY <2>8, CallShape, WorkflowAssumption DEF MarkSuccess, MarkFailed, RunningAt
    <3>3. k # KeyOfCall(c) /\ execution[k].status = "RUNNING"
      BY <2>8, <3>2 DEF MarkSuccess, MarkFailed, TypeOK
    <3> QED
      BY <3>1, <3>3 DEF RunningHasRunner, Runs
  <2>9. ASSUME NEW c \in Caller, Crash(c) PROVE Goal
    <3>1. \A d \in Caller : d # c => (Runs(d, k)' <=> Runs(d, k))
      BY <2>9, IdleRuns DEF Crash
    <3> QED
      BY <2>9, <3>1 DEF Crash, RunningHasRunner
  <2>10. CASE UNCHANGED vars
    <3>1. \A d \in Caller : Runs(d, k) => Runs(d, k)'
      BY <2>10 DEF vars, Runs, KeyOfCall
    <3> QED
      BY <2>10, <3>1 DEF vars, RunningHasRunner
  <2> QED
    BY <2>1, <2>2, <2>3, <2>4, <2>5, <2>6, <2>7, <2>8, <2>9, <2>10 DEF Next
<1> QED
  BY <1>1, <1>2, EngineTypeCorrect, PTL DEF Spec

-----------------------------------------------------------------------------
(* What a checkpoint leaves to be done has no effect yet that is not in      *)
(* doubt.                                                                    *)
Untouched(k, completed) == \A r \in Rule \ completed : done[k][r] <= uncertain[k][r]

(* A key that nobody overtook has one runner at most, and its checkpoint,    *)
(* wherever it is kept, misses no certain effect.                            *)
Solo(k) ==
  /\ \A c \in Caller : Runs(c, k) =>
       execution[k].status = "RUNNING" /\ Untouched(k, call[c].completed)
  /\ \A c, d \in Caller : Runs(c, k) /\ Runs(d, k) => c = d
  /\ execution[k].status = "NONE" => Untouched(k, {})
  /\ execution[k].status = "FAILED" => Untouched(k, execution[k].completed)
  /\ \A r \in Rule : done[k][r] <= 1 + uncertain[k][r]

\* What a step needs and leaves of the keys nobody overtook.
SoloInv == TypeOK /\ \A k \in Key \ overtaken : Solo(k)

(* A step that leaves k's row and counters alone and starts no run of k.     *)
LEMMA SoloFrame ==
  ASSUME NEW k \in Key, Solo(k), execution'[k] = execution[k],
         done'[k] = done[k], uncertain'[k] = uncertain[k],
         \A d \in Caller : Runs(d, k)' =>
           Runs(d, k) /\ call'[d].completed = call[d].completed
  PROVE  Solo(k)'
BY DEF Solo, Untouched

(* Every step keeps Solo for the keys that nobody has overtaken.             *)
THEOREM SoloInvariant == Spec => []SoloInv
<1>1. Init => SoloInv
  <2> SUFFICES ASSUME Init PROVE SoloInv
    OBVIOUS
  <2>1. TypeOK
    BY WorkflowAssumption DEF Init, TypeOK, Status, Call
  <2>2. ASSUME NEW k \in Key PROVE Solo(k)
    BY DEF Init, Solo, Untouched, Runs, Idle, RunningAt
  <2> QED
    BY <2>1, <2>2 DEF SoloInv
<1>2. SoloInv /\ TypeOK' /\ [Next]_vars => SoloInv'
  <2> SUFFICES ASSUME TypeOK, [Next]_vars, NEW k \in Key, k \notin overtaken',
                      k \notin overtaken => Solo(k)
               PROVE  Solo(k)'
    BY DEF SoloInv
  <2>1. ASSUME NEW c \in Caller, NEW e \in Event, FindExecution(c, e) PROVE Solo(k)'
    <3>1. \A d \in Caller : Runs(d, k)' => call'[d] = call[d] /\ Runs(d, k)
      BY <2>1 DEF FindExecution, TypeOK, Runs, KeyOfCall, RunningAt
    <3> QED
      BY <2>1, <3>1, SoloFrame DEF FindExecution, History
  <2>2. ASSUME NEW c \in Caller, NEW r \in Rule, ExecuteAction(c, r) PROVE Solo(k)'
    <3>1. /\ call[c] \in [at : RunningAt, event : Event, completed : SUBSET Rule]
          /\ KeyOfCall(c) \in Key /\ Matches[call[c].event] \subseteq Rule
      BY <2>2, CallShape, WorkflowAssumption DEF ExecuteAction, RunningAt
    <3>2. /\ Proceed(c, "checkpoint", call[c].completed \cup {r})
          /\ "checkpoint" \in RunningAt /\ call[c].completed \cup {r} \in SUBSET Rule
      BY <2>2, <3>1 DEF ExecuteAction, RunningAt
    <3>3. /\ Runs(c, k)' <=> KeyOfCall(c) = k
          /\ call'[c].completed = call[c].completed \cup {r}
          /\ \A d \in Caller : d # c => call'[d] = call[d] /\ (Runs(d, k)' <=> Runs(d, k))
      BY <3>1, <3>2, ProceedRuns
    <3>4. Solo(k) /\ execution' = execution /\ uncertain' = uncertain
      BY <2>2 DEF ExecuteAction
    <3>5. CASE KeyOfCall(c) # k
      <4>1. done'[k] = done[k]
        BY <2>2, <3>5 DEF ExecuteAction, Commit, TypeOK
      <4> QED
        BY <3>3, <3>4, <3>5, <4>1, SoloFrame
    <3>6. CASE KeyOfCall(c) = k
      <4>1. /\ \A q \in Rule : done'[k][q] = IF q = r THEN done[k][q] + 1 ELSE done[k][q]
            /\ \A q \in Rule : done[k][q] \in Nat /\ uncertain[k][q] \in Nat
        BY <2>2, <3>6 DEF ExecuteAction, Commit, TypeOK
      <4>2. Runs(c, k) /\ execution[k].status = "RUNNING" /\ Untouched(k, call[c].completed)
        BY <3>1, <3>4, <3>6 DEF Runs, Solo
      <4>3. r \notin call[c].completed
        BY <2>2 DEF ExecuteAction, IsNext, Pending
      <4>4. done[k][r] <= uncertain[k][r]
        BY <4>2, <4>3 DEF Untouched
      <4>5. \A d \in Caller : Runs(d, k)' => d = c
        BY <3>3, <3>4, <4>2 DEF Solo
      <4>6. Untouched(k, call[c].completed)'
        BY <3>3, <3>4, <4>1, <4>2 DEF Untouched
      <4>7. \A q \in Rule : done'[k][q] <= 1 + uncertain'[k][q]
        BY <3>4, <4>1, <4>4 DEF Solo
      <4> QED
        BY <3>4, <4>2, <4>5, <4>6, <4>7 DEF Solo
    <3> QED
      BY <3>5, <3>6
  <2>3. ASSUME NEW c \in Caller, NEW r \in Rule, ActionThrowsAfterCommit(c, r) PROVE Solo(k)'
    <3>1. /\ call[c] \in [at : RunningAt, event : Event, completed : SUBSET Rule]
          /\ KeyOfCall(c) \in Key
      BY <2>3, CallShape, WorkflowAssumption DEF ActionThrowsAfterCommit, RunningAt
    <3>2. Proceed(c, "fail", call[c].completed) /\ "fail" \in RunningAt
      BY <2>3 DEF ActionThrowsAfterCommit, RunningAt
    <3>3. /\ Runs(c, k)' <=> KeyOfCall(c) = k
          /\ call'[c].completed = call[c].completed
          /\ \A d \in Caller : d # c => call'[d] = call[d] /\ (Runs(d, k)' <=> Runs(d, k))
      BY <3>1, <3>2, ProceedRuns
    <3>4. Solo(k) /\ execution' = execution
      BY <2>3 DEF ActionThrowsAfterCommit
    <3>5. CASE KeyOfCall(c) # k
      <4>1. done'[k] = done[k] /\ uncertain'[k] = uncertain[k]
        BY <2>3, <3>5 DEF ActionThrowsAfterCommit, Commit, TypeOK
      <4> QED
        BY <3>3, <3>4, <3>5, <4>1, SoloFrame
    <3>6. CASE KeyOfCall(c) = k
      <4>1. \A q \in Rule :
              /\ done[k][q] \in Nat /\ uncertain[k][q] \in Nat
              /\ done'[k][q] = IF q = r THEN done[k][q] + 1 ELSE done[k][q]
              /\ uncertain'[k][q] = IF q = r THEN uncertain[k][q] + 1 ELSE uncertain[k][q]
        BY <2>3, <3>6 DEF ActionThrowsAfterCommit, Commit, TypeOK
      <4>2. Runs(c, k) /\ execution[k].status = "RUNNING" /\ Untouched(k, call[c].completed)
        BY <3>1, <3>4, <3>6 DEF Runs, Solo
      <4>3. \A d \in Caller : Runs(d, k)' => d = c
        BY <3>3, <3>4, <4>2 DEF Solo
      <4>4. Untouched(k, call[c].completed)'
        BY <3>3, <4>1, <4>2 DEF Untouched
      <4>5. \A q \in Rule : done'[k][q] <= 1 + uncertain'[k][q]
        BY <3>4, <4>1 DEF Solo
      <4> QED
        BY <3>4, <4>2, <4>3, <4>4, <4>5 DEF Solo
    <3> QED
      BY <3>5, <3>6
  <2>4. ASSUME NEW c \in Caller, CreateExecution(c) PROVE Solo(k)'
    <3>1. call[c].event \in Event /\ KeyOfCall(c) \in Key
      BY <2>4, CallShape, WorkflowAssumption DEF CreateExecution
    <3>2. Solo(k) /\ done' = done /\ uncertain' = uncertain /\ ~Runs(c, k)
      BY <2>4 DEF CreateExecution, Runs, RunningAt
    <3>3. CASE execution[KeyOfCall(c)].status = "NONE"
      <4>1. Proceed(c, "run", {}) /\ "run" \in RunningAt /\ {} \in SUBSET Rule
        BY <2>4, <3>3 DEF CreateExecution, RunningAt
      <4>2. /\ Runs(c, k)' <=> KeyOfCall(c) = k
            /\ call'[c].completed = {}
            /\ \A d \in Caller : d # c => call'[d] = call[d] /\ (Runs(d, k)' <=> Runs(d, k))
        BY <3>1, <4>1, ProceedRuns
      <4>3. CASE KeyOfCall(c) # k
        <5>1. execution'[k] = execution[k]
          BY <2>4, <3>3, <4>3 DEF CreateExecution, TypeOK
        <5> QED
          BY <3>2, <4>2, <4>3, <5>1, SoloFrame
      <4>4. CASE KeyOfCall(c) = k
        <5>1. execution'[k] = [status |-> "RUNNING", completed |-> {}]
          BY <2>4, <3>3, <4>4 DEF CreateExecution, TypeOK
        <5>2. \A d \in Caller : ~Runs(d, k)
          BY <3>2, <3>3, <4>4 DEF Solo
        <5>3. Untouched(k, {})
          BY <3>2, <3>3, <4>4 DEF Solo, Untouched
        <5> QED
          BY <3>2, <4>2, <5>1, <5>2, <5>3 DEF Solo, Untouched
      <4> QED
        BY <4>3, <4>4
    <3>4. CASE execution[KeyOfCall(c)].status # "NONE"
      <4>1. call' = [call EXCEPT ![c] = Idle] /\ execution' = execution
        BY <2>4, <3>4 DEF CreateExecution
      <4>2. \A d \in Caller : Runs(d, k)' => call'[d] = call[d] /\ Runs(d, k)
        BY <4>1, IdleRuns
      <4> QED
        BY <3>2, <4>1, <4>2, SoloFrame
    <3> QED
      BY <3>3, <3>4
  <2>5. ASSUME NEW c \in Caller, ResumeExecution(c) PROVE Solo(k)'
    <3>1. call[c].event \in Event /\ KeyOfCall(c) \in Key
      BY <2>5, CallShape, WorkflowAssumption DEF ResumeExecution
    <3>2. Solo(k) /\ done' = done /\ uncertain' = uncertain /\ ~Runs(c, k)
      BY <2>5 DEF ResumeExecution, Runs, RunningAt
    <3>3. /\ Proceed(c, "run", execution[KeyOfCall(c)].completed) /\ "run" \in RunningAt
          /\ execution[KeyOfCall(c)].completed \in SUBSET Rule
      BY <2>5, <3>1 DEF ResumeExecution, RunningAt, TypeOK
    <3>4. /\ Runs(c, k)' <=> KeyOfCall(c) = k
          /\ call'[c].completed = execution[KeyOfCall(c)].completed
          /\ \A d \in Caller : d # c => call'[d] = call[d] /\ (Runs(d, k)' <=> Runs(d, k))
      BY <3>1, <3>3, ProceedRuns
    <3>5. CASE KeyOfCall(c) # k
      <4>1. execution'[k] = execution[k]
        BY <2>5, <3>5 DEF ResumeExecution, TypeOK
      <4> QED
        BY <3>2, <3>4, <3>5, <4>1, SoloFrame
    <3>6. CASE KeyOfCall(c) = k
      <4>1. execution[k].status = "FAILED"
        BY <2>5, <3>6 DEF ResumeExecution
      <4>2. execution'[k] = [execution[k] EXCEPT !.status = "RUNNING"]
        BY <2>5, <3>6 DEF ResumeExecution, TypeOK
      <4>3. execution'[k].status = "RUNNING"
        BY <4>2 DEF TypeOK
      <4>4. \A d \in Caller : ~Runs(d, k)
        BY <3>2, <4>1 DEF Solo
      <4>5. Untouched(k, execution[k].completed)
        BY <3>2, <4>1 DEF Solo
      <4> QED
        BY <3>2, <3>4, <3>6, <4>3, <4>4, <4>5 DEF Solo, Untouched
    <3> QED
      BY <3>5, <3>6
  <2>6. ASSUME NEW c \in Caller, StepThrows(c) PROVE Solo(k)'
    <3>1. call[c] \in [at : RunningAt, event : Event, completed : SUBSET Rule]
      BY <2>6, CallShape, WorkflowAssumption DEF StepThrows, RunningAt
    <3>2. Proceed(c, "fail", call[c].completed) /\ "fail" \in RunningAt
      BY <2>6 DEF StepThrows, RunningAt
    <3>3. \A d \in Caller : Runs(d, k)' =>
            Runs(d, k) /\ call'[d].completed = call[d].completed
      BY <3>1, <3>2, ProceedRuns DEF Runs
    <3> QED
      BY <2>6, <3>3, SoloFrame DEF StepThrows, History
  <2>7. ASSUME NEW c \in Caller, Checkpoint(c) PROVE Solo(k)'
    <3>1. /\ call[c] \in [at : RunningAt, event : Event, completed : SUBSET Rule]
          /\ KeyOfCall(c) \in Key
      BY <2>7, CallShape, WorkflowAssumption DEF Checkpoint, RunningAt
    <3>2. Proceed(c, "run", call[c].completed) /\ "run" \in RunningAt
      BY <2>7 DEF Checkpoint, RunningAt
    <3>3. \A d \in Caller : Runs(d, k)' =>
            Runs(d, k) /\ call'[d].completed = call[d].completed
      BY <3>1, <3>2, ProceedRuns DEF Runs
    <3>4. Solo(k) /\ done' = done /\ uncertain' = uncertain
      BY <2>7 DEF Checkpoint, History
    <3>5. CASE KeyOfCall(c) # k
      <4>1. execution'[k] = execution[k]
        BY <2>7, <3>5 DEF Checkpoint, TypeOK
      <4> QED
        BY <3>3, <3>4, <4>1, SoloFrame
    <3>6. CASE KeyOfCall(c) = k
      <4>1. execution[k].status = "RUNNING"
        BY <3>1, <3>4, <3>6 DEF Solo, Runs
      <4>2. execution'[k] = [execution[k] EXCEPT !.completed = call[c].completed]
        BY <2>7, <3>6 DEF Checkpoint, TypeOK
      <4>3. execution'[k].status = "RUNNING"
        BY <4>1, <4>2
      <4> QED
        BY <3>3, <3>4, <4>3 DEF Solo, Untouched
    <3> QED
      BY <3>5, <3>6
  <2>8. ASSUME NEW c \in Caller, MarkSuccess(c) \/ MarkFailed(c) PROVE Solo(k)'
    <3>1. /\ call[c] \in [at : RunningAt, event : Event, completed : SUBSET Rule]
          /\ KeyOfCall(c) \in Key
      BY <2>8, CallShape, WorkflowAssumption DEF MarkSuccess, MarkFailed, RunningAt
    <3>2. Solo(k) /\ done' = done /\ uncertain' = uncertain
      BY <2>8 DEF MarkSuccess, MarkFailed, History
    <3>3. /\ ~Runs(c, k)'
          /\ \A d \in Caller : d # c => call'[d] = call[d] /\ (Runs(d, k)' <=> Runs(d, k))
      BY <2>8, IdleRuns DEF MarkSuccess, MarkFailed
    <3>4. CASE KeyOfCall(c) # k
      <4>1. execution'[k] = execution[k]
        BY <2>8, <3>4 DEF MarkSuccess, MarkFailed, TypeOK
      <4> QED
        BY <3>2, <3>3, <4>1, SoloFrame
    <3>5. CASE KeyOfCall(c) = k
      <4>1. Runs(c, k) /\ Untouched(k, call[c].completed)
        BY <3>1, <3>2, <3>5 DEF Runs, Solo
      <4>2. \A d \in Caller : ~Runs(d, k)'
        BY <3>2, <3>3, <4>1 DEF Solo
      <4>3. \/ execution'[k] = [status |-> "SUCCESS", completed |-> {}]
            \/ execution'[k] = [status |-> "FAILED", completed |-> call[c].completed]
        BY <2>8, <3>5 DEF MarkSuccess, MarkFailed, TypeOK
      <4> QED
        BY <3>2, <4>1, <4>2, <4>3 DEF Solo, Untouched
    <3> QED
      BY <3>4, <3>5
  <2>9. ASSUME NEW c \in Caller, Crash(c) PROVE Solo(k)'
    <3>1. \A d \in Caller : Runs(d, k)' => call'[d] = call[d] /\ Runs(d, k)
      BY <2>9, IdleRuns DEF Crash
    <3> QED
      BY <2>9, <3>1, SoloFrame DEF Crash
  <2>10. CASE UNCHANGED vars
    <3>1. \A d \in Caller : Runs(d, k)' => Runs(d, k)
      BY <2>10 DEF vars, Runs, KeyOfCall
    <3> QED
      BY <2>10, <3>1, SoloFrame DEF vars
  <2> QED
    BY <2>1, <2>2, <2>3, <2>4, <2>5, <2>6, <2>7, <2>8, <2>9, <2>10 DEF Next
<1> QED
  BY <1>1, <1>2, EngineTypeCorrect, PTL DEF Spec

(* A retry repeats no action whose success is certain, as long as nobody     *)
(* resumes an execution that is not FAILED any more.                         *)
THEOREM RetriesExecuteOnce == Spec => []RetryExecutesOnce
<1>1. SoloInv => RetryExecutesOnce
  BY DEF SoloInv, Solo, RetryExecutesOnce
<1> QED
  BY <1>1, SoloInvariant, PTL

-----------------------------------------------------------------------------
(* Logins, lockout and roles (Accounts).                                    *)

\* What a login, and a creation, can know.
LoginKinds == [stage : {"expired", "compare", "issue"}, of : Member, attempts : Nat, roles : SUBSET AllRoles]

\* A change of roles that still has roles to give.
RoleKinds == [stage : {"roles"}, of : Member, rest : Seq(AllRoles) \ {<<>>}]

\* Every call in flight.
Calls == {NoLogin} \cup LoginKinds \cup RoleKinds

\* The type invariant, with the calls spelled out.
AuthTypes == AccountsTypeOK /\ loginCall \in [LoginCall -> Calls]

\* A login carries roles its user was created with, and a creation assigns no others.
Granted(todo, given) ==
  /\ todo \in LoginKinds => todo.roles \subseteq given[todo.of]
  /\ todo \in RoleKinds => \A i \in DOMAIN todo.rest : todo.rest[i] \in given[todo.of]

\* Nobody has a role that was not asked for, and a change of roles in flight
\* gives what was asked for.
RolesAsAsked ==
  /\ \A m \in Member : userRoles[m] \subseteq asked[m] /\ (user[m].status = "none" => asked[m] = {})
  /\ \A c \in LoginCall : Granted(loginCall[c], asked)

\* A token carries the number of its login, so no two logins share one.
TokensDiffer == (\A t \in token : t.login <= logins) /\ SessionsStayTheirs

\* The login of a user that has only one at a time works on the state it read.
OneAtATime ==
  \A m \in Member \ raced :
    /\ \A c, d \in LoggingIn(m) : c = d
    /\ \A c \in LoggingIn(m) :
         /\ loginCall[c].stage = "expired" => user[m].locked = "over" /\ loginCall[c].attempts = 0
         /\ loginCall[c].stage = "compare" => user[m].locked = "no" /\ loginCall[c].attempts = user[m].attempts

\* What a step needs and leaves.
AuthInv == AuthTypes /\ RolesAsAsked /\ TokensDiffer /\ OneAtATime /\ LockFollowsFailures

\* The rows of users, and the tokens that were issued.
Users == [status : {"none", "ACTIVE", "INACTIVE"}, attempts : Nat, locked : {"no", "until", "over"}]
Tokens == [of : Member, role : Access, at : 0..MaxTime, login : 1..MaxLogins]

\* More roles never mean less access.
LEMMA MoreRolesMoreAccess ==
  ASSUME NEW few, NEW many, few \subseteq many
  PROVE  /\ Rank(resolveAccessRole(few)) <= Rank(resolveAccessRole(many))
         /\ resolveAccessRole(few) \in Access
  BY DEF Rank, resolveAccessRole, Access

\* The fields tell the kinds of calls apart.
LEMMA KindsDiffer ==
  /\ NoLogin \notin LoginKinds /\ NoLogin \notin RoleKinds
  /\ \A x \in LoginKinds : x \notin RoleKinds /\ x.stage \in {"expired", "compare", "issue"} /\ x.of \in Member
  /\ \A x \in RoleKinds : x \notin LoginKinds /\ x.stage = "roles" /\ x.of \in Member /\ x.rest \in Seq(AllRoles)
  BY DEF NoLogin, LoginKinds, RoleKinds

\* The types of the variables, one by one.
LEMMA TypesFollow ==
  ASSUME loginCall' \in [LoginCall -> Calls],
         user' \in [Member -> Users], userRoles' \in [Member -> SUBSET AllRoles], token' \subseteq Tokens,
         clock' \in 0..MaxTime, asked' \in [Member -> SUBSET AllRoles], failures' \in [Member -> Nat],
         raced' \subseteq Member, logins' \in 0..MaxLogins
  PROVE  AuthTypes'
  <1>1. \A c \in LoginCall :
          \/ loginCall'[c] = NoLogin
          \/ loginCall'[c] \in LoginKinds
          \/ loginCall'[c].stage = "roles" /\ loginCall'[c].of \in Member /\ loginCall'[c].rest \in Seq(AllRoles)
    BY KindsDiffer DEF Calls
  <1> QED
    BY <1>1 DEF AuthTypes, AccountsTypeOK, LoginKinds, Users, Tokens

\* What the types say of each variable.
LEMMA TypesAre ==
  ASSUME AuthTypes
  PROVE  /\ user \in [Member -> Users] /\ userRoles \in [Member -> SUBSET AllRoles] /\ token \subseteq Tokens
         /\ clock \in 0..MaxTime /\ asked \in [Member -> SUBSET AllRoles] /\ failures \in [Member -> Nat]
         /\ raced \subseteq Member /\ logins \in 0..MaxLogins
         /\ loginCall \in [LoginCall -> Calls]
  BY DEF AuthTypes, AccountsTypeOK, Users, Tokens

\* A step that changes one call: which roles the calls carry, and who is logging in.
LEMMA OneCallChanges ==
  ASSUME AuthTypes, NEW c \in LoginCall, NEW todo \in Calls,
         loginCall' = [loginCall EXCEPT ![c] = todo]
  PROVE  /\ loginCall' \in [LoginCall -> Calls]
         /\ \A d \in LoginCall : loginCall'[d] = IF d = c THEN todo ELSE loginCall[d]
  BY DEF AuthTypes

\* What a change of roles in flight carries.
LEMMA RolesCarried ==
  ASSUME AuthTypes, RolesAsAsked, NEW c \in LoginCall, NEW todo \in Calls,
         loginCall' = [loginCall EXCEPT ![c] = todo], Granted(todo, asked'),
         \A m \in Member : asked[m] \subseteq asked'[m]
  PROVE  \A d \in LoginCall : Granted(loginCall'[d], asked')
  <1>1. \A d \in LoginCall : loginCall'[d] = IF d = c THEN todo ELSE loginCall[d]
    BY OneCallChanges
  <1>2. \A d \in LoginCall : Granted(loginCall[d], asked)
    BY DEF RolesAsAsked
  <1>3. \A d \in LoginCall : Granted(loginCall[d], asked')
    BY <1>2, KindsDiffer DEF Granted
  <1> QED
    BY <1>1, <1>3

\* Every step keeps the types and the roles.
LEMMA TypesAndRoles ==
  ASSUME AccountsAssumption, AuthTypes, RolesAsAsked, AccountsNext
  PROVE  AuthTypes' /\ RolesAsAsked'
  <1>1. /\ user \in [Member -> Users] /\ userRoles \in [Member -> SUBSET AllRoles] /\ token \subseteq Tokens
        /\ clock \in 0..MaxTime /\ asked \in [Member -> SUBSET AllRoles] /\ failures \in [Member -> Nat]
        /\ raced \subseteq Member /\ logins \in 0..MaxLogins
        /\ loginCall \in [LoginCall -> Calls]
        /\ MaxTime \in Nat /\ MaxLogins \in Nat /\ MaxAttempts \in Nat
    BY TypesAre DEF AccountsAssumption
  <1>2. /\ \A m \in Member : userRoles[m] \subseteq asked[m] /\ (user[m].status = "none" => asked[m] = {})
        /\ \A c \in LoginCall : Granted(loginCall[c], asked)
    BY DEF RolesAsAsked
  <1>3. \A c \in LoginCall :
          /\ loginCall[c].stage \in {"expired", "compare", "issue"} => loginCall[c] \in LoginKinds
          /\ loginCall[c].stage = "roles" => loginCall[c] \in RoleKinds
    BY <1>1, KindsDiffer DEF Calls, NoLogin
  <1>4. Granted(NoLogin, asked) /\ NoLogin \in Calls
    BY KindsDiffer DEF Granted, Calls
  <1>5. ASSUME NEW c \in LoginCall, NEW m \in Member, NEW names \in Requests, CreateUser(c, m, names)
        PROVE  AuthTypes' /\ RolesAsAsked'
    <2> DEFINE todo == [stage |-> "roles", of |-> m, rest |-> names]
               set == {names[i] : i \in DOMAIN names}
    <2>1. names \in Seq(AllRoles) \ {<<>>} /\ set \subseteq AllRoles
      <3>1. PICK r \in AllRoles : names = <<r>> \/ names = <<"CUSTOMER", r>>
        BY DEF Requests, AllRoles
      <3>2. "CUSTOMER" \in AllRoles
        BY DEF AllRoles
      <3>3. names \in Seq(AllRoles) /\ names # <<>>
        <4>1. CASE names = <<r>>
          BY <4>1
        <4>2. CASE names = <<"CUSTOMER", r>>
          BY <3>2, <4>2
        <4> QED
          BY <3>1, <4>1, <4>2
      <3>4. \A i \in DOMAIN names : names[i] \in AllRoles
        BY <3>3
      <3> QED
        BY <3>3, <3>4
    <2>2. todo \in RoleKinds
      BY <2>1 DEF RoleKinds
    <2>3. todo \in Calls
      BY <2>2 DEF Calls
    <2>4. loginCall' = [loginCall EXCEPT ![c] = todo]
      BY <1>5 DEF CreateUser
    <2>5. /\ user' = [user EXCEPT ![m].status = "ACTIVE"] /\ asked' = [asked EXCEPT ![m] = set]
          /\ UNCHANGED <<userRoles, token, clock, failures, raced, logins>>
      BY <1>5 DEF CreateUser
    <2>6. asked[m] = {}
      BY <1>2, <1>5 DEF CreateUser
    <2>7. \A n \in Member : asked[n] \subseteq asked'[n]
      BY <1>1, <2>5, <2>6
    <2>8. \A i \in DOMAIN names : names[i] \in asked'[m]
      BY <1>1, <2>5
    <2>9. Granted(todo, asked')
      BY <2>2, <2>8, KindsDiffer DEF Granted
    <2> HIDE DEF todo, set
    <2>10. \A d \in LoginCall : Granted(loginCall'[d], asked')
      BY <2>3, <2>4, <2>7, <2>9, RolesCarried
    <2>11. loginCall' \in [LoginCall -> Calls]
      BY <2>3, <2>4, OneCallChanges
    <2>12. user' \in [Member -> Users] /\ asked' \in [Member -> SUBSET AllRoles]
      BY <1>1, <2>1, <2>5 DEF Users
    <2>13. \A n \in Member : userRoles'[n] \subseteq asked'[n] /\ (user'[n].status = "none" => asked'[n] = {})
      BY <1>1, <1>2, <2>5, <2>7 DEF Users
    <2> QED
      BY <1>1, <2>5, <2>10, <2>11, <2>12, <2>13, TypesFollow DEF RolesAsAsked
  <1>6. ASSUME NEW c \in LoginCall, NEW todo \in Calls, loginCall' = [loginCall EXCEPT ![c] = todo],
               Granted(todo, asked), UNCHANGED asked,
               user' \in [Member -> Users], \A m \in Member : user'[m].status = "none" => user[m].status = "none",
               userRoles' \in [Member -> SUBSET AllRoles], \A m \in Member : userRoles'[m] \subseteq asked[m],
               token' \subseteq Tokens, clock' \in 0..MaxTime, failures' \in [Member -> Nat],
               raced' \subseteq Member, logins' \in 0..MaxLogins
        PROVE  AuthTypes' /\ RolesAsAsked'
    <2>1. \A d \in LoginCall : Granted(loginCall'[d], asked')
      BY <1>6, RolesCarried
    <2>2. loginCall' \in [LoginCall -> Calls]
      BY <1>6, OneCallChanges
    <2>3. AuthTypes'
      BY <1>1, <1>6, <2>2, TypesFollow
    <2> QED
      BY <1>2, <1>6, <2>1, <2>3 DEF RolesAsAsked
  <1>7. ASSUME NEW c \in LoginCall, NEW m \in Member, BootstrapFinds(c, m) PROVE AuthTypes' /\ RolesAsAsked'
    <2> DEFINE todo == [stage |-> "roles", of |-> m, rest |-> <<"ADMIN">>]
    <2>1. todo \in RoleKinds
      BY DEF RoleKinds, AllRoles
    <2>2. Granted(todo, asked) /\ todo \in Calls
      BY <1>7, <2>1, KindsDiffer DEF Granted, BootstrapFinds, Calls
    <2>3. loginCall' = [loginCall EXCEPT ![c] = todo]
      BY <1>7 DEF BootstrapFinds
    <2> HIDE DEF todo
    <2> QED
      BY <1>1, <1>2, <1>6, <1>7, <2>2, <2>3 DEF BootstrapFinds
  <1>8. ASSUME NEW c \in LoginCall, NEW m \in Member, LoginReads(c, m) PROVE AuthTypes' /\ RolesAsAsked'
    <2> DEFINE over == user[m].locked = "over"
               todo == [stage |-> IF over THEN "expired" ELSE "compare", of |-> m,
                        attempts |-> IF over THEN 0 ELSE user[m].attempts, roles |-> userRoles[m]]
    <2>1. todo \in LoginKinds
      BY <1>1 DEF LoginKinds, Users
    <2>2. Granted(todo, asked) /\ todo \in Calls
      BY <1>2, <2>1, KindsDiffer DEF Granted, Calls
    <2>3. loginCall' = [loginCall EXCEPT ![c] = todo]
      BY <1>8 DEF LoginReads
    <2> HIDE DEF todo
    <2>4. raced' \subseteq Member
      BY <1>1, <1>8 DEF LoginReads
    <2> QED
      BY <1>1, <1>2, <1>6, <1>8, <2>2, <2>3, <2>4 DEF LoginReads
  <1>9. ASSUME NEW c \in LoginCall, AssignRole(c) PROVE AuthTypes' /\ RolesAsAsked'
    <2> DEFINE todo == loginCall[c]
               next == IF Tail(todo.rest) = <<>> THEN NoLogin ELSE [todo EXCEPT !.rest = Tail(todo.rest)]
    <2>1. todo \in RoleKinds /\ Granted(todo, asked)
      BY <1>2, <1>3, <1>9 DEF AssignRole
    <2>2. loginCall' = [loginCall EXCEPT ![c] = next]
          /\ userRoles' = [userRoles EXCEPT ![todo.of] = userRoles[todo.of] \cup {Head(todo.rest)}]
          /\ UNCHANGED <<user, token, clock, asked, failures, raced, logins>>
      BY <1>9, <2>1 DEF AssignRole, RoleKinds
    <2> HIDE DEF todo
    <2>3. todo.rest \in Seq(AllRoles) /\ todo.rest # <<>> /\ todo.of \in Member
      BY <2>1 DEF RoleKinds
    <2>4. \A i \in DOMAIN todo.rest : todo.rest[i] \in asked[todo.of]
      BY <2>1 DEF Granted
    <2>5. Head(todo.rest) \in AllRoles /\ Head(todo.rest) \in asked[todo.of]
      BY <2>3, <2>4
    <2>6. Tail(todo.rest) \in Seq(AllRoles) /\ \A i \in DOMAIN Tail(todo.rest) : Tail(todo.rest)[i] \in asked[todo.of]
      BY <2>3, <2>4
    <2>7. next \in Calls /\ Granted(next, asked)
      <3>1. CASE Tail(todo.rest) = <<>>
        BY <1>4, <3>1
      <3>2. CASE Tail(todo.rest) # <<>>
        <4>1. next \in RoleKinds /\ next.rest = Tail(todo.rest) /\ next.of = todo.of
          BY <2>1, <2>6, <3>2 DEF RoleKinds
        <4> HIDE DEF next
        <4> QED
          BY <2>6, <4>1, KindsDiffer DEF Granted, Calls
      <3> QED
        BY <3>1, <3>2
    <2>8. userRoles' \in [Member -> SUBSET AllRoles] /\ \A m \in Member : userRoles'[m] \subseteq asked[m]
      BY <1>1, <1>2, <2>2, <2>3, <2>5
    <2> HIDE DEF next
    <2> QED
      BY <1>1, <1>6, <2>2, <2>7, <2>8
  <1>10. ASSUME NEW c \in LoginCall, NEW stage \in {"compare", "issue"}, loginCall[c].stage \in {"expired", "compare"}
         PROVE  /\ [loginCall[c] EXCEPT !.stage = stage] \in Calls
                /\ Granted([loginCall[c] EXCEPT !.stage = stage], asked)
    <2> DEFINE todo == [loginCall[c] EXCEPT !.stage = stage]
    <2>1. loginCall[c] \in LoginKinds /\ loginCall[c].roles \subseteq asked[loginCall[c].of]
      BY <1>2, <1>3, <1>10 DEF Granted
    <2>2. todo \in LoginKinds /\ todo.roles = loginCall[c].roles /\ todo.of = loginCall[c].of
      BY <2>1 DEF LoginKinds
    <2> HIDE DEF todo
    <2>3. todo \in Calls /\ Granted(todo, asked)
      BY <2>1, <2>2, KindsDiffer DEF Calls, Granted
    <2> QED
      BY <2>3 DEF todo
  <1>11. ASSUME NEW m \in Member, ResetState(m)
         PROVE  /\ user' \in [Member -> Users] /\ failures' \in [Member -> Nat]
                /\ \A n \in Member : user'[n].status = "none" => user[n].status = "none"
    BY <1>1, <1>11 DEF ResetState, Users
  <1>12. ASSUME NEW c \in LoginCall, LoginResets(c) PROVE AuthTypes' /\ RolesAsAsked'
    <2>1. /\ loginCall[c].of \in Member /\ ResetState(loginCall[c].of)
          /\ loginCall' = [loginCall EXCEPT ![c] = [loginCall[c] EXCEPT !.stage = "compare"]]
          /\ UNCHANGED <<userRoles, token, clock, asked, raced, logins>> /\ loginCall[c].stage = "expired"
      BY <1>1, <1>3, <1>12, KindsDiffer DEF LoginResets
    <2>2. /\ [loginCall[c] EXCEPT !.stage = "compare"] \in Calls
          /\ Granted([loginCall[c] EXCEPT !.stage = "compare"], asked)
      BY <1>10, <2>1
    <2> QED
      BY <1>1, <1>2, <1>6, <1>11, <2>1, <2>2
  <1>13. ASSUME NEW c \in LoginCall, LoginSucceeds(c) PROVE AuthTypes' /\ RolesAsAsked'
    <2>1. /\ loginCall[c].of \in Member /\ ResetState(loginCall[c].of)
          /\ loginCall' = [loginCall EXCEPT ![c] = [loginCall[c] EXCEPT !.stage = "issue"]]
          /\ UNCHANGED <<userRoles, token, clock, asked, raced, logins>> /\ loginCall[c].stage = "compare"
      BY <1>1, <1>3, <1>13, KindsDiffer DEF LoginSucceeds
    <2>2. /\ [loginCall[c] EXCEPT !.stage = "issue"] \in Calls
          /\ Granted([loginCall[c] EXCEPT !.stage = "issue"], asked)
      BY <1>10, <2>1
    <2> QED
      BY <1>1, <1>2, <1>6, <1>11, <2>1, <2>2
  <1>14. ASSUME NEW c \in LoginCall, LoginFails(c) PROVE AuthTypes' /\ RolesAsAsked'
    <2>1. loginCall[c].of \in Member /\ loginCall[c].attempts \in Nat
      BY <1>3, <1>14, KindsDiffer DEF LoginFails, LoginKinds
    <2>2. /\ user' \in [Member -> Users] /\ failures' \in [Member -> Nat]
          /\ \A n \in Member : user'[n].status = "none" => user[n].status = "none"
      BY <1>1, <1>14, <2>1 DEF LoginFails, Users
    <2> QED
      BY <1>1, <1>2, <1>4, <1>6, <1>14, <2>2 DEF LoginFails
  <1>15. ASSUME NEW c \in LoginCall, LoginIssues(c) PROVE AuthTypes' /\ RolesAsAsked'
    <2>1. loginCall[c].of \in Member
      BY <1>3, <1>15, KindsDiffer DEF LoginIssues
    <2>2. resolveAccessRole(loginCall[c].roles) \in Access
      BY MoreRolesMoreAccess
    <2>3. logins' \in 0..MaxLogins /\ token' \subseteq Tokens
      BY <1>1, <1>15, <2>1, <2>2 DEF LoginIssues, Tokens
    <2> QED
      BY <1>1, <1>2, <1>4, <1>6, <1>15, <2>3 DEF LoginIssues
  <1>16. ASSUME NEW c \in LoginCall, Abandoned(c) PROVE AuthTypes' /\ RolesAsAsked'
    BY <1>1, <1>2, <1>4, <1>6, <1>16 DEF Abandoned
  <1>17. ASSUME UNCHANGED <<asked, loginCall>>,
               user' \in [Member -> Users], \A m \in Member : user'[m].status = "none" => user[m].status = "none",
               userRoles' \in [Member -> SUBSET AllRoles], \A m \in Member : userRoles'[m] \subseteq asked[m],
               token' \subseteq Tokens, clock' \in 0..MaxTime, failures' \in [Member -> Nat],
               raced' \subseteq Member, logins' \in 0..MaxLogins
         PROVE  AuthTypes' /\ RolesAsAsked'
    <2>1. AuthTypes'
      BY <1>1, <1>17, TypesFollow
    <2> QED
      BY <1>2, <1>17, <2>1 DEF RolesAsAsked
  <1>18. ASSUME NEW r \in AllRoles, DeleteRole(r) PROVE AuthTypes' /\ RolesAsAsked'
    <2>1. userRoles' \in [Member -> SUBSET AllRoles] /\ \A m \in Member : userRoles'[m] \subseteq asked[m]
      BY <1>1, <1>2, <1>18 DEF DeleteRole
    <2> QED
      BY <1>1, <1>17, <1>18, <2>1 DEF DeleteRole
  <1>19. ASSUME NEW m \in Member, \/ LockExpires(m)
                                  \/ \E s \in {"ACTIVE", "INACTIVE"} : UpdateStatus(m, s)
         PROVE  AuthTypes' /\ RolesAsAsked'
    <2>1. user' \in [Member -> Users] /\ \A n \in Member : user'[n].status = "none" => user[n].status = "none"
      <3>1. CASE LockExpires(m)
        BY <1>1, <3>1 DEF LockExpires, Users
      <3>2. ASSUME NEW s \in {"ACTIVE", "INACTIVE"}, UpdateStatus(m, s)
            PROVE  user' \in [Member -> Users] /\ \A n \in Member : user'[n].status = "none" => user[n].status = "none"
        BY <1>1, <3>2 DEF UpdateStatus, Users
      <3> QED
        BY <1>19, <3>1, <3>2
    <2>2. UNCHANGED <<userRoles, token, clock, asked, loginCall, failures, raced, logins>>
      BY <1>19 DEF LockExpires, UpdateStatus
    <2> QED
      BY <1>1, <1>2, <1>17, <2>1, <2>2
  <1>20. ASSUME NEW t \in token, Refresh(t) PROVE AuthTypes' /\ RolesAsAsked'
    <2>1. t \in Tokens
      BY <1>1
    <2>2. [of |-> t.of, role |-> resolveAccessRole(userRoles[t.of]), at |-> clock, login |-> t.login] \in Tokens
      BY <1>1, <2>1, MoreRolesMoreAccess DEF Tokens
    <2>3. token' \subseteq Tokens
      BY <1>1, <1>20, <2>2 DEF Refresh, Without
    <2> QED
      BY <1>1, <1>2, <1>17, <1>20, <2>3 DEF Refresh
  <1>21. ASSUME NEW gone \in SUBSET token, Logout(gone) PROVE AuthTypes' /\ RolesAsAsked'
    BY <1>1, <1>2, <1>17, <1>21 DEF Logout
  <1>22. ASSUME Tick PROVE AuthTypes' /\ RolesAsAsked'
    BY <1>1, <1>2, <1>17, <1>22 DEF Tick
  <1> QED
    BY <1>5, <1>7, <1>8, <1>9, <1>12, <1>13, <1>14, <1>15, <1>16, <1>18, <1>19, <1>20, <1>21, <1>22 DEF AccountsNext

\* A login has one token at a time, and no token more access than its user was created with.
LEMMA TokensStayTheirs ==
  ASSUME AccountsAssumption, AuthTypes, RolesAsAsked, AuthTypes', TokensDiffer, AccountsNext
  PROVE  TokensDiffer'
  <1>1. /\ token \subseteq Tokens /\ logins \in Nat /\ clock \in 0..MaxTime
        /\ asked \in [Member -> SUBSET AllRoles] /\ loginCall \in [LoginCall -> Calls]
    BY TypesAre DEF AccountsAssumption
  <1>2. /\ \A t \in token : t.login <= logins
        /\ \A s, t \in token : s.login = t.login => s = t
        /\ \A t \in token : Rank(t.role) <= Rank(resolveAccessRole(asked[t.of]))
    BY DEF TokensDiffer, SessionsStayTheirs
  <1>3. \A t \in token : t.of \in Member /\ t.login \in Nat
    BY <1>1 DEF Tokens, AccountsAssumption
  <1>4. ASSUME token' \subseteq token, UNCHANGED <<logins, asked>> PROVE TokensDiffer'
    BY <1>2, <1>4 DEF TokensDiffer, SessionsStayTheirs
  <1>5. ASSUME NEW c \in LoginCall, NEW m \in Member, NEW names \in Requests, CreateUser(c, m, names)
        PROVE  TokensDiffer'
    <2>1. /\ UNCHANGED <<token, logins>> /\ asked[m] = {}
          /\ \A n \in Member \ {m} : asked'[n] = asked[n]
      BY <1>1, <1>5 DEF CreateUser, RolesAsAsked
    <2>2. \A n \in Member : asked[n] \subseteq asked'[n]
      BY <2>1
    <2>3. ASSUME NEW t \in token PROVE Rank(t.role) <= Rank(resolveAccessRole(asked'[t.of]))
      <3>1. Rank(resolveAccessRole(asked[t.of])) <= Rank(resolveAccessRole(asked'[t.of]))
        BY <1>3, <2>2, MoreRolesMoreAccess
      <3>2. \A x : Rank(resolveAccessRole(x)) \in Nat
        BY DEF Rank, resolveAccessRole
      <3>3. Rank(t.role) \in Nat
        BY <1>1 DEF Tokens, Access, Rank
      <3> QED
        BY <1>2, <3>1, <3>2, <3>3
    <2> QED
      BY <1>2, <2>1, <2>3 DEF TokensDiffer, SessionsStayTheirs
  <1>6. ASSUME NEW c \in LoginCall, LoginIssues(c) PROVE TokensDiffer'
    <2> DEFINE m == loginCall[c].of
               role == resolveAccessRole(loginCall[c].roles)
               new == [of |-> m, role |-> role, at |-> clock, login |-> logins + 1]
    <2>1. m \in Member /\ loginCall[c].roles \subseteq asked[m]
      BY <1>1, <1>6, KindsDiffer DEF LoginIssues, RolesAsAsked, Granted, Calls, NoLogin
    <2>2. Rank(role) <= Rank(resolveAccessRole(asked[m]))
      BY <2>1, MoreRolesMoreAccess
    <2>3. CASE token' = token /\ logins' = logins
      BY <1>4, <1>6, <2>3 DEF LoginIssues
    <2>4. CASE token' = token \cup {new} /\ logins' = logins + 1
      <3>1. asked' = asked
        BY <1>6 DEF LoginIssues
      <3>2. new.login = logins + 1 /\ new.role = role /\ new.of = m
        OBVIOUS
      <3> HIDE DEF new, m, role
      <3>3. \A t \in token : t.login # new.login
        BY <1>1, <1>2, <1>3, <3>2
      <3>4. \A t \in token' : t.login <= logins'
        BY <1>1, <1>2, <1>3, <2>4, <3>2
      <3>5. \A s, t \in token' : s.login = t.login => s = t
        BY <1>2, <2>4, <3>3
      <3>6. \A t \in token' : Rank(t.role) <= Rank(resolveAccessRole(asked'[t.of]))
        BY <1>2, <2>2, <2>4, <3>1, <3>2
      <3> QED
        BY <3>4, <3>5, <3>6 DEF TokensDiffer, SessionsStayTheirs
    <2> QED
      BY <1>6, <2>3, <2>4 DEF LoginIssues
  <1>7. ASSUME NEW t \in token, Refresh(t) PROVE TokensDiffer'
    <2> DEFINE role == resolveAccessRole(userRoles[t.of])
               new == [of |-> t.of, role |-> role, at |-> clock, login |-> t.login]
    <2>1. userRoles[t.of] \subseteq asked[t.of]
      BY <1>3 DEF RolesAsAsked
    <2>2. Rank(role) <= Rank(resolveAccessRole(asked[t.of]))
      BY <2>1, MoreRolesMoreAccess
    <2>3. token' = (token \ {t}) \cup {new} /\ UNCHANGED <<logins, asked>>
      BY <1>7 DEF Refresh, Without
    <2>4. new.login = t.login /\ new.role = role /\ new.of = t.of
      OBVIOUS
    <2> HIDE DEF new, role
    <2>5. \A u, v \in token' : u.login = v.login => u = v
      BY <1>2, <2>3, <2>4
    <2>6. \A u \in token' : u.login <= logins' /\ Rank(u.role) <= Rank(resolveAccessRole(asked'[u.of]))
      BY <1>2, <2>2, <2>3, <2>4
    <2> QED
      BY <2>5, <2>6 DEF TokensDiffer, SessionsStayTheirs
  <1>8. ASSUME NEW gone \in SUBSET token, Logout(gone) PROVE TokensDiffer'
    BY <1>4, <1>8 DEF Logout
  <1> QED
    BY <1>4, <1>5, <1>6, <1>7, <1>8
    DEF AccountsNext, BootstrapFinds, LoginReads, AssignRole, LoginResets, LoginFails, LoginSucceeds, Abandoned,
        DeleteRole, LockExpires, UpdateStatus, Tick

\* The lock: what happens to the state of users who log in once at a time.
LEMMA LocksFollow ==
  ASSUME AccountsAssumption, AuthTypes, OneAtATime, LockFollowsFailures, AccountsNext
  PROVE  OneAtATime' /\ LockFollowsFailures'
  <1>1. /\ user \in [Member -> Users] /\ failures \in [Member -> Nat] /\ raced \subseteq Member
        /\ loginCall \in [LoginCall -> Calls] /\ MaxAttempts \in Nat \ {0}
    BY TypesAre DEF AccountsAssumption
  <1>2. \A m \in Member \ raced :
          /\ user[m].attempts = failures[m] /\ failures[m] <= MaxAttempts
          /\ user[m].locked # "no" <=> failures[m] >= MaxAttempts
    BY DEF LockFollowsFailures
  <1>3. \A c \in LoginCall : loginCall[c].stage \in {"expired", "compare", "issue"} => loginCall[c] \in LoginKinds
    BY <1>1, KindsDiffer DEF Calls, NoLogin
  <1>4. ASSUME NEW m \in Member, NEW c \in LoggingIn(m), m \notin raced
        PROVE  /\ c \in LoginCall /\ loginCall[c] \in LoginKinds /\ loginCall[c].of = m
               /\ \A d \in LoginCall : d \in LoggingIn(m) => d = c
               /\ loginCall[c].stage = "expired" => user[m].locked = "over" /\ loginCall[c].attempts = 0
               /\ loginCall[c].stage = "compare" => user[m].locked = "no" /\ loginCall[c].attempts = user[m].attempts
    BY <1>3, <1>4 DEF OneAtATime, LoggingIn
  <1>5. ASSUME UNCHANGED <<failures, raced>>,
               \A m \in Member : user'[m].attempts = user[m].attempts /\ user'[m].locked = user[m].locked,
               \A d \in LoginCall : loginCall'[d] = loginCall[d]
                                     \/ loginCall'[d].stage \notin {"expired", "compare", "issue"}
        PROVE  OneAtATime' /\ LockFollowsFailures'
    <2>1. \A m \in Member : LoggingIn(m)' \subseteq LoggingIn(m)
      BY <1>5 DEF LoggingIn
    <2>2. \A m \in Member : \A d \in LoggingIn(m)' : loginCall'[d] = loginCall[d]
      BY <1>5 DEF LoggingIn
    <2> QED
      BY <1>2, <1>5, <2>1, <2>2 DEF OneAtATime, LockFollowsFailures
  <1>6. ASSUME NEW c \in LoginCall, NEW todo, loginCall' = [loginCall EXCEPT ![c] = todo]
        PROVE  \A d \in LoginCall : loginCall'[d] = IF d = c THEN todo ELSE loginCall[d]
    BY <1>1, <1>6
  <1>7. ASSUME NEW c \in LoginCall, NEW m \in Member, NEW names \in Requests, CreateUser(c, m, names)
        PROVE  OneAtATime' /\ LockFollowsFailures'
    <2>1. \A n \in Member : user'[n].attempts = user[n].attempts /\ user'[n].locked = user[n].locked
      BY <1>1, <1>7 DEF CreateUser, Users
    <2>2. \A d \in LoginCall : loginCall'[d] = loginCall[d]
                                \/ loginCall'[d].stage \notin {"expired", "compare", "issue"}
      BY <1>6, <1>7 DEF CreateUser
    <2> QED
      BY <1>5, <1>7, <2>1, <2>2 DEF CreateUser
  <1>8. ASSUME NEW c \in LoginCall, \/ AssignRole(c) \/ LoginIssues(c) \/ Abandoned(c)
                                    \/ \E m \in Member : BootstrapFinds(c, m)
        PROVE  OneAtATime' /\ LockFollowsFailures'
    <2>1. \A d \in LoginCall : loginCall'[d] = loginCall[d]
                                \/ loginCall'[d].stage \notin {"expired", "compare", "issue"}
      <3>1. CASE AssignRole(c)
        <4>1. PICK todo : loginCall' = [loginCall EXCEPT ![c] = todo]
                          /\ (todo = NoLogin \/ todo = [loginCall[c] EXCEPT !.rest = Tail(loginCall[c].rest)])
          BY <3>1 DEF AssignRole
        <4>2. loginCall[c] \in RoleKinds
          BY <1>1, <3>1, KindsDiffer DEF AssignRole, Calls, NoLogin
        <4>3. todo.stage \notin {"expired", "compare", "issue"}
          BY <4>1, <4>2 DEF NoLogin, RoleKinds
        <4> QED
          BY <1>6, <4>1, <4>3
      <3>2. CASE LoginIssues(c) \/ Abandoned(c)
        BY <1>6, <3>2 DEF LoginIssues, Abandoned, NoLogin
      <3>3. CASE \E m \in Member : BootstrapFinds(c, m)
        BY <1>6, <3>3 DEF BootstrapFinds
      <3> QED
        BY <1>8, <3>1, <3>2, <3>3
    <2>2. UNCHANGED <<user, failures, raced>>
      BY <1>8 DEF AssignRole, LoginIssues, Abandoned, BootstrapFinds
    <2> QED
      BY <1>5, <2>1, <2>2
  <1>9. CASE \/ \E r \in AllRoles : DeleteRole(r)
             \/ \E t \in token : Refresh(t)
             \/ \E gone \in SUBSET token : Logout(gone)
             \/ Tick
    BY <1>5, <1>9 DEF DeleteRole, Refresh, Logout, Tick
  <1>10. ASSUME NEW m \in Member, NEW s \in {"ACTIVE", "INACTIVE"}, UpdateStatus(m, s)
         PROVE  OneAtATime' /\ LockFollowsFailures'
    <2>1. \A n \in Member : user'[n].attempts = user[n].attempts /\ user'[n].locked = user[n].locked
      BY <1>1, <1>10 DEF UpdateStatus, Users
    <2> QED
      BY <1>5, <1>10, <2>1 DEF UpdateStatus
  <1>11. ASSUME NEW m \in Member, LockExpires(m) PROVE OneAtATime' /\ LockFollowsFailures'
    <2>1. /\ user[m].locked = "until" /\ user'[m].locked = "over" /\ user'[m].attempts = user[m].attempts
          /\ \A n \in Member \ {m} : user'[n] = user[n]
          /\ UNCHANGED <<loginCall, failures, raced>>
      BY <1>1, <1>11 DEF LockExpires, Users
    <2>2. \A n \in Member : LoggingIn(n)' = LoggingIn(n)
      BY <2>1 DEF LoggingIn
    <2>3. ASSUME m \notin raced, NEW c \in LoggingIn(m) PROVE loginCall[c].stage = "issue"
      BY <1>4, <2>1, <2>3 DEF LoggingIn
    <2>4. OneAtATime'
      BY <2>1, <2>2, <2>3 DEF OneAtATime
    <2> QED
      BY <1>2, <2>1, <2>4 DEF LockFollowsFailures
  <1>12. ASSUME NEW c \in LoginCall, NEW m \in Member, LoginReads(c, m) PROVE OneAtATime' /\ LockFollowsFailures'
    <2> DEFINE over == user[m].locked = "over"
               todo == [stage |-> IF over THEN "expired" ELSE "compare", of |-> m,
                        attempts |-> IF over THEN 0 ELSE user[m].attempts, roles |-> userRoles[m]]
    <2>1. /\ loginCall[c] = NoLogin /\ user[m].locked # "until"
          /\ raced' = IF LoggingIn(m) = {} THEN raced ELSE raced \cup {m}
          /\ UNCHANGED <<user, failures>> /\ loginCall' = [loginCall EXCEPT ![c] = todo]
      BY <1>12 DEF LoginReads
    <2>2. /\ todo.of = m /\ todo.stage \in {"expired", "compare"}
          /\ todo.stage = "expired" => user[m].locked = "over" /\ todo.attempts = 0
          /\ todo.stage = "compare" => user[m].locked = "no" /\ todo.attempts = user[m].attempts
      BY <1>1, <2>1 DEF Users
    <2> HIDE DEF todo
    <2>3. \A d \in LoginCall : loginCall'[d] = IF d = c THEN todo ELSE loginCall[d]
      BY <1>6, <2>1
    <2>4. \A n \in Member : LoggingIn(n)' = IF n = m THEN LoggingIn(m) \cup {c} ELSE LoggingIn(n)
      BY <2>1, <2>2, <2>3 DEF LoggingIn, NoLogin
    <2>5. \A n \in Member : \A d \in LoggingIn(n) : loginCall'[d] = loginCall[d]
      BY <2>1, <2>3 DEF LoggingIn, NoLogin
    <2>6. ASSUME NEW n \in Member \ raced'
          PROVE  /\ \A d, e \in LoggingIn(n)' : d = e
                 /\ \A d \in LoggingIn(n)' :
                      /\ loginCall'[d].stage = "expired" => user'[n].locked = "over" /\ loginCall'[d].attempts = 0
                      /\ loginCall'[d].stage = "compare"
                           => user'[n].locked = "no" /\ loginCall'[d].attempts = user'[n].attempts
      <3>1. n \in Member \ raced
        BY <2>1
      <3>2. CASE n = m
        <4>1. LoggingIn(m)' = {c}
          BY <2>1, <2>4, <3>2
        <4> QED
          BY <2>1, <2>2, <2>3, <3>2, <4>1
      <3>3. CASE n # m
        BY <2>1, <2>4, <2>5, <3>1, <3>3 DEF OneAtATime
      <3> QED
        BY <3>2, <3>3
    <2>7. OneAtATime'
      BY <2>6 DEF OneAtATime
    <2>8. \A n \in Member : n \notin raced' => n \notin raced
      BY <2>1
    <2> QED
      BY <1>2, <2>1, <2>7, <2>8 DEF LockFollowsFailures
  <1>13. ASSUME NEW c \in LoginCall, loginCall[c].stage \in {"expired", "compare"},
                NEW stage \in {"compare", "issue"}, stage = "compare" => loginCall[c].stage = "expired",
                loginCall' = [loginCall EXCEPT ![c] = [loginCall[c] EXCEPT !.stage = stage]],
                ResetState(loginCall[c].of), UNCHANGED raced
         PROVE  OneAtATime' /\ LockFollowsFailures'
    <2> DEFINE todo == [loginCall[c] EXCEPT !.stage = stage]
    <2>1. loginCall[c] \in LoginKinds /\ loginCall[c].of \in Member
      BY <1>3, <1>13, KindsDiffer
    <2>2. PICK m \in Member : m = loginCall[c].of
      BY <2>1
    <2>3. /\ todo.stage = stage /\ todo.of = m /\ todo.attempts = loginCall[c].attempts
          /\ loginCall' = [loginCall EXCEPT ![c] = todo]
      BY <1>13, <2>1, <2>2 DEF LoginKinds
    <2>4. /\ user'[m].attempts = 0 /\ user'[m].locked = "no" /\ failures'[m] = 0
          /\ \A n \in Member \ {m} : user'[n] = user[n] /\ failures'[n] = failures[n]
      BY <1>1, <1>13, <2>2 DEF ResetState, Users
    <2>5. c \in LoggingIn(m)
      BY <1>13, <2>2 DEF LoggingIn
    <2> HIDE DEF todo
    <2>6. \A d \in LoginCall : loginCall'[d] = IF d = c THEN todo ELSE loginCall[d]
      BY <1>6, <2>3
    <2>7. \A n \in Member : LoggingIn(n)' = LoggingIn(n)
      BY <1>13, <2>2, <2>3, <2>6 DEF LoggingIn
    <2>8. \A n \in Member \ {m} : \A d \in LoggingIn(n) : d # c /\ loginCall'[d] = loginCall[d]
      BY <2>2, <2>6 DEF LoggingIn
    <2>9. m \notin raced => (\A d \in LoggingIn(m) : d = c) /\ (stage = "compare" => todo.attempts = 0)
      <3> SUFFICES ASSUME m \notin raced
                   PROVE  (\A d \in LoggingIn(m) : d = c) /\ (stage = "compare" => todo.attempts = 0)
        OBVIOUS
      <3>1. /\ \A d \in LoginCall : d \in LoggingIn(m) => d = c
            /\ loginCall[c].stage = "expired" => loginCall[c].attempts = 0
        BY <1>4, <2>5
      <3>2. LoggingIn(m) \subseteq LoginCall
        BY DEF LoggingIn
      <3> QED
        BY <1>13, <2>3, <3>1, <3>2
    <2>10. ASSUME NEW n \in Member \ raced'
           PROVE  /\ \A d, e \in LoggingIn(n)' : d = e
                  /\ \A d \in LoggingIn(n)' :
                       /\ loginCall'[d].stage = "expired" => user'[n].locked = "over" /\ loginCall'[d].attempts = 0
                       /\ loginCall'[d].stage = "compare"
                            => user'[n].locked = "no" /\ loginCall'[d].attempts = user'[n].attempts
      <3>1. n \notin raced
        BY <1>13
      <3>2. CASE n = m
        <4>1. \A d \in LoggingIn(n)' : d = c
          BY <2>7, <2>9, <3>1, <3>2
        <4>2. loginCall'[c] = todo
          BY <2>6
        <4> QED
          BY <1>13, <2>3, <2>4, <2>9, <3>1, <3>2, <4>1, <4>2
      <3>3. CASE n # m
        BY <2>4, <2>7, <2>8, <3>1, <3>3 DEF OneAtATime
      <3> QED
        BY <3>2, <3>3
    <2>11. OneAtATime'
      BY <2>10 DEF OneAtATime
    <2>12. LockFollowsFailures'
      BY <1>1, <1>2, <1>13, <2>4 DEF LockFollowsFailures
    <2> QED
      BY <2>11, <2>12
  <1>14. ASSUME NEW c \in LoginCall, LoginResets(c) \/ LoginSucceeds(c) PROVE OneAtATime' /\ LockFollowsFailures'
    BY <1>13, <1>14 DEF LoginResets, LoginSucceeds
  <1>15. ASSUME NEW c \in LoginCall, LoginFails(c) PROVE OneAtATime' /\ LockFollowsFailures'
    <2>1. loginCall[c].stage = "compare" /\ loginCall[c] \in LoginKinds
      BY <1>3, <1>15 DEF LoginFails
    <2>2. PICK m \in Member : m = loginCall[c].of
      BY <2>1, KindsDiffer
    <2> DEFINE next == loginCall[c].attempts + 1
    <2>12. /\ UNCHANGED raced /\ loginCall[c].attempts \in Nat
           /\ user' = [user EXCEPT ![m].attempts = next,
                                   ![m].locked = IF next >= MaxAttempts THEN "until" ELSE "no"]
           /\ failures' = [failures EXCEPT ![m] = failures[m] + 1]
           /\ loginCall' = [loginCall EXCEPT ![c] = NoLogin]
      BY <1>15, <2>1, <2>2 DEF LoginFails, LoginKinds
    <2>3. /\ user'[m].attempts = next /\ failures'[m] = failures[m] + 1
          /\ user'[m].locked = IF next >= MaxAttempts THEN "until" ELSE "no"
          /\ \A n \in Member \ {m} : user'[n] = user[n] /\ failures'[n] = failures[n]
      BY <1>1, <2>12 DEF Users
    <2>4. c \in LoggingIn(m)
      BY <2>1, <2>2 DEF LoggingIn
    <2>5. \A d \in LoginCall : loginCall'[d] = IF d = c THEN NoLogin ELSE loginCall[d]
      BY <1>6, <2>12
    <2>6. \A n \in Member : LoggingIn(n)' = LoggingIn(n) \ {c}
      BY <2>5 DEF LoggingIn, NoLogin
    <2>7. \A n \in Member : \A d \in LoggingIn(n)' : loginCall'[d] = loginCall[d]
      BY <2>5, <2>6 DEF LoggingIn
    <2>8. m \notin raced => /\ \A n \in Member : n = m => LoggingIn(n)' = {}
                            /\ user[m].locked = "no" /\ loginCall[c].attempts = user[m].attempts
      <3>1. ASSUME m \notin raced
            PROVE  /\ \A d \in LoginCall : d \in LoggingIn(m) => d = c
                   /\ user[m].locked = "no" /\ loginCall[c].attempts = user[m].attempts
        BY <1>4, <2>1, <2>4, <3>1
      <3>2. LoggingIn(m) \subseteq LoginCall
        BY DEF LoggingIn
      <3> QED
        BY <2>2, <2>6, <3>1, <3>2
    <2>9. m \notin raced => next = failures[m] + 1 /\ failures[m] < MaxAttempts /\ failures[m] \in Nat
      BY <1>1, <1>2, <2>8
    <2> HIDE DEF next
    <2>10. OneAtATime'
      <3>1. ASSUME NEW n \in Member \ raced'
            PROVE  /\ \A d, e \in LoggingIn(n)' : d = e
                   /\ \A d \in LoggingIn(n)' :
                        /\ loginCall'[d].stage = "expired" => user'[n].locked = "over" /\ loginCall'[d].attempts = 0
                        /\ loginCall'[d].stage = "compare"
                             => user'[n].locked = "no" /\ loginCall'[d].attempts = user'[n].attempts
        <4>1. n \notin raced
          BY <2>12
        <4>2. CASE n = m
          BY <2>8, <4>1, <4>2
        <4>3. CASE n # m
          BY <2>3, <2>6, <2>7, <4>1, <4>3 DEF OneAtATime
        <4> QED
          BY <4>2, <4>3
      <3> QED
        BY <3>1 DEF OneAtATime
    <2>11. LockFollowsFailures'
      <3> SUFFICES ASSUME NEW n \in Member \ raced
                   PROVE  /\ user'[n].attempts = failures'[n] /\ failures'[n] <= MaxAttempts
                          /\ user'[n].locked # "no" <=> failures'[n] >= MaxAttempts
        BY <2>12 DEF LockFollowsFailures
      <3>1. CASE n = m
        BY <1>1, <2>3, <2>9, <3>1
      <3>2. CASE n # m
        BY <1>2, <2>3, <3>2
      <3> QED
        BY <3>1, <3>2
    <2> QED
      BY <2>10, <2>11
  <1> QED
    BY <1>7, <1>8, <1>9, <1>10, <1>11, <1>12, <1>14, <1>15 DEF AccountsNext

\* Every state of the specification satisfies the invariant.
LEMMA AccountsInvariant == ASSUME AccountsAssumption PROVE AccountsSpec => []AuthInv
  <1>1. AccountsInit => AuthInv
    <2> SUFFICES ASSUME AccountsInit PROVE AuthInv
      OBVIOUS
    <2>1. AuthTypes
      BY DEF AccountsInit, AuthTypes, AccountsTypeOK, NoUser, Calls, AccountsAssumption
    <2>2. \A m \in Member : LoggingIn(m) = {}
      BY DEF AccountsInit, LoggingIn, NoLogin
    <2>3. RolesAsAsked /\ TokensDiffer
      BY KindsDiffer DEF AccountsInit, RolesAsAsked, Granted, TokensDiffer, SessionsStayTheirs
    <2>4. OneAtATime /\ LockFollowsFailures
      BY <2>2 DEF AccountsInit, OneAtATime, LockFollowsFailures, NoUser, AccountsAssumption
    <2> QED
      BY <2>1, <2>3, <2>4 DEF AuthInv
  <1>2. AuthInv /\ [AccountsNext]_authVars => AuthInv'
    <2> SUFFICES ASSUME AuthInv, [AccountsNext]_authVars PROVE AuthInv'
      OBVIOUS
    <2>1. CASE AccountsNext
      BY <2>1, TypesAndRoles, TokensStayTheirs, LocksFollow DEF AuthInv
    <2>2. CASE UNCHANGED authVars
      BY <2>2 DEF authVars, AuthInv, AuthTypes, AccountsTypeOK, RolesAsAsked, TokensDiffer, SessionsStayTheirs,
                  OneAtATime, LoggingIn, LockFollowsFailures
    <2> QED
      BY <2>1, <2>2
  <1> QED
    BY <1>1, <1>2, PTL DEF AccountsSpec

\* Users that log in once at a time are locked when, and only when, they gave the limit of wrong
\* passwords; and a session has one refresh token and no more access than its user was created
\* with, whatever requests stop between their statements (AuthService, UsersService).
THEOREM AccountsStaySound == AccountsSpec => []AccountsAreSound
  <1>1. AuthInv => AccountsAreSound
    BY DEF AuthInv, AuthTypes, TokensDiffer, AccountsAreSound
  <1> QED
    BY <1>1, AccountsAssumption, AccountsInvariant, PTL

-----------------------------------------------------------------------------
(* Customers and the orders guests placed (StoreAccount).                   *)

\* A request that found a customer, or claims for one, holds a customer of its account.
CallsHoldTheirRow ==
  \A c \in AccountCall : LET todo == accountCall[c] IN
    /\ todo.stage = "profile" /\ todo.found # NoRow => ownerOf[todo.found] = todo.of
    /\ todo.stage = "claim" => ownerOf[todo.row] = todo.of

\* A guest order that was claimed belongs to the account of its e-mail.
ClaimedByOwner ==
  \A o \in GuestOrder : claimedBy[o] # NoRow => guestOf[o] # NoAccount /\ ownerOf[claimedBy[o]] = guestOf[o]

\* A guest order whose e-mail has a customer is claimed, was skipped or came later.
NoneLeftBehind ==
  \A a \in Account, r \in CustomerRow, o \in GuestOrder :
    ownerOf[r] = a /\ guestOf[o] = a /\ claimedBy[o] = NoRow => o \in skipped \cup late

\* A code grants access once, and only as it is consumed.
CodesCount ==
  \A l \in Lookup :
    /\ granted[l] <= 1
    /\ lookup[l].status # "consumed" => granted[l] = 0
    /\ lookup[l].status # "none" => lookup[l].email \in Account

\* An account has one customer, unless two were created at once.
OneRowEach ==
  \A a \in Account \ twofold, r, s \in CustomerRow : ownerOf[r] = a /\ ownerOf[s] = a => r = s

\* What a step needs and leaves.
CustomersInv ==
  StoreAccountTypeOK /\ CodesCount /\ CallsHoldTheirRow /\ ClaimedByOwner /\ NoneLeftBehind /\ OneRowEach

\* A claim in flight.
CallKinds == {NoCall} \cup [stage : {"created"}, of : Account]
  \cup [stage : {"profile"}, of : Account, found : CustomerRow \cup {NoRow}]
  \cup [stage : {"claim"}, of : Account, row : CustomerRow]

\* The verifications: a code is consumed when it is exchanged.
LEMMA CodesCounted ==
  ASSUME StoreAccountTypeOK, CodesCount, StoreAccountNext
  PROVE  CodesCount'
  <1>1. lookup \in [Lookup -> [email : Account \cup {NoAccount},
                               status : {"none", "sent", "expired", "consumed"}]]
        /\ granted \in [Lookup -> Nat]
    BY DEF StoreAccountTypeOK
  <1>2. CASE UNCHANGED <<lookup, granted>>
    BY <1>2 DEF CodesCount
  <1>3. CASE \E a \in Account, l \in Lookup : RequestLookup(l, a)
    BY <1>1, <1>3 DEF RequestLookup, CodesCount, NoLookup
  <1>4. CASE \E l \in Lookup : VerifyLookup(l)
    <2>1. PICK l \in Lookup : VerifyLookup(l)
      BY <1>4
    <2>2. granted[l] = 0 /\ lookup[l].email \in Account
      BY <2>1 DEF VerifyLookup, Verifiable, CodesCount
    <2>3. /\ lookup'[l].status = "consumed" /\ lookup'[l].email = lookup[l].email /\ granted'[l] = 1
          /\ \A k \in Lookup \ {l} : lookup'[k] = lookup[k] /\ granted'[k] = granted[k]
      BY <1>1, <2>1, <2>2 DEF VerifyLookup
    <2> QED
      BY <2>2, <2>3 DEF CodesCount
  <1>5. CASE TokenExpires
    BY <1>1, <1>5 DEF TokenExpires, CodesCount
  <1> QED
    BY <1>2, <1>3, <1>4, <1>5
    DEF StoreAccountNext, RegisterUser, ClaimBegins, ProfileLooks, ProfileWrites, ClaimWrites, AccountCallEnds,
        ResolveCustomer, CheckoutIdentity, CreateAndClaim, GuestCheckout

\* Every step keeps the types.
LEMMA StoreAccountTypes ==
  ASSUME StoreAccountAssumption, StoreAccountTypeOK, CodesCount, StoreAccountNext
  PROVE  StoreAccountTypeOK'
  <1> USE DEF StoreAccountTypeOK
  <1>1. ASSUME NEW c \in AccountCall, NEW todo \in CallKinds, accountCall' = [accountCall EXCEPT ![c] = todo]
        PROVE  accountCall' \in [AccountCall -> CallKinds]
    BY <1>1 DEF CallKinds
  <1>2. \A c \in AccountCall :
          /\ accountCall[c].stage = "created" => accountCall[c].of \in Account
          /\ accountCall[c].stage = "profile" => accountCall[c].of \in Account
                                                   /\ accountCall[c].found \in CustomerRow \cup {NoRow}
          /\ accountCall[c].stage = "claim" => accountCall[c].of \in Account /\ accountCall[c].row \in CustomerRow
    BY DEF NoCall
  <1>3. ASSUME NEW a \in Account, NEW r \in CustomerRow \cup {NoRow}, ClaimFor(a, r)
        PROVE  claimedBy' \in [GuestOrder -> CustomerRow \cup {NoRow}]
    BY <1>3 DEF ClaimFor
  <1>4. ASSUME NEW a \in Account, NEW r \in CustomerRow, NewCustomer(a, r)
        PROVE  ownerOf' \in [CustomerRow -> Account \cup {NoAccount}]
    BY <1>4 DEF NewCustomer
  <1>5. ASSUME NEW c \in AccountCall, NEW a \in Account, RegisterUser(c, a) PROVE StoreAccountTypeOK'
    <2>1. [stage |-> "created", of |-> a] \in CallKinds
      BY DEF CallKinds
    <2>2. accountCall' \in [AccountCall -> CallKinds]
      BY <1>1, <1>5, <2>1 DEF RegisterUser
    <2> QED
      BY <1>5, <2>2 DEF RegisterUser, CallKinds
  <1>6. ASSUME NEW c \in AccountCall, NEW a \in Account, NEW email \in Account, ClaimBegins(c, a, email)
        PROVE  StoreAccountTypeOK'
    <2>1. PICK r \in CustomersOf(a) :
            accountCall' = [accountCall EXCEPT ![c] = [stage |-> "claim", of |-> email, row |-> r]]
      BY <1>6 DEF ClaimBegins
    <2>2. [stage |-> "claim", of |-> email, row |-> r] \in CallKinds
      BY <2>1 DEF CallKinds, CustomersOf
    <2>3. accountCall' \in [AccountCall -> CallKinds]
      BY <1>1, <2>1, <2>2
    <2> QED
      BY <1>6, <2>3 DEF ClaimBegins, CallKinds
  <1>7. ASSUME NEW c \in AccountCall, ProfileLooks(c) PROVE StoreAccountTypeOK'
    <2>1. PICK r \in CustomerRow \cup {NoRow} :
            accountCall' = [accountCall EXCEPT ![c] = [stage |-> "profile", of |-> accountCall[c].of, found |-> r]]
      BY <1>7 DEF ProfileLooks
    <2>2. [stage |-> "profile", of |-> accountCall[c].of, found |-> r] \in CallKinds
      BY <1>2, <1>7 DEF ProfileLooks, CallKinds
    <2>3. accountCall' \in [AccountCall -> CallKinds]
      BY <1>1, <2>1, <2>2
    <2> QED
      BY <1>7, <2>3 DEF ProfileLooks, CallKinds
  <1>8. ASSUME NEW c \in AccountCall, accountCall' = [accountCall EXCEPT ![c] = NoCall]
        PROVE  accountCall' \in [AccountCall -> CallKinds]
    BY <1>1, <1>8 DEF CallKinds
  <1>9. ASSUME NEW c \in AccountCall, ProfileWrites(c) PROVE StoreAccountTypeOK'
    <2>1. accountCall[c].of \in Account /\ accountCall[c].found \in CustomerRow \cup {NoRow}
      BY <1>2, <1>9 DEF ProfileWrites
    <2>2. /\ claimedBy' \in [GuestOrder -> CustomerRow \cup {NoRow}]
          /\ ownerOf' \in [CustomerRow -> Account \cup {NoAccount}]
          /\ twofold' \subseteq Account
      BY <1>3, <1>4, <1>9, <2>1 DEF ProfileWrites
    <2>3. accountCall' \in [AccountCall -> CallKinds]
      BY <1>8, <1>9 DEF ProfileWrites
    <2> QED
      BY <1>9, <2>2, <2>3 DEF ProfileWrites, CallKinds
  <1>10. ASSUME NEW c \in AccountCall, ClaimWrites(c) \/ AccountCallEnds(c) PROVE StoreAccountTypeOK'
    <2>1. accountCall' \in [AccountCall -> CallKinds]
      BY <1>8, <1>10 DEF ClaimWrites, AccountCallEnds
    <2>2. claimedBy' \in [GuestOrder -> CustomerRow \cup {NoRow}]
      BY <1>2, <1>3, <1>10 DEF ClaimWrites, AccountCallEnds
    <2> QED
      BY <1>10, <2>1, <2>2 DEF ClaimWrites, AccountCallEnds, CallKinds
  <1>11. ASSUME NEW a \in Account, ResolveCustomer(a) \/ CheckoutIdentity(a) PROVE StoreAccountTypeOK'
    <2>1. ownerOf' \in [CustomerRow -> Account \cup {NoAccount}]
          /\ claimedBy' \in [GuestOrder -> CustomerRow \cup {NoRow}]
      BY <1>3, <1>4, <1>11 DEF ResolveCustomer, CheckoutIdentity, CreateAndClaim
    <2> QED
      BY <1>11, <2>1 DEF ResolveCustomer, CheckoutIdentity, Claimable
  <1>12. ASSUME NEW a \in Account, NEW o \in GuestOrder, GuestCheckout(o, a) PROVE StoreAccountTypeOK'
    BY <1>12 DEF GuestCheckout
  <1>13. ASSUME NEW a \in Account, NEW l \in Lookup, RequestLookup(l, a) PROVE StoreAccountTypeOK'
    BY <1>13 DEF RequestLookup
  <1>14. ASSUME NEW l \in Lookup, VerifyLookup(l) PROVE StoreAccountTypeOK'
    <2>1. lookup[l].email \in Account
      BY <1>14 DEF VerifyLookup, Verifiable, CodesCount
    <2> QED
      BY <1>14, <2>1 DEF VerifyLookup
  <1>15. ASSUME TokenExpires PROVE StoreAccountTypeOK'
    BY <1>15 DEF TokenExpires
  <1> QED
    BY <1>5, <1>6, <1>7, <1>9, <1>10, <1>11, <1>12, <1>13, <1>14, <1>15 DEF StoreAccountNext

\* The rows of the accounts when no row of customers, no order and no claim changes but by
\* the assignments of claimedBy that ClaimFor makes for a customer of the account.
LEMMA ClaimsGoRight ==
  ASSUME StoreAccountAssumption, CustomersInv, NEW a \in Account, NEW r \in CustomerRow, ownerOf'[r] = a,
         ClaimFor(a, r), guestOf' = guestOf,
         \A s \in CustomerRow : ownerOf[s] # NoAccount => ownerOf'[s] = ownerOf[s]
  PROVE  ClaimedByOwner' /\ \A o \in GuestOrder : guestOf[o] = a => claimedBy'[o] # NoRow
  <1>1. \A o \in GuestOrder : claimedBy'[o] = IF guestOf[o] = a /\ claimedBy[o] = NoRow THEN r ELSE claimedBy[o]
    BY DEF ClaimFor, Claimable
  <1>2. /\ claimedBy \in [GuestOrder -> CustomerRow \cup {NoRow}]
        /\ r # NoRow /\ a # NoAccount
    BY DEF CustomersInv, StoreAccountTypeOK, StoreAccountAssumption
  <1>3. ASSUME NEW o \in GuestOrder, claimedBy'[o] # NoRow
        PROVE  guestOf'[o] # NoAccount /\ ownerOf'[claimedBy'[o]] = guestOf'[o]
    <2>1. CASE guestOf[o] = a /\ claimedBy[o] = NoRow
      BY <1>1, <1>2, <2>1
    <2>2. CASE ~ (guestOf[o] = a /\ claimedBy[o] = NoRow)
      <3>1. claimedBy'[o] = claimedBy[o] /\ claimedBy[o] \in CustomerRow
        BY <1>1, <1>2, <1>3, <2>2
      <3>2. guestOf[o] # NoAccount /\ ownerOf[claimedBy[o]] = guestOf[o]
        BY <1>3, <3>1 DEF CustomersInv, ClaimedByOwner
      <3> QED
        BY <3>1, <3>2
    <2> QED
      BY <2>1, <2>2
  <1>4. \A o \in GuestOrder : guestOf[o] = a => claimedBy'[o] # NoRow
    BY <1>1, <1>2
  <1> QED
    BY <1>3, <1>4 DEF ClaimedByOwner

\* A customer is created for an account, and its orders are claimed for it or skipped.
LEMMA CustomerCreated ==
  ASSUME StoreAccountAssumption, CustomersInv, StoreAccountTypeOK', CodesCount',
         NEW a \in Account, NEW r \in CustomerRow, NewCustomer(a, r), guestOf' = guestOf, late' = late,
         skipped \subseteq skipped', twofold \subseteq twofold',
         \/ ClaimFor(a, r)
         \/ claimedBy' = claimedBy /\ Claimable(a) \subseteq skipped',
         a \notin twofold' => CustomersOf(a) = {},
         \A c \in AccountCall : accountCall'[c] = accountCall[c] \/ accountCall'[c] = NoCall
  PROVE  CustomersInv'
  <1>1. /\ StoreAccountTypeOK /\ CallsHoldTheirRow /\ ClaimedByOwner /\ NoneLeftBehind /\ OneRowEach
        /\ a # NoAccount /\ r # NoRow /\ ownerOf \in [CustomerRow -> Account \cup {NoAccount}]
        /\ claimedBy \in [GuestOrder -> CustomerRow \cup {NoRow}]
    BY DEF CustomersInv, StoreAccountAssumption, StoreAccountTypeOK
  <1>2. ownerOf[r] = NoAccount /\ ownerOf'[r] = a /\ \A s \in CustomerRow : s # r => ownerOf'[s] = ownerOf[s]
    BY <1>1 DEF NewCustomer
  <1>3. \A s \in CustomerRow : ownerOf[s] # NoAccount => ownerOf'[s] = ownerOf[s]
    BY <1>2
  <1>4. CallsHoldTheirRow'
    <2> SUFFICES ASSUME NEW c \in AccountCall
                 PROVE  LET todo == accountCall'[c] IN
                          /\ todo.stage = "profile" /\ todo.found # NoRow => ownerOf'[todo.found] = todo.of
                          /\ todo.stage = "claim" => ownerOf'[todo.row] = todo.of
      BY DEF CallsHoldTheirRow
    <2>1. CASE accountCall'[c] = NoCall
      BY <2>1 DEF NoCall
    <2>2. CASE accountCall'[c] = accountCall[c]
      <3>1. /\ accountCall[c].stage = "profile" => accountCall[c].of \in Account /\ accountCall[c].found \in CustomerRow \cup {NoRow}
            /\ accountCall[c].stage = "claim" => accountCall[c].of \in Account /\ accountCall[c].row \in CustomerRow
        BY <1>1 DEF StoreAccountTypeOK, NoCall
      <3> QED
        BY <1>1, <1>3, <2>2, <3>1 DEF CallsHoldTheirRow, StoreAccountAssumption
    <2> QED
      BY <2>1, <2>2
  <1>5. OneRowEach'
    BY <1>1, <1>2 DEF OneRowEach, CustomersOf
  <1>6. CASE ClaimFor(a, r)
    <2>1. ClaimedByOwner' /\ \A o \in GuestOrder : guestOf[o] = a => claimedBy'[o] # NoRow
      BY <1>2, <1>3, <1>6, ClaimsGoRight
    <2>2. \A o \in GuestOrder : claimedBy'[o] = NoRow => claimedBy[o] = NoRow
      BY <1>1, <1>6 DEF ClaimFor
    <2>3. NoneLeftBehind'
      BY <1>1, <1>2, <2>1, <2>2 DEF NoneLeftBehind
    <2> QED
      BY <1>4, <1>5, <2>1, <2>3 DEF CustomersInv
  <1>7. CASE claimedBy' = claimedBy /\ Claimable(a) \subseteq skipped'
    <2>1. ClaimedByOwner'
      BY <1>1, <1>3, <1>7 DEF ClaimedByOwner
    <2>2. NoneLeftBehind'
      BY <1>1, <1>2, <1>7 DEF NoneLeftBehind, Claimable
    <2> QED
      BY <1>4, <1>5, <2>1, <2>2 DEF CustomersInv
  <1> QED
    BY <1>6, <1>7

\* Every other step: the customers stay, and orders are at most claimed for a customer that is there.
LEMMA CustomersKept ==
  ASSUME StoreAccountAssumption, CustomersInv, StoreAccountTypeOK', CodesCount', CallsHoldTheirRow',
         UNCHANGED <<ownerOf, guestOf, skipped, late, twofold>>,
         \/ UNCHANGED claimedBy
         \/ \E a \in Account, r \in CustomerRow : ownerOf[r] = a /\ ClaimFor(a, r)
  PROVE  CustomersInv'
  <1>1. /\ StoreAccountTypeOK /\ ClaimedByOwner /\ NoneLeftBehind /\ OneRowEach
        /\ claimedBy \in [GuestOrder -> CustomerRow \cup {NoRow}]
    BY DEF CustomersInv, StoreAccountTypeOK
  <1>2. OneRowEach'
    BY <1>1 DEF OneRowEach
  <1>3. ClaimedByOwner'
    <2>1. CASE UNCHANGED claimedBy
      BY <1>1, <2>1 DEF ClaimedByOwner
    <2>2. CASE \E a \in Account, r \in CustomerRow : ownerOf[r] = a /\ ClaimFor(a, r)
      BY <2>2, ClaimsGoRight
    <2> QED
      BY <2>1, <2>2
  <1>4. \A o \in GuestOrder : claimedBy'[o] = NoRow => claimedBy[o] = NoRow
    BY <1>1 DEF ClaimFor, StoreAccountAssumption
  <1>5. NoneLeftBehind'
    BY <1>1, <1>4 DEF NoneLeftBehind
  <1> QED
    BY <1>2, <1>3, <1>5 DEF CustomersInv

\* Every step keeps the invariant.
LEMMA CustomersSteps ==
  ASSUME StoreAccountAssumption, CustomersInv, StoreAccountNext
  PROVE  CustomersInv'
  <1>1. /\ StoreAccountTypeOK /\ CodesCount /\ CallsHoldTheirRow /\ ClaimedByOwner /\ NoneLeftBehind /\ OneRowEach
        /\ NoAccount \notin Account /\ NoRow \notin CustomerRow
    BY DEF CustomersInv, StoreAccountAssumption
  <1>2. StoreAccountTypeOK' /\ CodesCount'
    BY <1>1, StoreAccountTypes, CodesCounted
  <1>3. \A c \in AccountCall :
          /\ accountCall[c].stage = "created" => accountCall[c].of \in Account
          /\ accountCall[c].stage = "profile" => accountCall[c].of \in Account
                                                   /\ accountCall[c].found \in CustomerRow \cup {NoRow}
          /\ accountCall[c].stage = "claim" => accountCall[c].of \in Account /\ accountCall[c].row \in CustomerRow
    BY <1>1 DEF StoreAccountTypeOK, NoCall
  <1>4. ASSUME NEW c \in AccountCall, NEW todo, accountCall' = [accountCall EXCEPT ![c] = todo], ownerOf' = ownerOf,
               todo.stage = "profile" /\ todo.found # NoRow => ownerOf[todo.found] = todo.of,
               todo.stage = "claim" => ownerOf[todo.row] = todo.of
        PROVE  CallsHoldTheirRow'
    <2>1. \A d \in AccountCall : accountCall'[d] = IF d = c THEN todo ELSE accountCall[d]
      BY <1>1, <1>4 DEF StoreAccountTypeOK
    <2> QED
      BY <1>1, <1>4, <2>1 DEF CallsHoldTheirRow
  <1>5. ASSUME NEW c \in AccountCall, accountCall' = [accountCall EXCEPT ![c] = NoCall]
        PROVE  /\ \A d \in AccountCall : accountCall'[d] = accountCall[d] \/ accountCall'[d] = NoCall
               /\ ownerOf' = ownerOf => CallsHoldTheirRow'
    <2>1. \A d \in AccountCall : accountCall'[d] = IF d = c THEN NoCall ELSE accountCall[d]
      BY <1>1, <1>5 DEF StoreAccountTypeOK
    <2>2. NoCall.stage # "profile" /\ NoCall.stage # "claim"
      BY DEF NoCall
    <2> QED
      BY <1>4, <1>5, <2>1, <2>2
  <1>6. ASSUME NEW c \in AccountCall, NEW a \in Account, RegisterUser(c, a) PROVE CustomersInv'
    <2>1. CallsHoldTheirRow'
      BY <1>4, <1>6 DEF RegisterUser
    <2> QED
      BY <1>2, <1>6, <2>1, CustomersKept DEF RegisterUser
  <1>7. ASSUME NEW c \in AccountCall, NEW a \in Account, NEW email \in Account, ClaimBegins(c, a, email)
        PROVE  CustomersInv'
    <2>1. PICK r \in CustomersOf(a) :
            accountCall' = [accountCall EXCEPT ![c] = [stage |-> "claim", of |-> email, row |-> r]]
      BY <1>7 DEF ClaimBegins
    <2>2. ownerOf[r] = email /\ ownerOf' = ownerOf
      BY <1>7, <2>1 DEF ClaimBegins, SameAddress, CustomersOf
    <2>3. CallsHoldTheirRow'
      BY <1>4, <2>1, <2>2
    <2> QED
      BY <1>2, <1>7, <2>3, CustomersKept DEF ClaimBegins
  <1>8. ASSUME NEW c \in AccountCall, ProfileLooks(c) PROVE CustomersInv'
    <2>1. PICK r \in CustomerRow \cup {NoRow} :
            /\ accountCall' = [accountCall EXCEPT ![c] = [stage |-> "profile", of |-> accountCall[c].of, found |-> r]]
            /\ r = NoRow \/ r \in CustomersOf(accountCall[c].of)
      BY <1>8 DEF ProfileLooks
    <2>2. (r # NoRow => ownerOf[r] = accountCall[c].of) /\ ownerOf' = ownerOf
      BY <1>8, <2>1 DEF ProfileLooks, CustomersOf
    <2>3. CallsHoldTheirRow'
      BY <1>4, <2>1, <2>2
    <2> QED
      BY <1>2, <1>8, <2>3, CustomersKept DEF ProfileLooks
  <1>9. ASSUME NEW c \in AccountCall, ProfileWrites(c) PROVE CustomersInv'
    <2>1. accountCall[c].of \in Account /\ accountCall[c].found \in CustomerRow \cup {NoRow}
      BY <1>3, <1>9 DEF ProfileWrites
    <2>2. CASE accountCall[c].found = NoRow
      <3>1. PICK r \in CustomerRow : NewCustomer(accountCall[c].of, r) /\ ClaimFor(accountCall[c].of, r)
        BY <1>9, <2>2 DEF ProfileWrites
      <3>2. /\ UNCHANGED <<guestOf, late, skipped>>
            /\ twofold' = IF CustomersOf(accountCall[c].of) # {} THEN twofold \cup {accountCall[c].of} ELSE twofold
        BY <1>9, <2>2 DEF ProfileWrites
      <3>3. \A d \in AccountCall : accountCall'[d] = accountCall[d] \/ accountCall'[d] = NoCall
        BY <1>5, <1>9 DEF ProfileWrites
      <3>4. twofold \subseteq twofold' /\ (accountCall[c].of \notin twofold' => CustomersOf(accountCall[c].of) = {})
        BY <3>2
      <3> QED
        BY <1>2, <2>1, <3>1, <3>2, <3>3, <3>4, CustomerCreated
    <2>3. CASE accountCall[c].found # NoRow
      <3>1. CallsHoldTheirRow'
        BY <1>5, <1>9, <2>3 DEF ProfileWrites
      <3>2. ownerOf[accountCall[c].found] = accountCall[c].of
        BY <1>1, <1>9, <2>3 DEF ProfileWrites, CallsHoldTheirRow
      <3> QED
        BY <1>2, <1>9, <2>1, <2>3, <3>1, <3>2, CustomersKept DEF ProfileWrites
    <2> QED
      BY <2>2, <2>3
  <1>10. ASSUME NEW c \in AccountCall, ClaimWrites(c) PROVE CustomersInv'
    <2>1. accountCall[c].of \in Account /\ accountCall[c].row \in CustomerRow
          /\ ownerOf[accountCall[c].row] = accountCall[c].of
      BY <1>1, <1>3, <1>10 DEF ClaimWrites, CallsHoldTheirRow
    <2>2. CallsHoldTheirRow'
      BY <1>5, <1>10 DEF ClaimWrites
    <2> QED
      BY <1>2, <1>10, <2>1, <2>2, CustomersKept DEF ClaimWrites
  <1>11. ASSUME NEW c \in AccountCall, AccountCallEnds(c) PROVE CustomersInv'
    <2>1. CallsHoldTheirRow'
      BY <1>5, <1>11 DEF AccountCallEnds
    <2> QED
      BY <1>2, <1>11, <2>1, CustomersKept DEF AccountCallEnds
  <1>12. ASSUME NEW a \in Account, ResolveCustomer(a) PROVE CustomersInv'
    <2>1. PICK r \in CustomerRow : NewCustomer(a, r) /\ ClaimFor(a, r)
      BY <1>12 DEF ResolveCustomer, CreateAndClaim
    <2> QED
      BY <1>2, <1>12, <2>1, CustomerCreated DEF ResolveCustomer
  <1>13. ASSUME NEW a \in Account, CheckoutIdentity(a) PROVE CustomersInv'
    <2>1. PICK r \in CustomerRow : NewCustomer(a, r)
      BY <1>13 DEF CheckoutIdentity
    <2> QED
      BY <1>2, <1>13, <2>1, CustomerCreated DEF CheckoutIdentity
  <1>14. ASSUME NEW a \in Account, NEW o \in GuestOrder, GuestCheckout(o, a) PROVE CustomersInv'
    <2>1. guestOf[o] = NoAccount /\ claimedBy[o] = NoRow
      BY <1>1, <1>14 DEF GuestCheckout, ClaimedByOwner
    <2>2. \A p \in GuestOrder : guestOf'[p] = IF p = o THEN a ELSE guestOf[p]
      BY <1>1, <1>14 DEF GuestCheckout, StoreAccountTypeOK
    <2>3. UNCHANGED <<ownerOf, claimedBy, accountCall, skipped, twofold>>
          /\ late' = IF CustomersOf(a) # {} THEN late \cup {o} ELSE late
      BY <1>14 DEF GuestCheckout
    <2>4. CallsHoldTheirRow' /\ ClaimedByOwner' /\ OneRowEach'
      BY <1>1, <2>1, <2>2, <2>3 DEF CallsHoldTheirRow, ClaimedByOwner, OneRowEach
    <2>5. NoneLeftBehind'
      BY <1>1, <2>2, <2>3 DEF NoneLeftBehind, CustomersOf
    <2> QED
      BY <1>2, <2>4, <2>5 DEF CustomersInv
  <1>15. CASE \/ \E a \in Account, l \in Lookup : RequestLookup(l, a)
              \/ \E l \in Lookup : VerifyLookup(l)
              \/ TokenExpires
    <2>1. UNCHANGED <<ownerOf, guestOf, claimedBy, accountCall, skipped, late, twofold>>
      BY <1>15 DEF RequestLookup, VerifyLookup, TokenExpires
    <2>2. CallsHoldTheirRow'
      BY <1>1, <2>1 DEF CallsHoldTheirRow
    <2> QED
      BY <1>2, <2>1, <2>2, CustomersKept
  <1> QED
    BY <1>6, <1>7, <1>8, <1>9, <1>10, <1>11, <1>12, <1>13, <1>14, <1>15 DEF StoreAccountNext

\* Every state of the specification satisfies the invariant.
LEMMA CustomersInvariant == ASSUME StoreAccountAssumption PROVE StoreAccountSpec => []CustomersInv
  <1>1. StoreAccountInit => CustomersInv
    BY DEF StoreAccountAssumption, StoreAccountInit, CustomersInv, StoreAccountTypeOK, CodesCount, CallsHoldTheirRow,
           ClaimedByOwner, NoneLeftBehind, OneRowEach, NoCall, NoLookup
  <1>2. CustomersInv /\ [StoreAccountNext]_accountVars => CustomersInv'
    <2> SUFFICES ASSUME CustomersInv, [StoreAccountNext]_accountVars PROVE CustomersInv'
      OBVIOUS
    <2>1. CASE StoreAccountNext
      BY <2>1, CustomersSteps
    <2>2. CASE UNCHANGED accountVars
      BY <2>2 DEF accountVars, CustomersInv, StoreAccountTypeOK, CodesCount, CallsHoldTheirRow, ClaimedByOwner,
                  NoneLeftBehind, OneRowEach
    <2> QED
      BY <2>1, <2>2
  <1> QED
    BY <1>1, <1>2, PTL DEF StoreAccountSpec

\* Orders of a guest go to the customer of the user with that address and to nobody else, however
\* registrations, claims and checkouts overlap, stop or are repeated; a code is exchanged once,
\* and a user has one customer unless the registration was overtaken.
THEOREM OrdersReachTheirOwner == StoreAccountSpec => []OwnersAreRight
  <1>1. ASSUME CustomersInv PROVE OwnersAreRight
    <2>1. /\ StoreAccountTypeOK /\ CodesCount /\ ClaimedByOwner /\ NoneLeftBehind /\ OneRowEach
      BY <1>1 DEF CustomersInv
    <2>2. OrdersFollowTheirGuest
      BY <2>1 DEF OrdersFollowTheirGuest, ClaimedByOwner, NoneLeftBehind, CustomersOf, Claimable
    <2>3. ASSUME NEW a \in Account \ twofold PROVE Cardinality(CustomersOf(a)) <= 1
      <3>1. \A r, s \in CustomersOf(a) : r = s
        BY <2>1 DEF OneRowEach, CustomersOf
      <3> QED
        BY <3>1, AtMostOne
    <2> QED
      BY <2>1, <2>2, <2>3 DEF OwnersAreRight, OneOfEach, CodesCount
  <1> QED
    BY <1>1, StoreAccountAssumption, CustomersInvariant, PTL

-----------------------------------------------------------------------------
(* The address book and the cart (AddressBook).                             *)

\* Rows of addresses and of the cart, and the two calls that write twice.
AddressRows == [status : {"none", "kept", "deleted"}, default : BOOLEAN, shipping : BOOLEAN, billing : BOOLEAN]
LineRows == [status : {"kept"}, key : LineKey, quantity : Nat, base : Nat]
Clearings == [stage : {"cleared"}, of : Address, new : BOOLEAN, shipping : Given, billing : Given]
Updates == [stage : {"line"}, of : CartRow, key : LineKey]

\* Only an address that is kept has a flag, and the default one has another.
FlagsAreKept ==
  \A r \in Address :
    /\ address[r].default => address[r].shipping \/ address[r].billing
    /\ address[r].shipping \/ address[r].billing => address[r].status = "kept"

\* At most one address is the default for shipping, and at most one for billing.
OneOfAKind ==
  \A r, s \in Address : /\ address[r].shipping /\ address[s].shipping => r = s
                        /\ address[r].billing /\ address[s].billing => r = s

\* Between its two writes, a request has left the flags it will set to its own address.
ClearedForOne ==
  /\ \A c, d \in Between : c = d
  /\ \A c \in Between, s \in Address : s # storeCall[c].of =>
       /\ storeCall[c].shipping = "on" => ~address[s].shipping
       /\ storeCall[c].billing = "on" => ~address[s].billing

\* What a step on the addresses needs and leaves.
BookInv == AddressBookTypeOK /\ FlagsAreKept /\ (~crossed => OneOfAKind /\ ClearedForOne)

\* Two rows of the cart never share a key.
OneLineEach ==
  \A r, s \in CartRow : cart[r].status = "kept" /\ cart[s].status = "kept" /\ cart[r].key = cart[s].key => r = s

\* A line's quantity in its unit is its quantity in base units, as long as the
\* unit is still what it was.
LinesConvert ==
  \A r \in CartRow : cart[r].status = "kept" =>
    cart[r].quantity > 0 /\ cart[r].base = cart[r].quantity * Factor[cart[r].key]

\* An update knows the key of its line, whose row is never used for another line.
UpdatesKnowTheirLine ==
  \A c \in StoreCall : storeCall[c].stage = "line" =>
    /\ cart[storeCall[c].of].status # "none"
    /\ cart[storeCall[c].of].status = "kept" => cart[storeCall[c].of].key = storeCall[c].key

\* What a step on the cart needs and leaves.
CartInv == AddressBookTypeOK /\ OneLineEach /\ LinesConvert /\ UpdatesKnowTheirLine

\* What the types say of each variable.
LEMMA Bookings ==
  ASSUME AddressBookTypeOK
  PROVE  /\ address \in [Address -> AddressRows]
         /\ cart \in [CartRow -> {NoLine} \cup [status : {"removed"}] \cup LineRows]
         /\ storeCall \in [StoreCall -> {NoRequest} \cup Clearings \cup Updates]
         /\ \A c \in StoreCall :
              /\ storeCall[c].stage = "cleared" => storeCall[c] \in Clearings
              /\ storeCall[c].stage = "line" => storeCall[c] \in Updates
              /\ storeCall[c].stage \in {"none", "cleared", "line"}
         /\ \A r \in CartRow : /\ cart[r].status = "kept" => cart[r] \in LineRows
                               /\ cart[r].status = "none" => cart[r] = NoLine
  <1>1. /\ address \in [Address -> AddressRows]
        /\ cart \in [CartRow -> {NoLine} \cup [status : {"removed"}] \cup LineRows]
        /\ storeCall \in [StoreCall -> {NoRequest} \cup Clearings \cup Updates]
    BY DEF AddressBookTypeOK, AddressRows, LineRows, Clearings, Updates
  <1>2. \A c \in StoreCall :
          /\ storeCall[c].stage = "cleared" => storeCall[c] \in Clearings
          /\ storeCall[c].stage = "line" => storeCall[c] \in Updates
          /\ storeCall[c].stage \in {"none", "cleared", "line"}
    BY <1>1 DEF NoRequest, Clearings, Updates
  <1>3. \A r \in CartRow : /\ cart[r].status = "kept" => cart[r] \in LineRows
                           /\ cart[r].status = "none" => cart[r] = NoLine
    BY <1>1 DEF NoLine, LineRows
  <1> QED
    BY <1>1, <1>2, <1>3

\* What the first write leaves of an address.
LEMMA ClearLeaves ==
  ASSUME AddressBookTypeOK, FlagsAreKept, NEW R \in SUBSET Address, NEW shipping \in Given, NEW billing \in Given
  PROVE  /\ Cleared(R, shipping, billing) \in [Address -> AddressRows]
         /\ \A r \in Address : LET row == Cleared(R, shipping, billing)[r] IN
              /\ row.status = address[r].status
              /\ row.shipping => address[r].shipping
              /\ row.billing => address[r].billing
              /\ row.default => row = address[r]
              /\ r \in R /\ shipping = "on" => ~row.shipping
              /\ r \in R /\ billing = "on" => ~row.billing
  <1>1. address \in [Address -> AddressRows]
    BY Bookings
  <1> DEFINE rows == Cleared(R, shipping, billing)
  <1>2. SUFFICES ASSUME NEW r \in Address
                 PROVE  /\ rows[r] \in AddressRows
                        /\ rows[r].status = address[r].status
                        /\ rows[r].shipping => address[r].shipping
                        /\ rows[r].billing => address[r].billing
                        /\ rows[r].default => rows[r] = address[r]
                        /\ r \in R /\ shipping = "on" => ~rows[r].shipping
                        /\ r \in R /\ billing = "on" => ~rows[r].billing
    BY DEF Cleared
  <1>3. CASE r \notin R \/ address[r].status # "kept"
    <2>1. rows[r] = address[r]
      BY <1>3 DEF Cleared
    <2>2. address[r].status # "kept" => ~address[r].shipping /\ ~address[r].billing
      BY <1>1 DEF FlagsAreKept, AddressRows
    <2> HIDE DEF rows
    <2> QED
      BY <1>1, <1>3, <2>1, <2>2
  <1>4. CASE ~ (r \notin R \/ address[r].status # "kept")
    <2>1. rows[r] = [address[r] EXCEPT !.default = FALSE,
                                       !.shipping = address[r].shipping /\ shipping # "on",
                                       !.billing = address[r].billing /\ billing # "on"]
      BY <1>4 DEF Cleared
    <2>2. /\ rows[r].default = FALSE /\ rows[r].status = address[r].status
          /\ rows[r].shipping = (address[r].shipping /\ shipping # "on")
          /\ rows[r].billing = (address[r].billing /\ billing # "on")
          /\ rows[r] \in AddressRows
      BY <1>1, <2>1 DEF AddressRows
    <2> HIDE DEF rows
    <2> QED
      BY <2>2
  <1> QED
    BY <1>3, <1>4

\* What rows the first write of a request for r leaves.
Leaves(rows, r, shipping, billing) ==
  /\ rows \in [Address -> AddressRows]
  /\ \A s \in Address :
       /\ rows[s].status = address[s].status
       /\ rows[s].shipping => address[s].shipping
       /\ rows[s].billing => address[s].billing
       /\ rows[s].default => rows[s] = address[s]
       /\ s # r /\ shipping = "on" => ~rows[s].shipping
       /\ s # r /\ billing = "on" => ~rows[s].billing

\* What the first of two writes of a call leaves of a row.
LEMMA AfterFirstWrite ==
  ASSUME AddressBookTypeOK, FlagsAreKept, NEW r \in Address, NEW new \in BOOLEAN,
         NEW shipping \in Given, NEW billing \in Given
  PROVE  Leaves(AfterClear(r, new, shipping, billing), r, shipping, billing)
  <1>1. CASE shipping = "on" \/ billing = "on"
    <2>1. PICK R \in SUBSET Address : AfterClear(r, new, shipping, billing) = Cleared(R, shipping, billing)
                                      /\ \A s \in Address : s # r => s \in R
      BY <1>1 DEF AfterClear
    <2>2. Leaves(Cleared(R, shipping, billing), r, shipping, billing)
      BY <2>1, ClearLeaves DEF Leaves
    <2> QED
      BY <2>1, <2>2
  <1>2. CASE ~ (shipping = "on" \/ billing = "on")
    <2>1. Leaves(address, r, shipping, billing)
      BY <1>2, Bookings DEF Leaves
    <2> QED
      BY <1>2, <2>1 DEF AfterClear
  <1> QED
    BY <1>1, <1>2

\* One request begins, goes on or ends.
LEMMA OneRequestChanges ==
  ASSUME AddressBookTypeOK, NEW c \in StoreCall, NEW todo \in {NoRequest} \cup Clearings \cup Updates,
         storeCall' = [storeCall EXCEPT ![c] = todo]
  PROVE  /\ storeCall' \in [StoreCall -> {NoRequest} \cup Clearings \cup Updates]
         /\ \A d \in StoreCall : storeCall'[d] = IF d = c THEN todo ELSE storeCall[d]
  BY Bookings

\* The types, one by one.
LEMMA BookTypes ==
  ASSUME address' \in [Address -> AddressRows],
         cart' \in [CartRow -> {NoLine} \cup [status : {"removed"}] \cup LineRows],
         storeCall' \in [StoreCall -> {NoRequest} \cup Clearings \cup Updates], crossed' \in BOOLEAN
  PROVE  AddressBookTypeOK'
  BY DEF AddressBookTypeOK, AddressRows, LineRows, Clearings, Updates

\* Addresses: at most one default of a kind while requests do not overlap.
LEMMA AddressSteps ==
  ASSUME BookInv,
         \/ \E c \in StoreCall, r \in Address, new \in BOOLEAN, shipping, billing \in Given :
              AddressClears(c, r, new, shipping, billing)
         \/ \E c \in StoreCall : AddressWrites(c)
         \/ \E r \in Address : SetDefaultAddress(r) \/ DeleteAddress(r)
  PROVE  BookInv'
  <1>1. /\ AddressBookTypeOK /\ FlagsAreKept
        /\ address \in [Address -> AddressRows] /\ crossed \in BOOLEAN
        /\ cart \in [CartRow -> {NoLine} \cup [status : {"removed"}] \cup LineRows]
        /\ storeCall \in [StoreCall -> {NoRequest} \cup Clearings \cup Updates]
        /\ \A c \in Between : c \in StoreCall /\ storeCall[c] \in Clearings
    BY Bookings DEF BookInv, AddressBookTypeOK, Between
  <1>2. ~crossed => OneOfAKind /\ ClearedForOne
    BY DEF BookInv
  <1>3. \A r \in Address : address[r] \in AddressRows
    BY <1>1
  <1>4. ASSUME NEW c \in StoreCall, NEW r \in Address, NEW new \in BOOLEAN, NEW shipping \in Given, NEW billing \in Given,
               AddressClears(c, r, new, shipping, billing)
        PROVE  BookInv'
    <2> DEFINE todo == [stage |-> "cleared", of |-> r, new |-> new, shipping |-> shipping, billing |-> billing]
    <2>1. /\ address' = AfterClear(r, new, shipping, billing) /\ UNCHANGED cart
          /\ crossed' = (crossed \/ Between # {}) /\ storeCall' = [storeCall EXCEPT ![c] = todo]
      BY <1>4 DEF AddressClears
    <2>2. /\ address' \in [Address -> AddressRows]
          /\ \A s \in Address : /\ address'[s].status = address[s].status
                                /\ address'[s].shipping => address[s].shipping
                                /\ address'[s].billing => address[s].billing
                                /\ address'[s].default => address'[s] = address[s]
                                /\ s # r /\ shipping = "on" => ~address'[s].shipping
                                /\ s # r /\ billing = "on" => ~address'[s].billing
      <3>1. Leaves(AfterClear(r, new, shipping, billing), r, shipping, billing)
        BY <1>1, AfterFirstWrite
      <3>2. Leaves(address', r, shipping, billing)
        BY <2>1, <3>1
      <3> QED
        BY <3>2 DEF Leaves
    <2>3. todo \in Clearings /\ todo.stage = "cleared" /\ todo.of = r /\ todo.shipping = shipping /\ todo.billing = billing
      BY DEF Clearings
    <2> HIDE DEF todo
    <2>4. /\ storeCall' \in [StoreCall -> {NoRequest} \cup Clearings \cup Updates]
          /\ \A d \in StoreCall : storeCall'[d] = IF d = c THEN todo ELSE storeCall[d]
      BY <1>1, <2>1, <2>3, OneRequestChanges
    <2>5. AddressBookTypeOK'
      BY <1>1, <2>1, <2>2, <2>4, BookTypes
    <2>6. FlagsAreKept'
      BY <1>1, <2>2 DEF FlagsAreKept
    <2>7. ASSUME ~crossed' PROVE OneOfAKind' /\ ClearedForOne'
      <3>1. Between = {} /\ OneOfAKind
        BY <1>2, <2>1, <2>7
      <3>2. \A d \in Between' : d = c
        BY <2>4, <3>1 DEF Between
      <3>3. OneOfAKind'
        BY <2>2, <3>1 DEF OneOfAKind
      <3>4. ClearedForOne'
        BY <2>2, <2>3, <2>4, <3>2 DEF ClearedForOne
      <3> QED
        BY <3>3, <3>4
    <2> QED
      BY <2>5, <2>6, <2>7 DEF BookInv
  <1>5. ASSUME NEW c \in StoreCall, AddressWrites(c) PROVE BookInv'
    <2>1. c \in Between /\ storeCall[c] \in Clearings
      BY <1>1, <1>5 DEF AddressWrites, Between
    <2>2. PICK r \in Address : r = storeCall[c].of
      BY <2>1 DEF Clearings
    <2>3. PICK row : row = [status |-> "kept",
                            default |-> storeCall[c].shipping = "on" \/ storeCall[c].billing = "on",
                            shipping |-> Written(address[r].shipping, storeCall[c].shipping),
                            billing |-> Written(address[r].billing, storeCall[c].billing)]
      OBVIOUS
    <2>4. /\ address' = [address EXCEPT ![r] = row] /\ storeCall' = [storeCall EXCEPT ![c] = NoRequest]
          /\ UNCHANGED <<cart, crossed>>
      BY <1>5, <2>2, <2>3 DEF AddressWrites
    <2>5. /\ row \in AddressRows /\ row.status = "kept" /\ (row.default => row.shipping \/ row.billing)
          /\ row.shipping => address[r].shipping \/ storeCall[c].shipping = "on"
          /\ row.billing => address[r].billing \/ storeCall[c].billing = "on"
      BY <1>3, <2>1, <2>3 DEF AddressRows, Written, Clearings, Given
    <2>6. /\ address' \in [Address -> AddressRows]
          /\ \A s \in Address : address'[s] = IF s = r THEN row ELSE address[s]
      BY <1>1, <2>4, <2>5
    <2>7. /\ storeCall' \in [StoreCall -> {NoRequest} \cup Clearings \cup Updates]
          /\ \A d \in StoreCall : storeCall'[d] = IF d = c THEN NoRequest ELSE storeCall[d]
      BY <1>1, <2>4, OneRequestChanges
    <2>8. AddressBookTypeOK'
      BY <1>1, <2>4, <2>6, <2>7, BookTypes
    <2>9. FlagsAreKept'
      BY <1>1, <2>5, <2>6 DEF FlagsAreKept
    <2>10. ASSUME ~crossed' PROVE OneOfAKind' /\ ClearedForOne'
      <3>1. OneOfAKind /\ ClearedForOne
        BY <1>2, <2>4, <2>10
      <3>2. Between' = {}
        BY <2>1, <2>7, <3>1 DEF ClearedForOne, Between, NoRequest
      <3>3. OneOfAKind'
        BY <2>1, <2>2, <2>5, <2>6, <3>1 DEF OneOfAKind, ClearedForOne
      <3> QED
        BY <3>2, <3>3 DEF ClearedForOne
    <2> QED
      BY <2>8, <2>9, <2>10 DEF BookInv
  <1>6. ASSUME NEW r \in Address, SetDefaultAddress(r) PROVE BookInv'
    <2>1. /\ \A s \in Address : address'[s] = IF address[s].status # "kept" THEN address[s]
               ELSE [status |-> "kept", default |-> s = r, shipping |-> s = r, billing |-> s = r]
          /\ crossed' = (crossed \/ Between # {}) /\ UNCHANGED <<cart, storeCall>>
          /\ address' = [s \in Address |-> address'[s]]
      BY <1>6 DEF SetDefaultAddress
    <2>2. ASSUME NEW s \in Address
          PROVE  /\ address'[s] \in AddressRows
                 /\ address'[s].default \/ address'[s].shipping \/ address'[s].billing =>
                      s = r /\ address'[s].shipping /\ address'[s].status = "kept"
      <3>1. CASE address[s].status # "kept"
        BY <1>1, <1>3, <2>1, <3>1 DEF FlagsAreKept
      <3>2. CASE address[s].status = "kept"
        <4>1. PICK one \in BOOLEAN : one = (s = r)
          OBVIOUS
        <4>2. address'[s] = [status |-> "kept", default |-> one, shipping |-> one, billing |-> one]
          BY <2>1, <3>2, <4>1
        <4>3. one => s = r
          BY <4>1
        <4>4. address'[s] \in AddressRows
          BY <4>2 DEF AddressRows
        <4>5. /\ address'[s].default = one /\ address'[s].shipping = one /\ address'[s].billing = one
              /\ address'[s].status = "kept"
          BY <4>2
        <4> QED
          BY <4>3, <4>4, <4>5
      <3> QED
        BY <3>1, <3>2
    <2>3. AddressBookTypeOK'
      BY <1>1, <2>1, <2>2, BookTypes
    <2>4. \A s \in Address : address'[s].default \/ address'[s].shipping \/ address'[s].billing =>
            s = r /\ address'[s].shipping /\ address'[s].status = "kept"
      BY <2>2
    <2>5. FlagsAreKept' /\ OneOfAKind'
      BY <2>4 DEF FlagsAreKept, OneOfAKind
    <2>6. ASSUME ~crossed' PROVE ClearedForOne'
      <3>1. Between' = {}
        BY <2>1, <2>6 DEF Between
      <3> QED
        BY <3>1 DEF ClearedForOne
    <2> QED
      BY <2>3, <2>5, <2>6 DEF BookInv
  <1>7. ASSUME NEW r \in Address, DeleteAddress(r) PROVE BookInv'
    <2> DEFINE row == [NoAddress EXCEPT !.status = "deleted"]
    <2>1. address' = [address EXCEPT ![r] = row] /\ UNCHANGED <<cart, storeCall, crossed>>
      BY <1>7 DEF DeleteAddress
    <2>2. row \in AddressRows /\ ~row.shipping /\ ~row.billing /\ ~row.default
      BY DEF AddressRows, NoAddress
    <2> HIDE DEF row
    <2>3. address' \in [Address -> AddressRows]
          /\ \A s \in Address : address'[s] = IF s = r THEN row ELSE address[s]
      BY <1>1, <2>1, <2>2
    <2>4. AddressBookTypeOK'
      BY <1>1, <2>1, <2>3, BookTypes
    <2>5. FlagsAreKept' /\ (OneOfAKind => OneOfAKind')
      BY <1>1, <2>2, <2>3 DEF FlagsAreKept, OneOfAKind
    <2>6. Between' = Between /\ (ClearedForOne => ClearedForOne')
      BY <2>1, <2>2, <2>3 DEF ClearedForOne, Between
    <2> QED
      BY <1>2, <2>1, <2>4, <2>5, <2>6 DEF BookInv
  <1> QED
    BY <1>4, <1>5, <1>6, <1>7

\* Other steps leave the addresses alone, and end or begin requests that are not about them.
LEMMA AddressesKept ==
  ASSUME BookInv, AddressBookTypeOK', UNCHANGED <<address, crossed>>,
         \A c \in StoreCall : storeCall'[c] = storeCall[c] \/ storeCall'[c].stage # "cleared"
  PROVE  BookInv'
  <1>1. Between' \subseteq Between /\ \A c \in Between' : storeCall'[c] = storeCall[c]
    BY DEF Between
  <1>2. ClearedForOne => ClearedForOne'
    BY <1>1 DEF ClearedForOne
  <1> QED
    BY <1>2 DEF BookInv, FlagsAreKept, OneOfAKind

\* A line grows, is rewritten or begins: the other lines stay.
LEMMA LineChanges ==
  ASSUME AddressBookAssumption, CartInv, NEW r \in CartRow, NEW line \in LineRows,
         cart' = [cart EXCEPT ![r] = line], line.quantity > 0, line.base = line.quantity * Factor[line.key],
         \/ cart[r].status = "kept" /\ line.key = cart[r].key
         \/ cart[r] = NoLine /\ \A s \in CartRow : cart[s].status = "kept" => cart[s].key # line.key
  PROVE  /\ cart' \in [CartRow -> {NoLine} \cup [status : {"removed"}] \cup LineRows]
         /\ OneLineEach' /\ LinesConvert'
         /\ \A c \in StoreCall : storeCall'[c] = storeCall[c] => (storeCall[c].stage = "line" =>
              /\ cart'[storeCall[c].of].status # "none"
              /\ cart'[storeCall[c].of].status = "kept" => cart'[storeCall[c].of].key = storeCall[c].key)
  <1>1. /\ cart \in [CartRow -> {NoLine} \cup [status : {"removed"}] \cup LineRows]
        /\ OneLineEach /\ LinesConvert /\ UpdatesKnowTheirLine
        /\ \A c \in StoreCall : storeCall[c].stage = "line" => storeCall[c].of \in CartRow
    BY Bookings DEF CartInv, Updates
  <1>2. cart' \in [CartRow -> {NoLine} \cup [status : {"removed"}] \cup LineRows]
        /\ \A s \in CartRow : cart'[s] = IF s = r THEN line ELSE cart[s]
    BY <1>1
  <1>3. line.status = "kept" /\ NoLine.status = "none"
    BY DEF LineRows, NoLine
  <1>4. OneLineEach'
    BY <1>1, <1>2, <1>3 DEF OneLineEach
  <1>5. LinesConvert'
    BY <1>1, <1>2 DEF LinesConvert
  <1>6. \A c \in StoreCall : storeCall[c].stage = "line" =>
              /\ cart'[storeCall[c].of].status # "none"
              /\ cart'[storeCall[c].of].status = "kept" => cart'[storeCall[c].of].key = storeCall[c].key
    BY <1>1, <1>2, <1>3 DEF UpdatesKnowTheirLine
  <1> QED
    BY <1>2, <1>4, <1>5, <1>6

\* Base quantities: what a factor converts, together or apart.
LEMMA Converts == ASSUME NEW a \in Nat, NEW b \in Nat, NEW f \in Nat PROVE a * f + b * f = (a + b) * f /\ a * f \in Nat
  OBVIOUS

\* Every step on the cart keeps its invariant.
LEMMA CartSteps ==
  ASSUME AddressBookAssumption, BookInv, CartInv,
         \/ \E k \in LineKey, quantity \in 1..MaxQuantity : AddItem(k, quantity)
         \/ \E c \in StoreCall, r \in CartRow : UpdateItemReads(c, r)
         \/ \E c \in StoreCall, quantity \in 1..MaxQuantity : UpdateItemWrites(c, quantity)
         \/ \E r \in CartRow : RemoveItem(r)
         \/ ClearCart
         \/ \E c \in StoreCall : StoreCallEnds(c)
  PROVE  BookInv' /\ CartInv'
  <1>1. /\ AddressBookTypeOK /\ OneLineEach /\ LinesConvert /\ UpdatesKnowTheirLine
        /\ address \in [Address -> AddressRows] /\ crossed \in BOOLEAN
        /\ cart \in [CartRow -> {NoLine} \cup [status : {"removed"}] \cup LineRows]
        /\ storeCall \in [StoreCall -> {NoRequest} \cup Clearings \cup Updates]
        /\ Factor \in [LineKey -> Nat \ {0}] /\ MaxQuantity \in Nat
    BY Bookings DEF CartInv, AddressBookTypeOK, AddressBookAssumption
  <1>2. \A r \in CartRow : /\ cart[r].status = "kept" => cart[r] \in LineRows
                           /\ cart[r].status = "none" => cart[r] = NoLine
    BY <1>1, Bookings
  <1>3. ASSUME NEW c \in StoreCall, storeCall' = [storeCall EXCEPT ![c] = NoRequest]
        PROVE  /\ storeCall' \in [StoreCall -> {NoRequest} \cup Clearings \cup Updates]
               /\ \A d \in StoreCall : storeCall'[d] = IF d = c THEN NoRequest ELSE storeCall[d]
               /\ \A d \in StoreCall : storeCall'[d] = storeCall[d]
                                        \/ storeCall'[d].stage \notin {"cleared", "line"}
    BY <1>1, <1>3, OneRequestChanges DEF NoRequest
  <1>4. ASSUME cart' \in [CartRow -> {NoLine} \cup [status : {"removed"}] \cup LineRows],
               storeCall' \in [StoreCall -> {NoRequest} \cup Clearings \cup Updates],
               UNCHANGED <<address, crossed>>
        PROVE  AddressBookTypeOK'
    BY <1>1, <1>4, BookTypes
  <1>5. ASSUME NEW r \in CartRow, NEW line \in LineRows,
               cart' = [cart EXCEPT ![r] = line], line.quantity > 0, line.base = line.quantity * Factor[line.key],
               \/ cart[r].status = "kept" /\ line.key = cart[r].key
               \/ cart[r] = NoLine /\ \A s \in CartRow : cart[s].status = "kept" => cart[s].key # line.key,
               UNCHANGED <<address, crossed>>,
               storeCall' \in [StoreCall -> {NoRequest} \cup Clearings \cup Updates],
               \A c \in StoreCall : storeCall'[c] = storeCall[c] \/ storeCall'[c].stage \notin {"cleared", "line"}
        PROVE  BookInv' /\ CartInv'
    <2>1. /\ cart' \in [CartRow -> {NoLine} \cup [status : {"removed"}] \cup LineRows]
          /\ OneLineEach' /\ LinesConvert'
          /\ \A c \in StoreCall : storeCall'[c] = storeCall[c] => (storeCall[c].stage = "line" =>
               /\ cart'[storeCall[c].of].status # "none"
               /\ cart'[storeCall[c].of].status = "kept" => cart'[storeCall[c].of].key = storeCall[c].key)
      BY <1>5, LineChanges
    <2>2. UpdatesKnowTheirLine'
      BY <1>5, <2>1 DEF UpdatesKnowTheirLine
    <2>3. AddressBookTypeOK'
      BY <1>4, <1>5, <2>1
    <2> QED
      BY <1>5, <2>1, <2>2, <2>3, AddressesKept DEF CartInv
  <1>6. ASSUME NEW k \in LineKey, NEW quantity \in 1..MaxQuantity, AddItem(k, quantity) PROVE BookInv' /\ CartInv'
    <2>1. UNCHANGED <<address, storeCall, crossed>> /\ quantity \in Nat /\ quantity > 0 /\ Factor[k] \in Nat
      BY <1>1, <1>6 DEF AddItem
    <2>2. ASSUME NEW r \in LinesOf(k),
                 cart' = [cart EXCEPT ![r].quantity = cart[r].quantity + quantity,
                                      ![r].base = cart[r].base + quantity * Factor[k]]
          PROVE  BookInv' /\ CartInv'
      <3> DEFINE line == [cart[r] EXCEPT !.quantity = cart[r].quantity + quantity,
                                         !.base = cart[r].base + quantity * Factor[k]]
      <3>1. r \in CartRow /\ cart[r] \in LineRows /\ cart[r].status = "kept" /\ cart[r].key = k
        BY <1>2, <2>2 DEF LinesOf
      <3>2. cart[r].quantity > 0 /\ cart[r].base = cart[r].quantity * Factor[k] /\ cart[r].quantity \in Nat
        BY <1>1, <3>1 DEF LinesConvert, LineRows
      <3>3. /\ cart[r].base + quantity * Factor[k] = (cart[r].quantity + quantity) * Factor[k]
            /\ cart[r].base + quantity * Factor[k] \in Nat
        <4> DEFINE had == cart[r].quantity
                   base == cart[r].base
                   factor == Factor[k]
        <4>1. had \in Nat /\ factor \in Nat /\ quantity \in Nat /\ base = had * factor
          BY <2>1, <3>2
        <4> HIDE DEF had, base, factor
        <4>2. had * factor + quantity * factor = (had + quantity) * factor /\ (had + quantity) * factor \in Nat
          BY <4>1, Converts
        <4> QED
          BY <4>1, <4>2 DEF had, base, factor
      <3>7. ASSUME NEW q \in Nat, NEW b \in Nat
            PROVE  /\ [cart[r] EXCEPT !.quantity = q, !.base = b] \in LineRows
                   /\ [cart[r] EXCEPT !.quantity = q, !.base = b].key = k
                   /\ [cart[r] EXCEPT !.quantity = q, !.base = b].quantity = q
                   /\ [cart[r] EXCEPT !.quantity = q, !.base = b].base = b
        BY <3>1 DEF LineRows
      <3>8. cart[r].quantity + quantity \in Nat
        BY <2>1, <3>2
      <3>4. /\ line \in LineRows /\ line.key = k /\ line.quantity = cart[r].quantity + quantity
            /\ line.base = cart[r].base + quantity * Factor[k]
        BY <3>3, <3>7, <3>8
      <3>5. cart' = [cart EXCEPT ![r] = line]
        BY <1>1, <2>2, <3>1
      <3> HIDE DEF line
      <3>6. line.quantity > 0 /\ line.base = line.quantity * Factor[line.key]
        BY <2>1, <3>2, <3>3, <3>4
      <3> QED
        BY <1>1, <1>5, <2>1, <3>1, <3>4, <3>5, <3>6
    <2>3. ASSUME LinesOf(k) = {}, NEW r \in CartRow, cart[r] = NoLine, cart' = [cart EXCEPT ![r] = LineWith(k, quantity)]
          PROVE  BookInv' /\ CartInv'
      <3>1. quantity * Factor[k] \in Nat
        BY <2>1, Converts
      <3>2. /\ LineWith(k, quantity) \in LineRows /\ LineWith(k, quantity).key = k
            /\ LineWith(k, quantity).quantity = quantity /\ LineWith(k, quantity).base = quantity * Factor[k]
        BY <2>1, <3>1 DEF LineWith, LineRows
      <3>3. \A s \in CartRow : cart[s].status = "kept" => cart[s].key # k
        BY <2>3 DEF LinesOf
      <3> QED
        BY <1>1, <1>5, <2>1, <2>3, <3>2, <3>3
    <2> QED
      BY <1>6, <2>2, <2>3 DEF AddItem
  <1>7. ASSUME NEW c \in StoreCall, NEW r \in CartRow, UpdateItemReads(c, r) PROVE BookInv' /\ CartInv'
    <2> DEFINE todo == [stage |-> "line", of |-> r, key |-> cart[r].key]
    <2>1. cart[r].status = "kept" /\ storeCall' = [storeCall EXCEPT ![c] = todo] /\ UNCHANGED <<address, cart, crossed>>
      BY <1>7 DEF UpdateItemReads
    <2>2. todo \in Updates /\ todo.stage = "line" /\ todo.of = r /\ todo.key = cart[r].key
      BY <1>2, <2>1 DEF Updates, LineRows
    <2> HIDE DEF todo
    <2>3. /\ storeCall' \in [StoreCall -> {NoRequest} \cup Clearings \cup Updates]
          /\ \A d \in StoreCall : storeCall'[d] = IF d = c THEN todo ELSE storeCall[d]
      BY <1>1, <2>1, <2>2, OneRequestChanges
    <2>4. AddressBookTypeOK'
      BY <1>1, <1>4, <2>1, <2>3
    <2>5. UpdatesKnowTheirLine' /\ OneLineEach' /\ LinesConvert'
      BY <1>1, <2>1, <2>2, <2>3 DEF UpdatesKnowTheirLine, OneLineEach, LinesConvert
    <2>6. BookInv'
      BY <2>1, <2>2, <2>3, <2>4, AddressesKept
    <2> QED
      BY <2>4, <2>5, <2>6 DEF CartInv
  <1>8. ASSUME NEW c \in StoreCall, NEW quantity \in 1..MaxQuantity, UpdateItemWrites(c, quantity)
        PROVE  BookInv' /\ CartInv'
    <2>1. storeCall[c] \in Updates /\ storeCall[c].stage = "line"
      BY <1>1, <1>8, Bookings DEF UpdateItemWrites
    <2>2. PICK r \in CartRow : r = storeCall[c].of
      BY <2>1 DEF Updates
    <2>3. PICK k \in LineKey : k = storeCall[c].key
      BY <2>1 DEF Updates
    <2>4. /\ cart[r].status = "kept" /\ storeCall' = [storeCall EXCEPT ![c] = NoRequest]
          /\ cart' = [cart EXCEPT ![r] = Rewritten(r, k, quantity)] /\ UNCHANGED <<address, crossed>>
      BY <1>8, <2>2, <2>3 DEF UpdateItemWrites
    <2>5. cart[r] \in LineRows /\ cart[r].key = k
      BY <1>1, <1>2, <2>1, <2>2, <2>3, <2>4 DEF UpdatesKnowTheirLine
    <2>6. quantity \in Nat /\ quantity > 0 /\ Factor[k] \in Nat /\ quantity * Factor[k] \in Nat
      <3>1. quantity \in Nat /\ quantity > 0 /\ Factor[k] \in Nat
        BY <1>1
      <3> QED
        BY <3>1, Converts
    <2>7. /\ Rewritten(r, k, quantity) \in LineRows /\ Rewritten(r, k, quantity).key = k
          /\ Rewritten(r, k, quantity).quantity = quantity /\ Rewritten(r, k, quantity).base = quantity * Factor[k]
      BY <2>5, <2>6 DEF Rewritten, LineRows
    <2>8. /\ storeCall' \in [StoreCall -> {NoRequest} \cup Clearings \cup Updates]
          /\ \A d \in StoreCall : storeCall'[d] = storeCall[d] \/ storeCall'[d].stage \notin {"cleared", "line"}
      BY <1>3, <2>4
    <2> QED
      BY <1>5, <2>4, <2>5, <2>6, <2>7, <2>8
  <1>9. ASSUME NEW R \in SUBSET CartRow, cart' = Removed(R), \A r \in R : cart[r].status = "kept",
               UNCHANGED <<address, storeCall, crossed>>
        PROVE  BookInv' /\ CartInv'
    <2>1. cart' \in [CartRow -> {NoLine} \cup [status : {"removed"}] \cup LineRows]
      BY <1>1, <1>9 DEF Removed
    <2>2. \A s \in CartRow : /\ s \in R => cart'[s].status = "removed"
                             /\ s \notin R => cart'[s] = cart[s]
      BY <1>9 DEF Removed
    <2>3. OneLineEach' /\ LinesConvert'
      BY <1>1, <2>2 DEF OneLineEach, LinesConvert
    <2>4. \A c \in StoreCall : storeCall[c].stage = "line" => storeCall[c].of \in CartRow
      BY <1>1, Bookings DEF Updates
    <2>5. UpdatesKnowTheirLine'
      BY <1>1, <1>9, <2>2, <2>4 DEF UpdatesKnowTheirLine
    <2>6. AddressBookTypeOK'
      BY <1>1, <1>4, <1>9, <2>1
    <2> QED
      BY <1>9, <2>3, <2>5, <2>6, AddressesKept DEF CartInv
  <1>10. CASE (\E r \in CartRow : RemoveItem(r)) \/ ClearCart
    <2>1. ASSUME NEW r \in CartRow, RemoveItem(r) PROVE BookInv' /\ CartInv'
      <3>1. {r} \in SUBSET CartRow /\ \A s \in {r} : cart[s].status = "kept"
        BY <2>1 DEF RemoveItem
      <3> QED
        BY <1>9, <2>1, <3>1 DEF RemoveItem
    <2>2. ASSUME ClearCart PROVE BookInv' /\ CartInv'
      <3> DEFINE R == {r \in CartRow : cart[r].status = "kept"}
      <3>1. R \in SUBSET CartRow /\ \A s \in R : cart[s].status = "kept"
        OBVIOUS
      <3>2. cart' = Removed(R) /\ UNCHANGED <<address, storeCall, crossed>>
        BY <2>2 DEF ClearCart
      <3> HIDE DEF R
      <3> QED
        BY <1>9, <3>1, <3>2
    <2> QED
      BY <1>10, <2>1, <2>2
  <1>11. ASSUME NEW c \in StoreCall, StoreCallEnds(c) PROVE BookInv' /\ CartInv'
    <2>1. /\ storeCall' \in [StoreCall -> {NoRequest} \cup Clearings \cup Updates]
          /\ \A d \in StoreCall : storeCall'[d] = storeCall[d] \/ storeCall'[d].stage \notin {"cleared", "line"}
          /\ UNCHANGED <<address, cart, crossed>>
      BY <1>3, <1>11 DEF StoreCallEnds
    <2>2. AddressBookTypeOK'
      BY <1>1, <1>4, <2>1
    <2>3. UpdatesKnowTheirLine' /\ OneLineEach' /\ LinesConvert'
      BY <1>1, <2>1 DEF UpdatesKnowTheirLine, OneLineEach, LinesConvert
    <2> QED
      BY <2>1, <2>2, <2>3, AddressesKept DEF CartInv
  <1> QED
    BY <1>6, <1>7, <1>8, <1>10, <1>11

\* What the requests about addresses do not touch.
LEMMA CartKept ==
  ASSUME CartInv, AddressBookTypeOK', UNCHANGED cart,
         \A c \in StoreCall : storeCall'[c] = storeCall[c] \/ storeCall'[c].stage # "line"
  PROVE  CartInv'
  BY DEF CartInv, OneLineEach, LinesConvert, UpdatesKnowTheirLine

\* Every state of the specification satisfies both invariants.
LEMMA BookInvariant == ASSUME AddressBookAssumption PROVE AddressBookSpec => [](BookInv /\ CartInv)
  <1>1. AddressBookInit => BookInv /\ CartInv
    <2> SUFFICES ASSUME AddressBookInit PROVE BookInv /\ CartInv
      OBVIOUS
    <2>1. AddressBookTypeOK
      BY DEF AddressBookInit, AddressBookTypeOK, NoAddress
    <2>2. FlagsAreKept /\ OneOfAKind
      BY DEF AddressBookInit, FlagsAreKept, OneOfAKind, NoAddress
    <2>3. Between = {}
      BY DEF AddressBookInit, Between, NoRequest
    <2>4. OneLineEach /\ LinesConvert /\ UpdatesKnowTheirLine
      BY DEF AddressBookInit, OneLineEach, LinesConvert, UpdatesKnowTheirLine, NoLine, NoRequest
    <2> QED
      BY <2>1, <2>2, <2>3, <2>4 DEF BookInv, CartInv, ClearedForOne
  <1>2. (BookInv /\ CartInv) /\ [AddressBookNext]_bookVars => (BookInv /\ CartInv)'
    <2> SUFFICES ASSUME BookInv, CartInv, [AddressBookNext]_bookVars PROVE BookInv' /\ CartInv'
      OBVIOUS
    <2>1. CASE \/ \E c \in StoreCall, r \in Address, new \in BOOLEAN, shipping, billing \in Given :
                    AddressClears(c, r, new, shipping, billing)
               \/ \E c \in StoreCall : AddressWrites(c)
               \/ \E r \in Address : SetDefaultAddress(r) \/ DeleteAddress(r)
      <3>1. BookInv' /\ AddressBookTypeOK'
        BY <2>1, AddressSteps DEF BookInv
      <3>2. UNCHANGED cart
        BY <2>1 DEF AddressClears, AddressWrites, SetDefaultAddress, DeleteAddress
      <3>3. storeCall \in [StoreCall -> {NoRequest} \cup Clearings \cup Updates]
        BY Bookings DEF CartInv
      <3>4. \A c \in StoreCall : storeCall'[c] = storeCall[c] \/ storeCall'[c].stage # "line"
        <4>1. ASSUME NEW c \in StoreCall, NEW todo, todo.stage # "line", storeCall' = [storeCall EXCEPT ![c] = todo]
              PROVE  \A d \in StoreCall : storeCall'[d] = storeCall[d] \/ storeCall'[d].stage # "line"
          BY <3>3, <4>1
        <4>2. ASSUME NEW c \in StoreCall, NEW r \in Address, NEW new \in BOOLEAN, NEW shipping \in Given,
                     NEW billing \in Given, AddressClears(c, r, new, shipping, billing)
              PROVE  \A d \in StoreCall : storeCall'[d] = storeCall[d] \/ storeCall'[d].stage # "line"
          BY <4>1, <4>2 DEF AddressClears
        <4>3. ASSUME NEW c \in StoreCall, AddressWrites(c)
              PROVE  \A d \in StoreCall : storeCall'[d] = storeCall[d] \/ storeCall'[d].stage # "line"
          BY <4>1, <4>3 DEF AddressWrites, NoRequest
        <4> QED
          BY <2>1, <4>2, <4>3 DEF SetDefaultAddress, DeleteAddress
      <3> QED
        BY <3>1, <3>2, <3>4, CartKept
    <2>2. CASE \/ \E k \in LineKey, quantity \in 1..MaxQuantity : AddItem(k, quantity)
               \/ \E c \in StoreCall, r \in CartRow : UpdateItemReads(c, r)
               \/ \E c \in StoreCall, quantity \in 1..MaxQuantity : UpdateItemWrites(c, quantity)
               \/ \E r \in CartRow : RemoveItem(r)
               \/ ClearCart
               \/ \E c \in StoreCall : StoreCallEnds(c)
      BY <2>2, CartSteps
    <2>3. CASE UNCHANGED bookVars
      BY <2>3 DEF bookVars, BookInv, CartInv, AddressBookTypeOK, FlagsAreKept, OneOfAKind, ClearedForOne, Between,
           OneLineEach, LinesConvert, UpdatesKnowTheirLine
    <2> QED
      BY <2>1, <2>2, <2>3 DEF AddressBookNext
  <1> QED
    BY <1>1, <1>2, PTL DEF AddressBookSpec

\* While requests about the addresses do not overlap, a customer has one default of a kind, also
\* between the two writes of a request; and however requests about the cart overlap, it has one
\* line for a selection, whose base quantity is what checkout reserves.
THEOREM BookAndCartStayRight == AddressBookSpec => []BookAndCartAgree
  <1>1. ASSUME BookInv, CartInv PROVE BookAndCartAgree
    <2>1. OneDefaultAddress
      <3>1. ASSUME ~crossed
            PROVE  /\ Cardinality({r \in Address : address[r].shipping}) <= 1
                   /\ Cardinality({r \in Address : address[r].billing}) <= 1
        <4>1. OneOfAKind
          BY <1>1, <3>1 DEF BookInv
        <4>2. Cardinality({r \in Address : address[r].shipping}) <= 1
          <5>1. \A r, s \in {u \in Address : address[u].shipping} : r = s
            BY <4>1 DEF OneOfAKind
          <5> QED
            BY <5>1, AtMostOne
        <4>3. Cardinality({r \in Address : address[r].billing}) <= 1
          <5>1. \A r, s \in {u \in Address : address[u].billing} : r = s
            BY <4>1 DEF OneOfAKind
          <5> QED
            BY <5>1, AtMostOne
        <4> QED
          BY <4>2, <4>3
      <3> QED
        BY <1>1, <3>1 DEF OneDefaultAddress, BookInv, FlagsAreKept
    <2>2. ASSUME NEW k \in LineKey PROVE Cardinality(LinesOf(k)) <= 1
      <3>1. \A r, s \in LinesOf(k) : r = s
        BY <1>1 DEF CartInv, OneLineEach, LinesOf
      <3> QED
        BY <3>1, AtMostOne
    <2> QED
      BY <1>1, <2>1, <2>2 DEF BookAndCartAgree, CartInv, CartLinesAgree, LinesConvert
  <1> QED
    BY <1>1, AddressBookAssumption, BookInvariant, PTL

-----------------------------------------------------------------------------
(* The timeline and the queue of e-mails (Notifications).                   *)

\* Rows of mails, runs and processors.
Mails == [status : {"PENDING", "PROCESSING", "SENT", "FAILED"}, about : Fact]
Jobs == [stage : {"create", "emit"}, of : Fact]
Batches == [due : SUBSET Mail, now : SUBSET Mail, stage : {"idle", "send", "sent", "failed"}]

\* Who is about to announce an activity is the one run that created it.
AnnouncedByOne ==
  /\ \A f \in Fact : /\ announced[f] <= 1
                     /\ announced[f] > 0 => f \in activity
                     /\ "timeline" \in returned[f] => f \in activity
                     /\ f \in activity /\ announced[f] = 0 =>
                          f \in unheard \/ \E n \in NoticeRun : run[n] = [stage |-> "emit", of |-> f]
  /\ \A n \in NoticeRun : run[n].stage = "emit" => run[n].of \in activity /\ announced[run[n].of] = 0
  /\ \A n, k \in NoticeRun : run[n].stage = "emit" /\ run[k].stage = "emit" /\ run[n].of = run[k].of => n = k

\* A handler that returned for a fact it has to mail has left a row.
MailsAreThere ==
  \A f \in Mailed : "mail" \in returned[f] => \E r \in Mail : mail[r] # NoMail /\ mail[r].about = f

\* What processors hold are mails; a processor sends one at a time.
BatchesHoldMails ==
  \A p \in Processor : /\ \A r \in batch[p].due \cup batch[p].now : mail[r] # NoMail
                       /\ batch[p].stage = "idle" => batch[p].now = {}
                       /\ \A r, s \in batch[p].now : r = s

\* A mail that two processors did not both find is in the hands of one of them.
OneProcessorEach ==
  \A r \in Mail \ shared :
    /\ \A p, q \in Processor : r \in batch[p].due \cup batch[p].now /\ r \in batch[q].due \cup batch[q].now => p = q
    /\ \A p \in Processor :
         /\ r \in batch[p].due => r \notin batch[p].now /\ mail[r].status = "PENDING"
         /\ r \in batch[p].now => /\ mail[r].status = "PROCESSING"
                                  /\ batch[p].stage = "send" => sent[r] = 0
                                  /\ batch[p].stage = "sent" => sent[r] = 1
                                  /\ batch[p].stage = "failed" => sent[r] = 0 \/ r \in unmarked

\* What a step of the timeline, and one of the mails, needs and leaves.
TimelineInv == NotificationsTypeOK /\ AnnouncedByOne
MailInv == NotificationsTypeOK /\ MailsAreThere /\ BatchesHoldMails /\ OneProcessorEach /\ SentAsMarked

\* What the types say of each variable.
LEMMA NoticeTypes ==
  ASSUME NotificationsTypeOK
  PROVE  /\ happened \subseteq Fact /\ activity \subseteq Fact
         /\ announced \in [Fact -> Nat] /\ message \in [Fact -> 0..MaxMessages]
         /\ mail \in [Mail -> {NoMail} \cup Mails] /\ sent \in [Mail -> Nat]
         /\ run \in [NoticeRun -> {Resting} \cup Jobs] /\ batch \in [Processor -> Batches]
         /\ returned \in [Fact -> SUBSET Handlers]
         /\ unheard \subseteq Fact /\ shared \subseteq Mail /\ unmarked \subseteq Mail
         /\ \A n \in NoticeRun : /\ run[n].stage \in {"create", "emit"} => run[n] \in Jobs /\ run[n].of \in Fact
                                 /\ run[n].stage \in {"none", "create", "emit"}
         /\ \A r \in Mail : mail[r] # NoMail => mail[r] \in Mails /\ mail[r].status # "none"
         /\ NoMail \notin Mails /\ NoMail.status = "none"
  <1>1. NoMail \notin Mails /\ NoMail.status = "none" /\ Resting \notin Jobs /\ Resting.stage = "none"
    BY DEF NoMail, Mails, Resting, Jobs
  <1>2. /\ mail \in [Mail -> {NoMail} \cup Mails] /\ run \in [NoticeRun -> {Resting} \cup Jobs]
        /\ batch \in [Processor -> Batches]
    BY DEF NotificationsTypeOK, Mails, Jobs, Batches
  <1>3. \A n \in NoticeRun : /\ run[n].stage \in {"create", "emit"} => run[n] \in Jobs /\ run[n].of \in Fact
                             /\ run[n].stage \in {"none", "create", "emit"}
    BY <1>1, <1>2 DEF Jobs
  <1>4. \A r \in Mail : mail[r] # NoMail => mail[r] \in Mails /\ mail[r].status # "none"
    BY <1>1, <1>2 DEF Mails
  <1> QED
    BY <1>1, <1>2, <1>3, <1>4 DEF NotificationsTypeOK

\* Types follow from the type of each variable.
LEMMA NoticeTypesFollow ==
  ASSUME happened' \subseteq Fact, activity' \subseteq Fact,
         announced' \in [Fact -> Nat], message' \in [Fact -> 0..MaxMessages],
         mail' \in [Mail -> {NoMail} \cup Mails], sent' \in [Mail -> Nat],
         run' \in [NoticeRun -> {Resting} \cup Jobs], batch' \in [Processor -> Batches],
         returned' \in [Fact -> SUBSET Handlers],
         unheard' \subseteq Fact, shared' \subseteq Mail, unmarked' \subseteq Mail
  PROVE  NotificationsTypeOK'
  BY DEF NotificationsTypeOK, Mails, Jobs, Batches

\* A handler that returns for a fact.
LEMMA HandlerReturns ==
  ASSUME NotificationsTypeOK, NEW f \in Fact, NEW h \in Handlers, Returns(f, h)
  PROVE  /\ returned' \in [Fact -> SUBSET Handlers]
         /\ \A g \in Fact : \A i \in returned'[g] : i \in returned[g] \/ (g = f /\ i = h)
  BY DEF Returns, NotificationsTypeOK

\* The timeline: a run that finds, creates, announces or fails.
LEMMA TimelineSteps ==
  ASSUME NotificationsAssumption, TimelineInv,
         NEW n \in NoticeRun, \/ \E f \in Fact : ActivityReads(n, f)
                              \/ ActivityCreates(n) \/ ActivityEmits(n) \/ ActivityFails(n)
  PROVE  /\ TimelineInv' /\ UNCHANGED <<mail, sent, batch, shared, unmarked>>
         /\ \A f \in Fact : "mail" \in returned'[f] => "mail" \in returned[f]
  <1>1. /\ NotificationsTypeOK /\ AnnouncedByOne /\ "timeline" \in Handlers
        /\ activity \subseteq Fact /\ announced \in [Fact -> Nat] /\ unheard \subseteq Fact
        /\ run \in [NoticeRun -> {Resting} \cup Jobs] /\ returned \in [Fact -> SUBSET Handlers]
        /\ run[n].stage \in {"create", "emit"} => run[n] \in Jobs /\ run[n].of \in Fact
        /\ Resting.stage = "none" /\ Resting # [stage |-> "none", of |-> 0]
    BY NoticeTypes DEF TimelineInv, Handlers, Resting
  <1>2. \A todo : run' = [run EXCEPT ![n] = todo] => \A k \in NoticeRun : run'[k] = IF k = n THEN todo ELSE run[k]
    BY <1>1
  <1>3. ASSUME run' \in [NoticeRun -> {Resting} \cup Jobs], returned' \in [Fact -> SUBSET Handlers],
               activity' \subseteq Fact, announced' \in [Fact -> Nat], unheard' \subseteq Fact,
               UNCHANGED <<happened, message, mail, sent, batch, shared, unmarked>>
        PROVE  NotificationsTypeOK'
    BY <1>1, <1>3, NoticeTypes, NoticeTypesFollow
  <1>4. ASSUME NEW f \in Fact, ActivityReads(n, f)
        PROVE  TimelineInv' /\ \A g \in Fact : "mail" \in returned'[g] => "mail" \in returned[g]
    <2>1. /\ UNCHANGED <<happened, activity, announced, mail, sent, message, batch, unheard, shared, unmarked>>
          /\ run[n] = Resting
      BY <1>4 DEF ActivityReads
    <2>2. CASE f \in activity
      <3>1. Returns(f, "timeline") /\ UNCHANGED run
        BY <1>4, <2>2 DEF ActivityReads
      <3>2. /\ returned' \in [Fact -> SUBSET Handlers]
            /\ \A g \in Fact : \A i \in returned'[g] : i \in returned[g] \/ (g = f /\ i = "timeline")
        BY <1>1, <3>1, HandlerReturns
      <3>3. NotificationsTypeOK'
        BY <1>1, <1>3, <2>1, <3>1, <3>2
      <3>4. AnnouncedByOne'
        BY <1>1, <2>1, <2>2, <3>1, <3>2 DEF AnnouncedByOne
      <3> QED
        BY <3>2, <3>3, <3>4 DEF TimelineInv
    <2>3. CASE f \notin activity
      <3> DEFINE todo == [stage |-> "create", of |-> f]
      <3>1. run' = [run EXCEPT ![n] = todo] /\ UNCHANGED returned
        BY <1>4, <2>3 DEF ActivityReads
      <3>2. todo \in Jobs /\ todo.stage = "create"
        BY DEF Jobs
      <3> HIDE DEF todo
      <3>3. run' \in [NoticeRun -> {Resting} \cup Jobs] /\ \A k \in NoticeRun : run'[k] = IF k = n THEN todo ELSE run[k]
        BY <1>1, <1>2, <3>1, <3>2
      <3>4. NotificationsTypeOK'
        BY <1>1, <1>3, <2>1, <3>1, <3>3
      <3>5. AnnouncedByOne'
        <4>1. \A k \in NoticeRun : run'[k].stage = "emit" => run'[k] = run[k]
          BY <3>2, <3>3
        <4>2. \A g \in Fact, k \in NoticeRun : run[k] = [stage |-> "emit", of |-> g] => run'[k] = run[k]
          BY <1>1, <2>1, <3>3
        <4> QED
          BY <1>1, <2>1, <3>1, <4>1, <4>2 DEF AnnouncedByOne
      <3> QED
        BY <3>1, <3>4, <3>5 DEF TimelineInv
    <2> QED
      BY <2>2, <2>3
  <1>5. ASSUME NEW f \in Fact, f = run[n].of, ActivityCreates(n)
        PROVE  TimelineInv' /\ \A g \in Fact : "mail" \in returned'[g] => "mail" \in returned[g]
    <2>1. /\ UNCHANGED <<happened, announced, mail, sent, message, batch, unheard, shared, unmarked>>
          /\ run[n].stage = "create" /\ run[n] \in Jobs
      BY <1>1, <1>5 DEF ActivityCreates
    <2>2. CASE f \in activity
      <3>1. Returns(f, "timeline") /\ run' = [run EXCEPT ![n] = Resting] /\ UNCHANGED activity
        BY <1>5, <2>2 DEF ActivityCreates, Refused
      <3>2. /\ returned' \in [Fact -> SUBSET Handlers]
            /\ \A g \in Fact : \A i \in returned'[g] : i \in returned[g] \/ (g = f /\ i = "timeline")
        BY <1>1, <3>1, HandlerReturns
      <3>3. run' \in [NoticeRun -> {Resting} \cup Jobs] /\ \A k \in NoticeRun : run'[k] = IF k = n THEN Resting ELSE run[k]
        BY <1>1, <1>2, <3>1
      <3>4. NotificationsTypeOK'
        BY <1>1, <1>3, <2>1, <3>1, <3>2, <3>3
      <3>5. AnnouncedByOne'
        <4>1. \A k \in NoticeRun : run'[k].stage = "emit" => run'[k] = run[k]
          BY <1>1, <3>3
        <4>2. \A g \in Fact, k \in NoticeRun : run[k] = [stage |-> "emit", of |-> g] => run'[k] = run[k]
          BY <2>1, <3>3
        <4> QED
          BY <1>1, <2>1, <2>2, <3>1, <3>2, <4>1, <4>2 DEF AnnouncedByOne
      <3> QED
        BY <3>2, <3>4, <3>5 DEF TimelineInv
    <2>3. CASE f \notin activity
      <3> DEFINE todo == [run[n] EXCEPT !.stage = "emit"]
      <3>1. run' = [run EXCEPT ![n] = todo] /\ UNCHANGED returned /\ activity' = activity \cup {f}
        BY <1>5, <2>3 DEF ActivityCreates, Refused
      <3>2. todo \in Jobs /\ todo.stage = "emit" /\ todo.of = f /\ todo = [stage |-> "emit", of |-> f]
        BY <1>5, <2>1 DEF Jobs
      <3> HIDE DEF todo
      <3>3. run' \in [NoticeRun -> {Resting} \cup Jobs] /\ \A k \in NoticeRun : run'[k] = IF k = n THEN todo ELSE run[k]
        BY <1>1, <1>2, <3>1, <3>2
      <3>4. NotificationsTypeOK'
        BY <1>1, <1>3, <2>1, <3>1, <3>3
      <3>5. announced[f] = 0 /\ \A k \in NoticeRun : run[k].stage = "emit" => run[k].of # f
        <4>1. announced[f] \in Nat /\ ~ (announced[f] > 0)
          BY <1>1, <2>3 DEF AnnouncedByOne
        <4>2. \A k \in NoticeRun : run[k].stage = "emit" => run[k].of # f
          BY <1>1, <2>3 DEF AnnouncedByOne
        <4> QED
          BY <4>1, <4>2
      <3>6. AnnouncedByOne'
        <4>1. ASSUME NEW g \in Fact, g \in activity', announced'[g] = 0
              PROVE  g \in unheard' \/ \E k \in NoticeRun : run'[k] = [stage |-> "emit", of |-> g]
          <5>1. CASE g = f
            BY <3>2, <3>3, <5>1
          <5>2. CASE g # f
            <6>1. g \in unheard \/ \E k \in NoticeRun : run[k] = [stage |-> "emit", of |-> g]
              BY <1>1, <2>1, <3>1, <4>1, <5>2 DEF AnnouncedByOne
            <6>2. \A k \in NoticeRun : run[k] = [stage |-> "emit", of |-> g] => run'[k] = run[k]
              BY <2>1, <3>3
            <6> QED
              BY <2>1, <6>1, <6>2
          <5> QED
            BY <5>1, <5>2
        <4>2. \A k \in NoticeRun : run'[k].stage = "emit" => run'[k].of \in activity' /\ announced'[run'[k].of] = 0
          BY <1>1, <2>1, <3>1, <3>2, <3>3, <3>5 DEF AnnouncedByOne
        <4>3. \A j, k \in NoticeRun : run'[j].stage = "emit" /\ run'[k].stage = "emit" /\ run'[j].of = run'[k].of => j = k
          BY <1>1, <3>2, <3>3, <3>5 DEF AnnouncedByOne
        <4>4. \A g \in Fact : /\ announced'[g] <= 1
                              /\ announced'[g] > 0 => g \in activity'
                              /\ "timeline" \in returned'[g] => g \in activity'
          BY <1>1, <2>1, <3>1 DEF AnnouncedByOne
        <4> QED
          BY <4>1, <4>2, <4>3, <4>4 DEF AnnouncedByOne
      <3> QED
        BY <3>1, <3>4, <3>6 DEF TimelineInv
    <2> QED
      BY <2>2, <2>3
  <1>6. ASSUME NEW f \in Fact, f = run[n].of, ActivityEmits(n)
        PROVE  TimelineInv' /\ \A g \in Fact : "mail" \in returned'[g] => "mail" \in returned[g]
    <2>1. /\ UNCHANGED <<happened, activity, mail, sent, message, batch, unheard, shared, unmarked>>
          /\ run[n].stage = "emit" /\ announced' = [announced EXCEPT ![f] = announced[f] + 1]
          /\ Returns(f, "timeline") /\ run' = [run EXCEPT ![n] = Resting]
      BY <1>6 DEF ActivityEmits
    <2>2. /\ returned' \in [Fact -> SUBSET Handlers]
          /\ \A g \in Fact : \A i \in returned'[g] : i \in returned[g] \/ (g = f /\ i = "timeline")
      BY <1>1, <2>1, HandlerReturns
    <2>3. run' \in [NoticeRun -> {Resting} \cup Jobs] /\ \A k \in NoticeRun : run'[k] = IF k = n THEN Resting ELSE run[k]
      BY <1>1, <1>2, <2>1
    <2>4. f \in activity /\ announced[f] = 0 /\ \A k \in NoticeRun : run[k].stage = "emit" /\ run[k].of = f => k = n
      BY <1>1, <1>6, <2>1 DEF AnnouncedByOne
    <2>5. announced' \in [Fact -> Nat] /\ \A g \in Fact : announced'[g] = IF g = f THEN 1 ELSE announced[g]
      BY <1>1, <2>1, <2>4
    <2>6. NotificationsTypeOK'
      BY <1>1, <1>3, <2>1, <2>2, <2>3, <2>5
    <2>7. AnnouncedByOne'
      <3>1. ASSUME NEW g \in Fact, g \in activity', announced'[g] = 0
            PROVE  g \in unheard' \/ \E k \in NoticeRun : run'[k] = [stage |-> "emit", of |-> g]
        <4>1. g # f /\ g \in activity /\ announced[g] = 0
          BY <2>1, <2>5, <3>1
        <4>2. g \in unheard \/ \E k \in NoticeRun : run[k] = [stage |-> "emit", of |-> g]
          BY <1>1, <4>1 DEF AnnouncedByOne
        <4>3. \A k \in NoticeRun : run[k] = [stage |-> "emit", of |-> g] => run'[k] = run[k]
          BY <1>6, <2>3, <4>1
        <4> QED
          BY <2>1, <4>2, <4>3
      <3>2. \A k \in NoticeRun : run'[k].stage = "emit" => k # n /\ run'[k] = run[k]
        BY <1>1, <2>3
      <3>3. \A k \in NoticeRun : run'[k].stage = "emit" => run'[k].of \in activity' /\ announced'[run'[k].of] = 0
        <4>1. ASSUME NEW k \in NoticeRun, run'[k].stage = "emit"
              PROVE  run'[k].of \in activity' /\ announced'[run'[k].of] = 0
          <5>1. run[k].of \in activity /\ announced[run[k].of] = 0 /\ run[k].of # f
            BY <1>1, <2>4, <3>2, <4>1 DEF AnnouncedByOne
          <5> QED
            BY <1>1, <2>1, <2>5, <3>2, <4>1, <5>1
        <4> QED
          BY <4>1
      <3>4. \A j, k \in NoticeRun : run'[j].stage = "emit" /\ run'[k].stage = "emit" /\ run'[j].of = run'[k].of => j = k
        BY <1>1, <3>2 DEF AnnouncedByOne
      <3>5. \A g \in Fact : /\ announced'[g] <= 1
                            /\ announced'[g] > 0 => g \in activity'
                            /\ "timeline" \in returned'[g] => g \in activity'
        <4>1. \A g \in Fact : announced'[g] <= 1 /\ (announced'[g] > 0 => g \in activity')
          <5>1. \A g \in Fact : announced[g] <= 1 /\ (announced[g] > 0 => g \in activity)
            BY <1>1 DEF AnnouncedByOne
          <5>2. ASSUME NEW g \in Fact
                PROVE  announced'[g] <= 1 /\ (announced'[g] > 0 => g \in activity')
            <6>1. CASE g = f
              BY <2>1, <2>4, <2>5, <6>1
            <6>2. CASE g # f
              BY <2>1, <2>5, <5>1, <6>2
            <6> QED
              BY <6>1, <6>2
          <5> QED
            BY <5>2
        <4>2. \A g \in Fact : "timeline" \in returned'[g] => g \in activity'
          BY <1>1, <2>1, <2>2, <2>4 DEF AnnouncedByOne
        <4> QED
          BY <4>1, <4>2
      <3> QED
        BY <3>1, <3>3, <3>4, <3>5 DEF AnnouncedByOne
    <2> QED
      BY <2>2, <2>6, <2>7 DEF TimelineInv
  <1>7. ASSUME ActivityFails(n)
        PROVE  TimelineInv' /\ \A g \in Fact : "mail" \in returned'[g] => "mail" \in returned[g]
    <2>1. /\ UNCHANGED <<happened, activity, announced, mail, sent, message, batch, returned, shared, unmarked>>
          /\ unheard' = IF run[n].stage = "emit" THEN unheard \cup {run[n].of} ELSE unheard
          /\ run' = [run EXCEPT ![n] = Resting]
      BY <1>7 DEF ActivityFails
    <2>2. run' \in [NoticeRun -> {Resting} \cup Jobs] /\ \A k \in NoticeRun : run'[k] = IF k = n THEN Resting ELSE run[k]
      BY <1>1, <1>2, <2>1
    <2>3. NotificationsTypeOK'
      BY <1>1, <1>3, <2>1, <2>2
    <2>4. AnnouncedByOne'
      <3>1. ASSUME NEW g \in Fact, g \in activity', announced'[g] = 0
            PROVE  g \in unheard' \/ \E k \in NoticeRun : run'[k] = [stage |-> "emit", of |-> g]
        <4>1. g \in unheard \/ \E k \in NoticeRun : run[k] = [stage |-> "emit", of |-> g]
          BY <1>1, <2>1, <3>1 DEF AnnouncedByOne
        <4>2. run[n] = [stage |-> "emit", of |-> g] => g \in unheard'
          BY <2>1
        <4>3. \A k \in NoticeRun : k # n => run'[k] = run[k]
          BY <2>2
        <4> QED
          BY <2>1, <4>1, <4>2, <4>3
      <3>2. \A k \in NoticeRun : run'[k].stage = "emit" => run'[k] = run[k]
        BY <1>1, <2>2
      <3> QED
        BY <1>1, <2>1, <3>1, <3>2 DEF AnnouncedByOne
    <2> QED
      BY <2>1, <2>3, <2>4 DEF TimelineInv
  <1>8. UNCHANGED <<mail, sent, batch, shared, unmarked>>
    BY DEF ActivityReads, ActivityCreates, ActivityEmits, ActivityFails
  <1>9. ActivityCreates(n) \/ ActivityEmits(n) => run[n].of \in Fact
    BY <1>1 DEF ActivityCreates, ActivityEmits
  <1> QED
    BY <1>4, <1>5, <1>6, <1>7, <1>8, <1>9

\* What the handlers of mails and messages leave of the timeline.
LEMMA TimelineKept ==
  ASSUME TimelineInv, NotificationsTypeOK', UNCHANGED <<activity, announced, run, unheard>>,
         \A f \in Fact : "timeline" \in returned'[f] => "timeline" \in returned[f]
  PROVE  TimelineInv'
  BY DEF TimelineInv, AnnouncedByOne

\* One mail is written, or one processor goes on.
LEMMA OneMailChanges ==
  ASSUME NotificationsTypeOK, NEW r \in Mail, NEW row, mail' = [mail EXCEPT ![r] = row]
  PROVE  /\ \A s \in Mail : mail'[s] = IF s = r THEN row ELSE mail[s]
         /\ row \in Mails => mail' \in [Mail -> {NoMail} \cup Mails]
  BY NoticeTypes

\* One processor goes on.
LEMMA OneBatchChanges ==
  ASSUME NotificationsTypeOK, NEW p \in Processor, NEW b \in Batches, batch' = [batch EXCEPT ![p] = b]
  PROVE  /\ \A q \in Processor : batch'[q] = IF q = p THEN b ELSE batch[q]
         /\ batch' \in [Processor -> Batches]
  BY NoticeTypes

\* As long as rows stay about their fact, a mail that is there stays there.
LEMMA MailsStayThere ==
  ASSUME MailsAreThere, \A f \in Fact : "mail" \in returned'[f] => "mail" \in returned[f], Mailed \subseteq Fact,
         \A r \in Mail : mail[r] # NoMail => mail'[r] # NoMail /\ mail'[r].about = mail[r].about
  PROVE  MailsAreThere'
  BY DEF MailsAreThere

\* The queue: a mail is written, found, sent and marked.
LEMMA MailSteps ==
  ASSUME NotificationsAssumption, MailInv,
         \/ \E f \in Fact, r \in Mail : QueueMail(f, r)
         \/ \E p \in Processor :
              \/ FindDue(p) \/ SendMail(p) \/ MarkMail(p) \/ MarkFails(p) \/ ProcessorDies(p)
              \/ \E r \in Mail : StartMail(p, r)
  PROVE  MailInv' /\ UNCHANGED <<activity, announced, run, unheard>>
         /\ \A f \in Fact : "timeline" \in returned'[f] => "timeline" \in returned[f]
  <1>1. /\ NotificationsTypeOK /\ MailsAreThere /\ BatchesHoldMails /\ OneProcessorEach /\ SentAsMarked
        /\ Mailed \subseteq Fact /\ "mail" \in Handlers
    BY DEF MailInv, NotificationsAssumption, Handlers
  <1>2. /\ mail \in [Mail -> {NoMail} \cup Mails] /\ sent \in [Mail -> Nat] /\ batch \in [Processor -> Batches]
        /\ shared \subseteq Mail /\ unmarked \subseteq Mail /\ returned \in [Fact -> SUBSET Handlers]
        /\ \A r \in Mail : mail[r] # NoMail => mail[r] \in Mails /\ mail[r].status # "none"
        /\ NoMail \notin Mails /\ NoMail.status = "none"
    BY <1>1, NoticeTypes
  <1>3. \A p \in Processor : batch[p] \in Batches /\ batch[p].due \subseteq Mail /\ batch[p].now \subseteq Mail
    BY <1>2 DEF Batches
  <1>4. ASSUME mail' \in [Mail -> {NoMail} \cup Mails], sent' \in [Mail -> Nat], batch' \in [Processor -> Batches],
               shared' \subseteq Mail, unmarked' \subseteq Mail, returned' \in [Fact -> SUBSET Handlers],
               UNCHANGED <<happened, activity, announced, message, run, unheard>>
        PROVE  NotificationsTypeOK'
    BY <1>1, <1>4, NoticeTypes, NoticeTypesFollow
  <1>5. ASSUME NEW f \in Fact, NEW r \in Mail, QueueMail(f, r)
        PROVE  MailInv' /\ \A g \in Fact : "timeline" \in returned'[g] => "timeline" \in returned[g]
    <2> DEFINE row == [status |-> "PENDING", about |-> f]
    <2>1. /\ mail[r] = NoMail /\ mail' = [mail EXCEPT ![r] = row] /\ (Returns(f, "mail") \/ UNCHANGED returned)
          /\ UNCHANGED <<happened, activity, announced, sent, message, run, batch, unheard, shared, unmarked>>
      BY <1>5 DEF QueueMail
    <2>2. row \in Mails /\ row.status = "PENDING" /\ row.about = f
      BY DEF Mails
    <2> HIDE DEF row
    <2>3. /\ mail' \in [Mail -> {NoMail} \cup Mails]
          /\ \A s \in Mail : mail'[s] = IF s = r THEN row ELSE mail[s]
      BY <1>1, <2>1, <2>2, OneMailChanges
    <2>4. /\ returned' \in [Fact -> SUBSET Handlers]
          /\ \A g \in Fact : \A i \in returned'[g] : i \in returned[g] \/ (g = f /\ i = "mail")
      BY <1>1, <1>2, <2>1, HandlerReturns
    <2>5. NotificationsTypeOK'
      BY <1>2, <1>4, <2>1, <2>3, <2>4
    <2>6. MailsAreThere'
      <3>1. ASSUME NEW g \in Mailed, "mail" \in returned'[g]
            PROVE  \E s \in Mail : mail'[s] # NoMail /\ mail'[s].about = g
        <4>1. CASE "mail" \in returned[g]
          <5>1. PICK s \in Mail : mail[s] # NoMail /\ mail[s].about = g
            BY <1>1, <4>1 DEF MailsAreThere
          <5> QED
            BY <2>1, <2>3, <5>1
        <4>2. CASE g = f
          BY <1>2, <2>2, <2>3, <4>2
        <4> QED
          BY <1>1, <2>4, <3>1, <4>1, <4>2
      <3> QED
        BY <3>1 DEF MailsAreThere
    <2>7. BatchesHoldMails' /\ \A p \in Processor : r \notin batch[p].due \cup batch[p].now
      BY <1>1, <1>2, <2>1, <2>2, <2>3 DEF BatchesHoldMails
    <2>8. OneProcessorEach'
      BY <1>1, <2>1, <2>3, <2>7 DEF OneProcessorEach
    <2>9. SentAsMarked'
      BY <1>1, <1>2, <2>1, <2>2, <2>3 DEF SentAsMarked
    <2> QED
      BY <2>4, <2>5, <2>6, <2>7, <2>8, <2>9 DEF MailInv
  <1>6. ASSUME NEW p \in Processor, FindDue(p) PROVE MailInv'
    <2> DEFINE b == [batch[p] EXCEPT !.due = Due]
    <2>1. /\ batch[p].due = {} /\ batch[p].stage = "idle" /\ batch' = [batch EXCEPT ![p] = b]
          /\ shared' = shared \cup {r \in Due : \E q \in Processor \ {p} : r \in batch[q].due}
          /\ UNCHANGED <<happened, activity, announced, mail, sent, message, run, returned, unheard, unmarked>>
      BY <1>6 DEF FindDue
    <2>2. Due \subseteq Mail /\ \A r \in Due : mail[r].status = "PENDING" /\ mail[r] # NoMail
      BY <1>2 DEF Due
    <2>3. b \in Batches /\ b.due = Due /\ b.now = batch[p].now /\ b.stage = "idle"
      BY <1>3, <2>1, <2>2 DEF Batches
    <2> HIDE DEF b
    <2>4. batch' \in [Processor -> Batches] /\ \A q \in Processor : batch'[q] = IF q = p THEN b ELSE batch[q]
      BY <1>1, <2>1, <2>3, OneBatchChanges
    <2>5. b.now = {}
      BY <1>1, <2>1, <2>3 DEF BatchesHoldMails
    <2>6. NotificationsTypeOK'
      BY <1>2, <1>4, <2>1, <2>2, <2>4
    <2>7. MailsAreThere'
      BY <1>1, <2>1 DEF MailsAreThere
    <2>8. BatchesHoldMails'
      BY <1>1, <2>1, <2>2, <2>3, <2>4, <2>5 DEF BatchesHoldMails
    <2>9. OneProcessorEach'
      <3>1. ASSUME NEW r \in Mail \ shared', r \in Due, NEW q \in Processor, q # p
            PROVE  r \notin batch[q].due \cup batch[q].now
        <4>1. r \notin batch[q].due /\ r \notin shared /\ mail[r].status = "PENDING"
          BY <2>1, <2>2, <3>1
        <4>2. r \notin batch[q].now
          BY <1>1, <3>1, <4>1 DEF OneProcessorEach
        <4> QED
          BY <4>1, <4>2
      <3>2. \A r \in Mail \ shared' : r \in Mail \ shared
        BY <2>1
      <3>3. ASSUME NEW r \in Mail \ shared'
            PROVE  \A q, s \in Processor : r \in batch'[q].due \cup batch'[q].now
                                            /\ r \in batch'[s].due \cup batch'[s].now => q = s
        <4>1. \A q, s \in Processor : r \in batch[q].due \cup batch[q].now
                                       /\ r \in batch[s].due \cup batch[s].now => q = s
          BY <1>1, <3>2 DEF OneProcessorEach
        <4> QED
          BY <2>3, <2>4, <2>5, <3>1, <4>1
      <3>4. ASSUME NEW r \in Mail \ shared', NEW q \in Processor
            PROVE  /\ r \in batch'[q].due => r \notin batch'[q].now /\ mail'[r].status = "PENDING"
                   /\ r \in batch'[q].now => /\ mail'[r].status = "PROCESSING"
                                             /\ batch'[q].stage = "send" => sent'[r] = 0
                                             /\ batch'[q].stage = "sent" => sent'[r] = 1
                                             /\ batch'[q].stage = "failed" => sent'[r] = 0 \/ r \in unmarked'
        <4>1. CASE q = p
          BY <2>1, <2>2, <2>3, <2>4, <2>5, <4>1
        <4>2. CASE q # p
          BY <1>1, <2>1, <2>4, <3>2, <4>2 DEF OneProcessorEach
        <4> QED
          BY <4>1, <4>2
      <3> QED
        BY <3>3, <3>4 DEF OneProcessorEach
    <2>10. SentAsMarked'
      BY <1>1, <2>1 DEF SentAsMarked
    <2> QED
      BY <2>6, <2>7, <2>8, <2>9, <2>10 DEF MailInv
  <1>7. ASSUME NEW p \in Processor, NEW r \in Mail, StartMail(p, r) PROVE MailInv'
    <2> DEFINE b == [due |-> batch[p].due \ {r}, now |-> {r}, stage |-> "send"]
               row == [mail[r] EXCEPT !.status = "PROCESSING"]
    <2>1. /\ batch[p].stage = "idle" /\ r \in batch[p].due /\ batch' = [batch EXCEPT ![p] = b]
          /\ mail' = [mail EXCEPT ![r] = row]
          /\ UNCHANGED <<happened, activity, announced, sent, message, run, returned, unheard, shared, unmarked>>
      BY <1>7 DEF StartMail, Marked
    <2>2. mail[r] \in Mails
      BY <1>1, <1>2, <2>1 DEF BatchesHoldMails
    <2>3. row \in Mails /\ row.status = "PROCESSING" /\ row.about = mail[r].about /\ row # NoMail
      BY <1>2, <2>2 DEF Mails
    <2>4. b \in Batches /\ b.due = batch[p].due \ {r} /\ b.now = {r} /\ b.stage = "send"
      BY <1>3 DEF Batches
    <2> HIDE DEF b, row
    <2>5. /\ mail' \in [Mail -> {NoMail} \cup Mails]
          /\ \A s \in Mail : mail'[s] = IF s = r THEN row ELSE mail[s]
      BY <1>1, <2>1, <2>3, OneMailChanges
    <2>6. batch' \in [Processor -> Batches] /\ \A q \in Processor : batch'[q] = IF q = p THEN b ELSE batch[q]
      BY <1>1, <2>1, <2>4, OneBatchChanges
    <2>7. NotificationsTypeOK'
      BY <1>2, <1>4, <2>1, <2>5, <2>6
    <2>8. MailsAreThere'
      BY <1>1, <2>1, <2>3, <2>5, MailsStayThere
    <2>9. BatchesHoldMails'
      BY <1>1, <2>1, <2>3, <2>4, <2>5, <2>6, <1>3 DEF BatchesHoldMails
    <2>10. r \notin shared => /\ mail[r].status = "PENDING" /\ sent[r] = 0
                              /\ \A q \in Processor : q # p => r \notin batch[q].due \cup batch[q].now
      BY <1>1, <2>1 DEF OneProcessorEach, SentAsMarked
    <2>11. OneProcessorEach'
      <3>1. ASSUME NEW s \in Mail \ shared'
            PROVE  \A q, u \in Processor : s \in batch'[q].due \cup batch'[q].now
                                            /\ s \in batch'[u].due \cup batch'[u].now => q = u
        <4>1. \A q, u \in Processor : s \in batch[q].due \cup batch[q].now
                                       /\ s \in batch[u].due \cup batch[u].now => q = u
          BY <1>1, <2>1, <3>1 DEF OneProcessorEach
        <4>2. \A q \in Processor : s \in batch'[q].due \cup batch'[q].now => s \in batch[q].due \cup batch[q].now
          BY <2>1, <2>4, <2>6
        <4> QED
          BY <4>1, <4>2
      <3>2. ASSUME NEW s \in Mail \ shared', NEW q \in Processor
            PROVE  /\ s \in batch'[q].due => s \notin batch'[q].now /\ mail'[s].status = "PENDING"
                   /\ s \in batch'[q].now => /\ mail'[s].status = "PROCESSING"
                                             /\ batch'[q].stage = "send" => sent'[s] = 0
                                             /\ batch'[q].stage = "sent" => sent'[s] = 1
                                             /\ batch'[q].stage = "failed" => sent'[s] = 0 \/ s \in unmarked'
        <4>1. s \notin shared
          BY <2>1
        <4>2. CASE q = p
          <5>1. s \in batch[p].due => mail[s].status = "PENDING"
            BY <1>1, <4>1 DEF OneProcessorEach
          <5> QED
            BY <2>1, <2>3, <2>4, <2>5, <2>6, <2>10, <4>1, <4>2, <5>1
        <4>3. CASE q # p
          <5>1. s = r => s \notin batch[q].due \cup batch[q].now
            BY <2>10, <4>1, <4>3
          <5> QED
            BY <1>1, <2>1, <2>5, <2>6, <4>1, <4>3, <5>1 DEF OneProcessorEach
        <4> QED
          BY <4>2, <4>3
      <3> QED
        BY <3>1, <3>2 DEF OneProcessorEach
    <2>12. SentAsMarked'
      BY <1>1, <2>1, <2>3, <2>5, <2>10 DEF SentAsMarked
    <2> QED
      BY <2>7, <2>8, <2>9, <2>11, <2>12 DEF MailInv
  <1>8. ASSUME NEW p \in Processor, SendMail(p) PROVE MailInv'
    <2>1. /\ batch[p].stage = "send"
          /\ UNCHANGED <<happened, activity, announced, mail, message, run, returned, unheard, shared, unmarked>>
          /\ \E stage \in {"sent", "failed"} :
               /\ batch' = [batch EXCEPT ![p] = [batch[p] EXCEPT !.stage = stage]]
               /\ sent' = [r \in Mail |-> IF stage = "sent" /\ r \in batch[p].now THEN sent[r] + 1 ELSE sent[r]]
      <3>1. sent = [r \in Mail |-> sent[r]]
        BY <1>2
      <3> QED
        BY <1>8, <3>1 DEF SendMail
    <2>2. PICK stage \in {"sent", "failed"} :
            /\ batch' = [batch EXCEPT ![p] = [batch[p] EXCEPT !.stage = stage]]
            /\ sent' = [r \in Mail |-> IF stage = "sent" /\ r \in batch[p].now THEN sent[r] + 1 ELSE sent[r]]
      BY <2>1
    <2> DEFINE b == [batch[p] EXCEPT !.stage = stage]
    <2>3. b \in Batches /\ b.due = batch[p].due /\ b.now = batch[p].now /\ b.stage = stage
      BY <1>3 DEF Batches
    <2>4. batch' = [batch EXCEPT ![p] = b]
      BY <2>2
    <2> HIDE DEF b
    <2>5. batch' \in [Processor -> Batches] /\ \A q \in Processor : batch'[q] = IF q = p THEN b ELSE batch[q]
      BY <1>1, <2>3, <2>4, OneBatchChanges
    <2>6. /\ sent' \in [Mail -> Nat]
          /\ \A r \in Mail : sent'[r] = IF stage = "sent" /\ r \in batch[p].now THEN sent[r] + 1 ELSE sent[r]
      BY <1>2, <2>2
    <2>7. NotificationsTypeOK'
      BY <1>2, <1>4, <2>1, <2>5, <2>6
    <2>8. MailsAreThere'
      BY <1>1, <2>1 DEF MailsAreThere
    <2>9. BatchesHoldMails'
      BY <1>1, <2>1, <2>2, <2>3, <2>5 DEF BatchesHoldMails
    <2>10. \A r \in Mail \ shared : r \in batch[p].now => /\ sent[r] = 0 /\ mail[r].status = "PROCESSING"
                                                          /\ \A q \in Processor : q # p => r \notin batch[q].now
      BY <1>1, <2>1 DEF OneProcessorEach
    <2>11. OneProcessorEach'
      <3>1. ASSUME NEW s \in Mail \ shared'
            PROVE  \A q, u \in Processor : s \in batch'[q].due \cup batch'[q].now
                                            /\ s \in batch'[u].due \cup batch'[u].now => q = u
        <4>1. \A q, u \in Processor : s \in batch[q].due \cup batch[q].now
                                       /\ s \in batch[u].due \cup batch[u].now => q = u
          BY <1>1, <2>1, <3>1 DEF OneProcessorEach
        <4> QED
          BY <2>3, <2>5, <4>1
      <3>2. ASSUME NEW s \in Mail \ shared', NEW q \in Processor
            PROVE  /\ s \in batch'[q].due => s \notin batch'[q].now /\ mail'[s].status = "PENDING"
                   /\ s \in batch'[q].now => /\ mail'[s].status = "PROCESSING"
                                             /\ batch'[q].stage = "send" => sent'[s] = 0
                                             /\ batch'[q].stage = "sent" => sent'[s] = 1
                                             /\ batch'[q].stage = "failed" => sent'[s] = 0 \/ s \in unmarked'
        <4>1. s \notin shared
          BY <2>1
        <4>2. CASE q = p
          <5>1. s \in batch[p].due => s \notin batch[p].now /\ mail[s].status = "PENDING"
            BY <1>1, <4>1 DEF OneProcessorEach
          <5> QED
            BY <2>1, <2>2, <2>3, <2>5, <2>6, <2>10, <4>1, <4>2, <5>1
        <4>3. CASE q # p
          <5>1. s \in batch[q].now => sent'[s] = sent[s]
            BY <2>6, <2>10, <4>1, <4>3
          <5> QED
            BY <1>1, <2>1, <2>5, <4>1, <4>3, <5>1 DEF OneProcessorEach
        <4> QED
          BY <4>2, <4>3
      <3> QED
        BY <3>1, <3>2 DEF OneProcessorEach
    <2>12. SentAsMarked'
      <3>1. ASSUME NEW s \in Mail \ shared
            PROVE  /\ sent'[s] <= 1
                   /\ mail[s].status \in {"none", "PENDING"} => sent'[s] = 0
                   /\ mail[s].status = "SENT" => sent'[s] = 1
                   /\ mail[s].status = "FAILED" => sent'[s] = 0 \/ s \in unmarked
        <4>1. CASE s \in batch[p].now
          BY <2>6, <2>10, <4>1
        <4>2. CASE s \notin batch[p].now
          BY <1>1, <2>6, <4>2 DEF SentAsMarked
        <4> QED
          BY <4>1, <4>2
      <3> QED
        BY <2>1, <3>1 DEF SentAsMarked
    <2> QED
      BY <2>7, <2>8, <2>9, <2>11, <2>12 DEF MailInv
  <1>9. ASSUME NEW p \in Processor, MarkMail(p) PROVE MailInv'
    <2>1. /\ batch[p].stage \in {"sent", "failed"}
          /\ \E r \in batch[p].now : mail' = [mail EXCEPT ![r] = [mail[r] EXCEPT !.status = Outcome(batch[p].stage)]]
          /\ batch' = [batch EXCEPT ![p] = [batch[p] EXCEPT !.now = {}, !.stage = "idle"]]
          /\ UNCHANGED <<happened, activity, announced, sent, message, run, returned, unheard, shared, unmarked>>
      BY <1>9 DEF MarkMail, Marked
    <2>2. PICK r \in batch[p].now : mail' = [mail EXCEPT ![r] = [mail[r] EXCEPT !.status = Outcome(batch[p].stage)]]
      BY <2>1
    <2> DEFINE b == [batch[p] EXCEPT !.now = {}, !.stage = "idle"]
               row == [mail[r] EXCEPT !.status = Outcome(batch[p].stage)]
    <2>3. r \in Mail /\ mail[r] \in Mails
      BY <1>1, <1>2, <1>3, <2>2 DEF BatchesHoldMails
    <2>4. /\ row \in Mails /\ row.about = mail[r].about /\ row # NoMail
          /\ row.status = IF batch[p].stage = "sent" THEN "SENT" ELSE "FAILED"
      BY <1>2, <2>3 DEF Mails, Outcome
    <2>5. b \in Batches /\ b.due = batch[p].due /\ b.now = {} /\ b.stage = "idle"
      BY <1>3 DEF Batches
    <2>6. batch' = [batch EXCEPT ![p] = b] /\ mail' = [mail EXCEPT ![r] = row]
      BY <2>1, <2>2
    <2> HIDE DEF b, row
    <2>7. /\ mail' \in [Mail -> {NoMail} \cup Mails]
          /\ \A s \in Mail : mail'[s] = IF s = r THEN row ELSE mail[s]
      BY <1>1, <2>3, <2>4, <2>6, OneMailChanges
    <2>8. batch' \in [Processor -> Batches] /\ \A q \in Processor : batch'[q] = IF q = p THEN b ELSE batch[q]
      BY <1>1, <2>5, <2>6, OneBatchChanges
    <2>9. NotificationsTypeOK'
      BY <1>2, <1>4, <2>1, <2>7, <2>8
    <2>10. MailsAreThere'
      BY <1>1, <2>1, <2>4, <2>7, MailsStayThere
    <2>11. BatchesHoldMails'
      BY <1>1, <1>3, <2>4, <2>5, <2>7, <2>8 DEF BatchesHoldMails
    <2>12. r \notin shared =>
             /\ batch[p].stage = "sent" => sent[r] = 1
             /\ batch[p].stage = "failed" => sent[r] = 0 \/ r \in unmarked
             /\ \A q \in Processor : r \notin batch'[q].due \cup batch'[q].now
      BY <1>1, <2>2, <2>3, <2>5, <2>8 DEF OneProcessorEach
    <2>13. OneProcessorEach'
      <3>1. ASSUME NEW s \in Mail \ shared'
            PROVE  \A q, u \in Processor : s \in batch'[q].due \cup batch'[q].now
                                            /\ s \in batch'[u].due \cup batch'[u].now => q = u
        <4>1. \A q, u \in Processor : s \in batch[q].due \cup batch[q].now
                                       /\ s \in batch[u].due \cup batch[u].now => q = u
          BY <1>1, <2>1, <3>1 DEF OneProcessorEach
        <4> QED
          BY <2>5, <2>8, <4>1
      <3>2. ASSUME NEW s \in Mail \ shared', NEW q \in Processor
            PROVE  /\ s \in batch'[q].due => s \notin batch'[q].now /\ mail'[s].status = "PENDING"
                   /\ s \in batch'[q].now => /\ mail'[s].status = "PROCESSING"
                                             /\ batch'[q].stage = "send" => sent'[s] = 0
                                             /\ batch'[q].stage = "sent" => sent'[s] = 1
                                             /\ batch'[q].stage = "failed" => sent'[s] = 0 \/ s \in unmarked'
        <4>1. s \notin shared
          BY <2>1
        <4>2. CASE s = r
          BY <2>12, <4>1, <4>2
        <4>3. CASE s # r
          <5>1. mail'[s] = mail[s] /\ batch'[q].due = batch[q].due
            BY <2>5, <2>7, <2>8, <4>3
          <5>2. s \in batch'[q].now => batch'[q] = batch[q]
            BY <2>5, <2>8
          <5>3. /\ s \in batch[q].due => s \notin batch[q].now /\ mail[s].status = "PENDING"
                /\ s \in batch[q].now => /\ mail[s].status = "PROCESSING"
                                         /\ batch[q].stage = "send" => sent[s] = 0
                                         /\ batch[q].stage = "sent" => sent[s] = 1
                                         /\ batch[q].stage = "failed" => sent[s] = 0 \/ s \in unmarked
            BY <1>1, <4>1 DEF OneProcessorEach
          <5> QED
            BY <2>1, <5>1, <5>2, <5>3
        <4> QED
          BY <4>2, <4>3
      <3> QED
        BY <3>1, <3>2 DEF OneProcessorEach
    <2>14. SentAsMarked'
      <3>1. ASSUME NEW s \in Mail \ shared
            PROVE  /\ sent[s] <= 1
                   /\ mail'[s].status \in {"none", "PENDING"} => sent[s] = 0
                   /\ mail'[s].status = "SENT" => sent[s] = 1
                   /\ mail'[s].status = "FAILED" => sent[s] = 0 \/ s \in unmarked
        <4>1. sent[s] <= 1
          BY <1>1 DEF SentAsMarked
        <4>2. CASE s = r
          BY <2>1, <2>4, <2>7, <2>12, <4>1, <4>2
        <4>3. CASE s # r
          <5>1. mail'[s] = mail[s]
            BY <2>7, <4>3
          <5> QED
            BY <1>1, <4>1, <5>1 DEF SentAsMarked
        <4> QED
          BY <4>2, <4>3
      <3> QED
        BY <2>1, <3>1 DEF SentAsMarked
    <2> QED
      BY <2>9, <2>10, <2>11, <2>13, <2>14 DEF MailInv
  <1>10. ASSUME NEW p \in Processor, MarkFails(p) PROVE MailInv'
    <2> DEFINE b == [batch[p] EXCEPT !.stage = "failed"]
    <2>1. /\ batch[p].stage = "sent" /\ unmarked' = unmarked \cup batch[p].now /\ batch' = [batch EXCEPT ![p] = b]
          /\ UNCHANGED <<happened, activity, announced, mail, sent, message, run, returned, unheard, shared>>
      BY <1>10 DEF MarkFails
    <2>2. b \in Batches /\ b.due = batch[p].due /\ b.now = batch[p].now /\ b.stage = "failed"
      BY <1>3 DEF Batches
    <2> HIDE DEF b
    <2>3. batch' \in [Processor -> Batches] /\ \A q \in Processor : batch'[q] = IF q = p THEN b ELSE batch[q]
      BY <1>1, <2>1, <2>2, OneBatchChanges
    <2>4. NotificationsTypeOK'
      BY <1>2, <1>3, <1>4, <2>1, <2>3
    <2>5. MailsAreThere'
      BY <1>1, <2>1 DEF MailsAreThere
    <2>6. BatchesHoldMails'
      BY <1>1, <2>1, <2>2, <2>3 DEF BatchesHoldMails
    <2>7. \A q \in Processor : batch'[q].due = batch[q].due /\ batch'[q].now = batch[q].now
      BY <2>2, <2>3
    <2>8. OneProcessorEach'
      <3>1. ASSUME NEW s \in Mail \ shared', NEW q \in Processor
            PROVE  /\ s \in batch'[q].due => s \notin batch'[q].now /\ mail'[s].status = "PENDING"
                   /\ s \in batch'[q].now => /\ mail'[s].status = "PROCESSING"
                                             /\ batch'[q].stage = "send" => sent'[s] = 0
                                             /\ batch'[q].stage = "sent" => sent'[s] = 1
                                             /\ batch'[q].stage = "failed" => sent'[s] = 0 \/ s \in unmarked'
        <4>1. CASE q = p
          BY <1>1, <2>1, <2>2, <2>3, <4>1 DEF OneProcessorEach
        <4>2. CASE q # p
          BY <1>1, <2>1, <2>3, <4>2 DEF OneProcessorEach
        <4> QED
          BY <4>1, <4>2
      <3>2. ASSUME NEW s \in Mail \ shared'
            PROVE  \A q, u \in Processor : s \in batch'[q].due \cup batch'[q].now
                                            /\ s \in batch'[u].due \cup batch'[u].now => q = u
        BY <1>1, <2>1, <2>7 DEF OneProcessorEach
      <3> QED
        BY <3>1, <3>2 DEF OneProcessorEach
    <2>9. SentAsMarked'
      BY <1>1, <2>1 DEF SentAsMarked
    <2> QED
      BY <2>4, <2>5, <2>6, <2>8, <2>9 DEF MailInv
  <1>11. ASSUME NEW p \in Processor, ProcessorDies(p) PROVE MailInv'
    <2> DEFINE b == [due |-> {}, now |-> {}, stage |-> "idle"]
    <2>1. /\ batch' = [batch EXCEPT ![p] = b]
          /\ UNCHANGED <<happened, activity, announced, mail, sent, message, run, returned,
                         unheard, shared, unmarked>>
      BY <1>11 DEF ProcessorDies
    <2>2. b \in Batches /\ b.due = {} /\ b.now = {} /\ b.stage = "idle"
      BY DEF Batches
    <2> HIDE DEF b
    <2>3. batch' \in [Processor -> Batches] /\ \A q \in Processor : batch'[q] = IF q = p THEN b ELSE batch[q]
      BY <1>1, <2>1, <2>2, OneBatchChanges
    <2>4. NotificationsTypeOK'
      BY <1>2, <1>4, <2>1, <2>3
    <2>5. MailsAreThere' /\ SentAsMarked'
      BY <1>1, <2>1 DEF MailsAreThere, SentAsMarked
    <2>6. BatchesHoldMails'
      BY <1>1, <2>1, <2>2, <2>3 DEF BatchesHoldMails
    <2>7. OneProcessorEach'
      BY <1>1, <2>1, <2>2, <2>3 DEF OneProcessorEach
    <2> QED
      BY <2>4, <2>5, <2>6, <2>7 DEF MailInv
  <1>12. \/ \E f \in Fact, r \in Mail : QueueMail(f, r)
         \/ UNCHANGED returned
    BY DEF FindDue, SendMail, MarkMail, MarkFails, ProcessorDies, StartMail
  <1>13. UNCHANGED <<activity, announced, run, unheard>>
    BY DEF QueueMail, FindDue, SendMail, MarkMail, MarkFails, ProcessorDies, StartMail
  <1> QED
    BY <1>5, <1>6, <1>7, <1>8, <1>9, <1>10, <1>11, <1>12, <1>13

\* A fact that happens, one there is no mail to send about, and a message.
LEMMA OtherNotices ==
  ASSUME NotificationsAssumption, TimelineInv, MailInv, NEW f \in Fact,
         Happen(f) \/ NothingToMail(f) \/ SendMessage(f)
  PROVE  TimelineInv' /\ MailInv'
  <1>1. /\ NotificationsTypeOK /\ "mail" \in Handlers /\ Mailed \subseteq Fact /\ MaxMessages \in Nat
        /\ MailsAreThere /\ BatchesHoldMails /\ OneProcessorEach /\ SentAsMarked
    BY DEF MailInv, NotificationsAssumption, Handlers
  <1>2. UNCHANGED <<activity, announced, mail, sent, run, batch, unheard, shared, unmarked>>
    BY DEF Happen, NothingToMail, SendMessage
  <1>3. /\ happened' \subseteq Fact /\ message' \in [Fact -> 0..MaxMessages] /\ returned' \in [Fact -> SUBSET Handlers]
        /\ \A g \in Fact : "timeline" \in returned'[g] => "timeline" \in returned[g]
        /\ \A g \in Mailed : "mail" \in returned'[g] => "mail" \in returned[g]
    <2>1. CASE Happen(f)
      BY <1>1, <2>1, NoticeTypes DEF Happen
    <2>2. CASE NothingToMail(f)
      <3>1. UNCHANGED <<happened, message>> /\ Returns(f, "mail") /\ f \notin Mailed
        BY <2>2 DEF NothingToMail
      <3> QED
        BY <1>1, <3>1, NoticeTypes, HandlerReturns
    <2>3. CASE SendMessage(f)
      <3>1. UNCHANGED <<happened, returned>>
        BY <2>3 DEF SendMessage
      <3>2. message \in [Fact -> 0..MaxMessages]
        BY <1>1, NoticeTypes
      <3>3. message' \in [Fact -> 0..MaxMessages]
        BY <1>1, <2>3, <3>2 DEF SendMessage
      <3> QED
        BY <1>1, <3>1, <3>3, NoticeTypes
    <2> QED
      BY <2>1, <2>2, <2>3
  <1>4. NotificationsTypeOK'
    BY <1>1, <1>2, <1>3, NoticeTypes, NoticeTypesFollow
  <1>5. TimelineInv'
    BY <1>2, <1>3, <1>4, TimelineKept
  <1>6. MailsAreThere' /\ BatchesHoldMails' /\ OneProcessorEach' /\ SentAsMarked'
    BY <1>1, <1>2, <1>3 DEF MailsAreThere, BatchesHoldMails, OneProcessorEach, SentAsMarked
  <1> QED
    BY <1>4, <1>5, <1>6 DEF MailInv

\* What the runs of the timeline leave of the queue of mails.
LEMMA MailKept ==
  ASSUME MailInv, NotificationsTypeOK', UNCHANGED <<mail, sent, batch, shared, unmarked>>,
         NotificationsAssumption, \A f \in Fact : "mail" \in returned'[f] => "mail" \in returned[f]
  PROVE  MailInv'
  BY DEF MailInv, MailsAreThere, BatchesHoldMails, OneProcessorEach, SentAsMarked, NotificationsAssumption

\* The empty system satisfies the invariant.
LEMMA NoticesBegin ==
  ASSUME NotificationsAssumption, NotificationsInit
  PROVE  TimelineInv /\ MailInv
  <1>1. NotificationsTypeOK
    BY DEF NotificationsInit, NotificationsTypeOK, NotificationsAssumption, NoMail, Resting
  <1>2. Resting.stage = "none" /\ NoMail.status = "none"
    BY DEF Resting, NoMail
  <1>3. AnnouncedByOne
    BY <1>2 DEF NotificationsInit, AnnouncedByOne
  <1>4. MailsAreThere /\ BatchesHoldMails /\ OneProcessorEach /\ SentAsMarked
    BY <1>2 DEF NotificationsInit, MailsAreThere, BatchesHoldMails, OneProcessorEach, SentAsMarked
  <1> QED
    BY <1>1, <1>3, <1>4 DEF TimelineInv, MailInv

\* Every state of the specification satisfies the invariant.
LEMMA NoticesInvariant == NotificationsSpec => [](TimelineInv /\ MailInv)
  <1>1. NotificationsInit => TimelineInv /\ MailInv
    BY NoticesBegin, NotificationsAssumption
  <1>2. ASSUME TimelineInv, MailInv, [NotificationsNext]_noticeVars
        PROVE  TimelineInv' /\ MailInv'
    <2>1. CASE UNCHANGED noticeVars
      <3>1. NotificationsTypeOK'
        BY <1>2, <2>1, NoticeTypes, NoticeTypesFollow DEF TimelineInv, noticeVars
      <3> QED
        BY <1>2, <2>1, <3>1, TimelineKept, MailKept, NotificationsAssumption DEF noticeVars
    <2>2. CASE \E f \in Fact : Happen(f) \/ NothingToMail(f) \/ SendMessage(f)
      BY <1>2, <2>2, OtherNotices, NotificationsAssumption
    <2>3. ASSUME NEW n \in NoticeRun, \/ \E f \in Fact : ActivityReads(n, f)
                                      \/ ActivityCreates(n) \/ ActivityEmits(n) \/ ActivityFails(n)
          PROVE  TimelineInv' /\ MailInv'
      <3>1. /\ TimelineInv' /\ UNCHANGED <<mail, sent, batch, shared, unmarked>>
            /\ \A f \in Fact : "mail" \in returned'[f] => "mail" \in returned[f]
        BY <1>2, <2>3, TimelineSteps, NotificationsAssumption
      <3>2. NotificationsTypeOK'
        BY <3>1 DEF TimelineInv
      <3> QED
        BY <1>2, <3>1, <3>2, MailKept, NotificationsAssumption
    <2>4. CASE \/ \E f \in Fact, r \in Mail : QueueMail(f, r)
               \/ \E p \in Processor :
                    \/ FindDue(p) \/ SendMail(p) \/ MarkMail(p) \/ MarkFails(p) \/ ProcessorDies(p)
                    \/ \E r \in Mail : StartMail(p, r)
      <3>1. MailInv' /\ UNCHANGED <<activity, announced, run, unheard>>
            /\ \A f \in Fact : "timeline" \in returned'[f] => "timeline" \in returned[f]
        BY <1>2, <2>4, MailSteps, NotificationsAssumption
      <3>2. NotificationsTypeOK'
        BY <3>1 DEF MailInv
      <3> QED
        BY <1>2, <3>1, <3>2, TimelineKept
    <2> QED
      BY <1>2, <2>1, <2>2, <2>3, <2>4 DEF NotificationsNext
  <1> QED
    BY <1>1, <1>2, PTL DEF NotificationsSpec

\* Facts are told once, and a mail is what its row says of it (recordActivity,
\* StorefrontEmailEventsHandler, EmailService.processQueue).
THEOREM NoticesStayTrue == NotificationsSpec => []NoticesAreTrue
  <1>1. TimelineInv /\ MailInv => NoticesAreTrue
    BY DEF TimelineInv, MailInv, NoticesAreTrue, ToldOnce, AnnouncedByOne, MailsAreThere
  <1> QED
    BY <1>1, NoticesInvariant, PTL

-----------------------------------------------------------------------------
(* The public catalogue (StoreCatalog): what is put in an order is there     *)
(* once, and there is one order where it tells all elements apart.           *)

\* A sequence of all elements of a finite set.
LEMMA Arranged ==
  ASSUME NEW S, IsFiniteSet(S), NEW s \in SetToSeqs(S)
  PROVE  /\ s \in Seq(S) /\ Len(s) = Cardinality(S) /\ Len(s) \in Nat /\ DOMAIN s = 1..Len(s)
         /\ \A i, j \in DOMAIN s : i # j => s[i] # s[j]
         /\ ToSet(s) = S
<1> DEFINE n == Cardinality(S)
<1>1. n \in Nat
  BY FS_CardinalityType
<1>2. s \in [1..n -> S] /\ \A i, j \in 1..n : i # j => s[i] # s[j]
  BY DEF SetToSeqs
<1>3. s \in Injection(1..n, S)
  BY <1>2 DEF Injection, IsInjective
<1>4. IsFiniteSet(1..n) /\ Cardinality(1..n) = n
  BY <1>1, FS_Interval
<1>5. s \in Surjection(1..n, S)
  BY <1>3, <1>4, FS_Injection
<1>6. s \in Seq(S) /\ Len(s) = n
  BY <1>1, <1>2
<1>7. ToSet(s) = S
  BY <1>2, <1>5 DEF ToSet, Surjection
<1> QED
  BY <1>1, <1>2, <1>6, <1>7

\* What sortProducts makes of rows.
LEMMA SortedRows ==
  ASSUME NEW q, NEW cost, NEW S, IsFiniteSet(S), NEW s \in Sorted(q, cost, S)
  PROVE  /\ s \in SetToSeqs(S)
         /\ \A i, j \in DOMAIN s : i < j => ~Earlier(q, cost, s[j], s[i])
BY DEF Sorted, InOrder

\* Products that cost the same are sorted the same way.
LEMMA SortedAlike ==
  ASSUME NEW q, NEW cost, NEW fee, NEW S, IsFiniteSet(S), \A p \in S : cost[p] = fee[p],
         NEW s \in Sorted(q, cost, S)
  PROVE  s \in Sorted(q, fee, S)
<1>1. s \in SetToSeqs(S) /\ \A i, j \in DOMAIN s : i < j => ~Earlier(q, cost, s[j], s[i])
  BY SortedRows
<1>2. \A i \in DOMAIN s : s[i] \in S
  BY <1>1, Arranged DEF ToSet
<1>3. \A i, j \in DOMAIN s : Earlier(q, cost, s[j], s[i]) <=> Earlier(q, fee, s[j], s[i])
  BY <1>2 DEF Earlier
<1> QED
  BY <1>1, <1>3 DEF Sorted, InOrder

\* Where an order tells all elements apart there is one sequence: two of them would
\* differ first somewhere, and each has further behind what the other has there.
LEMMA OneOrder ==
  ASSUME NEW S, IsFiniteSet(S), NEW Before,
         \A p, r \in S : p # r => <<p, r>> \in Before \/ <<r, p>> \in Before,
         NEW s \in SetToSeqs(S), \A i, j \in DOMAIN s : i < j => <<s[j], s[i]>> \notin Before,
         NEW t \in SetToSeqs(S), \A i, j \in DOMAIN t : i < j => <<t[j], t[i]>> \notin Before
  PROVE  s = t
<1> DEFINE n == Cardinality(S)
           D == {i \in 1..n : s[i] # t[i]}
<1>1. /\ s \in Seq(S) /\ Len(s) = n /\ n \in Nat /\ DOMAIN s = 1..n /\ ToSet(s) = S
      /\ \A i, j \in 1..n : i # j => s[i] # s[j]
      /\ \A i, j \in 1..n : i < j => <<s[j], s[i]>> \notin Before
  BY Arranged
<1>2. /\ t \in Seq(S) /\ Len(t) = n /\ DOMAIN t = 1..n /\ ToSet(t) = S
      /\ \A i, j \in 1..n : i # j => t[i] # t[j]
      /\ \A i, j \in 1..n : i < j => <<t[j], t[i]>> \notin Before
  BY Arranged
<1> HIDE DEF n
<1>3. ASSUME D # {} PROVE FALSE
  <2>0. D \in SUBSET Nat
    BY <1>1
  <2>1. PICK k \in D : \A m \in D : ~ (m < k)
    <3> HIDE DEF D
    <3> QED
      BY <2>0, <1>3, LeastNat
  <2>2. k \in 1..n /\ s[k] # t[k] /\ \A i \in 1..n : i < k => s[i] = t[i]
    BY <2>1
  <2> HIDE DEF D
  <2>3. s[k] \in S /\ t[k] \in S
    BY <1>1, <1>2, <2>2
  <2>4. PICK m \in 1..n : s[m] = t[k]
    BY <1>1, <2>3 DEF ToSet
  <2>5. PICK o \in 1..n : t[o] = s[k]
    BY <1>2, <2>3 DEF ToSet
  <2>6. k < m /\ k < o
    BY <1>1, <1>2, <2>2, <2>4, <2>5
  <2>7. <<t[k], s[k]>> \notin Before /\ <<s[k], t[k]>> \notin Before
    BY <1>1, <1>2, <2>2, <2>4, <2>5, <2>6
  <2> QED
    BY <2>2, <2>3, <2>7
<1> QED
  BY <1>1, <1>2, <1>3, SeqEqual

\* A page of a sequence carries the pages before it on.
LEMMA PagesJoin ==
  ASSUME NEW S, NEW s \in Seq(S), NEW page \in Nat \ {0}, NEW limit \in Nat \ {0},
         (page - 1) * limit <= Len(s)
  PROVE  /\ HasNext(page, limit, Len(s)) =>
              /\ (page + 1 - 1) * limit <= Len(s)
              /\ SubSeq(s, 1, (page - 1) * limit) \o Slice(s, page, limit)
                   = SubSeq(s, 1, (page + 1 - 1) * limit)
         /\ ~HasNext(page, limit, Len(s)) =>
              SubSeq(s, 1, (page - 1) * limit) \o Slice(s, page, limit) = s
<1> DEFINE from == (page - 1) * limit
           to == page * limit
           end == IF to < Len(s) THEN to ELSE Len(s)
<1>1. from \in Nat /\ to \in Nat /\ to = from + limit /\ (page + 1 - 1) * limit = to
  OBVIOUS
<1>2. Len(s) \in Nat
  BY LenProperties
<1>3. HasNext(page, limit, Len(s)) <=> to < Len(s)
  BY DEF HasNext
<1>4. Slice(s, page, limit) = SubSeq(s, from + 1, end)
  BY DEF Slice
<1> HIDE DEF from, to
<1>5. 1 \in 1..Len(s) + 1 /\ from \in 1 - 1..Len(s) /\ end \in from..Len(s)
  BY <1>1, <1>2
<1>6. SubSeq(s, 1, from) \o SubSeq(s, from + 1, end) = SubSeq(s, 1, end)
  BY <1>5, ConcatAdjacentSubSeq
<1>7. SubSeq(s, 1, Len(s)) = s
  BY SubSeqFull
<1>8. SubSeq(s, 1, from) \o Slice(s, page, limit) = SubSeq(s, 1, end)
  BY <1>4, <1>6
<1>9. HasNext(page, limit, Len(s)) => end = (page + 1 - 1) * limit /\ (page + 1 - 1) * limit <= Len(s)
  BY <1>1, <1>2, <1>3
<1>10. ~HasNext(page, limit, Len(s)) => end = Len(s)
  BY <1>3
<1> HIDE DEF end
<1> QED
  BY <1>7, <1>8, <1>9, <1>10 DEF from

-----------------------------------------------------------------------------
(* What is there to sell.                                                    *)

\* What is available of each stock item, and the sum the library takes of it.
Counted == [i \in StockEntry |-> OrZero(shelf[i].stock)]
CountsUp(g, S) == g = [s \in SUBSET S |-> IF s = {} THEN 0
                                          ELSE OrZero(shelf[Pick(s)].stock) + g[s \ {Pick(s)}]]

LEMMA CountedNat ==
  ASSUME CatalogTypeOK, NEW i \in StockEntry
  PROVE  /\ Counted[i] = OrZero(shelf[i].stock) /\ Counted[i] \in Nat
         /\ shelf[i].stock # None => shelf[i].stock \in Nat
<1>1. Level \subseteq Nat
  BY StoreCatalogAssumption
<1> QED
  BY <1>1 DEF CatalogTypeOK, Counted, OrZero

\* Stock is available of a product if and only if it is of one of its stock items.
LEMMA StockIsSold ==
  ASSUME CatalogTypeOK, NEW p
  PROVE  AvailableInventory(p) \in Nat /\ (AvailableInventory(p) > 0 <=> Sold(p))
<1> DEFINE S == EntriesOf(p)
<1>1. S \in SUBSET StockEntry /\ IsFiniteSet(S)
  <2>1. IsFiniteSet(StockEntry)
    BY StoreCatalogAssumption
  <2> QED
    BY <2>1, FS_Subset DEF EntriesOf
<1>2. \A i \in S : Counted[i] = OrZero(shelf[i].stock) /\ Counted[i] \in Nat
  BY <1>1, CountedNat
<1>3. AvailableInventory(p) = SumOf(Counted, S)
  <2> HIDE DEF S
  <2>1. \A g : IsSum(g, Counted, SUBSET S) <=> CountsUp(g, S)
    BY <1>2, PickIn DEF IsSum, CountsUp
  <2> DEFINE G == CHOOSE g : CountsUp(g, S)
  <2>2. CountsUp(G, S)
    BY <1>1, <2>1, SumExists
  <2>3. Adds(G, Counted, S)
    BY <1>1, <2>1, <2>2 DEF Adds
  <2>4. AvailableInventory(p) = G[S]
    BY DEF AvailableInventory, MapThenSumSet, MapThenFoldSet, CountsUp, Pick, S
  <2> QED
    BY <2>3, <2>4, TotalIs
<1>4. Sold(p) <=> \E i \in S : Counted[i] > 0
  BY <1>2 DEF Sold
<1> HIDE DEF S
<1>5. SumOf(Counted, S) \in Nat
  BY <1>1, <1>2, TotalNat
<1>6. ASSUME \A i \in S : ~ (Counted[i] > 0) PROVE SumOf(Counted, S) = 0
  <2>1. \A i \in S : Counted[i] = 0
    BY <1>2, <1>6
  <2> QED
    BY <1>1, <2>1, TotalOfZeros
<1>7. ASSUME NEW i \in S, Counted[i] > 0 PROVE SumOf(Counted, S) > 0
  <2>1. IsFiniteSet(S \ {i})
    BY <1>1, FS_Subset
  <2>2. SumOf(Counted, S \ {i}) \in Nat
    BY <1>2, <2>1, TotalNat
  <2>4. IntegersOn(Counted, S)
    BY <1>2 DEF IntegersOn
  <2>3. SumOf(Counted, S) = Counted[i] + SumOf(Counted, S \ {i})
    BY <1>1, <2>4, TotalRemoves
  <2> QED
    BY <1>2, <1>7, <2>2, <2>3
<1> QED
  BY <1>3, <1>4, <1>5, <1>6, <1>7

\* What a visitor reads of a number of units.
LEMMA ShownStock ==
  ASSUME NEW n \in Nat
  PROVE  Visibility(n) = "OUT_OF_STOCK" <=> n = 0
<1>1. None \notin Nat
  BY StoreCatalogAssumption
<1> QED
  BY <1>1 DEF Visibility, LowStockThreshold

\* As long as nothing is edited, a visitor is told the same.
LEMMA RowsKept ==
  ASSUME UNCHANGED shopRows, NEW q
  PROVE  /\ Where(q)' = Where(q) /\ Wanted(q)' = Wanted(q) /\ Candidates(q)' = Candidates(q)
         /\ Tied(q)' = Tied(q)
<1>1. UNCHANGED <<onSale, offered, price, shelf, registry>>
  BY DEF shopRows
<1>2. Candidates(q)' = Candidates(q)
  BY <1>1 DEF Candidates
<1>3. Matched(q)' = Matched(q)
  BY <1>1 DEF Matched, ResolveProductSelection, CarriersOnSale
<1>4. Where(q)' = Where(q)
  BY <1>1, <1>3 DEF Where
<1>5. \A p : Sold(p)' = Sold(p)
  BY <1>1 DEF Sold
<1>6. Wanted(q)' = Wanted(q)
  BY <1>1, <1>4, <1>5 DEF Wanted
<1>7. Tied(q)' = Tied(q)
  BY <1>1, <1>6 DEF Tied
<1> QED
  BY <1>2, <1>4, <1>6, <1>7

LEMMA TreeKept ==
  ASSUME UNCHANGED shopRows, NEW p
  PROVE  /\ ActiveEntries(p)' = ActiveEntries(p) /\ Sold(p)' = Sold(p)
         /\ NotEmpty(p)' = NotEmpty(p) /\ TreeNodes(p)' = TreeNodes(p)
<1>1. UNCHANGED <<onSale, offered, price, shelf, registry>>
  BY DEF shopRows
<1>2. ActiveEntries(p)' = ActiveEntries(p) /\ Sold(p)' = Sold(p)
  BY <1>1 DEF ActiveEntries, Sold
<1>3. \A g : NotEmpty(g)' = NotEmpty(g)
  BY <1>1 DEF NotEmpty, ProductCount
<1>4. TreeNodes(p)' = TreeNodes(p)
  BY <1>3 DEF TreeNodes
<1> QED
  BY <1>2, <1>3, <1>4

-----------------------------------------------------------------------------
(* What a visit knows.                                                       *)

VisitOp == {"none", "list", "page", "walked", "refused", "detail", "seen", "available",
            "groups", "groupsWalked", "inCart", "rejected"}

\* What a call that prices a page carries.
PageShape ==
  visit.op = "page" =>
    /\ visit = [op |-> "page", query |-> visit.query, page |-> visit.page, shown |-> visit.shown,
                stock |-> visit.stock, priced |-> visit.priced]
    /\ visit.priced = [p \in DOMAIN visit.priced |-> visit.priced[p]]


LEMMA BeginsOrGoes ==
  ASSUME NEW v, Begin(v) \/ Go(v)
  PROVE  visit' = v /\ UNCHANGED <<onSale, offered, price, shelf, registry, edits, edited>>
BY DEF Begin, Go, shopRows

LEMMA VisitTypes ==
  ASSUME CatalogTypeOK, NEW v, Begin(v) \/ Go(v), v.op \in VisitOp,
         v.op = "page" =>
           /\ v = [op |-> "page", query |-> v.query, page |-> v.page, shown |-> v.shown,
                    stock |-> v.stock, priced |-> v.priced]
           /\ v.priced = [p \in DOMAIN v.priced |-> v.priced[p]]
  PROVE  CatalogTypeOK' /\ PageShape'
BY BeginsOrGoes DEF CatalogTypeOK, PageShape, VisitOp

LEMMA EditTypes ==
  ASSUME CatalogTypeOK, PageShape, Edit
  PROVE  /\ edits' \in 0..MaxEdits /\ edited' \in BOOLEAN /\ PageShape'
         /\ visit'.op \in VisitOp
<1>1. MaxEdits \in Nat
  BY StoreCatalogAssumption
<1>2. edits' \in 0..MaxEdits
  BY <1>1 DEF CatalogTypeOK, Edit
<1>3. visit' = visit
  BY DEF Edit
<1> QED
  BY <1>2, <1>3 DEF CatalogTypeOK, Edit, PageShape, VisitOp

\* Every step keeps the types.
LEMMA CatalogTypes ==
  ASSUME CatalogTypeOK, PageShape, [CatalogNext]_catalogVars
  PROVE  CatalogTypeOK' /\ PageShape'
<1>1. CASE UNCHANGED catalogVars
  BY <1>1 DEF catalogVars, shopRows, CatalogTypeOK, PageShape
<1>2. ASSUME NEW p \in Product, SetOnSale(p) PROVE CatalogTypeOK' /\ PageShape'
  BY <1>2, EditTypes DEF SetOnSale, CatalogTypeOK, VisitOp
<1>3. ASSUME NEW v \in Variant, SetOffered(v) PROVE CatalogTypeOK' /\ PageShape'
  BY <1>3, EditTypes DEF SetOffered, CatalogTypeOK, VisitOp
<1>4. ASSUME NEW o \in Sellable, NEW amount \in Amount, SetPrice(o, amount) PROVE CatalogTypeOK' /\ PageShape'
  BY <1>4, EditTypes DEF SetPrice, CatalogTypeOK, VisitOp
<1>5. ASSUME NEW i \in StockEntry, NEW active \in BOOLEAN, NEW stock \in Level \cup {None},
             SetShelf(i, active, stock)
      PROVE  CatalogTypeOK' /\ PageShape'
  <2>1. [active |-> active, stock |-> stock] \in [active : BOOLEAN, stock : Level \cup {None}]
    OBVIOUS
  <2> QED
    BY <1>5, <2>1, EditTypes DEF SetShelf, CatalogTypeOK, VisitOp
<1>6. ASSUME NEW c \in ScanCode, NEW of \in Product \cup StockEntry \cup {None}, SetBarcode(c, of)
      PROVE  CatalogTypeOK' /\ PageShape'
  BY <1>6, EditTypes DEF SetBarcode, CatalogTypeOK, VisitOp
<1>7. ASSUME NEW p \in Product, PriceRow(p) PROVE CatalogTypeOK' /\ PageShape'
  <2>1. CASE price[p] = None
    <3> DEFINE v == [op |-> "refused", of |-> {p}]
    <3>1. Go(v) /\ v.op = "refused"
      BY <1>7, <2>1 DEF PriceRow
    <3> QED
      BY <3>1, VisitTypes DEF VisitOp
  <2>2. CASE price[p] # None
    <3> DEFINE v == [op |-> "page", query |-> visit.query, page |-> visit.page, shown |-> visit.shown,
                     stock |-> visit.stock, priced |-> [visit.priced EXCEPT ![p] = price[p]]]
    <3>1. Go(v)
      BY <1>7, <2>2 DEF PriceRow, PageShape
    <3>2. /\ v.op = "page"
          /\ v = [op |-> "page", query |-> v.query, page |-> v.page, shown |-> v.shown,
                   stock |-> v.stock, priced |-> v.priced]
          /\ v.priced = [r \in DOMAIN v.priced |-> v.priced[r]]
      OBVIOUS
    <3> HIDE DEF v
    <3> QED
      BY <3>1, <3>2, VisitTypes DEF VisitOp
  <2> QED
    BY <2>1, <2>2
<1>8. ASSUME NEW q, NEW page, NEW shown, NEW rows, Begin(Page(q, page, shown, rows)) \/ Go(Page(q, page, shown, rows))
      PROVE  CatalogTypeOK' /\ PageShape'
  <2> DEFINE v == Page(q, page, shown, rows)
  <2>1. /\ v.op = "page"
        /\ v = [op |-> "page", query |-> v.query, page |-> v.page, shown |-> v.shown,
                 stock |-> v.stock, priced |-> v.priced]
        /\ v.priced = [r \in DOMAIN v.priced |-> v.priced[r]]
    BY DEF Page
  <2> HIDE DEF v
  <2> QED
    BY <1>8, <2>1, VisitTypes DEF v, VisitOp
<1>9. ASSUME ListReads \/ \E q \in Collection : CollectionReads(q) PROVE CatalogTypeOK' /\ PageShape'
  BY <1>8, <1>9 DEF ListReads, CollectionReads
<1>10. ASSUME NEW v, Begin(v) \/ Go(v), v.op \in VisitOp, v.op # "page" PROVE CatalogTypeOK' /\ PageShape'
  BY <1>10, VisitTypes
<1>11. ASSUME NEW p \in Product, GetProductBySlug(p) \/ GetProductAvailability(p) PROVE CatalogTypeOK' /\ PageShape'
  BY <1>10, <1>11 DEF GetProductBySlug, GetProductAvailability, VisitOp
<1>12. ASSUME \/ \E q \in Query : ListProducts(q)
              \/ \E q \in CategoryQuery : ListCategories(q)
       PROVE  CatalogTypeOK' /\ PageShape'
  BY <1>10, <1>12 DEF ListProducts, ListCategories, VisitOp
<1>13. ASSUME ShowPage \/ ShowCollection PROVE CatalogTypeOK' /\ PageShape'
  BY <1>10, <1>13 DEF ShowPage, ShowCollection, VisitOp
<1>14. ASSUME DetailPrices PROVE CatalogTypeOK' /\ PageShape'
  BY <1>10, <1>14 DEF DetailPrices, VisitOp
<1>15. ASSUME CategoriesPage PROVE CatalogTypeOK' /\ PageShape'
  BY <1>10, <1>15 DEF CategoriesPage, VisitOp
<1>16. ASSUME NEW s, AddSelection(s) PROVE CatalogTypeOK' /\ PageShape'
  BY <1>10, <1>16 DEF AddSelection, VisitOp
<1>17. ASSUME (\E i \in StockEntry : AddSeen(i)) \/ \E c \in ScanCode : AddScanned(c)
       PROVE  CatalogTypeOK' /\ PageShape'
  BY <1>16, <1>17 DEF AddSeen, AddScanned
<1>18. ASSUME Leave PROVE CatalogTypeOK' /\ PageShape'
  BY <1>18 DEF Leave, shopRows, NoVisit, CatalogTypeOK, PageShape
<1> QED
  BY <1>1, <1>2, <1>3, <1>4, <1>5, <1>6, <1>7, <1>9, <1>11, <1>12, <1>13, <1>14, <1>15, <1>17, <1>18
     DEF CatalogNext

-----------------------------------------------------------------------------
(* What a visit has been told, as long as nothing was edited.                *)

\* A visitor on the way through a list has seen the pages before, where the order is one.
Walking(v) ==
  /\ v.page \in Nat \ {0}
  /\ ~Tied(v.query) =>
       \A s \in Sorted(v.query, price, Wanted(v.query)) :
         /\ (v.page - 1) * v.query.limit <= Len(s)
         /\ v.shown = SubSeq(s, 1, (v.page - 1) * v.query.limit)

NewestShown(v) == \E s \in InOrder(Candidates(v.query), Newest) : v.shown = Take(s, v.query.limit)

\* The rows of a page are those of its list.
RowsFit(v) ==
  /\ DOMAIN v.stock = Where(v.query) /\ DOMAIN v.priced = Where(v.query)
  /\ \A p \in Where(v.query) : v.stock[p] \in Nat /\ (v.stock[p] > 0 <=> Sold(p))

ListFits(v) ==
  /\ v.op = "list" => v.query \in Query /\ Walking(v)
  /\ v.op = "page" =>
       /\ v.query \in Query \cup Collection
       /\ \A p \in DOMAIN v.priced : v.priced[p] \in {None, price[p]}
       /\ v.query \in Query => Walking(v) /\ RowsFit(v)
       /\ v.query \in Collection => NewestShown(v)
  /\ v.op = "walked" =>
       /\ v.query \in Query \cup Collection
       /\ v.query \in Query /\ ~Tied(v.query) => v.shown \in Sorted(v.query, price, Wanted(v.query))
       /\ v.query \in Collection => NewestShown(v)

ProductFits(v) ==
  /\ v.op = "detail" =>
       /\ v.total \in Nat /\ (v.total > 0 <=> Sold(v.of))
       /\ v.stock = [i \in ActiveEntries(v.of) |-> shelf[i].stock]
  /\ v.op = "refused" => \A o \in v.of : price[o] = None
  /\ v.op = "seen" =>
       /\ DOMAIN v.items = ActiveEntries(v.of)
       /\ v.card = "OUT_OF_STOCK" <=> ~Sold(v.of)
       /\ \A i \in DOMAIN v.items : v.items[i] = "OUT_OF_STOCK" <=> OrZero(shelf[i].stock) = 0
       /\ \A u \in DOMAIN v.variants :
            LET i == v.variants[u].item IN
            i # None => /\ SoldAs[i] = u
                        /\ shelf[i].stock # None => v.variants[u].visibility = v.items[i]
  /\ v.op = "available" =>
       \A i \in DOMAIN v.items :
         shelf[i].stock # None => (v.items[i] = "OUT_OF_STOCK" <=> shelf[i].stock = 0)

CartFits(v) ==
  /\ v.op = "rejected" =>
       \/ v.asked.product \notin onSale
       \/ v.asked.variant # None /\ v.asked.variant \notin offered
       \/ v.asked.item # None /\ (v.asked.item \notin Tracked \/ ~shelf[v.asked.item].active)
  /\ v.op = "inCart" =>
       /\ v.asked.item # None => v.item = v.asked.item
       /\ v.item # None => v.item \in EntriesOf(v.asked.product)

\* The categories that a list shows of some names.
Listed(names, includeEmpty) == {g \in ToSet(names) : includeEmpty \/ NotEmpty(g)}

GroupsFit(v) ==
  /\ v.op = "groups" =>
       /\ v.query \in CategoryQuery /\ v.page \in Nat \ {0}
       /\ ~Namesakes =>
            \A names \in ByName(Category) :
              /\ (v.page - 1) * v.query.limit <= Len(names)
              /\ v.shown \in ByName(Listed(SubSeq(names, 1, (v.page - 1) * v.query.limit), v.query.includeEmpty))
  /\ v.op = "groupsWalked" /\ ~Namesakes => v.shown \in ByName(TreeNodes(v.query.includeEmpty))

Fits(v) == ListFits(v) /\ ProductFits(v) /\ CartFits(v) /\ GroupsFit(v)

CatalogInv ==
  /\ CatalogTypeOK /\ PageShape
  /\ edited \/ \A v : visit = v => Fits(v)

\* What a visit was told stays so as long as nothing is edited.
LEMMA FitsKept ==
  ASSUME UNCHANGED shopRows, NEW v, Fits(v)
  PROVE  Fits(v)'
<1>1. UNCHANGED <<onSale, offered, price, shelf, registry>>
  BY DEF shopRows
<1>2. /\ Where(v.query)' = Where(v.query) /\ Wanted(v.query)' = Wanted(v.query)
      /\ Candidates(v.query)' = Candidates(v.query) /\ (Tied(v.query)' <=> Tied(v.query))
  BY RowsKept
<1>3. Walking(v)' <=> Walking(v)
  BY <1>1, <1>2 DEF Walking
<1>4. NewestShown(v)' <=> NewestShown(v)
  BY <1>2 DEF NewestShown
<1>5. RowsFit(v)' <=> RowsFit(v)
  <2>1. \A p : Sold(p)' <=> Sold(p)
    BY <1>1 DEF Sold
  <2> QED
    BY <1>2, <2>1 DEF RowsFit
<1>6. ListFits(v)'
  BY <1>1, <1>2, <1>3, <1>4, <1>5 DEF Fits, ListFits
<1>7. ActiveEntries(v.of)' = ActiveEntries(v.of) /\ (Sold(v.of)' <=> Sold(v.of))
  BY <1>1 DEF ActiveEntries, Sold
<1>8. ProductFits(v)'
  BY <1>1, <1>7 DEF Fits, ProductFits
<1>9. CartFits(v)'
  BY <1>1 DEF Fits, CartFits
<1>10. \A g : NotEmpty(g)' <=> NotEmpty(g)
  BY <1>1 DEF NotEmpty, ProductCount
<1>11. GroupsFit(v)'
  <2>1. \A n, e : Listed(n, e)' = Listed(n, e) /\ TreeNodes(e)' = TreeNodes(e)
    BY <1>10 DEF Listed, TreeNodes
  <2> QED
    BY <2>1 DEF Fits, GroupsFit
<1> QED
  BY <1>6, <1>8, <1>9, <1>11 DEF Fits

\* What is wanted of a list is finite.
LEMMA RowsFinite ==
  ASSUME CatalogTypeOK, NEW q
  PROVE  /\ IsFiniteSet(onSale) /\ IsFiniteSet(Where(q)) /\ IsFiniteSet(Wanted(q)) /\ IsFiniteSet(Candidates(q))
         /\ Wanted(q) \subseteq Where(q)
<1>1. IsFiniteSet(Product)
  BY StoreCatalogAssumption
<1>2. IsFiniteSet(onSale)
  BY <1>1, FS_Subset DEF CatalogTypeOK
<1>3. Wanted(q) \subseteq Where(q) /\ Where(q) \subseteq onSale /\ Candidates(q) \subseteq onSale
  BY DEF Wanted, Where, Candidates
<1> QED
  BY <1>2, <1>3, FS_Subset

\* A new list has shown nothing.
LEMMA WalkBegins ==
  ASSUME CatalogInv, NEW q \in Query, NEW v, v = [op |-> "list", query |-> q, page |-> 1, shown |-> <<>>]
  PROVE  Fits(v)
<1>1. q.limit \in Nat
  BY StoreCatalogAssumption
<1>2. IsFiniteSet(Wanted(q))
  BY RowsFinite DEF CatalogInv
<1>3. (1 - 1) * q.limit = 0
  BY <1>1
<1>4. ASSUME NEW s \in Sorted(q, price, Wanted(q))
      PROVE  0 <= Len(s) /\ <<>> = SubSeq(s, 1, 0)
  <2>1. Len(s) \in Nat /\ s \in Seq(Wanted(q))
    BY <1>2, SortedRows, Arranged
  <2> QED
    BY <2>1, SubSeqEmpty
<1>5. Walking(v)
  BY <1>3, <1>4 DEF Walking
<1> QED
  BY <1>5 DEF Fits, ListFits, ProductFits, CartFits, GroupsFit

\* The rows of a page are read.
LEMMA PageBegins ==
  ASSUME CatalogInv, ~edited, ListReads, NEW v, visit' = v
  PROVE  Fits(v)
<1>1. Fits(visit) /\ visit.op = "list"
  BY DEF CatalogInv, ListReads
<1> DEFINE q == visit.query
<1>2. v = Page(q, visit.page, visit.shown, Where(q))
  BY DEF ListReads, Go
<1>3. visit.query \in Query /\ Walking(visit)
  BY <1>1 DEF Fits, ListFits
<1>4. /\ v.op = "page" /\ v.query = q /\ v.page = visit.page /\ v.shown = visit.shown
      /\ v.stock = [p \in Where(q) |-> AvailableInventory(p)]
      /\ v.priced = [p \in Where(q) |-> None]
  BY <1>2 DEF Page
<1>5. Walking(v)
  BY <1>3, <1>4 DEF Walking
<1>6. RowsFit(v)
  <2>1. \A p : AvailableInventory(p) \in Nat /\ (AvailableInventory(p) > 0 <=> Sold(p))
    BY StockIsSold DEF CatalogInv
  <2> QED
    BY <1>4, <2>1 DEF RowsFit
<1>7. Query \cap Collection = {}
  BY StoreCatalogAssumption
<1>8. ListFits(v)
  BY <1>3, <1>4, <1>5, <1>6, <1>7 DEF ListFits
<1> QED
  BY <1>4, <1>8 DEF Fits, ProductFits, CartFits, GroupsFit

LEMMA CollectionBegins ==
  ASSUME CatalogInv, NEW q \in Collection, CollectionReads(q), NEW v, visit' = v
  PROVE  Fits(v)
<1>1. PICK s \in InOrder(Candidates(q), Newest) :
        visit' = Page(q, 1, Take(s, q.limit), ToSet(Take(s, q.limit)))
  BY DEF CollectionReads, Begin
<1>2. v.op = "page" /\ v.query = q /\ v.shown = Take(s, q.limit)
      /\ v.priced = [p \in ToSet(Take(s, q.limit)) |-> None]
  BY <1>1 DEF Page
<1>3. Query \cap Collection = {}
  BY StoreCatalogAssumption
<1>4. NewestShown(v)
  BY <1>2 DEF NewestShown
<1>5. ListFits(v)
  BY <1>2, <1>3, <1>4 DEF ListFits
<1> QED
  BY <1>2, <1>5 DEF Fits, ProductFits, CartFits, GroupsFit

\* A row is priced, or the page is refused.
LEMMA PriceFits ==
  ASSUME CatalogInv, ~edited, NEW p, PriceRow(p), NEW v, visit' = v
  PROVE  Fits(v)
<1>1. ListFits(visit) /\ visit.op = "page"
  BY DEF CatalogInv, PriceRow, Fits
<1>2. CASE price[p] = None
  <2>1. v = [op |-> "refused", of |-> {p}]
    BY <1>2 DEF PriceRow, Go
  <2> QED
    BY <1>2, <2>1 DEF Fits, ListFits, ProductFits, CartFits, GroupsFit
<1>3. CASE price[p] # None
  <2>1. v = [visit EXCEPT !.priced[p] = price[p]]
    BY <1>3 DEF PriceRow, Go
  <2>2. PageShape
    BY DEF CatalogInv
  <2>3. v = [op |-> "page", query |-> visit.query, page |-> visit.page, shown |-> visit.shown,
             stock |-> visit.stock, priced |-> [visit.priced EXCEPT ![p] = price[p]]]
    BY <1>1, <2>1, <2>2 DEF PageShape
  <2>4. /\ v.op = "page" /\ v.query = visit.query /\ v.page = visit.page /\ v.shown = visit.shown
        /\ v.stock = visit.stock /\ v.priced = [visit.priced EXCEPT ![p] = price[p]]
    BY <2>3
  <2>5. Walking(v) <=> Walking(visit)
    BY <2>4 DEF Walking
  <2>6. RowsFit(v) <=> RowsFit(visit)
    BY <2>4 DEF RowsFit
  <2>7. NewestShown(v) <=> NewestShown(visit)
    BY <2>4 DEF NewestShown
  <2>8. \A r \in DOMAIN v.priced : v.priced[r] \in {None, price[r]}
    BY <1>1, <2>4 DEF ListFits
  <2>9. ListFits(v)
    BY <1>1, <2>4, <2>5, <2>6, <2>7, <2>8 DEF ListFits
  <2> QED
    BY <2>4, <2>9 DEF Fits, ProductFits, CartFits, GroupsFit
<1> QED
  BY <1>2, <1>3

\* The page that was priced shows what is wanted, and carries the pages before it on.
LEMMA PageFits ==
  ASSUME CatalogInv, ~edited, ShowPage, NEW v, visit' = v
  PROVE  Fits(v)
<1> DEFINE q == visit.query
           S == {p \in DOMAIN visit.stock : Passes(q, p)}
<1>1. /\ visit.op = "page" /\ q \in Query /\ ListFits(visit)
      /\ \A p \in DOMAIN visit.priced : visit.priced[p] # None
  BY DEF CatalogInv, ShowPage, AllPriced, Fits
<1>2. Walking(visit) /\ RowsFit(visit) /\ \A p \in Where(q) : visit.priced[p] = price[p]
  BY <1>1 DEF ListFits, RowsFit
<1>3. PICK sorted \in Sorted(q, visit.priced, S) :
        LET shown == visit.shown \o Slice(sorted, visit.page, q.limit) IN
        v = IF HasNext(visit.page, q.limit, Len(sorted))
            THEN [op |-> "list", query |-> q, page |-> visit.page + 1, shown |-> shown]
            ELSE [op |-> "walked", query |-> q, shown |-> shown]
  BY DEF ShowPage, Go
<1>4. S = Wanted(q)
  <2>1. \A p \in Where(q) : InStock(p) <=> Sold(p)
    <3>1. ASSUME NEW p \in Where(q) PROVE InStock(p) <=> Sold(p)
      <4>1. visit.stock[p] \in Nat /\ (visit.stock[p] > 0 <=> Sold(p))
        BY <1>2 DEF RowsFit
      <4>2. Visibility(visit.stock[p]) = "OUT_OF_STOCK" <=> visit.stock[p] = 0
        BY <4>1, ShownStock
      <4> QED
        BY <4>1, <4>2 DEF InStock
    <3> QED
      BY <3>1
  <2> QED
    BY <1>2, <2>1 DEF RowsFit, Passes, Wanted
<1>5. IsFiniteSet(S) /\ \A p \in S : visit.priced[p] = price[p]
  BY <1>2, <1>4, RowsFinite DEF CatalogInv
<1> HIDE DEF S
<1>6. sorted \in Sorted(q, price, Wanted(q))
  BY <1>4, <1>5, SortedAlike
<1>7. sorted \in Seq(Wanted(q)) /\ q.limit \in Nat \ {0} /\ visit.page \in Nat \ {0}
  <2>1. q.limit \in Nat \ {0}
    BY <1>1, StoreCatalogAssumption
  <2>2. sorted \in SetToSeqs(Wanted(q))
    BY <1>4, <1>5, <1>6, SortedRows
  <2> QED
    BY <1>2, <1>4, <1>5, <2>1, <2>2, Arranged DEF Walking
<1>8. ~Tied(q) => \A s \in Sorted(q, price, Wanted(q)) : s = sorted
  <2>1. ASSUME ~Tied(q), NEW s \in Sorted(q, price, Wanted(q)) PROVE s = sorted
    <3> DEFINE W == Wanted(q)
               Before == {b \in W \X W : Earlier(q, price, b[1], b[2])}
    <3>1. IsFiniteSet(W)
      BY <1>4, <1>5
    <3>2. \A p, r \in W : <<p, r>> \in Before <=> Earlier(q, price, p, r)
      OBVIOUS
    <3>3. \A p, r \in W : p # r => <<p, r>> \in Before \/ <<r, p>> \in Before
      BY <2>1, <3>2 DEF Tied
    <3> HIDE DEF Before, W
    <3>4. ASSUME NEW u \in Sorted(q, price, W)
          PROVE  u \in SetToSeqs(W) /\ \A i, j \in DOMAIN u : i < j => <<u[j], u[i]>> \notin Before
      <4>1. u \in SetToSeqs(W) /\ \A i, j \in DOMAIN u : i < j => ~Earlier(q, price, u[j], u[i])
        BY <3>1, SortedRows
      <4>2. \A i \in DOMAIN u : u[i] \in W
        BY <3>1, <4>1, Arranged DEF ToSet
      <4> QED
        BY <3>2, <4>1, <4>2
    <3>5. s \in Sorted(q, price, W) /\ sorted \in Sorted(q, price, W)
      BY <1>6, <2>1 DEF W
    <3> QED
      BY <3>1, <3>3, <3>4, <3>5, OneOrder
  <2> QED
    BY <2>1
<1> DEFINE shown == visit.shown \o Slice(sorted, visit.page, q.limit)
           next == (visit.page + 1 - 1) * q.limit
<1>9. ASSUME ~Tied(q)
      PROVE  /\ HasNext(visit.page, q.limit, Len(sorted)) => next <= Len(sorted) /\ shown = SubSeq(sorted, 1, next)
             /\ ~HasNext(visit.page, q.limit, Len(sorted)) => shown = sorted
  <2>1. (visit.page - 1) * q.limit <= Len(sorted) /\ visit.shown = SubSeq(sorted, 1, (visit.page - 1) * q.limit)
    BY <1>2, <1>6, <1>9 DEF Walking
  <2> DEFINE page == visit.page
             limit == q.limit
             W == Wanted(q)
  <2>2. /\ sorted \in Seq(W) /\ page \in Nat \ {0} /\ limit \in Nat \ {0}
        /\ (page - 1) * limit <= Len(sorted) /\ visit.shown = SubSeq(sorted, 1, (page - 1) * limit)
    BY <1>7, <2>1
  <2> HIDE DEF page, limit, W
  <2>3. /\ HasNext(page, limit, Len(sorted)) =>
             /\ (page + 1 - 1) * limit <= Len(sorted)
             /\ SubSeq(sorted, 1, (page - 1) * limit) \o Slice(sorted, page, limit)
                  = SubSeq(sorted, 1, (page + 1 - 1) * limit)
        /\ ~HasNext(page, limit, Len(sorted)) =>
             SubSeq(sorted, 1, (page - 1) * limit) \o Slice(sorted, page, limit) = sorted
    BY <2>2, PagesJoin
  <2> QED
    BY <2>2, <2>3 DEF page, limit
<1> HIDE DEF next, shown
<1>10. Query \cap Collection = {}
  BY StoreCatalogAssumption
<1>11. CASE HasNext(visit.page, q.limit, Len(sorted))
  <2>1. v = [op |-> "list", query |-> q, page |-> visit.page + 1, shown |-> shown]
    BY <1>3, <1>11 DEF shown
  <2>2. Walking(v)
    <3>1. visit.page + 1 \in Nat \ {0}
      BY <1>7
    <3>2. v.page = visit.page + 1 /\ v.query = q /\ v.shown = shown
      BY <2>1
    <3>3. (v.page - 1) * v.query.limit = next
      BY <1>7, <3>1, <3>2 DEF next
    <3>4. ~Tied(v.query) => \A s \in Sorted(v.query, price, Wanted(v.query)) :
                              next <= Len(s) /\ v.shown = SubSeq(s, 1, next)
      BY <1>8, <1>9, <1>11, <3>2
    <3> QED
      BY <3>1, <3>2, <3>3, <3>4 DEF Walking
  <2> QED
    BY <1>1, <2>1, <2>2 DEF Fits, ListFits, ProductFits, CartFits, GroupsFit
<1>12. CASE ~HasNext(visit.page, q.limit, Len(sorted))
  <2>1. v = [op |-> "walked", query |-> q, shown |-> shown]
    BY <1>3, <1>12 DEF shown
  <2>2. ListFits(v)
    BY <1>1, <1>6, <1>9, <1>10, <1>12, <2>1 DEF ListFits
  <2> QED
    BY <2>1, <2>2 DEF Fits, ProductFits, CartFits, GroupsFit
<1> QED
  BY <1>11, <1>12

LEMMA CollectionFits ==
  ASSUME CatalogInv, ~edited, ShowCollection, NEW v, visit' = v
  PROVE  Fits(v)
<1>1. /\ visit.op = "page" /\ visit.query \in Collection /\ ListFits(visit)
      /\ v = [op |-> "walked", query |-> visit.query, shown |-> visit.shown]
  BY DEF CatalogInv, ShowCollection, Go, Fits
<1>2. NewestShown(v)
  BY <1>1 DEF ListFits, NewestShown
<1>3. Query \cap Collection = {}
  BY StoreCatalogAssumption
<1>4. ListFits(v)
  BY <1>1, <1>2, <1>3 DEF ListFits
<1> QED
  BY <1>1, <1>4 DEF Fits, ProductFits, CartFits, GroupsFit

-----------------------------------------------------------------------------
(* One product.                                                              *)

\* Its stock is read as it is.
LEMMA DetailBegins ==
  ASSUME CatalogInv, NEW p \in Product, GetProductBySlug(p), NEW v, visit' = v
  PROVE  Fits(v)
<1>1. v = [op |-> "detail", of |-> p, total |-> AvailableInventory(p),
           stock |-> [i \in ActiveEntries(p) |-> shelf[i].stock]]
  BY DEF GetProductBySlug, Begin
<1>2. AvailableInventory(p) \in Nat /\ (AvailableInventory(p) > 0 <=> Sold(p))
  BY StockIsSold DEF CatalogInv
<1>3. ProductFits(v)
  BY <1>1, <1>2 DEF ProductFits
<1> QED
  BY <1>1, <1>3 DEF Fits, ListFits, CartFits, GroupsFit

\* The stock item of a product's page is one of the product.
LEMMA EntriesAre ==
  ASSUME NEW p, NEW i \in ActiveEntries(p)
  PROVE  i \in StockEntry /\ OwnProduct(SoldAs[i]) = p /\ shelf[i].active
BY DEF ActiveEntries, EntriesOf

LEMMA DetailFits ==
  ASSUME CatalogInv, ~edited, DetailPrices, NEW v, visit' = v
  PROVE  Fits(v)
<1> DEFINE p == visit.of
           us == {u \in offered : VariantOf[u] = p}
           unpriced == {o \in us \cup {p} : price[o] = None}
           itemsOf(u) == {i \in DOMAIN visit.stock : SoldAs[i] = u}
           variant(u) == IF itemsOf(u) = {} THEN [item |-> None, visibility |-> Visibility(None)]
                         ELSE LET i == CHOOSE i \in itemsOf(u) : TRUE
                              IN [item |-> i, visibility |-> Visibility(visit.stock[i])]
           items == [i \in DOMAIN visit.stock |-> Visibility(OrZero(visit.stock[i]))]
           seen == [op |-> "seen", of |-> p, card |-> Visibility(visit.total), items |-> items,
                    variants |-> [u \in us |-> variant(u)]]
<1>1. visit.op = "detail" /\ ProductFits(visit) /\ CatalogTypeOK
  BY DEF CatalogInv, DetailPrices, Fits
<1>2. /\ visit.total \in Nat /\ (visit.total > 0 <=> Sold(p))
      /\ visit.stock = [i \in ActiveEntries(p) |-> shelf[i].stock]
  BY <1>1 DEF ProductFits
<1>3. v = IF unpriced # {} THEN [op |-> "refused", of |-> unpriced] ELSE seen
  BY DEF DetailPrices, Go
<1>4. Visibility(visit.total) = "OUT_OF_STOCK" <=> ~Sold(p)
  <2>1. Visibility(visit.total) = "OUT_OF_STOCK" <=> visit.total = 0
    BY <1>2, ShownStock
  <2> QED
    BY <1>2, <2>1
<1>5. ASSUME NEW i \in ActiveEntries(p)
      PROVE  /\ items[i] = "OUT_OF_STOCK" <=> OrZero(shelf[i].stock) = 0
             /\ shelf[i].stock # None => Visibility(visit.stock[i]) = items[i]
  <2>1. i \in StockEntry
    BY EntriesAre
  <2>2. OrZero(shelf[i].stock) \in Nat
    BY <1>1, <2>1, CountedNat
  <2>3. Visibility(OrZero(shelf[i].stock)) = "OUT_OF_STOCK" <=> OrZero(shelf[i].stock) = 0
    BY <2>2, ShownStock
  <2>4. visit.stock[i] = shelf[i].stock /\ items[i] = Visibility(OrZero(shelf[i].stock))
    BY <1>2
  <2>5. shelf[i].stock # None => OrZero(shelf[i].stock) = shelf[i].stock
    BY DEF OrZero
  <2> QED
    BY <2>3, <2>4, <2>5
<1>6. DOMAIN visit.stock = ActiveEntries(p) /\ DOMAIN items = ActiveEntries(p)
  BY <1>2
<1>7. ASSUME NEW u \in us, variant(u).item # None
      PROVE  /\ SoldAs[variant(u).item] = u
             /\ shelf[variant(u).item].stock # None => variant(u).visibility = items[variant(u).item]
  <2>1. itemsOf(u) # {}
    BY <1>7
  <2>2. PICK i \in itemsOf(u) : variant(u) = [item |-> i, visibility |-> Visibility(visit.stock[i])]
    BY <2>1
  <2>3. i \in ActiveEntries(p) /\ SoldAs[i] = u
    BY <1>6
  <2> HIDE DEF variant, items
  <2> QED
    BY <1>5, <2>2, <2>3
<1>8. CASE unpriced # {}
  <2>1. v = [op |-> "refused", of |-> unpriced]
    BY <1>3, <1>8
  <2>2. \A o \in unpriced : price[o] = None
    OBVIOUS
  <2> HIDE DEF unpriced
  <2> QED
    BY <2>1, <2>2 DEF Fits, ListFits, ProductFits, CartFits, GroupsFit
<1>9. CASE unpriced = {}
  <2>1. v = seen
    BY <1>3, <1>9
  <2> HIDE DEF items
  <2>2. /\ v.op = "seen" /\ v.of = p /\ v.card = Visibility(visit.total) /\ v.items = items
        /\ DOMAIN v.variants = us /\ \A u \in us : v.variants[u] = variant(u)
    BY <2>1
  <2> HIDE DEF variant, us, unpriced, p, seen
  <2>3. ProductFits(v)
    BY <1>4, <1>5, <1>6, <1>7, <2>2 DEF ProductFits
  <2> QED
    BY <2>2, <2>3 DEF Fits, ListFits, CartFits, GroupsFit
<1> QED
  BY <1>8, <1>9

LEMMA AvailabilityFits ==
  ASSUME CatalogInv, NEW p \in Product, GetProductAvailability(p), NEW v, visit' = v
  PROVE  Fits(v)
<1>1. v = [op |-> "available", of |-> p,
           items |-> [i \in ActiveEntries(p) |-> Visibility(shelf[i].stock)]]
  BY DEF GetProductAvailability, Begin
<1>2. ASSUME NEW i \in ActiveEntries(p), shelf[i].stock # None
      PROVE  Visibility(shelf[i].stock) = "OUT_OF_STOCK" <=> shelf[i].stock = 0
  <2>1. shelf[i].stock \in Nat
    BY <1>2, EntriesAre, CountedNat DEF CatalogInv
  <2> QED
    BY <2>1, ShownStock
<1>3. ProductFits(v)
  BY <1>1, <1>2 DEF ProductFits
<1> QED
  BY <1>1, <1>3 DEF Fits, ListFits, CartFits, GroupsFit

\* A selection that the catalogue hands to the cart: its variant is one of its product, its stock
\* item one of the variant, or of the product if there is none.
Sound(s) ==
  /\ s.variant # None => VariantOf[s.variant] = s.product
  /\ s.item # None => s.item \in StockEntry /\ SoldAs[s.item] = IF s.variant = None THEN s.product ELSE s.variant

LEMMA SelectionFits ==
  ASSUME CatalogInv, NEW s, Sound(s), AddSelection(s), NEW v, visit' = v
  PROVE  Fits(v)
<1>1. Product \cap Variant = {} /\ None \notin Product \cup Variant \cup StockEntry
  BY StoreCatalogAssumption
<1>2. onSale \subseteq Product /\ offered \subseteq Variant
  BY DEF CatalogInv, CatalogTypeOK
<1>3. CASE CartAccepts(s)
  <2>1. PICK i \in CartItem(s) : v = [op |-> "inCart", asked |-> s, item |-> i]
    BY <1>3 DEF AddSelection, Go
  <2>2. s.product \in Product /\ (s.variant # None => s.variant \in Variant /\ VariantOf[s.variant] = s.product)
    BY <1>2, <1>3 DEF CartAccepts
  <2>3. Orderable(s.product) \subseteq EntriesOf(s.product)
    BY <1>1, <2>2 DEF Orderable, EntriesOf, OwnProduct
  <2>4. s.variant # None => Orderable(s.variant) \subseteq EntriesOf(s.product)
    BY <2>2 DEF Orderable, EntriesOf, OwnProduct
  <2>5. s.item # None => i = s.item /\ i \in EntriesOf(s.product)
    BY <1>3, <2>1, <2>3, <2>4 DEF CartItem, CartAccepts
  <2>6. s.item = None /\ i # None => i \in EntriesOf(s.product)
    BY <2>1, <2>3, <2>4 DEF CartItem
  <2>7. CartFits(v)
    BY <2>1, <2>5, <2>6 DEF CartFits
  <2> QED
    BY <2>1, <2>7 DEF Fits, ListFits, ProductFits, GroupsFit
<1>4. CASE ~CartAccepts(s)
  <2>1. v = [op |-> "rejected", asked |-> s]
    BY <1>4 DEF AddSelection, Go
  <2>2. \/ s.product \notin onSale
        \/ s.variant # None /\ s.variant \notin offered
        \/ s.item # None /\ (s.item \notin Tracked \/ ~shelf[s.item].active)
    BY <1>4 DEF CartAccepts, Orderable, Sound
  <2>3. CartFits(v)
    BY <2>1, <2>2 DEF CartFits
  <2> QED
    BY <2>1, <2>3 DEF Fits, ListFits, ProductFits, GroupsFit
<1> QED
  BY <1>3, <1>4

\* What a stock item stands for is sold of its product.
LEMMA EntrySound ==
  ASSUME NEW i \in StockEntry
  PROVE  Sound(Selected(OwnProduct(SoldAs[i]), VariantOrNone(SoldAs[i]), i))
<1>1. SoldAs[i] \in Product \cup Variant /\ None \notin Product \cup Variant
  BY StoreCatalogAssumption
<1> QED
  BY <1>1 DEF Sound, Selected, OwnProduct, VariantOrNone

LEMMA ScannedSound ==
  ASSUME CatalogTypeOK, NEW c \in ScanCode, NEW s \in ResolveProductSelection(c)
  PROVE  Sound(s)
<1>1. None \notin Product \cup Variant
  BY StoreCatalogAssumption
<1>2. registry[c] \in Product \cup StockEntry \cup {None}
  BY DEF CatalogTypeOK
<1>3. CASE registry[c] # None /\ registry[c] \in Product
  BY <1>3 DEF ResolveProductSelection, SelectionFromRegistry, Sound, Selected
<1>4. CASE registry[c] # None /\ registry[c] \notin Product
  BY <1>2, <1>4, EntrySound DEF ResolveProductSelection, SelectionFromRegistry
<1>5. CASE registry[c] = None
  <2>1. PICK o : s = Selected(OwnProduct(o), VariantOrNone(o), None)
    BY <1>5 DEF ResolveProductSelection
  <2> QED
    BY <1>1, <2>1 DEF Sound, Selected, OwnProduct, VariantOrNone
<1> QED
  BY <1>3, <1>4, <1>5

LEMMA CartTakes ==
  ASSUME CatalogInv, ~edited, NEW v, visit' = v,
         (\E i \in StockEntry : AddSeen(i)) \/ \E c \in ScanCode : AddScanned(c)
  PROVE  Fits(v)
<1>1. ASSUME NEW i \in StockEntry, AddSeen(i) PROVE Fits(v)
  <2>1. ProductFits(visit) /\ visit.op = "seen" /\ i \in DOMAIN visit.items
    BY <1>1 DEF CatalogInv, Fits, AddSeen
  <2>2. OwnProduct(SoldAs[i]) = visit.of
    BY <2>1, EntriesAre DEF ProductFits
  <2>3. AddSelection(Selected(OwnProduct(SoldAs[i]), VariantOrNone(SoldAs[i]), i))
    BY <1>1, <2>2 DEF AddSeen
  <2> QED
    BY <2>3, EntrySound, SelectionFits
<1>2. ASSUME NEW c \in ScanCode, AddScanned(c) PROVE Fits(v)
  <2>1. PICK s \in ResolveProductSelection(c) : AddSelection(s)
    BY <1>2 DEF AddScanned
  <2>2. Sound(s)
    BY <2>1, ScannedSound DEF CatalogInv
  <2> QED
    BY <2>1, <2>2, SelectionFits
<1> QED
  BY <1>1, <1>2

-----------------------------------------------------------------------------
(* Categories.                                                               *)

\* Two arrangements of sets that have nothing in common, one behind the other.
LEMMA ArrangedJoin ==
  ASSUME NEW A, NEW B, IsFiniteSet(A), IsFiniteSet(B), A \cap B = {},
         NEW s \in SetToSeqs(A), NEW t \in SetToSeqs(B)
  PROVE  s \o t \in SetToSeqs(A \cup B)
<1>1. /\ s \in Seq(A) /\ Len(s) = Cardinality(A) /\ Len(s) \in Nat /\ DOMAIN s = 1..Len(s)
      /\ \A i, j \in DOMAIN s : i # j => s[i] # s[j]
  BY Arranged
<1>2. /\ t \in Seq(B) /\ Len(t) = Cardinality(B) /\ Len(t) \in Nat /\ DOMAIN t = 1..Len(t)
      /\ \A i, j \in DOMAIN t : i # j => t[i] # t[j]
  BY Arranged
<1>3. Cardinality(A \cup B) = Len(s) + Len(t)
  <2>1. Cardinality(A \cup B) = Cardinality(A) + Cardinality(B) - Cardinality(A \cap B)
    BY FS_Union
  <2>2. Cardinality(A \cap B) = 0
    BY FS_EmptySet
  <2> QED
    BY <1>1, <1>2, <2>1, <2>2
<1> DEFINE n == Len(s) + Len(t)
           u == s \o t
<1>4. /\ u \in Seq(A \cup B) /\ Len(u) = n /\ DOMAIN u = 1..n
      /\ \A i \in 1..n : u[i] = IF i <= Len(s) THEN s[i] ELSE t[i - Len(s)]
  BY <1>1, <1>2
<1>5. \A i \in 1..n : IF i <= Len(s) THEN u[i] \in A /\ i \in DOMAIN s
                      ELSE u[i] \in B /\ i - Len(s) \in DOMAIN t
  BY <1>1, <1>2, <1>4
<1>6. ASSUME NEW i \in 1..n, NEW j \in 1..n, i # j PROVE u[i] # u[j]
  <2>0. n \in Nat /\ Len(s) \in Nat
    BY <1>1, <1>2
  <2> HIDE DEF u, n
  <2>1. CASE i <= Len(s) /\ j <= Len(s)
    BY <1>1, <1>4, <1>5, <1>6, <2>1
  <2>2. CASE (i <= Len(s) /\ ~ (j <= Len(s))) \/ (~ (i <= Len(s)) /\ j <= Len(s))
    BY <1>5, <2>2
  <2>3. CASE ~ (i <= Len(s)) /\ ~ (j <= Len(s))
    <3>1. i - Len(s) \in DOMAIN t /\ j - Len(s) \in DOMAIN t /\ i - Len(s) # j - Len(s)
          /\ u[i] = t[i - Len(s)] /\ u[j] = t[j - Len(s)]
      BY <1>4, <1>5, <1>6, <2>0, <2>3
    <3>2. t[i - Len(s)] # t[j - Len(s)]
      <4> DEFINE k == i - Len(s)
                 o == j - Len(s)
      <4>1. k \in DOMAIN t /\ o \in DOMAIN t /\ k # o
        BY <3>1
      <4> HIDE DEF k, o
      <4>2. t[k] # t[o]
        BY <1>2, <4>1
      <4> QED
        BY <4>2 DEF k, o
    <3> QED
      BY <3>1, <3>2
  <2> QED
    BY <2>1, <2>2, <2>3
<1> HIDE DEF u, n
<1>7. u \in [1..n -> A \cup B]
  <2> DEFINE C == A \cup B
  <2>1. u \in Seq(C) /\ Len(u) = n
    BY <1>4
  <2> HIDE DEF C
  <2>2. u \in [1..Len(u) -> C]
    BY <2>1, LenProperties
  <2> QED
    BY <2>1, <2>2 DEF C
<1> QED
  BY <1>3, <1>6, <1>7 DEF SetToSeqs, u, n

\* The categories in the order of their names.
LEMMA Named ==
  ASSUME NEW names \in ByName(Category)
  PROVE  /\ names \in Seq(Category) /\ Len(names) \in Nat /\ DOMAIN names = 1..Len(names)
         /\ ToSet(names) = Category
         /\ \A i, j \in DOMAIN names : i # j => names[i] # names[j]
         /\ \A i, j \in DOMAIN names : i < j => ~NamedBefore(names[j], names[i])
<1>1. IsFiniteSet(Category)
  BY StoreCatalogAssumption
<1>2. names \in SetToSeqs(Category) /\ \A i, j \in DOMAIN names : i < j => ~NamedBefore(names[j], names[i])
  BY DEF ByName, InOrder
<1> QED
  BY <1>1, <1>2, Arranged

LEMMA OneNaming ==
  ASSUME ~Namesakes, NEW names \in ByName(Category), NEW others \in ByName(Category)
  PROVE  names = others
<1> DEFINE Before == {b \in Category \X Category : NamedBefore(b[1], b[2])}
<1>1. IsFiniteSet(Category) /\ NameOf \in [Category -> Nat]
  BY StoreCatalogAssumption
<1>2. \A g, h \in Category : <<g, h>> \in Before <=> NamedBefore(g, h)
  OBVIOUS
<1>3. \A g, h \in Category : g # h => <<g, h>> \in Before \/ <<h, g>> \in Before
  BY <1>1, <1>2 DEF NamedBefore, Namesakes
<1> HIDE DEF Before
<1>4. ASSUME NEW u \in ByName(Category)
      PROVE  u \in SetToSeqs(Category) /\ \A i, j \in DOMAIN u : i < j => <<u[j], u[i]>> \notin Before
  <2>1. u \in SetToSeqs(Category) /\ \A i, j \in DOMAIN u : i < j => ~NamedBefore(u[j], u[i])
    BY DEF ByName, InOrder
  <2>2. \A i \in DOMAIN u : u[i] \in Category
    BY <1>1, <2>1, Arranged DEF ToSet
  <2> QED
    BY <1>2, <2>1, <2>2
<1> QED
  BY <1>1, <1>3, <1>4, OneOrder

\* The names of a part of the list.
LEMMA NamesOf ==
  ASSUME NEW S, NEW names \in Seq(S), NEW m \in Nat, NEW n \in Nat, n <= Len(names)
  PROVE  ToSet(SubSeq(names, m + 1, n)) = {names[i] : i \in (m + 1)..n}
<1>1. Len(names) \in Nat
  BY LenProperties
<1> DEFINE u == SubSeq(names, m + 1, n)
<1>2. CASE m + 1 <= n
  <2>1. Len(u) = n - m /\ DOMAIN u = 1..(n - m) /\ \A i \in 1..(n - m) : u[i] = names[m + 1 + i - 1]
    BY <1>1, <1>2, SubSeqProperties
  <2>2. ASSUME NEW g \in ToSet(u) PROVE g \in {names[i] : i \in (m + 1)..n}
    <3>1. PICK i \in 1..(n - m) : g = u[i]
      BY <2>1, <2>2 DEF ToSet
    <3>2. m + 1 + i - 1 \in (m + 1)..n /\ g = names[m + 1 + i - 1]
      BY <2>1, <3>1
    <3> QED
      BY <3>2
  <2>3. ASSUME NEW i \in (m + 1)..n PROVE names[i] \in ToSet(u)
    <3>1. i - m \in 1..(n - m) /\ m + 1 + (i - m) - 1 = i
      OBVIOUS
    <3>2. u[i - m] = names[i]
      BY <2>1, <3>1
    <3> QED
      BY <2>1, <3>1, <3>2 DEF ToSet
  <2> HIDE DEF u
  <2> QED
    BY <2>2, <2>3 DEF u
<1>3. CASE ~ (m + 1 <= n)
  <2>1. u = <<>> /\ (m + 1)..n = {}
    BY <1>1, <1>3, SubSeqEmpty
  <2> QED
    BY <2>1 DEF ToSet
<1> QED
  BY <1>2, <1>3

\* What the next names show, behind what the names before them did.
LEMMA NamesJoin ==
  ASSUME NEW names \in ByName(Category), NEW m \in Nat, NEW n \in Nat, m <= n, n <= Len(names), NEW e,
         NEW s \in ByName(Listed(SubSeq(names, 1, m), e)), NEW t \in ByName(Listed(SubSeq(names, m + 1, n), e))
  PROVE  s \o t \in ByName(Listed(SubSeq(names, 1, n), e))
<1>1. names \in Seq(Category) /\ Len(names) \in Nat /\ DOMAIN names = 1..Len(names) /\ ToSet(names) = Category
  BY Named
<1>2. /\ \A i, j \in DOMAIN names : i # j => names[i] # names[j]
      /\ \A i, j \in DOMAIN names : i < j => ~NamedBefore(names[j], names[i])
  BY Named
<1> DEFINE A == Listed(SubSeq(names, 1, m), e)
           B == Listed(SubSeq(names, m + 1, n), e)
           Left(I) == {g \in {names[i] : i \in I} : e \/ NotEmpty(g)}
<1>3. A = Left(1..m) /\ B = Left((m + 1)..n) /\ Listed(SubSeq(names, 1, n), e) = Left(1..n)
  <2>1. m <= Len(names) /\ names \in Seq(Category)
    BY <1>1
  <2>2. PICK o \in Nat : o + 1 = 1
    OBVIOUS
  <2>3. ASSUME NEW k \in Nat, k <= Len(names)
        PROVE  /\ ToSet(SubSeq(names, o + 1, k)) = {names[i] : i \in (o + 1)..k}
               /\ ToSet(SubSeq(names, m + 1, k)) = {names[i] : i \in (m + 1)..k}
    BY <2>1, <2>3, NamesOf
  <2> QED
    BY <2>1, <2>2, <2>3 DEF Listed
<1>4. A \cup B = Listed(SubSeq(names, 1, n), e)
  <2>1. 1..n = 1..m \cup (m + 1)..n
    OBVIOUS
  <2> HIDE DEF A, B
  <2> QED
    BY <1>3, <2>1
<1>5. IsFiniteSet(A) /\ IsFiniteSet(B)
  <2>1. IsFiniteSet(Category)
    BY StoreCatalogAssumption
  <2>2. Left(1..m) \subseteq Category /\ Left((m + 1)..n) \subseteq Category
    BY <1>1 DEF ToSet
  <2> QED
    BY <1>3, <2>1, <2>2, FS_Subset
<1>6. ASSUME NEW a \in A, NEW b \in B PROVE a # b /\ ~NamedBefore(b, a)
  <2>1. PICK i \in 1..m : a = names[i]
    BY <1>3
  <2>2. PICK j \in (m + 1)..n : b = names[j]
    BY <1>3
  <2>3. i \in DOMAIN names /\ j \in DOMAIN names /\ i < j
    BY <1>1
  <2> QED
    BY <1>2, <2>1, <2>2, <2>3
<1> HIDE DEF A, B, Left
<1>7. /\ s \in SetToSeqs(A) /\ \A i, j \in DOMAIN s : i < j => ~NamedBefore(s[j], s[i])
      /\ t \in SetToSeqs(B) /\ \A i, j \in DOMAIN t : i < j => ~NamedBefore(t[j], t[i])
  BY DEF ByName, InOrder, A, B
<1>8. s \o t \in SetToSeqs(A \cup B)
  BY <1>5, <1>6, <1>7, ArrangedJoin
<1>9. s \in Seq(A) /\ t \in Seq(B) /\ DOMAIN s = 1..Len(s) /\ DOMAIN t = 1..Len(t)
  BY <1>5, <1>7, Arranged
<1> DEFINE u == s \o t
<1>10. ASSUME NEW i \in DOMAIN u, NEW j \in DOMAIN u, i < j
       PROVE  ~NamedBefore(u[j], u[i])
  <2>1. Len(s) \in Nat /\ Len(t) \in Nat /\ DOMAIN u = 1..(Len(s) + Len(t))
    BY <1>9
  <2>2. \A k \in DOMAIN u : IF k <= Len(s) THEN k \in DOMAIN s /\ u[k] = s[k] /\ u[k] \in A
                           ELSE k - Len(s) \in DOMAIN t /\ u[k] = t[k - Len(s)] /\ u[k] \in B
    BY <1>9, <2>1
  <2> HIDE DEF u
  <2>3. CASE j <= Len(s)
    BY <1>7, <1>10, <2>1, <2>2, <2>3
  <2>4. CASE i <= Len(s) /\ ~ (j <= Len(s))
    BY <1>6, <2>2, <2>4
  <2>5. CASE ~ (i <= Len(s))
    <3>1. i - Len(s) \in DOMAIN t /\ j - Len(s) \in DOMAIN t /\ i - Len(s) < j - Len(s)
          /\ u[i] = t[i - Len(s)] /\ u[j] = t[j - Len(s)]
      BY <1>10, <2>1, <2>2, <2>5
    <3> QED
      BY <1>7, <3>1
  <2> QED
    BY <2>3, <2>4, <2>5
<1> QED
  BY <1>4, <1>8, <1>10 DEF ByName, InOrder

\* A page of categories carries the pages before it on.
LEMMA GroupsPageFits ==
  ASSUME CatalogInv, ~edited, CategoriesPage, NEW v, visit' = v
  PROVE  Fits(v)
<1> DEFINE e == visit.query.includeEmpty
           page == visit.page
           limit == visit.query.limit
           from == (page - 1) * limit
           to == page * limit
<1>1. /\ visit.op = "groups" /\ visit.query \in CategoryQuery /\ page \in Nat \ {0}
      /\ ~Namesakes => \A names \in ByName(Category) :
                         from <= Len(names) /\ visit.shown \in ByName(Listed(SubSeq(names, 1, from), e))
  BY DEF CatalogInv, Fits, GroupsFit, CategoriesPage
<1>2. limit \in Nat \ {0}
  BY <1>1, StoreCatalogAssumption
<1>3. PICK names \in ByName(Category) :
        \E kept \in ByName(Listed(Slice(names, page, limit), e)) :
          v = IF HasNext(page, limit, Len(names))
              THEN [op |-> "groups", query |-> visit.query, page |-> page + 1, shown |-> visit.shown \o kept]
              ELSE [op |-> "groupsWalked", query |-> visit.query, shown |-> visit.shown \o kept]
  BY DEF CategoriesPage, Go, Listed
<1>4. PICK kept \in ByName(Listed(Slice(names, page, limit), e)) :
        v = IF HasNext(page, limit, Len(names))
            THEN [op |-> "groups", query |-> visit.query, page |-> page + 1, shown |-> visit.shown \o kept]
            ELSE [op |-> "groupsWalked", query |-> visit.query, shown |-> visit.shown \o kept]
  BY <1>3
<1> DEFINE end == IF to < Len(names) THEN to ELSE Len(names)
           shown == visit.shown \o kept
<1>5. from \in Nat /\ to \in Nat /\ to = from + limit /\ (page + 1 - 1) * limit = to
  <2> HIDE DEF page, limit
  <2> QED
    BY <1>1, <1>2
<1>6. Slice(names, page, limit) = SubSeq(names, from + 1, end)
  BY DEF Slice
<1>7. HasNext(page, limit, Len(names)) <=> to < Len(names)
  BY DEF HasNext
<1>8. names \in Seq(Category) /\ Len(names) \in Nat /\ ToSet(names) = Category
  BY Named
<1> HIDE DEF page, limit, from, to, e
<1>9. ASSUME ~Namesakes PROVE end <= Len(names) /\ shown \in ByName(Listed(SubSeq(names, 1, end), e))
  <2> DEFINE before == visit.shown
  <2>1. from <= Len(names) /\ before \in ByName(Listed(SubSeq(names, 1, from), e))
    BY <1>1, <1>9
  <2>2. end \in Nat /\ from <= end /\ end <= Len(names)
    BY <1>2, <1>5, <1>8, <2>1
  <2> HIDE DEF before, end
  <2>3. before \o kept \in ByName(Listed(SubSeq(names, 1, end), e))
    BY <1>4, <1>5, <1>6, <2>1, <2>2, NamesJoin
  <2> QED
    BY <2>2, <2>3 DEF before
<1> HIDE DEF shown
<1>10. CASE to < Len(names)
  <2>1. v = [op |-> "groups", query |-> visit.query, page |-> page + 1, shown |-> shown] /\ end = to
    BY <1>4, <1>7, <1>10 DEF shown
  <2>2. /\ v.op = "groups" /\ v.query = visit.query /\ v.query.limit = limit /\ v.query.includeEmpty = e
        /\ v.page = page + 1 /\ v.shown = shown
    BY <2>1 DEF limit, e
  <2>3. page + 1 \in Nat \ {0} /\ (v.page - 1) * v.query.limit = to
    BY <1>1, <1>5, <2>2
  <2>4. ASSUME ~Namesakes, NEW others \in ByName(Category)
        PROVE  to <= Len(others) /\ v.shown \in ByName(Listed(SubSeq(others, 1, to), e))
    <3>1. others = names
      BY <2>4, OneNaming
    <3> QED
      BY <1>9, <2>1, <2>2, <2>4, <3>1
  <2>5. GroupsFit(v)
    BY <1>1, <2>2, <2>3, <2>4, Zenon DEF GroupsFit
  <2> QED
    BY <2>2, <2>5 DEF Fits, ListFits, ProductFits, CartFits
<1>11. CASE ~ (to < Len(names))
  <2>1. v = [op |-> "groupsWalked", query |-> visit.query, shown |-> shown] /\ end = Len(names)
    BY <1>4, <1>7, <1>11 DEF shown
  <2>2. v.op = "groupsWalked" /\ v.shown = shown /\ v.query.includeEmpty = e
    BY <2>1 DEF e
  <2>3. Listed(SubSeq(names, 1, Len(names)), e) = TreeNodes(e)
    <3>1. SubSeq(names, 1, Len(names)) = names
      BY <1>8, SubSeqFull
    <3> QED
      BY <1>8, <3>1 DEF Listed, TreeNodes
  <2>4. GroupsFit(v)
    BY <1>9, <2>1, <2>2, <2>3 DEF GroupsFit
  <2> QED
    BY <2>2, <2>4 DEF Fits, ListFits, ProductFits, CartFits
<1> QED
  BY <1>10, <1>11

LEMMA GroupsBegin ==
  ASSUME NEW q \in CategoryQuery, ListCategories(q), NEW v, visit' = v
  PROVE  Fits(v)
<1>1. v = [op |-> "groups", query |-> q, page |-> 1, shown |-> <<>>]
  BY DEF ListCategories, Begin
<1>2. v.op = "groups" /\ v.query = q /\ v.page = 1 /\ v.shown = <<>>
  BY <1>1
<1>3. (v.page - 1) * v.query.limit = 0
  <2>1. q.limit \in Nat
    BY StoreCatalogAssumption
  <2> QED
    BY <1>2, <2>1
<1>4. <<>> \in ByName({})
  <2>1. Cardinality({}) = 0 /\ 1..0 = {}
    BY FS_EmptySet
  <2>2. <<>> \in [1..0 -> {}]
    BY <2>1
  <2>3. DOMAIN <<>> = {}
    OBVIOUS
  <2>4. <<>> \in SetToSeqs({})
    BY <2>1, <2>2 DEF SetToSeqs
  <2> QED
    BY <2>3, <2>4 DEF ByName, InOrder
<1>5. ASSUME NEW names \in ByName(Category)
      PROVE  0 <= Len(names) /\ <<>> \in ByName(Listed(SubSeq(names, 1, 0), v.query.includeEmpty))
  <2>1. names \in Seq(Category) /\ 0 <= Len(names)
    BY Named
  <2>2. SubSeq(names, 1, 0) = <<>>
    BY SubSeqEmpty
  <2>3. Listed(<<>>, v.query.includeEmpty) = {}
    BY DEF Listed, ToSet
  <2> QED
    BY <1>4, <2>1, <2>2, <2>3
<1>6. v.page \in Nat \ {0}
  BY <1>2
<1>7. GroupsFit(v)
  BY <1>2, <1>3, <1>5, <1>6, Zenon DEF GroupsFit
<1> QED
  BY <1>1, <1>7 DEF Fits, ListFits, ProductFits, CartFits

-----------------------------------------------------------------------------
(* The inductive invariant.                                                  *)

LEMMA CatalogBegins == CatalogInit => CatalogInv
<1> SUFFICES ASSUME CatalogInit PROVE CatalogInv
  OBVIOUS
<1>1. Amount \subseteq Nat /\ Amount # {} /\ MaxEdits \in Nat
  BY StoreCatalogAssumption
<1>2. Min(Amount) \in Amount
  <2>1. PICK a \in Amount : \A m \in Amount : ~ (m < a)
    BY <1>1, LeastNat
  <2>2. \A m \in Amount : a <= m
    BY <1>1, <2>1
  <2> QED
    BY <2>2 DEF Min
<1>3. CatalogTypeOK
  <2>1. price \in [Sellable -> Amount \cup {None}]
    BY <1>2 DEF CatalogInit
  <2>2. shelf \in [StockEntry -> [active : BOOLEAN, stock : Level \cup {None}]]
    BY DEF CatalogInit
  <2>3. registry \in [ScanCode -> Product \cup StockEntry \cup {None}]
    BY DEF CatalogInit
  <2>4. edits \in 0..MaxEdits
    BY <1>1 DEF CatalogInit
  <2> QED
    BY <2>1, <2>2, <2>3, <2>4 DEF CatalogInit, CatalogTypeOK, NoVisit
<1>4. PageShape
  BY DEF CatalogInit, PageShape, NoVisit
<1>5. \A v : visit = v => Fits(v)
  BY DEF CatalogInit, NoVisit, Fits, ListFits, ProductFits, CartFits, GroupsFit
<1> QED
  BY <1>3, <1>4, <1>5 DEF CatalogInv

\* A visit is told what is there, or something was edited since it began.
LEMMA CatalogInductive == CatalogInv /\ [CatalogNext]_catalogVars => CatalogInv'
<1> SUFFICES ASSUME CatalogInv, [CatalogNext]_catalogVars PROVE CatalogInv'
  OBVIOUS
<1>1. CatalogTypeOK' /\ PageShape'
  BY CatalogTypes DEF CatalogInv
<1>2. SUFFICES ASSUME ~edited', NEW v, visit' = v PROVE Fits(v)'
  BY <1>1 DEF CatalogInv
<1>3. ASSUME UNCHANGED shopRows, Fits(v) PROVE Fits(v)'
  BY <1>3, FitsKept
<1>4. ASSUME visit' = NoVisit PROVE Fits(v)'
  BY <1>2, <1>4 DEF NoVisit, Fits, ListFits, ProductFits, CartFits, GroupsFit
<1>5. CASE UNCHANGED catalogVars
  BY <1>2, <1>3, <1>5 DEF catalogVars, CatalogInv
<1>6. ASSUME Edit PROVE Fits(v)'
  BY <1>2, <1>4, <1>6 DEF Edit
<1>7. CASE \/ \E p \in Product : SetOnSale(p)
           \/ \E u \in Variant : SetOffered(u)
           \/ \E o \in Sellable, amount \in Amount : SetPrice(o, amount)
           \/ \E i \in StockEntry, active \in BOOLEAN, stock \in Level \cup {None} : SetShelf(i, active, stock)
           \/ \E c \in ScanCode, of \in Product \cup StockEntry \cup {None} : SetBarcode(c, of)
  BY <1>6, <1>7 DEF SetOnSale, SetOffered, SetPrice, SetShelf, SetBarcode
<1>8. CASE Leave
  BY <1>4, <1>8 DEF Leave
<1>9. ASSUME NEW w, Begin(w) \/ Go(w), ~edited => Fits(v) PROVE Fits(v)'
  <2>1. UNCHANGED <<shopRows, edited>>
    BY <1>9 DEF Begin, Go
  <2> QED
    BY <1>2, <1>3, <1>9, <2>1
<1>10. CASE \E q \in Query : ListProducts(q)
  BY <1>2, <1>9, <1>10, WalkBegins DEF ListProducts, Begin
<1>11. CASE ListReads
  BY <1>2, <1>9, <1>11, PageBegins DEF ListReads
<1>12. CASE \E q \in Collection : CollectionReads(q)
  BY <1>2, <1>9, <1>12, CollectionBegins DEF CollectionReads
<1>13. CASE \E p \in Product : PriceRow(p)
  BY <1>2, <1>9, <1>13, PriceFits DEF PriceRow
<1>14. CASE ShowPage
  BY <1>2, <1>9, <1>14, PageFits DEF ShowPage
<1>15. CASE ShowCollection
  BY <1>2, <1>9, <1>15, CollectionFits DEF ShowCollection
<1>16. CASE \E p \in Product : GetProductBySlug(p)
  BY <1>2, <1>9, <1>16, DetailBegins DEF GetProductBySlug
<1>17. CASE DetailPrices
  BY <1>2, <1>9, <1>17, DetailFits DEF DetailPrices
<1>18. CASE \E p \in Product : GetProductAvailability(p)
  BY <1>2, <1>9, <1>18, AvailabilityFits DEF GetProductAvailability
<1>19. CASE (\E i \in StockEntry : AddSeen(i)) \/ \E c \in ScanCode : AddScanned(c)
  <2>1. PICK s : AddSelection(s)
    BY <1>19 DEF AddSeen, AddScanned
  <2> QED
    BY <1>2, <1>9, <1>19, <2>1, CartTakes DEF AddSelection
<1>20. CASE \E q \in CategoryQuery : ListCategories(q)
  BY <1>2, <1>9, <1>20, GroupsBegin DEF ListCategories
<1>21. CASE CategoriesPage
  BY <1>2, <1>9, <1>21, GroupsPageFits DEF CategoriesPage
<1> QED
  BY <1>5, <1>7, <1>8, <1>10, <1>11, <1>12, <1>13, <1>14, <1>15, <1>16, <1>17, <1>18, <1>19, <1>20, <1>21
     DEF CatalogNext

-----------------------------------------------------------------------------
(* What follows from it.                                                     *)

\* The newest of a collection are the head of what its one query would list.
LEMMA NewestAreShown ==
  ASSUME CatalogTypeOK, NEW q \in Collection, NEW s \in SetToSeqs(Candidates(q)),
         \A i, j \in DOMAIN s : i < j => ~Newest(s[j], s[i]), NEW shown, shown = Take(s, q.limit)
  PROVE  /\ ToSet(shown) \subseteq Candidates(q) \ {q.like}
         /\ \A i, j \in DOMAIN shown : i < j => shown[i] # shown[j] /\ ~Newest(shown[j], shown[i])
         /\ \A p \in Candidates(q) \ ToSet(shown) :
              Len(shown) = q.limit /\ \A i \in DOMAIN shown : ~Newest(p, shown[i])
<1> DEFINE C == Candidates(q)
           limit == q.limit
           n == IF Len(s) < limit THEN Len(s) ELSE limit
<1>1. limit \in Nat /\ None \notin Product
  BY StoreCatalogAssumption
<1>2. IsFiniteSet(C) /\ C \subseteq Product /\ q.like \notin C
  <2>1. C \subseteq Product
    BY DEF Candidates, CatalogTypeOK
  <2> QED
    BY <1>1, <2>1, RowsFinite DEF Candidates
<1> HIDE DEF C, limit
<1>3. s \in SetToSeqs(C) /\ \A i, j \in DOMAIN s : i < j => ~Newest(s[j], s[i])
  BY DEF C
<1>4. /\ s \in Seq(C) /\ Len(s) \in Nat /\ DOMAIN s = 1..Len(s) /\ ToSet(s) = C
      /\ \A i, j \in DOMAIN s : i # j => s[i] # s[j]
  BY <1>2, <1>3, Arranged
<1>5. shown = SubSeq(s, 1, n)
  BY DEF Take, limit
<1>6. n \in Nat /\ n <= Len(s)
  BY <1>1, <1>4
<1>7. Len(shown) = n /\ DOMAIN shown = 1..n /\ \A i \in 1..n : shown[i] = s[i] /\ i \in DOMAIN s
  <2> HIDE DEF n
  <2>1. s \in Seq(C) /\ Len(s) \in Nat /\ DOMAIN s = 1..Len(s)
    BY <1>4
  <2>2. \A i \in 1..n : i \in DOMAIN s /\ s[i] \in C
    BY <1>6, <2>1
  <2>3. /\ SubSeq(s, 1, n) \in Seq(C)
        /\ Len(SubSeq(s, 1, n)) = n
        /\ \A i \in 1..n : SubSeq(s, 1, n)[i] = s[i]
    BY <1>6, <2>2, SubSeqProperties
  <2>4. shown \in Seq(C) /\ Len(shown) = n /\ \A i \in 1..n : shown[i] = s[i]
    BY <1>5, <2>3
  <2> QED
    BY <2>2, <2>4, LenProperties
<1>8. ToSet(shown) \subseteq C
  BY <1>4, <1>7 DEF ToSet
<1>9. ASSUME NEW p \in C \ ToSet(shown)
      PROVE  Len(shown) = limit /\ \A i \in DOMAIN shown : ~Newest(p, shown[i])
  <2>1. PICK k \in DOMAIN s : p = s[k]
    BY <1>4 DEF ToSet
  <2>2. k \notin 1..n
    BY <1>7, <1>9, <2>1 DEF ToSet
  <2>3. n < k /\ n = limit
    <3>1. k \in 1..Len(s) /\ Len(s) \in Nat
      BY <1>4, <2>1
    <3>2. n = Len(s) \/ n = limit
      OBVIOUS
    <3> HIDE DEF n
    <3> QED
      BY <1>6, <2>2, <3>1, <3>2
  <2> HIDE DEF n
  <2>4. ASSUME NEW i \in DOMAIN shown PROVE ~Newest(p, shown[i])
    <3>1. i \in DOMAIN s /\ shown[i] = s[i] /\ i < k
      BY <1>4, <1>6, <1>7, <2>1, <2>3
    <3> QED
      BY <1>3, <2>1, <3>1
  <2> QED
    BY <1>7, <2>3, <2>4
<1>10. \A i, j \in DOMAIN shown : i < j => shown[i] # shown[j] /\ ~Newest(shown[j], shown[i])
  <2> HIDE DEF n
  <2>1. ASSUME NEW i \in DOMAIN shown, NEW j \in DOMAIN shown, i < j
        PROVE  shown[i] # shown[j] /\ ~Newest(shown[j], shown[i])
    <3>1. i \in DOMAIN s /\ j \in DOMAIN s /\ i # j /\ shown[i] = s[i] /\ shown[j] = s[j]
      BY <1>6, <1>7, <2>1
    <3> QED
      BY <1>3, <1>4, <2>1, <3>1
  <2> QED
    BY <2>1
<1> QED
  BY <1>2, <1>8, <1>9, <1>10 DEF C, limit

LEMMA WalkIsWhole == CatalogInv => WalkShowsAll
<1> SUFFICES ASSUME CatalogInv, visit.op = "walked", ~edited
             PROVE  WalkShowsAll
  BY DEF WalkShowsAll
<1> DEFINE q == visit.query
           shown == visit.shown
<1>1. ListFits(visit) /\ CatalogTypeOK
  BY DEF CatalogInv, Fits
<1>2. /\ q \in Query \cup Collection
      /\ q \in Query /\ ~Tied(q) => shown \in Sorted(q, price, Wanted(q))
      /\ q \in Collection => \E s \in InOrder(Candidates(q), Newest) : shown = Take(s, q.limit)
  BY <1>1 DEF ListFits, NewestShown
<1> HIDE DEF q, shown
<1>3. CASE q \in Collection
  <2>1. /\ ToSet(shown) \subseteq Candidates(q) \ {q.like}
        /\ \A i, j \in DOMAIN shown : i < j => shown[i] # shown[j] /\ ~Newest(shown[j], shown[i])
        /\ \A p \in Candidates(q) \ ToSet(shown) :
             Len(shown) = q.limit /\ \A i \in DOMAIN shown : ~Newest(p, shown[i])
    BY <1>1, <1>2, <1>3, NewestAreShown DEF InOrder
  <2> QED
    BY <1>3, <2>1 DEF WalkShowsAll, q, shown
<1>4. CASE q \notin Collection
  <2>1. ASSUME ~Tied(q)
        PROVE  /\ ToSet(shown) = Wanted(q) /\ Len(shown) = Cardinality(Wanted(q))
               /\ \A i, j \in DOMAIN shown : i < j => Earlier(q, price, shown[i], shown[j])
    <3>1. shown \in Sorted(q, price, Wanted(q)) /\ IsFiniteSet(Wanted(q))
      BY <1>1, <1>2, <1>4, <2>1, RowsFinite
    <3>2. shown \in SetToSeqs(Wanted(q))
          /\ \A i, j \in DOMAIN shown : i < j => ~Earlier(q, price, shown[j], shown[i])
      BY <3>1, SortedRows
    <3>3. /\ ToSet(shown) = Wanted(q) /\ Len(shown) = Cardinality(Wanted(q)) /\ DOMAIN shown = 1..Len(shown)
          /\ \A i, j \in DOMAIN shown : i # j => shown[i] # shown[j]
      BY <3>1, <3>2, Arranged
    <3>4. ASSUME NEW i \in DOMAIN shown, NEW j \in DOMAIN shown, i < j
          PROVE  Earlier(q, price, shown[i], shown[j])
      <4>1. i # j
        BY <3>3, <3>4
      <4>2. shown[i] \in Wanted(q) /\ shown[j] \in Wanted(q) /\ shown[i] # shown[j]
        BY <3>3, <4>1 DEF ToSet
      <4> QED
        BY <2>1, <3>2, <3>4, <4>2 DEF Tied
    <3> QED
      BY <3>3, <3>4
  <2> QED
    BY <1>4, <2>1 DEF WalkShowsAll, q, shown
<1> QED
  BY <1>3, <1>4

\* A category that the tree does not reach would have none above it that is not reached either.
LEMMA TreeIsReached ==
  ASSUME NEW e, NEW S \in SUBSET TreeNodes(e), TreeRoots(e) \subseteq S,
         \A g \in S : TreeChildren(g, e) \subseteq S
  PROVE  S = TreeNodes(e)
<1> DEFINE T == TreeNodes(e) \ S
<1>1. T \in SUBSET Category
  BY DEF TreeNodes
<1>2. ASSUME T # {} PROVE FALSE
  <2>1. PICK g \in T : Upper[g] \notin T
    BY <1>1, <1>2, StoreCatalogAssumption
  <2>2. CASE Upper[g] \in S
    BY <2>1, <2>2 DEF TreeChildren
  <2>3. CASE Upper[g] \notin S
    BY <2>1, <2>3 DEF TreeRoots
  <2> QED
    BY <2>2, <2>3
<1> QED
  BY <1>2

\* The answers of the public catalogue are what its rows say, unless something was edited since
\* the visit began (StoreCatalogService).
THEOREM CatalogueStaysTrue == CatalogSpec => []CatalogueIsTrue
<1>1. CatalogInv => CatalogueIsTrue
  <2> SUFFICES ASSUME CatalogInv PROVE CatalogueIsTrue
    OBVIOUS
  <2>1. CatalogTypeOK /\ WalkShowsAll
    BY WalkIsWhole DEF CatalogInv
  <2>2. ~edited => ProductFits(visit) /\ CartFits(visit) /\ GroupsFit(visit)
    BY DEF CatalogInv, Fits
  <2>3. PagesAreTrue
    BY <2>2 DEF PagesAreTrue, ProductFits
  <2>4. CartFollowsOffer
    BY <2>2 DEF CartFollowsOffer, CartFits
  <2>5. visit.op = "groupsWalked" /\ ~edited /\ ~Namesakes => visit.shown \in ByName(TreeNodes(visit.query.includeEmpty))
    BY <2>2 DEF GroupsFit
  <2>6. CategoriesAreWhole
    BY <2>5, TreeIsReached DEF CategoriesAreWhole
  <2> QED
    BY <2>1, <2>3, <2>4, <2>6 DEF CatalogueIsTrue
<1> QED
  BY <1>1, CatalogBegins, CatalogInductive, PTL DEF CatalogSpec
================================================================================
