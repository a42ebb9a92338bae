---------------------------- MODULE WorkflowEngine ----------------------------
(***************************************************************************)
(* The executions of one workflow: WorkflowEngineService.executeWorkflow,   *)
(* called by TriggerService for every delivery of an event, by the outbox   *)
(* or by reconciliation's replay (modules/engine, triggers, rules).         *)
(*                                                                          *)
(* Nothing here runs in a transaction: every read, action and write is a    *)
(* step of its own, calls for one event key interleave, and an instance may *)
(* die between any two steps.                                               *)
(***************************************************************************)
EXTENDS Integers, FiniteSets

CONSTANTS
  Key,        \* event keys: workflow, event name and business id
  Event,      \* events that match the workflow
  KeyOf,      \* KeyOf[e]: the event key of e; events of one order share theirs
  NumRules,   \* the workflow's rules, in the order of order_index
  Matches,    \* Matches[e]: the rules whose condition holds for e
  Caller,     \* deliveries in progress
  MaxStarts   \* bound on the runs of one execution

Rule == 1..NumRules

ASSUME WorkflowAssumption ==
  /\ KeyOf \in [Event -> Key]
  /\ NumRules \in Nat
  /\ Matches \in [Event -> SUBSET Rule]
  /\ MaxStarts \in Nat

VARIABLES
  execution,   \* execution[k]: status and checkpoint (completedRuleIds) of k's row
  call,        \* call[c]: where c is in executeWorkflow, and its copy of the checkpoint
  done,        \* done[k][r]: times the effect of r's action was committed for k
  uncertain,   \* uncertain[k][r]: how many of them threw all the same
  starts,      \* starts[k]: runs of k so far
  overtaken,   \* keys resumed by a call whose FAILED was no longer true
  orphaned     \* keys whose run was cut off by a death

vars == <<execution, call, done, uncertain, starts, overtaken, orphaned>>

Status == {"NONE", "RUNNING", "SUCCESS", "FAILED"}
Idle == [at |-> "idle"]
RunningAt == {"run", "checkpoint", "fail"}
Call == {Idle} \cup [at : {"create", "resume"}, event : Event]
               \cup [at : RunningAt, event : Event, completed : SUBSET Rule]

Init ==
  /\ execution = [k \in Key |-> [status |-> "NONE", completed |-> {}]]
  /\ call = [c \in Caller |-> Idle]
  /\ done = [k \in Key |-> [r \in Rule |-> 0]]
  /\ uncertain = [k \in Key |-> [r \in Rule |-> 0]]
  /\ starts = [k \in Key |-> 0]
  /\ overtaken = {}
  /\ orphaned = {}

KeyOfCall(c) == KeyOf[call[c].event]
Runs(c, k) == call[c].at \in RunningAt /\ KeyOfCall(c) = k
History == <<done, uncertain, starts, overtaken, orphaned>>

-----------------------------------------------------------------------------
(* A row that is RUNNING or SUCCESS is the answer, whoever runs it.         *)
FindExecution(c, e) ==
  /\ call[c] = Idle
  /\ \/ /\ execution[KeyOf[e]].status = "NONE"
        /\ call' = [call EXCEPT ![c] = [at |-> "create", event |-> e]]
     \/ /\ execution[KeyOf[e]].status = "FAILED"
        /\ call' = [call EXCEPT ![c] = [at |-> "resume", event |-> e]]
  /\ UNCHANGED <<execution, History>>

Proceed(c, at, completed) ==
  call' = [call EXCEPT ![c] = [at |-> at, event |-> call[c].event, completed |-> completed]]

Start(k) ==
  /\ starts[k] < MaxStarts
  /\ starts' = [starts EXCEPT ![k] = @ + 1]

(* The unique key lets one of several creators through; the others answer   *)
(* with its row.                                                            *)
CreateExecution(c) ==
  /\ call[c].at = "create"
  /\ LET k == KeyOfCall(c) IN
       \/ /\ execution[k].status = "NONE"
          /\ execution' = [execution EXCEPT ![k] = [status |-> "RUNNING", completed |-> {}]]
          /\ Proceed(c, "run", {})
          /\ Start(k)
       \/ /\ execution[k].status # "NONE"
          /\ call' = [call EXCEPT ![c] = Idle]
          /\ UNCHANGED <<execution, starts>>
  /\ UNCHANGED <<done, uncertain, overtaken, orphaned>>

(* The row is set RUNNING by id, whatever its status is by now, and the      *)
(* checkpoint is what the update returns.                                   *)
ResumeExecution(c) ==
  /\ call[c].at = "resume"
  /\ LET k == KeyOfCall(c) IN
       /\ execution' = [execution EXCEPT ![k].status = "RUNNING"]
       /\ Proceed(c, "run", execution[k].completed)
       /\ Start(k)
       /\ overtaken' = overtaken \cup {x \in {k} : execution[x].status # "FAILED"}
  /\ UNCHANGED <<done, uncertain, orphaned>>

-----------------------------------------------------------------------------
Pending(c) == Matches[call[c].event] \ call[c].completed

\* The loop passes over rules that do not match or are completed.
IsNext(c, r) == r \in Pending(c) /\ \A q \in Pending(c) : r <= q

Commit(k, r) == done' = [done EXCEPT ![k][r] = @ + 1]

ExecuteAction(c, r) ==
  /\ call[c].at = "run"
  /\ IsNext(c, r)
  /\ Commit(KeyOfCall(c), r)
  /\ Proceed(c, "checkpoint", call[c].completed \cup {r})
  /\ UNCHANGED <<execution, uncertain, starts, overtaken, orphaned>>

\* An activity is recorded and a handler of its event throws, say.
ActionThrowsAfterCommit(c, r) ==
  /\ call[c].at = "run"
  /\ IsNext(c, r)
  /\ Commit(KeyOfCall(c), r)
  /\ uncertain' = [uncertain EXCEPT ![KeyOfCall(c)][r] = @ + 1]
  /\ Proceed(c, "fail", call[c].completed)
  /\ UNCHANGED <<execution, starts, overtaken, orphaned>>

\* An action that does nothing, a log entry or a write of the row throws.
StepThrows(c) ==
  /\ call[c].at \in {"run", "checkpoint"}
  /\ Proceed(c, "fail", call[c].completed)
  /\ UNCHANGED <<execution, History>>

Checkpoint(c) ==
  /\ call[c].at = "checkpoint"
  /\ execution' = [execution EXCEPT ![KeyOfCall(c)].completed = call[c].completed]
  /\ Proceed(c, "run", call[c].completed)
  /\ UNCHANGED History

\* The output of a success has no completedRuleIds.
MarkSuccess(c) ==
  /\ call[c].at = "run"
  /\ Pending(c) = {}
  /\ execution' = [execution EXCEPT ![KeyOfCall(c)] = [status |-> "SUCCESS", completed |-> {}]]
  /\ call' = [call EXCEPT ![c] = Idle]
  /\ UNCHANGED History

\* Mutants: the failed rule counts as completed; the checkpoint is lost; the status is left.
MarkFailedWithCurrent(c) ==
  /\ call[c].at = "fail"
  /\ execution' = [execution EXCEPT ![KeyOfCall(c)] =
       [status |-> "FAILED", completed |-> call[c].completed \cup {r \in Rule : IsNext(c, r)}]]
  /\ call' = [call EXCEPT ![c] = Idle]
  /\ UNCHANGED History

MarkFailedForgetful(c) ==
  /\ call[c].at = "fail"
  /\ execution' = [execution EXCEPT ![KeyOfCall(c)] = [status |-> "FAILED", completed |-> {}]]
  /\ call' = [call EXCEPT ![c] = Idle]
  /\ UNCHANGED History

MarkFailedSilently(c) ==
  /\ call[c].at = "fail"
  /\ execution' = [execution EXCEPT ![KeyOfCall(c)].completed = call[c].completed]
  /\ call' = [call EXCEPT ![c] = Idle]
  /\ UNCHANGED History

MarkFailed(c) ==
  /\ call[c].at = "fail"
  /\ execution' = [execution EXCEPT ![KeyOfCall(c)] =
                     [status |-> "FAILED", completed |-> call[c].completed]]
  /\ call' = [call EXCEPT ![c] = Idle]
  /\ UNCHANGED History

(* The instance dies; so ends a call whose first log entry or whose write of *)
(* FAILED throws.                                                           *)
Crash(c) ==
  /\ call[c] # Idle
  /\ call' = [call EXCEPT ![c] = Idle]
  /\ orphaned' = orphaned \cup {k \in Key : Runs(c, k)}
  /\ UNCHANGED <<execution, done, uncertain, starts, overtaken>>

Next ==
  \/ \E c \in Caller, e \in Event : FindExecution(c, e)
  \/ \E c \in Caller, r \in Rule : ExecuteAction(c, r) \/ ActionThrowsAfterCommit(c, r)
  \/ \E c \in Caller :
       \/ CreateExecution(c)
       \/ ResumeExecution(c)
       \/ StepThrows(c)
       \/ Checkpoint(c)
       \/ MarkSuccess(c)
       \/ MarkFailed(c)
       \/ Crash(c)

Spec == Init /\ [][Next]_vars

-----------------------------------------------------------------------------
TypeOK ==
  /\ execution \in [Key -> [status : Status, completed : SUBSET Rule]]
  /\ call \in [Caller -> Call]
  /\ done \in [Key -> [Rule -> Nat]]
  /\ uncertain \in [Key -> [Rule -> Nat]]
  /\ starts \in [Key -> 0..MaxStarts]
  /\ overtaken \subseteq Key
  /\ orphaned \subseteq Key

(* A workflow that ended in SUCCESS did everything it should for one of the  *)
(* events of its key, however many runs it took and however they overwrote   *)
(* one another's checkpoints.                                               *)
SuccessIsComplete ==
  \A k \in Key : execution[k].status = "SUCCESS" =>
    \E e \in Event : KeyOf[e] = k /\ \A r \in Matches[e] : done[k][r] > 0

(* A retry repeats no action (no second e-mail, message or AI request) that  *)
(* an earlier run got through, unless it throws after its effect; only a     *)
(* call that resumes a run it believed FAILED, and that was not, repeats     *)
(* more.                                                                    *)
RetryExecutesOnce ==
  \A k \in Key \ overtaken : \A r \in Rule : done[k][r] <= 1 + uncertain[k][r]

(* An execution is only left RUNNING, where every later delivery takes it    *)
(* for done, by a death in the middle of its run.                           *)
RunningHasRunner ==
  \A k \in Key : execution[k].status = "RUNNING" =>
    k \in orphaned \/ \E c \in Caller : Runs(c, k)
=============================================================================
