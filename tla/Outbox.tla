------------------------------- MODULE Outbox -------------------------------
(***************************************************************************)
(* The transactional outbox of infrastructure/event-bus.  Services insert   *)
(* rows into outbox_events inside their own transactions; every instance of *)
(* the application runs OutboxProcessorService.runCycle on a timer, claims  *)
(* a batch of rows and hands each event to the handlers registered for it.  *)
(*                                                                          *)
(* One action is one awaited database transaction, or one handler call: in  *)
(* between, the other instances run.  A handler's call may throw before or  *)
(* after its effect is committed.  An instance may die at any await.        *)
(***************************************************************************)
EXTENDS Integers, Sequences, FiniteSets

CONSTANTS
  Event,         \* ids of the rows of outbox_events
  Worker,        \* application instances running the processor
  CreatedAt,     \* created_at of each row, by which a claim is ordered
  NumSync,       \* number of SYNC handlers an event's name has, wildcard included
  NumAsync,      \* number of ASYNC handlers an event's name has
  MaxHandlers,   \* largest of those numbers
  Retries,       \* metadata.retries of every handler (2 in the code)
  MaxAttempts,   \* MAX_EVENT_ATTEMPTS (10 in the code)
  BatchLimit,    \* limit of claimPendingBatch and retryFailed (100 in the code)
  FaultBudget    \* bound on deaths, on locks expiring under a live instance and on failed
                 \* markProcessed calls

ASSUME OutboxAssumption ==
  /\ CreatedAt \in [Event -> Nat]
  /\ MaxHandlers \in Nat
  /\ NumSync \in [Event -> 0..MaxHandlers]
  /\ NumAsync \in [Event -> 0..MaxHandlers]
  /\ Retries \in Nat
  /\ MaxAttempts \in Nat \ {0}
  /\ BatchLimit \in Nat \ {0}
  /\ FaultBudget \in Nat
  /\ IsFiniteSet(Event)

Handler == 1..MaxHandlers

VARIABLES
  row,      \* row[e]: the columns status, attempts and locked_at of event e
  pc,       \* pc[w]: where w stands in runCycle; "idle" is running = false
  batch,    \* batch[w]: the claimed rows w has still to dispatch, as it read them
  cursor,   \* cursor[w]: the SYNC handler of Head(batch[w]) that is next
  tries,    \* tries[w]: failed calls of that handler in this dispatch
  async,    \* async[w]: ASYNC handler calls queued in w's event loop
  ran,      \* ran[e][h]: times the effect of SYNC handler h on e was committed
  notified, \* <<e, h>> such that ASYNC handler h has handled e
  faults    \* faults so far, at most FaultBudget

vars == <<row, pc, batch, cursor, tries, async, ran, notified, faults>>

Status == {"NONE", "PENDING", "PROCESSING", "PROCESSED", "FAILED"}
Row == [status : Status, attempts : Nat, lockedAt : {"null", "fresh", "stale"}]
Pc == {"idle", "retry", "claim", "dispatch", "failed", "done"}
Dispatching == {"dispatch", "failed", "done"}
Claim == [id : Event, attempts : Nat]
AsyncCall == [claim : Claim, handler : Handler, tries : 0..Retries]

Init ==
  /\ row = [e \in Event |-> [status |-> "NONE", attempts |-> 0, lockedAt |-> "null"]]
  /\ pc = [w \in Worker |-> "idle"]
  /\ batch = [w \in Worker |-> <<>>]
  /\ cursor = [w \in Worker |-> 1]
  /\ tries = [w \in Worker |-> 0]
  /\ async = [w \in Worker |-> {}]
  /\ ran = [e \in Event |-> [h \in Handler |-> 0]]
  /\ notified = {}
  /\ faults = 0

WithStatus(s) == {e \in Event : row[e].status = s}

-----------------------------------------------------------------------------
(* EventBusService.publish in the caller's transaction: the rows appear     *)
(* together when it commits, and not at all when it rolls back.             *)
Publish(S) ==
  /\ S \subseteq WithStatus("NONE")
  /\ row' = [e \in Event |-> IF e \in S THEN [row[e] EXCEPT !.status = "PENDING"]
                                        ELSE row[e]]
  /\ UNCHANGED <<pc, batch, cursor, tries, async, ran, notified, faults>>

-----------------------------------------------------------------------------
\* Mutant: rows of dead instances are left as they are.
ReleaseNothing(w) ==
  /\ pc[w] = "idle"
  /\ pc' = [pc EXCEPT ![w] = "retry"]
  /\ UNCHANGED <<row, batch, cursor, tries, async, ran, notified, faults>>

(* runCycle takes the running flag and releases the rows whose lock is      *)
(* older than twelve intervals, whoever holds them.                         *)
ReleaseStuckProcessing(w) ==
  /\ pc[w] = "idle"
  /\ pc' = [pc EXCEPT ![w] = "retry"]
  /\ row' = [e \in Event |->
               IF row[e].status = "PROCESSING" /\ row[e].lockedAt = "stale"
               THEN [row[e] EXCEPT !.status = "PENDING", !.lockedAt = "null"]
               ELSE row[e]]
  /\ UNCHANGED <<batch, cursor, tries, async, ran, notified, faults>>

\* Mutants: one attempt too many; no limit.
RetryableOnceMore == {e \in WithStatus("FAILED") : row[e].attempts <= MaxAttempts}
RetryableAlways == WithStatus("FAILED")

Retryable == {e \in WithStatus("FAILED") : row[e].attempts < MaxAttempts}

\* At most BatchLimit of them; which ones, updated_at decides.
RetryFailed(w) ==
  /\ pc[w] = "retry"
  /\ pc' = [pc EXCEPT ![w] = "claim"]
  /\ \E S \in SUBSET Retryable :
       /\ \/ S = Retryable
          \/ Cardinality(S) = BatchLimit
       /\ Cardinality(S) <= BatchLimit
       /\ row' = [e \in Event |-> IF e \in S THEN [row[e] EXCEPT !.status = "PENDING"]
                                             ELSE row[e]]
  /\ UNCHANGED <<batch, cursor, tries, async, ran, notified, faults>>

\* The BatchLimit oldest PENDING rows, oldest first; rows with one created_at in any order.
OldestPending(s) ==
  LET P == WithStatus("PENDING") IN
  /\ \A i, j \in 1..Len(s) : i < j => s[i] # s[j] /\ CreatedAt[s[i]] <= CreatedAt[s[j]]
  /\ \A e \in P : \/ \E i \in 1..Len(s) : s[i] = e
                  \/ /\ Len(s) = BatchLimit
                     /\ \A i \in 1..Len(s) : CreatedAt[s[i]] <= CreatedAt[e]

\* Mutant: the claim does not count.
ClaimRowsUncounted(w, s) ==
  /\ row' = [e \in Event |->
               IF \E i \in 1..Len(s) : s[i] = e
               THEN [row[e] EXCEPT !.status = "PROCESSING", !.lockedAt = "fresh"]
               ELSE row[e]]
  /\ batch' = [batch EXCEPT ![w] =
                 [i \in 1..Len(s) |-> [id |-> s[i], attempts |-> row[s[i]].attempts]]]
  /\ pc' = [pc EXCEPT ![w] = IF s = <<>> THEN "idle" ELSE "dispatch"]

\* The update of the rows s and the second read of them, in one transaction.
ClaimRows(w, s) ==
  /\ row' = [e \in Event |->
               IF \E i \in 1..Len(s) : s[i] = e
               THEN [status |-> "PROCESSING", attempts |-> row[e].attempts + 1,
                     lockedAt |-> "fresh"]
               ELSE row[e]]
  /\ batch' = [batch EXCEPT ![w] =
                 [i \in 1..Len(s) |-> [id |-> s[i], attempts |-> row[s[i]].attempts + 1]]]
  /\ pc' = [pc EXCEPT ![w] = IF s = <<>> THEN "idle" ELSE "dispatch"]

ClaimPendingBatch(w) ==
  /\ pc[w] = "claim"
  /\ \E n \in 0..BatchLimit : \E s \in [1..n -> WithStatus("PENDING")] :
       OldestPending(s) /\ ClaimRows(w, s)
  /\ UNCHANGED <<cursor, tries, async, ran, notified, faults>>

-----------------------------------------------------------------------------
Current(w) == Head(batch[w]).id

Handling(w) ==
  /\ pc[w] = "dispatch"
  /\ cursor[w] <= NumSync[Current(w)]

Commit(e, h) == ran' = [ran EXCEPT ![e][h] = @ + 1]

(* invoke: SYNC handlers run one after the other in priority order.         *)
InvokeSucceeds(w) ==
  /\ Handling(w)
  /\ Commit(Current(w), cursor[w])
  /\ cursor' = [cursor EXCEPT ![w] = @ + 1]
  /\ tries' = [tries EXCEPT ![w] = 0]
  /\ UNCHANGED <<row, pc, batch, async, notified, faults>>

\* Mutants: one retry too many; after the last retry the next handler runs all the same.
InvokeThrowsOnceMore(w, committed) ==
  /\ Handling(w)
  /\ IF committed THEN Commit(Current(w), cursor[w]) ELSE UNCHANGED ran
  /\ IF tries[w] <= Retries
     THEN tries' = [tries EXCEPT ![w] = @ + 1] /\ UNCHANGED pc
     ELSE pc' = [pc EXCEPT ![w] = "failed"] /\ UNCHANGED tries
  /\ UNCHANGED <<row, batch, cursor, async, notified, faults>>

InvokeThrowsSwallowed(w, committed) ==
  /\ Handling(w)
  /\ IF committed THEN Commit(Current(w), cursor[w]) ELSE UNCHANGED ran
  /\ IF tries[w] < Retries
     THEN tries' = [tries EXCEPT ![w] = @ + 1] /\ UNCHANGED cursor
     ELSE tries' = [tries EXCEPT ![w] = 0] /\ cursor' = [cursor EXCEPT ![w] = @ + 1]
  /\ UNCHANGED <<row, pc, batch, async, notified, faults>>

\* committed: the handler threw after its transaction, or one of several, had committed.
InvokeThrows(w, committed) ==
  /\ Handling(w)
  /\ IF committed THEN Commit(Current(w), cursor[w]) ELSE UNCHANGED ran
  /\ IF tries[w] < Retries
     THEN tries' = [tries EXCEPT ![w] = @ + 1] /\ UNCHANGED pc
     ELSE pc' = [pc EXCEPT ![w] = "failed"] /\ UNCHANGED tries
  /\ UNCHANGED <<row, batch, cursor, async, notified, faults>>

\* Mutant: the cycle does not end with the last row.
NextRowPastEnd(w) ==
  /\ batch' = [batch EXCEPT ![w] = Tail(@)]
  /\ cursor' = [cursor EXCEPT ![w] = 1]
  /\ tries' = [tries EXCEPT ![w] = 0]
  /\ pc' = [pc EXCEPT ![w] = "dispatch"]

\* The next row of the batch, or the end of the cycle.
NextRow(w) ==
  /\ batch' = [batch EXCEPT ![w] = Tail(@)]
  /\ cursor' = [cursor EXCEPT ![w] = 1]
  /\ tries' = [tries EXCEPT ![w] = 0]
  /\ pc' = [pc EXCEPT ![w] = IF Len(batch[w]) = 1 THEN "idle" ELSE "dispatch"]

\* Mutant: the ASYNC handlers do not wait for the SYNC ones.
EnqueueAsyncEarly(w) ==
  /\ pc[w] = "dispatch"
  /\ async' = [async EXCEPT ![w] = @ \cup
                 {[claim |-> Head(batch[w]), handler |-> h, tries |-> 0] :
                    h \in 1..NumAsync[Current(w)]}]
  /\ pc' = [pc EXCEPT ![w] = "done"]
  /\ UNCHANGED <<row, batch, cursor, tries, ran, notified, faults>>

(* Every SYNC handler has returned: dispatch queues the ASYNC ones on the   *)
(* event loop and returns.                                                  *)
EnqueueAsync(w) ==
  /\ pc[w] = "dispatch"
  /\ cursor[w] > NumSync[Current(w)]
  /\ async' = [async EXCEPT ![w] = @ \cup
                 {[claim |-> Head(batch[w]), handler |-> h, tries |-> 0] :
                    h \in 1..NumAsync[Current(w)]}]
  /\ pc' = [pc EXCEPT ![w] = "done"]
  /\ UNCHANGED <<row, batch, cursor, tries, ran, notified, faults>>

\* By id alone: the row is written whatever its status and whoever claimed it since.
MarkProcessed(w) ==
  /\ pc[w] = "done"
  /\ row' = [row EXCEPT ![Current(w)].status = "PROCESSED",
                        ![Current(w)].lockedAt = "null"]
  /\ NextRow(w)
  /\ UNCHANGED <<async, ran, notified, faults>>

\* Mutant: a failed dispatch is marked like a successful one.
MarkFailedProcessed(w) ==
  /\ pc[w] = "failed"
  /\ row' = [row EXCEPT ![Current(w)].status = "PROCESSED",
                        ![Current(w)].lockedAt = "null"]
  /\ NextRow(w)
  /\ UNCHANGED <<async, ran, notified, faults>>

MarkFailed(w) ==
  /\ pc[w] = "failed"
  /\ row' = [row EXCEPT ![Current(w)].status = "FAILED",
                        ![Current(w)].lockedAt = "null"]
  /\ NextRow(w)
  /\ UNCHANGED <<async, ran, notified, faults>>

-----------------------------------------------------------------------------
(* An ASYNC call runs some time later; it is retried through the event loop *)
(* and its last error is only logged.                                       *)
InvokeAsync(w, c) ==
  /\ c \in async[w]
  /\ \/ /\ notified' = notified \cup {<<c.claim.id, c.handler>>}
        /\ async' = [async EXCEPT ![w] = @ \ {c}]
     \/ /\ c.tries < Retries
        /\ async' = [async EXCEPT ![w] = (@ \ {c}) \cup {[c EXCEPT !.tries = @ + 1]}]
        /\ UNCHANGED notified
     \/ /\ c.tries = Retries
        /\ async' = [async EXCEPT ![w] = @ \ {c}]
        /\ UNCHANGED notified
  /\ UNCHANGED <<row, pc, batch, cursor, tries, ran, faults>>

-----------------------------------------------------------------------------
(* The environment.                                                         *)
Fault == faults < FaultBudget /\ faults' = faults + 1

Holds(w, c) == \E i \in 1..Len(batch[w]) : batch[w][i] = c
Orphan(e) == \A w \in Worker : \A i \in 1..Len(batch[w]) : batch[w][i].id # e

\* Sixty seconds pass over a row that is still PROCESSING: always possible once nobody is
\* working on it, a fault (an instance too slow for its batch) while somebody is.
LockExpires(e) ==
  /\ row[e].status = "PROCESSING" /\ row[e].lockedAt = "fresh"
  /\ \/ Orphan(e) /\ UNCHANGED faults
     \/ ~Orphan(e) /\ Fault
  /\ row' = [row EXCEPT ![e].lockedAt = "stale"]
  /\ UNCHANGED <<pc, batch, cursor, tries, async, ran, notified>>

\* The error of markProcessed lands in the catch of processOutboxBatch.
MarkProcessedThrows(w) ==
  /\ Fault
  /\ pc[w] = "done"
  /\ pc' = [pc EXCEPT ![w] = "failed"]
  /\ UNCHANGED <<row, batch, cursor, tries, async, ran, notified>>

\* The process dies and starts again.  So does an error that leaves runCycle: nothing
\* awaits it.
Crash(w) ==
  /\ Fault
  /\ pc[w] # "idle" \/ async[w] # {}
  /\ pc' = [pc EXCEPT ![w] = "idle"]
  /\ batch' = [batch EXCEPT ![w] = <<>>]
  /\ cursor' = [cursor EXCEPT ![w] = 1]
  /\ tries' = [tries EXCEPT ![w] = 0]
  /\ async' = [async EXCEPT ![w] = {}]
  /\ UNCHANGED <<row, ran, notified>>

-----------------------------------------------------------------------------
Cycle(w) ==
  \/ ReleaseStuckProcessing(w)
  \/ RetryFailed(w)
  \/ ClaimPendingBatch(w)
  \/ InvokeSucceeds(w)
  \/ \E committed \in BOOLEAN : InvokeThrows(w, committed)
  \/ EnqueueAsync(w)
  \/ MarkProcessed(w)
  \/ MarkFailed(w)

Next ==
  \/ \E S \in SUBSET Event : Publish(S)
  \/ \E w \in Worker : Cycle(w)
  \/ \E w \in Worker : \E c \in async[w] : InvokeAsync(w, c)
  \/ \E e \in Event : LockExpires(e)
  \/ \E w \in Worker : MarkProcessedThrows(w)
  \/ \E w \in Worker : Crash(w)

Spec == Init /\ [][Next]_vars

(* Instances keep running (or are restarted) and their cycles go on; time   *)
(* passes.  Nothing makes a handler succeed, and nothing makes a service    *)
(* publish.                                                                 *)
Fairness ==
  /\ \A w \in Worker : WF_vars(Cycle(w))
  /\ \A e \in Event : WF_vars(Orphan(e) /\ LockExpires(e))

FairSpec == Spec /\ Fairness

-----------------------------------------------------------------------------
TypeOK ==
  /\ row \in [Event -> Row]
  /\ pc \in [Worker -> Pc]
  /\ batch \in [Worker -> Seq(Claim)]
  /\ \A w \in Worker : pc[w] \in Dispatching <=> batch[w] # <<>>
  /\ cursor \in [Worker -> 1..(MaxHandlers + 1)]
  /\ tries \in [Worker -> 0..Retries]
  /\ async \in [Worker -> SUBSET AsyncCall]
  /\ ran \in [Event -> [Handler -> Nat]]
  /\ notified \subseteq Event \X Handler
  /\ faults \in 0..FaultBudget

AllRan(e) == \A h \in 1..NumSync[e] : ran[e][h] > 0

(* An event is PROCESSED only if every SYNC handler has committed its effect *)
(* at least once, although markProcessed writes the row unconditionally and  *)
(* a slow instance may write it long after its lock was released.            *)
ProcessedWasHandled == \A e \in Event : row[e].status = "PROCESSED" => AllRan(e)

(* A handler has run on an event only after every handler of lower priority  *)
(* number has: inventory before orders and accounting before crm, in every   *)
(* delivery and across redeliveries.                                         *)
PriorityOrder ==
  \A e \in Event : \A h \in Handler : ran[e][h] > 0 => \A g \in 1..(h - 1) : ran[e][g] > 0

(* An ASYNC handler (the e-mails and Telegram messages) never tells of an    *)
(* event that some SYNC handler has not yet handled.                         *)
NotifiedAfterHandled == \A n \in notified : AllRan(n[1])

(* FOR UPDATE SKIP LOCKED and the attempts column: one claim of a row is     *)
(* worked on by one instance only, even when a stuck row was released and    *)
(* claimed again while its first instance is still dispatching it.           *)
ClaimExclusive ==
  \A v, w \in Worker : v # w =>
    \A i \in 1..Len(batch[v]), j \in 1..Len(batch[w]) : batch[v][i] # batch[w][j]

(* MAX_EVENT_ATTEMPTS bounds the retries of retryFailed; releaseStuck-       *)
(* Processing does not look at it, so each death or expired lock may add one *)
(* claim, and nothing else does.                                             *)
AttemptsBounded == \A e \in Event : row[e].attempts <= MaxAttempts + faults

Dead(e) == row[e].status = "FAILED" /\ row[e].attempts >= MaxAttempts

(* A dead letter is never delivered again; only an instance that still held  *)
(* it and now finishes can mark it PROCESSED.                                *)
DeadLetterStays ==
  [][\A e \in Event : Dead(e) => Dead(e)' \/ row'[e].status = "PROCESSED"]_vars

(* Every published event ends PROCESSED or as a dead letter and stays so,    *)
(* whatever dies on the way.                                                 *)
EventuallySettled ==
  \A e \in Event : <>[](row[e].status \in {"NONE", "PROCESSED"} \/ Dead(e))
=============================================================================
