----------------------------- MODULE Notifications ------------------------------
(***************************************************************************)
(* What customers and their records are told: the timeline of               *)
(* CrmOrderEventsHandler and CustomerActivitiesService, the e-mails that    *)
(* StorefrontEmailEventsHandler queues and EmailService sends, and the      *)
(* messages of StorefrontTelegramEventsHandler.                             *)
(*                                                                          *)
(* The outbox delivers a fact to each handler at least once, and again      *)
(* after a failure or a crash.  The timeline has a unique key; the queue of *)
(* e-mails has none; TelegramService swallows every error.                  *)
(***************************************************************************)
EXTENDS Integers, FiniteSets

CONSTANTS
  Fact,        \* orders created and payments that succeeded or were refunded
  Mailed,      \* facts of online orders with a recipient, refunds excepted
  Mail,        \* rows of email_queue: bound on the mails that are queued
  NoticeRun,   \* runs of handlers in flight
  Processor,   \* runs of processQueue
  MaxMessages  \* bound on the chat messages of a fact

ASSUME NotificationsAssumption == Mailed \subseteq Fact /\ MaxMessages \in Nat

VARIABLES
  happened,    \* facts whose event is in the outbox
  activity,    \* facts with a row in customer_activities
  announced,   \* announced[f]: customer.activity.recorded events published for f
  mail,        \* mail[r]: the fact it is about and its status
  sent,        \* sent[r]: how often the sender delivered it
  message,     \* message[f]: chat messages sent about f
  run,         \* run[n]: what a run of recordActivity has found
  batch,       \* batch[p]: mails p found due, and the one it is sending
  returned,    \* returned[f]: handlers that returned for f
  unheard,     \* history: facts whose activity was created and not announced
  shared,      \* history: mails two runs of processQueue found
  unmarked     \* history: mails whose status SENT could not be written

noticeVars == <<happened, activity, announced, mail, sent, message, run, batch, returned,
                unheard, shared, unmarked>>

Resting == [stage |-> "none"]
NoMail == [status |-> "none"]
Handlers == {"timeline", "mail"}

NotificationsTypeOK ==
  /\ happened \subseteq Fact /\ activity \subseteq Fact
  /\ announced \in [Fact -> Nat] /\ message \in [Fact -> 0..MaxMessages]
  /\ mail \in [Mail -> {NoMail}
       \cup [status : {"PENDING", "PROCESSING", "SENT", "FAILED"}, about : Fact]]
  /\ sent \in [Mail -> Nat]
  /\ run \in [NoticeRun -> {Resting} \cup [stage : {"create", "emit"}, of : Fact]]
  /\ batch \in [Processor -> [due : SUBSET Mail, now : SUBSET Mail,
                              stage : {"idle", "send", "sent", "failed"}]]
  /\ returned \in [Fact -> SUBSET Handlers]
  /\ unheard \subseteq Fact /\ shared \subseteq Mail /\ unmarked \subseteq Mail

NotificationsInit ==
  /\ happened = {} /\ activity = {}
  /\ announced = [f \in Fact |-> 0] /\ message = [f \in Fact |-> 0]
  /\ mail = [r \in Mail |-> NoMail] /\ sent = [r \in Mail |-> 0]
  /\ run = [n \in NoticeRun |-> Resting]
  /\ batch = [p \in Processor |-> [due |-> {}, now |-> {}, stage |-> "idle"]]
  /\ returned = [f \in Fact |-> {}]
  /\ unheard = {} /\ shared = {} /\ unmarked = {}

Happen(f) ==
  /\ f \notin happened
  /\ happened' = happened \cup {f}
  /\ UNCHANGED <<activity, announced, mail, sent, message, run, batch, returned,
                 unheard, shared, unmarked>>

Returns(f, h) == returned' = [returned EXCEPT ![f] = @ \cup {h}]

-----------------------------------------------------------------------------
(* The timeline.                                                            *)

\* recordActivity looks for the key first; a row that is found ends the run.
ActivityReads(n, f) ==
  /\ run[n] = Resting /\ f \in happened
  /\ IF f \in activity
     THEN Returns(f, "timeline") /\ UNCHANGED run
     ELSE run' = [run EXCEPT ![n] = [stage |-> "create", of |-> f]] /\ UNCHANGED returned
  /\ UNCHANGED <<happened, activity, announced, mail, sent, message, batch,
                 unheard, shared, unmarked>>

\* Refused by the unique key, the run returns the row that is there.
Refused(f) == f \in activity

ActivityCreates(n) ==
  /\ run[n].stage = "create"
  /\ LET f == run[n].of IN
     IF Refused(f)
     THEN run' = [run EXCEPT ![n] = Resting] /\ Returns(f, "timeline") /\ UNCHANGED activity
     ELSE /\ run' = [run EXCEPT ![n].stage = "emit"] /\ UNCHANGED returned
          /\ activity' = activity \cup {f}
  /\ UNCHANGED <<happened, announced, mail, sent, message, batch, unheard, shared, unmarked>>

ActivityEmits(n) ==
  /\ run[n].stage = "emit"
  /\ announced' = [announced EXCEPT ![run[n].of] = @ + 1]
  /\ Returns(run[n].of, "timeline")
  /\ run' = [run EXCEPT ![n] = Resting]
  /\ UNCHANGED <<happened, activity, mail, sent, message, batch, unheard, shared, unmarked>>

\* A statement fails, or the process dies: the fact will be delivered again,
\* but an activity that exists is not announced any more.
ActivityFails(n) ==
  /\ run[n] # Resting
  /\ unheard' = IF run[n].stage = "emit" THEN unheard \cup {run[n].of} ELSE unheard
  /\ run' = [run EXCEPT ![n] = Resting]
  /\ UNCHANGED <<happened, activity, announced, mail, sent, message, batch, returned,
                 shared, unmarked>>

-----------------------------------------------------------------------------
(* E-mail and chat.                                                         *)

\* One more row for every delivery of the fact.
QueueMail(f, r) ==
  /\ f \in happened /\ mail[r] = NoMail
  /\ f \in Mailed
  /\ mail' = [mail EXCEPT ![r] = [status |-> "PENDING", about |-> f]]
  /\ \/ Returns(f, "mail")
     \/ UNCHANGED returned   \* the delivery is not recorded and comes again
  /\ UNCHANGED <<happened, activity, announced, sent, message, run, batch,
                 unheard, shared, unmarked>>

NothingToMail(f) ==
  /\ f \in happened \ Mailed /\ Returns(f, "mail")
  /\ UNCHANGED <<happened, activity, announced, mail, sent, message, run, batch,
                 unheard, shared, unmarked>>

\* sendMessage returns whether the message went out or not.
SendMessage(f) ==
  /\ f \in happened
  /\ message[f] < MaxMessages
  /\ message' = [message EXCEPT ![f] = @ + 1] \/ UNCHANGED message
  /\ UNCHANGED <<happened, activity, announced, mail, sent, run, batch, returned,
                 unheard, shared, unmarked>>

\* processQueue: the mails found due, then for each PROCESSING, send, SENT.
Due == {r \in Mail : mail[r].status = "PENDING"}

FindDue(p) ==
  /\ batch[p].due = {} /\ batch[p].stage = "idle" /\ Due # {}
  /\ batch' = [batch EXCEPT ![p].due = Due]
  /\ shared' = shared \cup {r \in Due : \E q \in Processor \ {p} : r \in batch[q].due}
  /\ UNCHANGED <<happened, activity, announced, mail, sent, message, run, returned,
                 unheard, unmarked>>

Marked(r, s) == mail' = [mail EXCEPT ![r].status = s]

StartMail(p, r) ==
  /\ batch[p].stage = "idle" /\ r \in batch[p].due
  /\ Marked(r, "PROCESSING")
  /\ batch' = [batch EXCEPT ![p] = [due |-> @.due \ {r}, now |-> {r}, stage |-> "send"]]
  /\ UNCHANGED <<happened, activity, announced, sent, message, run, returned,
                 unheard, shared, unmarked>>

SendMail(p) ==
  /\ batch[p].stage = "send"
  /\ \/ /\ sent' = [r \in Mail |-> IF r \in batch[p].now THEN sent[r] + 1 ELSE sent[r]]
        /\ batch' = [batch EXCEPT ![p].stage = "sent"]
     \/ batch' = [batch EXCEPT ![p].stage = "failed"] /\ UNCHANGED sent
  /\ UNCHANGED <<happened, activity, announced, mail, message, run, returned,
                 unheard, shared, unmarked>>

\* Mutant: the result of the sender is not looked at.
AlwaysSent(stage) == "SENT"

\* The status SENT may fail to be written; the mail then counts as failed.
Outcome(stage) == IF stage = "sent" THEN "SENT" ELSE "FAILED"

MarkMail(p) ==
  /\ batch[p].stage \in {"sent", "failed"}
  /\ \E r \in batch[p].now : Marked(r, Outcome(batch[p].stage))
  /\ batch' = [batch EXCEPT ![p].now = {}, ![p].stage = "idle"]
  /\ UNCHANGED <<happened, activity, announced, sent, message, run, returned,
                 unheard, shared, unmarked>>

MarkFails(p) ==
  /\ batch[p].stage = "sent"
  /\ unmarked' = unmarked \cup batch[p].now
  /\ batch' = [batch EXCEPT ![p].stage = "failed"]
  /\ UNCHANGED <<happened, activity, announced, mail, sent, message, run, returned,
                 unheard, shared>>

\* The process dies: nothing looks at a mail that is PROCESSING again.
ProcessorDies(p) ==
  /\ batch[p].due \cup batch[p].now # {}
  /\ batch' = [batch EXCEPT ![p] = [due |-> {}, now |-> {}, stage |-> "idle"]]
  /\ UNCHANGED <<happened, activity, announced, mail, sent, message, run, returned,
                 unheard, shared, unmarked>>

NotificationsNext ==
  \/ \E f \in Fact :
       \/ Happen(f) \/ NothingToMail(f) \/ SendMessage(f)
       \/ \E n \in NoticeRun : ActivityReads(n, f)
       \/ \E r \in Mail : QueueMail(f, r)
  \/ \E n \in NoticeRun : ActivityCreates(n) \/ ActivityEmits(n) \/ ActivityFails(n)
  \/ \E p \in Processor :
       \/ FindDue(p) \/ SendMail(p) \/ MarkMail(p) \/ MarkFails(p) \/ ProcessorDies(p)
       \/ \E r \in Mail : StartMail(p, r)

NotificationsSpec == NotificationsInit /\ [][NotificationsNext]_noticeVars

-----------------------------------------------------------------------------
(* Properties.                                                              *)

\* However often a fact is delivered, its activity is announced once, and not
\* at all only while a run is about to or if that run failed; a handler that
\* returned has left its row (recordActivity, queueOrderConfirmation).
ToldOnce ==
  \A f \in Fact :
    /\ announced[f] <= 1
    /\ f \in activity /\ announced[f] = 0 =>
         f \in unheard \/ \E n \in NoticeRun : run[n] = [stage |-> "emit", of |-> f]
    /\ "timeline" \in returned[f] => f \in activity
    /\ "mail" \in returned[f] /\ f \in Mailed => \E r \in Mail : mail[r] # NoMail /\ mail[r].about = f

\* A mail two runs of processQueue did not find both is sent at most once, its
\* status says SENT only if it was, and FAILED only if it was not or SENT could
\* not be written (EmailService.processQueue, findDue).
SentAsMarked ==
  \A r \in Mail \ shared :
    /\ sent[r] <= 1
    /\ mail[r].status \in {"none", "PENDING"} => sent[r] = 0
    /\ mail[r].status = "SENT" => sent[r] = 1
    /\ mail[r].status = "FAILED" => sent[r] = 0 \/ r \in unmarked

\* What Notifications is about: facts are told once, and mails are what they say.
NoticesAreTrue == NotificationsTypeOK /\ ToldOnce /\ SentAsMarked
===============================================================================
