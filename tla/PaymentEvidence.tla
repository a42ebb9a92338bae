----------------------------- MODULE PaymentEvidence -----------------------------
(***************************************************************************)
(* What the store's payments are confirmed by: payment proofs that staff    *)
(* approve or reject (PaymentProofsService), hosted sessions of a payment   *)
(* provider (PaymentProviderSessionsService), reached through               *)
(* StorePaymentsService, and the QR image customers pay to                  *)
(* (MerchantPaymentConfigurationsService).                                  *)
(*                                                                          *)
(* One order with its payments.  Approving a proof is three transactions:   *)
(* the proof is read, PaymentsService.recordPayment makes the payment a     *)
(* success, and the proof is marked.  Confirming a session marks it in the  *)
(* first of two.  OrderPayments has recordPayment in full; here it either   *)
(* makes the payment a success or throws.                                   *)
(***************************************************************************)
EXTENDS Integers, FiniteSets

CONSTANTS
  Payable,       \* payments of the order
  Proof,         \* rows of payment_proofs
  Hosted,        \* rows of payment_provider_sessions
  QrObject,      \* objects a QR image is stored under
  Desk,          \* requests in flight
  NoObject

ASSUME PaymentEvidenceAssumption == NoObject \notin QrObject

VARIABLES
  orderOpen,     \* the order is PENDING; otherwise it is PAID, or closed
  payable,       \* payable[p]: payments.status; "NONE" before the row exists
  proof,         \* proof[x]: the proof of a payment
  hosted,        \* hosted[s]: the session of a payment, with its callback data
  qrImage,       \* the object the merchant configuration names
  stored,        \* objects in the bucket
  desk,          \* desk[d]: what request d has read
  unsettled,     \* history: sessions confirmed by a request that did not finish
  told,          \* history: told[s] are the callbacks session s was sent
  mixed          \* history: sessions two callbacks were handled for at once

evidenceVars == <<orderOpen, payable, proof, hosted, qrImage, stored, desk, unsettled, told, mixed>>

NoProof == [status |-> "none"]
NoSession == [status |-> "none"]
AtRest == [stage |-> "none"]
Callback == {"return", "webhook"}

EvidenceTypeOK ==
  /\ orderOpen \in BOOLEAN
  /\ payable \in [Payable -> {"NONE", "PENDING", "AWAITING_VERIFICATION", "SUCCESS", "FAILED"}]
  /\ proof \in [Proof -> {NoProof}
       \cup [status : {"PENDING", "APPROVED", "REJECTED"}, of : Payable]]
  /\ hosted \in [Hosted -> {NoSession}
       \cup [status : {"PENDING", "CONFIRMED"}, of : Payable, data : SUBSET Callback]]
  /\ qrImage \in QrObject \cup {NoObject}
  /\ stored \subseteq QrObject
  /\ desk \in [Desk -> {AtRest}
       \cup [stage : {"upload", "session"}, of : Payable]
       \cup [stage : {"finalize", "mark"}, proof : Proof]
       \cup [stage : {"settle"}, session : Hosted]
       \cup [stage : {"callback"}, session : Hosted, data : SUBSET Callback, kind : Callback]
       \cup [stage : {"image"}, old : QrObject \cup {NoObject}, new : QrObject]
       \cup [stage : {"cleanup"}, old : QrObject \cup {NoObject}]]
  /\ unsettled \subseteq Hosted /\ mixed \subseteq Hosted
  /\ told \in [Hosted -> SUBSET Callback]

EvidenceInit ==
  /\ orderOpen = TRUE
  /\ payable = [p \in Payable |-> "NONE"]
  /\ proof = [x \in Proof |-> NoProof]
  /\ hosted = [s \in Hosted |-> NoSession]
  /\ qrImage = NoObject /\ stored = {}
  /\ desk = [d \in Desk |-> AtRest]
  /\ unsettled = {} /\ mixed = {}
  /\ told = [s \in Hosted |-> {}]

Take(d, record) == desk[d] = AtRest /\ desk' = [desk EXCEPT ![d] = record]
GoesOn(d, record) == desk' = [desk EXCEPT ![d] = record]

-----------------------------------------------------------------------------
(* The payments, as the checkout and other clients leave them.              *)
CreatePayable(p, status) ==
  /\ orderOpen /\ payable[p] = "NONE"
  /\ payable' = [payable EXCEPT ![p] = status]
  /\ UNCHANGED <<orderOpen, proof, hosted, qrImage, stored, desk, unsettled, told, mixed>>

FailPayable(p) ==
  /\ payable[p] \in {"PENDING", "AWAITING_VERIFICATION"}
  /\ payable' = [payable EXCEPT ![p] = "FAILED"]
  /\ UNCHANGED <<orderOpen, proof, hosted, qrImage, stored, desk, unsettled, told, mixed>>

CloseOrder ==
  /\ orderOpen
  /\ orderOpen' = FALSE
  /\ UNCHANGED <<payable, proof, hosted, qrImage, stored, desk, unsettled, told, mixed>>

\* recordPayment with status SUCCESS: a payment that failed stays failed.
Recordable(p) ==
  payable[p] = "SUCCESS" \/ (orderOpen /\ payable[p] \in {"PENDING", "AWAITING_VERIFICATION"})

RecordSuccess(p) == Recordable(p) /\ payable' = [payable EXCEPT ![p] = "SUCCESS"]

-----------------------------------------------------------------------------
(* Proofs.                                                                  *)
\* uploadProofForOrder reads the payment and stores the file,
UploadReads(d, p) ==
  /\ payable[p] \notin {"NONE", "SUCCESS"}
  /\ Take(d, [stage |-> "upload", of |-> p])
  /\ UNCHANGED <<orderOpen, payable, proof, hosted, qrImage, stored, unsettled, told, mixed>>

\* and then writes the row.
UploadWrites(d, x) ==
  /\ desk[d].stage = "upload" /\ proof[x] = NoProof
  /\ proof' = [proof EXCEPT ![x] = [status |-> "PENDING", of |-> desk[d].of]]
  /\ GoesOn(d, AtRest)
  /\ UNCHANGED <<orderOpen, payable, hosted, qrImage, stored, unsettled, told, mixed>>

\* approveProof, its first transaction
ApproveReads(d, x) ==
  /\ proof[x].status = "PENDING"
  /\ Take(d, [stage |-> IF payable[proof[x].of] = "SUCCESS" THEN "mark" ELSE "finalize",
              proof |-> x])
  /\ UNCHANGED <<orderOpen, payable, proof, hosted, qrImage, stored, unsettled, told, mixed>>

\* Mutant: a payment that cannot be recorded is passed over.
RecordIfPossible(p) == IF Recordable(p) THEN RecordSuccess(p) ELSE UNCHANGED payable

Finalize(p) == RecordSuccess(p)

ApproveRecords(d) ==
  /\ desk[d].stage = "finalize"
  /\ Finalize(proof[desk[d].proof].of)
  /\ GoesOn(d, [stage |-> "mark", proof |-> desk[d].proof])
  /\ UNCHANGED <<orderOpen, proof, hosted, qrImage, stored, unsettled, told, mixed>>

\* its last one, which throws for a proof that was rejected meanwhile
ApproveMarks(d) ==
  LET x == desk[d].proof IN
  /\ desk[d].stage = "mark"
  /\ proof[x].status # "REJECTED"
  /\ proof' = [proof EXCEPT ![x].status = "APPROVED"]
  /\ GoesOn(d, AtRest)
  /\ UNCHANGED <<orderOpen, payable, hosted, qrImage, stored, unsettled, told, mixed>>

RejectProof(x) ==
  /\ proof[x].status = "PENDING"
  /\ proof' = [proof EXCEPT ![x].status = "REJECTED"]
  /\ UNCHANGED <<orderOpen, payable, hosted, qrImage, stored, desk, unsettled, told, mixed>>

-----------------------------------------------------------------------------
(* Sessions.                                                                *)
\* createLinePaySession reads the payment and asks the provider,
SessionReads(d, p) ==
  /\ payable[p] \notin {"NONE", "SUCCESS"}
  /\ Take(d, [stage |-> "session", of |-> p])
  /\ UNCHANGED <<orderOpen, payable, proof, hosted, qrImage, stored, unsettled, told, mixed>>

SessionWrites(d, s) ==
  /\ desk[d].stage = "session" /\ hosted[s] = NoSession
  /\ hosted' = [hosted EXCEPT ![s] = [status |-> "PENDING", of |-> desk[d].of, data |-> {}]]
  /\ GoesOn(d, AtRest)
  /\ UNCHANGED <<orderOpen, payable, proof, qrImage, stored, unsettled, told, mixed>>

\* confirmLinePaySession marks the session; a CONFIRMED one is only answered.
ConfirmMarks(d, s) ==
  /\ hosted[s].status = "PENDING"
  /\ hosted' = [hosted EXCEPT ![s].status = "CONFIRMED"]
  /\ IF payable[hosted[s].of] = "SUCCESS" THEN desk[d] = AtRest /\ UNCHANGED desk
     ELSE Take(d, [stage |-> "settle", session |-> s])
  /\ UNCHANGED <<orderOpen, payable, proof, qrImage, stored, unsettled, told, mixed>>

ConfirmRecords(d) ==
  /\ desk[d].stage = "settle"
  /\ RecordSuccess(hosted[desk[d].session].of)
  /\ GoesOn(d, AtRest)
  /\ UNCHANGED <<orderOpen, proof, hosted, qrImage, stored, unsettled, told, mixed>>

\* handleLinePayReturnCallback and handleLinePayWebhook read the callback data,
CallbackReads(d, s, kind) ==
  /\ hosted[s] # NoSession
  /\ Take(d, [stage |-> "callback", session |-> s, data |-> hosted[s].data, kind |-> kind])
  /\ mixed' = IF \E e \in Desk : desk[e].stage = "callback" /\ desk[e].session = s
              THEN mixed \cup {s} ELSE mixed
  /\ UNCHANGED <<orderOpen, payable, proof, hosted, qrImage, stored, unsettled, told>>

\* Mutant: the data is replaced.
OnlyThis(data, kind) == {kind}

WithCallback(data, kind) == data \cup {kind}

\* and write them with their own.
CallbackWrites(d) ==
  LET s == desk[d].session IN
  /\ desk[d].stage = "callback"
  /\ hosted' = [hosted EXCEPT ![s].data = WithCallback(desk[d].data, desk[d].kind)]
  /\ told' = [told EXCEPT ![s] = @ \cup {desk[d].kind}]
  /\ GoesOn(d, AtRest)
  /\ UNCHANGED <<orderOpen, payable, proof, qrImage, stored, unsettled, mixed>>

-----------------------------------------------------------------------------
(* The QR image.                                                            *)
\* A random name: that of no object anyone still knows
Fresh(object) ==
  /\ object \notin stored \cup {qrImage}
  /\ \A e \in Desk : desk[e].stage \in {"image", "cleanup"} => desk[e].old # object

\* create and update store the new object under such a name and read the row,
ImageStores(d, object) ==
  /\ Fresh(object)
  /\ Take(d, [stage |-> "image", old |-> qrImage, new |-> object])
  /\ stored' = stored \cup {object}
  /\ UNCHANGED <<orderOpen, payable, proof, hosted, qrImage, unsettled, told, mixed>>

ImageNamed(d) ==
  /\ desk[d].stage = "image"
  /\ qrImage' = desk[d].new
  /\ GoesOn(d, [stage |-> "cleanup", old |-> desk[d].old])
  /\ UNCHANGED <<orderOpen, payable, proof, hosted, stored, unsettled, told, mixed>>

\* Mutant: the object the row names is deleted.
NamedNow(d) == qrImage

ToDelete(d) == desk[d].old

\* and delete the object that was named before, if the bucket lets them.
ImageDeletes(d) ==
  /\ desk[d].stage = "cleanup"
  /\ stored' = stored \ {ToDelete(d)}
  /\ GoesOn(d, AtRest)
  /\ UNCHANGED <<orderOpen, payable, proof, hosted, qrImage, unsettled, told, mixed>>

\* A request throws where it is, or its process dies.
DeskEnds(d) ==
  /\ desk[d] # AtRest
  /\ unsettled' = IF desk[d].stage = "settle" THEN unsettled \cup {desk[d].session} ELSE unsettled
  /\ GoesOn(d, AtRest)
  /\ UNCHANGED <<orderOpen, payable, proof, hosted, qrImage, stored, told, mixed>>

EvidenceNext ==
  \/ \E p \in Payable, status \in {"PENDING", "AWAITING_VERIFICATION"} : CreatePayable(p, status)
  \/ \E p \in Payable : FailPayable(p)
  \/ CloseOrder
  \/ \E d \in Desk, p \in Payable : UploadReads(d, p) \/ SessionReads(d, p)
  \/ \E d \in Desk, x \in Proof : UploadWrites(d, x) \/ ApproveReads(d, x)
  \/ \E x \in Proof : RejectProof(x)
  \/ \E d \in Desk, s \in Hosted :
       \/ SessionWrites(d, s) \/ ConfirmMarks(d, s)
       \/ \E kind \in Callback : CallbackReads(d, s, kind)
  \/ \E d \in Desk, object \in QrObject : ImageStores(d, object)
  \/ \E d \in Desk :
       \/ ApproveRecords(d) \/ ApproveMarks(d) \/ ConfirmRecords(d) \/ CallbackWrites(d)
       \/ ImageNamed(d) \/ ImageDeletes(d) \/ DeskEnds(d)

EvidenceSpec == EvidenceInit /\ [][EvidenceNext]_evidenceVars

-----------------------------------------------------------------------------
(* Whatever reviewers, callbacks and other payments do meanwhile: a proof is *)
(* approved only for a payment that succeeded; and a session is confirmed    *)
(* only for one that did or is about to, unless the confirming request       *)
(* stopped in between, which nothing repeats.                                *)
EvidenceMeansPaid ==
  /\ \A x \in Proof : proof[x].status = "APPROVED" => payable[proof[x].of] = "SUCCESS"
  /\ \A s \in Hosted : hosted[s].status = "CONFIRMED" =>
       \/ payable[hosted[s].of] = "SUCCESS"
       \/ s \in unsettled
       \/ \E d \in Desk : desk[d].stage = "settle" /\ desk[d].session = s

(* The image customers are shown exists, however its updates overlap; and a  *)
(* session keeps every callback it was sent, unless two were handled at once. *)
EvidenceIsKept ==
  /\ qrImage # NoObject => qrImage \in stored
  /\ \A s \in Hosted \ mixed : hosted[s] # NoSession => hosted[s].data = told[s]

\* What PaymentEvidence is about: evidence that was accepted stands for a payment,
\* and nothing that was handed in or is shown gets lost, all within their types.
EvidenceIsTrue == EvidenceTypeOK /\ EvidenceMeansPaid /\ EvidenceIsKept
=============================================================================
