-------------------------------- MODULE Barcodes --------------------------------
(***************************************************************************)
(* Barcodes of products, stock items and units: the barcode operations of   *)
(* InventoryAdminService and InventoryReadService, and                      *)
(* BarcodeRegistryService (modules/inventory).                              *)
(*                                                                          *)
(* A code has one row, whoever owns it.  Registering, replacing, activating *)
(* and updating are sequences of steps, each its own transaction; a call    *)
(* holds the steps it has still to do.  Setting the primary barcode and     *)
(* deactivating are one step.                                               *)
(***************************************************************************)
EXTENDS Integers, Sequences, FiniteSets

CONSTANTS
  Label,           \* rows of barcode_registry: bound on their creation
  ScanCode,        \* normalized codes
  LabelOwner,
  Single,          \* owners that name a stock item which does not allow several active barcodes
  LabelClerk       \* calls in flight

ASSUME BarcodesAssumption == Single \subseteq LabelOwner /\ "none" \notin LabelOwner

VARIABLES
  label,       \* label[r]: code, owner, is_active and is_primary of the row
  labelCall,   \* the steps each call has still to do
  mixed        \* history: owners whose calls overlapped or broke off, or whose rows another
               \* owner's registration or a reactivation without a check took

labelVars == <<label, labelCall, mixed>>

NoLabel == [owner |-> "none"]
LabelRow == [owner : LabelOwner, code : ScanCode, active : BOOLEAN, primary : BOOLEAN]
LabelStep ==
  [do : {"check"}, owner : LabelOwner, except : SUBSET Label]
  \cup [do : {"register"}, owner : LabelOwner, code : ScanCode, primary : BOOLEAN]
  \cup [do : {"promote", "demote"}, owner : LabelOwner, row : Label]
  \cup [do : {"wake"}, owner : LabelOwner, row : Label]
  \cup [do : {"write"}, owner : LabelOwner, row : Label, code : ScanCode, primary : BOOLEAN]

BarcodesTypeOK ==
  /\ label \in [Label -> {NoLabel} \cup LabelRow]
  /\ labelCall \in [LabelClerk -> Seq(LabelStep)]
  /\ mixed \subseteq LabelOwner

BarcodesInit ==
  /\ label = [r \in Label |-> NoLabel]
  /\ labelCall = [w \in LabelClerk |-> <<>>]
  /\ mixed = {}

-----------------------------------------------------------------------------
Known(r) == label[r] # NoLabel
Owned(o) == {r \in Label : label[r].owner = o}
Active(o) == {r \in Owned(o) : label[r].active}
Primary(o) == {r \in Owned(o) : label[r].primary}
WithCode(c) == {r \in Label : Known(r) /\ label[r].code = c}

InCall(o) == \E w \in LabelClerk : \E i \in DOMAIN labelCall[w] : labelCall[w][i].owner = o

\* A call on the rows of o that starts now.
Mixing(o) == IF InCall(o) THEN mixed \cup {o} ELSE mixed

Begin(w, o, steps) ==
  /\ labelCall[w] = <<>>
  /\ labelCall' = [labelCall EXCEPT ![w] = steps]
  /\ mixed' = Mixing(o)

Check(o, except) == [do |-> "check", owner |-> o, except |-> except]
Enter(o, c, primary) == [do |-> "register", owner |-> o, code |-> c, primary |-> primary]

RegisterBarcode(w, o, c, primary) ==
  /\ Begin(w, o, <<Check(o, {}), Enter(o, c, primary)>>)
  /\ UNCHANGED label

\* deactivateBarcode, then registerBarcode with the owner of the old one
ReplaceBarcode(w, r, c, primary) ==
  /\ Known(r)
  /\ label' = [label EXCEPT ![r].active = FALSE, ![r].primary = FALSE]
  /\ Begin(w, label[r].owner, <<Check(label[r].owner, {}), Enter(label[r].owner, c, primary)>>)

ActivateBarcode(w, r) ==
  LET o == label[r].owner IN
  /\ Known(r)
  /\ Begin(w, o, <<Check(o, {r}), [do |-> "wake", owner |-> o, row |-> r]>>)
  /\ UNCHANGED label

\* InventoryReadService.updateBarcode
UpdateBarcode(w, r, c, primary) ==
  LET o == label[r].owner IN
  /\ Known(r)
  /\ WithCode(c) \subseteq {r}
  /\ Begin(w, o, (IF primary THEN <<[do |-> "demote", owner |-> o, row |-> r]>> ELSE <<>>)
       \o <<[do |-> "write", owner |-> o, row |-> r, code |-> c, primary |-> primary]>>)
  /\ UNCHANGED label

\* An inactive row wakes up without assertBarcodeMultiplicity.
Unchecked(r) ==
  LET o == label[r].owner IN
  IF ~label[r].active /\ Active(o) # {} THEN Mixing(o) \cup {o} ELSE Mixing(o)

\* InventoryReadService.activateBarcode
ActivateUnchecked(r) ==
  /\ Known(r)
  /\ label' = [label EXCEPT ![r].active = TRUE]
  /\ mixed' = Unchecked(r)
  /\ UNCHANGED labelCall

Promoted(o, r) ==
  [q \in Label |->
    IF q = r THEN [label[q] EXCEPT !.active = TRUE, !.primary = TRUE]
    ELSE IF q \in Owned(o) THEN [label[q] EXCEPT !.primary = FALSE] ELSE label[q]]

SetPrimaryBarcode(r) ==
  /\ Known(r)
  /\ label' = Promoted(label[r].owner, r)
  /\ mixed' = Unchecked(r)
  /\ UNCHANGED labelCall

DeactivateBarcode(r) ==
  /\ Known(r)
  /\ label' = [label EXCEPT ![r].active = FALSE, ![r].primary = FALSE]
  /\ mixed' = Mixing(label[r].owner)
  /\ UNCHANGED labelCall

-----------------------------------------------------------------------------
(* The steps of the calls.                                                  *)

Next1(w, do) == labelCall[w] # <<>> /\ Head(labelCall[w]).do = do
Continue(w) == labelCall' = [labelCall EXCEPT ![w] = Tail(@)]

\* Mutant: assertBarcodeMultiplicity looks for primary barcodes only.
FreePrimary(o, except) == o \in Single => Primary(o) \subseteq except

Free(o, except) == o \in Single => Active(o) \subseteq except

CheckMultiplicity(w) ==
  LET step == Head(labelCall[w]) IN
  /\ Next1(w, "check")
  /\ Free(step.owner, step.except)
  /\ Continue(w)
  /\ UNCHANGED <<label, mixed>>

\* BarcodeRegistryService.register answers the row of a known code, whoever owns it, and
\* registerBarcode promotes that row among the rows of the owner it was called with.
RegisterCode(w) ==
  LET step == Head(labelCall[w])
      o == step.owner
      promote(r) == IF step.primary THEN <<[do |-> "promote", owner |-> o, row |-> r]>> ELSE <<>> IN
  /\ Next1(w, "register")
  /\ \/ \E r \in WithCode(step.code) :
          /\ labelCall' = [labelCall EXCEPT ![w] = promote(r)]
          /\ mixed' = mixed \cup {o, label[r].owner}
          /\ UNCHANGED label
     \/ \E r \in Label :
          /\ WithCode(step.code) = {} /\ ~Known(r)
          /\ label' = [label EXCEPT ![r] =
               [owner |-> o, code |-> step.code, active |-> TRUE, primary |-> step.primary]]
          /\ labelCall' = [labelCall EXCEPT ![w] = promote(r)]
          /\ UNCHANGED mixed

PromoteRow(w) ==
  LET step == Head(labelCall[w]) IN
  /\ Next1(w, "promote")
  /\ label' = Promoted(step.owner, step.row)
  /\ Continue(w)
  /\ UNCHANGED mixed

DemoteOthers(w) ==
  LET step == Head(labelCall[w]) IN
  /\ Next1(w, "demote")
  /\ label' = [q \in Label |-> IF q \in Owned(step.owner) \ {step.row}
                               THEN [label[q] EXCEPT !.primary = FALSE] ELSE label[q]]
  /\ Continue(w)
  /\ UNCHANGED mixed

WakeRow(w) ==
  /\ Next1(w, "wake")
  /\ label' = [label EXCEPT ![Head(labelCall[w]).row].active = TRUE]
  /\ Continue(w)
  /\ UNCHANGED mixed

\* The unique key of the code refuses the write.
WriteLabel(w) ==
  LET step == Head(labelCall[w]) IN
  /\ Next1(w, "write")
  /\ WithCode(step.code) \subseteq {step.row}
  /\ \E primary \in {step.primary, step.primary \/ label[step.row].primary} :   \* false or not given
       label' = [label EXCEPT ![step.row].code = step.code, ![step.row].primary = primary]
  /\ Continue(w)
  /\ UNCHANGED mixed

\* A refusal or a crash: what has been written stays.
BreakCall(w) ==
  /\ labelCall[w] # <<>>
  /\ labelCall' = [labelCall EXCEPT ![w] = <<>>]
  /\ mixed' = IF Next1(w, "check") \/ Next1(w, "register") THEN mixed
              ELSE mixed \cup {Head(labelCall[w]).owner}
  /\ UNCHANGED label

BarcodesNext ==
  \/ \E w \in LabelClerk, o \in LabelOwner, c \in ScanCode, primary \in BOOLEAN :
       RegisterBarcode(w, o, c, primary)
  \/ \E w \in LabelClerk, r \in Label, c \in ScanCode, primary \in BOOLEAN :
       ReplaceBarcode(w, r, c, primary) \/ UpdateBarcode(w, r, c, primary)
  \/ \E w \in LabelClerk, r \in Label : ActivateBarcode(w, r)
  \/ \E r \in Label : ActivateUnchecked(r) \/ SetPrimaryBarcode(r) \/ DeactivateBarcode(r)
  \/ \E w \in LabelClerk :
       \/ CheckMultiplicity(w) \/ RegisterCode(w) \/ PromoteRow(w) \/ DemoteOthers(w)
       \/ WakeRow(w) \/ WriteLabel(w) \/ BreakCall(w)

BarcodesSpec == BarcodesInit /\ [][BarcodesNext]_labelVars

-----------------------------------------------------------------------------
(* A code has one row.  An owner has one primary barcode at most, and one    *)
(* active barcode at most where several are not allowed ('Multiple active    *)
(* barcodes are disabled for the resolved stock item'), as long as its calls *)
(* do not overlap or break off, no registration names a code that is known,  *)
(* and nothing reactivates a barcode unchecked (InventoryReadService and     *)
(* setPrimaryBarcode do).  Between the two steps of a registration the old   *)
(* primary is still there.                                                   *)
LabelsAreClear ==
  /\ BarcodesTypeOK
  /\ \A c \in ScanCode : Cardinality(WithCode(c)) <= 1
  /\ \A o \in LabelOwner \ mixed :
       /\ ~InCall(o) => Cardinality(Primary(o)) <= 1
       /\ o \in Single => Cardinality(Active(o)) <= 1

=============================================================================
