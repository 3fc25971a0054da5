-------------------------- MODULE ConflictDetector --------------------------
(***************************************************************************)
(* crates/builder/src/conflict.rs: which operations of a bundle touch      *)
(* storage that another sender's operation writes.  For a reader the       *)
(* detector keeps only the last writer of each slot, so what it finds      *)
(* depends on how the operations before were admitted.                     *)
(***************************************************************************)
EXTENDS Integers, Sequences

CONSTANTS
  Sender,     \* senders
  Slot,        \* (contract, storage slot) pairs
  MaxAdded     \* bound: operations added between two resets

ASSUME ConflictConstants == MaxAdded \in Nat

VARIABLES
  slots,       \* StorageAccess::slots of the operation at hand
  accessed,    \* slot -> indices of the operations that access it
  written,     \* slot -> index of the last writer, or NoWriter
  senders,     \* index -> sender
  wrote,       \* history: slots the operation at hand has written
  footprints,  \* history: what every added operation read and wrote
  clean        \* history: nothing was added that had a conflict

conflict_vars == <<slots, accessed, written, senders, wrote, footprints, clean>>
detector == <<accessed, written, senders, footprints, clean>>

NoWriter == 0
NoAccess == [slot \in {} |-> "read"]
Accesses == UNION {[touched -> {"read", "write"}] : touched \in SUBSET Slot}

ConflictInit ==
  /\ slots = NoAccess
  /\ accessed = [slot \in Slot |-> <<>>]
  /\ written = [slot \in Slot |-> NoWriter]
  /\ senders = <<>> /\ footprints = <<>>
  /\ wrote = {} /\ clean = TRUE

Touch(slot, kind) ==
  slots' = [s \in DOMAIN slots \cup {slot} |-> IF s = slot THEN kind ELSE slots[s]]

\* Mutant of RecordRead: a read overwrites an earlier write.
RecordRead_Overwrites(slot) == Touch(slot, "read") /\ UNCHANGED <<wrote, detector>>

\* record_read: or_insert keeps an earlier write
RecordRead(slot) ==
  /\ Touch(slot, IF slot \in DOMAIN slots THEN slots[slot] ELSE "read")
  /\ UNCHANGED <<wrote, detector>>

RecordWrite(slot) ==
  /\ Touch(slot, "write") /\ wrote' = wrote \cup {slot}
  /\ UNCHANGED detector

\* What the operation at hand did, by the order of its accesses alone
Footprint == [slot \in DOMAIN slots |-> IF slot \in wrote THEN "write" ELSE "read"]

\* Mutant of CheckConflicts: a writer looks at the last writer only.
CheckConflicts_WritersOnly(sender, access) ==
  {i \in {written[slot] : slot \in DOMAIN access} \ {NoWriter} : senders[i] # sender}

\* check_conflicts: a write against every access, a read against the last
\* writer, of another sender
CheckConflicts(sender, access) ==
  LET writes == {slot \in DOMAIN access : access[slot] = "write"}
      against == (UNION {{accessed[slot][n] : n \in DOMAIN accessed[slot]} :
                         slot \in writes})
                   \cup ({written[slot] : slot \in DOMAIN access \ writes}
                           \ {NoWriter})
  IN  {i \in against : senders[i] # sender}

\* add_operation; slots is the next operation's afterwards
AddOperation(sender) ==
  LET idx == Len(senders) + 1
  IN  /\ idx <= MaxAdded
      /\ clean' = (clean /\ CheckConflicts(sender, slots) = {})
      /\ senders' = Append(senders, sender)
      /\ accessed' = [slot \in Slot |->
           IF slot \in DOMAIN slots THEN Append(accessed[slot], idx) ELSE accessed[slot]]
      /\ written' = [slot \in Slot |->
           IF slot \in DOMAIN slots /\ slots[slot] = "write" THEN idx ELSE written[slot]]
      /\ footprints' = Append(footprints, Footprint)
      /\ slots' = NoAccess /\ wrote' = {}

ResetDetector ==
  /\ accessed' = [slot \in Slot |-> <<>>]
  /\ written' = [slot \in Slot |-> NoWriter]
  /\ senders' = <<>> /\ footprints' = <<>> /\ clean' = TRUE
  /\ UNCHANGED <<slots, wrote>>

ConflictNext ==
  \/ \E slot \in Slot : RecordRead(slot) \/ RecordWrite(slot)
  \/ \E sender \in Sender : AddOperation(sender)
  \/ ResetDetector

ConflictSpec == ConflictInit /\ [][ConflictNext]_conflict_vars

-----------------------------------------------------------------------------
(* Properties                                                              *)

\* The maps of the detector keep their types, and every index they hold is
\* of an operation that was added since the last reset.
ConflictTypeOK ==
  /\ slots \in Accesses /\ wrote \subseteq Slot
  /\ senders \in Seq(Sender) /\ footprints \in Seq(Accesses)
  /\ Len(senders) <= MaxAdded /\ Len(footprints) = Len(senders)
  /\ accessed \in [Slot -> Seq(1..Len(senders))]
  /\ written \in [Slot -> 0..Len(senders)]
  /\ clean \in BOOLEAN

\* Two accesses that do not commute: one of them writes what both touch.
Clashes(a, b) ==
  \E slot \in DOMAIN a \cap DOMAIN b : "write" \in {a[slot], b[slot]}

RealConflicts(sender) ==
  {i \in DOMAIN senders : senders[i] # sender /\ Clashes(footprints[i], Footprint)}

\* check_conflicts reports no operation without reason: each it names is of
\* another sender and does not commute with the one at hand, whatever was
\* added before.
ReportsOnlyConflicts ==
  \A sender \in Sender :
    CheckConflicts(sender, slots) \subseteq RealConflicts(sender)

\* A reader is shown the last writer only, and a writer of its own may hide
\* another's.  That loses nothing as long as operations are added only when
\* check_conflicts found none: then each sender the operation at hand is in
\* conflict with is named by one of its operations.
FindsEveryRival ==
  clean =>
    \A sender \in Sender :
      {senders[i] : i \in RealConflicts(sender)}
        = {senders[i] : i \in CheckConflicts(sender, slots)}

\* check_conflicts names those it should, and no other.
DetectorIsExact == ReportsOnlyConflicts /\ FindsEveryRival

\* Operations of different senders that were added without conflict commute,
\* so their bundle may run in any order.
AddedCommute ==
  clean =>
    \A i, j \in DOMAIN senders :
      senders[i] # senders[j] => ~ Clashes(footprints[i], footprints[j])

=============================================================================
