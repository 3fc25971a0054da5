------------------------- MODULE BundleSenderProofs -------------------------
(***************************************************************************)
(* Theorems about BundleSender, for any bounds, any set of faults and any  *)
(* initial nonce.  SenderInv is about the state machine alone and holds    *)
(* whatever happens to the chain.  FinalInv adds what holds as long as no  *)
(* block is undone and no handleOps reverts at will: an accepted           *)
(* transaction is always the one due next, and its operations were not     *)
(* executed since its bundle was built.                                    *)
(***************************************************************************)
EXTENDS BundleSender, TLAPS

\* handle_pending enters Escalating only while an attempt is left, which is
\* what keeps record_escalation within max_attempts.
EscalationOpen ==
  state = "Escalating" => pending.escalation_count < MaxAttempts

SenderInv ==
  /\ TypeOK
  /\ PendingTracked
  /\ BundlePresent
  /\ EscalationOpen

Safe == PendingTracked /\ BundlePresent /\ EscalationOpen

\* What build_bundle_tx makes of the current bundle is a transaction of the
\* given nonce.
LEMMA BundleTxType ==
  ASSUME TypeOK, NEW nonce \in Nat, NEW bump \in 0..MaxAttempts
  PROVE  /\ BundleTx(nonce, bump) \in Tx
         /\ BundleTx(nonce, bump).nonce = nonce
BY DEF BundleTx, Tx, TypeOK

\* The fields of a recorded transaction, which is never None.
LEMMA PendingFields ==
  ASSUME NEW p \in Pending
  PROVE  /\ p # None /\ p.tx_hash \in Tx /\ p.nonce \in Nat
         /\ p.escalation_count \in 0..MaxAttempts /\ p.timed_out \in BOOLEAN
BY NoneIsNothing DEF Pending

\* A block ages what was mined before by one, up to the depth that counts.
LEMMA OlderType ==
  ASSUME NEW age \in 0..ConfirmationDepth
  PROVE  Older(age) \in 0..ConfirmationDepth
BY SenderConstants DEF Older

Mined == [tx : Tx, age : 0..ConfirmationDepth, ok : BOOLEAN]

\* The mined transactions keep their type when a block is added.
LEMMA AgedType ==
  ASSUME mined \subseteq Mined
  PROVE  Aged \subseteq Mined
<1> SUFFICES ASSUME NEW m \in mined
             PROVE  [m EXCEPT !.age = Older(@)] \in Mined
  BY DEF Aged
<1> QED
  BY OlderType DEF Mined

\* So does the distance of the bundle's block, which stays None or not None.
LEMMA BlockAgesType ==
  ASSUME TypeOK, BlockAges
  PROVE  /\ mined_block' \in (0..ConfirmationDepth) \cup {None}
         /\ mined_block' = None <=> mined_block = None
<1>1. CASE mined_block = None
  BY <1>1 DEF BlockAges
<1>2. CASE mined_block # None
  <2>1. mined_block \in 0..ConfirmationDepth
    BY <1>2 DEF TypeOK
  <2>2. mined_block' = Older(mined_block)
    BY <1>2 DEF BlockAges
  <2>3. mined_block' \in 0..ConfirmationDepth
    BY <2>1, <2>2, OlderType
  <2> QED
    BY <1>2, <2>3, NoneIsNothing
<1> QED
  BY <1>1, <1>2

\* The state after TransactionTracker::initialize.
LEMMA InitSenderInv == Init => SenderInv
<1> SUFFICES ASSUME Init PROVE SenderInv
  OBVIOUS
<1>1. TypeOK
  <2>1. awaiting \in BOOLEAN
    BY Zenon DEF Init
  <2>2. 0 \in 0..MaxVersion
    BY SenderConstants
  <2>3. /\ candidates \in [Id -> 0..MaxVersion]
        /\ pool \in [Id -> 0..MaxVersion] /\ added \in [Id -> 0..MaxVersion]
    BY <2>2, Zenon DEF Init
  <2>4. /\ state \in State
        /\ current_nonce \in Nat /\ chain_nonce \in Nat
    BY SenderConstants DEF Init, State
  <2> QED
    BY <2>1, <2>3, <2>4 DEF Init, TypeOK
<1> QED
  BY <1>1 DEF Init, SenderInv, PendingTracked, BundlePresent, EscalationOpen

\* One step of the task, the clients or the node keeps the invariant.
LEMMA StepSenderInv == SenderInv /\ [Next]_vars => SenderInv'
<1> SUFFICES ASSUME SenderInv, [Next]_vars PROVE SenderInv'
  OBVIOUS
<1> USE DEF SenderInv, TypeOK, PendingTracked, BundlePresent, EscalationOpen,
            State, Become, task, tracker, clients, node
<1>0. CASE UNCHANGED vars
  BY <1>0 DEF vars
<1>1. CASE HandleIdle
  BY <1>1 DEF HandleIdle
<1>2. CASE ProposeCandidates
  <2>1. PICK skipped \in SUBSET InPool :
          /\ candidates' = [i \in Id |-> IF i \in skipped THEN 0 ELSE pool[i]]
          /\ IF InPool = skipped
               THEN state' = "Idle" /\ awaiting' = FALSE
               ELSE state' = "Building" /\ awaiting' = TRUE
    BY <1>2 DEF ProposeCandidates
  <2>2. candidates' \in [Id -> 0..MaxVersion]
    BY <2>1, SenderConstants
  <2>3. state' \in {"Idle", "Building"} /\ awaiting' \in BOOLEAN
    BY <2>1
  <2> QED
    BY <1>2, <2>2, <2>3 DEF ProposeCandidates
<1>3. CASE BuildBundle
  <2>1. candidates' \in [Id -> 0..MaxVersion] /\ pool' \in [Id -> 0..MaxVersion]
    BY <1>3, SenderConstants DEF BuildBundle, WithoutRejected
  <2>2. current_bundle' \subseteq Id /\ current_bundle' # {}
    BY <1>3 DEF BuildBundle, Candidate, Failing
  <2> QED
    BY <1>3, <2>1, <2>2 DEF BuildBundle
<1>4. CASE BuildNothing
  <2>1. candidates' \in [Id -> 0..MaxVersion]
    BY <1>4, SenderConstants DEF BuildNothing
  <2> QED
    BY <1>4, <2>1 DEF BuildNothing
<1>5. CASE HandleSubmitting
  <2> DEFINE tx == BundleTx(current_nonce, 0)
  <2>1. tx \in Tx
    BY BundleTxType, SenderConstants
  <2>2. NewPending(tx) \in Pending
    BY <2>1, SenderConstants DEF NewPending, Pending
  <2>3. NewPending(tx) # None
    BY <2>2, PendingFields
  <2> HIDE DEF tx
  <2>4. CASE Accepted(tx) /\ pending' = NewPending(tx) /\ state' = "Pending"
    BY <1>5, <2>1, <2>2, <2>3, <2>4 DEF HandleSubmitting, Accepted
  <2>5. CASE Failed(tx) /\ UNCHANGED pending /\ state' = "Abandoned"
    BY <1>5, <2>1, <2>5 DEF HandleSubmitting, Accepted, Failed
  <2> QED
    BY <1>5, <2>4, <2>5 DEF HandleSubmitting, tx
<1>6. CASE ReceiptFound
  <2>1. pending \in Pending
    BY <1>6 DEF ReceiptFound
  <2>2. current_nonce' \in Nat
    BY <1>6, <2>1, PendingFields DEF ReceiptFound
  <2>3. mined_block' \in 0..ConfirmationDepth
    BY <1>6 DEF ReceiptFound
  <2>4. pool' \in [Id -> 0..MaxVersion]
    BY <1>6, SenderConstants DEF ReceiptFound, WithoutBundled
  <2> QED
    BY <1>6, <2>2, <2>3, <2>4, NoneIsNothing DEF ReceiptFound
<1>7. CASE NoReceipt
  BY <1>7 DEF NoReceipt
<1>8. CASE NonceConsumed
  BY <1>8 DEF NonceConsumed
<1>9. CASE StillPending
  <2>1. /\ state' \in {"Pending", "Escalating"}
        /\ state' = "Escalating" => pending.escalation_count < MaxAttempts
    BY <1>9 DEF StillPending, NeedsEscalation
  <2> QED
    BY <1>9, <2>1 DEF StillPending
<1>10. CASE CheckFailed
  BY <1>10 DEF CheckFailed
<1>11. CASE EscalationImpossible
  BY <1>11 DEF EscalationImpossible
<1>12. CASE HandleEscalating
  <2>1. pending \in Pending /\ pending.escalation_count < MaxAttempts
    BY <1>12 DEF HandleEscalating
  <2>2. /\ pending.escalation_count + 1 \in 0..MaxAttempts
        /\ EscalationNonce \in Nat
    BY <2>1, PendingFields, SenderConstants DEF EscalationNonce
  <2> DEFINE tx == BundleTx(EscalationNonce, pending.escalation_count + 1)
             bumped == [pending EXCEPT !.tx_hash = tx,
                                       !.escalation_count = @ + 1]
  <2>3. tx \in Tx
    BY <2>2, BundleTxType
  <2> HIDE DEF tx
  <2>4. bumped \in Pending
    BY <2>1, <2>2, <2>3 DEF Pending
  <2>5. bumped # None
    BY <2>4, PendingFields
  <2> HIDE DEF bumped
  <2>6. CASE Accepted(tx) /\ pending' = bumped
    BY <1>12, <2>3, <2>4, <2>5, <2>6 DEF HandleEscalating, Accepted
  <2>7. CASE Failed(tx) /\ UNCHANGED pending
    BY <1>12, <2>3, <2>7 DEF HandleEscalating, Accepted, Failed
  <2> QED
    BY <1>12, <2>6, <2>7 DEF HandleEscalating, tx, bumped
<1>13. CASE HandleConfirming
  BY <1>13 DEF HandleConfirming
<1>14. CASE ResetToIdle
  BY <1>14 DEF ResetToIdle
<1>15. CASE InitialWaitElapses
  <2>1. pending \in Pending
    BY <1>15 DEF InitialWaitElapses
  <2>2. /\ pending' \in Pending
        /\ pending'.escalation_count = pending.escalation_count
    BY <1>15, <2>1 DEF InitialWaitElapses, Pending
  <2>3. pending' # None
    BY <2>2, PendingFields
  <2> QED
    BY <1>15, <2>2, <2>3 DEF InitialWaitElapses
<1>16. CASE Restart
  <2>1. candidates' \in [Id -> 0..MaxVersion] /\ pool' \in [Id -> 0..MaxVersion]
    BY <1>16, SenderConstants DEF Restart
  <2> QED
    BY <1>16, <2>1 DEF Restart
<1>17. ASSUME NEW i \in Id, Submit(i) PROVE SenderInv'
  <2>1. added[i] + 1 \in 0..MaxVersion
    BY <1>17, SenderConstants DEF Submit
  <2>2. added' \in [Id -> 0..MaxVersion] /\ pool' \in [Id -> 0..MaxVersion]
    BY <1>17, <2>1 DEF Submit
  <2> QED
    BY <1>17, <2>2 DEF Submit
<1>18. CASE EmptyBlock
  <2>1. mined' \subseteq Mined
    BY <1>18, AgedType DEF EmptyBlock, Mined
  <2>2. /\ mined_block' \in (0..ConfirmationDepth) \cup {None}
        /\ mined_block' = None <=> mined_block = None
    BY <1>18, BlockAgesType DEF EmptyBlock
  <2> QED
    BY <1>18, <2>1, <2>2 DEF EmptyBlock, Mined
<1>19. ASSUME NEW tx \in mempool, MineTx(tx) PROVE SenderInv'
  <2>1. PICK ok \in BOOLEAN :
          /\ mined' = Aged \cup {[tx |-> tx, age |-> 0, ok |-> ok]}
          /\ executed' = IF ok THEN executed \cup tx.ops ELSE executed
    BY <1>19 DEF MineTx
  <2>2. tx \in Tx /\ tx.ops \subseteq Id
    BY DEF Tx
  <2>3. [tx |-> tx, age |-> 0, ok |-> ok] \in Mined
    BY <2>2, SenderConstants DEF Mined
  <2>4. Aged \subseteq Mined
    BY AgedType DEF Mined
  <2>5. mined' \subseteq Mined
    BY <2>1, <2>3, <2>4, Zenon
  <2>6. executed' \subseteq Id
    BY <2>1, <2>2
  <2>7. /\ mined_block' \in (0..ConfirmationDepth) \cup {None}
        /\ mined_block' = None <=> mined_block = None
    BY <1>19, BlockAgesType DEF MineTx
  <2>8. mempool' \subseteq Tx /\ chain_nonce' \in Nat
    BY <1>19 DEF MineTx
  <2> QED
    BY <1>19, <2>5, <2>6, <2>7, <2>8 DEF MineTx, Mined
<1>20. ASSUME NEW tx \in mempool, DropTx(tx) PROVE SenderInv'
  BY <1>20 DEF DropTx
<1>21. ASSUME NEW m \in mined, Reorg(m) PROVE SenderInv'
  <2>1. m.tx \in Tx /\ m.tx.nonce \in Nat
    BY DEF Tx
  <2>2. chain_nonce' \in Nat
    BY <1>21, <2>1 DEF Reorg
  <2>3. /\ mined' \subseteq mined /\ mempool' \subseteq Tx
        /\ executed' \subseteq Id
    BY <1>21, <2>1 DEF Reorg
  <2> QED
    BY <1>21, <2>2, <2>3 DEF Reorg
<1> QED
  BY <1>0, <1>1, <1>2, <1>3, <1>4, <1>5, <1>6, <1>7, <1>8, <1>9, <1>10, <1>11,
    <1>12, <1>13, <1>14, <1>15, <1>16, <1>17, <1>18, <1>19, <1>20, <1>21
  DEF Next, Task, Environment

\* The variables of the task, the tracker and the node keep their types; an
\* escalation in particular never counts past max_attempts.
THEOREM SenderTypeCorrect == Spec => []TypeOK
<1>1. SenderInv => TypeOK
  BY DEF SenderInv
<1> QED
  BY <1>1, InitSenderInv, StepSenderInv, PTL DEF Spec

\* The tracker holds a transaction exactly in Pending and Escalating, whatever
\* is lost, dropped, reorganized or restarted.
THEOREM PendingIsTracked == Spec => []PendingTracked
<1>1. SenderInv => PendingTracked
  BY DEF SenderInv
<1> QED
  BY <1>1, InitSenderInv, StepSenderInv, PTL DEF Spec

\* Every state whose handler unwraps the bundle or the mined block has one.
THEOREM BundleIsPresent == Spec => []BundlePresent
<1>1. SenderInv => BundlePresent
  BY DEF SenderInv
<1> QED
  BY <1>1, InitSenderInv, StepSenderInv, PTL DEF Spec

-----------------------------------------------------------------------------
(* While blocks are final                                                  *)

NonceBehind == current_nonce <= chain_nonce

\* The network holds nothing for a nonce it has not reached, and what is due
\* next has operations that nothing executed meanwhile.
MempoolDue ==
  \A tx \in mempool :
    /\ tx.nonce <= chain_nonce
    /\ tx.nonce = chain_nonce => tx.ops \cap executed = {}

MinedExecuted ==
  \A m \in mined : m.tx.nonce < chain_nonce /\ m.tx.ops \subseteq executed

\* A bundle is built from operations not yet executed, and as long as the
\* tracker's nonce is the chain's nothing was mined since.
BundleFresh ==
  state \in {"Submitting", "Pending", "Escalating"} /\ current_nonce = chain_nonce
    => current_bundle \cap executed = {}

RecordExact ==
  pending # None => /\ pending.nonce = current_nonce
                    /\ pending.tx_hash.nonce = pending.nonce
                    /\ pending.tx_hash.ops = current_bundle

ConfirmedOnChain ==
  state \in {"Confirming", "Confirmed"} => \E m \in mined : m.tx.ops = current_bundle

Final ==
  /\ NonceBehind /\ MempoolDue /\ MinedExecuted /\ BundleFresh
  /\ RecordExact /\ ConfirmedOnChain

FinalInv == SenderInv /\ (~undone => Final)

\* Accepting a transaction of the current bundle at a nonce that does not
\* run ahead: it can only be the one that is due.
LEMMA AcceptedIsDue ==
  ASSUME TypeOK, Final, NEW nonce \in Nat, NEW bump \in 0..MaxAttempts,
         nonce <= current_nonce, Accepted(BundleTx(nonce, bump)),
         state \in {"Submitting", "Pending", "Escalating"}
  PROVE  /\ nonce = current_nonce /\ current_nonce = chain_nonce
         /\ \A tx \in mempool' :
              /\ tx.nonce <= chain_nonce
              /\ tx.nonce = chain_nonce => tx.ops \cap executed = {}
<1> DEFINE new == BundleTx(nonce, bump)
<1>1. new.nonce = nonce /\ new.ops = current_bundle
  BY DEF BundleTx
<1>2. nonce >= chain_nonce /\ mempool' = mempool \cup {new}
  BY <1>1 DEF Accepted, Acceptable
<1>3. nonce = current_nonce /\ current_nonce = chain_nonce
  BY <1>2 DEF Final, NonceBehind, TypeOK
<1>4. current_bundle \cap executed = {}
  BY <1>3 DEF Final, BundleFresh
<1> HIDE DEF new
<1>5. ASSUME NEW tx \in mempool'
      PROVE  /\ tx.nonce <= chain_nonce
             /\ tx.nonce = chain_nonce => tx.ops \cap executed = {}
  <2>1. CASE tx = new
    BY <2>1, <1>1, <1>3, <1>4 DEF TypeOK
  <2>2. CASE tx \in mempool
    BY <2>2 DEF Final, MempoolDue
  <2> QED
    BY <1>2, <2>1, <2>2
<1> QED
  BY <1>3, <1>5

\* A block keeps what was mined before, but for its distance.
LEMMA AgedKeepsTx ==
  ASSUME mined \subseteq Mined
  PROVE  /\ \A a \in Aged : \E m \in mined : a.tx = m.tx
         /\ \A m \in mined : \E a \in Aged : a.tx = m.tx
<1>1. ASSUME NEW m \in mined  PROVE [m EXCEPT !.age = Older(@)].tx = m.tx
  BY DEF Mined
<1> QED
  BY <1>1 DEF Aged

LEMMA InitFinalInv == Init => FinalInv
<1> SUFFICES ASSUME Init PROVE Final
  BY InitSenderInv DEF FinalInv
<1> QED
  BY SenderConstants DEF Init, Final, NonceBehind, MempoolDue, MinedExecuted,
     BundleFresh, RecordExact, ConfirmedOnChain

LEMMA StepFinalInv == FinalInv /\ [Next]_vars => FinalInv'
<1> SUFFICES ASSUME FinalInv, [Next]_vars, ~undone' PROVE Final'
  BY StepSenderInv DEF FinalInv
<1> USE DEF Become, task, tracker, clients, node
<1>i. TypeOK /\ PendingTracked
  BY DEF FinalInv, SenderInv
<1>f. Final
  <2>1. undone => undone'
    BY DEF Next, vars, Task, Environment, HandleIdle, ProposeCandidates,
      BuildBundle, BuildNothing, HandleSubmitting, ReceiptFound, NoReceipt,
      NonceConsumed,
       StillPending, CheckFailed, EscalationImpossible, HandleEscalating,
       HandleConfirming, ResetToIdle, InitialWaitElapses, Restart, Submit,
       EmptyBlock, MineTx, DropTx, Reorg
  <2> QED
    BY <2>1 DEF FinalInv
<1> DEFINE Parts == /\ NonceBehind' /\ MempoolDue' /\ MinedExecuted'
                    /\ BundleFresh' /\ RecordExact' /\ ConfirmedOnChain'
<1> SUFFICES Parts
  BY DEF Final
<1> USE DEF NonceBehind, MempoolDue, MinedExecuted, BundleFresh, RecordExact,
            ConfirmedOnChain
<1>n. current_nonce \in Nat /\ chain_nonce \in Nat
  BY <1>i DEF TypeOK
<1>0. CASE UNCHANGED vars
  BY <1>0, <1>f DEF vars, Final
<1>1. CASE HandleIdle
  BY <1>1, <1>f DEF HandleIdle, Final
<1>2. CASE ProposeCandidates
  <2>1. state' \in {"Idle", "Building"}
    BY <1>2 DEF ProposeCandidates
  <2> QED
    BY <1>2, <1>f, <2>1 DEF ProposeCandidates, Final
<1>3. CASE BuildBundle
  <2>1. current_bundle' \cap executed = {}
    BY <1>3 DEF BuildBundle, Failing
  <2>2. pending = None
    BY <1>3, <1>i DEF BuildBundle, PendingTracked
  <2> QED
    BY <1>3, <1>f, <2>1, <2>2 DEF BuildBundle, Final
<1>4. CASE BuildNothing
  BY <1>4, <1>f DEF BuildNothing, Final
<1>5. CASE HandleSubmitting
  <2> DEFINE tx == BundleTx(current_nonce, 0)
  <2>1. CASE Accepted(tx) /\ pending' = NewPending(tx) /\ state' = "Pending"
    <3>1. 0 \in 0..MaxAttempts /\ state = "Submitting" /\ current_nonce <= current_nonce
      BY <1>5, <1>n, SenderConstants DEF HandleSubmitting
    <3>2. MempoolDue'
      <4>1. \A x \in mempool' :
              /\ x.nonce <= chain_nonce
              /\ x.nonce = chain_nonce => x.ops \cap executed = {}
        BY <1>f, <1>i, <1>n, <2>1, <3>1, AcceptedIsDue
      <4> QED
        BY <1>5, <4>1 DEF HandleSubmitting
    <3>3. RecordExact'
      BY <1>5, <2>1 DEF HandleSubmitting, NewPending, BundleTx
    <3> QED
      BY <1>5, <1>f, <2>1, <3>2, <3>3 DEF HandleSubmitting, Final
  <2>2. CASE Failed(tx) /\ UNCHANGED pending /\ state' = "Abandoned"
    <3>1. 0 \in 0..MaxAttempts /\ state = "Submitting" /\ current_nonce <= current_nonce
      BY <1>5, <1>n, SenderConstants DEF HandleSubmitting
    <3>2. MempoolDue'
      <4>1. CASE UNCHANGED mempool
        BY <1>5, <1>f, <4>1 DEF HandleSubmitting, Final
      <4>2. CASE Accepted(tx)
        <5>1. \A x \in mempool' :
                /\ x.nonce <= chain_nonce
                /\ x.nonce = chain_nonce => x.ops \cap executed = {}
          BY <1>f, <1>i, <1>n, <4>2, <3>1, AcceptedIsDue
        <5> QED
          BY <1>5, <5>1 DEF HandleSubmitting
      <4> QED
        BY <2>2, <4>1, <4>2 DEF Failed
    <3>3. pending = None
      BY <1>i, <3>1 DEF PendingTracked
    <3> QED
      BY <1>5, <1>f, <2>2, <3>2, <3>3 DEF HandleSubmitting, Final
  <2> QED
    BY <1>5, <2>1, <2>2 DEF HandleSubmitting
<1>6. CASE ReceiptFound
  <2>1. PICK m \in mined : m.tx = pending.tx_hash
    BY <1>6 DEF ReceiptFound
  <2>2. pending # None
    BY <1>6, <1>i DEF ReceiptFound, PendingTracked
  <2>3. /\ pending.tx_hash.nonce = current_nonce /\ pending.nonce = current_nonce
        /\ m.tx.ops = current_bundle /\ m.tx.nonce < chain_nonce
    BY <1>f, <2>1, <2>2 DEF Final
  <2>4. current_nonce' <= chain_nonce
    BY <1>6, <1>n, <2>1, <2>3 DEF ReceiptFound
  <2> QED
    BY <1>6, <1>f, <2>3, <2>4 DEF ReceiptFound, Final
<1>7. CASE NoReceipt
  BY <1>7, <1>f DEF NoReceipt, Final
<1>8. CASE NonceConsumed
  BY <1>8, <1>f, <1>n DEF NonceConsumed, Final
<1>9. CASE StillPending
  <2>1. state' \in {"Pending", "Escalating"}
    BY <1>9 DEF StillPending
  <2> QED
    BY <1>9, <1>f, <2>1 DEF StillPending, Final
<1>10. CASE CheckFailed
  BY <1>10, <1>f DEF CheckFailed, Final
<1>11. CASE EscalationImpossible
  BY <1>11, <1>f DEF EscalationImpossible, Final
<1>12. CASE HandleEscalating
  <2>1. pending \in Pending /\ pending # None /\ pending.escalation_count < MaxAttempts
        /\ state = "Escalating"
    BY <1>12 DEF HandleEscalating, FinalInv, SenderInv, TypeOK, PendingTracked,
       EscalationOpen
  <2>2. /\ pending.escalation_count + 1 \in 0..MaxAttempts
        /\ EscalationNonce \in Nat /\ EscalationNonce <= current_nonce
    BY <1>n, <2>1, PendingFields, SenderConstants DEF EscalationNonce
  <2> DEFINE tx == BundleTx(EscalationNonce, pending.escalation_count + 1)
             bumped == [pending EXCEPT !.tx_hash = tx,
                                       !.escalation_count = @ + 1]
  <2>3. tx.nonce = EscalationNonce /\ tx.ops = current_bundle
    BY DEF BundleTx
  <2>4. ASSUME Accepted(tx)
        PROVE  EscalationNonce = current_nonce /\ MempoolDue'
    <3>1. /\ EscalationNonce = current_nonce
          /\ \A x \in mempool' :
               /\ x.nonce <= chain_nonce
               /\ x.nonce = chain_nonce => x.ops \cap executed = {}
      BY <1>f, <1>i, <2>1, <2>2, <2>4, AcceptedIsDue
    <3> QED
      BY <1>12, <3>1 DEF HandleEscalating
  <2>5. CASE Accepted(tx) /\ pending' = bumped
    <3>1. /\ pending'.nonce = pending.nonce /\ pending'.tx_hash = tx
      BY <2>1, <2>5 DEF Pending
    <3>2. RecordExact'
      <4> HIDE DEF tx, bumped
      <4> QED
        BY <1>12, <1>f, <2>1, <2>3, <2>4, <2>5, <3>1 DEF HandleEscalating,
          Final
    <3> HIDE DEF tx, bumped
    <3> QED
      BY <1>12, <1>f, <2>1, <2>4, <2>5, <3>2 DEF HandleEscalating, Final
  <2>6. CASE Failed(tx) /\ UNCHANGED pending
    <3>1. MempoolDue'
      <4>1. CASE UNCHANGED mempool
        BY <1>12, <1>f, <4>1 DEF HandleEscalating, Final
      <4> QED
        BY <2>4, <2>6, <4>1 DEF Failed
    <3> HIDE DEF tx, bumped
    <3> QED
      BY <1>12, <1>f, <2>1, <2>6, <3>1 DEF HandleEscalating, Final
  <2> HIDE DEF tx, bumped
  <2> QED
    BY <1>12, <2>5, <2>6 DEF HandleEscalating, tx, bumped
<1>13. CASE HandleConfirming
  BY <1>13, <1>f DEF HandleConfirming, Final
<1>14. CASE ResetToIdle
  <2>1. pending = None
    BY <1>14, <1>i DEF ResetToIdle, PendingTracked
  <2> QED
    BY <1>14, <1>f, <2>1 DEF ResetToIdle, Final
<1>15. CASE InitialWaitElapses
  <2>1. pending \in Pending /\ pending # None
    BY <1>15, <1>i DEF InitialWaitElapses, TypeOK
  <2>2. pending'.nonce = pending.nonce /\ pending'.tx_hash = pending.tx_hash
    BY <1>15, <2>1 DEF InitialWaitElapses, Pending
  <2> QED
    BY <1>15, <1>f, <2>1, <2>2 DEF InitialWaitElapses, Final
<1>16. CASE Restart
  BY <1>16, <1>f, <1>n DEF Restart, Final
<1>17. ASSUME NEW i \in Id, Submit(i) PROVE Parts
  BY <1>17, <1>f DEF Submit, Final
<1>18. CASE EmptyBlock
  <2>1. /\ \A a \in mined' : \E m \in mined : a.tx = m.tx
        /\ \A m \in mined : \E a \in mined' : a.tx = m.tx
    BY <1>18, <1>i, AgedKeepsTx DEF EmptyBlock, TypeOK, Mined
  <2>2. MinedExecuted' /\ ConfirmedOnChain'
    BY <1>18, <1>f, <2>1 DEF EmptyBlock, Final
  <2> QED
    BY <1>18, <1>f, <2>2 DEF EmptyBlock, Final
<1>19. ASSUME NEW tx \in mempool, MineTx(tx) PROVE Parts
  <2>1. PICK ok \in BOOLEAN :
          /\ ~ok => tx.ops \cap executed # {} \/ "revert" \in Fault
          /\ mined' = Aged \cup {[tx |-> tx, age |-> 0, ok |-> ok]}
          /\ executed' = IF ok THEN executed \cup tx.ops ELSE executed
          /\ undone' = (undone \/ (~ok /\ tx.ops \cap executed = {}))
    BY <1>19 DEF MineTx
  <2>2. tx.nonce = chain_nonce /\ chain_nonce' = chain_nonce + 1
        /\ mempool' = {x \in mempool : x.nonce # tx.nonce}
        /\ UNCHANGED <<state, current_bundle, pending, current_nonce>>
    BY <1>19 DEF MineTx
  <2>3. tx.ops \cap executed = {}
    BY <1>f, <2>2 DEF Final
  <2>4. ok /\ executed' = executed \cup tx.ops
    BY <2>1, <2>3
  <2>5. /\ \A a \in Aged : \E m \in mined : a.tx = m.tx
        /\ \A m \in mined : \E a \in Aged : a.tx = m.tx
    BY <1>i, AgedKeepsTx DEF TypeOK, Mined
  <2>6. MinedExecuted'
    <3>1. ASSUME NEW a \in mined'
          PROVE  a.tx.nonce < chain_nonce' /\ a.tx.ops \subseteq executed'
      <4>1. CASE a \in Aged
        <5>1. PICK m \in mined : a.tx = m.tx
          BY <4>1, <2>5
        <5>2. m.tx.nonce < chain_nonce /\ m.tx.ops \subseteq executed /\ m.tx.nonce \in Nat
          BY <1>f, <1>i DEF Final, TypeOK, Tx
        <5> QED
          BY <5>1, <5>2, <2>2, <2>4, <1>n
      <4>2. CASE a = [tx |-> tx, age |-> 0, ok |-> ok]
        BY <4>2, <2>2, <2>4, <1>n
      <4> QED
        BY <2>1, <4>1, <4>2
    <3> QED
      BY <3>1
  <2>7. ConfirmedOnChain'
    <3>1. \A m \in mined : \E a \in mined' : a.tx = m.tx
      BY <2>1, <2>5
    <3> QED
      BY <1>f, <2>2, <3>1 DEF Final
  <2>8. MempoolDue'
    <3>1. \A x \in mempool' : x \in mempool /\ x.nonce # chain_nonce /\ x.nonce \in Nat
      BY <1>i, <2>2 DEF TypeOK, Tx
    <3>2. \A x \in mempool' : x.nonce < chain_nonce
      BY <1>f, <1>n, <3>1 DEF Final
    <3> QED
      BY <1>n, <2>2, <3>1, <3>2
  <2>9. NonceBehind' /\ BundleFresh'
    BY <1>f, <1>n, <2>2 DEF Final
  <2>10. RecordExact'
    BY <1>f, <2>2 DEF Final
  <2> QED
    BY <2>6, <2>7, <2>8, <2>9, <2>10
<1>20. ASSUME NEW tx \in mempool, DropTx(tx) PROVE Parts
  BY <1>20, <1>f DEF DropTx, Final
<1>21. ASSUME NEW m \in mined, Reorg(m) PROVE Parts
  BY <1>21 DEF Reorg
<1> QED
  BY <1>0, <1>1, <1>2, <1>3, <1>4, <1>5, <1>6, <1>7, <1>8, <1>9, <1>10, <1>11,
    <1>12, <1>13, <1>14, <1>15, <1>16, <1>17, <1>18, <1>19, <1>20, <1>21
  DEF Next, Task, Environment

LEMMA FinalHolds == Spec => []FinalInv
  BY InitFinalInv, StepFinalInv, PTL DEF Spec

\* While blocks are final the tracker's nonce never runs ahead of the chain's
\* and nothing is sent for a nonce the chain has not reached.
THEOREM NonceStaysBehind == Spec => []NonceNeverAhead
<1>1. FinalInv => NonceNeverAhead
  BY DEF FinalInv, Final, NonceBehind, MempoolDue, NonceNeverAhead
<1> QED
  BY <1>1, FinalHolds, PTL

\* record_escalation keeps the nonce on trust: a replacement the node takes
\* had the nonce of the transaction it replaces.
THEOREM TrackerIsExact == Spec => []TrackerMatchesTx
<1>1. FinalInv => TrackerMatchesTx
  BY DEF FinalInv, Final, RecordExact, TrackerMatchesTx
<1> QED
  BY <1>1, FinalHolds, PTL

\* What handle_confirming counts blocks for is on the chain.
THEOREM ConfirmedIsOnChain == Spec => []ConfirmedIsMined
<1>1. FinalInv => ConfirmedIsMined
  BY DEF FinalInv, Final, ConfirmedOnChain, ConfirmedIsMined
<1> QED
  BY <1>1, FinalHolds, PTL

\* remove_bundled_ops takes out only what the EntryPoint executed, although
\* it never looks at the receipt's status.
THEOREM RemovedIsExecuted == Spec => MinedOpsExecuted
<1> DEFINE Removes ==
      state = "Pending" /\ state' \in {"Confirming", "Abandoned"} /\ ~undone' =>
        \A i \in Id : pool[i] # 0 /\ pool'[i] = 0 => i \in executed
<1>1. FinalInv /\ [Next]_vars => [Removes]_vars
  <2> SUFFICES ASSUME FinalInv, Next, state = "Pending", ~undone',
                      state' \in {"Confirming", "Abandoned"},
                      NEW i \in Id, pool[i] # 0, pool'[i] = 0
               PROVE  i \in executed
    OBVIOUS
  <2> USE DEF Become, task, tracker, clients, node
  <2>1. CASE ReceiptFound
    <3>1. PICK m \in mined : m.tx = pending.tx_hash
      BY <2>1 DEF ReceiptFound
    <3>2. ~undone /\ pending # None /\ i \in current_bundle
      BY <2>1 DEF ReceiptFound, WithoutBundled, FinalInv, SenderInv,
        PendingTracked
    <3> QED
      BY <3>1, <3>2 DEF FinalInv, Final, RecordExact, MinedExecuted
  <2>2. CASE ~ReceiptFound
    <3>1. pool' = pool
      BY <2>2 DEF Next, Task, Environment, HandleIdle, ProposeCandidates,
        BuildBundle, BuildNothing, HandleSubmitting, NoReceipt, NonceConsumed,
         StillPending, CheckFailed, EscalationImpossible, HandleEscalating,
         HandleConfirming,
         ResetToIdle, InitialWaitElapses, Restart, Submit, EmptyBlock, MineTx,
         DropTx, Reorg
    <3> QED
      BY <3>1
  <2> QED
    BY <2>1, <2>2
<1> QED
  BY <1>1, FinalHolds, PTL DEF Spec, MinedOpsExecuted

=============================================================================
