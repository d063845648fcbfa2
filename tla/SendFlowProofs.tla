--------------------------- MODULE SendFlowProofs ---------------------------
(***************************************************************************)
(* What a user of the send flow is asked to confirm, for any amounts and   *)
(* any number of transactions.                                             *)
(***************************************************************************)
EXTENDS SendFlow, TLAPS

(* What the screens know: the segue was allowed for an amount that was     *)
(* typed, and the confirmation screen has the newest transaction, whose    *)
(* amount is the form's if it could be made.                               *)
ScreenKnows ==
  /\ screen = "segue" => form.amount \in Amounts
  /\ screen = "confirm" => /\ transaction = Len(pending)
                           /\ transaction # 0
                           /\ pending[transaction].ok =>
                                pending[transaction].amount = form.amount
  /\ screen = "trapped" => form.address = "empty"

SendInv == TypeOK /\ ScreenKnows

LEMMA SendInit == Init => SendInv
  BY SendFlowAssumption
  DEF Init, SendInv, TypeOK, ScreenKnows, BlankForm, Form,
      NoText, Amounts

(* A new transaction goes to the end and respects the bounds.              *)
LEMMA PrepareStep ==
  ASSUME SendInv, prepare
  PROVE  SendInv'
<1>1. PICK ok \in BOOLEAN :
        /\ ok => CanSucceed
        /\ pending' = Append(pending, createTransaction(ok))
  BY DEF prepare
<1> DEFINE t == createTransaction(ok)
<1>2. /\ TypeOK /\ form.amount \in Amounts
      /\ unlocked \in Amounts /\ pending \in Seq(Pending)
      /\ Len(pending) \in Nat
  BY DEF SendInv, ScreenKnows, prepare, TypeOK
<1>3. /\ t \in Pending
      /\ t.ok => t.amount = form.amount
  BY <1>1, <1>2, SendFlowAssumption
  DEF createTransaction, Pending, Amounts
<1> HIDE DEF t
<1>4. /\ pending' \in Seq(Pending)
      /\ Len(pending') = Len(pending) + 1
      /\ pending'[Len(pending) + 1] = t
      /\ \A i \in 1 .. Len(pending) : pending'[i] = pending[i]
  BY <1>1, <1>2, <1>3 DEF t
<1>5. /\ transaction' = Len(pending) + 1 /\ screen' = "confirm"
      /\ Len(pending) < MaxPending
      /\ UNCHANGED <<unlocked, form>>
  BY DEF prepare
<1>6. TypeOK'
  BY <1>2, <1>4, <1>5, SendFlowAssumption DEF TypeOK
<1>7. ScreenKnows'
  BY <1>2, <1>3, <1>4, <1>5 DEF ScreenKnows
<1> QED
  BY <1>6, <1>7 DEF SendInv

LEMMA SendStep == SendInv /\ [Next]_vars => SendInv'
<1> SUFFICES ASSUME SendInv, [Next]_vars PROVE SendInv'
  OBVIOUS
<1> USE SendFlowAssumption DEF SendInv, TypeOK, ScreenKnows
<1>1. CASE Present
  BY <1>1 DEF Present, BlankForm, Form, NoText, Amounts
<1>2. ASSUME NEW f \in Form, Type(f) PROVE SendInv'
  BY <1>2 DEF Type
<1>3. CASE shouldPerformSegue
  BY <1>3 DEF shouldPerformSegue, Form, NoText, Amounts
<1>4. CASE prepare
  BY <1>4, PrepareStep
<1>5. CASE prepareWithoutAddress
  BY <1>5 DEF prepareWithoutAddress, Complete, Amounts, NoText
<1>6. CASE Back
  BY <1>6 DEF Back
<1>7. CASE confirmButtonClicked
  BY <1>7 DEF confirmButtonClicked
<1>8. CASE BalanceMoves
  BY <1>8 DEF BalanceMoves
<1>9. CASE UNCHANGED vars
  BY <1>9 DEF vars
<1> QED
  BY <1>1, <1>2, <1>3, <1>4, <1>5, <1>6, <1>7, <1>8, <1>9 DEF Next

LEMMA SendInvariant == Spec => []SendInv
  BY SendInit, SendStep, PTL DEF Spec

(* The form, the screens and the pending transactions keep their types     *)
(* through every return to the form.                                       *)
THEOREM SendFlowTypeCorrect == Spec => []TypeOK
<1>1. SendInv => TypeOK
  BY DEF SendInv
<1> QED
  BY SendInvariant, <1>1, PTL

(* For any amounts, the confirmation screen traps only when no address was *)
(* entered.                                                                *)
THEOREM TrapOnlyWithoutAddress == Spec => []TrapNeedsEmptyAddress
<1>1. SendInv => TrapNeedsEmptyAddress
  BY DEF SendInv, ScreenKnows, TrapNeedsEmptyAddress
<1> QED
  BY SendInvariant, <1>1, PTL

(* The confirmation screen asks about the newest transaction, made for the *)
(* amount in the form.                                                     *)
THEOREM AskedAboutTheForm == Spec => []ConfirmMatchesForm
<1>1. SendInv => ConfirmMatchesForm
  BY DEF SendInv, ScreenKnows, ConfirmMatchesForm, Asking
<1> QED
  BY SendInvariant, <1>1, PTL
=============================================================================
