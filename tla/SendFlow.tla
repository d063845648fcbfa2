------------------------------ MODULE SendFlow ------------------------------
(***************************************************************************)
(* Sending: the transfer form (CreateTransactionViewController), the       *)
(* confirmation screen (ConfirmTransactionViewController) and the pending  *)
(* transactions the wallet makes for them (Wallet.mm, PendingTransaction). *)
(*                                                                         *)
(* The screens run on the main thread.  Tapping "Transfer" asks            *)
(* shouldPerformSegue first and prepare(for:) next; the refresh thread may *)
(* change the unlocked balance at any point, between the two as well.      *)
(***************************************************************************)
EXTENDS Naturals, Sequences

CONSTANTS
  MaxAmount,      \* largest amount and balance
  MaxPending      \* bound: pending transactions made in one run

ASSUME SendFlowAssumption ==
  MaxAmount \in Nat \ {0} /\ MaxPending \in Nat

VARIABLES
  unlocked,       \* wallet.unlockedBalance()
  screen,         \* where the send flow is
  form,           \* the text fields of the transfer form
  pending,        \* pending transactions in the order they were made
  transaction     \* the confirmation screen's transaction, 0 for nil

vars == <<unlocked, screen, form, pending, transaction>>

Amounts == 0 .. MaxAmount
NoText == MaxAmount + 1

(* An address field is empty, or holds an address libwallet accepts or     *)
(* not.  An amount field is empty or reads as an amount; a text that is no *)
(* number reads as 0, which is what Wallet.amount(from:) makes of it.      *)
Form == [address: {"empty", "valid", "invalid"}, amount: Amounts \cup {NoText}]
BlankForm == [address |-> "empty", amount |-> NoText]

(* A pending transaction: its status, its amount, whether it was disposed. *)
Pending == [ok: BOOLEAN, amount: Amounts, disposed: BOOLEAN]

TypeOK ==
  /\ unlocked \in Amounts
  /\ screen \in {"closed", "form", "segue", "confirm", "trapped"}
  /\ form \in Form
  /\ pending \in Seq(Pending)
  /\ Len(pending) <= MaxPending
  /\ transaction \in 0 .. Len(pending)

Init ==
  /\ unlocked \in Amounts
  /\ screen = "closed"
  /\ form = BlankForm
  /\ pending = << >>
  /\ transaction = 0
-----------------------------------------------------------------------------
(* The modal is presented with a new form.                                 *)
Present ==
  /\ screen = "closed"
  /\ screen' = "form"
  /\ form' = BlankForm
  /\ UNCHANGED <<unlocked, pending, transaction>>

(* The user types.                                                         *)
Type(f) ==
  /\ screen = "form"
  /\ form' = f
  /\ UNCHANGED <<unlocked, screen, pending, transaction>>

(* Mutation: the segue is always allowed.                                  *)
SegueUnchecked ==
  /\ screen = "form"
  /\ screen' = "segue"
  /\ UNCHANGED <<unlocked, form, pending, transaction>>

(* "Transfer" is tapped and the segue allowed.  The address is not looked  *)
(* at.  When it is refused nothing happens.                                *)
shouldPerformSegue ==
  /\ screen = "form"
  /\ form.amount # NoText
  /\ form.amount > 0 /\ form.amount <= unlocked
  /\ screen' = "segue"
  /\ UNCHANGED <<unlocked, form, pending, transaction>>

(* createTransaction makes an object in any case.  Its status is an error  *)
(* when the address is bad, and may be one for other reasons: whether the  *)
(* library looks at the balance again is not told by its header, and the   *)
(* application does not, so nothing is assumed of it.                      *)
CanSucceed == form.address = "valid"

createTransaction(ok) ==
  [ok |-> ok, amount |-> IF ok THEN form.amount ELSE 0, disposed |-> FALSE]

(* The conditions of prepare(for:).                                        *)
Complete == form.address # "empty" /\ form.amount # NoText

(* Mutation: an earlier transaction is shown again instead of a new one.   *)
PrepareOnce ==
  /\ screen = "segue"
  /\ Complete
  /\ IF pending # << >>
     THEN transaction' = 1 /\ UNCHANGED pending
     ELSE /\ Len(pending) < MaxPending
          /\ \E ok \in BOOLEAN :
               /\ ok => CanSucceed
               /\ pending' = Append(pending, createTransaction(ok))
          /\ transaction' = Len(pending) + 1
  /\ screen' = "confirm"
  /\ UNCHANGED <<unlocked, form>>

(* prepare(for:) makes the transaction and hands it to the confirmation    *)
(* screen, whose viewDidLoad shows its error or asks for confirmation.     *)
prepare ==
  /\ screen = "segue"
  /\ Complete
  /\ Len(pending) < MaxPending
  /\ \E ok \in BOOLEAN :
       /\ ok => CanSucceed
       /\ pending' = Append(pending, createTransaction(ok))
  /\ transaction' = Len(pending) + 1
  /\ screen' = "confirm"
  /\ UNCHANGED <<unlocked, form>>

(* Without an address prepare(for:) makes none; viewDidLoad of the new     *)
(* confirmation screen then unwraps nil.                                   *)
prepareWithoutAddress ==
  /\ screen = "segue"
  /\ ~Complete
  /\ transaction' = 0
  /\ screen' = "trapped"
  /\ UNCHANGED <<unlocked, form, pending>>

(* Mutation: the transaction is disposed and still referred to.            *)
BackDisposing ==
  /\ screen = "confirm"
  /\ screen' = "form"
  /\ pending' = SubSeq(pending, 1, transaction - 1)
  /\ UNCHANGED <<unlocked, form, transaction>>

(* Back to the form, which still has its text.                             *)
Back ==
  /\ screen = "confirm"
  /\ screen' = "form"
  /\ transaction' = 0
  /\ UNCHANGED <<unlocked, form, pending>>

(* The confirmation button dismisses the modal, and does nothing else.     *)
confirmButtonClicked ==
  /\ screen = "confirm"
  /\ screen' = "closed"
  /\ transaction' = 0
  /\ UNCHANGED <<unlocked, form, pending>>

(* The refresh thread sees money come, go or unlock.                       *)
BalanceMoves ==
  /\ unlocked' \in Amounts \ {unlocked}
  /\ UNCHANGED <<screen, form, pending, transaction>>

Next ==
  \/ Present
  \/ \E f \in Form : Type(f)
  \/ shouldPerformSegue
  \/ prepare
  \/ prepareWithoutAddress
  \/ Back
  \/ confirmButtonClicked
  \/ BalanceMoves

Spec == Init /\ [][Next]_vars
-----------------------------------------------------------------------------
(* viewDidLoad asks "Please confirm transaction".                          *)
Asking == screen = "confirm" /\ pending[transaction].ok

(* The user is asked to confirm the newest transaction, made from what the *)
(* form says, also after going back and transferring again.                *)
ConfirmMatchesForm ==
  Asking => /\ transaction = Len(pending)
            /\ pending[transaction].amount = form.amount

(* The two conditions, of shouldPerformSegue and of prepare(for:), differ  *)
(* in the address alone: a transfer with one never reaches viewDidLoad     *)
(* without a transaction to unwrap.                                        *)
TrapNeedsEmptyAddress == screen = "trapped" => form.address = "empty"

(* ConfirmTransactionViewController declares its transaction as            *)
(* "PendingTransaction!": it is set before viewDidLoad uses it.            *)
TransactionSetBeforeUse == screen # "trapped"

(* What the comment in viewDidLoad says happens to a transaction that      *)
(* could not be made: "deleting transaction object, we don't want          *)
(* memleaks".                                                              *)
FailedTransactionDeleted ==
  screen = "confirm" /\ ~pending[transaction].ok =>
    pending[transaction].disposed
=============================================================================
