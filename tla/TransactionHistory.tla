-------------------------- MODULE TransactionHistory --------------------------
(***************************************************************************)
(* The history tab (TransactionHistoryViewController.swift), the screen    *)
(* with one transaction (TransactionDetailViewController.swift) and their  *)
(* wrappers TransactionHistory.mm and TransactionInfo.mm, under the tab    *)
(* bar (MainViewController.swift), whose every appearance first makes the  *)
(* selected tab appear and then opens the saved wallet once more.          *)
(*                                                                         *)
(* The library owns the Monero::TransactionInfo objects of a wallet; a     *)
(* refresh of its history, which the callbacks of that wallet's thread     *)
(* ask for, replaces them all.  The wrappers are bare pointers.  An object *)
(* is known by its wallet, the refresh that made it and its place.         *)
(***************************************************************************)
EXTENDS Naturals, Sequences

CONSTANTS
  MaxWallets,   \* bound: wallets adopted in one run of the process
  MaxRefreshes, \* bound: refreshes of one wallet's history
  MaxEntries    \* bound: transactions in a history

ASSUME TransactionHistoryAssumption ==
  MaxWallets \in Nat \ {0} /\ MaxRefreshes \in Nat /\ MaxEntries \in Nat

VARIABLES
  history,      \* of each wallet: the last refresh, how many transactions
  store,        \* WalletStore.wallet, 0 for nil; wallets numbered in order
  screen,       \* what is on top; "appearing": the tab bar is about to be
  main,         \* "opening": the main thread is in openSavedWallet
  tab,          \* the tab that is selected
  wallet,       \* TransactionHistoryViewController.wallet, 0 for nil
  transactions, \* TransactionHistoryViewController.transactions
  transaction,  \* TransactionDetailViewController.transaction, or <<>>
  read          \* history: the object whose fields were read last, or <<>>

table == <<wallet, transactions>>
vars == <<history, store, screen, main, tab, table, transaction, read>>

Wallets == 1 .. MaxWallets
Info == [of: Wallets, made: Nat, place: Nat]
Entries(n) == [of: {n}, made: {history[n].made}, place: 1 .. history[n].size]

TypeOK ==
  /\ history \in [Wallets -> [made: Nat, size: Nat]]
  /\ store \in 0 .. MaxWallets
  /\ screen \in {"appearing", "main", "login", "send", "detail"}
  /\ main \in {"idle", "opening"}
  /\ tab \in {"wallet", "history"}
  /\ wallet \in 0 .. store
  /\ transactions \in Seq(Info)
  /\ transaction \in Info \cup {<<>>}
  /\ read \in Info \cup {<<>>}

Init ==
  /\ history = [n \in Wallets |-> [made |-> 0, size |-> 0]]
  /\ store = 0
  /\ screen = "appearing"
  /\ main = "idle"
  /\ tab = "wallet"
  /\ wallet = 0
  /\ transactions = <<>>
  /\ transaction = <<>>
  /\ read = <<>>
-----------------------------------------------------------------------------
(* Monero::TransactionHistory::getAll: every pointer of one refresh.       *)
NativeGetAll(n) ==
  [i \in 1 .. history[n].size |->
     [of |-> n, made |-> history[n].made, place |-> i]]

(* A callback of wallet n's thread reaches [m_history refresh]: the old    *)
(* objects are freed and new ones made.  A reorganisation of the chain may *)
(* leave fewer of them.                                                    *)
refresh(n) ==
  /\ n <= store
  /\ history[n].made < MaxRefreshes
  /\ \E size \in 0 .. MaxEntries :
       history' = [history EXCEPT ![n] = [made |-> @.made + 1, size |-> size]]
  /\ UNCHANGED <<store, screen, main, tab, table, transaction, read>>
-----------------------------------------------------------------------------
(* Mutation: the table takes a wallet when it has none.                    *)
TakeFirstWallet ==
  IF store = 0 \/ wallet # 0 THEN UNCHANGED table
  ELSE /\ wallet' = store
       /\ transactions' = NativeGetAll(store)

(* viewWillAppear of the table: without a wallet it leaves what it has;    *)
(* otherwise it takes the wallet and copies and reloads its transactions.  *)
viewWillAppear ==
  IF store = 0 THEN UNCHANGED table
  ELSE /\ wallet' = store
       /\ transactions' = NativeGetAll(store)

(* The tab bar appears.  super.viewWillAppear makes the selected tab       *)
(* appear, while the store still has its earlier wallet ...                *)
TabBarAppears ==
  /\ main = "idle" /\ screen = "appearing"
  /\ IF tab = "history" THEN viewWillAppear ELSE UNCHANGED table
  /\ main' = "opening"
  /\ UNCHANGED <<history, store, screen, tab, transaction, read>>

(* Mutation: the old wallet is dropped before the new one is there.        *)
DropThenOpen ==
  /\ main = "opening"
  /\ store < MaxWallets
  /\ store' \in {0, store + 1}
  /\ main' = "idle"
  /\ screen' = "main"
  /\ UNCHANGED <<history, tab, table, transaction, read>>

(* ... which openSavedWallet then replaces by a new one of the same file   *)
(* (WalletStore.initWallet), ...                                           *)
openSavedWallet ==
  /\ main = "opening"
  /\ store < MaxWallets
  /\ store' = store + 1
  /\ main' = "idle"
  /\ screen' = "main"
  /\ UNCHANGED <<history, tab, table, transaction, read>>

(* ... unless it finds none and the login is presented.                    *)
NoSavedWallet ==
  /\ main = "opening"
  /\ store + 1 < MaxWallets
  /\ main' = "idle"
  /\ screen' = "login"
  /\ UNCHANGED <<history, store, tab, table, transaction, read>>

(* A form of the login adopts a wallet and dismisses itself.               *)
generateClicked ==
  /\ screen = "login"
  /\ store' = store + 1
  /\ screen' = "appearing"
  /\ UNCHANGED <<history, main, tab, table, transaction, read>>
-----------------------------------------------------------------------------
(* The history tab is selected.                                            *)
SelectHistoryTab ==
  /\ main = "idle" /\ screen = "main" /\ tab = "wallet"
  /\ tab' = "history"
  /\ viewWillAppear
  /\ UNCHANGED <<history, store, screen, main, transaction, read>>

SelectWalletTab ==
  /\ main = "idle" /\ screen = "main" /\ tab = "history"
  /\ tab' = "wallet"
  /\ UNCHANGED <<history, store, screen, main, table, transaction, read>>

(* The send form is presented over the tab bar.                            *)
Send ==
  /\ main = "idle" /\ screen = "main"
  /\ store < MaxWallets
  /\ screen' = "send"
  /\ UNCHANGED <<history, store, main, tab, table, transaction, read>>

(* Row i comes into view: cellForRowAt reads its transaction.              *)
cellForRow(i) ==
  /\ main = "idle" /\ screen = "main" /\ tab = "history"
  /\ i \in DOMAIN transactions
  /\ read' = transactions[i]
  /\ UNCHANGED <<history, store, screen, main, tab, table, transaction>>

(* Row i is tapped: prepare(for:) hands its transaction on ...             *)
prepare(i) ==
  /\ main = "idle" /\ screen = "main" /\ tab = "history"
  /\ store < MaxWallets
  /\ i \in DOMAIN transactions
  /\ transaction' = transactions[i]
  /\ screen' = "detail"
  /\ UNCHANGED <<history, store, main, tab, table, read>>

(* ... whose fields the detail screen reads when it appears.               *)
ShowDetail ==
  /\ screen = "detail"
  /\ read' = transaction
  /\ UNCHANGED <<history, store, screen, main, tab, table, transaction>>

(* The detail screen is popped, or the send form dismissed.                *)
Return ==
  /\ screen \in {"detail", "send"}
  /\ screen' = "appearing"
  /\ transaction' = <<>>
  /\ UNCHANGED <<history, store, main, tab, table, read>>

Next ==
  \/ \E n \in Wallets : refresh(n)
  \/ TabBarAppears
  \/ openSavedWallet
  \/ NoSavedWallet
  \/ generateClicked
  \/ SelectHistoryTab
  \/ SelectWalletTab
  \/ Send
  \/ \E i \in DOMAIN transactions : cellForRow(i) \/ prepare(i)
  \/ ShowDetail
  \/ Return

Spec == Init /\ [][Next]_vars
-----------------------------------------------------------------------------
(* The table is on screen, or under the detail screen it pushed.           *)
TableOnShow ==
  main = "idle" /\ tab = "history" /\ screen \in {"main", "detail"}

(* However often the tab bar has replaced the wallet, whatever the login   *)
(* did meanwhile and whichever refreshes came in between, the table lists  *)
(* transactions of the store's wallet or of the one it has just replaced:  *)
(* it appears before openSavedWallet, and nothing reloads it afterwards.   *)
AtMostOneBehind ==
  TableOnShow =>
    /\ wallet # 0 /\ store \in {wallet, wallet + 1}
    /\ \A i \in DOMAIN transactions : transactions[i].of = wallet

(* transaction_history.h: "TransactionHistory is responsible of memory     *)
(* management".  No field is read of an object the history has freed.      *)
ReadsAreAlive ==
  [][read' # read => read' \in Entries(read'.of)]_vars
=============================================================================
