------------------------------ MODULE WalletView ------------------------------
(***************************************************************************)
(* The labels of the wallet tab (WalletViewController.swift) against the   *)
(* refresh threads that call it back through WalletListenerImpl            *)
(* (Wallet.mm).                                                            *)
(*                                                                         *)
(* Each started wallet has a refresh thread inside the library.  Its       *)
(* callbacks run on that thread, go on for several steps, and leave        *)
(* closures on the main queue, which read the wallet the tab shows by      *)
(* then, not the one that called.  The main thread executes one handler    *)
(* at a time; "todo" holds what is left of the current one, because the    *)
(* other threads run between any two of its lines.                         *)
(*                                                                         *)
(* A balance is abstracted to the number of payments it contains, a height *)
(* to the number of blocks scanned.  Whether the library holds its mutex   *)
(* for "synchronizing sync and async refresh" while it calls back is not   *)
(* decided by the repository, hence a parameter.                           *)
(***************************************************************************)
EXTENDS Naturals, Sequences

CONSTANTS
  RefreshLocked,  \* the library holds m_refreshMutex2 during its callbacks
  Tip,            \* bound: blocks a wallet may scan
  MaxWallets,     \* bound: wallets adopted in one run of the process
  MaxDepth,       \* bound: refreshes nested in callbacks of one thread
  MaxQueue        \* bound: closures waiting on the main queue

ASSUME WalletViewAssumption ==
  /\ RefreshLocked \in BOOLEAN
  /\ Tip \in Nat
  /\ MaxWallets \in Nat
  /\ MaxDepth \in Nat \ {0}
  /\ MaxQueue \in Nat \ {0}

VARIABLES
  \* The library
  lib,        \* blocks and payments each wallet knows
  running,    \* wallets whose refresh thread was started
  depth,      \* native refreshes in progress on the thread of each wallet
  at,         \* what the innermost of them is doing
  \* The store and the tab
  store,      \* WalletStore.wallet, 0 for nil; wallets are numbered in order
  observing,  \* the tab is registered for walletInittedNotification
  shown,      \* WalletViewController.wallet, 0 for nil
  delegates,  \* wallets whose delegate is the tab
  throttled,  \* at most a second passed since lastTimeRefreshed
  balance,    \* balanceLabel: whose balance it shows, with how many payments
  heights,    \* blockHeightsLabel: whose height it shows, how many blocks
  \* The main thread
  queue,      \* DispatchQueue.main
  todo        \* what the current handler has left to do

library == <<lib, running, depth, at>>
labels == <<balance, heights>>
vars == <<library, store, observing, shown, delegates, throttled, labels,
          queue, todo>>

Wallets == 1 .. MaxWallets
Label == [of: Nat, seen: Nat]

(* A closure is known by what it refreshes and by the wallet whose         *)
(* callback left it.                                                       *)
Closure == [kind: {"balance", "heights", "both"}, from: Wallets]

TypeOK ==
  /\ lib \in [Wallets -> [blocks: Nat, payments: Nat]]
  /\ running \subseteq Wallets
  /\ depth \in [Wallets -> Nat]
  /\ at \in [Wallets -> {"idle", "scan", "newBlock", "money", "after"}]
  /\ \A w \in Wallets : depth[w] = 0 <=> at[w] = "idle"
  /\ store \in 0 .. MaxWallets
  /\ observing \in BOOLEAN
  /\ shown \in 0 .. store
  /\ delegates \subseteq Wallets
  /\ throttled \in BOOLEAN
  /\ balance \in Label
  /\ heights \in Label
  /\ queue \in Seq(Closure)
  /\ todo \in Seq({"delegate", "balance", "heights"})

Init ==
  /\ lib = [w \in Wallets |-> [blocks |-> 0, payments |-> 0]]
  /\ running = {}
  /\ depth = [w \in Wallets |-> 0]
  /\ at = [w \in Wallets |-> "idle"]
  /\ store = 0
  /\ observing = FALSE
  /\ shown = 0
  /\ delegates = {}
  /\ throttled = TRUE
  /\ balance = [of |-> 0, seen |-> 0]
  /\ heights = [of |-> 0, seen |-> 0]
  /\ queue = <<>>
  /\ todo = <<>>
-----------------------------------------------------------------------------
(* The main thread.                                                        *)

(* WalletViewController.resetWallet, up to its guard; the rest is left in  *)
(* todo.  With no wallet it returns and leaves the labels as they are.     *)
resetWallet(w) ==
  /\ shown' = w
  /\ todo' = IF w = 0 THEN <<>> ELSE <<"delegate", "balance", "heights">>

(* WalletStore.initWallet adopts one more wallet and posts the             *)
(* notification.                                                           *)
initWallet ==
  /\ todo = <<>>
  /\ store < MaxWallets
  /\ store' = store + 1
  /\ IF observing THEN resetWallet(store + 1) ELSE UNCHANGED <<shown, todo>>
  /\ UNCHANGED <<library, observing, delegates, throttled, labels, queue>>

viewWillAppear ==
  /\ todo = <<>> /\ ~observing
  /\ resetWallet(store)
  /\ observing' = TRUE
  /\ UNCHANGED <<library, store, delegates, throttled, labels, queue>>

viewWillDisappear ==
  /\ todo = <<>> /\ observing
  /\ observing' = FALSE
  /\ UNCHANGED <<library, store, shown, delegates, throttled, labels, queue,
                 todo>>

(* The lines of resetWallet and of the closures, one at a time.            *)
setDelegate ==
  /\ todo # <<>> /\ Head(todo) = "delegate"
  /\ delegates' = delegates \cup {shown}
  /\ todo' = Tail(todo)
  /\ UNCHANGED <<library, store, observing, shown, throttled, labels, queue>>

refreshBalance ==
  /\ todo # <<>> /\ Head(todo) = "balance"
  /\ balance' = IF shown = 0 THEN [of |-> 0, seen |-> 0]
                ELSE [of |-> shown, seen |-> lib[shown].payments]
  /\ todo' = Tail(todo)
  /\ UNCHANGED <<library, store, observing, shown, delegates, throttled,
                 heights, queue>>

refreshBlockHeights ==
  /\ todo # <<>> /\ Head(todo) = "heights"
  /\ heights' = IF shown = 0 THEN heights
                ELSE [of |-> shown, seen |-> lib[shown].blocks]
  /\ todo' = Tail(todo)
  /\ UNCHANGED <<library, store, observing, shown, delegates, throttled,
                 balance, queue>>

(* Mutation: the closure draws the wallet that called back.                *)
DrawCaller ==
  /\ todo = <<>> /\ queue # <<>>
  /\ LET c == Head(queue)
         w == c.from
     IN  /\ balance' = IF c.kind = "heights" THEN balance
                       ELSE [of |-> w, seen |-> lib[w].payments]
         /\ heights' = IF c.kind = "balance" THEN heights
                       ELSE [of |-> w, seen |-> lib[w].blocks]
  /\ queue' = Tail(queue)
  /\ UNCHANGED <<library, store, observing, shown, delegates, throttled, todo>>

(* The run loop takes the first closure off the main queue.                *)
RunClosure ==
  /\ todo = <<>> /\ queue # <<>>
  /\ todo' = CASE Head(queue).kind = "balance" -> <<"balance">>
               [] Head(queue).kind = "heights" -> <<"heights">>
               [] OTHER -> <<"heights", "balance">>
  /\ queue' = Tail(queue)
  /\ UNCHANGED <<library, store, observing, shown, delegates, throttled,
                 labels>>
-----------------------------------------------------------------------------
(* The refresh threads.                                                    *)

(* DispatchQueue.main.async in a callback of wallet w.                     *)
async(w, kind) ==
  /\ Len(queue) < MaxQueue
  /\ queue' = Append(queue, [kind |-> kind, from |-> w])

(* initWallet's block starts the thread of the current wallet.             *)
initWalletAsync ==
  /\ store # 0
  /\ running' = running \cup {store}
  /\ UNCHANGED <<lib, depth, at, store, observing, shown, delegates, throttled,
                 labels, queue, todo>>

(* The thread begins a refresh, by its timer or by refreshButtonClicked.   *)
Refresh(w) ==
  /\ w \in running /\ at[w] = "idle"
  /\ depth' = [depth EXCEPT ![w] = 1]
  /\ at' = [at EXCEPT ![w] = "scan"]
  /\ UNCHANGED <<lib, running, store, observing, shown, delegates, throttled,
                 labels, queue, todo>>

(* A block is scanned: newBlock and walletNewBlock's look at the clock.    *)
walletNewBlock(w) ==
  /\ at[w] = "scan" /\ lib[w].blocks < Tip
  /\ lib' = [lib EXCEPT ![w].blocks = @ + 1]
  /\ at' = [at EXCEPT ![w] = IF w \in delegates /\ ~throttled
                             THEN "newBlock" ELSE "scan"]
  /\ UNCHANGED <<running, depth, store, observing, shown, delegates, throttled,
                 labels, queue, todo>>

(* ... and the rest of it, when more than a second had passed.             *)
dispatchBlockHeights(w) ==
  /\ at[w] = "newBlock"
  /\ throttled' = TRUE
  /\ async(w, "heights")
  /\ at' = [at EXCEPT ![w] = "scan"]
  /\ UNCHANGED <<lib, running, depth, store, observing, shown, delegates,
                 labels, todo>>

(* The wall clock; it may be set, so throttling may also come back.        *)
Clock ==
  /\ throttled' = ~throttled
  /\ UNCHANGED <<library, store, observing, shown, delegates, labels, queue,
                 todo>>

(* A payment is found in a block: moneySpent or moneyReceived.             *)
Money(w) ==
  /\ at[w] = "scan" /\ depth[w] < MaxDepth
  /\ lib[w].payments < lib[w].blocks
  /\ lib' = [lib EXCEPT ![w].payments = @ + 1]
  /\ at' = [at EXCEPT ![w] = IF w \in delegates THEN "money" ELSE "scan"]
  /\ UNCHANGED <<running, depth, store, observing, shown, delegates, throttled,
                 labels, queue, todo>>

(* walletMoneySpent and walletMoneyReceived refresh the wallet from inside *)
(* the refresh that called them.  The mutex is not recursive: if it is     *)
(* held, this step never happens.                                          *)
refreshInCallback(w) ==
  /\ at[w] = "money"
  /\ ~RefreshLocked
  /\ depth' = [depth EXCEPT ![w] = @ + 1]
  /\ at' = [at EXCEPT ![w] = "scan"]
  /\ UNCHANGED <<lib, running, store, observing, shown, delegates, throttled,
                 labels, queue, todo>>

(* ... and leave the new balance to the main queue.                        *)
dispatchBalance(w) ==
  /\ at[w] = "after"
  /\ async(w, "balance")
  /\ at' = [at EXCEPT ![w] = "scan"]
  /\ UNCHANGED <<lib, running, depth, store, observing, shown, delegates,
                 throttled, labels, todo>>

(* Any event: updated.                                                     *)
walletUpdated(w) ==
  /\ at[w] = "scan" /\ w \in delegates
  /\ async(w, "both")
  /\ UNCHANGED <<library, store, observing, shown, delegates, throttled, labels,
                 todo>>

(* Mutation: every refresh is taken for a nested one.                      *)
ReturnToCallback(w) ==
  /\ at[w] = "scan"
  /\ depth' = [depth EXCEPT ![w] = @ - 1]
  /\ at' = [at EXCEPT ![w] = "after"]

(* The innermost refresh of w returns, to the thread or to the callback    *)
(* that called it.                                                         *)
Return(w) ==
  /\ at[w] = "scan"
  /\ depth' = [depth EXCEPT ![w] = @ - 1]
  /\ at' = [at EXCEPT ![w] = IF depth[w] = 1 THEN "idle" ELSE "after"]

(* Mutation: the end of a refresh is stored but not drawn.                 *)
RefreshedWithoutDrawing(w) ==
  /\ Return(w)
  /\ UNCHANGED <<lib, running, store, observing, shown, delegates, throttled,
                 labels, queue, todo>>

(* A refresh ends: refreshed.  (What walletRefreshed does to the defaults  *)
(* and the wallet file is in module WalletStore.)                          *)
walletRefreshed(w) ==
  /\ Return(w)
  /\ IF w \in delegates THEN async(w, "both") ELSE UNCHANGED queue
  /\ UNCHANGED <<lib, running, store, observing, shown, delegates, throttled,
                 labels, todo>>
-----------------------------------------------------------------------------
Main ==
  \/ setDelegate
  \/ refreshBalance
  \/ refreshBlockHeights
  \/ RunClosure

Thread(w) ==
  \/ Refresh(w)
  \/ dispatchBlockHeights(w)
  \/ refreshInCallback(w)
  \/ dispatchBalance(w)
  \/ walletRefreshed(w)

Events(w) ==
  \/ walletNewBlock(w)
  \/ Money(w)
  \/ walletUpdated(w)

Next ==
  \/ initWallet
  \/ viewWillAppear
  \/ viewWillDisappear
  \/ Main
  \/ initWalletAsync
  \/ Clock
  \/ \E w \in Wallets : Thread(w) \/ Events(w)

Spec == Init /\ [][Next]_vars

(* The main thread goes on with its handler and takes the closures off its *)
(* queue; the library refreshes a started wallet again and again, and what *)
(* its thread began it goes on with.  Neither the user nor the chain owes  *)
(* anything.                                                               *)
Fairness ==
  /\ WF_vars(Main)
  /\ \A w \in Wallets : WF_vars(Refresh(w)) /\ WF_vars(dispatchBlockHeights(w))
  /\ \A w \in Wallets : WF_vars(refreshInCallback(w))
  /\ \A w \in Wallets : WF_vars(dispatchBalance(w)) /\ WF_vars(walletRefreshed(w))

FairSpec == Spec /\ Fairness
-----------------------------------------------------------------------------
(* Whenever the main thread is between two handlers, both labels belong to *)
(* the wallet the tab shows, even while closures left by callbacks of an   *)
(* earlier wallet are still being run (resetWallet, refreshBalance and     *)
(* refreshBlockHeights).                                                   *)
LabelsOfShown ==
  todo = <<>> /\ shown # 0 => balance.of = shown /\ heights.of = shown

(* Once the chain stands still the labels agree with the wallet on show    *)
(* for good: no balance is lost between two callbacks, and no height to    *)
(* the one-second throttle of walletNewBlock or to a clock that is set.    *)
LabelsCatchUp ==
  <>[](shown # 0 => /\ balance = [of |-> shown, seen |-> lib[shown].payments]
                    /\ heights = [of |-> shown, seen |-> lib[shown].blocks])

(* Wallet.hh on walletRefreshed: "called when wallet refreshed by          *)
(* background thread or explicitly".  A refresh that finds a payment goes  *)
(* on to its end, where that call is made.                                 *)
RefreshReported ==
  \A w \in Wallets : at[w] = "money" ~> at[w] = "idle"
=============================================================================
