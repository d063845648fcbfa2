--------------------------- MODULE WalletViewProofs ---------------------------
(***************************************************************************)
(* The labels of the wallet tab belong to the wallet it shows, for any     *)
(* number of wallets, blocks and nested refreshes and for a queue of any   *)
(* length.                                                                 *)
(***************************************************************************)
EXTENDS WalletView, TLAPS

(* The handlers of the main thread, and what is left of them after each of *)
(* their lines.                                                            *)
Handlers == {<<>>, <<"delegate", "balance", "heights">>,
             <<"balance", "heights">>, <<"heights">>,
             <<"heights", "balance">>, <<"balance">>}

(* A label that is not of the wallet on show is about to be drawn.         *)
Drawn ==
  /\ todo \in Handlers
  /\ shown = 0 => todo # <<"delegate", "balance", "heights">>
  /\ shown # 0 =>
       /\ balance.of = shown \/ todo \in {<<"delegate", "balance", "heights">>,
                                          <<"balance", "heights">>}
       /\ heights.of = shown \/ todo \in {<<"delegate", "balance", "heights">>,
                                          <<"balance", "heights">>,
                                          <<"heights">>}

Inv == TypeOK /\ Drawn

(* Taking a line off one of the handlers leaves one of the handlers.       *)
LEMMA TodoShapes ==
  /\ Tail(<<"delegate", "balance", "heights">>) = <<"balance", "heights">>
  /\ Tail(<<"balance", "heights">>) = <<"heights">>
  /\ Tail(<<"heights", "balance">>) = <<"balance">>
  /\ Tail(<<"heights">>) = <<>>
  /\ Tail(<<"balance">>) = <<>>
  /\ Head(<<"delegate", "balance", "heights">>) = "delegate"
  /\ Head(<<"balance", "heights">>) = "balance"
  /\ Head(<<"heights", "balance">>) = "heights"
  /\ Head(<<"heights">>) = "heights"
  /\ Head(<<"balance">>) = "balance"
  OBVIOUS

LEMMA HandlersAreSequences == Handlers \subseteq Seq({"delegate", "balance", "heights"})
  BY DEF Handlers

LEMMA InitInv == Init => Inv
  <1> SUFFICES ASSUME Init PROVE Inv
    OBVIOUS
  <1>1. TypeOK
    <2>1. queue \in Seq(Closure) /\ todo \in Seq({"delegate", "balance", "heights"})
      BY DEF Init
    <2>2. /\ lib \in [Wallets -> [blocks: Nat, payments: Nat]]
          /\ depth \in [Wallets -> Nat]
          /\ at \in [Wallets -> {"idle", "scan", "newBlock", "money", "after"}]
          /\ \A w \in Wallets : depth[w] = 0 <=> at[w] = "idle"
      BY DEF Init
    <2>3. store \in 0 .. MaxWallets /\ shown \in 0 .. store
      BY WalletViewAssumption DEF Init
    <2> QED
      BY <2>1, <2>2, <2>3 DEF Init, TypeOK, Label
  <1>2. Drawn
    BY DEF Init, Drawn, Handlers
  <1> QED
    BY <1>1, <1>2 DEF Inv

(* A closure goes to the end of the queue.                                 *)
LEMMA AsyncQueue ==
  ASSUME NEW w \in Wallets, NEW kind \in {"balance", "heights", "both"},
         TypeOK, async(w, kind)
  PROVE  queue' \in Seq(Closure)
  BY DEF TypeOK, async, Closure

-----------------------------------------------------------------------------
(* What leaves the handler of the main thread and the labels alone.        *)
LEMMA ThreadsLeaveLabels ==
  ASSUME Drawn, UNCHANGED <<shown, labels, todo>>
  PROVE  Drawn'
  BY DEF Drawn, Handlers, labels

(* The main thread.                                                        *)

LEMMA ResetDraws ==
  ASSUME Inv, NEW w \in 0 .. MaxWallets, resetWallet(w), UNCHANGED labels
  PROVE  Drawn' /\ todo' \in Seq({"delegate", "balance", "heights"})
  <1>1. todo' \in {<<>>, <<"delegate", "balance", "heights">>}
    BY DEF resetWallet
  <1>2. todo' \in Handlers
    BY <1>1 DEF Handlers
  <1>3. /\ shown' = 0 => todo' = <<>>
        /\ shown' # 0 => todo' = <<"delegate", "balance", "heights">>
    BY DEF resetWallet
  <1>4. <<>> # <<"delegate", "balance", "heights">>
    OBVIOUS
  <1> QED
    BY <1>2, <1>3, <1>4, HandlersAreSequences DEF Drawn

LEMMA AdoptKeeps == Inv /\ initWallet => Inv'
  <1> SUFFICES ASSUME Inv, initWallet PROVE Inv'
    OBVIOUS
  <1>1. /\ store + 1 \in 0 .. MaxWallets
        /\ store' = store + 1
    BY WalletViewAssumption DEF Inv, TypeOK, initWallet
  <1>2. Drawn' /\ todo' \in Seq({"delegate", "balance", "heights"})
    BY <1>1, ResetDraws, ThreadsLeaveLabels
       DEF Inv, TypeOK, initWallet, labels
  <1>3. shown' \in 0 .. store'
    BY <1>1, WalletViewAssumption DEF Inv, TypeOK, initWallet, resetWallet
  <1>4. TypeOK'
    BY <1>1, <1>2, <1>3 DEF Inv, TypeOK, initWallet, library, labels
  <1> QED
    BY <1>2, <1>4 DEF Inv

LEMMA AppearKeeps == Inv /\ viewWillAppear => Inv'
  <1> SUFFICES ASSUME Inv, viewWillAppear PROVE Inv'
    OBVIOUS
  <1>1. Drawn' /\ todo' \in Seq({"delegate", "balance", "heights"})
    BY ResetDraws DEF Inv, TypeOK, viewWillAppear
  <1>2. shown' \in 0 .. store'
    BY WalletViewAssumption DEF Inv, TypeOK, viewWillAppear, resetWallet
  <1>3. TypeOK'
    BY <1>1, <1>2 DEF Inv, TypeOK, viewWillAppear, library, labels
  <1> QED
    BY <1>1, <1>3 DEF Inv

LEMMA DisappearKeeps == Inv /\ viewWillDisappear => Inv'
  BY DEF Inv, TypeOK, Drawn, Handlers, viewWillDisappear, library, labels

LEMMA DelegateKeeps == Inv /\ setDelegate => Inv'
  <1> SUFFICES ASSUME Inv, setDelegate PROVE Inv'
    OBVIOUS
  <1>1. todo = <<"delegate", "balance", "heights">> /\ shown # 0
    BY TodoShapes DEF Inv, Drawn, Handlers, setDelegate
  <1>2. todo' = <<"balance", "heights">>
    BY <1>1, TodoShapes DEF setDelegate
  <1>3. TypeOK'
    BY <1>1, <1>2, WalletViewAssumption
       DEF Inv, TypeOK, setDelegate, library, labels, Wallets
  <1>4. Drawn'
    BY <1>1, <1>2 DEF Inv, Drawn, Handlers, setDelegate, library, labels
  <1> QED
    BY <1>3, <1>4 DEF Inv

LEMMA BalanceKeeps == Inv /\ refreshBalance => Inv'
  <1> SUFFICES ASSUME Inv, refreshBalance PROVE Inv'
    OBVIOUS
  <1>1. \/ todo = <<"balance", "heights">> /\ todo' = <<"heights">>
        \/ todo = <<"balance">> /\ todo' = <<>>
    BY TodoShapes DEF Inv, Drawn, Handlers, refreshBalance
  <1>2. shown \in Nat /\ (shown # 0 => shown \in Wallets)
    BY WalletViewAssumption DEF Inv, TypeOK, Wallets
  <1>3. balance' \in Label /\ balance'.of = shown
    BY <1>2 DEF Inv, TypeOK, refreshBalance, Label
  <1>4. TypeOK'
    BY <1>1, <1>3 DEF Inv, TypeOK, refreshBalance, library
  <1>5. Drawn'
    BY <1>1, <1>3 DEF Inv, Drawn, Handlers, refreshBalance
  <1> QED
    BY <1>4, <1>5 DEF Inv

LEMMA HeightsKeeps == Inv /\ refreshBlockHeights => Inv'
  <1> SUFFICES ASSUME Inv, refreshBlockHeights PROVE Inv'
    OBVIOUS
  <1>1. \/ todo = <<"heights", "balance">> /\ todo' = <<"balance">>
        \/ todo = <<"heights">> /\ todo' = <<>>
    BY TodoShapes DEF Inv, Drawn, Handlers, refreshBlockHeights
  <1>2. shown \in Nat /\ (shown # 0 => shown \in Wallets)
    BY WalletViewAssumption DEF Inv, TypeOK, Wallets
  <1>3. heights' \in Label /\ (shown # 0 => heights'.of = shown)
    BY <1>2 DEF Inv, TypeOK, refreshBlockHeights, Label
  <1>4. TypeOK'
    BY <1>1, <1>3 DEF Inv, TypeOK, refreshBlockHeights, library
  <1>5. Drawn'
    BY <1>1, <1>3 DEF Inv, Drawn, Handlers, refreshBlockHeights
  <1> QED
    BY <1>4, <1>5 DEF Inv

LEMMA ClosureKeeps == Inv /\ RunClosure => Inv'
  <1> SUFFICES ASSUME Inv, RunClosure PROVE Inv'
    OBVIOUS
  <1>1. queue' \in Seq(Closure)
    BY DEF Inv, TypeOK, RunClosure
  <1>2. todo' \in {<<"balance">>, <<"heights">>, <<"heights", "balance">>}
    BY DEF RunClosure
  <1>3. TypeOK'
    <2>1. todo' \in Seq({"delegate", "balance", "heights"})
      BY <1>2, HandlersAreSequences DEF Handlers
    <2> QED
      BY <1>1, <2>1 DEF Inv, TypeOK, RunClosure, library, labels
  <1>4. Drawn'
    BY <1>2 DEF Inv, Drawn, Handlers, RunClosure, library, labels
  <1> QED
    BY <1>3, <1>4 DEF Inv
-----------------------------------------------------------------------------
(* The threads.                                                            *)

LEMMA StartKeeps == Inv /\ (initWalletAsync \/ Clock) => Inv'
  <1> SUFFICES ASSUME Inv, initWalletAsync \/ Clock PROVE Inv'
    OBVIOUS
  <1>1. TypeOK'
    <2>1. store # 0 => store \in Wallets
      BY WalletViewAssumption DEF Inv, TypeOK, Wallets
    <2>2. running' \subseteq Wallets
      BY <2>1 DEF Inv, TypeOK, initWalletAsync, Clock, library
    <2>3. throttled' \in BOOLEAN
      BY DEF Inv, TypeOK, initWalletAsync, Clock
    <2> QED
      BY <2>2, <2>3 DEF Inv, TypeOK, initWalletAsync, Clock, library, labels
  <1>2. Drawn'
    BY ThreadsLeaveLabels DEF Inv, initWalletAsync, Clock
  <1> QED
    BY <1>1, <1>2 DEF Inv

LEMMA ThreadKeeps ==
  ASSUME Inv, NEW w \in Wallets, Thread(w) \/ Events(w)
  PROVE  Inv'
  <1>1. Drawn'
    BY ThreadsLeaveLabels
       DEF Inv, Thread, Events, Refresh, dispatchBlockHeights,
           refreshInCallback, dispatchBalance, walletRefreshed,
           walletNewBlock, Money, walletUpdated
  <1>2. CASE Refresh(w)
    BY <1>1, <1>2 DEF Inv, TypeOK, Refresh, labels
  <1>3. CASE dispatchBlockHeights(w)
    <2>1. queue' \in Seq(Closure)
      BY <1>3, AsyncQueue DEF Inv, dispatchBlockHeights
    <2> QED
      BY <1>1, <1>3, <2>1 DEF Inv, TypeOK, dispatchBlockHeights, labels
  <1>4. CASE refreshInCallback(w)
    BY <1>1, <1>4 DEF Inv, TypeOK, refreshInCallback, labels
  <1>5. CASE dispatchBalance(w)
    <2>1. queue' \in Seq(Closure)
      BY <1>5, AsyncQueue DEF Inv, dispatchBalance
    <2> QED
      BY <1>1, <1>5, <2>1 DEF Inv, TypeOK, dispatchBalance, labels
  <1>6. CASE walletRefreshed(w)
    <2>1. queue' \in Seq(Closure)
      BY <1>6, AsyncQueue DEF Inv, TypeOK, walletRefreshed
    <2>2. /\ depth' \in [Wallets -> Nat]
          /\ at' \in [Wallets -> {"idle", "scan", "newBlock", "money", "after"}]
          /\ \A n \in Wallets : depth'[n] = 0 <=> at'[n] = "idle"
      BY <1>6 DEF Inv, TypeOK, walletRefreshed, Return
    <2> QED
      BY <1>1, <1>6, <2>1, <2>2 DEF Inv, TypeOK, walletRefreshed, labels
  <1>7. CASE walletNewBlock(w)
    <2>1. lib' \in [Wallets -> [blocks: Nat, payments: Nat]]
      <3>0. lib[w] \in [blocks: Nat, payments: Nat]
        BY DEF Inv, TypeOK
      <3>1. [lib[w] EXCEPT !.blocks = @ + 1] \in [blocks: Nat, payments: Nat]
        BY <3>0
      <3>2. lib' = [lib EXCEPT ![w] = [lib[w] EXCEPT !.blocks = @ + 1]]
        BY <1>7 DEF walletNewBlock
      <3> QED
        BY <3>1, <3>2 DEF Inv, TypeOK
    <2>2. /\ at' \in [Wallets -> {"idle", "scan", "newBlock", "money", "after"}]
          /\ \A n \in Wallets : depth'[n] = 0 <=> at'[n] = "idle"
      BY <1>7 DEF Inv, TypeOK, walletNewBlock
    <2> QED
      BY <1>1, <1>7, <2>1, <2>2 DEF Inv, TypeOK, walletNewBlock, labels
  <1>8. CASE Money(w)
    BY <1>1, <1>8 DEF Inv, TypeOK, Money, labels
  <1>9. CASE walletUpdated(w)
    <2>1. queue' \in Seq(Closure)
      BY <1>9, AsyncQueue DEF Inv, walletUpdated
    <2> QED
      BY <1>1, <1>9, <2>1 DEF Inv, TypeOK, walletUpdated, library, labels
  <1> QED
    BY <1>2, <1>3, <1>4, <1>5, <1>6, <1>7, <1>8, <1>9 DEF Thread, Events
-----------------------------------------------------------------------------
LEMMA StepKeeps == Inv /\ [Next]_vars => Inv'
  <1> SUFFICES ASSUME Inv, [Next]_vars PROVE Inv'
    OBVIOUS
  <1>1. CASE UNCHANGED vars
    BY <1>1 DEF Inv, TypeOK, Drawn, Handlers, vars, library, labels
  <1>2. CASE Next
    BY <1>2, AdoptKeeps, AppearKeeps, DisappearKeeps, DelegateKeeps,
       BalanceKeeps, HeightsKeeps, ClosureKeeps, StartKeeps, ThreadKeeps
       DEF Next, Main
  <1> QED
    BY <1>1, <1>2

LEMMA Invariant == Spec => []Inv
  BY InitInv, StepKeeps, PTL DEF Spec

(* Labels, queue, handlers and threads keep their shape, and a thread is   *)
(* idle exactly when no refresh of its wallet is in progress.              *)
THEOREM ViewTypeCorrect == Spec => []TypeOK
  <1>1. Inv => TypeOK
    BY DEF Inv
  <1> QED
    BY <1>1, Invariant, PTL

(* Between two handlers of the main thread both labels belong to the       *)
(* wallet the tab shows, whatever closures of earlier wallets are queued.  *)
THEOREM LabelsBelongTogether == Spec => []LabelsOfShown
  <1>1. Inv => LabelsOfShown
    BY DEF Inv, Drawn, LabelsOfShown
  <1> QED
    BY <1>1, Invariant, PTL
=============================================================================
