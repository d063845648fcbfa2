----------------------- MODULE TransactionHistoryProofs -----------------------
(***************************************************************************)
(* The history tab for any number of wallets, refreshes and transactions:  *)
(* how far behind the store the table can be.                              *)
(***************************************************************************)
EXTENDS TransactionHistory, TLAPS

(* What the table lists is its wallet's.                                   *)
RowsOfWallet ==
  \A i \in DOMAIN transactions : transactions[i].of = wallet

(* Behind AtMostOneBehind: while the tab bar opens the saved wallet, the   *)
(* table has just taken the store's; no tab is on screen without a wallet, *)
(* and a form of the login leaves room for the wallet it adopts.           *)
TableInStep ==
  /\ main = "opening" => /\ screen = "appearing"
                         /\ tab = "history" /\ store # 0 => wallet = store
  /\ screen \in {"main", "detail", "send"} => store # 0
  /\ screen = "login" => store < MaxWallets
  /\ tab = "history" => store # 0
  /\ TableOnShow => wallet # 0 /\ store \in {wallet, wallet + 1}

HistoryInv == TypeOK /\ RowsOfWallet /\ TableInStep

LEMMA HistoryInit == Init => HistoryInv
  BY TransactionHistoryAssumption
  DEF Init, HistoryInv, TypeOK, RowsOfWallet, TableInStep, TableOnShow,
      Wallets, Info

(* The copy of a wallet's history is a sequence of its own objects.        *)
LEMMA CopyIsOfWallet ==
  ASSUME TypeOK, NEW n \in Wallets
  PROVE  /\ NativeGetAll(n) \in Seq(Info)
         /\ \A i \in DOMAIN NativeGetAll(n) : NativeGetAll(n)[i].of = n
<1>1. history[n].made \in Nat /\ history[n].size \in Nat
  BY DEF TypeOK
<1>2. NativeGetAll(n) \in [1 .. history[n].size -> Info]
  BY <1>1 DEF NativeGetAll, Info
<1> QED
  BY <1>1, <1>2 DEF NativeGetAll

(* When the table appears it is in step with the store.                    *)
LEMMA AppearingCatchesUp ==
  ASSUME HistoryInv, viewWillAppear
  PROVE  /\ store # 0 => wallet' = store
         /\ wallet' \in 0 .. store
         /\ transactions' \in Seq(Info)
         /\ \A i \in DOMAIN transactions' : transactions'[i].of = wallet'
<1>1. CASE store = 0
  BY <1>1 DEF viewWillAppear, table, HistoryInv, TypeOK, RowsOfWallet
<1>2. CASE store # 0
  <2>1. store \in Wallets /\ store \in Nat
    BY <1>2, TransactionHistoryAssumption DEF HistoryInv, TypeOK, Wallets
  <2>2. wallet' = store /\ transactions' = NativeGetAll(store)
    BY <1>2 DEF viewWillAppear
  <2> QED
    BY <2>1, <2>2, CopyIsOfWallet DEF HistoryInv
<1> QED
  BY <1>1, <1>2

LEMMA HistoryNext == HistoryInv /\ [Next]_vars => HistoryInv'
<1> SUFFICES ASSUME HistoryInv, [Next]_vars PROVE HistoryInv'
  OBVIOUS
<1> USE TransactionHistoryAssumption
    DEF HistoryInv, RowsOfWallet, TableInStep, TableOnShow
<1>1. ASSUME NEW n \in Wallets, refresh(n) PROVE HistoryInv'
  <2>1. PICK size \in 0 .. MaxEntries :
          history' = [history EXCEPT ![n] = [made |-> @.made + 1, size |-> size]]
    BY <1>1 DEF refresh
  <2>2. history' \in [Wallets -> [made: Nat, size: Nat]]
    BY <2>1 DEF TypeOK
  <2> QED
    BY <1>1, <2>2 DEF refresh, TypeOK, table
<1>2. CASE TabBarAppears
  <2>1. /\ main' = "opening" /\ screen = "appearing"
        /\ UNCHANGED <<history, store, screen, tab, transaction, read>>
    BY <1>2 DEF TabBarAppears
  <2>2. CASE tab = "history"
    <3>1. viewWillAppear
      BY <1>2, <2>2 DEF TabBarAppears
    <3> QED
      BY <2>1, <3>1, AppearingCatchesUp DEF TypeOK
  <2>3. CASE tab # "history"
    BY <1>2, <2>1, <2>3 DEF TabBarAppears, TypeOK, table
  <2> QED
    BY <2>2, <2>3
<1>3. CASE openSavedWallet
  BY <1>3 DEF openSavedWallet, TypeOK, table
<1>4. CASE NoSavedWallet
  BY <1>4 DEF NoSavedWallet, TypeOK, table
<1>5. CASE generateClicked
  BY <1>5 DEF generateClicked, TypeOK, table
<1>6. CASE SelectHistoryTab
  <2>1. /\ tab' = "history" /\ screen = "main"
        /\ UNCHANGED <<history, store, screen, main, transaction, read>>
        /\ viewWillAppear
    BY <1>6 DEF SelectHistoryTab
  <2> QED
    BY <2>1, <1>6, AppearingCatchesUp DEF SelectHistoryTab, TypeOK
<1>7. CASE SelectWalletTab
  BY <1>7 DEF SelectWalletTab, TypeOK, table
<1>8. CASE Send
  BY <1>8 DEF Send, TypeOK, table
<1>9. ASSUME NEW i \in DOMAIN transactions, cellForRow(i) \/ prepare(i)
      PROVE  HistoryInv'
  <2>1. transactions[i] \in Info
    BY DEF TypeOK
  <2> QED
    BY <1>9, <2>1 DEF cellForRow, prepare, TypeOK, table
<1>10. CASE Return
  BY <1>10 DEF Return, TypeOK, table
<1>11. CASE ShowDetail
  BY <1>11 DEF ShowDetail, TypeOK, table
<1>12. CASE UNCHANGED vars
  BY <1>12 DEF vars, table, TypeOK
<1> QED
  BY <1>1, <1>2, <1>3, <1>4, <1>5, <1>6, <1>7, <1>8, <1>9, <1>10, <1>11,
     <1>12
  DEF Next

LEMMA HistoryInductive == Spec => []HistoryInv
<1>1. HistoryInv /\ [Next]_vars => HistoryInv'
  BY HistoryNext
<1> QED
  BY HistoryInit, <1>1, PTL DEF Spec

(* The history tab's variables keep their types: in particular, every      *)
(* object that is read was made for some wallet's history.                 *)
THEOREM HistoryTypeCorrect == Spec => []TypeOK
<1>1. HistoryInv => TypeOK
  BY DEF HistoryInv
<1> QED
  BY HistoryInductive, <1>1, PTL

(* However many wallets the tab bar and the login put in the store, the    *)
(* table that is on show lists transactions of the store's wallet or of    *)
(* the one it replaced last.                                               *)
THEOREM TableLagsByOne == Spec => []AtMostOneBehind
<1>1. HistoryInv => AtMostOneBehind
  BY DEF HistoryInv, RowsOfWallet, TableInStep, AtMostOneBehind
<1> QED
  BY HistoryInductive, <1>1, PTL
=============================================================================
