----------------------------- MODULE WalletStore -----------------------------
(***************************************************************************)
(* The life of a wallet in the application: WalletStore.swift, the screens *)
(* that drive it (MainViewController, the three wallet forms, the wallet   *)
(* tab), AppDelegate's save and the Objective-C++ wrapper Wallet.mm.       *)
(*                                                                         *)
(* Three kinds of threads run: the main thread with the user's events, the *)
(* blocks of a concurrent background queue that start wallets, and one     *)
(* refresh thread per started wallet, which calls the wallet tab back.     *)
(* A handler of the main thread takes one step for each write to a         *)
(* persistent store, "main" naming the write that comes next, because the  *)
(* other threads run and the process may be killed in between.             *)
(***************************************************************************)
EXTENDS Libwallet

CONSTANTS
  RestoreHeights,  \* heights a user may type, past the tip as well
  MaxWallets       \* bound: wallets opened in one run of the process

ASSUME WalletStoreAssumption ==
  /\ RestoreHeights \subseteq Nat
  /\ MaxWallets \in Nat
  /\ Files # {}

VARIABLES
  \* What survives the process
  fs,         \* the documents directory: file name -> wallet file
  defaults,   \* UserDefaults: walletFile, isRecovering, restoreHeight
  keychain,   \* keychain["password"]
  \* The wallets of this process, numbered in the order they were opened
  opened,     \* how many there are; none is closed, its listener retains it
  engine,     \* the Monero::Wallet of each
  wrapper,    \* its Wallet object: how it came, with which arguments, delegate
  wallet,     \* WalletStore.wallet, 0 for nil
  blocks,     \* wallets whose initWallet block waits in the background queue
  thread,     \* what the refresh thread of each is doing
  \* The main thread and the screens
  main,       \* what the unfinished handler of the main thread does next
  screen,     \* what is presented over the tab bar controller
  tab,        \* the selected tab
  observing,  \* the wallet tab is registered for walletInittedNotification
  shown       \* WalletViewController.wallet, 0 for nil

persistent == <<fs, defaults, keychain>>
process == <<opened, engine, wrapper, wallet, blocks, thread>>
screens == <<screen, tab, observing, shown>>
vars == <<persistent, process, main, screens>>

Wallets == 1 .. MaxWallets
Screens == {"appearing", "main", "login", "send", "detail"}

(* Heights that are saved: scanned, typed, or the default of the forms.    *)
SavedHeights == Heights \cup RestoreHeights

Wrapper == [how: {"create", "open", "recover"}, recovering: BOOLEAN,
            restoreHeight: SavedHeights, delegate: BOOLEAN]

(* What is left of adopting a wallet: the keychain entry, then initWallet  *)
(* with its three defaults, the static variable and the background block.  *)
Adopting == {"keychain", "walletFile", "isRecovering", "restoreHeight",
             "wallet", "async"}

TypeOK ==
  /\ fs \in FileSystem
  /\ defaults \in [walletFile: Files \cup {Nil}, isRecovering: BOOLEAN,
                   restoreHeight: SavedHeights]
  /\ keychain \in Passwords \cup {Nil}
  /\ opened \in 0 .. MaxWallets
  /\ engine \in [Wallets -> Engine]
  /\ wrapper \in [Wallets -> Wrapper]
  /\ wallet \in 0 .. opened
  /\ blocks \subseteq 1 .. opened
  /\ thread \in [Wallets -> {"idle", "storing"}]
  /\ main \in {"idle", "store"} \cup Adopting
  /\ screen \in Screens
  /\ tab \in {"wallet", "history"}
  /\ observing \in BOOLEAN
  /\ shown \in 0 .. opened

(* The slots of wallets that were not opened yet.                          *)
NoEngine == Failed(CHOOSE f \in Files : TRUE, EmptyPassword)
NoWrapper == [how |-> "open", recovering |-> FALSE, restoreHeight |-> 0,
              delegate |-> FALSE]

(* A first launch after installation.  Documents and defaults are empty;   *)
(* the keychain may hold the password of an earlier installation.  The tab *)
(* bar is about to appear.                                                 *)
Init ==
  /\ fs = [f \in Files |-> Nil]
  /\ defaults = [walletFile |-> Nil, isRecovering |-> FALSE,
                 restoreHeight |-> 0]
  /\ keychain \in Passwords \cup {Nil}
  /\ opened = 0
  /\ engine = [n \in Wallets |-> NoEngine]
  /\ wrapper = [n \in Wallets |-> NoWrapper]
  /\ wallet = 0
  /\ blocks = {}
  /\ thread = [n \in Wallets |-> "idle"]
  /\ main = "idle"
  /\ screen = "appearing"
  /\ tab = "wallet"
  /\ observing = FALSE
  /\ shown = 0
-----------------------------------------------------------------------------
(* WalletViewController.resetWallet: the tab shows the store's wallet and  *)
(* becomes its delegate.                                                   *)
resetWallet(w) ==
  /\ shown' = w
  /\ wrapper' = IF w = 0 THEN wrapper
                ELSE [wrapper EXCEPT ![w].delegate = TRUE]

(* The wallets known once a new one is added to the wrappers ws.  A wallet *)
(* with a password goes to the keychain before initWallet.                 *)
Adopt(ws, e, how, recovering, restoreHeight) ==
  /\ opened < MaxWallets
  /\ opened' = opened + 1
  /\ engine' = [engine EXCEPT ![opened + 1] = e]
  /\ wrapper' = [ws EXCEPT ![opened + 1] =
                   [how |-> how, recovering |-> recovering,
                    restoreHeight |-> restoreHeight, delegate |-> FALSE]]
  /\ main' = IF how = "recover" THEN "walletFile" ELSE "keychain"
-----------------------------------------------------------------------------
(* The three forms of the login screen, up to the wallet libwallet returns.*)

(* CreateViewController.generateClicked, WalletStore.createWallet.         *)
createWallet(f, p) ==
  /\ main = "idle" /\ screen = "login"
  /\ LET e == NativeCreate(fs, f, p)
     IN  /\ Adopt(wrapper, e, "create", FALSE, 0)
         /\ fs' = NativeStore(fs, e)
  /\ UNCHANGED <<defaults, keychain, wallet, blocks, thread, screens>>

(* OpenWalletViewController.generateClicked, WalletStore.openWallet with   *)
(* its default arguments for isRecovering and restoreHeight.               *)
openWallet(f, p) ==
  /\ main = "idle" /\ screen = "login"
  /\ Adopt(wrapper, NativeOpen(fs, f, p), "open", FALSE, 0)
  /\ UNCHANGED <<persistent, wallet, blocks, thread, screens>>

(* RecoverWalletViewController.generateClicked, WalletStore.recoverWallet. *)
recoverWallet(f, seedValid, restoreHeight) ==
  /\ main = "idle" /\ screen = "login"
  /\ LET e == NativeRecover(fs, f, seedValid, restoreHeight)
     IN  /\ Adopt(wrapper, e, "recover", TRUE, restoreHeight)
         /\ fs' = NativeStore(fs, e)
  /\ UNCHANGED <<defaults, keychain, wallet, blocks, thread, screens>>

(* Mutations: the keychain keeps the first password it ever had; the       *)
(* static variable is assigned before anything is saved.                   *)
KeepFirstPassword ==
  /\ main = "keychain"
  /\ keychain' = IF keychain = Nil THEN engine[opened].password ELSE keychain
  /\ main' = "walletFile"
  /\ UNCHANGED <<fs, defaults, process, screens>>

AssignBeforeSaving ==
  /\ main = "keychain"
  /\ keychain' = engine[opened].password
  /\ main' = "walletFile"
  /\ wallet' = opened
  /\ UNCHANGED <<fs, defaults, opened, engine, wrapper, blocks, thread, screens>>

(* createWallet and openWallet: keychain["password"] = password.           *)
savePassword ==
  /\ main = "keychain"
  /\ keychain' = engine[opened].password
  /\ main' = "walletFile"
  /\ UNCHANGED <<fs, defaults, process, screens>>
-----------------------------------------------------------------------------
(* WalletStore.initWallet on the wallet just opened.                       *)

saveWalletFile ==
  /\ main = "walletFile"
  /\ defaults' = [defaults EXCEPT !.walletFile = engine[opened].file]
  /\ main' = "isRecovering"
  /\ UNCHANGED <<fs, keychain, process, screens>>

saveIsRecovering ==
  /\ main = "isRecovering"
  /\ defaults' = [defaults EXCEPT !.isRecovering = wrapper[opened].recovering]
  /\ main' = "restoreHeight"
  /\ UNCHANGED <<fs, keychain, process, screens>>

saveInitialHeight ==
  /\ main = "restoreHeight"
  /\ defaults' = [defaults EXCEPT !.restoreHeight =
                                    wrapper[opened].restoreHeight]
  /\ main' = "wallet"
  /\ UNCHANGED <<fs, keychain, process, screens>>

(* The static variable; its didSet posts the notification at once, and an  *)
(* observing wallet tab resets itself before the assignment returns.       *)
assignWallet ==
  /\ main = "wallet"
  /\ wallet' = opened
  /\ IF observing THEN resetWallet(opened) ELSE UNCHANGED <<wrapper, shown>>
  /\ main' = "async"
  /\ UNCHANGED <<persistent, opened, engine, blocks, thread, screen, tab,
                 observing>>

(* The background block.  The form then dismisses the login screen;        *)
(* viewWillAppear is done otherwise.                                       *)
dispatchBlock ==
  /\ main = "async"
  /\ blocks' = blocks \cup {opened}
  /\ screen' = IF screen = "login" THEN "appearing" ELSE "main"
  /\ main' = "idle"
  /\ UNCHANGED <<persistent, opened, engine, wrapper, wallet, thread, tab,
                 observing, shown>>

initWallet ==
  \/ saveWalletFile
  \/ saveIsRecovering
  \/ saveInitialHeight
  \/ assignWallet
  \/ dispatchBlock
-----------------------------------------------------------------------------
(* MainViewController.viewWillAppear.                                      *)

savedWalletExists ==
  /\ defaults.walletFile # Nil
  /\ fs[defaults.walletFile] # Nil

(* The guards of openSavedWallet: the application is bound to a wallet.    *)
Bound == savedWalletExists /\ keychain # Nil

(* The selected child appears first, with the wallet of before.            *)
WrapperOnceVisible ==
  IF tab = "wallet" /\ wallet # 0
  THEN [wrapper EXCEPT ![wallet].delegate = TRUE]
  ELSE wrapper

(* openSavedWallet gets past its guards and opens the file once more.      *)
AppearWithSavedWallet ==
  /\ main = "idle" /\ screen = "appearing"
  /\ Bound
  /\ Adopt(WrapperOnceVisible,
           NativeOpen(fs, defaults.walletFile, keychain), "open",
           defaults.isRecovering, defaults.restoreHeight)
  /\ observing' = (tab = "wallet")
  /\ shown' = IF tab = "wallet" THEN wallet ELSE shown
  /\ UNCHANGED <<persistent, wallet, blocks, thread, screen, tab>>

(* Mutations: log in whenever this process has no wallet yet; return from  *)
(* viewWillAppear without the login segue.                                 *)
AppearWithoutWallet ==
  /\ main = "idle" /\ screen = "appearing"
  /\ wallet = 0
  /\ screen' = "login"
  /\ wrapper' = WrapperOnceVisible
  /\ observing' = FALSE
  /\ shown' = IF tab = "wallet" THEN wallet ELSE shown
  /\ UNCHANGED <<persistent, opened, engine, wallet, blocks, thread, main, tab>>

AppearWithoutLogin ==
  /\ main = "idle" /\ screen = "appearing"
  /\ ~Bound
  /\ screen' = "main"
  /\ wrapper' = WrapperOnceVisible
  /\ observing' = (tab = "wallet")
  /\ shown' = IF tab = "wallet" THEN wallet ELSE shown
  /\ UNCHANGED <<persistent, opened, engine, wallet, blocks, thread, main, tab>>

(* openSavedWallet returns nil: the login screen is presented, and covers  *)
(* the tab, which stops observing.                                         *)
AppearWithoutSavedWallet ==
  /\ main = "idle" /\ screen = "appearing"
  /\ ~Bound
  /\ screen' = "login"
  /\ wrapper' = WrapperOnceVisible
  /\ observing' = FALSE
  /\ shown' = IF tab = "wallet" THEN wallet ELSE shown
  /\ UNCHANGED <<persistent, opened, engine, wallet, blocks, thread, main, tab>>
-----------------------------------------------------------------------------
(* The other screens.                                                      *)

(* The send form is presented, or a transaction's details are pushed.      *)
Cover(s) ==
  /\ main = "idle" /\ screen = "main"
  /\ s = "detail" => tab = "history"
  /\ screen' = s
  /\ observing' = FALSE
  /\ UNCHANGED <<persistent, process, main, tab, shown>>

(* ... and dismissed or popped again.                                      *)
Uncover ==
  /\ main = "idle" /\ screen \in {"send", "detail"}
  /\ screen' = "appearing"
  /\ UNCHANGED <<persistent, process, main, tab, observing, shown>>

(* Mutation: the tab registers for the notification without a first reset. *)
SelectWithoutReset ==
  /\ main = "idle" /\ screen = "main" /\ tab = "history"
  /\ tab' = "wallet"
  /\ observing' = TRUE
  /\ UNCHANGED <<persistent, process, main, screen, shown>>

(* The wallet tab is selected: its viewWillAppear.                         *)
SelectWalletTab ==
  /\ main = "idle" /\ screen = "main" /\ tab = "history"
  /\ tab' = "wallet"
  /\ resetWallet(wallet)
  /\ observing' = TRUE
  /\ UNCHANGED <<persistent, opened, engine, wallet, blocks, thread, main,
                 screen>>

(* The history tab is selected: the wallet tab's viewWillDisappear.        *)
SelectHistoryTab ==
  /\ main = "idle" /\ screen = "main" /\ tab = "wallet"
  /\ tab' = "history"
  /\ observing' = FALSE
  /\ UNCHANGED <<persistent, process, main, screen, shown>>
-----------------------------------------------------------------------------
(* Mutation: the height saved is that of the next block.                   *)
SaveNextHeight ==
  /\ main = "idle"
  /\ wallet # 0
  /\ defaults' = [defaults EXCEPT !.restoreHeight = engine[wallet].height + 1]
  /\ main' = "store"
  /\ UNCHANGED <<fs, keychain, process, screens>>

(* applicationDidEnterBackground: WalletStore.save, in two steps.          *)
saveRestoreHeight ==
  /\ main = "idle"
  /\ wallet # 0
  /\ defaults' = [defaults EXCEPT !.restoreHeight = engine[wallet].height]
  /\ main' = "store"
  /\ UNCHANGED <<fs, keychain, process, screens>>

(* Mutation: the wallet is released once it is stored.                     *)
StoreAndRelease ==
  /\ main = "store"
  /\ fs' = NativeStore(fs, engine[wallet])
  /\ main' = "idle"
  /\ wallet' = 0
  /\ UNCHANGED <<defaults, keychain, opened, engine, wrapper, blocks, thread,
                 screens>>

saveStore ==
  /\ main = "store"
  /\ fs' = NativeStore(fs, engine[wallet])
  /\ main' = "idle"
  /\ UNCHANGED <<defaults, keychain, process, screens>>
-----------------------------------------------------------------------------
(* The background queue and the refresh threads.                           *)

(* Mutation: only a recovering wallet is started.                          *)
InitAsyncIfRecovering(n) ==
  /\ n \in blocks
  /\ blocks' = blocks \ {n}
  /\ engine' =
       IF wallet = 0 \/ ~wrapper[n].recovering THEN engine
       ELSE [engine EXCEPT ![wallet] =
               NativeInitAsync(SetRecovering(@, wrapper[n].restoreHeight))]
  /\ UNCHANGED <<persistent, opened, wrapper, wallet, thread, main, screens>>

(* The block initWallet left for wallet n runs.  It has n's arguments, but *)
(* sends them to whatever the static variable holds by now.                *)
initWalletAsync(n) ==
  /\ n \in blocks
  /\ blocks' = blocks \ {n}
  /\ engine' =
       IF wallet = 0 THEN engine
       ELSE [engine EXCEPT ![wallet] =
               NativeInitAsync(
                 IF wrapper[n].recovering
                 THEN SetRecovering(@, wrapper[n].restoreHeight)
                 ELSE @)]
  /\ UNCHANGED <<persistent, opened, wrapper, wallet, thread, main, screens>>

(* The refresh thread of n scans.                                          *)
Scan(n) ==
  /\ thread[n] = "idle"
  /\ CanScan(engine[n])
  /\ engine' = [engine EXCEPT ![n] = NativeScan(@)]
  /\ UNCHANGED <<persistent, opened, wrapper, wallet, blocks, thread, main,
                 screens>>

(* WalletListenerImpl.refreshed: a wallet nobody shows is not reported.    *)
Reported(n) == engine[n].running /\ wrapper[n].delegate

(* Mutations: the callback removes a wrong key of the defaults.            *)
RefreshedRemovesFile(n) ==
  /\ thread[n] = "idle"
  /\ Reported(n)
  /\ defaults' = [defaults EXCEPT !.walletFile = Nil]
  /\ thread' = [thread EXCEPT ![n] = "storing"]
  /\ UNCHANGED <<fs, keychain, opened, engine, wrapper, wallet, blocks, main,
                 screens>>

RefreshedRemovesHeight(n) ==
  /\ thread[n] = "idle"
  /\ Reported(n)
  /\ defaults' = [defaults EXCEPT !.restoreHeight = 0]
  /\ thread' = [thread EXCEPT ![n] = "storing"]
  /\ UNCHANGED <<fs, keychain, opened, engine, wrapper, wallet, blocks, main,
                 screens>>

(* A refresh of n ends, at the tip or short of it when the daemon does not *)
(* answer, and the listener passes it on: walletRefreshed, first half.     *)
walletRefreshed(n) ==
  /\ thread[n] = "idle"
  /\ Reported(n)
  /\ defaults' = [defaults EXCEPT !.isRecovering = FALSE]
  /\ thread' = [thread EXCEPT ![n] = "storing"]
  /\ UNCHANGED <<fs, keychain, opened, engine, wrapper, wallet, blocks, main,
                 screens>>

(* Mutations: the wallet is stored under the name in the defaults; it is   *)
(* not stored at all.                                                      *)
StoreUnderSavedName(n) ==
  /\ thread[n] = "storing"
  /\ fs' = IF defaults.walletFile = Nil THEN fs
           ELSE NativeStore(fs, [engine[n] EXCEPT !.file = defaults.walletFile])
  /\ thread' = [thread EXCEPT ![n] = "idle"]
  /\ UNCHANGED <<defaults, keychain, opened, engine, wrapper, wallet, blocks,
                 main, screens>>

RefreshedWithoutStore(n) ==
  /\ thread[n] = "storing"
  /\ thread' = [thread EXCEPT ![n] = "idle"]
  /\ UNCHANGED <<persistent, opened, engine, wrapper, wallet, blocks, main,
                 screens>>

(* walletRefreshed, second half.                                           *)
walletRefreshedStore(n) ==
  /\ thread[n] = "storing"
  /\ fs' = NativeStore(fs, engine[n])
  /\ thread' = [thread EXCEPT ![n] = "idle"]
  /\ UNCHANGED <<defaults, keychain, opened, engine, wrapper, wallet, blocks,
                 main, screens>>

(* The process is killed, at any point, and the application started again. *)
Relaunch ==
  /\ opened' = 0
  /\ engine' = [n \in Wallets |-> NoEngine]
  /\ wrapper' = [n \in Wallets |-> NoWrapper]
  /\ wallet' = 0
  /\ blocks' = {}
  /\ thread' = [n \in Wallets |-> "idle"]
  /\ main' = "idle"
  /\ screen' = "appearing"
  /\ tab' = "wallet"
  /\ observing' = FALSE
  /\ shown' = 0
  /\ UNCHANGED persistent
-----------------------------------------------------------------------------
(* What the user may type into the three forms.  A name is never empty,    *)
(* the guards of generateClicked see to that.                              *)
CreateForm == \E f \in Files, p \in Passwords : createWallet(f, p)
OpenForm == \E f \in Files, p \in Passwords : openWallet(f, p)
RecoverForm ==
  \E f \in Files, seedValid \in BOOLEAN, h \in RestoreHeights :
    recoverWallet(f, seedValid, h)

Navigation ==
  \/ \E s \in {"send", "detail"} : Cover(s)
  \/ Uncover
  \/ SelectWalletTab
  \/ SelectHistoryTab

Background(n) ==
  \/ initWalletAsync(n)
  \/ Scan(n)
  \/ walletRefreshed(n)
  \/ walletRefreshedStore(n)

Uninterrupted ==
  \/ CreateForm
  \/ OpenForm
  \/ RecoverForm
  \/ savePassword
  \/ initWallet
  \/ AppearWithSavedWallet
  \/ AppearWithoutSavedWallet
  \/ Navigation
  \/ saveRestoreHeight
  \/ saveStore
  \/ \E n \in Wallets : Background(n)

Next == Uninterrupted \/ Relaunch

Spec == Init /\ [][Next]_vars

(* One run of the process, from its first launch on.                       *)
UnkilledSpec == Init /\ [][Uninterrupted]_vars

(* A handler the main thread began goes on, the queue runs every block it  *)
(* was given, a started refresh thread keeps refreshing and a callback it  *)
(* began goes on.  The user owes nothing.                                  *)
Fairness ==
  /\ WF_vars(savePassword \/ initWallet \/ saveStore)
  /\ \A n \in Wallets :
       /\ WF_vars(initWalletAsync(n))
       /\ WF_vars(walletRefreshed(n))
       /\ WF_vars(walletRefreshedStore(n))

FairSpec == Spec /\ Fairness

-----------------------------------------------------------------------------
(* All wallets of the process have their file, under their own password,   *)
(* however many of them were opened from one file and whichever thread     *)
(* stored last.                                                            *)
EnginesBacked ==
  \A n \in Wallets :
    engine[n].ok => /\ fs[engine[n].file] # Nil
                    /\ fs[engine[n].file].password = engine[n].password

(* A form has not yet brought its wallet into the store.                   *)
FormHalfDone == main \in Adopting \ {"async"} /\ screen = "login"

(* Whenever no form is half done - in the middle of viewWillAppear and of  *)
(* save too - and the current wallet was created or opened with its        *)
(* password, a kill at that point loses nothing: the relaunch finds the    *)
(* same file in the defaults and the password that opens it in the         *)
(* keychain.                                                               *)
RelaunchReopens ==
  ~FormHalfDone /\ wallet # 0 =>
    LET e == engine[wallet] IN
    e.ok /\ wrapper[wallet].how # "recover" =>
      /\ defaults.walletFile = e.file
      /\ Bound
      /\ NativeOpen(fs, defaults.walletFile, keychain).ok

(* The login screen is there only while the application is bound to no     *)
(* wallet, unless one of its forms is still to dismiss it: a saved wallet  *)
(* cannot be replaced through the forms.                                   *)
LoginOnlyWhenUnbound ==
  main \notin Adopting /\ screen = "login" => ~Bound

(* openSavedWallet would get past its guards, and no form is half done.    *)
Settled == Bound /\ ~FormHalfDone

(* An application that is settled stays so, with the same file and the     *)
(* same password: no sequence of screens, saves, callbacks and kills leads *)
(* back to login, even if that password does not open that file.           *)
BoundForever ==
  [][Settled => /\ Settled'
                /\ defaults'.walletFile = defaults.walletFile
                /\ keychain' = keychain]_vars

(* The screens that unwrap WalletStore.wallet with "!" when they are made  *)
(* (CreateTransactionViewController, ConfirmTransactionViewController) are *)
(* reached only with a wallet.                                             *)
SendNeverTraps ==
  screen \in {"main", "send", "detail"} => wallet # 0

(* The send screens keep the wallet they were built with; while they are   *)
(* up, it stays the store's wallet.                                        *)
SendKeepsWallet ==
  [][screen = "send" /\ screen' = "send" => wallet' = wallet]_vars

(* While the wallet tab observes the store, it shows the store's wallet    *)
(* and is its delegate, whichever of notification and appearance came      *)
(* first.                                                                  *)
ShownIsCurrent ==
  observing /\ main = "idle" =>
    /\ shown = wallet
    /\ wallet # 0 => wrapper[wallet].delegate

(* A wallet that stays current is started by the background queue, even    *)
(* when blocks of earlier wallets run late and out of order.               *)
ActiveWalletStarts ==
  \A n \in Wallets : wallet = n ~> engine[n].running \/ wallet # n

(* A recovery mark does not outlive a refresh of a wallet that is shown.   *)
RecoveryFlagCleared ==
  \A n \in Wallets :
    wallet = n /\ wrapper[n].delegate
      ~> ~defaults.isRecovering \/ wallet # n

(* Refreshes do not end for ever without a block: they scan between two    *)
(* calls of walletRefreshed.                                               *)
DaemonAnswers == \A n \in Wallets : SF_vars(Scan(n))

(* Wallets of one file store to it in any order, a slow one over what a    *)
(* fast one wrote.  With a daemon that answers, the file of a wallet that  *)
(* stays current and on show is complete in the end all the same.          *)
StoredCatchesUp ==
  DaemonAnswers => \A n \in Wallets :
    <>[](wallet = n /\ engine[n].ok /\ wrapper[n].delegate)
      => <>[](fs[engine[n].file] # Nil /\ fs[engine[n].file].height = Tip)
-----------------------------------------------------------------------------
(* What comments of the libwallet headers ask for and the code does not do.*)

(* wallet2_api.h on createWallet, openWallet and recoveryWallet: "status() *)
(* needs to be called to check if opened successfully".  The wallet the    *)
(* store adopts is one that was.                                           *)
ActiveWalletOpened ==
  wallet # 0 => engine[wallet].ok

(* wallet/api/wallet.h: a "wallet is recovering from seed so it shouldn't  *)
(* be considered as new and pull blocks (slow-refresh) instead of pulling  *)
(* hashes (fast-refresh)".  No block of a recovered wallet's history is    *)
(* jumped over.                                                            *)
RecoveredHistoryComplete ==
  \A n \in 1 .. opened : ~engine[n].missed

(* wallet/api/wallet.h: "flag indicating wallet is recovering from seed".  *)
(* Only a wallet that was opened as recovering gets it.                    *)
FromSeedOnlyIfRecovering ==
  \A n \in 1 .. opened : engine[n].fromSeed => wrapper[n].recovering
=============================================================================
