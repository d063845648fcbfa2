# A TLA+ model of the Monujo iOS wallet

Monujo is an iOS front end for Monero's `libwallet`. About 1,500 lines of Swift
and Objective-C++ are its own; the library is linked in as a binary, of which
the repository holds only headers. The application's own logic is small, but
it joins four things that fail separately - wallet files, the user defaults,
the keychain and the wallets in memory - and three kinds of threads: the main
thread with the screens, blocks on a concurrent background queue, and one
refresh thread of the library for every wallet. That is what is modelled here,
together with those parts of the library whose bodies the vendored headers
hold.

## Inventory

| Part | State | Operations | Interacts with | What makes it correct |
|---|---|---|---|---|
| Wallet store (`WalletStore.swift`) | static `wallet`; `walletFile`, `isRecovering`, `restoreHeight` in the defaults; password in the keychain | create, open, recover, openSavedWallet, save, initWallet | libwallet through the wrappers; posts a notification; dispatches a background block | what is saved always reopens what is current; a current wallet is started; a recovery is finished |
| Tab bar (`MainViewController.swift`, storyboard) | presented screen, selected tab | `viewWillAppear` after launch, login, send, details | store | login exactly when there is no saved wallet |
| Wallet forms (create, open, recover) | text fields | `generateClicked` | store | a form that fails leaves no trace |
| Wallet tab (`WalletViewController.swift`) | `wallet`, `lastTimeRefreshed`, labels | appear, disappear, `resetWallet`, five delegate callbacks on refresh threads | store, wrapper, defaults, main queue | it shows the store's wallet; its callbacks leave the saved state consistent |
| Application delegate | none | save on entering the background | store | nothing saved is ahead of the file |
| Wallet wrapper (`Wallet.mm`) | native wallet, history, delegate, two cached daemon heights | init, `initWalletAsync`, store, getters, transactions | libwallet, delegate | heights are fresh; a late call reaches the wallet it was meant for |
| Wallet manager wrapper (`WalletManager.mm`) | native manager | create, open, recover | libwallet | failures are noticed |
| Send flow (`CreateTransaction...`, `ConfirmTransaction...`, `PendingTransaction.mm`) | form, pending transaction | check amount, create, confirm | store, wrapper | no trap; every pending transaction is committed or disposed once |
| Transaction history (`TransactionHistory*.swift/.mm`, `TransactionInfo.mm`) | array of wrappers of library pointers | appear, show cell, show details | library's refresh | no wrapper outlives what it points to |
| libwallet | wallet files, wallets, refresh threads | external | - | as its headers say |
| Making a transaction (`wallet2.h` `transfer`, `cryptonote_format_utils.h`) | one call: needed and found money, rings, outputs | sum, select, mix, split, construct | daemon | inputs are outputs and fee; rings are full and ordered |
| Berkeley DB guards (`db_bdb.h`) | transaction handles, pool of buffers | begin, commit, abort, acquire, release | database, threads | one borrower each, no lost wake-up |

Hard behaviours: handlers that write two persistent stores one after the other
and may be cut short by a kill; the background block that reads the static
wallet when it runs and not when it was made; refresh threads of wallets that
are no longer current but never closed; a tab that follows the store by
notification only while it is visible; closures queued for a wallet that is no
longer shown; pointers to objects another thread frees; a cache whose time
stamp is taken after a blocking call from a clock that can be set. In the
headers: sums and digits at the edge of a word, rings, wake-ups.
`PROJECT.json` lists them with their lines under `hazards`.

## Modules

| Module | Models |
|---|---|
| `Libwallet` | external: constant operators for what `createWallet`, `openWallet`, `recoveryWallet`, `store`, `setRecoveringFromSeed`/`setRefreshFromBlockHeight`, `initAsync` and the refresh thread do to a wallet file and a wallet |
| `WalletStore` | the life of a wallet: store, forms, tab bar, wallet tab, save, background blocks, refresh callbacks, kill and relaunch |
| `WalletStoreProofs` | its safety properties, and the refinement of `Session`, for all constants |
| `DaemonHeight` | the two cached daemon heights of a `Wallet` and the method that reads them |
| `DaemonHeightProofs` | its invariants for all constants |
| `SendFlow` | the two send screens and the pending transactions |
| `SendFlowProofs` | its invariants for all constants |
| `Session` | abstract: the saved binding as the user sees it |
| `WalletSession` | the refinement mapping from `WalletStore` to `Session` |
| `WalletView`, `WalletViewProofs` | the wallet tab's labels, the callbacks of refresh threads and the main queue |
| `TransactionHistory`, `TransactionHistoryProofs` | the table of transactions against refreshes of the history |
| `WalletTransfer` (`MCWalletTransfer`), `WalletTransferProofs` | `wallet2::transfer`: sums, rings, split strategies, the pending transaction |
| `DigitSplit`, `DigitSplitProofs` | the loop of `decompose_amount_into_digits` |
| `BdbBulkRead`, `BdbBulkReadProofs` | the guards of a transaction and of a borrowed buffer |

### WalletStore

Persistent: `fs` (file name to stored wallet), `defaults`, `keychain`. They
survive `Relaunch`, which resets everything else and may happen at any point.
A first launch finds files and defaults empty but possibly an old keychain
entry, because iOS keeps those across reinstallation.

Wallets are numbered in the order a process opens them. `engine[n]` is the
native object, `wrapper[n]` the Objective-C object: how it came about, the
arguments its `initWallet` was given, whether the wallet tab is its delegate.
No wallet is ever closed: `WalletListenerImpl` holds its `Wallet` strongly, so
`dealloc`, which would close it, does not run.

| Action | Code |
|---|---|
| `createWallet`, `openWallet`, `recoverWallet` | `generateClicked` of a form, up to the wallet the library returns |
| `savePassword` | the keychain write of a wallet created or opened by a form (there is none for a recovery) |
| `initWallet` | `WalletStore.initWallet`, a step for each of its writes: `saveWalletFile`, `saveIsRecovering`, `saveInitialHeight`; `assignWallet`, the static variable with its `didSet` notification and, if the tab observes, `resetWallet`; `dispatchBlock`, the block put on the queue, then `dismiss`, or the end of `viewWillAppear` |
| `AppearWithSavedWallet`, `AppearWithoutSavedWallet` | `MainViewController.viewWillAppear`: the selected child appears first, then `openSavedWallet` finds a wallet or the login segue is performed |
| `Cover`, `Uncover` | the send form or a transaction's details come and go; afterwards the tab bar appears again |
| `SelectWalletTab`, `SelectHistoryTab` | the wallet tab's `viewWillAppear` and `viewWillDisappear` |
| `saveRestoreHeight`, `saveStore` | `WalletStore.save` on entering the background |
| `initWalletAsync(n)` | the block dispatched for `n`, applied to whatever wallet is current when it runs |
| `Scan(n)` | one step of the library's refresh thread |
| `walletRefreshed(n)`, `walletRefreshedStore(n)` | the callback at the end of a refresh: remove the recovery mark, store |

A handler that writes persistent stores has an action for each write, tied
together by `main` (main thread) or `thread[n]` (refresh thread), so that other
threads and a kill come in between: a kill in the middle of `initWallet` pairs
the new file name with the old recovery mark.
`Relaunch` is one disjunct of `Next`, everything else is `Uninterrupted`;
`UnkilledSpec` is the second without the first.

A restore height is any number the user types, past the tip of the chain too;
such a wallet jumps over all there is of the chain.

Abstractions: a chain is a height, a wallet's history is the block it begins
in, `missed` remembers a scan that jumped over it. A refresh may end short of
the tip (the daemon is unreachable), so `walletRefreshed` is not tied to the
height. A wallet that failed to open can be started and stored without effect.
Reading the static variable from the background is atomic. The labels of the
wallet tab are in `WalletView`.

### Session

What a user sees of `WalletStore`: a binding (a file and a password, or none),
the wallet in use, and a place - at the door, in the login forms, inside. It
says that a binding is final, that forms are reachable only without one, that
everything past them runs on the wallet of the binding, and that a kill keeps
it, except that a kill in the middle of a form leaves any binding at all.
`WalletSession` maps the binding to name and password on disk whenever no form
is half done, the wallet to the file of the store's wallet, and the place to
the screen.

### WalletView

`resetWallet` and each closure is a list of lines in `todo`, executed one at a
time, because refresh threads run in between. `at[w]` is where wallet `w`'s
thread is inside a refresh: scanning, in a callback of a block, in one of a
payment, behind the nested refresh of that callback. `depth` counts nested
refreshes. `throttled` says whether more than a second has passed since
`lastTimeRefreshed`, which all threads share; the clock changes it at any time.
A closure remembers the wallet that left it only for a mutant: the code draws
the wallet that is on show when it runs. `RefreshLocked` says whether the
library holds its mutex while it calls back; the repository does not decide
that.

### TransactionHistory

A `TransactionInfo` is its wallet, the refresh that made it and its place.
What matters is when the tab appears. `MainViewController.viewWillAppear` calls
`super` first, whereupon UIKit makes the selected tab appear (`TabBarAppears`),
and opens the saved wallet afterwards (`openSavedWallet`): the tab takes the
wallet that is about to be replaced, and nothing tells it of the new one. That
`super.viewWillAppear` forwards the appearance to the selected child is
assumed of UIKit, here as in `WalletStore`. A wallet's history may be refreshed
between any two steps (`refresh`). `NativeGetAll` is the library's and copies
one refresh, since the header of its implementation declares a lock for it; no
property is about that. `read` is the object read last.

### DaemonHeight

`daemonBlockChainHeight` and `daemonBlockChainTargetHeight` are the same code
over different variables, one action each for "answer from the variable",
"call the daemon", "the daemon answers, or fails and yields 0", "store, read
the clock again, return". Time passes during the call, at most `RpcMax`. The
clock the code reads is the device's, which can be set: `setAhead` and
`setBack` add up by how much it was, each way.
`sampled` and `served` are history variables: when a cached answer was
produced, and what a getter returned last.

### SendFlow

`screen` walks through the modal: the form, the moment between
`shouldPerformSegue` and `prepare(for:)`, the confirmation screen; "trapped" is
the failed unwrapping of a transaction that was not made. Texts are abstracted
to what the code asks of them: an address is empty, valid or invalid for the
library, an amount is missing or reads as a number, 0 for a text that is none.
`createTransaction` returns an object in any case. It may have an error status
whatever the form says, and has one if the address is not valid (`CanSucceed`);
nothing is assumed about whether the library checks the funds again.
`BalanceMoves` is the refresh thread and is enabled everywhere, also between
the check and the use of the balance. Pending transactions are numbered and
stay: nothing calls `disposeTransaction` or `commit`.

### The vendored headers

The application links the library and keeps its headers. Where they hold code
and not only declarations, that code decides about money, files and threads of
this wallet, and is modelled:

- `WalletTransfer` is one call of the template `wallet2::transfer`. Exceptions
  are final phases, each by its name in the code. Which outputs
  `select_transfers` takes and which the daemon offers is outside the header:
  any list of the wallet's outputs, none twice, and for each of them any list
  of `Answers`, which need not be sorted and may repeat an output, since the
  code looks for nothing but the wallet's own. Sorting and pasting are
  `SortedWithout` and `Paste`. An amount's outputs are numbers, the
  transaction's sources and outputs are sequences of records; keys, signatures
  and sizes are left out. A payment may go to the wallet's own address, where
  its change goes too. Every loop of the function is `Turns`, a recursive
  function that lists the states after each turn: `needed_money` with the
  exceptions on the way, sums, what a strategy keeps, the digits of an amount.
- `DigitSplit` is one turn of the loop per step, with 64-bit arithmetic at the
  width `Word`; the sums handed to the two handlers are history variables.
- `BdbBulkRead`: the body of a critical section is one step; a waiting thread
  sleeps, is notified or wakes for no reason, and competes for the lock with
  newcomers. `acquire_buffer` takes any open slot where the code takes the
  first. Allocation succeeds.

## Runs

| Run | Checks | Shows |
|---|---|---|
| `wallet_store` | `TypeOK`, `RelaunchReopens`, `LoginOnlyWhenUnbound`, `SendNeverTraps`, `ShownIsCurrent`, `EnginesBacked`, `BoundForever`, `SendKeepsWallet`, `ImplementsSession` | saved state, current wallet and screens agree under all interleavings and kills, and `WalletStore` implements `Session` |
| `wallet_store_live` | `ActiveWalletStarts`, `RecoveryFlagCleared`, `StoredCatchesUp` | a current wallet is started; a recovery mark is cleared; the file of a wallet that stays current catches up with the chain, whatever earlier wallets write into it |
| `wallet_store_history` | `RecoveredHistoryComplete`, violated | a recovered wallet opened by name skips its history |
| `send_flow` | `TypeOK`, `ConfirmMatchesForm`, `TrapNeedsEmptyAddress` | one is asked to confirm only the newest transaction, for what the form says; a transfer with an address does not trap |
| `daemon_height` | `TypeOK`, `BoundedStaleness`, `CallsAreSpaced` | heights are fresh up to one time to live, one call and the time the clock was set back; no call is made within a time to live of the last answer, less the time the clock was set forwards |
| `wallet_view` | `TypeOK`, `LabelsOfShown`, `LabelsCatchUp` | labels never mix two wallets and catch up with the one on show |
| `wallet_view_locked` | `RefreshReported`, violated | if the library calls back under its mutex, a payment blocks the refresh thread on itself |
| `transaction_history` | `TypeOK`, `AtMostOneBehind` | the table lists the store's wallet or the one it has just replaced, never an earlier one or a mixture |
| `transaction_history_freed` | `ReadsAreAlive`, violated | rows and details read objects that a refresh has freed |
| `wallet_transfer` | `TypeOK`, `Balanced`, `PaidAsAsked`, `Covered`, `RingsWellFormed` | money is neither made nor lost, recipients and change get what is said, rings are ordered around the real output and as full as the answer allows |
| `digit_split` | `TypeOK`, `NothingLost`, `OneDust` | digits and dust add up to the amount |
| `bdb_bulk_read` | `TypeOK`, `BuffersAreLent`, `FreeBuffersAreExpected`, `ScopesCleanUp`, `FreeBuffersAreTaken` | a buffer has one borrower, no wake-up is lost, nothing outlives its scope |

`BoundForever` cuts both ways. That no kill loses the binding is what one
wants; that no screen leads back to login either means that a binding to a
file and a password that do not fit (see below) is final.

The three violations are findings in `PROJECT.json`, with the comment each one
contradicts. `wallet_store_history` is of a process that is not killed
(`UnkilledSpec`), so that its trace is the finding and nothing else: recover,
land on the login screen again because no password was saved, open the file by
name. `wallet_view_locked` depends on the library holding its refresh mutex
while it calls back, which its header does not say; `wallet_view` has the other
case.

### Other disagreements

Six more comments are contradicted by the code. Each has a configuration here
under which TLC finds a violation; they are not among the runs above because
each is a few steps long and plain from the lines.

| Configuration (module) | Property | Disagreement |
|---|---|---|
| `WalletStoreOpened.cfg` (`WalletStore`) | `ActiveWalletOpened` | nobody calls `status()` although `wallet2_api.h` asks for it: a wallet that failed to open becomes current and its wrong password is saved |
| `WalletStoreFromSeed.cfg` (`WalletStore`) | `FromSeedOnlyIfRecovering` | a late block of `initWallet` marks the next wallet as recovering from a seed |
| `SendFlowTrap.cfg` (`SendFlow`) | `TransactionSetBeforeUse` | a transfer without an address unwraps nil in `viewDidLoad` |
| `SendFlowLeak.cfg` (`SendFlow`) | `FailedTransactionDeleted` | a failed transaction is kept; "we don't want memleaks" |
| `DaemonHeightCache.cfg` (`DaemonHeight`) | `CachedForSixtySeconds` | the height is refetched after ten seconds, "60 seconds by default" |
| `WalletTransferRings.cfg` (`MCWalletTransfer`) | `RingsAreFull` | one output more is asked for "to make possible (if need) to skip real output key", but an answer with one less is accepted: the ring is then one short |

### Hazards without a property

Some of the hazards in `PROJECT.json` have no property, since what one could
say of them is either false already or only repeats the model:

- A kill between the password and the file name (`WalletStore.swift:72`) does
  leave a pair that does not open. `RelaunchReopens` and `BoundForever` leave
  the half-done form out, by name.
- A kill inside `save` or `walletRefreshed` (`WalletStore.swift:134`,
  `WalletViewController.swift:105`) can make a recovery skip blocks. The
  property it would break, `RecoveredHistoryComplete`, is broken without one.
- The balance between its check and its use
  (`CreateTransactionViewController.swift:33`): the application does not check
  again, and what the library does is not in the repository.
- Memory: wallets that are never closed, pending transactions that are never
  disposed. The models have none.

Two are covered in part. `TrapNeedsEmptyAddress` says when the transfer traps,
not that it does not (`SendFlowTrap.cfg` shows that it does).
`RingsWellFormed` says that a ring holds an output twice exactly where the
daemon's answer does, and is short exactly where the answer is; that answers
have neither fault is not ensured by any line (`WalletTransferRings.cfg`).

### Bounds and fairness

Bounds. `wallet_store` has two files and two passwords, one of them the empty
password a recovered wallet gets, so that names and passwords can be mixed up;
two wallets in one run of the process, enough for a wallet and its successor,
any number of runs of the process; a chain of one block, the first of a
recovered wallet's history, and restore heights before it and past the tip.
`wallet_store_history` has a second block, so that a jump to the tip can pass
the first. `wallet_store_live` has one file and one password, because its
properties do not depend on which wallet a name belongs to; what they need is
two wallets on one file. The theorems remove these bounds.

`daemon_height` has times to live of 1 and 2, calls of up to 1, and a clock set
by up to 1 each way within six units of time, so that a height can expire after
a slow call and be kept alive by a clock set back. `DaemonHeightCache.cfg`
counts in units of ten seconds, so that the times to live are the 10 and 60
seconds of the code. `send_flow` has balances up to 2 and three transactions,
enough to go back and transfer again with another amount, twice.

`wallet_view` has two wallets, two blocks and two payments each, callbacks
nested once and a queue of two, so that a closure of the earlier wallet waits
behind one of the later. `transaction_history` has four wallets, so that a
table that missed one appearance is seen to be two behind, each refreshed
twice, to histories of 0 to 2 entries that grow and shrink.

`wallet_transfer` has amounts below 100, up to two destinations, one of them
the wallet itself, and two outputs to spend, 40 and 27, so that payments need
one or both and sums wrap; thresholds 0 and 6 put a digit of the change among
the dust or not; of the nine lists that answer a request to mix in two outputs,
one is too short and the others are exact or longer, in order and not, with one
of the wallet's outputs or both, with repetitions. `digit_split` runs all
amounts and thresholds of eight bits, with up to three digits, the last of
which makes `order` wrap. `bdb_bulk_read` has more threads than buffers by two,
so that two sleep.

Deadlock checking is off for `WalletStore`: a user may do nothing, and a run of
the process that reached `MaxWallets` waits for a relaunch. It is off for
`WalletTransfer` and `DigitSplit`, which are calls that return. It is on
everywhere else; in `BdbBulkRead` it is a property by itself, that of not
everyone sleeping.

Fairness. `wallet_store_live`: a dispatched block runs; the refresh thread of a
started wallet keeps finishing refreshes, as its loop does; a callback it has
begun goes on. `StoredCatchesUp` also
assumes, in its own statement (`DaemonAnswers`), a daemon that keeps answering:
a refresh thread that can scan again and again does (strong fairness, since
the end of each refresh takes the chance away for a while). The user
owes the application nothing, and the process may be killed at any time. Since
a kill, like a new wallet, ends "this wallet is current", these properties
speak of a wallet that stays current. `wallet_view`: the main thread goes on
with its handler and takes closures off its queue; a started wallet is
refreshed again, as the library's loop does, and a thread goes on with what it
began. Blocks, payments and the throttle owe nothing, so the labels do not
depend on the one-second clock to be caught up. `bdb_bulk_read`: a thread that
can go on does; the lock is not handed out in turn, and nothing says which
thread is notified. All other runs check safety only.

## Proofs

`DaemonInv` (`DaemonHeightProofs`) adds to the checked invariants that a
cached height was sampled at most `RpcMax` before its time stamp and not after
it, but for what the clock was set, and that the
call under way began at most `RpcMax` ago; without it a cached value could be
arbitrarily old when its age is first computed, or a stamp older than its
answer. `StalenessIsBounded` and `SecondCallWaits` follow for all times to live,
call durations and chains.

`StoreInv` (`WalletStoreProofs`) is the inductive invariant of `WalletStore`:

- `EnginesBacked`: every wallet that opened has its file, under its password.
  Without it a late `store` of an old wallet could create a file and thereby
  bind the application behind the login screen.
- `Stages`: which handler can be half done on which screen; a wallet that
  `viewWillAppear` is opening again is the saved one.
- `Described`: name and password on disk are those of the current wallet, or
  of the one being adopted.
- `Shown`: the wallet tab's half of `ShownIsCurrent`, inside handlers too.

One lemma per library call says what it returns, one per action that it
preserves `StoreInv`. From it come `TypeCorrect`, `RelaunchFindsTheWallet`,
`NoLoginWhenBound`, `UnwrapIsSafe`, `TabFollowsStore` and, as action
properties, `BindingIsFinal` and `SendWalletIsStable`. The assumptions are
those of the modules: the empty password is a password, `Nil` is none of the
values it stands in for, restore heights are numbers, there is a file name.

`SendInv` (`SendFlowProofs`) carries what `shouldPerformSegue` found over to
the making of the transaction (an amount was typed) and says that the
confirmation screen has the newest transaction: `AskedAboutTheForm`. With it,
`TrapOnlyWithoutAddress` says that nothing but an address can be missing.

`EveryEngineIsBacked` is the conjunct `EnginesBacked` by itself: whatever old
wallets store, and when, no file ends up under another wallet's password.

`StoreImplementsSession` (`WalletStoreProofs`) is the refinement: from the same
`StoreInv`, each action of `WalletStore` is one of `Session`'s or changes none
of the three mapped variables. `BindingKept` is the lemma most of them rest on:
if no store that decides about the binding changes, and no form begins or ends,
the binding does not change.

`ViewTypeCorrect` and `LabelsBelongTogether` (`WalletViewProofs`) rest on
`Drawn`: a label that is not of the wallet on show is still to be drawn by the
lines left in `todo`, of which there are only six lists.

`HistoryInv` (`TransactionHistoryProofs`) adds that while the tab bar opens the
saved wallet, a selected history tab has just taken the store's, and that no
tab is on screen without a wallet; `TableLagsByOne` follows for any number of
wallets and refreshes.

`PoolInv` (`BdbBulkReadProofs`) adds that a thread holds a buffer exactly while
it reads. `OneBorrowerEach` and `NoWakeupIsLost` then hold for every finite
set of threads and any number of buffers; the counting is done with the
library's theorems on cardinalities. `GuardsHold`, the same for transactions,
is inductive relative to it and gives `NothingOutlivesItsScope`: `ScopesCleanUp`
whichever step of a read throws.

`LoopInv` (`DigitSplitProofs`) says that while digits are left, `order` is
their true worth and what was cut so far adds up, and that once a chunk was
paid every digit to come is worth more than the dust has room for.
`SplitLosesNothing` and `DustIsOnePiece` hold for integers of any width and do
not depend on what wraps after the last digit.

`TransferInv` (`WalletTransferProofs`) says what each phase of a call to
`transfer` knows: once it is summed, `needed_money` is the fee and all
destinations, as integers; what is selected is worth `found_money` and covers
it; the answers that are mixed are large enough. The four properties of the
run are conjuncts of it. The work is in what the loops compute:

- `TotalConcat`, `TotalPlus`: a sum over a sequence is additive, in its length
  and in its terms. `SumOf` and `PaidTo` are the same sum under two weights of an
  entry (`Worth`), so each fact about lists of payments is proved once and gives
  both who pays and who is paid.
- `CuttingTotal`: while a digit is left, what is left times its power of ten
  plus the chunks so far is the amount, and the running `order` is that power,
  so that no product that is used wraps.
- `KeptSplits`: what a strategy puts among the dust and what it does not are
  together what there was. `DigitSplitWorth`, `NullSplitWorth` and
  `OutputsWorth` put these together: `MoneyIsConserved`, `RecipientsArePaid`.
- `SumWraps`, `NeededIs`: a sum that wraps is smaller than its last term, so
  without an exception nothing wrapped: `InputsCover`.
- `PlaceCuts`, `PasteIs`, `SortedIs`, `PrefixIs`: a number cuts a rising list in
  two, pasted in between it keeps the order; a list put together by pasting is
  in order and has the entries it was made of, and so has what is taken from
  its front: `SourceIs`, `RingsAreOrdered`.

These are inductions. The library's rule for natural numbers takes a predicate
as a parameter, which the provers cannot instantiate; `Induction` and
`BoundedInduction` are stated with a set instead, and follow from the theorem
that a well-founded set has a least element. `LoopExists` uses them to show
that a loop has its states, whence the equations of each `Turns` follow. The
assumptions are `WalletTransferAssumption`: arguments fit in a `uint64_t`; all
outputs of a wallet together do too, as `MONEY_SUPPLY` does; `Digits` decimal
digits are enough for a `uint64_t`; the wallet's own address and those of a dust
policy are addresses. How many destinations, outputs and digits there are, and
which lists of numbers the daemon answers, is arbitrary.

`HeightsTypeCorrect`, `SendFlowTypeCorrect`, `ViewTypeCorrect`,
`HistoryTypeCorrect`, `PoolTypeCorrect`, `SplitTypeCorrect`,
`TransferTypeCorrect` and `TypeCorrect` are the type invariants.

Every safety property of the passing runs is a theorem. Only model-checked: the
liveness properties (`ActiveWalletStarts`, `RecoveryFlagCleared`,
`StoredCatchesUp`, `LabelsCatchUp`, `FreeBuffersAreTaken`), because TLAPS has no
rules for fairness, and that `construct_tx` and the other steps are reached at
all.

## Not modelled

- The wallet library's implementation: the repository has headers and a
  binary. `Libwallet` says what the application depends on.
- Of the vendored headers, everything that is a declaration, a constant, a
  table, a list of fields to serialize, a comment or a licence. They are
  42,000 lines, a third of which are eight word lists; some 1,500 lines are
  inline code. Of that code, what makes a transaction and what guards the
  database is in the modules above; varints, wide integers, task regions, peer
  lists and the loading of older wallet files are not.
  The application's own logic is in Swift and Objective-C++ files. The map
  therefore names a small share of the header lines and most of the lines of
  the application that do anything.
- Of `wallet2.h`: keys, key images, signatures and the choice of outputs,
  whose bodies are elsewhere.
- The wrapper's methods that pass a call on without state of their own, and
  those nobody calls (`closeWallet`, `findWalletsInPath`, `setDaemonHost`,
  `commit`, `disposeTransaction`).
- The listener's strong reference to its `Wallet`: the models have no memory.
  That no wallet is ever closed, its consequence, is in `WalletStore`.
- Formatting of labels; layout; tests, which are empty templates; build and
  release scripts.
