------------------------------ MODULE Libwallet ------------------------------
(***************************************************************************)
(* The libwallet engine (Monero::WalletManager, Monero::Wallet) as far as  *)
(* the application uses it.  Its implementation is linked in as a library  *)
(* and is not part of the repository; these constant operators say what    *)
(* its calls do to a wallet file and to the in-memory wallet, from the     *)
(* declarations and comments of wallet2_api.h and wallet/api/wallet.h.     *)
(*                                                                         *)
(* A wallet has scanned the blocks 0 .. height-1 of a chain of Tip blocks. *)
(* A wallet made from a seed has a history that begins in block Birth;     *)
(* "missed" remembers that a scan jumped over a block of that history.     *)
(***************************************************************************)
EXTENDS Naturals

CONSTANTS
  Files,          \* names a user may give a wallet file
  Passwords,      \* passwords a user may type, the empty one included
  EmptyPassword,  \* the password libwallet gives a recovered wallet
  Nil,            \* no file, no name or no password
  Tip,            \* length of the block chain
  Birth           \* first block that pays a wallet recovered from a seed

ASSUME LibwalletAssumption ==
  /\ EmptyPassword \in Passwords
  /\ Tip \in Nat
  /\ Birth \in 0 .. Tip

Heights == 0 .. Tip

(* A wallet file.                                                          *)
Stored == [password: Passwords, restored: BOOLEAN, height: Heights,
           missed: BOOLEAN]
FileSystem == [Files -> Stored \cup {Nil}]

ASSUME NilAssumption ==
  Nil \notin Files /\ Nil \notin Passwords /\ Nil \notin Stored

(* What a Monero::Wallet object holds.  ok: status() = Status_Ok; running: *)
(* its refresh thread was started by initAsync.                            *)
Engine == [ok: BOOLEAN, file: Files, password: Passwords, restored: BOOLEAN,
           height: Heights, missed: BOOLEAN, fromSeed: BOOLEAN,
           from: Nat, running: BOOLEAN]

Fresh(f, p) ==
  [ok |-> TRUE, file |-> f, password |-> p, restored |-> FALSE, height |-> 0,
   missed |-> FALSE, fromSeed |-> FALSE, from |-> 0, running |-> FALSE]

Failed(f, p) == [Fresh(f, p) EXCEPT !.ok = FALSE]

(* createWallet never overwrites a file; a failure shows only in status(). *)
NativeCreate(fs, f, p) ==
  IF fs[f] = Nil THEN Fresh(f, p) ELSE Failed(f, p)

(* openWallet needs the file and its password.                             *)
NativeOpen(fs, f, p) ==
  IF fs[f] # Nil /\ fs[f].password = p
  THEN [Fresh(f, p) EXCEPT !.restored = fs[f].restored,
                           !.height = fs[f].height,
                           !.missed = fs[f].missed]
  ELSE Failed(f, p)

(* recoveryWallet takes no password and needs a well-formed seed.          *)
NativeRecover(fs, f, seedValid, restoreHeight) ==
  IF fs[f] = Nil /\ seedValid
  THEN [Fresh(f, EmptyPassword) EXCEPT !.restored = TRUE,
                                       !.fromSeed = TRUE,
                                       !.from = restoreHeight]
  ELSE Failed(f, EmptyPassword)

(* store("") writes the wallet back to its own file.  A new wallet is      *)
(* written once by createWallet or recoveryWallet already.                 *)
NativeStore(fs, e) ==
  IF e.ok
  THEN [fs EXCEPT ![e.file] =
          [password |-> e.password, restored |-> e.restored,
           height |-> e.height, missed |-> e.missed]]
  ELSE fs

(* A wallet that has scanned nothing counts as new unless it is recovering *)
(* from a seed; a new wallet starts at the tip (fast refresh).             *)
ConsideredNew(e) == e.height = 0 /\ ~e.fromSeed

SetRecovering(e, restoreHeight) ==
  [e EXCEPT !.fromSeed = TRUE, !.from = restoreHeight]

NativeInitAsync(e) ==
  [e EXCEPT !.from = IF ConsideredNew(e) THEN Tip ELSE @, !.running = TRUE]

(* The refresh thread advances: over all blocks below "from" at once, as   *)
(* far as the chain goes, or through one block.                            *)
CanScan(e) == e.ok /\ e.running /\ e.height < Tip

JumpedTo(e) == IF e.from < Tip THEN e.from ELSE Tip

NativeScan(e) ==
  IF e.height < e.from
  THEN [e EXCEPT !.height = JumpedTo(e),
                 !.missed = @ \/ (e.restored /\ Birth < JumpedTo(e))]
  ELSE [e EXCEPT !.height = @ + 1]
=============================================================================
