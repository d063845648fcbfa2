-------------------------- MODULE WalletStoreProofs --------------------------
(***************************************************************************)
(* The safety properties of WalletStore for any number of files, passwords *)
(* and wallets, and any length of the chain, and that WalletStore          *)
(* implements Session.                                                     *)
(***************************************************************************)
EXTENDS WalletSession, TLAPS

(* Which handlers can be unfinished on which screen, and what a wallet     *)
(* that viewWillAppear is opening again has to do with the one saved.      *)
Stages ==
  /\ main \in Adopting => opened # 0 /\ screen \in {"login", "appearing"}
  /\ main \in Adopting /\ screen = "appearing" =>
       /\ Bound
       /\ engine[opened].file = defaults.walletFile
       /\ engine[opened].password = keychain
  /\ main \in {"store", "async"} => wallet # 0

(* The keychain has the password of wallet n, unless n was recovered.      *)
KeyOf(n) == wrapper[n].how # "recover" => keychain = engine[n].password

(* The persistent stores describe the next wallet as far as the handler    *)
(* got, and the current one unless a form is half done.                    *)
Described ==
  /\ main \in Adopting \ {"keychain"} => KeyOf(opened)
  /\ main \in Adopting \ {"keychain", "walletFile"} =>
       defaults.walletFile = engine[opened].file
  /\ ~FormHalfDone /\ wallet # 0 =>
       KeyOf(wallet) /\ defaults.walletFile = engine[wallet].file

(* ShownIsCurrent, in the middle of handlers too.                          *)
Shown ==
  observing => /\ shown = wallet
               /\ wallet # 0 => wrapper[wallet].delegate

StoreInv ==
  /\ TypeOK
  /\ EnginesBacked
  /\ Stages
  /\ Described
  /\ Shown
  /\ SendNeverTraps
  /\ LoginOnlyWhenUnbound

(* Heights typed are numbers, heights scanned are too.                     *)
LEMMA SavedAreNumbers == SavedHeights \subseteq Nat /\ 0 \in SavedHeights
  BY LibwalletAssumption, WalletStoreAssumption DEF SavedHeights, Heights

(* A step that keeps the files, the file name and the key keeps Bound.     *)
LEMMA StoresKept ==
  ASSUME fs' = fs, defaults'.walletFile = defaults.walletFile,
         keychain' = keychain
  PROVE  Bound' <=> Bound
  BY DEF Bound, savedWalletExists
-----------------------------------------------------------------------------
(* What the calls of libwallet return.                                     *)

LEMMA FreshType ==
  ASSUME NEW f \in Files, NEW p \in Passwords
  PROVE  /\ Fresh(f, p) \in Engine /\ Failed(f, p) \in Engine
         /\ ~Failed(f, p).ok
         /\ Failed(f, p).file = f /\ Failed(f, p).password = p
<1>1. 0 \in Heights
  BY LibwalletAssumption DEF Heights
<1>2. Fresh(f, p) \in Engine
  BY <1>1 DEF Fresh, Engine
<1> QED
  BY <1>1, <1>2 DEF Fresh, Failed, Engine

LEMMA CreateResult ==
  ASSUME fs \in FileSystem, NEW f \in Files, NEW p \in Passwords
  PROVE  /\ NativeCreate(fs, f, p) \in Engine
         /\ NativeCreate(fs, f, p).file = f
         /\ NativeCreate(fs, f, p).password = p
         /\ NativeCreate(fs, f, p).ok => fs[f] = Nil
  BY FreshType DEF NativeCreate, Fresh

LEMMA OpenResult ==
  ASSUME fs \in FileSystem, NEW f \in Files, NEW p \in Passwords
  PROVE  /\ NativeOpen(fs, f, p) \in Engine
         /\ NativeOpen(fs, f, p).file = f
         /\ NativeOpen(fs, f, p).password = p
         /\ NativeOpen(fs, f, p).ok <=> fs[f] # Nil /\ fs[f].password = p
<1>1. CASE fs[f] # Nil /\ fs[f].password = p
  <2>1. fs[f] \in Stored
    BY <1>1 DEF FileSystem
  <2> QED
    BY <1>1, <2>1, FreshType DEF NativeOpen, Fresh, Stored, Engine
<1>2. CASE ~(fs[f] # Nil /\ fs[f].password = p)
  BY <1>2, FreshType DEF NativeOpen
<1> QED
  BY <1>1, <1>2

LEMMA RecoverResult ==
  ASSUME fs \in FileSystem, NEW f \in Files, NEW seedValid \in BOOLEAN,
         NEW h \in Nat
  PROVE  /\ NativeRecover(fs, f, seedValid, h) \in Engine
         /\ NativeRecover(fs, f, seedValid, h).file = f
         /\ NativeRecover(fs, f, seedValid, h).ok => fs[f] = Nil
<1> DEFINE e == NativeRecover(fs, f, seedValid, h)
<1>1. CASE fs[f] = Nil /\ seedValid
  <2>1. EmptyPassword \in Passwords
    BY LibwalletAssumption
  <2>2. e = [Fresh(f, EmptyPassword) EXCEPT !.restored = TRUE,
                                            !.fromSeed = TRUE, !.from = h]
    BY <1>1, Zenon DEF NativeRecover
  <2>3. e \in Engine /\ e.file = f
    <3>1. Fresh(f, EmptyPassword) \in Engine
      BY <2>1, FreshType
    <3>2. Fresh(f, EmptyPassword).file = f
      BY DEF Fresh
    <3> HIDE DEF e
    <3> QED
      BY <2>2, <3>1, <3>2 DEF Engine
  <2> QED
    BY <1>1, <2>3, Zenon
<1>2. CASE ~(fs[f] = Nil /\ seedValid)
  BY <1>2, FreshType, LibwalletAssumption DEF NativeRecover
<1> QED
  BY <1>1, <1>2

(* store() on a wallet whose file is new or its own loses no file and      *)
(* changes no password.                                                    *)
LEMMA StoreResult ==
  ASSUME fs \in FileSystem, NEW e \in Engine,
         e.ok => fs[e.file] = Nil \/ fs[e.file].password = e.password
  PROVE  /\ NativeStore(fs, e) \in FileSystem
         /\ e.ok => /\ NativeStore(fs, e)[e.file] # Nil
                    /\ NativeStore(fs, e)[e.file].password = e.password
         /\ \A f \in Files : fs[f] # Nil =>
              /\ NativeStore(fs, e)[f] # Nil
              /\ NativeStore(fs, e)[f].password = fs[f].password
<1> DEFINE r == [password |-> e.password, restored |-> e.restored,
                 height |-> e.height, missed |-> e.missed]
<1>1. r \in Stored /\ r # Nil /\ e.file \in Files
  BY NilAssumption DEF Engine, Stored
<1>2. CASE e.ok
  <2>1. NativeStore(fs, e) = [fs EXCEPT ![e.file] = r]
    BY <1>2 DEF NativeStore
  <2>2. r.password = e.password
    OBVIOUS
  <2> HIDE DEF r
  <2> QED
    BY <1>1, <1>2, <2>1, <2>2 DEF FileSystem
<1>3. CASE ~e.ok
  BY <1>3 DEF NativeStore
<1> QED
  BY <1>2, <1>3

(* initAsync and the refresh thread touch neither file nor password.       *)
LEMMA InitAsyncResult ==
  ASSUME NEW e \in Engine, NEW recovering \in BOOLEAN, NEW h \in Nat
  PROVE  LET r == NativeInitAsync(IF recovering THEN SetRecovering(e, h) ELSE e)
         IN  /\ r \in Engine
             /\ r.ok = e.ok /\ r.file = e.file /\ r.password = e.password
<1> DEFINE s == IF recovering THEN SetRecovering(e, h) ELSE e
           from == IF ConsideredNew(s) THEN Tip ELSE s.from
<1>1. /\ s \in Engine
      /\ s.ok = e.ok /\ s.file = e.file /\ s.password = e.password
  BY DEF SetRecovering, Engine
<1>2. from \in Nat
  BY <1>1, LibwalletAssumption DEF Engine
<1>3. NativeInitAsync(s) = [s EXCEPT !.from = from, !.running = TRUE]
  BY DEF NativeInitAsync
<1> HIDE DEF s, from
<1>4. /\ NativeInitAsync(s) \in Engine
      /\ NativeInitAsync(s).ok = s.ok /\ NativeInitAsync(s).file = s.file
      /\ NativeInitAsync(s).password = s.password
  BY <1>1, <1>2, <1>3 DEF Engine
<1> QED
  BY <1>1, <1>4 DEF s

LEMMA ScanResult ==
  ASSUME NEW e \in Engine, CanScan(e)
  PROVE  /\ NativeScan(e) \in Engine
         /\ NativeScan(e).ok = e.ok /\ NativeScan(e).file = e.file
         /\ NativeScan(e).password = e.password
<1>1. e.height + 1 \in Heights
  BY LibwalletAssumption DEF CanScan, Engine, Heights
<1>2. CASE e.height < e.from
  <2> DEFINE missed == e.missed \/ (e.restored /\ Birth < JumpedTo(e))
  <2>1. NativeScan(e) = [e EXCEPT !.height = JumpedTo(e), !.missed = missed]
    BY <1>2 DEF NativeScan
  <2>2. missed \in BOOLEAN /\ JumpedTo(e) \in Heights
    BY LibwalletAssumption DEF Engine, JumpedTo, Heights
  <2> HIDE DEF missed
  <2> QED
    BY <2>1, <2>2 DEF Engine
<1>3. CASE ~(e.height < e.from)
  BY <1>1, <1>3 DEF NativeScan, Engine
<1> QED
  BY <1>2, <1>3
-----------------------------------------------------------------------------
LEMMA EmptySlots ==
  NoEngine \in Engine /\ ~NoEngine.ok /\ NoWrapper \in Wrapper
<1>1. (CHOOSE f \in Files : TRUE) \in Files
  BY WalletStoreAssumption
<1> QED
  BY <1>1, SavedAreNumbers, FreshType, LibwalletAssumption
  DEF NoEngine, NoWrapper, Wrapper

LEMMA StoreInit == Init => StoreInv
<1> SUFFICES ASSUME Init PROVE StoreInv
  OBVIOUS
<1>1. 0 \in SavedHeights
  BY SavedAreNumbers
<1>2. TypeOK
  <2>1. opened \in 0 .. MaxWallets
    BY WalletStoreAssumption DEF Init
  <2>2. defaults \in [walletFile: Files \cup {Nil}, isRecovering: BOOLEAN,
                      restoreHeight: SavedHeights]
    BY <1>1 DEF Init
  <2>3. /\ engine \in [Wallets -> Engine]
        /\ wrapper \in [Wallets -> Wrapper]
        /\ thread \in [Wallets -> {"idle", "storing"}]
        /\ fs \in FileSystem
    BY EmptySlots DEF Init, FileSystem
  <2>4. /\ wallet \in 0 .. opened /\ shown \in 0 .. opened
        /\ blocks \subseteq 1 .. opened
    BY DEF Init
  <2> QED
    BY <2>1, <2>2, <2>3, <2>4 DEF Init, TypeOK, Screens
<1>3. EnginesBacked
  BY EmptySlots DEF Init, EnginesBacked
<1> QED
  BY <1>2, <1>3 DEF Init, StoreInv, Stages, Described, Adopting, Shown,
      SendNeverTraps, LoginOnlyWhenUnbound

(* A new wallet takes the next slot and leaves the others alone.           *)
LEMMA AdoptResult ==
  ASSUME TypeOK, NEW ws \in [Wallets -> Wrapper], NEW e \in Engine,
         NEW how \in {"create", "open", "recover"},
         NEW recovering \in BOOLEAN, NEW h \in SavedHeights,
         Adopt(ws, e, how, recovering, h)
  PROVE  /\ opened' = opened + 1 /\ opened' \in Wallets
         /\ opened' \in 0 .. MaxWallets
         /\ \A n \in 0 .. opened : n \in 0 .. opened' /\ n # opened'
         /\ \A n \in 1 .. opened : n \in 1 .. opened'
         /\ \A n \in 0 .. opened : n # 0 => n \in Wallets
         /\ engine' \in [Wallets -> Engine]
         /\ wrapper' \in [Wallets -> Wrapper]
         /\ engine'[opened'] = e
         /\ wrapper'[opened'].how = how
         /\ wrapper'[opened'].recovering = recovering
         /\ \A n \in Wallets : n # opened' =>
              engine'[n] = engine[n] /\ wrapper'[n] = ws[n]
         /\ main' = IF how = "recover" THEN "walletFile" ELSE "keychain"
<1>1. /\ opened \in 0 .. MaxWallets /\ opened < MaxWallets
      /\ opened' = opened + 1
  BY DEF TypeOK, Adopt
<1>2. /\ opened' \in Wallets /\ opened' \in 0 .. MaxWallets
      /\ \A n \in 0 .. opened : n \in 0 .. opened' /\ n # opened'
      /\ \A n \in 1 .. opened : n \in 1 .. opened'
      /\ \A n \in 0 .. opened : n # 0 => n \in Wallets
  BY <1>1, WalletStoreAssumption DEF Wallets
<1>3. [how |-> how, recovering |-> recovering, restoreHeight |-> h,
       delegate |-> FALSE] \in Wrapper
  BY DEF Wrapper
<1>4. /\ engine' = [engine EXCEPT ![opened'] = e]
      /\ wrapper' = [ws EXCEPT ![opened'] =
                       [how |-> how, recovering |-> recovering,
                        restoreHeight |-> h, delegate |-> FALSE]]
      /\ main' = IF how = "recover" THEN "walletFile" ELSE "keychain"
  BY <1>1 DEF Adopt
<1>5. engine \in [Wallets -> Engine]
  BY DEF TypeOK
<1> QED
  BY <1>1, <1>2, <1>3, <1>4, <1>5

(* Everything a form of the login screen has in common: a wallet e is      *)
(* adopted and its file, if any, is written.                               *)
LEMMA FormStep ==
  ASSUME StoreInv, NEW e \in Engine, NEW how \in {"create", "open", "recover"},
         NEW recovering \in BOOLEAN, NEW h \in SavedHeights,
         main = "idle", screen = "login",
         Adopt(wrapper, e, how, recovering, h),
         fs' \in FileSystem,
         \A f \in Files : fs[f] # Nil =>
           fs'[f] # Nil /\ fs'[f].password = fs[f].password,
         e.ok => fs'[e.file] # Nil /\ fs'[e.file].password = e.password,
         UNCHANGED <<defaults, keychain, wallet, blocks, thread, screens>>
  PROVE  StoreInv'
<1>1. TypeOK /\ wrapper \in [Wallets -> Wrapper]
  BY DEF StoreInv, TypeOK
<1>2. /\ opened' = opened + 1 /\ opened' \in Wallets
      /\ opened' \in 0 .. MaxWallets
      /\ \A n \in 0 .. opened : n \in 0 .. opened' /\ n # opened'
      /\ \A n \in 1 .. opened : n \in 1 .. opened'
      /\ \A n \in 0 .. opened : n # 0 => n \in Wallets
      /\ engine' \in [Wallets -> Engine]
      /\ wrapper' \in [Wallets -> Wrapper]
      /\ engine'[opened'] = e
      /\ wrapper'[opened'].how = how
      /\ wrapper'[opened'].recovering = recovering
      /\ \A n \in Wallets : n # opened' =>
           engine'[n] = engine[n] /\ wrapper'[n] = wrapper[n]
      /\ main' \in {"keychain", "walletFile"}
      /\ main' = "walletFile" => how = "recover"
  BY <1>1, AdoptResult
<1>3. TypeOK'
  BY <1>1, <1>2 DEF TypeOK, screens, Adopting
<1>4. EnginesBacked'
  BY <1>1, <1>2 DEF StoreInv, EnginesBacked, TypeOK, Engine
<1>5. Stages' /\ Described'
  BY <1>1, <1>2
  DEF Stages, Described, KeyOf, FormHalfDone, Adopting, screens, TypeOK, Wallets
<1>6. Shown'
  BY <1>1, <1>2 DEF StoreInv, Shown, screens, TypeOK
<1>7. SendNeverTraps' /\ LoginOnlyWhenUnbound'
  BY <1>2 DEF StoreInv, SendNeverTraps, LoginOnlyWhenUnbound, screens, Adopting
<1> QED
  BY <1>3, <1>4, <1>5, <1>6, <1>7 DEF StoreInv

LEMMA CreateStep ==
  ASSUME StoreInv, NEW f \in Files, NEW p \in Passwords, createWallet(f, p)
  PROVE  StoreInv'
<1> DEFINE e == NativeCreate(fs, f, p)
<1>1. fs \in FileSystem
  BY DEF StoreInv, TypeOK
<1>2. /\ e \in Engine /\ e.password = p
      /\ e.ok => fs[e.file] = Nil
  BY <1>1, CreateResult
<1>3. /\ main = "idle" /\ screen = "login"
      /\ Adopt(wrapper, e, "create", FALSE, 0)
      /\ fs' = NativeStore(fs, e)
      /\ UNCHANGED <<defaults, keychain, wallet, blocks, thread, screens>>
  BY DEF createWallet
<1> HIDE DEF e
<1>4. /\ fs' \in FileSystem
      /\ e.ok => fs'[e.file] # Nil /\ fs'[e.file].password = e.password
      /\ \A g \in Files : fs[g] # Nil =>
           fs'[g] # Nil /\ fs'[g].password = fs[g].password
  BY <1>1, <1>2, <1>3, StoreResult
<1> QED
  BY <1>2, <1>3, <1>4, SavedAreNumbers, FormStep

LEMMA OpenStep ==
  ASSUME StoreInv, NEW f \in Files, NEW p \in Passwords, openWallet(f, p)
  PROVE  StoreInv'
<1> DEFINE e == NativeOpen(fs, f, p)
<1>1. fs \in FileSystem
  BY DEF StoreInv, TypeOK
<1>2. /\ e \in Engine /\ e.password = p
      /\ e.ok => fs[e.file] # Nil /\ fs[e.file].password = e.password
  BY <1>1, OpenResult
<1>3. /\ main = "idle" /\ screen = "login"
      /\ Adopt(wrapper, e, "open", FALSE, 0)
      /\ fs' = fs
      /\ UNCHANGED <<defaults, keychain, wallet, blocks, thread, screens>>
  BY DEF openWallet, persistent
<1> HIDE DEF e
<1> QED
  BY <1>1, <1>2, <1>3, SavedAreNumbers, FormStep

LEMMA RecoverStep ==
  ASSUME StoreInv, NEW f \in Files, NEW seedValid \in BOOLEAN,
         NEW h \in RestoreHeights, recoverWallet(f, seedValid, h)
  PROVE  StoreInv'
<1> DEFINE e == NativeRecover(fs, f, seedValid, h)
<1>1. fs \in FileSystem /\ h \in SavedHeights /\ h \in Nat
  BY SavedAreNumbers DEF StoreInv, TypeOK, SavedHeights
<1>2. e \in Engine /\ (e.ok => fs[e.file] = Nil)
  BY <1>1, RecoverResult
<1>3. /\ main = "idle" /\ screen = "login"
      /\ Adopt(wrapper, e, "recover", TRUE, h)
      /\ fs' = NativeStore(fs, e)
      /\ UNCHANGED <<defaults, keychain, wallet, blocks, thread, screens>>
  BY DEF recoverWallet
<1> HIDE DEF e
<1>4. /\ fs' \in FileSystem
      /\ e.ok => fs'[e.file] # Nil /\ fs'[e.file].password = e.password
      /\ \A g \in Files : fs[g] # Nil =>
           fs'[g] # Nil /\ fs'[g].password = fs[g].password
  BY <1>1, <1>2, <1>3, StoreResult
<1> QED
  BY <1>1, <1>2, <1>3, <1>4, FormStep
-----------------------------------------------------------------------------
(* What every step of a handler that is adopting a wallet has in common:   *)
(* it writes a default or the keychain, the right one if it is the file's  *)
(* name or the password, and nothing new in viewWillAppear.                *)
LEMMA AdoptingStep ==
  ASSUME StoreInv, main \in Adopting \ {"wallet", "async"},
         main' \in Adopting \ {"keychain", "async"},
         keychain' \in Passwords \cup {Nil},
         defaults' \in [walletFile: Files \cup {Nil}, isRecovering: BOOLEAN,
                        restoreHeight: SavedHeights],
         KeyOf(opened)',
         main' # "walletFile" => defaults'.walletFile = engine[opened].file,
         screen = "appearing" => /\ defaults'.walletFile = defaults.walletFile
                                 /\ keychain' = keychain,
         UNCHANGED <<fs, process, screens>>
  PROVE  StoreInv'
<1>1. /\ TypeOK /\ opened # 0 /\ screen \in {"login", "appearing"}
      /\ screen = "appearing" =>
           /\ Bound
           /\ engine[opened].file = defaults.walletFile
           /\ engine[opened].password = keychain
  BY DEF StoreInv, Stages
<1>2. UNCHANGED <<fs, opened, engine, wrapper, wallet, blocks, thread, screen,
                  tab, observing, shown>>
  BY DEF process, screens
<1>3. TypeOK'
  BY <1>1, <1>2 DEF TypeOK
<1>4. EnginesBacked' /\ Shown' /\ SendNeverTraps' /\ LoginOnlyWhenUnbound'
  BY <1>2 DEF StoreInv, EnginesBacked, Shown, SendNeverTraps,
              LoginOnlyWhenUnbound
<1>5. screen = "appearing" => (Bound' <=> Bound)
  BY <1>2, StoresKept
<1>6. Stages'
  BY <1>1, <1>2, <1>5 DEF Stages, Adopting
<1>7. Described'
  <2>1. CASE screen = "appearing"
    BY <1>1, <1>2, <2>1
    DEF StoreInv, Described, KeyOf, FormHalfDone, Adopting
  <2>2. CASE screen = "login"
    BY <1>2, <2>2 DEF Described, KeyOf, FormHalfDone, Adopting
  <2> QED
    BY <1>1, <2>1, <2>2
<1> QED
  BY <1>3, <1>4, <1>6, <1>7 DEF StoreInv

LEMMA SavePasswordStep ==
  ASSUME StoreInv, savePassword
  PROVE  StoreInv'
<1>1. /\ main = "keychain" /\ main' = "walletFile"
      /\ keychain' = engine[opened].password
      /\ UNCHANGED <<fs, defaults, process, screens>>
  BY DEF savePassword
<1>2. TypeOK /\ opened \in Wallets
  BY <1>1, WalletStoreAssumption DEF StoreInv, Stages, Adopting, TypeOK, Wallets
<1>3. /\ keychain' \in Passwords \cup {Nil}
      /\ defaults' \in [walletFile: Files \cup {Nil}, isRecovering: BOOLEAN,
                        restoreHeight: SavedHeights]
  BY <1>1, <1>2 DEF TypeOK, Engine
<1>4. KeyOf(opened)'
  BY <1>1 DEF KeyOf, process
<1>5. screen = "appearing" => keychain' = keychain
  BY <1>1 DEF StoreInv, Stages, Adopting
<1> QED
  BY <1>1, <1>3, <1>4, <1>5, AdoptingStep DEF Adopting

(* The three defaults.                                                     *)
LEMMA SaveDefaultsStep ==
  ASSUME StoreInv, saveWalletFile \/ saveIsRecovering \/ saveInitialHeight
  PROVE  StoreInv'
<1>1. /\ main \in {"walletFile", "isRecovering", "restoreHeight"}
      /\ main' \in {"isRecovering", "restoreHeight", "wallet"}
      /\ UNCHANGED <<fs, keychain, process, screens>>
  BY DEF saveWalletFile, saveIsRecovering, saveInitialHeight
<1>2. TypeOK /\ opened \in Wallets
  BY <1>1, WalletStoreAssumption DEF StoreInv, Stages, Adopting, TypeOK, Wallets
<1>3. /\ engine[opened].file \in Files
      /\ wrapper[opened].recovering \in BOOLEAN
      /\ wrapper[opened].restoreHeight \in SavedHeights
  BY <1>2 DEF TypeOK, Engine, Wrapper
<1>4. /\ keychain' \in Passwords \cup {Nil}
      /\ defaults' \in [walletFile: Files \cup {Nil}, isRecovering: BOOLEAN,
                        restoreHeight: SavedHeights]
  BY <1>1, <1>2, <1>3
  DEF TypeOK, saveWalletFile, saveIsRecovering, saveInitialHeight
<1>5. KeyOf(opened)'
  BY <1>1 DEF StoreInv, Described, KeyOf, Adopting, process
<1>6. defaults'.walletFile = engine[opened].file
  <2>1. CASE saveWalletFile
    BY <1>2, <2>1 DEF saveWalletFile, TypeOK
  <2>2. CASE saveIsRecovering \/ saveInitialHeight
    <3>1. main \in {"isRecovering", "restoreHeight"}
      BY <2>2 DEF saveIsRecovering, saveInitialHeight
    <3>2. defaults.walletFile = engine[opened].file
      BY <3>1 DEF StoreInv, Described, Adopting
    <3> QED
      BY <1>2, <2>2, <3>2 DEF saveIsRecovering, saveInitialHeight, TypeOK
  <2> QED
    BY <2>1, <2>2
<1>7. screen = "appearing" => engine[opened].file = defaults.walletFile
  BY <1>1 DEF StoreInv, Stages, Adopting
<1> QED
  BY <1>1, <1>4, <1>5, <1>6, <1>7, AdoptingStep DEF Adopting

LEMMA AssignWalletStep ==
  ASSUME StoreInv, assignWallet
  PROVE  StoreInv'
<1>1. /\ TypeOK /\ main = "wallet" /\ main' = "async" /\ wallet' = opened
      /\ opened # 0 /\ screen \in {"login", "appearing"}
      /\ UNCHANGED <<fs, defaults, keychain, opened, engine, blocks, thread,
                     screen, tab, observing>>
  BY DEF StoreInv, Stages, Adopting, assignWallet, persistent
<1>2. opened \in Wallets /\ opened \in 0 .. opened
  BY <1>1 DEF TypeOK, Wallets
<1>3. /\ shown' \in 0 .. opened
      /\ wrapper' \in [Wallets -> Wrapper]
      /\ wrapper'[opened].how = wrapper[opened].how
      /\ observing => shown' = opened /\ wrapper'[opened].delegate
  <2>1. CASE observing
    <3>1. /\ shown' = opened
          /\ wrapper' = [wrapper EXCEPT ![opened].delegate = TRUE]
      BY <1>1, <2>1 DEF assignWallet, resetWallet
    <3>2. wrapper \in [Wallets -> Wrapper]
      BY <1>1 DEF TypeOK
    <3> QED
      BY <1>2, <2>1, <3>1, <3>2 DEF Wrapper
  <2>2. CASE ~observing
    BY <1>1, <2>2 DEF assignWallet, TypeOK
  <2> QED
    BY <2>1, <2>2
<1>4. TypeOK'
  BY <1>1, <1>2, <1>3 DEF TypeOK, Adopting
<1>5. EnginesBacked'
  BY <1>1 DEF StoreInv, EnginesBacked
<1>6. Bound' <=> Bound
  BY <1>1, StoresKept
<1>7. Stages' /\ Described'
  BY <1>1, <1>3, <1>6
  DEF StoreInv, Stages, Described, KeyOf, FormHalfDone, Adopting
<1>8. Shown' /\ SendNeverTraps' /\ LoginOnlyWhenUnbound'
  BY <1>1, <1>3 DEF Shown, SendNeverTraps, LoginOnlyWhenUnbound, Adopting
<1> QED
  BY <1>4, <1>5, <1>7, <1>8 DEF StoreInv

LEMMA DispatchBlockStep ==
  ASSUME StoreInv, dispatchBlock
  PROVE  StoreInv'
<1>1. /\ TypeOK /\ main = "async" /\ main' = "idle"
      /\ opened # 0 /\ wallet # 0
      /\ blocks' = blocks \cup {opened}
      /\ screen' \in {"appearing", "main"}
      /\ UNCHANGED <<fs, defaults, keychain, opened, engine, wrapper, wallet,
                     thread, tab, observing, shown>>
  BY DEF StoreInv, Stages, Adopting, dispatchBlock, persistent
<1>2. opened \in 1 .. opened
  BY <1>1 DEF TypeOK
<1>3. TypeOK'
  BY <1>1, <1>2 DEF TypeOK, Screens
<1>4. EnginesBacked' /\ Stages' /\ Described'
  BY <1>1 DEF StoreInv, EnginesBacked, Stages, Described, KeyOf, FormHalfDone,
              Adopting
<1>5. Shown' /\ SendNeverTraps' /\ LoginOnlyWhenUnbound'
  BY <1>1 DEF StoreInv, Shown, SendNeverTraps, LoginOnlyWhenUnbound
<1> QED
  BY <1>3, <1>4, <1>5 DEF StoreInv

LEMMA InitWalletStep ==
  ASSUME StoreInv, initWallet
  PROVE  StoreInv'
  BY SaveDefaultsStep, AssignWalletStep, DispatchBlockStep DEF initWallet

(* The child that appears becomes the delegate of the current wallet.      *)
LEMMA VisibleResult ==
  ASSUME TypeOK
  PROVE  /\ WrapperOnceVisible \in [Wallets -> Wrapper]
         /\ \A n \in Wallets :
              /\ WrapperOnceVisible[n].how = wrapper[n].how
              /\ WrapperOnceVisible[n].recovering = wrapper[n].recovering
         /\ tab = "wallet" /\ wallet # 0 => WrapperOnceVisible[wallet].delegate
<1>1. wallet # 0 => wallet \in Wallets
  BY WalletStoreAssumption DEF TypeOK, Wallets
<1>2. wrapper \in [Wallets -> Wrapper]
  BY DEF TypeOK
<1>3. CASE tab = "wallet" /\ wallet # 0
  <2>1. WrapperOnceVisible = [wrapper EXCEPT ![wallet].delegate = TRUE]
    BY <1>3, Zenon DEF WrapperOnceVisible
  <2> QED
    BY <1>1, <1>2, <1>3, <2>1 DEF Wrapper
<1>4. CASE ~(tab = "wallet" /\ wallet # 0)
  <2>1. WrapperOnceVisible = wrapper
    BY <1>4, Zenon DEF WrapperOnceVisible
  <2> QED
    BY <1>2, <1>4, <2>1
<1> QED
  BY <1>3, <1>4

LEMMA AppearWithSavedWalletStep ==
  ASSUME StoreInv, AppearWithSavedWallet
  PROVE  StoreInv'
<1> DEFINE e == NativeOpen(fs, defaults.walletFile, keychain)
           ws == WrapperOnceVisible
<1>1. /\ TypeOK /\ Bound /\ main = "idle" /\ screen = "appearing"
      /\ defaults.walletFile \in Files /\ keychain \in Passwords
      /\ fs \in FileSystem
  BY DEF StoreInv, AppearWithSavedWallet, TypeOK, Bound, savedWalletExists
<1>2. /\ e \in Engine /\ e.file = defaults.walletFile /\ e.password = keychain
      /\ e.ok => fs[e.file] # Nil /\ fs[e.file].password = e.password
  BY <1>1, OpenResult
<1>3. /\ Adopt(ws, e, "open", defaults.isRecovering, defaults.restoreHeight)
      /\ observing' = (tab = "wallet")
      /\ shown' = IF tab = "wallet" THEN wallet ELSE shown
      /\ UNCHANGED <<persistent, wallet, blocks, thread, screen, tab>>
  BY DEF AppearWithSavedWallet
<1>4. /\ ws \in [Wallets -> Wrapper]
      /\ \A n \in Wallets : ws[n].how = wrapper[n].how
                           /\ ws[n].recovering = wrapper[n].recovering
      /\ tab = "wallet" /\ wallet # 0 => ws[wallet].delegate
  BY <1>1, VisibleResult
<1>5. /\ defaults.isRecovering \in BOOLEAN
      /\ defaults.restoreHeight \in SavedHeights
  BY <1>1 DEF TypeOK
<1> HIDE DEF e, ws
<1>6. /\ opened' = opened + 1 /\ opened' \in Wallets
      /\ opened' \in 0 .. MaxWallets
      /\ \A n \in 0 .. opened : n \in 0 .. opened' /\ n # opened'
      /\ \A n \in 1 .. opened : n \in 1 .. opened'
      /\ \A n \in 0 .. opened : n # 0 => n \in Wallets
      /\ engine' \in [Wallets -> Engine]
      /\ wrapper' \in [Wallets -> Wrapper]
      /\ engine'[opened'] = e
      /\ wrapper'[opened'].how = "open"
      /\ wrapper'[opened'].recovering = defaults.isRecovering
      /\ \A n \in Wallets : n # opened' =>
           engine'[n] = engine[n] /\ wrapper'[n] = ws[n]
      /\ main' = "keychain"
  BY <1>1, <1>2, <1>3, <1>4, <1>5, AdoptResult
<1>7. TypeOK'
  BY <1>1, <1>3, <1>6 DEF TypeOK, persistent, Adopting
<1>8. EnginesBacked'
  BY <1>1, <1>2, <1>3, <1>6 DEF StoreInv, EnginesBacked, TypeOK, persistent
<1>9. Stages' /\ Described'
  <2>1. Bound' /\ opened' # 0
    BY <1>1, <1>3, <1>6 DEF Bound, savedWalletExists, persistent, Wallets
  <2>2. Stages'
    BY <1>1, <1>2, <1>3, <1>6, <2>1 DEF Stages, Adopting, persistent
  <2>3. wallet # 0 => /\ engine'[wallet] = engine[wallet]
                      /\ wrapper'[wallet].how = wrapper[wallet].how
                      /\ wallet' = wallet
    BY <1>1, <1>3, <1>4, <1>6 DEF TypeOK
  <2>4. wallet # 0 => KeyOf(wallet) /\ defaults.walletFile = engine[wallet].file
    BY <1>1 DEF StoreInv, Described, FormHalfDone, Adopting
  <2>5. wallet' # 0 =>
          KeyOf(wallet)' /\ defaults'.walletFile = engine'[wallet'].file
    BY <1>3, <2>3, <2>4 DEF KeyOf, persistent
  <2>6. main' = "keychain"
    BY <1>6
  <2> QED
    BY <2>2, <2>5, <2>6 DEF Described
<1>10. Shown'
  BY <1>1, <1>3, <1>4, <1>6 DEF Shown, TypeOK
<1>11. SendNeverTraps' /\ LoginOnlyWhenUnbound'
  BY <1>1, <1>3, <1>6 DEF SendNeverTraps, LoginOnlyWhenUnbound
<1> QED
  BY <1>7, <1>8, <1>9, <1>10, <1>11 DEF StoreInv

LEMMA AppearWithoutSavedWalletStep ==
  ASSUME StoreInv, AppearWithoutSavedWallet
  PROVE  StoreInv'
<1>1. /\ TypeOK /\ ~Bound /\ main = "idle" /\ screen = "appearing"
      /\ screen' = "login" /\ observing' = FALSE
      /\ wrapper' = WrapperOnceVisible
      /\ shown' = IF tab = "wallet" THEN wallet ELSE shown
      /\ UNCHANGED <<fs, defaults, keychain, opened, engine, wallet, blocks,
                     thread, main, tab>>
  BY DEF StoreInv, AppearWithoutSavedWallet, persistent
<1>2. /\ wrapper' \in [Wallets -> Wrapper]
      /\ \A n \in Wallets : wrapper'[n].how = wrapper[n].how
                           /\ wrapper'[n].recovering = wrapper[n].recovering
      /\ wallet # 0 => wallet \in Wallets
  BY <1>1, VisibleResult, WalletStoreAssumption DEF TypeOK, Wallets
<1>3. TypeOK'
  BY <1>1, <1>2 DEF TypeOK, Screens
<1>4. EnginesBacked' /\ Stages' /\ Described'
  BY <1>1, <1>2
  DEF StoreInv, EnginesBacked, Stages, Described, KeyOf, FormHalfDone, Adopting
<1>5. ~Bound'
  BY <1>1 DEF Bound, savedWalletExists
<1>6. /\ Shown' /\ SendNeverTraps'
      /\ LoginOnlyWhenUnbound'
  BY <1>1, <1>2, <1>5
  DEF StoreInv, Shown, SendNeverTraps, LoginOnlyWhenUnbound
<1> QED
  BY <1>3, <1>4, <1>6 DEF StoreInv
-----------------------------------------------------------------------------
(* Steps that touch neither the persistent stores nor the wallets.         *)
LEMMA CoverStep ==
  ASSUME StoreInv, NEW s \in {"send", "detail"}, Cover(s)
  PROVE  StoreInv'
<1>1. /\ main = "idle" /\ screen = "main" /\ screen' = s /\ observing' = FALSE
      /\ UNCHANGED <<fs, defaults, keychain, opened, engine, wrapper, wallet,
                     blocks, thread, main, tab, shown>>
  BY DEF Cover, persistent, process
<1>2. TypeOK' /\ EnginesBacked'
  BY <1>1 DEF StoreInv, TypeOK, EnginesBacked, Screens
<1> QED
  BY <1>1, <1>2
  DEF StoreInv, Stages, Described, KeyOf, FormHalfDone, Adopting, Shown,
      SendNeverTraps, LoginOnlyWhenUnbound

LEMMA UncoverStep ==
  ASSUME StoreInv, Uncover
  PROVE  StoreInv'
<1>1. /\ main = "idle" /\ screen' = "appearing"
      /\ UNCHANGED <<fs, defaults, keychain, opened, engine, wrapper, wallet,
                     blocks, thread, main, tab, observing, shown>>
  BY DEF Uncover, persistent, process
<1>2. TypeOK' /\ EnginesBacked'
  BY <1>1 DEF StoreInv, TypeOK, EnginesBacked, Screens
<1> QED
  BY <1>1, <1>2
  DEF StoreInv, Stages, Described, KeyOf, FormHalfDone, Adopting, Shown,
      SendNeverTraps, LoginOnlyWhenUnbound

LEMMA SelectHistoryTabStep ==
  ASSUME StoreInv, SelectHistoryTab
  PROVE  StoreInv'
<1>1. /\ main = "idle" /\ screen = "main" /\ tab' = "history"
      /\ observing' = FALSE
      /\ UNCHANGED <<fs, defaults, keychain, opened, engine, wrapper, wallet,
                     blocks, thread, main, screen, shown>>
  BY DEF SelectHistoryTab, persistent, process
<1>2. TypeOK' /\ EnginesBacked'
  BY <1>1 DEF StoreInv, TypeOK, EnginesBacked
<1> QED
  BY <1>1, <1>2
  DEF StoreInv, Stages, Described, KeyOf, FormHalfDone, Adopting, Shown,
      SendNeverTraps, LoginOnlyWhenUnbound

LEMMA SelectWalletTabStep ==
  ASSUME StoreInv, SelectWalletTab
  PROVE  StoreInv'
<1>1. /\ TypeOK /\ main = "idle" /\ screen = "main" /\ tab' = "wallet"
      /\ observing' = TRUE /\ shown' = wallet
      /\ UNCHANGED <<fs, defaults, keychain, opened, engine, wallet, blocks,
                     thread, main, screen>>
  BY DEF StoreInv, SelectWalletTab, resetWallet, persistent
<1>2. /\ wallet # 0 /\ wallet \in Wallets
      /\ wrapper' = [wrapper EXCEPT ![wallet].delegate = TRUE]
  BY <1>1, WalletStoreAssumption
  DEF StoreInv, SendNeverTraps, SelectWalletTab, resetWallet, TypeOK, Wallets
<1>3. /\ wrapper' \in [Wallets -> Wrapper]
      /\ wrapper'[wallet].how = wrapper[wallet].how
      /\ wrapper'[wallet].recovering = wrapper[wallet].recovering
      /\ wrapper'[wallet].delegate
  <2>1. wrapper \in [Wallets -> Wrapper]
    BY <1>1 DEF TypeOK
  <2> QED
    BY <1>2, <2>1 DEF Wrapper
<1>4. TypeOK' /\ EnginesBacked'
  BY <1>1, <1>3 DEF StoreInv, TypeOK, EnginesBacked
<1> QED
  BY <1>1, <1>3, <1>4
  DEF StoreInv, Stages, Described, KeyOf, FormHalfDone, Adopting, Shown,
      SendNeverTraps, LoginOnlyWhenUnbound, Bound, savedWalletExists
-----------------------------------------------------------------------------
LEMMA SaveRestoreHeightStep ==
  ASSUME StoreInv, saveRestoreHeight
  PROVE  StoreInv'
<1>1. /\ TypeOK /\ main = "idle" /\ main' = "store" /\ wallet # 0
      /\ defaults' = [defaults EXCEPT !.restoreHeight = engine[wallet].height]
      /\ UNCHANGED <<fs, keychain, opened, engine, wrapper, wallet, blocks,
                     thread, screen, tab, observing, shown>>
  BY DEF StoreInv, saveRestoreHeight, process, screens
<1>2. wallet \in Wallets
  BY <1>1, WalletStoreAssumption DEF TypeOK, Wallets
<1>3. engine[wallet].height \in SavedHeights
  BY <1>1, <1>2 DEF TypeOK, Engine, SavedHeights
<1>4. /\ defaults' \in [walletFile: Files \cup {Nil}, isRecovering: BOOLEAN,
                        restoreHeight: SavedHeights]
      /\ defaults'.walletFile = defaults.walletFile
      /\ defaults'.isRecovering = defaults.isRecovering
  BY <1>1, <1>3 DEF TypeOK
<1>5. TypeOK' /\ EnginesBacked'
  BY <1>1, <1>4 DEF StoreInv, TypeOK, EnginesBacked
<1>6. Bound' <=> Bound
  BY <1>1, <1>4 DEF Bound, savedWalletExists
<1> QED
  BY <1>1, <1>4, <1>5, <1>6
  DEF StoreInv, Stages, Described, KeyOf, FormHalfDone, Adopting, Shown,
      SendNeverTraps, LoginOnlyWhenUnbound

(* A wallet n of this process is written to its file: by save, or by the   *)
(* callback of its refresh thread.                                         *)
LEMMA StoreKeepsInv ==
  ASSUME StoreInv, NEW n \in Wallets,
         fs' = NativeStore(fs, engine[n]),
         main' = main \/ main' = "idle",
         main' = main \/ main = "store",
         thread' \in [Wallets -> {"idle", "storing"}],
         UNCHANGED <<defaults, keychain, opened, engine, wrapper, wallet,
                     blocks, screen, tab, observing, shown>>
  PROVE  StoreInv' /\ (Bound' <=> Bound)
<1>1. TypeOK /\ fs \in FileSystem /\ engine[n] \in Engine
  BY DEF StoreInv, TypeOK
<1>2. engine[n].ok => /\ fs[engine[n].file] # Nil
                      /\ fs[engine[n].file].password = engine[n].password
  BY DEF StoreInv, EnginesBacked
<1>3. /\ fs' \in FileSystem
      /\ \A f \in Files : fs[f] # Nil =>
           fs'[f] # Nil /\ fs'[f].password = fs[f].password
  BY <1>1, <1>2, StoreResult
<1>4. \A f \in Files : fs[f] = Nil => fs'[f] = Nil
  <2>1. CASE engine[n].ok
    BY <1>1, <1>2, <2>1 DEF NativeStore, FileSystem
  <2>2. CASE ~engine[n].ok
    BY <2>2 DEF NativeStore
  <2> QED
    BY <2>1, <2>2
<1>5. Bound' <=> Bound
  BY <1>1, <1>3, <1>4 DEF Bound, savedWalletExists, TypeOK
<1>6. TypeOK'
  BY <1>1, <1>3 DEF TypeOK
<1>7. EnginesBacked'
  BY <1>1, <1>3 DEF StoreInv, EnginesBacked, TypeOK, Engine
<1>8. Stages' /\ Described'
  BY <1>5 DEF StoreInv, Stages, Described, KeyOf, FormHalfDone, Adopting
<1>9. Shown' /\ SendNeverTraps'
  BY DEF StoreInv, Shown, SendNeverTraps
<1>10. LoginOnlyWhenUnbound'
  BY <1>5 DEF StoreInv, LoginOnlyWhenUnbound, Stages, Adopting
<1> QED
  BY <1>5, <1>6, <1>7, <1>8, <1>9, <1>10 DEF StoreInv

LEMMA SaveStoreStep ==
  ASSUME StoreInv, saveStore
  PROVE  StoreInv'
<1>1. wallet \in Wallets
  BY WalletStoreAssumption DEF StoreInv, Stages, saveStore, TypeOK, Wallets
<1>2. /\ main = "store" /\ main' = "idle"
      /\ fs' = NativeStore(fs, engine[wallet])
      /\ thread' \in [Wallets -> {"idle", "storing"}]
      /\ UNCHANGED <<defaults, keychain, opened, engine, wrapper, wallet,
                     blocks, screen, tab, observing, shown>>
  BY DEF StoreInv, TypeOK, saveStore, process, screens
<1> QED
  BY <1>1, <1>2, StoreKeepsInv

LEMMA WalletRefreshedStoreStep ==
  ASSUME StoreInv, NEW n \in Wallets, walletRefreshedStore(n)
  PROVE  StoreInv'
<1>1. /\ main' = main
      /\ fs' = NativeStore(fs, engine[n])
      /\ thread' \in [Wallets -> {"idle", "storing"}]
      /\ UNCHANGED <<defaults, keychain, opened, engine, wrapper, wallet,
                     blocks, screen, tab, observing, shown>>
  BY DEF StoreInv, TypeOK, walletRefreshedStore, screens
<1> QED
  BY <1>1, StoreKeepsInv

LEMMA WalletRefreshedStep ==
  ASSUME StoreInv, NEW n \in Wallets, walletRefreshed(n)
  PROVE  StoreInv'
<1>1. /\ defaults' = [defaults EXCEPT !.isRecovering = FALSE]
      /\ thread' = [thread EXCEPT ![n] = "storing"]
      /\ UNCHANGED <<fs, keychain, opened, engine, wrapper, wallet, blocks,
                     main, screen, tab, observing, shown>>
  BY DEF walletRefreshed, screens
<1>2. /\ defaults' \in [walletFile: Files \cup {Nil}, isRecovering: BOOLEAN,
                        restoreHeight: SavedHeights]
      /\ defaults'.walletFile = defaults.walletFile
      /\ ~defaults'.isRecovering
  BY <1>1 DEF StoreInv, TypeOK
<1>3. thread' \in [Wallets -> {"idle", "storing"}]
  BY <1>1 DEF StoreInv, TypeOK
<1>4. TypeOK' /\ EnginesBacked'
  BY <1>1, <1>2, <1>3 DEF StoreInv, TypeOK, EnginesBacked
<1>5. Bound' <=> Bound
  BY <1>1, <1>2 DEF Bound, savedWalletExists
<1> QED
  BY <1>1, <1>2, <1>4, <1>5
  DEF StoreInv, Stages, Described, KeyOf, FormHalfDone, Adopting, Shown,
      SendNeverTraps, LoginOnlyWhenUnbound

(* Wallet m is replaced by one with the same file, password and status.    *)
LEMMA EngineStep ==
  ASSUME StoreInv, NEW m \in Wallets, NEW r \in Engine,
         r.ok = engine[m].ok, r.file = engine[m].file,
         r.password = engine[m].password,
         engine' = [engine EXCEPT ![m] = r],
         blocks' \subseteq blocks,
         UNCHANGED <<fs, defaults, keychain, opened, wrapper, wallet, thread,
                     main, screen, tab, observing, shown>>
  PROVE  StoreInv'
<1>1. TypeOK
  BY DEF StoreInv
<1>2. TypeOK'
  BY <1>1 DEF TypeOK
<1>3. \A n \in Wallets : /\ engine'[n].ok = engine[n].ok
                        /\ engine'[n].file = engine[n].file
                        /\ engine'[n].password = engine[n].password
  BY <1>1 DEF TypeOK
<1>4. EnginesBacked'
  BY <1>3 DEF StoreInv, EnginesBacked
<1>5. (opened # 0 => opened \in Wallets) /\ (wallet # 0 => wallet \in Wallets)
  BY <1>1, WalletStoreAssumption DEF TypeOK, Wallets
<1>6. Bound' <=> Bound
  BY DEF Bound, savedWalletExists
<1>7. Stages' /\ Described'
  BY <1>3, <1>5, <1>6
  DEF StoreInv, Stages, Described, KeyOf, FormHalfDone, Adopting
<1> QED
  BY <1>2, <1>4, <1>6, <1>7 DEF StoreInv, Shown, SendNeverTraps,
      LoginOnlyWhenUnbound

LEMMA InitWalletAsyncStep ==
  ASSUME StoreInv, NEW n \in Wallets, initWalletAsync(n)
  PROVE  StoreInv'
<1>1. /\ TypeOK /\ blocks' \subseteq blocks
      /\ UNCHANGED <<fs, defaults, keychain, opened, wrapper, wallet, thread,
                     main, screen, tab, observing, shown>>
  BY DEF StoreInv, initWalletAsync, persistent, screens
<1>2. CASE wallet = 0
  <2>1. engine' = engine
    BY <1>2 DEF initWalletAsync
  <2>2. TypeOK'
    BY <1>1, <2>1 DEF TypeOK
  <2>3. Bound' <=> Bound
    BY <1>1 DEF Bound, savedWalletExists
  <2> QED
    BY <1>1, <2>1, <2>2, <2>3 DEF StoreInv, EnginesBacked, Stages, Described,
        KeyOf, FormHalfDone, Shown, SendNeverTraps, LoginOnlyWhenUnbound
<1>3. CASE wallet # 0
  <2> DEFINE r == NativeInitAsync(
                    IF wrapper[n].recovering
                    THEN SetRecovering(engine[wallet], wrapper[n].restoreHeight)
                    ELSE engine[wallet])
  <2>1. wallet \in Wallets
    BY <1>1, <1>3, WalletStoreAssumption DEF TypeOK, Wallets
  <2>2. /\ engine[wallet] \in Engine
        /\ wrapper[n].recovering \in BOOLEAN
        /\ wrapper[n].restoreHeight \in Nat
    BY <1>1, <2>1, SavedAreNumbers DEF TypeOK, Wrapper
  <2>3. /\ r \in Engine /\ r.ok = engine[wallet].ok
        /\ r.file = engine[wallet].file /\ r.password = engine[wallet].password
    BY <2>2, InitAsyncResult
  <2>4. engine' = [engine EXCEPT ![wallet] = r]
    BY <1>1, <1>3, <2>1 DEF initWalletAsync, TypeOK
  <2> HIDE DEF r
  <2> QED
    BY <1>1, <2>1, <2>3, <2>4, EngineStep
<1> QED
  BY <1>2, <1>3

LEMMA ScanStep ==
  ASSUME StoreInv, NEW n \in Wallets, Scan(n)
  PROVE  StoreInv'
<1>1. /\ CanScan(engine[n]) /\ blocks' \subseteq blocks
      /\ engine[n] \in Engine
      /\ engine' = [engine EXCEPT ![n] = NativeScan(engine[n])]
      /\ UNCHANGED <<fs, defaults, keychain, opened, wrapper, wallet, thread,
                     main, screen, tab, observing, shown>>
  BY DEF StoreInv, TypeOK, Scan, persistent, screens
<1> DEFINE r == NativeScan(engine[n])
<1>2. /\ r \in Engine /\ r.ok = engine[n].ok
      /\ r.file = engine[n].file /\ r.password = engine[n].password
  BY <1>1, ScanResult
<1> HIDE DEF r
<1>3. engine' = [engine EXCEPT ![n] = r]
  BY <1>1 DEF r
<1> QED
  BY <1>1, <1>2, <1>3, EngineStep

LEMMA RelaunchStep ==
  ASSUME StoreInv, Relaunch
  PROVE  StoreInv'
<1>1. opened' \in 0 .. MaxWallets
  BY WalletStoreAssumption DEF Relaunch
<1>2. /\ engine' \in [Wallets -> Engine]
      /\ wrapper' \in [Wallets -> Wrapper]
      /\ thread' \in [Wallets -> {"idle", "storing"}]
      /\ \A n \in Wallets : ~engine'[n].ok
  BY EmptySlots DEF Relaunch
<1>3. /\ wallet' \in 0 .. opened' /\ shown' \in 0 .. opened'
      /\ blocks' \subseteq 1 .. opened'
  BY DEF Relaunch
<1>4. TypeOK'
  BY <1>1, <1>2, <1>3 DEF StoreInv, TypeOK, Relaunch, persistent, Screens
<1>5. EnginesBacked'
  BY <1>2 DEF EnginesBacked
<1> QED
  BY <1>4, <1>5 DEF Relaunch, StoreInv, Stages, Described, Adopting, Shown,
      SendNeverTraps, LoginOnlyWhenUnbound

LEMMA StutterStep ==
  ASSUME StoreInv, UNCHANGED vars
  PROVE  StoreInv'
<1>1. UNCHANGED <<fs, defaults, keychain, opened, engine, wrapper, wallet,
                  blocks, thread, main, screen, tab, observing, shown>>
  BY DEF vars, persistent, process, screens
<1>2. TypeOK' /\ EnginesBacked'
  BY <1>1 DEF StoreInv, TypeOK, EnginesBacked
<1>3. Bound' <=> Bound
  BY <1>1 DEF Bound, savedWalletExists
<1> QED
  BY <1>1, <1>2, <1>3
  DEF StoreInv, Stages, Described, KeyOf, FormHalfDone, Adopting, Shown,
      SendNeverTraps, LoginOnlyWhenUnbound
-----------------------------------------------------------------------------
LEMMA StoreStep == StoreInv /\ [Next]_vars => StoreInv'
<1> SUFFICES ASSUME StoreInv, [Next]_vars PROVE StoreInv'
  OBVIOUS
<1>1. CASE CreateForm \/ OpenForm \/ RecoverForm
  BY <1>1, CreateStep, OpenStep, RecoverStep
  DEF CreateForm, OpenForm, RecoverForm
<1>2. CASE initWallet
  BY <1>2, InitWalletStep
<1>3. CASE AppearWithSavedWallet \/ savePassword
  BY <1>3, AppearWithSavedWalletStep, SavePasswordStep
<1>4. CASE AppearWithoutSavedWallet
  BY <1>4, AppearWithoutSavedWalletStep
<1>5. CASE Navigation
  BY <1>5, CoverStep, UncoverStep, SelectWalletTabStep, SelectHistoryTabStep
  DEF Navigation
<1>6. CASE saveRestoreHeight
  BY <1>6, SaveRestoreHeightStep
<1>7. CASE saveStore
  BY <1>7, SaveStoreStep
<1>8. ASSUME NEW n \in Wallets, Background(n) PROVE StoreInv'
  BY <1>8, InitWalletAsyncStep, ScanStep, WalletRefreshedStep,
     WalletRefreshedStoreStep DEF Background
<1>9. CASE Relaunch
  BY <1>9, RelaunchStep
<1>10. CASE UNCHANGED vars
  BY <1>10, StutterStep
<1> QED
  BY <1>1, <1>2, <1>3, <1>4, <1>5, <1>6, <1>7, <1>8, <1>9, <1>10
  DEF Next, Uninterrupted

LEMMA StoreInvariant == Spec => []StoreInv
  BY StoreInit, StoreStep, PTL DEF Spec

(* The type invariant of the wallet_store run, for all constants: whatever *)
(* height a user types, past the tip of the chain as well, and whichever   *)
(* wallet it is sent to, the heights wallets scan stay within the chain,   *)
(* and what is saved is such a height or one that was typed.               *)
THEOREM TypeCorrect == Spec => []TypeOK
<1>1. StoreInv => TypeOK
  BY DEF StoreInv
<1> QED
  BY StoreInvariant, <1>1, PTL

(* A kill outside a half-done form, in the middle of viewWillAppear and of *)
(* save too, never loses a wallet that was created or opened with its      *)
(* password: openSavedWallet finds its file and key.                       *)
THEOREM RelaunchFindsTheWallet == Spec => []RelaunchReopens
<1>1. ASSUME StoreInv PROVE RelaunchReopens
  <2> SUFFICES ASSUME ~FormHalfDone, wallet # 0, engine[wallet].ok,
                      wrapper[wallet].how # "recover"
               PROVE  /\ defaults.walletFile = engine[wallet].file
                      /\ Bound
                      /\ NativeOpen(fs, defaults.walletFile, keychain).ok
    BY DEF RelaunchReopens
  <2>1. TypeOK /\ wallet \in Wallets
    BY <1>1, WalletStoreAssumption DEF StoreInv, TypeOK, Wallets
  <2>2. engine[wallet].file \in Files /\ engine[wallet].password \in Passwords
    BY <2>1 DEF TypeOK, Engine
  <2>3. /\ defaults.walletFile = engine[wallet].file
        /\ keychain = engine[wallet].password
    BY <1>1 DEF StoreInv, Described, KeyOf, FormHalfDone, Adopting
  <2>4. /\ fs[engine[wallet].file] # Nil
        /\ fs[engine[wallet].file].password = engine[wallet].password
    BY <1>1, <2>1 DEF StoreInv, EnginesBacked
  <2>5. Bound
    BY <2>2, <2>3, <2>4, NilAssumption DEF Bound, savedWalletExists
  <2>6. NativeOpen(fs, defaults.walletFile, keychain).ok
    BY <2>1, <2>2, <2>3, <2>4, OpenResult DEF TypeOK
  <2> QED
    BY <2>3, <2>5, <2>6
<1> QED
  BY StoreInvariant, <1>1, PTL

(* The login screen never covers an application bound to a wallet.         *)
THEOREM NoLoginWhenBound == Spec => []LoginOnlyWhenUnbound
<1>1. StoreInv => LoginOnlyWhenUnbound
  BY DEF StoreInv
<1> QED
  BY StoreInvariant, <1>1, PTL

(* The forced unwrapping of WalletStore.wallet in the send screens is safe.*)
THEOREM UnwrapIsSafe == Spec => []SendNeverTraps
<1>1. StoreInv => SendNeverTraps
  BY DEF StoreInv
<1> QED
  BY StoreInvariant, <1>1, PTL

(* An observing wallet tab shows the store's wallet and is its delegate.   *)
THEOREM TabFollowsStore == Spec => []ShownIsCurrent
<1>1. StoreInv => ShownIsCurrent
  BY DEF StoreInv, Shown, ShownIsCurrent
<1> QED
  BY StoreInvariant, <1>1, PTL

(* No store of one wallet takes the file or the password from another one  *)
(* that was opened from the same file.                                     *)
THEOREM EveryEngineIsBacked == Spec => []EnginesBacked
<1>1. StoreInv => EnginesBacked
  BY DEF StoreInv
<1> QED
  BY StoreInvariant, <1>1, PTL
-----------------------------------------------------------------------------
LEMMA SettledStep ==
  ASSUME StoreInv, [Next]_vars, Settled
  PROVE  /\ Settled'
         /\ defaults'.walletFile = defaults.walletFile
         /\ keychain' = keychain
<1> DEFINE Kept == /\ Settled'
                   /\ defaults'.walletFile = defaults.walletFile
                   /\ keychain' = keychain
<1>1. /\ TypeOK /\ Bound
      /\ screen = "login" => main = "async"
  BY DEF StoreInv, LoginOnlyWhenUnbound, Settled, FormHalfDone
<1>2. ~CreateForm /\ ~OpenForm /\ ~RecoverForm
  BY <1>1 DEF CreateForm, OpenForm, RecoverForm, createWallet, openWallet,
      recoverWallet
<1>3. CASE savePassword \/ initWallet
  <2>1. /\ fs' = fs
        /\ main' = "async" \/ screen' # "login"
    BY <1>1, <1>3
    DEF savePassword, initWallet, saveWalletFile, saveIsRecovering,
        saveInitialHeight, assignWallet, dispatchBlock, persistent, screens
  <2>2. keychain' = keychain
    BY <1>1, <1>3
    DEF savePassword, initWallet, saveWalletFile, saveIsRecovering,
        saveInitialHeight, assignWallet, dispatchBlock, persistent,
        StoreInv, Stages, Adopting
  <2>3. defaults'.walletFile = defaults.walletFile
    <3>1. CASE saveWalletFile
      BY <1>1, <3>1 DEF saveWalletFile, StoreInv, Stages, Adopting, TypeOK
    <3>2. CASE ~saveWalletFile
      BY <1>1, <1>3, <3>2
      DEF savePassword, initWallet, saveIsRecovering, saveInitialHeight,
          assignWallet, dispatchBlock, persistent, TypeOK
    <3> QED
      BY <3>1, <3>2
  <2> QED
    BY <1>1, <2>1, <2>2, <2>3, StoresKept DEF Settled, FormHalfDone
<1>4. CASE AppearWithSavedWallet
  <2>1. /\ defaults' = defaults /\ keychain' = keychain /\ fs' = fs
        /\ screen' # "login"
    BY <1>1, <1>4 DEF AppearWithSavedWallet, persistent
  <2> QED
    BY <1>1, <2>1, StoresKept DEF Settled, FormHalfDone, Adopting
<1>5. ~AppearWithoutSavedWallet
  BY <1>1 DEF AppearWithoutSavedWallet
<1>6. CASE Navigation
  <2>1. /\ defaults' = defaults /\ keychain' = keychain /\ fs' = fs
        /\ screen' # "login"
    BY <1>1, <1>6 DEF Navigation, Cover, Uncover, SelectWalletTab,
        SelectHistoryTab, persistent
  <2> QED
    BY <1>1, <2>1, StoresKept DEF Settled, FormHalfDone, Adopting
<1>7. CASE saveRestoreHeight
  <2>1. /\ defaults'.walletFile = defaults.walletFile
        /\ keychain' = keychain /\ fs' = fs /\ screen' # "login"
    BY <1>1, <1>7 DEF saveRestoreHeight, screens, TypeOK
  <2> QED
    BY <1>1, <2>1, StoresKept DEF Settled, FormHalfDone, Adopting
<1>8. CASE saveStore
  <2>1. wallet \in Wallets
    BY <1>8, WalletStoreAssumption
    DEF StoreInv, Stages, saveStore, TypeOK, Wallets
  <2>2. /\ main = "store" /\ main' = "idle"
        /\ fs' = NativeStore(fs, engine[wallet])
        /\ thread' \in [Wallets -> {"idle", "storing"}]
        /\ UNCHANGED <<defaults, keychain, opened, engine, wrapper, wallet,
                       blocks, screen, tab, observing, shown>>
    BY <1>1, <1>8 DEF TypeOK, saveStore, process, screens
  <2>3. Bound' <=> Bound
    BY <2>1, <2>2, StoreKeepsInv
  <2> QED
    BY <1>1, <2>2, <2>3 DEF Settled, FormHalfDone, Adopting
<1>9. ASSUME NEW n \in Wallets, walletRefreshedStore(n) PROVE Kept
  <2>1. /\ main' = main
        /\ fs' = NativeStore(fs, engine[n])
        /\ thread' \in [Wallets -> {"idle", "storing"}]
        /\ UNCHANGED <<defaults, keychain, opened, engine, wrapper, wallet,
                       blocks, screen, tab, observing, shown>>
    BY <1>1, <1>9 DEF TypeOK, walletRefreshedStore, screens
  <2>2. Bound' <=> Bound
    BY <2>1, StoreKeepsInv
  <2> QED
    BY <1>1, <2>1, <2>2 DEF Settled, FormHalfDone, Adopting
<1>10. ASSUME NEW n \in Wallets,
              initWalletAsync(n) \/ Scan(n) \/ walletRefreshed(n)
       PROVE  Kept
  <2>1. /\ defaults'.walletFile = defaults.walletFile
        /\ keychain' = keychain /\ fs' = fs
        /\ main' = main /\ screen' = screen
    BY <1>1, <1>10
    DEF initWalletAsync, Scan, walletRefreshed, persistent, screens, TypeOK
  <2> QED
    BY <1>1, <2>1, StoresKept DEF Settled, FormHalfDone, Adopting
<1>11. CASE Relaunch
  <2>1. /\ defaults' = defaults /\ keychain' = keychain /\ fs' = fs
        /\ main' = "idle"
    BY <1>11 DEF Relaunch, persistent
  <2> QED
    BY <1>1, <2>1, StoresKept DEF Settled, FormHalfDone, Adopting
<1>12. CASE UNCHANGED vars
  <2>1. /\ defaults' = defaults /\ keychain' = keychain /\ fs' = fs
        /\ main' = main /\ screen' = screen
    BY <1>1, <1>12 DEF vars, persistent, screens
  <2> QED
    BY <1>1, <2>1, StoresKept DEF Settled, FormHalfDone, Adopting
<1> QED
  BY <1>2, <1>3, <1>4, <1>5, <1>6, <1>7, <1>8, <1>9, <1>10, <1>11, <1>12
  DEF Next, Uninterrupted, Background

(* An application bound to a wallet stays bound to it: no step of any      *)
(* thread, and no kill, makes openSavedWallet return nil again or try      *)
(* another file or password.                                               *)
THEOREM BindingIsFinal == Spec => BoundForever
<1>1. StoreInv /\ [Next]_vars =>
        [Settled => /\ Settled'
                    /\ defaults'.walletFile = defaults.walletFile
                    /\ keychain' = keychain]_vars
  BY SettledStep
<1> QED
  BY <1>1, StoreInvariant, PTL DEF Spec, BoundForever

(* No initWallet is half done while the send screens are up, and nothing   *)
(* but a kill takes the wallet they were built with from the store.        *)
THEOREM SendWalletIsStable == Spec => SendKeepsWallet
<1>1. ASSUME StoreInv, [Next]_vars, screen = "send", screen' = "send"
      PROVE  wallet' = wallet
  <2>1. main \notin Adopting
    BY <1>1 DEF StoreInv, Stages
  <2>2. ~savePassword /\ ~initWallet /\ ~Relaunch
    BY <1>1, <2>1
    DEF savePassword, initWallet, saveWalletFile, saveIsRecovering,
        saveInitialHeight, assignWallet, dispatchBlock, Relaunch, Adopting
  <2> QED
    BY <1>1, <2>2
    DEF Next, Uninterrupted, vars, process, CreateForm, OpenForm, RecoverForm,
        createWallet, openWallet, recoverWallet, AppearWithSavedWallet,
        AppearWithoutSavedWallet, Navigation, Cover, Uncover, SelectWalletTab,
        SelectHistoryTab, saveRestoreHeight, saveStore, Background,
        initWalletAsync, Scan, walletRefreshed, walletRefreshedStore
<1>2. StoreInv /\ [Next]_vars =>
        [screen = "send" /\ screen' = "send" => wallet' = wallet]_vars
  BY <1>1
<1> QED
  BY <1>2, StoreInvariant, PTL DEF Spec, SendKeepsWallet
-----------------------------------------------------------------------------
(* WalletStore implements Session.  Each action is either one of Session's *)
(* or, under the invariant StoreInv, leaves the three mapped variables as  *)
(* they are.                                                               *)

(* The step changes nothing Session can see.                               *)
Unseen == UNCHANGED <<sessionBinding, sessionActive, sessionPlace>>

LEMMA UnseenIsAllowed ==
  ASSUME Unseen
  PROVE  [S!Next]_(S!vars)
  BY DEF Unseen, S!vars

LEMMA SessionInit == Init => S!Init
<1> SUFFICES ASSUME Init PROVE S!Init
  OBVIOUS
<1>1. ~Settled
  BY DEF Init, Settled, Bound, savedWalletExists
<1>2. sessionBinding = <<>>
  BY <1>1 DEF sessionBinding
<1>3. sessionActive = <<>> /\ sessionPlace = "door"
  BY DEF Init, sessionActive, sessionPlace
<1> QED
  BY <1>2, <1>3 DEF S!Init

(* What a step does to the binding, to the wallet and to the place.        *)
LEMMA BindingKept ==
  ASSUME Bound' <=> Bound,
         Bound => /\ defaults'.walletFile = defaults.walletFile
                  /\ keychain' = keychain,
         FormHalfDone' <=> FormHalfDone
  PROVE  sessionBinding' = sessionBinding
  BY DEF sessionBinding, Settled

LEMMA WalletRange ==
  ASSUME TypeOK
  PROVE  /\ wallet # 0 => wallet \in Wallets
         /\ opened # 0 => opened \in Wallets
         /\ wallet # opened + 1
  BY WalletStoreAssumption DEF TypeOK, Wallets
-----------------------------------------------------------------------------
(* Steps Session does not see.                                             *)

LEMMA FormUnseen ==
  ASSUME StoreInv, CreateForm \/ OpenForm \/ RecoverForm
  PROVE  Unseen
<1>1. /\ main = "idle" /\ screen = "login"
      /\ main' \in {"keychain", "walletFile"}
      /\ screen' = screen /\ wallet' = wallet
      /\ \E e : engine' = [engine EXCEPT ![opened + 1] = e]
  BY DEF CreateForm, OpenForm, RecoverForm, createWallet, openWallet,
         recoverWallet, Adopt, screens
<1>2. ~Settled /\ ~Settled'
  BY <1>1 DEF StoreInv, LoginOnlyWhenUnbound, Settled, FormHalfDone, Adopting
<1>3. sessionActive' = sessionActive
  BY <1>1, WalletRange DEF StoreInv, TypeOK, sessionActive
<1> QED
  BY <1>1, <1>2, <1>3 DEF Unseen, sessionBinding, sessionPlace

LEMMA OpenSavedUnseen ==
  ASSUME StoreInv, AppearWithSavedWallet
  PROVE  Unseen
<1>1. /\ screen = "appearing" /\ screen' = screen /\ wallet' = wallet
      /\ main = "idle" /\ main' = "keychain"
      /\ UNCHANGED <<fs, defaults, keychain>>
      /\ \E e : engine' = [engine EXCEPT ![opened + 1] = e]
  BY DEF AppearWithSavedWallet, Adopt, persistent
<1>2. sessionBinding' = sessionBinding
  BY <1>1, StoresKept, BindingKept DEF FormHalfDone
<1>3. sessionActive' = sessionActive
  BY <1>1, WalletRange DEF StoreInv, TypeOK, sessionActive
<1> QED
  BY <1>1, <1>2, <1>3 DEF Unseen, sessionPlace

LEMMA TabsUnseen ==
  ASSUME StoreInv,
         SelectWalletTab \/ SelectHistoryTab \/ saveRestoreHeight
           \/ \E s \in {"send", "detail"} : Cover(s)
  PROVE  Unseen
<1>1. /\ main = "idle" /\ main' \in {"idle", "store"}
      /\ sessionPlace' = sessionPlace
      /\ UNCHANGED <<fs, keychain, wallet, engine>>
      /\ defaults'.walletFile = defaults.walletFile
  BY DEF StoreInv, TypeOK, SelectWalletTab, SelectHistoryTab,
         saveRestoreHeight, Cover, persistent, process, screens, sessionPlace
<1>2. sessionBinding' = sessionBinding
  BY <1>1, StoresKept, BindingKept DEF FormHalfDone, Adopting
<1> QED
  BY <1>1, <1>2 DEF Unseen, sessionActive

LEMMA StoreUnseen ==
  ASSUME StoreInv,
         saveStore \/ \E n \in Wallets : walletRefreshedStore(n)
  PROVE  Unseen
<1>1. PICK n \in Wallets :
        /\ fs' = NativeStore(fs, engine[n])
        /\ main' = main \/ main' = "idle"
        /\ main' = main \/ main = "store"
        /\ thread' \in [Wallets -> {"idle", "storing"}]
        /\ UNCHANGED <<defaults, keychain, opened, engine, wrapper, wallet,
                       blocks, screen, tab, observing, shown>>
  <2>1. CASE saveStore
    <3>1. wallet \in Wallets
      BY <2>1, WalletRange DEF StoreInv, Stages, saveStore
    <3> QED
      BY <2>1, <3>1 DEF StoreInv, TypeOK, saveStore, process, screens
  <2>2. CASE \E n \in Wallets : walletRefreshedStore(n)
    BY <2>2 DEF StoreInv, TypeOK, walletRefreshedStore, screens
  <2> QED
    BY <2>1, <2>2
<1>2. Bound' <=> Bound
  BY <1>1, StoreKeepsInv
<1>3. sessionBinding' = sessionBinding
  BY <1>1, <1>2, BindingKept DEF FormHalfDone, Adopting
<1> QED
  BY <1>1, <1>3 DEF Unseen, sessionActive, sessionPlace

LEMMA ThreadUnseen ==
  ASSUME StoreInv, NEW n \in Wallets,
         initWalletAsync(n) \/ Scan(n) \/ walletRefreshed(n)
  PROVE  Unseen
<1>1. /\ UNCHANGED <<fs, keychain, wallet, main, screen>>
      /\ defaults'.walletFile = defaults.walletFile
  BY DEF StoreInv, TypeOK, initWalletAsync, Scan, walletRefreshed,
         persistent, screens
<1>2. sessionBinding' = sessionBinding
  BY <1>1, StoresKept, BindingKept DEF FormHalfDone
<1>3. wallet # 0 => engine'[wallet].file = engine[wallet].file
  <2> SUFFICES ASSUME wallet # 0
               PROVE  engine'[wallet].file = engine[wallet].file
    OBVIOUS
  <2>1. /\ wallet \in Wallets /\ engine \in [Wallets -> Engine]
        /\ wrapper \in [Wallets -> Wrapper]
    BY WalletRange DEF StoreInv, TypeOK
  <2>2. CASE initWalletAsync(n)
    <3>1. engine'[wallet] = NativeInitAsync(
             IF wrapper[n].recovering
             THEN SetRecovering(engine[wallet], wrapper[n].restoreHeight)
             ELSE engine[wallet])
      BY <2>1, <2>2 DEF initWalletAsync
    <3>2. /\ engine[wallet] \in Engine /\ wrapper[n].recovering \in BOOLEAN
          /\ wrapper[n].restoreHeight \in Nat
      BY <2>1, SavedAreNumbers DEF Wrapper
    <3> QED
      BY <3>1, <3>2, InitAsyncResult
  <2>3. CASE Scan(n)
    BY <2>1, <2>3, ScanResult DEF Scan
  <2>4. CASE walletRefreshed(n)
    BY <2>4 DEF walletRefreshed
  <2> QED
    BY <2>2, <2>3, <2>4
<1> QED
  BY <1>1, <1>2, <1>3 DEF Unseen, sessionActive, sessionPlace

(* The writes of a handler that is adopting a wallet, and its last step.   *)
LEMMA AdoptingUnseen ==
  ASSUME StoreInv,
         savePassword \/ saveWalletFile \/ saveIsRecovering
           \/ saveInitialHeight \/ dispatchBlock
  PROVE  Unseen
<1>1. /\ TypeOK /\ main \in Adopting /\ screen \in {"login", "appearing"}
      /\ UNCHANGED <<fs, wallet, engine>>
  BY DEF StoreInv, Stages, Adopting, savePassword, saveWalletFile,
         saveIsRecovering, saveInitialHeight, dispatchBlock, persistent, process
<1>2. sessionPlace' = sessionPlace
  BY <1>1
  DEF sessionPlace, savePassword, saveWalletFile, saveIsRecovering,
      saveInitialHeight, dispatchBlock, screens
<1>3. sessionBinding' = sessionBinding
  <2>1. CASE FormHalfDone
    <3>1. FormHalfDone'
      BY <2>1 DEF FormHalfDone, Adopting, savePassword, saveWalletFile,
                  saveIsRecovering, saveInitialHeight, dispatchBlock, screens
    <3> QED
      BY <2>1, <3>1 DEF sessionBinding, Settled
  <2>2. CASE ~FormHalfDone
    <3>1. ~FormHalfDone'
      BY <1>1, <2>2 DEF FormHalfDone, Adopting, savePassword, saveWalletFile,
                  saveIsRecovering, saveInitialHeight, dispatchBlock, screens
    <3>2. CASE dispatchBlock
      <4>1. Bound' <=> Bound
        BY <3>2, StoresKept DEF dispatchBlock, persistent
      <4> QED
        BY <2>2, <3>1, <3>2, <4>1, BindingKept DEF dispatchBlock, persistent
    <3>3. CASE ~dispatchBlock
      <4>1. screen = "appearing"
        BY <1>1, <2>2, <3>3 DEF FormHalfDone, Adopting, savePassword,
            saveWalletFile, saveIsRecovering, saveInitialHeight
      <4>2. Settled
        BY <1>1, <2>2, <4>1 DEF StoreInv, Stages, Settled
      <4>3. /\ Settled'
            /\ defaults'.walletFile = defaults.walletFile
            /\ keychain' = keychain
        BY <4>2, SettledStep DEF Next, Uninterrupted, initWallet
      <4> QED
        BY <4>2, <4>3 DEF sessionBinding
    <3> QED
      BY <3>2, <3>3
  <2> QED
    BY <2>1, <2>2
<1> QED
  BY <1>1, <1>2, <1>3 DEF Unseen, sessionActive
-----------------------------------------------------------------------------
(* Steps that are Session's.                                               *)

LEMMA LoginStep ==
  ASSUME StoreInv, AppearWithoutSavedWallet
  PROVE  S!Login
<1>1. /\ screen = "appearing" /\ screen' = "login" /\ main = "idle"
      /\ ~Bound
      /\ UNCHANGED <<fs, defaults, keychain, wallet, engine, main>>
  BY DEF AppearWithoutSavedWallet, persistent
<1>2. ~Bound'
  BY <1>1, StoresKept
<1> QED
  BY <1>1, <1>2
  DEF S!Login, sessionBinding, sessionActive, sessionPlace, Settled

LEMMA LeaveStep ==
  ASSUME StoreInv, Uncover
  PROVE  S!Leave
<1>1. /\ main = "idle" /\ screen \in {"send", "detail"} /\ screen' = "appearing"
      /\ UNCHANGED <<fs, defaults, keychain, wallet, engine, main>>
  BY DEF Uncover, persistent, process
<1>2. sessionBinding' = sessionBinding
  BY <1>1, StoresKept, BindingKept DEF FormHalfDone, Adopting
<1> QED
  BY <1>1, <1>2 DEF S!Leave, sessionActive, sessionPlace

LEMMA AdoptedStep ==
  ASSUME StoreInv, assignWallet
  PROVE  S!Enter \/ \E f \in Files : S!Choose(f)
<1>1. /\ main = "wallet" /\ main' = "async" /\ wallet' = opened
      /\ screen \in {"login", "appearing"} /\ screen' = screen
      /\ UNCHANGED <<fs, defaults, keychain, engine>>
      /\ defaults.walletFile = engine[opened].file
      /\ screen = "appearing" => Bound
      /\ opened # 0
  BY DEF StoreInv, Stages, Described, Adopting, assignWallet, persistent
<1>2. engine[opened].file \in Files
  BY <1>1, WalletRange DEF StoreInv, TypeOK, Engine
<1>3. sessionActive' = engine[opened].file
  BY <1>1 DEF sessionActive
<1>4. CASE screen = "login"
  <2>1. sessionBinding = <<>> /\ sessionPlace = "login"
    BY <1>1, <1>4
    DEF sessionBinding, sessionPlace, Settled, FormHalfDone, Adopting
  <2>2. sessionPlace' = "door"
    BY <1>1, <1>4 DEF sessionPlace
  <2>3. sessionBinding' \in {<<>>} \cup ({engine[opened].file} \X Passwords)
    <3>1. Settled' => keychain' \in Passwords
      BY <1>1 DEF StoreInv, TypeOK, Settled, Bound
    <3> QED
      BY <1>1, <3>1 DEF sessionBinding
  <2>4. S!Choose(engine[opened].file)
    BY <1>3, <2>1, <2>2, <2>3 DEF S!Choose
  <2> QED
    BY <1>2, <2>4
<1>5. CASE screen = "appearing"
  <2>1. /\ sessionBinding = <<defaults.walletFile, keychain>>
        /\ sessionPlace = "door"
    BY <1>1, <1>5 DEF sessionBinding, sessionPlace, Settled, FormHalfDone
  <2>2. sessionPlace' = "inside"
    BY <1>1, <1>5 DEF sessionPlace
  <2>3. sessionBinding' = sessionBinding
    BY <1>1, <1>5, StoresKept, BindingKept DEF FormHalfDone
  <2>4. sessionBinding # <<>> /\ sessionBinding[1] = defaults.walletFile
    BY <2>1
  <2> QED
    BY <1>1, <1>3, <1>5, <2>1, <2>2, <2>3, <2>4 DEF S!Enter
<1> QED
  BY <1>1, <1>4, <1>5

LEMMA KillStep ==
  ASSUME StoreInv, Relaunch
  PROVE  S!Kill
<1>1. /\ wallet' = 0 /\ screen' = "appearing" /\ main' = "idle"
      /\ UNCHANGED <<fs, defaults, keychain>>
  BY DEF Relaunch, persistent
<1>2. sessionActive' = <<>> /\ sessionPlace' = "door"
  BY <1>1 DEF sessionActive, sessionPlace
<1>3. Bound' <=> Bound
  BY <1>1, StoresKept
<1>4. CASE FormHalfDone
  <2>1. sessionPlace = "login" /\ sessionBinding = <<>>
    BY <1>4 DEF sessionPlace, sessionBinding, Settled, FormHalfDone, Adopting
  <2>2. Bound => defaults.walletFile \in Files /\ keychain \in Passwords
    BY DEF StoreInv, TypeOK, Bound, savedWalletExists
  <2>3. sessionBinding' \in S!Bindings
    BY <1>1, <1>3, <2>2 DEF sessionBinding, Settled, S!Bindings
  <2> QED
    BY <1>2, <2>1, <2>3 DEF S!Kill
<1>5. CASE ~FormHalfDone
  <2>1. sessionBinding' = sessionBinding
    BY <1>1, <1>3, <1>5, BindingKept DEF FormHalfDone, Adopting
  <2>2. sessionBinding' \in S!Bindings
    <3>1. Settled => defaults.walletFile \in Files /\ keychain \in Passwords
      BY DEF StoreInv, TypeOK, Settled, Bound, savedWalletExists
    <3> QED
      BY <2>1, <3>1 DEF sessionBinding, S!Bindings
  <2> QED
    BY <1>2, <2>1, <2>2 DEF S!Kill
<1> QED
  BY <1>4, <1>5
-----------------------------------------------------------------------------
LEMMA SessionStep == StoreInv /\ [Next]_vars => [S!Next]_(S!vars)
<1> SUFFICES ASSUME StoreInv, [Next]_vars PROVE [S!Next]_(S!vars)
  OBVIOUS
<1>1. CASE CreateForm \/ OpenForm \/ RecoverForm
  BY <1>1, FormUnseen, UnseenIsAllowed
<1>2. CASE savePassword \/ initWallet
  BY <1>2, AdoptedStep, AdoptingUnseen, UnseenIsAllowed DEF initWallet, S!Next
<1>3. CASE AppearWithSavedWallet
  BY <1>3, OpenSavedUnseen, UnseenIsAllowed
<1>4. CASE AppearWithoutSavedWallet
  BY <1>4, LoginStep DEF S!Next
<1>5. CASE Navigation \/ saveRestoreHeight
  <2>1. CASE Uncover
    BY <2>1, LeaveStep DEF S!Next
  <2>2. CASE ~Uncover
    BY <1>5, <2>2, TabsUnseen, UnseenIsAllowed DEF Navigation
  <2> QED
    BY <2>1, <2>2
<1>6. CASE saveStore
  BY <1>6, StoreUnseen, UnseenIsAllowed
<1>7. CASE \E n \in Wallets : Background(n)
  BY <1>7, ThreadUnseen, StoreUnseen, UnseenIsAllowed DEF Background
<1>8. CASE Relaunch
  BY <1>8, KillStep DEF S!Next
<1>9. CASE UNCHANGED vars
  <2>1. Unseen
    BY <1>9 DEF Unseen, vars, persistent, process, screens, sessionBinding,
                sessionActive, sessionPlace, Settled, FormHalfDone, Bound,
                savedWalletExists
  <2> QED
    BY <2>1, UnseenIsAllowed
<1> QED
  BY <1>1, <1>2, <1>3, <1>4, <1>5, <1>6, <1>7, <1>8, <1>9
  DEF Next, Uninterrupted

(* Every behaviour of WalletStore, with all its threads, halves of         *)
(* handlers and kills, is a behaviour of Session under the mapping.        *)
THEOREM StoreImplementsSession == Spec => ImplementsSession
<1>1. Init => S!Init
  BY SessionInit
<1>2. StoreInv /\ [Next]_vars => [S!Next]_(S!vars)
  BY SessionStep
<1> QED
  BY <1>1, <1>2, StoreInvariant, PTL DEF Spec, ImplementsSession, S!Spec
=============================================================================
