------------------------- MODULE DaemonHeightProofs -------------------------
(***************************************************************************)
(* What the two cached daemon heights guarantee for every time to live,    *)
(* every duration of a daemon call and every chain.                        *)
(***************************************************************************)
EXTENDS DaemonHeight, TLAPS

(* How old the pieces of a getter's state can be.  A time stamp is not     *)
(* earlier than the sample, but for what the clock was set back by, and at *)
(* most one call, and all the time the clock was set forwards by, later; a *)
(* call under way began at most RpcMax ago and was answered since.         *)
AgesBounded ==
  /\ \A k \in Kinds :
       /\ sampled[k] <= now
       /\ sampled[k] - setBack <= cachedTime[k]
       /\ cachedTime[k] <= sampled[k] + RpcMax + setAhead
  /\ phase \in {"calling", "answered"} =>
       rpc.started <= now /\ now <= rpc.started + RpcMax
  /\ phase = "answered" => rpc.started <= rpc.at /\ rpc.at <= now

DaemonInv ==
  TypeOK /\ AgesBounded /\ BoundedStaleness /\ CallsAreSpaced

(* The two constants of Wallet.mm as one function.                         *)
LEMMA TtlType == Ttl \in [Kinds -> Nat]
  BY DaemonHeightAssumption DEF Ttl, Kinds

LEMMA DaemonInit == Init => DaemonInv
  BY DaemonHeightAssumption, TtlType
  DEF Init, DaemonInv, TypeOK, AgesBounded, BoundedStaleness,
      CallsAreSpaced, Kinds, Phases

(* A getter's return keeps the bounds when what it returns respects them.  *)
LEMMA ReturnKeepsBounds ==
  ASSUME TypeOK, BoundedStaleness,
         NEW k \in Kinds, NEW value \in Nat, NEW at \in Nat,
         at <= now, now - at <= Ttl[k] + RpcMax + setBack,
         Return(k, value, at), UNCHANGED clock
  PROVE  /\ served' \in [Kinds -> [value: Nat, age: Nat]]
         /\ kind' \in Kinds
         /\ phase' \in {"check", "idle"}
         /\ BoundedStaleness'
<1>1. now - at \in Nat
  BY DEF TypeOK
<1>2. served' = [served EXCEPT ![k] =
                   [value |-> value, age |-> now - at]]
  BY DEF Return
<1>3. served' \in [Kinds -> [value: Nat, age: Nat]]
  BY <1>1, <1>2 DEF TypeOK
<1>4. kind' \in Kinds /\ phase' \in {"check", "idle"}
  BY DEF Return, Kinds
<1>5. BoundedStaleness'
  BY <1>2, TtlType, DaemonHeightAssumption
  DEF BoundedStaleness, TypeOK, Ttl, clock
<1> QED
  BY <1>3, <1>4, <1>5

LEMMA DaemonStep == DaemonInv /\ [Next]_vars => DaemonInv'
<1> SUFFICES ASSUME DaemonInv, [Next]_vars PROVE DaemonInv'
  OBVIOUS
<1> USE DaemonHeightAssumption, TtlType
<1>1. CASE refreshBlockHeights
  BY <1>1 DEF refreshBlockHeights, clock, DaemonInv, TypeOK, AgesBounded,
      BoundedStaleness, CallsAreSpaced, Kinds, Phases, Ttl
<1>2. CASE Tick
  <2>1. TypeOK' /\ BoundedStaleness' /\ CallsAreSpaced'
    BY <1>2 DEF Tick, DaemonInv, TypeOK, BoundedStaleness,
        CallsAreSpaced, Ttl
  <2>2. AgesBounded'
    BY <1>2 DEF Tick, DaemonInv, TypeOK, AgesBounded
  <2> QED
    BY <2>1, <2>2 DEF DaemonInv
<1>3. ASSUME NEW k \in Kinds, ReturnCached(k) PROVE DaemonInv'
  <2>1. /\ sampled[k] \in Nat /\ cached[k] \in Nat
        /\ sampled[k] <= now /\ now - sampled[k] <= Ttl[k] + RpcMax + setBack
    BY <1>3 DEF ReturnCached, MustFetch, CFAbsoluteTimeGetCurrent, DaemonInv,
        TypeOK, AgesBounded
  <2>2. Return(k, cached[k], sampled[k]) /\ UNCHANGED clock
    BY <1>3 DEF ReturnCached
  <2>3. /\ served' \in [Kinds -> [value: Nat, age: Nat]]
        /\ kind' \in Kinds
        /\ phase' \in {"check", "idle"}
        /\ BoundedStaleness'
    BY <2>1, <2>2, ReturnKeepsBounds DEF DaemonInv
  <2>4. TypeOK' /\ AgesBounded'
    BY <1>3, <2>3 DEF ReturnCached, clock, DaemonInv, TypeOK, AgesBounded,
        Phases
  <2>5. CallsAreSpaced'
    BY <2>3 DEF CallsAreSpaced
  <2> QED
    BY <2>3, <2>4, <2>5 DEF DaemonInv
<1>4. ASSUME NEW k \in Kinds, StartCall(k) PROVE DaemonInv'
  <2>1. TypeOK' /\ AgesBounded' /\ BoundedStaleness'
    BY <1>4 DEF StartCall, clock, DaemonInv, TypeOK, AgesBounded,
        BoundedStaleness, Phases, Ttl
  <2>2. CASE cached[k] = 0
    BY <1>4, <2>1, <2>2 DEF StartCall, DaemonInv, CallsAreSpaced
  <2>3. CASE cached[k] # 0
    <3>1. (now + setAhead - setBack) - cachedTime[k] > Ttl[k]
      BY <1>4, <2>3 DEF StartCall, MustFetch, CFAbsoluteTimeGetCurrent
    <3>2. now - sampled[k] > Ttl[k] - setAhead
      BY <3>1 DEF DaemonInv, TypeOK, AgesBounded
    <3>3. rpc'.started = now
      BY <1>4 DEF StartCall
    <3>4. CallsAreSpaced'
      BY <1>4, <3>2, <3>3 DEF StartCall, clock, CallsAreSpaced
    <3> QED
      BY <2>1, <3>4 DEF DaemonInv
  <2> QED
    BY <2>2, <2>3
<1>5. ASSUME NEW k \in Kinds, DaemonAnswers(k) PROVE DaemonInv'
  <2>1. PICK answer \in {daemon[k], 0} :
          rpc' = [rpc EXCEPT !.answer = answer, !.at = now]
    BY <1>5 DEF DaemonAnswers
  <2>2. answer \in Nat /\ now \in Nat
    BY DEF DaemonInv, TypeOK
  <2>3. rpc \in [started: Nat, answer: Nat, at: Nat]
    BY DEF DaemonInv, TypeOK
  <2>4. rpc' = [started |-> rpc.started, answer |-> answer, at |-> now]
    BY <2>1, <2>3
  <2>5. rpc' \in [started: Nat, answer: Nat, at: Nat]
    BY <2>2, <2>3, <2>4
  <2> QED
    BY <1>5, <2>4, <2>5 DEF DaemonAnswers, clock, DaemonInv, TypeOK, AgesBounded,
        BoundedStaleness, CallsAreSpaced, Phases, Ttl
<1>6. ASSUME NEW k \in Kinds, StoreAnswer(k) PROVE DaemonInv'
  <2>1. /\ rpc.answer \in Nat /\ rpc.at \in Nat /\ rpc.at <= now
        /\ now - rpc.at <= Ttl[k] + RpcMax + setBack /\ now <= rpc.at + RpcMax
    BY <1>6 DEF StoreAnswer, DaemonInv, TypeOK, AgesBounded
  <2>2. Return(k, rpc.answer, rpc.at) /\ UNCHANGED clock
    BY <1>6 DEF StoreAnswer
  <2>3. /\ served' \in [Kinds -> [value: Nat, age: Nat]]
        /\ kind' \in Kinds
        /\ phase' \in {"check", "idle"}
        /\ BoundedStaleness'
    BY <2>1, <2>2, ReturnKeepsBounds DEF DaemonInv
  <2>4. /\ CFAbsoluteTimeGetCurrent \in Int
        /\ rpc.at - setBack <= CFAbsoluteTimeGetCurrent
        /\ CFAbsoluteTimeGetCurrent <= rpc.at + RpcMax + setAhead
    BY <2>1 DEF CFAbsoluteTimeGetCurrent, DaemonInv, TypeOK
  <2>5. TypeOK'
    BY <1>6, <2>1, <2>3, <2>4 DEF StoreAnswer, clock, DaemonInv, TypeOK, Phases
  <2>6. AgesBounded'
    <3>1. /\ cachedTime'[k] = CFAbsoluteTimeGetCurrent
          /\ sampled'[k] = rpc.at
          /\ \A l \in Kinds \ {k} : /\ cachedTime'[l] = cachedTime[l]
                                   /\ sampled'[l] = sampled[l]
      BY <1>6 DEF StoreAnswer, DaemonInv, TypeOK
    <3> QED
      BY <1>6, <2>1, <2>3, <2>4, <3>1
      DEF StoreAnswer, clock, DaemonInv, AgesBounded
  <2>7. CallsAreSpaced'
    BY <2>3 DEF CallsAreSpaced
  <2> QED
    BY <2>3, <2>5, <2>6, <2>7 DEF DaemonInv
<1>7. ASSUME NEW k \in Kinds, DaemonGrows(k) PROVE DaemonInv'
  BY <1>7 DEF DaemonGrows, clock, DaemonInv, TypeOK, AgesBounded, BoundedStaleness,
      CallsAreSpaced, Ttl
<1>8. CASE SetClock
  <2>1. TypeOK' /\ setAhead' >= setAhead /\ setBack' >= setBack
    BY <1>8 DEF SetClock, DaemonInv, TypeOK
  <2>2. BoundedStaleness' /\ CallsAreSpaced'
    BY <1>8, <2>1 DEF SetClock, DaemonInv, TypeOK, BoundedStaleness,
        CallsAreSpaced, Ttl
  <2>3. AgesBounded'
    BY <1>8, <2>1 DEF SetClock, DaemonInv, TypeOK, AgesBounded
  <2> QED
    BY <2>1, <2>2, <2>3 DEF DaemonInv
<1>9. CASE UNCHANGED vars
  BY <1>9 DEF vars, DaemonInv, TypeOK, AgesBounded, BoundedStaleness,
      CallsAreSpaced, Ttl
<1> QED
  BY <1>1, <1>2, <1>3, <1>4, <1>5, <1>6, <1>7, <1>8, <1>9 DEF Next

(* The invariants the daemon_height run checks hold for all constants.     *)
LEMMA DaemonInvariant == Spec => []DaemonInv
  BY DaemonInit, DaemonStep, PTL DEF Spec

(* The state of the getters keeps its types: the Wallet object's two       *)
(* cached heights are never negative, whatever a call to the daemon yields.*)
THEOREM HeightsTypeCorrect == Spec => []TypeOK
<1>1. DaemonInv => TypeOK
  BY DEF DaemonInv
<1> QED
  BY DaemonInvariant, <1>1, PTL

(* However slow the daemon, however the getters interleave with the clock  *)
(* and however the clock is set, no height served to the wallet tab is     *)
(* older than its time to live, one call and what the clock was set back   *)
(* by.                                                                     *)
THEOREM StalenessIsBounded == Spec => []BoundedStaleness
<1>1. DaemonInv => BoundedStaleness
  BY DEF DaemonInv
<1> QED
  BY DaemonInvariant, <1>1, PTL

(* However long the calls take and however the clock is set, the cache     *)
(* saves calls: no getter blocks the main thread in a call within a time   *)
(* to live of its last answer, less what the clock was set forwards by.    *)
THEOREM SecondCallWaits == Spec => []CallsAreSpaced
<1>1. DaemonInv => CallsAreSpaced
  BY DEF DaemonInv
<1> QED
  BY DaemonInvariant, <1>1, PTL
=============================================================================
