---------------------------- MODULE DaemonHeight ----------------------------
(***************************************************************************)
(* The two daemon heights a Wallet object caches (monero/Wallet.mm) and    *)
(* the method of the wallet screen that reads them, one after the other,   *)
(* on the main thread (WalletViewController.refreshBlockHeights).          *)
(*                                                                         *)
(* daemonBlockChainHeight and daemonBlockChainTargetHeight are the same    *)
(* code over different instance variables, so they are one set of actions  *)
(* over a kind k.  A getter that must refetch blocks the main thread in a  *)
(* call to the daemon; the wall clock runs on meanwhile, and the clock is  *)
(* read again after the answer.  One unit of time is ten seconds.          *)
(*                                                                         *)
(* CFAbsoluteTimeGetCurrent is the wall clock of the device: the user or   *)
(* the network sets it, forwards or back, while real time goes on.         *)
(***************************************************************************)
EXTENDS Integers

CONSTANTS
  HeightTtl,     \* DAEMON_BLOCKCHAIN_HEIGHT_CACHE_TTL_SECONDS
  TargetTtl,     \* DAEMON_BLOCKCHAIN_TARGET_HEIGHT_CACHE_TTL_SECONDS
  RpcMax,        \* longest time a call to the daemon may take
  MaxTime,       \* bound: last instant explored
  MaxSet,        \* bound: how far the clock is set, each way, in all
  MaxHeight      \* bound: highest height the daemon reaches

ASSUME DaemonHeightAssumption ==
  /\ HeightTtl \in Nat
  /\ TargetTtl \in Nat
  /\ RpcMax \in Nat
  /\ MaxTime \in Nat
  /\ MaxSet \in Nat
  /\ MaxHeight \in Nat \ {0}

VARIABLES
  now,           \* real time
  setAhead,      \* by how much the clock was set forwards, in all
  setBack,       \* by how much the clock was set back, in all
  daemon,        \* what the daemon would answer for each kind
  cached,        \* m_daemonBlockChainHeight, m_daemonBlockChainTargetHeight
  cachedTime,    \* m_daemonBlockChainHeightTime, ...TargetHeightTime
  sampled,       \* history: when the daemon produced the cached answer
  kind,          \* the getter the main thread is in
  phase,         \* how far it is in that getter
  rpc,           \* the call to the daemon: when it began, its answer
  served         \* history: the last value each getter returned

vars == <<now, setAhead, setBack, daemon, cached, cachedTime, sampled, kind,
          phase, rpc, served>>
clock == <<now, setAhead, setBack>>

Kinds == {"height", "target"}
Phases == {"idle", "check", "calling", "answered"}

Ttl == [height |-> HeightTtl, target |-> TargetTtl]

CFAbsoluteTimeGetCurrent == now + setAhead - setBack

TypeOK ==
  /\ now \in Nat
  /\ setAhead \in Nat
  /\ setBack \in Nat
  /\ daemon \in [Kinds -> Nat \ {0}]
  /\ cached \in [Kinds -> Nat]
  /\ cachedTime \in [Kinds -> Int]
  /\ sampled \in [Kinds -> Nat]
  /\ kind \in Kinds
  /\ phase \in Phases
  /\ rpc \in [started: Nat, answer: Nat, at: Nat]
  /\ served \in [Kinds -> [value: Nat, age: Nat]]

Init ==
  /\ now = 0
  /\ setAhead = 0
  /\ setBack = 0
  /\ daemon = [k \in Kinds |-> 1]
  /\ cached = [k \in Kinds |-> 0]
  /\ cachedTime = [k \in Kinds |-> 0]
  /\ sampled = [k \in Kinds |-> 0]
  /\ kind = "height"
  /\ phase = "idle"
  /\ rpc = [started |-> 0, answer |-> 0, at |-> 0]
  /\ served = [k \in Kinds |-> [value |-> 0, age |-> 0]]
-----------------------------------------------------------------------------
(* Mutation: the time to live is not looked at.                            *)
FetchOnce(k) == cached[k] = 0

(* The condition under which a getter asks the daemon again.               *)
MustFetch(k) ==
  \/ cached[k] = 0
  \/ CFAbsoluteTimeGetCurrent - cachedTime[k] > Ttl[k]

(* A getter returns: the label needs the height first, then the target.    *)
Return(k, value, at) ==
  /\ served' = [served EXCEPT ![k] = [value |-> value, age |-> now - at]]
  /\ IF k = "height"
     THEN kind' = "target" /\ phase' = "check"
     ELSE kind' = "height" /\ phase' = "idle"

(* The wallet screen refreshes its block heights label.                    *)
refreshBlockHeights ==
  /\ phase = "idle"
  /\ kind' = "height"
  /\ phase' = "check"
  /\ UNCHANGED <<clock, daemon, cached, cachedTime, sampled, rpc, served>>

(* The getter answers from its instance variable.                          *)
ReturnCached(k) ==
  /\ phase = "check" /\ kind = k
  /\ ~MustFetch(k)
  /\ Return(k, cached[k], sampled[k])
  /\ UNCHANGED <<clock, daemon, cached, cachedTime, sampled, rpc>>

(* The getter calls the daemon and blocks.                                 *)
StartCall(k) ==
  /\ phase = "check" /\ kind = k
  /\ MustFetch(k)
  /\ phase' = "calling"
  /\ rpc' = [started |-> now, answer |-> 0, at |-> now]
  /\ UNCHANGED <<clock, daemon, cached, cachedTime, sampled, kind, served>>

(* Mutation: a failed call yields -1 instead of 0.                         *)
DaemonAnswersOrFails(k) ==
  /\ phase = "calling" /\ kind = k
  /\ \E answer \in {daemon[k], 0 - 1} :
       rpc' = [rpc EXCEPT !.answer = answer, !.at = now]
  /\ phase' = "answered"
  /\ UNCHANGED <<clock, daemon, cached, cachedTime, sampled, kind, served>>

(* The daemon answers with its height, or the call fails and yields 0.     *)
DaemonAnswers(k) ==
  /\ phase = "calling" /\ kind = k
  /\ \E answer \in {daemon[k], 0} :
       rpc' = [rpc EXCEPT !.answer = answer, !.at = now]
  /\ phase' = "answered"
  /\ UNCHANGED <<clock, daemon, cached, cachedTime, sampled, kind, served>>

(* Mutation: the time stamp is the clock's reading before the call.        *)
StampWithStart(k) ==
  /\ phase = "answered" /\ kind = k
  /\ cached' = [cached EXCEPT ![k] = rpc.answer]
  /\ cachedTime' = [cachedTime EXCEPT ![k] = rpc.started + setAhead - setBack]
  /\ sampled' = [sampled EXCEPT ![k] = rpc.at]
  /\ Return(k, rpc.answer, rpc.at)
  /\ UNCHANGED <<clock, daemon, rpc>>

(* The answer is stored, the clock is read again, the getter returns.      *)
StoreAnswer(k) ==
  /\ phase = "answered" /\ kind = k
  /\ cached' = [cached EXCEPT ![k] = rpc.answer]
  /\ cachedTime' = [cachedTime EXCEPT ![k] = CFAbsoluteTimeGetCurrent]
  /\ sampled' = [sampled EXCEPT ![k] = rpc.at]
  /\ Return(k, rpc.answer, rpc.at)
  /\ UNCHANGED <<clock, daemon, rpc>>

(* Time passes, no longer than RpcMax within one call to the daemon.       *)
Tick ==
  /\ now < MaxTime
  /\ phase \in {"calling", "answered"} => now - rpc.started < RpcMax
  /\ now' = now + 1
  /\ UNCHANGED <<setAhead, setBack, daemon, cached, cachedTime, sampled, kind,
                 phase, rpc, served>>

(* The clock of the device is set.                                         *)
SetClock ==
  /\ \/ /\ setAhead < MaxSet
        /\ setAhead' = setAhead + 1
        /\ UNCHANGED setBack
     \/ /\ setBack < MaxSet
        /\ setBack' = setBack + 1
        /\ UNCHANGED setAhead
  /\ UNCHANGED <<now, daemon, cached, cachedTime, sampled, kind, phase, rpc,
                 served>>

(* The daemon hears of a longer chain, or catches up with the one it knows.*)
DaemonGrows(k) ==
  /\ daemon[k] < MaxHeight
  /\ k = "height" => daemon["height"] < daemon["target"]
  /\ daemon' = [daemon EXCEPT ![k] = @ + 1]
  /\ UNCHANGED <<clock, cached, cachedTime, sampled, kind, phase, rpc, served>>

Next ==
  \/ refreshBlockHeights
  \/ Tick
  \/ SetClock
  \/ \E k \in Kinds :
       \/ ReturnCached(k)
       \/ StartCall(k)
       \/ DaemonAnswers(k)
       \/ StoreAnswer(k)
       \/ DaemonGrows(k)

Spec == Init /\ [][Next]_vars
-----------------------------------------------------------------------------
(* A height the screen is given was the daemon's own answer at most one    *)
(* TTL and one daemon call ago, plus the time by which the clock was set   *)
(* back meanwhile: the clock is read after the answer, so a slow call      *)
(* makes the cached value older than its time stamp says, and a clock set  *)
(* back makes the time stamp younger than it is.                           *)
BoundedStaleness ==
  \A k \in Kinds : served[k].age <= Ttl[k] + RpcMax + setBack

(* The cache saves calls: the main thread is never blocked in a second     *)
(* call for a height whose last answer, a success, is at most one TTL old, *)
(* less the time by which the clock was set forwards.  However long the    *)
(* last call took, the stamp is not older than its answer.                 *)
CallsAreSpaced ==
  phase = "calling" /\ cached[kind] # 0 =>
    rpc.started - sampled[kind] > Ttl[kind] - setAhead

(* What the comment in both getters says, "cache daemon blockchain height  *)
(* for some time (60 seconds by default)": no second call to the daemon    *)
(* within six units of ten seconds of the last successful one.             *)
CachedForSixtySeconds ==
  phase = "calling" =>
    cached[kind] = 0 \/ rpc.started - sampled[kind] > 6
=============================================================================
