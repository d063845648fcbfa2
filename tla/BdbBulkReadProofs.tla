--------------------------- MODULE BdbBulkReadProofs ---------------------------
(***************************************************************************)
(* What the guards of a bulk read guarantee for any finite number of       *)
(* threads and any number of buffers.                                      *)
(***************************************************************************)
EXTENDS BdbBulkRead, FiniteSetTheorems, TLAPS

OpenSlots == {i \in Slots : m_open_slot[i]}

(* A thread holds a buffer exactly while it reads.                         *)
LentWhileReading ==
  \A t \in Threads : m_buffer_map[t] # 0 <=> at[t] = "reading"

PoolInv ==
  TypeOK /\ BuffersAreLent /\ LentWhileReading /\ FreeBuffersAreExpected

LEMMA SlotsFinite ==
  /\ IsFiniteSet(Slots)
  /\ Slots \subseteq Nat \ {0}
  /\ Cardinality(Slots) \in Nat
<1>1. PICK k \in Nat \ {0} : Slots = 1 .. k
  BY BdbAssumption DEF Slots, MaxAllowedBuffers
<1> QED
  BY <1>1, FS_Interval, FS_CardinalityType

LEMMA OpenFinite == IsFiniteSet(OpenSlots) /\ Cardinality(OpenSlots) \in Nat
  BY SlotsFinite, FS_Subset, FS_CardinalityType DEF OpenSlots

LEMMA WaitingFinite == IsFiniteSet(Waiting) /\ Cardinality(Waiting) \in Nat
  BY BdbAssumption, FS_Subset, FS_CardinalityType DEF Waiting

LEMMA PoolInit == Init => PoolInv
<1> SUFFICES ASSUME Init PROVE PoolInv
  OBVIOUS
<1>1. TypeOK
  BY SlotsFinite DEF Init, TypeOK
<1>2. OpenSlots = Slots
  BY DEF Init, OpenSlots
<1>3. BuffersAreLent
  BY <1>2, SlotsFinite DEF Init, BuffersAreLent, OpenSlots
<1>4. LentWhileReading /\ FreeBuffersAreExpected
  BY DEF Init, LentWhileReading, FreeBuffersAreExpected, Asleep
<1> QED
  BY <1>1, <1>3, <1>4 DEF PoolInv

(* A thread that joins the waiting ones makes them one more; nobody leaves.*)
LEMMA OneMoreWaits ==
  ASSUME TypeOK, NEW t \in Threads, at[t] # "waiting",
         at' = [at EXCEPT ![t] = "waiting"]
  PROVE  /\ Waiting' = Waiting \cup {t}
         /\ Cardinality(Waiting') = Cardinality(Waiting) + 1
         /\ Asleep' = Asleep \ {t}
<1>1. Waiting' = Waiting \cup {t} /\ t \notin Waiting
  BY DEF TypeOK, Waiting
<1>2. Asleep' = Asleep \ {t}
  BY DEF TypeOK, Asleep
<1> QED
  BY <1>1, <1>2, WaitingFinite, FS_AddElement

(* Steps that leave the pool alone and let nobody stop waiting.            *)
LEMMA PoolUntouched ==
  ASSUME PoolInv, UNCHANGED pool, TypeOK',
         LentWhileReading',
         Asleep' # {} => Asleep # {} \/ m_count = 0,
         Cardinality(Waiting') >= Cardinality(Waiting) \/ m_count = 0,
         Cardinality(Waiting') \in Nat
  PROVE  PoolInv'
<1>1. BuffersAreLent'
  BY DEF PoolInv, BuffersAreLent, pool
<1>2. FreeBuffersAreExpected'
  BY WaitingFinite DEF PoolInv, FreeBuffersAreExpected, pool, TypeOK
<1> QED
  BY <1>1, <1>2 DEF PoolInv

(* A step between states in which t neither waits, sleeps nor reads.       *)
LEMMA StepOutside ==
  ASSUME PoolInv, UNCHANGED pool, TypeOK', NEW t \in Threads,
         \/ UNCHANGED at
         \/ /\ at[t] \in {"in", "out"}
            /\ at' = [at EXCEPT ![t] = "in"] \/ at' = [at EXCEPT ![t] = "out"]
  PROVE  PoolInv'
<1>1. Waiting' = Waiting /\ Asleep' = Asleep
  BY DEF PoolInv, TypeOK, Waiting, Asleep
<1>2. LentWhileReading'
  BY DEF PoolInv, TypeOK, LentWhileReading, pool
<1> QED
  BY <1>1, <1>2, WaitingFinite, PoolUntouched

LEMMA SleepStep ==
  ASSUME PoolInv, NEW t \in Threads, Sleep(t)
  PROVE  PoolInv'
<1>1. TypeOK' /\ LentWhileReading'
  BY DEF Sleep, pool, PoolInv, TypeOK, LentWhileReading
<1>2. m_count = 0 /\ UNCHANGED pool
  BY DEF Sleep
<1>3. Cardinality(Waiting') \in Nat
  BY BdbAssumption, FS_Subset, FS_CardinalityType DEF Waiting
<1> QED
  BY <1>1, <1>2, <1>3, PoolUntouched

(* autolock and SpuriousWakeup.                                            *)
LEMMA WaitStep ==
  ASSUME PoolInv, NEW t \in Threads, autolock(t) \/ SpuriousWakeup(t)
  PROVE  PoolInv'
<1>1. /\ UNCHANGED pool /\ TypeOK /\ at[t] \notin {"waiting", "reading"}
      /\ at' = [at EXCEPT ![t] = "waiting"]
  BY DEF autolock, SpuriousWakeup, PoolInv
<1>2. TypeOK' /\ LentWhileReading'
  BY <1>1 DEF autolock, SpuriousWakeup, pool, PoolInv, TypeOK, LentWhileReading
<1>3. Cardinality(Waiting') = Cardinality(Waiting) + 1 /\ Asleep' \subseteq Asleep
  BY <1>1, OneMoreWaits
<1> QED
  BY <1>1, <1>2, <1>3, WaitingFinite, PoolUntouched

LEMMA AcquireStep ==
  ASSUME PoolInv, NEW t \in Threads, acquire_buffer(t)
  PROVE  PoolInv'
<1>1. PICK i \in Slots :
        /\ m_open_slot[i]
        /\ m_count' = m_count - 1
        /\ m_open_slot' = [m_open_slot EXCEPT ![i] = FALSE]
        /\ m_buffer_map' = [m_buffer_map EXCEPT ![t] = i]
  BY DEF acquire_buffer
<1>2. /\ at[t] = "waiting" /\ m_count > 0 /\ m_buffer_map[t] = 0
      /\ at' = [at EXCEPT ![t] = "reading"]
      /\ UNCHANGED <<m_txn, txn>>
  BY DEF acquire_buffer, PoolInv, LentWhileReading
<1>3. TypeOK'
  BY <1>1, <1>2 DEF PoolInv, TypeOK
<1>4. LentWhileReading'
  BY <1>1, <1>2, SlotsFinite DEF PoolInv, TypeOK, LentWhileReading
<1>5. /\ Cardinality(OpenSlots') = Cardinality(OpenSlots) - 1
      /\ Cardinality(OpenSlots) = m_count
  <2>1. OpenSlots' = OpenSlots \ {i} /\ i \in OpenSlots
    BY <1>1 DEF PoolInv, TypeOK, OpenSlots
  <2>2. Cardinality(OpenSlots \ {i}) = Cardinality(OpenSlots) - 1
    BY <2>1, OpenFinite, FS_RemoveElement
  <2>3. Cardinality(OpenSlots) = m_count
    BY DEF PoolInv, BuffersAreLent, OpenSlots
  <2> QED
    BY <2>1, <2>2, <2>3
<1>6. BuffersAreLent'
  <2>1. \A u \in Threads : m_buffer_map[u] # i
    BY <1>1 DEF PoolInv, BuffersAreLent
  <2>2. \A u \in Threads \ {t} : m_buffer_map'[u] = m_buffer_map[u]
    BY <1>1 DEF PoolInv, TypeOK
  <2>3. m_buffer_map'[t] = i /\ i # 0
    BY <1>1, SlotsFinite DEF PoolInv, TypeOK
  <2>4. \A u, v \in Threads :
          u # v /\ m_buffer_map'[u] = m_buffer_map'[v] => m_buffer_map'[u] = 0
    BY <2>1, <2>2, <2>3 DEF PoolInv, BuffersAreLent
  <2>5. \A j \in Slots :
          m_open_slot'[j] <=> \A u \in Threads : m_buffer_map'[u] # j
    <3> TAKE j \in Slots
    <3>1. CASE j = i
      BY <3>1, <1>1, <2>3 DEF PoolInv, TypeOK
    <3>2. CASE j # i
      <4>1. m_open_slot'[j] = m_open_slot[j]
        BY <3>2, <1>1 DEF PoolInv, TypeOK
      <4>2. m_buffer_map[t] # j /\ m_buffer_map'[t] # j
        BY <3>2, <1>2, <2>3, SlotsFinite
      <4> QED
        BY <4>1, <4>2, <2>2 DEF PoolInv, BuffersAreLent
    <3> QED
      BY <3>1, <3>2
  <2>6. m_count' = Cardinality({j \in Slots : m_open_slot'[j]})
    BY <1>1, <1>5 DEF OpenSlots
  <2> QED
    BY <2>4, <2>5, <2>6 DEF BuffersAreLent
<1>7. FreeBuffersAreExpected'
  <2>1. Waiting' = Waiting \ {t} /\ t \in Waiting /\ Asleep' = Asleep
    BY <1>2 DEF PoolInv, TypeOK, Waiting, Asleep
  <2>2. Cardinality(Waiting') = Cardinality(Waiting) - 1
    BY <2>1, WaitingFinite, FS_RemoveElement
  <2> QED
    BY <1>1, <2>1, <2>2, WaitingFinite
    DEF PoolInv, FreeBuffersAreExpected, TypeOK
<1> QED
  BY <1>3, <1>4, <1>6, <1>7 DEF PoolInv

LEMMA ReleaseStep ==
  ASSUME PoolInv, NEW t \in Threads, release_buffer(t)
  PROVE  PoolInv'
<1> DEFINE i == m_buffer_map[t]
<1>1. /\ at[t] = "reading"
      /\ m_count' = m_count + 1
      /\ m_open_slot' = [m_open_slot EXCEPT ![i] = TRUE]
      /\ m_buffer_map' = [m_buffer_map EXCEPT ![t] = 0]
      /\ NotifyOne(t)
      /\ UNCHANGED <<m_txn, txn>>
  BY DEF release_buffer
<1>2. i \in Slots /\ i # 0 /\ ~m_open_slot[i]
  <2>1. i \in Slots /\ i # 0
    BY <1>1, SlotsFinite DEF PoolInv, TypeOK, LentWhileReading
  <2> QED
    BY <2>1 DEF PoolInv, BuffersAreLent
<1>3. \A u \in Threads \ {t} : m_buffer_map'[u] = m_buffer_map[u]
  BY <1>1 DEF PoolInv, TypeOK
<1>4. m_buffer_map'[t] = 0
  BY <1>1 DEF PoolInv, TypeOK
<1>5. /\ at' \in [Threads -> {"out", "in", "waiting", "asleep", "reading"}]
      /\ at'[t] = "in"
      /\ \A u \in Threads \ {t} : at'[u] = "reading" <=> at[u] = "reading"
      /\ \/ Asleep' = {}
         \/ Cardinality(Waiting') = Cardinality(Waiting) + 1
  <2>1. CASE Asleep = {}
    <3>1. at' = [at EXCEPT ![t] = "in"]
      BY <1>1, <2>1 DEF NotifyOne
    <3>2. Asleep' = {}
      BY <2>1, <3>1 DEF PoolInv, TypeOK, Asleep
    <3> QED
      BY <3>1, <3>2 DEF PoolInv, TypeOK
  <2>2. CASE Asleep # {}
    <3>1. PICK w \in Asleep : at' = [at EXCEPT ![t] = "in", ![w] = "waiting"]
      BY <1>1, <2>2 DEF NotifyOne
    <3>2. w \in Threads /\ at[w] = "asleep" /\ w # t
      BY <3>1, <1>1 DEF Asleep
    <3>3. Waiting' = Waiting \cup {w} /\ w \notin Waiting
      BY <3>1, <3>2, <1>1 DEF PoolInv, TypeOK, Waiting
    <3>4. Cardinality(Waiting') = Cardinality(Waiting) + 1
      BY <3>3, WaitingFinite, FS_AddElement
    <3> QED
      BY <3>1, <3>2, <3>4 DEF PoolInv, TypeOK
  <2> QED
    BY <2>1, <2>2
<1>6. TypeOK'
  <2>1. m_open_slot' \in [Slots -> BOOLEAN]
    BY <1>1, <1>2 DEF PoolInv, TypeOK
  <2>2. m_buffer_map' \in [Threads -> Slots \cup {0}]
    BY <1>1 DEF PoolInv, TypeOK
  <2>3. m_count' \in Nat
    BY <1>1 DEF PoolInv, TypeOK
  <2> QED
    BY <2>1, <2>2, <2>3, <1>1, <1>5 DEF PoolInv, TypeOK
<1>7. LentWhileReading'
  BY <1>3, <1>4, <1>5 DEF PoolInv, LentWhileReading
<1>8. m_count' = Cardinality(OpenSlots')
  <2>1. OpenSlots' = OpenSlots \cup {i} /\ i \notin OpenSlots
    BY <1>1, <1>2 DEF PoolInv, TypeOK, OpenSlots
  <2>2. Cardinality(OpenSlots \cup {i}) = Cardinality(OpenSlots) + 1
    BY <2>1, OpenFinite, FS_AddElement
  <2>3. Cardinality(OpenSlots) = m_count
    BY DEF PoolInv, BuffersAreLent, OpenSlots
  <2> QED
    BY <1>1, <2>1, <2>2, <2>3
<1>9. BuffersAreLent'
  <2>1. \A u, v \in Threads :
          u # v /\ m_buffer_map'[u] = m_buffer_map'[v] => m_buffer_map'[u] = 0
    BY <1>3, <1>4 DEF PoolInv, BuffersAreLent
  <2>2. \A j \in Slots :
          m_open_slot'[j] <=> \A u \in Threads : m_buffer_map'[u] # j
    <3> TAKE j \in Slots
    <3>1. j # 0
      BY SlotsFinite
    <3>2. CASE j = i
      <4>1. \A u \in Threads \ {t} : m_buffer_map[u] # i
        BY <1>2 DEF PoolInv, BuffersAreLent
      <4> QED
        BY <3>1, <3>2, <4>1, <1>1, <1>2, <1>3, <1>4 DEF PoolInv, TypeOK
    <3>3. CASE j # i
      <4>1. m_open_slot'[j] = m_open_slot[j]
        BY <3>3, <1>1 DEF PoolInv, TypeOK
      <4> QED
        BY <4>1, <3>1, <3>3, <1>3, <1>4 DEF PoolInv, BuffersAreLent
    <3> QED
      BY <3>2, <3>3
  <2> QED
    BY <2>1, <2>2, <1>8 DEF BuffersAreLent, OpenSlots
<1>10. FreeBuffersAreExpected'
  <2>1. Asleep' # {} => Asleep # {}
    BY <1>1 DEF NotifyOne, PoolInv, TypeOK, Asleep
  <2> QED
    BY <2>1, <1>1, <1>5, WaitingFinite
    DEF PoolInv, FreeBuffersAreExpected, TypeOK
<1> QED
  BY <1>6, <1>7, <1>9, <1>10 DEF PoolInv

LEMMA PoolStep == PoolInv /\ [Next]_vars => PoolInv'
<1> SUFFICES ASSUME PoolInv, [Next]_vars PROVE PoolInv'
  OBVIOUS
<1>1. ASSUME NEW t \in Threads, Begin(t) PROVE PoolInv'
  <2>1. TypeOK'
    BY <1>1 DEF Begin, pool, PoolInv, TypeOK
  <2> QED
    BY <1>1, <2>1, StepOutside DEF Begin
<1>2. ASSUME NEW t \in Threads, commit(t) PROVE PoolInv'
  <2>1. TypeOK'
    BY <1>2 DEF commit, pool, PoolInv, TypeOK
  <2> QED
    BY <1>2, <2>1, StepOutside DEF commit
<1>3. ASSUME NEW t \in Threads, EndScope(t) PROVE PoolInv'
  <2>1. TypeOK'
    BY <1>3 DEF EndScope, pool, PoolInv, TypeOK
  <2> QED
    BY <1>3, <2>1, StepOutside DEF EndScope
<1>4. CASE UNCHANGED vars
  BY <1>4 DEF vars, pool, PoolInv, TypeOK, BuffersAreLent, LentWhileReading,
      FreeBuffersAreExpected, Asleep, Waiting
<1> QED
  BY <1>1, <1>2, <1>3, <1>4, WaitStep, SleepStep, AcquireStep, ReleaseStep
  DEF Next, Step

LEMMA PoolInvariant == Spec => []PoolInv
  BY PoolInit, PoolStep, PTL DEF Spec

(* For any number of threads, a buffer has one borrower, and a thread that *)
(* acquire_buffer lets past its wait finds an open slot.                   *)
THEOREM OneBorrowerEach == Spec => []BuffersAreLent
<1>1. PoolInv => BuffersAreLent
  BY DEF PoolInv
<1> QED
  BY PoolInvariant, <1>1, PTL

(* For any number of threads, notify_one is enough: while a thread sleeps, *)
(* every free buffer has a thread on its way to it.                        *)
THEOREM NoWakeupIsLost == Spec => []FreeBuffersAreExpected
<1>1. PoolInv => FreeBuffersAreExpected
  BY DEF PoolInv
<1> QED
  BY PoolInvariant, <1>1, PTL

(* The same for the guards of the transactions.                            *)
GuardsHold ==
  \A t \in Threads : /\ m_txn[t] <=> txn[t] = "active"
                     /\ at[t] = "out" => txn[t] # "active"

(* Steps that leave the transactions alone and end nobody's scope.         *)
LEMMA GuardsUntouched ==
  ASSUME GuardsHold, UNCHANGED <<m_txn, txn>>,
         \A t \in Threads : at'[t] = "out" => at[t] = "out"
  PROVE  GuardsHold'
  BY DEF GuardsHold

LEMMA GuardsStep == PoolInv /\ GuardsHold /\ [Next]_vars => GuardsHold'
<1> SUFFICES ASSUME PoolInv, GuardsHold, [Next]_vars PROVE GuardsHold'
  OBVIOUS
<1> USE DEF PoolInv, TypeOK
<1>1. ASSUME NEW t \in Threads, Begin(t) PROVE GuardsHold'
  BY <1>1 DEF Begin, GuardsHold
<1>2. ASSUME NEW t \in Threads, commit(t) PROVE GuardsHold'
  BY <1>2 DEF commit, GuardsHold
<1>3. ASSUME NEW t \in Threads, EndScope(t) PROVE GuardsHold'
  BY <1>3 DEF EndScope, GuardsHold
<1>4. ASSUME NEW t \in Threads,
             autolock(t) \/ SpuriousWakeup(t) \/ Sleep(t) \/ acquire_buffer(t)
      PROVE  GuardsHold'
  <2>1. /\ UNCHANGED <<m_txn, txn>>
        /\ \A u \in Threads : at'[u] = "out" => at[u] = "out"
    BY <1>4 DEF autolock, SpuriousWakeup, Sleep, acquire_buffer
  <2> QED
    BY <2>1, GuardsUntouched
<1>5. ASSUME NEW t \in Threads, release_buffer(t) PROVE GuardsHold'
  <2>1. UNCHANGED <<m_txn, txn>> /\ NotifyOne(t)
    BY <1>5 DEF release_buffer
  <2>2. \A u \in Threads : at'[u] = "out" => at[u] = "out"
    BY <2>1 DEF NotifyOne, Asleep
  <2> QED
    BY <2>1, <2>2, GuardsUntouched
<1>6. CASE UNCHANGED vars
  BY <1>6, GuardsUntouched DEF vars
<1> QED
  BY <1>1, <1>2, <1>3, <1>4, <1>5, <1>6 DEF Next, Step

(* For any number of threads and buffers, m_count is a count and every     *)
(* slot a thread reads into is one of the pool's.                          *)
THEOREM PoolTypeCorrect == Spec => []TypeOK
<1>1. PoolInv => TypeOK
  BY DEF PoolInv
<1> QED
  BY PoolInvariant, <1>1, PTL

(* Whichever of commit and read throws, in any thread: a guard holds a     *)
(* transaction exactly while it is active, and neither a transaction nor a *)
(* buffer outlives its scope.                                              *)
THEOREM NothingOutlivesItsScope == Spec => []ScopesCleanUp
<1>1. Init => GuardsHold
  BY DEF Init, GuardsHold
<1>2. PoolInv /\ GuardsHold => ScopesCleanUp
  BY DEF PoolInv, LentWhileReading, GuardsHold, ScopesCleanUp
<1> QED
  BY PoolInvariant, GuardsStep, <1>1, <1>2, PTL DEF Spec
=============================================================================
