----------------------------- MODULE BdbBulkRead -----------------------------
(***************************************************************************)
(* The two guards a bulk read of the Berkeley DB back end is built from    *)
(* (blockchain_db/berkeleydb/db_bdb.h): bdb_txn_safe, which ends a         *)
(* transaction that its scope has not ended, and bdb_safe_buffer_autolock, *)
(* which borrows one of the few buffers of a bdb_safe_buffer.              *)
(*                                                                         *)
(* Threads share the buffers under m_lock; the body of a critical section  *)
(* is one action.  m_cv has the usual meaning: notify_one wakes one        *)
(* sleeper if there is one, a sleeper may also wake for no reason, and a   *)
(* thread that was woken competes for the lock with those that arrive.     *)
(* Who begins transactions and what may throw is outside the header: any   *)
(* step of a read may throw.                                               *)
(***************************************************************************)
EXTENDS Naturals, FiniteSets

CONSTANTS
  Threads,        \* the threads that read
  NumBuffers      \* the num_buffers the buffer pool is constructed with

ASSUME BdbAssumption ==
  /\ IsFiniteSet(Threads)
  /\ NumBuffers \in Nat \ {0}

VARIABLES
  m_txn,          \* of each thread's bdb_txn_safe: does it hold a handle
  txn,            \* the transaction that handle belongs to
  at,             \* how far each thread is
  m_open_slot,    \* which buffers are free
  m_count,        \* how many buffers are free
  m_buffer_map    \* the slot of each thread's buffer, 0 for none

vars == <<m_txn, txn, at, m_open_slot, m_count, m_buffer_map>>
pool == <<m_open_slot, m_count, m_buffer_map>>

MaxAllowedBuffers == 8
Slots == 1 .. (IF NumBuffers > MaxAllowedBuffers THEN MaxAllowedBuffers
                                                 ELSE NumBuffers)

TypeOK ==
  /\ m_txn \in [Threads -> BOOLEAN]
  /\ txn \in [Threads -> {"none", "active", "ended"}]
  /\ at \in [Threads -> {"out", "in", "waiting", "asleep", "reading"}]
  /\ m_open_slot \in [Slots -> BOOLEAN]
  /\ m_count \in Nat
  /\ m_buffer_map \in [Threads -> Slots \cup {0}]

Init ==
  /\ m_txn = [t \in Threads |-> FALSE]
  /\ txn = [t \in Threads |-> "none"]
  /\ at = [t \in Threads |-> "out"]
  /\ m_open_slot = [i \in Slots |-> TRUE]
  /\ m_count = Cardinality(Slots)
  /\ m_buffer_map = [t \in Threads |-> 0]
-----------------------------------------------------------------------------
(* A thread begins a transaction through operator DbTxn** of a new guard.  *)
Begin(t) ==
  /\ at[t] = "out"
  /\ m_txn' = [m_txn EXCEPT ![t] = TRUE]
  /\ txn' = [txn EXCEPT ![t] = "active"]
  /\ at' = [at EXCEPT ![t] = "in"]
  /\ UNCHANGED pool

(* Mutation: a failed commit throws before the handle is cleared.          *)
CommitThenClear(t) ==
  /\ at[t] = "in" /\ m_txn[t]
  /\ m_txn' \in {m_txn, [m_txn EXCEPT ![t] = FALSE]}
  /\ txn' = [txn EXCEPT ![t] = "ended"]
  /\ UNCHANGED <<at, pool>>

(* commit: the handle is cleared whether DbTxn::commit fails or not, and   *)
(* the transaction is over in both cases; a failure is then thrown.        *)
commit(t) ==
  /\ at[t] = "in" /\ m_txn[t]
  /\ m_txn' = [m_txn EXCEPT ![t] = FALSE]
  /\ txn' = [txn EXCEPT ![t] = "ended"]
  /\ UNCHANGED <<at, pool>>

(* The scope of the transaction ends, by return or by an exception: the    *)
(* destructor of the guard aborts what was not committed.                  *)
EndScope(t) ==
  /\ at[t] = "in"
  /\ at' = [at EXCEPT ![t] = "out"]
  /\ m_txn' = [m_txn EXCEPT ![t] = FALSE]
  /\ txn' = IF m_txn[t] THEN [txn EXCEPT ![t] = "ended"] ELSE txn
  /\ UNCHANGED pool
-----------------------------------------------------------------------------
(* The constructor of the autolock enters acquire_buffer.                  *)
autolock(t) ==
  /\ at[t] = "in" /\ m_txn[t]
  /\ at' = [at EXCEPT ![t] = "waiting"]
  /\ UNCHANGED <<m_txn, txn, pool>>

(* The wait in acquire_buffer finds no free buffer and sleeps.             *)
Sleep(t) ==
  /\ at[t] = "waiting" /\ m_count = 0
  /\ at' = [at EXCEPT ![t] = "asleep"]
  /\ UNCHANGED <<m_txn, txn, pool>>

(* m_cv wakes a sleeper that nobody notified.                              *)
SpuriousWakeup(t) ==
  /\ at[t] = "asleep"
  /\ at' = [at EXCEPT ![t] = "waiting"]
  /\ UNCHANGED <<m_txn, txn, pool>>

(* Mutation: a buffer is handed out and its slot stays open.               *)
AcquireOpen(t) ==
  /\ at[t] = "waiting" /\ m_count > 0
  /\ \E i \in Slots :
       /\ m_open_slot[i]
       /\ m_count' = m_count - 1
       /\ m_buffer_map' = [m_buffer_map EXCEPT ![t] = i]
  /\ at' = [at EXCEPT ![t] = "reading"]
  /\ UNCHANGED <<m_open_slot, m_txn, txn>>

(* Mutation: the wait is taken for granted after a wake-up.                *)
AcquireUnchecked(t) ==
  /\ at[t] = "waiting"
  /\ m_count' = m_count - 1
  /\ \E i \in Slots :
       /\ m_open_slot' = [m_open_slot EXCEPT ![i] = FALSE]
       /\ m_buffer_map' = [m_buffer_map EXCEPT ![t] = i]
  /\ at' = [at EXCEPT ![t] = "reading"]
  /\ UNCHANGED <<m_txn, txn>>

(* acquire_buffer past its wait: an open slot is taken.  The code takes    *)
(* the first one; nothing depends on which.                                *)
acquire_buffer(t) ==
  /\ at[t] = "waiting" /\ m_count > 0
  /\ \E i \in Slots :
       /\ m_open_slot[i]
       /\ m_count' = m_count - 1
       /\ m_open_slot' = [m_open_slot EXCEPT ![i] = FALSE]
       /\ m_buffer_map' = [m_buffer_map EXCEPT ![t] = i]
  /\ at' = [at EXCEPT ![t] = "reading"]
  /\ UNCHANGED <<m_txn, txn>>

Asleep == {t \in Threads : at[t] = "asleep"}
Waiting == {t \in Threads : at[t] = "waiting"}

(* notify_one, seen with the return of thread t's buffer.                  *)
NotifyOne(t) ==
  IF Asleep = {}
  THEN at' = [at EXCEPT ![t] = "in"]
  ELSE \E u \in Asleep : at' = [at EXCEPT ![t] = "in", ![u] = "waiting"]

(* Mutation: a waiter is notified only when the pool was empty.            *)
ReleaseNotifyingFirst(t) ==
  /\ at[t] = "reading"
  /\ m_count' = m_count + 1
  /\ m_open_slot' = [m_open_slot EXCEPT ![m_buffer_map[t]] = TRUE]
  /\ m_buffer_map' = [m_buffer_map EXCEPT ![t] = 0]
  /\ IF m_count = 0 THEN NotifyOne(t) ELSE at' = [at EXCEPT ![t] = "in"]
  /\ UNCHANGED <<m_txn, txn>>

(* Mutation: a buffer is returned without a notification.                  *)
ReleaseSilently(t) ==
  /\ at[t] = "reading"
  /\ m_count' = m_count + 1
  /\ m_open_slot' = [m_open_slot EXCEPT ![m_buffer_map[t]] = TRUE]
  /\ m_buffer_map' = [m_buffer_map EXCEPT ![t] = 0]
  /\ at' = [at EXCEPT ![t] = "in"]
  /\ UNCHANGED <<m_txn, txn>>

(* The destructor of the autolock, at the end of its scope or in the       *)
(* unwinding of an exception: release_buffer.                              *)
release_buffer(t) ==
  /\ at[t] = "reading"
  /\ m_count' = m_count + 1
  /\ m_open_slot' = [m_open_slot EXCEPT ![m_buffer_map[t]] = TRUE]
  /\ m_buffer_map' = [m_buffer_map EXCEPT ![t] = 0]
  /\ NotifyOne(t)
  /\ UNCHANGED <<m_txn, txn>>

Step(t) ==
  \/ commit(t)
  \/ EndScope(t)
  \/ Sleep(t)
  \/ acquire_buffer(t)
  \/ release_buffer(t)

Next ==
  \E t \in Threads : Begin(t) \/ autolock(t) \/ SpuriousWakeup(t) \/ Step(t)

Spec == Init /\ [][Next]_vars

(* A thread that can go on, does; m_lock is not handed out in turn.        *)
FairSpec ==
  /\ Spec
  /\ \A t \in Threads : WF_vars(Step(t))
-----------------------------------------------------------------------------
(* No two threads read into one buffer, and m_count and m_open_slot, which *)
(* acquire and release update one after the other, agree with who reads:   *)
(* an open slot is there whenever acquire_buffer looks for one.           *)
BuffersAreLent ==
  /\ \A t, u \in Threads :
       t # u /\ m_buffer_map[t] = m_buffer_map[u] => m_buffer_map[t] = 0
  /\ \A i \in Slots :
       m_open_slot[i] <=> \A t \in Threads : m_buffer_map[t] # i
  /\ m_count = Cardinality({i \in Slots : m_open_slot[i]})

(* No wake-up is lost: while a thread sleeps for a buffer, for every free  *)
(* buffer there is a thread awake to take it, although a release notifies  *)
(* one thread only and a newcomer may take what was released for another.  *)
FreeBuffersAreExpected ==
  Asleep # {} => m_count <= Cardinality(Waiting)

(* A guard never holds a transaction that is over (DbTxn forbids any use   *)
(* of it then), and no transaction and no buffer outlives its scope,       *)
(* whichever of commit and read failed.                                    *)
ScopesCleanUp ==
  \A t \in Threads :
    /\ m_txn[t] <=> txn[t] = "active"
    /\ at[t] = "out" => txn[t] # "active"
    /\ m_buffer_map[t] # 0 <=> at[t] = "reading"

(* A buffer does not lie free for ever while a thread sleeps for one.      *)
FreeBuffersAreTaken ==
  (m_count > 0 /\ Asleep # {}) ~> (m_count = 0 \/ Asleep = {})
=============================================================================
