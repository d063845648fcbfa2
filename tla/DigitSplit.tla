------------------------------ MODULE DigitSplit ------------------------------
(***************************************************************************)
(* decompose_amount_into_digits (cryptonote_core/cryptonote_format_utils.h)*)
(* with one turn of its loop per step.  An amount is cut, from its lowest  *)
(* digit up, into chunks of one digit each; the lowest digits that         *)
(* together do not exceed dust_threshold are handed over in one piece.     *)
(***************************************************************************)
EXTENDS Integers

CONSTANT Word       \* 2^64: one more than the largest uint64_t

ASSUME DigitSplitAssumption == Word \in Nat /\ Word > 1

VARIABLES
  asked,            \* the argument amount
  dust_threshold,   \* the argument dust_threshold
  amount, order,    \* what is left to cut, and the worth of its last digit
  dust,             \* the sum of the low digits
  is_dust_handled,
  done,             \* the function has returned
  paid,             \* history: the sum of the calls of chunk_handler
  dusted,           \* history: the sum of the calls of dust_handler
  dustCalls         \* history: the number of those calls

arguments == <<asked, dust_threshold>>
vars == <<arguments, amount, order, dust, is_dust_handled, done, paid, dusted,
          dustCalls>>

Uint64 == 0 .. (Word - 1)

TypeOK ==
  /\ asked \in Uint64 /\ dust_threshold \in Uint64
  /\ amount \in Uint64 /\ order \in Uint64 /\ dust \in Uint64
  /\ is_dust_handled \in BOOLEAN
  /\ done \in BOOLEAN
  /\ paid \in Nat /\ dusted \in Nat /\ dustCalls \in Nat

Init ==
  /\ asked \in Uint64
  /\ dust_threshold \in Uint64
  /\ amount = asked
  /\ order = 1
  /\ dust = 0
  /\ is_dust_handled = FALSE
  /\ done = (asked = 0)
  /\ paid = 0 /\ dusted = 0 /\ dustCalls = 0

chunk == ((amount % 10) * order) % Word
fits == (dust + chunk) % Word <= dust_threshold

dust_handler == dusted' = dusted + dust /\ dustCalls' = dustCalls + 1
noDust == UNCHANGED <<dusted, dustCalls>>

(* Mutation: the digit is subtracted from the amount, not shifted out.     *)
AddSubtracting ==
  /\ ~done /\ amount # 0
  /\ fits
  /\ dust' = (dust + chunk) % Word
  /\ amount' = amount - order
  /\ order' = (order * 10) % Word
  /\ UNCHANGED <<arguments, is_dust_handled, done, paid, dusted, dustCalls>>

(* A turn whose digit still counts as dust.                                *)
AddToDust ==
  /\ ~done /\ amount # 0
  /\ fits
  /\ dust' = (dust + chunk) % Word
  /\ amount' = amount \div 10
  /\ order' = (order * 10) % Word
  /\ UNCHANGED <<arguments, is_dust_handled, done, paid, dusted, dustCalls>>

(* Mutation: the dust is handed over at every chunk.                       *)
PayAndDust ==
  /\ ~done /\ amount # 0
  /\ ~fits
  /\ IF dust # 0 THEN is_dust_handled' = TRUE /\ dust_handler
                 ELSE UNCHANGED is_dust_handled /\ noDust
  /\ paid' = paid + chunk
  /\ amount' = amount \div 10
  /\ order' = (order * 10) % Word
  /\ UNCHANGED <<arguments, dust, done>>

(* A turn whose digit does not: the first one closes the dust.             *)
PayChunk ==
  /\ ~done /\ amount # 0
  /\ ~fits
  /\ IF ~is_dust_handled /\ dust # 0
     THEN is_dust_handled' = TRUE /\ dust_handler
     ELSE UNCHANGED is_dust_handled /\ noDust
  /\ paid' = paid + chunk
  /\ amount' = amount \div 10
  /\ order' = (order * 10) % Word
  /\ UNCHANGED <<arguments, dust, done>>

(* Mutation: the dust is not handed over after the loop.                   *)
LeaveDust ==
  /\ ~done /\ amount = 0
  /\ done' = TRUE
  /\ noDust
  /\ UNCHANGED <<arguments, amount, order, dust, is_dust_handled, paid>>

(* The loop is over: an amount that was all dust is handed over now.       *)
Finish ==
  /\ ~done /\ amount = 0
  /\ done' = TRUE
  /\ IF ~is_dust_handled /\ dust # 0 THEN dust_handler ELSE noDust
  /\ UNCHANGED <<arguments, amount, order, dust, is_dust_handled, paid>>

Next == AddToDust \/ PayChunk \/ Finish

Spec == Init /\ [][Next]_vars
-----------------------------------------------------------------------------
(* Every atomic unit of the amount goes to one of the handlers: no digit   *)
(* is added to the dust after the dust was handed over, order never wraps  *)
(* while it is used.                                                       *)
NothingLost == done => paid + dusted = asked

(* The dust is handed over at most once, and is within the threshold.      *)
OneDust == dustCalls <= 1 /\ dusted <= dust_threshold
=============================================================================
