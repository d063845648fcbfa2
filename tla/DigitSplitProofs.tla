--------------------------- MODULE DigitSplitProofs ---------------------------
(***************************************************************************)
(* decompose_amount_into_digits loses nothing, for every width of the      *)
(* integers, every amount and every threshold.                             *)
(***************************************************************************)
EXTENDS DigitSplit, TLAPS

(* The part of the argument that is not cut yet, in atomic units.          *)
Rest == amount * order

(* While digits are left, order is their true worth and what was cut so    *)
(* far adds up.  Once a chunk was paid, every digit to come is worth more  *)
(* than the dust has room for, so the dust is final.                       *)
LoopInv ==
  /\ amount # 0 => order >= 1 /\ paid + dust + Rest = asked
  /\ amount = 0 /\ ~done => paid + dust = asked
  /\ dust <= dust_threshold
  /\ paid = 0 => ~is_dust_handled
  /\ paid # 0 /\ amount # 0 => dust + order > dust_threshold
  /\ ~done /\ ~is_dust_handled => dusted = 0 /\ dustCalls = 0
  /\ ~done /\ ~is_dust_handled /\ paid # 0 => dust = 0
  /\ is_dust_handled => dusted = dust /\ dustCalls = 1

SplitInv == TypeOK /\ LoopInv /\ NothingLost /\ OneDust

LEMMA Product == \A x, y \in Nat : x * y \in Nat
  BY Z3

(* The arithmetic of one turn.                                             *)
LEMMA Shift ==
  ASSUME NEW a \in Nat, NEW o \in Nat, a # 0, o >= 1
  PROVE  /\ a % 10 \in 0 .. 9
         /\ a \div 10 \in Nat
         /\ (a % 10) * o \in Nat
         /\ (a % 10) * o <= 9 * o
         /\ (a % 10 # 0) => (a % 10) * o >= o
         /\ a * o = (a \div 10) * (10 * o) + (a % 10) * o
         /\ a \div 10 # 0 => (a \div 10) * (10 * o) >= 10 * o
<1> DEFINE q == a \div 10
           d == a % 10
<1>1. q \in Nat /\ d \in 0 .. 9 /\ a = 10 * q + d
  OBVIOUS
<1>2. ASSUME NEW x \in Nat, NEW y \in Nat
      PROVE  /\ x * y \in Nat
             /\ (10 * x) * y = x * (10 * y)
             /\ x # 0 => x * y >= y
  BY Z3
<1>3. (10 * q + d) * o = (10 * q) * o + d * o
  BY <1>1, Z3
<1>4. d * o \in Nat /\ d * o <= 9 * o
  BY <1>1, Z3
<1>5. d # 0 => d * o >= o
  BY <1>1, <1>2
<1>6. q # 0 => q * (10 * o) >= 10 * o
  BY <1>1, <1>2
<1>7. a * o = q * (10 * o) + d * o
  BY <1>1, <1>2, <1>3
<1> QED
  BY <1>1, <1>4, <1>5, <1>6, <1>7

(* What a turn of the loop computes, free of the width of the integers.    *)
LEMMA Turn ==
  ASSUME SplitInv, ~done, amount # 0
  PROVE  /\ chunk = (amount % 10) * order
         /\ chunk \in Nat /\ chunk <= 9 * order
         /\ chunk # 0 => chunk >= order
         /\ (dust + chunk) % Word = dust + chunk
         /\ amount \div 10 \in Uint64
         /\ (order * 10) % Word \in Uint64
         /\ dust + chunk \in Uint64
         /\ amount \div 10 # 0 =>
              /\ (order * 10) % Word = 10 * order
              /\ Rest = (amount \div 10) * (10 * order) + chunk
         /\ amount \div 10 = 0 => Rest = chunk
<1> USE DigitSplitAssumption
<1> DEFINE c == (amount % 10) * order
           q == amount \div 10
<1>1. /\ amount \in Nat /\ amount < Word /\ order \in Nat /\ order >= 1
      /\ dust \in Nat /\ paid \in Nat /\ asked \in Nat /\ asked < Word
      /\ paid + dust + Rest = asked
  BY DEF SplitInv, TypeOK, LoopInv, Uint64
<1>2. /\ amount % 10 \in 0 .. 9 /\ q \in Nat /\ c \in Nat
      /\ c <= 9 * order
      /\ (amount % 10 # 0) => c >= order
      /\ Rest = q * (10 * order) + c
      /\ q # 0 => q * (10 * order) >= 10 * order
  BY <1>1, Shift DEF Rest
<1>3. q * (10 * order) \in Nat
  BY <1>1, <1>2, Z3
<1>4. dust + c < Word /\ c < Word
  BY <1>1, <1>2, <1>3
<1>5. chunk = c /\ (dust + c) % Word = dust + c
  BY <1>1, <1>2, <1>4 DEF chunk
<1>6. c # 0 => c >= order
  BY <1>1, <1>2
<1>7. q # 0 => (order * 10) % Word = 10 * order
  <2> SUFFICES ASSUME q # 0 PROVE (order * 10) % Word = 10 * order
    OBVIOUS
  <2>1. 10 * order < Word
    BY <1>1, <1>2, <1>3
  <2> QED
    BY <1>1, <2>1
<1>8. q = 0 => q * (10 * order) = 0
  BY <1>1
<1>9. q \in Uint64 /\ dust + c \in Uint64
  BY <1>1, <1>2, <1>4 DEF Uint64
<1>10. (order * 10) % Word \in Uint64
  BY <1>1 DEF Uint64
<1> HIDE DEF c, q
<1> QED
  BY <1>2, <1>3, <1>5, <1>6, <1>7, <1>8, <1>9, <1>10 DEF c, q

LEMMA SplitInit == Init => SplitInv
<1> SUFFICES ASSUME Init PROVE SplitInv
  OBVIOUS
<1>1. TypeOK
  <2>1. done \in BOOLEAN
    BY Zenon DEF Init
  <2>2. /\ asked \in Uint64 /\ dust_threshold \in Uint64 /\ amount = asked
        /\ order = 1 /\ dust = 0 /\ is_dust_handled \in BOOLEAN
        /\ paid = 0 /\ dusted = 0 /\ dustCalls = 0
    BY Zenon DEF Init
  <2> QED
    BY <2>1, <2>2, DigitSplitAssumption DEF TypeOK, Uint64
<1>2. LoopInv
  BY <1>1 DEF Init, TypeOK, LoopInv, Rest, Uint64
<1> QED
  BY <1>1, <1>2 DEF Init, SplitInv, NothingLost, OneDust, TypeOK, Uint64

LEMMA SplitStep == SplitInv /\ [Next]_vars => SplitInv'
<1> SUFFICES ASSUME SplitInv, [Next]_vars PROVE SplitInv'
  OBVIOUS
<1> DEFINE q == amount \div 10
<1>1. /\ dust \in Nat /\ paid \in Nat /\ asked \in Nat /\ dusted \in Nat
      /\ dustCalls \in Nat /\ dust_threshold \in Nat /\ order \in Nat
  BY DEF SplitInv, TypeOK, Uint64
<1>2. CASE AddToDust
  <2>1. dust' = dust + chunk /\ dust + chunk <= dust_threshold /\ ~done'
    BY <1>2, Turn DEF AddToDust, fits
  <2>2. TypeOK'
    BY <1>2, Turn DEF AddToDust, SplitInv, TypeOK, arguments
  <2>3. amount' = q /\ paid' = paid /\ UNCHANGED <<arguments, is_dust_handled,
          done, dusted, dustCalls>> /\ amount # 0 /\ ~done
    BY <1>2 DEF AddToDust
  <2>4. q # 0 => order' = 10 * order /\ Rest = Rest' + chunk
    BY <1>2, <2>3, Turn DEF AddToDust, Rest
  <2>5. order >= 1 /\ paid + dust + Rest = asked /\ Rest \in Nat
    <3>1. Rest \in Nat
      BY Z3 DEF SplitInv, TypeOK, Uint64, Rest
    <3> QED
      BY <2>3, <3>1 DEF SplitInv, LoopInv
  <2>6. paid # 0 => chunk = 0
    BY <1>1, <2>1, <2>3, Turn DEF SplitInv, LoopInv
  <2>7. chunk \in Nat /\ (q = 0 => Rest = chunk)
    BY <2>3, Turn
  <2>8. amount' # 0 => order' >= 1 /\ paid' + dust' + Rest' = asked'
    <3>1. CASE q # 0
      <4>1. Rest' \in Nat
        <5>1. amount' \in Nat /\ order' \in Nat
          BY <2>2 DEF TypeOK, Uint64
        <5> QED
          BY <5>1, Product DEF Rest
      <4> QED
        <5>1. asked' = asked /\ paid' = paid /\ dust' = dust + chunk
          BY <2>1, <2>3 DEF arguments
        <5>2. order' = 10 * order /\ Rest = Rest' + chunk
          BY <3>1, <2>4
        <5>3. order' >= 1
          BY <5>2, <1>1, <2>5
        <5>4. paid + (dust + chunk) + Rest' = asked
          <6>1. paid \in Nat /\ dust \in Nat /\ chunk \in Nat
            BY <1>1, <2>7
          <6>2. paid + dust + (Rest' + chunk) = asked
            BY <5>2, <2>5
          <6>3. paid + dust + (Rest' + chunk) = paid + (dust + chunk) + Rest'
            BY <4>1, <6>1
          <6> QED
            BY <6>2, <6>3
        <5> QED
          BY <5>1, <5>3, <5>4
    <3> QED
      BY <3>1, <2>3
  <2>9. amount' = 0 => paid' + dust' = asked'
    BY <1>1, <2>1, <2>3, <2>5, <2>7 DEF arguments
  <2>10. paid' # 0 /\ amount' # 0 => dust' + order' > dust_threshold'
    BY <1>1, <2>1, <2>3, <2>4, <2>6 DEF SplitInv, LoopInv, arguments
  <2>11. is_dust_handled' => dusted' = dust' /\ dustCalls' = 1
    BY <1>1, <2>1, <2>3, <2>6 DEF SplitInv, LoopInv
  <2>12. ~is_dust_handled' /\ paid' # 0 => dust' = 0
    BY <1>1, <2>1, <2>3, <2>6 DEF SplitInv, LoopInv
  <2>13. LoopInv'
    BY <2>1, <2>3, <2>8, <2>9, <2>10, <2>11, <2>12
    DEF SplitInv, LoopInv, arguments
  <2> QED
    BY <2>1, <2>2, <2>3, <2>13
    DEF SplitInv, NothingLost, OneDust, arguments
<1>3. CASE PayChunk
  <2>1. dust' = dust /\ dust + chunk > dust_threshold /\ chunk # 0
    BY <1>3, <1>1, Turn DEF PayChunk, fits, SplitInv, LoopInv
  <2>2. /\ amount' = q /\ paid' = paid + chunk /\ UNCHANGED <<arguments, done>>
        /\ amount # 0 /\ ~done /\ ~done'
    BY <1>3 DEF PayChunk
  <2>3. chunk \in Nat /\ chunk <= 9 * order /\ (q = 0 => Rest = chunk)
    BY <2>2, Turn
  <2>4. paid' # 0 /\ paid' \in Nat
    BY <1>1, <2>1, <2>2, <2>3
  <2>5. /\ dusted' \in Nat /\ dustCalls' \in Nat /\ is_dust_handled' \in BOOLEAN
        /\ is_dust_handled' => dusted' = dust /\ dustCalls' = 1
        /\ ~is_dust_handled' =>
             dust = 0 /\ dusted' = 0 /\ dustCalls' = 0
    <3>1. CASE ~is_dust_handled /\ dust # 0
      BY <3>1, <1>1, <1>3, <2>2
      DEF PayChunk, dust_handler, SplitInv, LoopInv, TypeOK
    <3>2. CASE ~(~is_dust_handled /\ dust # 0)
      BY <3>2, <1>1, <1>3, <2>2
      DEF PayChunk, noDust, SplitInv, LoopInv, TypeOK
    <3> QED
      BY <3>1, <3>2
  <2>6. TypeOK'
    BY <1>3, <2>1, <2>2, <2>4, <2>5, Turn
    DEF PayChunk, SplitInv, TypeOK, arguments
  <2>7. q # 0 => order' = 10 * order /\ Rest = Rest' + chunk
    BY <1>3, <2>2, Turn DEF PayChunk, Rest
  <2>8. order >= 1 /\ paid + dust + Rest = asked
    BY <2>2 DEF SplitInv, LoopInv
  <2>9. amount' # 0 => order' >= 1 /\ paid' + dust' + Rest' = asked'
    <3>1. CASE q # 0
      <4>1. Rest' \in Nat
        <5>1. amount' \in Nat /\ order' \in Nat
          BY <2>6 DEF TypeOK, Uint64
        <5> QED
          BY <5>1, Product DEF Rest
      <4> QED
        <5>1. asked' = asked /\ paid' = paid + chunk /\ dust' = dust
          BY <2>1, <2>2 DEF arguments
        <5>2. order' = 10 * order /\ Rest = Rest' + chunk
          BY <3>1, <2>7
        <5>3. order' >= 1
          BY <5>2, <1>1, <2>8
        <5>4. (paid + chunk) + dust + Rest' = asked
          <6>1. paid \in Nat /\ dust \in Nat /\ chunk \in Nat
            BY <1>1, <2>3
          <6>2. paid + dust + (Rest' + chunk) = asked
            BY <5>2, <2>8
          <6>3. paid + dust + (Rest' + chunk) = (paid + chunk) + dust + Rest'
            BY <4>1, <6>1
          <6> QED
            BY <6>2, <6>3
        <5> QED
          BY <5>1, <5>3, <5>4
    <3> QED
      BY <3>1, <2>2
  <2>10. amount' = 0 => paid' + dust' = asked'
    BY <1>1, <2>1, <2>2, <2>3, <2>8 DEF arguments
  <2>11. amount' # 0 => dust' + order' > dust_threshold'
    BY <1>1, <2>1, <2>2, <2>3, <2>7, <2>8 DEF arguments
  <2>12. LoopInv'
    BY <2>1, <2>2, <2>4, <2>5, <2>9, <2>10, <2>11
    DEF SplitInv, LoopInv, arguments
  <2> QED
    BY <2>1, <2>2, <2>5, <2>6, <2>12, <1>1
    DEF SplitInv, LoopInv, NothingLost, OneDust, arguments
<1>4. CASE Finish
  <2>1. /\ UNCHANGED <<arguments, amount, order, dust, is_dust_handled, paid>>
        /\ amount = 0 /\ ~done /\ done'
        /\ paid + dust = asked /\ dust <= dust_threshold
    BY <1>4 DEF Finish, SplitInv, LoopInv
  <2>2. dusted' = dust /\ dustCalls' \in {0, 1}
    <3>1. CASE ~is_dust_handled /\ dust # 0
      BY <3>1, <1>1, <1>4, <2>1 DEF Finish, dust_handler, SplitInv, LoopInv
    <3>2. CASE is_dust_handled
      BY <3>2, <1>4, <2>1 DEF Finish, noDust, SplitInv, LoopInv
    <3>3. CASE ~is_dust_handled /\ dust = 0
      BY <3>3, <1>4, <2>1 DEF Finish, noDust, SplitInv, LoopInv
    <3> QED
      BY <3>1, <3>2, <3>3
  <2>3. is_dust_handled => dustCalls' = 1
    BY <1>4 DEF Finish, noDust, SplitInv, LoopInv
  <2>4. TypeOK'
    BY <1>1, <2>1, <2>2 DEF SplitInv, TypeOK, arguments
  <2>5. LoopInv'
    BY <2>1, <2>2, <2>3 DEF SplitInv, LoopInv, arguments
  <2> QED
    BY <1>1, <2>1, <2>2, <2>4, <2>5
    DEF SplitInv, NothingLost, OneDust, arguments
<1>5. CASE UNCHANGED vars
  BY <1>5 DEF vars, arguments, SplitInv, TypeOK, LoopInv, Rest, NothingLost,
      OneDust
<1> QED
  BY <1>2, <1>3, <1>4, <1>5 DEF Next

LEMMA SplitInvariant == Spec => []SplitInv
  BY SplitInit, SplitStep, PTL DEF Spec

(* Whatever the amount, the threshold and the width, the calls of the two  *)
(* handlers add up to the amount.                                          *)
THEOREM SplitLosesNothing == Spec => []NothingLost
<1>1. SplitInv => NothingLost
  BY DEF SplitInv
<1> QED
  BY SplitInvariant, <1>1, PTL

(* The dust is handed over in at most one piece, within its threshold.     *)
THEOREM DustIsOnePiece == Spec => []OneDust
<1>1. SplitInv => OneDust
  BY DEF SplitInv
<1> QED
  BY SplitInvariant, <1>1, PTL

(* Every intermediate amount is a uint64_t, whatever wraps on the way.     *)
THEOREM SplitTypeCorrect == Spec => []TypeOK
<1>1. SplitInv => TypeOK
  BY DEF SplitInv
<1> QED
  BY SplitInvariant, <1>1, PTL
=============================================================================
