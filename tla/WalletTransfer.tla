---------------------------- MODULE WalletTransfer ----------------------------
(***************************************************************************)
(* wallet2::transfer (wallet/wallet2.h), the template that makes a         *)
(* transaction, with its two strategies for cutting the outputs.           *)
(*                                                                         *)
(* Amounts are uint64_t and wrap at Word.  The wallet's outputs have       *)
(* distinct places in the chain's list of outputs of their amount.  What   *)
(* select_transfers picks and which outputs the daemon offers to mix with  *)
(* is outside the header: any of the wallet's unused outputs, and any list *)
(* of places, in any order, with repetitions and of any length.            *)
(*                                                                         *)
(* Every loop over data is a use of Turns, a recursive function, about     *)
(* which WalletTransferProofs can reason by induction.                     *)
(***************************************************************************)
EXTENDS Naturals, Sequences, FiniteSets, SequencesExt

CONSTANTS
  Word,           \* 2^64
  Addresses,      \* the addresses there are
  Transfers,      \* m_transfers that can be spent: [amount, index]
  Destinations,   \* the dsts lists that are asked for
  Fees,           \* the fees that are asked for
  Mixins,         \* the fake_outputs_count that are asked for
  DustLimits,     \* dust_threshold of the dust policies
  Digits,         \* decimal digits of a uint64_t: 20
  Answers         \* lists of places the daemon may offer for an amount

Own == "own"      \* the wallet's own address
Dust == "dust"    \* a policy's addr_for_dust that is another one
Nobody == "null"  \* the address of an unset tx_destination_entry

(* What n turns of a loop make of base: its state after each of them.      *)
Turns(n, base, Turn(_, _)) ==
  LET after[i \in 0 .. n] == IF i = 0 THEN base ELSE Turn(after[i - 1], i)
  IN  after

Total(a) == Turns(Len(a), 0, LAMBDA sum, i : sum + a[i])[Len(a)]
SumOf(entries) == Total([i \in 1 .. Len(entries) |-> entries[i].amount])
PaidTo(address, entries) ==
  Total([i \in 1 .. Len(entries) |-> IF entries[i].addr = address
                                     THEN entries[i].amount ELSE 0])

(* The entries of s at the positions in K.                                 *)
Kept(s, K) ==
  Turns(Len(s), <<>>, LAMBDA kept, i : IF i \in K THEN Append(kept, s[i])
                                                 ELSE kept)[Len(s)]

(* The std::lists select_transfers can put together.                       *)
Selections == {s \in UNION {[1 .. n -> Transfers] :
                            n \in 0 .. Cardinality(Transfers)} :
                 \A i, j \in DOMAIN s : s[i] = s[j] => i = j}

(* Amounts are uint64_t, and so is MONEY_SUPPLY: the outputs of one wallet *)
(* are not worth more.  Digits is enough for every amount.                 *)
ASSUME WalletTransferAssumption ==
  /\ Word \in Nat \ {0}
  /\ IsFiniteSet(Transfers)
  /\ \A t \in Transfers : t.amount \in Nat /\ t.index \in Nat
  /\ \A s \in Selections : SumOf(s) < Word
  /\ {Own, Dust, Nobody} \subseteq Addresses
  /\ \A d \in Destinations :
       d \in Seq([addr: Addresses, amount: 0 .. (Word - 1)])
  /\ Fees \subseteq 0 .. (Word - 1)
  /\ Mixins \subseteq Nat /\ DustLimits \subseteq Nat
  /\ Digits \in Nat
  /\ Answers \subseteq Seq(Nat)
  /\ Word <= Turns(Digits, 1, LAMBDA power, i : 10 * power)[Digits]

VARIABLES
  phase,         \* how far the call is
  call,          \* the arguments
  needed_money,
  selected,      \* selected_transfers
  found_money,
  outs,          \* daemon_resp.outs: for each selected transfer an offer
  ptx            \* the result: sources, outputs and the pending_tx's fields

vars == <<phase, call, needed_money, selected, found_money, outs, ptx>>

Policy == [threshold: DustLimits, toFee: BOOLEAN,
           address: {Own, Dust, Nobody}]
Call == [dsts: Destinations, mixin: Mixins, fee: Fees, policy: Policy,
         digits: BOOLEAN]
Exceptions == {"zero_destination", "tx_sum_overflow", "not_enough_money",
               "wallet_internal_error", "no_connection_to_daemon",
               "daemon_busy", "get_random_outs_error",
               "not_enough_outs_to_mix", "tx_not_constructed", "tx_too_big",
               "unexpected_txin_type"}

None == <<>>

TypeOK ==
  /\ phase \in {"summed", "selected", "mixed", "done"} \cup Exceptions
  /\ call \in Call
  /\ needed_money \in 0 .. (Word - 1)
  /\ selected \in Selections
  /\ found_money \in 0 .. (Word - 1)
  /\ outs = None \/ outs \in [DOMAIN selected -> Answers]
-----------------------------------------------------------------------------
(* Mutation: the sum is checked once, after the last destination.          *)
SumOnce(dsts, fee) ==
  LET sum == (fee + SumOf(dsts)) % Word
      bad == dsts = <<>> \/ \E i \in DOMAIN dsts : dsts[i].amount = 0
  IN  [sum |-> sum, error |-> IF bad THEN "zero_destination"
                              ELSE IF sum < fee THEN "tx_sum_overflow"
                              ELSE "none"]

(* One turn of that loop: the first thing wrong is thrown.                 *)
AddAmount(acc, amount) ==
  LET sum == (acc.sum + amount) % Word
  IN  CASE acc.error # "none" -> acc
        [] acc.error = "none" /\ amount = 0 ->
             [acc EXCEPT !.error = "zero_destination"]
        [] acc.error = "none" /\ amount # 0 /\ sum < amount ->
             [acc EXCEPT !.error = "tx_sum_overflow"]
        [] OTHER -> [acc EXCEPT !.sum = sum]

(* needed_money: the fee and, one by one, the destinations.                *)
Needed(dsts, fee) ==
  Turns(Len(dsts),
        [sum |-> fee,
         error |-> IF dsts = <<>> THEN "zero_destination" ELSE "none"],
        LAMBDA acc, i : AddAmount(acc, dsts[i].amount))[Len(dsts)]

Init ==
  /\ call \in Call
  /\ LET need == Needed(call.dsts, call.fee)
     IN  /\ phase = IF need.error = "none" THEN "summed" ELSE need.error
         /\ needed_money = need.sum
  /\ selected = <<>> /\ found_money = 0
  /\ outs = None
  /\ ptx = None

(* select_transfers takes outputs until their sum suffices, or all.        *)
select_transfers ==
  /\ phase = "summed"
  /\ \E s \in Selections :
       LET found == SumOf(s)
       IN  /\ found >= needed_money \/ Len(s) = Cardinality(Transfers)
           /\ selected' = s /\ found_money' = found
           /\ phase' = IF found < needed_money THEN "not_enough_money"
                                               ELSE "selected"
  /\ UNCHANGED <<call, needed_money, outs, ptx>>

(* Mutation: outputs are asked for all transfers, not the selected ones.   *)
MixAll ==
  /\ phase = "selected"
  /\ outs' \in [1 .. Cardinality(Transfers) -> Answers]
  /\ phase' = "mixed"
  /\ UNCHANGED <<call, needed_money, selected, found_money, ptx>>

(* getrandom_outs.bin: one answer with a list for each selected transfer;  *)
(* or none, an error, or not as many lists.  Before the call, a transfer   *)
(* without the output it names is an internal error too.                   *)
getrandom_outs ==
  /\ phase = "selected"
  /\ \/ /\ call.mixin = 0
        /\ phase' = "mixed"
        /\ UNCHANGED outs
     \/ /\ call.mixin # 0
        /\ phase' \in {"wallet_internal_error", "no_connection_to_daemon",
                      "daemon_busy", "get_random_outs_error"}
        /\ UNCHANGED outs
     \/ /\ call.mixin # 0
        /\ outs' \in [DOMAIN selected -> Answers]
        /\ phase' = IF \E i \in DOMAIN selected :
                         Len(outs'[i]) < call.mixin
                    THEN "not_enough_outs_to_mix" ELSE "mixed"
  /\ UNCHANGED <<call, needed_money, selected, found_money, ptx>>
-----------------------------------------------------------------------------
(* The loop of decompose_amount_into_digits: a digit and what is left.     *)
CutDigit(cut) ==
  [chunk |-> ((cut.left % 10) * cut.order) % Word,
   left  |-> cut.left \div 10,
   order |-> (cut.order * 10) % Word]

Cutting(amount) ==
  Turns(Digits, [chunk |-> 0, left |-> amount, order |-> 1],
        LAMBDA cut, i : CutDigit(cut))

(* With threshold 0 every digit that is not zero is a chunk.               *)
Chunks(amount, addr) ==
  LET cut == Cutting(amount)
  IN  Kept([i \in 1 .. Digits |-> [amount |-> cut[i].chunk, addr |-> addr]],
           {i \in 1 .. Digits : cut[i].chunk # 0})

Change ==
  IF needed_money < found_money
  THEN [amount |-> found_money - needed_money, addr |-> Own]
  ELSE [amount |-> 0, addr |-> Nobody]

digit_split_strategy ==
  LET dsts == call.dsts
      cut == Chunks(Change.amount, Change.addr)
      small == {i \in DOMAIN cut : cut[i].amount <= call.policy.threshold}
  IN  [splitted |-> Turns(Len(dsts), <<>>, LAMBDA paid, i :
                       paid \o Chunks(dsts[i].amount, dsts[i].addr))[Len(dsts)]
                    \o Kept(cut, (DOMAIN cut) \ small),
       dust     |-> Kept(cut, small)]

null_split_strategy ==
  [splitted |-> call.dsts \o (IF Change.amount # 0 THEN <<Change>> ELSE <<>>),
   dust     |-> <<>>]

destination_split_strategy ==
  IF call.digits THEN digit_split_strategy ELSE null_split_strategy

(* How many entries of q come before x: its place, counted from 0, when it *)
(* is put before the first entry that is not smaller.                      *)
Place(q, x) == Cardinality({k \in DOMAIN q : q[k] < x})
Paste(q, x) == InsertAt(q, Place(q, x) + 1, x)

(* A list in rising order, without x.                                      *)
SortedWithout(x, list) ==
  Turns(Len(list), <<>>, LAMBDA sorted, k :
    IF list[k] = x THEN sorted ELSE Paste(sorted, list[k]))[Len(list)]

Offered(i) == IF outs = None THEN <<>> ELSE outs[i]

(* The outputs to mix with for selected[i]: what was offered, in order,    *)
(* the wallet's own left out, no more than asked for.                      *)
Mixed(i) ==
  LET others == SortedWithout(selected[i].index, Offered(i))
  IN  SubSeq(others, 1, IF Len(others) < call.mixin THEN Len(others)
                                                    ELSE call.mixin)

(* Mutation: the real output is put at the front of its ring.              *)
PasteFirst(i) ==
  [amount |-> selected[i].amount, index |-> selected[i].index,
   outputs |-> <<selected[i].index>> \o Mixed(i), real |-> 0]

(* One source: the own output is pasted among the mixed where it belongs.  *)
Source(i) ==
  LET index == selected[i].index
  IN  [amount |-> selected[i].amount, index |-> index,
       outputs |-> Paste(Mixed(i), index), real |-> Place(Mixed(i), index)]

(* Mutation: the dust that goes to the fee is not counted in it.           *)
FeeOnly(dust) == call.fee

PaidFee(dust) ==
  IF call.policy.toFee THEN (call.fee + dust) % Word ELSE call.fee

(* Mutation: change is what is left over, wherever its dust went.          *)
ChangeWithDust(dust) == Change.amount

(* What the pending transaction says comes back.                           *)
ChangeLeft(dust) ==
  IF call.policy.toFee \/ call.policy.address # Change.addr
  THEN Change.amount - dust
  ELSE Change.amount

(* The rest of the function: inputs, outputs, the transaction's record.    *)
(* The construction is compiled elsewhere; it may fail, or the transaction *)
(* it makes be too large or not of the inputs that are expected.           *)
construct_tx ==
  /\ phase = "mixed"
  /\ LET split == destination_split_strategy
         dust == SumOf(split.dust) % Word
         toDust == [i \in 1 .. Len(split.dust) |->
                      [amount |-> split.dust[i].amount,
                       addr |-> call.policy.address]]
     IN  IF \E i \in DOMAIN split.dust :
              split.dust[i].amount > call.policy.threshold
         THEN phase' = "wallet_internal_error" /\ UNCHANGED ptx
         ELSE \/ /\ phase' \in {"tx_not_constructed", "tx_too_big",
                                "unexpected_txin_type"}
                 /\ UNCHANGED ptx
              \/ /\ phase' = "done"
                 /\ ptx' = [sources |-> [i \in 1 .. Len(selected) |->
                                           Source(i)],
                            outputs |-> split.splitted \o
                               (IF call.policy.toFee THEN <<>> ELSE toDust),
                            fee     |-> PaidFee(dust),
                            change  |-> ChangeLeft(dust)]
  /\ UNCHANGED <<call, needed_money, selected, found_money, outs>>

Next == select_transfers \/ getrandom_outs \/ construct_tx

Spec == Init /\ [][Next]_vars
-----------------------------------------------------------------------------
Done == phase = "done"

(* Money is neither made nor lost: the inputs are the outputs and the fee  *)
(* the pending transaction shows the user, whatever wraps, however change  *)
(* is cut and wherever its dust goes.                                      *)
Balanced ==
  Done => SumOf(ptx.sources) = SumOf(ptx.outputs) + ptx.fee

(* Every recipient is paid what was asked for, and the wallet gets back    *)
(* what change_dts says, on top of what it pays to itself.  Only who is    *)
(* paid the dust of the change may get more.                               *)
PaidAsAsked ==
  Done => \A a \in {call.dsts[i].addr : i \in DOMAIN call.dsts} \cup {Own} :
    a = Own \/ a # call.policy.address =>
      PaidTo(a, ptx.outputs) =
        PaidTo(a, call.dsts) + (IF a = Own THEN ptx.change ELSE 0)

(* A sum that does not fit is never taken for a small one: the inputs      *)
(* really cover the fee and every destination.                             *)
Covered ==
  Done => SumOf(ptx.sources) >= SumOf(call.dsts) + call.fee

Rising(q) == \A i, j \in DOMAIN q : i < j => q[i] <= q[j]
StrictlyRising(q) == \A i, j \in DOMAIN q : i < j => q[i] < q[j]

(* The positions, in the daemon's list for selected[n], of outputs other   *)
(* than the wallet's own.                                                  *)
Others(n) == {k \in DOMAIN Offered(n) : Offered(n)[k] # selected[n].index}

(* The ring of selected[n]: in rising order; the own output in it once, at *)
(* real_output; every other one from the daemon's list; as many of them as *)
(* were asked for, or all there are; and no output twice, as the chain's   *)
(* relative offsets need, unless the daemon offered it twice, which the    *)
(* code does not look at.                                                  *)
RingWellFormed(n, source) ==
  LET ring == source.outputs
      real == source.real + 1
      count == Cardinality(Others(n))
  IN  /\ Rising(ring)
      /\ real \in DOMAIN ring
      /\ \A i \in DOMAIN ring : ring[i] = selected[n].index <=> i = real
      /\ \A i \in DOMAIN ring \ {real} :
           \E k \in Others(n) : ring[i] = Offered(n)[k]
      /\ Len(ring) = 1 + (IF count < call.mixin THEN count ELSE call.mixin)
      /\ (\A k, l \in Others(n) : Offered(n)[k] = Offered(n)[l] => k = l)
           => StrictlyRising(ring)

(* Every input's ring is well formed, whatever lists the daemon answers:   *)
(* unsorted, with the own output or without, repeating outputs, shorter or *)
(* longer than what was asked for.                                         *)
RingsWellFormed ==
  Done => \A n \in DOMAIN ptx.sources : RingWellFormed(n, ptx.sources[n])

(* The comment at the request, "add one to make possible (if need) to skip *)
(* real output key": skipping it leaves the number that was asked for.     *)
RingsAreFull ==
  Done => \A n \in DOMAIN ptx.sources :
            Len(ptx.sources[n].outputs) = call.mixin + 1
=============================================================================
