------------------------ MODULE WalletTransferProofs ------------------------
(***************************************************************************)
(* What wallet2::transfer guarantees for integers of any width, any        *)
(* outputs, payments, fees, thresholds and answers of the daemon.          *)
(*                                                                         *)
(* Its loops are uses of Turns.  They are reasoned about by induction on   *)
(* the number of turns; the induction rule is stated with a set instead of *)
(* a predicate and follows from the naturals being well-founded.           *)
(***************************************************************************)
EXTENDS WalletTransfer, FiniteSetTheorems, SequenceTheorems,
        WellFoundedInduction, TLAPS

-----------------------------------------------------------------------------
(* Induction and loops.                                                    *)

Below == {ss \in Nat \X Nat : ss[1] < ss[2]}

LEMMA BelowWellFounded == IsWellFoundedOn(Below, Nat)
  BY NatLessThanWellFounded DEF OpToRel, Below

LEMMA Least ==
  ASSUME NEW T, T \subseteq Nat, T # {}
  PROVE  \E x \in T : \A y \in T : x <= y
<1>1. PICK x \in T : \A y \in T : <<y, x>> \notin Below
  BY BelowWellFounded, WFMin
<1>2. \A y \in T : ~(y < x)
  BY <1>1 DEF Below
<1> QED
  BY <1>2

LEMMA Induction ==
  ASSUME NEW S, 0 \in S, \A n \in Nat : n \in S => n + 1 \in S
  PROVE  Nat \subseteq S
<1> SUFFICES ASSUME Nat \ S # {} PROVE FALSE
  OBVIOUS
<1>1. PICK x \in Nat \ S : \A y \in Nat \ S : x <= y
  BY Least
<1>2. x - 1 \in Nat
  BY <1>1
<1>3. x - 1 \in S
  BY <1>1, <1>2
<1>4. (x - 1) + 1 \in S
  BY <1>2, <1>3
<1> QED
  BY <1>1, <1>4

(* The same up to n.                                                       *)
LEMMA BoundedInduction ==
  ASSUME NEW n \in Nat, NEW S, 0 \in S,
         \A i \in 1 .. n : i - 1 \in S => i \in S
  PROVE  0 .. n \subseteq S
<1> DEFINE T == {i \in Nat : i <= n => i \in S}
<1>1. 0 \in T
  OBVIOUS
<1>2. ASSUME NEW i \in Nat, i \in T PROVE i + 1 \in T
  <2> SUFFICES ASSUME i + 1 <= n PROVE i + 1 \in S
    OBVIOUS
  <2>1. i \in S /\ i + 1 \in 1 .. n /\ (i + 1) - 1 = i
    BY <1>2
  <2> QED
    BY <2>1
<1>3. Nat \subseteq T
  <2> HIDE DEF T
  <2> QED
    BY <1>1, <1>2, Induction
<1> QED
  BY <1>3

(* f lists the states in V of a loop of n turns from base; turn i is g[i]. *)
IsLoop(f, n, V, base, g) ==
  /\ f \in [0 .. n -> V]
  /\ f[0] = base
  /\ \A i \in 1 .. n : f[i] = g[i][f[i - 1]]

(* Every loop has its states.                                              *)
LEMMA LoopExists ==
  ASSUME NEW n \in Nat, NEW V, NEW base \in V, NEW g \in [1 .. n -> [V -> V]]
  PROVE  \E f : IsLoop(f, n, V, base, g)
<1> DEFINE S == {m \in 0 .. n : \E f : IsLoop(f, m, V, base, g)}
<1>1. 0 \in S
  <2>1. IsLoop([i \in 0 .. 0 |-> base], 0, V, base, g)
    BY DEF IsLoop
  <2> QED
    BY <2>1
<1>2. ASSUME NEW m \in 1 .. n, m - 1 \in S PROVE m \in S
  <2>1. PICK f : IsLoop(f, m - 1, V, base, g)
    BY <1>2
  <2> DEFINE h == [i \in 0 .. m |-> IF i = m THEN g[m][f[m - 1]] ELSE f[i]]
  <2>2. f \in [0 .. (m - 1) -> V] /\ f[0] = base
        /\ \A i \in 1 .. (m - 1) : f[i] = g[i][f[i - 1]]
    BY <2>1 DEF IsLoop
  <2>3. g[m][f[m - 1]] \in V
    BY <2>2
  <2>4. h \in [0 .. m -> V] /\ h[0] = base
    BY <2>2, <2>3
  <2>5. ASSUME NEW i \in 1 .. m PROVE h[i] = g[i][h[i - 1]]
    BY <2>2
  <2>6. IsLoop(h, m, V, base, g)
    <3> HIDE DEF h
    <3> QED
      BY <2>4, <2>5 DEF IsLoop
  <2> HIDE DEF h
  <2> QED
    BY <2>6
<1>3. 0 .. n \subseteq S
  <2> HIDE DEF S
  <2> QED
    BY <1>1, <1>2, BoundedInduction
<1> QED
  BY <1>3
-----------------------------------------------------------------------------
(* Sums.                                                                   *)

Numbers(n) == [1 .. n -> Nat]

Sums(n, a) == Turns(n, 0, LAMBDA sum, i : sum + a[i])

LEMMA SumsDef ==
  ASSUME NEW n \in Nat, NEW a \in Numbers(n)
  PROVE  /\ Sums(n, a) \in [0 .. n -> Nat]
         /\ Sums(n, a)[0] = 0
         /\ \A i \in 1 .. n : Sums(n, a)[i] = Sums(n, a)[i - 1] + a[i]
<1> DEFINE g == [i \in 1 .. n |-> [v \in Nat |-> v + a[i]]]
           f == Sums(n, a)
<1>1. PICK h : IsLoop(h, n, Nat, 0, g)
  <2>1. g \in [1 .. n -> [Nat -> Nat]]
    BY DEF Numbers
  <2>2. 0 \in Nat
    OBVIOUS
  <2> HIDE DEF g
  <2> QED
    BY <2>1, <2>2, LoopExists, Zenon
<1>2. h = [i \in 0 .. n |-> IF i = 0 THEN 0 ELSE h[i - 1] + a[i]]
  <2>1. h \in [0 .. n -> Nat] /\ h[0] = 0
    BY <1>1 DEF IsLoop
  <2>2. ASSUME NEW i \in 1 .. n PROVE h[i] = h[i - 1] + a[i]
    <3>1. h[i] = g[i][h[i - 1]]
      BY <1>1 DEF IsLoop
    <3>2. h[i - 1] \in Nat
      BY <2>1
    <3> QED
      BY <3>1, <3>2
  <2> QED
    BY <2>1, <2>2
<1>3. f = [i \in 0 .. n |-> IF i = 0 THEN 0 ELSE f[i - 1] + a[i]]
  BY <1>2, Zenon DEF Sums, Turns
<1> HIDE DEF f
<1>4. f[0] = 0 /\ \A i \in 1 .. n : f[i] = f[i - 1] + a[i]
  BY <1>3
<1>5. 0 .. n \subseteq {i \in 0 .. n : f[i] \in Nat}
  <2> DEFINE S == {i \in 0 .. n : f[i] \in Nat}
  <2>1. 0 \in S
    BY <1>4
  <2>2. \A i \in 1 .. n : i - 1 \in S => i \in S
    BY <1>4 DEF Numbers
  <2> HIDE DEF S
  <2>3. 0 .. n \subseteq S
    BY <2>1, <2>2, BoundedInduction
  <2> QED
    BY <2>3 DEF S
<1>6. f \in [0 .. n -> Nat]
  BY <1>3, <1>5
<1> QED
  BY <1>4, <1>6 DEF f

LEMMA TotalIsSums ==
  ASSUME NEW n \in Nat, NEW a \in Numbers(n)
  PROVE  Total(a) = Sums(n, a)[n] /\ Total(a) \in Nat
<1>1. Len(a) = n
  BY DEF Numbers
<1>2. Total(a) = Sums(n, a)[n]
  BY <1>1, Zenon DEF Total, Sums
<1> QED
  BY <1>2, SumsDef

(* Sums is the only function with its equations.                           *)
LEMMA SumsUnique ==
  ASSUME NEW n \in Nat, NEW a \in Numbers(n), NEW f,
         f[0] = 0, \A i \in 1 .. n : f[i] = f[i - 1] + a[i]
  PROVE  \A i \in 0 .. n : f[i] = Sums(n, a)[i]
<1> DEFINE S == {i \in 0 .. n : f[i] = Sums(n, a)[i]}
<1>1. 0 \in S
  BY SumsDef
<1>2. ASSUME NEW i \in 1 .. n, i - 1 \in S PROVE i \in S
  BY <1>2, SumsDef
<1>3. 0 .. n \subseteq S
  <2> HIDE DEF S
  <2> QED
    BY <1>1, <1>2, BoundedInduction
<1> QED
  BY <1>3

LEMMA TotalEmpty ==
  ASSUME NEW a \in Numbers(0)
  PROVE  Total(a) = 0
  BY TotalIsSums, SumsDef

LEMMA TotalPlus ==
  ASSUME NEW n \in Nat, NEW a \in Numbers(n), NEW b \in Numbers(n),
         NEW c \in Numbers(n), \A i \in 1 .. n : c[i] = a[i] + b[i]
  PROVE  Total(c) = Total(a) + Total(b)
<1> DEFINE f == [i \in 0 .. n |-> Sums(n, a)[i] + Sums(n, b)[i]]
<1>1. f[0] = 0
  BY SumsDef
<1>2. ASSUME NEW i \in 1 .. n PROVE f[i] = f[i - 1] + c[i]
  <2>1. /\ Sums(n, a)[i] = Sums(n, a)[i - 1] + a[i]
        /\ Sums(n, b)[i] = Sums(n, b)[i - 1] + b[i]
        /\ Sums(n, a)[i - 1] \in Nat /\ Sums(n, b)[i - 1] \in Nat
    BY SumsDef
  <2>2. f[i] = Sums(n, a)[i] + Sums(n, b)[i]
        /\ f[i - 1] = Sums(n, a)[i - 1] + Sums(n, b)[i - 1]
    OBVIOUS
  <2>3. a[i] \in Nat /\ b[i] \in Nat /\ c[i] = a[i] + b[i]
    BY DEF Numbers
  <2> QED
    BY <2>1, <2>2, <2>3
<1>3. f[n] = Sums(n, c)[n]
  <2> HIDE DEF f
  <2> QED
    BY <1>1, <1>2, SumsUnique
<1> QED
  BY <1>3, TotalIsSums

LEMMA TotalConcat ==
  ASSUME NEW m \in Nat, NEW a \in Numbers(m),
         NEW n \in Nat, NEW b \in Numbers(n),
         NEW c \in Numbers(m + n),
         \A i \in 1 .. m : c[i] = a[i],
         \A i \in 1 .. n : c[m + i] = b[i]
  PROVE  Total(c) = Total(a) + Total(b)
<1> DEFINE s == Sums(m + n, c)
           f == [i \in 0 .. n |-> s[m + i] - s[m]]
<1>1. /\ s \in [0 .. (m + n) -> Nat] /\ s[0] = 0
      /\ \A i \in 1 .. (m + n) : s[i] = s[i - 1] + c[i]
  BY SumsDef
<1> HIDE DEF s
<1>2. s[m] = Total(a)
  <2>1. \A i \in 1 .. m : s[i] = s[i - 1] + a[i]
    BY <1>1
  <2>2. \A i \in 0 .. m : s[i] = Sums(m, a)[i]
    <3>1. s[0] = 0
      BY <1>1
    <3> QED
      BY <3>1, <2>1, SumsUnique, Zenon
  <2> QED
    BY <2>2, TotalIsSums
<1>3. f[n] = Total(b)
  <2>1. f[0] = 0
    BY <1>1
  <2>2. ASSUME NEW i \in 1 .. n PROVE f[i] = f[i - 1] + b[i]
    <3>1. s[m + i] = s[(m + i) - 1] + c[m + i]
      BY <1>1
    <3>2. (m + i) - 1 = m + (i - 1) /\ c[m + i] = b[i]
      OBVIOUS
    <3>3. s[m + i] \in Nat /\ s[m + (i - 1)] \in Nat /\ s[m] \in Nat /\ b[i] \in Nat
      <4>1. m + i \in 0 .. (m + n) /\ m + (i - 1) \in 0 .. (m + n) /\ m \in 0 .. (m + n)
        OBVIOUS
      <4> QED
        BY <1>1, <4>1 DEF Numbers
    <3>4. f[i] = s[m + i] - s[m] /\ f[i - 1] = s[m + (i - 1)] - s[m]
      OBVIOUS
    <3>5. s[m + i] = s[m + (i - 1)] + b[i]
      BY <3>1, <3>2
    <3> QED
      BY <3>3, <3>4, <3>5
  <2>3. f[n] = Sums(n, b)[n]
    <3> HIDE DEF f
    <3> QED
      BY <2>1, <2>2, SumsUnique
  <2> QED
    BY <2>3, TotalIsSums
<1>4. f[n] = s[m + n] - s[m] /\ s[m + n] \in Nat /\ s[m] \in Nat
  BY <1>1
<1>5. s[m + n] = Total(c)
  BY TotalIsSums DEF s
<1> QED
  BY <1>2, <1>3, <1>4, <1>5
-----------------------------------------------------------------------------
(* What a list of entries is worth under a weight w of entries: SumOf and  *)
(* PaidTo are two such weights.                                            *)

Entry == [addr: Addresses, amount: Nat]
Weights == [Entry -> Nat]

Amounts == [e \in Entry |-> e.amount]
AmountsTo(a) == [e \in Entry |-> IF e.addr = a THEN e.amount ELSE 0]

Weighed(w, s) == [i \in 1 .. Len(s) |-> w[s[i]]]
Worth(w, s) == Total(Weighed(w, s))

LEMMA WeightsAre == Amounts \in Weights /\ \A a : AmountsTo(a) \in Weights
  BY DEF Amounts, AmountsTo, Weights, Entry

LEMMA WeighedType ==
  ASSUME NEW w \in Weights, NEW s \in Seq(Entry)
  PROVE  Weighed(w, s) \in Numbers(Len(s)) /\ Len(s) \in Nat
<1>1. Len(s) \in Nat /\ \A i \in 1 .. Len(s) : s[i] \in Entry
  OBVIOUS
<1>2. \A e \in Entry : w[e] \in Nat
  BY DEF Weights
<1> QED
  BY <1>1, <1>2 DEF Weighed, Numbers

LEMMA WorthType ==
  ASSUME NEW w \in Weights, NEW s \in Seq(Entry)
  PROVE  Worth(w, s) \in Nat
  BY WeighedType, TotalIsSums DEF Worth

LEMMA SumIsWorth ==
  ASSUME NEW s \in Seq(Entry)
  PROVE  SumOf(s) = Worth(Amounts, s)
<1>1. [i \in 1 .. Len(s) |-> s[i].amount] = Weighed(Amounts, s)
  BY DEF Weighed, Amounts
<1> QED
  BY <1>1 DEF SumOf, Worth

LEMMA PaidIsWorth ==
  ASSUME NEW a, NEW s \in Seq(Entry)
  PROVE  PaidTo(a, s) = Worth(AmountsTo(a), s)
<1>1. [i \in 1 .. Len(s) |-> IF s[i].addr = a THEN s[i].amount ELSE 0]
        = Weighed(AmountsTo(a), s)
  BY DEF Weighed, AmountsTo
<1> QED
  BY <1>1 DEF PaidTo, Worth

LEMMA WorthEmpty ==
  ASSUME NEW w \in Weights
  PROVE  Worth(w, <<>>) = 0
<1>1. <<>> \in Seq(Entry) /\ Len(<<>>) = 0
  OBVIOUS
<1>2. Weighed(w, <<>>) \in Numbers(0)
  BY <1>1, WeighedType
<1> QED
  BY <1>2, TotalEmpty DEF Worth

LEMMA WorthConcat ==
  ASSUME NEW w \in Weights, NEW s \in Seq(Entry), NEW t \in Seq(Entry)
  PROVE  Worth(w, s \o t) = Worth(w, s) + Worth(w, t)
<1>1. s \o t \in Seq(Entry) /\ Len(s \o t) = Len(s) + Len(t)
  OBVIOUS
<1>2. /\ Weighed(w, s) \in Numbers(Len(s)) /\ Len(s) \in Nat
      /\ Weighed(w, t) \in Numbers(Len(t)) /\ Len(t) \in Nat
      /\ Weighed(w, s \o t) \in Numbers(Len(s) + Len(t))
  BY <1>1, WeighedType
<1>3. \A i \in 1 .. Len(s) : Weighed(w, s \o t)[i] = Weighed(w, s)[i]
  BY <1>1 DEF Weighed
<1>4. \A i \in 1 .. Len(t) : Weighed(w, s \o t)[Len(s) + i] = Weighed(w, t)[i]
  BY <1>1 DEF Weighed
<1>5. Total(Weighed(w, s \o t)) = Total(Weighed(w, s)) + Total(Weighed(w, t))
  <2> DEFINE a == Weighed(w, s)
             b == Weighed(w, t)
             c == Weighed(w, s \o t)
             m == Len(s)
             n == Len(t)
  <2>1. /\ m \in Nat /\ n \in Nat
        /\ a \in Numbers(m) /\ b \in Numbers(n) /\ c \in Numbers(m + n)
        /\ \A i \in 1 .. m : c[i] = a[i]
        /\ \A i \in 1 .. n : c[m + i] = b[i]
    BY <1>2, <1>3, <1>4
  <2> HIDE DEF a, b, c, m, n
  <2>2. Total(c) = Total(a) + Total(b)
    BY <2>1, TotalConcat
  <2> QED
    BY <2>2 DEF a, b, c
<1> QED
  BY <1>5 DEF Worth

LEMMA WorthOne ==
  ASSUME NEW w \in Weights, NEW e \in Entry
  PROVE  Worth(w, <<e>>) = w[e]
<1>1. Weighed(w, <<e>>) = [i \in 1 .. 1 |-> w[e]]
  BY DEF Weighed
<1>2. w[e] \in Nat
  BY DEF Weights
<1>3. Weighed(w, <<e>>) \in Numbers(1) /\ Weighed(w, <<e>>)[1] = w[e]
  BY <1>1, <1>2 DEF Numbers
<1>4. /\ Sums(1, Weighed(w, <<e>>))[0] = 0
      /\ Sums(1, Weighed(w, <<e>>))[1]
           = Sums(1, Weighed(w, <<e>>))[1 - 1] + Weighed(w, <<e>>)[1]
  BY <1>3, SumsDef
<1> QED
  BY <1>2, <1>3, <1>4, TotalIsSums DEF Worth

LEMMA WorthAppend ==
  ASSUME NEW w \in Weights, NEW s \in Seq(Entry), NEW e \in Entry
  PROVE  Worth(w, Append(s, e)) = Worth(w, s) + w[e]
<1>1. Append(s, e) = s \o <<e>> /\ <<e>> \in Seq(Entry)
  BY AppendIsConcat
<1> QED
  BY <1>1, WorthConcat, WorthOne

(* Entries that all have one address are paid to that address.             *)
LEMMA PaidToOne ==
  ASSUME NEW b \in Addresses, NEW s \in Seq([addr: {b}, amount: Nat]), NEW a
  PROVE  /\ s \in Seq(Entry)
         /\ a = b => Worth(AmountsTo(a), s) = Worth(Amounts, s)
         /\ a # b => Worth(AmountsTo(a), s) = 0
<1>1. s \in Seq(Entry)
  <2>1. [addr: {b}, amount: Nat] \subseteq Entry
    BY DEF Entry
  <2> QED
    BY <2>1, SeqMonotonic
<1>2. \A i \in 1 .. Len(s) : s[i] \in Entry /\ s[i].addr = b
  <2> TAKE i \in 1 .. Len(s)
  <2>1. s[i] \in [addr: {b}, amount: Nat]
    BY ElementOfSeq
  <2> QED
    BY <2>1 DEF Entry
<1>3. a = b => Weighed(AmountsTo(a), s) = Weighed(Amounts, s)
  BY <1>2 DEF Weighed, AmountsTo, Amounts
<1>4. ASSUME a # b PROVE Worth(AmountsTo(a), s) = 0
  <2> DEFINE z == Weighed(AmountsTo(a), s)
  <2>1. z \in Numbers(Len(s)) /\ Len(s) \in Nat
    BY <1>1, WeighedType, WeightsAre
  <2>2. \A i \in 1 .. Len(s) : z[i] = z[i] + z[i]
    BY <1>2, <1>4 DEF Weighed, AmountsTo
  <2>3. Total(z) = Total(z) + Total(z) /\ Total(z) \in Nat
    <3> HIDE DEF z
    <3> QED
      BY <2>1, <2>2, TotalPlus, TotalIsSums
  <2> QED
    BY <2>3 DEF Worth
<1> QED
  BY <1>1, <1>3, <1>4 DEF Worth
-----------------------------------------------------------------------------
(* Kept.                                                                   *)

KeptUpTo(s, K) ==
  Turns(Len(s), <<>>, LAMBDA kept, i : IF i \in K THEN Append(kept, s[i])
                                                 ELSE kept)

LEMMA KeptDef ==
  ASSUME NEW E, NEW s \in Seq(E), NEW K
  PROVE  /\ KeptUpTo(s, K) \in [0 .. Len(s) -> Seq(E)]
         /\ KeptUpTo(s, K)[0] = <<>>
         /\ \A i \in 1 .. Len(s) :
              KeptUpTo(s, K)[i] = IF i \in K
                                  THEN Append(KeptUpTo(s, K)[i - 1], s[i])
                                  ELSE KeptUpTo(s, K)[i - 1]
         /\ Kept(s, K) = KeptUpTo(s, K)[Len(s)]
         /\ Kept(s, K) \in Seq(E)
<1> DEFINE n == Len(s)
           V == Seq(E)
           g == [i \in 1 .. n |->
                  [v \in V |-> IF i \in K THEN Append(v, s[i]) ELSE v]]
           f == KeptUpTo(s, K)
<1>1. n \in Nat /\ <<>> \in V
  OBVIOUS
<1>2. ASSUME NEW i \in 1 .. n, NEW v \in V
      PROVE  Append(v, s[i]) \in V
  BY AppendProperties
<1>3. g \in [1 .. n -> [V -> V]]
  <2> HIDE DEF V, n
  <2> QED
    BY <1>2
<1>4. PICK h : IsLoop(h, n, V, <<>>, g)
  <2> HIDE DEF g, V, n
  <2> QED
    BY <1>1, <1>3, LoopExists, Zenon
<1>5. h = [i \in 0 .. n |-> IF i = 0 THEN <<>>
                            ELSE IF i \in K THEN Append(h[i - 1], s[i])
                                            ELSE h[i - 1]]
  <2>1. h \in [0 .. n -> V] /\ h[0] = <<>>
    BY <1>4 DEF IsLoop
  <2>2. ASSUME NEW i \in 1 .. n
        PROVE  h[i] = IF i \in K THEN Append(h[i - 1], s[i]) ELSE h[i - 1]
    <3>1. h[i] = g[i][h[i - 1]]
      BY <1>4 DEF IsLoop
    <3>2. h[i - 1] \in V
      <4> HIDE DEF V, n
      <4> QED
        BY <2>1, <1>1
    <3> HIDE DEF V, n
    <3> QED
      BY <3>1, <3>2
  <2> HIDE DEF V, n, g
  <2>3. ASSUME NEW i \in 0 .. n
        PROVE  h[i] = IF i = 0 THEN <<>>
                      ELSE IF i \in K THEN Append(h[i - 1], s[i])
                                      ELSE h[i - 1]
    <3>1. CASE i = 0
      BY <2>1, <3>1, Zenon
    <3>2. CASE i # 0
      <4>1. i \in 1 .. n
        BY <3>2, <1>1
      <4> QED
        BY <2>2, <3>2, <4>1, Zenon
    <3> QED
      BY <3>1, <3>2
  <2>4. h = [i \in 0 .. n |-> h[i]]
    BY <2>1, Zenon
  <2> QED
    BY <2>3, <2>4, Zenon
<1>6. f = [i \in 0 .. n |-> IF i = 0 THEN <<>>
                            ELSE IF i \in K THEN Append(f[i - 1], s[i])
                                            ELSE f[i - 1]]
  BY <1>5, Zenon DEF KeptUpTo, Turns
<1>7. Kept(s, K) = f[n]
  BY Zenon DEF Kept, KeptUpTo
<1> HIDE DEF f, V, g, n
<1>8. /\ f[0] = <<>>
      /\ \A i \in 1 .. n : f[i] = IF i \in K THEN Append(f[i - 1], s[i])
                                             ELSE f[i - 1]
  <2>1. 0 \in 0 .. n /\ \A i \in 1 .. n : i \in 0 .. n /\ i # 0
    BY <1>1
  <2>2. ASSUME NEW i \in 0 .. n
        PROVE  f[i] = IF i = 0 THEN <<>>
                      ELSE IF i \in K THEN Append(f[i - 1], s[i])
                                      ELSE f[i - 1]
    BY <1>6, Zenon
  <2>3. f[0] = <<>>
    BY <2>1, <2>2, Zenon
  <2>4. ASSUME NEW i \in 1 .. n
        PROVE  f[i] = IF i \in K THEN Append(f[i - 1], s[i]) ELSE f[i - 1]
    BY <2>1, <2>2, Zenon
  <2> QED
    BY <2>3, <2>4
<1>9. 0 .. n \subseteq {i \in 0 .. n : f[i] \in V}
  <2> DEFINE S == {i \in 0 .. n : f[i] \in V}
  <2>1. 0 \in S
    BY <1>1, <1>8
  <2>2. ASSUME NEW i \in 1 .. n, i - 1 \in S PROVE i \in S
    <3>1. f[i - 1] \in V /\ i \in 0 .. n
      BY <2>2, <1>1
    <3>2. Append(f[i - 1], s[i]) \in V
      BY <1>2, <3>1
    <3> QED
      BY <1>8, <3>1, <3>2
  <2> HIDE DEF S
  <2>3. 0 .. n \subseteq S
    BY <1>1, <2>1, <2>2, BoundedInduction
  <2> QED
    BY <2>3 DEF S
<1>10. f \in [0 .. n -> V] /\ f[n] \in V
  BY <1>1, <1>6, <1>9
<1> QED
  BY <1>7, <1>8, <1>10 DEF f, n, V

Picked(w, s, K) == [i \in 1 .. Len(s) |-> IF i \in K THEN w[s[i]] ELSE 0]

LEMMA KeptWorth ==
  ASSUME NEW w \in Weights, NEW s \in Seq(Entry), NEW K
  PROVE  /\ Picked(w, s, K) \in Numbers(Len(s))
         /\ Worth(w, Kept(s, K)) = Total(Picked(w, s, K))
<1> DEFINE n == Len(s)
           k == KeptUpTo(s, K)
           p == Picked(w, s, K)
           f == [i \in 0 .. n |-> Worth(w, k[i])]
<1>1. /\ n \in Nat /\ k \in [0 .. n -> Seq(Entry)] /\ k[0] = <<>>
      /\ \A i \in 1 .. n : k[i] = IF i \in K THEN Append(k[i - 1], s[i])
                                             ELSE k[i - 1]
      /\ Kept(s, K) = k[n]
  BY KeptDef
<1>2. \A i \in 1 .. n : s[i] \in Entry /\ w[s[i]] \in Nat
  BY DEF Weights
<1>3. p \in Numbers(n)
  BY <1>2 DEF Picked, Numbers
<1>4. \A i \in 1 .. n : p[i] = IF i \in K THEN w[s[i]] ELSE 0
  BY DEF Picked
<1> HIDE DEF n, k, p
<1>5. f[0] = 0
  BY <1>1, WorthEmpty
<1>6. ASSUME NEW i \in 1 .. n PROVE f[i] = f[i - 1] + p[i]
  <2>1. k[i - 1] \in Seq(Entry) /\ f[i] = Worth(w, k[i])
        /\ f[i - 1] = Worth(w, k[i - 1])
    BY <1>1
  <2>2. CASE i \in K
    <3>1. Worth(w, Append(k[i - 1], s[i])) = Worth(w, k[i - 1]) + w[s[i]]
      BY <2>1, <1>2, WorthAppend
    <3>2. k[i] = Append(k[i - 1], s[i]) /\ p[i] = w[s[i]]
      BY <1>1, <1>4, <2>2
    <3> QED
      BY <2>1, <3>1, <3>2
  <2>3. CASE i \notin K
    <3>1. Worth(w, k[i - 1]) \in Nat
      BY <2>1, WorthType
    <3>2. k[i] = k[i - 1] /\ p[i] = 0
      BY <1>1, <1>4, <2>3
    <3> QED
      BY <2>1, <3>1, <3>2
  <2> QED
    BY <2>2, <2>3
<1>7. f[n] = Total(p)
  <2>1. f[n] = Sums(n, p)[n]
    <3>1. n \in Nat /\ n \in 0 .. n
      BY <1>1
    <3> HIDE DEF f
    <3> QED
      BY <3>1, <1>3, <1>5, <1>6, SumsUnique
  <2> QED
    BY <1>1, <1>3, <2>1, TotalIsSums
<1>8. f[n] = Worth(w, k[n])
  BY <1>1
<1> QED
  BY <1>1, <1>3, <1>7, <1>8 DEF p, n

(* What is kept and what is not make up the whole.                         *)
LEMMA KeptSplits ==
  ASSUME NEW w \in Weights, NEW s \in Seq(Entry), NEW K
  PROVE  Worth(w, Kept(s, (1 .. Len(s)) \ K)) + Worth(w, Kept(s, K)) = Worth(w, s)
<1> DEFINE n == Len(s)
           a == Picked(w, s, (1 .. Len(s)) \ K)
           b == Picked(w, s, K)
           c == Weighed(w, s)
<1>1. /\ a \in Numbers(n) /\ b \in Numbers(n) /\ c \in Numbers(n) /\ n \in Nat
      /\ Worth(w, Kept(s, (1 .. Len(s)) \ K)) = Total(a)
      /\ Worth(w, Kept(s, K)) = Total(b)
      /\ Worth(w, s) = Total(c)
  BY KeptWorth, WeighedType DEF Worth
<1>2. \A i \in 1 .. n : c[i] = a[i] + b[i]
  <2> TAKE i \in 1 .. n
  <2>1. w[s[i]] \in Nat
    BY DEF Weights
  <2>2. /\ c[i] = w[s[i]]
        /\ a[i] = IF i \in K THEN 0 ELSE w[s[i]]
        /\ b[i] = IF i \in K THEN w[s[i]] ELSE 0
    BY DEF Picked, Weighed
  <2> QED
    BY <2>1, <2>2
<1> HIDE DEF a, b, c, n
<1> QED
  BY <1>1, <1>2, TotalPlus
-----------------------------------------------------------------------------
(* Digits: the chunks of an amount add up to it.                           *)

Powers == Turns(Digits, 1, LAMBDA power, i : 10 * power)

LEMMA PowersDef ==
  /\ Powers \in [0 .. Digits -> Nat]
  /\ Powers[0] = 1
  /\ \A i \in 1 .. Digits : Powers[i] = 10 * Powers[i - 1]
  /\ Word <= Powers[Digits]
<1> DEFINE g == [i \in 1 .. Digits |-> [v \in Nat |-> 10 * v]]
           f == Powers
<1>1. Digits \in Nat /\ 1 \in Nat
  BY WalletTransferAssumption
<1>2. PICK h : IsLoop(h, Digits, Nat, 1, g)
  <2>1. g \in [1 .. Digits -> [Nat -> Nat]]
    OBVIOUS
  <2> HIDE DEF g
  <2> QED
    BY <1>1, <2>1, LoopExists, Zenon
<1>3. h = [i \in 0 .. Digits |-> IF i = 0 THEN 1 ELSE 10 * h[i - 1]]
  <2>1. h \in [0 .. Digits -> Nat] /\ h[0] = 1
    BY <1>2 DEF IsLoop
  <2>2. ASSUME NEW i \in 1 .. Digits PROVE h[i] = 10 * h[i - 1]
    <3>1. h[i] = g[i][h[i - 1]]
      BY <1>2 DEF IsLoop
    <3>2. h[i - 1] \in Nat
      BY <1>1, <2>1
    <3> QED
      BY <3>1, <3>2
  <2> QED
    BY <1>1, <2>1, <2>2
<1>4. f = [i \in 0 .. Digits |-> IF i = 0 THEN 1 ELSE 10 * f[i - 1]]
  BY <1>3, Zenon DEF Powers, Turns
<1>5. Word <= f[Digits]
  BY WalletTransferAssumption DEF Powers
<1> HIDE DEF f
<1>6. f[0] = 1 /\ \A i \in 1 .. Digits : f[i] = 10 * f[i - 1]
  BY <1>1, <1>4
<1>7. 0 .. Digits \subseteq {i \in 0 .. Digits : f[i] \in Nat}
  <2> DEFINE S == {i \in 0 .. Digits : f[i] \in Nat}
  <2>1. 0 \in S
    BY <1>1, <1>6
  <2>2. \A i \in 1 .. Digits : i - 1 \in S => i \in S
    BY <1>1, <1>6
  <2> HIDE DEF S
  <2>3. 0 .. Digits \subseteq S
    BY <1>1, <2>1, <2>2, BoundedInduction
  <2> QED
    BY <2>3 DEF S
<1>8. f \in [0 .. Digits -> Nat]
  BY <1>4, <1>7
<1> QED
  BY <1>5, <1>6, <1>8 DEF f

Cuts == [chunk: Nat, left: Nat, order: Nat]

LEMMA Products == \A x, y \in Nat : x * y \in Nat
  BY Z3

LEMMA CutDigitType == \A c \in Cuts : CutDigit(c) \in Cuts
<1> SUFFICES ASSUME NEW c \in Cuts PROVE CutDigit(c) \in Cuts
  OBVIOUS
<1>1. Word \in Nat \ {0}
  BY WalletTransferAssumption
<1>2. c.left \in Nat /\ c.order \in Nat
  BY DEF Cuts
<1>3. c.left % 10 \in Nat /\ c.left \div 10 \in Nat
  BY <1>2
<1>4. (c.left % 10) * c.order \in Nat /\ c.order * 10 \in Nat
  BY <1>2, <1>3, Products
<1>5. \A x \in Nat : x % Word \in Nat
  BY <1>1
<1> QED
  BY <1>3, <1>4, <1>5 DEF CutDigit, Cuts

LEMMA CuttingDef ==
  ASSUME NEW amount \in Nat
  PROVE  /\ Cutting(amount) \in [0 .. Digits -> Cuts]
         /\ Cutting(amount)[0] = [chunk |-> 0, left |-> amount, order |-> 1]
         /\ \A i \in 1 .. Digits :
              Cutting(amount)[i] = CutDigit(Cutting(amount)[i - 1])
<1> DEFINE g == [i \in 1 .. Digits |-> [v \in Cuts |-> CutDigit(v)]]
           base == [chunk |-> 0, left |-> amount, order |-> 1]
           f == Cutting(amount)
<1>1. Digits \in Nat /\ base \in Cuts
  BY WalletTransferAssumption DEF Cuts
<1>2. PICK h : IsLoop(h, Digits, Cuts, base, g)
  <2>1. g \in [1 .. Digits -> [Cuts -> Cuts]]
    BY CutDigitType
  <2> HIDE DEF g, base
  <2> QED
    BY <1>1, <2>1, LoopExists, Zenon
<1>3. h = [i \in 0 .. Digits |-> IF i = 0 THEN base ELSE CutDigit(h[i - 1])]
  <2> HIDE DEF base
  <2>1. h \in [0 .. Digits -> Cuts] /\ h[0] = base
    BY <1>2 DEF IsLoop
  <2>2. ASSUME NEW i \in 1 .. Digits PROVE h[i] = CutDigit(h[i - 1])
    <3>1. h[i] = g[i][h[i - 1]]
      BY <1>2 DEF IsLoop
    <3>2. h[i - 1] \in Cuts
      BY <1>1, <2>1
    <3> QED
      BY <3>1, <3>2
  <2> QED
    BY <1>1, <2>1, <2>2
<1>4. f = [i \in 0 .. Digits |-> IF i = 0 THEN base ELSE CutDigit(f[i - 1])]
  BY <1>3, Zenon DEF Cutting, Turns
<1> HIDE DEF f, base
<1>5. f[0] = base /\ \A i \in 1 .. Digits : f[i] = CutDigit(f[i - 1])
  BY <1>1, <1>4
<1>6. 0 .. Digits \subseteq {i \in 0 .. Digits : f[i] \in Cuts}
  <2> DEFINE S == {i \in 0 .. Digits : f[i] \in Cuts}
  <2>1. 0 \in S
    BY <1>1, <1>5
  <2>2. \A i \in 1 .. Digits : i - 1 \in S => i \in S
    BY <1>1, <1>5, CutDigitType
  <2> HIDE DEF S
  <2>3. 0 .. Digits \subseteq S
    BY <1>1, <2>1, <2>2, BoundedInduction
  <2> QED
    BY <2>3 DEF S
<1>7. f \in [0 .. Digits -> Cuts]
  BY <1>4, <1>6
<1> QED
  BY <1>5, <1>7 DEF f, base

(* The last digit d of l, at place p, and what is left of l.               *)
LEMMA DigitOff ==
  ASSUME NEW l \in Nat, NEW p \in Nat
  PROVE  /\ l * p = (l \div 10) * (10 * p) + (l % 10) * p
         /\ (l % 10) * p \in Nat
         /\ (l \div 10) * (10 * p) \in Nat
         /\ l \div 10 # 0 => (l \div 10) * (10 * p) >= 10 * p
<1> DEFINE q == l \div 10
           d == l % 10
<1>1. q \in Nat /\ d \in Nat /\ l = 10 * q + d
  OBVIOUS
<1>2. ASSUME NEW x \in Nat, NEW y \in Nat
      PROVE  /\ x * y \in Nat
             /\ (10 * x) * y = x * (10 * y)
             /\ x # 0 => x * y >= y
  BY Z3
<1>3. (10 * q + d) * p = (10 * q) * p + d * p
  BY <1>1, Z3
<1>4. (10 * q) * p = q * (10 * p)
  BY <1>1, <1>2
<1>5. d * p \in Nat /\ q * (10 * p) \in Nat
  BY <1>1, <1>2
<1>6. q # 0 => q * (10 * p) >= 10 * p
  BY <1>1, <1>2
<1> HIDE DEF q, d
<1>7. l * p = q * (10 * p) + d * p
  BY <1>1, <1>3, <1>4
<1> QED
  BY <1>5, <1>6, <1>7 DEF q, d

LEMMA SmallMod ==
  ASSUME NEW x \in Nat
  PROVE  /\ x < Word => x % Word = x
         /\ x % Word \in 0 .. (Word - 1)
<1>1. Word \in Nat \ {0}
  BY WalletTransferAssumption
<1> QED
  BY <1>1

CutAmounts(amount) == [i \in 1 .. Digits |-> Cutting(amount)[i].chunk]

(* Nothing wraps, and after the last digit nothing is left.                *)
LEMMA CuttingTotal ==
  ASSUME NEW amount \in 0 .. (Word - 1)
  PROVE  /\ CutAmounts(amount) \in Numbers(Digits)
         /\ Total(CutAmounts(amount)) = amount
<1> DEFINE n == Digits
           c == Cutting(amount)
           a == CutAmounts(amount)
           s == Sums(n, a)
           p == Powers
           S == {i \in 0 .. n : /\ c[i].left * p[i] + s[i] = amount
                                /\ c[i].left # 0 => c[i].order = p[i]}
<1>1. n \in Nat /\ Word \in Nat \ {0} /\ amount \in Nat /\ amount < Word
  <2>1. Digits \in Nat /\ Word \in Nat \ {0}
    BY WalletTransferAssumption
  <2> QED
    BY <2>1
<1>2. /\ c \in [0 .. n -> Cuts]
      /\ c[0] = [chunk |-> 0, left |-> amount, order |-> 1]
      /\ \A i \in 1 .. n : c[i] = CutDigit(c[i - 1])
  BY <1>1, CuttingDef
<1>3. /\ p \in [0 .. n -> Nat] /\ p[0] = 1 /\ Word <= p[n]
      /\ \A i \in 1 .. n : p[i] = 10 * p[i - 1]
  BY PowersDef
<1>4. a \in Numbers(n)
  BY <1>2 DEF CutAmounts, Cuts, Numbers
<1>5. /\ s \in [0 .. n -> Nat] /\ s[0] = 0
      /\ \A i \in 1 .. n : s[i] = s[i - 1] + a[i]
  BY <1>1, <1>4, SumsDef
<1>6. \A i \in 1 .. n : a[i] = c[i].chunk
  BY DEF CutAmounts
<1>7. Total(a) = s[n]
  BY <1>1, <1>4, TotalIsSums
<1> HIDE DEF n, c, a, s, p
<1>8. 0 \in S
  <2>1. c[0].left = amount /\ c[0].order = 1 /\ amount * 1 = amount
    BY <1>1, <1>2
  <2> QED
    BY <1>1, <1>3, <1>5, <2>1
<1>9. ASSUME NEW i \in 1 .. n, i - 1 \in S PROVE i \in S
  <2> DEFINE l == c[i - 1].left
             o == c[i - 1].order
             b == p[i - 1]
             d == l % 10
             q == l \div 10
  <2>1. l \in Nat /\ o \in Nat /\ b \in Nat /\ s[i - 1] \in Nat /\ i \in 0 .. n
    <3>1. c[i - 1] \in Cuts
      BY <1>1, <1>2
    <3>2. l \in Nat /\ o \in Nat
      BY <3>1 DEF Cuts
    <3>3. i \in 0 .. n /\ i - 1 \in 0 .. n
      BY <1>1
    <3>4. b \in Nat /\ s[i - 1] \in Nat
      BY <3>3, <1>3, <1>5
    <3> QED
      BY <3>2, <3>3, <3>4
  <2>2. l * b + s[i - 1] = amount /\ (l # 0 => o = b)
    BY <1>9
  <2>3. /\ c[i].chunk = (d * o) % Word
        /\ c[i].left = q
        /\ c[i].order = (o * 10) % Word
    <3> DEFINE x == (d * o) % Word
               z == (o * 10) % Word
    <3>1. c[i] = [chunk |-> x, left |-> q, order |-> z]
      BY <1>2, Zenon DEF CutDigit
    <3> HIDE DEF x, q, z
    <3>2. c[i].chunk = x /\ c[i].left = q /\ c[i].order = z
      BY <3>1
    <3> QED
      BY <3>2 DEF x, z
  <2>4. p[i] = 10 * b /\ s[i] = s[i - 1] + c[i].chunk
    BY <1>3, <1>5, <1>6
  <2> HIDE DEF l, o, b
  <2>5. CASE l = 0
    <3>1. d = 0 /\ q = 0
      BY <2>5
    <3>2. d * o = 0 /\ q * (10 * b) = 0 /\ l * b = 0
      BY <3>1, <2>5, <2>1, Z3
    <3>3. c[i].chunk = 0 /\ c[i].left = 0
      BY <3>1, <3>2, <2>3, <1>1, SmallMod
    <3>4. c[i].left * p[i] = 0
      BY <3>1, <3>2, <2>3, <2>4
    <3>5. s[i] = s[i - 1] /\ s[i - 1] = amount
      BY <2>1, <2>2, <2>4, <3>2, <3>3
    <3> QED
      BY <2>1, <3>3, <3>4, <3>5, <1>1
  <2>6. CASE l # 0
    <3>1. /\ l * b = q * (10 * b) + d * b
          /\ d * b \in Nat /\ q * (10 * b) \in Nat
          /\ q # 0 => q * (10 * b) >= 10 * b
      BY <2>1, DigitOff
    <3>2. o = b
      BY <2>2, <2>6
    <3> DEFINE x == d * b
               y == q * (10 * b)
               z == l * b
    <3>3. d * o = x /\ c[i].left * p[i] = y
      BY <3>2, <2>3, <2>4
    <3>4. z = y + x /\ z + s[i - 1] = amount /\ x \in Nat /\ y \in Nat
          /\ (q # 0 => y >= 10 * b)
      BY <3>1, <2>2
    <3>5. o * 10 = 10 * b
      BY <3>2, <2>1
    <3> HIDE DEF x, y, z
    <3>6. c[i].chunk = x
      <4>1. s[i - 1] >= 0 /\ amount < Word
        BY <2>1, <1>1
      <4>2. x < Word
        BY <4>1, <3>4, <2>1, <1>1
      <4>3. x % Word = x
        BY <4>2, <3>4, SmallMod
      <4> QED
        BY <4>3, <3>3, <2>3
    <3>7. y + s[i] = amount
      BY <3>4, <3>6, <2>1, <2>4
    <3>8. ASSUME q # 0 PROVE c[i].order = p[i]
      <4>1. 10 * b \in Nat /\ 10 * b < Word
        BY <3>4, <3>8, <2>1, <1>1
      <4> QED
        BY <4>1, <3>5, <2>3, <2>4, SmallMod
    <3> QED
      BY <3>3, <3>7, <3>8, <2>1, <2>3
  <2> QED
    BY <2>5, <2>6
<1>10. n \in S
  <2>1. 0 .. n \subseteq S
    <3> HIDE DEF S
    <3> QED
      BY <1>1, <1>8, <1>9, BoundedInduction
  <2> HIDE DEF S
  <2> QED
    BY <1>1, <2>1
<1>11. c[n].left \in Nat /\ p[n] \in Nat /\ s[n] \in Nat
  <2>1. c[n] \in Cuts
    BY <1>1, <1>2
  <2> QED
    BY <1>1, <1>3, <1>5, <2>1 DEF Cuts
<1>12. c[n].left = 0
  <2> SUFFICES ASSUME c[n].left # 0 PROVE FALSE
    OBVIOUS
  <2>1. \A x, y \in Nat : x # 0 => x * y >= y /\ x * y \in Nat
    BY Z3
  <2>2. c[n].left * p[n] >= p[n] /\ c[n].left * p[n] \in Nat
    BY <1>11, <2>1
  <2> QED
    BY <1>1, <1>3, <1>10, <1>11, <2>2
<1>13. s[n] = amount
  <2>1. \A y \in Nat : 0 * y = 0
    BY Z3
  <2> QED
    BY <1>10, <1>11, <1>12, <2>1
<1> QED
  BY <1>4, <1>7, <1>13 DEF a, n

(* The two kinds of weight that SumOf and PaidTo take.                     *)
Kinds == {Amounts} \cup {AmountsTo(a) : a \in Addresses}

Sent == [addr: Addresses, amount: 0 .. (Word - 1)]

LEMMA SentAreEntries ==
  /\ Sent \subseteq Entry
  /\ Seq(Sent) \subseteq Seq(Entry)
  /\ Kinds \subseteq Weights
<1>1. Word \in Nat
  BY WalletTransferAssumption
<1>2. Sent \subseteq Entry
  BY <1>1 DEF Sent, Entry
<1>3. Kinds \subseteq Weights
  BY WeightsAre DEF Kinds
<1> QED
  BY <1>2, <1>3, SeqMonotonic

(* The chunks of an amount are worth it, to whom they go.                  *)
LEMMA ChunksWorth ==
  ASSUME NEW e \in Sent
  PROVE  /\ Chunks(e.amount, e.addr) \in Seq([addr: {e.addr}, amount: Nat])
         /\ Chunks(e.amount, e.addr) \in Seq(Entry)
         /\ \A w \in Kinds : Worth(w, Chunks(e.amount, e.addr)) = w[e]
<1> DEFINE amount == e.amount
           b == e.addr
           cut == Cutting(amount)
           s == [i \in 1 .. Digits |-> [amount |-> cut[i].chunk, addr |-> b]]
           K == {i \in 1 .. Digits : cut[i].chunk # 0}
           P == [addr: {b}, amount: Nat]
           k == Kept(s, K)
<1>1. /\ Digits \in Nat /\ Word \in Nat /\ b \in Addresses
      /\ amount \in 0 .. (Word - 1)
  <2>1. Digits \in Nat /\ Word \in Nat
    BY WalletTransferAssumption
  <2> QED
    BY <2>1 DEF Sent
<1>2. k = Chunks(e.amount, e.addr)
  BY Zenon DEF Chunks
<1>3. \A i \in 1 .. Digits : cut[i].chunk \in Nat
  <2> HIDE DEF amount, cut
  <2>1. CutAmounts(amount) \in Numbers(Digits)
    BY <1>1, CuttingTotal
  <2> QED
    BY <2>1 DEF CutAmounts, Numbers, cut
<1> HIDE DEF cut
<1>4. s \in Seq(P) /\ Len(s) = Digits
  <2>1. ASSUME NEW i \in 1 .. Digits
        PROVE  [amount |-> cut[i].chunk, addr |-> b] \in P
    <3>1. cut[i].chunk \in Nat
      BY <1>3
    <3> QED
      BY <3>1
  <2>2. s \in [1 .. Digits -> P]
    <3> HIDE DEF P
    <3> QED
      BY <2>1, Zenon
  <2> HIDE DEF s, P
  <2> QED
    BY <1>1, <2>2
<1>5. \A i \in 1 .. Digits : s[i].amount = cut[i].chunk
  BY <1>1
<1> HIDE DEF s, P
<1>6. k \in Seq(P)
  BY <1>4, KeptDef
<1>7. s \in Seq(Entry) /\ k \in Seq(Entry)
  BY <1>1, <1>4, <1>6, PaidToOne DEF P
<1>8. Worth(Amounts, k) = amount
  <2>1. Amounts \in Weights
    BY WeightsAre
  <2>2. Worth(Amounts, k) = Total(Picked(Amounts, s, K))
    BY <2>1, <1>7, KeptWorth
  <2>3. ASSUME NEW i \in 1 .. Digits
        PROVE  (IF i \in K THEN Amounts[s[i]] ELSE 0) = cut[i].chunk
    <3>1. s[i] \in Entry
      BY <1>1, <1>4, <1>7
    <3>2. Amounts[s[i]] = cut[i].chunk
      BY <3>1, <1>5 DEF Amounts
    <3> QED
      BY <3>2
  <2>4. Picked(Amounts, s, K) = CutAmounts(amount)
    BY <2>3, <1>4, Zenon DEF Picked, CutAmounts, cut
  <2> QED
    BY <2>2, <2>4, <1>1, CuttingTotal
<1> HIDE DEF k, K
<1>9. e \in Entry
  BY SentAreEntries
<1>10. ASSUME NEW w \in Kinds PROVE Worth(w, k) = w[e]
  <2>1. CASE w = Amounts
    BY <2>1, <1>8, <1>9 DEF Amounts
  <2>2. ASSUME NEW a \in Addresses, w = AmountsTo(a) PROVE Worth(w, k) = w[e]
    <3>1. /\ a = b => Worth(AmountsTo(a), k) = Worth(Amounts, k)
          /\ a # b => Worth(AmountsTo(a), k) = 0
      BY <1>1, <1>6, PaidToOne DEF P
    <3>2. w[e] = IF e.addr = a THEN e.amount ELSE 0
      BY <2>2, <1>9 DEF AmountsTo
    <3> QED
      BY <2>2, <3>1, <3>2, <1>8
  <2> QED
    BY <2>1, <2>2 DEF Kinds
<1> QED
  BY <1>2, <1>6, <1>7, <1>10 DEF P

AllChunks(dsts) ==
  Turns(Len(dsts), <<>>, LAMBDA paid, i :
                           paid \o Chunks(dsts[i].amount, dsts[i].addr))

LEMMA AllChunksDef ==
  ASSUME NEW dsts \in Seq(Sent)
  PROVE  /\ AllChunks(dsts) \in [0 .. Len(dsts) -> Seq(Entry)]
         /\ AllChunks(dsts)[0] = <<>>
         /\ \A i \in 1 .. Len(dsts) :
              AllChunks(dsts)[i] = AllChunks(dsts)[i - 1]
                                   \o Chunks(dsts[i].amount, dsts[i].addr)
<1> DEFINE n == Len(dsts)
           V == Seq(Entry)
           c(i) == Chunks(dsts[i].amount, dsts[i].addr)
           g == [i \in 1 .. n |-> [v \in V |-> v \o c(i)]]
           f == AllChunks(dsts)
<1>1. n \in Nat /\ <<>> \in V
  OBVIOUS
<1>2. \A i \in 1 .. n : c(i) \in V
  <2> TAKE i \in 1 .. n
  <2>1. dsts[i] \in Sent
    OBVIOUS
  <2> QED
    BY <2>1, ChunksWorth
<1> HIDE DEF c, n
<1>3. \A i \in 1 .. n, v \in V : v \o c(i) \in V
  BY <1>2
<1>4. g \in [1 .. n -> [V -> V]]
  <2> HIDE DEF V
  <2> QED
    BY <1>3
<1>5. PICK h : IsLoop(h, n, V, <<>>, g)
  <2> HIDE DEF g, V
  <2> QED
    BY <1>1, <1>4, LoopExists, Zenon
<1> HIDE DEF V
<1>6. h \in [0 .. n -> V] /\ h[0] = <<>>
  BY <1>5 DEF IsLoop
<1>7. ASSUME NEW i \in 1 .. n
      PROVE  h[i] = h[i - 1] \o c(i) /\ i \in 0 .. n /\ i # 0
                                     /\ i - 1 \in 0 .. n
  <2>1. h[i] = g[i][h[i - 1]]
    BY <1>5 DEF IsLoop
  <2>2. i \in 0 .. n /\ i # 0 /\ i - 1 \in 0 .. n
    BY <1>1
  <2>3. h[i - 1] \in V
    BY <1>6, <2>2
  <2> QED
    BY <2>1, <2>2, <2>3
<1>8. h = [i \in 0 .. n |-> IF i = 0 THEN <<>> ELSE h[i - 1] \o c(i)]
  <2>1. ASSUME NEW i \in 0 .. n
        PROVE  h[i] = IF i = 0 THEN <<>> ELSE h[i - 1] \o c(i)
    <3>1. CASE i = 0
      BY <3>1, <1>6, Zenon
    <3>2. CASE i # 0
      <4>1. i \in 1 .. n
        BY <1>1, <3>2
      <4> QED
        BY <4>1, <1>7, <3>2, Zenon
    <3> QED
      BY <3>1, <3>2
  <2>2. h = [i \in 0 .. n |-> h[i]]
    BY <1>6, Zenon
  <2> QED
    BY <2>1, <2>2, Zenon
<1>9. f = [i \in 0 .. n |-> IF i = 0 THEN <<>> ELSE f[i - 1] \o c(i)]
  BY <1>8, Zenon DEF AllChunks, Turns, c, n
<1> HIDE DEF f
<1>10. 0 \in 0 .. n
  BY <1>1
<1>11. \A i \in 0 .. n : f[i] = IF i = 0 THEN <<>> ELSE f[i - 1] \o c(i)
  BY <1>9, Zenon
<1>12. f[0] = <<>>
  BY <1>10, <1>11, Zenon
<1>13. \A i \in 1 .. n : f[i] = f[i - 1] \o c(i)
  BY <1>7, <1>11, Zenon
<1>14. 0 .. n \subseteq {i \in 0 .. n : f[i] \in V}
  <2> DEFINE S == {i \in 0 .. n : f[i] \in V}
  <2>1. 0 \in S
    BY <1>1, <1>10, <1>12
  <2>2. ASSUME NEW i \in 1 .. n, i - 1 \in S PROVE i \in S
    BY <1>3, <1>7, <1>13, <2>2
  <2> HIDE DEF S
  <2>3. 0 .. n \subseteq S
    BY <1>1, <2>1, <2>2, BoundedInduction
  <2> QED
    BY <2>3 DEF S
<1>15. f \in [0 .. n -> V]
  <2>1. \A i \in 0 .. n : f[i] \in V
    BY <1>14
  <2>2. f = [i \in 0 .. n |-> f[i]]
    BY <1>9, Zenon
  <2> QED
    BY <2>1, <2>2, Zenon
<1> QED
  BY <1>12, <1>13, <1>15 DEF f, n, c, V

LEMMA AllChunksWorth ==
  ASSUME NEW dsts \in Seq(Sent)
  PROVE  /\ AllChunks(dsts)[Len(dsts)] \in Seq(Entry)
         /\ \A w \in Kinds :
              Worth(w, AllChunks(dsts)[Len(dsts)]) = Worth(w, dsts)
<1> DEFINE n == Len(dsts)
           f == AllChunks(dsts)
           c(i) == Chunks(dsts[i].amount, dsts[i].addr)
<1>1. /\ n \in Nat /\ f \in [0 .. n -> Seq(Entry)] /\ f[0] = <<>>
      /\ \A i \in 1 .. n : f[i] = f[i - 1] \o c(i)
  <2>1. n \in Nat
    OBVIOUS
  <2> QED
    BY <2>1, AllChunksDef, Zenon
<1>2. \A i \in 1 .. n : dsts[i] \in Sent
  OBVIOUS
<1>3. \A i \in 1 .. n : /\ c(i) \in Seq(Entry)
                        /\ \A w \in Kinds : Worth(w, c(i)) = w[dsts[i]]
  BY <1>2, ChunksWorth
<1>4. dsts \in Seq(Entry)
  BY SentAreEntries
<1> HIDE DEF f, c
<1>5. ASSUME NEW w \in Kinds PROVE Worth(w, f[n]) = Worth(w, dsts)
  <2> DEFINE a == Weighed(w, dsts)
             h == [i \in 0 .. n |-> Worth(w, f[i])]
  <2>1. w \in Weights /\ a \in Numbers(n)
    BY <1>4, SentAreEntries, WeighedType
  <2>2. \A i \in 1 .. n : a[i] = w[dsts[i]]
    BY DEF Weighed
  <2> HIDE DEF a, n
  <2>3. h[0] = 0
    BY <1>1, <2>1, WorthEmpty
  <2>4. ASSUME NEW i \in 1 .. n PROVE h[i] = h[i - 1] + a[i]
    <3>1. f[i - 1] \in Seq(Entry) /\ f[i] = f[i - 1] \o c(i)
      <4>1. i - 1 \in 0 .. n
        BY <1>1
      <4>2. f[i - 1] \in Seq(Entry)
        BY <4>1, <1>1
      <4>3. f[i] = f[i - 1] \o c(i)
        BY <1>1, Zenon
      <4> QED
        BY <4>2, <4>3
    <3>2. Worth(w, f[i - 1] \o c(i)) = Worth(w, f[i - 1]) + Worth(w, c(i))
      BY <3>1, <2>1, <1>3, WorthConcat
    <3>3. Worth(w, c(i)) = a[i]
      BY <1>3, <2>2
    <3>4. h[i] = Worth(w, f[i]) /\ h[i - 1] = Worth(w, f[i - 1])
      <4>1. i \in 0 .. n /\ i - 1 \in 0 .. n
        BY <1>1
      <4> QED
        BY <4>1, Zenon
    <3> QED
      BY <3>1, <3>2, <3>3, <3>4
  <2>5. h[n] = Sums(n, a)[n]
    <3>1. n \in 0 .. n
      BY <1>1
    <3> HIDE DEF h
    <3> QED
      BY <3>1, <1>1, <2>1, <2>3, <2>4, SumsUnique
  <2>6. h[n] = Worth(w, f[n])
    BY <1>1
  <2>7. Total(a) = Sums(n, a)[n]
    BY <1>1, <2>1, TotalIsSums
  <2> QED
    BY <2>5, <2>6, <2>7 DEF Worth, a
<1>6. f[n] \in Seq(Entry)
  BY <1>1
<1> QED
  BY <1>5, <1>6 DEF f
-----------------------------------------------------------------------------
(* Change and the two strategies.                                          *)

LEMMA CallIs ==
  ASSUME call \in Call
  PROVE  /\ call.dsts \in Seq(Sent)
         /\ call.fee \in 0 .. (Word - 1)
         /\ call.mixin \in Nat
         /\ call.policy.threshold \in Nat
         /\ call.policy.toFee \in BOOLEAN
         /\ call.policy.address \in Addresses
<1>1. /\ call.dsts \in Destinations /\ call.fee \in Fees
      /\ call.mixin \in Mixins /\ call.policy \in Policy
  BY DEF Call
<1>2. \A d \in Destinations : d \in Seq(Sent)
  BY WalletTransferAssumption DEF Sent
<1>3. Fees \subseteq 0 .. (Word - 1) /\ Mixins \subseteq Nat
      /\ DustLimits \subseteq Nat
  BY WalletTransferAssumption
<1>4. /\ call.policy.threshold \in DustLimits
      /\ call.policy.toFee \in BOOLEAN
      /\ call.policy.address \in {Own, Dust, Nobody}
  BY <1>1 DEF Policy
<1>5. Own \in Addresses /\ Dust \in Addresses /\ Nobody \in Addresses
  BY WalletTransferAssumption
<1> QED
  BY <1>1, <1>2, <1>3, <1>4, <1>5

Ready ==
  call \in Call /\ needed_money \in 0 .. (Word - 1)
                /\ found_money \in 0 .. (Word - 1)

LEMMA ChangeIs ==
  ASSUME Ready
  PROVE  /\ Change \in Sent
         /\ found_money >= needed_money =>
              found_money = needed_money + Change.amount
         /\ Change.addr = Own \/ (Change.addr = Nobody /\ Change.amount = 0)
         /\ Own # Nobody
<1>1. Word \in Nat
  BY WalletTransferAssumption
<1>2. needed_money \in 0 .. (Word - 1) /\ found_money \in 0 .. (Word - 1)
  BY DEF Ready
<1>3. Own \in Addresses /\ Nobody \in Addresses /\ Own # Nobody
  <2>1. Own \in Addresses /\ Nobody \in Addresses
    BY WalletTransferAssumption
  <2>2. Own # Nobody
    BY DEF Own, Nobody
  <2> QED
    BY <2>1, <2>2
<1>4. CASE needed_money < found_money
  <2>1. Change = [amount |-> found_money - needed_money, addr |-> Own]
    BY <1>4 DEF Change
  <2>2. found_money - needed_money \in 0 .. (Word - 1)
    BY <1>1, <1>2, <1>4
  <2>3. found_money = needed_money + (found_money - needed_money)
    BY <1>1, <1>2
  <2> QED
    BY <1>3, <2>1, <2>2, <2>3 DEF Sent
<1>5. CASE ~(needed_money < found_money)
  <2>1. Change = [amount |-> 0, addr |-> Nobody]
    BY <1>5 DEF Change
  <2>2. found_money >= needed_money => found_money = needed_money
    BY <1>1, <1>2, <1>5
  <2>3. 0 \in 0 .. (Word - 1)
    BY <1>1, <1>2
  <2> QED
    BY <1>1, <1>2, <1>3, <2>1, <2>2, <2>3 DEF Sent
<1> QED
  BY <1>4, <1>5

(* Neither strategy makes or loses money, whoever it is paid to; only the  *)
(* change is cut down to dust.                                             *)
SplitIsWorth(split) ==
  /\ split.splitted \in Seq(Entry)
  /\ split.dust \in Seq([addr: {Change.addr}, amount: Nat])
  /\ Worth(Amounts, split.dust) <= Change.amount
  /\ \A w \in Kinds :
       Worth(w, split.splitted) + Worth(w, split.dust)
         = Worth(w, call.dsts) + w[Change]

LEMMA DigitSplitWorth ==
  ASSUME Ready
  PROVE  SplitIsWorth(digit_split_strategy)
<1> DEFINE dsts == call.dsts
           P == [addr: {Change.addr}, amount: Nat]
           cut == Chunks(Change.amount, Change.addr)
           small == {i \in DOMAIN cut : cut[i].amount <= call.policy.threshold}
           paid == AllChunks(dsts)[Len(dsts)]
           big == Kept(cut, (1 .. Len(cut)) \ small)
           dust == Kept(cut, small)
<1>1. dsts \in Seq(Sent) /\ Change \in Sent
  BY CallIs, ChangeIs DEF Ready
<1>2. /\ cut \in Seq(P) /\ cut \in Seq(Entry)
      /\ \A w \in Kinds : Worth(w, cut) = w[Change]
  BY <1>1, ChunksWorth
<1>3. /\ paid \in Seq(Entry)
      /\ \A w \in Kinds : Worth(w, paid) = Worth(w, dsts)
  <2> HIDE DEF dsts
  <2> QED
    BY <1>1, AllChunksWorth
<1>4. DOMAIN cut = 1 .. Len(cut)
  BY <1>2
<1>5. digit_split_strategy = [splitted |-> paid \o big, dust |-> dust]
  BY <1>4, Zenon DEF digit_split_strategy, AllChunks
<1>6. Change \in Entry /\ Kinds \subseteq Weights /\ Amounts \in Kinds
  BY <1>1, SentAreEntries DEF Kinds
<1> HIDE DEF cut, small, paid
<1>7. big \in Seq(Entry) /\ dust \in Seq(Entry) /\ dust \in Seq(P)
  BY <1>2, KeptDef
<1>8. \A w \in Kinds : /\ Worth(w, big) + Worth(w, dust) = Worth(w, cut)
                       /\ Worth(w, big) \in Nat /\ Worth(w, dust) \in Nat
  BY <1>2, <1>6, <1>7, KeptSplits, WorthType
<1> HIDE DEF big, dust, P
<1>9. \A w \in Kinds : /\ Worth(w, paid \o big) = Worth(w, paid) + Worth(w, big)
                       /\ Worth(w, paid) \in Nat
  BY <1>3, <1>6, <1>7, WorthConcat, WorthType
<1>10. paid \o big \in Seq(Entry)
  BY <1>3, <1>7
<1>11. ASSUME NEW w \in Kinds
       PROVE  Worth(w, paid \o big) + Worth(w, dust) = Worth(w, dsts) + w[Change]
  BY <1>2, <1>3, <1>8, <1>9
<1>12. Worth(Amounts, dust) <= Change.amount
  <2>1. Amounts[Change] = Change.amount
    BY <1>6 DEF Amounts
  <2> QED
    BY <1>2, <1>6, <1>8, <2>1
<1> QED
  BY <1>5, <1>7, <1>10, <1>11, <1>12 DEF SplitIsWorth, P

LEMMA NullSplitWorth ==
  ASSUME Ready
  PROVE  SplitIsWorth(null_split_strategy)
<1> DEFINE dsts == call.dsts
           last == IF Change.amount # 0 THEN <<Change>> ELSE <<>>
<1>1. dsts \in Seq(Sent) /\ Change \in Sent
  BY CallIs, ChangeIs DEF Ready
<1>2. Change \in Entry /\ dsts \in Seq(Entry) /\ Kinds \subseteq Weights
      /\ Amounts \in Kinds
  BY <1>1, SentAreEntries DEF Kinds
<1>3. null_split_strategy = [splitted |-> dsts \o last, dust |-> <<>>]
  BY DEF null_split_strategy
<1>4. last \in Seq(Entry) /\ <<>> \in Seq(Entry)
  BY <1>2
<1>5. ASSUME NEW w \in Kinds PROVE Worth(w, last) = w[Change]
  <2>1. w \in Weights
    BY <1>2
  <2>2. CASE Change.amount # 0
    BY <1>2, <2>1, <2>2, WorthOne
  <2>3. CASE Change.amount = 0
    <3>1. Worth(w, last) = 0
      BY <2>1, <2>3, WorthEmpty
    <3>2. w[Change] = 0
      BY <1>2, <2>3 DEF Kinds, Amounts, AmountsTo
    <3> QED
      BY <3>1, <3>2
  <2> QED
    BY <2>2, <2>3
<1> HIDE DEF last
<1>6. ASSUME NEW w \in Kinds
      PROVE  Worth(w, dsts \o last) + Worth(w, <<>>) = Worth(w, dsts) + w[Change]
  <2>1. w \in Weights
    BY <1>2
  <2>2. Worth(w, dsts \o last) = Worth(w, dsts) + Worth(w, last)
    BY <1>2, <1>4, <2>1, WorthConcat
  <2>3. Worth(w, <<>>) = 0 /\ Worth(w, dsts) \in Nat /\ Worth(w, last) \in Nat
    BY <1>2, <1>4, <2>1, WorthEmpty, WorthType
  <2> QED
    BY <1>5, <2>2, <2>3
<1>7. Worth(Amounts, <<>>) <= Change.amount
  <2>1. Worth(Amounts, <<>>) = 0
    BY WeightsAre, WorthEmpty
  <2> QED
    BY <1>2, <2>1 DEF Entry
<1>8. dsts \o last \in Seq(Entry)
      /\ <<>> \in Seq([addr: {Change.addr}, amount: Nat])
  BY <1>2, <1>4
<1> QED
  BY <1>3, <1>6, <1>7, <1>8 DEF SplitIsWorth
-----------------------------------------------------------------------------
(* needed_money.                                                           *)

LEMMA WordIs ==
  Word \in Nat \ {0} /\ \A x \in 0 .. (Word - 1) : x \in Nat /\ x < Word
<1>1. Word \in Nat \ {0}
  BY WalletTransferAssumption
<1> QED
  BY <1>1

LEMMA SumWraps ==
  ASSUME NEW x \in 0 .. (Word - 1), NEW y \in 0 .. (Word - 1),
         (x + y) % Word >= y
  PROVE  (x + y) % Word = x + y
<1>1. Word \in Nat \ {0} /\ x \in Nat /\ y \in Nat
  BY WordIs
<1>2. CASE x + y < Word
  BY <1>1, <1>2, SmallMod
<1>3. CASE x + y >= Word
  <2> DEFINE r == (x + y) - Word
  <2>1. r \in 0 .. (Word - 1) /\ r < y /\ x + y = Word + r
    BY <1>1, <1>3
  <2>2. (Word + r) % Word = r
    <3> HIDE DEF r
    <3> QED
      BY <1>1, <2>1
  <2> QED
    BY <1>1, <2>1, <2>2
<1> QED
  BY <1>1, <1>2, <1>3

NeedErrors == {"none", "zero_destination", "tx_sum_overflow"}
Needs == [sum: 0 .. (Word - 1), error: NeedErrors]

LEMMA AddAmountType ==
  ASSUME NEW acc \in Needs, NEW amount \in 0 .. (Word - 1)
  PROVE  /\ AddAmount(acc, amount) \in Needs
         /\ AddAmount(acc, amount).error = "none" =>
              /\ acc.error = "none"
              /\ AddAmount(acc, amount).sum = acc.sum + amount
<1> DEFINE sum == (acc.sum + amount) % Word
<1>1. acc.sum \in 0 .. (Word - 1) /\ acc.error \in NeedErrors
  BY DEF Needs
<1>2. sum \in 0 .. (Word - 1)
  <2>1. acc.sum + amount \in Nat
    BY <1>1
  <2> QED
    BY <2>1, SmallMod
<1>3. sum >= amount => sum = acc.sum + amount
  BY <1>1, SumWraps
<1>4. amount \in Nat /\ sum \in Nat
  BY <1>2, WordIs
<1>5. AddAmount(acc, amount) =
        CASE acc.error # "none" -> acc
          [] acc.error = "none" /\ amount = 0 ->
               [acc EXCEPT !.error = "zero_destination"]
          [] acc.error = "none" /\ amount # 0 /\ sum < amount ->
               [acc EXCEPT !.error = "tx_sum_overflow"]
          [] OTHER -> [acc EXCEPT !.sum = sum]
  BY Zenon DEF AddAmount
<1> HIDE DEF sum
<1>6. CASE acc.error # "none"
  BY <1>5, <1>6
<1>7. CASE acc.error = "none" /\ amount = 0
  <2>1. AddAmount(acc, amount) = [acc EXCEPT !.error = "zero_destination"]
    BY <1>5, <1>7
  <2> QED
    BY <2>1 DEF Needs, NeedErrors
<1>8. CASE acc.error = "none" /\ amount # 0 /\ sum < amount
  <2>1. AddAmount(acc, amount) = [acc EXCEPT !.error = "tx_sum_overflow"]
    BY <1>5, <1>8
  <2> QED
    BY <2>1 DEF Needs, NeedErrors
<1>9. CASE acc.error = "none" /\ amount # 0 /\ ~(sum < amount)
  <2>1. AddAmount(acc, amount) = [acc EXCEPT !.sum = sum]
    BY <1>5, <1>9
  <2>2. sum = acc.sum + amount
    BY <1>3, <1>4, <1>9
  <2> QED
    BY <1>2, <1>9, <2>1, <2>2 DEF Needs
<1> QED
  BY <1>6, <1>7, <1>8, <1>9

NeededBase(dsts, fee) ==
  [sum |-> fee, error |-> IF dsts = <<>> THEN "zero_destination" ELSE "none"]
NeededUpTo(dsts, fee) ==
  Turns(Len(dsts), NeededBase(dsts, fee),
        LAMBDA acc, i : AddAmount(acc, dsts[i].amount))

LEMMA NeededDef ==
  ASSUME NEW dsts \in Seq(Sent), NEW fee \in 0 .. (Word - 1)
  PROVE  /\ NeededUpTo(dsts, fee) \in [0 .. Len(dsts) -> Needs]
         /\ NeededUpTo(dsts, fee)[0] = NeededBase(dsts, fee)
         /\ \A i \in 1 .. Len(dsts) :
              NeededUpTo(dsts, fee)[i]
                = AddAmount(NeededUpTo(dsts, fee)[i - 1], dsts[i].amount)
<1> DEFINE n == Len(dsts)
           m(i) == dsts[i].amount
           base == NeededBase(dsts, fee)
           g == [i \in 1 .. n |-> [v \in Needs |-> AddAmount(v, m(i))]]
           f == NeededUpTo(dsts, fee)
<1>1. n \in Nat /\ base \in Needs
  BY DEF NeededBase, Needs, NeedErrors
<1>2. \A i \in 1 .. n : m(i) \in 0 .. (Word - 1)
  <2> TAKE i \in 1 .. n
  <2>1. dsts[i] \in Sent
    OBVIOUS
  <2> QED
    BY <2>1 DEF Sent
<1> HIDE DEF m, n, base
<1>3. \A i \in 1 .. n, v \in Needs : AddAmount(v, m(i)) \in Needs
  BY <1>2, AddAmountType
<1>4. g \in [1 .. n -> [Needs -> Needs]]
  BY <1>3
<1>5. PICK h : IsLoop(h, n, Needs, base, g)
  <2> HIDE DEF g
  <2> QED
    BY <1>1, <1>4, LoopExists, Zenon
<1>6. h \in [0 .. n -> Needs] /\ h[0] = base
  BY <1>5 DEF IsLoop
<1>7. ASSUME NEW i \in 1 .. n
      PROVE  /\ h[i] = AddAmount(h[i - 1], m(i))
             /\ i \in 0 .. n /\ i # 0 /\ i - 1 \in 0 .. n
  <2>1. h[i] = g[i][h[i - 1]]
    BY <1>5 DEF IsLoop
  <2>2. i \in 0 .. n /\ i # 0 /\ i - 1 \in 0 .. n
    BY <1>1
  <2>3. h[i - 1] \in Needs
    BY <1>6, <2>2
  <2> QED
    BY <2>1, <2>2, <2>3
<1>8. h = [i \in 0 .. n |-> IF i = 0 THEN base ELSE AddAmount(h[i - 1], m(i))]
  <2>1. ASSUME NEW i \in 0 .. n
        PROVE  h[i] = IF i = 0 THEN base ELSE AddAmount(h[i - 1], m(i))
    <3>1. CASE i = 0
      BY <3>1, <1>6, Zenon
    <3>2. CASE i # 0
      <4>1. i \in 1 .. n
        BY <1>1, <3>2
      <4> QED
        BY <4>1, <1>7, <3>2, Zenon
    <3> QED
      BY <3>1, <3>2
  <2>2. h = [i \in 0 .. n |-> h[i]]
    BY <1>6, Zenon
  <2> QED
    BY <2>1, <2>2, Zenon
<1>9. f = [i \in 0 .. n |-> IF i = 0 THEN base ELSE AddAmount(f[i - 1], m(i))]
  BY <1>8, Zenon DEF NeededUpTo, Turns, m, n, base
<1> HIDE DEF f
<1>10. 0 \in 0 .. n
  BY <1>1
<1>11. \A i \in 0 .. n :
         f[i] = IF i = 0 THEN base ELSE AddAmount(f[i - 1], m(i))
  BY <1>9, Zenon
<1>12. f[0] = base
  BY <1>10, <1>11, Zenon
<1>13. \A i \in 1 .. n : f[i] = AddAmount(f[i - 1], m(i))
  BY <1>7, <1>11, Zenon
<1>14. 0 .. n \subseteq {i \in 0 .. n : f[i] \in Needs}
  <2> DEFINE S == {i \in 0 .. n : f[i] \in Needs}
  <2>1. 0 \in S
    BY <1>1, <1>10, <1>12
  <2>2. ASSUME NEW i \in 1 .. n, i - 1 \in S PROVE i \in S
    BY <1>3, <1>7, <1>13, <2>2
  <2> HIDE DEF S
  <2>3. 0 .. n \subseteq S
    BY <1>1, <2>1, <2>2, BoundedInduction
  <2> QED
    BY <2>3 DEF S
<1>15. f \in [0 .. n -> Needs]
  <2>1. \A i \in 0 .. n : f[i] \in Needs
    BY <1>14
  <2>2. f = [i \in 0 .. n |-> f[i]]
    BY <1>9, Zenon
  <2> QED
    BY <2>1, <2>2, Zenon
<1> QED
  BY <1>12, <1>13, <1>15 DEF f, n, m, base

(* When no error is thrown, nothing has wrapped.                           *)
LEMMA NeededIs ==
  ASSUME NEW dsts \in Seq(Sent), NEW fee \in 0 .. (Word - 1)
  PROVE  /\ Needed(dsts, fee) \in Needs
         /\ Needed(dsts, fee).error = "none" =>
              Needed(dsts, fee).sum = fee + Worth(Amounts, dsts)
<1> DEFINE n == Len(dsts)
           a == Weighed(Amounts, dsts)
           s == Sums(n, a)
           f == NeededUpTo(dsts, fee)
           S == {i \in 0 .. n : f[i].error = "none" => f[i].sum = fee + s[i]}
<1>1. n \in Nat /\ dsts \in Seq(Entry)
  BY SentAreEntries
<1>2. /\ f \in [0 .. n -> Needs] /\ f[0] = NeededBase(dsts, fee)
      /\ \A i \in 1 .. n : f[i] = AddAmount(f[i - 1], dsts[i].amount)
  <2> HIDE DEF n
  <2> QED
    BY NeededDef, Zenon DEF n
<1>3. a \in Numbers(n) /\ Worth(Amounts, dsts) = Total(a)
  BY <1>1, WeightsAre, WeighedType DEF Worth
<1>4. \A i \in 1 .. n : a[i] = dsts[i].amount /\ dsts[i].amount \in 0 .. (Word - 1)
  <2> TAKE i \in 1 .. n
  <2>1. dsts[i] \in Sent /\ dsts[i] \in Entry
    BY <1>1
  <2> QED
    BY <2>1 DEF Weighed, Amounts, Sent
<1>5. Needed(dsts, fee) = f[n]
  BY Zenon DEF Needed, NeededUpTo, NeededBase
<1> HIDE DEF n, f, a, s
<1>6. /\ s \in [0 .. n -> Nat] /\ s[0] = 0 /\ Total(a) = s[n]
      /\ \A i \in 1 .. n : s[i] = s[i - 1] + a[i]
  BY <1>1, <1>3, SumsDef, TotalIsSums DEF s
<1>7. 0 \in S
  <2>1. f[0].sum = fee
    BY <1>2 DEF NeededBase
  <2> QED
    BY <1>1, <1>6, <2>1
<1>8. ASSUME NEW i \in 1 .. n, i - 1 \in S PROVE i \in S
  <2>1. i \in 0 .. n /\ i - 1 \in 0 .. n
    BY <1>1
  <2>2. f[i - 1] \in Needs
    BY <1>2, <2>1
  <2>3. f[i].error = "none" => /\ f[i - 1].error = "none"
                               /\ f[i].sum = f[i - 1].sum + dsts[i].amount
    BY <1>2, <1>4, <2>2, AddAmountType
  <2>4. s[i - 1] \in Nat /\ a[i] \in Nat /\ s[i] = s[i - 1] + a[i]
        /\ a[i] = dsts[i].amount
    BY <1>3, <1>4, <1>6, <2>1 DEF Numbers
  <2> QED
    BY <1>8, <2>1, <2>3, <2>4
<1>9. n \in S
  <2>1. 0 .. n \subseteq S
    <3> HIDE DEF S
    <3> QED
      BY <1>1, <1>7, <1>8, BoundedInduction
  <2> HIDE DEF S
  <2> QED
    BY <1>1, <2>1
<1>10. f[n] \in Needs
  BY <1>1, <1>2
<1> QED
  BY <1>3, <1>5, <1>6, <1>9, <1>10
-----------------------------------------------------------------------------
(* Rings.                                                                  *)

Lists == {q \in Seq(Nat) : Rising(q)}

LEMMA FiniteBelow ==
  ASSUME NEW m \in Nat, NEW S, S \subseteq 1 .. m
  PROVE  IsFiniteSet(S) /\ Cardinality(S) \in Nat
<1>1. IsFiniteSet(1 .. m)
  BY FS_Interval
<1>2. IsFiniteSet(S)
  BY <1>1, FS_Subset
<1> QED
  BY <1>2, FS_CardinalityType

(* What InsertAt makes, entry by entry.                                    *)
LEMMA InsertedAt ==
  ASSUME NEW s \in Seq(Nat), NEW x \in Nat, NEW b \in 0 .. Len(s)
  PROVE  LET r == InsertAt(s, b + 1, x)
         IN  /\ DOMAIN r = 1 .. (Len(s) + 1)
             /\ r \in Seq(Nat) /\ Len(r) = Len(s) + 1
             /\ \A i \in 1 .. (Len(s) + 1) :
                  \/ i \in 1 .. b /\ r[i] = s[i]
                  \/ i = b + 1 /\ r[i] = x
                  \/ i \in (b + 2) .. (Len(s) + 1) /\ r[i] = s[i - 1]
<1> DEFINE n == Len(s)
           p == SubSeq(s, 1, (b + 1) - 1)
           q == SubSeq(s, b + 1, n)
           r == InsertAt(s, b + 1, x)
<1>1. n \in Nat /\ b \in Nat /\ b <= n /\ \A k \in 1 .. n : s[k] \in Nat
  OBVIOUS
<1>2. p \in Seq(Nat) /\ Len(p) = b /\ \A i \in 1 .. b : p[i] = s[i]
  <2>1. (b + 1) - 1 = b
    BY <1>1
  <2>2. \A i \in 1 .. b : s[i] \in Nat /\ (1 + i) - 1 = i
    BY <1>1
  <2>3. SubSeq(s, 1, b) \in Seq(Nat) /\ Len(SubSeq(s, 1, b)) = b
        /\ \A i \in 1 .. b : SubSeq(s, 1, b)[i] = s[i]
    BY <1>1, <2>2, SubSeqProperties
  <2> QED
    BY <2>1, <2>3
<1>3. q \in Seq(Nat) /\ Len(q) = n - b /\ \A i \in 1 .. (n - b) : q[i] = s[b + i]
  <2>1. \A i \in (b + 1) .. n : s[i] \in Nat
    BY <1>1
  <2>2. \A i \in 1 .. (n - b) : ((b + 1) + i) - 1 = b + i
    BY <1>1
  <2> QED
    BY <1>1, <2>1, <2>2, SubSeqProperties
<1>4. r = (p \o <<x>>) \o q
  BY Zenon DEF InsertAt
<1> HIDE DEF p, q, r, n
<1>5. /\ p \o <<x>> \in Seq(Nat) /\ Len(p \o <<x>>) = b + 1
      /\ \A i \in 1 .. b : (p \o <<x>>)[i] = s[i]
      /\ (p \o <<x>>)[b + 1] = x
  BY <1>1, <1>2
<1> DEFINE u == p \o <<x>>
<1> HIDE DEF u
<1>6. /\ r \in Seq(Nat) /\ Len(r) = n + 1
      /\ \A i \in 1 .. (b + 1) : r[i] = u[i]
      /\ \A i \in (b + 2) .. (n + 1) : r[i] = s[i - 1]
  <2>1. u \in Seq(Nat) /\ Len(u) = b + 1
    BY <1>5 DEF u
  <2>2. r = u \o q
    BY <1>4 DEF u
  <2>3. Len(r) = (b + 1) + (n - b) /\ r \in Seq(Nat)
    <3>1. u \o q \in Seq(Nat) /\ Len(u \o q) = Len(u) + Len(q)
      BY <1>3, <2>1, ConcatProperties
    <3> QED
      BY <1>3, <2>1, <2>2, <3>1
  <2>4. \A i \in 1 .. ((b + 1) + (n - b)) :
          r[i] = IF i <= b + 1 THEN u[i] ELSE q[i - (b + 1)]
    <3> DEFINE v == u \o q
    <3>1. Len(u) = b + 1 /\ Len(q) = n - b
      BY <1>3, <2>1
    <3>2. \A i \in 1 .. (Len(u) + Len(q)) :
            v[i] = IF i <= Len(u) THEN u[i] ELSE q[i - Len(u)]
      BY <1>3, <2>1, ConcatProperties
    <3>3. r = v
      BY <2>2
    <3> HIDE DEF v
    <3>4. \A i \in 1 .. ((b + 1) + (n - b)) :
            v[i] = IF i <= b + 1 THEN u[i] ELSE q[i - (b + 1)]
      BY <3>1, <3>2
    <3> QED
      BY <3>3, <3>4
  <2>5. (b + 1) + (n - b) = n + 1
    BY <1>1
  <2>6. ASSUME NEW i \in (b + 2) .. (n + 1) PROVE r[i] = s[i - 1]
    <3>1. i - (b + 1) \in 1 .. (n - b) /\ b + (i - (b + 1)) = i - 1
      BY <1>1
    <3>2. r[i] = q[i - (b + 1)]
      BY <1>1, <2>4, <2>5
    <3> QED
      BY <1>3, <3>1, <3>2
  <2>7. \A i \in 1 .. (b + 1) : r[i] = u[i]
    BY <1>1, <2>4, <2>5
  <2> QED
    BY <2>3, <2>5, <2>6, <2>7
<1>7. /\ \A i \in 1 .. b : r[i] = s[i]
      /\ r[b + 1] = x
  BY <1>1, <1>5, <1>6 DEF u
<1>8. \A i \in 1 .. (n + 1) :
        \/ i \in 1 .. b /\ r[i] = s[i]
        \/ i = b + 1 /\ r[i] = x
        \/ i \in (b + 2) .. (n + 1) /\ r[i] = s[i - 1]
  BY <1>1, <1>6, <1>7
<1>9. DOMAIN r = 1 .. (n + 1)
  BY <1>6
<1> QED
  BY <1>6, <1>8, <1>9 DEF r, n

(* The place of x cuts a rising list in two.                               *)
LEMMA PlaceCuts ==
  ASSUME NEW s \in Lists, NEW x \in Nat
  PROVE  /\ Place(s, x) \in 0 .. Len(s)
         /\ \A k \in 1 .. Place(s, x) : s[k] < x
         /\ \A k \in (Place(s, x) + 1) .. Len(s) : s[k] >= x
<1> DEFINE n == Len(s)
           T == {k \in 1 .. (n + 1) : k = n + 1 \/ s[k] >= x}
<1>1. n \in Nat /\ \A k \in 1 .. n : s[k] \in Nat
  BY DEF Lists
<1>2. \A i, j \in 1 .. n : i < j => s[i] <= s[j]
  BY DEF Lists, Rising
<1>3. n + 1 \in T /\ T \subseteq Nat
  BY <1>1
<1>4. PICK t \in T : \A y \in T : t <= y
  <2> HIDE DEF T
  <2> QED
    BY <1>3, Least
<1>5. t \in 1 .. (n + 1)
  OBVIOUS
<1>6. \A k \in 1 .. (t - 1) : s[k] < x
  <2> TAKE k \in 1 .. (t - 1)
  <2>1. k \in 1 .. n /\ ~(t <= k)
    BY <1>1, <1>5
  <2>2. k \notin T
    BY <1>4, <2>1
  <2>3. ~(s[k] >= x)
    BY <2>1, <2>2
  <2> QED
    BY <1>1, <2>1, <2>3
<1>7. \A k \in t .. n : s[k] >= x
  <2> TAKE k \in t .. n
  <2>1. s[t] >= x /\ t \in 1 .. n /\ k \in 1 .. n
    BY <1>1, <1>5
  <2>2. k = t \/ s[t] <= s[k]
    BY <1>1, <1>2, <2>1
  <2> QED
    BY <1>1, <2>1, <2>2
<1>8. {k \in DOMAIN s : s[k] < x} = 1 .. (t - 1)
  <2>1. DOMAIN s = 1 .. n
    BY DEF Lists
  <2>2. \A k \in 1 .. n : s[k] < x <=> k <= t - 1
    BY <1>1, <1>5, <1>6, <1>7
  <2> HIDE DEF n
  <2> QED
    BY <1>1, <1>5, <2>1, <2>2
<1>9. Place(s, x) = t - 1
  <2>1. Cardinality(1 .. (t - 1)) = t - 1
    BY <1>5, FS_Interval
  <2> QED
    BY <1>8, <2>1 DEF Place
<1>10. t - 1 \in 0 .. n /\ (t - 1) + 1 = t
  BY <1>1, <1>5
<1> QED
  BY <1>6, <1>7, <1>9, <1>10

(* Pasting keeps the order, and keeps it strict if x was not there.        *)
LEMMA PasteIs ==
  ASSUME NEW s \in Lists, NEW x \in Nat
  PROVE  LET r == Paste(s, x)
             b == Place(s, x)
         IN  /\ r \in Lists
             /\ Len(r) = Len(s) + 1 /\ DOMAIN r = 1 .. (Len(s) + 1)
             /\ b + 1 \in DOMAIN r /\ r[b + 1] = x
             /\ \A i \in DOMAIN r \ {b + 1} :
                  \E k \in DOMAIN s : r[i] = s[k]
             /\ StrictlyRising(s) /\ (\A k \in DOMAIN s : s[k] # x)
                  => StrictlyRising(r)
<1> DEFINE n == Len(s)
           b == Place(s, x)
           r == Paste(s, x)
           Step(i, j) == \/ r[i] = x \/ r[j] = x
                         \/ \E k, l \in 1 .. n : /\ k < l
                                                 /\ r[i] = s[k] /\ r[j] = s[l]
<1>1. n \in Nat /\ DOMAIN s = 1 .. n /\ s \in Seq(Nat)
      /\ \A k \in 1 .. n : s[k] \in Nat
  BY DEF Lists
<1>2. /\ b \in 0 .. n
      /\ \A k \in 1 .. b : s[k] < x
      /\ \A k \in (b + 1) .. n : s[k] >= x
  BY PlaceCuts
<1>3. /\ DOMAIN r = 1 .. (n + 1)
      /\ r \in Seq(Nat) /\ Len(r) = n + 1
      /\ \A i \in 1 .. (n + 1) :
           \/ i \in 1 .. b /\ r[i] = s[i]
           \/ i = b + 1 /\ r[i] = x
           \/ i \in (b + 2) .. (n + 1) /\ r[i] = s[i - 1]
  <2>1. r = InsertAt(s, b + 1, x)
    BY Zenon DEF Paste
  <2> HIDE DEF b, r
  <2> DEFINE y == InsertAt(s, b + 1, x)
  <2>2. /\ DOMAIN y = 1 .. (Len(s) + 1)
        /\ y \in Seq(Nat) /\ Len(y) = Len(s) + 1
        /\ \A i \in 1 .. (Len(s) + 1) :
             \/ i \in 1 .. b /\ y[i] = s[i]
             \/ i = b + 1 /\ y[i] = x
             \/ i \in (b + 2) .. (Len(s) + 1) /\ y[i] = s[i - 1]
    BY <1>1, <1>2, InsertedAt, Zenon
  <2>3. r = y
    BY <2>1
  <2> HIDE DEF y
  <2> QED
    BY <2>2, <2>3, Zenon
<1> HIDE DEF n, b, r
<1>4. b + 1 \in 1 .. (n + 1) /\ r[b + 1] = x
  BY <1>1, <1>2, <1>3
<1>5. \A i \in (1 .. (n + 1)) \ {b + 1} : \E k \in 1 .. n : r[i] = s[k]
  <2> TAKE i \in (1 .. (n + 1)) \ {b + 1}
  <2>1. CASE i \in 1 .. b /\ r[i] = s[i]
    BY <1>1, <1>2, <2>1
  <2>2. CASE i \in (b + 2) .. (n + 1) /\ r[i] = s[i - 1]
    <3>1. i - 1 \in 1 .. n
      BY <1>1, <1>2, <2>2
    <3> QED
      BY <2>2, <3>1
  <2> QED
    BY <1>3, <2>1, <2>2
<1>6. ASSUME NEW i \in 1 .. (n + 1), NEW j \in 1 .. (n + 1), i < j
      PROVE  \/ i = b + 1 /\ \E k \in (b + 1) .. n : r[j] = s[k]
             \/ j = b + 1 /\ \E k \in 1 .. b : r[i] = s[k]
             \/ \E k, l \in 1 .. n : k < l /\ r[i] = s[k] /\ r[j] = s[l]
  <2>1. CASE i \in 1 .. b /\ r[i] = s[i]
    <3>1. CASE j \in 1 .. b /\ r[j] = s[j]
      BY <1>1, <1>2, <1>6, <2>1, <3>1
    <3>2. CASE j = b + 1 /\ r[j] = x
      BY <2>1, <3>2
    <3>3. CASE j \in (b + 2) .. (n + 1) /\ r[j] = s[j - 1]
      <4>1. i \in 1 .. n /\ j - 1 \in 1 .. n /\ i < j - 1
        BY <1>1, <1>2, <2>1, <3>3
      <4> QED
        BY <2>1, <3>3, <4>1
    <3> QED
      BY <1>3, <3>1, <3>2, <3>3
  <2>2. CASE i = b + 1 /\ r[i] = x
    <3>1. j \in (b + 2) .. (n + 1) /\ r[j] = s[j - 1]
      BY <1>1, <1>2, <1>3, <1>6, <2>2
    <3>2. j - 1 \in (b + 1) .. n
      BY <1>1, <1>2, <3>1
    <3> QED
      BY <2>2, <3>1, <3>2
  <2>3. CASE i \in (b + 2) .. (n + 1) /\ r[i] = s[i - 1]
    <3>1. j \in (b + 2) .. (n + 1) /\ r[j] = s[j - 1]
      BY <1>1, <1>2, <1>3, <1>6, <2>3
    <3>2. i - 1 \in 1 .. n /\ j - 1 \in 1 .. n /\ i - 1 < j - 1
      BY <1>1, <1>2, <1>6, <2>3, <3>1
    <3> QED
      BY <2>3, <3>1, <3>2
  <2> QED
    BY <1>3, <2>1, <2>2, <2>3
<1>7. r \in Lists
  <2>1. \A k, l \in 1 .. n : k < l => s[k] <= s[l]
    BY <1>1 DEF Lists, Rising
  <2>2. ASSUME NEW i \in 1 .. (n + 1), NEW j \in 1 .. (n + 1), i < j
        PROVE  r[i] <= r[j]
    <3>1. CASE i = b + 1 /\ \E k \in (b + 1) .. n : r[j] = s[k]
      BY <1>2, <1>4, <3>1
    <3>2. CASE j = b + 1 /\ \E k \in 1 .. b : r[i] = s[k]
      <4>1. PICK k \in 1 .. b : r[i] = s[k]
        BY <3>2
      <4>2. s[k] < x /\ s[k] \in Nat
        BY <1>1, <1>2
      <4> QED
        BY <1>4, <3>2, <4>1, <4>2
    <3>3. CASE \E k, l \in 1 .. n : k < l /\ r[i] = s[k] /\ r[j] = s[l]
      BY <2>1, <3>3
    <3> QED
      BY <1>6, <2>2, <3>1, <3>2, <3>3
  <2> QED
    BY <1>3, <2>2 DEF Lists, Rising
<1>8. ASSUME StrictlyRising(s), \A k \in DOMAIN s : s[k] # x
      PROVE  StrictlyRising(r)
  <2>1. \A k, l \in 1 .. n : k < l => s[k] < s[l]
    BY <1>1, <1>8 DEF StrictlyRising
  <2>2. ASSUME NEW i \in 1 .. (n + 1), NEW j \in 1 .. (n + 1), i < j
        PROVE  r[i] < r[j]
    <3>1. CASE i = b + 1 /\ \E k \in (b + 1) .. n : r[j] = s[k]
      <4>1. PICK k \in (b + 1) .. n : r[j] = s[k]
        BY <3>1
      <4>2. s[k] >= x /\ s[k] # x /\ s[k] \in Nat
        BY <1>1, <1>2, <1>8
      <4> QED
        BY <1>4, <3>1, <4>1, <4>2
    <3>2. CASE j = b + 1 /\ \E k \in 1 .. b : r[i] = s[k]
      BY <1>2, <1>4, <3>2
    <3>3. CASE \E k, l \in 1 .. n : k < l /\ r[i] = s[k] /\ r[j] = s[l]
      BY <2>1, <3>3
    <3> QED
      BY <1>6, <2>2, <3>1, <3>2, <3>3
  <2> QED
    BY <1>3, <2>2 DEF StrictlyRising
<1>9. /\ r \in Lists
      /\ Len(r) = Len(s) + 1 /\ DOMAIN r = 1 .. (Len(s) + 1)
      /\ b + 1 \in DOMAIN r /\ r[b + 1] = x
      /\ \A i \in DOMAIN r \ {b + 1} : \E k \in DOMAIN s : r[i] = s[k]
      /\ StrictlyRising(s) /\ (\A k \in DOMAIN s : s[k] # x)
           => StrictlyRising(r)
  <2>1. \A i \in DOMAIN r \ {b + 1} : \E k \in DOMAIN s : r[i] = s[k]
    <3>1. DOMAIN r = 1 .. (n + 1) /\ DOMAIN s = 1 .. n
      BY <1>1, <1>3
    <3> QED
      BY <1>5, <3>1, Zenon
  <2>2. /\ Len(r) = Len(s) + 1 /\ DOMAIN r = 1 .. (Len(s) + 1)
        /\ b + 1 \in DOMAIN r
    BY <1>3, <1>4 DEF n
  <2> QED
    BY <1>4, <1>7, <1>8, <2>1, <2>2
<1> QED
  BY <1>9, Zenon DEF r, b

(* The loop that sorts.                                                    *)
SortedUpTo(x, o) ==
  Turns(Len(o), <<>>, LAMBDA sorted, k :
    IF o[k] = x THEN sorted ELSE Paste(sorted, o[k]))

LEMMA SortedDef ==
  ASSUME NEW o \in Seq(Nat), NEW x \in Nat
  PROVE  /\ SortedUpTo(x, o)[0] = <<>>
         /\ \A i \in 1 .. Len(o) :
              SortedUpTo(x, o)[i] = IF o[i] = x THEN SortedUpTo(x, o)[i - 1]
                                    ELSE Paste(SortedUpTo(x, o)[i - 1], o[i])
         /\ SortedWithout(x, o) = SortedUpTo(x, o)[Len(o)]
<1> DEFINE n == Len(o)
           g == [i \in 1 .. n |->
                  [v \in Lists |-> IF o[i] = x THEN v ELSE Paste(v, o[i])]]
           f == SortedUpTo(x, o)
<1>1. n \in Nat /\ <<>> \in Lists /\ \A i \in 1 .. n : o[i] \in Nat
  BY DEF Lists, Rising
<1>2. ASSUME NEW i \in 1 .. n, NEW v \in Lists
      PROVE  Paste(v, o[i]) \in Lists
  BY <1>1, PasteIs, Zenon
<1>3. g \in [1 .. n -> [Lists -> Lists]]
  <2> HIDE DEF n
  <2> QED
    BY <1>2
<1>4. PICK h : IsLoop(h, n, Lists, <<>>, g)
  <2> HIDE DEF g, n
  <2> QED
    BY <1>1, <1>3, LoopExists, Zenon
<1>5. h = [i \in 0 .. n |-> IF i = 0 THEN <<>>
                            ELSE IF o[i] = x THEN h[i - 1]
                                             ELSE Paste(h[i - 1], o[i])]
  <2>1. h \in [0 .. n -> Lists] /\ h[0] = <<>>
    BY <1>4 DEF IsLoop
  <2>2. ASSUME NEW i \in 1 .. n
        PROVE  h[i] = IF o[i] = x THEN h[i - 1] ELSE Paste(h[i - 1], o[i])
    <3>1. h[i] = g[i][h[i - 1]]
      BY <1>4 DEF IsLoop
    <3>2. h[i - 1] \in Lists
      <4> HIDE DEF n
      <4> QED
        BY <2>1, <1>1
    <3> HIDE DEF n
    <3> QED
      BY <3>1, <3>2
  <2> HIDE DEF n, g
  <2>3. ASSUME NEW i \in 0 .. n
        PROVE  h[i] = IF i = 0 THEN <<>>
                      ELSE IF o[i] = x THEN h[i - 1]
                                       ELSE Paste(h[i - 1], o[i])
    <3>1. CASE i = 0
      BY <2>1, <3>1, Zenon
    <3>2. CASE i # 0
      <4>1. i \in 1 .. n
        BY <3>2, <1>1
      <4> QED
        BY <2>2, <3>2, <4>1, Zenon
    <3> QED
      BY <3>1, <3>2
  <2>4. h = [i \in 0 .. n |-> h[i]]
    BY <2>1, Zenon
  <2> QED
    BY <2>3, <2>4, Zenon
<1>6. f = [i \in 0 .. n |-> IF i = 0 THEN <<>>
                            ELSE IF o[i] = x THEN f[i - 1]
                                             ELSE Paste(f[i - 1], o[i])]
  BY <1>5, Zenon DEF SortedUpTo, Turns
<1>7. SortedWithout(x, o) = f[n]
  BY Zenon DEF SortedWithout, SortedUpTo
<1> HIDE DEF f, g, n
<1>8. 0 \in 0 .. n /\ \A i \in 1 .. n : i \in 0 .. n /\ i # 0
  BY <1>1
<1>9. ASSUME NEW i \in 0 .. n
      PROVE  f[i] = IF i = 0 THEN <<>>
                    ELSE IF o[i] = x THEN f[i - 1] ELSE Paste(f[i - 1], o[i])
  BY <1>6, Zenon
<1>10. f[0] = <<>>
  BY <1>8, <1>9, Zenon
<1>11. ASSUME NEW i \in 1 .. n
       PROVE  f[i] = IF o[i] = x THEN f[i - 1] ELSE Paste(f[i - 1], o[i])
  BY <1>8, <1>9, Zenon
<1> QED
  BY <1>7, <1>10, <1>11 DEF f, n

(* q lists the entries of o at the positions in K, in rising order.        *)
Different(o, K) == \A k, l \in K : o[k] = o[l] => k = l

Sorts(q, o, K) ==
  /\ q \in Lists
  /\ Len(q) = Cardinality(K)
  /\ \A i \in DOMAIN q : \E k \in K : q[i] = o[k]
  /\ Different(o, K) => StrictlyRising(q)

OthersUpTo(i, x, o) == {k \in 1 .. i : o[k] # x}

LEMMA SortedTurn ==
  ASSUME NEW o \in Seq(Nat), NEW x \in Nat, NEW i \in 1 .. Len(o), NEW q,
         Sorts(q, o, OthersUpTo(i - 1, x, o))
  PROVE  Sorts(IF o[i] = x THEN q ELSE Paste(q, o[i]), o, OthersUpTo(i, x, o))
<1> DEFINE J == OthersUpTo(i - 1, x, o)
           K == OthersUpTo(i, x, o)
<1>1. Len(o) \in Nat /\ i \in Nat /\ i - 1 \in Nat /\ o[i] \in Nat
  OBVIOUS
<1>2. CASE o[i] = x
  <2>1. K = J
    BY <1>1, <1>2 DEF OthersUpTo
  <2> QED
    BY <1>2, <2>1
<1>3. CASE o[i] # x
  <2> DEFINE r == Paste(q, o[i])
             b == Place(q, o[i])
  <2>1. K = J \cup {i} /\ i \notin J /\ J \subseteq 1 .. (i - 1)
    BY <1>1, <1>3 DEF OthersUpTo
  <2> HIDE DEF J, K
  <2>2. /\ q \in Lists /\ Len(q) = Cardinality(J)
        /\ \A m \in DOMAIN q : \E k \in J : q[m] = o[k]
        /\ Different(o, J) => StrictlyRising(q)
    BY DEF J, Sorts
  <2>3. /\ r \in Lists /\ Len(r) = Len(q) + 1
        /\ b + 1 \in DOMAIN r /\ r[b + 1] = o[i]
        /\ \A m \in DOMAIN r \ {b + 1} : \E k \in DOMAIN q : r[m] = q[k]
        /\ StrictlyRising(q) /\ (\A k \in DOMAIN q : q[k] # o[i])
             => StrictlyRising(r)
    BY <1>1, <2>2, PasteIs, Zenon
  <2> HIDE DEF r, b
  <2>4. Cardinality(K) = Cardinality(J) + 1
    <3>1. IsFiniteSet(J)
      BY <1>1, <2>1, FiniteBelow
    <3> QED
      BY <2>1, <3>1, FS_AddElement
  <2>5. \A m \in DOMAIN r : \E k \in K : r[m] = o[k]
    <3> TAKE m \in DOMAIN r
    <3>1. CASE m = b + 1
      BY <2>1, <2>3, <3>1
    <3>2. CASE m # b + 1
      <4>1. PICK k \in DOMAIN q : r[m] = q[k]
        BY <2>3, <3>2
      <4>2. PICK l \in J : q[k] = o[l]
        BY <2>2
      <4> QED
        BY <2>1, <4>1, <4>2
    <3> QED
      BY <3>1, <3>2
  <2>6. ASSUME Different(o, K) PROVE StrictlyRising(r)
    <3>1. Different(o, J)
      BY <2>1, <2>6 DEF Different
    <3>2. ASSUME NEW k \in DOMAIN q PROVE q[k] # o[i]
      <4>1. PICK l \in J : q[k] = o[l]
        BY <2>2
      <4>2. l \in K /\ i \in K /\ l # i
        BY <2>1
      <4> QED
        BY <2>6, <4>1, <4>2 DEF Different
    <3> QED
      BY <2>2, <2>3, <3>1, <3>2
  <2>7. Sorts(r, o, K)
    BY <2>2, <2>3, <2>4, <2>5, <2>6 DEF Sorts
  <2> QED
    BY <1>3, <2>7 DEF r, K
<1> QED
  BY <1>2, <1>3

LEMMA SortedIs ==
  ASSUME NEW o \in Seq(Nat), NEW x \in Nat
  PROVE  Sorts(SortedWithout(x, o), o, {k \in DOMAIN o : o[k] # x})
<1> DEFINE n == Len(o)
           f == SortedUpTo(x, o)
           S == {i \in 0 .. n : Sorts(f[i], o, OthersUpTo(i, x, o))}
<1>1. n \in Nat /\ DOMAIN o = 1 .. n
  OBVIOUS
<1>2. /\ f[0] = <<>>
      /\ \A i \in 1 .. n : f[i] = IF o[i] = x THEN f[i - 1]
                                  ELSE Paste(f[i - 1], o[i])
      /\ SortedWithout(x, o) = f[n]
  BY SortedDef
<1>3. 0 \in S
  <2>1. OthersUpTo(0, x, o) = {}
    BY DEF OthersUpTo
  <2>2. Cardinality({}) = 0
    BY FS_EmptySet
  <2>3. Sorts(<<>>, o, {})
    BY <2>2 DEF Sorts, Lists, Rising, StrictlyRising
  <2>4. f[0] = <<>>
    BY <1>2
  <2> HIDE DEF f
  <2>5. Sorts(f[0], o, OthersUpTo(0, x, o))
    BY <2>1, <2>3, <2>4, Zenon
  <2> QED
    BY <1>1, <2>5
<1>4. ASSUME NEW i \in 1 .. n, i - 1 \in S PROVE i \in S
  <2>1. Sorts(f[i - 1], o, OthersUpTo(i - 1, x, o))
    BY <1>4
  <2> HIDE DEF f
  <2>2. Sorts(IF o[i] = x THEN f[i - 1] ELSE Paste(f[i - 1], o[i]), o,
              OthersUpTo(i, x, o))
    BY <2>1, SortedTurn
  <2>3. Sorts(f[i], o, OthersUpTo(i, x, o))
    BY <1>2, <2>2, Zenon
  <2> QED
    BY <1>1, <2>3
<1>5. n \in S
  <2> HIDE DEF S, n
  <2>1. 0 .. n \subseteq S
    BY <1>1, <1>3, <1>4, BoundedInduction
  <2> QED
    BY <1>1, <2>1
<1>6. OthersUpTo(n, x, o) = {k \in DOMAIN o : o[k] # x}
  BY <1>1 DEF OthersUpTo
<1> QED
  BY <1>2, <1>5, <1>6

(* The first m entries.                                                    *)
LEMMA PrefixIs ==
  ASSUME NEW q \in Lists, NEW m \in 0 .. Len(q)
  PROVE  LET p == SubSeq(q, 1, m)
         IN  /\ p \in Lists /\ Len(p) = m /\ DOMAIN p = 1 .. m
             /\ \A i \in DOMAIN p : i \in DOMAIN q /\ p[i] = q[i]
             /\ StrictlyRising(q) => StrictlyRising(p)
<1> DEFINE p == SubSeq(q, 1, m)
<1>1. /\ m \in Nat /\ Len(q) \in Nat /\ m <= Len(q)
      /\ q \in Seq(Nat) /\ DOMAIN q = 1 .. Len(q)
  BY DEF Lists
<1>2. \A i \in 1 .. m : q[i] \in Nat /\ i \in 1 .. Len(q) /\ (1 + i) - 1 = i
  BY <1>1
<1>3. /\ p \in Seq(Nat) /\ Len(p) = m
      /\ \A i \in 1 .. m : p[i] = q[i]
  BY <1>1, <1>2, SubSeqProperties
<1> HIDE DEF p
<1>4. DOMAIN p = 1 .. m
  BY <1>3
<1>5. Rising(p)
  BY <1>1, <1>2, <1>3, <1>4 DEF Lists, Rising
<1>6. StrictlyRising(q) => StrictlyRising(p)
  BY <1>1, <1>2, <1>3, <1>4 DEF StrictlyRising
<1> QED
  BY <1>1, <1>2, <1>3, <1>4, <1>5, <1>6 DEF Lists, p

LEMMA SelectionsAre ==
  ASSUME NEW s \in Selections
  PROVE  /\ s \in Seq(Transfers)
         /\ DOMAIN s = 1 .. Len(s) /\ Len(s) \in Nat
         /\ \A i \in DOMAIN s : s[i].amount \in Nat /\ s[i].index \in Nat
         /\ SumOf(s) \in 0 .. (Word - 1)
<1>1. /\ IsFiniteSet(Transfers)
      /\ \A t \in Transfers : t.amount \in Nat /\ t.index \in Nat
  BY WalletTransferAssumption
<1>2. SumOf(s) < Word
  BY WalletTransferAssumption
<1>3. Cardinality(Transfers) \in Nat
  BY <1>1, FS_CardinalityType
<1>4. PICK n \in 0 .. Cardinality(Transfers) : s \in [1 .. n -> Transfers]
  BY DEF Selections
<1>5. n \in Nat
  BY <1>3
<1>6. s \in Seq(Transfers) /\ DOMAIN s = 1 .. Len(s) /\ Len(s) \in Nat
  BY <1>4, <1>5
<1>7. \A i \in DOMAIN s : s[i].amount \in Nat /\ s[i].index \in Nat
  BY <1>1, <1>4
<1>8. SumOf(s) \in Nat
  <2> DEFINE a == [i \in 1 .. Len(s) |-> s[i].amount]
  <2>1. a \in Numbers(Len(s)) /\ Len(s) \in Nat
    BY <1>6, <1>7 DEF Numbers
  <2>2. Total(a) \in Nat
    <3> HIDE DEF a
    <3> QED
      BY <2>1, TotalIsSums
  <2> QED
    BY <2>2 DEF SumOf
<1> QED
  BY <1>2, <1>6, <1>7, <1>8, WordIs

(* What the daemon's answers are, once there are some.                     *)
OutsType == outs = None \/ outs \in [DOMAIN selected -> Answers]

LEMMA OfferedIs ==
  ASSUME OutsType, NEW n \in DOMAIN selected
  PROVE  Offered(n) \in Seq(Nat)
<1>1. CASE outs = None
  BY <1>1 DEF Offered
<1>2. CASE outs # None
  <2>1. outs[n] \in Answers /\ Answers \subseteq Seq(Nat)
    BY <1>2, WalletTransferAssumption DEF OutsType
  <2> QED
    BY <1>2, <2>1 DEF Offered
<1> QED
  BY <1>1, <1>2

LEMMA MixedIs ==
  ASSUME call \in Call, selected \in Selections, OutsType,
         NEW n \in DOMAIN selected
  PROVE  /\ Mixed(n) \in Lists
         /\ \A i \in DOMAIN Mixed(n) :
              \E k \in Others(n) : Mixed(n)[i] = Offered(n)[k]
         /\ \A i \in DOMAIN Mixed(n) : Mixed(n)[i] # selected[n].index
         /\ Len(Mixed(n)) = IF Cardinality(Others(n)) < call.mixin
                            THEN Cardinality(Others(n)) ELSE call.mixin
         /\ Different(Offered(n), Others(n)) => StrictlyRising(Mixed(n))
<1> DEFINE x == selected[n].index
           o == Offered(n)
           K == Others(n)
           q == SortedWithout(x, o)
           m == IF Len(q) < call.mixin THEN Len(q) ELSE call.mixin
<1>1. o \in Seq(Nat) /\ x \in Nat /\ call.mixin \in Nat
  BY OfferedIs, SelectionsAre, CallIs
<1>2. Sorts(q, o, K)
  BY <1>1, SortedIs DEF Others
<1>3. Mixed(n) = SubSeq(q, 1, m)
  BY Zenon DEF Mixed
<1>4. \A k \in K : o[k] # x
  BY DEF Others
<1> HIDE DEF x, o, K, q
<1>5. /\ q \in Lists /\ Len(q) = Cardinality(K) /\ Len(q) \in Nat
      /\ \A i \in DOMAIN q : \E k \in K : q[i] = o[k]
      /\ Different(o, K) => StrictlyRising(q)
  BY <1>2 DEF Sorts, Lists
<1>6. m \in 0 .. Len(q)
  BY <1>1, <1>5
<1> HIDE DEF m
<1>7. /\ Mixed(n) \in Lists /\ Len(Mixed(n)) = m
      /\ \A i \in DOMAIN Mixed(n) : i \in DOMAIN q /\ Mixed(n)[i] = q[i]
      /\ StrictlyRising(q) => StrictlyRising(Mixed(n))
  <2> DEFINE p == SubSeq(q, 1, m)
  <2>1. /\ p \in Lists /\ Len(p) = m
        /\ \A i \in DOMAIN p : i \in DOMAIN q /\ p[i] = q[i]
        /\ StrictlyRising(q) => StrictlyRising(p)
    BY <1>5, <1>6, PrefixIs, Zenon
  <2>2. Mixed(n) = p
    BY <1>3
  <2> HIDE DEF p
  <2> QED
    BY <2>1, <2>2, Zenon
<1>8. \A i \in DOMAIN Mixed(n) :
        \E k \in K : Mixed(n)[i] = o[k] /\ Mixed(n)[i] # x
  BY <1>4, <1>5, <1>7
<1>9. Len(Mixed(n)) = IF Cardinality(K) < call.mixin THEN Cardinality(K)
                                                     ELSE call.mixin
  BY <1>5, <1>7 DEF m
<1> QED
  BY <1>5, <1>7, <1>8, <1>9 DEF x, o, K

(* One ring: the own output among those that are mixed.                    *)
LEMMA SourceIs ==
  ASSUME call \in Call, selected \in Selections, OutsType,
         NEW n \in DOMAIN selected
  PROVE  /\ Source(n).amount = selected[n].amount
         /\ RingWellFormed(n, Source(n))
<1> DEFINE x == selected[n].index
           s == Mixed(n)
           b == Place(s, x)
           r == Paste(s, x)
           c == Cardinality(Others(n))
<1>1. /\ s \in Lists
      /\ \A i \in DOMAIN s : \E k \in Others(n) : s[i] = Offered(n)[k]
      /\ \A i \in DOMAIN s : s[i] # x
      /\ Len(s) = IF c < call.mixin THEN c ELSE call.mixin
      /\ Different(Offered(n), Others(n)) => StrictlyRising(s)
  BY MixedIs
<1>2. x \in Nat /\ call.mixin \in Nat
  BY SelectionsAre, CallIs
<1>3. Source(n) = [amount |-> selected[n].amount, index |-> x,
                   outputs |-> r, real |-> b]
  BY Zenon DEF Source
<1> HIDE DEF x, s, c
<1>4. /\ r \in Lists
      /\ Len(r) = Len(s) + 1 /\ DOMAIN r = 1 .. (Len(s) + 1)
      /\ b + 1 \in DOMAIN r /\ r[b + 1] = x
      /\ \A i \in DOMAIN r \ {b + 1} : \E k \in DOMAIN s : r[i] = s[k]
      /\ StrictlyRising(s) /\ (\A k \in DOMAIN s : s[k] # x)
           => StrictlyRising(r)
  BY <1>1, <1>2, PasteIs, Zenon
<1> HIDE DEF r, b
<1>5. /\ Source(n).amount = selected[n].amount
      /\ Source(n).outputs = r /\ Source(n).real = b
  BY <1>3
<1>6. Rising(r) /\ Len(s) \in Nat
  BY <1>1, <1>4 DEF Lists
<1>7. \A i \in DOMAIN r : r[i] = x <=> i = b + 1
  BY <1>1, <1>4
<1>8. \A i \in DOMAIN r \ {b + 1} :
        \E k \in Others(n) : r[i] = Offered(n)[k]
  BY <1>1, <1>4
<1>9. Len(r) = 1 + (IF c < call.mixin THEN c ELSE call.mixin)
  BY <1>1, <1>4, <1>6
<1>10. Different(Offered(n), Others(n)) => StrictlyRising(r)
  BY <1>1, <1>4
<1>11. RingWellFormed(n, Source(n))
  BY <1>4, <1>5, <1>6, <1>7, <1>8, <1>9, <1>10
  DEF RingWellFormed, Different, x, c
<1> QED
  BY <1>5, <1>11
-----------------------------------------------------------------------------
(* What is paid.                                                           *)

(* The dust, sent to whom the policy names.                                *)
SentTo(p, dust) ==
  [i \in 1 .. Len(dust) |-> [amount |-> dust[i].amount, addr |-> p]]

LEMMA SentToWorth ==
  ASSUME NEW b \in Addresses, NEW p \in Addresses,
         NEW dust \in Seq([addr: {b}, amount: Nat])
  PROVE  /\ SentTo(p, dust) \in Seq([addr: {p}, amount: Nat])
         /\ Worth(Amounts, SentTo(p, dust)) = Worth(Amounts, dust)
<1> DEFINE t == SentTo(p, dust)
           n == Len(dust)
<1>1. n \in Nat /\ \A i \in 1 .. n : dust[i] \in [addr: {b}, amount: Nat]
  <2>1. \A i \in 1 .. n : dust[i] \in [addr: {b}, amount: Nat]
    BY ElementOfSeq
  <2>2. n \in Nat
    OBVIOUS
  <2> QED
    BY <2>1, <2>2
<1>2. \A i \in 1 .. n : dust[i].amount \in Nat
  BY <1>1
<1>3. /\ \A i \in 1 .. n : t[i] = [amount |-> dust[i].amount, addr |-> p]
      /\ DOMAIN t = 1 .. n
  BY DEF SentTo
<1>4. t \in Seq([addr: {p}, amount: Nat]) /\ Len(t) = n
  BY <1>1, <1>2 DEF SentTo
<1>5. dust \in Seq(Entry) /\ t \in Seq(Entry)
  BY <1>4, PaidToOne
<1> HIDE DEF t, n
<1>6. ASSUME NEW i \in 1 .. n PROVE Amounts[t[i]] = Amounts[dust[i]]
  <2>1. dust[i] \in Entry /\ t[i] \in Entry
    BY <1>4, <1>5 DEF n
  <2>2. t[i].amount = dust[i].amount
    BY <1>3
  <2> QED
    BY <2>1, <2>2 DEF Amounts
<1>7. Weighed(Amounts, t) = Weighed(Amounts, dust)
  <2>1. Len(t) = n /\ Len(dust) = n
    BY <1>4 DEF n
  <2> QED
    BY <1>6, <2>1, Zenon DEF Weighed
<1> QED
  BY <1>4, <1>7 DEF Worth, t

Outputs(split) ==
  split.splitted
    \o (IF call.policy.toFee THEN <<>>
                             ELSE SentTo(call.policy.address, split.dust))

(* All of it is accounted for, and everybody gets what is theirs.          *)
LEMMA OutputsWorth ==
  ASSUME Ready, found_money >= needed_money,
         needed_money = call.fee + SumOf(call.dsts),
         NEW split, SplitIsWorth(split)
  PROVE  LET dust == SumOf(split.dust) % Word
         IN  /\ SumOf(Outputs(split)) + PaidFee(dust) = found_money
             /\ \A a \in Addresses : a = Own \/ a # call.policy.address =>
                  PaidTo(a, Outputs(split)) =
                    PaidTo(a, call.dsts)
                      + (IF a = Own THEN ChangeLeft(dust) ELSE 0)
<1> DEFINE dsts == call.dsts
           fee == call.fee
           toFee == call.policy.toFee
           p == call.policy.address
           b == Change.addr
           c == Change.amount
           s == split.splitted
           d == split.dust
           t == SentTo(p, d)
           last == IF toFee THEN <<>> ELSE t
           D == Worth(Amounts, d)
           dust == SumOf(d) % Word
<1>1. /\ dsts \in Seq(Sent) /\ dsts \in Seq(Entry) /\ fee \in 0 .. (Word - 1)
      /\ toFee \in BOOLEAN /\ p \in Addresses
  BY CallIs, SentAreEntries DEF Ready
<1>2. /\ Change \in Sent /\ Change \in Entry
      /\ found_money = needed_money + c
      /\ b = Own \/ (b = Nobody /\ c = 0)
      /\ Own # Nobody
  BY ChangeIs, SentAreEntries
<1>3. b \in Addresses /\ c \in Nat /\ found_money \in 0 .. (Word - 1)
  BY <1>2 DEF Entry, Ready
<1>4. /\ s \in Seq(Entry)
      /\ d \in Seq([addr: {b}, amount: Nat])
      /\ D <= c
      /\ \A w \in Kinds : Worth(w, s) + Worth(w, d) = Worth(w, dsts) + w[Change]
  BY DEF SplitIsWorth
<1>5. /\ d \in Seq(Entry)
      /\ \A a : /\ a = b => Worth(AmountsTo(a), d) = D
                /\ a # b => Worth(AmountsTo(a), d) = 0
  <2> HIDE DEF b, c, d
  <2>1. b \in Addresses /\ d \in Seq([addr: {b}, amount: Nat])
    BY <1>3, <1>4
  <2> QED
    BY <2>1, PaidToOne
<1>6. /\ t \in Seq([addr: {p}, amount: Nat]) /\ Worth(Amounts, t) = D
  BY <1>1, <1>3, <1>4, SentToWorth
<1>7. /\ t \in Seq(Entry)
      /\ \A a : /\ a = p => Worth(AmountsTo(a), t) = D
                /\ a # p => Worth(AmountsTo(a), t) = 0
  BY <1>1, <1>6, PaidToOne
<1>8. Outputs(split) = s \o last
  BY Zenon DEF Outputs
<1>9. last \in Seq(Entry) /\ <<>> \in Seq(Entry)
  BY <1>7
<1>10. Kinds \subseteq Weights /\ Amounts \in Kinds
       /\ \A a \in Addresses : AmountsTo(a) \in Kinds
  BY SentAreEntries DEF Kinds
<1>11. s \o last \in Seq(Entry)
  BY <1>4, <1>9
<1>12. Amounts[Change] = c
       /\ \A a : AmountsTo(a)[Change] = IF b = a THEN c ELSE 0
  BY <1>2 DEF Amounts, AmountsTo
<1> HIDE DEF s, d, t, dsts, fee, toFee, p, b, c
<1>13. \A w \in Kinds :
         /\ Worth(w, s \o last) = Worth(w, s) + (IF toFee THEN 0 ELSE Worth(w, t))
         /\ Worth(w, s) \in Nat /\ Worth(w, d) \in Nat
         /\ Worth(w, t) \in Nat /\ Worth(w, dsts) \in Nat
  <2> TAKE w \in Kinds
  <2>1. w \in Weights
    BY <1>10
  <2>2. /\ Worth(w, s) \in Nat /\ Worth(w, d) \in Nat
        /\ Worth(w, t) \in Nat /\ Worth(w, dsts) \in Nat
    BY <1>1, <1>4, <1>5, <1>7, <2>1, WorthType
  <2>3. Worth(w, s \o last) = Worth(w, s) + Worth(w, last)
    BY <1>4, <1>9, <2>1, WorthConcat
  <2>4. Worth(w, <<>>) = 0
    BY <2>1, WorthEmpty
  <2> QED
    BY <2>2, <2>3, <2>4
<1> HIDE DEF last
<1>14. D \in Nat /\ dust = D
  <2>1. SumOf(d) = D
    BY <1>5, SumIsWorth
  <2>2. D \in Nat
    BY <1>10, <1>13
  <2>3. D < Word
    <3>1. c < Word
      BY <1>2, WordIs DEF Sent, c
    <3> QED
      BY <1>3, <1>4, <2>2, <3>1, WordIs
  <2> QED
    BY <2>1, <2>2, <2>3, SmallMod
<1>15. SumOf(Outputs(split)) = Worth(Amounts, s \o last)
  BY <1>8, <1>11, SumIsWorth
<1>16. needed_money = fee + Worth(Amounts, dsts)
  <2>1. SumOf(dsts) = Worth(Amounts, dsts)
    BY <1>1, SumIsWorth
  <2> QED
    BY <2>1 DEF fee, dsts
<1>17. PaidFee(dust) = IF toFee THEN (fee + D) % Word ELSE fee
  BY <1>14, Zenon DEF PaidFee, fee, toFee
<1>18. ChangeLeft(dust) = IF toFee \/ p # b THEN c - D ELSE c
  BY <1>14, Zenon DEF ChangeLeft, toFee, p, b, c
<1> HIDE DEF D, dust
<1>19. SumOf(Outputs(split)) + PaidFee(dust) = found_money
  <2> DEFINE ws == Worth(Amounts, s)
             wd == Worth(Amounts, dsts)
  <2>1. /\ ws \in Nat /\ wd \in Nat /\ ws + D = wd + c /\ Worth(Amounts, t) = D
        /\ Worth(Amounts, s \o last) = ws + (IF toFee THEN 0 ELSE D)
    BY <1>4, <1>6, <1>10, <1>12, <1>13 DEF D
  <2>2. found_money = fee + wd + c /\ fee \in Nat /\ found_money < Word
    BY <1>1, <1>2, <1>3, <1>16, WordIs
  <2>3. fee + D \in Nat /\ fee + D < Word
    BY <1>3, <1>4, <1>14, <2>1, <2>2, WordIs, SMTT(20) DEF D
  <2> HIDE DEF ws, wd
  <2>4. CASE toFee
    <3>1. PaidFee(dust) = fee + D
      BY <1>17, <2>3, <2>4, SmallMod
    <3> QED
      BY <1>14, <1>15, <1>3, <2>1, <2>2, <2>4, <3>1
  <2>5. CASE ~toFee
    <3>1. PaidFee(dust) = fee
      BY <1>17, <2>5
    <3> QED
      BY <1>14, <1>15, <1>3, <2>1, <2>2, <2>5, <3>1
  <2> QED
    BY <2>4, <2>5
<1>20. ASSUME NEW a \in Addresses, a = Own \/ a # p
       PROVE  PaidTo(a, Outputs(split)) =
                PaidTo(a, dsts) + (IF a = Own THEN ChangeLeft(dust) ELSE 0)
  <2> DEFINE w == AmountsTo(a)
             ws == Worth(w, s)
             wd == Worth(w, d)
             wt == Worth(w, t)
             wp == Worth(w, dsts)
  <2>1. PaidTo(a, Outputs(split)) = Worth(w, s \o last) /\ PaidTo(a, dsts) = wp
    BY <1>1, <1>8, <1>11, PaidIsWorth
  <2>2. /\ Worth(w, s \o last) = ws + (IF toFee THEN 0 ELSE wt)
        /\ ws \in Nat /\ wd \in Nat /\ wt \in Nat /\ wp \in Nat
        /\ ws + wd = wp + (IF b = a THEN c ELSE 0)
    BY <1>4, <1>10, <1>12, <1>13
  <2>3. /\ a = b => wd = D
        /\ a # b => wd = 0
        /\ a = p => wt = D
        /\ a # p => wt = 0
    BY <1>5, <1>7 DEF D
  <2>4. D <= c
    BY <1>4 DEF D
  <2> HIDE DEF ws, wd, wt, wp, w
  <2>5. CASE a # Own
    <3>1. a # p
      BY <1>20, <2>5
    <3>2. wt = 0
      BY <2>3, <3>1
    <3>3. wd = (IF b = a THEN c ELSE 0)
      BY <1>2, <1>3, <1>14, <2>3, <2>4, <2>5
    <3> QED
      BY <2>1, <2>2, <2>5, <3>2, <3>3, <1>3
  <2>6. CASE a = Own /\ b = Own
    <3>1. wd = D /\ ws + D = wp + c
      BY <2>2, <2>3, <2>6
    <3>2. CASE toFee
      BY <1>3, <1>14, <1>18, <2>1, <2>2, <2>4, <2>6, <3>1, <3>2
    <3>3. CASE ~toFee /\ p # Own
      <4>1. wt = 0
        BY <2>3, <2>6, <3>3
      <4> QED
        BY <1>3, <1>14, <1>18, <2>1, <2>2, <2>4, <2>6, <3>1, <3>3, <4>1
    <3>4. CASE ~toFee /\ p = Own
      <4>1. wt = D
        BY <2>3, <2>6, <3>4
      <4> QED
        BY <1>3, <1>14, <1>18, <2>1, <2>2, <2>4, <2>6, <3>1, <3>4, <4>1
    <3> QED
      BY <3>2, <3>3, <3>4
  <2>7. CASE a = Own /\ b # Own
    <3>1. c = 0 /\ D = 0 /\ a # b
      BY <1>2, <1>3, <1>14, <2>4, <2>7
    <3>2. wd = 0 /\ wt = 0
      BY <2>3, <3>1
    <3>3. ChangeLeft(dust) = 0
      BY <1>18, <3>1
    <3> QED
      BY <2>1, <2>2, <2>7, <3>1, <3>2, <3>3
  <2> QED
    BY <2>5, <2>6, <2>7
<1> QED
  BY <1>19, <1>20 DEF dust, d, dsts, p
-----------------------------------------------------------------------------
(* The invariant.  The phases in which a sum is known: what is needed does *)
(* not wrap once it is summed, what is selected covers it, and the daemon  *)
(* answers only for what is selected.                                      *)

MoneyNeeded ==
  phase \in {"summed", "selected", "mixed", "done"} =>
    needed_money = call.fee + SumOf(call.dsts)

MoneyFound ==
  phase \in {"selected", "mixed", "done"} =>
    found_money = SumOf(selected) /\ found_money >= needed_money

OutsInTime == phase \in {"summed", "selected"} => outs = None

Results == Balanced /\ PaidAsAsked /\ Covered /\ RingsWellFormed

TransferInv == TypeOK /\ MoneyNeeded /\ MoneyFound /\ OutsInTime /\ Results

LEMMA NotDoneYet == phase # "done" => Results
  BY DEF Results, Balanced, PaidAsAsked, Covered, RingsWellFormed, Done

LEMMA InitTransfer == Init => TransferInv
<1> SUFFICES ASSUME Init PROVE TransferInv
  OBVIOUS
<1> DEFINE need == Needed(call.dsts, call.fee)
<1>1. /\ call \in Call
      /\ phase = IF need.error = "none" THEN "summed" ELSE need.error
      /\ needed_money = need.sum
      /\ selected = <<>> /\ found_money = 0 /\ outs = None
  BY DEF Init
<1>2. call.dsts \in Seq(Sent) /\ call.fee \in 0 .. (Word - 1)
      /\ call.dsts \in Seq(Entry)
  BY <1>1, CallIs, SentAreEntries
<1>3. /\ need \in Needs
      /\ need.error = "none" => need.sum = call.fee + SumOf(call.dsts)
  BY <1>2, NeededIs, SumIsWorth
<1> HIDE DEF need
<1>4. need.sum \in 0 .. (Word - 1) /\ need.error \in NeedErrors
  BY <1>3 DEF Needs
<1>5. phase \in {"summed", "zero_destination", "tx_sum_overflow"}
  BY <1>1, <1>4 DEF NeedErrors
<1>6. <<>> \in Selections
  <2>1. Cardinality(Transfers) \in Nat
    BY WalletTransferAssumption, FS_CardinalityType
  <2>2. 0 \in 0 .. Cardinality(Transfers) /\ <<>> \in [1 .. 0 -> Transfers]
    BY <2>1
  <2>3. \A i, j \in DOMAIN <<>> : <<>>[i] = <<>>[j] => i = j
    OBVIOUS
  <2> QED
    BY <2>2, <2>3 DEF Selections
<1>7. 0 \in 0 .. (Word - 1)
  BY WordIs
<1>8. TypeOK
  BY <1>1, <1>4, <1>5, <1>6, <1>7 DEF TypeOK, Exceptions
<1>9. MoneyNeeded
  BY <1>1, <1>3, <1>4, <1>5 DEF MoneyNeeded, NeedErrors
<1>10. MoneyFound /\ OutsInTime
  BY <1>1, <1>5 DEF MoneyFound, OutsInTime
<1>11. Results
  BY <1>5, NotDoneYet
<1> QED
  BY <1>8, <1>9, <1>10, <1>11 DEF TransferInv

LEMMA NotDoneNext == phase' # "done" => Results'
  BY DEF Results, Balanced, PaidAsAsked, Covered, RingsWellFormed, Done

LEMMA SelectTransfersInv == TransferInv /\ select_transfers => TransferInv'
<1> SUFFICES ASSUME TransferInv, select_transfers PROVE TransferInv'
  OBVIOUS
<1>1. /\ phase = "summed" /\ selected' \in Selections
      /\ found_money' = SumOf(selected')
      /\ phase' = IF found_money' < needed_money THEN "not_enough_money"
                                                 ELSE "selected"
      /\ UNCHANGED <<call, needed_money, outs, ptx>>
  BY DEF select_transfers
<1>2. call \in Call /\ needed_money \in 0 .. (Word - 1)
  BY DEF TransferInv, TypeOK
<1>3. outs = None /\ needed_money = call.fee + SumOf(call.dsts)
  BY <1>1 DEF TransferInv, OutsInTime, MoneyNeeded
<1>4. found_money' \in 0 .. (Word - 1)
  BY <1>1, SelectionsAre
<1>5. phase' = "selected" => found_money' >= needed_money
  BY <1>1, <1>2, <1>4, WordIs
<1>6. phase' \in {"selected", "not_enough_money"}
  BY <1>1
<1>7. TypeOK'
  BY <1>1, <1>2, <1>3, <1>4, <1>6 DEF TypeOK, Exceptions
<1>8. MoneyNeeded' /\ MoneyFound' /\ OutsInTime'
  BY <1>1, <1>3, <1>5, <1>6 DEF MoneyNeeded, MoneyFound, OutsInTime
<1>9. Results'
  BY <1>6, NotDoneNext
<1> QED
  BY <1>7, <1>8, <1>9 DEF TransferInv

LEMMA GetrandomOutsInv == TransferInv /\ getrandom_outs => TransferInv'
<1> SUFFICES ASSUME TransferInv, getrandom_outs PROVE TransferInv'
  OBVIOUS
<1>1. phase = "selected"
      /\ UNCHANGED <<call, needed_money, selected, found_money, ptx>>
  BY DEF getrandom_outs
<1>2. TypeOK /\ outs = None /\ needed_money = call.fee + SumOf(call.dsts)
      /\ found_money = SumOf(selected) /\ found_money >= needed_money
  BY <1>1 DEF TransferInv, OutsInTime, MoneyNeeded, MoneyFound
<1>3. /\ phase' \in {"mixed"} \cup Exceptions
      /\ outs' = None \/ outs' \in [DOMAIN selected -> Answers]
  <2>1. CASE phase' = "mixed" /\ UNCHANGED outs
    BY <1>2, <2>1
  <2>2. CASE /\ phase' \in {"wallet_internal_error", "no_connection_to_daemon",
                           "daemon_busy", "get_random_outs_error"}
             /\ UNCHANGED outs
    BY <1>2, <2>2 DEF Exceptions
  <2>3. CASE /\ outs' \in [DOMAIN selected -> Answers]
             /\ phase' \in {"mixed", "not_enough_outs_to_mix"}
    BY <2>3 DEF Exceptions
  <2> QED
    BY <2>1, <2>2, <2>3 DEF getrandom_outs
<1>4. TypeOK'
  BY <1>1, <1>2, <1>3 DEF TypeOK
<1>5. MoneyNeeded' /\ MoneyFound' /\ OutsInTime'
  BY <1>1, <1>2, <1>3 DEF MoneyNeeded, MoneyFound, OutsInTime, Exceptions
<1>6. Results'
  BY <1>3, NotDoneNext DEF Exceptions
<1> QED
  BY <1>4, <1>5, <1>6 DEF TransferInv

Sources == [i \in 1 .. Len(selected) |-> Source(i)]

LEMMA ConstructTxInv == TransferInv /\ construct_tx => TransferInv'
<1> SUFFICES ASSUME TransferInv, construct_tx PROVE TransferInv'
  OBVIOUS
<1> DEFINE split == destination_split_strategy
           dust == SumOf(split.dust) % Word
<1>1. phase = "mixed"
      /\ UNCHANGED <<call, needed_money, selected, found_money, outs>>
  BY DEF construct_tx
<1>2. /\ TypeOK /\ OutsType /\ needed_money = call.fee + SumOf(call.dsts)
      /\ found_money = SumOf(selected) /\ found_money >= needed_money
  BY <1>1 DEF TransferInv, TypeOK, OutsType, MoneyNeeded, MoneyFound
<1>3. Ready /\ call \in Call /\ selected \in Selections
  BY <1>2 DEF Ready, TypeOK
<1>4. \/ phase' \in Exceptions /\ UNCHANGED ptx
      \/ phase' = "done" /\ ptx' = [sources |-> Sources,
                                    outputs |-> Outputs(split),
                                    fee     |-> PaidFee(dust),
                                    change  |-> ChangeLeft(dust)]
  <2>1. \/ phase' = "wallet_internal_error" /\ UNCHANGED ptx
        \/ phase' \in {"tx_not_constructed", "tx_too_big", "unexpected_txin_type"}
           /\ UNCHANGED ptx
        \/ phase' = "done" /\ ptx' = [sources |-> Sources,
                                      outputs |-> Outputs(split),
                                      fee     |-> PaidFee(dust),
                                      change  |-> ChangeLeft(dust)]
    BY Zenon DEF construct_tx, Sources, Outputs, SentTo
  <2> QED
    BY <2>1 DEF Exceptions
<1>5. TypeOK'
  BY <1>1, <1>2, <1>4 DEF TypeOK
<1>6. MoneyNeeded' /\ MoneyFound' /\ OutsInTime'
  BY <1>1, <1>2, <1>4 DEF MoneyNeeded, MoneyFound, OutsInTime, Exceptions
<1>7. CASE phase' \in Exceptions
  <2>1. phase' # "done"
    BY <1>7 DEF Exceptions
  <2> QED
    BY <1>5, <1>6, <2>1, NotDoneNext DEF TransferInv
<1>8. CASE ptx' = [sources |-> Sources, outputs |-> Outputs(split),
                   fee |-> PaidFee(dust), change |-> ChangeLeft(dust)]
  <2>1. SplitIsWorth(split)
    BY <1>3, DigitSplitWorth, NullSplitWorth DEF destination_split_strategy
  <2> HIDE DEF split
  <2>2. /\ SumOf(Outputs(split)) + PaidFee(dust) = found_money
        /\ \A a \in Addresses : a = Own \/ a # call.policy.address =>
             PaidTo(a, Outputs(split)) =
               PaidTo(a, call.dsts) + (IF a = Own THEN ChangeLeft(dust) ELSE 0)
    BY <1>2, <1>3, <2>1, OutputsWorth
  <2> HIDE DEF dust
  <2>3. /\ ptx'.sources = Sources /\ ptx'.outputs = Outputs(split)
        /\ ptx'.fee = PaidFee(dust) /\ ptx'.change = ChangeLeft(dust)
    BY <1>8
  <2>4. /\ DOMAIN selected = 1 .. Len(selected) /\ Len(selected) \in Nat
        /\ DOMAIN Sources = 1 .. Len(selected) /\ Len(Sources) = Len(selected)
        /\ \A i \in 1 .. Len(selected) : Sources[i] = Source(i)
    BY <1>3, SelectionsAre DEF Sources
  <2>5. SumOf(Sources) = SumOf(selected)
    <3>1. \A i \in 1 .. Len(selected) : Sources[i].amount = selected[i].amount
      BY <1>2, <1>3, <2>4, SourceIs
    <3>2. [i \in 1 .. Len(Sources) |-> Sources[i].amount]
            = [i \in 1 .. Len(selected) |-> selected[i].amount]
      BY <2>4, <3>1
    <3> QED
      BY <3>2, Zenon DEF SumOf
  <2>6. Balanced'
    BY <1>2, <2>2, <2>3, <2>5 DEF Balanced
  <2>7. PaidAsAsked'
    <3>1. {call.dsts[i].addr : i \in DOMAIN call.dsts} \cup {Own}
            \subseteq Addresses
      <4>1. \A i \in DOMAIN call.dsts : call.dsts[i] \in Sent
        BY <1>3, CallIs
      <4>2. Own \in Addresses
        BY WalletTransferAssumption
      <4> QED
        BY <4>1, <4>2 DEF Sent
    <3> QED
      BY <1>1, <2>2, <2>3, <3>1 DEF PaidAsAsked
  <2>8. Covered'
    <3>1. call.fee \in Nat /\ SumOf(call.dsts) \in Nat
      <4>1. call.dsts \in Seq(Entry)
        BY <1>3, CallIs, SentAreEntries
      <4>2. SumOf(call.dsts) \in Nat
        BY <4>1, SumIsWorth, WeightsAre, WorthType
      <4> QED
        BY <1>3, <4>2, CallIs, WordIs
    <3>2. SumOf(Sources) >= SumOf(call.dsts) + call.fee
      BY <1>2, <1>3, <2>5, <3>1 DEF Ready
    <3> QED
      BY <1>1, <2>3, <3>2 DEF Covered
  <2>9. RingsWellFormed'
    <3>1. \A n \in DOMAIN Sources : RingWellFormed(n, Sources[n])
      BY <1>2, <1>3, <2>4, SourceIs
    <3>2. \A n, source : RingWellFormed(n, source)' <=> RingWellFormed(n, source')
      BY <1>1 DEF RingWellFormed, Others, Offered
    <3> QED
      BY <2>3, <3>1, <3>2 DEF RingsWellFormed
  <2> QED
    BY <1>5, <1>6, <2>6, <2>7, <2>8, <2>9 DEF TransferInv, Results
<1> QED
  BY <1>4, <1>7, <1>8

LEMMA StutterInv == TransferInv /\ UNCHANGED vars => TransferInv'
<1> SUFFICES ASSUME TransferInv, UNCHANGED vars PROVE TransferInv'
  OBVIOUS
<1> USE DEF vars
<1>1. TypeOK'
  BY DEF TransferInv, TypeOK
<1>2. MoneyNeeded' /\ MoneyFound'
  BY DEF TransferInv, MoneyNeeded, MoneyFound
<1>3. OutsInTime'
  BY DEF TransferInv, OutsInTime
<1>4. Balanced' /\ PaidAsAsked' /\ Covered'
  BY DEF TransferInv, Results, Balanced, PaidAsAsked, Covered, Done
<1>5. RingsWellFormed'
  <2>1. \A n, source : RingWellFormed(n, source)' <=> RingWellFormed(n, source')
    BY DEF RingWellFormed, Others, Offered
  <2> QED
    BY <2>1 DEF TransferInv, Results, RingsWellFormed, Done
<1> QED
  BY <1>1, <1>2, <1>3, <1>4, <1>5 DEF TransferInv, Results

THEOREM TransferInvariant == Spec => []TransferInv
<1>1. TransferInv /\ [Next]_vars => TransferInv'
  BY SelectTransfersInv, GetrandomOutsInv, ConstructTxInv, StutterInv DEF Next
<1> QED
  BY <1>1, InitTransfer, PTL DEF Spec

(* A call of transfer is always in one of its phases, with the amounts it  *)
(* compares inside a uint64_t and outputs selected at most once.           *)
THEOREM TransferTypeCorrect == Spec => []TypeOK
<1>1. TransferInv => TypeOK
  BY DEF TransferInv
<1> QED
  BY <1>1, TransferInvariant, PTL

(* Whatever the amounts, the strategy, the threshold and the policy of the *)
(* dust: the inputs are the outputs and the fee the user is shown.         *)
THEOREM MoneyIsConserved == Spec => []Balanced
<1>1. TransferInv => Balanced
  BY DEF TransferInv, Results
<1> QED
  BY <1>1, TransferInvariant, PTL

(* Every recipient is paid what was asked for, and the wallet gets back    *)
(* the change it is told of.                                               *)
THEOREM RecipientsArePaid == Spec => []PaidAsAsked
<1>1. TransferInv => PaidAsAsked
  BY DEF TransferInv, Results
<1> QED
  BY <1>1, TransferInvariant, PTL

(* A sum that does not fit in a uint64_t is never taken for a small one.   *)
THEOREM InputsCover == Spec => []Covered
<1>1. TransferInv => Covered
  BY DEF TransferInv, Results
<1> QED
  BY <1>1, TransferInvariant, PTL

(* Whatever lists the daemon answers, repeated outputs included: each ring *)
(* is in rising order with the wallet's own output once, where real_output *)
(* says, as full as the answer allows, and names no output twice that the  *)
(* answer does not repeat.                                                 *)
THEOREM RingsAreOrdered == Spec => []RingsWellFormed
<1>1. TransferInv => RingsWellFormed
  BY DEF TransferInv, Results
<1> QED
  BY <1>1, TransferInvariant, PTL
=============================================================================
