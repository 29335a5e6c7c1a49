--------------------------- MODULE PaperBrokerProofs ---------------------------
(***************************************************************************)
(* What the paper broker's books say for every market, wallet, quantity    *)
(* and price: positions and lots are level, no cost appears or is lost, a  *)
(* result is kept, and the gates hold where they are asked.  All of it is  *)
(* about sums over orders, lots and positions of any number, so induction  *)
(* comes first, then totals, then the parts of the broker, then its        *)
(* operations.                                                             *)
(***************************************************************************)
EXTENDS PaperBroker, FiniteSetTheorems, TLAPS

-----------------------------------------------------------------------------
(* Induction and recursion.  The library's principles take a predicate as a *)
(* parameter; here the predicate is the set of the numbers it holds of, and *)
(* the principle follows from the order of the naturals being well founded. *)

NatOrder == {ij \in Nat \X Nat : ij[1] < ij[2]}

\* A set that holds 0 and every successor of its members holds every natural.
LEMMA Induction ==
    ASSUME NEW S, 0 \in S, \A n \in Nat : n \in S => n + 1 \in S
    PROVE  Nat \subseteq S
<1>1. IsWellFoundedOn(NatOrder, Nat)
  BY NatLessThanWellFounded DEF OpToRel, NatOrder
<1>2. SUFFICES ASSUME ~(Nat \subseteq S) PROVE FALSE
  OBVIOUS
<1> DEFINE rest == Nat \ S
<1>3. rest \subseteq Nat /\ rest # {}
  BY <1>2
<1>4. \E x \in rest : \A y \in rest : ~(<<y, x>> \in NatOrder)
  <2> HIDE DEF rest
  <2> QED
    BY <1>1, <1>3, WFMin
<1>5. PICK x \in rest : \A y \in rest : ~(<<y, x>> \in NatOrder)
  BY <1>4
<1>6. x - 1 \in Nat /\ <<x - 1, x>> \in NatOrder
  BY DEF NatOrder
<1>7. x - 1 \in S
  BY <1>5, <1>6
<1> QED
  BY <1>6, <1>7

\* A recursion over 0..n that starts at a0 and goes on by step.
Solvable(A, a0, step, n) ==
    \E f \in [0..n -> A] : /\ f[0] = a0
                           /\ \A i \in 1..n : f[i] = step[<<f[i - 1], i>>]

\* A recursion over 0..n has a solution.
LEMMA Recursion ==
    ASSUME NEW A, NEW a0 \in A, NEW step \in [A \X Nat -> A], NEW n \in Nat
    PROVE  Solvable(A, a0, step, n)
<1> DEFINE S == {m \in Nat : Solvable(A, a0, step, m)}
<1>1. 0 \in S
  <2> DEFINE f == [i \in 0..0 |-> a0]
  <2>1. f \in [0..0 -> A] /\ f[0] = a0 /\ \A i \in 1..0 : f[i] = step[<<f[i - 1], i>>]
    OBVIOUS
  <2>2. Solvable(A, a0, step, 0)
    <3> HIDE DEF f
    <3> QED
      BY <2>1 DEF Solvable
  <2> QED
    BY <2>2
<1>2. ASSUME NEW m \in Nat, m \in S PROVE m + 1 \in S
  <2>1. PICK f \in [0..m -> A] : /\ f[0] = a0
                                 /\ \A i \in 1..m : f[i] = step[<<f[i - 1], i>>]
    BY <1>2 DEF Solvable
  <2> DEFINE g == [i \in 0..(m + 1) |-> IF i = m + 1 THEN step[<<f[m], m + 1>>] ELSE f[i]]
  <2>2. step[<<f[m], m + 1>>] \in A
    OBVIOUS
  <2>3. g \in [0..(m + 1) -> A]
    BY <2>2
  <2>4. g[0] = a0
    BY <2>1
  <2>5. \A i \in 1..(m + 1) : g[i] = step[<<g[i - 1], i>>]
    BY <2>1
  <2>6. Solvable(A, a0, step, m + 1)
    <3> HIDE DEF g
    <3> QED
      BY <2>3, <2>4, <2>5 DEF Solvable
  <2> QED
    BY <2>6
<1>3. Nat \subseteq S
  <2> HIDE DEF S
  <2> QED
    BY <1>1, <1>2, Induction
<1> QED
  BY <1>3

-----------------------------------------------------------------------------
(* Totals.                                                                 *)

\* The running totals of q.
Running(q) ==
    CHOOSE sum : sum = [i \in 0..Len(q) |-> IF i = 0 THEN 0 ELSE sum[i - 1] + q[i]]

\* They start at nothing and grow by one element at a time.
LEMMA RunningFacts ==
    ASSUME NEW q \in Seq(Nat)
    PROVE  /\ Running(q) \in [0..Len(q) -> Nat]
           /\ Running(q)[0] = 0
           /\ \A i \in 1..Len(q) : Running(q)[i] = Running(q)[i - 1] + q[i]
           /\ Total(q) = Running(q)[Len(q)]
           /\ Total(q) \in Nat
<1> DEFINE n == Len(q)
           step == [x \in Nat \X Nat |-> IF x[2] \in 1..n THEN x[1] + q[x[2]] ELSE 0]
<1>1. n \in Nat /\ \A i \in 1..n : q[i] \in Nat
  OBVIOUS
<1>2. step \in [Nat \X Nat -> Nat]
  BY <1>1
<1>3. \A a \in Nat, i \in 1..n : step[<<a, i>>] = a + q[i]
  BY <1>1
<1>4. PICK f \in [0..n -> Nat] : f[0] = 0 /\ \A i \in 1..n : f[i] = step[<<f[i - 1], i>>]
  <2> HIDE DEF n, step
  <2>1. Solvable(Nat, 0, step, n)
    BY <1>1, <1>2, Recursion
  <2> QED
    BY <2>1 DEF Solvable
<1>5. f = [i \in 0..n |-> IF i = 0 THEN 0 ELSE f[i - 1] + q[i]]
  <2>1. \A i \in 0..n : f[i] = IF i = 0 THEN 0 ELSE f[i - 1] + q[i]
    <3> HIDE DEF step, n
    <3> QED
      <4>1. ASSUME NEW i \in 1..n PROVE f[i] = f[i - 1] + q[i]
        <5>1. i - 1 \in 0..n
          BY <1>1
        <5>2. f[i - 1] \in Nat
          BY <1>4, <5>1
        <5>3. f[i] = step[<<f[i - 1], i>>]
          BY <1>4
        <5> QED
          BY <1>3, <5>2, <5>3
      <4> QED
        BY <1>1, <1>4, <4>1
  <2> QED
    BY <2>1
<1>6. Running(q) = [i \in 0..n |-> IF i = 0 THEN 0 ELSE Running(q)[i - 1] + q[i]]
  BY <1>5 DEF Running
<1>7. \A i \in 0..n : Running(q)[i] = IF i = 0 THEN 0 ELSE Running(q)[i - 1] + q[i]
  BY <1>6
<1> DEFINE S == {i \in Nat : i \in 0..n => Running(q)[i] \in Nat}
<1>8. Nat \subseteq S
  <2>1. 0 \in S
    BY <1>1, <1>7
  <2>2. ASSUME NEW i \in Nat, i \in S PROVE i + 1 \in S
    BY <1>1, <1>7, <2>2
  <2> HIDE DEF S
  <2> QED
    BY <2>1, <2>2, Induction
<1>9. Running(q) \in [0..n -> Nat]
  <2>1. \A i \in 0..n : Running(q)[i] \in Nat
    BY <1>8
  <2> HIDE DEF n
  <2> QED
    BY <1>6, <2>1
<1>10. Total(q) = Running(q)[n]
  BY DEF Total, Running
<1>11. Total(q) \in Nat /\ Running(q)[0] = 0
  <2>1. n \in 0..n /\ 0 \in 0..n
    BY <1>1
  <2> HIDE DEF n
  <2> QED
    BY <1>7, <1>9, <1>10, <2>1
<1>12. ASSUME NEW i \in 1..n PROVE Running(q)[i] = Running(q)[i - 1] + q[i]
  <2>1. i \in 0..n /\ i # 0
    BY <1>1
  <2> QED
    BY <1>7, <2>1
<1> QED
  BY <1>9, <1>10, <1>11, <1>12

\* Two sequences that agree on their first n elements have the same running
\* totals up to there.
LEMMA RunningAgree ==
    ASSUME NEW q \in Seq(Nat), NEW r \in Seq(Nat), NEW n \in Nat,
           n <= Len(q), n <= Len(r), \A i \in 1..n : q[i] = r[i]
    PROVE  \A i \in 0..n : Running(q)[i] = Running(r)[i]
<1> DEFINE S == {i \in Nat : i \in 0..n => Running(q)[i] = Running(r)[i]}
<1>1. 0 \in S
  BY RunningFacts
<1>2. ASSUME NEW i \in Nat, i \in S PROVE i + 1 \in S
  <2>1. SUFFICES ASSUME i + 1 \in 0..n PROVE Running(q)[i + 1] = Running(r)[i + 1]
    OBVIOUS
  <2>2. /\ Running(q)[i + 1] = Running(q)[i] + q[i + 1]
        /\ Running(r)[i + 1] = Running(r)[i] + r[i + 1]
    BY <2>1, RunningFacts
  <2> QED
    BY <1>2, <2>1, <2>2
<1>3. Nat \subseteq S
  <2> HIDE DEF S
  <2> QED
    BY <1>1, <1>2, Induction
<1> QED
  BY <1>3

\* The elements of a sequence of naturals.
LEMMA NaturalsIn ==
    ASSUME NEW q \in Seq(Nat)
    PROVE  Len(q) \in Nat /\ \A i \in 1..Len(q) : q[i] \in Nat
  OBVIOUS

\* A sequence that goes on by one element has that much more.
LEMMA TotalExtends ==
    ASSUME NEW q \in Seq(Nat), NEW r \in Seq(Nat), Len(r) = Len(q) + 1,
           \A i \in 1..Len(q) : r[i] = q[i]
    PROVE  Total(r) = Total(q) + r[Len(q) + 1]
<1> DEFINE n == Len(q)
<1>1. n \in Nat /\ n + 1 \in 1..(n + 1) /\ (n + 1) - 1 = n /\ n \in 0..n
  OBVIOUS
<1>2. Running(q)[n] = Running(r)[n]
  <2>1. n <= Len(q) /\ n <= Len(r)
    OBVIOUS
  <2> QED
    BY <1>1, <2>1, RunningAgree
<1>3. Total(r) = Running(r)[n] + r[n + 1]
  <2>1. Len(r) = n + 1
    OBVIOUS
  <2> HIDE DEF n
  <2>2. /\ Total(r) = Running(r)[n + 1]
        /\ \A i \in 1..(n + 1) : Running(r)[i] = Running(r)[i - 1] + r[i]
    BY <2>1, RunningFacts
  <2>3. Running(r)[n + 1] = Running(r)[(n + 1) - 1] + r[n + 1]
    BY <1>1, <2>2
  <2> QED
    BY <1>1, <2>2, <2>3
<1> QED
  BY <1>2, <1>3, RunningFacts

\* One sequence after another has both totals.
LEMMA TotalJoin ==
    ASSUME NEW q \in Seq(Nat), NEW r \in Seq(Nat), NEW t \in Seq(Nat),
           Len(t) = Len(q) + Len(r),
           \A i \in 1..Len(q) : t[i] = q[i],
           \A i \in 1..Len(r) : t[Len(q) + i] = r[i]
    PROVE  Total(t) = Total(q) + Total(r)
<1> DEFINE m == Len(q)
           n == Len(r)
           Reached(i) == Running(t)[m + i] = Total(q) + Running(r)[i]
           S == {i \in Nat : i \in 0..n => Reached(i)}
<1>1. m \in Nat /\ n \in Nat
  OBVIOUS
<1>2. /\ \A i \in 0..n : Running(r)[i] \in Nat
      /\ Running(r)[0] = 0
      /\ \A i \in 1..n : Running(r)[i] = Running(r)[i - 1] + r[i]
      /\ \A i \in 1..(m + n) : Running(t)[i] = Running(t)[i - 1] + t[i]
      /\ Total(q) = Running(q)[m] /\ Total(q) \in Nat
      /\ Total(r) = Running(r)[n] /\ Total(t) = Running(t)[m + n]
      /\ \A i \in 1..n : r[i] \in Nat
  <2>0. \A i \in 1..n : r[i] \in Nat
    BY NaturalsIn
  <2>1. Len(t) = m + n
    OBVIOUS
  <2>2. /\ Running(r) \in [0..n -> Nat] /\ Running(r)[0] = 0
        /\ \A i \in 1..n : Running(r)[i] = Running(r)[i - 1] + r[i]
        /\ Total(r) = Running(r)[n]
    BY RunningFacts
  <2>3. /\ \A i \in 1..(m + n) : Running(t)[i] = Running(t)[i - 1] + t[i]
        /\ Total(t) = Running(t)[m + n]
    <3> HIDE DEF m, n
    <3> QED
      BY <2>1, RunningFacts
  <2>4. Total(q) = Running(q)[m] /\ Total(q) \in Nat
    BY RunningFacts
  <2> QED
    BY <2>0, <2>2, <2>3, <2>4
<1>3. 0 \in S
  <2>1. m <= Len(q) /\ m <= Len(t) /\ m \in 0..m /\ \A i \in 1..m : q[i] = t[i]
    OBVIOUS
  <2>2. Running(t)[m] = Running(q)[m]
    BY <1>1, <2>1, RunningAgree
  <2> QED
    BY <1>1, <1>2, <2>2
<1>4. ASSUME NEW i \in Nat, i \in S PROVE i + 1 \in S
  <2>1. ASSUME i + 1 \in 0..n PROVE Reached(i + 1)
    <3>1. i \in 0..n /\ i + 1 \in 1..n /\ (i + 1) - 1 = i
          /\ m + (i + 1) \in 1..(m + n) /\ (m + (i + 1)) - 1 = m + i
      BY <1>1, <2>1
    <3>2. Running(t)[m + i] = Total(q) + Running(r)[i]
      BY <1>4, <3>1
    <3>3. Running(t)[m + (i + 1)] = Running(t)[m + i] + r[i + 1]
      BY <1>2, <3>1
    <3>4. Running(r)[i + 1] = Running(r)[i] + r[i + 1]
      BY <1>2, <3>1
    <3> DEFINE a == Total(q)
               b == Running(r)[i]
               x == r[i + 1]
    <3>5. (a + b) + x = a + (b + x)
      <4>1. a \in Nat /\ b \in Nat /\ x \in Nat
        BY <1>2, <3>1
      <4> HIDE DEF a, b, x
      <4> QED
        BY <4>1
    <3> QED
      BY <3>2, <3>3, <3>4, <3>5
  <2>2. i + 1 \in Nat
    OBVIOUS
  <2> HIDE DEF Reached, n
  <2> QED
    BY <2>1, <2>2
<1>5. Nat \subseteq S
  <2> HIDE DEF S
  <2> QED
    BY <1>3, <1>4, Induction
<1>6. n \in 0..n /\ n \in S
  BY <1>1, <1>5
<1> QED
  BY <1>2, <1>6

\* Nothing has no total.
LEMMA TotalEmpty == Total(<<>>) = 0
<1>1. <<>> \in Seq(Nat) /\ Len(<<>>) = 0
  OBVIOUS
<1> QED
  BY <1>1, RunningFacts

\* One element replaced changes the total by the difference.
LEMMA TotalReplace ==
    ASSUME NEW q \in Seq(Nat), NEW r \in Seq(Nat), Len(r) = Len(q), NEW k \in 1..Len(q),
           \A i \in 1..Len(q) : i # k => r[i] = q[i]
    PROVE  Total(r) + q[k] = Total(q) + r[k]
<1> DEFINE n == Len(q)
           S == {i \in Nat : i \in k..n => Running(r)[i] + q[k] = Running(q)[i] + r[k]}
<1>1. /\ n \in Nat /\ k \in 1..n /\ k \in Nat
      /\ \A i \in 1..n : q[i] \in Nat /\ r[i] \in Nat
      /\ \A i \in 0..n : Running(q)[i] \in Nat /\ Running(r)[i] \in Nat
      /\ \A i \in 1..n : Running(q)[i] = Running(q)[i - 1] + q[i]
      /\ \A i \in 1..n : Running(r)[i] = Running(r)[i - 1] + r[i]
      /\ Total(q) = Running(q)[n] /\ Total(r) = Running(r)[n]
  <2>1. n \in Nat /\ k \in 1..n /\ k \in Nat /\ Len(r) = n
        /\ \A i \in 1..n : q[i] \in Nat /\ r[i] \in Nat
    <3>1. n \in Nat /\ k \in 1..n /\ k \in Nat /\ Len(r) = n
      OBVIOUS
    <3>2. \A i \in 1..n : q[i] \in Nat
      BY NaturalsIn
    <3>3. \A i \in 1..Len(r) : r[i] \in Nat
      BY NaturalsIn
    <3> HIDE DEF n
    <3> QED
      BY <3>1, <3>2, <3>3
  <2>2. /\ Running(q) \in [0..n -> Nat] /\ Running(r) \in [0..n -> Nat]
        /\ \A i \in 1..n : Running(q)[i] = Running(q)[i - 1] + q[i]
        /\ \A i \in 1..n : Running(r)[i] = Running(r)[i - 1] + r[i]
        /\ Total(q) = Running(q)[n] /\ Total(r) = Running(r)[n]
    <3> HIDE DEF n
    <3> QED
      BY <2>1, RunningFacts DEF n
  <2> QED
    BY <2>1, <2>2
<1>2. Running(q)[k - 1] = Running(r)[k - 1]
  <2>1. \A i \in 1..(k - 1) : q[i] = r[i]
    OBVIOUS
  <2>2. k - 1 \in Nat /\ k - 1 <= Len(q) /\ k - 1 <= Len(r)
    OBVIOUS
  <2>3. \A i \in 0..(k - 1) : Running(q)[i] = Running(r)[i]
    BY <2>1, <2>2, RunningAgree
  <2>4. k - 1 \in 0..(k - 1)
    BY <1>1
  <2> QED
    BY <2>3, <2>4
<1>3. Running(r)[k] + q[k] = Running(q)[k] + r[k]
  <2>1. k - 1 \in 0..n
    BY <1>1
  <2>2. PICK a \in Nat, x \in Nat, y \in Nat :
          a = Running(q)[k - 1] /\ x = q[k] /\ y = r[k]
    BY <1>1, <2>1
  <2>3. Running(r)[k] = a + y /\ Running(q)[k] = a + x
    <3>1. Running(r)[k] = Running(r)[k - 1] + r[k]
      BY <1>1
    <3>2. Running(q)[k] = Running(q)[k - 1] + q[k]
      BY <1>1
    <3> QED
      BY <1>2, <2>2, <3>1, <3>2
  <2>4. (a + y) + x = (a + x) + y
    OBVIOUS
  <2> QED
    BY <2>2, <2>3, <2>4
<1> HIDE DEF n
<1>4. 0 \in S
  BY <1>1
<1>5. ASSUME NEW i \in Nat, i \in S PROVE i + 1 \in S
  <2>1. CASE i + 1 = k
    BY <1>3, <2>1
  <2>2. CASE i + 1 # k /\ i + 1 \in k..n
    <3>1. i \in k..n /\ i + 1 \in 1..n /\ i \in 0..n /\ i + 1 \in 0..n
      BY <1>1, <2>2
    <3>2. r[i + 1] = q[i + 1]
      BY <2>2, <3>1 DEF n
    <3>3. /\ Running(r)[i + 1] = Running(r)[i] + r[i + 1]
          /\ Running(q)[i + 1] = Running(q)[i] + q[i + 1]
      <4>1. (i + 1) - 1 = i
        OBVIOUS
      <4> QED
        BY <1>1, <3>1, <4>1
    <3>4. Running(r)[i] + q[k] = Running(q)[i] + r[k]
      BY <1>5, <3>1
    <3>5. /\ Running(r)[i] \in Nat /\ Running(q)[i] \in Nat /\ q[i + 1] \in Nat
          /\ q[k] \in Nat /\ r[k] \in Nat
      BY <1>1, <3>1
    <3>6. Running(r)[i + 1] + q[k] = Running(q)[i + 1] + r[k]
      <4> DEFINE a == Running(r)[i]
                 b == Running(q)[i]
                 c == q[k]
                 d == r[k]
                 x == q[i + 1]
      <4>1. (a + x) + c = (b + x) + d
        <5>1. /\ a \in Nat /\ b \in Nat /\ c \in Nat /\ d \in Nat /\ x \in Nat
              /\ a + c = b + d
          BY <3>4, <3>5
        <5> HIDE DEF a, b, c, d, x
        <5> QED
          BY <5>1
      <4> QED
        BY <3>2, <3>3, <4>1
    <3> QED
      BY <3>6
  <2> QED
    BY <2>1, <2>2
<1>6. Nat \subseteq S
  <2> HIDE DEF S
  <2> QED
    BY <1>4, <1>5, Induction
<1>7. n \in S
  BY <1>1, <1>6
<1> QED
  BY <1>1, <1>7
-----------------------------------------------------------------------------
(* Lots and realized events.                                               *)

Ratio == Nat \X (Nat \ {0})

Lot == [quantity: Nat \ {0}, price: Ratio]
Event == [quantity: Nat \ {0}, cost: Ratio, proceeds: Ratio]

\* The quantities of rows, all of them or those at one price; 0 elsewhere.
QuantitiesOf(rows) == [i \in DOMAIN rows |-> rows[i].quantity]
LotsAt(rows, p) == [i \in DOMAIN rows |-> IF rows[i].price = p THEN rows[i].quantity ELSE 0]
EventsAt(rows, p) == [i \in DOMAIN rows |-> IF rows[i].cost = p THEN rows[i].quantity ELSE 0]

\* A function on 1..n is a sequence of n elements.
LEMMA IsSequence ==
    ASSUME NEW S, NEW n \in Nat, NEW f \in [1..n -> S]
    PROVE  f \in Seq(S) /\ Len(f) = n
  OBVIOUS

\* What the lots give, in all or at one price, are sequences of numbers.
LEMMA LotRows ==
    ASSUME NEW q \in Seq(Lot), NEW p
    PROVE  /\ QuantitiesOf(q) \in Seq(Nat) /\ Len(QuantitiesOf(q)) = Len(q)
           /\ LotsAt(q, p) \in Seq(Nat) /\ Len(LotsAt(q, p)) = Len(q)
           /\ \A i \in 1..Len(q) :
                 /\ QuantitiesOf(q)[i] = q[i].quantity
                 /\ LotsAt(q, p)[i] = IF q[i].price = p THEN q[i].quantity ELSE 0
<1> DEFINE n == Len(q)
           f == QuantitiesOf(q)
           g == LotsAt(q, p)
<1>1. n \in Nat /\ DOMAIN q = 1..n /\ \A i \in 1..n : q[i] \in Lot
  OBVIOUS
<1>2. \A i \in 1..n : q[i].quantity \in Nat
  BY <1>1 DEF Lot
<1> HIDE DEF n
<1>3. f = [i \in 1..n |-> q[i].quantity]
  BY <1>1 DEF QuantitiesOf
<1>4. g = [i \in 1..n |-> IF q[i].price = p THEN q[i].quantity ELSE 0]
  BY <1>1 DEF LotsAt
<1>5. f \in [1..n -> Nat] /\ \A i \in 1..n : f[i] = q[i].quantity
  <2> HIDE DEF f
  <2> QED
    BY <1>2, <1>3
<1>6. g \in [1..n -> Nat] /\ \A i \in 1..n : g[i] = IF q[i].price = p THEN q[i].quantity ELSE 0
  <2> HIDE DEF g
  <2> QED
    BY <1>2, <1>4
<1> HIDE DEF f, g
<1>7. f \in Seq(Nat) /\ Len(f) = n /\ g \in Seq(Nat) /\ Len(g) = n
  BY <1>1, <1>5, <1>6, IsSequence
<1> QED
  BY <1>5, <1>6, <1>7 DEF f, g, n

\* So is what the realized events give.
LEMMA EventRows ==
    ASSUME NEW q \in Seq(Event), NEW p
    PROVE  /\ EventsAt(q, p) \in Seq(Nat) /\ Len(EventsAt(q, p)) = Len(q)
           /\ \A i \in 1..Len(q) :
                 EventsAt(q, p)[i] = IF q[i].cost = p THEN q[i].quantity ELSE 0
<1> DEFINE n == Len(q)
           g == EventsAt(q, p)
<1>1. n \in Nat /\ DOMAIN q = 1..n /\ \A i \in 1..n : q[i] \in Event
  OBVIOUS
<1>2. \A i \in 1..n : q[i].quantity \in Nat
  BY <1>1 DEF Event
<1> HIDE DEF n
<1>3. g = [i \in 1..n |-> IF q[i].cost = p THEN q[i].quantity ELSE 0]
  BY <1>1 DEF EventsAt
<1>4. g \in [1..n -> Nat] /\ \A i \in 1..n : g[i] = IF q[i].cost = p THEN q[i].quantity ELSE 0
  <2> HIDE DEF g
  <2> QED
    BY <1>2, <1>3
<1> HIDE DEF g
<1>5. g \in Seq(Nat) /\ Len(g) = n
  BY <1>1, <1>4, IsSequence
<1> QED
  BY <1>4, <1>5 DEF g, n

\* One more lot is that much more open, at its price and in all.
LEMMA LotAppended ==
    ASSUME NEW q \in Seq(Lot), NEW lot \in Lot, NEW p
    PROVE  /\ Append(q, lot) \in Seq(Lot)
           /\ Total(QuantitiesOf(Append(q, lot))) = Total(QuantitiesOf(q)) + lot.quantity
           /\ Total(LotsAt(Append(q, lot), p)) =
                 Total(LotsAt(q, p)) + (IF lot.price = p THEN lot.quantity ELSE 0)
<1> DEFINE r == Append(q, lot)
<1>1. r \in Seq(Lot) /\ Len(r) = Len(q) + 1 /\ r[Len(q) + 1] = lot
      /\ \A i \in 1..Len(q) : r[i] = q[i]
  OBVIOUS
<1> HIDE DEF r
<1>2. Len(q) \in Nat /\ Len(q) + 1 \in 1..Len(r) /\ \A i \in 1..Len(q) : i \in 1..Len(r)
  BY <1>1
<1>3. Total(QuantitiesOf(r)) = Total(QuantitiesOf(q)) + lot.quantity
  <2>1. /\ QuantitiesOf(r) \in Seq(Nat) /\ QuantitiesOf(q) \in Seq(Nat)
        /\ Len(QuantitiesOf(r)) = Len(QuantitiesOf(q)) + 1 /\ Len(QuantitiesOf(q)) = Len(q)
    BY <1>1, LotRows
  <2>2. ASSUME NEW i \in 1..Len(q) PROVE QuantitiesOf(r)[i] = QuantitiesOf(q)[i]
    <3>1. i \in 1..Len(r) /\ r[i] = q[i]
      BY <1>1, <1>2
    <3>2. QuantitiesOf(r)[i] = r[i].quantity /\ QuantitiesOf(q)[i] = q[i].quantity
      BY <1>1, <3>1, LotRows
    <3> QED
      BY <3>1, <3>2
  <2>3. QuantitiesOf(r)[Len(q) + 1] = lot.quantity
    BY <1>1, <1>2, LotRows
  <2> QED
    BY <2>1, <2>2, <2>3, TotalExtends
<1>4. Total(LotsAt(r, p)) = Total(LotsAt(q, p)) + (IF lot.price = p THEN lot.quantity ELSE 0)
  <2>1. /\ LotsAt(r, p) \in Seq(Nat) /\ LotsAt(q, p) \in Seq(Nat)
        /\ Len(LotsAt(r, p)) = Len(LotsAt(q, p)) + 1 /\ Len(LotsAt(q, p)) = Len(q)
    BY <1>1, LotRows
  <2>2. ASSUME NEW i \in 1..Len(q) PROVE LotsAt(r, p)[i] = LotsAt(q, p)[i]
    <3>1. i \in 1..Len(r) /\ r[i] = q[i]
      BY <1>1, <1>2
    <3>2. LotsAt(r, p)[i] = IF r[i].price = p THEN r[i].quantity ELSE 0
      <4>1. i \in DOMAIN r
        BY <1>1, <3>1
      <4> QED
        BY <4>1 DEF LotsAt
    <3>3. LotsAt(q, p)[i] = IF q[i].price = p THEN q[i].quantity ELSE 0
      BY LotRows
    <3> QED
      BY <3>1, <3>2, <3>3
  <2>3. LotsAt(r, p)[Len(q) + 1] = IF lot.price = p THEN lot.quantity ELSE 0
    BY <1>1, <1>2, LotRows
  <2> QED
    BY <2>1, <2>2, <2>3, TotalExtends
<1> QED
  BY <1>1, <1>3, <1>4 DEF r

\* One more event is that much more realized at its cost.
LEMMA EventAppended ==
    ASSUME NEW q \in Seq(Event), NEW e \in Event, NEW p
    PROVE  /\ Append(q, e) \in Seq(Event)
           /\ Total(EventsAt(Append(q, e), p)) =
                 Total(EventsAt(q, p)) + (IF e.cost = p THEN e.quantity ELSE 0)
<1> DEFINE r == Append(q, e)
<1>1. r \in Seq(Event) /\ Len(r) = Len(q) + 1 /\ r[Len(q) + 1] = e
      /\ \A i \in 1..Len(q) : r[i] = q[i]
  OBVIOUS
<1> HIDE DEF r
<1>2. Len(q) \in Nat /\ Len(q) + 1 \in 1..Len(r) /\ \A i \in 1..Len(q) : i \in 1..Len(r)
  BY <1>1
<1>3. /\ EventsAt(r, p) \in Seq(Nat) /\ EventsAt(q, p) \in Seq(Nat)
      /\ Len(EventsAt(r, p)) = Len(EventsAt(q, p)) + 1 /\ Len(EventsAt(q, p)) = Len(q)
  BY <1>1, EventRows
<1>4. ASSUME NEW i \in 1..Len(q) PROVE EventsAt(r, p)[i] = EventsAt(q, p)[i]
  <2>1. i \in 1..Len(r) /\ r[i] = q[i]
    BY <1>1, <1>2
  <2>2. EventsAt(r, p)[i] = IF r[i].cost = p THEN r[i].quantity ELSE 0
    BY <1>1, <2>1, EventRows
  <2>3. EventsAt(q, p)[i] = IF q[i].cost = p THEN q[i].quantity ELSE 0
    BY EventRows
  <2> QED
    BY <2>1, <2>2, <2>3
<1>5. EventsAt(r, p)[Len(q) + 1] = IF e.cost = p THEN e.quantity ELSE 0
  BY <1>1, <1>2, EventRows
<1>6. Total(EventsAt(r, p)) = Total(EventsAt(q, p)) + (IF e.cost = p THEN e.quantity ELSE 0)
  BY <1>3, <1>4, <1>5, TotalExtends
<1> QED
  BY <1>1, <1>6 DEF r

\* The events of two sales, one after the other.
LEMMA EventsJoined ==
    ASSUME NEW q \in Seq(Event), NEW r \in Seq(Event), NEW p
    PROVE  /\ q \o r \in Seq(Event)
           /\ Total(EventsAt(q \o r, p)) = Total(EventsAt(q, p)) + Total(EventsAt(r, p))
<1> DEFINE t == q \o r
<1>1. /\ t \in Seq(Event) /\ Len(t) = Len(q) + Len(r)
      /\ \A i \in 1..Len(q) : t[i] = q[i]
      /\ \A i \in 1..Len(r) : t[Len(q) + i] = r[i]
  OBVIOUS
<1> HIDE DEF t
<1>2. /\ \A i \in 1..Len(q) : i \in 1..Len(t)
      /\ \A i \in 1..Len(r) : Len(q) + i \in 1..Len(t)
  BY <1>1
<1>3. /\ EventsAt(t, p) \in Seq(Nat) /\ EventsAt(q, p) \in Seq(Nat)
      /\ EventsAt(r, p) \in Seq(Nat)
      /\ Len(EventsAt(q, p)) = Len(q) /\ Len(EventsAt(r, p)) = Len(r)
      /\ Len(EventsAt(t, p)) = Len(EventsAt(q, p)) + Len(EventsAt(r, p))
  BY <1>1, EventRows
<1>4. ASSUME NEW i \in 1..Len(q) PROVE EventsAt(t, p)[i] = EventsAt(q, p)[i]
  <2>1. i \in 1..Len(t) /\ t[i] = q[i]
    BY <1>1, <1>2
  <2>2. EventsAt(t, p)[i] = IF t[i].cost = p THEN t[i].quantity ELSE 0
    BY <1>1, <2>1, EventRows
  <2>3. EventsAt(q, p)[i] = IF q[i].cost = p THEN q[i].quantity ELSE 0
    BY EventRows
  <2> QED
    BY <2>1, <2>2, <2>3
<1>5. ASSUME NEW i \in 1..Len(r) PROVE EventsAt(t, p)[Len(q) + i] = EventsAt(r, p)[i]
  <2>1. Len(q) + i \in 1..Len(t) /\ t[Len(q) + i] = r[i]
    BY <1>1, <1>2
  <2>2. EventsAt(r, p)[i] = IF r[i].cost = p THEN r[i].quantity ELSE 0
    BY EventRows
  <2>3. PICK j \in 1..Len(t) : j = Len(q) + i
    BY <2>1
  <2>4. EventsAt(t, p)[j] = IF t[j].cost = p THEN t[j].quantity ELSE 0
    <3>1. j \in DOMAIN t
      BY <1>1
    <3> QED
      BY <3>1 DEF EventsAt
  <2> QED
    BY <2>1, <2>2, <2>3, <2>4
<1>6. Total(EventsAt(t, p)) = Total(EventsAt(q, p)) + Total(EventsAt(r, p))
  <2> DEFINE a == EventsAt(q, p)
             b == EventsAt(r, p)
             c == EventsAt(t, p)
  <2>1. /\ a \in Seq(Nat) /\ b \in Seq(Nat) /\ c \in Seq(Nat)
        /\ Len(c) = Len(a) + Len(b)
        /\ \A i \in 1..Len(a) : c[i] = a[i]
        /\ \A i \in 1..Len(b) : c[Len(a) + i] = b[i]
    BY <1>3, <1>4, <1>5
  <2> HIDE DEF a, b, c
  <2>2. Total(c) = Total(a) + Total(b)
    BY <2>1, TotalJoin
  <2> QED
    BY <2>2 DEF a, b, c
<1> QED
  BY <1>1, <1>6 DEF t
-----------------------------------------------------------------------------
(* A sale from the lots.                                                   *)

SaleState == [remaining: Nat, events: Seq(Event), kept: Seq(Lot)]

OpenIn(s) == Total(QuantitiesOf(s.kept))
CarriedAt(s, p) == Total(LotsAt(s.kept, p)) + Total(EventsAt(s.events, p))
WorthAt(lot, p) == IF lot.price = p THEN lot.quantity ELSE 0

\* What a sale leaves and what it realizes are numbers.
LEMMA SaleTotals ==
    ASSUME NEW s \in SaleState, NEW p
    PROVE  /\ OpenIn(s) \in Nat
           /\ Total(LotsAt(s.kept, p)) \in Nat /\ Total(EventsAt(s.events, p)) \in Nat
           /\ CarriedAt(s, p) \in Nat
<1>1. s.kept \in Seq(Lot) /\ s.events \in Seq(Event)
  BY DEF SaleState
<1>2. /\ QuantitiesOf(s.kept) \in Seq(Nat) /\ LotsAt(s.kept, p) \in Seq(Nat)
      /\ EventsAt(s.events, p) \in Seq(Nat)
  BY <1>1, LotRows, EventRows
<1>3. /\ Total(QuantitiesOf(s.kept)) \in Nat
      /\ Total(LotsAt(s.kept, p)) \in Nat /\ Total(EventsAt(s.events, p)) \in Nat
  BY <1>2, RunningFacts
<1> QED
  BY <1>3 DEF OpenIn, CarriedAt

\* One lot met by a sale: what is taken from the sale is taken from the lot, the
\* rest of the lot is kept, and only an exhausted sale leaves a rest.
LEMMA ConsumeFacts ==
    ASSUME NEW s \in SaleState, NEW lot \in Lot, NEW price \in Ratio
    PROVE  LET r == ConsumeLot(s, lot, price)
               take == Smaller(s.remaining, lot.quantity)
           IN  /\ r \in SaleState
               /\ take \in Nat /\ take <= lot.quantity
               /\ r.remaining + take = s.remaining
               /\ r.remaining > 0 => take = lot.quantity
               /\ OpenIn(r) + take = OpenIn(s) + lot.quantity
               /\ \A p : CarriedAt(r, p) = CarriedAt(s, p) + WorthAt(lot, p)
<1> DEFINE take == Smaller(s.remaining, lot.quantity)
           event == [quantity |-> take, cost |-> lot.price, proceeds |-> price]
           rest == [lot EXCEPT !.quantity = @ - take]
           r == ConsumeLot(s, lot, price)
<1>1. /\ s.remaining \in Nat /\ s.events \in Seq(Event) /\ s.kept \in Seq(Lot)
      /\ lot.quantity \in Nat \ {0} /\ lot.price \in Ratio
  BY DEF SaleState, Lot
<1>2. /\ take \in Nat /\ take <= lot.quantity /\ take <= s.remaining
      /\ take = s.remaining \/ take = lot.quantity
  BY <1>1 DEF Smaller
<1>3. r = [remaining |-> s.remaining - take,
           events |-> IF take = 0 THEN s.events ELSE Append(s.events, event),
           kept |-> IF take = lot.quantity THEN s.kept ELSE Append(s.kept, rest)]
  BY DEF ConsumeLot
<1> HIDE DEF take, r
<1>4. /\ r.remaining = s.remaining - take
      /\ r.events = IF take = 0 THEN s.events ELSE Append(s.events, event)
      /\ r.kept = IF take = lot.quantity THEN s.kept ELSE Append(s.kept, rest)
  BY <1>3
<1>5. take # 0 => event \in Event /\ event.quantity = take /\ event.cost = lot.price
  BY <1>1, <1>2 DEF Event
<1>6. take # lot.quantity =>
        rest \in Lot /\ rest.quantity = lot.quantity - take /\ rest.price = lot.price
  <2>1. take # lot.quantity => lot.quantity - take \in Nat \ {0}
    BY <1>1, <1>2
  <2>2. rest.quantity = lot.quantity - take /\ rest.price = lot.price
    BY DEF Lot
  <2> HIDE DEF take
  <2>3. take # lot.quantity => rest \in Lot
    BY <2>1 DEF Lot
  <2> QED
    BY <2>2, <2>3
<1> HIDE DEF event, rest
<1>7. r.events \in Seq(Event) /\ r.kept \in Seq(Lot)
  BY <1>1, <1>4, <1>5, <1>6
<1>8. r \in SaleState
  BY <1>1, <1>2, <1>3, <1>4, <1>7 DEF SaleState
<1>9. r.remaining + take = s.remaining /\ (r.remaining > 0 => take = lot.quantity)
  BY <1>1, <1>2, <1>4
<1>10. OpenIn(r) + take = OpenIn(s) + lot.quantity
  <2>1. CASE take = lot.quantity
    BY <1>4, <2>1 DEF OpenIn
  <2>2. CASE take # lot.quantity
    <3>1. OpenIn(r) = OpenIn(s) + (lot.quantity - take)
      <4>1. r.kept = Append(s.kept, rest) /\ rest \in Lot
            /\ rest.quantity = lot.quantity - take
        BY <1>4, <1>6, <2>2
      <4>2. Total(QuantitiesOf(Append(s.kept, rest)))
               = Total(QuantitiesOf(s.kept)) + rest.quantity
        BY <1>1, <4>1, LotAppended
      <4> QED
        BY <4>1, <4>2 DEF OpenIn
    <3>2. OpenIn(s) \in Nat
      BY SaleTotals
    <3> QED
      BY <1>1, <1>2, <3>1, <3>2
  <2> QED
    BY <2>1, <2>2
<1>11. ASSUME NEW p PROVE CarriedAt(r, p) = CarriedAt(s, p) + WorthAt(lot, p)
  <2> DEFINE inLots(q) == Total(LotsAt(q, p))
             inEvents(q) == Total(EventsAt(q, p))
             mine == lot.price = p
  <2>1. inLots(s.kept) \in Nat /\ inEvents(s.events) \in Nat
    BY SaleTotals
  <2>2. inLots(r.kept) = inLots(s.kept) + (IF mine THEN lot.quantity - take ELSE 0)
    <3>1. CASE take = lot.quantity
      BY <1>1, <1>4, <2>1, <3>1
    <3>2. CASE take # lot.quantity
      BY <1>1, <1>4, <1>6, <3>2, LotAppended
    <3> QED
      BY <3>1, <3>2
  <2>3. inEvents(r.events) = inEvents(s.events) + (IF mine THEN take ELSE 0)
    <3>1. CASE take = 0
      BY <1>1, <1>4, <2>1, <3>1
    <3>2. CASE take # 0
      BY <1>1, <1>4, <1>5, <3>2, EventAppended
    <3> QED
      BY <3>1, <3>2
  <2>4. /\ CarriedAt(r, p) = inLots(r.kept) + inEvents(r.events)
        /\ CarriedAt(s, p) = inLots(s.kept) + inEvents(s.events)
        /\ WorthAt(lot, p) = IF mine THEN lot.quantity ELSE 0
    BY DEF CarriedAt, WorthAt
  <2> HIDE DEF inLots, inEvents, mine
  <2>5. CASE mine
    BY <1>1, <1>2, <2>1, <2>2, <2>3, <2>4, <2>5
  <2>6. CASE ~mine
    BY <1>1, <1>2, <2>1, <2>2, <2>3, <2>4, <2>6
  <2> QED
    BY <2>5, <2>6
<1> QED
  BY <1>2, <1>8, <1>9, <1>10, <1>11 DEF take, r

\* The states a sale goes through, lot by lot.
Sale(queue, quantity, price) ==
    CHOOSE sale : sale = [i \in 0..Len(queue) |->
            IF i = 0 THEN [remaining |-> quantity, events |-> <<>>, kept |-> <<>>]
            ELSE ConsumeLot(sale[i - 1], queue[i], price)]

\* Each of them is one, and follows from the last by one lot.
LEMMA SaleFacts ==
    ASSUME NEW queue \in Seq(Lot), NEW quantity \in Nat, NEW price \in Ratio
    PROVE  LET sale == Sale(queue, quantity, price) IN
           /\ sale \in [0..Len(queue) -> SaleState]
           /\ sale[0] = [remaining |-> quantity, events |-> <<>>, kept |-> <<>>]
           /\ \A i \in 1..Len(queue) : sale[i] = ConsumeLot(sale[i - 1], queue[i], price)
           /\ SellFromLots(queue, quantity, price) = sale[Len(queue)]
<1> DEFINE n == Len(queue)
           first == [remaining |-> quantity, events |-> <<>>, kept |-> <<>>]
           step == [x \in SaleState \X Nat |->
                      IF x[2] \in 1..n THEN ConsumeLot(x[1], queue[x[2]], price) ELSE first]
           sale == Sale(queue, quantity, price)
<1>1. n \in Nat /\ \A i \in 1..n : queue[i] \in Lot
  OBVIOUS
<1>2. first \in SaleState
  <2>1. <<>> \in Seq(Event) /\ <<>> \in Seq(Lot)
    OBVIOUS
  <2> QED
    BY <2>1 DEF SaleState
<1> HIDE DEF first, n
<1>3. \A s \in SaleState, i \in 1..n : ConsumeLot(s, queue[i], price) \in SaleState
  BY <1>1, ConsumeFacts
<1>4. step \in [SaleState \X Nat -> SaleState]
  BY <1>2, <1>3
<1>5. \A s \in SaleState, i \in 1..n : step[<<s, i>>] = ConsumeLot(s, queue[i], price)
  <2>1. \A i \in 1..n : i \in Nat
    BY <1>1
  <2> QED
    BY <2>1
<1> HIDE DEF step
<1>6. PICK f \in [0..n -> SaleState] :
         f[0] = first /\ \A i \in 1..n : f[i] = step[<<f[i - 1], i>>]
  <2>1. Solvable(SaleState, first, step, n)
    BY <1>1, <1>2, <1>4, Recursion
  <2> QED
    BY <2>1 DEF Solvable
<1>7. f = [i \in 0..n |-> IF i = 0 THEN first ELSE ConsumeLot(f[i - 1], queue[i], price)]
  <2>1. ASSUME NEW i \in 1..n PROVE f[i] = ConsumeLot(f[i - 1], queue[i], price)
    <3>1. f[i - 1] \in SaleState
      BY <1>1, <1>6
    <3> QED
      BY <1>5, <1>6, <3>1
  <2>2. \A i \in 0..n : f[i] = IF i = 0 THEN first ELSE ConsumeLot(f[i - 1], queue[i], price)
    BY <1>1, <1>6, <2>1
  <2> QED
    BY <2>2
<1>8. sale = [i \in 0..n |-> IF i = 0 THEN first ELSE ConsumeLot(sale[i - 1], queue[i], price)]
  BY <1>7 DEF Sale, first, n
<1> HIDE DEF sale
<1>9. \A i \in 0..n : sale[i] = IF i = 0 THEN first ELSE ConsumeLot(sale[i - 1], queue[i], price)
  BY <1>8
<1> DEFINE S == {i \in Nat : i \in 0..n => sale[i] \in SaleState}
<1>10. Nat \subseteq S
  <2>1. 0 \in S
    BY <1>1, <1>2, <1>9
  <2>2. ASSUME NEW i \in Nat, i \in S PROVE i + 1 \in S
    <3>1. CASE i + 1 \in 0..n
      <4>1. i \in 0..n /\ i + 1 \in 1..n /\ (i + 1) - 1 = i /\ i + 1 # 0
        BY <1>1, <3>1
      <4>2. sale[i + 1] = ConsumeLot(sale[i], queue[i + 1], price)
        BY <1>9, <3>1, <4>1
      <4>3. sale[i] \in SaleState
        BY <2>2, <4>1
      <4> QED
        BY <1>3, <4>1, <4>2, <4>3
    <3> QED
      BY <3>1
  <2> HIDE DEF S
  <2> QED
    BY <2>1, <2>2, Induction
<1>11. sale \in [0..n -> SaleState]
  <2>1. \A i \in 0..n : sale[i] \in SaleState
    BY <1>1, <1>10
  <2> QED
    BY <1>8, <2>1
<1>12. sale[0] = first /\ \A i \in 1..n : sale[i] = ConsumeLot(sale[i - 1], queue[i], price)
  BY <1>1, <1>9
<1>13. SellFromLots(queue, quantity, price) = sale[n]
  BY DEF SellFromLots, Sale, sale, n
<1> QED
  BY <1>11, <1>12, <1>13 DEF sale, n, first

\* A sale takes what it can: the lots keep what exceeds it and nothing when it
\* exceeds them, and at every price what was open is open or realized.
LEMMA SellFacts ==
    ASSUME NEW queue \in Seq(Lot), NEW quantity \in Nat, NEW price \in Ratio
    PROVE  LET r == SellFromLots(queue, quantity, price)
               total == Total(QuantitiesOf(queue))
           IN  /\ r \in SaleState
               /\ OpenIn(r) = IF total <= quantity THEN 0 ELSE total - quantity
               /\ \A p : CarriedAt(r, p) = Total(LotsAt(queue, p))
<1> DEFINE n == Len(queue)
           sale == Sale(queue, quantity, price)
           r == SellFromLots(queue, quantity, price)
           owned == QuantitiesOf(queue)
           sum == Running(owned)
<1>1. n \in Nat /\ n \in 0..n /\ \A i \in 1..n : queue[i] \in Lot
  OBVIOUS
<1>2. /\ sale \in [0..n -> SaleState]
      /\ sale[0] = [remaining |-> quantity, events |-> <<>>, kept |-> <<>>]
      /\ \A i \in 1..n : sale[i] = ConsumeLot(sale[i - 1], queue[i], price)
      /\ r = sale[n]
  BY SaleFacts
<1>3. owned \in Seq(Nat) /\ Len(owned) = n /\ \A i \in 1..n : owned[i] = queue[i].quantity
  BY LotRows
<1>4. /\ \A i \in 0..n : sum[i] \in Nat
      /\ sum[0] = 0
      /\ \A i \in 1..n : sum[i] = sum[i - 1] + queue[i].quantity
      /\ Total(owned) = sum[n]
  <2> HIDE DEF owned, n
  <2>1. /\ Running(owned) \in [0..n -> Nat] /\ Running(owned)[0] = 0
        /\ \A i \in 1..n : Running(owned)[i] = Running(owned)[i - 1] + owned[i]
        /\ Total(owned) = Running(owned)[n]
    BY <1>3, RunningFacts
  <2> QED
    BY <1>3, <2>1
<1> HIDE DEF n, sale, owned, sum, r
<1>5. /\ OpenIn(sale[0]) = 0 /\ \A p : CarriedAt(sale[0], p) = 0
  <2>1. <<>> \in Seq(Lot) /\ <<>> \in Seq(Event)
    OBVIOUS
  <2>2. \A p : QuantitiesOf(<<>>) = <<>> /\ LotsAt(<<>>, p) = <<>> /\ EventsAt(<<>>, p) = <<>>
    BY DEF QuantitiesOf, LotsAt, EventsAt
  <2>3. sale[0].kept = <<>> /\ sale[0].events = <<>>
    BY <1>2
  <2> QED
    BY <2>2, <2>3, TotalEmpty DEF OpenIn, CarriedAt
<1>6. ASSUME NEW i \in Nat, i + 1 \in 0..n
      PROVE  /\ i \in 0..n /\ i + 1 \in 1..n /\ (i + 1) - 1 = i
             /\ sale[i] \in SaleState /\ queue[i + 1] \in Lot
             /\ sale[i + 1] = ConsumeLot(sale[i], queue[i + 1], price)
  <2>1. i \in 0..n /\ i + 1 \in 1..n /\ (i + 1) - 1 = i
    BY <1>1, <1>6
  <2> QED
    BY <1>1, <1>2, <2>1
<1> DEFINE S == {i \in Nat : i \in 0..n =>
                    /\ OpenIn(sale[i]) + quantity = sum[i] + sale[i].remaining
                    /\ sale[i].remaining > 0 => OpenIn(sale[i]) = 0}
<1>7. Nat \subseteq S
  <2>1. 0 \in S
    BY <1>1, <1>2, <1>4, <1>5
  <2>2. ASSUME NEW i \in Nat, i \in S PROVE i + 1 \in S
    <3> SUFFICES ASSUME i + 1 \in 0..n
                 PROVE  /\ OpenIn(sale[i + 1]) + quantity = sum[i + 1] + sale[i + 1].remaining
                        /\ sale[i + 1].remaining > 0 => OpenIn(sale[i + 1]) = 0
      OBVIOUS
    <3>1. /\ i \in 0..n /\ i + 1 \in 1..n /\ (i + 1) - 1 = i
          /\ sale[i] \in SaleState /\ queue[i + 1] \in Lot
          /\ sale[i + 1] = ConsumeLot(sale[i], queue[i + 1], price)
      BY <1>6
    <3> DEFINE s == sale[i]
               t == sale[i + 1]
               lot == queue[i + 1]
               take == Smaller(s.remaining, lot.quantity)
    <3>2. /\ t \in SaleState
          /\ take \in Nat /\ take <= lot.quantity
          /\ t.remaining + take = s.remaining
          /\ t.remaining > 0 => take = lot.quantity
          /\ OpenIn(t) + take = OpenIn(s) + lot.quantity
      <4> HIDE DEF s, t, lot
      <4>1. s \in SaleState /\ lot \in Lot /\ t = ConsumeLot(s, lot, price)
        BY <3>1 DEF s, t, lot
      <4> QED
        BY <4>1, ConsumeFacts
    <3>3. sum[i + 1] = sum[i] + lot.quantity /\ sum[i] \in Nat
      BY <1>4, <3>1
    <3>4. /\ s.remaining \in Nat /\ t.remaining \in Nat
          /\ lot.quantity \in Nat \ {0} /\ OpenIn(s) \in Nat /\ OpenIn(t) \in Nat
      BY <3>1, <3>2, SaleTotals DEF SaleState, Lot
    <3>5. OpenIn(s) + quantity = sum[i] + s.remaining /\ (s.remaining > 0 => OpenIn(s) = 0)
      BY <2>2, <3>1
    <3> HIDE DEF take
    <3>6. PICK sr \in Nat, tr \in Nat, lq \in Nat \ {0}, os \in Nat, ot \in Nat, total \in Nat :
             /\ sr = s.remaining /\ tr = t.remaining /\ lq = lot.quantity
             /\ os = OpenIn(s) /\ ot = OpenIn(t) /\ total = sum[i]
      BY <3>3, <3>4
    <3>7. /\ take \in Nat /\ take <= lq /\ tr + take = sr /\ (tr > 0 => take = lq)
          /\ ot + take = os + lq
          /\ os + quantity = total + sr /\ (sr > 0 => os = 0)
      BY <3>2, <3>5, <3>6
    <3>8. ot + quantity = (total + lq) + tr /\ (tr > 0 => ot = 0)
      BY <3>7
    <3> QED
      BY <3>3, <3>6, <3>8
  <2> HIDE DEF S
  <2> QED
    BY <2>1, <2>2, Induction
<1>8. ASSUME NEW p PROVE CarriedAt(r, p) = Total(LotsAt(queue, p))
  <2> DEFINE worth == LotsAt(queue, p)
             T == {i \in Nat : i \in 0..n => CarriedAt(sale[i], p) = Running(worth)[i]}
  <2>1. worth \in Seq(Nat) /\ Len(worth) = n
        /\ \A i \in 1..n : worth[i] = WorthAt(queue[i], p)
    BY LotRows DEF WorthAt, n
  <2> HIDE DEF worth
  <2>2. /\ Running(worth) \in [0..n -> Nat] /\ Running(worth)[0] = 0
        /\ \A i \in 1..n : Running(worth)[i] = Running(worth)[i - 1] + worth[i]
        /\ Total(worth) = Running(worth)[n]
    BY <2>1, RunningFacts
  <2>3. 0 \in T
    BY <1>1, <1>5, <2>2
  <2>4. ASSUME NEW i \in Nat, i \in T PROVE i + 1 \in T
    <3> SUFFICES ASSUME i + 1 \in 0..n
                 PROVE  CarriedAt(sale[i + 1], p) = Running(worth)[i + 1]
      OBVIOUS
    <3>1. /\ i \in 0..n /\ i + 1 \in 1..n /\ (i + 1) - 1 = i
          /\ sale[i] \in SaleState /\ queue[i + 1] \in Lot
          /\ sale[i + 1] = ConsumeLot(sale[i], queue[i + 1], price)
      BY <1>6
    <3>2. CarriedAt(sale[i + 1], p) = CarriedAt(sale[i], p) + WorthAt(queue[i + 1], p)
      BY <3>1, ConsumeFacts
    <3>3. Running(worth)[i + 1] = Running(worth)[i] + WorthAt(queue[i + 1], p)
      BY <2>1, <2>2, <3>1
    <3>4. CarriedAt(sale[i], p) = Running(worth)[i]
      BY <2>4, <3>1
    <3> QED
      BY <3>2, <3>3, <3>4
  <2>5. Nat \subseteq T
    <3> HIDE DEF T
    <3> QED
      BY <2>3, <2>4, Induction
  <2>6. n \in T
    BY <1>1, <2>5
  <2> QED
    BY <1>1, <1>2, <2>2, <2>6 DEF worth
<1>9. OpenIn(r) = IF Total(owned) <= quantity THEN 0 ELSE Total(owned) - quantity
  <2>1. n \in S
    BY <1>1, <1>7
  <2>2. /\ OpenIn(r) + quantity = Total(owned) + r.remaining
        /\ r.remaining > 0 => OpenIn(r) = 0
    BY <1>1, <1>2, <1>4, <2>1
  <2>3. OpenIn(r) \in Nat /\ r.remaining \in Nat /\ Total(owned) \in Nat
    BY <1>1, <1>2, <1>4, SaleTotals DEF SaleState
  <2>4. PICK o \in Nat, left \in Nat, total \in Nat :
           o = OpenIn(r) /\ left = r.remaining /\ total = Total(owned)
    BY <2>3
  <2>5. o + quantity = total + left /\ (left > 0 => o = 0)
    BY <2>2, <2>4
  <2>6. o = IF total <= quantity THEN 0 ELSE total - quantity
    BY <2>5
  <2> QED
    BY <2>4, <2>6
<1> QED
  BY <1>1, <1>2, <1>8, <1>9 DEF r, owned

-----------------------------------------------------------------------------
(* A quote.                                                                *)

Level == [price: Nat, volume: Nat]
WalkState == [remaining: Nat, notional: Nat, fillable: Nat]

\* A level gives what it holds or what is still asked, never less than nothing.
LEMMA LevelFacts ==
    ASSUME NEW w \in WalkState, NEW level \in Level
    PROVE  TakeLevel(w, level) \in WalkState
<1> DEFINE take == Smaller(w.remaining, level.volume)
<1>1. /\ w.remaining \in Nat /\ w.notional \in Nat /\ w.fillable \in Nat
      /\ level.price \in Nat /\ level.volume \in Nat
  BY DEF WalkState, Level
<1>2. take \in Nat /\ take <= w.remaining
  BY <1>1 DEF Smaller
<1> HIDE DEF take
<1>3. take * level.price \in Nat
  BY <1>1, <1>2
<1>4. /\ w.remaining - take \in Nat /\ w.notional + take * level.price \in Nat
      /\ w.fillable + take \in Nat
  BY <1>1, <1>2, <1>3
<1> QED
  BY <1>4 DEF TakeLevel, WalkState, take

\* The walk through the depth ends in numbers.
LEMMA WalkType ==
    ASSUME NEW levels \in Seq(Level), NEW quantity \in Nat
    PROVE  Walk(levels, quantity) \in WalkState
<1> DEFINE n == Len(levels)
           first == [remaining |-> quantity, notional |-> 0, fillable |-> 0]
           step == [x \in WalkState \X Nat |->
                      IF x[2] \in 1..n THEN TakeLevel(x[1], levels[x[2]]) ELSE first]
           walk == CHOOSE w : w = [i \in 0..n |-> IF i = 0 THEN first
                                                  ELSE TakeLevel(w[i - 1], levels[i])]
<1>1. n \in Nat /\ \A i \in 1..n : levels[i] \in Level
  OBVIOUS
<1>2. first \in WalkState
  BY DEF WalkState
<1>3. Walk(levels, quantity) = walk[n]
  BY DEF Walk
<1> HIDE DEF first, n
<1>4. \A s \in WalkState, i \in 1..n : TakeLevel(s, levels[i]) \in WalkState
  BY <1>1, LevelFacts
<1>5. step \in [WalkState \X Nat -> WalkState]
  BY <1>2, <1>4
<1>6. \A s \in WalkState, i \in 1..n : step[<<s, i>>] = TakeLevel(s, levels[i])
  <2>1. \A i \in 1..n : i \in Nat
    BY <1>1
  <2> QED
    BY <2>1
<1> HIDE DEF step
<1>7. PICK f \in [0..n -> WalkState] :
         f[0] = first /\ \A i \in 1..n : f[i] = step[<<f[i - 1], i>>]
  <2>1. Solvable(WalkState, first, step, n)
    BY <1>1, <1>2, <1>5, Recursion
  <2> QED
    BY <2>1 DEF Solvable
<1>8. f = [i \in 0..n |-> IF i = 0 THEN first ELSE TakeLevel(f[i - 1], levels[i])]
  <2>1. ASSUME NEW i \in 1..n PROVE f[i] = TakeLevel(f[i - 1], levels[i])
    <3>1. f[i - 1] \in WalkState
      BY <1>1, <1>7
    <3> QED
      BY <1>6, <1>7, <3>1
  <2>2. \A i \in 0..n : f[i] = IF i = 0 THEN first ELSE TakeLevel(f[i - 1], levels[i])
    BY <1>1, <1>7, <2>1
  <2> QED
    BY <2>2
<1>9. walk = [i \in 0..n |-> IF i = 0 THEN first ELSE TakeLevel(walk[i - 1], levels[i])]
  BY <1>8
<1> HIDE DEF walk
<1>10. \A i \in 0..n : walk[i] = IF i = 0 THEN first ELSE TakeLevel(walk[i - 1], levels[i])
  BY <1>9
<1> DEFINE S == {i \in Nat : i \in 0..n => walk[i] \in WalkState}
<1>11. Nat \subseteq S
  <2>1. 0 \in S
    BY <1>1, <1>2, <1>10
  <2>2. ASSUME NEW i \in Nat, i \in S PROVE i + 1 \in S
    <3>1. CASE i + 1 \in 0..n
      <4>1. i \in 0..n /\ i + 1 \in 1..n /\ (i + 1) - 1 = i /\ i + 1 # 0
        BY <1>1, <3>1
      <4>2. walk[i + 1] = TakeLevel(walk[i], levels[i + 1])
        BY <1>10, <3>1, <4>1
      <4>3. walk[i] \in WalkState
        BY <2>2, <4>1
      <4> QED
        BY <1>4, <4>1, <4>2, <4>3
    <3> QED
      BY <3>1
  <2> HIDE DEF S
  <2> QED
    BY <2>1, <2>2, Induction
<1>12. n \in 0..n /\ n \in S
  BY <1>1, <1>11
<1> QED
  BY <1>3, <1>12

\* What is quoted is a proper ratio, and no less than nothing can be filled.
LEMMA QuoteType ==
    ASSUME NEW k \in Keys, depth \in [Keys -> Books \cup {NoBook}],
           NEW quantity \in Nat, NEW price \in Nat
    PROVE  /\ Quote(k, quantity, price).price \in Ratio
           /\ Quote(k, quantity, price).fillable \in Nat
<1>1. CASE depth[k] = NoBook
  BY <1>1 DEF Quote, Whole, Ratio
<1>2. CASE depth[k] # NoBook
  <2>1. depth[k].best \in Nat /\ depth[k].levels \in Seq(Level)
    BY <1>2, BrokerAssumption DEF Level
  <2> DEFINE w == Walk(depth[k].levels, quantity)
  <2>2. w \in WalkState
    BY <2>1, WalkType
  <2> HIDE DEF w
  <2>3. w.notional \in Nat /\ w.fillable \in Nat
    BY <2>2 DEF WalkState
  <2>4. Quote(k, quantity, price) =
          [price |-> IF w.fillable = 0 THEN Whole(depth[k].best) ELSE <<w.notional, w.fillable>>,
           fillable |-> w.fillable]
    BY <1>2 DEF Quote, w
  <2> QED
    BY <2>1, <2>3, <2>4 DEF Whole, Ratio
<1> QED
  BY <1>1, <1>2

-----------------------------------------------------------------------------
(* The invariant.                                                          *)

Order == [key: Keys, side: {"buy", "sell"}, quantity: Quantities, price: Ratio,
          status: {"pending", "filled", "rejected", "cancelled"}, filled: Nat, since: Nat]

Position == [id: Nat, quantity: Nat \ {0}, avg: Ratio]

PositionsType ==
    /\ DOMAIN positions \subseteq Keys
    /\ positions \in [DOMAIN positions -> Position]

BooksType ==
    /\ PositionsType
    /\ lots \in [Keys -> Seq(Lot)]
    /\ sold \in [Keys -> Seq(Event)]

BrokerTypeOK ==
    /\ clock \in Nat
    /\ depth \in [Keys -> Books \cup {NoBook}]
    /\ orders \in Seq(Order)
    /\ BooksType

\* What is open of a key as its lots have it, and as its position has it.
OpenLots(k) == Total(QuantitiesOf(lots[k]))
OpenPosition(k) == IF k \in DOMAIN positions THEN positions[k].quantity ELSE 0

CarriedFor(k, p) == Total(LotsAt(lots[k], p)) + Total(EventsAt(sold[k], p))

\* What a filled buy of k at p brought in.
FilledAt(o, k, p) ==
    IF o.key = k /\ o.side = "buy" /\ o.status = "filled" /\ o.price = p
    THEN o.filled ELSE 0
FillsAt(os, k, p) == [i \in DOMAIN os |-> FilledAt(os[i], k, p)]

\* The two properties, the second at every price there is.
BrokerInv ==
    /\ BrokerTypeOK
    /\ \A k \in Keys : OpenLots(k) = OpenPosition(k)
    /\ \A k \in Keys : \A p : Total(FillsAt(orders, k, p)) = CarriedFor(k, p)

\* The properties are part of the invariant.
LEMMA InvImpliesProperties == BrokerInv => BookMatchesLots /\ CostConserved
<1> SUFFICES ASSUME BrokerInv PROVE BookMatchesLots /\ CostConserved
  OBVIOUS
<1>1. BookMatchesLots
  BY DEF BrokerInv, BookMatchesLots, OpenLots, OpenPosition, QuantitiesOf
<1>2. ASSUME NEW k \in Keys, NEW p PROVE BoughtAt(k, p) = OpenAt(k, p) + RealizedAt(k, p)
  <2>1. BoughtAt(k, p) = Total(FillsAt(orders, k, p))
    BY DEF BoughtAt, FillsAt, FilledAt
  <2>2. OpenAt(k, p) = Total(LotsAt(lots[k], p)) /\ RealizedAt(k, p) = Total(EventsAt(sold[k], p))
    BY DEF OpenAt, RealizedAt, LotsAt, EventsAt
  <2> QED
    BY <2>1, <2>2 DEF BrokerInv, CarriedFor
<1> QED
  BY <1>1, <1>2 DEF CostConserved

\* What the orders brought in is a sequence of numbers.
LEMMA FillRows ==
    ASSUME NEW os \in Seq(Order), NEW k, NEW p
    PROVE  /\ FillsAt(os, k, p) \in Seq(Nat) /\ Len(FillsAt(os, k, p)) = Len(os)
           /\ \A i \in 1..Len(os) : FillsAt(os, k, p)[i] = FilledAt(os[i], k, p)
<1> DEFINE n == Len(os)
           g == FillsAt(os, k, p)
<1>1. n \in Nat /\ DOMAIN os = 1..n /\ \A i \in 1..n : os[i] \in Order
  OBVIOUS
<1>2. \A i \in 1..n : FilledAt(os[i], k, p) \in Nat
  BY <1>1 DEF Order, FilledAt
<1> HIDE DEF n
<1>3. g = [i \in 1..n |-> FilledAt(os[i], k, p)]
  BY <1>1 DEF FillsAt
<1>4. g \in [1..n -> Nat] /\ \A i \in 1..n : g[i] = FilledAt(os[i], k, p)
  <2> HIDE DEF g
  <2> QED
    BY <1>2, <1>3
<1> HIDE DEF g
<1>5. g \in Seq(Nat) /\ Len(g) = n
  BY <1>1, <1>4, IsSequence
<1> QED
  BY <1>4, <1>5 DEF g, n

\* An order placed adds what it filled at once.
LEMMA OrderAppended ==
    ASSUME NEW os \in Seq(Order), NEW o \in Order, NEW k, NEW p
    PROVE  Total(FillsAt(Append(os, o), k, p)) = Total(FillsAt(os, k, p)) + FilledAt(o, k, p)
<1> DEFINE r == Append(os, o)
<1>1. /\ r \in Seq(Order) /\ Len(r) = Len(os) + 1 /\ r[Len(os) + 1] = o
      /\ \A i \in 1..Len(os) : r[i] = os[i]
  OBVIOUS
<1> HIDE DEF r
<1>2. /\ Len(os) + 1 \in 1..Len(r) /\ \A i \in 1..Len(os) : i \in 1..Len(r)
  BY <1>1
<1>3. /\ FillsAt(os, k, p) \in Seq(Nat) /\ FillsAt(r, k, p) \in Seq(Nat)
      /\ Len(FillsAt(os, k, p)) = Len(os)
      /\ Len(FillsAt(r, k, p)) = Len(FillsAt(os, k, p)) + 1
  BY <1>1, FillRows
<1>4. ASSUME NEW i \in 1..Len(os) PROVE FillsAt(r, k, p)[i] = FillsAt(os, k, p)[i]
  <2>1. i \in 1..Len(r) /\ r[i] = os[i]
    BY <1>1, <1>2
  <2>2. FillsAt(r, k, p)[i] = FilledAt(r[i], k, p)
    BY <1>1, <2>1, FillRows
  <2>3. FillsAt(os, k, p)[i] = FilledAt(os[i], k, p)
    BY FillRows
  <2> QED
    BY <2>1, <2>2, <2>3
<1>5. FillsAt(r, k, p)[Len(os) + 1] = FilledAt(o, k, p)
  BY <1>1, <1>2, FillRows
<1>6. Total(FillsAt(r, k, p)) = Total(FillsAt(os, k, p)) + FillsAt(r, k, p)[Len(os) + 1]
  BY <1>3, <1>4, TotalExtends
<1> QED
  BY <1>5, <1>6 DEF r

\* An order rewritten counts for what it is filled with now instead of before.
LEMMA OrderReplaced ==
    ASSUME NEW os \in Seq(Order), NEW r \in Seq(Order), Len(r) = Len(os),
           NEW i \in 1..Len(os), \A j \in 1..Len(os) : j # i => r[j] = os[j], NEW k, NEW p
    PROVE  Total(FillsAt(r, k, p)) + FilledAt(os[i], k, p)
             = Total(FillsAt(os, k, p)) + FilledAt(r[i], k, p)
<1> DEFINE f == FillsAt(os, k, p)
           g == FillsAt(r, k, p)
<1>1. /\ f \in Seq(Nat) /\ g \in Seq(Nat) /\ Len(f) = Len(os) /\ Len(g) = Len(f)
      /\ f[i] = FilledAt(os[i], k, p) /\ g[i] = FilledAt(r[i], k, p)
  BY FillRows
<1>2. ASSUME NEW j \in 1..Len(os), j # i PROVE g[j] = f[j]
  <2>1. g[j] = FilledAt(r[j], k, p) /\ f[j] = FilledAt(os[j], k, p)
    BY FillRows
  <2> QED
    BY <1>2, <2>1
<1> HIDE DEF f, g
<1>3. Total(g) + f[i] = Total(f) + g[i]
  BY <1>1, <1>2, TotalReplace
<1> QED
  BY <1>1, <1>3 DEF f, g

-----------------------------------------------------------------------------
(* A fill, bought or sold.                                                 *)

\* Products of numbers are numbers, 0 only when one factor is.
LEMMA Products ==
    ASSUME NEW a \in Nat, NEW b \in Nat
    PROVE  a * b \in Nat /\ (a # 0 /\ b # 0 => a * b # 0)
  OBVIOUS

\* Sums and multiples of ratios are ratios.
LEMMA RatioSums ==
    ASSUME NEW a \in Ratio, NEW b \in Ratio, NEW n \in Nat
    PROVE  Plus(a, b) \in Ratio /\ Times(n, a) \in Ratio
<1>1. /\ a[1] \in Nat /\ a[2] \in Nat /\ a[2] # 0
      /\ b[1] \in Nat /\ b[2] \in Nat /\ b[2] # 0
  BY DEF Ratio
<1>2. /\ a[1] * b[2] \in Nat /\ b[1] * a[2] \in Nat /\ n * a[1] \in Nat
      /\ a[2] * b[2] \in Nat /\ a[2] * b[2] # 0
  BY <1>1, Products
<1> DEFINE x == a[1] * b[2]
           y == b[1] * a[2]
           z == a[2] * b[2]
           u == n * a[1]
<1>3. Plus(a, b) = IF a[2] = b[2] THEN <<a[1] + b[1], a[2]>> ELSE <<x + y, z>>
  BY DEF Plus
<1>4. Times(n, a) = <<u, a[2]>>
  BY DEF Times
<1> HIDE DEF x, y, z, u
<1>5. x \in Nat /\ y \in Nat /\ z \in Nat /\ z # 0 /\ u \in Nat
  BY <1>2 DEF x, y, z, u
<1> QED
  BY <1>1, <1>3, <1>4, <1>5 DEF Ratio

\* What a fill may do to the books: they keep their shape, lots and positions
\* stay level, and at every price what a buy brings in is carried by the lots.
FillDone(k, side, quantity, price) ==
    /\ BooksType'
    /\ \A j \in Keys : OpenLots(j)' = OpenPosition(j)'
    /\ \A j \in Keys : \A p :
          CarriedFor(j, p)' = CarriedFor(j, p)
              + (IF side = "buy" /\ j = k /\ p = price THEN quantity ELSE 0)

\* A buy does so,
LEMMA BoughtDone ==
    ASSUME BrokerInv, NEW k \in Keys, NEW id \in Nat, NEW quantity \in Nat \ {0},
           NEW price \in Ratio, Bought(k, id, quantity, price)
    PROVE  FillDone(k, "buy", quantity, price)
<1> DEFINE lot == [quantity |-> quantity, price |-> price]
<1>1. /\ lots \in [Keys -> Seq(Lot)] /\ sold \in [Keys -> Seq(Event)] /\ sold' = sold
      /\ lots' = [lots EXCEPT ![k] = Append(lots[k], lot)]
  BY DEF BrokerInv, BrokerTypeOK, BooksType, Bought
<1>2. lot \in Lot /\ lot.quantity = quantity /\ lot.price = price
  BY DEF Lot
<1> HIDE DEF lot
<1>3. /\ Append(lots[k], lot) \in Seq(Lot)
      /\ Total(QuantitiesOf(Append(lots[k], lot))) = OpenLots(k) + quantity
      /\ \A p : Total(LotsAt(Append(lots[k], lot), p)) =
                   Total(LotsAt(lots[k], p)) + (IF p = price THEN quantity ELSE 0)
  BY <1>1, <1>2, LotAppended DEF OpenLots
<1>4. /\ lots' \in [Keys -> Seq(Lot)] /\ lots'[k] = Append(lots[k], lot)
      /\ \A j \in Keys : j # k => lots'[j] = lots[j]
  BY <1>1, <1>3
<1>5. /\ OpenLots(k)' = OpenLots(k) + quantity
      /\ \A j \in Keys : j # k => OpenLots(j)' = OpenLots(j)
  BY <1>3, <1>4 DEF OpenLots
<1>6. /\ PositionsType'
      /\ OpenPosition(k)' = OpenPosition(k) + quantity
      /\ \A j \in Keys : j # k => OpenPosition(j)' = OpenPosition(j)
  <2>1. DOMAIN positions \subseteq Keys /\ positions \in [DOMAIN positions -> Position]
    BY DEF BrokerInv, BrokerTypeOK, BooksType, PositionsType
  <2>2. CASE k \notin DOMAIN positions
    <3> DEFINE new == [id |-> id, quantity |-> quantity, avg |-> price]
    <3>1. new \in Position /\ new.quantity = quantity
      BY DEF Position
    <3>2. positions' = [j \in DOMAIN positions \cup {k} |-> IF j = k THEN new ELSE positions[j]]
      BY <2>2 DEF Bought, With
    <3> HIDE DEF new
    <3>3. /\ DOMAIN positions' = DOMAIN positions \cup {k}
          /\ positions'[k] = new
          /\ \A j \in DOMAIN positions : positions'[j] = positions[j]
          /\ positions' = [j \in DOMAIN positions' |-> positions'[j]]
      BY <2>2, <3>2
    <3>4. \A j \in DOMAIN positions' : positions'[j] \in Position
      BY <2>1, <3>1, <3>3
    <3>5. PositionsType'
      BY <2>1, <3>3, <3>4 DEF PositionsType
    <3> QED
      BY <2>2, <3>1, <3>3, <3>5 DEF OpenPosition
  <2>3. CASE k \in DOMAIN positions
    <3> DEFINE total == positions[k].quantity + quantity
               cost == Plus(CostBasis(k), Times(quantity, price))
               avg == <<cost[1], cost[2] * total>>
               new == [positions[k] EXCEPT !.quantity = total, !.avg = avg]
    <3>1. /\ positions[k] \in Position /\ positions[k].quantity \in Nat \ {0}
          /\ positions[k].avg \in Ratio /\ total \in Nat \ {0}
      BY <2>1, <2>3 DEF Position
    <3>2. cost \in Ratio
      BY <3>1, RatioSums DEF CostBasis
    <3> HIDE DEF cost, total
    <3>3. avg \in Ratio
      <4>1. cost[1] \in Nat /\ cost[2] \in Nat /\ cost[2] # 0
        BY <3>2 DEF Ratio
      <4>2. cost[2] * total \in Nat \ {0}
        BY <3>1, <4>1, Products
      <4> QED
        BY <4>1, <4>2 DEF Ratio
    <3> HIDE DEF avg
    <3>4. new \in Position /\ new.quantity = total
      BY <3>1, <3>3 DEF Position
    <3>5. positions' = [positions EXCEPT ![k] = new]
      BY <2>1, <2>3 DEF Bought, total, cost, avg
    <3> HIDE DEF new
    <3>6. /\ positions' \in [DOMAIN positions -> Position] /\ positions'[k] = new
          /\ \A j \in DOMAIN positions : j # k => positions'[j] = positions[j]
      BY <2>1, <2>3, <3>4, <3>5
    <3>7. DOMAIN positions' = DOMAIN positions
      BY <3>6
    <3> QED
      BY <2>1, <2>3, <3>4, <3>6, <3>7 DEF PositionsType, OpenPosition, total
  <2> QED
    BY <2>2, <2>3
<1>7. BooksType'
  BY <1>1, <1>4, <1>6 DEF BooksType
<1>8. \A j \in Keys : OpenLots(j)' = OpenPosition(j)'
  BY <1>5, <1>6 DEF BrokerInv
<1>9. ASSUME NEW j \in Keys, NEW p
      PROVE  CarriedFor(j, p)' = CarriedFor(j, p) + (IF j = k /\ p = price THEN quantity ELSE 0)
  <2> DEFINE open == Total(LotsAt(lots[j], p))
             gone == Total(EventsAt(sold[j], p))
  <2>1. open \in Nat /\ gone \in Nat
    BY <1>1, LotRows, EventRows, RunningFacts
  <2>2. CarriedFor(j, p) = open + gone /\ CarriedFor(j, p)' = Total(LotsAt(lots'[j], p)) + gone
    BY <1>1 DEF CarriedFor
  <2>3. Total(LotsAt(lots'[j], p)) = open + (IF j = k /\ p = price THEN quantity ELSE 0)
    <3>1. CASE j # k
      BY <1>4, <2>1, <3>1
    <3>2. CASE j = k
      BY <1>3, <1>4, <3>2
    <3> QED
      BY <3>1, <3>2
  <2> HIDE DEF open, gone
  <2> QED
    BY <2>1, <2>2, <2>3
<1> QED
  BY <1>7, <1>8, <1>9 DEF FillDone

\* so does a sale,
LEMMA SoldDone ==
    ASSUME BrokerInv, NEW k \in Keys, NEW quantity \in Nat \ {0},
           NEW price \in Ratio, Sold(k, quantity, price)
    PROVE  FillDone(k, "sell", quantity, price)
<1> DEFINE sale == SellFromLots(lots[k], quantity, price)
<1>1. /\ lots \in [Keys -> Seq(Lot)] /\ sold \in [Keys -> Seq(Event)]
      /\ lots' = [lots EXCEPT ![k] = sale.kept]
      /\ sold' = [sold EXCEPT ![k] = sold[k] \o sale.events]
  BY DEF BrokerInv, BrokerTypeOK, BooksType, Sold
<1>2. /\ sale \in SaleState
      /\ OpenIn(sale) = IF OpenLots(k) <= quantity THEN 0 ELSE OpenLots(k) - quantity
      /\ \A p : CarriedAt(sale, p) = Total(LotsAt(lots[k], p))
  BY <1>1, SellFacts DEF OpenLots
<1> HIDE DEF sale
<1>3. sale.kept \in Seq(Lot) /\ sale.events \in Seq(Event)
  BY <1>2 DEF SaleState
<1>4. /\ sold[k] \o sale.events \in Seq(Event)
      /\ \A p : Total(EventsAt(sold[k] \o sale.events, p)) =
                   Total(EventsAt(sold[k], p)) + Total(EventsAt(sale.events, p))
  BY <1>1, <1>3, EventsJoined
<1>5. /\ lots' \in [Keys -> Seq(Lot)] /\ lots'[k] = sale.kept
      /\ sold' \in [Keys -> Seq(Event)] /\ sold'[k] = sold[k] \o sale.events
      /\ \A j \in Keys : j # k => lots'[j] = lots[j] /\ sold'[j] = sold[j]
  BY <1>1, <1>3, <1>4
<1>6. /\ OpenLots(k)' = IF OpenLots(k) <= quantity THEN 0 ELSE OpenLots(k) - quantity
      /\ \A j \in Keys : j # k => OpenLots(j)' = OpenLots(j)
  BY <1>2, <1>5 DEF OpenLots, OpenIn
<1>7. /\ PositionsType'
      /\ OpenPosition(k)' = IF OpenPosition(k) <= quantity THEN 0 ELSE OpenPosition(k) - quantity
      /\ \A j \in Keys : j # k => OpenPosition(j)' = OpenPosition(j)
  <2>1. DOMAIN positions \subseteq Keys /\ positions \in [DOMAIN positions -> Position]
    BY DEF BrokerInv, BrokerTypeOK, BooksType, PositionsType
  <2>2. CASE k \notin DOMAIN positions
    <3>1. positions' = positions
      BY <2>2 DEF Sold
    <3> QED
      BY <2>1, <2>2, <3>1 DEF PositionsType, OpenPosition
  <2>3. CASE k \in DOMAIN positions /\ positions[k].quantity <= quantity
    <3>1. positions' = [j \in DOMAIN positions \ {k} |-> positions[j]]
      BY <2>3 DEF Sold, Without
    <3>2. /\ DOMAIN positions' = DOMAIN positions \ {k}
          /\ \A j \in DOMAIN positions' : positions'[j] = positions[j]
          /\ positions' \in [DOMAIN positions' -> Position]
      BY <2>1, <3>1
    <3> QED
      BY <2>1, <2>3, <3>2 DEF PositionsType, OpenPosition
  <2>4. CASE k \in DOMAIN positions /\ ~(positions[k].quantity <= quantity)
    <3> DEFINE new == [positions[k] EXCEPT !.quantity = positions[k].quantity - quantity]
    <3>1. positions[k] \in Position /\ positions[k].quantity \in Nat \ {0}
      BY <2>1, <2>4 DEF Position
    <3>2. new \in Position /\ new.quantity = positions[k].quantity - quantity
      BY <2>4, <3>1 DEF Position
    <3>3. positions' = [positions EXCEPT ![k] = new]
      BY <2>1, <2>4 DEF Sold
    <3> HIDE DEF new
    <3>4. /\ positions' \in [DOMAIN positions -> Position] /\ positions'[k] = new
          /\ \A j \in DOMAIN positions : j # k => positions'[j] = positions[j]
      BY <2>1, <2>4, <3>2, <3>3
    <3>5. DOMAIN positions' = DOMAIN positions
      BY <3>4
    <3> QED
      BY <2>1, <2>4, <3>1, <3>2, <3>4, <3>5 DEF PositionsType, OpenPosition
  <2> QED
    BY <2>2, <2>3, <2>4
<1>8. BooksType'
  BY <1>5, <1>7 DEF BooksType
<1>9. \A j \in Keys : OpenLots(j)' = OpenPosition(j)'
  <2>1. \A j \in Keys : OpenLots(j) = OpenPosition(j)
    BY DEF BrokerInv
  <2> QED
    BY <1>6, <1>7, <2>1
<1>10. ASSUME NEW j \in Keys, NEW p PROVE CarriedFor(j, p)' = CarriedFor(j, p) + 0
  <2> DEFINE open == Total(LotsAt(lots[j], p))
             gone == Total(EventsAt(sold[j], p))
  <2>1. open \in Nat /\ gone \in Nat
    BY <1>1, LotRows, EventRows, RunningFacts
  <2>2. CarriedFor(j, p) = open + gone
        /\ CarriedFor(j, p)' = Total(LotsAt(lots'[j], p)) + Total(EventsAt(sold'[j], p))
    BY DEF CarriedFor
  <2>3. CASE j # k
    BY <1>5, <2>1, <2>2, <2>3
  <2>4. CASE j = k
    <3> DEFINE kept == Total(LotsAt(sale.kept, p))
               events == Total(EventsAt(sale.events, p))
    <3>1. kept \in Nat /\ events \in Nat /\ kept + events = open
      BY <1>2, <2>4, SaleTotals DEF CarriedAt
    <3>2. Total(LotsAt(lots'[j], p)) = kept /\ Total(EventsAt(sold'[j], p)) = gone + events
      BY <1>4, <1>5, <2>4
    <3> HIDE DEF open, gone, kept, events
    <3> QED
      BY <2>1, <2>2, <3>1, <3>2
  <2> QED
    BY <2>3, <2>4
<1> QED
  BY <1>8, <1>9, <1>10 DEF FillDone

\* and so does a fill, of nothing too.
LEMMA FillFacts ==
    ASSUME BrokerInv, NEW k \in Keys, NEW side \in {"buy", "sell"}, NEW id \in Nat,
           NEW quantity \in Nat, NEW price \in Ratio, Fill(k, side, id, quantity, price)
    PROVE  FillDone(k, side, quantity, price)
<1>1. CASE quantity = 0
  <2>1. UNCHANGED <<lots, sold, positions>>
    BY <1>1 DEF Fill, Bought, Sold
  <2>2. \A j \in Keys : \A p : CarriedFor(j, p) \in Nat
    <3>1. lots \in [Keys -> Seq(Lot)] /\ sold \in [Keys -> Seq(Event)]
      BY DEF BrokerInv, BrokerTypeOK, BooksType
    <3>2. ASSUME NEW j \in Keys, NEW p PROVE CarriedFor(j, p) \in Nat
      <4>1. Total(LotsAt(lots[j], p)) \in Nat /\ Total(EventsAt(sold[j], p)) \in Nat
        BY <3>1, LotRows, EventRows, RunningFacts
      <4> QED
        BY <4>1 DEF CarriedFor
    <3> QED
      BY <3>2
  <2>3. BooksType' /\ \A j \in Keys : OpenLots(j)' = OpenPosition(j)'
    BY <2>1 DEF BrokerInv, BrokerTypeOK, BooksType, PositionsType, OpenLots, OpenPosition
  <2>4. \A j \in Keys : \A p : CarriedFor(j, p)' = CarriedFor(j, p) + 0
    <3>1. \A j \in Keys : \A p : CarriedFor(j, p)' = CarriedFor(j, p)
      BY <2>1 DEF CarriedFor
    <3> QED
      BY <2>2, <3>1
  <2> QED
    BY <1>1, <2>3, <2>4 DEF FillDone
<1>2. CASE quantity > 0 /\ side = "buy" /\ Bought(k, id, quantity, price)
  BY <1>2, BoughtDone
<1>3. CASE quantity > 0 /\ side = "sell" /\ Sold(k, quantity, price)
  BY <1>3, SoldDone
<1> QED
  BY <1>1, <1>2, <1>3 DEF Fill

-----------------------------------------------------------------------------
(* The operations.                                                         *)

\* A placed order fits its table.
LEMMA NewOrderType ==
    ASSUME clock \in Nat, NEW k \in Keys, NEW side \in {"buy", "sell"},
           NEW q \in Quantities, NEW price \in Ratio,
           NEW status \in {"pending", "filled", "rejected"}, NEW filled \in Nat
    PROVE  LET o == NewOrder(k, side, q, price, status, filled) IN
           /\ o \in Order /\ o.key = k /\ o.side = side /\ o.price = price
           /\ o.status = status /\ o.filled = filled
  BY DEF NewOrder, Order

\* An order appended that brings in what the books now carry keeps the invariant.
LEMMA AppendKeepsInvariant ==
    ASSUME BrokerInv, NEW o \in Order, orders' = Append(orders, o),
           UNCHANGED <<clock, depth>>, BooksType',
           \A j \in Keys : OpenLots(j)' = OpenPosition(j)',
           \A j \in Keys : \A p : CarriedFor(j, p)' = CarriedFor(j, p) + FilledAt(o, j, p)
    PROVE  BrokerInv'
<1>1. orders \in Seq(Order)
  BY DEF BrokerInv, BrokerTypeOK
<1>2. orders' \in Seq(Order)
  BY <1>1
<1>3. BrokerTypeOK'
  BY <1>2 DEF BrokerInv, BrokerTypeOK
<1>4. ASSUME NEW k \in Keys, NEW p PROVE Total(FillsAt(orders', k, p)) = CarriedFor(k, p)'
  <2>1. Total(FillsAt(orders', k, p)) = Total(FillsAt(orders, k, p)) + FilledAt(o, k, p)
    BY <1>1, OrderAppended
  <2> QED
    BY <2>1 DEF BrokerInv
<1> QED
  BY <1>3, <1>4 DEF BrokerInv

\* What the lots carry is a number; adding nothing leaves it.
LEMMA CarriedType ==
    ASSUME BrokerInv, NEW k \in Keys, NEW p
    PROVE  CarriedFor(k, p) \in Nat
<1>1. lots \in [Keys -> Seq(Lot)] /\ sold \in [Keys -> Seq(Event)]
  BY DEF BrokerInv, BrokerTypeOK, BooksType
<1>2. Total(LotsAt(lots[k], p)) \in Nat /\ Total(EventsAt(sold[k], p)) \in Nat
  BY <1>1, LotRows, EventRows, RunningFacts
<1> QED
  BY <1>2 DEF CarriedFor

\* An order placed that is not filled leaves the books alone.
LEMMA UnfilledKeepsInvariant ==
    ASSUME BrokerInv, NEW o \in Order, o.status # "filled", orders' = Append(orders, o),
           UNCHANGED <<clock, depth, positions, lots, sold>>
    PROVE  BrokerInv'
<1>1. BooksType' /\ \A j \in Keys : OpenLots(j)' = OpenPosition(j)'
  BY DEF BrokerInv, BrokerTypeOK, BooksType, PositionsType, OpenLots, OpenPosition
<1>2. ASSUME NEW j \in Keys, NEW p PROVE CarriedFor(j, p)' = CarriedFor(j, p) + FilledAt(o, j, p)
  <2>1. CarriedFor(j, p) \in Nat /\ FilledAt(o, j, p) = 0
    BY CarriedType DEF FilledAt
  <2>2. CarriedFor(j, p)' = CarriedFor(j, p)
    BY DEF CarriedFor
  <2> QED
    BY <2>1, <2>2
<1> QED
  BY <1>1, <1>2, AppendKeepsInvariant

\* place_order, however it ends.
LEMMA PlaceKeepsInvariant ==
    ASSUME BrokerInv, NEW k \in Keys, NEW side \in {"buy", "sell"},
           NEW q \in Quantities, NEW p \in Prices, PlaceOrder(k, side, q, p)
    PROVE  BrokerInv'
<1>1. q \in Nat /\ p \in Nat /\ Whole(p) \in Ratio
  BY BrokerAssumption DEF Whole, Ratio
<1>2. UNCHANGED <<clock, depth>> /\ clock \in Nat /\ depth \in [Keys -> Books \cup {NoBook}]
      /\ orders \in Seq(Order)
  BY DEF PlaceOrder, BrokerInv, BrokerTypeOK
<1>3. CASE Reject(k, side, q, p)
  <2> DEFINE o == NewOrder(k, side, q, Whole(p), "rejected", 0)
  <2>1. o \in Order /\ o.status = "rejected"
    BY <1>1, <1>2, NewOrderType
  <2>2. orders' = Append(orders, o) /\ UNCHANGED <<positions, lots, sold>>
    BY <1>3 DEF Reject
  <2> HIDE DEF o
  <2> QED
    BY <1>2, <2>1, <2>2, UnfilledKeepsInvariant
<1>4. CASE HoldForReview(k, side, q, p)
  <2> DEFINE price == Quote(k, q, p).price
             o == NewOrder(k, side, q, price, "pending", 0)
  <2>1. price \in Ratio
    BY <1>1, <1>2, QuoteType
  <2>2. orders' = Append(orders, o) /\ UNCHANGED <<positions, lots, sold>>
    BY <1>4 DEF HoldForReview
  <2> HIDE DEF price
  <2>3. o \in Order /\ o.status = "pending"
    BY <1>2, <2>1, NewOrderType
  <2> HIDE DEF o
  <2> QED
    BY <1>2, <2>2, <2>3, UnfilledKeepsInvariant
<1>5. CASE FillAtOnce(k, side, q, p)
  <2> DEFINE price == Quote(k, q, p).price
             filled == Quote(k, q, p).fillable
             o == NewOrder(k, side, q, price, "filled", filled)
             id == Len(orders) + 1
  <2>1. price \in Ratio /\ filled \in Nat
    BY <1>1, <1>2, QuoteType
  <2>2. orders' = Append(orders, o) /\ Fill(k, side, id, filled, price)
    BY <1>5 DEF FillAtOnce
  <2>3. id \in Nat
    BY <1>2
  <2> HIDE DEF price, filled, id
  <2>4. o \in Order /\ o.key = k /\ o.side = side /\ o.price = price
        /\ o.status = "filled" /\ o.filled = filled
    BY <1>2, <2>1, NewOrderType
  <2> HIDE DEF o
  <2>5. FillDone(k, side, filled, price)
    BY <2>1, <2>2, <2>3, FillFacts
  <2>6. ASSUME NEW j \in Keys, NEW r PROVE CarriedFor(j, r)' = CarriedFor(j, r) + FilledAt(o, j, r)
    <3>1. FilledAt(o, j, r) = IF side = "buy" /\ j = k /\ r = price THEN filled ELSE 0
      BY <2>4 DEF FilledAt
    <3> QED
      BY <2>5, <3>1 DEF FillDone
  <2> QED
    BY <1>2, <2>2, <2>4, <2>5, <2>6, AppendKeepsInvariant DEF FillDone
<1> QED
  BY <1>3, <1>4, <1>5 DEF PlaceOrder

\* A confirmed order was not filled before, so what it brings in is counted once.
LEMMA ConfirmKeepsInvariant ==
    ASSUME BrokerInv, NEW i \in DOMAIN orders, ConfirmAndFill(i)
    PROVE  BrokerInv'
<1> DEFINE o == orders[i]
           new == [o EXCEPT !.status = "filled", !.filled = o.quantity, !.since = 0]
<1>1. orders \in Seq(Order) /\ i \in 1..Len(orders) /\ o \in Order
  BY DEF BrokerInv, BrokerTypeOK
<1>2. /\ o.status = "pending" /\ o.key \in Keys /\ o.side \in {"buy", "sell"}
      /\ o.quantity \in Nat /\ o.price \in Ratio
  BY <1>1, BrokerAssumption DEF ConfirmAndFill, Confirmable, Order
<1>3. /\ new \in Order /\ new.key = o.key /\ new.side = o.side /\ new.price = o.price
      /\ new.status = "filled" /\ new.filled = o.quantity
  BY <1>1, <1>2 DEF Order
<1>4. orders' = [orders EXCEPT ![i] = new]
  BY <1>1 DEF ConfirmAndFill
<1> HIDE DEF new
<1>5. /\ orders' \in Seq(Order) /\ Len(orders') = Len(orders) /\ orders'[i] = new
      /\ \A j \in 1..Len(orders) : j # i => orders'[j] = orders[j]
  BY <1>1, <1>3, <1>4
<1>6. FillDone(o.key, o.side, o.quantity, o.price)
  <2>1. Fill(o.key, o.side, i, o.quantity, o.price) /\ i \in Nat
    BY <1>1 DEF ConfirmAndFill
  <2> HIDE DEF o
  <2> QED
    BY <1>2, <2>1, FillFacts
<1>7. BrokerTypeOK'
  BY <1>5, <1>6 DEF BrokerInv, BrokerTypeOK, ConfirmAndFill, FillDone
<1>8. ASSUME NEW k \in Keys, NEW p PROVE Total(FillsAt(orders', k, p)) = CarriedFor(k, p)'
  <2> DEFINE before == Total(FillsAt(orders, k, p))
             after == Total(FillsAt(orders', k, p))
             brought == IF o.side = "buy" /\ k = o.key /\ p = o.price THEN o.quantity ELSE 0
  <2>1. after + FilledAt(o, k, p) = before + FilledAt(new, k, p)
    BY <1>1, <1>5, OrderReplaced
  <2>2. FilledAt(o, k, p) = 0 /\ FilledAt(new, k, p) = brought
    BY <1>2, <1>3 DEF FilledAt
  <2>3. before = CarriedFor(k, p) /\ CarriedFor(k, p)' = CarriedFor(k, p) + brought
    BY <1>6 DEF BrokerInv, FillDone
  <2>4. after \in Nat
    BY <1>5, FillRows, RunningFacts
  <2> HIDE DEF before, after, brought
  <2>5. after = before + brought
    <3>1. after + 0 = before + brought
      BY <2>1, <2>2
    <3> QED
      BY <2>4, <3>1
  <2> QED
    BY <2>3, <2>5 DEF after
<1> QED
  BY <1>6, <1>7, <1>8 DEF BrokerInv, FillDone

\* A cancelled order was not filled, and brings in nothing.
LEMMA CancelKeepsInvariant ==
    ASSUME BrokerInv, NEW i \in DOMAIN orders, CancelOrder(i)
    PROVE  BrokerInv'
<1> DEFINE o == orders[i]
           new == [o EXCEPT !.status = "cancelled", !.since = 0]
<1>1. orders \in Seq(Order) /\ i \in 1..Len(orders) /\ o \in Order /\ o.status = "pending"
  BY DEF BrokerInv, BrokerTypeOK, CancelOrder
<1>2. new \in Order /\ new.status = "cancelled"
  BY <1>1 DEF Order
<1>3. orders' = [orders EXCEPT ![i] = new]
  BY <1>1 DEF CancelOrder
<1> HIDE DEF new
<1>4. /\ orders' \in Seq(Order) /\ Len(orders') = Len(orders) /\ orders'[i] = new
      /\ \A j \in 1..Len(orders) : j # i => orders'[j] = orders[j]
  BY <1>1, <1>2, <1>3
<1>5. BrokerTypeOK' /\ \A k \in Keys : OpenLots(k)' = OpenPosition(k)'
  BY <1>4 DEF BrokerInv, BrokerTypeOK, BooksType, PositionsType, CancelOrder, OpenLots, OpenPosition
<1>6. ASSUME NEW k \in Keys, NEW p PROVE Total(FillsAt(orders', k, p)) = CarriedFor(k, p)'
  <2> DEFINE before == Total(FillsAt(orders, k, p))
             after == Total(FillsAt(orders', k, p))
  <2>1. after + FilledAt(o, k, p) = before + FilledAt(new, k, p)
    BY <1>1, <1>4, OrderReplaced
  <2>2. FilledAt(o, k, p) = 0 /\ FilledAt(new, k, p) = 0
    BY <1>1, <1>2 DEF FilledAt
  <2>3. before = CarriedFor(k, p) /\ CarriedFor(k, p)' = CarriedFor(k, p)
    BY DEF BrokerInv, CancelOrder, CarriedFor
  <2>4. after \in Nat /\ before \in Nat
    BY <1>1, <1>4, FillRows, RunningFacts
  <2> HIDE DEF before, after
  <2>5. after + 0 = before + 0
    BY <2>1, <2>2
  <2>6. after = before
    BY <2>4, <2>5
  <2> QED
    BY <2>3, <2>6 DEF after
<1> QED
  BY <1>5, <1>6 DEF BrokerInv

\* The operations that touch neither the orders nor the books.
LEMMA OthersKeepBroker ==
    ASSUME BrokerInv, clock' \in Nat, depth' \in [Keys -> Books \cup {NoBook}],
           UNCHANGED <<orders, positions, lots, sold>>
    PROVE  BrokerInv'
<1>1. BrokerTypeOK'
  BY DEF BrokerInv, BrokerTypeOK, BooksType, PositionsType
<1>2. \A k \in Keys : OpenLots(k)' = OpenPosition(k)'
  BY DEF BrokerInv, OpenLots, OpenPosition
<1>3. \A k \in Keys : \A p : Total(FillsAt(orders, k, p))' = CarriedFor(k, p)'
  BY DEF BrokerInv, CarriedFor
<1> QED
  BY <1>1, <1>2, <1>3 DEF BrokerInv

\* The broker's books are consistent with each other and with its orders, for
\* any wallets, markets, quantities, prices and depth.
THEOREM BrokerInvariant == BrokerSpec => []BrokerInv
<1>1. BrokerInit => BrokerInv
  <2> SUFFICES ASSUME BrokerInit PROVE BrokerInv
    OBVIOUS
  <2>1. /\ clock = 0 /\ depth = [k \in Keys |-> NoBook] /\ orders = <<>> /\ positions = <<>>
        /\ lots = [k \in Keys |-> <<>>] /\ sold = [k \in Keys |-> <<>>]
    BY DEF BrokerInit
  <2>2. /\ <<>> \in Seq(Order) /\ <<>> \in Seq(Lot) /\ <<>> \in Seq(Event)
        /\ DOMAIN <<>> = {}
    OBVIOUS
  <2>3. PositionsType
    <3>1. positions \in [{} -> Position]
      BY <2>1, <2>2
    <3> QED
      BY <2>1, <2>2, <3>1 DEF PositionsType
  <2>4. BrokerTypeOK
    BY <2>1, <2>2, <2>3 DEF BrokerTypeOK, BooksType
  <2>5. \A p : /\ QuantitiesOf(<<>>) = <<>> /\ LotsAt(<<>>, p) = <<>> /\ EventsAt(<<>>, p) = <<>>
    BY <2>2 DEF QuantitiesOf, LotsAt, EventsAt
  <2>6. \A k, p : FillsAt(orders, k, p) = <<>>
    BY <2>1, <2>2 DEF FillsAt
  <2>7. \A k \in Keys : lots[k] = <<>> /\ sold[k] = <<>>
    BY <2>1
  <2>8. \A k \in Keys : OpenLots(k) = 0 /\ OpenPosition(k) = 0
    BY <2>1, <2>2, <2>5, <2>7, TotalEmpty DEF OpenLots, OpenPosition
  <2>9. \A k \in Keys : \A p : Total(FillsAt(orders, k, p)) = 0 /\ CarriedFor(k, p) = 0
    BY <2>5, <2>6, <2>7, TotalEmpty DEF CarriedFor
  <2> QED
    BY <2>4, <2>8, <2>9 DEF BrokerInv
<1>2. BrokerInv /\ [BrokerNext]_vars => BrokerInv'
  <2> SUFFICES ASSUME BrokerInv, [BrokerNext]_vars PROVE BrokerInv'
    OBVIOUS
  <2>0. clock \in Nat /\ depth \in [Keys -> Books \cup {NoBook}]
    BY DEF BrokerInv, BrokerTypeOK
  <2>1. ASSUME NEW k \in Keys, NEW side \in {"buy", "sell"}, NEW q \in Quantities,
               NEW p \in Prices, PlaceOrder(k, side, q, p)
        PROVE  BrokerInv'
    BY <2>1, PlaceKeepsInvariant
  <2>2. ASSUME NEW i \in DOMAIN orders, ConfirmAndFill(i) PROVE BrokerInv'
    BY <2>2, ConfirmKeepsInvariant
  <2>3. ASSUME NEW i \in DOMAIN orders, CancelOrder(i) PROVE BrokerInv'
    BY <2>3, CancelKeepsInvariant
  <2>4. ASSUME NEW k \in Keys, NEW e \in Evidence, SettleMarket(MarketOf(k), e) PROVE BrokerInv'
    BY <2>0, <2>4, OthersKeepBroker DEF SettleMarket
  <2>5. ASSUME NEW k \in Keys, NEW b \in Books, SetDepth(MarketOf(k), OutcomeOf(k), b)
        PROVE  BrokerInv'
    <3>1. depth' \in [Keys -> Books \cup {NoBook}]
      BY <2>0, <2>5 DEF SetDepth
    <3> QED
      BY <2>0, <2>5, <3>1, OthersKeepBroker DEF SetDepth
  <2>6. ASSUME NEW on \in BOOLEAN, SetKillSwitch(on) PROVE BrokerInv'
    BY <2>0, <2>6, OthersKeepBroker DEF SetKillSwitch
  <2>7. CASE Tick
    BY <2>0, <2>7, OthersKeepBroker DEF Tick
  <2>8. CASE UNCHANGED vars
    BY <2>0, <2>8, OthersKeepBroker DEF vars
  <2> QED
    BY <2>1, <2>2, <2>3, <2>4, <2>5, <2>6, <2>7, <2>8 DEF BrokerNext
<1> QED
  BY <1>1, <1>2, PTL DEF BrokerSpec

\* The positions and the FIFO lots say the same quantity of every key.
THEOREM PositionsMatchLots == BrokerSpec => []BookMatchesLots
<1>1. BrokerInv => BookMatchesLots
  BY InvImpliesProperties
<1> QED
  BY <1>1, BrokerInvariant, PTL

\* What was bought at a price is open or realized at that price, no more, no less.
THEOREM NoCostLost == BrokerSpec => []CostConserved
<1>1. BrokerInv => CostConserved
  BY InvImpliesProperties
<1> QED
  BY <1>1, BrokerInvariant, PTL

\* A settlement result once given is what every later call returns.
THEOREM ResultsKept == BrokerSpec => SettlementKept
<1> DEFINE Kept == \A x \in DOMAIN settled : x \in DOMAIN settled' /\ settled'[x] = settled[x]
<1>1. [BrokerNext]_vars => [Kept]_vars
  <2> SUFFICES ASSUME BrokerNext PROVE Kept
    BY DEF vars
  <2>1. ASSUME NEW k \in Keys, NEW e \in Evidence, SettleMarket(MarketOf(k), e) PROVE Kept
    <3>1. PICK results : settled' = Remember(results)
      BY <2>1 DEF SettleMarket
    <3>2. settled' = [x \in DOMAIN settled \cup DOMAIN results |->
                        IF x \in DOMAIN settled THEN settled[x] ELSE results[x]]
      BY <3>1 DEF Remember, Over
    <3> QED
      BY <3>2
  <2>2. CASE UNCHANGED settled
    BY <2>2
  <2> QED
    BY <2>1, <2>2 DEF BrokerNext, PlaceOrder, ConfirmAndFill, CancelOrder, SetDepth,
       SetKillSwitch, Tick
<1> QED
  BY <1>1, PTL DEF BrokerSpec, SettlementKept

-----------------------------------------------------------------------------
(* Totals over finite sets.  A sum is taken in the order of some listing of *)
(* its members; the listing does not matter.                               *)

Listed(e, S) ==
    /\ e \in [1..Cardinality(S) -> S]
    /\ \A i, j \in 1..Cardinality(S) : e[i] = e[j] => i = j
    /\ \A x \in S : \E i \in 1..Cardinality(S) : e[i] = x

Weighed(w, e) == [i \in DOMAIN e |-> w[e[i]]]

SetTotal(w, S) == Total(Weighed(w, SetToSeq(S)))

\* The listing of a finite set has each of its members once.
LEMMA ListingFacts ==
    ASSUME NEW S, IsFiniteSet(S)
    PROVE  Cardinality(S) \in Nat /\ Listed(SetToSeq(S), S)
<1> DEFINE n == Cardinality(S)
<1>1. n \in Nat /\ ExistsBijection(1..n, S)
  BY FS_CardinalityType
<1> HIDE DEF n
<1>2. PICK b \in Bijection(1..n, S) : TRUE
  BY <1>1 DEF ExistsBijection
<1>3. b \in [1..n -> S] /\ IsInjective(b)
  BY <1>2 DEF Bijection, Injection
<1>4. SetToSeq(S) \in [1..n -> S] /\ IsInjective(SetToSeq(S))
  BY <1>3 DEF SetToSeq, n
<1>5. SetToSeq(S) \in Injection(1..n, S)
  BY <1>4 DEF Injection
<1>6. IsFiniteSet(1..n) /\ Cardinality(1..n) = n
  BY <1>1, FS_Interval
<1>7. SetToSeq(S) \in Surjection(1..n, S)
  BY <1>5, <1>6, FS_Injection DEF n
<1> QED
  BY <1>1, <1>4, <1>7 DEF Listed, IsInjective, Surjection, n

WeighedWell(w, e, n) ==
    /\ Weighed(w, e) \in Seq(Nat) /\ Len(Weighed(w, e)) = n
    /\ \A i \in 1..n : Weighed(w, e)[i] = w[e[i]]

\* The weights of n members are a sequence of n numbers.
LEMMA WeighedFacts ==
    ASSUME NEW K, NEW w \in [K -> Nat], NEW n \in Nat, NEW e \in [1..n -> K]
    PROVE  WeighedWell(w, e, n)
<1> DEFINE f == Weighed(w, e)
<1>1. f = [i \in 1..n |-> w[e[i]]]
  BY DEF Weighed
<1> HIDE DEF f
<1>2. f \in [1..n -> Nat] /\ \A i \in 1..n : f[i] = w[e[i]]
  BY <1>1
<1> QED
  BY <1>2, IsSequence DEF f, WeighedWell

\* The totals of two listings are equal: the last of the one is found in the
\* other, and taken out of it by putting that one's last in its place.
Permuted(e, f, n) ==
    /\ \A i, j \in 1..n : e[i] = e[j] => i = j
    /\ \A i, j \in 1..n : f[i] = f[j] => i = j
    /\ \A i \in 1..n : \E j \in 1..n : e[i] = f[j]
    /\ \A i \in 1..n : \E j \in 1..n : f[i] = e[j]

Indifferent(K, w, n) ==
    \A e, f \in [1..n -> K] :
        Permuted(e, f, n) => Total(Weighed(w, e)) = Total(Weighed(w, f))

\* Two listings of the same members weigh the same.
LEMMA OrderIrrelevant ==
    ASSUME NEW K, NEW w \in [K -> Nat], NEW n \in Nat
    PROVE  Indifferent(K, w, n)
<1> DEFINE P(m) == \A a, b \in [1..m -> K] :
                     Permuted(a, b, m) => Total(Weighed(w, a)) = Total(Weighed(w, b))
           S == {m \in Nat : P(m)}
<1>1. 0 \in S
  <2> SUFFICES ASSUME NEW a \in [1..0 -> K], NEW b \in [1..0 -> K]
               PROVE  Total(Weighed(w, a)) = Total(Weighed(w, b))
    OBVIOUS
  <2>1. a = b
    OBVIOUS
  <2> QED
    BY <2>1
<1>2. ASSUME NEW m \in Nat, m \in S PROVE m + 1 \in S
  <2> SUFFICES P(m + 1)
    <3> HIDE DEF P
    <3> QED
      OBVIOUS
  <2> SUFFICES ASSUME NEW a \in [1..(m + 1) -> K], NEW b \in [1..(m + 1) -> K],
                      Permuted(a, b, m + 1)
               PROVE  Total(Weighed(w, a)) = Total(Weighed(w, b))
    BY Zenon
  <2> DEFINE n1 == m + 1
  <2>1. /\ n1 \in Nat /\ n1 \in 1..n1 /\ 1..m \subseteq 1..n1
        /\ \A j \in 1..n1 : j # n1 => j \in 1..m
        /\ \A j \in 1..m : j # n1
    OBVIOUS
  <2> HIDE DEF n1
  <2>2. a \in [1..n1 -> K] /\ b \in [1..n1 -> K] /\ Permuted(a, b, n1)
    BY DEF n1
  <2>3. PICK i \in 1..n1 : a[n1] = b[i]
    BY <2>1, <2>2 DEF Permuted
  <2> DEFINE a2 == [j \in 1..m |-> a[j]]
             b2 == [j \in 1..m |-> IF j = i THEN b[n1] ELSE b[j]]
             b3 == [j \in 1..n1 |-> IF j = i THEN b[n1] ELSE b[j]]
  <2>4. a2 \in [1..m -> K] /\ b2 \in [1..m -> K] /\ b3 \in [1..n1 -> K]
    BY <2>1, <2>2
  <2>5. /\ \A j \in 1..m : a2[j] = a[j]
        /\ \A j \in 1..m : b2[j] = IF j = i THEN b[n1] ELSE b[j]
        /\ \A j \in 1..n1 : b3[j] = IF j = i THEN b[n1] ELSE b[j]
    OBVIOUS
  <2> HIDE DEF a2, b2, b3
  <2>6. Permuted(a2, b2, m)
    <3>1. \A j, l \in 1..m : a2[j] = a2[l] => j = l
      BY <2>1, <2>2, <2>5 DEF Permuted
    <3>2. ASSUME NEW j \in 1..m, NEW l \in 1..m, b2[j] = b2[l] PROVE j = l
      <4> DEFINE t == IF j = i THEN n1 ELSE j
                 u == IF l = i THEN n1 ELSE l
      <4>1. t \in 1..n1 /\ u \in 1..n1 /\ b2[j] = b[t] /\ b2[l] = b[u]
        BY <2>1, <2>5
      <4>2. t = u
        <5> HIDE DEF t, u
        <5>1. b[t] = b[u]
          BY <3>2, <4>1
        <5> QED
          BY <2>2, <4>1, <5>1, Zenon DEF Permuted
      <4> QED
        BY <2>1, <4>2
    <3>3. ASSUME NEW j \in 1..m PROVE \E l \in 1..m : a2[j] = b2[l]
      <4>1. j \in 1..n1 /\ j # n1
        BY <2>1
      <4>2. PICK l \in 1..n1 : a[j] = b[l]
        BY <2>2, <4>1 DEF Permuted
      <4>3. l # i
        BY <2>1, <2>2, <2>3, <4>1, <4>2 DEF Permuted
      <4>4. CASE l = n1
        <5>1. i \in 1..m
          BY <2>1, <4>3, <4>4
        <5> QED
          BY <2>5, <4>2, <4>4, <5>1
      <4>5. CASE l # n1
        BY <2>1, <2>5, <4>2, <4>3, <4>5
      <4> QED
        BY <4>4, <4>5
    <3>4. ASSUME NEW j \in 1..m PROVE \E l \in 1..m : b2[j] = a2[l]
      <4>1. j \in 1..n1 /\ j # n1
        BY <2>1
      <4> DEFINE t == IF j = i THEN n1 ELSE j
      <4>2. t \in 1..n1 /\ t # i /\ b2[j] = b[t]
        BY <2>1, <2>5, <4>1
      <4> HIDE DEF t
      <4>3. PICK l \in 1..n1 : b[t] = a[l]
        BY <2>2, <4>2 DEF Permuted
      <4>4. ASSUME l = n1 PROVE FALSE
        <5>1. b[t] = b[i]
          BY <2>3, <4>3, <4>4
        <5> QED
          BY <2>2, <4>2, <5>1 DEF Permuted
      <4> QED
        <5>1. l \in 1..m
          BY <2>1, <4>4
        <5> QED
          BY <2>5, <4>2, <4>3, <5>1
    <3> QED
      BY <3>1, <3>2, <3>3, <3>4 DEF Permuted
  <2>7. Total(Weighed(w, a2)) = Total(Weighed(w, b2))
    BY <1>2, <2>4, <2>6
  <2>0. /\ WeighedWell(w, a, n1) /\ WeighedWell(w, b, n1) /\ WeighedWell(w, b3, n1)
        /\ WeighedWell(w, a2, m) /\ WeighedWell(w, b2, m)
    <3>1. WeighedWell(w, a, n1)
      BY <2>1, <2>2, WeighedFacts
    <3>2. WeighedWell(w, b, n1)
      BY <2>1, <2>2, WeighedFacts
    <3>3. WeighedWell(w, b3, n1)
      BY <2>1, <2>4, WeighedFacts
    <3>4. WeighedWell(w, a2, m)
      BY <2>4, WeighedFacts
    <3>5. WeighedWell(w, b2, m)
      BY <2>4, WeighedFacts
    <3> QED
      BY <3>1, <3>2, <3>3, <3>4, <3>5
  <2> DEFINE x == w[a[n1]]
             y == w[b[n1]]
             wa == Weighed(w, a)
             wb == Weighed(w, b)
             wa2 == Weighed(w, a2)
             wb2 == Weighed(w, b2)
             wb3 == Weighed(w, b3)
  <2>8. x \in Nat /\ y \in Nat
    BY <2>1, <2>2
  <2>9. /\ wa \in Seq(Nat) /\ Len(wa) = n1 /\ \A j \in 1..n1 : wa[j] = w[a[j]]
        /\ wb \in Seq(Nat) /\ Len(wb) = n1 /\ \A j \in 1..n1 : wb[j] = w[b[j]]
        /\ wb3 \in Seq(Nat) /\ Len(wb3) = n1 /\ \A j \in 1..n1 : wb3[j] = w[b3[j]]
    BY <2>0 DEF WeighedWell
  <2>10. /\ wa2 \in Seq(Nat) /\ Len(wa2) = m /\ \A j \in 1..m : wa2[j] = w[a2[j]]
         /\ wb2 \in Seq(Nat) /\ Len(wb2) = m /\ \A j \in 1..m : wb2[j] = w[b2[j]]
    BY <2>0 DEF WeighedWell
  <2>11. Total(wa) = Total(wa2) + x
    <3>1. Len(wa) = Len(wa2) + 1
      BY <2>9, <2>10 DEF n1
    <3>2. ASSUME NEW j \in 1..Len(wa2) PROVE wa[j] = wa2[j]
      <4>1. j \in 1..m /\ j \in 1..n1 /\ a2[j] = a[j]
        BY <2>1, <2>5, <2>10
      <4>2. wa[j] = w[a[j]] /\ wa2[j] = w[a2[j]]
        BY <2>9, <2>10, <4>1
      <4> QED
        BY <4>1, <4>2
    <3>3. wa[Len(wa2) + 1] = x
      BY <2>1, <2>9, <2>10 DEF n1
    <3> HIDE DEF wa, wa2, x
    <3> QED
      BY <2>9, <2>10, <3>1, <3>2, <3>3, TotalExtends
  <2>12. Total(wb3) = Total(wb2) + y
    <3>1. Len(wb3) = Len(wb2) + 1
      BY <2>9, <2>10 DEF n1
    <3>2. ASSUME NEW j \in 1..Len(wb2) PROVE wb3[j] = wb2[j]
      <4>1. j \in 1..m /\ j \in 1..n1 /\ b3[j] = b2[j]
        BY <2>1, <2>5, <2>10
      <4>2. wb3[j] = w[b3[j]] /\ wb2[j] = w[b2[j]]
        BY <2>9, <2>10, <4>1
      <4> QED
        BY <4>1, <4>2
    <3>3. wb3[Len(wb2) + 1] = y
      <4>1. b3[n1] = b[n1]
        BY <2>1, <2>5
      <4> QED
        BY <2>1, <2>9, <2>10, <4>1 DEF n1
    <3> HIDE DEF wb3, wb2, y
    <3> QED
      BY <2>9, <2>10, <3>1, <3>2, <3>3, TotalExtends
  <2>13. Total(wb3) + x = Total(wb) + y
    <3>1. wb[i] = x /\ wb3[i] = y
      <4>1. i \in 1..n1 /\ b[i] = a[n1] /\ b3[i] = b[n1]
        BY <2>3, <2>5
      <4>2. wb[i] = w[b[i]]
        BY <2>9, <4>1
      <4>3. wb3[i] = w[b3[i]]
        BY <2>9, <4>1
      <4> QED
        BY <4>1, <4>2, <4>3
    <3>2. ASSUME NEW j \in 1..n1, j # i PROVE wb3[j] = wb[j]
      <4>1. b3[j] = b[j]
        BY <2>5, <3>2
      <4>2. wb3[j] = w[b3[j]] /\ wb[j] = w[b[j]]
        BY <2>9
      <4> QED
        BY <4>1, <4>2
    <3> HIDE DEF wb, wb3, x, y
    <3> QED
      <4>1. wb \in Seq(Nat) /\ wb3 \in Seq(Nat) /\ Len(wb3) = Len(wb) /\ i \in 1..Len(wb)
            /\ \A j \in 1..Len(wb) : j # i => wb3[j] = wb[j]
        BY <2>9, <3>2
      <4>2. Total(wb3) + wb[i] = Total(wb) + wb3[i]
        BY <4>1, TotalReplace
      <4> QED
        BY <3>1, <4>2
  <2>14. /\ Total(wa) \in Nat /\ Total(wb) \in Nat /\ Total(wa2) \in Nat
         /\ Total(wb2) \in Nat /\ Total(wb3) \in Nat
    BY <2>9, <2>10, RunningFacts
  <2> DEFINE ta == Total(wa)
             tb == Total(wb)
             ta2 == Total(wa2)
             tb2 == Total(wb2)
             tb3 == Total(wb3)
  <2> HIDE DEF ta, tb, ta2, tb2, tb3, x, y
  <2>15. /\ ta2 = tb2 /\ ta = ta2 + x /\ tb3 = tb2 + y /\ tb3 + x = tb + y
         /\ ta \in Nat /\ tb \in Nat /\ ta2 \in Nat /\ tb2 \in Nat /\ tb3 \in Nat
    BY <2>7, <2>11, <2>12, <2>13, <2>14 DEF ta, tb, ta2, tb2, tb3
  <2>16. ta = tb
    BY <2>8, <2>15
  <2> QED
    BY <2>16 DEF ta, tb
<1>3. Nat \subseteq S
  <2> HIDE DEF S
  <2> QED
    BY <1>1, <1>2, Induction
<1> QED
  BY <1>3 DEF Indifferent

\* A set with one more member has a total by that much larger.
LEMMA SetTotalAdd ==
    ASSUME NEW K, NEW w \in [K -> Nat], NEW S \in SUBSET K, IsFiniteSet(S),
           NEW k \in K, k \notin S
    PROVE  /\ SetTotal(w, S) \in Nat
           /\ SetTotal(w, S \cup {k}) = SetTotal(w, S) + w[k]
<1> DEFINE n == Cardinality(S)
           m == n + 1
           e == SetToSeq(S)
           f == SetToSeq(S \cup {k})
           g == [i \in 1..m |-> IF i = m THEN k ELSE e[i]]
<1>1. n \in Nat /\ Listed(e, S)
  BY ListingFacts
<1>2. IsFiniteSet(S \cup {k}) /\ Cardinality(S \cup {k}) = m
  BY FS_AddElement
<1>3. Listed(f, S \cup {k})
  BY <1>2, ListingFacts
<1> HIDE DEF n, e, f
<1>4. /\ m \in Nat /\ m \in 1..m /\ 1..n \subseteq 1..m
      /\ (\A i \in 1..m : i # m => i \in 1..n) /\ \A i \in 1..n : i # m
  BY <1>1
<1>5. e \in [1..n -> S] /\ e \in [1..n -> K]
  BY <1>1 DEF Listed, n
<1>6. f \in [1..m -> S \cup {k}] /\ f \in [1..m -> K]
  <2>1. f \in [1..m -> S \cup {k}]
    BY <1>2, <1>3 DEF Listed
  <2>2. S \cup {k} \subseteq K
    OBVIOUS
  <2> HIDE DEF m
  <2> QED
    BY <2>1, <2>2
<1> HIDE DEF m
<1>7. /\ g \in [1..m -> K] /\ g[m] = k /\ \A i \in 1..n : g[i] = e[i]
  BY <1>4, <1>5
<1>8. /\ \A i, j \in 1..n : e[i] = e[j] => i = j
      /\ \A x \in S : \E i \in 1..n : e[i] = x
  BY <1>1 DEF Listed, n
<1>9. /\ \A i, j \in 1..m : f[i] = f[j] => i = j
      /\ \A x \in S \cup {k} : \E i \in 1..m : f[i] = x
  BY <1>2, <1>3 DEF Listed
<1> HIDE DEF g
<1>10. Permuted(g, f, m)
  <2>1. ASSUME NEW i \in 1..m, NEW j \in 1..m, g[i] = g[j] PROVE i = j
    <3>1. CASE i = m /\ j = m
      BY <3>1
    <3>2. CASE i # m /\ j # m
      BY <1>4, <1>7, <1>8, <2>1, <3>2
    <3>3. CASE i = m /\ j # m
      <4>1. j \in 1..n /\ e[j] \in S
        BY <1>4, <1>5, <3>3
      <4> QED
        BY <1>7, <2>1, <3>3, <4>1
    <3>4. CASE i # m /\ j = m
      <4>1. i \in 1..n /\ e[i] \in S
        BY <1>4, <1>5, <3>4
      <4> QED
        BY <1>7, <2>1, <3>4, <4>1
    <3> QED
      BY <3>1, <3>2, <3>3, <3>4
  <2>2. ASSUME NEW i \in 1..m PROVE \E j \in 1..m : g[i] = f[j]
    <3>1. g[i] \in S \cup {k}
      <4>1. CASE i = m
        BY <1>7, <4>1
      <4>2. CASE i # m
        BY <1>4, <1>5, <1>7, <4>2
      <4> QED
        BY <4>1, <4>2
    <3> QED
      BY <1>9, <3>1
  <2>3. ASSUME NEW i \in 1..m PROVE \E j \in 1..m : f[i] = g[j]
    <3>1. CASE f[i] = k
      BY <1>4, <1>7, <3>1
    <3>2. CASE f[i] \in S
      BY <1>4, <1>7, <1>8, <3>2
    <3> QED
      BY <1>6, <3>1, <3>2
  <2> QED
    BY <1>9, <2>1, <2>2, <2>3 DEF Permuted
<1>11. Total(Weighed(w, g)) = Total(Weighed(w, f))
  <2>1. m \in Nat /\ g \in [1..m -> K] /\ f \in [1..m -> K]
    BY <1>4, <1>6, <1>7
  <2>2. Indifferent(K, w, m)
    BY <2>1, OrderIrrelevant
  <2> QED
    BY <1>10, <2>1, <2>2 DEF Indifferent
<1>12. /\ Weighed(w, e) \in Seq(Nat) /\ Len(Weighed(w, e)) = n
       /\ \A i \in 1..n : Weighed(w, e)[i] = w[e[i]]
  BY <1>1, <1>5, WeighedFacts DEF WeighedWell
<1>13. /\ Weighed(w, g) \in Seq(Nat) /\ Len(Weighed(w, g)) = m
       /\ \A i \in 1..m : Weighed(w, g)[i] = w[g[i]]
  BY <1>4, <1>7, WeighedFacts DEF WeighedWell
<1>14. Total(Weighed(w, g)) = Total(Weighed(w, e)) + w[k]
  <2> DEFINE we == Weighed(w, e)
             wg == Weighed(w, g)
  <2>1. Len(wg) = Len(we) + 1 /\ wg[Len(we) + 1] = w[k]
    BY <1>4, <1>7, <1>12, <1>13 DEF m
  <2>2. ASSUME NEW i \in 1..Len(we) PROVE wg[i] = we[i]
    <3>1. i \in 1..n
      BY <1>12
    <3>2. i \in 1..m /\ g[i] = e[i]
      BY <1>4, <1>7, <3>1
    <3>3. we[i] = w[e[i]] /\ wg[i] = w[g[i]]
      BY <1>12, <1>13, <3>1, <3>2
    <3> QED
      BY <3>2, <3>3
  <2>3. we \in Seq(Nat) /\ wg \in Seq(Nat)
    BY <1>12, <1>13
  <2> HIDE DEF we, wg
  <2>4. Total(wg) = Total(we) + w[k]
    BY <2>1, <2>2, <2>3, TotalExtends
  <2> QED
    BY <2>4 DEF we, wg
<1>15. Total(Weighed(w, e)) \in Nat
  BY <1>12, RunningFacts
<1> QED
  BY <1>11, <1>14, <1>15 DEF SetTotal, e, f

\* The total of a set depends on its members' weights only.
LEMMA SetTotalAgree ==
    ASSUME NEW K, NEW w \in [K -> Nat], NEW v \in [K -> Nat], NEW S \in SUBSET K,
           IsFiniteSet(S), \A x \in S : w[x] = v[x]
    PROVE  SetTotal(w, S) = SetTotal(v, S)
<1>1. SetToSeq(S) \in [1..Cardinality(S) -> S]
  BY ListingFacts DEF Listed
<1>2. Weighed(w, SetToSeq(S)) = Weighed(v, SetToSeq(S))
  BY <1>1 DEF Weighed
<1> QED
  BY <1>2 DEF SetTotal

-----------------------------------------------------------------------------
(* Ratios over one denominator add up like numbers: r is n parts of which D *)
(* make one.                                                               *)

Parts(r, D, n) == r \in Ratio /\ r[1] * D = n * r[2]

\* Multiplying by a number that is not 0 keeps the order.
LEMMA ProductsOrdered ==
    ASSUME NEW a \in Nat, NEW b \in Nat, NEW c \in Nat \ {0}
    PROVE  a * c > b * c <=> a > b
<1>1. CASE a > b
  <2>1. PICK e \in Nat \ {0} : a = b + e
    <3>1. a - b \in Nat \ {0} /\ a = b + (a - b)
      BY <1>1
    <3> QED
      BY <3>1
  <2>2. a * c = b * c + e * c
    BY <2>1
  <2>3. e * c > 0
    OBVIOUS
  <2> QED
    BY <1>1, <2>2, <2>3
<1>2. CASE ~(a > b)
  <2>1. PICK e \in Nat : b = a + e
    <3>1. b - a \in Nat /\ b = a + (b - a)
      BY <1>2
    <3> QED
      BY <3>1
  <2>2. b * c = a * c + e * c
    BY <2>1
  <2>3. e * c >= 0
    OBVIOUS
  <2> QED
    BY <1>2, <2>2, <2>3
<1> QED
  BY <1>1, <1>2

\* Parts add up,
LEMMA PartsAdd ==
    ASSUME NEW D \in Nat, NEW a, NEW b, NEW n \in Nat, NEW u \in Nat,
           Parts(a, D, n), Parts(b, D, u)
    PROVE  Parts(Plus(a, b), D, n + u)
<1>1. PICK a1 \in Nat, a2 \in Nat \ {0} : a = <<a1, a2>> /\ a1 * D = n * a2
  BY DEF Parts, Ratio
<1>2. PICK b1 \in Nat, b2 \in Nat \ {0} : b = <<b1, b2>> /\ b1 * D = u * b2
  BY DEF Parts, Ratio
<1>3. CASE a2 = b2
  <2>1. Plus(a, b) = <<a1 + b1, a2>>
    BY <1>1, <1>2, <1>3 DEF Plus
  <2>2. (a1 + b1) * D = (n + u) * a2
    BY <1>1, <1>2, <1>3
  <2> QED
    BY <2>1, <2>2 DEF Parts, Ratio
<1>4. CASE a2 # b2
  <2> DEFINE x == a1 * b2
             y == b1 * a2
             z == a2 * b2
  <2>1. Plus(a, b) = <<x + y, z>>
    BY <1>1, <1>2, <1>4 DEF Plus
  <2>2. x \in Nat /\ y \in Nat /\ z \in Nat \ {0}
    OBVIOUS
  <2>3. x * D = n * z
    <3>1. (a1 * D) * b2 = (n * a2) * b2
      BY <1>1
    <3> QED
      BY <3>1
  <2>4. y * D = u * z
    <3>1. (b1 * D) * a2 = (u * b2) * a2
      BY <1>2
    <3> QED
      BY <3>1
  <2> HIDE DEF x, y, z
  <2>5. (x + y) * D = (n + u) * z
    BY <2>2, <2>3, <2>4
  <2>6. x + y \in Nat
    BY <2>2
  <2> QED
    BY <2>1, <2>2, <2>5, <2>6 DEF Parts, Ratio
<1> QED
  BY <1>3, <1>4

\* multiply,
LEMMA PartsTimes ==
    ASSUME NEW D \in Nat, NEW a, NEW n \in Nat, NEW q \in Nat, Parts(a, D, n)
    PROVE  Parts(Times(q, a), D, q * n)
<1>1. PICK a1 \in Nat, a2 \in Nat \ {0} : a = <<a1, a2>> /\ a1 * D = n * a2
  BY DEF Parts, Ratio
<1> DEFINE x == q * a1
<1>2. Times(q, a) = <<x, a2>>
  BY <1>1 DEF Times
<1>3. x \in Nat /\ x * D = (q * n) * a2
  <2>1. q * (a1 * D) = q * (n * a2)
    BY <1>1
  <2> QED
    BY <2>1
<1> HIDE DEF x
<1> QED
  BY <1>2, <1>3 DEF Parts, Ratio

\* and survive an average: t times the t-th part is the whole.
LEMMA PartsScaled ==
    ASSUME NEW D \in Nat, NEW a, NEW n \in Nat, NEW t \in Nat \ {0}, Parts(a, D, n)
    PROVE  Parts(Times(t, <<a[1], a[2] * t>>), D, n)
<1>1. PICK a1 \in Nat, a2 \in Nat \ {0} : a = <<a1, a2>> /\ a1 * D = n * a2
  BY DEF Parts, Ratio
<1> DEFINE x == t * a1
           y == a2 * t
<1>2. Times(t, <<a[1], a[2] * t>>) = <<x, y>>
  BY <1>1 DEF Times
<1>3. x \in Nat /\ y \in Nat \ {0} /\ x * D = n * y
  <2>1. (a1 * D) * t = (n * a2) * t
    BY <1>1
  <2> QED
    BY <2>1
<1> HIDE DEF x, y
<1>4. Parts(<<x, y>>, D, n)
  BY <1>3 DEF Parts, Ratio
<1> QED
  BY <1>2, <1>4

\* A whole number has D parts for each of its ones.
LEMMA PartsOfWhole ==
    ASSUME NEW D \in Nat, NEW n \in Nat
    PROVE  Parts(Whole(n), D, n * D)
  BY DEF Parts, Whole, Ratio

\* Which ratios exceed a limit is a matter of their parts.
LEMMA PartsExceed ==
    ASSUME NEW D \in Nat \ {0}, NEW a, NEW n \in Nat, NEW limit \in Nat, Parts(a, D, n)
    PROVE  Exceeded(a, limit) <=> limit > 0 /\ n > limit * D
<1>1. PICK a1 \in Nat, a2 \in Nat \ {0} : a = <<a1, a2>> /\ a1 * D = n * a2
  BY DEF Parts, Ratio
<1>2. More(a, Whole(limit)) <=> a1 > limit * a2
  BY <1>1 DEF More, Whole
<1>3. a1 > limit * a2 <=> a1 * D > (limit * a2) * D
  <2> DEFINE x == limit * a2
  <2>1. x \in Nat
    OBVIOUS
  <2> HIDE DEF x
  <2>2. a1 > x <=> a1 * D > x * D
    BY <2>1, ProductsOrdered
  <2> QED
    BY <2>2 DEF x
<1>4. n > limit * D <=> n * a2 > (limit * D) * a2
  <2> DEFINE x == limit * D
  <2>1. x \in Nat
    OBVIOUS
  <2> HIDE DEF x
  <2>2. n > x <=> n * a2 > x * a2
    BY <2>1, ProductsOrdered
  <2> QED
    BY <2>2 DEF x
<1>5. (limit * a2) * D = (limit * D) * a2
  OBVIOUS
<1> QED
  BY <1>1, <1>2, <1>3, <1>4, <1>5 DEF Exceeded

\* The total of ratios over one denominator has the total of their parts.
LEMMA TotalParts ==
    ASSUME NEW D \in Nat, NEW q \in Seq(Ratio), NEW m \in Seq(Nat), Len(m) = Len(q),
           \A i \in 1..Len(q) : Parts(q[i], D, m[i])
    PROVE  Parts(TotalRatio(q), D, Total(m))
<1> DEFINE n == Len(q)
           step == [x \in Ratio \X Nat |-> IF x[2] \in 1..n THEN Plus(x[1], q[x[2]]) ELSE x[1]]
           sum == CHOOSE s : s = [i \in 0..n |-> IF i = 0 THEN Whole(0) ELSE Plus(s[i - 1], q[i])]
<1>1. n \in Nat /\ \A i \in 1..n : q[i] \in Ratio /\ m[i] \in Nat
  OBVIOUS
<1>2. /\ Running(m) \in [0..n -> Nat] /\ Running(m)[0] = 0 /\ Total(m) = Running(m)[n]
      /\ \A i \in 1..n : Running(m)[i] = Running(m)[i - 1] + m[i]
  BY RunningFacts
<1>3. TotalRatio(q) = sum[n]
  BY DEF TotalRatio
<1>4. \A i \in 1..n : Parts(q[i], D, m[i])
  OBVIOUS
<1> HIDE DEF n
<1>5. Whole(0) \in Ratio /\ Parts(Whole(0), D, 0)
  BY DEF Whole, Ratio, Parts
<1>6. \A a \in Ratio, i \in 1..n : Plus(a, q[i]) \in Ratio
  BY <1>1, RatioSums
<1>7. step \in [Ratio \X Nat -> Ratio]
  BY <1>6
<1>8. \A a \in Ratio, i \in 1..n : step[<<a, i>>] = Plus(a, q[i])
  <2>1. \A i \in 1..n : i \in Nat
    BY <1>1
  <2> QED
    BY <2>1
<1> HIDE DEF step
<1>9. PICK f \in [0..n -> Ratio] :
         f[0] = Whole(0) /\ \A i \in 1..n : f[i] = step[<<f[i - 1], i>>]
  <2>1. Solvable(Ratio, Whole(0), step, n)
    BY <1>1, <1>5, <1>7, Recursion
  <2> QED
    BY <2>1 DEF Solvable
<1>10. f = [i \in 0..n |-> IF i = 0 THEN Whole(0) ELSE Plus(f[i - 1], q[i])]
  <2>1. ASSUME NEW i \in 1..n PROVE f[i] = Plus(f[i - 1], q[i])
    <3>1. f[i - 1] \in Ratio
      BY <1>1, <1>9
    <3> QED
      BY <1>8, <1>9, <3>1
  <2>2. \A i \in 0..n : f[i] = IF i = 0 THEN Whole(0) ELSE Plus(f[i - 1], q[i])
    BY <1>1, <1>9, <2>1
  <2> QED
    BY <2>2
<1>11. sum = [i \in 0..n |-> IF i = 0 THEN Whole(0) ELSE Plus(sum[i - 1], q[i])]
  BY <1>10
<1> HIDE DEF sum
<1>12. \A i \in 0..n : sum[i] = IF i = 0 THEN Whole(0) ELSE Plus(sum[i - 1], q[i])
  BY <1>11
<1> DEFINE S == {i \in Nat : i \in 0..n => Parts(sum[i], D, Running(m)[i])}
<1>13. Nat \subseteq S
  <2>1. 0 \in S
    BY <1>1, <1>2, <1>5, <1>12
  <2>2. ASSUME NEW i \in Nat, i \in S PROVE i + 1 \in S
    <3>1. CASE i + 1 \in 0..n
      <4>1. i \in 0..n /\ i + 1 \in 1..n /\ (i + 1) - 1 = i /\ i + 1 # 0
        BY <1>1, <3>1
      <4>2. sum[i + 1] = Plus(sum[i], q[i + 1]) /\ Running(m)[i + 1] = Running(m)[i] + m[i + 1]
        BY <1>2, <1>12, <3>1, <4>1
      <4>3. Parts(sum[i], D, Running(m)[i]) /\ Running(m)[i] \in Nat
        BY <1>2, <2>2, <4>1
      <4>4. Parts(q[i + 1], D, m[i + 1]) /\ m[i + 1] \in Nat
        BY <1>1, <1>4, <4>1
      <4>5. Parts(Plus(sum[i], q[i + 1]), D, Running(m)[i] + m[i + 1])
        BY <4>3, <4>4, PartsAdd
      <4> QED
        BY <4>2, <4>5
    <3> QED
      BY <3>1
  <2> HIDE DEF S
  <2> QED
    BY <2>1, <2>2, Induction
<1>14. n \in 0..n /\ n \in S
  BY <1>1, <1>13
<1> QED
  BY <1>2, <1>3, <1>14

\* Finitely many ratios have a common denominator.
Commensurable(P, avg) ==
    \E D \in Nat \ {0} : \E g \in [P -> Nat] : \A x \in P : Parts(avg[x], D, g[x])

\* By one ratio after the other.
LEMMA CommonDenominator ==
    ASSUME NEW P, IsFiniteSet(P), NEW avg \in [P -> Ratio]
    PROVE  Commensurable(P, avg)
<1> DEFINE n == Cardinality(P)
           e == SetToSeq(P)
           Upto(m) == \E D \in Nat \ {0} : \E g \in [P -> Nat] :
                         \A i \in 1..m : i \in 1..n => Parts(avg[e[i]], D, g[e[i]])
           S == {m \in Nat : Upto(m)}
<1>1. n \in Nat /\ e \in [1..n -> P] /\ \A x \in P : \E i \in 1..n : e[i] = x
  BY ListingFacts DEF Listed
<1> HIDE DEF n, e
<1>2. 0 \in S
  <2> DEFINE g == [x \in P |-> 0]
  <2>1. 1 \in Nat \ {0} /\ g \in [P -> Nat] /\ \A i \in 1..0 : FALSE
    OBVIOUS
  <2> HIDE DEF g
  <2> QED
    BY <2>1
<1>3. ASSUME NEW m \in Nat, m \in S PROVE m + 1 \in S
  <2>1. PICK D \in Nat \ {0}, g \in [P -> Nat] :
           \A i \in 1..m : i \in 1..n => Parts(avg[e[i]], D, g[e[i]])
    BY <1>3
  <2>2. CASE m + 1 \notin 1..n
    <3>1. \A i \in 1..(m + 1) : i \in 1..n => i \in 1..m
      BY <1>1, <2>2
    <3> QED
      BY <2>1, <3>1
  <2>3. CASE m + 1 \in 1..n
    <3> DEFINE y == e[m + 1]
    <3>1. y \in P
      BY <1>1, <2>3
    <3>2. PICK c \in Nat, d \in Nat \ {0} : avg[y] = <<c, d>>
      BY <3>1 DEF Ratio
    <3> HIDE DEF y
    <3> DEFINE E == D * d
               h == [x \in P |-> IF x = y THEN c * D ELSE g[x] * d]
    <3>3. E \in Nat \ {0} /\ c * D \in Nat /\ \A x \in P : g[x] * d \in Nat
      <4>1. \A x \in P : g[x] \in Nat
        OBVIOUS
      <4> QED
        BY <4>1, Products
    <3>4. h \in [P -> Nat]
      BY <3>3
    <3>5. Parts(avg[y], E, h[y])
      <4>1. h[y] = c * D
        BY <3>1
      <4>2. c * (D * d) = (c * D) * d
        OBVIOUS
      <4> QED
        BY <3>1, <3>2, <4>1, <4>2 DEF Parts
    <3>6. ASSUME NEW x \in P, x # y, Parts(avg[x], D, g[x]) PROVE Parts(avg[x], E, h[x])
      <4>1. h[x] = g[x] * d /\ g[x] \in Nat
        BY <3>6
      <4>2. PICK a1 \in Nat, a2 \in Nat \ {0} : avg[x] = <<a1, a2>> /\ a1 * D = g[x] * a2
        BY <3>6 DEF Parts, Ratio
      <4>3. a1 * (D * d) = (g[x] * d) * a2
        <5> DEFINE gx == g[x]
        <5>1. gx \in Nat /\ a1 * D = gx * a2
          BY <4>1, <4>2
        <5> HIDE DEF gx
        <5>2. (a1 * D) * d = (gx * a2) * d
          BY <5>1
        <5>3. a1 * (D * d) = (gx * d) * a2
          BY <5>1, <5>2
        <5> QED
          BY <5>3 DEF gx
      <4> QED
        BY <3>6, <4>1, <4>2, <4>3 DEF Parts
    <3> HIDE DEF E, h
    <3>7. ASSUME NEW i \in 1..(m + 1), i \in 1..n PROVE Parts(avg[e[i]], E, h[e[i]])
      <4>1. CASE e[i] = y
        BY <3>5, <4>1
      <4>2. CASE e[i] # y
        <5>1. i \in 1..m
          BY <3>7, <4>2 DEF y
        <5>2. e[i] \in P /\ Parts(avg[e[i]], D, g[e[i]])
          BY <1>1, <2>1, <3>7, <5>1
        <5> QED
          BY <3>6, <4>2, <5>2
      <4> QED
        BY <4>1, <4>2
    <3>8. Upto(m + 1)
      BY <3>3, <3>4, <3>7
    <3> QED
      BY <3>8
  <2> QED
    BY <2>2, <2>3
<1>4. n \in S
  <2> HIDE DEF S
  <2> QED
    BY <1>1, <1>2, <1>3, Induction
<1>5. PICK D \in Nat \ {0}, g \in [P -> Nat] : \A i \in 1..n : Parts(avg[e[i]], D, g[e[i]])
  BY <1>4
<1>6. \A x \in P : Parts(avg[x], D, g[x])
  BY <1>1, <1>5
<1> QED
  BY <1>6 DEF Commensurable

\* The total of a set is a number.
LEMMA SetTotalType ==
    ASSUME NEW K, NEW w \in [K -> Nat], NEW S \in SUBSET K, IsFiniteSet(S)
    PROVE  SetTotal(w, S) \in Nat
<1> DEFINE n == Cardinality(S)
           e == SetToSeq(S)
<1>1. n \in Nat /\ e \in [1..n -> S]
  BY ListingFacts DEF Listed
<1> HIDE DEF n, e
<1>2. e \in [1..n -> K]
  BY <1>1
<1>3. WeighedWell(w, e, n)
  BY <1>1, <1>2, WeighedFacts
<1>4. Weighed(w, e) \in Seq(Nat)
  BY <1>3 DEF WeighedWell
<1>5. Total(Weighed(w, e)) \in Nat
  BY <1>4, RunningFacts
<1> QED
  BY <1>5 DEF SetTotal, e

\* One member taken out of a set takes its weight out of the total.
Share(w, S, k) == IF k \in S THEN w[k] ELSE 0

\* The rest of the set has the rest of the total.
LEMMA SetTotalSplit ==
    ASSUME NEW K, NEW w \in [K -> Nat], NEW S \in SUBSET K, IsFiniteSet(S), NEW k \in K
    PROVE  SetTotal(w, S) = SetTotal(w, S \ {k}) + Share(w, S, k)
<1> DEFINE R == S \ {k}
<1>1. R \in SUBSET K /\ IsFiniteSet(R) /\ k \notin R
  BY FS_RemoveElement
<1>2. SetTotal(w, R) \in Nat
  BY <1>1, SetTotalType
<1>3. CASE k \in S
  <2>1. S = R \cup {k}
    BY <1>3
  <2> HIDE DEF R
  <2>2. SetTotal(w, R \cup {k}) = SetTotal(w, R) + w[k]
    BY <1>1, SetTotalAdd
  <2> QED
    BY <1>3, <2>1, <2>2 DEF Share, R
<1>4. CASE k \notin S
  <2>1. S = R
    BY <1>4
  <2> HIDE DEF R
  <2> QED
    BY <1>2, <1>4, <2>1 DEF Share, R
<1> QED
  BY <1>3, <1>4

-----------------------------------------------------------------------------
(* Exposures.                                                              *)

\* The costs of the keys listed, under the positions pos.
CostOf(pos, k) == Times(pos[k].quantity, pos[k].avg)
CostsOf(pos, e) == [i \in DOMAIN e |-> CostOf(pos, e[i])]

\* A position costs its quantity times the parts of its average.
LEMMA PartsOfCost ==
    ASSUME NEW D \in Nat, NEW pos, NEW x, pos[x].quantity \in Nat, NEW n \in Nat,
           Parts(pos[x].avg, D, n)
    PROVE  Parts(CostOf(pos, x), D, pos[x].quantity * n)
<1> DEFINE q == pos[x].quantity
           a == pos[x].avg
<1>1. q \in Nat /\ Parts(a, D, n) /\ CostOf(pos, x) = Times(q, a)
  BY DEF CostOf
<1> HIDE DEF q, a
<1>2. Parts(Times(q, a), D, q * n)
  BY <1>1, PartsTimes
<1> QED
  BY <1>1, <1>2 DEF q

\* The costs of a set of positions are as many parts as their weights' total.
LEMMA CostParts ==
    ASSUME NEW pos, NEW D \in Nat, NEW K, NEW w \in [K -> Nat], NEW S \in SUBSET K,
           IsFiniteSet(S), \A x \in S : Parts(CostOf(pos, x), D, w[x])
    PROVE  Parts(TotalRatio(CostsOf(pos, SetToSeq(S))), D, SetTotal(w, S))
<1> DEFINE n == Cardinality(S)
           e == SetToSeq(S)
           q == CostsOf(pos, e)
           m == Weighed(w, e)
<1>1. n \in Nat /\ e \in [1..n -> S]
  BY ListingFacts DEF Listed
<1> HIDE DEF n, e
<1>2. e \in [1..n -> K] /\ \A i \in 1..n : e[i] \in S
  BY <1>1
<1>3. WeighedWell(w, e, n)
  BY <1>1, <1>2, WeighedFacts
<1>4. m \in Seq(Nat) /\ Len(m) = n /\ \A i \in 1..n : m[i] = w[e[i]]
  BY <1>3 DEF WeighedWell
<1> HIDE DEF m
<1>5. q = [i \in 1..n |-> CostOf(pos, e[i])]
  BY <1>1 DEF CostsOf
<1>6. \A i \in 1..n : CostOf(pos, e[i]) \in Ratio
  BY <1>2 DEF Parts
<1> HIDE DEF q
<1>7. q \in [1..n -> Ratio] /\ \A i \in 1..n : q[i] = CostOf(pos, e[i])
  BY <1>5, <1>6
<1>8. q \in Seq(Ratio) /\ Len(q) = n
  BY <1>1, <1>7, IsSequence
<1>9. ASSUME NEW i \in 1..Len(q) PROVE Parts(q[i], D, m[i])
  <2>1. i \in 1..n
    BY <1>8
  <2> QED
    BY <1>2, <1>4, <1>7, <2>1
<1>10. Parts(TotalRatio(q), D, Total(m))
  BY <1>4, <1>8, <1>9, TotalParts
<1> QED
  BY <1>10 DEF SetTotal, q, m, e

\* Every position is part of the costs at a common denominator.
Weighted(pos, D, w) ==
    \A x \in DOMAIN pos : Parts(CostOf(pos, x), D, w[x])

FinitelyMany == IsFiniteSet(DOMAIN positions)

\* Two books that differ in one key: each exposure is what it has of the others
\* and what it has of that one.
Split(e1, e2, D, a, b) ==
    \E rest \in Nat : Parts(e1, D, rest + a) /\ Parts(e2, D, rest + b)

\* Every exposure splits so, into what is left alone and the one key.
LEMMA ExposureSplit ==
    ASSUME PositionsType, FinitelyMany, FinitelyMany', NEW k \in Keys,
           NEW D \in Nat, NEW K, DOMAIN positions \subseteq K, DOMAIN positions' \subseteq K, k \in K,
           NEW w \in [K -> Nat], NEW v \in [K -> Nat],
           Weighted(positions, D, w), Weighted(positions', D, v),
           \A x \in K \ {k} : w[x] = v[x],
           \A x \in K \ {k} : x \in DOMAIN positions <=> x \in DOMAIN positions',
           NEW d \in Dimensions, NEW j \in Keys
    PROVE  Split(Exposure(d, j), Exposure(d, j)', D,
                 Share(w, Counted(d, j), k), Share(v, Counted(d, j)', k))
<1> DEFINE S == Counted(d, j)
           T == Counted(d, j)'
<1>1. S \subseteq DOMAIN positions /\ T \subseteq DOMAIN positions'
  BY DEF Counted, MarketKeys, Dimensions
<1>2. S \ {k} = T \ {k}
  BY <1>1 DEF Counted, MarketKeys, Dimensions
<1>3. /\ Exposure(d, j) = TotalRatio(CostsOf(positions, SetToSeq(S)))
      /\ Exposure(d, j)' = TotalRatio(CostsOf(positions', SetToSeq(T)))
  BY DEF Exposure, CostsOf, CostOf, CostBasis
<1> HIDE DEF S, T
<1>4. S \in SUBSET K /\ T \in SUBSET K /\ IsFiniteSet(S) /\ IsFiniteSet(T)
  BY <1>1, FS_Subset DEF FinitelyMany
<1>5. Parts(Exposure(d, j), D, SetTotal(w, S))
  <2>1. \A x \in S : Parts(CostOf(positions, x), D, w[x])
    BY <1>1 DEF Weighted
  <2> QED
    BY <1>3, <1>4, <2>1, CostParts
<1>6. Parts(Exposure(d, j)', D, SetTotal(v, T))
  <2>1. \A x \in T : Parts(CostOf(positions', x), D, v[x])
    BY <1>1 DEF Weighted
  <2> QED
    BY <1>3, <1>4, <2>1, CostParts
<1>7. SetTotal(w, S) = SetTotal(w, S \ {k}) + Share(w, S, k)
  BY <1>4, SetTotalSplit
<1>8. SetTotal(v, T) = SetTotal(v, T \ {k}) + Share(v, T, k)
  BY <1>4, SetTotalSplit
<1>9. SetTotal(w, S \ {k}) = SetTotal(v, S \ {k}) /\ SetTotal(w, S \ {k}) \in Nat
  <2> DEFINE R == S \ {k}
  <2>1. R \in SUBSET K /\ IsFiniteSet(R) /\ \A x \in R : w[x] = v[x]
    BY <1>4, FS_RemoveElement
  <2> HIDE DEF R
  <2>2. SetTotal(w, R) = SetTotal(v, R) /\ SetTotal(w, R) \in Nat
    BY <2>1, SetTotalAgree, SetTotalType
  <2> QED
    BY <2>2 DEF R
<1> DEFINE rest == SetTotal(w, S \ {k})
<1>10. rest \in Nat /\ SetTotal(w, S) = rest + Share(w, S, k) /\ SetTotal(v, T) = rest + Share(v, T, k)
  BY <1>2, <1>7, <1>8, <1>9
<1> HIDE DEF rest
<1>11. Parts(Exposure(d, j), D, rest + Share(w, S, k))
       /\ Parts(Exposure(d, j)', D, rest + Share(v, T, k))
  BY <1>5, <1>6, <1>10
<1> QED
  BY <1>10, <1>11 DEF Split, S, T

\* The positions at hand have weights, over some denominator.
HaveWeights ==
    \E D \in Nat \ {0} : \E g \in [DOMAIN positions -> Nat] :
        \A x \in DOMAIN positions : Parts(positions[x].avg, D, g[x])

\* There are finitely many of them, so they do.
LEMMA PositionsHaveWeights ==
    ASSUME PositionsType, FinitelyMany
    PROVE  HaveWeights
<1> DEFINE P == DOMAIN positions
           avg == [x \in P |-> positions[x].avg]
<1>1. avg \in [P -> Ratio] /\ \A x \in P : avg[x] = positions[x].avg
  BY DEF PositionsType, Position
<1>2. IsFiniteSet(P)
  BY DEF FinitelyMany
<1> HIDE DEF avg, P
<1>3. Commensurable(P, avg)
  BY <1>1, <1>2, CommonDenominator
<1>4. \E D \in Nat \ {0} : \E g \in [P -> Nat] : \A x \in P : Parts(positions[x].avg, D, g[x])
  BY <1>1, <1>3 DEF Commensurable
<1> QED
  BY <1>4 DEF HaveWeights, P

\* What one key lost, or did not gain, takes no exposure over a limit.
LEMMA LessStaysWithin ==
    ASSUME NEW D \in Nat \ {0}, NEW limit \in Nat, NEW a \in Nat, NEW b \in Nat, b <= a,
           NEW e1, NEW e2, Split(e1, e2, D, a, b), Exceeded(e2, limit)
    PROVE  Exceeded(e1, limit)
<1>1. PICK rest \in Nat : Parts(e1, D, rest + a) /\ Parts(e2, D, rest + b)
  BY DEF Split
<1> DEFINE n == rest + a
           u == rest + b
           bound == limit * D
<1>2. n \in Nat /\ u \in Nat /\ u <= n /\ bound \in Nat
  OBVIOUS
<1>3. Parts(e1, D, n) /\ Parts(e2, D, u)
  BY <1>1
<1> HIDE DEF n, u
<1>4. Exceeded(e1, limit) <=> limit > 0 /\ n > bound
  BY <1>2, <1>3, PartsExceed
<1>5. Exceeded(e2, limit) <=> limit > 0 /\ u > bound
  BY <1>2, <1>3, PartsExceed
<1> HIDE DEF bound
<1> QED
  BY <1>2, <1>4, <1>5

LimitsType == \A d \in Dimensions : Limits[d] \in Nat

\* Each limit is a number.
LEMMA LimitsAreNumbers == LimitsType
  BY BrokerAssumption DEF LimitsType, Dimensions

\* A sale leaves every exposure no larger than it was.
LEMMA SaleStaysWithin ==
    ASSUME PositionsType, FinitelyMany, NEW k \in Keys, NEW q \in Nat \ {0}, NEW price,
           Sold(k, q, price), NEW d \in Dimensions, NEW j \in Keys, OverLimit(d, j)'
    PROVE  OverLimit(d, j)
<1>1. CASE positions' = positions
  <2>1. Exposure(d, j)' = Exposure(d, j)
    BY <1>1 DEF Exposure, Counted, MarketKeys, CostBasis
  <2>2. Exceeded(Exposure(d, j)', Limits[d])
    BY DEF OverLimit, Exceeded
  <2> QED
    BY <2>1, <2>2 DEF OverLimit
<1>2. CASE positions' # positions
  <2> DEFINE P == DOMAIN positions
             Q == positions[k].quantity
  <2>1. k \in P
    BY <1>2 DEF Sold
  <2>2. P \subseteq Keys /\ \A x \in P : positions[x] \in Position
    BY DEF PositionsType
  <2>3. PICK D \in Nat \ {0}, g \in [P -> Nat] : \A x \in P : Parts(positions[x].avg, D, g[x])
    BY PositionsHaveWeights DEF HaveWeights
  <2>4. Q \in Nat /\ \A x \in P : positions[x].quantity \in Nat
    BY <2>1, <2>2 DEF Position
  <2> DEFINE left == IF Q <= q THEN 0 ELSE Q - q
             w == [x \in P |-> positions[x].quantity * g[x]]
             v == [x \in P |-> IF x = k THEN left * g[k] ELSE w[x]]
  <2>5. left \in Nat /\ left <= Q
    BY <2>4
  <2>6. /\ DOMAIN positions' = IF Q <= q THEN P \ {k} ELSE P
        /\ \A x \in P : x # k => positions'[x] = positions[x]
        /\ k \in DOMAIN positions' => /\ positions'[k].quantity = left
                                      /\ positions'[k].avg = positions[k].avg
    <3>1. CASE Q <= q
      <4>1. positions' = [x \in P \ {k} |-> positions[x]]
        BY <2>1, <3>1 DEF Sold, Without
      <4> QED
        BY <3>1, <4>1
    <3>2. CASE ~(Q <= q)
      <4> DEFINE new == [positions[k] EXCEPT !.quantity = Q - q]
      <4>1. positions' = [positions EXCEPT ![k] = new]
        BY <2>1, <3>2 DEF Sold
      <4>2. new.quantity = left /\ new.avg = positions[k].avg
        BY <2>1, <2>2, <3>2 DEF Position
      <4> HIDE DEF new
      <4>3. /\ DOMAIN positions' = P /\ positions'[k] = new
            /\ \A x \in P : x # k => positions'[x] = positions[x]
        BY <2>1, <4>1
      <4> HIDE DEF left
      <4> QED
        BY <3>2, <4>2, <4>3
    <3> QED
      BY <3>1, <3>2
  <2>7. P \subseteq P /\ DOMAIN positions' \subseteq P
    BY <2>6
  <2>8. FinitelyMany'
    BY <2>7, FS_Subset DEF FinitelyMany
  <2> HIDE DEF left, P
  <2>9. /\ \A x \in P : positions[x].quantity * g[x] \in Nat
        /\ left * g[k] \in Nat /\ left * g[k] <= Q * g[k]
    <3>1. \A x \in P : g[x] \in Nat
      OBVIOUS
    <3>2. \A x \in P : positions[x].quantity * g[x] \in Nat
      BY <2>4, <3>1, Products
    <3>3. left * g[k] \in Nat
      BY <2>1, <2>5, <3>1, Products
    <3>4. left * g[k] <= Q * g[k]
      <4> DEFINE gk == g[k]
      <4>1. gk \in Nat
        BY <2>1
      <4>2. Q \in Nat /\ left \in Nat /\ left <= Q
        BY <2>4, <2>5
      <4> HIDE DEF gk, Q
      <4>3. left * gk <= Q * gk
        <5>1. CASE gk = 0
          BY <4>2, <5>1
        <5>2. CASE gk # 0
          <6>1. left * gk \in Nat /\ Q * gk \in Nat
            BY <4>1, <4>2, Products
          <6>2. left * gk > Q * gk <=> left > Q
            BY <4>1, <4>2, <5>2, ProductsOrdered
          <6> DEFINE x == left * gk
                     y == Q * gk
          <6> HIDE DEF x, y
          <6>3. x \in Nat /\ y \in Nat /\ ~(x > y)
            BY <4>2, <6>1, <6>2 DEF x, y
          <6>4. x <= y
            BY <6>3
          <6> QED
            BY <6>4 DEF x, y
        <5> QED
          BY <5>1, <5>2
      <4> QED
        BY <4>3 DEF gk, Q
    <3> QED
      BY <3>2, <3>3, <3>4
  <2>10. /\ w \in [P -> Nat] /\ \A x \in P : w[x] = positions[x].quantity * g[x]
         /\ v \in [P -> Nat] /\ v[k] = left * g[k] /\ \A x \in P \ {k} : w[x] = v[x]
    BY <2>1, <2>9
  <2> HIDE DEF w, v
  <2>11. Weighted(positions, D, w)
    <3>1. ASSUME NEW x \in P PROVE Parts(CostOf(positions, x), D, w[x])
      <4>1. positions[x].quantity \in Nat /\ g[x] \in Nat /\ Parts(positions[x].avg, D, g[x])
        BY <2>3, <2>4
      <4>2. w[x] = positions[x].quantity * g[x]
        BY <2>10
      <4> QED
        BY <4>1, <4>2, PartsOfCost
    <3> QED
      BY <3>1 DEF Weighted, P
  <2>12. Weighted(positions', D, v)
    <3>1. ASSUME NEW x \in DOMAIN positions' PROVE Parts(CostOf(positions', x), D, v[x])
      <4>0. x \in P
        BY <2>7
      <4>1. CASE x = k
        <5>1. CostOf(positions', x) = Times(left, positions[k].avg)
          BY <2>6, <4>1 DEF CostOf
        <5>2. Parts(Times(left, positions[k].avg), D, left * g[k])
          BY <2>1, <2>3, <2>5, PartsTimes
        <5> QED
          BY <2>10, <4>1, <5>1, <5>2
      <4>2. CASE x # k
        <5>1. CostOf(positions', x) = CostOf(positions, x) /\ v[x] = w[x]
          BY <2>6, <2>10, <4>0, <4>2 DEF CostOf
        <5> QED
          BY <2>11, <4>0, <5>1 DEF Weighted, P
      <4> QED
        BY <4>1, <4>2
    <3> QED
      BY <3>1 DEF Weighted
  <2> DEFINE a == Share(w, Counted(d, j), k)
             b == Share(v, Counted(d, j)', k)
  <2>13. Split(Exposure(d, j), Exposure(d, j)', D, a, b)
    <3>1. \A x \in P \ {k} : x \in DOMAIN positions <=> x \in DOMAIN positions'
      BY <2>6 DEF P
    <3>2. DOMAIN positions \subseteq P
      BY DEF P
    <3>3. \A x \in P \ {k} : w[x] = v[x]
      BY <2>10
    <3> QED
      BY <2>1, <2>7, <2>8, <2>10, <2>11, <2>12, <3>1, <3>2, <3>3, ExposureSplit
  <2>14. a \in Nat /\ b \in Nat /\ b <= a
    <3>1. k \in Counted(d, j)' => k \in Counted(d, j)
      BY <2>1, <2>7 DEF Counted, MarketKeys, Dimensions, P
    <3>2. w[k] \in Nat /\ v[k] \in Nat /\ v[k] <= w[k]
      BY <2>1, <2>9, <2>10
    <3> QED
      BY <3>1, <3>2 DEF Share
  <2> HIDE DEF a, b
  <2>15. Limits[d] \in Nat
    BY LimitsAreNumbers DEF LimitsType
  <2>16. Exceeded(Exposure(d, j)', Limits[d])
    BY DEF OverLimit, Exceeded
  <2> QED
    BY <2>13, <2>14, <2>15, <2>16, LessStaysWithin DEF OverLimit
<1> QED
  BY <1>1, <1>2

\* The cost of a position of that total whose average was taken of that cost.
Averaged(cost, total) == Times(total, <<cost[1], cost[2] * total>>)

Added(k, q, p) ==
    /\ DOMAIN positions' = DOMAIN positions \cup {k}
    /\ \A x \in DOMAIN positions : x # k => positions'[x] = positions[x]
    /\ k \notin DOMAIN positions => CostOf(positions', k) = Times(q, Whole(p))
    /\ k \in DOMAIN positions =>
          CostOf(positions', k) = Averaged(Plus(CostOf(positions, k), Times(q, Whole(p))),
                                           positions[k].quantity + q)

\* What a buy of q at p does to the positions.
LEMMA BoughtPositions ==
    ASSUME PositionsType, NEW k \in Keys, NEW id \in Nat, NEW q \in Nat \ {0}, NEW p \in Nat,
           Bought(k, id, q, Whole(p))
    PROVE  Added(k, q, p)
<1>1. CASE k \notin DOMAIN positions
  <2> DEFINE new == [id |-> id, quantity |-> q, avg |-> Whole(p)]
  <2>1. positions' = [x \in DOMAIN positions \cup {k} |-> IF x = k THEN new ELSE positions[x]]
    BY <1>1 DEF Bought, With
  <2>2. new.quantity = q /\ new.avg = Whole(p)
    OBVIOUS
  <2> HIDE DEF new
  <2>3. /\ DOMAIN positions' = DOMAIN positions \cup {k} /\ positions'[k] = new
        /\ \A x \in DOMAIN positions : x # k => positions'[x] = positions[x]
    BY <2>1
  <2> QED
    BY <1>1, <2>2, <2>3 DEF CostOf, Added
<1>2. CASE k \in DOMAIN positions
  <2> DEFINE cost == Plus(CostOf(positions, k), Times(q, Whole(p)))
             total == positions[k].quantity + q
             avg == <<cost[1], cost[2] * total>>
             new == [positions[k] EXCEPT !.quantity = total, !.avg = avg]
  <2>1. positions' = [positions EXCEPT ![k] = new]
    BY <1>2 DEF Bought, PositionsType, Position, CostBasis, CostOf
  <2>2. positions[k] \in Position /\ positions \in [DOMAIN positions -> Position]
    BY <1>2 DEF PositionsType
  <2> HIDE DEF total, avg
  <2>3. new.quantity = total /\ new.avg = avg
    BY <2>2 DEF Position
  <2> HIDE DEF new
  <2>4. /\ DOMAIN positions' = DOMAIN positions /\ positions'[k] = new
        /\ \A x \in DOMAIN positions : x # k => positions'[x] = positions[x]
    BY <1>2, <2>1, <2>2
  <2>5. CostOf(positions', k) = Times(total, avg)
    BY <2>3, <2>4 DEF CostOf
  <2>6. DOMAIN positions' = DOMAIN positions \cup {k}
    BY <1>2, <2>4
  <2> QED
    BY <1>2, <2>4, <2>5, <2>6 DEF total, avg, cost, Averaged, Added
<1> QED
  BY <1>1, <1>2

\* A buy at the price the gate was asked about leaves every exposure that was
\* within its limit there.
LEMMA BuyStaysWithin ==
    ASSUME PositionsType, FinitelyMany, NEW k \in Keys, NEW id \in Nat, NEW q \in Nat \ {0},
           NEW p \in Nat, Bought(k, id, q, Whole(p)), WithinExposureLimits(k, Whole(p * q)),
           NEW d \in Dimensions, NEW j \in Keys, OverLimit(d, j)'
    PROVE  OverLimit(d, j)
<1> DEFINE P == DOMAIN positions
           K == P \cup {k}
           spent == p * q
<1>0. k \in DOMAIN positions =>
         CostOf(positions', k) = Averaged(Plus(CostOf(positions, k), Times(q, Whole(p))),
                                          positions[k].quantity + q)
  <2>1. Added(k, q, p)
    BY BoughtPositions
  <2> QED
    BY <2>1 DEF Added
<1>1. PICK D \in Nat \ {0}, g \in [P -> Nat] : \A x \in P : Parts(positions[x].avg, D, g[x])
  BY PositionsHaveWeights DEF HaveWeights
<1>2. \A x \in P : positions[x].quantity \in Nat /\ g[x] \in Nat
  BY DEF PositionsType, Position
<1>3. spent \in Nat /\ spent * D \in Nat
  BY Products
<1> DEFINE more == spent * D
           w == [x \in K |-> IF x \in P THEN positions[x].quantity * g[x] ELSE 0]
           v == [x \in K |-> IF x = k THEN w[k] + more ELSE w[x]]
<1>4. DOMAIN positions' = K
  BY BoughtPositions DEF Added
<1>5. FinitelyMany'
  BY <1>4, FS_AddElement DEF FinitelyMany
<1>6. Parts(Times(q, Whole(p)), D, more)
  <2>1. Parts(Whole(p), D, p * D) /\ p * D \in Nat
    BY PartsOfWhole
  <2>2. Parts(Times(q, Whole(p)), D, q * (p * D))
    <3> DEFINE u == p * D
    <3>1. u \in Nat /\ Parts(Whole(p), D, u)
      BY <2>1
    <3> HIDE DEF u
    <3>2. Parts(Times(q, Whole(p)), D, q * u)
      BY <3>1, PartsTimes
    <3> QED
      BY <3>2 DEF u
  <2>3. q * (p * D) = (p * q) * D
    OBVIOUS
  <2> QED
    BY <2>2, <2>3
<1>7. more \in Nat
  BY <1>3
<1> HIDE DEF more, spent, P
<1>8. \A x \in P : positions[x].quantity * g[x] \in Nat
  BY <1>2, Products
<1>9. w \in [K -> Nat] /\ \A x \in P : w[x] = positions[x].quantity * g[x]
  BY <1>8
<1>10. k \notin P => w[k] = 0
  OBVIOUS
<1>11. /\ v \in [K -> Nat] /\ v[k] = w[k] + more /\ w[k] \in Nat
       /\ \A x \in K \ {k} : w[x] = v[x]
  <2> HIDE DEF w
  <2> QED
    BY <1>7, <1>9
<1> HIDE DEF w, v
<1>12. Weighted(positions, D, w)
  <2>1. ASSUME NEW x \in P PROVE Parts(CostOf(positions, x), D, w[x])
    <3>1. positions[x].quantity \in Nat /\ g[x] \in Nat /\ Parts(positions[x].avg, D, g[x])
      BY <1>1, <1>2
    <3>2. w[x] = positions[x].quantity * g[x]
      BY <1>9
    <3> QED
      BY <3>1, <3>2, PartsOfCost
  <2> QED
    BY <2>1 DEF Weighted, P
<1>13. Parts(CostOf(positions', k), D, w[k] + more)
  <2>1. CASE k \notin P
    <3>1. CostOf(positions', k) = Times(q, Whole(p))
      BY <2>1, BoughtPositions DEF P, Added
    <3>2. w[k] + more = more
      BY <1>7, <1>10, <2>1
    <3> QED
      BY <1>6, <3>1, <3>2
  <2>2. CASE k \in P
    <3> DEFINE cost == Plus(CostOf(positions, k), Times(q, Whole(p)))
               total == positions[k].quantity + q
    <3>1. CostOf(positions', k) = Averaged(cost, total)
      BY <1>0, <2>2 DEF P
    <3>2. total \in Nat \ {0}
      BY <1>2, <2>2
    <3>3. Parts(CostOf(positions, k), D, w[k])
      BY <1>12, <2>2 DEF Weighted, P
    <3>4. Parts(cost, D, w[k] + more)
      BY <1>6, <1>7, <1>11, <3>3, PartsAdd
    <3> HIDE DEF cost, total
    <3>5. w[k] + more \in Nat
      BY <1>7, <1>11
    <3>6. Parts(Averaged(cost, total), D, w[k] + more)
      BY <3>2, <3>4, <3>5, PartsScaled DEF Averaged
    <3> QED
      BY <3>1, <3>6
  <2> QED
    BY <2>1, <2>2
<1>14. Weighted(positions', D, v)
  <2>1. ASSUME NEW x \in K PROVE Parts(CostOf(positions', x), D, v[x])
    <3>1. CASE x = k
      BY <1>11, <1>13, <3>1
    <3>2. CASE x # k
      <4>1. x \in P /\ positions'[x] = positions[x]
        BY <3>2, BoughtPositions DEF P, Added
      <4>2. CostOf(positions', x) = CostOf(positions, x) /\ v[x] = w[x]
        BY <1>11, <3>2, <4>1 DEF CostOf
      <4> QED
        BY <1>12, <4>1, <4>2 DEF Weighted, P
    <3> QED
      BY <3>1, <3>2
  <2> QED
    BY <1>4, <2>1 DEF Weighted
<1> DEFINE a == Share(w, Counted(d, j), k)
           b == Share(v, Counted(d, j)', k)
<1>15. Split(Exposure(d, j), Exposure(d, j)', D, a, b)
  <2>1. \A x \in K \ {k} : x \in DOMAIN positions <=> x \in DOMAIN positions'
    BY <1>4 DEF P
  <2>2. DOMAIN positions \subseteq K /\ DOMAIN positions' \subseteq K /\ k \in K
    BY <1>4 DEF P
  <2>3. \A x \in K \ {k} : w[x] = v[x]
    BY <1>11
  <2> HIDE DEF K
  <2> QED
    BY <1>5, <1>9, <1>11, <1>12, <1>14, <2>1, <2>2, <2>3, ExposureSplit
<1>16. Limits[d] \in Nat
  BY LimitsAreNumbers DEF LimitsType
<1>17. Exceeded(Exposure(d, j)', Limits[d])
  BY DEF OverLimit, Exceeded
<1>18. CASE k \notin Counted(d, j)'
  <2>1. a \in Nat /\ b = 0
    BY <1>11, <1>18 DEF Share
  <2> HIDE DEF a, b
  <2> QED
    BY <1>15, <1>16, <1>17, <2>1, LessStaysWithin DEF OverLimit
<1>19. CASE k \in Counted(d, j)'
  <2>1. Counted(d, j) = Counted(d, k) /\ (k \in Counted(d, j) <=> k \in P)
    BY <1>19 DEF Counted, MarketKeys, Dimensions, P
  <2>2. Exposure(d, j) = Exposure(d, k)
    BY <2>1 DEF Exposure
  <2>3. a = w[k] /\ b = w[k] + more
    BY <1>10, <1>11, <1>19, <2>1 DEF Share
  <2> HIDE DEF a, b
  <2>4. PICK rest \in Nat : /\ Parts(Exposure(d, j), D, rest + a)
                            /\ Parts(Exposure(d, j)', D, rest + b)
    BY <1>15 DEF Split
  <2> DEFINE n == rest + w[k]
             u == n + more
  <2>5. n \in Nat /\ u \in Nat /\ rest + b = u
    BY <1>7, <1>11, <2>3
  <2>6. Parts(Exposure(d, j), D, n) /\ Parts(Exposure(d, j)', D, u)
    BY <2>3, <2>4, <2>5
  <2>7. Parts(Whole(p * q), D, more)
    <3>1. Parts(Whole(spent), D, spent * D)
      BY <1>3, PartsOfWhole
    <3> QED
      BY <3>1 DEF spent, more
  <2> HIDE DEF n
  <2>8. Parts(Plus(Exposure(d, j), Whole(p * q)), D, u)
    BY <1>7, <2>5, <2>6, <2>7, PartsAdd
  <2>9. ~Exceeded(Plus(Exposure(d, j), Whole(p * q)), Limits[d])
    BY <2>2 DEF WithinExposureLimits
  <2> HIDE DEF u
  <2>10. Exceeded(Exposure(d, j)', Limits[d]) <=> Limits[d] > 0 /\ u > Limits[d] * D
    BY <1>16, <2>5, <2>6, PartsExceed
  <2>11. Exceeded(Plus(Exposure(d, j), Whole(p * q)), Limits[d])
            <=> Limits[d] > 0 /\ u > Limits[d] * D
    BY <1>16, <2>5, <2>8, PartsExceed
  <2> QED
    BY <1>17, <2>9, <2>10, <2>11
<1> QED
  BY <1>18, <1>19

-----------------------------------------------------------------------------
(* What the gates are worth.                                               *)

\* A fill adds one position or takes one away.
LEMMA FillKeepsFinite ==
    ASSUME FinitelyMany, NEW k, NEW side, NEW id, NEW q, NEW price, Fill(k, side, id, q, price)
    PROVE  FinitelyMany'
<1>1. DOMAIN positions' \subseteq DOMAIN positions \cup {k}
  <2>1. CASE Bought(k, id, q, price)
    <3>1. CASE k \notin DOMAIN positions
      BY <2>1, <3>1 DEF Bought, With
    <3>2. CASE k \in DOMAIN positions
      BY <2>1, <3>2 DEF Bought
    <3> QED
      BY <3>1, <3>2
  <2>2. CASE Sold(k, q, price)
    BY <2>2 DEF Sold, Without
  <2> QED
    BY <2>1, <2>2 DEF Fill
<1>2. IsFiniteSet(DOMAIN positions \cup {k})
  BY FS_AddElement DEF FinitelyMany
<1> QED
  BY <1>1, <1>2, FS_Subset DEF FinitelyMany

\* However long the broker runs, it has finitely many positions, so that its
\* exposures are sums.
THEOREM FinitePositions == BrokerSpec => []FinitelyMany
<1>1. BrokerInit => FinitelyMany
  <2>1. DOMAIN <<>> = {} /\ IsFiniteSet({})
    BY FS_EmptySet
  <2> QED
    BY <2>1 DEF BrokerInit, FinitelyMany
<1>2. FinitelyMany /\ [BrokerNext]_vars => FinitelyMany'
  <2> SUFFICES ASSUME FinitelyMany, [BrokerNext]_vars PROVE FinitelyMany'
    OBVIOUS
  <2>0. CASE UNCHANGED positions
    BY <2>0 DEF FinitelyMany
  <2>1. ASSUME NEW k \in Keys, NEW side \in {"buy", "sell"}, NEW q \in Quantities,
               NEW p \in Prices, PlaceOrder(k, side, q, p)
        PROVE  FinitelyMany'
    <3>1. CASE FillAtOnce(k, side, q, p)
      BY <3>1, FillKeepsFinite DEF FillAtOnce
    <3>2. CASE Reject(k, side, q, p) \/ HoldForReview(k, side, q, p)
      BY <2>0, <3>2 DEF Reject, HoldForReview
    <3> QED
      BY <2>1, <3>1, <3>2 DEF PlaceOrder
  <2>2. ASSUME NEW i \in DOMAIN orders, ConfirmAndFill(i) PROVE FinitelyMany'
    BY <2>2, FillKeepsFinite DEF ConfirmAndFill
  <2> QED
    BY <2>0, <2>1, <2>2 DEF BrokerNext, CancelOrder, SettleMarket, SetDepth, SetKillSwitch,
       Tick, vars
<1> QED
  BY <1>1, <1>2, PTL DEF BrokerSpec

\* An order filled at once, without depth, takes no exposure over its limit.
LEMMA FillStaysWithin ==
    ASSUME BrokerInv, FinitelyMany, NEW k \in Keys, NEW side \in {"buy", "sell"},
           NEW q \in Quantities, NEW p \in Prices, FillAtOnce(k, side, q, p), depth[k] = NoBook,
           positions' # positions, NEW d \in Dimensions, NEW j \in Keys, OverLimit(d, j)'
    PROVE  OverLimit(d, j)
<1>1. q \in Nat \ {0} /\ p \in Nat
  BY BrokerAssumption
<1>2. Quote(k, q, p) = [price |-> Whole(p), fillable |-> q]
  BY DEF Quote
<1>3. WithinExposureLimits(k, Whole(p * q))
  BY DEF FillAtOnce, GateAllows
<1> DEFINE id == Len(orders) + 1
<1>4. id \in Nat /\ PositionsType
  BY DEF BrokerInv, BrokerTypeOK, BooksType
<1>5. Fill(k, side, id, q, Whole(p))
  BY <1>2 DEF FillAtOnce
<1> HIDE DEF id
<1>6. CASE side = "buy" /\ Bought(k, id, q, Whole(p))
  BY <1>1, <1>3, <1>4, <1>6, BuyStaysWithin
<1>7. CASE side = "sell" /\ Sold(k, q, Whole(p))
  BY <1>1, <1>4, <1>7, SaleStaysWithin
<1> QED
  BY <1>1, <1>5, <1>6, <1>7 DEF Fill

\* An exposure goes over its limit only by the confirmation of a reviewed order
\* or by depth that filled at a price no gate knew, for any limits and prices.
THEOREM GatesHold == BrokerSpec => GatesHoldWithoutReview
<1> DEFINE Held == positions' # positions /\ ~Confirmed /\ ~FilledFromBook
                     => \A d \in Dimensions, k \in Keys : OverLimit(d, k)' => OverLimit(d, k)
<1>1. BrokerInv /\ FinitelyMany /\ [BrokerNext]_vars => [Held]_vars
  <2> SUFFICES ASSUME BrokerInv, FinitelyMany, BrokerNext, positions' # positions,
                      ~Confirmed, ~FilledFromBook, NEW d \in Dimensions, NEW j \in Keys,
                      OverLimit(d, j)'
               PROVE  OverLimit(d, j)
    BY DEF vars
  <2>0. orders \in Seq(Order)
    BY DEF BrokerInv, BrokerTypeOK
  <2>1. ASSUME NEW k \in Keys, NEW side \in {"buy", "sell"}, NEW q \in Quantities,
               NEW p \in Prices, PlaceOrder(k, side, q, p)
        PROVE  OverLimit(d, j)
    <3>1. FillAtOnce(k, side, q, p)
      BY <2>1 DEF PlaceOrder, Reject, HoldForReview
    <3>2. depth[k] = NoBook
      <4> DEFINE new == NewOrder(k, side, q, Quote(k, q, p).price, "filled",
                                 Quote(k, q, p).fillable)
      <4>1. orders' = Append(orders, new)
        BY <3>1 DEF FillAtOnce
      <4>2. new.key = k
        BY DEF NewOrder
      <4> HIDE DEF new
      <4>3. Len(orders') > Len(orders) /\ orders'[Len(orders')] = new
        BY <2>0, <4>1
      <4> QED
        BY <4>2, <4>3 DEF FilledFromBook
    <3> QED
      BY <3>1, <3>2, FillStaysWithin
  <2>2. ASSUME NEW i \in DOMAIN orders, ConfirmAndFill(i) PROVE OverLimit(d, j)
    <3>1. orders[i].status = "pending" /\ orders[i] \in Order
      BY <2>0, <2>2 DEF ConfirmAndFill, Confirmable
    <3>2. orders'[i].status = "filled"
      BY <2>0, <2>2, <3>1 DEF ConfirmAndFill, Order
    <3> QED
      BY <3>1, <3>2 DEF Confirmed
  <2> QED
    BY <2>1, <2>2 DEF BrokerNext, CancelOrder, SettleMarket, SetDepth, SetKillSwitch, Tick
<1> QED
  BY <1>1, BrokerInvariant, FinitePositions, PTL DEF BrokerSpec, GatesHoldWithoutReview
=============================================================================
