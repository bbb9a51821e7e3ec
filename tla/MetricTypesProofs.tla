-------------------------- MODULE MetricTypesProofs --------------------------
(***************************************************************************)
(* What a flush reports, for every sequence of samples.                    *)
(***************************************************************************)
EXTENDS MetricTypes, FiniteSetTheorems, FunctionTheorems, SequenceTheorems,
        WellFoundedInduction, TLAPS

-----------------------------------------------------------------------------
(* Sums.  Total is the last value of a recursive function.  That there is such a function,
   and only one, is shown by the least number for which it would fail. *)

\* s[i] is v[from + 1] + ... + v[i].
Sums(s, v, from, to) ==
  /\ s \in [from..to -> Int]
  /\ s[from] = 0
  /\ \A i \in from + 1..to : s[i] = s[i - 1] + v[i]

\* The values from + 1, ..., to are integers, and are those of another list.
Ints(v, from, to) == \A i \in from + 1..to : v[i] \in Int
Agree(w, v, from, to) == \A i \in from + 1..to : w[i] = v[i]
ChangedAt(k, w, v, from, to) ==
  /\ k \in from + 1..to /\ w[k] \in Int
  /\ Ints(v, from, to)
  /\ \A i \in from + 1..to : i # k => w[i] = v[i]

(* A set of numbers that is not empty has a least one. *)
LEMMA LeastThere ==
  ASSUME NEW S \in SUBSET Nat, S # {}
  PROVE  \E m \in S : \A k \in S : m <= k
<1>1. PICK m \in S : \A k \in S : <<k, m>> \notin OpToRel(<, Nat)
  BY WFMin, NatLessThanWellFounded, Zenon
<1>2. \A k \in S : ~(k < m)
  BY <1>1 DEF OpToRel
<1> QED BY <1>2

(* Partial sums exist: those up to a number are those up to the one before, and one more. *)
LEMMA SumsThere ==
  ASSUME NEW from \in Nat, NEW to \in Nat, from <= to,
         NEW v, Ints(v, from, to)
  PROVE  \E s : Sums(s, v, from, to)
<1> DEFINE D == {n \in from..to : ~\E s : Sums(s, v, from, n)}
<1>1. D = {}
  <2> SUFFICES ASSUME D # {} PROVE FALSE
    OBVIOUS
  <2>1. D \in SUBSET Nat
    OBVIOUS
  <2>2. PICK m \in D : \A k \in D : m <= k
    <3> HIDE DEF D
    <3> QED BY <2>1, LeastThere
  <2>3. m # from
    <3> DEFINE s == [i \in from..from |-> 0]
    <3>1. Sums(s, v, from, from)
      BY DEF Sums
    <3> HIDE DEF s
    <3> QED BY <2>2, <3>1
  <2>4. m \in from + 1..to /\ m - 1 \in from..to /\ m - 1 \notin D
    BY <2>2, <2>3
  <2>5. PICK s : Sums(s, v, from, m - 1)
    BY <2>4
  <2> DEFINE t == [i \in from..m |-> IF i = m THEN s[m - 1] + v[m] ELSE s[i]]
  <2>6. s[m - 1] \in Int /\ v[m] \in Int
    BY <2>4, <2>5 DEF Sums, Ints
  <2>7. t \in [from..m -> Int] /\ t[from] = 0
    BY <2>4, <2>5, <2>6 DEF Sums
  <2>8. ASSUME NEW i \in from + 1..m PROVE t[i] = t[i - 1] + v[i]
    <3>1. CASE i = m
      BY <2>4, <3>1
    <3>2. CASE i # m
      BY <2>4, <2>5, <3>2 DEF Sums
    <3> QED BY <3>1, <3>2
  <2>9. Sums(t, v, from, m)
    BY <2>7, <2>8 DEF Sums
  <2> HIDE DEF t
  <2> QED BY <2>2, <2>9
<1>2. to \in from..to
  OBVIOUS
<1> QED BY <1>1, <1>2, Zenon

(* Total is the last of the partial sums, whichever function they are taken from: at the
   least number where two might differ they agree before it. *)
LEMMA TotalIs ==
  ASSUME NEW from \in Nat, NEW to \in Nat, from <= to, NEW v, NEW s, Sums(s, v, from, to)
  PROVE  Total(v, from, to) = s[to]
<1> DEFINE E(h) == [i \in from..to |-> IF i = from THEN 0 ELSE h[i - 1] + v[i]]
           g == CHOOSE h : h = E(h)
           D == {i \in from..to : s[i] # g[i]}
<1>1. s = E(s)
  BY DEF Sums
<1>2. g = E(g)
  <2> HIDE DEF E
  <2> QED BY <1>1
<1>3. Total(v, from, to) = g[to]
  BY DEF Total
<1>4. g[from] = 0 /\ \A i \in from + 1..to : g[i] = g[i - 1] + v[i]
  <2> HIDE DEF g
  <2> QED BY <1>2
<1> HIDE DEF g
<1>5. D = {}
  <2> SUFFICES ASSUME D # {} PROVE FALSE
    OBVIOUS
  <2>1. D \in SUBSET Nat
    OBVIOUS
  <2>2. PICK m \in D : \A k \in D : m <= k
    <3> HIDE DEF D
    <3> QED BY <2>1, LeastThere
  <2>3. m \in from + 1..to /\ m - 1 \in from..to
    BY <1>4, <2>2 DEF Sums
  <2>4. s[m - 1] = g[m - 1]
    BY <2>2, <2>3
  <2> QED BY <1>4, <2>2, <2>3, <2>4 DEF Sums
<1> QED BY <1>3, <1>5

(* The sum of no values. *)
LEMMA TotalEmpty ==
  ASSUME NEW n \in Nat, NEW v
  PROVE  Total(v, n, n) = 0
<1> DEFINE s == [i \in n..n |-> 0]
<1>1. Sums(s, v, n, n) /\ s[n] = 0
  BY DEF Sums
<1> HIDE DEF s
<1> QED BY <1>1, TotalIs

(* A sum of integers is one, and one value more adds that value to it; it depends on
   the values that are added only. *)
LEMMA TotalStep ==
  ASSUME NEW from \in Nat, NEW to \in Nat, from <= to,
         NEW v, Ints(v, from, to), NEW w, Agree(w, v, from, to), w[to + 1] \in Int
  PROVE  /\ Total(v, from, to) \in Int
         /\ Total(w, from, to) = Total(v, from, to)
         /\ Total(w, from, to + 1) = Total(v, from, to) + w[to + 1]
<1>1. PICK s : Sums(s, v, from, to)
  BY SumsThere
<1>2. Total(v, from, to) = s[to] /\ s[to] \in Int
  <2>1. Total(v, from, to) = s[to]
    BY <1>1, TotalIs
  <2> QED BY <1>1, <2>1 DEF Sums
<1>3. Sums(s, w, from, to)
  BY <1>1 DEF Sums, Agree
<1>4. Total(w, from, to) = s[to]
  BY <1>3, TotalIs
<1>5. Ints(w, from, to + 1)
  <2>1. from + 1..to + 1 = (from + 1..to) \cup {to + 1}
    OBVIOUS
  <2> QED BY <2>1 DEF Ints, Agree
<1>6. PICK t : Sums(t, w, from, to + 1)
  BY <1>5, SumsThere
<1>7. Total(w, from, to + 1) = t[to + 1] /\ t[to + 1] = t[to] + w[to + 1]
  <2>1. Total(w, from, to + 1) = t[to + 1]
    BY <1>6, TotalIs
  <2> QED BY <2>1, <1>6 DEF Sums
<1> DEFINE r == [i \in from..to |-> t[i]]
<1>8. Sums(r, w, from, to) /\ r[to] = t[to]
  BY <1>6 DEF Sums
<1>9. Total(w, from, to) = t[to]
  <2> HIDE DEF r
  <2> QED BY <1>8, TotalIs
<1> QED BY <1>2, <1>4, <1>7, <1>9

(* A sum changes by as much as one of its values does. *)
LEMMA TotalChange ==
  ASSUME NEW from \in Nat, NEW to \in Nat, from <= to,
         NEW k, NEW v, NEW w, ChangedAt(k, w, v, from, to)
  PROVE  Total(w, from, to) = Total(v, from, to) + (w[k] - v[k])
<1>a. k \in from + 1..to /\ w[k] \in Int /\ Ints(v, from, to)
  BY DEF ChangedAt
<1>1. PICK s : Sums(s, v, from, to)
  BY <1>a, SumsThere
<1> DEFINE d == w[k] - v[k]
           t == [i \in from..to |-> IF i < k THEN s[i] ELSE s[i] + d]
<1>2. v[k] \in Int /\ d \in Int
  BY <1>a DEF Ints
<1>3. v[k] + d = w[k]
  BY <1>a, <1>2
<1> HIDE DEF d
<1>4. t \in [from..to -> Int] /\ t[from] = 0
  BY <1>a, <1>1, <1>2 DEF Sums
<1>5. ASSUME NEW i \in from + 1..to PROVE t[i] = t[i - 1] + w[i]
  <2>1. i - 1 \in from..to /\ s[i] = s[i - 1] + v[i] /\ s[i - 1] \in Int
    BY <1>1 DEF Sums
  <2>2. CASE i < k
    BY <1>a, <2>1, <2>2 DEF ChangedAt
  <2>3. CASE i = k
    BY <1>a, <1>2, <1>3, <2>1, <2>3
  <2>4. CASE i > k
    BY <1>2, <2>1, <2>4, <1>a DEF ChangedAt, Ints
  <2> QED BY <1>a, <2>2, <2>3, <2>4
<1>6. Sums(t, w, from, to) /\ t[to] = s[to] + d
  <2>1. t[to] = s[to] + d
    BY <1>a
  <2> HIDE DEF t
  <2> QED BY <1>4, <1>5, <2>1 DEF Sums
<1>7. Total(v, from, to) = s[to]
  BY <1>1, TotalIs
<1>8. Total(w, from, to) = t[to]
  <2> HIDE DEF t
  <2> QED BY <1>6, TotalIs
<1> QED BY <1>6, <1>7, <1>8 DEF d

(* The sum of a window is that of the list of its values. *)
LEMMA TotalShift ==
  ASSUME NEW from \in Nat, NEW n \in Nat, NEW v, Ints(v, from, from + n),
         NEW w, \A i \in 1..n : w[i] = v[from + i]
  PROVE  Total(w, 0, n) = Total(v, from, from + n)
<1>1. PICK s : Sums(s, v, from, from + n)
  BY SumsThere
<1> DEFINE t == [i \in 0..n |-> s[from + i]]
<1>2. t \in [0..n -> Int] /\ t[0] = 0
  BY <1>1 DEF Sums
<1>3. ASSUME NEW i \in 1..n PROVE t[i] = t[i - 1] + w[i]
  <2>1. from + i \in from + 1..from + n /\ (from + i) - 1 = from + (i - 1)
    OBVIOUS
  <2> QED BY <1>1, <2>1 DEF Sums
<1>4. Sums(t, w, 0, n) /\ t[n] = s[from + n]
  <2>1. t[n] = s[from + n]
    OBVIOUS
  <2> HIDE DEF t
  <2> QED BY <1>2, <1>3, <2>1 DEF Sums
<1>5. Total(w, 0, n) = t[n]
  <2> HIDE DEF t
  <2> QED BY <1>4, TotalIs
<1>6. Total(v, from, from + n) = s[from + n]
  BY <1>1, TotalIs
<1> QED BY <1>4, <1>5, <1>6

(* An injection of the first numbers into themselves leaves none out. *)
LEMMA InjectionOnto ==
  ASSUME NEW n \in Nat, NEW p \in [1..n -> 1..n],
         \A i, j \in 1..n : p[i] = p[j] => i = j
  PROVE  \A k \in 1..n : \E i \in 1..n : p[i] = k
<1>1. p \in Injection(1..n, 1..n)
  BY DEF Injection, IsInjective
<1>2. IsFiniteSet(1..n)
  BY FS_Interval
<1>3. p \in Surjection(1..n, 1..n)
  BY <1>1, <1>2, FS_Injection, Zenon
<1> QED BY <1>3 DEF Surjection

\* The sum of n values does not depend on their order.
AnyOrder(n) ==
  \A p \in [1..n -> 1..n], v \in [1..n -> Int] :
    (\A i, j \in 1..n : p[i] = p[j] => i = j) =>
      Total([i \in 1..n |-> v[p[i]]], 0, n) = Total(v, 0, n)

(* One value more: exchange the last place with that of the last value. *)
LEMMA AnyOrderStep ==
  ASSUME NEW m \in Nat, AnyOrder(m)
  PROVE  AnyOrder(m + 1)
<1> SUFFICES ASSUME NEW p \in [1..m + 1 -> 1..m + 1], NEW v \in [1..m + 1 -> Int],
                    \A i, j \in 1..m + 1 : p[i] = p[j] => i = j
             PROVE  Total([i \in 1..m + 1 |-> v[p[i]]], 0, m + 1) = Total(v, 0, m + 1)
  BY DEF AnyOrder
<1>1. PICK k \in 1..m + 1 : p[k] = m + 1
  <2>1. m + 1 \in Nat /\ m + 1 \in 1..m + 1
    OBVIOUS
  <2> QED BY <2>1, InjectionOnto
<1> DEFINE a == [i \in 1..m + 1 |-> v[p[i]]]
           q == [i \in 1..m |-> IF i = k THEN p[m + 1] ELSE p[i]]
           u == [i \in 1..m |-> v[i]]
           b == [i \in 1..m |-> u[q[i]]]
<1>2. q \in [1..m -> 1..m]
  <2> SUFFICES ASSUME NEW i \in 1..m PROVE q[i] \in 1..m
    OBVIOUS
  <2>1. i \in 1..m + 1 /\ m + 1 \in 1..m + 1 /\ i # m + 1
    OBVIOUS
  <2>2. CASE i = k
    <3>1. p[m + 1] # p[k]
      BY <2>1, <2>2
    <3> QED BY <1>1, <2>1, <2>2, <3>1
  <2>3. CASE i # k
    <3>1. p[i] # p[k]
      BY <2>1, <2>3
    <3> QED BY <1>1, <2>1, <2>3, <3>1
  <2> QED BY <2>2, <2>3
<1>3. \A i, j \in 1..m : q[i] = q[j] => i = j
  <2> SUFFICES ASSUME NEW i \in 1..m, NEW j \in 1..m, q[i] = q[j] PROVE i = j
    OBVIOUS
  <2>1. i \in 1..m + 1 /\ j \in 1..m + 1 /\ m + 1 \in 1..m + 1 /\ i # m + 1 /\ j # m + 1
    OBVIOUS
  <2> QED BY <2>1
<1>4. u \in [1..m -> Int]
  OBVIOUS
<1>5. Total(b, 0, m) = Total(u, 0, m)
  <2> HIDE DEF q, u
  <2> QED BY <1>2, <1>3, <1>4 DEF AnyOrder
<1>6. /\ \A i \in 1..m : b[i] = IF i = k THEN a[m + 1] ELSE a[i]
      /\ \A i \in 1..m : a[i] \in Int /\ b[i] \in Int
      /\ a[m + 1] \in Int /\ a[k] = v[m + 1]
  <2>1. \A i \in 1..m : b[i] = v[q[i]]
    BY <1>2
  <2>2. \A i \in 1..m + 1 : a[i] = v[p[i]] /\ a[i] \in Int
    OBVIOUS
  <2>3. \A i \in 1..m : q[i] = IF i = k THEN p[m + 1] ELSE p[i]
    OBVIOUS
  <2>4. \A i \in 1..m : i \in 1..m + 1
    OBVIOUS
  <2>5. m + 1 \in 1..m + 1
    OBVIOUS
  <2> HIDE DEF a, b, u, q
  <2>6. ASSUME NEW i \in 1..m PROVE b[i] = IF i = k THEN a[m + 1] ELSE a[i]
    <3>1. b[i] = v[q[i]] /\ i \in 1..m + 1 /\ a[i] = v[p[i]] /\ a[m + 1] = v[p[m + 1]]
      BY <2>1, <2>2, <2>4, <2>5
    <3>2. q[i] = IF i = k THEN p[m + 1] ELSE p[i]
      BY <2>3
    <3> QED BY <3>1, <3>2
  <2> QED BY <1>1, <2>2, <2>4, <2>5, <2>6
<1>7. /\ \A i \in 1..m : u[i] = v[i] /\ u[i] \in Int
      /\ v[m + 1] \in Int
  OBVIOUS
<1>8. 0 \in Nat /\ 0 <= m /\ 0 + 1 = 1
  OBVIOUS
<1> HIDE DEF a, b, u, q
<1>9. Total(v, 0, m + 1) = Total(u, 0, m) + v[m + 1] /\ Total(u, 0, m) \in Int
  <2>1. Agree(v, u, 0, m) /\ Ints(u, 0, m)
    BY <1>7 DEF Agree, Ints
  <2> QED BY <1>7, <1>8, <2>1, TotalStep
<1>10. Total(a, 0, m + 1) = Total(a, 0, m) + a[m + 1] /\ Total(a, 0, m) \in Int
  <2>1. Agree(a, a, 0, m) /\ Ints(a, 0, m)
    BY <1>6 DEF Agree, Ints
  <2> QED BY <1>6, <1>8, <2>1, TotalStep
<1>11. CASE k = m + 1
  <2>1. Agree(a, b, 0, m) /\ Ints(b, 0, m)
    BY <1>6, <1>11 DEF Agree, Ints
  <2>2. Total(a, 0, m) = Total(b, 0, m)
    BY <1>6, <1>8, <2>1, TotalStep
  <2> QED BY <1>5, <1>6, <1>9, <1>10, <1>11, <2>2 DEF a
<1>12. CASE k # m + 1
  <2>1. k \in 0 + 1..m /\ b[k] = a[m + 1] /\ b[k] \in Int
    BY <1>6, <1>12
  <2>2. ChangedAt(k, b, a, 0, m)
    <3>1. Ints(a, 0, m)
      BY <1>6 DEF Ints
    <3>2. \A i \in 0 + 1..m : i # k => b[i] = a[i]
      BY <1>6
    <3> QED BY <2>1, <3>1, <3>2 DEF ChangedAt
  <2>3. Total(b, 0, m) = Total(a, 0, m) + (b[k] - a[k])
    BY <1>8, <2>2, TotalChange
  <2>4. a[k] \in Int /\ v[m + 1] = a[k]
    BY <1>6, <1>7
  <2> QED BY <1>5, <1>9, <1>10, <2>1, <2>3, <2>4 DEF a
<1> QED BY <1>11, <1>12

(* For every number of values: there is no least one for which the order matters. *)
LEMMA OrderFree == \A n \in Nat : AnyOrder(n)
<1> DEFINE D == {n \in Nat : ~AnyOrder(n)}
<1>1. D = {}
  <2> SUFFICES ASSUME D # {} PROVE FALSE
    OBVIOUS
  <2>1. PICK m \in D : \A k \in D : m <= k
    <3>1. D \in SUBSET Nat
      OBVIOUS
    <3> HIDE DEF D
    <3> QED BY <3>1, LeastThere
  <2>2. m # 0
    <3>1. AnyOrder(0)
      BY TotalEmpty DEF AnyOrder
    <3> QED BY <2>1, <3>1
  <2>3. m - 1 \in Nat /\ AnyOrder(m - 1) /\ (m - 1) + 1 = m
    BY <2>1, <2>2
  <2>4. AnyOrder((m - 1) + 1)
    BY <2>3, AnyOrderStep
  <2> QED BY <2>1, <2>3, <2>4
<1> QED BY <1>1

-----------------------------------------------------------------------------
(* Sorting.  Sort picks an order that sorts the list; there is one. *)

\* p is an order that sorts the first n values of v.
Orders(p, v, n) ==
  /\ p \in [1..n -> 1..n]
  /\ \A i, j \in 1..n : i < j => v[p[i]] <= v[p[j]]
  /\ \A i, j \in 1..n : p[i] = p[j] => i = j

(* One value more: it goes before the first greater one. *)
LEMMA OrdersStep ==
  ASSUME NEW m \in Nat, NEW v, Ints(v, 0, m + 1), NEW p, Orders(p, v, m)
  PROVE  \E q : Orders(q, v, m + 1)
<1> DEFINE x == v[m + 1]
           J == {j \in 1..m : v[p[j]] > x} \cup {m + 1}
<1>1. PICK k \in J : \A j \in J : k <= j
  <2>1. J \in SUBSET Nat /\ J # {}
    OBVIOUS
  <2> HIDE DEF J
  <2> QED BY <2>1, LeastThere
<1> DEFINE q == [i \in 1..m + 1 |->
                   IF i < k THEN p[i] ELSE IF i = k THEN m + 1 ELSE p[i - 1]]
<1>2. k \in 1..m + 1
  BY <1>1
<1>3. \A i \in 1..m : p[i] \in 1..m /\ v[p[i]] \in Int
  BY DEF Orders, Ints
<1>4. x \in Int
  BY DEF Ints
<1>5. \A i \in 1..m : i < k => v[p[i]] <= x
  BY <1>1, <1>3, <1>4
<1>6. \A i \in 1..m : i >= k => x < v[p[i]]
  <2> SUFFICES ASSUME NEW i \in 1..m, i >= k PROVE x < v[p[i]]
    OBVIOUS
  <2>1. k \in 1..m /\ v[p[k]] > x
    BY <1>1
  <2>2. i = k \/ v[p[k]] <= v[p[i]]
    BY <2>1 DEF Orders
  <2> QED BY <1>3, <1>4, <2>1, <2>2
<1>7. ASSUME NEW i \in 1..m + 1
      PROVE  \/ i < k /\ i \in 1..m /\ q[i] = p[i]
             \/ i = k /\ q[i] = m + 1
             \/ i > k /\ i - 1 \in 1..m /\ i - 1 >= k /\ q[i] = p[i - 1]
  BY <1>2
<1>8. q \in [1..m + 1 -> 1..m + 1]
  <2>1. \A i \in 1..m + 1 : q[i] \in 1..m + 1
    <3> HIDE DEF q
    <3> QED BY <1>3, <1>7
  <2> QED BY <2>1
<1> HIDE DEF q, x
<1>9. ASSUME NEW i \in 1..m + 1, NEW j \in 1..m + 1, i < j
      PROVE  v[q[i]] <= v[q[j]]
  <2>1. \A a, b \in 1..m : a < b => v[p[a]] <= v[p[b]]
    BY DEF Orders
  <2>2. CASE i < k /\ j < k
    BY <1>7, <1>9, <2>1, <2>2
  <2>3. CASE i < k /\ j = k
    <3>1. i \in 1..m /\ q[i] = p[i] /\ q[j] = m + 1
      BY <1>2, <1>7, <2>3
    <3> QED BY <1>5, <2>3, <3>1 DEF x
  <2>4. CASE i < k /\ j > k
    <3>1. i \in 1..m /\ q[i] = p[i] /\ j - 1 \in 1..m /\ q[j] = p[j - 1] /\ i < j - 1
      BY <1>2, <1>7, <2>4
    <3> QED BY <2>1, <3>1
  <2>5. CASE i = k
    <3>1. q[i] = m + 1 /\ j - 1 \in 1..m /\ j - 1 >= k /\ q[j] = p[j - 1]
      BY <1>2, <1>7, <1>9, <2>5
    <3>2. x < v[p[j - 1]] /\ v[p[j - 1]] \in Int
      BY <1>3, <1>6, <3>1
    <3> QED BY <1>4, <3>1, <3>2 DEF x
  <2>6. CASE i > k
    <3>1. /\ i - 1 \in 1..m /\ q[i] = p[i - 1] /\ j - 1 \in 1..m /\ q[j] = p[j - 1]
          /\ i - 1 < j - 1
      BY <1>2, <1>7, <1>9, <2>6
    <3> QED BY <2>1, <3>1
  <2> QED BY <1>2, <2>2, <2>3, <2>4, <2>5, <2>6
<1>10. ASSUME NEW i \in 1..m + 1, NEW j \in 1..m + 1, q[i] = q[j]
       PROVE  i = j
  <2>1. \A a, b \in 1..m : p[a] = p[b] => a = b
    BY DEF Orders
  <2>2. \A a \in 1..m : p[a] # m + 1
    BY <1>3
  <2>3. CASE i = k \/ j = k
    BY <1>7, <1>10, <2>2, <2>3
  <2>4. CASE i < k /\ j < k
    BY <1>7, <1>10, <2>1, <2>4
  <2>5. CASE i > k /\ j > k
    <3>1. i - 1 \in 1..m /\ j - 1 \in 1..m /\ p[i - 1] = p[j - 1]
      BY <1>2, <1>7, <1>10, <2>5
    <3>2. i - 1 = j - 1
      BY <2>1, <3>1
    <3> QED BY <3>2
  <2>6. CASE i < k /\ j > k
    <3>1. i \in 1..m /\ j - 1 \in 1..m /\ j - 1 >= k /\ p[i] = p[j - 1]
      BY <1>2, <1>7, <1>10, <2>6
    <3>2. i = j - 1
      BY <2>1, <3>1
    <3> QED BY <1>2, <2>6, <3>1, <3>2
  <2>7. CASE i > k /\ j < k
    <3>1. j \in 1..m /\ i - 1 \in 1..m /\ i - 1 >= k /\ p[j] = p[i - 1]
      BY <1>2, <1>7, <1>10, <2>7
    <3>2. j = i - 1
      BY <2>1, <3>1
    <3> QED BY <1>2, <2>7, <3>1, <3>2
  <2> QED BY <1>2, <2>3, <2>4, <2>5, <2>6, <2>7
<1>11. Orders(q, v, m + 1)
  BY <1>8, <1>9, <1>10 DEF Orders
<1> QED BY <1>11

(* Every list can be sorted: there is no shortest one that cannot. *)
LEMMA OrdersThere ==
  ASSUME NEW n \in Nat, NEW v, Ints(v, 0, n)
  PROVE  \E p : Orders(p, v, n)
<1> DEFINE D == {m \in 0..n : ~\E p : Orders(p, v, m)}
<1>1. D = {}
  <2> SUFFICES ASSUME D # {} PROVE FALSE
    OBVIOUS
  <2>1. PICK m \in D : \A k \in D : m <= k
    <3>1. D \in SUBSET Nat
      OBVIOUS
    <3> HIDE DEF D
    <3> QED BY <3>1, LeastThere
  <2>2. m # 0
    <3> DEFINE q == [i \in 1..0 |-> i]
    <3>1. Orders(q, v, 0)
      BY DEF Orders
    <3> HIDE DEF q
    <3> QED BY <2>1, <3>1
  <2>3. m - 1 \in 0..n /\ m - 1 \notin D /\ (m - 1) + 1 = m
    BY <2>1, <2>2
  <2>4. PICK p : Orders(p, v, m - 1)
    BY <2>3
  <2>5. Ints(v, 0, m)
    BY <2>1 DEF Ints
  <2>6. PICK l \in Nat : l = m - 1 /\ l + 1 = m
    BY <2>3
  <2>7. Ints(v, 0, l + 1) /\ Orders(p, v, l)
    BY <2>4, <2>5, <2>6
  <2>8. \E q : Orders(q, v, l + 1)
    BY <2>7, OrdersStep
  <2> QED BY <2>1, <2>6, <2>8
<1>2. n \in 0..n
  OBVIOUS
<1> QED BY <1>1, <1>2, Zenon

(* A sorted list is the list read in an order that sorts it, and has the same sum. *)
LEMMA SortIs ==
  ASSUME NEW s \in Seq(Int)
  PROVE  /\ \E p : Orders(p, s, Len(s)) /\ Sort(s) = [i \in 1..Len(s) |-> s[p[i]]]
         /\ Total(Sort(s), 0, Len(s)) = Total(s, 0, Len(s))
<1> DEFINE n == Len(s)
           P(p) == /\ \A i, j \in DOMAIN s : i < j => s[p[i]] <= s[p[j]]
                   /\ IsInjective(p)
           order == CHOOSE p \in [DOMAIN s -> DOMAIN s] : P(p)
<1>1. n \in Nat /\ DOMAIN s = 1..n /\ s \in [1..n -> Int]
  OBVIOUS
<1>2. Ints(s, 0, n)
  BY <1>1 DEF Ints
<1>3. PICK p : Orders(p, s, n)
  <2> HIDE DEF n
  <2> QED BY <1>1, <1>2, OrdersThere
<1>4. p \in [DOMAIN s -> DOMAIN s] /\ P(p)
  <2> HIDE DEF n
  <2> QED BY <1>1, <1>3 DEF Orders, IsInjective
<1>5. order \in [DOMAIN s -> DOMAIN s] /\ P(order)
  <2> HIDE DEF P
  <2> QED BY <1>4
<1>6. Sort(s) = [i \in DOMAIN s |-> s[order[i]]]
  BY DEF Sort
<1> HIDE DEF order, n
<1>7. Orders(order, s, n)
  BY <1>1, <1>5 DEF Orders, IsInjective
<1>8. Sort(s) = [i \in 1..n |-> s[order[i]]]
  BY <1>1, <1>6
<1>9. Total(Sort(s), 0, n) = Total(s, 0, n)
  <2>1. AnyOrder(n)
    BY <1>1, OrderFree
  <2>2. order \in [1..n -> 1..n] /\ \A i, j \in 1..n : order[i] = order[j] => i = j
    BY <1>7 DEF Orders
  <2>3. Total([i \in 1..n |-> s[order[i]]], 0, n) = Total(s, 0, n)
    BY <1>1, <2>1, <2>2 DEF AnyOrder
  <2> QED BY <1>8, <2>3
<1> QED BY <1>7, <1>8, <1>9 DEF n

-----------------------------------------------------------------------------
(* Ranks: the value at place r of the sorted list has rank r, and no other has. *)

\* s is the window of v after from.
Window(v, s, from, n) == \A i \in 1..n : v[from + i] = s[i]

\* The values of a window that are not above x, and those below it.
NotAbove(x, v, from, n) == {i \in from + 1..from + n : v[i] <= x}
Below(x, v, from, n) == {i \in from + 1..from + n : v[i] < x}

(* An order leaves no value out. *)
LEMMA OrdersOnto ==
  ASSUME NEW n \in Nat, NEW s, NEW p, Orders(p, s, n)
  PROVE  \A k \in 1..n : \E i \in 1..n : p[i] = k
<1>1. p \in [1..n -> 1..n] /\ \A i, j \in 1..n : p[i] = p[j] => i = j
  BY DEF Orders
<1> QED BY <1>1, InjectionOnto

(* At least r values are not above it, those at the first r places, and fewer are below. *)
LEMMA PlaceIsRank ==
  ASSUME NEW from \in Nat, NEW n \in Nat, NEW v, NEW s, NEW p,
         Ints(s, 0, n), Orders(p, s, n), Window(v, s, from, n),
         NEW r \in 1..n
  PROVE  /\ Cardinality(NotAbove(s[p[r]], v, from, n)) >= r
         /\ Cardinality(Below(s[p[r]], v, from, n)) < r
<1> DEFINE x == s[p[r]]
           S == from + 1..from + n
           A == {i \in S : v[i] <= x}
           B == {i \in S : v[i] < x}
           C == {j \in 1..n : s[p[j]] < x}
           f == [j \in 1..r |-> from + p[j]]
           g == [j \in C |-> from + p[j]]
<1>1. /\ p \in [1..n -> 1..n]
      /\ \A i, j \in 1..n : i < j => s[p[i]] <= s[p[j]]
      /\ \A i, j \in 1..n : p[i] = p[j] => i = j
      /\ \A i \in 1..n : s[i] \in Int
  BY DEF Orders, Ints
<1>2. IsFiniteSet(S) /\ IsFiniteSet(1..r) /\ IsFiniteSet(1..n)
  <2>1. \A a, b \in Int : IsFiniteSet(a..b)
    BY FS_Interval
  <2>2. from + 1 \in Int /\ from + n \in Int /\ 1 \in Int /\ r \in Int /\ n \in Int
    OBVIOUS
  <2> QED BY <2>1, <2>2
<1>3. IsFiniteSet(A) /\ IsFiniteSet(B) /\ IsFiniteSet(C)
  <2>1. A \in SUBSET S /\ B \in SUBSET S /\ C \in SUBSET (1..n)
    OBVIOUS
  <2> HIDE DEF A, B, C, S
  <2> QED BY <1>2, <2>1, FS_Subset
<1>4. \A j \in 1..n : from + p[j] \in S /\ v[from + p[j]] = s[p[j]]
  BY <1>1 DEF Window
<1>5. r \in Nat /\ \A j \in 1..r : j \in 1..n /\ s[p[j]] <= x
  <2> SUFFICES ASSUME NEW j \in 1..r PROVE j \in 1..n /\ s[p[j]] <= x
    OBVIOUS
  <2>1. CASE j = r
    <3>1. p[r] \in 1..n
      BY <1>1
    <3>2. s[p[r]] \in Int
      BY <1>1, <3>1
    <3> QED BY <2>1, <3>2
  <2>2. CASE j # r
    BY <1>1, <2>2
  <2> QED BY <2>1, <2>2
<1>6. Cardinality(A) >= r
  <2>1. f \in [1..r -> A]
    BY <1>4, <1>5
  <2>2. ASSUME NEW i \in 1..r, NEW j \in 1..r, f[i] = f[j] PROVE i = j
    <3>1. i \in 1..n /\ j \in 1..n
      BY <1>5
    <3>2. p[i] \in Nat /\ p[j] \in Nat
      BY <1>1, <3>1
    <3>3. p[i] = p[j]
      BY <2>2, <3>2
    <3> QED BY <1>1, <3>1, <3>3
  <2>3. f \in Injection(1..r, A)
    <3> HIDE DEF f, A
    <3> QED BY <2>1, <2>2 DEF Injection, IsInjective
  <2>4. Cardinality(1..r) <= Cardinality(A)
    <3> HIDE DEF f, A
    <3> QED BY <1>3, <2>3, FS_Injection
  <2>5. Cardinality(1..r) = r
    BY <1>5, FS_Interval
  <2>6. Cardinality(A) \in Nat
    BY <1>3, FS_CardinalityType
  <2> HIDE DEF A
  <2> QED BY <1>5, <2>4, <2>5, <2>6
<1>7. Cardinality(B) < r
  <2>1. \A i \in B : \E j \in C : from + p[j] = i
    <3> SUFFICES ASSUME NEW i \in B PROVE \E j \in C : from + p[j] = i
      OBVIOUS
    <3>1. i - from \in 1..n /\ from + (i - from) = i
      OBVIOUS
    <3>2. PICK j \in 1..n : p[j] = i - from
      BY <3>1, OrdersOnto
    <3>3. from + p[j] = i
      BY <3>1, <3>2
    <3>4. s[p[j]] = v[i]
      BY <1>4, <3>3
    <3> QED BY <3>3, <3>4
  <2>2. g \in Surjection(C, B)
    <3>1. \A j \in C : g[j] = from + p[j] /\ g[j] \in B
      BY <1>4
    <3>2. g \in [C -> B]
      BY <3>1
    <3> HIDE DEF g, B, C
    <3> QED BY <2>1, <3>1, <3>2 DEF Surjection
  <2>3. Cardinality(B) <= Cardinality(C)
    <3> HIDE DEF g, B, C
    <3> QED BY <1>3, <2>2, FS_Surjection
  <2>4. C \subseteq 1..r - 1
    <3> SUFFICES ASSUME NEW j \in C PROVE j < r
      BY <1>5
    <3>1. j \in 1..n /\ s[p[j]] < x /\ x \in Int /\ s[p[j]] \in Int
      BY <1>1
    <3>2. j # r
      BY <3>1
    <3>3. r < j => x <= s[p[j]]
      BY <1>1, <3>1
    <3> HIDE DEF x
    <3> QED BY <1>5, <3>1, <3>2, <3>3
  <2>5. Cardinality(C) <= Cardinality(1..r - 1)
    <3>1. IsFiniteSet(1..r - 1)
      BY <1>5, FS_Interval
    <3> HIDE DEF C
    <3> QED BY <2>4, <3>1, FS_Subset
  <2>6. Cardinality(1..r - 1) = r - 1
    BY <1>5, FS_Interval
  <2>7. Cardinality(B) \in Nat /\ Cardinality(C) \in Nat
    BY <1>3, FS_CardinalityType
  <2> HIDE DEF B, C
  <2> QED BY <1>5, <2>3, <2>5, <2>6, <2>7
<1> QED BY <1>6, <1>7 DEF NotAbove, Below

-----------------------------------------------------------------------------
(* The inductive invariant: what the object of each class is, given the samples it was
   given and how many of them the last flush found. *)

N == Len(samples)

HistoryInv ==
  /\ samples \in Seq([at: Nat, value: Values, weight: Weights])
  /\ flushed \in 0..N /\ now \in Nat
  /\ class \in Types \cup {"none"}
  /\ class = "none" => samples = <<>> /\ flushed = 0

\* Between two flushes the object of a gauge, a count, a counter and a set knows the
\* samples since the first of them.
GaugeIs(m) == m = IF flushed = N THEN None ELSE Some(samples[N].value)
CountIs(m) == m = IF flushed = N THEN None ELSE Some(Total(ValuesOf, flushed, N))
CounterIs(m) == m = Total(WeightedOf, flushed, N)
SetIs(m) == m = {samples[i].value : i \in Since}

\* A monotonic count remembers the last counter across a flush: as the current one when
\* there was nothing to report, else as the previous one.
MonotonicIs(m) ==
  /\ N = 0 => m = [prev |-> None, curr |-> None, count |-> None]
  /\ N = 1 => m = [prev |-> None, curr |-> Some(samples[1].value), count |-> None]
  /\ N >= 2 /\ flushed = N => m = [prev |-> Some(samples[N].value), curr |-> None, count |-> None]
  /\ N >= 2 /\ flushed < N =>
       m = [prev |-> Some(samples[N - 1].value), curr |-> Some(samples[N].value),
            count |-> Some(Total(Increases, Max({1, flushed}), N))]

HistogramIs(m) ==
  /\ m = [count |-> Total(WeightsOf, flushed, N),
          samples |-> [i \in 1..N - flushed |-> samples[flushed + i].value]]
  /\ m.count \in Nat /\ (flushed < N => m.count > 0)

\* A rate keeps its last sample across a flush.
At2(i) == [at |-> samples[i].at, value |-> samples[i].value]
RateIs(m) ==
  /\ m \in Seq([at: Nat, value: Int])
  /\ N = 0 => m = <<>>
  /\ N >= 1 /\ (flushed = N \/ N = 1) => m = <<At2(N)>>
  /\ N >= 2 /\ flushed < N =>
       Len(m) >= 2 /\ m[Len(m)] = At2(N) /\ m[Len(m) - 1] = At2(N - 1)

Is(c, m) ==
  CASE c = "g" -> GaugeIs(m)
    [] c = "ct" -> CountIs(m)
    [] c = "ct-c" -> MonotonicIs(m)
    [] c = "c" -> CounterIs(m)
    [] c = "h" -> HistogramIs(m)
    [] c = "s" -> SetIs(m)
    [] c = "_dd-r" -> RateIs(m)

ObjectInv == class # "none" => Is(class, metric)

Inv == HistoryInv /\ ObjectInv /\ ReportsReference

(* The assumption on the constants. *)
LEMMA Constants ==
  /\ \A c \in Types : c \in {"g", "ct", "ct-c", "c", "h", "s", "_dd-r"} /\ c # "none"
  /\ \A v \in Values : v \in Int
  /\ \A w \in Weights : w \in Nat /\ w >= 1
  /\ \A p \in Percentiles : p \in 0..100
<1>1. /\ Types \subseteq {"g", "ct", "ct-c", "c", "h", "s", "_dd-r"}
      /\ Values \subseteq Int /\ Weights \subseteq Nat \ {0} /\ Percentiles \subseteq 0..100
  BY MetricTypesAssumption
<1> QED BY <1>1

(* A value that is there is not None. *)
LEMMA Options ==
  ASSUME NEW v
  PROVE  Some(v) # None /\ Some(v)[1] = v /\ OrZero(Some(v)) = v /\ OrZero(None) = 0
BY DEF Some, None, OrZero

(* The greater of two numbers. *)
LEMMA MaxOfTwo ==
  ASSUME NEW a \in Int, NEW b \in Int
  PROVE  Max({a, b}) = IF a >= b THEN a ELSE b
<1> DEFINE m == IF a >= b THEN a ELSE b
<1>1. m \in {a, b} /\ \A y \in {a, b} : m >= y
  OBVIOUS
<1>2. \A x \in {a, b} : (\A y \in {a, b} : x >= y) => x = m
  OBVIOUS
<1>3. Max({a, b}) \in {a, b} /\ \A y \in {a, b} : Max({a, b}) >= y
  BY <1>1 DEF Max
<1> QED BY <1>2, <1>3

(* The samples have integer values, positive weights and a time. *)
LEMMA SamplesTyped ==
  ASSUME HistoryInv
  PROVE  /\ N \in Nat /\ flushed \in Nat /\ flushed <= N /\ DOMAIN samples = 1..N
         /\ \A i \in 1..N : /\ samples[i].value \in Values /\ samples[i].value \in Int
                            /\ samples[i].weight \in Nat /\ samples[i].weight >= 1
                            /\ samples[i].at \in Nat
<1> DEFINE R == [at: Nat, value: Values, weight: Weights]
<1>1. samples \in Seq(R) /\ flushed \in 0..N
  BY DEF HistoryInv
<1>2. N \in Nat /\ DOMAIN samples = 1..N /\ \A i \in 1..N : samples[i] \in R
  <2> HIDE DEF R
  <2> QED BY <1>1 DEF N
<1>3. \A r \in R : r.at \in Nat /\ r.value \in Values /\ r.weight \in Weights
  OBVIOUS
<1> QED BY <1>1, <1>2, <1>3, Constants

(* The lists the reference adds up are lists of integers. *)
LEMMA ListsTyped ==
  ASSUME HistoryInv
  PROVE  /\ Ints(ValuesOf, flushed, N) /\ Ints(WeightsOf, flushed, N)
         /\ Ints(WeightedOf, flushed, N)
         /\ \A i \in 1..N : /\ ValuesOf[i] = samples[i].value
                            /\ WeightsOf[i] = samples[i].weight
                            /\ WeightedOf[i] = samples[i].value * samples[i].weight
                            /\ WeightedOf[i] \in Int
         /\ \A i \in 2..N : Increases[i] = Max({0, samples[i].value - samples[i - 1].value})
         /\ \A i \in 2..N : Increases[i] \in Int
         /\ Max({1, flushed}) \in Nat /\ Max({1, flushed}) >= 1
         /\ Max({1, flushed}) = IF flushed = 0 THEN 1 ELSE flushed
         /\ Ints(Increases, Max({1, flushed}), N)
<1>1. \A i \in flushed + 1..N : i \in 1..N
  BY SamplesTyped
<1>2. \A i \in 1..N : samples[i].value * samples[i].weight \in Int
  BY SamplesTyped
<1>3. \A i \in 1..N : /\ ValuesOf[i] = samples[i].value
                      /\ WeightsOf[i] = samples[i].weight
                      /\ WeightedOf[i] = samples[i].value * samples[i].weight
                      /\ WeightedOf[i] \in Int
  BY <1>2, SamplesTyped DEF ValuesOf, WeightsOf, WeightedOf
<1>4. Ints(ValuesOf, flushed, N) /\ Ints(WeightsOf, flushed, N) /\ Ints(WeightedOf, flushed, N)
  <2> SUFFICES ASSUME NEW i \in flushed + 1..N
               PROVE  ValuesOf[i] \in Int /\ WeightsOf[i] \in Int /\ WeightedOf[i] \in Int
    BY DEF Ints
  <2>1. i \in 1..N /\ samples[i].value \in Int /\ samples[i].weight \in Nat
    BY <1>1, SamplesTyped
  <2> QED BY <1>3, <2>1
<1>5. \A i \in 2..N : Increases[i] = Max({0, samples[i].value - samples[i - 1].value})
  BY DEF Increases, N
<1>6. ASSUME NEW i \in 2..N PROVE Increases[i] \in Int
  <2>1. PICK d \in Int : d = samples[i].value - samples[i - 1].value
    BY SamplesTyped
  <2>2. Max({0, d}) \in Int
    BY MaxOfTwo
  <2> QED BY <1>5, <2>1, <2>2
<1>7. /\ Max({1, flushed}) \in Nat /\ Max({1, flushed}) >= 1
      /\ Max({1, flushed}) = IF flushed = 0 THEN 1 ELSE flushed
  BY SamplesTyped, MaxOfTwo
<1>8. Ints(Increases, Max({1, flushed}), N)
  BY <1>6, <1>7, SamplesTyped DEF Ints
<1> QED BY <1>3, <1>4, <1>5, <1>6, <1>7, <1>8

\* What a submission does to the history.
Submitted(v, w) ==
  /\ flushed' = flushed
  /\ samples' = Append(samples, [at |-> now, value |-> v, weight |-> w])

(* A submission adds its sample to the history, and to every sum. *)
LEMMA Sampled ==
  ASSUME HistoryInv, NEW v \in Values, NEW w \in Weights, Submitted(v, w)
  PROVE  /\ samples' \in Seq([at: Nat, value: Values, weight: Weights])
         /\ N' = N + 1 /\ \A i \in 1..N : samples'[i] = samples[i]
         /\ samples'[N + 1] = [at |-> now, value |-> v, weight |-> w]
         /\ Total(ValuesOf, flushed, N)' = Total(ValuesOf, flushed, N) + v
         /\ Total(WeightsOf, flushed, N)' = Total(WeightsOf, flushed, N) + w
         /\ Total(WeightedOf, flushed, N)' = Total(WeightedOf, flushed, N) + v * w
         /\ N >= 1 => Total(Increases, Max({1, flushed}), N)' =
                        Total(Increases, Max({1, flushed}), N) + Max({0, v - samples[N].value})
<1> DEFINE R == [at: Nat, value: Values, weight: Weights]
           new == [at |-> now, value |-> v, weight |-> w]
           k == Max({1, flushed})
<1>1. new \in R /\ samples \in Seq(R)
  BY DEF HistoryInv
<1>2. /\ samples' \in Seq(R) /\ Len(samples') = N + 1
      /\ \A i \in 1..N : samples'[i] = samples[i]
      /\ samples'[N + 1] = new
  <2>1. samples' = Append(samples, new)
    BY DEF Submitted
  <2> HIDE DEF R, new
  <2> QED BY <1>1, <2>1, SamplesTyped DEF N
<1>a. flushed' = flushed
  BY DEF Submitted
<1>3. N' = N + 1 /\ N \in Nat /\ flushed \in Nat /\ flushed <= N /\ v \in Int /\ w \in Nat
  BY <1>2, SamplesTyped, Constants DEF N
<1>4. DOMAIN samples' = 1..N + 1
  <2> HIDE DEF R
  <2> QED BY <1>2
<1>5. new.value = v /\ new.weight = w
  OBVIOUS
<1> HIDE DEF new, R
<1>6. Total(ValuesOf, flushed, N)' = Total(ValuesOf, flushed, N) + v
  <2>1. PICK a : a = ValuesOf
    OBVIOUS
  <2>2. PICK b : b = ValuesOf'
    OBVIOUS
  <2>3. \A i \in 1..N + 1 : b[i] = samples'[i].value
    BY <1>4, <2>2 DEF ValuesOf
  <2>4. Agree(b, a, flushed, N)
    BY <1>2, <1>3, <2>1, <2>3, ListsTyped DEF Agree
  <2>5. b[N + 1] = v /\ Ints(a, flushed, N)
    BY <1>2, <1>3, <1>5, <2>1, <2>3, ListsTyped
  <2>6. Total(b, flushed, N + 1) = Total(a, flushed, N) + b[N + 1]
    BY <1>3, <2>4, <2>5, TotalStep
  <2> QED BY <1>a, <1>3, <2>1, <2>2, <2>5, <2>6
<1>7. Total(WeightsOf, flushed, N)' = Total(WeightsOf, flushed, N) + w
  <2>1. PICK a : a = WeightsOf
    OBVIOUS
  <2>2. PICK b : b = WeightsOf'
    OBVIOUS
  <2>3. \A i \in 1..N + 1 : b[i] = samples'[i].weight
    BY <1>4, <2>2 DEF WeightsOf
  <2>4. Agree(b, a, flushed, N)
    BY <1>2, <1>3, <2>1, <2>3, ListsTyped DEF Agree
  <2>5. b[N + 1] = w /\ Ints(a, flushed, N)
    BY <1>2, <1>3, <1>5, <2>1, <2>3, ListsTyped
  <2>6. Total(b, flushed, N + 1) = Total(a, flushed, N) + b[N + 1]
    BY <1>3, <2>4, <2>5, TotalStep
  <2> QED BY <1>a, <1>3, <2>1, <2>2, <2>5, <2>6
<1>8. Total(WeightedOf, flushed, N)' = Total(WeightedOf, flushed, N) + v * w
  <2>1. PICK a : a = WeightedOf
    OBVIOUS
  <2>2. PICK b : b = WeightedOf'
    OBVIOUS
  <2>3. \A i \in 1..N + 1 : b[i] = samples'[i].value * samples'[i].weight
    BY <1>4, <2>2 DEF WeightedOf
  <2>4. Agree(b, a, flushed, N)
    BY <1>2, <1>3, <2>1, <2>3, ListsTyped DEF Agree
  <2>5. b[N + 1] = v * w /\ Ints(a, flushed, N) /\ v * w \in Int
    BY <1>2, <1>3, <1>5, <2>1, <2>3, ListsTyped
  <2>6. Total(b, flushed, N + 1) = Total(a, flushed, N) + b[N + 1]
    BY <1>3, <2>4, <2>5, TotalStep
  <2> QED BY <1>a, <1>3, <2>1, <2>2, <2>5, <2>6
<1>9. ASSUME N >= 1
      PROVE  Total(Increases, Max({1, flushed}), N)' =
               Total(Increases, Max({1, flushed}), N) + Max({0, v - samples[N].value})
  <2>1. PICK a : a = Increases
    OBVIOUS
  <2>2. PICK b : b = Increases'
    OBVIOUS
  <2>3. \A i \in 2..N + 1 : b[i] = Max({0, samples'[i].value - samples'[i - 1].value})
    BY <1>3, <2>2 DEF Increases, N
  <2>4. PICK f \in Nat : f = Max({1, flushed}) /\ f >= 1 /\ f <= N
    BY <1>3, <1>9, ListsTyped
  <2>5. Agree(b, a, f, N)
    <3> SUFFICES ASSUME NEW i \in f + 1..N PROVE b[i] = a[i]
      BY DEF Agree
    <3>1. i \in 2..N /\ i \in 2..N + 1 /\ i \in 1..N /\ i - 1 \in 1..N
      BY <1>3, <2>4
    <3>2. samples'[i] = samples[i] /\ samples'[i - 1] = samples[i - 1]
      BY <1>2, <3>1
    <3> QED BY <2>1, <2>3, <3>1, <3>2, ListsTyped
  <2>6. b[N + 1] = Max({0, v - samples[N].value})
    <3>1. N + 1 \in 2..N + 1 /\ (N + 1) - 1 = N /\ N \in 1..N
      BY <1>3, <1>9
    <3>2. samples'[(N + 1) - 1] = samples[N] /\ samples'[N + 1].value = v
      BY <1>2, <1>5, <3>1
    <3> QED BY <2>3, <3>1, <3>2
  <2>7. Ints(a, f, N) /\ b[N + 1] \in Int
    <3>1. v - samples[N].value \in Int
      BY <1>3, <1>9, SamplesTyped
    <3> QED BY <2>1, <2>4, <2>6, <3>1, ListsTyped, MaxOfTwo
  <2>8. Total(b, f, N + 1) = Total(a, f, N) + b[N + 1]
    BY <1>3, <2>4, <2>5, <2>7, TotalStep
  <2>9. Max({1, flushed})' = f
    BY <1>a, <2>4
  <2> QED BY <1>3, <2>1, <2>2, <2>4, <2>6, <2>8, <2>9
<1> QED BY <1>2, <1>3, <1>6, <1>7, <1>8, <1>9 DEF new, R

(* A new object is that of a context without samples. *)
LEMMA NewIs ==
  ASSUME NEW c \in Types, samples = <<>>, flushed = 0
  PROVE  Is(c, New(c))
<1>1. N = 0 /\ Since = {} /\ Max({1, flushed}) = 1
  BY MaxOfTwo DEF N, Since
<1>2. c \in {"g", "ct", "ct-c", "c", "h", "s", "_dd-r"}
  BY Constants
<1>3. \A v : Total(v, flushed, N) = 0
  BY <1>1, TotalEmpty
<1>4. CASE c \in {"g", "ct"}
  BY <1>1, <1>4 DEF Is, New, GaugeIs, CountIs
<1>5. CASE c = "ct-c"
  BY <1>1, <1>5 DEF Is, New, MonotonicIs
<1>6. CASE c = "c"
  BY <1>1, <1>3, <1>6 DEF Is, New, CounterIs
<1>7. CASE c = "h"
  <2>1. [i \in 1..N - flushed |-> samples[flushed + i].value] = <<>>
    BY <1>1
  <2>2. HistogramIs([count |-> 0, samples |-> <<>>])
    BY <1>1, <1>3, <2>1 DEF HistogramIs
  <2> QED BY <1>7, <2>2 DEF Is, New
<1>8. CASE c = "s"
  BY <1>1, <1>8 DEF Is, New, SetIs
<1>9. CASE c = "_dd-r"
  <2>1. RateIs(<<>>)
    BY <1>1 DEF RateIs
  <2> QED BY <1>9, <2>1 DEF Is, New
<1> QED BY <1>2, <1>4, <1>5, <1>6, <1>7, <1>8, <1>9

(* Sampling a monotonic count. *)
LEMMA MonotonicSampled ==
  ASSUME HistoryInv, NEW v \in Values, NEW w \in Weights, Submitted(v, w),
         NEW m, MonotonicIs(m), NEW x, x = MonotonicSample(m, v)
  PROVE  MonotonicIs(x)'
<1>1. /\ N \in Nat /\ flushed \in Nat /\ flushed <= N /\ N' = N + 1
      /\ flushed' = flushed
      /\ \A i \in 1..N : samples'[i] = samples[i]
      /\ samples'[N + 1].value = v
  <2>1. /\ N' = N + 1 /\ \A i \in 1..N : samples'[i] = samples[i]
        /\ samples'[N + 1] = [at |-> now, value |-> v, weight |-> w]
    BY Sampled
  <2>2. flushed' = flushed
    BY DEF Submitted
  <2> QED BY <2>1, <2>2, SamplesTyped
<1>2. CASE N = 0
  <2>1. m = [prev |-> None, curr |-> None, count |-> None]
    BY <1>2 DEF MonotonicIs
  <2>2. x = [prev |-> None, curr |-> Some(v), count |-> None]
    BY <2>1 DEF MonotonicSample
  <2>3. N' = 1 /\ samples'[1].value = v
    BY <1>1, <1>2
  <2> QED BY <2>2, <2>3 DEF MonotonicIs
<1>3. CASE N >= 1
  <2> DEFINE last == samples[N].value
             inc == Max({0, v - last})
             t == Total(Increases, Max({1, flushed}), N)
  <2>1. last \in Int /\ v \in Int /\ v - last \in Int /\ N \in 1..N
    BY <1>1, <1>3, SamplesTyped, Constants
  <2>2. inc \in Int
    <3>1. PICK d \in Int : d = v - last
      BY <2>1
    <3>2. Max({0, d}) \in Int
      BY MaxOfTwo
    <3> QED BY <3>1, <3>2
  <2>3. Total(Increases, Max({1, flushed}), N)' = t + inc
    BY <1>3, Sampled
  <2>4. t \in Int
    <3>1. /\ Max({1, flushed}) \in Nat /\ Max({1, flushed}) <= N
          /\ Ints(Increases, Max({1, flushed}), N)
      BY <1>1, <1>3, ListsTyped
    <3>2. PICK f \in Nat : f = Max({1, flushed}) /\ f <= N /\ Ints(Increases, f, N)
      BY <3>1
    <3>3. PICK s : Sums(s, Increases, f, N)
      BY <1>1, <3>2, SumsThere
    <3>4. Total(Increases, f, N) = s[N] /\ s[N] \in Int
      <4>1. Total(Increases, f, N) = s[N]
        BY <1>1, <3>2, <3>3, TotalIs
      <4>2. N \in f..N
        BY <1>1, <3>2
      <4>3. s \in [f..N -> Int]
        BY <3>3 DEF Sums
      <4> QED BY <4>1, <4>2, <4>3
    <3> QED BY <3>2, <3>4
  <2>5. flushed = N \/ N = 1 => t = 0
    <3>1. flushed = N \/ N = 1 => Max({1, flushed}) = N
      BY <1>1, <1>3, ListsTyped
    <3> QED BY <1>1, <3>1, TotalEmpty
  <2> HIDE DEF inc, last, t
  <2>6. x = [prev |-> Some(last), curr |-> Some(v), count |-> Some(t + inc)]
    <3>1. CASE N = 1
      <4>1. m = [prev |-> None, curr |-> Some(last), count |-> None]
        BY <3>1 DEF MonotonicIs, last
      <4>2. x = [prev |-> Some(last), curr |-> Some(v), count |-> Some(0 + inc)]
        BY <4>1, Options DEF MonotonicSample, inc
      <4> QED BY <2>5, <3>1, <4>2
    <3>2. CASE N >= 2 /\ flushed = N
      <4>1. m = [prev |-> Some(last), curr |-> None, count |-> None]
        BY <3>2 DEF MonotonicIs, last
      <4>2. x = [prev |-> Some(last), curr |-> Some(v), count |-> Some(0 + inc)]
        BY <4>1, Options DEF MonotonicSample, inc
      <4> QED BY <2>5, <3>2, <4>2
    <3>3. CASE N >= 2 /\ flushed < N
      <4>1. m = [prev |-> Some(samples[N - 1].value), curr |-> Some(last), count |-> Some(t)]
        BY <3>3 DEF MonotonicIs, last, t
      <4> QED BY <4>1, Options DEF MonotonicSample, inc
    <3> QED BY <1>1, <1>3, <3>1, <3>2, <3>3
  <2>7. /\ N' >= 2 /\ flushed' < N' /\ N' # 0 /\ N' # 1 /\ flushed' # N'
        /\ samples'[N' - 1].value = last /\ samples'[N'].value = v
    <3>1. (N + 1) - 1 = N /\ samples'[N] = samples[N]
      BY <1>1, <2>1
    <3> QED BY <1>1, <1>3, <3>1 DEF last
  <2>8. x = [prev |-> Some(samples'[N' - 1].value), curr |-> Some(samples'[N'].value),
             count |-> Some(Total(Increases, Max({1, flushed}), N)')]
    BY <2>3, <2>6, <2>7
  <2>9. Total(Increases, Max({1, flushed}), N)' = Total(Increases', Max({1, flushed'}), N')
    OBVIOUS
  <2> QED BY <2>7, <2>8, <2>9 DEF MonotonicIs
<1> QED BY <1>1, <1>2, <1>3

(* Sampling a histogram: its list and its count grow by one sample. *)
LEMMA HistogramSampled ==
  ASSUME HistoryInv, NEW v \in Values, NEW w \in Weights, Submitted(v, w),
         NEW m, HistogramIs(m), NEW x, x = HistogramSample(m, v, w)
  PROVE  HistogramIs(x)'
<1>1. /\ N \in Nat /\ flushed \in Nat /\ flushed <= N /\ N' = N + 1
      /\ \A i \in 1..N : samples'[i] = samples[i]
      /\ samples'[N + 1].value = v /\ w \in Nat /\ w >= 1
  <2>1. /\ N' = N + 1 /\ \A i \in 1..N : samples'[i] = samples[i]
        /\ samples'[N + 1] = [at |-> now, value |-> v, weight |-> w]
    BY Sampled
  <2> QED BY <2>1, SamplesTyped, Constants
<1>2. flushed' = flushed
  BY DEF Submitted
<1> DEFINE t == Total(WeightsOf, flushed, N)
           l == [i \in 1..N - flushed |-> samples[flushed + i].value]
           k == [i \in 1..N' - flushed' |-> samples'[flushed' + i].value]
<1>3. m = [count |-> t, samples |-> l] /\ t \in Nat
  BY DEF HistogramIs
<1>4. Total(WeightsOf, flushed, N)' = t + w
  BY Sampled
<1>5. Append(l, v) = k
  <2>1. l \in Seq(Values) /\ Len(l) = N - flushed
    <3>1. \A i \in 1..N - flushed : flushed + i \in 1..N
      BY <1>1
    <3>2. \A i \in 1..N - flushed : samples[flushed + i].value \in Values
      BY <3>1, SamplesTyped
    <3>3. N - flushed \in Nat
      BY <1>1
    <3> QED BY <3>2, <3>3
  <2>2. Append(l, v) \in Seq(Values) /\ Len(Append(l, v)) = N - flushed + 1
    <3> HIDE DEF l
    <3> QED BY <2>1
  <2>3. /\ \A i \in 1..N - flushed : Append(l, v)[i] = l[i]
        /\ Append(l, v)[N - flushed + 1] = v
    <3> HIDE DEF l
    <3> QED BY <2>1
  <2>4. k = [i \in 1..N - flushed + 1 |-> samples'[flushed + i].value]
    <3>1. (N + 1) - flushed = N - flushed + 1
      BY <1>1
    <3> QED BY <1>1, <1>2, <3>1
  <2>5. ASSUME NEW i \in 1..N - flushed + 1 PROVE Append(l, v)[i] = samples'[flushed + i].value
    <3>1. CASE i = N - flushed + 1
      <4>1. flushed + i = N + 1
        BY <1>1, <3>1
      <4> QED BY <1>1, <2>3, <3>1, <4>1
    <3>2. CASE i # N - flushed + 1
      <4>1. i \in 1..N - flushed /\ flushed + i \in 1..N
        BY <1>1, <3>2
      <4>2. l[i] = samples[flushed + i].value
        BY <4>1
      <4> QED BY <1>1, <2>3, <4>1, <4>2
    <3> QED BY <3>1, <3>2
  <2>6. Append(l, v) = [i \in 1..N - flushed + 1 |-> Append(l, v)[i]]
    <3> HIDE DEF l
    <3>1. PICK q \in Seq(Values) : q = Append(l, v) /\ Len(q) = N - flushed + 1
      BY <2>2
    <3>2. q \in [1..Len(q) -> Values]
      BY LenProperties
    <3>3. q = [i \in 1..Len(q) |-> q[i]]
      BY <3>2
    <3> QED BY <3>1, <3>3
  <2> HIDE DEF l
  <2> QED BY <2>4, <2>5, <2>6
<1>6. x = [count |-> t + w, samples |-> k]
  <2> HIDE DEF l, k, t
  <2> QED BY <1>3, <1>5 DEF HistogramSample
<1>7. x.count \in Nat /\ x.count > 0
  <2> HIDE DEF t, k
  <2> QED BY <1>1, <1>3, <1>6
<1>8. x = [count |-> Total(WeightsOf, flushed, N)', samples |-> k]
  <2> HIDE DEF t, k
  <2> QED BY <1>4, <1>6
<1> QED BY <1>7, <1>8 DEF HistogramIs

(* Sampling a rate: the two last samples are the object's last. *)
LEMMA RateSampled ==
  ASSUME HistoryInv, NEW v \in Values, NEW w \in Weights, Submitted(v, w),
         NEW m, RateIs(m), NEW x, x = RateSample(m, v)
  PROVE  RateIs(x)'
<1> DEFINE E == [at: Nat, value: Int]
           new == [at |-> now, value |-> v]
<1>1. /\ N \in Nat /\ flushed \in Nat /\ flushed <= N /\ N' = N + 1
      /\ \A i \in 1..N : samples'[i] = samples[i]
      /\ samples'[N + 1] = [at |-> now, value |-> v, weight |-> w]
  BY Sampled, SamplesTyped
<1>2. flushed' = flushed
  BY DEF Submitted
<1>3. m \in Seq(E)
  BY DEF RateIs
<1>4. new \in E
  BY Constants DEF HistoryInv
<1>5. At2(N)' = new
  BY <1>1 DEF At2
<1>6. N >= 1 => samples'[N] = samples[N]
  BY <1>1
<1> HIDE DEF E, new
<1>7. /\ x \in Seq(E) /\ Len(x) = Len(m) + 1 /\ x[Len(x)] = new
      /\ \A i \in 1..Len(m) : x[i] = m[i]
      /\ Len(m) \in Nat
  <2>1. x = Append(m, new)
    BY DEF RateSample, new
  <2> QED BY <1>3, <1>4, <2>1
<1>8. CASE N = 0
  <2>1. m = <<>> /\ x = <<new>>
    BY <1>8 DEF RateIs, RateSample, new
  <2>2. N' = 1 /\ N' # 0 /\ ~(N' >= 2)
    BY <1>1, <1>8
  <2> QED BY <1>5, <1>7, <2>1, <2>2 DEF RateIs, E
<1>9. CASE N >= 1
  <2>1. Len(m) >= 1 /\ m[Len(m)] = At2(N)
    <3>1. CASE flushed = N \/ N = 1
      BY <1>9, <3>1 DEF RateIs
    <3>2. CASE flushed # N /\ N # 1
      <4>1. N >= 2 /\ flushed < N
        BY <1>1, <1>9, <3>2
      <4> QED BY <1>7, <4>1 DEF RateIs
    <3> QED BY <3>1, <3>2
  <2>2. Len(x) >= 2 /\ x[Len(x) - 1] = At2(N)
    <3>1. Len(x) - 1 = Len(m) /\ Len(m) \in 1..Len(m)
      BY <1>7, <2>1
    <3> QED BY <1>7, <2>1, <3>1
  <2>3. At2(N - 1)' = At2(N)
    <3>1. N' - 1 = N
      BY <1>1
    <3> QED BY <1>6, <1>9, <3>1 DEF At2
  <2>4. N' >= 2 /\ flushed' < N' /\ N' # 0 /\ N' # 1 /\ flushed' # N'
    BY <1>1, <1>2, <1>9
  <2> QED BY <1>5, <1>7, <2>2, <2>3, <2>4 DEF RateIs, E
<1> QED BY <1>1, <1>8, <1>9

(* Sampling an object of any class. *)
LEMMA SampleIs ==
  ASSUME HistoryInv, NEW v \in Values, NEW w \in Weights, Submitted(v, w),
         NEW c \in Types, NEW m, Is(c, m), NEW x, x = Sample(c, m, v, w)
  PROVE  Is(c, x)'
<1>1. /\ N \in Nat /\ flushed \in Nat /\ flushed <= N /\ N' = N + 1
      /\ \A i \in 1..N : samples'[i] = samples[i]
      /\ samples'[N + 1].value = v /\ v \in Int
  <2>1. /\ N' = N + 1 /\ \A i \in 1..N : samples'[i] = samples[i]
        /\ samples'[N + 1] = [at |-> now, value |-> v, weight |-> w]
    BY Sampled
  <2> QED BY <2>1, SamplesTyped, Constants
<1>2. flushed' = flushed
  BY DEF Submitted
<1>3. flushed' # N' /\ samples'[N'].value = v
  BY <1>1, <1>2
<1>4. c \in {"g", "ct", "ct-c", "c", "h", "s", "_dd-r"}
  BY Constants
<1>5. CASE c = "g"
  <2>1. x = Some(v)
    BY <1>5 DEF Sample, GaugeSample
  <2>2. GaugeIs(x)'
    BY <1>3, <2>1 DEF GaugeIs
  <2> QED BY <1>5, <2>2 DEF Is
<1>6. CASE c = "ct"
  <2>1. x = Some(OrZero(m) + v) /\ CountIs(m)
    BY <1>6 DEF Sample, CountSample, Is
  <2>2. OrZero(m) = Total(ValuesOf, flushed, N)
    <3>1. CASE flushed = N
      <4>1. m = None
        BY <2>1, <3>1 DEF CountIs
      <4>2. Total(ValuesOf, flushed, N) = 0
        BY <1>1, <3>1, TotalEmpty
      <4> QED BY <4>1, <4>2, Options
    <3>2. CASE flushed # N
      <4>1. m = Some(Total(ValuesOf, flushed, N))
        BY <2>1, <3>2 DEF CountIs
      <4> QED BY <4>1, Options
    <3> QED BY <3>1, <3>2
  <2>3. x = Some(Total(ValuesOf, flushed, N)')
    BY <2>1, <2>2, Sampled
  <2>4. CountIs(x)'
    BY <1>3, <2>3 DEF CountIs
  <2> QED BY <1>6, <2>4 DEF Is
<1>7. CASE c = "ct-c"
  <2>1. x = MonotonicSample(m, v) /\ MonotonicIs(m)
    BY <1>7 DEF Sample, Is
  <2>2. MonotonicIs(x)'
    BY <2>1, MonotonicSampled
  <2> QED BY <1>7, <2>2 DEF Is
<1>8. CASE c = "c"
  <2>1. x = m + v * w /\ m = Total(WeightedOf, flushed, N)
    BY <1>8 DEF Sample, CounterSample, Is, CounterIs
  <2>2. x = Total(WeightedOf, flushed, N)'
    BY <2>1, Sampled
  <2>3. CounterIs(x)'
    BY <2>2 DEF CounterIs
  <2> QED BY <1>8, <2>3 DEF Is
<1>9. CASE c = "h"
  <2>1. x = HistogramSample(m, v, w) /\ HistogramIs(m)
    BY <1>9 DEF Sample, Is
  <2>2. HistogramIs(x)'
    BY <2>1, HistogramSampled
  <2> QED BY <1>9, <2>2 DEF Is
<1>10. CASE c = "s"
  <2>1. x = m \cup {v} /\ m = {samples[i].value : i \in Since}
    BY <1>10 DEF Sample, SetSample, Is, SetIs
  <2>2. Since = flushed + 1..N /\ Since' = flushed + 1..N + 1
    BY <1>1, <1>2 DEF Since, N
  <2>3. /\ Since' = Since \cup {N + 1}
        /\ \A i \in Since : samples'[i] = samples[i]
    BY <1>1, <2>2
  <2>4. {samples'[i].value : i \in Since'} = {samples[i].value : i \in Since} \cup {v}
    BY <1>1, <2>3
  <2>5. SetIs(x)'
    BY <2>1, <2>4 DEF SetIs
  <2> QED BY <1>10, <2>5 DEF Is
<1>11. CASE c = "_dd-r"
  <2>1. x = RateSample(m, v) /\ RateIs(m)
    BY <1>11 DEF Sample, Is
  <2>2. RateIs(x)'
    BY <2>1, RateSampled
  <2> QED BY <1>11, <2>2 DEF Is
<1> QED BY <1>4, <1>5, <1>6, <1>7, <1>8, <1>9, <1>10, <1>11

(* What a flush leaves of an object is that of samples all of which a flush has found. *)
LEMMA ResetIs ==
  ASSUME HistoryInv, samples' = samples, flushed' = N,
         NEW c \in Types, NEW m, Is(c, m), NEW x, x = Reset(c, m)
  PROVE  Is(c, x)'
<1>1. N \in Nat /\ flushed \in Nat /\ flushed <= N /\ N' = N /\ flushed' = N'
  BY SamplesTyped DEF N
<1>2. c \in {"g", "ct", "ct-c", "c", "h", "s", "_dd-r"}
  BY Constants
<1>3. \A v : Total(v, flushed', N') = 0
  BY <1>1, TotalEmpty
<1>4. CASE c \in {"g", "ct"}
  <2>1. x = None
    BY <1>4 DEF Reset, New
  <2>2. GaugeIs(x)' /\ CountIs(x)'
    BY <1>1, <2>1 DEF GaugeIs, CountIs
  <2> QED BY <1>4, <2>2 DEF Is
<1>5. CASE c = "ct-c"
  <2>1. x = (IF m.count = None THEN m ELSE [prev |-> m.curr, curr |-> None, count |-> None])
        /\ MonotonicIs(m)
    BY <1>5 DEF Reset, Is
  <2>2. CASE N < 2 \/ flushed = N
    <3>1. m.count = None
      BY <1>1, <2>1, <2>2 DEF MonotonicIs
    <3>2. x = m
      BY <2>1, <3>1
    <3>3. MonotonicIs(x)'
      BY <1>1, <2>1, <2>2, <3>2 DEF MonotonicIs
    <3> QED BY <1>5, <3>3 DEF Is
  <2>3. CASE N >= 2 /\ flushed # N
    <3>1. PICK y, z : m = [prev |-> y, curr |-> Some(samples[N].value), count |-> Some(z)]
      BY <1>1, <2>1, <2>3 DEF MonotonicIs
    <3>2. x = [prev |-> Some(samples[N].value), curr |-> None, count |-> None]
      BY <2>1, <3>1, Options
    <3>3. MonotonicIs(x)'
      BY <1>1, <2>3, <3>2 DEF MonotonicIs
    <3> QED BY <1>5, <3>3 DEF Is
  <2> QED BY <1>1, <2>2, <2>3
<1>6. CASE c = "c"
  <2>1. x = 0
    BY <1>6 DEF Reset, New
  <2>2. CounterIs(x)'
    BY <1>3, <2>1 DEF CounterIs
  <2> QED BY <1>6, <2>2 DEF Is
<1>7. CASE c = "h"
  <2>1. x = [count |-> 0, samples |-> <<>>]
    BY <1>7 DEF Reset, New
  <2>2. [i \in 1..N' - flushed' |-> samples'[flushed' + i].value] = <<>>
    BY <1>1
  <2>3. HistogramIs(x)'
    BY <1>1, <1>3, <2>1, <2>2 DEF HistogramIs
  <2> QED BY <1>7, <2>3 DEF Is
<1>8. CASE c = "s"
  <2>1. x = {}
    BY <1>8 DEF Reset, New
  <2>2. Since' = {}
    BY <1>1 DEF Since, N
  <2>3. SetIs(x)'
    BY <2>1, <2>2 DEF SetIs
  <2> QED BY <1>8, <2>3 DEF Is
<1>9. CASE c = "_dd-r"
  <2>1. x = (IF Len(m) < 2 THEN m ELSE <<m[Len(m)]>>) /\ RateIs(m)
    BY <1>9 DEF Reset, Is, Last
  <2> DEFINE E == [at: Nat, value: Int]
  <2>2. m \in Seq(E)
    BY <2>1 DEF RateIs
  <2> HIDE DEF E
  <2>3. At2(N)' = At2(N)
    BY <1>1 DEF At2
  <2>4. CASE N = 0
    <3>1. x = <<>>
      BY <2>1, <2>4 DEF RateIs
    <3>2. RateIs(x)'
      BY <1>1, <2>4, <3>1 DEF RateIs
    <3> QED BY <1>9, <3>2 DEF Is
  <2>5. CASE N >= 1
    <3>1. m[Len(m)] = At2(N) /\ Len(m) \in Nat /\ Len(m) >= 1
      <4>1. Len(m) \in Nat
        BY <2>2
      <4>2. CASE flushed = N \/ N = 1
        <5>1. m = <<At2(N)>>
          BY <2>1, <2>5, <4>2 DEF RateIs
        <5> QED BY <5>1
      <4>3. CASE flushed # N /\ N # 1
        <5>1. N >= 2 /\ flushed < N
          BY <1>1, <2>5, <4>3
        <5>2. Len(m) >= 2 /\ m[Len(m)] = At2(N)
          BY <2>1, <5>1 DEF RateIs
        <5> QED BY <4>1, <5>2
      <4> QED BY <4>2, <4>3
    <3>2. x = <<At2(N)>>
      <4>1. CASE Len(m) < 2
        <5>1. Len(m) = 1
          BY <3>1, <4>1
        <5>2. x = m
          BY <2>1, <4>1
        <5> QED BY <2>2, <3>1, <5>1, <5>2
      <4>2. CASE ~(Len(m) < 2)
        BY <2>1, <3>1, <4>2
      <4> QED BY <4>1, <4>2
    <3>3. At2(N) \in E
      BY <2>5, <1>1, SamplesTyped DEF At2, E
    <3>4. RateIs(x)'
      BY <1>1, <2>3, <2>5, <3>2, <3>3 DEF RateIs, E
    <3> QED BY <1>9, <3>4 DEF Is
  <2> QED BY <1>1, <2>4, <2>5
<1> QED BY <1>2, <1>4, <1>5, <1>6, <1>7, <1>8, <1>9

-----------------------------------------------------------------------------
(* What a flush reports is what the reference says. *)

(* At most one value has a rank: if a smaller one had it too, the values not above that
   one, as many as the rank at least, would be below the greater, fewer than the rank. *)
LEMMA OneValueEach ==
  ASSUME HistoryInv, NEW r \in Nat, NEW x \in Int, NEW y \in Int, HasRank(x, r), HasRank(y, r)
  PROVE  ~(x < y)
<1> SUFFICES ASSUME x < y PROVE FALSE
  OBVIOUS
<1> DEFINE A == {i \in Since : samples[i].value <= x}
           B == {i \in Since : samples[i].value < y}
           k == IF r = 0 THEN Cardinality(Since) ELSE r
<1>1. \A i \in Since : samples[i].value \in Int
  BY SamplesTyped DEF Since, N
<1>2. A \subseteq B /\ B \subseteq Since
  BY <1>1
<1>3. IsFiniteSet(Since)
  <2>1. flushed + 1 \in Int /\ N \in Int
    BY SamplesTyped
  <2>2. IsFiniteSet(flushed + 1 .. N)
    BY <2>1, FS_Interval
  <2> QED BY <2>2 DEF Since, N
<1>4. Cardinality(A) >= k /\ Cardinality(B) < k
  BY DEF HasRank
<1> HIDE DEF A, B, k
<1>5. IsFiniteSet(B)
  BY <1>2, <1>3, FS_Subset
<1>6. Cardinality(A) <= Cardinality(B) /\ IsFiniteSet(A)
  BY <1>2, <1>5, FS_Subset
<1>7. Cardinality(A) \in Nat /\ Cardinality(B) \in Nat
  BY <1>5, <1>6, FS_CardinalityType
<1>8. k \in Nat
  BY <1>3, FS_CardinalityType DEF k
<1> QED BY <1>4, <1>6, <1>7, <1>8

(* The value the reference gives a rank is the one at that place of the sorted list. *)
LEMMA RankIs ==
  ASSUME HistoryInv, NEW n \in Nat, n = N - flushed, NEW s \in Seq(Int), Len(s) = n,
         \A i \in 1..n : s[i] = samples[flushed + i].value, NEW p, Orders(p, s, n)
  PROVE  /\ Cardinality(Since) = n
         /\ \A r \in 1..n : Rank(r) = s[p[r]]
         /\ n >= 1 => Rank(0) = s[p[n]]
<1>1. /\ N \in Nat /\ flushed \in Nat /\ flushed <= N /\ flushed + n = N
      /\ Since = flushed + 1..flushed + n
  BY SamplesTyped DEF Since, N
<1>2. Cardinality(Since) = n
  <2>1. PICK a \in Int, b \in Int : a = flushed + 1 /\ b = flushed + n
    BY <1>1
  <2>2. Cardinality(a..b) = IF a > b THEN 0 ELSE b - a + 1
    BY FS_Interval
  <2>3. (IF a > b THEN 0 ELSE b - a + 1) = n
    BY <1>1, <2>1
  <2> QED BY <1>1, <2>1, <2>2, <2>3
<1>3. Ints(s, 0, n)
  BY DEF Ints
<1>4. \A i \in 1..n : ValuesOf[flushed + i] = s[i]
  <2>1. \A i \in 1..n : flushed + i \in 1..N
    BY <1>1
  <2> QED BY <2>1, ListsTyped
<1>5. ASSUME NEW r \in 1..n
      PROVE  /\ Cardinality({i \in Since : samples[i].value <= s[p[r]]}) >= r
             /\ Cardinality({i \in Since : samples[i].value < s[p[r]]}) < r
  <2>1. /\ Cardinality({i \in flushed + 1..flushed + n : ValuesOf[i] <= s[p[r]]}) >= r
        /\ Cardinality({i \in flushed + 1..flushed + n : ValuesOf[i] < s[p[r]]}) < r
    <3>a. PICK v : v = ValuesOf
      OBVIOUS
    <3>1. PICK f \in Nat : f = flushed /\ v = ValuesOf
      BY <1>1, <3>a
    <3>2. Window(v, s, f, n)
      BY <1>4, <3>1 DEF Window
    <3>3. /\ Cardinality(NotAbove(s[p[r]], v, f, n)) >= r
          /\ Cardinality(Below(s[p[r]], v, f, n)) < r
      BY <1>3, <3>2, PlaceIsRank
    <3> QED BY <3>1, <3>3 DEF NotAbove, Below
  <2>2. \A i \in Since : ValuesOf[i] = samples[i].value
    <3>1. \A i \in Since : i \in 1..N
      BY <1>1
    <3> QED BY <3>1, ListsTyped
  <2>3. /\ {i \in Since : samples[i].value <= s[p[r]]} =
             {i \in flushed + 1..flushed + n : ValuesOf[i] <= s[p[r]]}
        /\ {i \in Since : samples[i].value < s[p[r]]} =
             {i \in flushed + 1..flushed + n : ValuesOf[i] < s[p[r]]}
    BY <1>1, <2>2
  <2> QED BY <2>1, <2>3
<1>6. ASSUME NEW r \in 1..n PROVE HasRank(s[p[r]], r) /\ (r = n => HasRank(s[p[r]], 0))
  <2>1. r # 0
    OBVIOUS
  <2> QED BY <1>2, <1>5, <2>1 DEF HasRank
<1>7. ASSUME NEW r \in 1..n PROVE s[p[r]] \in Values /\ s[p[r]] \in Int
  <2>1. p[r] \in 1..n
    BY DEF Orders
  <2>2. s[p[r]] = samples[flushed + p[r]].value /\ flushed + p[r] \in 1..N
    <3>1. flushed + p[r] \in 1..N
      BY <1>1, <2>1
    <3> QED BY <2>1, <3>1
  <2> QED BY <2>2, SamplesTyped
<1>8. ASSUME NEW r \in 1..n, NEW q \in Nat, HasRank(s[p[r]], q) PROVE Rank(q) = s[p[r]]
  <2>1. \E v \in Values : HasRank(v, q)
    BY <1>7, <1>8
  <2>2. Rank(q) \in Values /\ HasRank(Rank(q), q)
    BY <2>1 DEF Rank
  <2>3. Rank(q) \in Int /\ s[p[r]] \in Int
    BY <1>7, <2>2, Constants
  <2>4. ~(Rank(q) < s[p[r]]) /\ ~(s[p[r]] < Rank(q))
    BY <1>8, <2>2, <2>3, OneValueEach
  <2> QED BY <2>3, <2>4
<1>9. \A r \in 1..n : Rank(r) = s[p[r]]
  BY <1>6, <1>8
<1>10. n >= 1 => Rank(0) = s[p[n]]
  BY <1>6, <1>8
<1> QED BY <1>2, <1>9, <1>10

(* The index the code computes for a percentile is one less than its rank, and -1, the
   greatest value, when the rank is 0. *)
LEMMA PercentileIndex ==
  ASSUME NEW p \in 0..100, NEW n \in Nat, n >= 1
  PROVE  \/ PercentileRank(p, n) = 0 /\ Round(p * n - 100) = -1
         \/ PercentileRank(p, n) \in 1..n /\ Round(p * n - 100) = PercentileRank(p, n) - 1
<1>1. p * n \in Nat /\ p * n <= 100 * n
  OBVIOUS
<1>2. PICK y \in Nat : y = p * n /\ y <= 100 * n
  BY <1>1
<1>3. CASE y <= 50
  <2>1. ~(y - 100 >= 0) /\ (100 - 2 * (y - 100)) \div 200 = 1
    BY <1>3
  <2> QED BY <1>2, <1>3, <2>1 DEF PercentileRank, Round
<1>4. CASE y > 50 /\ y < 100
  <2>1. ~(y - 100 >= 0) /\ (100 - 2 * (y - 100)) \div 200 = 0
    BY <1>4
  <2>2. (y + 50) \div 100 = 1
    BY <1>4
  <2> QED BY <1>2, <1>4, <2>1, <2>2 DEF PercentileRank, Round
<1>5. CASE y >= 100
  <2>1. (2 * (y - 100) + 100) \div 200 = (y + 50) \div 100 - 1
    BY <1>5
  <2>2. (y + 50) \div 100 \in 1..n
    BY <1>2, <1>5
  <2> QED BY <1>2, <1>5, <2>1, <2>2 DEF PercentileRank, Round
<1> QED BY <1>3, <1>4, <1>5

(* The report of a histogram. *)
LEMMA HistogramReports ==
  ASSUME HistoryInv, NEW m, HistogramIs(m)
  PROVE  HistogramFlush(m) = Reference("h")
<1> DEFINE n == N - flushed
           l == m.samples
           S == Sort(l)
<1>1. N \in Nat /\ flushed \in Nat /\ flushed <= N /\ n \in Nat
  BY SamplesTyped
<1>2. /\ m.count = Total(WeightsOf, flushed, N) /\ l = [i \in 1..n |-> samples[flushed + i].value]
      /\ m.count \in Nat /\ (flushed < N => m.count > 0)
  BY DEF HistogramIs
<1>3. l \in Seq(Int) /\ Len(l) = n /\ \A i \in 1..n : l[i] = samples[flushed + i].value
  <2>1. \A i \in 1..n : flushed + i \in 1..N
    BY <1>1
  <2>2. \A i \in 1..n : samples[flushed + i].value \in Int
    BY <2>1, SamplesTyped
  <2> HIDE DEF n, l
  <2> QED BY <1>1, <1>2, <2>2
<1> HIDE DEF n, l
<1>4. PICK p : Orders(p, l, n) /\ S = [i \in 1..n |-> l[p[i]]]
  BY <1>3, SortIs
<1>5. Total(S, 0, n) = Total(ValuesOf, flushed, N)
  <2>1. Total(S, 0, n) = Total(l, 0, n)
    BY <1>3, SortIs
  <2>2. PICK v : v = ValuesOf
    OBVIOUS
  <2>3. PICK f \in Nat : f = flushed /\ f + n = N
    BY <1>1 DEF n
  <2>4. Ints(v, f, f + n)
    BY <2>2, <2>3, ListsTyped
  <2>5. \A i \in 1..n : f + i \in 1..N
    BY <1>1, <2>3 DEF n
  <2>6. \A i \in 1..n : l[i] = v[f + i]
    BY <1>3, <2>2, <2>3, <2>5, ListsTyped
  <2>7. Total(l, 0, n) = Total(v, f, f + n)
    BY <1>1, <2>4, <2>6, TotalShift
  <2> QED BY <2>1, <2>2, <2>3, <2>7
<1>6. /\ Cardinality(Since) = n
      /\ \A r \in 1..n : Rank(r) = l[p[r]]
      /\ n >= 1 => Rank(0) = l[p[n]]
  BY <1>1, <1>3, <1>4, RankIs DEF n
<1>7. S \in Seq(Int) /\ Len(S) = n /\ \A r \in 1..n : S[r] = l[p[r]]
  <2>1. \A r \in 1..n : l[p[r]] \in Int
    BY <1>3, <1>4 DEF Orders
  <2> HIDE DEF S
  <2> QED BY <1>1, <1>4, <2>1
<1> HIDE DEF S
<1>8. CASE n = 0
  <2>1. flushed = N
    BY <1>1, <1>8 DEF n
  <2>2. m.count = 0
    BY <1>1, <1>2, <2>1, TotalEmpty
  <2> QED BY <1>6, <1>8, <2>2 DEF HistogramFlush, Reference
<1>9. CASE n # 0
  <2>1. n >= 1 /\ flushed < N /\ 1 \in 1..n /\ n \in 1..n
    BY <1>1, <1>9 DEF n
  <2>2. m.count # 0
    BY <1>2, <2>1
  <2>3. S[1] = Rank(1) /\ S[n] = Rank(n)
    BY <1>6, <1>7, <2>1
  <2>4. At(S, n \div 2 - 1) = Rank(n \div 2)
    <3>1. CASE n = 1
      <4>1. n \div 2 = 0 /\ ~(n \div 2 - 1 >= 0) /\ Len(S) + (n \div 2 - 1) + 1 = n
        BY <1>7, <3>1
      <4> QED BY <1>6, <1>7, <2>1, <4>1 DEF At
    <3>2. CASE n # 1
      <4>1. n \div 2 \in 1..n /\ n \div 2 - 1 >= 0 /\ (n \div 2 - 1) + 1 = n \div 2
        BY <1>1, <1>9, <3>2
      <4> QED BY <1>6, <1>7, <4>1 DEF At
    <3> QED BY <3>1, <3>2
  <2>5. ASSUME NEW q \in Percentiles
        PROVE  At(S, Round(q * n - 100)) = Rank(PercentileRank(q, n))
    <3>1. PICK i : i = Round(q * n - 100)
      OBVIOUS
    <3>2. PICK r : r = PercentileRank(q, n)
      OBVIOUS
    <3>3. (r = 0 /\ i = -1) \/ (r \in 1..n /\ i = r - 1)
      BY <1>1, <2>1, <3>1, <3>2, PercentileIndex, Constants
    <3>4. CASE r = 0 /\ i = -1
      <4>1. ~(i >= 0) /\ Len(S) + i + 1 = n
        BY <1>1, <1>7, <3>4
      <4> QED BY <1>6, <1>7, <2>1, <3>1, <3>2, <3>4, <4>1 DEF At
    <3>5. CASE r \in 1..n /\ i = r - 1
      <4>1. i >= 0 /\ i + 1 = r
        BY <3>5
      <4> QED BY <1>6, <1>7, <3>1, <3>2, <3>5, <4>1 DEF At
    <3> QED BY <3>3, <3>4, <3>5
  <2>6. UNION {Percentile(q, At(S, Round(q * n - 100))) : q \in Percentiles} =
          UNION {Percentile(q, Rank(PercentileRank(q, n))) : q \in Percentiles}
    BY <2>5
  <2>7. HistogramFlush(m) =
          Point("min", S[1]) \cup Point("max", S[n]) \cup Point("count", m.count)
           \cup Point("median", At(S, n \div 2 - 1))
           \cup Point("sum", Total(S, 0, n))
           \cup UNION {Percentile(q, At(S, Round(q * n - 100))) : q \in Percentiles}
    BY <1>7, <2>2 DEF HistogramFlush, S, l
  <2>8. Reference("h") =
          Point("min", Rank(1)) \cup Point("max", Rank(n))
           \cup Point("count", Total(WeightsOf, flushed, N))
           \cup Point("median", Rank(n \div 2))
           \cup Point("sum", Total(ValuesOf, flushed, N))
           \cup UNION {Percentile(q, Rank(PercentileRank(q, n))) : q \in Percentiles}
    BY <1>6, <1>9 DEF Reference, N
  <2> QED BY <1>2, <1>5, <2>3, <2>4, <2>6, <2>7, <2>8
<1> QED BY <1>8, <1>9

(* The report of an object of any class. *)
LEMMA FlushReports ==
  ASSUME HistoryInv, NEW c \in Types, NEW m, Is(c, m)
  PROVE  FlushMetric(c, m) = Reference(c)
<1>1. N \in Nat /\ flushed \in Nat /\ flushed <= N /\ Since = flushed + 1..N
  BY SamplesTyped DEF Since, N
<1>2. Cardinality(Since) \in Nat /\ (Cardinality(Since) = 0 <=> flushed = N)
  <2>1. PICK a \in Int, b \in Int : a = flushed + 1 /\ b = N
    BY <1>1
  <2>2. Cardinality(a..b) = IF a > b THEN 0 ELSE b - a + 1
    BY FS_Interval
  <2> QED BY <1>1, <2>1, <2>2
<1>3. Since = {} <=> flushed = N
  BY <1>1
<1>4. c \in {"g", "ct", "ct-c", "c", "h", "s", "_dd-r"}
  BY Constants
<1>5. CASE c = "g"
  <2>1. m = IF flushed = N THEN None ELSE Some(samples[N].value)
    BY <1>5 DEF Is, GaugeIs
  <2>2. FlushMetric(c, m) = IF m = None THEN {} ELSE Point("value", m[1])
    BY <1>5 DEF FlushMetric
  <2>3. Reference(c) = IF flushed = N THEN {} ELSE Point("value", samples[N].value)
    BY <1>2, <1>5 DEF Reference, N
  <2> QED BY <2>1, <2>2, <2>3, Options
<1>6. CASE c = "ct"
  <2>1. m = IF flushed = N THEN None ELSE Some(Total(ValuesOf, flushed, N))
    BY <1>6 DEF Is, CountIs
  <2>2. FlushMetric(c, m) = IF m = None THEN {} ELSE Point("value", m[1])
    BY <1>6 DEF FlushMetric
  <2>3. Reference(c) = IF flushed = N THEN {} ELSE Point("value", Total(ValuesOf, flushed, N))
    BY <1>2, <1>6 DEF Reference, N
  <2> QED BY <2>1, <2>2, <2>3, Options
<1>7. CASE c = "ct-c"
  <2>1. MonotonicIs(m)
    BY <1>7 DEF Is
  <2>2. FlushMetric(c, m) = IF m.count = None THEN {} ELSE Point("value", m.count[1])
    BY <1>7 DEF FlushMetric
  <2>3. Reference(c) = IF Since \ {1} = {} THEN {}
                       ELSE Point("value", Total(Increases, Max({1, flushed}), N))
    BY <1>7 DEF Reference, N
  <2>4. CASE N < 2 \/ flushed = N
    <3>1. m.count = None
      BY <1>1, <2>1, <2>4 DEF MonotonicIs
    <3>2. Since \ {1} = {}
      BY <1>1, <2>4
    <3> QED BY <2>2, <2>3, <3>1, <3>2
  <2>5. CASE N >= 2 /\ flushed # N
    <3>1. m.count = Some(Total(Increases, Max({1, flushed}), N))
      BY <1>1, <2>1, <2>5 DEF MonotonicIs
    <3>2. N \in Since \ {1}
      BY <1>1, <2>5
    <3> QED BY <2>2, <2>3, <3>1, <3>2, Options
  <2> QED BY <1>1, <2>4, <2>5
<1>8. CASE c = "c"
  BY <1>8 DEF Is, CounterIs, FlushMetric, Reference, N
<1>9. CASE c = "h"
  <2>1. HistogramIs(m)
    BY <1>9 DEF Is
  <2>2. FlushMetric(c, m) = HistogramFlush(m)
    BY <1>9 DEF FlushMetric
  <2> QED BY <1>9, <2>1, <2>2, HistogramReports
<1>10. CASE c = "s"
  <2>1. m = {samples[i].value : i \in Since}
    BY <1>10 DEF Is, SetIs
  <2>2. FlushMetric(c, m) = IF m = {} THEN {} ELSE Point("value", Cardinality(m))
    BY <1>10 DEF FlushMetric
  <2>3. Reference(c) = IF flushed = N THEN {}
                       ELSE Point("value", Cardinality({samples[i].value : i \in Since}))
    BY <1>2, <1>10 DEF Reference
  <2>4. m = {} <=> flushed = N
    BY <1>3, <2>1
  <2> QED BY <2>1, <2>2, <2>3, <2>4
<1>11. CASE c = "_dd-r"
  <2>1. RateIs(m)
    BY <1>11 DEF Is
  <2>2. FlushMetric(c, m) = RateFlush(m)
    BY <1>11 DEF FlushMetric
  <2>3. Reference(c) =
          IF \/ N < 2
             \/ samples[N].at = samples[N - 1].at
             \/ samples[N].value < samples[N - 1].value
             \/ flushed = N
          THEN {}
          ELSE Point("rate", <<samples[N].value - samples[N - 1].value,
                               samples[N].at - samples[N - 1].at>>)
    BY <1>2, <1>11 DEF Reference, N
  <2>4. CASE N < 2 \/ flushed = N
    <3>1. Len(m) < 2
      <4>1. CASE N = 0
        BY <2>1, <4>1 DEF RateIs
      <4>2. CASE N # 0
        <5>1. m = <<At2(N)>>
          BY <1>1, <2>1, <2>4, <4>2 DEF RateIs
        <5> QED BY <5>1
      <4> QED BY <4>1, <4>2
    <3>2. RateFlush(m) = {}
      BY <3>1 DEF RateFlush
    <3> QED BY <2>2, <2>3, <2>4, <3>2
  <2>5. CASE N >= 2 /\ flushed # N
    <3>1. Len(m) >= 2 /\ m[Len(m)] = At2(N) /\ m[Len(m) - 1] = At2(N - 1)
      BY <1>1, <2>1, <2>5 DEF RateIs
    <3>2. Len(m) \in Nat
      BY <2>1 DEF RateIs
    <3>3. ~(Len(m) < 2)
      BY <3>1, <3>2
    <3>4. /\ m[Len(m)].at = samples[N].at /\ m[Len(m)].value = samples[N].value
          /\ m[Len(m) - 1].at = samples[N - 1].at /\ m[Len(m) - 1].value = samples[N - 1].value
      BY <3>1 DEF At2
    <3>5. RateFlush(m) =
            IF \/ samples[N].at = samples[N - 1].at
               \/ samples[N].value < samples[N - 1].value
            THEN {}
            ELSE Point("rate", <<samples[N].value - samples[N - 1].value,
                                 samples[N].at - samples[N - 1].at>>)
      BY <3>3, <3>4 DEF RateFlush
    <3>6. ~(N < 2)
      BY <1>1, <2>5
    <3> QED BY <2>2, <2>3, <2>5, <3>5, <3>6
  <2> QED BY <1>1, <2>4, <2>5
<1> QED BY <1>4, <1>5, <1>6, <1>7, <1>8, <1>9, <1>10, <1>11

-----------------------------------------------------------------------------
(* The invariant. *)

(* There is no object at first. *)
LEMMA InvInit == Init => Inv
<1> SUFFICES ASSUME Init PROVE Inv
  OBVIOUS
<1>1. N = 0
  BY DEF Init, N
<1> QED BY <1>1 DEF Init, Inv, HistoryInv, ObjectInv, ReportsReference

(* What an object has to be depends on the samples and on the last flush only. *)
LEMMA IsKept ==
  ASSUME UNCHANGED <<samples, flushed>>
  PROVE  \A c, m : Is(c, m)' <=> Is(c, m)
<1>1. N' = N /\ Since' = Since
  BY DEF N, Since
<1>2. \A i : At2(i)' = At2(i)
  BY DEF At2
<1>3. /\ ValuesOf' = ValuesOf /\ WeightsOf' = WeightsOf /\ WeightedOf' = WeightedOf
      /\ Increases' = Increases
  BY DEF ValuesOf, WeightsOf, WeightedOf, Increases
<1> QED
  BY <1>1, <1>2, <1>3
  DEF Is, GaugeIs, CountIs, MonotonicIs, CounterIs, HistogramIs, SetIs, RateIs

(* The invariant depends on the object, the history and the last report. *)
LEMMA InvKept ==
  ASSUME Inv, UNCHANGED <<class, metric, samples, flushed, report, expected>>, now' \in Nat
  PROVE  Inv'
<1>1. N' = N
  BY DEF N
<1>2. HistoryInv' /\ ReportsReference'
  BY <1>1 DEF Inv, HistoryInv, ReportsReference
<1>3. \A c, m : Is(c, m)' <=> Is(c, m)
  BY IsKept
<1>4. ObjectInv'
  BY <1>3 DEF Inv, ObjectInv
<1> QED BY <1>2, <1>4 DEF Inv

(* A submission. *)
LEMMA SubmitKeeps ==
  ASSUME Inv, NEW c \in Types, NEW v \in Values, NEW w \in Weights, Submit(c, v, w)
  PROVE  Inv'
<1> DEFINE cl == IF class = "none" THEN c ELSE class
<1>1. HistoryInv /\ ObjectInv /\ ReportsReference
  BY DEF Inv
<1>2. Submitted(v, w) /\ UNCHANGED <<now, report, expected>> /\ class' = cl
  BY DEF Submit, Submitted
<1>3. cl \in Types /\ cl # "none"
  BY <1>1, Constants DEF HistoryInv
<1>4. PICK m : /\ Is(cl, m) /\ metric' = Sample(cl, m, v, w)
  <2>1. CASE class = "none"
    <3>1. Is(c, New(c))
      BY <1>1, <2>1, NewIs DEF HistoryInv
    <3>2. metric' = Sample(c, New(c), v, w)
      BY <2>1 DEF Submit
    <3> QED BY <2>1, <3>1, <3>2
  <2>2. CASE class # "none"
    <3>1. Is(class, metric)
      BY <1>1, <2>2 DEF ObjectInv
    <3>2. metric' = Sample(class, metric, v, w)
      BY <2>2 DEF Submit
    <3> QED BY <2>2, <3>1, <3>2
  <2> QED BY <2>1, <2>2
<1>5. PICK k \in Types : k = cl /\ k # "none"
  BY <1>3
<1>6. PICK x : x = metric'
  OBVIOUS
<1>7. x = Sample(k, m, v, w) /\ Is(k, m) /\ class' = k
  BY <1>2, <1>4, <1>5, <1>6
<1>8. Is(k, x)'
  BY <1>1, <1>2, <1>7, SampleIs
<1>9. ObjectInv'
  BY <1>6, <1>7, <1>8 DEF ObjectInv
<1>10. HistoryInv'
  <2>1. samples' \in Seq([at: Nat, value: Values, weight: Weights]) /\ N' = N + 1
    BY <1>1, <1>2, Sampled
  <2>2. flushed' \in 0..N' /\ now' \in Nat
    BY <1>1, <1>2, <2>1, SamplesTyped DEF Submitted, HistoryInv
  <2> QED BY <1>5, <1>7, <2>1, <2>2 DEF HistoryInv
<1>11. ReportsReference'
  BY <1>1, <1>2 DEF ReportsReference
<1> QED BY <1>9, <1>10, <1>11 DEF Inv

(* A flush: the report is that of the reference, and nothing of the samples is left but
   what the next report needs. *)
LEMMA FlushKeeps == ASSUME Inv, Flush PROVE Inv'
<1>1. HistoryInv /\ ObjectInv /\ class \in Types /\ Is(class, metric)
  BY DEF Inv, ObjectInv, HistoryInv, Flush
<1>2. /\ samples' = samples /\ flushed' = N /\ class' = class /\ now' = now
      /\ metric' = Reset(class, metric)
      /\ report' = FlushMetric(class, metric) /\ expected' = Reference(class)
  BY DEF Flush, N
<1>3. ReportsReference'
  BY <1>1, <1>2, FlushReports DEF ReportsReference
<1>4. PICK k \in Types : k = class
  BY <1>1
<1>5. PICK m : m = metric
  OBVIOUS
<1>6. PICK x : x = metric'
  OBVIOUS
<1>7. x = Reset(k, m) /\ Is(k, m)
  BY <1>1, <1>2, <1>4, <1>5, <1>6
<1>8. Is(k, x)'
  BY <1>1, <1>2, <1>7, ResetIs
<1>9. ObjectInv'
  BY <1>2, <1>4, <1>6, <1>8 DEF ObjectInv
<1>10. HistoryInv'
  <2>1. N' = N /\ N \in Nat /\ class # "none"
    BY <1>1, <1>2, SamplesTyped, Constants DEF N
  <2> QED BY <1>1, <1>2, <2>1 DEF HistoryInv
<1> QED BY <1>3, <1>9, <1>10 DEF Inv

(* Every step keeps the invariant. *)
LEMMA InvNext == Inv /\ [Next]_vars => Inv'
<1> SUFFICES ASSUME Inv, [Next]_vars PROVE Inv'
  OBVIOUS
<1>1. ASSUME NEW c \in Types, NEW v \in Values, NEW w \in Weights, Submit(c, v, w) PROVE Inv'
  BY <1>1, SubmitKeeps
<1>2. ASSUME NEW c \in Types, SubmitTooOld(c) PROVE Inv'
  <2>1. HistoryInv /\ samples = <<>> /\ flushed = 0 /\ ReportsReference
    BY <1>2 DEF SubmitTooOld, Inv, HistoryInv
  <2>2. /\ class' = c /\ metric' = New(c)
        /\ UNCHANGED <<now, report, samples, flushed, expected>>
    BY <1>2 DEF SubmitTooOld
  <2>3. PICK x : x = New(c) /\ Is(c, x)
    BY <2>1, NewIs
  <2>4. Is(c, x)' <=> Is(c, x)
    BY <2>2, IsKept
  <2>5. ObjectInv'
    BY <2>2, <2>3, <2>4 DEF ObjectInv
  <2>6. HistoryInv' /\ ReportsReference'
    <3>1. N' = N
      BY <2>2 DEF N
    <3> QED BY <2>1, <2>2, <3>1 DEF HistoryInv, ReportsReference
  <2> QED BY <2>5, <2>6 DEF Inv
<1>3. CASE Flush
  BY <1>3, FlushKeeps
<1>4. CASE FlushExpired
  <2>1. /\ class' = "none" /\ samples' = <<>> /\ flushed' = 0 /\ now' = now
        /\ report' = {} /\ expected' = {}
    BY <1>4 DEF FlushExpired
  <2>2. N' = 0
    BY <2>1 DEF N
  <2> QED BY <2>1, <2>2 DEF Inv, HistoryInv, ObjectInv, ReportsReference
<1>5. CASE Tick \/ UNCHANGED vars
  <2>1. UNCHANGED <<class, metric, samples, flushed, report, expected>>
    BY <1>5 DEF Tick, vars
  <2>2. now' \in Nat
    BY <1>5 DEF Tick, vars, Inv, HistoryInv
  <2> QED BY <2>1, <2>2, InvKept
<1> QED BY <1>1, <1>2, <1>3, <1>4, <1>5 DEF Next

(* Whatever is submitted, flushed and expired in which order, the object of a context is
   what its samples since the last flush make it. *)
THEOREM InvariantHolds == Spec => []Inv
BY InvInit, InvNext, PTL DEF Spec

(* Every flush of every metric type reports what the list of all samples stands for. *)
THEOREM ReportsRight == Spec => []ReportsReference
<1>1. Inv => ReportsReference
  BY DEF Inv
<1> QED BY <1>1, InvariantHolds, PTL
=============================================================================
