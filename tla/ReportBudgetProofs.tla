------------------------- MODULE ReportBudgetProofs -------------------------
(* AddRecordsToBudget selects what its specification says, for every table  *)
(* and every clock.  Both sides of the equation are computed by recursion   *)
(* over data: the loop's running cost over positions, the specification's   *)
(* total cost over sets.  Each fact about them is proved by looking at a    *)
(* least counterexample.                                                    *)
EXTENDS ReportSelection, FiniteSetTheorems, TLAPS

-----------------------------------------------------------------------------
(* Least and greatest elements.                                             *)

\* A set of natural numbers that is not empty has a least element.
LEMMA Least ==
  ASSUME NEW S \in SUBSET Nat, S # {}
  PROVE  \E m \in S : \A k \in S : m <= k
<1>1. PICK m \in S : \A k \in S : ~(<<k, m>> \in OpToRel(<, Nat))
  BY NatLessThanWellFounded, WFMin, Zenon
<1>2. ASSUME NEW k \in S, k < m
      PROVE  <<k, m>> \in OpToRel(<, Nat)
  <2>1. <<k, m>> \in Nat \X Nat
    OBVIOUS
  <2>2. <<k, m>>[1] < <<k, m>>[2]
    BY <1>2
  <2> QED
    BY <2>1, <2>2, Zenon DEF OpToRel
<1>3. \A k \in S : ~(k < m)
  BY <1>1, <1>2, Zenon
<1> QED
  BY <1>3, SMT

\* A set of natural numbers that is not empty and has a bound has a greatest
\* element, and Max chooses it.
LEMMA Greatest ==
  ASSUME NEW b \in Nat, NEW S \in SUBSET (0 .. b), S # {}
  PROVE  /\ Max(S) \in S
         /\ \A k \in S : Max(S) >= k
<1> DEFINE D == { b - k : k \in S }
<1>1. PICK d \in D : \A e \in D : d <= e
  <2>1. \A k \in S : b - k \in Nat
    OBVIOUS
  <2>2. D \in SUBSET Nat /\ D # {}
    BY <2>1, Zenon
  <2> QED
    BY <2>2, Least, Zenon
<1>2. PICK m \in S : d = b - m
  BY <1>1
<1>3. ASSUME NEW k \in S
      PROVE  m >= k
  <2>1. b - m <= b - k
    BY <1>1, <1>2, Zenon
  <2>2. k \in 0 .. b /\ m \in 0 .. b
    OBVIOUS
  <2> QED
    BY <2>1, <2>2
<1> QED
  BY <1>3, Zenon DEF Max

\* Among finite sets there is one of least cardinality: induction over finite
\* sets looks at it.
LEMMA LeastSet ==
  ASSUME NEW F, F # {}, \A S \in F : IsFiniteSet(S)
  PROVE  \E S \in F : \A T \in F : Cardinality(S) <= Cardinality(T)
<1> DEFINE C == { Cardinality(S) : S \in F }
<1>1. C \in SUBSET Nat /\ C # {}
  BY FS_CardinalityType
<1>2. PICK c \in C : \A d \in C : c <= d
  BY <1>1, Least, Zenon
<1> QED
  BY <1>2

-----------------------------------------------------------------------------
(* The total cost of a set of records.                                      *)

\* What a record costs the budget now.
Weight(r) == cost(AgeSeconds(r, now))

\* A finite set of records whose costs are numbers.
Weighed(S) == IsFiniteSet(S) /\ \A r \in S : Weight(r) \in Nat

\* The element the sum over a set takes first.
First(s) == CHOOSE x \in s : TRUE

\* One step of the sum over the set s, from a function that sums its subsets.
Step(h, s) == IF s = {} THEN 0 ELSE Weight(First(s)) + h[s \ {First(s)}]

\* h sums the costs of the subsets of S.
Sums(S, h) == h = [s \in SUBSET S |-> Step(h, s)]

\* The first element of a set that is not empty belongs to it.
LEMMA FirstIn ==
  ASSUME NEW s, s # {}
  PROVE  First(s) \in s
BY DEF First

\* The cost of a record stamped with a number is a number.
LEMMA Weights ==
  ASSUME NEW r, r.ts \in Nat, now \in Nat
  PROVE  Weight(r) \in Nat
<1>1. PICK dt \in Nat : AgeSeconds(r, now) = (dt * TickMsec) \div 1000
  BY DEF AgeSeconds
<1>2. dt * TickMsec \in Nat
  BY TickAssumption
<1>3. AgeSeconds(r, now) \in Nat
  BY <1>1, <1>2
<1> QED
  BY <1>3 DEF Weight, cost

\* The subsets of a weighed set are weighed.
LEMMA WeighedSubset ==
  ASSUME NEW S, Weighed(S), NEW T \in SUBSET S
  PROVE  Weighed(T)
BY FS_Subset DEF Weighed

\* TotalCost applies a function that sums the subsets of its argument, if
\* there is one.
LEMMA TotalCostDef ==
  ASSUME NEW S
  PROVE  TotalCost(S) = (CHOOSE h : Sums(S, h))[S]
BY DEF TotalCost, MapThenSumSet, MapThenFoldSet, Weight, Sums, Step, First

\* The subsets of a weighed set have a function that sums them.  Functions that
\* are right on the sets of at most n elements exist for every n: the least n
\* without one would follow an n that has one.
LEMMA SumsExist ==
  ASSUME NEW S, Weighed(S)
  PROVE  \E h \in [SUBSET S -> Nat] : Sums(S, h)
<1> DEFINE Right(h, n) == \A s \in SUBSET S : Cardinality(s) <= n => h[s] = Step(h, s)
           Good(n) == \E h \in [SUBSET S -> Nat] : Right(h, n)
           Bad == { n \in Nat : ~Good(n) }
<1>1. \A s \in SUBSET S : IsFiniteSet(s) /\ Cardinality(s) \in Nat
  BY FS_Subset, FS_CardinalityType DEF Weighed
<1>2. Good(0)
  <2> DEFINE h == [s \in SUBSET S |-> 0]
  <2>1. \A s \in SUBSET S : Cardinality(s) <= 0 => s = {}
    BY <1>1, FS_EmptySet
  <2>2. Right(h, 0)
    BY <2>1 DEF Step
  <2> QED
    BY <2>2, Zenon
<1>3. ASSUME NEW n \in Nat, Good(n)
      PROVE  Good(n + 1)
  <2>1. PICK h \in [SUBSET S -> Nat] : Right(h, n)
    BY <1>3
  <2> DEFINE g == [s \in SUBSET S |-> Step(h, s)]
  <2>2. ASSUME NEW s \in SUBSET S, s # {}
        PROVE  /\ First(s) \in S
               /\ s \ {First(s)} \in SUBSET S
               /\ Cardinality(s \ {First(s)}) = Cardinality(s) - 1
               /\ Step(h, s) \in Nat
    <3>1. First(s) \in s
      BY <2>2, FirstIn
    <3>2. Weight(First(s)) \in Nat
      BY <3>1 DEF Weighed
    <3>3. h[s \ {First(s)}] \in Nat
      OBVIOUS
    <3> QED
      BY <1>1, <2>2, <3>1, <3>2, <3>3, FS_RemoveElement DEF Step
  <2>3. g \in [SUBSET S -> Nat]
    BY <2>2 DEF Step
  <2>4. ASSUME NEW s \in SUBSET S, Cardinality(s) <= n + 1
        PROVE  g[s] = Step(g, s)
    <3>1. CASE s = {}
      BY <3>1 DEF Step
    <3>2. CASE s # {}
      <4> DEFINE t == s \ {First(s)}
      <4>1. t \in SUBSET S /\ Cardinality(t) <= n
        BY <1>1, <2>2, <2>4, <3>2
      <4>2. h[t] = g[t]
        BY <2>1, <4>1
      <4> QED
        BY <3>2, <4>2 DEF Step
    <3> QED
      BY <3>1, <3>2
  <2> QED
    BY <2>3, <2>4, Zenon
<1>4. Bad = {}
  <2> SUFFICES ASSUME Bad # {}
               PROVE  FALSE
    BY Zenon
  <2>1. PICK m \in Bad : \A k \in Bad : m <= k
    BY Least, Zenon
  <2> HIDE DEF Good
  <2>2. m # 0
    BY <1>2, <2>1
  <2>3. Good(m - 1)
    BY <2>1, <2>2
  <2>4. Good(m)
    BY <1>3, <2>1, <2>2, <2>3
  <2> QED
    BY <2>1, <2>4
<1>5. PICK h \in [SUBSET S -> Nat] : Right(h, Cardinality(S))
  BY <1>1, <1>4, Zenon
<1>6. \A s \in SUBSET S : h[s] = Step(h, s)
  BY <1>1, <1>5, FS_Subset DEF Weighed
<1> QED
  BY <1>6 DEF Sums

\* Two functions that sum subsets agree on the finite sets they both know.
LEMMA SumsAgree ==
  ASSUME NEW S, NEW T, NEW g, NEW h, Sums(S, g), Sums(T, h),
         NEW U \in SUBSET S, U \in SUBSET T, IsFiniteSet(U)
  PROVE  g[U] = h[U]
<1> DEFINE F == { s \in SUBSET U : g[s] # h[s] }
<1> SUFFICES ASSUME F # {}
             PROVE  FALSE
  OBVIOUS
<1>1. \A s \in SUBSET U : IsFiniteSet(s) /\ Cardinality(s) \in Nat
  BY FS_Subset, FS_CardinalityType
<1>2. PICK s \in F : \A t \in F : Cardinality(s) <= Cardinality(t)
  BY <1>1, LeastSet, Zenon
<1>3. s \in SUBSET S /\ s \in SUBSET T
  OBVIOUS
<1>4. g[s] = Step(g, s) /\ h[s] = Step(h, s)
  BY <1>3 DEF Sums
<1>5. s # {}
  BY <1>2, <1>4 DEF Step
<1> DEFINE t == s \ {First(s)}
<1>6. Cardinality(t) = Cardinality(s) - 1
  BY <1>1, <1>5, FirstIn, FS_RemoveElement
<1>7. g[t] = h[t]
  BY <1>1, <1>2, <1>6
<1> QED
  BY <1>2, <1>4, <1>5, <1>7 DEF Step

\* What TotalCost computes: nothing for the empty set, and for any other the
\* cost of its first element more than for the rest.
LEMMA TotalCostStep ==
  ASSUME NEW S, Weighed(S)
  PROVE  /\ TotalCost(S) \in Nat
         /\ S = {} => TotalCost(S) = 0
         /\ S # {} => TotalCost(S) = Weight(First(S)) + TotalCost(S \ {First(S)})
<1>1. PICK g \in [SUBSET S -> Nat] : Sums(S, g)
  BY SumsExist
<1>2. ASSUME NEW T \in SUBSET S
      PROVE  TotalCost(T) = g[T]
  <2>1. Weighed(T)
    BY WeighedSubset
  <2>2. \E h : Sums(T, h)
    BY <2>1, SumsExist, Zenon
  <2> DEFINE h == CHOOSE h : Sums(T, h)
  <2>3. Sums(T, h)
    BY <2>2
  <2>4. h[T] = g[T]
    <3> HIDE DEF h
    <3> QED
      BY <1>1, <2>1, <2>3, SumsAgree DEF Weighed
  <2> QED
    BY <2>4, TotalCostDef
<1>3. g[S] = Step(g, S)
  BY <1>1 DEF Sums
<1> QED
  BY <1>2, <1>3 DEF Step

\* The sum may take its elements in any order.
LEMMA TotalCostRemove ==
  ASSUME NEW S, Weighed(S), NEW x \in S
  PROVE  TotalCost(S) = Weight(x) + TotalCost(S \ {x})
<1> DEFINE F == { s \in SUBSET S : \E y \in s : TotalCost(s) # Weight(y) + TotalCost(s \ {y}) }
<1> SUFFICES ASSUME F # {}
             PROVE  FALSE
  OBVIOUS
<1>1. \A s \in SUBSET S : Weighed(s) /\ IsFiniteSet(s) /\ Cardinality(s) \in Nat
  BY WeighedSubset, FS_CardinalityType DEF Weighed
<1>2. PICK s \in F : \A t \in F : Cardinality(s) <= Cardinality(t)
  BY <1>1, LeastSet, Zenon
<1>3. PICK y \in s : TotalCost(s) # Weight(y) + TotalCost(s \ {y})
  BY <1>2
<1> DEFINE z == First(s)
           r == s \ {y, z}
<1>4. z \in s /\ TotalCost(s) = Weight(z) + TotalCost(s \ {z})
  BY <1>1, <1>3, FirstIn, TotalCostStep
<1>5. y # z
  BY <1>3, <1>4
<1>6. /\ Cardinality(s \ {y}) = Cardinality(s) - 1
      /\ Cardinality(s \ {z}) = Cardinality(s) - 1
  BY <1>1, <1>4, FS_RemoveElement
<1>7. s \ {y} \notin F /\ s \ {z} \notin F
  <2>1. Cardinality(s) \in Nat
    BY <1>1
  <2> HIDE DEF F
  <2> QED
    BY <1>2, <1>6, <2>1
<1>8. TotalCost(s \ {z}) = Weight(y) + TotalCost(r)
  <2>1. r = (s \ {z}) \ {y} /\ y \in s \ {z}
    BY <1>5
  <2> QED
    BY <1>7, <2>1, Zenon
<1>9. TotalCost(s \ {y}) = Weight(z) + TotalCost(r)
  <2>1. r = (s \ {y}) \ {z} /\ z \in s \ {y}
    BY <1>4, <1>5
  <2> QED
    BY <1>7, <2>1, Zenon
<1>10. Weight(y) \in Nat /\ Weight(z) \in Nat /\ TotalCost(r) \in Nat
  BY <1>1, <1>4, TotalCostStep, Zenon DEF Weighed
<1> QED
  BY <1>3, <1>4, <1>8, <1>9, <1>10

\* A set costs no less than its subsets.
LEMMA TotalCostMonotonic ==
  ASSUME NEW S, Weighed(S), NEW T \in SUBSET S
  PROVE  TotalCost(T) <= TotalCost(S)
<1> DEFINE F == { s \in SUBSET S : T \subseteq s /\ ~(TotalCost(T) <= TotalCost(s)) }
<1> SUFFICES ASSUME F # {}
             PROVE  FALSE
  OBVIOUS
<1>1. \A s \in SUBSET S : /\ Weighed(s) /\ IsFiniteSet(s) /\ Cardinality(s) \in Nat
                          /\ TotalCost(s) \in Nat
  BY WeighedSubset, TotalCostStep, FS_CardinalityType, Zenon DEF Weighed
<1>2. PICK s \in F : \A t \in F : Cardinality(s) <= Cardinality(t)
  BY <1>1, LeastSet, Zenon
<1>3. s # T
  BY <1>1, <1>2
<1>4. PICK x \in s : x \notin T
  BY <1>2, <1>3
<1>5. Cardinality(s \ {x}) = Cardinality(s) - 1
  BY <1>1, <1>2, FS_RemoveElement
<1>6. s \ {x} \notin F
  <2>1. Cardinality(s) \in Nat
    BY <1>1
  <2> HIDE DEF F
  <2> QED
    BY <1>2, <1>5, <2>1
<1>7. TotalCost(T) <= TotalCost(s \ {x})
  BY <1>2, <1>4, <1>6
<1>8. TotalCost(s) = Weight(x) + TotalCost(s \ {x})
  BY <1>1, TotalCostRemove
<1>9. Weight(x) \in Nat /\ TotalCost(s \ {x}) \in Nat /\ TotalCost(T) \in Nat
  BY <1>1 DEF Weighed
<1> QED
  BY <1>2, <1>7, <1>8, <1>9

-----------------------------------------------------------------------------
(* The running cost of an order.                                            *)

\* The first n records of an order.
Prefix(order, n) == { order[i] : i \in { j \in DOMAIN order : j <= n } }

\* The loop adds its next record to what the records before it cost.
Entry(order, running, n) == IF n = 0 THEN 0 ELSE running[n - 1] + Weight(order[n])

\* RunningCost is a function that the loop's step defines.
LEMMA RunningCostDef ==
  ASSUME NEW N \in Nat, NEW order, DOMAIN order = 1 .. N
  PROVE  RunningCost(order, now) =
           CHOOSE running : running = [n \in 0 .. N |-> Entry(order, running, n)]
<1>1. Cardinality(DOMAIN order) = N
  BY FS_Interval
<1> QED
  BY <1>1 DEF RunningCost, Entry, Weight

\* A record that comes next extends the prefix before it, in which it is not.
LEMMA PrefixStep ==
  ASSUME NEW S, NEW N \in Nat, NEW order \in Bijection(1 .. N, S), NEW n \in 1 .. N
  PROVE  /\ order[n] \in Prefix(order, n)
         /\ Prefix(order, n) \ {order[n]} = Prefix(order, n - 1)
         /\ Prefix(order, n) = Prefix(order, n - 1) \cup {order[n]}
         /\ order[n] \notin Prefix(order, n - 1)
<1>1. /\ order \in [1 .. N -> S]
      /\ \A i, j \in 1 .. N : order[i] = order[j] => i = j
  BY DEF Bijection, Injection, IsInjective
<1>2. \A k : Prefix(order, k) = { order[i] : i \in { j \in 1 .. N : j <= k } }
  BY <1>1 DEF Prefix
<1>3. { j \in 1 .. N : j <= n } = { j \in 1 .. N : j <= n - 1 } \cup {n}
  OBVIOUS
<1>4. n \notin { j \in 1 .. N : j <= n - 1 }
  OBVIOUS
<1> QED
  BY <1>1, <1>2, <1>3, <1>4

\* The prefixes of an order are sets of its records, from none to all.
LEMMA PrefixBounds ==
  ASSUME NEW S, NEW N \in Nat, NEW order \in Bijection(1 .. N, S)
  PROVE  /\ Prefix(order, 0) = {}
         /\ Prefix(order, N) = S
         /\ \A n \in 0 .. N : Prefix(order, n) \in SUBSET S
         /\ \A m, n \in 0 .. N : m <= n => Prefix(order, m) \in SUBSET Prefix(order, n)
<1>1. order \in [1 .. N -> S] /\ \A s \in S : \E i \in 1 .. N : order[i] = s
  BY DEF Bijection, Surjection
<1>2. \A k : Prefix(order, k) = { order[i] : i \in { j \in 1 .. N : j <= k } }
  BY <1>1 DEF Prefix
<1>3. Prefix(order, 0) = {}
  BY <1>2
<1>4. Prefix(order, N) = S
  <2>1. { j \in 1 .. N : j <= N } = 1 .. N
    OBVIOUS
  <2>2. Prefix(order, N) = { order[i] : i \in 1 .. N }
    BY <1>2, <2>1
  <2> QED
    BY <1>1, <2>2
<1>5. \A n \in 0 .. N : Prefix(order, n) \in SUBSET S
  BY <1>1, <1>2
<1>6. ASSUME NEW m \in 0 .. N, NEW n \in 0 .. N, m <= n
      PROVE  Prefix(order, m) \in SUBSET Prefix(order, n)
  <2>1. \A j \in 1 .. N : j <= m => j <= n
    BY <1>6
  <2> QED
    BY <1>2, <2>1
<1> QED
  BY <1>3, <1>4, <1>5, <1>6

\* The running cost after n records is the total cost of the first n: what the
\* loop adds up in its order is the sum over a set, which has none.
LEMMA RunningCostTotal ==
  ASSUME NEW S, Weighed(S), NEW N \in Nat, NEW order \in Bijection(1 .. N, S)
  PROVE  /\ DOMAIN RunningCost(order, now) = 0 .. N
         /\ \A n \in 0 .. N : RunningCost(order, now)[n] = TotalCost(Prefix(order, n))
<1> DEFINE total == [n \in 0 .. N |-> TotalCost(Prefix(order, n))]
           running == RunningCost(order, now)
           Loops(f) == f = [n \in 0 .. N |-> Entry(order, f, n)]
<1>1. \A n \in 0 .. N : Weighed(Prefix(order, n))
  BY PrefixBounds, WeighedSubset
<1>2. Prefix(order, 0) = {}
  BY PrefixBounds
<1>3. total[0] = 0
  <2>1. 0 \in 0 .. N
    OBVIOUS
  <2> QED
    BY <1>1, <1>2, <2>1, TotalCostStep, Zenon
<1>4. ASSUME NEW n \in 1 .. N
      PROVE  total[n] = total[n - 1] + Weight(order[n])
  <2>1. TotalCost(Prefix(order, n)) = Weight(order[n]) + TotalCost(Prefix(order, n - 1))
    BY <1>1, PrefixStep, TotalCostRemove
  <2>2. Weight(order[n]) \in Nat
    BY <1>1, PrefixStep DEF Weighed
  <2>3. TotalCost(Prefix(order, n - 1)) \in Nat
    <3>1. n - 1 \in 0 .. N
      OBVIOUS
    <3> QED
      BY <1>1, <3>1, TotalCostStep, Zenon
  <2> QED
    BY <2>1, <2>2, <2>3
<1>5. Loops(total)
  <2>1. \A n \in 0 .. N : total[n] = Entry(order, total, n)
    <3> HIDE DEF total
    <3> QED
      BY <1>3, <1>4 DEF Entry
  <2> QED
    BY <2>1
<1>6. Loops(running)
  <2>1. DOMAIN order = 1 .. N
    BY DEF Bijection, Injection
  <2>2. running = CHOOSE f : Loops(f)
    BY <2>1, RunningCostDef
  <2> HIDE DEF total, running, Loops
  <2> QED
    BY <1>5, <2>2
<1>7. DOMAIN running = 0 .. N
  BY <1>6
<1>8. \A n \in 0 .. N : running[n] = total[n]
  <2> DEFINE Bad == { n \in 0 .. N : running[n] # total[n] }
  <2> SUFFICES ASSUME Bad # {}
               PROVE  FALSE
    OBVIOUS
  <2>1. PICK n \in Bad : \A k \in Bad : n <= k
    <3>1. Bad \in SUBSET Nat
      OBVIOUS
    <3> HIDE DEF Bad
    <3> QED
      BY <3>1, Least
  <2>2. running[n] = Entry(order, running, n)
    BY <1>6
  <2>3. total[n] = Entry(order, total, n)
    BY <1>5
  <2>4. n # 0
    BY <2>1, <2>2, <2>3 DEF Entry
  <2>5. running[n - 1] = total[n - 1]
    <3> HIDE DEF running, total
    <3> QED
      BY <2>1, <2>4
  <2> HIDE DEF running, total
  <2> QED
    BY <2>1, <2>2, <2>3, <2>4, <2>5 DEF Entry
<1> QED
  BY <1>7, <1>8

\* Affordable is the greatest number of records, from the front of the order,
\* that the budget pays for.
LEMMA AffordableGreatest ==
  ASSUME NEW S, Weighed(S), NEW N \in Nat, NEW order \in Bijection(1 .. N, S)
  PROVE  /\ Affordable(order, now) \in 0 .. N
         /\ TotalCost(Prefix(order, Affordable(order, now))) <= kTimeDecayBudget
         /\ \A n \in 0 .. N : TotalCost(Prefix(order, n)) <= kTimeDecayBudget
                                => n <= Affordable(order, now)
<1> DEFINE running == RunningCost(order, now)
           fits == { n \in 0 .. N : TotalCost(Prefix(order, n)) <= kTimeDecayBudget }
<1>1. /\ DOMAIN running = 0 .. N
      /\ \A n \in 0 .. N : running[n] = TotalCost(Prefix(order, n))
  BY RunningCostTotal
<1>2. Affordable(order, now) = Max(fits)
  <2>1. { n \in DOMAIN running : running[n] <= kTimeDecayBudget } = fits
    <3> HIDE DEF running
    <3> QED
      BY <1>1
  <2> QED
    BY <2>1, Zenon DEF Affordable
<1>3. 0 \in fits
  <2>1. Prefix(order, 0) = {}
    BY PrefixBounds
  <2>2. Weighed({})
    BY FS_EmptySet DEF Weighed
  <2>3. TotalCost(Prefix(order, 0)) = 0
    BY <2>1, <2>2, TotalCostStep, Zenon
  <2> QED
    BY <2>3 DEF kTimeDecayBudget
<1>4. fits \in SUBSET (0 .. N)
  OBVIOUS
<1>5. Max(fits) \in fits /\ \A k \in fits : Max(fits) >= k
  <2> HIDE DEF fits
  <2> QED
    BY <1>3, <1>4, Greatest, Zenon
<1>6. Max(fits) \in 0 .. N
  BY <1>4, <1>5
<1>7. TotalCost(Prefix(order, Max(fits))) <= kTimeDecayBudget
  BY <1>5
<1>8. ASSUME NEW n \in 0 .. N, TotalCost(Prefix(order, n)) <= kTimeDecayBudget
      PROVE  n <= Max(fits)
  <2>1. n \in fits
    BY <1>8
  <2> HIDE DEF fits
  <2> QED
    BY <1>5, <1>6, <2>1
<1> QED
  BY <1>2, <1>6, <1>7, <1>8

-----------------------------------------------------------------------------
(* Orders of a set of records, newest Lamport time first.                   *)

\* A finite set of records with Lamport times.
Stamped(S) == IsFiniteSet(S) /\ \A r \in S : r.lt \in Nat

\* Nothing outside A is newer than something in it.
Leads(A, S) == \A a \in A, q \in S \ A : a.lt >= q.lt

\* The record r is no newer than those of A.
Trails(r, A) == \A a \in A : a.lt >= r.lt

\* An order of a set, unfolded.
LEMMA OrderOf ==
  ASSUME NEW S, IsFiniteSet(S), NEW f
  PROVE  f \in NewestFirst(S) <=>
           /\ f \in Bijection(1 .. Cardinality(S), S)
           /\ \A i, j \in 1 .. Cardinality(S) : i < j => f[i].lt >= f[j].lt
BY DEF NewestFirst

\* An order stays one when a record no newer than the others comes last.
LEMMA OrderAppend ==
  ASSUME NEW A, IsFiniteSet(A), NEW f \in NewestFirst(A),
         NEW r, r \notin A, Trails(r, A)
  PROVE  \E g \in NewestFirst(A \cup {r}) :
           /\ \A i \in 1 .. Cardinality(A) : g[i] = f[i]
           /\ g[Cardinality(A) + 1] = r
<1> DEFINE n == Cardinality(A)
           B == A \cup {r}
           g == [i \in 1 .. n + 1 |-> IF i = n + 1 THEN r ELSE f[i]]
<1>1. n \in Nat /\ IsFiniteSet(B) /\ Cardinality(B) = n + 1
  BY FS_CardinalityType, FS_AddElement
<1>2. /\ f \in [1 .. n -> A]
      /\ \A i, j \in 1 .. n : f[i] = f[j] => i = j
      /\ \A a \in A : \E i \in 1 .. n : f[i] = a
      /\ \A i, j \in 1 .. n : i < j => f[i].lt >= f[j].lt
  <2>1. f \in Bijection(1 .. n, A) /\ \A i, j \in 1 .. n : i < j => f[i].lt >= f[j].lt
    BY OrderOf
  <2> HIDE DEF n
  <2> QED
    BY <2>1 DEF Bijection, Injection, Surjection, IsInjective
<1> HIDE DEF n
<1>3. /\ \A i \in 1 .. n : i \in 1 .. n + 1 /\ i # n + 1
      /\ n + 1 \in 1 .. n + 1
      /\ \A i \in 1 .. n + 1 : i = n + 1 \/ i \in 1 .. n
  BY <1>1
<1>4. g[n + 1] = r /\ \A i \in 1 .. n : g[i] = f[i] /\ g[i] \in A
  BY <1>2, <1>3
<1>5. g \in [1 .. n + 1 -> B]
  BY <1>2, <1>3
<1> HIDE DEF g
<1>6. \A i, j \in 1 .. n + 1 : g[i] = g[j] => i = j
  BY <1>2, <1>3, <1>4
<1>7. \A b \in B : \E i \in 1 .. n + 1 : g[i] = b
  BY <1>2, <1>3, <1>4
<1>8. ASSUME NEW i \in 1 .. n + 1, NEW j \in 1 .. n + 1, i < j
      PROVE  g[i].lt >= g[j].lt
  <2>1. i \in 1 .. n
    BY <1>1, <1>8
  <2>2. CASE j = n + 1
    BY <1>4, <2>1, <2>2 DEF Trails
  <2>3. CASE j \in 1 .. n
    BY <1>2, <1>4, <1>8, <2>1, <2>3
  <2> QED
    BY <1>3, <2>2, <2>3
<1>9. g \in Bijection(1 .. n + 1, B)
  BY <1>5, <1>6, <1>7 DEF Bijection, Injection, Surjection, IsInjective
<1>10. g \in NewestFirst(B)
  BY <1>1, <1>8, <1>9, OrderOf
<1> QED
  BY <1>4, <1>10 DEF n

\* Some record of a set that is not empty is no newer than the others.
LEMMA Oldest ==
  ASSUME NEW S, Stamped(S), S # {}
  PROVE  \E r \in S : Trails(r, S)
<1> DEFINE L == { q.lt : q \in S }
<1>1. L \in SUBSET Nat /\ L # {}
  BY DEF Stamped
<1>2. PICK m \in L : \A k \in L : m <= k
  BY <1>1, Least, Zenon
<1> QED
  BY <1>2 DEF Stamped, Trails

\* An order of the newest records of a set begins an order of the whole set.
LEMMA OrderExtends ==
  ASSUME NEW S, Stamped(S), NEW A \in SUBSET S, Leads(A, S), NEW f \in NewestFirst(A)
  PROVE  \E g \in NewestFirst(S) : \A i \in 1 .. Cardinality(A) : g[i] = f[i]
<1> DEFINE Extends(s) == \E g \in NewestFirst(s) : \A i \in 1 .. Cardinality(A) : g[i] = f[i]
           F == { s \in SUBSET S : A \subseteq s /\ ~Extends(s) }
<1> HIDE DEF Extends
<1> SUFFICES ASSUME F # {}
             PROVE  FALSE
  BY DEF Extends
<1>1. \A s \in SUBSET S : IsFiniteSet(s) /\ Cardinality(s) \in Nat
  BY FS_Subset, FS_CardinalityType DEF Stamped
<1>2. PICK s \in F : \A t \in F : Cardinality(s) <= Cardinality(t)
  BY <1>1, LeastSet, Zenon
<1>3. s # A
  BY <1>2 DEF Extends
<1>4. PICK r \in s \ A : Trails(r, s \ A)
  <2>1. Stamped(s \ A) /\ s \ A # {}
    BY <1>1, <1>3 DEF Stamped
  <2> QED
    BY <2>1, Oldest
<1> DEFINE t == s \ {r}
<1>5. t \in SUBSET S /\ A \subseteq t /\ Cardinality(t) = Cardinality(s) - 1
  BY <1>1, <1>2, FS_RemoveElement
<1>6. Extends(t)
  BY <1>1, <1>2, <1>5
<1>7. PICK g \in NewestFirst(t) : \A i \in 1 .. Cardinality(A) : g[i] = f[i]
  BY <1>6 DEF Extends
<1>8. Trails(r, t)
  BY <1>4 DEF Leads, Trails
<1>9. t \cup {r} = s /\ r \notin t
  OBVIOUS
<1>10. PICK h \in NewestFirst(s) : \A i \in 1 .. Cardinality(t) : h[i] = g[i]
  <2>1. IsFiniteSet(t)
    BY <1>1, <1>5
  <2> HIDE DEF t, F
  <2>2. \E h \in NewestFirst(t \cup {r}) :
          /\ \A i \in 1 .. Cardinality(t) : h[i] = g[i]
          /\ h[Cardinality(t) + 1] = r
    BY <1>7, <1>8, <1>9, <2>1, OrderAppend
  <2> QED
    BY <1>9, <2>2, Zenon
<1>11. \A i \in 1 .. Cardinality(A) : i \in 1 .. Cardinality(t)
  BY <1>1, <1>5, FS_Subset
<1>12. Extends(s)
  BY <1>7, <1>10, <1>11, Zenon DEF Extends
<1> QED
  BY <1>2, <1>12

-----------------------------------------------------------------------------
(* The selections.                                                          *)

\* What the table and the clock are: the records of a finite table, each with a
\* time and a Lamport time.
Table ==
  /\ now \in Nat
  /\ IsFiniteSet(records)
  /\ \A r \in records : r.ts \in Nat /\ r.lt \in Nat

\* The records of the table can be weighed and ordered.
LEMMA TableRecords ==
  ASSUME Table
  PROVE  Weighed(records) /\ Stamped(records) /\ Cardinality(records) \in Nat
<1>1. \A r \in records : r.ts \in Nat /\ r.lt \in Nat
  BY DEF Table
<1>2. Weighed(records)
  BY <1>1, Weights DEF Table, Weighed
<1> QED
  BY <1>1, <1>2, FS_CardinalityType DEF Table, Stamped

\* Whatever order std::sort leaves the records in, the loop's selection fits the
\* budget, prefers the newest, and leaves records out only if the next does not fit.
LEMMA SelectionAllowed ==
  ASSUME Table, NEW chosen \in AddRecordsToBudget(records, now)
  PROVE  /\ chosen \in SUBSET records
         /\ TotalCost(chosen) <= kTimeDecayBudget
         /\ PrefersNewest(chosen)
         /\ chosen = records \/ Full(chosen)
<1> DEFINE N == Cardinality(records)
<1>1. PICK order \in NewestFirst(records) : chosen = Prefix(order, Affordable(order, now))
  BY DEF AddRecordsToBudget, Prefix
<1> DEFINE m == Affordable(order, now)
<1>2. N \in Nat /\ Weighed(records) /\ Stamped(records)
  BY TableRecords
<1>3. /\ order \in Bijection(1 .. N, records)
      /\ \A i, j \in 1 .. N : i < j => order[i].lt >= order[j].lt
  BY <1>2, OrderOf DEF Stamped
<1>4. /\ m \in 0 .. N
      /\ TotalCost(Prefix(order, m)) <= kTimeDecayBudget
      /\ \A n \in 0 .. N : TotalCost(Prefix(order, n)) <= kTimeDecayBudget => n <= m
  BY <1>2, <1>3, AffordableGreatest
<1> HIDE DEF m, N
<1>5. chosen = Prefix(order, m)
  BY <1>1 DEF m
<1>6. /\ order \in [1 .. N -> records]
      /\ \A s \in records : \E i \in 1 .. N : order[i] = s
  BY <1>3 DEF Bijection, Injection, Surjection
<1>7. chosen \in SUBSET records
  BY <1>2, <1>3, <1>4, <1>5, PrefixBounds
<1>8. ASSUME NEW q \in records \ chosen
      PROVE  \E j \in 1 .. N : order[j] = q /\ m < j
  <2>1. PICK j \in 1 .. N : order[j] = q
    BY <1>6
  <2>2. ~(j <= m)
    BY <1>5, <1>6, <2>1 DEF Prefix
  <2> QED
    BY <1>2, <1>4, <2>1, <2>2
<1>9. ASSUME NEW r \in chosen
      PROVE  \E i \in 1 .. N : order[i] = r /\ i <= m
  BY <1>5, <1>6 DEF Prefix
<1>10. PrefersNewest(chosen)
  <2> SUFFICES ASSUME NEW r \in chosen, NEW q \in records \ chosen
               PROVE  r.lt >= q.lt
    BY DEF PrefersNewest
  <2>1. PICK i \in 1 .. N : order[i] = r /\ i <= m
    BY <1>9
  <2>2. PICK j \in 1 .. N : order[j] = q /\ m < j
    BY <1>8
  <2>3. i < j
    BY <1>2, <1>4, <2>1, <2>2
  <2> QED
    BY <1>3, <2>1, <2>2, <2>3
<1>11. CASE m = N
  BY <1>2, <1>3, <1>4, <1>5, <1>7, <1>10, <1>11, PrefixBounds
<1>12. CASE m # N
  <2> DEFINE k == m + 1
             r == order[k]
  <2>1. k \in 1 .. N /\ k - 1 = m /\ ~(k <= m)
    BY <1>2, <1>4, <1>12
  <2>2. r \notin chosen /\ Prefix(order, k) = chosen \cup {r}
    BY <1>2, <1>3, <1>5, <2>1, PrefixStep
  <2>3. r \in records
    BY <1>6, <2>1
  <2>4. ASSUME NEW q \in records \ chosen
        PROVE  r.lt >= q.lt
    <3>1. PICK j \in 1 .. N : order[j] = q /\ m < j
      BY <1>8
    <3>2. CASE j = k
      <4>1. r.lt \in Nat
        BY <1>2, <2>3 DEF Stamped
      <4> QED
        BY <3>1, <3>2, <4>1
    <3>3. CASE j # k
      <4>1. k < j
        BY <1>2, <1>4, <3>1, <3>3
      <4> QED
        BY <1>3, <2>1, <3>1, <4>1
    <3> QED
      BY <3>2, <3>3
  <2>5. TotalCost(chosen \cup {r}) > kTimeDecayBudget
    <3>1. chosen \cup {r} \in SUBSET records
      BY <1>7, <2>3
    <3>2. TotalCost(chosen \cup {r}) \in Nat
      BY <1>2, <3>1, WeighedSubset, TotalCostStep, Zenon
    <3>3. ~(TotalCost(chosen \cup {r}) <= kTimeDecayBudget)
      BY <1>4, <2>1, <2>2
    <3> QED
      BY <3>2, <3>3 DEF kTimeDecayBudget
  <2>6. Full(chosen)
    BY <2>2, <2>3, <2>4, <2>5, Zenon DEF Full
  <2> QED
    BY <1>4, <1>5, <1>7, <1>10, <2>6
<1> QED
  BY <1>11, <1>12

\* Every finite set of records has an order.
LEMMA OrderExists ==
  ASSUME NEW S, Stamped(S)
  PROVE  NewestFirst(S) # {}
<1> DEFINE f == [i \in {} |-> i]
<1>1. 1 .. Cardinality({}) = {} /\ IsFiniteSet({})
  BY FS_EmptySet
<1>2. f \in Bijection({}, {})
  BY DEF Bijection, Injection, Surjection, IsInjective
<1>3. f \in NewestFirst({})
  BY <1>1, <1>2, OrderOf, Zenon
<1>4. Leads({}, S)
  BY DEF Leads
<1> HIDE DEF f
<1> QED
  BY <1>3, <1>4, OrderExtends

\* Each set that fits the budget, prefers the newest, and leaves records out only
\* if the next does not fit, is the selection for some order of the records.
LEMMA SelectionPossible ==
  ASSUME Table, NEW chosen \in SUBSET records,
         TotalCost(chosen) <= kTimeDecayBudget,
         PrefersNewest(chosen),
         chosen = records \/ Full(chosen)
  PROVE  chosen \in AddRecordsToBudget(records, now)
<1> DEFINE N == Cardinality(records)
           m == Cardinality(chosen)
<1>1. N \in Nat /\ Weighed(records) /\ Stamped(records)
  BY TableRecords
<1>2. Stamped(chosen) /\ m \in 0 .. N /\ (chosen # records => m < N)
  <2>1. IsFiniteSet(chosen) /\ m \in Nat /\ m <= N /\ (m = N => chosen = records)
    BY <1>1, FS_Subset, FS_CardinalityType DEF Stamped
  <2> QED
    BY <1>1, <2>1 DEF Stamped
<1>3. PICK f : f \in NewestFirst(chosen)
  BY <1>2, OrderExists
<1>4. \E order \in NewestFirst(records) :
        /\ \A i \in 1 .. m : order[i] = f[i]
        /\ chosen # records => TotalCost(chosen \cup {order[m + 1]}) > kTimeDecayBudget
  <2>1. CASE chosen = records
    BY <1>3, <2>1
  <2>2. CASE chosen # records
    <3>1. PICK r \in records \ chosen :
            /\ \A q \in records \ chosen : r.lt >= q.lt
            /\ TotalCost(chosen \cup {r}) > kTimeDecayBudget
      BY <2>2 DEF Full
    <3> DEFINE next == chosen \cup {r}
    <3>2. Trails(r, chosen)
      BY DEF PrefersNewest, Trails
    <3>3. PICK g \in NewestFirst(next) : (\A i \in 1 .. m : g[i] = f[i]) /\ g[m + 1] = r
      BY <1>2, <1>3, <3>2, OrderAppend DEF Stamped
    <3>4. Leads(next, records)
      BY <3>1 DEF Leads, PrefersNewest
    <3>5. next \in SUBSET records /\ Cardinality(next) = m + 1
      BY <1>2, FS_AddElement, Zenon DEF Stamped
    <3>6. PICK order \in NewestFirst(records) : \A i \in 1 .. Cardinality(next) : order[i] = g[i]
      BY <1>1, <3>3, <3>4, <3>5, OrderExtends
    <3>7. order[m + 1] = r /\ \A i \in 1 .. m : order[i] = f[i]
      <4>1. m \in Nat
        BY <1>2
      <4> HIDE DEF m
      <4>2. \A i \in 1 .. m : i \in 1 .. m + 1
        BY <4>1
      <4>3. m + 1 \in 1 .. m + 1
        BY <4>1
      <4> QED
        BY <3>3, <3>5, <3>6, <4>2, <4>3
    <3> QED
      BY <3>1, <3>6, <3>7, Zenon
  <2> QED
    BY <2>1, <2>2
<1>5. PICK order \in NewestFirst(records) :
        /\ \A i \in 1 .. m : order[i] = f[i]
        /\ chosen # records => TotalCost(chosen \cup {order[m + 1]}) > kTimeDecayBudget
  BY <1>4, Zenon
<1>6. order \in Bijection(1 .. N, records)
  BY <1>1, OrderOf DEF Stamped
<1>7. f \in Bijection(1 .. m, chosen)
  BY <1>2, <1>3, OrderOf DEF Stamped
<1>8. Prefix(order, m) = chosen
  <2> HIDE DEF m, N
  <2>1. order \in [1 .. N -> records]
    BY <1>6 DEF Bijection, Injection
  <2>2. f \in [1 .. m -> chosen] /\ \A s \in chosen : \E i \in 1 .. m : f[i] = s
    BY <1>7 DEF Bijection, Injection, Surjection
  <2>3. { j \in DOMAIN order : j <= m } = 1 .. m
    BY <1>1, <1>2, <2>1
  <2> QED
    BY <1>5, <2>2, <2>3 DEF Prefix
<1>9. /\ Affordable(order, now) \in 0 .. N
      /\ TotalCost(Prefix(order, Affordable(order, now))) <= kTimeDecayBudget
      /\ \A n \in 0 .. N : TotalCost(Prefix(order, n)) <= kTimeDecayBudget
                             => n <= Affordable(order, now)
  BY <1>1, <1>6, AffordableGreatest
<1> DEFINE k == Affordable(order, now)
<1> HIDE DEF k, m, N
<1>10. m <= k
  BY <1>2, <1>8, <1>9 DEF k
<1>11. ~(m < k)
  <2> SUFFICES ASSUME m < k
               PROVE  FALSE
    OBVIOUS
  <2>1. k \in 0 .. N
    BY <1>9 DEF k
  <2>2. chosen # records
    <3> SUFFICES ASSUME chosen = records
                 PROVE  FALSE
      OBVIOUS
    <3>1. m = N
      BY DEF m, N
    <3> QED
      BY <1>1, <2>1, <3>1
  <2>3. m + 1 \in 1 .. N /\ m + 1 \in 0 .. N /\ m + 1 <= k /\ (m + 1) - 1 = m
    BY <1>1, <1>2, <2>1, <2>2
  <2>4. Prefix(order, m + 1) = chosen \cup {order[m + 1]}
    BY <1>1, <1>6, <1>8, <2>3, PrefixStep
  <2>5. Prefix(order, m + 1) \in SUBSET Prefix(order, k) /\ Prefix(order, k) \in SUBSET records
    BY <1>1, <1>6, <2>1, <2>3, PrefixBounds
  <2>6. Weighed(Prefix(order, k)) /\ Weighed(Prefix(order, m + 1))
    BY <1>1, <2>5, WeighedSubset
  <2>7. TotalCost(Prefix(order, m + 1)) <= TotalCost(Prefix(order, k))
    BY <2>5, <2>6, TotalCostMonotonic
  <2>8. TotalCost(Prefix(order, m + 1)) \in Nat /\ TotalCost(Prefix(order, k)) \in Nat
    BY <2>6, TotalCostStep, Zenon
  <2>9. TotalCost(Prefix(order, k)) <= kTimeDecayBudget
    BY <1>9 DEF k
  <2>10. TotalCost(Prefix(order, m + 1)) > kTimeDecayBudget
    BY <1>5, <2>2, <2>4
  <2> QED
    BY <2>7, <2>8, <2>9, <2>10 DEF kTimeDecayBudget
<1>12. k = m
  BY <1>1, <1>2, <1>9, <1>10, <1>11 DEF k
<1>13. chosen = Prefix(order, Affordable(order, now))
  BY <1>8, <1>12 DEF k
<1> QED
  BY <1>5, <1>13 DEF AddRecordsToBudget, Prefix

\* SelectsNewestAffordable: of every finite table, whatever its records' times and Lamport
\* times, their incarnations and whoever they name, and however old they are, the
\* selections that AddRecordsToBudget's sort and loop can make are exactly the sets that
\* fit the budget, prefer the newest Lamport times and leave a record out only when the
\* next one does not fit.
THEOREM SelectionExact ==
  ASSUME Table
  PROVE  SelectsNewestAffordable
<1> DEFINE Allowed(chosen) == /\ TotalCost(chosen) <= kTimeDecayBudget
                              /\ PrefersNewest(chosen)
                              /\ chosen = records \/ Full(chosen)
<1>1. \A chosen \in AddRecordsToBudget(records, now) :
        chosen \in SUBSET records /\ Allowed(chosen)
  BY SelectionAllowed
<1>2. \A chosen \in SUBSET records :
        Allowed(chosen) => chosen \in AddRecordsToBudget(records, now)
  BY SelectionPossible
<1>3. SelectsNewestAffordable <=>
        AddRecordsToBudget(records, now) = { chosen \in SUBSET records : Allowed(chosen) }
  BY DEF SelectsNewestAffordable
<1> HIDE DEF Allowed
<1> QED
  BY <1>1, <1>2, <1>3
=============================================================================
