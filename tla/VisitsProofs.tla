---------------------------- MODULE VisitsProofs ----------------------------
(***************************************************************************)
(* The counts of one app, for any number of threads, opens, restarts and   *)
(* failed writes: every open is in one place. The sums over threads and    *)
(* days are SumFunction's of the community modules; what they need is      *)
(* proved from its definition, by looking at a least set of threads for    *)
(* which it fails.                                                         *)
(***************************************************************************)
EXTENDS Visits, FiniteSetTheorems, TLAPS

-----------------------------------------------------------------------------
(* Sums *)

AnyOf(s)        == CHOOSE x \in s : TRUE
Without(s)      == s \ {AnyOf(s)}
Adding(f, S, g) == g = [s \in SUBSET S |-> IF s = {} THEN 0 ELSE f[AnyOf(s)] + g[Without(s)]]

LEMMA SumUnfolded ==
  ASSUME NEW f, NEW S
  PROVE  SumFunctionOnSet(f, S) = (CHOOSE g : Adding(f, S, g))[S]
  BY DEF SumFunctionOnSet, FoldFunctionOnSet, MapThenFoldSet, Adding, AnyOf, Without

\* Of the subsets for which something fails, one has only subsets for which it holds.
LEMMA LeastSubset ==
  ASSUME NEW S, IsFiniteSet(S), NEW Bad \in SUBSET (SUBSET S), Bad # {}
  PROVE  \E T \in Bad : \A U \in SUBSET T : U # T => U \notin Bad
<1>1. IsWellFoundedOn(StrictSubsetOrdering(S), SUBSET S)
  BY FS_StrictSubsetOrderingWellFounded, FS_FiniteSubsetsOfFinite
<1>2. PICK T \in Bad : \A U \in Bad : <<U, T>> \notin StrictSubsetOrdering(S)
  BY <1>1, WFMin
<1>3. \A U \in SUBSET T : U # T => <<U, T>> \in StrictSubsetOrdering(S)
  BY DEF StrictSubsetOrdering
<1>4. ASSUME NEW U \in SUBSET T, U # T, U \in Bad PROVE FALSE
  BY <1>2, <1>3, <1>4
<1> QED
  BY <1>4

LEMMA WithoutIsLess ==
  ASSUME NEW s, s # {}
  PROVE  AnyOf(s) \in s /\ Without(s) \subseteq s /\ Without(s) # s
  BY DEF AnyOf, Without

\* Two ways to add up a set and a larger one agree on what they share.
LEMMA AddingIsUnique ==
  ASSUME NEW f, NEW A, IsFiniteSet(A), NEW B, A \subseteq B,
         NEW g, Adding(f, A, g), NEW h, Adding(f, B, h)
  PROVE  \A s \in SUBSET A : g[s] = h[s]
<1> DEFINE Bad == {s \in SUBSET A : g[s] # h[s]}
<1> SUFFICES ASSUME Bad # {} PROVE FALSE
  OBVIOUS
<1>1. PICK T \in Bad : \A U \in SUBSET T : U # T => U \notin Bad
  <2>1. Bad \in SUBSET (SUBSET A)
    OBVIOUS
  <2> HIDE DEF Bad
  <2> QED
    BY <2>1, LeastSubset
<1>2. T \in SUBSET A /\ T \in SUBSET B
  BY <1>1
<1>3. /\ g[T] = IF T = {} THEN 0 ELSE f[AnyOf(T)] + g[Without(T)]
      /\ h[T] = IF T = {} THEN 0 ELSE f[AnyOf(T)] + h[Without(T)]
  BY <1>2, Zenon DEF Adding
<1>4. CASE T = {}
  BY <1>1, <1>3, <1>4
<1>5. CASE T # {}
  <2>1. g[Without(T)] = h[Without(T)]
    BY <1>1, <1>2, <1>5, WithoutIsLess
  <2> QED
    BY <1>1, <1>3, <1>5, <2>1
<1> QED
  BY <1>4, <1>5

\* There is a way to add up any finite set.
LEMMA AddingExists ==
  ASSUME NEW f, NEW S, IsFiniteSet(S)
  PROVE  \E g : Adding(f, S, g)
<1> DEFINE Bad == {s \in SUBSET S : ~ \E g : Adding(f, s, g)}
<1> SUFFICES ASSUME Bad # {} PROVE FALSE
  OBVIOUS
<1>1. PICK T \in Bad : \A U \in SUBSET T : U # T => U \notin Bad
  <2>1. Bad \in SUBSET (SUBSET S)
    OBVIOUS
  <2> HIDE DEF Bad
  <2> QED
    BY <2>1, LeastSubset
<1>2. T \in SUBSET S /\ IsFiniteSet(T) /\ ~ \E g : Adding(f, T, g)
  BY <1>1, FS_Subset
<1>3. \A U \in SUBSET T : U # T => \E g : Adding(f, U, g)
  BY <1>1, <1>2
<1> DEFINE way(s) == CHOOSE g : Adding(f, s, g)
           total(s) == way(s)[s]
           G == [s \in SUBSET T |-> IF s = {} THEN 0 ELSE f[AnyOf(s)] + total(Without(s))]
<1>4. \A U \in SUBSET T : U # T => Adding(f, U, way(U))
  BY <1>3
<1>5. ASSUME NEW s \in SUBSET T, s # {} PROVE G[Without(s)] = total(Without(s))
  <2> DEFINE w == Without(s)
  <2>1. w \in SUBSET T /\ w # T
    BY <1>5, WithoutIsLess
  <2>2. Adding(f, w, way(w))
    BY <1>4, <2>1
  <2>3. CASE w = {}
    <3>1. way(w)[w] = 0
      BY <2>2, <2>3, Zenon DEF Adding
    <3> QED
      BY <2>1, <2>3, <3>1
  <2>4. CASE w # {}
    <3> DEFINE v == Without(w)
    <3>1. v \in SUBSET w /\ v # T /\ v \in SUBSET T
      BY <2>1, <2>4, WithoutIsLess
    <3>2. Adding(f, v, way(v))
      BY <1>4, <3>1, <2>1
    <3>3. IsFiniteSet(v)
      BY <1>2, <3>1, FS_Subset
    <3>4. way(v)[v] = way(w)[v]
      <4> HIDE DEF way, v, w
      <4> QED
        BY <2>2, <3>1, <3>2, <3>3, AddingIsUnique
    <3>5. way(w)[w] = f[AnyOf(w)] + way(w)[v]
      <4>1. w \in SUBSET w
        OBVIOUS
      <4>2. way(w)[w] = IF w = {} THEN 0 ELSE f[AnyOf(w)] + way(w)[Without(w)]
        BY <2>2, <4>1, Zenon DEF Adding
      <4> QED
        BY <2>4, <4>2
    <3>6. G[w] = f[AnyOf(w)] + total(v)
      BY <2>1, <2>4
    <3> HIDE DEF way, v, w, G
    <3> QED
      BY <3>4, <3>5, <3>6 DEF w
  <2> QED
    BY <2>3, <2>4
<1>6. Adding(f, T, G)
  <2>1. G = [s \in SUBSET T |-> IF s = {} THEN 0 ELSE f[AnyOf(s)] + G[Without(s)]]
    <3>1. \A s \in SUBSET T : (IF s = {} THEN 0 ELSE f[AnyOf(s)] + total(Without(s)))
                                = (IF s = {} THEN 0 ELSE f[AnyOf(s)] + G[Without(s)])
      <4> HIDE DEF total, G
      <4> QED
        BY <1>5
    <3> DEFINE H == [s \in SUBSET T |-> IF s = {} THEN 0 ELSE f[AnyOf(s)] + G[Without(s)]]
    <3>2. \A s \in SUBSET T : G[s] = H[s]
      <4> DEFINE sum(s) == IF s = {} THEN 0 ELSE f[AnyOf(s)] + total(Without(s))
                 adds(s) == IF s = {} THEN 0 ELSE f[AnyOf(s)] + G[Without(s)]
      <4>1. \A s \in SUBSET T : G[s] = sum(s)
        <5> HIDE DEF sum
        <5>1. G = [s \in SUBSET T |-> sum(s)]
          BY DEF sum
        <5> HIDE DEF G
        <5> QED
          BY <5>1
      <4>2. \A s \in SUBSET T : H[s] = adds(s)
        <5> HIDE DEF adds
        <5>1. H = [s \in SUBSET T |-> adds(s)]
          BY DEF adds
        <5> HIDE DEF H
        <5> QED
          BY <5>1
      <4>3. \A s \in SUBSET T : sum(s) = adds(s)
        BY <3>1, Zenon
      <4> HIDE DEF sum, adds, G, H
      <4> QED
        BY <4>1, <4>2, <4>3
    <3>3. G = [s \in SUBSET T |-> G[s]] /\ H = [s \in SUBSET T |-> H[s]]
      OBVIOUS
    <3> HIDE DEF G, H
    <3>4. G = H
      BY <3>2, <3>3
    <3> QED
      BY <3>4 DEF H
  <2> HIDE DEF G
  <2> QED
    BY <2>1 DEF Adding
<1> QED
  BY <1>2, <1>6

\* How the sum over a finite set is made up.
LEMMA SumSteps ==
  ASSUME NEW f, NEW S, IsFiniteSet(S)
  PROVE  SumFunctionOnSet(f, S)
           = IF S = {} THEN 0 ELSE f[AnyOf(S)] + SumFunctionOnSet(f, Without(S))
<1> DEFINE way(s) == CHOOSE g : Adding(f, s, g)
<1>1. Adding(f, S, way(S))
  BY AddingExists
<1>2. SumFunctionOnSet(f, S) = way(S)[S]
  BY SumUnfolded
<1>3. way(S)[S] = IF S = {} THEN 0 ELSE f[AnyOf(S)] + way(S)[Without(S)]
  <2>1. S \in SUBSET S
    OBVIOUS
  <2> HIDE DEF way
  <2> QED
    BY <1>1, <2>1, Zenon DEF Adding
<1>4. ASSUME S # {} PROVE way(S)[Without(S)] = SumFunctionOnSet(f, Without(S))
  <2> DEFINE w == Without(S)
  <2>1. w \in SUBSET S /\ w \in SUBSET w
    BY <1>4, WithoutIsLess
  <2>2. IsFiniteSet(w)
    BY <2>1, FS_Subset
  <2>3. Adding(f, w, way(w))
    BY <2>2, AddingExists
  <2>4. SumFunctionOnSet(f, w) = way(w)[w]
    BY SumUnfolded
  <2> HIDE DEF way, w
  <2>5. way(w)[w] = way(S)[w]
    BY <1>1, <2>1, <2>2, <2>3, AddingIsUnique
  <2> QED
    BY <2>4, <2>5 DEF w
<1> HIDE DEF way
<1> QED
  BY <1>2, <1>3, <1>4

\* A sum of natural numbers is one.
LEMMA SumIsNat ==
  ASSUME NEW D, NEW f \in [D -> Nat], NEW S \in SUBSET D, IsFiniteSet(S)
  PROVE  SumFunctionOnSet(f, S) \in Nat
<1> DEFINE Bad == {s \in SUBSET S : SumFunctionOnSet(f, s) \notin Nat}
<1> SUFFICES ASSUME Bad # {} PROVE FALSE
  OBVIOUS
<1>1. PICK T \in Bad : \A U \in SUBSET T : U # T => U \notin Bad
  <2>1. Bad \in SUBSET (SUBSET S)
    OBVIOUS
  <2> HIDE DEF Bad
  <2> QED
    BY <2>1, LeastSubset
<1>2. T \in SUBSET S /\ IsFiniteSet(T)
  BY <1>1, FS_Subset
<1>3. SumFunctionOnSet(f, T)
        = IF T = {} THEN 0 ELSE f[AnyOf(T)] + SumFunctionOnSet(f, Without(T))
  BY <1>2, SumSteps
<1>4. T # {}
  BY <1>1, <1>3
<1>5. f[AnyOf(T)] \in Nat /\ SumFunctionOnSet(f, Without(T)) \in Nat
  BY <1>1, <1>2, <1>4, WithoutIsLess
<1> QED
  BY <1>1, <1>3, <1>4, <1>5

\* Any element can be taken out first.
LEMMA SumTakesOut ==
  ASSUME NEW D, NEW f \in [D -> Nat], NEW S \in SUBSET D, IsFiniteSet(S), NEW x \in S
  PROVE  SumFunctionOnSet(f, S) = f[x] + SumFunctionOnSet(f, S \ {x})
<1> DEFINE sum(s) == SumFunctionOnSet(f, s)
           Bad == {s \in SUBSET S : ~ \A y \in s : sum(s) = f[y] + sum(s \ {y})}
<1>1. ASSUME Bad # {} PROVE FALSE
  <2>1. PICK T \in Bad : \A U \in SUBSET T : U # T => U \notin Bad
    <3>1. Bad \in SUBSET (SUBSET S)
      OBVIOUS
    <3> HIDE DEF Bad
    <3> QED
      BY <1>1, <3>1, LeastSubset
  <2>2. T \in SUBSET S /\ IsFiniteSet(T)
    BY <2>1, FS_Subset
  <2>3. PICK y \in T : sum(T) # f[y] + sum(T \ {y})
    BY <2>1
  <2> DEFINE a == AnyOf(T)
  <2>4. a \in T /\ sum(T) = f[a] + sum(T \ {a})
    <3>1. sum(T) = IF T = {} THEN 0 ELSE f[AnyOf(T)] + sum(Without(T))
      BY <2>2, SumSteps
    <3> HIDE DEF sum
    <3> QED
      BY <2>3, <3>1, WithoutIsLess DEF Without
  <2>5. \A U \in SUBSET T : U # T => \A z \in U : sum(U) = f[z] + sum(U \ {z})
    BY <2>1, <2>2
  <2> HIDE DEF sum, Bad, a
  <2>6. a # y
    BY <2>3, <2>4
  <2>7. sum(T \ {a}) = f[y] + sum((T \ {a}) \ {y})
    BY <2>3, <2>4, <2>5, <2>6
  <2>8. sum(T \ {y}) = f[a] + sum((T \ {y}) \ {a})
    BY <2>3, <2>4, <2>5, <2>6
  <2>9. (T \ {a}) \ {y} = (T \ {y}) \ {a}
    OBVIOUS
  <2> DEFINE rest == (T \ {a}) \ {y}
  <2>10. IsFiniteSet(rest) /\ rest \in SUBSET D
    BY <2>2, FS_Subset
  <2>11. sum(rest) \in Nat
    BY <2>10, SumIsNat DEF sum
  <2>12. f[a] \in Nat /\ f[y] \in Nat
    BY <2>2, <2>3, <2>4
  <2>13. sum(T \ {a}) = f[y] + sum(rest) /\ sum(T \ {y}) = f[a] + sum(rest)
    BY <2>7, <2>8, <2>9, Zenon
  <2> HIDE DEF rest
  <2>14. sum(T) = f[a] + (f[y] + sum(rest)) /\ sum(T) # f[y] + (f[a] + sum(rest))
    BY <2>3, <2>4, <2>13
  <2> QED
    BY <2>11, <2>12, <2>14
<1>2. S \notin Bad
  BY <1>1
<1> QED
  BY <1>2

\* What is not added does not matter.
LEMMA SumIsOfItsOwn ==
  ASSUME NEW f, NEW g, NEW S, IsFiniteSet(S), \A x \in S : f[x] = g[x]
  PROVE  SumFunctionOnSet(f, S) = SumFunctionOnSet(g, S)
<1> DEFINE Bad == {s \in SUBSET S : SumFunctionOnSet(f, s) # SumFunctionOnSet(g, s)}
<1> SUFFICES ASSUME Bad # {} PROVE FALSE
  OBVIOUS
<1>1. PICK T \in Bad : \A U \in SUBSET T : U # T => U \notin Bad
  <2>1. Bad \in SUBSET (SUBSET S)
    OBVIOUS
  <2> HIDE DEF Bad
  <2> QED
    BY <2>1, LeastSubset
<1>2. T \in SUBSET S /\ IsFiniteSet(T)
  BY <1>1, FS_Subset
<1>3. /\ SumFunctionOnSet(f, T)
           = IF T = {} THEN 0 ELSE f[AnyOf(T)] + SumFunctionOnSet(f, Without(T))
      /\ SumFunctionOnSet(g, T)
           = IF T = {} THEN 0 ELSE g[AnyOf(T)] + SumFunctionOnSet(g, Without(T))
  BY <1>2, SumSteps
<1>4. T # {}
  BY <1>1, <1>3
<1>5. f[AnyOf(T)] = g[AnyOf(T)]
  BY <1>2, <1>4, WithoutIsLess
<1>6. SumFunctionOnSet(f, Without(T)) = SumFunctionOnSet(g, Without(T))
  BY <1>1, <1>2, <1>4, WithoutIsLess
<1> QED
  BY <1>1, <1>3, <1>4, <1>5, <1>6

\* A sum changes by what one of its terms does.
LEMMA SumChanges ==
  ASSUME NEW S, IsFiniteSet(S), NEW f \in [S -> Nat], NEW g \in [S -> Nat],
         NEW x \in S, \A y \in S : y # x => f[y] = g[y]
  PROVE  SumFunction(f) + g[x] = SumFunction(g) + f[x]
<1> DEFINE sum(h) == SumFunctionOnSet(h, S \ {x})
<1>1. DOMAIN f = S /\ DOMAIN g = S
  OBVIOUS
<1>2. SumFunction(f) = f[x] + sum(f) /\ SumFunction(g) = g[x] + sum(g)
  BY <1>1, SumTakesOut DEF SumFunction
<1>3. IsFiniteSet(S \ {x}) /\ S \ {x} \in SUBSET S
  BY FS_Subset
<1>4. sum(f) = sum(g)
  BY <1>3, SumIsOfItsOwn
<1>5. sum(f) \in Nat /\ sum(g) \in Nat
  BY <1>3, SumIsNat
<1> HIDE DEF sum
<1> QED
  BY <1>2, <1>4, <1>5

\* No term is larger than the sum.
LEMMA TermIsInSum ==
  ASSUME NEW S, IsFiniteSet(S), NEW f \in [S -> Nat], NEW x \in S
  PROVE  SumFunction(f) \in Nat /\ f[x] <= SumFunction(f)
<1> DEFINE rest == SumFunctionOnSet(f, S \ {x})
<1>1. SumFunction(f) = f[x] + rest
  BY SumTakesOut DEF SumFunction
<1>2. rest \in Nat /\ SumFunction(f) \in Nat
  <2>1. IsFiniteSet(S \ {x}) /\ S \ {x} \in SUBSET S
    BY FS_Subset
  <2> QED
    BY <2>1, SumIsNat DEF SumFunction
<1> HIDE DEF rest
<1> QED
  BY <1>1, <1>2

\* A sum of nothing but zeros.
LEMMA SumOfZeros ==
  ASSUME NEW S, IsFiniteSet(S), NEW f \in [S -> {0}]
  PROVE  SumFunction(f) = 0
<1> DEFINE Bad == {s \in SUBSET S : SumFunctionOnSet(f, s) # 0}
<1>1. ASSUME Bad # {} PROVE FALSE
  <2>1. PICK T \in Bad : \A U \in SUBSET T : U # T => U \notin Bad
    <3>1. Bad \in SUBSET (SUBSET S)
      OBVIOUS
    <3> HIDE DEF Bad
    <3> QED
      BY <1>1, <3>1, LeastSubset
  <2>2. T \in SUBSET S /\ IsFiniteSet(T)
    BY <2>1, FS_Subset
  <2>3. SumFunctionOnSet(f, T)
          = IF T = {} THEN 0 ELSE f[AnyOf(T)] + SumFunctionOnSet(f, Without(T))
    BY <2>2, SumSteps
  <2>4. T # {} => f[AnyOf(T)] = 0 /\ SumFunctionOnSet(f, Without(T)) = 0
    BY <2>1, <2>2, WithoutIsLess
  <2> QED
    BY <2>1, <2>3, <2>4
<1>2. DOMAIN f = S /\ S \notin Bad
  BY <1>1
<1> QED
  BY <1>2 DEF SumFunction

-----------------------------------------------------------------------------
(* Days *)

LEMMA Constants ==
  /\ IsFiniteSet(Threads)
  /\ FlushAfter \in Nat /\ DayLength \in Nat /\ DayLength > 0 /\ KeepDays \in Nat
  /\ MaxTime \in Nat /\ MaxTime > 0 /\ MaxOpens \in Nat /\ MaxStarts \in Nat
  BY VisitsAssumption

\* The day of a time is a day, and does not come before that of an earlier one.
LEMMA DayGrows ==
  ASSUME NEW a \in Nat, NEW b \in Nat, a <= b
  PROVE  Day(a) \in Nat /\ Day(a) <= Day(b)
<1>1. DayLength \in Nat /\ DayLength > 0
  BY Constants
<1>2. \A n, k \in Nat : k > 0 => n \div k \in Nat /\ k * (n \div k) <= n /\ n < k * (n \div k) + k
  BY SMT
<1> DEFINE k == DayLength
           p == a \div k
           q == b \div k
<1>3. p \in Nat /\ q \in Nat /\ k * p <= a /\ b < k * q + k /\ k \in Nat /\ k > 0
  BY <1>1, <1>2
<1> HIDE DEF p, q, k
<1>4. k * p < k * (q + 1)
  BY <1>3
<1>5. p < q + 1
  BY <1>3, <1>4
<1> QED
  BY <1>3, <1>5 DEF p, q, k, Day

LEMMA DaysAre ==
  /\ Days \subseteq Nat /\ IsFiniteSet(Days)
  /\ \A t \in 0 .. MaxTime : Day(t) \in Days
<1>1. Day(MaxTime) \in Nat
  BY Constants, DayGrows
<1>2. \A t \in 0 .. MaxTime : Day(t) \in Days
  BY <1>1, Constants, DayGrows DEF Days
<1> QED
  BY <1>1, <1>2, FS_Interval DEF Days

-----------------------------------------------------------------------------
(* Every open is in one place *)

\* The types, with counts that are natural numbers.
Numbers == [Days -> Nat]
Places  == {"idle", "arrived", "recorded", "due", "writing", "tallied"}
ThreadStates == [at : Places, now : 0 .. MaxTime, batch : Numbers, when : 0 .. MaxTime]

Shapes ==
    /\ time \in 1 .. MaxTime
    /\ front \in {"none", "deaf", "counting"}
    /\ starts \in 0 .. MaxStarts
    /\ counter \in [pending : Numbers, lastFlush : 0 .. MaxTime, lastOpen : 0 .. MaxTime]
    /\ thread \in [Threads -> ThreadStates]
    /\ tally \in Numbers /\ opened \in Numbers /\ unheard \in Numbers /\ lost \in Numbers
    /\ lastOpenAt \in 0 .. MaxTime
    /\ lastPrune \in {-DayLength} \cup 0 .. MaxTime

\* What a thread has in hand at each place: the open it will record, or nothing, or
\* what it took, of which something is left.
Handful(s) ==
    /\ s.at = "arrived" => s.batch = One(Day(s.now))
    /\ s.at \in {"idle", "recorded", "due"} => s.batch = NoOpens
    /\ s.at = "writing" => s.batch # NoOpens
InHand == \A t \in Threads : Handful(thread[t])

\* Nothing is in two places, and what the Stats tab shows is all there.
Have(d)  == unheard[d] + lost[d] + tally[d] + counter.pending[d] + InFlight(d)
Balanced == \A d \in Days : /\ Have(d) <= opened[d]
                            /\ d > Day(time) - KeepDays => Have(d) = opened[d]

Bounded == SumFunction(opened) <= MaxOpens

Accounts == Shapes /\ InHand /\ Balanced /\ Bounded

Flight(th, d) == SumFunction([t \in Threads |-> th[t].batch[d]])

LEMMA FlightMoves ==
  ASSUME NEW th \in [Threads -> ThreadStates], NEW th2 \in [Threads -> ThreadStates],
         NEW x \in Threads, \A y \in Threads : y # x => th2[y] = th[y], NEW d \in Days
  PROVE  /\ Flight(th, d) \in Nat /\ Flight(th2, d) \in Nat
         /\ Flight(th, d) + th2[x].batch[d] = Flight(th2, d) + th[x].batch[d]
<1> DEFINE f == [t \in Threads |-> th[t].batch[d]]
           g == [t \in Threads |-> th2[t].batch[d]]
<1>1. \A s \in ThreadStates : s.batch[d] \in Nat
  BY DEF ThreadStates, Numbers
<1>2. f \in [Threads -> Nat] /\ g \in [Threads -> Nat]
  BY <1>1
<1>3. f[x] = th[x].batch[d] /\ g[x] = th2[x].batch[d] /\ \A y \in Threads : y # x => f[y] = g[y]
  OBVIOUS
<1>4. Flight(th, d) = SumFunction(f) /\ Flight(th2, d) = SumFunction(g)
  BY DEF Flight
<1> HIDE DEF f, g
<1>5. IsFiniteSet(Threads)
  BY Constants
<1>6. SumFunction(f) \in Nat /\ SumFunction(g) \in Nat
  BY <1>2, <1>5, TermIsInSum
<1>7. SumFunction(f) + g[x] = SumFunction(g) + f[x]
  BY <1>2, <1>3, <1>5, SumChanges
<1> QED
  BY <1>3, <1>4, <1>6, <1>7

LEMMA BatchIsInFlight ==
  ASSUME NEW th \in [Threads -> ThreadStates], NEW x \in Threads, NEW d \in Days
  PROVE  Flight(th, d) \in Nat /\ th[x].batch[d] <= Flight(th, d)
<1> DEFINE f == [t \in Threads |-> th[t].batch[d]]
<1>1. \A s \in ThreadStates : s.batch[d] \in Nat
  BY DEF ThreadStates, Numbers
<1>2. f \in [Threads -> Nat] /\ f[x] = th[x].batch[d]
  BY <1>1
<1>3. Flight(th, d) = SumFunction(f)
  BY DEF Flight
<1> HIDE DEF f
<1> QED
  BY <1>2, <1>3, Constants, TermIsInSum

LEMMA NothingInFlight ==
  ASSUME NEW th, \A t \in Threads : th[t].batch = NoOpens, NEW d \in Days
  PROVE  Flight(th, d) = 0
<1> DEFINE f == [t \in Threads |-> th[t].batch[d]]
<1>1. f \in [Threads -> {0}]
  BY DEF NoOpens
<1>2. Flight(th, d) = SumFunction(f)
  BY DEF Flight
<1> HIDE DEF f
<1> QED
  BY <1>1, <1>2, Constants, SumOfZeros

LEMMA HaveIs ==
  ASSUME NEW d
  PROVE  Have(d) = unheard[d] + lost[d] + tally[d] + counter.pending[d] + Flight(thread, d)
  BY DEF Have, InFlight, Flight

\* The counts of one day.
LEMMA CountsOf ==
  ASSUME Shapes, NEW d \in Days
  PROVE  /\ unheard[d] \in Nat /\ lost[d] \in Nat /\ tally[d] \in Nat /\ opened[d] \in Nat
         /\ counter.pending[d] \in Nat /\ Flight(thread, d) \in Nat
<1>1. Flight(thread, d) \in Nat
  <2>1. PICK t \in Threads : TRUE
    BY VisitsAssumption
  <2> QED
    BY <2>1, BatchIsInFlight DEF Shapes
<1> QED
  BY <1>1 DEF Shapes, Numbers

\* A step of one thread that carries opens from one place to another, or brings one.
Elsewhere(d) == unheard[d] + lost[d] + tally[d] + counter.pending[d]

LEMMA OneThreadMoves ==
  ASSUME Accounts, Shapes', Bounded', time' = time,
         NEW t \in Threads, NEW s \in ThreadStates, thread' = [thread EXCEPT ![t] = s], Handful(s),
         \A d \in Days : Elsewhere(d)' + s.batch[d] + opened[d]
                           = Elsewhere(d) + thread[t].batch[d] + opened'[d]
  PROVE  Accounts'
<1>1. InHand'
  <2>1. \A u \in Threads : thread'[u] = IF u = t THEN s ELSE thread[u]
    BY DEF Accounts, Shapes
  <2>2. \A u \in Threads : Handful(thread'[u])
    BY <2>1 DEF Accounts, InHand
  <2>3. \A u \in Threads : Handful(thread'[u]) <=> Handful(thread[u])'
    BY DEF Handful
  <2> QED
    BY <2>2, <2>3 DEF InHand
<1>2. Balanced'
  <2> SUFFICES ASSUME NEW d \in Days
               PROVE  /\ Have(d)' <= opened'[d]
                      /\ d > Day(time) - KeepDays => Have(d)' = opened'[d]
    BY DEF Balanced, Day
  <2>1. /\ Have(d) <= opened[d]
        /\ d > Day(time) - KeepDays => Have(d) = opened[d]
    BY DEF Accounts, Balanced
  <2>2. /\ Have(d) = unheard[d] + lost[d] + tally[d] + counter.pending[d] + Flight(thread, d)
        /\ Have(d)' = unheard'[d] + lost'[d] + tally'[d] + counter'.pending[d] + Flight(thread', d)
    BY DEF Have, InFlight, Flight
  <2>3. Flight(thread, d) + thread'[t].batch[d] = Flight(thread', d) + thread[t].batch[d]
        /\ thread'[t] = s
    <3>1. thread \in [Threads -> ThreadStates] /\ thread' \in [Threads -> ThreadStates]
      BY DEF Accounts, Shapes
    <3>2. thread'[t] = s /\ \A y \in Threads : y # t => thread'[y] = thread[y]
      BY <3>1
    <3>3. Flight(thread, d) + thread'[t].batch[d] = Flight(thread', d) + thread[t].batch[d]
      <4> DEFINE th == thread
                 th2 == thread'
      <4>1. /\ th \in [Threads -> ThreadStates] /\ th2 \in [Threads -> ThreadStates]
            /\ \A y \in Threads : y # t => th2[y] = th[y]
        BY <3>1, <3>2
      <4> HIDE DEF th, th2
      <4>2. Flight(th, d) + th2[t].batch[d] = Flight(th2, d) + th[t].batch[d]
        BY <4>1, FlightMoves
      <4> QED
        BY <4>2 DEF th, th2
    <3> QED
      BY <3>2, <3>3
  <2>4. /\ unheard[d] \in Nat /\ lost[d] \in Nat /\ tally[d] \in Nat /\ opened[d] \in Nat
        /\ counter.pending[d] \in Nat /\ Flight(thread, d) \in Nat
    BY CountsOf DEF Accounts
  <2>5. /\ unheard'[d] \in Nat /\ lost'[d] \in Nat /\ tally'[d] \in Nat /\ opened'[d] \in Nat
        /\ counter'.pending[d] \in Nat
    BY DEF Shapes, Numbers
  <2>6. Flight(thread', d) \in Nat
    BY BatchIsInFlight DEF Shapes
  <2>7. s.batch[d] \in Nat /\ thread[t].batch[d] \in Nat
    BY DEF Accounts, Shapes, ThreadStates, Numbers
  <2>8. (unheard'[d] + lost'[d] + tally'[d] + counter'.pending[d]) + s.batch[d] + opened[d]
          = (unheard[d] + lost[d] + tally[d] + counter.pending[d]) + thread[t].batch[d] + opened'[d]
    BY DEF Elsewhere
  <2>9. Have(d)' + opened[d] = Have(d) + opened'[d]
    <3> DEFINE e == unheard'[d] + lost'[d] + tally'[d] + counter'.pending[d]
               f == unheard[d] + lost[d] + tally[d] + counter.pending[d]
    <3>2. /\ e \in Nat /\ f \in Nat
          /\ Have(d) = f + Flight(thread, d) /\ Have(d)' = e + Flight(thread', d)
          /\ e + s.batch[d] + opened[d] = f + thread[t].batch[d] + opened'[d]
      BY <2>2, <2>4, <2>5, <2>8
    <3>3. Flight(thread, d) + s.batch[d] = Flight(thread', d) + thread[t].batch[d]
      BY <2>3
    <3> DEFINE i == Flight(thread, d)
               j == Flight(thread', d)
               m == s.batch[d]
               n == thread[t].batch[d]
               o == opened[d]
               p == opened'[d]
    <3>4. /\ e \in Nat /\ f \in Nat /\ i \in Nat /\ j \in Nat
          /\ m \in Nat /\ n \in Nat /\ o \in Nat /\ p \in Nat
          /\ e + m + o = f + n + p /\ i + m = j + n
      BY <2>4, <2>5, <2>6, <2>7, <3>2, <3>3
    <3>5. Have(d) = f + i /\ Have(d)' = e + j
      BY <3>2
    <3> HIDE DEF e, f, i, j, m, n, o, p
    <3>6. (e + j) + o = (f + i) + p
      BY <3>4
    <3> QED
      BY <3>5, <3>6 DEF o, p
  <2>10. Have(d) \in Nat /\ Have(d)' \in Nat
    BY <2>2, <2>4, <2>5, <2>6
  <2> QED
    BY <2>1, <2>4, <2>5, <2>9, <2>10
<1> QED
  BY <1>1, <1>2 DEF Accounts

\* How the records of the threads are written to.
State(at, now, batch, when) == [at |-> at, now |-> now, batch |-> batch, when |-> when]

LEMMA StateWritten ==
  ASSUME NEW x, NEW n, NEW y, NEW w, NEW a, NEW b
  PROVE  /\ [State(x, n, y, w) EXCEPT !.at = a] = State(a, n, y, w)
         /\ [State(x, n, y, w) EXCEPT !.batch = b] = State(x, n, b, w)
  BY DEF State

LEMMA ThreadIsState ==
  ASSUME NEW r \in ThreadStates
  PROVE  r = State(r.at, r.now, r.batch, r.when)
  BY DEF ThreadStates, State

LEMMA NewPlace ==
  ASSUME NEW th \in [Threads -> ThreadStates], NEW t \in Threads, NEW a
  PROVE  [th EXCEPT ![t].at = a]
           = [th EXCEPT ![t] = State(a, th[t].now, th[t].batch, th[t].when)]
<1>1. [th EXCEPT ![t].at = a] = [th EXCEPT ![t] = [th[t] EXCEPT !.at = a]]
  BY Zenon
<1>2. [th[t] EXCEPT !.at = a] = State(a, th[t].now, th[t].batch, th[t].when)
  <2> DEFINE x == th[t].at
             n == th[t].now
             y == th[t].batch
             w == th[t].when
  <2>1. th[t] = State(x, n, y, w)
    BY ThreadIsState
  <2>2. [State(x, n, y, w) EXCEPT !.at = a] = State(a, n, y, w)
    BY StateWritten
  <2> QED
    BY <2>1, <2>2, Zenon
<1> QED
  BY <1>1, <1>2, Zenon

LEMMA NewBatch ==
  ASSUME NEW th \in [Threads -> ThreadStates], NEW t \in Threads, NEW a, NEW b
  PROVE  [th EXCEPT ![t].at = a, ![t].batch = b]
           = [th EXCEPT ![t] = State(a, th[t].now, b, th[t].when)]
<1>1. [th EXCEPT ![t].at = a, ![t].batch = b]
        = [th EXCEPT ![t] = [[th[t] EXCEPT !.at = a] EXCEPT !.batch = b]]
  BY DEF ThreadStates
<1>2. [[th[t] EXCEPT !.at = a] EXCEPT !.batch = b] = State(a, th[t].now, b, th[t].when)
  <2> DEFINE x == th[t].at
             n == th[t].now
             y == th[t].batch
             w == th[t].when
  <2>1. th[t] = State(x, n, y, w)
    BY ThreadIsState
  <2>2. /\ [State(x, n, y, w) EXCEPT !.at = a] = State(a, n, y, w)
        /\ [State(a, n, y, w) EXCEPT !.batch = b] = State(a, n, b, w)
    BY StateWritten
  <2> QED
    BY <2>1, <2>2, Zenon
<1> QED
  BY <1>1, <1>2, Zenon

LEMMA LessBatch ==
  ASSUME NEW th \in [Threads -> ThreadStates], NEW t \in Threads, NEW a, NEW d
  PROVE  [th EXCEPT ![t].at = a, ![t].batch[d] = 0]
           = [th EXCEPT ![t] = State(a, th[t].now, [th[t].batch EXCEPT ![d] = 0], th[t].when)]
<1>1. [th EXCEPT ![t].at = a, ![t].batch[d] = 0]
        = [th EXCEPT ![t].at = a, ![t].batch = [th[t].batch EXCEPT ![d] = 0]]
  BY DEF ThreadStates
<1>2. \A b : [th EXCEPT ![t].at = a, ![t].batch = b]
                = [th EXCEPT ![t] = State(a, th[t].now, b, th[t].when)]
  BY NewBatch
<1> QED
  BY <1>1, <1>2, Zenon

LEMMA InitiallyAccounts == Init => Accounts
<1> SUFFICES ASSUME Init PROVE Accounts
  OBVIOUS
<1>1. /\ thread = [t \in Threads |-> Idle] /\ Idle \in ThreadStates /\ Handful(Idle)
      /\ Idle.batch = NoOpens
  BY Constants DEF Init, Idle, ThreadStates, Places, Numbers, NoOpens, Handful
<1>2. Shapes
  BY <1>1, Constants DEF Init, Shapes, Numbers, NoOpens, NewCounter
<1>3. InHand
  BY <1>1 DEF InHand
<1>4. ASSUME NEW d \in Days PROVE Have(d) = 0 /\ opened[d] = 0
  <2>1. Flight(thread, d) = 0
    BY <1>1, NothingInFlight
  <2>2. counter.pending = NoOpens
    BY DEF Init, NewCounter
  <2> QED
    BY <2>1, <2>2, HaveIs DEF Init, NoOpens
<1>5. Bounded
  <2>1. opened \in [Days -> {0}]
    BY DEF Init, NoOpens
  <2>2. SumFunction(opened) = 0
    BY <2>1, DaysAre, SumOfZeros
  <2> QED
    BY <2>2, Constants DEF Bounded
<1> QED
  BY <1>2, <1>3, <1>4, <1>5 DEF Accounts, Balanced

\* An open more is within the bound.
LEMMA OpensAreBounded ==
  ASSUME Accounts, AnOpen
  PROVE  /\ opened' \in Numbers /\ Bounded' /\ Day(time) \in Days
         /\ \A d \in Days : opened'[d] = opened[d] + One(Day(time))[d]
<1> DEFINE day == Day(time)
<1>1. day \in Days /\ IsFiniteSet(Days) /\ opened \in [Days -> Nat]
  BY DaysAre DEF Accounts, Shapes, Numbers
<1>2. opened' = [opened EXCEPT ![day] = opened[day] + 1] /\ SumFunction(opened) < MaxOpens
  BY DEF AnOpen
<1>3. opened' \in [Days -> Nat] /\ opened'[day] = opened[day] + 1
      /\ \A d \in Days : d # day => opened'[d] = opened[d]
  BY <1>1, <1>2
<1> HIDE DEF day
<1>4. SumFunction(opened) + opened'[day] = SumFunction(opened') + opened[day]
  <2> DEFINE was == opened
             is  == opened'
  <2>1. was \in [Days -> Nat] /\ is \in [Days -> Nat] /\ \A d \in Days : d # day => was[d] = is[d]
    BY <1>1, <1>3
  <2> HIDE DEF was, is
  <2>2. SumFunction(was) + is[day] = SumFunction(is) + was[day]
    BY <1>1, <2>1, SumChanges
  <2> QED
    BY <2>2 DEF was, is
<1>5. SumFunction(opened) \in Nat /\ SumFunction(opened') \in Nat
  BY <1>1, <1>3, TermIsInSum
<1>6. opened[day] \in Nat
  BY <1>1
<1>7. SumFunction(opened') <= MaxOpens
  BY <1>2, <1>3, <1>4, <1>5, <1>6, Constants
<1> QED
  BY <1>1, <1>3, <1>7 DEF Bounded, Numbers, One, day

LEMMA OneIsNumbers == ASSUME NEW d PROVE One(d) \in Numbers /\ NoOpens \in Numbers
  BY DEF One, NoOpens, Numbers

LEMMA ArriveAccounts == ASSUME Accounts, NEW t \in Threads, Arrive(t) PROVE Accounts'
<1> DEFINE s == [at |-> "arrived", now |-> time, batch |-> One(Day(time)), when |-> 0]
<1>1. thread' = [thread EXCEPT ![t] = s] /\ AnOpen /\ thread[t].at = "idle"
      /\ UNCHANGED <<time, front, starts, counter, tally, lastOpenAt, lastPrune, unheard, lost>>
  BY DEF Arrive
<1>2. s \in ThreadStates /\ Handful(s)
  BY OneIsNumbers, Constants DEF ThreadStates, Places, Handful, Accounts, Shapes
<1>3. thread[t].batch = NoOpens
  BY <1>1 DEF Accounts, InHand, Handful
<1>4. s.batch = One(Day(time))
  OBVIOUS
<1> HIDE DEF s
<1>5. Shapes' /\ Bounded'
  BY <1>1, <1>2, OpensAreBounded DEF Accounts, Shapes
<1>6. ASSUME NEW d \in Days
      PROVE  Elsewhere(d)' + s.batch[d] + opened[d] = Elsewhere(d) + thread[t].batch[d] + opened'[d]
  <2>1. Elsewhere(d)' = Elsewhere(d) /\ Elsewhere(d) \in Nat /\ opened[d] \in Nat
    BY <1>1, CountsOf DEF Elsewhere, Accounts
  <2>2. opened'[d] = opened[d] + One(Day(time))[d] /\ One(Day(time))[d] \in Nat
    BY <1>1, OpensAreBounded, OneIsNumbers DEF Numbers
  <2>3. NoOpens[d] = 0
    BY DEF NoOpens
  <2> QED
    BY <1>3, <1>4, <2>1, <2>2, <2>3
<1> QED
  BY <1>1, <1>2, <1>5, <1>6, OneThreadMoves

LEMMA RecordAccounts == ASSUME Accounts, NEW t \in Threads, Record(t) PROVE Accounts'
<1> DEFINE day == Day(thread[t].now)
           s == State("recorded", thread[t].now, NoOpens, thread[t].when)
<1>0. thread[t] \in ThreadStates /\ thread \in [Threads -> ThreadStates] /\ Handful(thread[t])
      /\ thread[t].at = "arrived" /\ day \in Days
      /\ UNCHANGED <<time, front, starts, tally, lastOpenAt, lastPrune, opened, unheard, lost>>
  BY DaysAre DEF Accounts, InHand, Shapes, Record, ThreadStates, ghosts
<1>1. thread' = [thread EXCEPT ![t] = s]
  <2>1. thread' = [thread EXCEPT ![t].at = "recorded", ![t].batch = NoOpens]
    BY DEF Record
  <2>2. \A a, b : [thread EXCEPT ![t].at = a, ![t].batch = b]
                     = [thread EXCEPT ![t] = State(a, thread[t].now, b, thread[t].when)]
    BY <1>0, NewBatch
  <2> QED
    BY <2>1, <2>2, Zenon
<1>2. s \in ThreadStates /\ Handful(s) /\ s.batch = NoOpens
  BY <1>0, OneIsNumbers DEF ThreadStates, Places, Handful, State
<1>3. /\ counter' \in [pending : Numbers, lastFlush : 0 .. MaxTime, lastOpen : 0 .. MaxTime]
      /\ \A d \in Days : counter'.pending[d] = counter.pending[d] + One(day)[d]
  <2> DEFINE p == [counter.pending EXCEPT ![day] = counter.pending[day] + 1]
  <2>1. counter.pending \in [Days -> Nat] /\ day \in Days /\ thread[t].now \in 0 .. MaxTime
    BY <1>0 DEF Accounts, Shapes, Numbers, ThreadStates
  <2>2. p \in Numbers /\ \A d \in Days : p[d] = counter.pending[d] + One(day)[d]
    BY <2>1 DEF Numbers, One
  <2>3. counter' = [pending |-> p, lastFlush |-> counter.lastFlush, lastOpen |-> thread[t].now]
    BY DEF Record, Accounts, Shapes
  <2> HIDE DEF p
  <2> QED
    BY <2>1, <2>2, <2>3 DEF Accounts, Shapes
<1>4. thread[t].batch = One(day)
  BY <1>0 DEF Handful
<1> HIDE DEF s
<1>5. Shapes' /\ Bounded'
  BY <1>0, <1>1, <1>2, <1>3 DEF Accounts, Shapes, Bounded
<1>6. ASSUME NEW d \in Days
      PROVE  Elsewhere(d)' + s.batch[d] + opened[d] = Elsewhere(d) + thread[t].batch[d] + opened'[d]
  <2>1. /\ unheard[d] \in Nat /\ lost[d] \in Nat /\ tally[d] \in Nat /\ opened[d] \in Nat
        /\ counter.pending[d] \in Nat
    BY CountsOf DEF Accounts
  <2>2. counter'.pending[d] = counter.pending[d] + One(day)[d] /\ One(day)[d] \in Nat
        /\ NoOpens[d] = 0
    BY <1>3, OneIsNumbers DEF Numbers, NoOpens
  <2> HIDE DEF day
  <2> QED
    BY <1>0, <1>2, <1>4, <2>1, <2>2 DEF Elsewhere
<1> QED
  BY <1>0, <1>1, <1>2, <1>5, <1>6, OneThreadMoves

\* A thread on its way that takes nothing along and leaves nothing behind.
LEMMA OnlyThePlaceChanges ==
  ASSUME Accounts, NEW t \in Threads, NEW s \in ThreadStates, Handful(s),
         s.batch = thread[t].batch, thread' = [thread EXCEPT ![t] = s], lastOpenAt' \in 0 .. MaxTime,
         UNCHANGED <<time, front, starts, counter, tally, lastPrune, ghosts>>
  PROVE  Accounts'
<1>1. Shapes' /\ Bounded'
  BY DEF Accounts, Shapes, Bounded, ghosts
<1>2. ASSUME NEW d \in Days
      PROVE  Elsewhere(d)' + s.batch[d] + opened[d] = Elsewhere(d) + thread[t].batch[d] + opened'[d]
  BY DEF Elsewhere, ghosts
<1> QED
  BY <1>1, <1>2, OneThreadMoves

LEMMA DecideAccounts == ASSUME Accounts, NEW t \in Threads, Decide(t) PROVE Accounts'
<1>1. thread \in [Threads -> ThreadStates] /\ thread[t] \in ThreadStates
      /\ thread[t].at = "recorded" /\ thread[t].batch = NoOpens
      /\ lastOpenAt' \in 0 .. MaxTime
      /\ UNCHANGED <<time, front, starts, counter, tally, lastOpenAt, lastPrune, ghosts>>
  BY DEF Accounts, Shapes, InHand, Handful, Decide
<1> DEFINE s == State("due", thread[t].now, thread[t].batch, thread[t].when)
<1>2. CASE thread' = [thread EXCEPT ![t].at = "due"]
  <2>1. thread' = [thread EXCEPT ![t] = s]
    <3>1. \A a : [thread EXCEPT ![t].at = a]
                    = [thread EXCEPT ![t] = State(a, thread[t].now, thread[t].batch, thread[t].when)]
      BY <1>1, NewPlace
    <3> QED
      BY <1>2, <3>1, Zenon
  <2>2. s \in ThreadStates /\ Handful(s) /\ s.batch = thread[t].batch
    BY <1>1 DEF State, ThreadStates, Places, Handful
  <2> HIDE DEF s
  <2> QED
    BY <1>1, <2>1, <2>2, OnlyThePlaceChanges
<1>3. CASE thread' = [thread EXCEPT ![t] = Idle]
  <2>1. Idle \in ThreadStates /\ Handful(Idle) /\ Idle.batch = NoOpens
    BY OneIsNumbers, Constants DEF Idle, ThreadStates, Places, Handful
  <2> QED
    BY <1>1, <1>3, <2>1, OnlyThePlaceChanges
<1> QED
  BY <1>2, <1>3 DEF Decide

LEMMA TakeAccounts == ASSUME Accounts, NEW t \in Threads, Take(t) PROVE Accounts'
<1> DEFINE s == [at |-> Writing(counter.pending), now |-> 0, batch |-> counter.pending,
                 when |-> counter.lastOpen]
<1>1. thread' = [thread EXCEPT ![t] = s] /\ thread[t].batch = NoOpens
      /\ counter' = [counter EXCEPT !.pending = NoOpens, !.lastFlush = time]
      /\ UNCHANGED <<time, front, starts, tally, lastOpenAt, lastPrune, opened, unheard, lost>>
  BY DEF Take, ghosts, Accounts, InHand, Handful
<1>2. /\ counter.pending \in Numbers /\ counter.lastOpen \in 0 .. MaxTime /\ time \in 0 .. MaxTime
      /\ counter = [pending |-> counter.pending, lastFlush |-> counter.lastFlush,
                    lastOpen |-> counter.lastOpen]
  BY DEF Accounts, Shapes
<1>3. s \in ThreadStates /\ Handful(s) /\ s.batch = counter.pending
  BY <1>2, Constants DEF ThreadStates, Places, Handful, Writing
<1>4. /\ counter' \in [pending : Numbers, lastFlush : 0 .. MaxTime, lastOpen : 0 .. MaxTime]
      /\ counter'.pending = NoOpens
  BY <1>1, <1>2, OneIsNumbers DEF Accounts, Shapes
<1> HIDE DEF s
<1>5. Shapes' /\ Bounded'
  BY <1>1, <1>3, <1>4 DEF Accounts, Shapes, Bounded
<1>6. ASSUME NEW d \in Days
      PROVE  Elsewhere(d)' + s.batch[d] + opened[d] = Elsewhere(d) + thread[t].batch[d] + opened'[d]
  <2>1. /\ unheard[d] \in Nat /\ lost[d] \in Nat /\ tally[d] \in Nat /\ opened[d] \in Nat
        /\ counter.pending[d] \in Nat
    BY CountsOf DEF Accounts
  <2>2. NoOpens[d] = 0
    BY DEF NoOpens
  <2> QED
    BY <1>1, <1>3, <1>4, <2>1, <2>2 DEF Elsewhere
<1> QED
  BY <1>1, <1>3, <1>5, <1>6, OneThreadMoves

\* The day that is written next is one of the days.
LEMMA NextDayIsDay ==
  ASSUME Accounts, NEW t \in Threads, thread[t].at = "writing"
  PROVE  NextDay(t) \in Days
<1> DEFINE left == {d \in Days : thread[t].batch[d] > 0}
<1>1. thread[t].batch \in Numbers /\ thread[t].batch # NoOpens
  BY DEF Accounts, Shapes, InHand, Handful, ThreadStates
<1>2. left # {}
  BY <1>1 DEF Numbers, NoOpens
<1>3. left \in SUBSET Nat
  BY DaysAre
<1> HIDE DEF left
<1>4. \E n \in left : \A m \in left : n <= m
  <2>1. \E n \in left : \A m \in left : <<m, n>> \notin OpToRel(<, Nat)
    BY <1>2, <1>3, NatLessThanWellFounded, WFMin
  <2>2. \A m, n \in left : <<m, n>> \notin OpToRel(<, Nat) => n <= m
    BY <1>3 DEF OpToRel
  <2> QED
    BY <2>1, <2>2
<1>5. Min(left) \in left
  BY <1>4 DEF Min
<1> QED
  BY <1>5 DEF NextDay, left

LEMMA WriteTallyAccounts == ASSUME Accounts, NEW t \in Threads, WriteTally(t) PROVE Accounts'
<1> DEFINE day  == NextDay(t)
           rest == [thread[t].batch EXCEPT ![day] = 0]
           s    == State("tallied", thread[t].now, rest, thread[t].when)
<1>1. thread \in [Threads -> ThreadStates] /\ thread[t] \in ThreadStates /\ day \in Days
      /\ UNCHANGED <<time, front, starts, counter, lastOpenAt, lastPrune, opened, unheard, lost>>
  BY NextDayIsDay DEF WriteTally, Accounts, Shapes
<1>2. thread' = [thread EXCEPT ![t] = s]
  <2>1. thread' = [thread EXCEPT ![t].at = "tallied", ![t].batch[day] = 0]
    BY DEF WriteTally
  <2>2. \A a, d : [thread EXCEPT ![t].at = a, ![t].batch[d] = 0]
          = [thread EXCEPT ![t] = State(a, thread[t].now, [thread[t].batch EXCEPT ![d] = 0], thread[t].when)]
    BY <1>1, LessBatch
  <2> QED
    BY <2>1, <2>2, Zenon
<1>3. /\ thread[t].batch \in [Days -> Nat] /\ tally \in [Days -> Nat]
      /\ thread[t].now \in 0 .. MaxTime /\ thread[t].when \in 0 .. MaxTime
  BY <1>1 DEF ThreadStates, Numbers, Accounts, Shapes
<1>4. tally' = [tally EXCEPT ![day] = tally[day] + thread[t].batch[day]]
  BY DEF WriteTally
<1> HIDE DEF day
<1>5. rest \in [Days -> Nat] /\ tally' \in [Days -> Nat]
      /\ \A d \in Days : tally'[d] + rest[d] = tally[d] + thread[t].batch[d]
  BY <1>1, <1>3, <1>4
<1> HIDE DEF rest
<1>6. s \in ThreadStates /\ Handful(s) /\ s.batch = rest
  BY <1>3, <1>5 DEF State, ThreadStates, Numbers, Places, Handful
<1> HIDE DEF s
<1>7. Shapes' /\ Bounded'
  BY <1>1, <1>2, <1>5, <1>6 DEF Accounts, Shapes, Bounded, Numbers
<1>8. ASSUME NEW d \in Days
      PROVE  Elsewhere(d)' + s.batch[d] + opened[d] = Elsewhere(d) + thread[t].batch[d] + opened'[d]
  <2>1. /\ unheard[d] \in Nat /\ lost[d] \in Nat /\ tally[d] \in Nat /\ opened[d] \in Nat
        /\ counter.pending[d] \in Nat
    BY CountsOf DEF Accounts
  <2>2. /\ tally'[d] + rest[d] = tally[d] + thread[t].batch[d]
        /\ tally'[d] \in Nat /\ rest[d] \in Nat /\ thread[t].batch[d] \in Nat
    BY <1>3, <1>5
  <2>3. /\ Elsewhere(d) = unheard[d] + lost[d] + tally[d] + counter.pending[d]
        /\ Elsewhere(d)' = unheard[d] + lost[d] + tally'[d] + counter.pending[d]
        /\ opened'[d] = opened[d] /\ s.batch[d] = rest[d]
    BY <1>1, <1>6 DEF Elsewhere
  <2> QED
    BY <2>1, <2>2, <2>3
<1> QED
  BY <1>1, <1>2, <1>6, <1>7, <1>8, OneThreadMoves

LEMMA TallyFailsAccounts == ASSUME Accounts, NEW t \in Threads, TallyFails(t) PROVE Accounts'
<1> DEFINE day  == NextDay(t)
           rest == [thread[t].batch EXCEPT ![day] = 0]
           s    == State(Writing(rest), thread[t].now, rest, thread[t].when)
<1>1. thread \in [Threads -> ThreadStates] /\ thread[t] \in ThreadStates /\ day \in Days
      /\ UNCHANGED <<time, front, starts, counter, tally, lastOpenAt, lastPrune, opened, unheard>>
  BY NextDayIsDay DEF TallyFails, Accounts, Shapes
<1>2. thread' = [thread EXCEPT ![t] = s]
  <2>1. thread' = [thread EXCEPT ![t].at = Writing(rest), ![t].batch = rest]
    BY DEF TallyFails
  <2>2. \A a, b : [thread EXCEPT ![t].at = a, ![t].batch = b]
                     = [thread EXCEPT ![t] = State(a, thread[t].now, b, thread[t].when)]
    BY <1>1, NewBatch
  <2> QED
    BY <2>1, <2>2, Zenon
<1>3. /\ thread[t].batch \in [Days -> Nat] /\ lost \in [Days -> Nat]
      /\ thread[t].now \in 0 .. MaxTime /\ thread[t].when \in 0 .. MaxTime
  BY <1>1 DEF ThreadStates, Numbers, Accounts, Shapes
<1>4. lost' = [lost EXCEPT ![day] = lost[day] + thread[t].batch[day]]
  BY DEF TallyFails
<1> HIDE DEF day
<1>5. rest \in [Days -> Nat] /\ lost' \in [Days -> Nat]
      /\ \A d \in Days : lost'[d] + rest[d] = lost[d] + thread[t].batch[d]
  BY <1>1, <1>3, <1>4
<1> HIDE DEF rest
<1>6. s \in ThreadStates /\ Handful(s) /\ s.batch = rest
  BY <1>3, <1>5 DEF State, ThreadStates, Numbers, Places, Handful, Writing
<1> HIDE DEF s
<1>7. Shapes' /\ Bounded'
  BY <1>1, <1>2, <1>5, <1>6 DEF Accounts, Shapes, Bounded, Numbers
<1>8. ASSUME NEW d \in Days
      PROVE  Elsewhere(d)' + s.batch[d] + opened[d] = Elsewhere(d) + thread[t].batch[d] + opened'[d]
  <2>1. /\ unheard[d] \in Nat /\ lost[d] \in Nat /\ tally[d] \in Nat /\ opened[d] \in Nat
        /\ counter.pending[d] \in Nat
    BY CountsOf DEF Accounts
  <2>2. /\ lost'[d] + rest[d] = lost[d] + thread[t].batch[d]
        /\ lost'[d] \in Nat /\ rest[d] \in Nat /\ thread[t].batch[d] \in Nat
    BY <1>3, <1>5
  <2>3. /\ Elsewhere(d) = unheard[d] + lost[d] + tally[d] + counter.pending[d]
        /\ Elsewhere(d)' = unheard[d] + lost'[d] + tally[d] + counter.pending[d]
        /\ opened'[d] = opened[d] /\ s.batch[d] = rest[d]
    BY <1>1, <1>6 DEF Elsewhere
  <2> QED
    BY <2>1, <2>2, <2>3
<1> QED
  BY <1>1, <1>2, <1>6, <1>7, <1>8, OneThreadMoves

LEMMA LastAccounts ==
  ASSUME Accounts, NEW t \in Threads, WriteLast(t) \/ LastFails(t) PROVE Accounts'
<1> DEFINE s == State(Writing(thread[t].batch), thread[t].now, thread[t].batch, thread[t].when)
<1>1. /\ thread \in [Threads -> ThreadStates] /\ thread[t] \in ThreadStates
      /\ UNCHANGED <<time, front, starts, counter, tally, lastPrune, ghosts>>
  BY DEF WriteLast, LastFails, Accounts, Shapes
<1>2. thread' = [thread EXCEPT ![t] = s]
  <2>1. thread' = [thread EXCEPT ![t].at = Writing(thread[t].batch)]
    BY DEF WriteLast, LastFails
  <2>2. \A a : [thread EXCEPT ![t].at = a]
                  = [thread EXCEPT ![t] = State(a, thread[t].now, thread[t].batch, thread[t].when)]
    BY <1>1, NewPlace
  <2> QED
    BY <2>1, <2>2, Zenon
<1>3. s \in ThreadStates /\ Handful(s) /\ s.batch = thread[t].batch
  BY <1>1 DEF State, ThreadStates, Places, Handful, Writing
<1>4. lastOpenAt' \in 0 .. MaxTime
  BY <1>1 DEF WriteLast, LastFails, Larger, Accounts, Shapes, ThreadStates
<1> HIDE DEF s
<1> QED
  BY <1>1, <1>2, <1>3, <1>4, OnlyThePlaceChanges

\* A step of no thread: what the Stats tab shows must still add up, the rest may shrink.
LEMMA ThreadsStay ==
  ASSUME Accounts, Shapes', Bounded', thread' = thread,
         \A d \in Days : Elsewhere(d)' + opened[d] <= Elsewhere(d) + opened'[d],
         \A d \in Days : d > Day(time') - KeepDays =>
             /\ d > Day(time) - KeepDays
             /\ Elsewhere(d)' + opened[d] = Elsewhere(d) + opened'[d]
  PROVE  Accounts'
<1>1. InHand'
  BY DEF Accounts, InHand, Handful
<1>2. ASSUME NEW d \in Days
      PROVE  /\ Have(d)' <= opened'[d]
             /\ d > Day(time') - KeepDays => Have(d)' = opened'[d]
  <2>1. /\ Have(d) = Elsewhere(d) + Flight(thread, d)
        /\ Have(d)' = Elsewhere(d)' + Flight(thread, d)
    BY DEF Have, InFlight, Flight, Elsewhere
  <2>2. opened[d] \in Nat /\ Flight(thread, d) \in Nat /\ Elsewhere(d) \in Nat
    BY CountsOf DEF Accounts, Elsewhere
  <2>3. opened'[d] \in Nat /\ Elsewhere(d)' \in Nat
    BY DEF Shapes, Numbers, Elsewhere
  <2>4. /\ Have(d) <= opened[d]
        /\ d > Day(time) - KeepDays => Have(d) = opened[d]
    BY DEF Accounts, Balanced
  <2>5. Have(d)' <= opened'[d]
    BY <2>1, <2>2, <2>3, <2>4
  <2>6. ASSUME d > Day(time') - KeepDays PROVE Have(d)' = opened'[d]
    BY <2>1, <2>2, <2>3, <2>4, <2>6
  <2> QED
    BY <2>5, <2>6
<1> QED
  BY <1>1, <1>2 DEF Accounts, Balanced, Day

\* A day that is shown tomorrow is shown today.
LEMMA TickAccounts == ASSUME Accounts, Tick PROVE Accounts'
<1>1. /\ time \in 1 .. MaxTime /\ time < MaxTime /\ time' = time + 1
      /\ UNCHANGED <<front, starts, counter, thread, tally, lastOpenAt, lastPrune,
                     opened, unheard, lost>>
  BY DEF Tick, ghosts, Accounts, Shapes
<1>2. Shapes' /\ Bounded'
  BY <1>1, Constants DEF Accounts, Shapes, Bounded
<1>3. Day(time) \in Nat /\ Day(time') \in Nat /\ Day(time) <= Day(time')
  BY <1>1, Constants, DayGrows
<1>4. ASSUME NEW d \in Days
      PROVE  /\ Elsewhere(d)' + opened[d] = Elsewhere(d) + opened'[d]
             /\ Elsewhere(d)' + opened[d] \in Nat
             /\ d > Day(time') - KeepDays => d > Day(time) - KeepDays
  <2>1. Elsewhere(d)' = Elsewhere(d) /\ Elsewhere(d) \in Nat /\ opened[d] \in Nat
    BY <1>1, CountsOf DEF Elsewhere, Accounts
  <2>2. d \in Nat /\ KeepDays \in Nat
    BY DaysAre, Constants
  <2> QED
    BY <1>1, <1>3, <2>1, <2>2
<1> QED
  BY <1>1, <1>2, <1>4, ThreadsStay

LEMMA UnheardAccounts == ASSUME Accounts, Unheard PROVE Accounts'
<1> DEFINE day == Day(time)
<1>1. /\ AnOpen /\ unheard' = [unheard EXCEPT ![day] = unheard[day] + 1]
      /\ UNCHANGED <<time, front, starts, counter, thread, tally, lastOpenAt, lastPrune, lost>>
  BY DEF Unheard
<1>2. /\ opened' \in Numbers /\ Bounded' /\ day \in Days
      /\ \A d \in Days : opened'[d] = opened[d] + One(day)[d]
  BY <1>1, OpensAreBounded
<1>3. /\ unheard' \in Numbers
      /\ \A d \in Days : unheard'[d] = unheard[d] + One(day)[d]
  BY <1>1, <1>2 DEF Accounts, Shapes, Numbers, One
<1> HIDE DEF day
<1>4. Shapes'
  BY <1>1, <1>2, <1>3 DEF Accounts, Shapes
<1>5. ASSUME NEW d \in Days
      PROVE  /\ Elsewhere(d)' + opened[d] = Elsewhere(d) + opened'[d]
             /\ Elsewhere(d)' + opened[d] \in Nat
  <2>1. /\ unheard[d] \in Nat /\ lost[d] \in Nat /\ tally[d] \in Nat /\ opened[d] \in Nat
        /\ counter.pending[d] \in Nat /\ One(day)[d] \in Nat
    BY CountsOf, OneIsNumbers DEF Accounts, Numbers
  <2>2. /\ Elsewhere(d) = unheard[d] + lost[d] + tally[d] + counter.pending[d]
        /\ Elsewhere(d)' = unheard'[d] + lost[d] + tally[d] + counter.pending[d]
    BY <1>1 DEF Elsewhere
  <2> QED
    BY <1>2, <1>3, <2>1, <2>2
<1> QED
  BY <1>1, <1>2, <1>4, <1>5, ThreadsStay

\* The clean-up only takes days that are not shown.
LEMMA PruneAccounts == ASSUME Accounts, Prune PROVE Accounts'
<1>1. /\ lastPrune' = time
      /\ UNCHANGED <<time, front, starts, counter, thread, lastOpenAt, opened, unheard, lost>>
  BY DEF Prune, ghosts
<1>2. time \in 1 .. MaxTime /\ Day(time) \in Nat /\ KeepDays \in Nat /\ Days \subseteq Nat
  BY Constants, DaysAre, DayGrows DEF Accounts, Shapes
<1>3. /\ tally' \in Numbers
      /\ \A d \in Days : /\ tally'[d] <= tally[d]
                         /\ d > Day(time) - KeepDays => tally'[d] = tally[d]
  BY <1>2 DEF Prune, Accounts, Shapes, Numbers
<1>4. Shapes' /\ Bounded'
  BY <1>1, <1>2, <1>3 DEF Accounts, Shapes, Bounded
<1>5. ASSUME NEW d \in Days
      PROVE  /\ Elsewhere(d)' + opened[d] <= Elsewhere(d) + opened'[d]
             /\ d > Day(time') - KeepDays =>
                  /\ d > Day(time) - KeepDays
                  /\ Elsewhere(d)' + opened[d] = Elsewhere(d) + opened'[d]
  <2>1. /\ unheard[d] \in Nat /\ lost[d] \in Nat /\ tally[d] \in Nat /\ opened[d] \in Nat
        /\ counter.pending[d] \in Nat /\ tally'[d] \in Nat
    BY <1>3, CountsOf DEF Accounts, Numbers
  <2>2. /\ Elsewhere(d) = unheard[d] + lost[d] + tally[d] + counter.pending[d]
        /\ Elsewhere(d)' = unheard[d] + lost[d] + tally'[d] + counter.pending[d]
        /\ opened'[d] = opened[d] /\ time' = time
    BY <1>1 DEF Elsewhere
  <2>3. tally'[d] <= tally[d] /\ (d > Day(time) - KeepDays => tally'[d] = tally[d])
    BY <1>3
  <2> QED
    BY <2>1, <2>2, <2>3
<1> QED
  BY <1>1, <1>4, <1>5, ThreadsStay

LEMMA RestartAccounts == ASSUME Accounts, LauncherRestarts \/ UNCHANGED vars PROVE Accounts'
<1>1. /\ UNCHANGED <<time, front, starts, counter, thread, tally, lastOpenAt, opened, unheard, lost>>
      /\ lastPrune' \in {-DayLength, lastPrune}
  BY DEF LauncherRestarts, vars, ghosts
<1>2. Shapes' /\ Bounded'
  BY <1>1 DEF Accounts, Shapes, Bounded
<1>3. ASSUME NEW d \in Days
      PROVE  /\ Elsewhere(d)' + opened[d] = Elsewhere(d) + opened'[d]
             /\ Elsewhere(d)' + opened[d] \in Nat
  <2>1. Elsewhere(d)' = Elsewhere(d) /\ Elsewhere(d) \in Nat /\ opened[d] \in Nat
    BY <1>1, CountsOf DEF Elsewhere, Accounts
  <2> QED
    BY <1>1, <2>1
<1> QED
  BY <1>1, <1>2, <1>3, ThreadsStay

\* What a process held goes with it, and is accounted for.
LEMMA ReplacedAccounts ==
  ASSUME Accounts, NEW with \in {"none", "deaf", "counting"}, Replaced(with),
         starts' \in 0 .. MaxStarts
  PROVE  Accounts'
<1>1. /\ front' = with /\ counter' = NewCounter /\ thread' = [t \in Threads |-> Idle]
      /\ lost' = [d \in Days |-> lost[d] + counter.pending[d] + InFlight(d)]
      /\ UNCHANGED <<time, tally, lastOpenAt, lastPrune, opened, unheard>>
  BY DEF Replaced
<1>2. Idle \in ThreadStates /\ Handful(Idle) /\ Idle.batch = NoOpens
  BY OneIsNumbers, Constants DEF Idle, ThreadStates, Places, Handful
<1>3. counter' \in [pending : Numbers, lastFlush : 0 .. MaxTime, lastOpen : 0 .. MaxTime]
      /\ counter'.pending = NoOpens
  BY <1>1, OneIsNumbers, Constants DEF NewCounter, Accounts, Shapes
<1>4. lost' \in Numbers
      /\ \A d \in Days : lost'[d] = lost[d] + counter.pending[d] + Flight(thread, d)
  <2>1. \A d \in Days : lost[d] \in Nat /\ counter.pending[d] \in Nat /\ Flight(thread, d) \in Nat
    BY CountsOf DEF Accounts
  <2>2. \A d \in Days : InFlight(d) = Flight(thread, d)
    BY DEF InFlight, Flight
  <2> QED
    BY <1>1, <2>1, <2>2 DEF Numbers
<1>5. thread' \in [Threads -> ThreadStates] /\ \A t \in Threads : thread'[t] = Idle
  BY <1>1, <1>2
<1>6. Shapes' /\ Bounded'
  BY <1>1, <1>3, <1>4, <1>5 DEF Accounts, Shapes, Bounded
<1>7. InHand'
  <2>1. \A t \in Threads : Handful(thread'[t])
    BY <1>2, <1>5
  <2>2. \A t \in Threads : Handful(thread'[t]) <=> Handful(thread[t])'
    BY DEF Handful
  <2> QED
    BY <2>1, <2>2 DEF InHand
<1>8. ASSUME NEW d \in Days PROVE Have(d)' = Have(d)
  <2>1. Flight(thread', d) = 0
    <3> DEFINE th2 == thread'
    <3>1. \A t \in Threads : th2[t].batch = NoOpens
      BY <1>2, <1>5
    <3> HIDE DEF th2
    <3>2. Flight(th2, d) = 0
      BY <3>1, NothingInFlight
    <3> QED
      BY <3>2 DEF th2
  <2>2. /\ Have(d) = unheard[d] + lost[d] + tally[d] + counter.pending[d] + Flight(thread, d)
        /\ Have(d)' = unheard[d] + lost'[d] + tally[d] + counter'.pending[d] + Flight(thread', d)
    BY <1>1 DEF Have, InFlight, Flight
  <2>3. counter'.pending[d] = 0
    BY <1>3 DEF NoOpens
  <2>4. /\ unheard[d] \in Nat /\ lost[d] \in Nat /\ tally[d] \in Nat
        /\ counter.pending[d] \in Nat /\ Flight(thread, d) \in Nat
    BY CountsOf DEF Accounts
  <2>5. lost'[d] = lost[d] + counter.pending[d] + Flight(thread, d)
    BY <1>4
  <2> QED
    BY <2>1, <2>2, <2>3, <2>4, <2>5
<1>9. Balanced'
  BY <1>1, <1>8 DEF Accounts, Balanced, Day
<1> QED
  BY <1>6, <1>7, <1>9 DEF Accounts

LEMMA AccountsIsInductive == Accounts /\ [Next]_vars => Accounts'
<1> SUFFICES ASSUME Accounts, [Next]_vars PROVE Accounts'
  OBVIOUS
<1>0. starts \in 0 .. MaxStarts /\ MaxStarts \in Nat
  BY VisitsAssumption DEF Accounts, Shapes
<1>1. CASE Tick
  BY <1>1, TickAccounts
<1>2. CASE Launched
  BY <1>0, <1>2, ReplacedAccounts DEF Launched
<1>3. CASE Deployed
  BY <1>0, <1>3, ReplacedAccounts DEF Deployed
<1>4. CASE Stopped
  BY <1>0, <1>4, ReplacedAccounts DEF Stopped
<1>5. CASE Unheard
  BY <1>5, UnheardAccounts
<1>6. CASE Prune
  BY <1>6, PruneAccounts
<1>7. CASE LauncherRestarts \/ UNCHANGED vars
  BY <1>7, RestartAccounts
<1>8. ASSUME NEW t \in Threads, Arrive(t) \/ Step(t) PROVE Accounts'
  BY <1>8, ArriveAccounts, RecordAccounts, DecideAccounts, TakeAccounts, WriteTallyAccounts,
     TallyFailsAccounts, LastAccounts DEF Step
<1> QED
  BY <1>1, <1>2, <1>3, <1>4, <1>5, <1>6, <1>7, <1>8 DEF Next

\* Counts within their bound: none is more than all the opens there were.
LEMMA AccountsIsTyped == Accounts => TypeOK
<1> SUFFICES ASSUME Accounts PROVE TypeOK
  OBVIOUS
<1>1. ASSUME NEW d \in Days
      PROVE  /\ opened[d] \in 0 .. MaxOpens /\ unheard[d] \in 0 .. MaxOpens
             /\ lost[d] \in 0 .. MaxOpens /\ tally[d] \in 0 .. MaxOpens
             /\ counter.pending[d] \in 0 .. MaxOpens
             /\ \A t \in Threads : thread[t].batch[d] \in 0 .. MaxOpens
  <2>1. /\ unheard[d] \in Nat /\ lost[d] \in Nat /\ tally[d] \in Nat /\ opened[d] \in Nat
        /\ counter.pending[d] \in Nat /\ Flight(thread, d) \in Nat
    BY CountsOf DEF Accounts
  <2>2. SumFunction(opened) \in Nat /\ opened[d] <= SumFunction(opened)
    BY DaysAre, TermIsInSum DEF Accounts, Shapes, Numbers
  <2>3. MaxOpens \in Nat /\ SumFunction(opened) <= MaxOpens
    BY VisitsAssumption DEF Accounts, Bounded
  <2>4. Have(d) <= opened[d]
        /\ Have(d) = unheard[d] + lost[d] + tally[d] + counter.pending[d] + Flight(thread, d)
    BY HaveIs DEF Accounts, Balanced
  <2>5. \A t \in Threads : thread[t].batch[d] \in Nat /\ thread[t].batch[d] <= Flight(thread, d)
    BY BatchIsInFlight DEF Accounts, Shapes, ThreadStates, Numbers
  <2> QED
    BY <2>1, <2>2, <2>3, <2>4, <2>5
<1>2. {tally, opened, unheard, lost} \subseteq Counts /\ counter.pending \in Counts
  BY <1>1 DEF Accounts, Shapes, Numbers, Counts
<1>3. \A t \in Threads : thread[t].batch \in Counts
  BY <1>1 DEF Accounts, Shapes, ThreadStates, Numbers, Counts
<1>4. counter \in [pending : Counts, lastFlush : 0 .. MaxTime, lastOpen : 0 .. MaxTime]
  BY <1>2 DEF Accounts, Shapes
<1>5. thread \in [Threads ->
          [at : {"idle", "arrived", "recorded", "due", "writing", "tallied"},
           now : 0 .. MaxTime, batch : Counts, when : 0 .. MaxTime]]
  BY <1>3 DEF Accounts, Shapes, ThreadStates, Places
<1> QED
  BY <1>2, <1>4, <1>5 DEF Accounts, Shapes, TypeOK

\* Spec's reachable states are of their types, and no count is more than the opens
\* there were: nothing the counter, the threads, the restarts and the clean-up of
\* launcher/visits.py and launcher/db.py do counts an open twice.
THEOREM TypeCorrect == Spec => []TypeOK
<1>1. Init => Accounts
  BY InitiallyAccounts
<1>2. Accounts /\ [Next]_vars => Accounts'
  BY AccountsIsInductive
<1>3. Accounts => TypeOK
  BY AccountsIsTyped
<1> QED
  BY <1>1, <1>2, <1>3, PTL DEF Spec

\* Every open of a day that the Stats tab shows is in one place and in one only, for
\* any number of threads, whatever the lengths of a day and of the wait between two
\* writes, and whether the database refuses writes or not (record and flush of
\* launcher/visits.py, record_opens and prune_visits of launcher/db.py).
THEOREM AddsUp == Spec => []ShownDaysAddUp
<1>1. Init => Accounts
  BY InitiallyAccounts
<1>2. Accounts /\ [Next]_vars => Accounts'
  BY AccountsIsInductive
<1>3. Accounts => ShownDaysAddUp
  <2> SUFFICES ASSUME Accounts, NEW d \in Days, d > Day(time) - KeepDays
               PROVE  opened[d] = unheard[d] + lost[d] + tally[d] + counter.pending[d] + InFlight(d)
    BY DEF ShownDaysAddUp
  <2> QED
    BY DEF Accounts, Balanced, Have
<1> QED
  BY <1>1, <1>2, <1>3, PTL DEF Spec
=============================================================================
