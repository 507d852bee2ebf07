------------------------- MODULE BenchCreator_proofs -------------------------
(***************************************************************************)
(* BenchInv is an invariant of BenchCreator for any loops, number of runs, *)
(* times and width of words, and the safety properties follow from it.     *)
(***************************************************************************)
EXTENDS BenchCreator, NaturalsInduction, WellFoundedInduction, TLAPS

LEMMA Minus1IsNumber == Minus1 \in Nat
BY PowerAssumption DEF Minus1

(* No run takes as long as the value that stands for "no minimum yet". *)
LEMMA ElapsedNumbers == Elapsed \subseteq Nat /\ Minus1 \notin Elapsed
BY ElapsedAssumption, Minus1IsNumber

-----------------------------------------------------------------------------
(* Sums over a series, and what a word keeps of them.                        *)

LEMMA Remainder ==
    ASSUME NEW m \in Nat \ {0}, NEW q \in Nat, NEW r \in 0 .. m - 1
    PROVE  (m * q + r) % m = r
<1> DEFINE n == m * q + r
           p == n \div m
           s == n % m
<1>1. n \in Nat
  OBVIOUS
<1>2. p \in Nat /\ s \in 0 .. m - 1 /\ n = m * p + s
  BY <1>1
<1>3. m * (q - p) = s - r /\ m * (p - q) = r - s /\ q - p \in Int
  <2> HIDE DEF p, s
  <2>1. m * (q - p) = m * q - m * p /\ m * (p - q) = m * p - m * q
    BY <1>2
  <2>2. m * p \in Nat /\ m * q \in Nat
    BY <1>2
  <2> QED
    BY <1>2, <2>1, <2>2
<1> HIDE DEF n, p, s
<1>4. q - p = 0
  <2>1. CASE q - p >= 1
    <3>1. m * (q - p) = m + m * (q - p - 1) /\ m * (q - p - 1) >= 0
      BY <1>3, <2>1
    <3> QED
      BY <1>2, <1>3, <3>1
  <2>2. CASE q - p <= -1
    <3>1. p - q \in Nat /\ p - q >= 1
      BY <1>2, <2>2
    <3>2. m * (p - q) = m + m * (p - q - 1) /\ m * (p - q - 1) >= 0
      BY <3>1
    <3> QED
      BY <1>2, <1>3, <3>2
  <2> QED
    BY <1>3, <2>1, <2>2
<1>5. m * (q - p) = 0
  BY <1>4
<1> QED
  BY <1>2, <1>3, <1>5 DEF n, s

LEMMA WordOfSum ==
    ASSUME NEW a \in Nat, NEW b \in Nat
    PROVE  Wrap(Wrap(a) + b) = Wrap(a + b)
<1> DEFINE m == 2^Width
<1>1. m \in Nat \ {0}
  BY PowerAssumption
<1> HIDE DEF m
<1> DEFINE q == a \div m
           r == a % m
           p == (r + b) \div m
           s == (r + b) % m
<1>2. q \in Nat /\ r \in 0 .. m - 1 /\ a = m * q + r
  BY <1>1
<1>3. r + b \in Nat
  BY <1>1, <1>2
<1>4. p \in Nat /\ s \in 0 .. m - 1 /\ r + b = m * p + s
  BY <1>1, <1>3
<1> HIDE DEF q, r, p, s
<1>5. a + b = m * q + (r + b)
  BY <1>1, <1>2
<1>6. a + b = m * (q + p) + s
  <2>1. m * (q + p) = m * q + m * p /\ m * q \in Nat /\ m * p \in Nat
    BY <1>1, <1>2, <1>4
  <2> QED
    BY <1>4, <1>5, <2>1
<1>7. (a + b) % m = s
  <2>1. q + p \in Nat
    BY <1>2, <1>4
  <2>2. (m * (q + p) + s) % m = s
    BY <1>1, <1>4, <2>1, Remainder
  <2> QED
    BY <1>6, <2>2
<1> QED
  BY <1>7 DEF Wrap, m, r, s

(* Every set of numbers that is not empty has a least element. *)
LEMMA LeastNumber ==
    ASSUME NEW S, S \subseteq Nat, S # {}
    PROVE  \E m \in S : \A k \in S : m <= k
<1>1. PICK m \in S : \A k \in S : ~ (<<k, m>> \in OpToRel(<, Nat))
  BY NatLessThanWellFounded, WFMin
<1>2. ASSUME NEW k \in S PROVE m <= k
  <2>1. ~ (<<k, m>> \in {pair \in Nat \X Nat : pair[1] < pair[2]})
    BY <1>1 DEF OpToRel
  <2> QED
    BY <2>1
<1> QED
  BY <1>2

(* What the recursive function of SumUpTo is to satisfy. *)
IsSum(f, s) == f = [n \in 0 .. Len(s) |-> IF n = 0 THEN 0 ELSE f[n - 1] + s[n]]

(* There is such a function for every series: a least index to which there is *)
(* none would be one more than an index to which there is one. *)
LEMMA SumExists ==
    ASSUME NEW s \in Seq(Nat)
    PROVE  \E f : IsSum(f, s)
<1> DEFINE Upto(f, n) == /\ f \in [0 .. n -> Nat]
                         /\ \A k \in 0 .. n : f[k] = IF k = 0 THEN 0 ELSE f[k - 1] + s[k]
           Bad == {n \in 0 .. Len(s) : ~ \E f : Upto(f, n)}
<1>1. Bad = {}
  <2> SUFFICES ASSUME Bad # {} PROVE FALSE
    OBVIOUS
  <2>1. PICK n \in Bad : \A k \in Bad : n <= k
    <3>1. Bad \subseteq Nat
      OBVIOUS
    <3> HIDE DEF Bad
    <3> QED
      BY <3>1, LeastNumber
  <2>2. n \in 0 .. Len(s) /\ Len(s) \in Nat
    OBVIOUS
  <2>3. CASE n = 0
    <3> DEFINE f == [k \in 0 .. n |-> 0]
    <3>1. Upto(f, n)
      BY <2>3
    <3> QED
      BY <3>1
  <2>4. CASE n # 0
    <3>1. n - 1 \in 0 .. Len(s) /\ ~(n <= n - 1)
      BY <2>2, <2>4
    <3>2. n - 1 \notin Bad
      <4> HIDE DEF Bad
      <4> QED
        BY <2>1, <3>1
    <3>3. PICK g : Upto(g, n - 1)
      BY <3>1, <3>2
    <3> DEFINE f == [k \in 0 .. n |-> IF k = n THEN g[n - 1] + s[n] ELSE g[k]]
    <3>4. s[n] \in Nat /\ g[n - 1] \in Nat
      BY <2>2, <2>4, <3>1, <3>3
    <3>5. f \in [0 .. n -> Nat]
      BY <2>2, <3>3, <3>4
    <3>6. ASSUME NEW k \in 0 .. n PROVE f[k] = IF k = 0 THEN 0 ELSE f[k - 1] + s[k]
      <4>1. CASE k = n
        BY <2>2, <2>4, <4>1
      <4>2. CASE k # n
        BY <2>2, <3>3, <4>2
      <4> QED
        BY <4>1, <4>2
    <3>7. Upto(f, n)
      BY <3>5, <3>6
    <3> QED
      BY <3>7
  <2> QED
    BY <2>3, <2>4
<1>2. PICK f : Upto(f, Len(s))
  <2>1. Len(s) \in 0 .. Len(s)
    OBVIOUS
  <2> QED
    BY <1>1, <2>1
<1>3. IsSum(f, s)
  BY <1>2 DEF IsSum
<1> QED
  BY <1>3

LEMMA SumDefined ==
    ASSUME NEW s \in Seq(Nat)
    PROVE  /\ SumUpTo(s) \in [0 .. Len(s) -> Nat]
           /\ SumUpTo(s)[0] = 0
           /\ \A n \in 1 .. Len(s) : SumUpTo(s)[n] = SumUpTo(s)[n - 1] + s[n]
<1> DEFINE f == SumUpTo(s)
<1>1. IsSum(f, s)
  BY SumExists DEF SumUpTo, IsSum
<1> HIDE DEF f
<1>2. \A n \in 0 .. Len(s) : f[n] = IF n = 0 THEN 0 ELSE f[n - 1] + s[n]
  <2> SUFFICES ASSUME NEW n \in 0 .. Len(s)
               PROVE  f[n] = IF n = 0 THEN 0 ELSE f[n - 1] + s[n]
    OBVIOUS
  <2>1. f[n] = [k \in 0 .. Len(s) |-> IF k = 0 THEN 0 ELSE f[k - 1] + s[k]][n]
    BY <1>1 DEF IsSum
  <2> QED
    BY <2>1
<1>3. {n \in 0 .. Len(s) : f[n] \notin Nat} = {}
  <2> DEFINE Bad == {n \in 0 .. Len(s) : f[n] \notin Nat}
  <2> SUFFICES ASSUME Bad # {} PROVE FALSE
    OBVIOUS
  <2>1. PICK n \in Bad : \A k \in Bad : n <= k
    <3>1. Bad \subseteq Nat
      OBVIOUS
    <3> HIDE DEF Bad
    <3> QED
      BY <3>1, LeastNumber
  <2>2. n \in 0 .. Len(s) /\ f[n] \notin Nat /\ Len(s) \in Nat
    OBVIOUS
  <2>3. n # 0
    BY <1>2, <2>2
  <2>4. n - 1 \in 0 .. Len(s) /\ ~(n <= n - 1) /\ s[n] \in Nat
    BY <2>2, <2>3
  <2>5. f[n - 1] \in Nat
    BY <2>1, <2>4
  <2> QED
    BY <1>2, <2>2, <2>3, <2>4, <2>5
<1>4. f = [n \in 0 .. Len(s) |-> f[n]]
  BY <1>1 DEF IsSum
<1>5. f \in [0 .. Len(s) -> Nat]
  BY <1>3, <1>4
<1>6. f[0] = 0 /\ \A n \in 1 .. Len(s) : f[n] = f[n - 1] + s[n]
  BY <1>2
<1> QED
  BY <1>5, <1>6 DEF f

(* Two series that begin alike have the same sums so far. *)
LEMMA SumUnique ==
    ASSUME NEW s \in Seq(Nat), NEW t \in Seq(Nat), NEW n \in Nat, n <= Len(s), n <= Len(t),
           \A k \in 1 .. n : s[k] = t[k]
    PROVE  SumUpTo(s)[n] = SumUpTo(t)[n]
<1> DEFINE f == SumUpTo(s)
           g == SumUpTo(t)
           Bad == {k \in 0 .. n : f[k] # g[k]}
<1>1. /\ f[0] = g[0]
      /\ \A k \in 1 .. n : f[k] = f[k - 1] + s[k] /\ g[k] = g[k - 1] + t[k]
  <2>1. f[0] = g[0]
    BY SumDefined
  <2>2. ASSUME NEW k \in 1 .. n
        PROVE  f[k] = f[k - 1] + s[k] /\ g[k] = g[k - 1] + t[k]
    <3>1. k \in 1 .. Len(s) /\ k \in 1 .. Len(t)
      OBVIOUS
    <3> QED
      BY <3>1, SumDefined
  <2> QED
    BY <2>1, <2>2
<1> HIDE DEF f, g
<1>2. Bad = {}
  <2> SUFFICES ASSUME Bad # {} PROVE FALSE
    OBVIOUS
  <2>1. PICK m \in Bad : \A k \in Bad : m <= k
    <3>1. Bad \subseteq Nat
      OBVIOUS
    <3> HIDE DEF Bad
    <3> QED
      BY <3>1, LeastNumber
  <2>2. m \in 0 .. n /\ f[m] # g[m]
    OBVIOUS
  <2>3. m # 0
    BY <1>1, <2>2
  <2>4. m - 1 \in 0 .. n /\ m \in 1 .. n /\ ~(m <= m - 1)
    BY <2>2, <2>3
  <2>5. f[m - 1] = g[m - 1]
    BY <2>1, <2>4
  <2> QED
    BY <1>1, <2>2, <2>4, <2>5
<1> QED
  BY <1>2 DEF f, g

(* One more run. *)
LEMMA SumAppend ==
    ASSUME NEW s \in Seq(Nat), NEW x \in Nat
    PROVE  /\ SumUpTo(s)[Len(s)] \in Nat
           /\ SumUpTo(Append(s, x))[Len(s) + 1] = SumUpTo(s)[Len(s)] + x
<1> DEFINE t == Append(s, x)
<1>1. /\ t \in Seq(Nat) /\ Len(t) = Len(s) + 1 /\ Len(s) \in Nat
      /\ t[Len(s) + 1] = x
      /\ \A k \in 1 .. Len(s) : s[k] = t[k]
  OBVIOUS
<1> HIDE DEF t
<1>2. SumUpTo(s)[Len(s)] = SumUpTo(t)[Len(s)]
  <2>1. Len(s) <= Len(s) /\ Len(s) <= Len(t)
    BY <1>1
  <2> QED
    BY <1>1, <2>1, SumUnique
<1>3. SumUpTo(t)[Len(s) + 1] = SumUpTo(t)[Len(s)] + t[Len(s) + 1]
  <2>1. Len(s) + 1 \in 1 .. Len(t) /\ (Len(s) + 1) - 1 = Len(s)
    BY <1>1
  <2> QED
    BY <1>1, <2>1, SumDefined
<1>4. SumUpTo(s)[Len(s)] \in Nat
  <2>1. Len(s) \in 0 .. Len(s)
    BY <1>1
  <2> QED
    BY <2>1, SumDefined
<1> QED
  BY <1>1, <1>2, <1>3, <1>4 DEF t

(* No run, no sum. *)
LEMMA SumOfNone == Wrap(SumUpTo(<<>>)[Len(<<>>)]) = 0
<1>1. <<>> \in Seq(Nat) /\ Len(<<>>) = 0
  OBVIOUS
<1>2. SumUpTo(<<>>)[0] = 0
  BY <1>1, SumDefined
<1>3. 0 % (2^Width) = 0
  <2> DEFINE m == 2^Width
  <2>1. m \in Nat \ {0}
    BY PowerAssumption
  <2> HIDE DEF m
  <2>2. 0 % m = 0
    BY <2>1
  <2> QED
    BY <2>2 DEF m
<1> QED
  BY <1>1, <1>2, <1>3 DEF Wrap

-----------------------------------------------------------------------------
LEMMA InitInv ==
    Init => BenchInv
BY Minus1IsNumber, SumOfNone, LoopAssumption, NanoAssumption
   DEF Init, InitBenchmark, BenchInv, Turns, Started, RunsCounted, Results,
       NextInNano, TimesMeasured, StatisticsMatchTimes, NoResults

-----------------------------------------------------------------------------
(* The statistics.                                                           *)

(* A run is added to the series, and the statistics with it. *)
LEMMA RunAdded ==
    ASSUME TimesMeasured, StatisticsMatchTimes, NEW e \in Elapsed, run_benchmark(e)
    PROVE  TimesMeasured' /\ StatisticsMatchTimes'
<1> USE DEF TimesMeasured
<1>1. e \in Nat /\ e # Minus1
  BY ElapsedNumbers
<1>2. /\ times' \in Seq(Elapsed)
      /\ Len(times') = Len(times) + 1
      /\ DOMAIN times' = 1 .. Len(times) + 1
      /\ DOMAIN times = 1 .. Len(times)
      /\ Len(times) \in Nat
      /\ times'[Len(times) + 1] = e
      /\ \A i \in DOMAIN times : times'[i] = times[i] /\ times[i] \in Elapsed
  BY DEF run_benchmark
<1>3. min = Minus1 <=> times = <<>>
  BY <1>2, ElapsedNumbers DEF StatisticsMatchTimes
<1>4. \A i \in DOMAIN times : times[i] \in Nat
  BY <1>2, ElapsedNumbers
<1>5. min' = IF times = <<>> \/ e < min THEN e ELSE min
  BY <1>3 DEF run_benchmark
<1>6. max' = IF e > max THEN e ELSE max
  BY DEF run_benchmark
<1>7. test_counter' = Len(times')
  BY <1>2 DEF run_benchmark, StatisticsMatchTimes
<1>8. sum' = Wrap(SumUpTo(times')[Len(times')])
  <2>1. times \in Seq(Nat) /\ times' = Append(times, e)
    BY <1>4 DEF run_benchmark
  <2>2. /\ SumUpTo(times)[Len(times)] \in Nat
        /\ SumUpTo(times')[Len(times')] = SumUpTo(times)[Len(times)] + e
    BY <1>1, <1>2, <2>1, SumAppend
  <2>3. sum' = Wrap(Wrap(SumUpTo(times)[Len(times)]) + e)
    BY DEF run_benchmark, StatisticsMatchTimes
  <2> QED
    BY <1>1, <2>2, <2>3, WordOfSum
<1>9. CASE times = <<>>
  <2>1. Len(times) = 0
    BY <1>9
  <2>2. DOMAIN times' = {1} /\ times'[1] = e
    BY <1>2, <2>1
  <2>3. min' = e /\ max' = e
    BY <1>1, <1>5, <1>6, <1>9
  <2> QED
    BY <1>1, <1>2, <1>7, <1>8, <2>2, <2>3 DEF StatisticsMatchTimes
<1>10. CASE times # <<>>
  <2>1. \E i \in DOMAIN times' : times'[i] = min'
    BY <1>2, <1>5, <1>10 DEF StatisticsMatchTimes
  <2>2. \E i \in DOMAIN times' : times'[i] = max'
    BY <1>2, <1>6, <1>10 DEF StatisticsMatchTimes
  <2>3. ASSUME NEW i \in DOMAIN times'
        PROVE  min' <= times'[i] /\ times'[i] <= max'
    <3>1. CASE i = Len(times) + 1
      BY <1>1, <1>2, <1>5, <1>6, <1>10, <3>1
    <3>2. CASE i \in DOMAIN times
      <4>1. min <= times[i] /\ times[i] <= max
        BY <1>10, <3>2 DEF StatisticsMatchTimes
      <4> QED
        BY <1>1, <1>2, <1>4, <1>5, <1>6, <1>10, <3>2, <4>1
    <3> QED
      BY <1>2, <3>1, <3>2
  <2>4. {min', max', test_counter'} \subseteq Int
    BY <1>1, <1>2, <1>5, <1>6, <1>7
  <2>5. times' # <<>>
    BY <1>2
  <2> QED
    BY <1>2, <1>7, <1>8, <2>1, <2>2, <2>3, <2>4, <2>5 DEF StatisticsMatchTimes
<1> QED
  BY <1>9, <1>10

LEMMA SameSeries ==
    TimesMeasured /\ StatisticsMatchTimes /\ UNCHANGED bench
        => TimesMeasured' /\ StatisticsMatchTimes'
BY DEF TimesMeasured, StatisticsMatchTimes, bench, statistics

-----------------------------------------------------------------------------
(* Steps.                                                                    *)

LEMMA CreatorStep ==
    ASSUME BenchInv, Creator
    PROVE  BenchInv'
<1> USE DEF BenchInv
<1>1. CASE StartTest
  <2>1. TimesMeasured' /\ StatisticsMatchTimes'
    BY <1>1, Minus1IsNumber, SumOfNone
       DEF StartTest, init_benchmark, TimesMeasured, StatisticsMatchTimes
  <2> QED
    BY <1>1, <2>1, LoopAssumption DEF StartTest, init_benchmark, loops, history,
       Test, Turns, Started, RunsCounted, Results, NextInNano
<1>2. CASE CreateTask
  BY <1>2, SameSeries DEF CreateTask, bench, statistics, loops, history, Test,
     Turns, Started, RunsCounted, Results, NextInNano
<1>3. CASE TakeNotification
  BY <1>3, SameSeries DEF TakeNotification, bench, statistics, loops, history, Test,
     get_minimum_time, InUnit,
     Turns, Started, RunsCounted, Results, NextInNano
<1>4. CASE DeleteTask
  BY <1>4, SameSeries DEF DeleteTask, bench, statistics, loops, history, Test,
     get_minimum_time, InUnit,
     Turns, Started, RunsCounted, Results, NextInNano
<1>5. CASE NextTest
  BY <1>5, SameSeries DEF NextTest, bench, statistics, history, Test, Again,
     Turns, Started, RunsCounted, Results, NextInNano
<1>6. CASE Return
  BY <1>6, SameSeries DEF Return, bench, statistics, loops, history, Test,
     Turns, Started, RunsCounted, Results, NextInNano
<1> QED
  BY <1>1, <1>2, <1>3, <1>4, <1>5, <1>6 DEF Creator

LEMMA TaskStep ==
    ASSUME BenchInv, BenchmarkTask
    PROVE  BenchInv'
<1> USE DEF BenchInv
<1>1. CASE StartRun
  BY <1>1, SameSeries DEF StartRun, creatorUnchanged, bench, statistics, loops, history,
     Test, Turns, Started, RunsCounted, Results, NextInNano
<1>2. CASE EndRun
  <2>1. PICK e \in Elapsed : run_benchmark(e)
    BY <1>2 DEF EndRun
  <2>2. TimesMeasured' /\ StatisticsMatchTimes'
    BY <2>1, RunAdded
  <2> QED
    BY <1>2, <2>1, <2>2 DEF EndRun, run_benchmark, creatorUnchanged, loops, history,
       Test, Turns, Started, RunsCounted, Results, NextInNano
<1>3. CASE CountRun
  BY <1>3, SameSeries DEF CountRun, creatorUnchanged, bench, statistics, loops, history,
     Test, Turns, Started, RunsCounted, Results, NextInNano
<1>4. CASE ShowResults
  BY <1>4, SameSeries DEF ShowResults, creatorUnchanged, bench, statistics, loops,
     get_minimum_time, InUnit,
     Test, Turns, Started, RunsCounted, Results, NextInNano
<1>5. CASE NotifyCreator
  BY <1>5, SameSeries DEF NotifyCreator, creatorUnchanged, bench, statistics, loops,
     history, get_minimum_time, InUnit,
     Test, Turns, Started, RunsCounted, Results, NextInNano
<1>6. CASE DelayForEver
  BY <1>6, SameSeries DEF DelayForEver, creatorUnchanged, bench, statistics, loops,
     history, get_minimum_time, InUnit,
     Test, Turns, Started, RunsCounted, Results, NextInNano
<1>7. CASE Release
  BY <1>7, SameSeries DEF Release, creatorUnchanged, bench, statistics, loops,
     history, Test, Turns, Started, RunsCounted, Results, NextInNano
<1> QED
  BY <1>1, <1>2, <1>3, <1>4, <1>5, <1>6, <1>7 DEF BenchmarkTask

LEMMA NextInv == BenchInv /\ [Next]_vars => BenchInv'
<1> SUFFICES ASSUME BenchInv, [Next]_vars PROVE BenchInv'
  OBVIOUS
<1>1. CASE Next
  BY <1>1, CreatorStep, TaskStep DEF Next
<1>2. CASE UNCHANGED vars
  BY <1>2, SameSeries DEF BenchInv, vars, bench, statistics, loops, history, Test,
     get_minimum_time, InUnit, Turns, Started, RunsCounted, Results, NextInNano
<1> QED
  BY <1>1, <1>2

(* The inductive invariant: the creator and the task take turns. *)
THEOREM BenchInvariant == Spec => []BenchInv
BY InitInv, NextInv, PTL DEF Spec

(* The statistics of benchmark.c, the sum among them, are those of the runs   *)
(* since init_benchmark. *)
THEOREM StatisticsAgree == Spec => []StatisticsMatchTimes
<1>1. BenchInv => StatisticsMatchTimes
  BY DEF BenchInv
<1> QED
  BY <1>1, BenchInvariant, PTL

(* The creator goes on after all runs of the test it waited for. *)
THEOREM ResultsComplete == Spec => []ResultsAreComplete
<1>1. BenchInv => ResultsAreComplete
  BY DEF BenchInv, Results, ResultsAreComplete
<1> QED
  BY <1>1, BenchInvariant, PTL

(* While a task measures, the creator waits for it. *)
THEOREM SeriesIsUndisturbed == Spec => []SeriesUndisturbed
<1>1. BenchInv => SeriesUndisturbed
  BY DEF BenchInv, Turns, Started, RunsCounted, SeriesUndisturbed
<1> QED
  BY <1>1, BenchInvariant, PTL

(* A series is measured in ns only after one that gave 0. *)
THEOREM NanoIsForZero == Spec => []NanoOnlyForZero
<1>1. BenchInv => NanoOnlyForZero
  BY DEF BenchInv, NextInNano, NanoOnlyForZero
<1> QED
  BY <1>1, BenchInvariant, PTL

(* A test whose minimum is 0 is not left. *)
THEOREM ZeroIsRedone == Spec => ZeroIsMeasuredAgain
<1> DEFINE Left == AdaptNano /\ creator = "decide" /\ Test' # Test => printed.min # 0
<1>1. ASSUME BenchInv, Next PROVE Left
  <2> SUFFICES ASSUME AdaptNano, creator = "decide", Test' # Test PROVE printed.min # 0
    OBVIOUS
  <2>1. NextTest
    BY <1>1 DEF Next, Creator, BenchmarkTask, StartTest, CreateTask, TakeNotification,
       DeleteTask, Return, StartRun, EndRun, CountRun, ShowResults, NotifyCreator,
       DelayForEver, Release, creatorUnchanged, loops, Test, BenchInv, Turns
  <2>2. ~Again
    BY <2>1 DEF NextTest, Test
  <2> QED
    BY <1>1, <2>2 DEF Again, BenchInv, Results
<1>2. BenchInv /\ [Next]_vars => [Left]_vars
  BY <1>1
<1> QED
  BY <1>2, BenchInvariant, PTL DEF Spec, ZeroIsMeasuredAgain
=============================================================================
