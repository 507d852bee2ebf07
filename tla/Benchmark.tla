------------------------------ MODULE Benchmark ------------------------------
(***************************************************************************)
(* The benchmark library (src/benchmark.c): the statistics of one series   *)
(* of runs, and their conversion to a unit of time when they are read.     *)
(* The actions are used by the modules of the applications that call them. *)
(* Words are Width bits wide, an int is IntWidth bits wide.                *)
(***************************************************************************)
EXTENDS Integers, Sequences

CONSTANTS
    Width, IntWidth,        \* 64 and 32 in the code
    NsPerSec, UsPerSec,     \* 10^9 and 10^6
    Freq                    \* of the generic timer

ASSUME WidthAssumption == /\ IntWidth \in Nat \ {0}
                          /\ Width \in Nat
                          /\ IntWidth <= Width
ASSUME UnitAssumption  == {NsPerSec, UsPerSec, Freq} \subseteq Nat \ {0}

Word    == 0 .. 2^Width - 1
Wrap(n) == n % 2^Width
Minus1  == 2^Width - 1

ASSUME PowerAssumption == 2^Width \in Nat \ {0}

VARIABLES
    sum, min, max, test_counter, nanotime,
    times               \* history: the times of the series

statistics == <<sum, min, max, test_counter>>
bench      == <<statistics, nanotime, times>>

Statistics ==
    /\ {sum, min, max} \subseteq Word
    /\ test_counter \in Nat
    /\ nanotime \in {0, 1}
    /\ times \in Seq(Word)

InitBenchmark ==
    /\ sum = 0
    /\ min = Minus1
    /\ max = 0
    /\ test_counter = 0
    /\ nanotime = 0
    /\ times = <<>>
-----------------------------------------------------------------------------
pdSYSTICK_TO_NS(n) == Wrap(n * NsPerSec) \div Freq
pdSYSTICK_TO_US(n) == Wrap(n * UsPerSec) \div Freq

InUnit(n) == IF nanotime = 1 THEN pdSYSTICK_TO_NS(n) ELSE pdSYSTICK_TO_US(n)

(* A word that goes through an int: the lower bits, and the sign extended.   *)
ThroughInt(n) ==
    LET low == n % 2^IntWidth
    IN  IF low < 2^(IntWidth - 1) THEN low ELSE Wrap(low - 2^IntWidth)

get_minimum_time == ThroughInt(InUnit(min))
get_maximum_time == ThroughInt(InUnit(max))
get_average_time == ThroughInt(InUnit(sum \div test_counter))

(* Slip: the minimum keeps the 0 of a static variable. *)
init_benchmark_ZeroMin(use_nano) ==
    /\ nanotime' = use_nano
    /\ min' = 0
    /\ max' = 0
    /\ sum' = 0
    /\ test_counter' = 0
    /\ times' = <<>>

init_benchmark(use_nano) ==
    /\ nanotime' = use_nano
    /\ min' = Minus1
    /\ max' = 0
    /\ sum' = 0
    /\ test_counter' = 0
    /\ times' = <<>>

(* Slip: a time is either a new minimum or a new maximum. *)
run_benchmark_ElseMax(elapsedTime) ==
    /\ min' = IF min = Minus1 \/ elapsedTime < min THEN elapsedTime ELSE min
    /\ max' = IF min' = min /\ elapsedTime > max THEN elapsedTime ELSE max
    /\ sum' = Wrap(sum + elapsedTime)
    /\ test_counter' = test_counter + 1
    /\ times' = Append(times, elapsedTime)
    /\ UNCHANGED nanotime

run_benchmark(elapsedTime) ==
    /\ min' = IF min = Minus1 \/ elapsedTime < min THEN elapsedTime ELSE min
    /\ max' = IF elapsedTime > max THEN elapsedTime ELSE max
    /\ sum' = Wrap(sum + elapsedTime)
    /\ test_counter' = test_counter + 1
    /\ times' = Append(times, elapsedTime)
    /\ UNCHANGED nanotime
-----------------------------------------------------------------------------
(* The sums of the first n times. *)
SumUpTo(s) ==
    LET upTo[n \in 0 .. Len(s)] == IF n = 0 THEN 0 ELSE upTo[n - 1] + s[n]
    IN  upTo

(* The statistics are those of the runs since init_benchmark: their number,   *)
(* sum, minimum and maximum.  The sum is what is left of it in a word. *)
StatisticsMatchTimes ==
    /\ test_counter = Len(times)
    /\ sum = Wrap(SumUpTo(times)[Len(times)])
    /\ times # <<>> =>
        /\ \E i \in DOMAIN times : times[i] = min
        /\ \E i \in DOMAIN times : times[i] = max
        /\ \A i \in DOMAIN times : min <= times[i] /\ times[i] <= max

(* What is printed keeps the order of what was measured, through the         *)
(* division, the conversion and the int. *)
PrintedInOrder ==
    times # <<>> =>
        /\ get_minimum_time <= get_average_time
        /\ get_average_time <= get_maximum_time

(* benchmark.h:13-20 says of the three getters that they return ticks.       *)
GettersReturnTicks ==
    times # <<>> => get_minimum_time = min /\ get_maximum_time = max
=============================================================================
