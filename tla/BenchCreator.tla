---------------------------- MODULE BenchCreator -----------------------------
(***************************************************************************)
(* The applications that measure one size after the other, each in a       *)
(* periodic task of its own (execution-2tasks, -testclasses, -nop,         *)
(* -interference1, -nop-interference; the lines mapped are 2tasks').       *)
(* vBenchCreationTask starts a series, creates the task, waits for its     *)
(* notification and deletes it.  Both tasks have the same priority and     *)
(* share the core by time slices: any step of one may fall between two of  *)
(* the other.                                                              *)
(***************************************************************************)
EXTENDS Benchmark, FiniteSets

CONSTANTS
    Outer, Inner,        \* how many frequencies (or sizes), how many sizes (or nops)
    NUMBER_OF_TESTS,
    NanoFirst,           \* use_nano of the first test
    AdaptNano,           \* whether a result of 0 is measured again in ns
    Elapsed              \* times that a run may take

ASSUME LoopAssumption    == {Outer, Inner, NUMBER_OF_TESTS} \subseteq Nat \ {0}
ASSUME NanoAssumption    == /\ NanoFirst \in {0, 1}
                            /\ AdaptNano \in BOOLEAN
                            /\ AdaptNano => NanoFirst = 0
ASSUME ElapsedAssumption == Elapsed # {} /\ Elapsed \subseteq 0 .. Minus1 - 1

VARIABLES
    creator,             \* where vBenchCreationTask is
    outer, inner,        \* its loops
    use_nano,
    notification,        \* the creator's, number 0
    task,                \* where the benchmark task is
    parameter,           \* pvParameters: the test it is for
    counter,
    \* History
    printed,             \* the last results: test, unit, number of runs, minimum
    inNano               \* how often a test was measured in ns, up to 2

loops   == <<outer, inner, use_nano>>
history == <<printed, inNano>>
vars    == <<bench, creator, loops, notification, task, parameter, counter, history>>

Tests     == (1 .. Outer) \X (1 .. Inner)
Test      == <<outer, inner>>
NoResults == [test |-> <<0, 0>>, nanotime |-> 0, runs |-> 0, min |-> 0]

TypeOK ==
    /\ Statistics
    /\ creator \in {"test", "create", "take", "delete", "decide", "returned"}
    /\ outer \in 1 .. Outer + 1
    /\ inner \in 0 .. Inner + 1
    /\ use_nano \in {0, 1}
    /\ notification \in 0 .. 1
    /\ task \in {"none", "released", "running", "ran", "printed", "notified",
                 "periodic", "delayed"}
    /\ parameter \in Tests \cup {<<0, 0>>}
    /\ counter \in 0 .. NUMBER_OF_TESTS
    /\ printed \in [test : Tests \cup {<<0, 0>>}, nanotime : {0, 1},
                    runs : 0 .. NUMBER_OF_TESTS, min : Word]
    /\ inNano \in [Tests -> 0 .. 2]

Init ==
    /\ InitBenchmark
    /\ creator = "test"
    /\ outer = 1
    /\ inner = 1
    /\ use_nano = NanoFirst
    /\ notification = 0
    /\ task = "none"
    /\ parameter = <<0, 0>>
    /\ counter = 0
    /\ printed = NoResults
    /\ inNano = [test \in Tests |-> 0]

-----------------------------------------------------------------------------
(* vBenchCreationTask                                                        *)

StartTest ==
    /\ creator = "test"
    /\ outer <= Outer
    /\ creator' = "create"
    /\ init_benchmark(use_nano)
    /\ counter' = 0
    /\ UNCHANGED <<loops, notification, task, parameter, history>>

CreateTask ==
    /\ creator = "create"
    /\ creator' = "take"
    /\ task' = "released"
    /\ parameter' = Test
    /\ UNCHANGED <<bench, loops, notification, counter, history>>

(* Slip: the wait times out. *)
TakeNotification_NoWait ==
    /\ creator = "take"
    /\ notification' = 0
    /\ creator' = "delete"
    /\ UNCHANGED <<bench, loops, task, parameter, counter, history>>

TakeNotification ==
    /\ creator = "take"
    /\ notification > 0
    /\ notification' = 0
    /\ creator' = "delete"
    /\ UNCHANGED <<bench, loops, task, parameter, counter, history>>

DeleteTask ==
    /\ creator = "delete"
    /\ creator' = "decide"
    /\ task' = "none"
    /\ UNCHANGED <<bench, loops, notification, parameter, counter, history>>

(* The end of the body of the loops: use_nano, then the size of the next test. *)
(* (With use_nano fixed, the lines about it are not there.) *)
Again == AdaptNano /\ get_minimum_time = 0

(* Slip: the size is not taken back for the second measurement. *)
NextTest_NotAgain ==
    /\ creator = "decide"
    /\ creator' = "test"
    /\ use_nano' = IF AdaptNano THEN (IF Again THEN 1 ELSE 0) ELSE use_nano
    /\ inner' = (inner % Inner) + 1
    /\ outer' = IF inner = Inner THEN outer + 1 ELSE outer
    /\ UNCHANGED <<bench, notification, task, parameter, counter, history>>

NextTest ==
    /\ creator = "decide"
    /\ creator' = "test"
    /\ use_nano' = IF AdaptNano THEN (IF Again THEN 1 ELSE 0) ELSE use_nano
    /\ inner' = IF Again THEN inner ELSE (inner % Inner) + 1
    /\ outer' = IF ~Again /\ inner = Inner THEN outer + 1 ELSE outer
    /\ UNCHANGED <<bench, notification, task, parameter, counter, history>>

Return ==
    /\ creator = "test"
    /\ outer > Outer
    /\ creator' = "returned"
    /\ UNCHANGED <<bench, loops, notification, task, parameter, counter, history>>
-----------------------------------------------------------------------------
(* vBenchmarkTask, once in every period                                      *)

creatorUnchanged == UNCHANGED <<creator, loops, parameter>>

StartRun ==
    /\ task = "released"
    /\ counter < NUMBER_OF_TESTS
    /\ task' = "running"
    /\ creatorUnchanged
    /\ UNCHANGED <<bench, notification, counter, history>>

EndRun ==
    /\ task = "running"
    /\ \E elapsedTime \in Elapsed : run_benchmark(elapsedTime)
    /\ task' = "ran"
    /\ creatorUnchanged
    /\ UNCHANGED <<notification, counter, history>>

CountRun ==
    /\ task = "ran"
    /\ counter' = counter + 1
    /\ task' = "periodic"
    /\ creatorUnchanged
    /\ UNCHANGED <<bench, notification, history>>

ShowResults ==
    /\ task = "released"
    /\ counter = NUMBER_OF_TESTS
    /\ printed' = [test     |-> parameter,
                   nanotime |-> nanotime,
                   runs     |-> test_counter,
                   min      |-> get_minimum_time]
    /\ inNano' = [inNano EXCEPT ![parameter] =
                    IF nanotime = 1 /\ @ < 2 THEN @ + 1 ELSE @]
    /\ task' = "printed"
    /\ creatorUnchanged
    /\ UNCHANGED <<bench, notification, counter>>

NotifyCreator ==
    /\ task = "printed"
    /\ notification' = notification + 1
    /\ task' = "notified"
    /\ creatorUnchanged
    /\ UNCHANGED <<bench, counter, history>>

DelayForEver ==
    /\ task = "notified"
    /\ task' = "delayed"
    /\ creatorUnchanged
    /\ UNCHANGED <<bench, notification, counter, history>>

(* vPeriodicTask calls the code again. *)
Release ==
    /\ task = "periodic"
    /\ task' = "released"
    /\ creatorUnchanged
    /\ UNCHANGED <<bench, notification, counter, history>>
-----------------------------------------------------------------------------
Creator == StartTest \/ CreateTask \/ TakeNotification \/ DeleteTask \/ NextTest \/ Return

BenchmarkTask == StartRun \/ EndRun \/ CountRun \/ ShowResults \/ NotifyCreator
                     \/ DelayForEver \/ Release

Next == Creator \/ BenchmarkTask

(* The time slices of the kernel give each of the two its turn.              *)
Fairness == WF_vars(Creator) /\ WF_vars(BenchmarkTask)

Spec == Init /\ [][Next]_vars /\ Fairness
-----------------------------------------------------------------------------
(* When the creator goes on, the results of the test it waited for have been *)
(* printed, after all of its runs: no notification of another test woke it. *)
ResultsAreComplete ==
    creator = "decide" =>
        /\ printed.test = Test
        /\ printed.runs = NUMBER_OF_TESTS
        /\ printed.nanotime = use_nano
        /\ test_counter = NUMBER_OF_TESTS

(* The series belongs to one task: while a benchmark task measures, the      *)
(* creator is at rest, and the statistics are those of its test. *)
SeriesUndisturbed ==
    task \in {"running", "ran", "periodic", "released", "printed"} =>
        /\ creator = "take"
        /\ parameter = Test
        /\ nanotime = use_nano
        /\ test_counter = (IF task = "ran" THEN counter + 1 ELSE counter)

(* When the creator goes to another test, the last minimum of this one was   *)
(* not 0, or it was measured in ns. *)
ZeroIsMeasuredAgain ==
    [][AdaptNano /\ creator = "decide" /\ Test' # Test
            => printed.min # 0]_vars

(* The unit goes back to us after a measurement in ns: only a minimum of 0   *)
(* us makes it ns (execution-2tasks/main.c:124). *)
NanoOnlyForZero ==
    creator = "create" /\ AdaptNano /\ use_nano = 1 =>
        /\ printed.test = Test
        /\ printed.min = 0

(* All tests end. *)
Finishes == <>(creator = "returned")

(* execution-2tasks/main.c:124-129: if ns were used they are removed, "else" *)
(* a minimum of 0 is measured again in ns: not twice. *)
MeasuredOnceInNano ==
    AdaptNano => \A test \in Tests : inNano[test] <= 1

(* arch/armv8/aarch32/port.c:321: a task function must not return.           *)
TaskDoesNotReturn == creator # "returned"
-----------------------------------------------------------------------------
(* What these rest on (BenchCreator_proofs).                                 *)

(* The creator and the task take turns: there is a task while the creator    *)
(* waits or is about to delete it, and one notification in between. *)
Turns ==
    /\ creator \in {"test", "create", "take", "delete", "decide", "returned"}
    /\ creator \in {"test", "create", "decide", "returned"} =>
          task = "none" /\ notification = 0
    /\ creator = "take" =>
          /\ task # "none"
          /\ notification = (IF task \in {"notified", "delayed"} THEN 1 ELSE 0)
    /\ creator = "delete" =>
          task \in {"notified", "delayed"} /\ notification = 0

(* The series, from its start to its results. *)
Started ==
    /\ creator = "create" => nanotime = use_nano /\ counter = 0 /\ test_counter = 0
    /\ task # "none" => nanotime = use_nano /\ parameter = Test

RunsCounted ==
    /\ counter \in Nat
    /\ task # "none" => test_counter = (IF task = "ran" THEN counter + 1 ELSE counter)
    /\ task \in {"printed", "notified", "delayed"} => counter = NUMBER_OF_TESTS

Results ==
    task \in {"printed", "notified", "delayed"} \/ creator = "decide" =>
        /\ printed.test = Test
        /\ printed.runs = NUMBER_OF_TESTS
        /\ printed.nanotime = use_nano
        /\ printed.min = get_minimum_time
        /\ test_counter = NUMBER_OF_TESTS

(* The unit of the next series. *)
NextInNano ==
    creator \in {"test", "create"} /\ AdaptNano /\ use_nano = 1 =>
        /\ printed.test = Test
        /\ printed.min = 0

TimesMeasured ==
    /\ times \in Seq(Elapsed)
    /\ times = <<>> => min = Minus1 /\ max = 0
    /\ {min, max, test_counter} \subseteq Int

BenchInv ==
    /\ Turns
    /\ Started
    /\ RunsCounted
    /\ Results
    /\ NextInNano
    /\ TimesMeasured
    /\ StatisticsMatchTimes
=============================================================================
