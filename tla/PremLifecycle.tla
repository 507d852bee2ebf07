--------------------------- MODULE PremLifecycle ----------------------------
(***************************************************************************)
(* The life of PREM tasks on one core (src/prem_task.c, periodic_task.c):  *)
(* creation, initialisation, the ids that index the shared arrays, the     *)
(* measurement of response times, and the three requests a job may make    *)
(* (delete, display, change of prefetch size), each a single flag shared   *)
(* by all tasks.                                                           *)
(*                                                                         *)
(* A job of a PREM task runs with the scheduler suspended and the kernel   *)
(* does not preempt, so a task that got the core keeps it to the end of    *)
(* its turn in the loop of vPeriodicTask.  The memory protocol inside a    *)
(* job is PremCore's, the computation of releases PeriodicTask's.          *)
(***************************************************************************)
EXTENDS Naturals, FiniteSets, Sequences

CONSTANTS
    Tasks,          \* tasks main creates
    Plain,          \* those created with xTaskPeriodicCreate: not PREM tasks
    Measure,        \* MEASURE_RESPONSE_TIME
    InitTime,       \* when main calls vInitPREM: "first", "last" or "never"
    Requests,       \* the sets of requests a job may make
    Sizes,          \* prefetch sizes
    Durations,      \* of jobs
    NsPerSec, Freq, \* of the generic timer's conversion
    Horizon,        \* bound: the clock
    NoTask

Flags  == {"kill", "display", "change"}
Arrays == {"last_period_start", "response", "response_number"}

ASSUME TasksAssumption    == IsFiniteSet(Tasks) /\ Plain \subseteq Tasks /\ NoTask \notin Tasks
ASSUME MeasureAssumption  == Measure \in BOOLEAN
ASSUME InitAssumption     == InitTime \in {"first", "last", "never"}
ASSUME RequestsAssumption == Requests \subseteq SUBSET Flags
ASSUME DurationAssumption == Durations \subseteq Nat \ {0}
ASSUME FreqAssumption     == NsPerSec \in Nat \ {0} /\ Freq \in Nat \ {0}
ASSUME HorizonAssumption  == Horizon \in Nat

Prem       == Tasks \ Plain
Ids        == 0 .. Cardinality(Tasks)

(* Truncated; the product stays below 2^64. *)
pdSYSTICK_TO_NS(n) == (n * NsPerSec) \div Freq

MaxResponse == pdSYSTICK_TO_NS(Horizon)
UINT64_MAX  == MaxResponse + 1     \* above every response time

VARIABLES
    mainPC,                  \* main: "setup" until the scheduler starts
    pc,                      \* where a task is in vPeriodicTask and vPREMTask
    running,
    periodic_task_number, task_id,       \* the next ids
    periodicId, premId,                  \* the ids in the tasks' structures
    length,                  \* elements allocated for an array
    last_period_start,
    response,                \* response_max, _min, _sum and _number
    data_size,               \* in the task's structure
    flags,                   \* kill_prem_task, ask_display_results, ...
    new_prefetch_size,
    kill_periodic_task,
    now,
    \* History
    stray,                   \* arrays accessed outside of what was allocated
    release,                 \* the release of the task's current job
    series,                  \* response times since the task's last display
    sizes,                   \* prefetch sizes of those jobs
    asked,                   \* what the last job of the task asked for
    freed                    \* tasks whose parameters are freed

ids    == <<periodic_task_number, task_id, periodicId, premId>>
memory == <<length, last_period_start, response>>
params == <<data_size, flags, new_prefetch_size, kill_periodic_task>>
past   == <<release, series, sizes, asked, freed>>
vars   == <<mainPC, pc, running, ids, memory, params, now, stray, past>>

Places    == {"none", "new", "ready", "job", "account", "size", "results", "check",
              "deleted"}
Responses == [max : Nat, min : Nat, sum : Nat, number : Nat]

TypeOK ==
    /\ mainPC \in {"setup", "initialised", "started"}
    /\ pc \in [Tasks -> Places]
    /\ running \in Tasks \cup {NoTask}
    /\ periodic_task_number \in Nat
    /\ task_id \in Nat
    /\ periodicId \in [Tasks -> Nat]
    /\ premId \in [Tasks -> Nat]
    /\ length \in [Arrays -> Nat]
    /\ last_period_start \in [Ids -> Nat]
    /\ response \in [Ids -> Responses]
    /\ data_size \in [Tasks -> Sizes]
    /\ flags \subseteq Flags
    /\ new_prefetch_size \in Sizes \cup {0}
    /\ kill_periodic_task \in {0, 1}
    /\ now \in Nat
    /\ stray \subseteq Arrays
    /\ release \in [Tasks -> Nat]
    /\ series \in [Prem -> Seq(Nat)]
    /\ sizes \in [Prem -> SUBSET Sizes]
    /\ asked \in [Tasks -> SUBSET Flags]
    /\ freed \subseteq Prem

-----------------------------------------------------------------------------
(* An access to an element that was not allocated; a pointer that was never   *)
(* set is NULL, and so is what pvPortMalloc(0) returns. *)
Access(arrays, id) ==
    stray' = stray \cup {a \in arrays : id >= length[a]}

NoResults == [max |-> 0, min |-> UINT64_MAX, sum |-> 0, number |-> 0]
Unset     == [max |-> 0, min |-> 0, sum |-> 0, number |-> 0]

Init ==
    /\ mainPC = "setup"
    /\ pc = [t \in Tasks |-> "none"]
    /\ running = NoTask
    /\ periodic_task_number = 0
    /\ task_id = 0
    /\ periodicId = [t \in Tasks |-> 0]
    /\ premId = [t \in Tasks |-> 0]
    /\ length = [a \in Arrays |-> 0]
    /\ last_period_start = [i \in Ids |-> 0]
    /\ response = [i \in Ids |-> Unset]
    /\ data_size \in [Tasks -> Sizes]
    /\ flags = {}
    /\ new_prefetch_size = 0
    /\ kill_periodic_task = 0
    /\ now = 0
    /\ stray = {}
    /\ release = [t \in Tasks |-> 0]
    /\ series = [t \in Prem |-> <<>>]
    /\ sizes = [t \in Prem |-> {}]
    /\ asked = [t \in Tasks |-> {}]
    /\ freed = {}

-----------------------------------------------------------------------------
(* main                                                                      *)

SetupDone == \A t \in Tasks : pc[t] # "none"

(* What both kinds of creation do.  The tasks of main are created before       *)
(* vInitPREM or after it, depending on the application. *)
xTaskPeriodicCreate(t) ==
    /\ mainPC # "started"
    /\ pc[t] = "none"
    /\ InitTime = "first" <=> mainPC = "initialised"
    /\ pc' = [pc EXCEPT ![t] = "new"]
    /\ periodicId' = [periodicId EXCEPT ![t] = periodic_task_number]
    /\ periodic_task_number' = periodic_task_number + 1
    /\ UNCHANGED <<mainPC, running, memory, params, now, stray, past>>

CreatePeriodic(t) ==
    /\ t \in Plain
    /\ xTaskPeriodicCreate(t)
    /\ UNCHANGED <<task_id, premId>>

xTaskPREMCreate(t) ==
    /\ t \in Prem
    /\ premId' = [premId EXCEPT ![t] = task_id]
    /\ task_id' = task_id + 1
    /\ xTaskPeriodicCreate(t)

vInitPeriodic(n) == [length EXCEPT !["last_period_start"] = n]

(* response_number is written without having been allocated. *)
vInitPREM ==
    /\ mainPC = "setup"
    /\ InitTime # "never"
    /\ InitTime = "last" => SetupDone
    /\ mainPC' = "initialised"
    /\ length' = [vInitPeriodic(periodic_task_number)
                      EXCEPT !["response"] = IF Measure THEN task_id ELSE 0]
    /\ response' = [i \in Ids |-> IF Measure /\ i < task_id THEN NoResults
                                                          ELSE response[i]]
    /\ IF Measure /\ task_id > 0 THEN Access({"response_number"}, task_id - 1)
                                 ELSE UNCHANGED stray
    /\ UNCHANGED <<pc, running, ids, last_period_start, params, now, past>>

vTaskStartScheduler ==
    /\ mainPC = IF InitTime = "never" THEN "setup" ELSE "initialised"
    /\ SetupDone
    /\ mainPC' = "started"
    /\ UNCHANGED <<pc, running, ids, memory, params, now, stray, past>>

-----------------------------------------------------------------------------
(* The loop of vPeriodicTask.                                                *)

Goto(t, from, to) ==
    /\ running = t
    /\ pc[t] = from
    /\ pc' = [pc EXCEPT ![t] = to]

(* The first turn of a task, from the shared starting tick (0). *)
StartTask(t) ==
    /\ mainPC = "started"
    /\ running = NoTask
    /\ pc[t] = "new"
    /\ pc' = [pc EXCEPT ![t] = "job"]
    /\ running' = t
    /\ last_period_start' = [last_period_start EXCEPT ![periodicId[t]] = 0]
    /\ release' = [release EXCEPT ![t] = 0]
    /\ Access({"last_period_start"}, periodicId[t])
    /\ UNCHANGED <<mainPC, ids, length, response, params, now, series, sizes,
                   asked, freed>>

(* A later turn: the period that begins is some time after the previous one.  *)
NextPeriod(t) ==
    /\ running = NoTask
    /\ pc[t] = "ready"
    /\ pc' = [pc EXCEPT ![t] = "job"]
    /\ running' = t
    /\ \E r \in last_period_start[periodicId[t]] .. now :
           /\ last_period_start' =
                  [last_period_start EXCEPT ![periodicId[t]] = r]
           /\ release' = [release EXCEPT ![t] = r]
    /\ Access({"last_period_start"}, periodicId[t])
    /\ UNCHANGED <<mainPC, ids, length, response, params, now, series, sizes,
                   asked, freed>>

Work == \E d \in Durations : /\ now + d <= Horizon
                            /\ now' = now + d

(* The job of a plain task. *)
RunPlain(t) ==
    /\ t \in Plain
    /\ Goto(t, "job", "check")
    /\ Work
    /\ UNCHANGED <<mainPC, running, ids, memory, params, stray, past>>

(* vTaskPREMDelete, askDisplayResults and askChangePrefetchSize: called by    *)
(* the code of a job. *)
RunTaskCode(t) ==
    /\ t \in Prem
    /\ Goto(t, "job", "account")
    /\ Work
    /\ sizes' = [sizes EXCEPT ![t] = @ \cup {data_size[t]}]
    /\ \E R \in Requests :
        /\ flags' = flags \cup R
        /\ asked' = [asked EXCEPT ![t] = R]
        /\ IF "change" \in R THEN new_prefetch_size' \in Sizes
                             ELSE UNCHANGED new_prefetch_size
    /\ UNCHANGED <<mainPC, running, ids, memory, data_size, kill_periodic_task,
                   stray, release, series, freed>>

AtLeast(a, b) == IF a < b THEN b ELSE a
AtMost(a, b)  == IF a > b THEN b ELSE a

Measured(r, time) ==
    IF r.number > 0
    THEN [max |-> AtLeast(r.max, time), min |-> AtMost(r.min, time),
          sum |-> r.sum + time, number |-> r.number + 1]
    ELSE [r EXCEPT !.number = @ + 1]

(* The release is that of the periodic task whose id is this PREM id. *)
MeasureResponse(t) ==
    /\ Goto(t, "account", "size")
    /\ LET i == premId[t]
       IN IF Measure
          THEN /\ response' = [response EXCEPT ![i] =
                            Measured(@, pdSYSTICK_TO_NS(now - last_period_start[i]))]
               /\ Access(Arrays, i)
          ELSE UNCHANGED <<response, stray>>
    /\ series' = [series EXCEPT ![t] = Append(@, pdSYSTICK_TO_NS(now - release[t]))]
    /\ UNCHANGED <<mainPC, running, ids, length, last_period_start, params, now,
                   release, sizes, asked, freed>>

(* Slip: a size is changed only by a job that asks for nothing else. *)
ChangePrefetchSize_Alone(t) ==
    /\ Goto(t, "size", "results")
    /\ IF flags = {"change"}
       THEN /\ data_size' = [data_size EXCEPT ![t] = new_prefetch_size]
            /\ flags' = {}
       ELSE UNCHANGED <<data_size, flags>>
    /\ UNCHANGED <<mainPC, running, ids, memory, new_prefetch_size,
                   kill_periodic_task, now, stray, past>>

ChangePrefetchSize(t) ==
    /\ Goto(t, "size", "results")
    /\ IF "change" \in flags
       THEN /\ data_size' = [data_size EXCEPT ![t] = new_prefetch_size]
            /\ flags' = flags \ {"change"}
       ELSE UNCHANGED <<data_size, flags>>
    /\ UNCHANGED <<mainPC, running, ids, memory, new_prefetch_size,
                   kill_periodic_task, now, stray, past>>

(* Slip: the number of jobs is not reset. *)
display_results_KeepNumber(t) ==
    /\ response' = [response EXCEPT ![premId[t]] = 
                       [NoResults EXCEPT !.number = response[premId[t]].number]]
    /\ Access(Arrays \ {"last_period_start"}, premId[t])
    /\ series' = [series EXCEPT ![t] = <<>>]
    /\ sizes' = [sizes EXCEPT ![t] = {}]

(* Measured or not, the results are sent and reset. *)
display_results(t) ==
    /\ response' = [response EXCEPT ![premId[t]] = NoResults]
    /\ Access(Arrays \ {"last_period_start"}, premId[t])
    /\ series' = [series EXCEPT ![t] = <<>>]
    /\ sizes' = [sizes EXCEPT ![t] = {}]

(* Slip: the flag of the periodic task is not raised. *)
Delete_PremOnly(t) ==
    /\ "kill" \in flags
    /\ Goto(t, "results", "check")
    /\ flags' = flags \ {"kill"}
    /\ display_results(t)
    /\ freed' = freed \cup {t}
    /\ UNCHANGED <<mainPC, running, ids, length, last_period_start, data_size,
                   new_prefetch_size, kill_periodic_task, now, release, asked>>

Delete(t) ==
    /\ "kill" \in flags
    /\ Goto(t, "results", "check")
    /\ flags' = flags \ {"kill"}
    /\ kill_periodic_task' = 1
    /\ display_results(t)
    /\ freed' = freed \cup {t}
    /\ UNCHANGED <<mainPC, running, ids, length, last_period_start, data_size,
                   new_prefetch_size, now, release, asked>>

(* Slip: the flag stays up. *)
Display_KeepFlag(t) ==
    /\ flags \cap {"kill", "display"} = {"display"}
    /\ Goto(t, "results", "check")
    /\ display_results(t)
    /\ UNCHANGED <<mainPC, running, ids, length, last_period_start, params, now,
                   release, asked, freed>>

Display(t) ==
    /\ flags \cap {"kill", "display"} = {"display"}
    /\ Goto(t, "results", "check")
    /\ flags' = flags \ {"display"}
    /\ display_results(t)
    /\ UNCHANGED <<mainPC, running, ids, length, last_period_start, data_size,
                   new_prefetch_size, kill_periodic_task, now, release, asked,
                   freed>>

GoOn(t) ==
    /\ flags \cap {"kill", "display"} = {}
    /\ Goto(t, "results", "check")
    /\ UNCHANGED <<mainPC, running, ids, memory, params, now, stray, past>>

(* vPeriodicTask after the job. *)
DeleteSelf(t) ==
    /\ kill_periodic_task = 1
    /\ Goto(t, "check", "deleted")
    /\ kill_periodic_task' = 0
    /\ running' = NoTask
    /\ UNCHANGED <<mainPC, ids, memory, data_size, flags, new_prefetch_size, now,
                   stray, past>>

Wait(t) ==
    /\ kill_periodic_task = 0
    /\ Goto(t, "check", "ready")
    /\ running' = NoTask
    /\ UNCHANGED <<mainPC, ids, memory, params, now, stray, past>>

-----------------------------------------------------------------------------
Done == \/ \A d \in Durations : now + d > Horizon
        \/ \A t \in Tasks : pc[t] = "deleted"

(* Bound: near the horizon, and when every task is deleted, the model stutters. *)
Stop == Done /\ UNCHANGED vars

Turn(t) ==
    \/ CreatePeriodic(t) \/ xTaskPREMCreate(t)
    \/ StartTask(t)      \/ NextPeriod(t)
    \/ RunPlain(t)       \/ RunTaskCode(t)
    \/ MeasureResponse(t) \/ ChangePrefetchSize(t)
    \/ Delete(t) \/ Display(t) \/ GoOn(t)
    \/ DeleteSelf(t) \/ Wait(t)

Next ==
    \/ \E t \in Tasks : Turn(t)
    \/ vInitPREM
    \/ vTaskStartScheduler
    \/ Stop

Spec == Init /\ [][Next]_vars
-----------------------------------------------------------------------------
(* No task reads or writes outside of what is allocated, response_number      *)
(* apart: the arrays are sized by the tasks created so far and indexed by two *)
(* different counters, and a task does not use its parameters once they are   *)
(* freed: it only deletes itself (prem_task.c:248). *)
AccessesAllocated ==
    /\ stray \subseteq {"response_number"}
    /\ \A t \in freed : pc[t] \in {"check", "deleted"}

(* The first response time of a series does not count. *)
Counted(s) == {s[k] : k \in 2 .. Len(s)}

SumUpTo(s) ==
    LET upto[k \in 0 .. Len(s)] == IF k < 2 THEN 0 ELSE upto[k - 1] + s[k]
    IN  upto

StatisticsOf(s) ==
    [max    |-> CHOOSE m \in Counted(s) \cup {0} : \A x \in Counted(s) : x <= m,
     min    |-> CHOOSE m \in Counted(s) \cup {UINT64_MAX} :
                    \A x \in Counted(s) : m <= x,
     sum    |-> SumUpTo(s)[Len(s)],
     number |-> Len(s)]

(* What the arrays hold for a PREM task is the statistics of its jobs since   *)
(* its last display, without the first of them, each from its own release to  *)
(* its end: whatever other tasks measure, display or delete in between.  (As   *)
(* long as the two ids of the task agree: they do unless a plain periodic task *)
(* was created before it.) *)
StatisticsAreSeries ==
    Measure /\ mainPC = "started" =>
        \A t \in Prem :
            premId[t] = periodicId[t] => response[premId[t]] = StatisticsOf(series[t])

(* The jobs between two displays prefetch the same size, when a task that      *)
(* asks for another size asks for a display too (prem_task.h: the change is    *)
(* effective from the next execution onwards). *)
SeriesOfOneSize == \A t \in Prem : Cardinality(sizes[t]) <= 1

(* A request is served in the job that made it, and by its task: no flag is    *)
(* left for another task, and a task that goes on or is deleted had asked so.  *)
RequestsServedByAsker ==
    /\ running = NoTask => flags = {} /\ kill_periodic_task = 0
    /\ \A t \in Tasks : /\ pc[t] = "deleted" => "kill" \in asked[t]
                        /\ pc[t] = "ready"   => "kill" \notin asked[t]

(* prem_task.c:311, "Malloc the measure pointers". *)
MeasureArraysAllocated == "response_number" \notin stray
-----------------------------------------------------------------------------
(* What these rest on (PremLifecycle_proofs).                                *)

InTurn(t) == pc[t] \in {"job", "account", "size", "results", "check"}

(* One task is in its turn, and none before the scheduler starts. *)
OneTurn ==
    /\ \A t \in Tasks : InTurn(t) <=> running = t
    /\ \A t \in Tasks : pc[t] \in {"account", "size", "results"} => t \in Prem
    /\ IF mainPC = "started" THEN SetupDone
                             ELSE \A t \in Tasks : pc[t] \in {"none", "new"}

(* Nothing that was noted lies in the future, and time ends at the bound. *)
NotInFuture ==
    /\ now <= Horizon
    /\ \A i \in Ids : last_period_start[i] <= now
    /\ \A t \in Tasks : release[t] <= now
    /\ \A t \in Prem : series[t] \in Seq(0 .. MaxResponse)

(* A size to change to has been given. *)
SizeGiven == "change" \in flags => new_prefetch_size \in Sizes

(* Each counter gives every task it counts an id of its own. *)
Created == {t \in Tasks : pc[t] # "none"}

OwnIds ==
    /\ periodic_task_number = Cardinality(Created)
    /\ task_id <= periodic_task_number
    /\ \A t \in Created :
          /\ periodicId[t] < periodic_task_number
          /\ \A u \in Created : t # u => periodicId[t] # periodicId[u]
    /\ \A t \in Created \cap Prem :
          /\ premId[t] < task_id
          /\ \A u \in Created \cap Prem : t # u => premId[t] # premId[u]

(* vInitPREM after the creations sizes the arrays for all of them. *)
ArraysSized ==
    InitTime = "last" /\ mainPC # "setup" =>
        /\ SetupDone
        /\ length["last_period_start"] = periodic_task_number
        /\ length["response"] = IF Measure THEN task_id ELSE 0

StraysKnown == InitTime = "last" /\ Measure => stray \subseteq {"response_number"}

FreedIsLeaving ==
    \A t \in freed : pc[t] = "deleted" \/ (pc[t] = "check" /\ kill_periodic_task = 1)

(* What is left of the requests of the job, step by step. *)
RequestsPending ==
    /\ running = NoTask => flags = {} /\ kill_periodic_task = 0
    /\ \A t \in Tasks :
        /\ asked[t] \in Requests \cup {{}}
        /\ pc[t] = "deleted" => "kill" \in asked[t]
        /\ pc[t] \in {"none", "new", "ready", "job"} => "kill" \notin asked[t]
        /\ pc[t] = "job" => flags = {}
        /\ pc[t] \in {"account", "size"} => flags = asked[t]
        /\ pc[t] = "results" => flags = asked[t] \ {"change"}
        /\ pc[t] = "check" => flags = {}
        /\ InTurn(t) => kill_periodic_task =
                            (IF pc[t] = "check" /\ "kill" \in asked[t] THEN 1 ELSE 0)

(* A change is pending from the job that asks for it to the next step but one, *)
(* and the other requests of that job for one step more. *)
ChangePending ==
    /\ "change" \in flags =>
          /\ running \in Tasks
          /\ pc[running] \in {"account", "size"}
          /\ "change" \in asked[running]
    /\ \A t \in Tasks :
          /\ pc[t] \in {"account", "size"} => asked[t] \subseteq flags
          /\ pc[t] = "results" => asked[t] \ {"change"} \subseteq flags
          /\ asked[t] \in Requests \cup {{}}

(* Until its size changes, and then until it displays, a task has one size.  *)
OneSize ==
    \A t \in Prem :
        /\ \E s \in Sizes : sizes[t] \subseteq {s}
        /\ pc[t] # "results" \/ "change" \notin asked[t] =>
              sizes[t] \subseteq {data_size[t]}

(* A job's release is its element of the array, if the ids agree. *)
OwnRelease ==
    \A t \in Tasks : InTurn(t) => release[t] = last_period_start[periodicId[t]]

(* The statistics of a series, said without CHOOSE. *)
AreStatistics(r, s) ==
    /\ r \in Responses
    /\ r.max \in Counted(s) \cup {0}
    /\ \A x \in Counted(s) : x <= r.max
    /\ r.min \in Counted(s) \cup {UINT64_MAX}
    /\ \A x \in Counted(s) : r.min <= x
    /\ r.sum = SumUpTo(s)[Len(s)]
    /\ r.number = Len(s)

StatisticsKept ==
    \A t \in Prem :
        IF mainPC = "setup"
        THEN series[t] = <<>>
        ELSE Measure /\ InitTime = "last" /\ premId[t] = periodicId[t] =>
                 AreStatistics(response[premId[t]], series[t])
=============================================================================
