---------------------------- MODULE PeriodicTask ----------------------------
(***************************************************************************)
(* The periodic tasks of one guest: vPeriodicTask (periodic_task.c:21-108) *)
(* over FreeRTOS's delay and the generic timer.  A task runs its job,      *)
(* looks for the next multiple of its period, sleeps for a truncated       *)
(* number of ticks and spins for the rest.                                 *)
(*                                                                         *)
(* The kernel is built without preemption (inc/FreeRTOSConfig.h:33): a     *)
(* task keeps the CPU until it delays, yields or is deleted.  Time passes  *)
(* between any two steps.  Jobs neither block nor yield (a PREM job runs   *)
(* with the scheduler suspended).                                          *)
(***************************************************************************)
EXTENDS Integers

CONSTANTS
    Tasks,         \* the periodic tasks
    NoTask,        \* nobody runs: the idle task does
    Priority,      \* the FreeRTOS priority of each task
    TickPeriod,    \* the period of each task in ticks, 0 for none
    Freq, Rate,    \* counts of the generic timer, and ticks, per second
    Latency,       \* how late, at most, a tick interrupt is handled
    Stalls,        \* whether an interrupt may take time between a task's
                   \*   reading of the counter and its delay
    Horizon        \* bound: the runs look at the time up to here

ASSUME NoTaskAssumption     == NoTask \notin Tasks
ASSUME PriorityAssumption   == Priority \in [Tasks -> Nat]
ASSUME TickPeriodAssumption == TickPeriod \in [Tasks -> Nat]
ASSUME RateAssumption       == Freq \in Nat /\ Rate \in Nat \ {0} /\ Rate <= Freq
ASSUME TimeAssumption       ==
    Latency \in Nat /\ Stalls \in BOOLEAN /\ Horizon \in Nat

VARIABLES
    \* The hardware and FreeRTOS
    now,                   \* the counter of the generic timer
    nextTick,              \* the count at which the timer raises its interrupt
    running,               \* the task that has the CPU
    delay,                 \* the ticks each task still sleeps
    \* The globals of periodic_task.c
    starting_tick, last_period_start, kill_periodic_task,
    \* The task: its place in vPeriodicTask and its locals
    pc, currentTick, next_period_start,
    \* History: the tasks whose job called vTaskPeriodicDelete
    asked

timerVars == <<now, nextTick>>
localVars == <<pc, currentTick, next_period_start>>
vars == <<timerVars, running, delay, starting_tick, last_period_start,
          kill_periodic_task, localVars, asked>>

PCs == {"start", "job", "returned", "compare", "skip", "spin",
        "deleted"}

(* The conversions of generic_timer.h, and the step of port.c; all truncate. *)
pdSYSTICK_TO_TICKS(n) == (n * Rate) \div Freq
pdTICKS_TO_SYSTICK(n) == (n * Freq) \div Rate
timer_step            == Freq \div Rate

tickPeriod(t) == pdTICKS_TO_SYSTICK(TickPeriod[t])

(* starting_tick is 0 until the first task has run; the counter is not. *)
Init ==
    /\ now = 1
    /\ nextTick = 1 + timer_step
    /\ running = NoTask
    /\ delay = [t \in Tasks |-> 0]
    /\ starting_tick = 0
    /\ last_period_start = [t \in Tasks |-> 0]
    /\ kill_periodic_task = 0
    /\ pc = [t \in Tasks |-> "start"]
    /\ currentTick = [t \in Tasks |-> 0]
    /\ next_period_start = [t \in Tasks |-> 0]
    /\ asked = {}
-----------------------------------------------------------------------------
(* Hardware and kernel *)

(* The counter counts, but not past a tick that is overdue. *)
PassTime ==
    /\ now < Horizon /\ now < nextTick + Latency
    /\ Stalls \/ \A t \in Tasks : pc[t] \notin {"compare", "skip"}
    /\ now' = now + 1
    /\ UNCHANGED <<nextTick, running, delay, starting_tick, last_period_start,
                   kill_periodic_task, localVars, asked>>

(* The tick interrupt: the timer is set again from now, and the kernel        *)
(* counts down the tasks that sleep.                                          *)
Tick ==
    /\ nextTick <= now
    /\ nextTick' = now + timer_step
    /\ delay' = [t \in Tasks |-> IF delay[t] = 0 THEN 0 ELSE delay[t] - 1]
    /\ UNCHANGED <<now, running, starting_tick, last_period_start,
                   kill_periodic_task, localVars, asked>>

Ready(t) == delay[t] = 0 /\ pc[t] # "deleted"

(* The idle task has yielded to a ready task of the highest priority. *)
Dispatch(t) ==
    /\ running = NoTask
    /\ Ready(t)
    /\ \A u \in Tasks : Ready(u) => Priority[u] <= Priority[t]
    /\ running' = t
    /\ UNCHANGED <<timerVars, delay, starting_tick, last_period_start,
                   kill_periodic_task, localVars, asked>>

AtHorizon ==
    /\ now = Horizon
    /\ UNCHANGED vars
-----------------------------------------------------------------------------
(* vPeriodicTask *)

(* Task t has the CPU and goes from one place of vPeriodicTask to another. *)
Goto(t, from, to) ==
    /\ running = t
    /\ pc[t] = from
    /\ pc' = [pc EXCEPT ![t] = to]

StartTask(t) ==
    /\ Goto(t, "start", "job")
    /\ starting_tick' = IF starting_tick = 0 THEN now ELSE starting_tick
    /\ last_period_start' = [last_period_start EXCEPT ![t] = starting_tick']
    /\ UNCHANGED <<timerVars, running, delay, kill_periodic_task, currentTick,
                   next_period_start, asked>>

(* The job; it may call vTaskPeriodicDelete. *)
RunTaskCode(t) ==
    /\ Goto(t, "job", "returned")
    /\ \/ UNCHANGED <<kill_periodic_task, asked>>
       \/ kill_periodic_task' = 1 /\ asked' = asked \cup {t}
    /\ UNCHANGED <<timerVars, running, delay, starting_tick, last_period_start,
                   currentTick, next_period_start>>

(* Slip: the flag is not taken back. *)
DeleteSelf_KeepFlag(t) ==
    /\ Goto(t, "returned", "deleted")
    /\ kill_periodic_task = 1
    /\ running' = NoTask
    /\ UNCHANGED <<timerVars, delay, starting_tick, last_period_start,
                   kill_periodic_task, currentTick, next_period_start, asked>>

(* vTaskDelete(NULL) gives up the CPU for good. *)
DeleteSelf(t) ==
    /\ Goto(t, "returned", "deleted")
    /\ kill_periodic_task = 1
    /\ kill_periodic_task' = 0
    /\ running' = NoTask
    /\ UNCHANGED <<timerVars, delay, starting_tick, last_period_start,
                   currentTick, next_period_start, asked>>

(* Period 0: the next job starts at once. *)
RepeatAtOnce(t) ==
    /\ Goto(t, "returned", "job")
    /\ kill_periodic_task = 0 /\ tickPeriod(t) = 0
    /\ last_period_start' = [last_period_start EXCEPT ![t] = now]
    /\ UNCHANGED <<timerVars, running, delay, starting_tick, kill_periodic_task,
                   currentTick, next_period_start, asked>>

(* Slip: the period that has just ended is taken for the next one. *)
ReadCounter_SamePeriod(t) ==
    /\ Goto(t, "returned", "compare")
    /\ kill_periodic_task = 0 /\ tickPeriod(t) # 0
    /\ currentTick' = [currentTick EXCEPT ![t] = now]
    /\ next_period_start' = [next_period_start EXCEPT ![t] = last_period_start[t]]
    /\ UNCHANGED <<timerVars, running, delay, starting_tick, last_period_start,
                   kill_periodic_task, asked>>

ReadCounter(t) ==
    /\ Goto(t, "returned", "compare")
    /\ kill_periodic_task = 0 /\ tickPeriod(t) # 0
    /\ currentTick' = [currentTick EXCEPT ![t] = now]
    /\ next_period_start' = [next_period_start EXCEPT
                                ![t] = last_period_start[t] + tickPeriod(t)]
    /\ UNCHANGED <<timerVars, running, delay, starting_tick, last_period_start,
                   kill_periodic_task, asked>>

(* Slip: a late job does not look for a period that is still to come. *)
WaitForPeriod_NoSkip(t) ==
    /\ running = t
    /\ pc[t] = "compare" /\ currentTick[t] # next_period_start[t]
    /\ pc' = [pc EXCEPT ![t] = "spin"]
    /\ delay' = [delay EXCEPT ![t] =
                    pdSYSTICK_TO_TICKS(next_period_start[t] - currentTick[t])]
    /\ running' = NoTask
    /\ UNCHANGED <<timerVars, starting_tick, last_period_start,
                   kill_periodic_task, currentTick, next_period_start, asked>>

(* vTaskDelay: sleep, or only yield if there is no whole tick to wait. *)
WaitForPeriod(t) ==
    /\ running = t
    /\ \/ pc[t] = "compare" /\ currentTick[t] < next_period_start[t]
       \/ pc[t] = "skip" /\ currentTick[t] <= next_period_start[t]
    /\ pc' = [pc EXCEPT ![t] = "spin"]
    /\ delay' = [delay EXCEPT ![t] =
                    pdSYSTICK_TO_TICKS(next_period_start[t] - currentTick[t])]
    /\ running' = NoTask
    /\ UNCHANGED <<timerVars, starting_tick, last_period_start,
                   kill_periodic_task, currentTick, next_period_start, asked>>

(* The next period starts on this very count: no delay. *)
JustInTime(t) ==
    /\ Goto(t, "compare", "spin")
    /\ currentTick[t] = next_period_start[t]
    /\ UNCHANGED <<timerVars, running, delay, starting_tick, last_period_start,
                   kill_periodic_task, currentTick, next_period_start, asked>>

(* Slip: a period that starts on this very count is skipped too. *)
SkipPeriod_TooFar(t) ==
    /\ Goto(t, "compare", "skip") \/ Goto(t, "skip", "skip")
    /\ currentTick[t] >= next_period_start[t]
    /\ next_period_start' = [next_period_start EXCEPT ![t] = @ + tickPeriod(t)]
    /\ UNCHANGED <<timerVars, running, delay, starting_tick, last_period_start,
                   kill_periodic_task, currentTick, asked>>

(* The job was late: one period further. *)
SkipPeriod(t) ==
    /\ Goto(t, "compare", "skip") \/ Goto(t, "skip", "skip")
    /\ currentTick[t] > next_period_start[t]
    /\ next_period_start' = [next_period_start EXCEPT ![t] = @ + tickPeriod(t)]
    /\ UNCHANGED <<timerVars, running, delay, starting_tick, last_period_start,
                   kill_periodic_task, currentTick, asked>>

Spin(t) ==
    /\ Goto(t, "spin", "spin")
    /\ currentTick[t] < next_period_start[t]
    /\ currentTick' = [currentTick EXCEPT ![t] = now]
    /\ UNCHANGED <<timerVars, running, delay, starting_tick, last_period_start,
                   kill_periodic_task, next_period_start, asked>>

(* Slip: the next period begins when the delay is over, without the spin. *)
StartPeriod_NoSpin(t) ==
    /\ Goto(t, "spin", "job")
    /\ last_period_start' = [last_period_start EXCEPT
                                ![t] = next_period_start[t]]
    /\ UNCHANGED <<timerVars, running, delay, starting_tick, kill_periodic_task,
                   currentTick, next_period_start, asked>>

(* Slip: the period is counted from the actual start. *)
StartPeriod_Drift(t) ==
    /\ Goto(t, "spin", "job")
    /\ currentTick[t] >= next_period_start[t]
    /\ last_period_start' = [last_period_start EXCEPT ![t] = currentTick[t]]
    /\ UNCHANGED <<timerVars, running, delay, starting_tick, kill_periodic_task,
                   currentTick, next_period_start, asked>>

StartPeriod(t) ==
    /\ Goto(t, "spin", "job")
    /\ currentTick[t] >= next_period_start[t]
    /\ last_period_start' = [last_period_start EXCEPT
                                ![t] = next_period_start[t]]
    /\ UNCHANGED <<timerVars, running, delay, starting_tick, kill_periodic_task,
                   currentTick, next_period_start, asked>>

TaskStep(t) ==
    \/ StartTask(t)     \/ RunTaskCode(t)   \/ DeleteSelf(t)
    \/ RepeatAtOnce(t)  \/ ReadCounter(t)   \/ WaitForPeriod(t)
    \/ JustInTime(t)    \/ SkipPeriod(t)    \/ Spin(t)
    \/ StartPeriod(t)

Next ==
    \/ PassTime
    \/ Tick
    \/ \E t \in Tasks : Dispatch(t) \/ TaskStep(t)
    \/ AtHorizon

Spec == Init /\ [][Next]_vars
-----------------------------------------------------------------------------
TypeOK ==
    /\ now \in Nat \ {0} /\ nextTick \in Nat
    /\ running \in Tasks \cup {NoTask}
    /\ delay \in [Tasks -> Nat]
    /\ starting_tick \in Nat
    /\ last_period_start \in [Tasks -> Nat]
    /\ kill_periodic_task \in {0, 1}
    /\ pc \in [Tasks -> PCs]
    /\ currentTick \in [Tasks -> Nat]
    /\ next_period_start \in [Tasks -> Nat]
    /\ asked \in SUBSET Tasks

(* No job runs before its release: the response time end_time - release_time  *)
(* of prem_task.c:214, an unsigned subtraction, never wraps around.           *)
NeverEarly ==
    \A t \in Tasks : pc[t] \in {"job", "returned"} => last_period_start[t] <= now

(* However late its jobs, a task is released only at multiples of its period  *)
(* counted from the one start that all tasks share (periodic_task.c:24-27).   *)
OnTheGrid ==
    \A t \in Tasks :
        pc[t] # "start" /\ tickPeriod(t) # 0 =>
            \E k \in 0 .. last_period_start[t] :
                last_period_start[t] = starting_tick + k * tickPeriod(t)

(* The period a task waits for is the next one, or the ones it leaves out     *)
(* had all begun (periodic_task.c:81-87).                                     *)
SkipsOnlyMissed ==
    \A t \in Tasks :
        pc[t] = "spin" =>
            \/ next_period_start[t] = last_period_start[t] + tickPeriod(t)
            \/ next_period_start[t] < currentTick[t] + tickPeriod(t)

(* The one kill flag kills the task whose job raised it and no other, before  *)
(* it runs again (periodic_task.c:50-55).                                     *)
KillHitsTheAsker ==
    \A t \in Tasks :
        t \in asked <=> \/ pc[t] = "deleted"
                        \/ /\ kill_periodic_task = 1
                           /\ running = t /\ pc[t] = "returned"

(* Two releases of a task are a whole period apart, or more.                  *)
PeriodApart ==
    [][\A t \in Tasks :
          pc[t] = "spin" /\ pc'[t] = "job" =>
              last_period_start'[t] >= last_period_start[t] + tickPeriod(t)]_vars
-----------------------------------------------------------------------------
(* "the periodic task will try to execute it as soon as possible" after a     *)
(* late job (inc/periodic_task.h:30-32): it is not put to sleep.              *)
LateRunsAtOnce ==
    \A t \in Tasks :
        delay[t] > 0 => next_period_start[t] <= last_period_start[t] + tickPeriod(t)

(* "The pdSYSTICK_TO_TICKS gives an underestimation of the number of cycles   *)
(* to wait" (periodic_task.c:70): the sleep ends before the period starts.    *)
DelayUnderestimates ==
    \A t \in Tasks : delay[t] > 0 => now <= next_period_start[t]
=============================================================================
