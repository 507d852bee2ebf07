------------------------ MODULE PeriodicTask_proofs ------------------------
(***************************************************************************)
(* Theorems about PeriodicTask, for all periods, frequencies, latencies    *)
(* and times.                                                              *)
(***************************************************************************)
EXTENDS PeriodicTask, TLAPS

(* Truncating division of natural numbers gives a natural number. *)
LEMMA DivNat ==
    ASSUME NEW a \in Nat, NEW b \in Nat \ {0}
    PROVE  a \div b \in Nat
  BY Z3

LEMMA ProductNat ==
    ASSUME NEW a \in Nat, NEW b \in Nat
    PROVE  a * b \in Nat
  BY Z3

(* Periods and delays are counts. *)
LEMMA PeriodNat == ASSUME NEW t \in Tasks PROVE tickPeriod(t) \in Nat
  <1>1. TickPeriod[t] * Freq \in Nat
    BY ProductNat, TickPeriodAssumption, RateAssumption
  <1> QED  BY <1>1, DivNat, RateAssumption DEF tickPeriod, pdTICKS_TO_SYSTICK

LEMMA DelayNat == ASSUME NEW n \in Nat PROVE pdSYSTICK_TO_TICKS(n) \in Nat
  <1>1. n * Rate \in Nat
    BY ProductNat, RateAssumption
  <1>2. Freq \in Nat \ {0}
    BY RateAssumption
  <1> QED  BY <1>1, <1>2, DivNat DEF pdSYSTICK_TO_TICKS

LEMMA StepNat == timer_step \in Nat
  BY DivNat, RateAssumption DEF timer_step


-----------------------------------------------------------------------------
LEMMA InitTypeOK == Init => TypeOK
  BY StepNat DEF Init, TypeOK, PCs

(* Every step keeps the types. *)
LEMMA StepTypeOK == TypeOK /\ [Next]_vars => TypeOK'
  <1> SUFFICES ASSUME TypeOK, [Next]_vars PROVE TypeOK'
    OBVIOUS
  <1> USE DEF TypeOK
  <1>1. CASE PassTime
    BY <1>1 DEF PassTime, localVars
  <1>2. CASE Tick
    BY <1>2, StepNat DEF Tick, localVars
  <1>3. ASSUME NEW t \in Tasks, Dispatch(t) PROVE TypeOK'
    BY <1>3 DEF Dispatch, timerVars, localVars
  <1>4. ASSUME NEW t \in Tasks, TaskStep(t) PROVE TypeOK'
    <2> USE DEF Goto, PCs, timerVars
    <2>1. CASE StartTask(t)
      BY <2>1 DEF StartTask
    <2>2. CASE RunTaskCode(t)
      BY <2>2 DEF RunTaskCode
    <2>3. CASE DeleteSelf(t)
      BY <2>3 DEF DeleteSelf
    <2>4. CASE RepeatAtOnce(t)
      BY <2>4 DEF RepeatAtOnce
    <2>5. CASE ReadCounter(t)
      BY <2>5, PeriodNat DEF ReadCounter
    <2>6. CASE WaitForPeriod(t)
      <3>1. next_period_start[t] - currentTick[t] \in Nat
        BY <2>6 DEF WaitForPeriod
      <3> HIDE DEF PCs
      <3> QED  BY <2>6, <3>1, DelayNat DEF WaitForPeriod, PCs
    <2>7. CASE JustInTime(t)
      BY <2>7 DEF JustInTime
    <2>8. CASE SkipPeriod(t)
      BY <2>8, PeriodNat DEF SkipPeriod
    <2>9. CASE Spin(t)
      BY <2>9 DEF Spin
    <2>10. CASE StartPeriod(t)
      BY <2>10 DEF StartPeriod
    <2> QED  BY <1>4, <2>1, <2>2, <2>3, <2>4, <2>5, <2>6, <2>7, <2>8, <2>9,
                <2>10 DEF TaskStep
  <1>5. CASE UNCHANGED vars
    BY <1>5 DEF vars, timerVars, localVars
  <1> QED  BY <1>1, <1>2, <1>3, <1>4, <1>5 DEF Next, AtHorizon

(* Counters are natural numbers and no task leaves vPeriodicTask.            *)
THEOREM TypeCorrect == Spec => []TypeOK
  BY InitTypeOK, StepTypeOK, PTL DEF Spec
-----------------------------------------------------------------------------
(* Nothing a task has noted lies in the future. *)
TimeInv ==
    /\ starting_tick <= now
    /\ \A t \in Tasks : last_period_start[t] <= now /\ currentTick[t] <= now

LEMMA InitTimeInv == Init => TimeInv
  BY DEF Init, TimeInv

LEMMA StepTimeInv == TypeOK /\ TimeInv /\ [Next]_vars => TimeInv'
  <1> SUFFICES ASSUME TypeOK, TimeInv, [Next]_vars PROVE TimeInv'
    OBVIOUS
  <1> USE DEF TypeOK, TimeInv
  <1>1. CASE PassTime
    BY <1>1 DEF PassTime, localVars
  <1>2. CASE Tick
    BY <1>2 DEF Tick, localVars
  <1>3. ASSUME NEW t \in Tasks, Dispatch(t) PROVE TimeInv'
    BY <1>3 DEF Dispatch, timerVars, localVars
  <1>4. ASSUME NEW t \in Tasks, TaskStep(t) PROVE TimeInv'
    <2> USE DEF Goto, timerVars
    <2>1. CASE StartTask(t)
      BY <2>1 DEF StartTask
    <2>2. CASE RunTaskCode(t) \/ DeleteSelf(t)
      BY <2>2 DEF RunTaskCode, DeleteSelf
    <2>3. CASE RepeatAtOnce(t)
      BY <2>3 DEF RepeatAtOnce
    <2>4. CASE ReadCounter(t)
      BY <2>4 DEF ReadCounter
    <2>5. CASE WaitForPeriod(t) \/ JustInTime(t) \/ SkipPeriod(t)
      BY <2>5 DEF WaitForPeriod, JustInTime, SkipPeriod
    <2>6. CASE Spin(t)
      BY <2>6 DEF Spin
    <2>7. CASE StartPeriod(t)
      BY <2>7 DEF StartPeriod
    <2> QED  BY <1>4, <2>1, <2>2, <2>3, <2>4, <2>5, <2>6, <2>7 DEF TaskStep
  <1>5. CASE UNCHANGED vars
    BY <1>5 DEF vars, timerVars, localVars
  <1> QED  BY <1>1, <1>2, <1>3, <1>4, <1>5 DEF Next, AtHorizon

(* No job runs before its release. *)
THEOREM ReleasedInTime == Spec => []NeverEarly
  <1>1. Spec => []TimeInv
    BY InitTypeOK, StepTypeOK, InitTimeInv, StepTimeInv, PTL DEF Spec
  <1>2. TimeInv => NeverEarly
    BY DEF TimeInv, NeverEarly
  <1> QED  BY <1>1, <1>2, PTL
-----------------------------------------------------------------------------
(* What a task looks for is on the grid too. *)
OnGrid(t, x) == \E k \in 0 .. x : x = starting_tick + k * tickPeriod(t)

Waiting(t) == pc[t] \in {"compare", "skip", "spin"}

GridInv ==
    \A t \in Tasks :
        /\ pc[t] # "start" =>
              /\ starting_tick # 0
              /\ tickPeriod(t) # 0 => OnGrid(t, last_period_start[t])
        /\ Waiting(t) => tickPeriod(t) # 0 /\ OnGrid(t, next_period_start[t])

(* One period further is on the grid. *)
LEMMA GridStep ==
    ASSUME NEW t \in Tasks, NEW x \in Nat, starting_tick \in Nat,
           tickPeriod(t) # 0, OnGrid(t, x)
    PROVE  OnGrid(t, x + tickPeriod(t))
  <1> DEFINE P == tickPeriod(t)
  <1>1. P \in Nat \ {0}
    BY PeriodNat
  <1>2. PICK k \in 0 .. x : x = starting_tick + k * P
    BY DEF OnGrid
  <1>3. (k + 1) * P = k * P + P /\ k * P \in Nat
    <2>1. \A p \in Nat, j \in Nat : (j + 1) * p = j * p + p /\ j * p \in Nat
      BY Z3
    <2> QED  BY <1>1, <2>1
  <1>4. k + 1 \in 0 .. (x + P)
    BY <1>1
  <1>5. x + P = starting_tick + (k + 1) * P
    BY <1>1, <1>2, <1>3
  <1> QED  BY <1>4, <1>5 DEF OnGrid

(* The shared start is on every grid. *)
LEMMA GridStart ==
    ASSUME NEW t \in Tasks, starting_tick \in Nat
    PROVE  OnGrid(t, starting_tick)
  <1>1. 0 * tickPeriod(t) = 0
    BY PeriodNat
  <1>2. 0 \in 0 .. starting_tick /\ starting_tick = starting_tick + 0 * tickPeriod(t)
    BY <1>1
  <1> QED  BY <1>2 DEF OnGrid

LEMMA InitGridInv == Init => GridInv
  BY DEF Init, GridInv, Waiting

LEMMA StepGridInv == TypeOK /\ GridInv /\ [Next]_vars => GridInv'
  <1> SUFFICES ASSUME TypeOK, GridInv, [Next]_vars PROVE GridInv'
    OBVIOUS
  <1> USE DEF GridInv, Waiting
  <1>1. CASE UNCHANGED <<pc, starting_tick, last_period_start, next_period_start>>
    BY <1>1 DEF OnGrid
  <1>2. ASSUME NEW t \in Tasks, TaskStep(t) PROVE GridInv'
    <2> USE DEF Goto, timerVars
    <2>1. CASE StartTask(t)
      <3>1. starting_tick # 0 => starting_tick' = starting_tick
        BY <2>1 DEF StartTask
      <3>2. starting_tick' \in Nat \ {0}
        BY <2>1 DEF StartTask, TypeOK
      <3>3. OnGrid(t, starting_tick)'
        BY <3>2, GridStart, PeriodNat DEF OnGrid
      <3>4. last_period_start'[t] = starting_tick'
        BY <2>1 DEF StartTask, TypeOK
      <3>5. ASSUME NEW u \in Tasks, u # t
            PROVE  /\ pc'[u] = pc[u] /\ last_period_start'[u] = last_period_start[u]
                   /\ next_period_start'[u] = next_period_start[u]
        BY <2>1, <3>5 DEF StartTask, TypeOK
      <3> QED  BY <2>1, <3>1, <3>2, <3>3, <3>4, <3>5 DEF StartTask, OnGrid, TypeOK
    <2>2. CASE UNCHANGED <<starting_tick, last_period_start, next_period_start>>
               /\ (\A u \in Tasks : \/ pc'[u] = pc[u]
                                    \/ pc[u] # "start" /\ ~ Waiting(u)'
                                    \/ pc[u] # "start" /\ Waiting(u))
      BY <2>2 DEF OnGrid
    <2>3. CASE RunTaskCode(t) \/ DeleteSelf(t)
      BY <2>2, <2>3 DEF RunTaskCode, DeleteSelf, TypeOK, PCs
    <2>4. CASE RepeatAtOnce(t)
      BY <2>4 DEF RepeatAtOnce, OnGrid, TypeOK
    <2>5. CASE ReadCounter(t)
      <3>1. OnGrid(t, last_period_start[t] + tickPeriod(t))
        BY <2>5, GridStep DEF ReadCounter, TypeOK
      <3> QED  BY <2>5, <3>1 DEF ReadCounter, OnGrid, TypeOK
    <2>6. CASE WaitForPeriod(t) \/ JustInTime(t) \/ Spin(t)
      BY <2>2, <2>6 DEF WaitForPeriod, JustInTime, Spin, TypeOK, PCs
    <2>7. CASE SkipPeriod(t)
      <3>1. OnGrid(t, next_period_start[t] + tickPeriod(t))
        BY <2>7, GridStep DEF SkipPeriod, TypeOK
      <3> QED  BY <2>7, <3>1 DEF SkipPeriod, OnGrid, TypeOK
    <2>8. CASE StartPeriod(t)
      BY <2>8 DEF StartPeriod, OnGrid, TypeOK
    <2> QED  BY <1>2, <2>1, <2>3, <2>4, <2>5, <2>6, <2>7, <2>8 DEF TaskStep
  <1> QED  BY <1>1, <1>2
        DEF Next, PassTime, Tick, Dispatch, AtHorizon, vars, timerVars, localVars

(* Releases stay on the grid of the period, from the start all tasks share.  *)
THEOREM ReleasesOnTheGrid == Spec => []OnTheGrid
  <1>1. Spec => []GridInv
    BY InitTypeOK, StepTypeOK, InitGridInv, StepGridInv, PTL DEF Spec
  <1>2. GridInv => OnTheGrid
    BY DEF GridInv, OnTheGrid, OnGrid
  <1> QED  BY <1>1, <1>2, PTL
-----------------------------------------------------------------------------
(* Where a task stands in its search for the next period. *)
SkipInv ==
    \A t \in Tasks :
        /\ Waiting(t) =>
              next_period_start[t] >= last_period_start[t] + tickPeriod(t)
        /\ pc[t] = "compare" =>
              next_period_start[t] = last_period_start[t] + tickPeriod(t)
        /\ pc[t] = "skip" =>
              next_period_start[t] < currentTick[t] + tickPeriod(t)

LEMMA InitSkipInv == Init => SkipInv /\ SkipsOnlyMissed
  BY DEF Init, SkipInv, SkipsOnlyMissed, Waiting

LEMMA StepSkipInv ==
    TypeOK /\ TimeInv /\ SkipInv /\ SkipsOnlyMissed /\ [Next]_vars
    => SkipInv' /\ SkipsOnlyMissed'
  <1> SUFFICES ASSUME TypeOK, TimeInv, SkipInv, SkipsOnlyMissed, [Next]_vars
               PROVE  SkipInv' /\ SkipsOnlyMissed'
    OBVIOUS
  <1> USE DEF SkipInv, SkipsOnlyMissed, Waiting
  <1>0. \A u \in Tasks : tickPeriod(u) \in Nat /\ tickPeriod(u)' = tickPeriod(u)
    BY PeriodNat DEF tickPeriod, pdTICKS_TO_SYSTICK
  <1>1. CASE UNCHANGED <<pc, last_period_start, next_period_start, currentTick>>
    BY <1>1
  <1>2. ASSUME NEW t \in Tasks, TaskStep(t)
        PROVE  SkipInv' /\ SkipsOnlyMissed'
    <2> USE DEF Goto, TypeOK
    <2>1. CASE StartTask(t) \/ RunTaskCode(t) \/ DeleteSelf(t)
      BY <2>1 DEF StartTask, RunTaskCode, DeleteSelf
    <2>2. CASE RepeatAtOnce(t)
      BY <2>2 DEF RepeatAtOnce
    <2>3. CASE ReadCounter(t)
      BY <2>3, <1>0 DEF ReadCounter
    <2>4. CASE WaitForPeriod(t) \/ JustInTime(t)
      BY <2>4, <1>0 DEF WaitForPeriod, JustInTime
    <2>5. CASE SkipPeriod(t)
      BY <2>5, <1>0 DEF SkipPeriod
    <2>6. CASE Spin(t)
      BY <2>6, <1>0 DEF Spin, TimeInv
    <2>7. CASE StartPeriod(t)
      BY <2>7 DEF StartPeriod
    <2> QED  BY <1>2, <2>1, <2>2, <2>3, <2>4, <2>5, <2>6, <2>7 DEF TaskStep
  <1> QED  BY <1>1, <1>2
        DEF Next, PassTime, Tick, Dispatch, AtHorizon, vars, timerVars, localVars

LEMMA SkipInvHolds == Spec => [](TypeOK /\ SkipInv /\ SkipsOnlyMissed)
  BY InitTypeOK, StepTypeOK, InitTimeInv, StepTimeInv, InitSkipInv, StepSkipInv,
     PTL DEF Spec

(* A period is left out only if it had begun when the task looked.           *)
THEOREM NoNeedlessSkip == Spec => []SkipsOnlyMissed
  BY SkipInvHolds, PTL

(* Two releases of a task are a period apart at least.                       *)
THEOREM ReleasesApart == Spec => PeriodApart
  <1>1. TypeOK /\ SkipInv /\ [Next]_vars =>
          [\A t \in Tasks :
              pc[t] = "spin" /\ pc'[t] = "job" =>
                last_period_start'[t] >= last_period_start[t] + tickPeriod(t)]_vars
    <2> SUFFICES ASSUME TypeOK, SkipInv, Next,
                        NEW t \in Tasks, pc[t] = "spin", pc'[t] = "job"
                 PROVE  last_period_start'[t] >= last_period_start[t] + tickPeriod(t)
      OBVIOUS
    <2>1. PICK u \in Tasks : TaskStep(u)
      BY DEF Next, PassTime, Tick, Dispatch, AtHorizon, vars, localVars
    <2>2. StartPeriod(u) /\ u = t
      BY <2>1 DEF TypeOK, TaskStep, Goto, StartTask, RunTaskCode, DeleteSelf,
                  RepeatAtOnce, ReadCounter, WaitForPeriod, JustInTime,
                  SkipPeriod, Spin, StartPeriod
    <2> QED  BY <2>2 DEF StartPeriod, TypeOK, SkipInv, Waiting
  <1> QED  BY <1>1, SkipInvHolds, PTL DEF Spec, PeriodApart
-----------------------------------------------------------------------------
(* The flag is up only between a job that raised it and the test after it. *)
FlagInv ==
    kill_periodic_task = 1 => running \in Tasks /\ pc[running] = "returned"

LEMMA StepFlagInv ==
    TypeOK /\ FlagInv /\ KillHitsTheAsker /\ [Next]_vars
    => FlagInv' /\ KillHitsTheAsker'
  <1> SUFFICES ASSUME TypeOK, FlagInv, KillHitsTheAsker, [Next]_vars
               PROVE  FlagInv' /\ KillHitsTheAsker'
    OBVIOUS
  <1> USE DEF FlagInv, KillHitsTheAsker
  <1>1. CASE UNCHANGED <<pc, running, kill_periodic_task, asked>>
    BY <1>1
  <1>2. ASSUME NEW t \in Tasks, Dispatch(t)
        PROVE  FlagInv' /\ KillHitsTheAsker'
    BY <1>2, NoTaskAssumption DEF Dispatch, localVars, TypeOK
  <1>3. ASSUME NEW t \in Tasks, TaskStep(t)
        PROVE  FlagInv' /\ KillHitsTheAsker'
    <2> USE DEF Goto, TypeOK
    <2>1. CASE RunTaskCode(t)
      BY <2>1 DEF RunTaskCode
    <2>2. CASE DeleteSelf(t)
      BY <2>2, NoTaskAssumption DEF DeleteSelf
    <2>3. CASE StartTask(t) \/ RepeatAtOnce(t) \/ ReadCounter(t)
      BY <2>3 DEF StartTask, RepeatAtOnce, ReadCounter
    <2>4. CASE WaitForPeriod(t)
      BY <2>4 DEF WaitForPeriod
    <2>5. CASE JustInTime(t) \/ SkipPeriod(t) \/ Spin(t) \/ StartPeriod(t)
      BY <2>5 DEF JustInTime, SkipPeriod, Spin, StartPeriod
    <2> QED  BY <1>3, <2>1, <2>2, <2>3, <2>4, <2>5 DEF TaskStep
  <1> QED  BY <1>1, <1>2, <1>3
        DEF Next, PassTime, Tick, AtHorizon, vars, localVars

(* The kill flag kills the task that raised it, and no other.                *)
THEOREM AskersDie == Spec => []KillHitsTheAsker
  <1>1. Init => FlagInv /\ KillHitsTheAsker
    BY DEF Init, FlagInv, KillHitsTheAsker
  <1> QED  BY <1>1, InitTypeOK, StepTypeOK, StepFlagInv, PTL DEF Spec
=============================================================================
