------------------------ MODULE PremLifecycle_proofs -------------------------
(***************************************************************************)
(* The safety properties of PremLifecycle, for any tasks, requests, sizes, *)
(* lengths of jobs and horizon.                                            *)
(***************************************************************************)
EXTENDS PremLifecycle, FiniteSetTheorems, SequenceTheorems, TLAPS

(* A shorter time is no longer in ns. *)
LEMMA Conversion ==
    ASSUME NEW n \in Nat, NEW m \in Nat, n <= m
    PROVE  /\ pdSYSTICK_TO_NS(n) \in Nat /\ pdSYSTICK_TO_NS(m) \in Nat
           /\ pdSYSTICK_TO_NS(n) <= pdSYSTICK_TO_NS(m)
<1>1. NsPerSec \in Nat /\ Freq \in Nat \ {0}
  BY FreqAssumption
<1> DEFINE a == n * NsPerSec
           b == m * NsPerSec
<1>2. a \in Nat /\ (m - n) * NsPerSec \in Nat /\ b = a + (m - n) * NsPerSec
  BY <1>1
<1>3. a \in Nat /\ b \in Nat /\ a <= b
  BY <1>2
<1> HIDE DEF a, b
<1>4. a \div Freq \in Nat /\ b \div Freq \in Nat /\ a \div Freq <= b \div Freq
  BY <1>1, <1>3
<1> QED
  BY <1>4 DEF pdSYSTICK_TO_NS, a, b

LEMMA ConstantFacts ==
    /\ Plain \subseteq Tasks /\ NoTask \notin Tasks /\ IsFiniteSet(Tasks)
    /\ Prem \subseteq Tasks
    /\ \A t \in Tasks : t \in Prem \/ t \in Plain
    /\ Durations \subseteq Nat
    /\ Horizon \in Nat /\ MaxResponse \in Nat /\ UINT64_MAX \in Nat
    /\ Cardinality(Tasks) \in Nat
<1>1. MaxResponse \in Nat /\ UINT64_MAX \in Nat
  <2>1. MaxResponse \in Nat
    BY HorizonAssumption, Conversion DEF MaxResponse
  <2> QED
    BY <2>1 DEF UINT64_MAX
<1> QED
  BY <1>1, TasksAssumption, DurationAssumption, HorizonAssumption, FS_CardinalityType
     DEF Prem

-----------------------------------------------------------------------------
(* One task in its turn.                                                     *)

LEMMA TurnInit == Init => OneTurn
BY ConstantFacts DEF Init, OneTurn, InTurn

LEMMA CreateMoves ==
    ASSUME pc \in [Tasks -> Places], NEW t \in Tasks, CreatePeriodic(t) \/ xTaskPREMCreate(t)
    PROVE  /\ mainPC # "started" /\ UNCHANGED <<mainPC, running>>
           /\ pc[t] = "none" /\ pc'[t] = "new"
           /\ pc' \in [Tasks -> Places]
           /\ \A u \in Tasks : u # t => pc'[u] = pc[u]
<1>1. xTaskPeriodicCreate(t)
  BY DEF CreatePeriodic, xTaskPREMCreate
<1> QED
  BY <1>1 DEF xTaskPeriodicCreate, Places

LEMMA TurnStep ==
    ASSUME OneTurn, pc \in [Tasks -> Places], [Next]_vars
    PROVE  OneTurn'
<1> USE ConstantFacts DEF OneTurn, InTurn, SetupDone
<1>1. ASSUME NEW t \in Tasks, CreatePeriodic(t) \/ xTaskPREMCreate(t) PROVE OneTurn'
  BY <1>1, CreateMoves
<1>2. ASSUME NEW t \in Tasks, StartTask(t) PROVE OneTurn'
  BY <1>2 DEF StartTask
<1>3. ASSUME NEW t \in Tasks, NextPeriod(t) PROVE OneTurn'
  BY <1>3 DEF NextPeriod
<1>4. ASSUME NEW t \in Tasks, RunPlain(t) \/ RunTaskCode(t) PROVE OneTurn'
  BY <1>4 DEF RunPlain, RunTaskCode, Goto
<1>5. ASSUME NEW t \in Tasks, MeasureResponse(t) \/ ChangePrefetchSize(t) PROVE OneTurn'
  BY <1>5 DEF MeasureResponse, ChangePrefetchSize, Goto
<1>6. ASSUME NEW t \in Tasks, Delete(t) \/ Display(t) \/ GoOn(t) PROVE OneTurn'
  BY <1>6 DEF Delete, Display, GoOn, Goto
<1>7. ASSUME NEW t \in Tasks, DeleteSelf(t) \/ Wait(t) PROVE OneTurn'
  BY <1>7 DEF DeleteSelf, Wait, Goto
<1>8. CASE vInitPREM
  BY <1>8 DEF vInitPREM
<1>9. CASE vTaskStartScheduler
  BY <1>9 DEF vTaskStartScheduler
<1>10. CASE UNCHANGED vars
  BY <1>10 DEF vars
<1> QED
  BY <1>1, <1>2, <1>3, <1>4, <1>5, <1>6, <1>7, <1>8, <1>9, <1>10 DEF Next, Turn, Stop

-----------------------------------------------------------------------------
(* Ids.                                                                      *)

LEMMA IdsInit == Init => OwnIds
<1> SUFFICES ASSUME Init PROVE OwnIds
  OBVIOUS
<1>1. Created = {}
  BY DEF Init, Created
<1>2. Cardinality({}) = 0
  BY FS_EmptySet
<1> QED
  BY <1>1, <1>2 DEF Init, OwnIds

(* A new task gets the next id; the others keep theirs. *)
LEMMA IdsStep ==
    ASSUME OneTurn, OwnIds, pc \in [Tasks -> Places],
           periodicId \in [Tasks -> Nat], premId \in [Tasks -> Nat],
           task_id \in Nat, periodic_task_number \in Nat,
           [Next]_vars
    PROVE  OwnIds'
<1>1. IsFiniteSet(Created)
  BY ConstantFacts, FS_Subset DEF Created
<1>2. ASSUME NEW t \in Tasks, CreatePeriodic(t) \/ xTaskPREMCreate(t) PROVE OwnIds'
  <2>1. Created' = Created \cup {t} /\ t \notin Created
    BY <1>2, CreateMoves DEF Created
  <2>2. Cardinality(Created') = Cardinality(Created) + 1
    BY <1>1, <2>1, FS_AddElement
  <2>3. /\ periodic_task_number' = periodic_task_number + 1
        /\ periodicId' = [periodicId EXCEPT ![t] = periodic_task_number]
        /\ t \notin Prem => premId' = premId /\ task_id' = task_id
        /\ t \in Prem => /\ premId' = [premId EXCEPT ![t] = task_id]
                         /\ task_id' = task_id + 1
    BY <1>2 DEF CreatePeriodic, xTaskPREMCreate, xTaskPeriodicCreate, Prem
  <2>4. periodic_task_number' = Cardinality(Created')
    BY <2>2, <2>3 DEF OwnIds
  <2>5. task_id' <= periodic_task_number'
    BY <2>3 DEF OwnIds
  <2>6. ASSUME NEW u \in Created'
        PROVE  /\ periodicId'[u] < periodic_task_number'
               /\ \A v \in Created' : u # v => periodicId'[u] # periodicId'[v]
    BY <2>1, <2>3 DEF OwnIds, Created
  <2>7. ASSUME NEW u \in Created' \cap Prem
        PROVE  /\ premId'[u] < task_id'
               /\ \A v \in Created' \cap Prem : u # v => premId'[u] # premId'[v]
    BY <2>1, <2>3 DEF OwnIds, Created
  <2> QED
    BY <2>4, <2>5, <2>6, <2>7 DEF OwnIds
<1>3. ASSUME UNCHANGED ids, Created' = Created PROVE OwnIds'
  BY <1>3 DEF OwnIds, ids
<1> USE DEF Created
<1>4. ASSUME NEW t \in Tasks, StartTask(t) \/ NextPeriod(t) PROVE OwnIds'
  BY <1>3, <1>4 DEF StartTask, NextPeriod
<1>5. ASSUME NEW t \in Tasks, RunPlain(t) \/ RunTaskCode(t) PROVE OwnIds'
  BY <1>3, <1>5 DEF RunPlain, RunTaskCode, Goto
<1>6. ASSUME NEW t \in Tasks, MeasureResponse(t) \/ ChangePrefetchSize(t) PROVE OwnIds'
  BY <1>3, <1>6 DEF MeasureResponse, ChangePrefetchSize, Goto
<1>7. ASSUME NEW t \in Tasks, Delete(t) \/ Display(t) \/ GoOn(t) PROVE OwnIds'
  BY <1>3, <1>7 DEF Delete, Display, GoOn, Goto
<1>8. ASSUME NEW t \in Tasks, DeleteSelf(t) \/ Wait(t) PROVE OwnIds'
  BY <1>3, <1>8 DEF DeleteSelf, Wait, Goto
<1>9. CASE vInitPREM \/ vTaskStartScheduler \/ UNCHANGED vars
  BY <1>3, <1>9 DEF vInitPREM, vTaskStartScheduler, vars
<1> QED
  BY <1>2, <1>4, <1>5, <1>6, <1>7, <1>8, <1>9 DEF Next, Turn, Stop

(* The ids index the arrays of the model. *)
LEMMA IdsIndex ==
    ASSUME OwnIds, NEW t \in Tasks, pc[t] # "none",
           periodicId \in [Tasks -> Nat], premId \in [Tasks -> Nat],
           task_id \in Nat, periodic_task_number \in Nat
    PROVE  periodicId[t] \in Ids /\ (t \in Prem => premId[t] \in Ids)
<1>1. periodic_task_number <= Cardinality(Tasks)
  BY ConstantFacts, FS_Subset, Created \subseteq Tasks DEF OwnIds, Created
<1>2. t \in Created
  BY DEF Created
<1>3. periodicId[t] \in Nat /\ premId[t] \in Nat
  OBVIOUS
<1> QED
  BY <1>1, <1>2, <1>3, ConstantFacts DEF OwnIds, Ids

-----------------------------------------------------------------------------
(* Types.                                                                    *)

TypeInv == TypeOK /\ NotInFuture /\ SizeGiven

LEMMA TypeInit == Init => TypeInv
BY ConstantFacts
   DEF Init, TypeInv, TypeOK, NotInFuture, SizeGiven, Responses, Unset, Ids, Flags, Arrays,
       Places

LEMMA MeasuredType ==
    ASSUME NEW r \in Responses, NEW time \in Nat
    PROVE  Measured(r, time) \in Responses
BY DEF Responses, Measured, AtLeast, AtMost

LEMMA NoResultsType == NoResults \in Responses
BY ConstantFacts DEF NoResults, Responses

(* A response time that is measured. *)
LEMMA ResponseTime ==
    ASSUME TypeInv, NEW start \in Nat, start <= now
    PROVE  pdSYSTICK_TO_NS(now - start) \in 0 .. MaxResponse
<1>1. now - start \in Nat /\ now - start <= Horizon /\ Horizon \in Nat
  BY HorizonAssumption DEF TypeInv, TypeOK, NotInFuture
<1> QED
  BY <1>1, Conversion DEF MaxResponse

(* Results that are reset, and the series with them. *)
LEMMA DisplayType ==
    ASSUME TypeInv, NEW t \in Tasks, display_results(t)
    PROVE  /\ response' \in [Ids -> Responses]
           /\ stray' \subseteq Arrays
           /\ series' \in [Prem -> Seq(Nat)]
           /\ sizes' \in [Prem -> SUBSET Sizes]
           /\ \A u \in Prem : series'[u] \in Seq(0 .. MaxResponse)
<1> USE DEF TypeInv, TypeOK
<1>1. response' \in [Ids -> Responses]
  BY NoResultsType DEF display_results
<1>2. stray' \subseteq Arrays
  BY DEF display_results, Access, Arrays
<1>3. ASSUME NEW u \in Prem
      PROVE  series'[u] \in Seq(Nat) /\ series'[u] \in Seq(0 .. MaxResponse)
  <2>1. series'[u] = IF u = t THEN <<>> ELSE series[u]
    BY DEF display_results
  <2>2. <<>> \in Seq(Nat) /\ <<>> \in Seq(0 .. MaxResponse)
    OBVIOUS
  <2> QED
    BY <2>1, <2>2 DEF NotInFuture
<1>4. series' \in [Prem -> Seq(Nat)]
  BY <1>3 DEF display_results
<1>5. sizes' \in [Prem -> SUBSET Sizes]
  BY DEF display_results
<1> QED
  BY <1>1, <1>2, <1>3, <1>4, <1>5

(* A period that begins. *)
LEMMA StartType ==
    ASSUME TypeInv, NEW t \in Tasks, NEW r \in Nat, r <= now,
           last_period_start' = [last_period_start EXCEPT ![periodicId[t]] = r],
           release' = [release EXCEPT ![t] = r],
           Access({"last_period_start"}, periodicId[t]), UNCHANGED now
    PROVE  /\ last_period_start' \in [Ids -> Nat]
           /\ release' \in [Tasks -> Nat]
           /\ stray' \subseteq Arrays
           /\ \A i \in Ids : last_period_start'[i] <= now'
           /\ \A u \in Tasks : release'[u] <= now'
BY DEF TypeInv, TypeOK, NotInFuture, Access, Arrays

LEMMA TypeStep ==
    ASSUME TypeInv, OneTurn, OwnIds, [Next]_vars
    PROVE  TypeInv'
<1> USE ConstantFacts DEF TypeInv, TypeOK, NotInFuture, SizeGiven, Places
<1> USE DEF ids, memory, params, past, vars
<1>1. ASSUME NEW t \in Tasks, CreatePeriodic(t) PROVE TypeInv'
  BY <1>1 DEF CreatePeriodic, xTaskPeriodicCreate
<1>2. ASSUME NEW t \in Tasks, xTaskPREMCreate(t) PROVE TypeInv'
  <2>1. /\ pc' \in [Tasks -> Places]
        /\ periodicId' \in [Tasks -> Nat] /\ premId' \in [Tasks -> Nat]
        /\ task_id' \in Nat /\ periodic_task_number' \in Nat
    BY <1>2, CreateMoves DEF xTaskPREMCreate, xTaskPeriodicCreate
  <2> QED
    BY <1>2, <2>1 DEF xTaskPREMCreate, xTaskPeriodicCreate
<1>3. ASSUME NEW t \in Tasks, StartTask(t) PROVE TypeInv'
  <2>1. /\ last_period_start' \in [Ids -> Nat]
        /\ release' \in [Tasks -> Nat]
        /\ stray' \subseteq Arrays
        /\ \A i \in Ids : last_period_start'[i] <= now'
        /\ \A u \in Tasks : release'[u] <= now'
    BY <1>3, StartType, 0 <= now DEF StartTask
  <2>2. pc' \in [Tasks -> Places]
    BY <1>3 DEF StartTask
  <2> QED
    BY <1>3, <2>1, <2>2 DEF StartTask
<1>4. ASSUME NEW t \in Tasks, NextPeriod(t) PROVE TypeInv'
  <2>1. PICK r \in last_period_start[periodicId[t]] .. now :
             /\ last_period_start' = [last_period_start EXCEPT ![periodicId[t]] = r]
             /\ release' = [release EXCEPT ![t] = r]
    BY <1>4 DEF NextPeriod
  <2>4. r \in Nat /\ r <= now
    <3>1. periodicId[t] \in Ids
      BY <1>4, IdsIndex DEF NextPeriod
    <3>2. last_period_start[periodicId[t]] \in Nat
      BY <3>1
    <3> QED
      BY <3>2
  <2>2. /\ last_period_start' \in [Ids -> Nat]
        /\ release' \in [Tasks -> Nat]
        /\ stray' \subseteq Arrays
        /\ \A i \in Ids : last_period_start'[i] <= now'
        /\ \A u \in Tasks : release'[u] <= now'
    BY <1>4, <2>1, <2>4, StartType DEF NextPeriod
  <2>3. pc' \in [Tasks -> Places]
    BY <1>4 DEF NextPeriod
  <2> QED
    BY <1>4, <2>2, <2>3 DEF NextPeriod
<1>5. ASSUME NEW t \in Tasks, RunPlain(t) PROVE TypeInv'
  BY <1>5 DEF RunPlain, Goto, Work
<1>6. ASSUME NEW t \in Tasks, RunTaskCode(t) PROVE TypeInv'
  BY <1>6, RequestsAssumption DEF RunTaskCode, Goto, Work
<1>7. ASSUME NEW t \in Tasks, MeasureResponse(t) PROVE TypeInv'
  <2> DEFINE i == premId[t]
  <2>4. t \in Prem /\ pc[t] # "none"
    BY <1>7 DEF MeasureResponse, Goto, OneTurn
  <2>5. i \in Ids /\ response[i] \in Responses
    BY <2>4, IdsIndex
  <2>6. Measured(response[i], pdSYSTICK_TO_NS(now - last_period_start[i])) \in Responses
    <3>1. last_period_start[i] \in Nat /\ last_period_start[i] <= now
      BY <2>5
    <3>2. pdSYSTICK_TO_NS(now - last_period_start[i]) \in Nat
      BY <3>1, ResponseTime, ConstantFacts
    <3> QED
      BY <2>5, <3>2, MeasuredType
  <2>1. response' \in [Ids -> Responses] /\ stray' \subseteq Arrays
    BY <1>7, <2>6 DEF MeasureResponse, Access
  <2>7. pdSYSTICK_TO_NS(now - release[t]) \in 0 .. MaxResponse
    <3>1. release[t] \in Nat /\ release[t] <= now
      OBVIOUS
    <3> QED
      BY <3>1, ResponseTime
  <2>2. series' \in [Prem -> Seq(Nat)] /\ \A u \in Prem : series'[u] \in Seq(0 .. MaxResponse)
    <3>1. ASSUME NEW u \in Prem
          PROVE  series'[u] \in Seq(Nat) /\ series'[u] \in Seq(0 .. MaxResponse)
      <4>1. CASE u = t
        <5>1. series'[u] = Append(series[u], pdSYSTICK_TO_NS(now - release[t]))
          BY <1>7, <4>1 DEF MeasureResponse
        <5> QED
          BY <5>1, <2>7
      <4>2. CASE u # t
        BY <1>7, <4>2 DEF MeasureResponse
      <4> QED
        BY <4>1, <4>2
    <3> QED
      BY <1>7, <3>1 DEF MeasureResponse
  <2>3. pc' \in [Tasks -> Places]
    BY <1>7 DEF MeasureResponse, Goto
  <2> QED
    BY <1>7, <2>1, <2>2, <2>3 DEF MeasureResponse
<1>8. ASSUME NEW t \in Tasks, ChangePrefetchSize(t) PROVE TypeInv'
  <2>1. data_size' \in [Tasks -> Sizes] /\ flags' \subseteq flags
    <3>1. CASE "change" \in flags
      <4>1. data_size' = [data_size EXCEPT ![t] = new_prefetch_size] /\ flags' = flags \ {"change"}
        BY <1>8, <3>1 DEF ChangePrefetchSize
      <4>2. new_prefetch_size \in Sizes
        BY <3>1
      <4>3. data_size \in [Tasks -> Sizes]
        OBVIOUS
      <4>4. data_size' \in [Tasks -> Sizes]
        BY <4>1, <4>2, <4>3
      <4> QED
        BY <4>1, <4>4
    <3>2. CASE "change" \notin flags
      BY <1>8, <3>2 DEF ChangePrefetchSize
    <3> QED
      BY <3>1, <3>2
  <2>2. pc' \in [Tasks -> Places]
    BY <1>8 DEF ChangePrefetchSize, Goto
  <2> QED
    BY <1>8, <2>1, <2>2 DEF ChangePrefetchSize
<1>9. ASSUME NEW t \in Tasks, Delete(t) PROVE TypeInv'
  <2>1. /\ response' \in [Ids -> Responses]
        /\ stray' \subseteq Arrays
        /\ series' \in [Prem -> Seq(Nat)]
        /\ sizes' \in [Prem -> SUBSET Sizes]
        /\ \A u \in Prem : series'[u] \in Seq(0 .. MaxResponse)
    BY <1>9, DisplayType DEF Delete
  <2>2. pc' \in [Tasks -> Places] /\ flags' \subseteq flags /\ freed' \subseteq Prem
    BY <1>9 DEF Delete, Goto, OneTurn
  <2> QED
    BY <1>9, <2>1, <2>2 DEF Delete
<1>10. ASSUME NEW t \in Tasks, Display(t) PROVE TypeInv'
  <2>1. /\ response' \in [Ids -> Responses]
        /\ stray' \subseteq Arrays
        /\ series' \in [Prem -> Seq(Nat)]
        /\ sizes' \in [Prem -> SUBSET Sizes]
        /\ \A u \in Prem : series'[u] \in Seq(0 .. MaxResponse)
    BY <1>10, DisplayType DEF Display
  <2>2. pc' \in [Tasks -> Places] /\ flags' \subseteq flags /\ freed' \subseteq Prem
    BY <1>10 DEF Display, Goto, OneTurn
  <2> QED
    BY <1>10, <2>1, <2>2 DEF Display
<1>11. ASSUME NEW t \in Tasks, GoOn(t) PROVE TypeInv'
  BY <1>11 DEF GoOn, Goto
<1>12. ASSUME NEW t \in Tasks, DeleteSelf(t) PROVE TypeInv'
  BY <1>12 DEF DeleteSelf, Goto
<1>13. ASSUME NEW t \in Tasks, Wait(t) PROVE TypeInv'
  BY <1>13 DEF Wait, Goto
<1>14. CASE vInitPREM
  BY <1>14, NoResultsType DEF vInitPREM, vInitPeriodic, Access, Arrays
<1>15. CASE vTaskStartScheduler
  BY <1>15 DEF vTaskStartScheduler
<1>16. CASE UNCHANGED vars
  BY <1>16
<1> QED
  BY <1>1, <1>2, <1>3, <1>4, <1>5, <1>6, <1>7, <1>8, <1>9, <1>10, <1>11, <1>12, <1>13,
     <1>14, <1>15, <1>16 DEF Next, Turn, Stop
-----------------------------------------------------------------------------
LifeInv == TypeInv /\ OneTurn /\ OwnIds

LEMMA LifeInit == Init => LifeInv
BY TypeInit, TurnInit, IdsInit DEF LifeInv

LEMMA LifeStep == LifeInv /\ [Next]_vars => LifeInv'
BY TypeStep, TurnStep, IdsStep DEF LifeInv, TypeInv, TypeOK

(* The types are correct, and nothing that is subtracted is later than now.  *)
THEOREM TypeCorrect == Spec => []TypeOK
<1>1. LifeInv => TypeOK
  BY DEF LifeInv, TypeInv
<1> QED
  BY <1>1, LifeInit, LifeStep, PTL DEF Spec

-----------------------------------------------------------------------------
(* Requests.                                                                 *)

(* A job that asks for its deletion does not ask for a display too: the       *)
(* deletion displays, and leaves the other flag to the next task. *)
OneEnd == \A R \in Requests : ~({"kill", "display"} \subseteq R)

LEMMA RequestsInit == Init => RequestsPending
BY ConstantFacts DEF Init, RequestsPending, InTurn

(* The flags that are left when a job's results are dealt with. *)
LEMMA LeftOver ==
    ASSUME OneEnd, NEW R \in Requests \cup {{}}, R \subseteq Flags
    PROVE  /\ "kill" \in R => (R \ {"change"}) \ {"kill"} = {}
           /\ (R \ {"change"}) \cap {"kill", "display"} = {"display"} =>
                 /\ (R \ {"change"}) \ {"display"} = {}
                 /\ "kill" \notin R
           /\ (R \ {"change"}) \cap {"kill", "display"} = {} =>
                 R \ {"change"} = {} /\ "kill" \notin R
BY DEF OneEnd, Flags

LEMMA RequestsStep ==
    ASSUME OneEnd, LifeInv, RequestsPending, [Next]_vars
    PROVE  RequestsPending'
<1> USE ConstantFacts DEF LifeInv, TypeInv, TypeOK, OneTurn, RequestsPending, InTurn, Places
<1> USE DEF params, past
<1>1. ASSUME NEW t \in Tasks, CreatePeriodic(t) \/ xTaskPREMCreate(t)
      PROVE  RequestsPending'
  <2>1. UNCHANGED <<params, past>>
    BY <1>1 DEF CreatePeriodic, xTaskPREMCreate, xTaskPeriodicCreate
  <2> QED
    BY <1>1, <2>1, CreateMoves
<1>2. ASSUME NEW t \in Tasks, StartTask(t) \/ NextPeriod(t) PROVE RequestsPending'
  BY <1>2 DEF StartTask, NextPeriod
<1>3. ASSUME NEW t \in Tasks, RunPlain(t) PROVE RequestsPending'
  BY <1>3 DEF RunPlain, Goto, Prem
<1>4. ASSUME NEW t \in Tasks, RunTaskCode(t) PROVE RequestsPending'
  BY <1>4 DEF RunTaskCode, Goto
<1>5. ASSUME NEW t \in Tasks, MeasureResponse(t) PROVE RequestsPending'
  BY <1>5 DEF MeasureResponse, Goto
<1>6. ASSUME NEW t \in Tasks, ChangePrefetchSize(t) PROVE RequestsPending'
  BY <1>6 DEF ChangePrefetchSize, Goto
<1>7. ASSUME NEW t \in Tasks, Delete(t) PROVE RequestsPending'
  <2>1. flags = asked[t] \ {"change"} /\ asked[t] \in Requests \cup {{}} /\ running = t
    BY <1>7 DEF Delete, Goto
  <2>2. flags' = {} /\ kill_periodic_task' = IF "kill" \in asked[t] THEN 1 ELSE 0
    BY <1>7, <2>1, LeftOver DEF Delete, Goto
  <2> QED
    BY <1>7, <2>1, <2>2 DEF Delete, Goto
<1>8. ASSUME NEW t \in Tasks, Display(t) PROVE RequestsPending'
  <2>1. flags = asked[t] \ {"change"} /\ asked[t] \in Requests \cup {{}} /\ running = t
    BY <1>8 DEF Display, Goto
  <2>2. flags' = {} /\ kill_periodic_task' = IF "kill" \in asked[t] THEN 1 ELSE 0
    BY <1>8, <2>1, LeftOver DEF Display, Goto
  <2> QED
    BY <1>8, <2>1, <2>2 DEF Display, Goto
<1>9. ASSUME NEW t \in Tasks, GoOn(t) PROVE RequestsPending'
  <2>1. flags = asked[t] \ {"change"} /\ asked[t] \in Requests \cup {{}} /\ running = t
    BY <1>9 DEF GoOn, Goto
  <2>2. flags' = {} /\ kill_periodic_task' = IF "kill" \in asked[t] THEN 1 ELSE 0
    BY <1>9, <2>1, LeftOver DEF GoOn, Goto
  <2> QED
    BY <1>9, <2>1, <2>2 DEF GoOn, Goto
<1>10. ASSUME NEW t \in Tasks, DeleteSelf(t) \/ Wait(t) PROVE RequestsPending'
  <2>1. running = t /\ pc[t] = "check" /\ flags = {}
    BY <1>10 DEF DeleteSelf, Wait, Goto
  <2>2. CASE DeleteSelf(t)
    BY <2>1, <2>2 DEF DeleteSelf, Goto
  <2>3. CASE Wait(t)
    BY <2>1, <2>3 DEF Wait, Goto
  <2> QED
    BY <1>10, <2>2, <2>3
<1>11. CASE vInitPREM \/ vTaskStartScheduler \/ UNCHANGED vars
  BY <1>11 DEF vInitPREM, vTaskStartScheduler, vars
<1> QED
  BY <1>1, <1>2, <1>3, <1>4, <1>5, <1>6, <1>7, <1>8, <1>9, <1>10, <1>11
     DEF Next, Turn, Stop

(* A request is served in the job that made it, and by its task: under        *)
(* OneEnd, the three global flags are as good as flags of the tasks. *)
THEOREM ServedByAsker ==
    ASSUME OneEnd PROVE Spec => []RequestsServedByAsker
<1>1. LifeInv /\ RequestsPending /\ [Next]_vars => RequestsPending'
  BY RequestsStep
<1>2. RequestsPending => RequestsServedByAsker
  BY DEF RequestsPending, RequestsServedByAsker
<1> QED
  BY <1>1, <1>2, LifeInit, LifeStep, RequestsInit, PTL DEF Spec

-----------------------------------------------------------------------------
(* Accesses.                                                                 *)

AccessInv == ArraysSized /\ StraysKnown /\ FreedIsLeaving

LEMMA AccessInit == Init => AccessInv
BY DEF Init, AccessInv, ArraysSized, StraysKnown, FreedIsLeaving

(* An access by an id that was given before the arrays were sized. *)
LEMMA AccessIsKnown ==
    ASSUME LifeInv, AccessInv, mainPC # "setup", NEW i \in Nat, NEW arrays \in SUBSET Arrays,
           "last_period_start" \in arrays => i < periodic_task_number,
           "response" \in arrays => i < task_id,
           Access(arrays, i)
    PROVE  StraysKnown'
<1> SUFFICES ASSUME InitTime = "last", Measure PROVE stray' \subseteq {"response_number"}
  BY DEF StraysKnown
<1>1. length["last_period_start"] = periodic_task_number /\ length["response"] = task_id
  BY DEF AccessInv, ArraysSized
<1>2. periodic_task_number \in Nat /\ task_id \in Nat
  BY DEF LifeInv, TypeInv, TypeOK
<1>3. \A a \in arrays : a = "response_number" \/ ~(i >= length[a])
  BY <1>1, <1>2 DEF Arrays
<1> QED
  BY <1>3 DEF Access, AccessInv, StraysKnown

(* The ids of a task are below the next ones. *)
LEMMA IdsBelow ==
    ASSUME LifeInv, NEW t \in Tasks, pc[t] # "none"
    PROVE  /\ periodicId[t] \in Nat /\ periodicId[t] < periodic_task_number
           /\ t \in Prem => /\ premId[t] \in Nat /\ premId[t] < task_id
                           /\ premId[t] < periodic_task_number
BY DEF LifeInv, TypeInv, TypeOK, OwnIds, Created

LEMMA AccessStep ==
    ASSUME LifeInv, AccessInv, [Next]_vars
    PROVE  AccessInv'
<1> USE ConstantFacts DEF AccessInv
<1> USE DEF ids, memory, params, past, vars
<1>t. /\ pc \in [Tasks -> Places] /\ kill_periodic_task \in {0, 1}
      /\ freed \subseteq Tasks /\ OneTurn
  BY DEF LifeInv, TypeInv, TypeOK
<1>1. ASSUME UNCHANGED <<length, periodic_task_number, task_id>>,
             mainPC' # "setup" => mainPC # "setup",
             \A t \in Tasks : pc[t] # "none" => pc'[t] # "none"
      PROVE  ArraysSized'
  BY <1>1 DEF ArraysSized, SetupDone
<1>2. ASSUME UNCHANGED stray PROVE StraysKnown'
  BY <1>2 DEF StraysKnown
<1>3. ASSUME NEW t \in Tasks, UNCHANGED <<kill_periodic_task, freed>>,
             pc[t] # "check", pc[t] # "deleted",
             \A u \in Tasks : u # t => pc'[u] = pc[u]
      PROVE  FreedIsLeaving'
  BY <1>3, <1>t DEF FreedIsLeaving
<1>4. ASSUME NEW t \in Tasks, CreatePeriodic(t) \/ xTaskPREMCreate(t)
      PROVE  AccessInv'
  <2>1. UNCHANGED <<stray, params, past>> /\ (InitTime = "last" => mainPC # "initialised")
    BY <1>4 DEF CreatePeriodic, xTaskPREMCreate, xTaskPeriodicCreate
  <2>2. InitTime = "last" => mainPC' = "setup"
    BY <1>4, <2>1, CreateMoves, <1>t DEF LifeInv, TypeInv, TypeOK
  <2>3. ArraysSized'
    BY <2>2 DEF ArraysSized
  <2> QED
    BY <1>4, <1>2, <1>3, <1>t, <2>1, <2>3, CreateMoves
<1>5. ASSUME NEW t \in Tasks, StartTask(t) \/ NextPeriod(t) PROVE AccessInv'
  <2>1. /\ mainPC = "started" /\ pc[t] \in {"new", "ready"}
        /\ pc' = [pc EXCEPT ![t] = "job"]
        /\ Access({"last_period_start"}, periodicId[t])
        /\ UNCHANGED <<mainPC, ids, length, params, freed>>
    BY <1>5, <1>t DEF StartTask, NextPeriod, OneTurn
  <2>2. {"last_period_start"} \subseteq Arrays /\ "response" \notin {"last_period_start"}
    BY DEF Arrays
  <2>3. StraysKnown'
    BY <2>1, <2>2, AccessIsKnown, IdsBelow
  <2> QED
    BY <1>1, <1>3, <1>t, <2>1, <2>3
<1>6. ASSUME NEW t \in Tasks, RunPlain(t) \/ RunTaskCode(t) PROVE AccessInv'
  BY <1>1, <1>2, <1>3, <1>6, <1>t DEF RunPlain, RunTaskCode, Goto
<1>7. ASSUME NEW t \in Tasks, MeasureResponse(t) PROVE AccessInv'
  <2>1. /\ mainPC = "started" /\ t \in Prem /\ pc[t] = "account"
        /\ pc' = [pc EXCEPT ![t] = "size"]
        /\ Access(Arrays, premId[t]) \/ UNCHANGED stray
        /\ UNCHANGED <<mainPC, ids, length, params, freed>>
    BY <1>7, <1>t DEF MeasureResponse, Goto, OneTurn
  <2>2. StraysKnown'
    BY <2>1, <1>2, AccessIsKnown, IdsBelow
  <2> QED
    BY <1>1, <1>3, <1>t, <2>1, <2>2
<1>8. ASSUME NEW t \in Tasks, ChangePrefetchSize(t) \/ GoOn(t) PROVE AccessInv'
  BY <1>1, <1>2, <1>3, <1>8, <1>t DEF ChangePrefetchSize, GoOn, Goto
<1>9. ASSUME NEW t \in Tasks, Delete(t) \/ Display(t) PROVE AccessInv'
  <2>1. /\ mainPC = "started" /\ t \in Prem /\ pc[t] = "results"
        /\ pc' = [pc EXCEPT ![t] = "check"]
        /\ Access(Arrays \ {"last_period_start"}, premId[t])
        /\ UNCHANGED <<mainPC, ids, length>>
    BY <1>9, <1>t DEF Delete, Display, Goto, OneTurn, display_results
  <2>2. StraysKnown'
    BY <2>1, AccessIsKnown, IdsBelow
  <2>3. ArraysSized'
    BY <1>1, <1>t, <2>1
  <2>4. CASE Delete(t)
    <3>1. kill_periodic_task' = 1 /\ freed' = freed \cup {t}
      BY <2>4 DEF Delete
    <3> QED
      BY <1>t, <2>1, <2>2, <2>3, <3>1 DEF FreedIsLeaving
  <2>5. CASE Display(t)
    BY <1>3, <1>t, <2>1, <2>2, <2>3, <2>5 DEF Display
  <2> QED
    BY <1>9, <2>4, <2>5
<1>10. ASSUME NEW t \in Tasks, DeleteSelf(t) \/ Wait(t) PROVE AccessInv'
  <2>1. /\ running = t /\ pc[t] = "check" /\ UNCHANGED <<mainPC, ids, length, stray, freed>>
        /\ kill_periodic_task = 1 => pc' = [pc EXCEPT ![t] = "deleted"]
        /\ kill_periodic_task = 0 => pc' = [pc EXCEPT ![t] = "ready"]
    BY <1>10 DEF DeleteSelf, Wait, Goto
  <2>2. \A u \in freed : u # t => pc[u] = "deleted"
    BY <1>t, <2>1 DEF FreedIsLeaving, OneTurn, InTurn
  <2>3. FreedIsLeaving'
    BY <1>t, <2>1, <2>2 DEF FreedIsLeaving
  <2> QED
    BY <1>1, <1>2, <1>t, <2>1, <2>3
<1>11. CASE vInitPREM
  <2>1. UNCHANGED <<pc, ids, kill_periodic_task, freed>>
    BY <1>11 DEF vInitPREM
  <2>2. ArraysSized'
    BY <1>11, <2>1 DEF vInitPREM, vInitPeriodic, ArraysSized, SetupDone, LifeInv, TypeInv,
       TypeOK, Arrays
  <2>3. StraysKnown'
    BY <1>11 DEF vInitPREM, Access, StraysKnown
  <2> QED
    BY <2>1, <2>2, <2>3 DEF FreedIsLeaving
<1>12. CASE vTaskStartScheduler
  BY <1>12, InitAssumption
     DEF vTaskStartScheduler, ArraysSized, StraysKnown, FreedIsLeaving, SetupDone
<1>13. CASE UNCHANGED vars
  BY <1>13 DEF ArraysSized, StraysKnown, FreedIsLeaving, SetupDone
<1> QED
  BY <1>4, <1>5, <1>6, <1>7, <1>8, <1>9, <1>10, <1>11, <1>12, <1>13 DEF Next, Turn, Stop

(* When vInitPREM is called after the last creation, no task accesses an       *)
(* array outside of what is allocated, response_number apart, or uses its      *)
(* parameters once they are freed. *)
THEOREM AccessesAreAllocated ==
    ASSUME InitTime = "last", Measure PROVE Spec => []AccessesAllocated
<1>1. LifeInv /\ AccessInv /\ [Next]_vars => AccessInv'
  BY AccessStep
<1>2. AccessInv => AccessesAllocated
  BY DEF AccessInv, StraysKnown, FreedIsLeaving, AccessesAllocated
<1> QED
  BY <1>1, <1>2, LifeInit, LifeStep, AccessInit, PTL DEF Spec

-----------------------------------------------------------------------------
(* Sizes.                                                                    *)

(* A job that asks for another size asks for a display, or for its deletion.  *)
ChangeDisplays ==
    \A R \in Requests : "change" \in R => R \cap {"kill", "display"} # {}

SizeInv == ChangePending /\ OneSize

LEMMA SizeInit == Init => SizeInv
BY ConstantFacts DEF Init, SizeInv, ChangePending, OneSize

LEMMA SizeStep ==
    ASSUME ChangeDisplays, LifeInv, SizeInv, [Next]_vars
    PROVE  SizeInv'
<1> USE ConstantFacts DEF params, past
<1> USE DEF SizeInv, ChangePending, OneSize, OneTurn, InTurn
<1>t. /\ pc \in [Tasks -> Places] /\ running \in Tasks \cup {NoTask} /\ OneTurn
      /\ data_size \in [Tasks -> Sizes] /\ sizes \in [Prem -> SUBSET Sizes]
      /\ asked \in [Tasks -> SUBSET Flags] /\ SizeGiven
  BY DEF LifeInv, TypeInv, TypeOK
<1>1. ASSUME UNCHANGED <<flags, asked, sizes, data_size>>, "change" \notin flags,
             \A t \in Tasks : pc'[t] = pc[t] \/ pc'[t] \notin {"account", "size", "results"},
             \A t \in Prem : pc'[t] # pc[t] /\ "change" \in asked[t] => pc[t] # "results"
      PROVE  SizeInv'
  BY <1>1
<1>2. ASSUME NEW t \in Tasks, CreatePeriodic(t) \/ xTaskPREMCreate(t) PROVE SizeInv'
  <2>1. UNCHANGED <<params, past>>
    BY <1>2 DEF CreatePeriodic, xTaskPREMCreate, xTaskPeriodicCreate
  <2>2. "change" \notin flags
    BY <1>2, <1>t, CreateMoves
  <2> QED
    BY <1>1, <1>2, <1>t, <2>1, <2>2, CreateMoves
<1>3. ASSUME NEW t \in Tasks, StartTask(t) \/ NextPeriod(t) PROVE SizeInv'
  <2>1. /\ running = NoTask /\ pc[t] \in {"new", "ready"} /\ pc' = [pc EXCEPT ![t] = "job"]
        /\ UNCHANGED <<flags, asked, sizes, data_size>>
    BY <1>3 DEF StartTask, NextPeriod
  <2> QED
    BY <1>1, <1>t, <2>1
<1>4. ASSUME NEW t \in Tasks, RunPlain(t) \/ DeleteSelf(t) \/ Wait(t) PROVE SizeInv'
  <2>1. /\ running = t /\ pc[t] \in {"job", "check"}
        /\ \E place \in {"check", "deleted", "ready"} : pc' = [pc EXCEPT ![t] = place]
        /\ UNCHANGED <<flags, asked, sizes, data_size>>
    BY <1>4 DEF RunPlain, DeleteSelf, Wait, Goto
  <2> QED
    BY <1>1, <1>t, <2>1
<1>5. ASSUME NEW t \in Tasks, RunTaskCode(t) PROVE SizeInv'
  <2>1. /\ running = t /\ t \in Prem /\ pc[t] = "job" /\ pc' = [pc EXCEPT ![t] = "account"]
        /\ sizes' = [sizes EXCEPT ![t] = @ \cup {data_size[t]}]
        /\ UNCHANGED <<running, data_size>>
    BY <1>5 DEF RunTaskCode, Goto
  <2>2. PICK R \in Requests : flags' = flags \cup R /\ asked' = [asked EXCEPT ![t] = R]
    BY <1>5 DEF RunTaskCode
  <2>3. "change" \notin flags
    BY <1>t, <2>1
  <2>4. ChangePending'
    BY <1>t, <2>1, <2>2, <2>3
  <2>5. OneSize'
    BY <1>t, <2>1, <2>2
  <2> QED
    BY <2>4, <2>5
<1>6. ASSUME NEW t \in Tasks, MeasureResponse(t) PROVE SizeInv'
  <2>1. /\ running = t /\ pc[t] = "account" /\ pc' = [pc EXCEPT ![t] = "size"]
        /\ UNCHANGED <<running, flags, asked, sizes, data_size>>
    BY <1>6 DEF MeasureResponse, Goto
  <2> QED
    BY <1>t, <2>1
<1>7. ASSUME NEW t \in Tasks, ChangePrefetchSize(t) PROVE SizeInv'
  <2>1. /\ running = t /\ pc[t] = "size" /\ pc' = [pc EXCEPT ![t] = "results"]
        /\ UNCHANGED <<running, asked, sizes>>
    BY <1>7 DEF ChangePrefetchSize, Goto
  <2>2. CASE "change" \in flags
    <3>1. data_size' = [data_size EXCEPT ![t] = new_prefetch_size] /\ flags' = flags \ {"change"}
      BY <1>7, <2>2 DEF ChangePrefetchSize
    <3>2. "change" \in asked[t]
      BY <2>1, <2>2
    <3> QED
      BY <1>t, <2>1, <3>1, <3>2
  <2>3. CASE "change" \notin flags
    <3>1. UNCHANGED <<data_size, flags>>
      BY <1>7, <2>3 DEF ChangePrefetchSize
    <3> QED
      BY <1>t, <2>1, <2>3, <3>1
  <2> QED
    BY <2>2, <2>3
<1>8. ASSUME NEW t \in Tasks, Delete(t) \/ Display(t) PROVE SizeInv'
  <2>1. /\ running = t /\ t \in Prem /\ pc[t] = "results" /\ pc' = [pc EXCEPT ![t] = "check"]
        /\ sizes' = [sizes EXCEPT ![t] = {}] /\ flags' \subseteq flags
        /\ UNCHANGED <<running, asked, data_size>>
    BY <1>8, <1>t DEF Delete, Display, Goto, display_results
  <2> QED
    BY <1>t, <2>1
<1>9. ASSUME NEW t \in Tasks, GoOn(t) PROVE SizeInv'
  <2>1. /\ running = t /\ pc[t] = "results" /\ pc' = [pc EXCEPT ![t] = "check"]
        /\ flags \cap {"kill", "display"} = {}
        /\ UNCHANGED <<running, flags, asked, sizes, data_size>>
    BY <1>9 DEF GoOn, Goto
  <2>2. "change" \notin asked[t]
    BY <1>t, <2>1 DEF ChangeDisplays
  <2> QED
    BY <1>1, <1>t, <2>1, <2>2
<1>10. CASE vInitPREM \/ vTaskStartScheduler \/ UNCHANGED vars
  BY <1>10 DEF vInitPREM, vTaskStartScheduler, vars
<1> QED
  BY <1>2, <1>3, <1>4, <1>5, <1>6, <1>7, <1>8, <1>9, <1>10 DEF Next, Turn, Stop

(* The jobs between two displays prefetch the same size, when a job that asks *)
(* for another size asks for a display or its deletion too. *)
THEOREM SeriesHaveOneSize ==
    ASSUME ChangeDisplays PROVE Spec => []SeriesOfOneSize
<1>1. LifeInv /\ SizeInv /\ [Next]_vars => SizeInv'
  BY SizeStep
<1>2. SizeInv => SeriesOfOneSize
  <2> SUFFICES ASSUME SizeInv, NEW t \in Prem PROVE Cardinality(sizes[t]) <= 1
    BY DEF SeriesOfOneSize
  <2>1. PICK s \in Sizes : sizes[t] \subseteq {s}
    BY DEF SizeInv, OneSize
  <2>2. IsFiniteSet({s}) /\ Cardinality({s}) = 1
    BY FS_Singleton
  <2>3. Cardinality(sizes[t]) <= Cardinality({s})
    BY <2>1, <2>2, FS_Subset
  <2> QED
    BY <2>2, <2>3
<1> QED
  BY <1>1, <1>2, LifeInit, LifeStep, SizeInit, PTL DEF Spec

-----------------------------------------------------------------------------
(* Sums over a series.                                                       *)

(* Every set of numbers that is not empty has a least element. *)
LEMMA LeastNumber ==
    ASSUME NEW S, S \subseteq Nat, S # {}
    PROVE  \E m \in S : \A k \in S : m <= k
<1>1. \E m \in S : \A k \in S : ~ (<<k, m>> \in OpToRel(<, Nat))
  BY NatLessThanWellFounded, WFMin
<1>2. PICK m \in S : \A k \in S : ~ (<<k, m>> \in OpToRel(<, Nat))
  BY <1>1
<1>3. ASSUME NEW k \in S PROVE m <= k
  <2>1. ~ (<<k, m>> \in {ss \in Nat \X Nat : ss[1] < ss[2]})
    BY <1>2 DEF OpToRel
  <2> QED
    BY <2>1
<1> QED
  BY <1>3

(* What the recursive function of SumUpTo is to satisfy. *)
IsSum(f, s) == f = [k \in 0 .. Len(s) |-> IF k < 2 THEN 0 ELSE f[k - 1] + s[k]]

(* There is such a function for every series: a least index to which there is *)
(* none would be one more than an index to which there is one. *)
LEMMA SumExists ==
    ASSUME NEW s \in Seq(Nat)
    PROVE  \E f : IsSum(f, s)
<1> DEFINE Upto(f, n) == /\ f \in [0 .. n -> Nat]
                         /\ \A k \in 0 .. n : f[k] = IF k < 2 THEN 0 ELSE f[k - 1] + s[k]
           Bad == {n \in 0 .. Len(s) : ~ \E f : Upto(f, n)}
<1>1. Bad = {}
  <2> SUFFICES ASSUME Bad # {} PROVE FALSE
    OBVIOUS
  <2>1. PICK n \in Bad : \A k \in Bad : n <= k
    <3>1. Bad \subseteq Nat
      OBVIOUS
    <3> HIDE DEF Bad
    <3> QED
      BY <3>1, LeastNumber
  <2>2. CASE n < 2
    <3> DEFINE f == [k \in 0 .. n |-> 0]
    <3>1. Upto(f, n)
      BY <2>2
    <3> QED
      BY <3>1
  <2>3. CASE ~(n < 2)
    <3>1. n - 1 \in 0 .. Len(s) /\ n - 1 \notin Bad /\ n \in Nat /\ n <= Len(s)
      <4>1. n \in 0 .. Len(s)
        OBVIOUS
      <4>2. Len(s) \in Nat
        OBVIOUS
      <4>3. n - 1 \notin Bad
        <5>1. ~(n <= n - 1)
          BY <4>1, <4>2
        <5> HIDE DEF Bad
        <5> QED
          BY <2>1, <5>1
      <4> QED
        <5> HIDE DEF Bad
        <5> QED
          BY <2>3, <4>1, <4>2, <4>3
    <3>2. PICK g : Upto(g, n - 1)
      BY <3>1
    <3> DEFINE f == [k \in 0 .. n |-> IF k = n THEN g[n - 1] + s[n] ELSE g[k]]
    <3>3. s[n] \in Nat /\ g[n - 1] \in Nat
      BY <2>3, <3>1, <3>2
    <3>4. f \in [0 .. n -> Nat]
      BY <3>1, <3>2, <3>3
    <3>5. ASSUME NEW k \in 0 .. n PROVE f[k] = IF k < 2 THEN 0 ELSE f[k - 1] + s[k]
      <4>1. CASE k = n
        BY <4>1, <2>3, <3>1
      <4>2. CASE k # n
        BY <4>2, <3>2, <3>1
      <4> QED
        BY <4>1, <4>2
    <3>6. Upto(f, n)
      BY <3>4, <3>5
    <3> QED
      BY <3>6
  <2> QED
    BY <2>2, <2>3
<1>2. PICK f : Upto(f, Len(s))
  BY <1>1
<1>3. IsSum(f, s)
  BY <1>2 DEF IsSum
<1> QED
  BY <1>3

LEMMA SumDefined ==
    ASSUME NEW s \in Seq(Nat)
    PROVE  IsSum(SumUpTo(s), s)
BY SumExists DEF SumUpTo, IsSum

(* Two series that begin alike have the same sums so far. *)
LEMMA SumUnique ==
    ASSUME NEW s \in Seq(Nat), NEW t \in Seq(Nat), NEW n \in Nat, n <= Len(s), n <= Len(t),
           \A k \in 1 .. n : s[k] = t[k]
    PROVE  SumUpTo(s)[n] = SumUpTo(t)[n]
<1> DEFINE f == SumUpTo(s)
           g == SumUpTo(t)
           Bad == {k \in 0 .. n : f[k] # g[k]}
<1>1. \A k \in 0 .. n : /\ f[k] = IF k < 2 THEN 0 ELSE f[k - 1] + s[k]
                       /\ g[k] = IF k < 2 THEN 0 ELSE g[k - 1] + t[k]
  <2>1. IsSum(f, s) /\ IsSum(g, t)
    BY SumDefined
  <2> HIDE DEF f, g
  <2> SUFFICES ASSUME NEW k \in 0 .. n
               PROVE  /\ f[k] = IF k < 2 THEN 0 ELSE f[k - 1] + s[k]
                      /\ g[k] = IF k < 2 THEN 0 ELSE g[k - 1] + t[k]
    OBVIOUS
  <2>2. k \in 0 .. Len(s) /\ k \in 0 .. Len(t)
    OBVIOUS
  <2>3. f[k] = [j \in 0 .. Len(s) |-> IF j < 2 THEN 0 ELSE f[j - 1] + s[j]][k]
    BY <2>1 DEF IsSum
  <2>4. g[k] = [j \in 0 .. Len(t) |-> IF j < 2 THEN 0 ELSE g[j - 1] + t[j]][k]
    BY <2>1 DEF IsSum
  <2> QED
    BY <2>2, <2>3, <2>4
<1> HIDE DEF f, g
<1>2. Bad = {}
  <2> SUFFICES ASSUME Bad # {} PROVE FALSE
    OBVIOUS
  <2>1. PICK m \in Bad : \A k \in Bad : m <= k
    <3>1. Bad \subseteq Nat
      OBVIOUS
    <3> HIDE DEF Bad
    <3> QED
      BY <3>1, LeastNumber
  <2>2. m \in 0 .. n /\ f[m] # g[m]
    OBVIOUS
  <2>3. ~(m < 2)
    BY <1>1, <2>2
  <2>4. m - 1 \in 0 .. n /\ m \in 1 .. n /\ ~(m <= m - 1)
    BY <2>2, <2>3
  <2>5. f[m - 1] = g[m - 1]
    BY <2>1, <2>4
  <2> QED
    BY <1>1, <2>2, <2>3, <2>4, <2>5
<1> QED
  BY <1>2 DEF f, g

(* One more response time. *)
LEMMA SumAppend ==
    ASSUME NEW s \in Seq(Nat), NEW x \in Nat
    PROVE  SumUpTo(Append(s, x))[Len(s) + 1] =
               IF Len(s) = 0 THEN 0 ELSE SumUpTo(s)[Len(s)] + x
<1> DEFINE t == Append(s, x)
<1>1. /\ t \in Seq(Nat) /\ Len(t) = Len(s) + 1 /\ Len(s) \in Nat
      /\ t[Len(s) + 1] = x
      /\ \A k \in 1 .. Len(s) : s[k] = t[k]
  OBVIOUS
<1> HIDE DEF t
<1>2. SumUpTo(s)[Len(s)] = SumUpTo(t)[Len(s)]
  <2>1. Len(s) <= Len(s) /\ Len(s) <= Len(t)
    BY <1>1
  <2> QED
    BY <1>1, <2>1, SumUnique
<1> DEFINE g == SumUpTo(t)
<1>3. IsSum(g, t)
  BY <1>1, SumDefined
<1> HIDE DEF g
<1>4. g[Len(s) + 1] = IF Len(s) + 1 < 2 THEN 0 ELSE g[Len(s) + 1 - 1] + t[Len(s) + 1]
  BY <1>1, <1>3 DEF IsSum
<1>5. g[Len(s) + 1] = IF Len(s) = 0 THEN 0 ELSE g[Len(s)] + x
  BY <1>1, <1>4
<1> QED
  BY <1>2, <1>5 DEF g, t

LEMMA CountedAppend ==
    ASSUME NEW s \in Seq(Nat), NEW x \in Nat
    PROVE  Counted(Append(s, x)) = IF Len(s) = 0 THEN {} ELSE Counted(s) \cup {x}
<1>1. Len(Append(s, x)) = Len(s) + 1 /\ Len(s) \in Nat
  OBVIOUS
<1>2. \A k \in 1 .. Len(s) : Append(s, x)[k] = s[k]
  OBVIOUS
<1>3. Append(s, x)[Len(s) + 1] = x
  OBVIOUS
<1>4. CASE Len(s) = 0
  BY <1>1, <1>4 DEF Counted
<1>5. CASE Len(s) # 0
  <2>1. 2 .. Len(s) + 1 = (2 .. Len(s)) \cup {Len(s) + 1}
    BY <1>1, <1>5
  <2> QED
    BY <1>1, <1>2, <1>3, <1>5, <2>1 DEF Counted
<1> QED
  BY <1>4, <1>5

-----------------------------------------------------------------------------
(* Statistics.                                                               *)

LEMMA NoStatistics == AreStatistics(NoResults, <<>>)
<1>1. Counted(<<>>) = {}
  BY DEF Counted
<1>2. <<>> \in Seq(Nat) /\ Len(<<>>) = 0
  OBVIOUS
<1>3. SumUpTo(<<>>)[0] = 0
  <2> DEFINE f == SumUpTo(<<>>)
  <2>1. IsSum(f, <<>>)
    BY <1>2, SumDefined
  <2> HIDE DEF f
  <2>2. f[0] = 0
    BY <1>2, <2>1 DEF IsSum
  <2> QED
    BY <2>2 DEF f
<1>4. NoResults = [max |-> 0, min |-> UINT64_MAX, sum |-> 0, number |-> 0]
  BY DEF NoResults
<1> QED
  BY <1>1, <1>2, <1>3, <1>4, NoResultsType DEF AreStatistics

(* What measure_response does for one more job. *)
LEMMA StatisticsAppend ==
    ASSUME NEW s \in Seq(0 .. MaxResponse), NEW r, AreStatistics(r, s), NEW x \in 0 .. MaxResponse
    PROVE  AreStatistics(Measured(r, x), Append(s, x))
<1> DEFINE q == Measured(r, x)
           C == Counted(s)
<1>1. s \in Seq(Nat) /\ x \in Nat /\ r \in Responses /\ q \in Responses
  BY ConstantFacts, MeasuredType DEF AreStatistics
<1>2. C \subseteq Nat
  BY <1>1 DEF Counted
<1>3. Len(Append(s, x)) = Len(s) + 1 /\ Len(s) \in Nat
  BY <1>1
<1>4. /\ r.max \in C \cup {0} /\ r.min \in C \cup {UINT64_MAX}
      /\ \A y \in C : r.min <= y /\ y <= r.max
      /\ r.sum = SumUpTo(s)[Len(s)] /\ r.number = Len(s)
  BY DEF AreStatistics
<1>5. {r.max, r.min, r.sum, r.number} \subseteq Nat
  BY <1>1 DEF Responses
<1>6. CASE Len(s) = 0
  <2>1. q = [r EXCEPT !.number = @ + 1]
    BY <1>4, <1>6 DEF Measured
  <2>2. q.max = r.max /\ q.min = r.min /\ q.sum = r.sum /\ q.number = 1
    BY <1>1, <1>4, <1>6, <2>1 DEF Responses
  <2>3. C = {} /\ Counted(Append(s, x)) = {}
    BY <1>1, <1>6, CountedAppend DEF Counted
  <2>4. SumUpTo(Append(s, x))[Len(s) + 1] = 0
    BY <1>1, <1>6, SumAppend
  <2>5. r.sum = 0
    <3> DEFINE f == SumUpTo(s)
    <3>1. IsSum(f, s)
      BY <1>1, SumDefined
    <3> HIDE DEF f
    <3>2. f[0] = 0
      BY <1>6, <3>1 DEF IsSum
    <3> QED
      BY <1>4, <1>6, <3>2 DEF f
  <2> HIDE DEF q, C
  <2>6. AreStatistics(q, Append(s, x))
    BY <1>1, <1>3, <1>4, <1>6, <2>2, <2>3, <2>4, <2>5 DEF AreStatistics
  <2> QED
    BY <2>6 DEF q
<1>7. CASE Len(s) # 0
  <2>1. q = [max |-> AtLeast(r.max, x), min |-> AtMost(r.min, x),
             sum |-> r.sum + x, number |-> r.number + 1]
    BY <1>3, <1>4, <1>7 DEF Measured
  <2>2. /\ q.max = (IF r.max < x THEN x ELSE r.max)
        /\ q.min = (IF r.min > x THEN x ELSE r.min)
        /\ q.sum = r.sum + x /\ q.number = Len(s) + 1
    BY <1>4, <2>1 DEF AtLeast, AtMost
  <2>3. Counted(Append(s, x)) = C \cup {x}
    BY <1>1, <1>7, CountedAppend
  <2>4. SumUpTo(Append(s, x))[Len(s) + 1] = r.sum + x
    BY <1>1, <1>4, <1>7, SumAppend
  <2> HIDE DEF q, C
  <2>5. q.max \in C \cup {x} \cup {0} /\ q.min \in C \cup {x} \cup {UINT64_MAX}
    BY <1>4, <2>2
  <2>6. \A y \in C \cup {x} : q.min <= y /\ y <= q.max
    BY <1>1, <1>2, <1>4, <1>5, <2>2
  <2>7. AreStatistics(q, Append(s, x))
    BY <1>1, <1>3, <2>2, <2>3, <2>4, <2>5, <2>6 DEF AreStatistics
  <2> QED
    BY <2>7 DEF q
<1> QED
  BY <1>6, <1>7

(* AreStatistics leaves one record. *)
LEMMA StatisticsUnique ==
    ASSUME NEW s \in Seq(0 .. MaxResponse), NEW r, AreStatistics(r, s)
    PROVE  r = StatisticsOf(s)
<1> DEFINE C == Counted(s)
           IsMax(m) == m \in C \cup {0} /\ \A x \in C : x <= m
           IsMin(m) == m \in C \cup {UINT64_MAX} /\ \A x \in C : m <= x
<1>1. C \subseteq 0 .. MaxResponse
  <2>1. ASSUME NEW k \in 2 .. Len(s) PROVE s[k] \in 0 .. MaxResponse
    <3>1. k \in 1 .. Len(s)
      BY Len(s) \in Nat
    <3> QED
      BY <3>1, ElementOfSeq
  <2> QED
    BY <2>1 DEF Counted
<1>2. IsMax(r.max) /\ IsMin(r.min)
  BY DEF AreStatistics
<1> HIDE DEF C
<1>3. \A m, n : IsMax(m) /\ IsMax(n) => m = n
  BY <1>1, ConstantFacts
<1>4. \A m, n : IsMin(m) /\ IsMin(n) => m = n
  BY <1>1, ConstantFacts DEF UINT64_MAX
<1>5. r.max = CHOOSE m \in C \cup {0} : \A x \in C : x <= m
  BY <1>2, <1>3
<1>6. r.min = CHOOSE m \in C \cup {UINT64_MAX} : \A x \in C : m <= x
  BY <1>2, <1>4
<1>7. r.sum = SumUpTo(s)[Len(s)] /\ r.number = Len(s) /\ r \in Responses
  BY DEF AreStatistics
<1>8. r = [max |-> r.max, min |-> r.min, sum |-> r.sum, number |-> r.number]
  BY <1>7 DEF Responses
<1> QED
  BY <1>5, <1>6, <1>7, <1>8 DEF StatisticsOf, C

-----------------------------------------------------------------------------
(* The arrays hold the statistics.                                           *)

StatInv == OwnRelease /\ StatisticsKept

LEMMA StatInit == Init => StatInv
BY ConstantFacts DEF Init, StatInv, OwnRelease, StatisticsKept, InTurn

(* The elements of other tasks are not touched. *)
LEMMA OwnElement ==
    ASSUME LifeInv, mainPC = "started", NEW t \in Prem, NEW u \in Prem, u # t
    PROVE  premId[u] # premId[t]
BY ConstantFacts DEF LifeInv, OneTurn, OwnIds, SetupDone, Created

LEMMA ElementExists ==
    ASSUME LifeInv, NEW t \in Tasks, pc[t] # "none"
    PROVE  periodicId[t] \in Ids /\ (t \in Prem => premId[t] \in Ids)
BY IdsIndex DEF LifeInv, TypeInv, TypeOK

LEMMA StatStep ==
    ASSUME LifeInv, StatInv, [Next]_vars
    PROVE  StatInv'
<1> USE ConstantFacts DEF StatInv, OwnRelease, InTurn
<1> USE DEF ids, memory, params, past, vars
<1>t. /\ pc \in [Tasks -> Places] /\ OneTurn
      /\ last_period_start \in [Ids -> Nat] /\ release \in [Tasks -> Nat]
      /\ periodicId \in [Tasks -> Nat]
      /\ response \in [Ids -> Responses] /\ series \in [Prem -> Seq(Nat)]
      /\ mainPC \in {"setup", "initialised", "started"}
      /\ \A t \in Prem : series[t] \in Seq(0 .. MaxResponse)
  BY DEF LifeInv, TypeInv, TypeOK, NotInFuture
<1>1. ASSUME UNCHANGED <<periodicId, last_period_start, release>>,
             \A u \in Tasks : pc[u] \notin {"job", "account", "size", "results", "check"} =>
                 pc'[u] \notin {"job", "account", "size", "results", "check"}
      PROVE  OwnRelease'
  BY <1>1
<1>2. ASSUME UNCHANGED <<mainPC, ids, response, series>> PROVE StatisticsKept'
  BY <1>2 DEF StatisticsKept
<1>3. ASSUME NEW t \in Tasks, CreatePeriodic(t) \/ xTaskPREMCreate(t) PROVE StatInv'
  <2>1. /\ UNCHANGED <<memory, params, past>>
        /\ \A u \in Tasks : u # t => periodicId'[u] = periodicId[u]
        /\ mainPC = "initialised" => InitTime = "first"
    BY <1>3, <1>t DEF CreatePeriodic, xTaskPREMCreate, xTaskPeriodicCreate
  <2>2. OwnRelease'
    BY <1>3, <1>t, <2>1, CreateMoves
  <2>3. StatisticsKept'
    BY <1>3, <1>t, <2>1, CreateMoves DEF StatisticsKept
  <2> QED
    BY <2>2, <2>3
<1>4. ASSUME NEW t \in Tasks, StartTask(t) \/ NextPeriod(t) PROVE StatInv'
  <2>1. /\ running = NoTask /\ pc[t] # "none" /\ pc' = [pc EXCEPT ![t] = "job"]
        /\ UNCHANGED <<mainPC, ids, response, series>>
        /\ \E r : /\ last_period_start' = [last_period_start EXCEPT ![periodicId[t]] = r]
                  /\ release' = [release EXCEPT ![t] = r]
    BY <1>4 DEF StartTask, NextPeriod
  <2>2. periodicId[t] \in Ids
    BY <2>1, ElementExists
  <2>3. \A u \in Tasks : ~InTurn(u)
    BY <1>t, <2>1 DEF OneTurn
  <2>4. OwnRelease'
    BY <1>t, <2>1, <2>2, <2>3
  <2> QED
    BY <1>2, <2>1, <2>4
<1>5. ASSUME NEW t \in Tasks, RunPlain(t) \/ RunTaskCode(t) \/ ChangePrefetchSize(t) \/ GoOn(t)
      PROVE  StatInv'
  <2>1. /\ running = t /\ \E place : pc' = [pc EXCEPT ![t] = place]
        /\ UNCHANGED <<mainPC, ids, response, series, last_period_start, release>>
    BY <1>5 DEF RunPlain, RunTaskCode, ChangePrefetchSize, GoOn, Goto
  <2>2. InTurn(t)
    BY <1>t, <2>1 DEF OneTurn
  <2> QED
    BY <1>1, <1>2, <1>t, <2>1, <2>2
<1>6. ASSUME NEW t \in Tasks, MeasureResponse(t) PROVE StatInv'
  <2>1. /\ running = t /\ pc[t] = "account" /\ pc' = [pc EXCEPT ![t] = "size"]
        /\ mainPC = "started" /\ t \in Prem
        /\ UNCHANGED <<mainPC, ids, last_period_start, release>>
        /\ series' = [series EXCEPT ![t] = Append(@, pdSYSTICK_TO_NS(now - release[t]))]
        /\ Measure => response' = [response EXCEPT ![premId[t]] =
                          Measured(@, pdSYSTICK_TO_NS(now - last_period_start[premId[t]]))]
    BY <1>6, <1>t DEF MeasureResponse, Goto, OneTurn
  <2>2. OwnRelease'
    BY <1>1, <1>t, <2>1
  <2>3. ASSUME NEW u \in Prem, Measure, InitTime = "last", premId[u] = periodicId[u]
        PROVE  AreStatistics(response'[premId[u]], series'[u])
    <3>1. AreStatistics(response[premId[u]], series[u])
      BY <2>1, <2>3 DEF StatisticsKept
    <3>2. CASE u = t
      <4>1. last_period_start[premId[t]] = release[t]
        BY <2>1, <2>3, <3>2
      <4>2. premId[t] \in Ids
        BY <2>1, ElementExists
      <4>3. pdSYSTICK_TO_NS(now - release[t]) \in 0 .. MaxResponse
        <5>1. release[t] \in Nat /\ release[t] <= now
          BY DEF LifeInv, TypeInv, TypeOK, NotInFuture
        <5> QED
          BY <5>1, ResponseTime DEF LifeInv
      <4>4. response'[premId[t]] = Measured(response[premId[t]], pdSYSTICK_TO_NS(now - release[t]))
        BY <1>t, <2>1, <2>3, <4>1, <4>2
      <4>5. series'[t] = Append(series[t], pdSYSTICK_TO_NS(now - release[t]))
        BY <1>t, <2>1
      <4> QED
        BY <1>t, <2>1, <3>1, <3>2, <4>3, <4>4, <4>5, StatisticsAppend
    <3>3. CASE u # t
      <4>1. premId[u] # premId[t]
        BY <2>1, <3>3, OwnElement
      <4>2. response'[premId[u]] = response[premId[u]]
        BY <1>t, <2>1, <2>3, <4>1, ElementExists DEF OneTurn, SetupDone
      <4>3. series'[u] = series[u]
        BY <1>t, <2>1, <3>3
      <4> QED
        BY <3>1, <4>2, <4>3
    <3> QED
      BY <3>2, <3>3
  <2>4. StatisticsKept'
    BY <2>1, <2>3 DEF StatisticsKept
  <2> QED
    BY <2>2, <2>4
<1>7. ASSUME NEW t \in Tasks, Delete(t) \/ Display(t) PROVE StatInv'
  <2>1. /\ running = t /\ pc[t] = "results" /\ pc' = [pc EXCEPT ![t] = "check"]
        /\ mainPC = "started" /\ t \in Prem
        /\ UNCHANGED <<mainPC, ids, last_period_start, release>>
        /\ series' = [series EXCEPT ![t] = <<>>]
        /\ response' = [response EXCEPT ![premId[t]] = NoResults]
    BY <1>7, <1>t DEF Delete, Display, display_results, Goto, OneTurn
  <2>2. OwnRelease'
    BY <1>1, <1>t, <2>1
  <2>3. ASSUME NEW u \in Prem, Measure, InitTime = "last", premId[u] = periodicId[u]
        PROVE  AreStatistics(response'[premId[u]], series'[u])
    <3>1. AreStatistics(response[premId[u]], series[u])
      BY <2>1, <2>3 DEF StatisticsKept
    <3>2. premId[u] \in Ids
      BY <1>t, <2>1, ElementExists DEF OneTurn, SetupDone
    <3>3. CASE u = t
      <4>1. response'[premId[u]] = NoResults /\ series'[u] = <<>>
        BY <1>t, <2>1, <3>2, <3>3
      <4> QED
        BY <4>1, NoStatistics
    <3>4. CASE u # t
      <4>1. premId[u] # premId[t]
        BY <2>1, <3>4, OwnElement
      <4>2. response'[premId[u]] = response[premId[u]] /\ series'[u] = series[u]
        BY <1>t, <2>1, <3>2, <3>4, <4>1
      <4> QED
        BY <3>1, <4>2
    <3> QED
      BY <3>3, <3>4
  <2>4. StatisticsKept'
    BY <2>1, <2>3 DEF StatisticsKept
  <2> QED
    BY <2>2, <2>4
<1>8. ASSUME NEW t \in Tasks, DeleteSelf(t) \/ Wait(t) PROVE StatInv'
  BY <1>1, <1>2, <1>8, <1>t DEF DeleteSelf, Wait, Goto
<1>9. CASE vInitPREM
  <2>1. /\ mainPC = "setup" /\ mainPC' = "initialised"
        /\ UNCHANGED <<pc, ids, last_period_start, release, series>>
        /\ response' = [i \in Ids |-> IF Measure /\ i < task_id THEN NoResults
                                                                ELSE response[i]]
        /\ InitTime = "last" => SetupDone
    BY <1>9 DEF vInitPREM
  <2>2. ASSUME NEW u \in Prem, Measure, InitTime = "last"
        PROVE  response'[premId[u]] = NoResults
    <3>1. u \in Created \cap Prem /\ pc[u] # "none"
      BY <2>1, <2>2 DEF SetupDone, Created
    <3>2. premId[u] < task_id
      BY <3>1 DEF LifeInv, OwnIds
    <3>3. premId[u] \in Ids
      BY <3>1, ElementExists
    <3> QED
      BY <2>1, <2>2, <3>2, <3>3
  <2>3. StatisticsKept'
    BY <2>1, <2>2, NoStatistics DEF StatisticsKept
  <2> QED
    BY <1>1, <2>1, <2>3
<1>10. CASE vTaskStartScheduler
  <2>1. /\ mainPC # "setup" \/ InitTime = "never"
        /\ mainPC' = "started"
        /\ UNCHANGED <<pc, ids, response, last_period_start, release, series>>
    BY <1>10 DEF vTaskStartScheduler
  <2>2. StatisticsKept'
    BY <2>1 DEF StatisticsKept
  <2> QED
    BY <1>1, <2>1, <2>2
<1>11. CASE UNCHANGED vars
  BY <1>1, <1>2, <1>11
<1> QED
  BY <1>3, <1>4, <1>5, <1>6, <1>7, <1>8, <1>9, <1>10, <1>11 DEF Next, Turn, Stop

(* When vInitPREM is called after the last creation, the arrays hold for each *)
(* task whose ids agree the statistics of its own jobs since its last display. *)
THEOREM StatisticsAreTheSeries ==
    ASSUME InitTime = "last" PROVE Spec => []StatisticsAreSeries
<1>1. LifeInv /\ StatInv /\ [Next]_vars => StatInv'
  BY StatStep
<1>2. LifeInv /\ StatInv => StatisticsAreSeries
  <2> SUFFICES ASSUME LifeInv, StatInv, Measure, mainPC = "started",
                      NEW t \in Prem, premId[t] = periodicId[t]
               PROVE  response[premId[t]] = StatisticsOf(series[t])
    BY DEF StatisticsAreSeries
  <2>1. AreStatistics(response[premId[t]], series[t])
    BY DEF StatInv, StatisticsKept
  <2>2. series[t] \in Seq(0 .. MaxResponse)
    BY DEF LifeInv, TypeInv, NotInFuture
  <2> QED
    BY <2>1, <2>2, StatisticsUnique
<1> QED
  BY <1>1, <1>2, LifeInit, LifeStep, StatInit, PTL DEF Spec
=============================================================================
