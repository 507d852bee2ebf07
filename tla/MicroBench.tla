----------------------------- MODULE MicroBench ------------------------------
(***************************************************************************)
(* The application src/execution-microbenchmarks/main.c on one core, with  *)
(* the memory token and the requests of the other cores around it.  Five   *)
(* tasks without preemption, each of which runs to its deletion, share the *)
(* IPI handlers: empty_handler (IPI_PAUSE) sets what the measurement of    *)
(* IPIs waits for.  The statistics of vHypercallTask are Benchmark's; the  *)
(* other tasks keep their own.                                             *)
(***************************************************************************)
EXTENDS MemoryArbiter, Integers, Sequences

CONSTANTS
    Me,               \* the core that measures
    Runs,             \* NUMBER_OF_TESTS
    Durations,        \* what a timed hypercall returns
    LastPrio,         \* the loops go from 0 to this (6) by 2
    Word,             \* 2^64
    Horizon           \* bound: the counter of the timer

ASSUME MeAssumption       == Me \in Cores
ASSUME RunsAssumption     == Runs \in Nat \ {0}
ASSUME WordAssumption     == Word \in Nat /\ Word > 0
ASSUME DurationAssumption == Durations \subseteq 0 .. Word - 1 /\ Durations # {}
ASSUME PrioAssumption     == LastPrio \in Nat
ASSUME HorizonAssumption  == Horizon \in 0 .. Word - 1

VARIABLES
    ready,                         \* tasks not deleted
    pc, counter, prio,             \* of the task that runs
    max_time, min_time, sum,
    start_ipi_time, arbitration_time,
    ipi_received, end_ipi_time,    \* shared with the handlers
    idPending,                     \* IPI_IRQ_ID has been sent
    now,
    times, latencies               \* history: times counted in this series, and
                                   \* what the IPIs themselves took

locals == <<counter, prio, max_time, min_time, sum, start_ipi_time, arbitration_time>>
shared == <<ipi_received, end_ipi_time, idPending>>
past   == <<times, latencies>>
vars   == <<ready, pc, locals, shared, now, past, arbVars>>

INSTANCE MicroTasks

TypeOK ==
    /\ ArbiterTypeOK
    /\ ready \subseteq Tasks
    /\ pc \in {"start", "loop", "spin", "reset", "account", "held"}
    /\ counter \in 0 .. Runs
    /\ prio \in 0 .. LastPrio
    /\ {max_time, min_time, sum, start_ipi_time, arbitration_time, end_ipi_time}
           \subseteq 0 .. Word - 1
    /\ ipi_received \in {0, 1}
    /\ idPending \in BOOLEAN
    /\ now \in 0 .. Horizon
    /\ {times, latencies} \subseteq Seq(0 .. Word - 1)

Init ==
    /\ ArbiterInit
    /\ ready = Tasks
    /\ pc = "start"
    /\ counter = 0
    /\ prio = 0
    /\ max_time = 0
    /\ min_time = Word - 1
    /\ sum = 0
    /\ start_ipi_time = 0
    /\ arbitration_time = 0
    /\ ipi_received = 0
    /\ end_ipi_time = 0
    /\ idPending = FALSE
    /\ now = 0
    /\ times = <<>>
    /\ latencies = <<>>

-----------------------------------------------------------------------------
Step(t, from, to) ==
    /\ Running(t)
    /\ pc = from
    /\ pc' = to

StartSeries ==
    /\ \E t \in Tasks \ {"end"} : Step(t, "start", "loop")
    /\ counter' = 0
    /\ max_time' = 0
    /\ min_time' = Word - 1
    /\ sum' = 0
    /\ times' = <<>>
    /\ latencies' = <<>>
    /\ UNCHANGED <<ready, prio, start_ipi_time, arbitration_time, shared, now, arbVars>>

BeginRun == counter < Runs /\ counter' = counter + 1

Account(time) ==
    /\ sum' = (sum + time) % Word
    /\ max_time' = IF time > max_time THEN time ELSE max_time
    /\ min_time' = IF time < min_time THEN time ELSE min_time
    /\ times' = Append(times, time)

(* The statistics of this task are those of run_benchmark. *)
RunHypercall ==
    /\ Step("hypercall", "loop", "loop")
    /\ BeginRun
    /\ UNCHANGED <<ready, prio, max_time, min_time, sum, start_ipi_time,
                   arbitration_time, shared, now, past, arbVars>>

(* The hypervisor sends IPI_IRQ_ID to this core and returns the time. *)
MeasureIPI ==
    /\ Step("ipi", "loop", "spin")
    /\ BeginRun
    /\ start_ipi_time' = now
    /\ idPending' = TRUE
    /\ UNCHANGED <<ready, prio, max_time, min_time, sum, arbitration_time,
                   ipi_received, end_ipi_time, now, past, arbVars>>

SeeIPI ==
    /\ ipi_received # 0
    /\ Step("ipi", "spin", "reset")
    /\ UNCHANGED <<ready, locals, shared, now, past, arbVars>>

ResetFlag ==
    /\ Step("ipi", "reset", "account")
    /\ ipi_received' = 0
    /\ UNCHANGED <<ready, locals, end_ipi_time, idPending, now, past, arbVars>>

AccountIPI ==
    /\ Step("ipi", "account", "loop")
    /\ Account((end_ipi_time - start_ipi_time) % Word)
    /\ UNCHANGED <<ready, counter, prio, start_ipi_time, arbitration_time, shared,
                   now, latencies, arbVars>>

(* vArbitrationRequestTask measures the request, ... *)
RequestTimed ==
    /\ Step("request", "loop", "held")
    /\ BeginRun
    /\ Settled(Me)
    /\ \E ack \in {0, 1} : Ask(Me, ack)
    /\ arbitration_time' \in Durations
    /\ UNCHANGED <<ready, prio, max_time, min_time, sum, start_ipi_time, shared, now,
                   past>>

(* Slip: no revoke. *)
RevokeAfter_Forgotten ==
    /\ Step("request", "held", "loop")
    /\ Account(arbitration_time)
    /\ UNCHANGED <<ready, counter, prio, start_ipi_time, arbitration_time, shared,
                   now, latencies, arbVars>>

RevokeAfter ==
    /\ Step("request", "held", "loop")
    /\ \E result \in {0, 1} : Revoke(Me, result)
    /\ Account(arbitration_time)
    /\ UNCHANGED <<ready, counter, prio, start_ipi_time, arbitration_time, shared,
                   now, latencies>>

(* ... vArbitrationRevokeTask the revoke.  Nobody reads answer. *)
RequestBefore ==
    /\ Step("revoke", "loop", "held")
    /\ BeginRun
    /\ Settled(Me)
    /\ \E ack \in {0, 1} : Ask(Me, ack)
    /\ UNCHANGED <<ready, prio, max_time, min_time, sum, start_ipi_time,
                   arbitration_time, shared, now, past>>

RevokeTimed ==
    /\ Step("revoke", "held", "loop")
    /\ \E result \in {0, 1} : Revoke(Me, result)
    /\ arbitration_time' \in Durations
    /\ Account(arbitration_time')
    /\ UNCHANGED <<ready, counter, prio, start_ipi_time, shared, now, latencies>>

(* The next priority, in the two loops over priorities. *)
NextPrio ==
    /\ counter = Runs
    /\ prio + 2 <= LastPrio
    /\ \E t \in {"request", "revoke"} : Step(t, "loop", "start")
    /\ prio' = prio + 2
    /\ UNCHANGED <<ready, counter, max_time, min_time, sum, start_ipi_time,
                   arbitration_time, shared, now, past, arbVars>>

DeleteSelf(t) ==
    /\ \/ t \in {"hypercall", "ipi"} /\ counter = Runs /\ Step(t, "loop", "start")
       \/ /\ t \in {"request", "revoke"}
          /\ counter = Runs
          /\ prio + 2 > LastPrio
          /\ Step(t, "loop", "start")
       \/ t = "end" /\ Step(t, "start", "start")
    /\ ready' = ready \ {t}
    /\ prio' = 0
    /\ UNCHANGED <<counter, max_time, min_time, sum, start_ipi_time, arbitration_time,
                   shared, now, past, arbVars>>

TaskStep ==
    \/ StartSeries \/ RunHypercall \/ NextPrio
    \/ MeasureIPI \/ SeeIPI \/ ResetFlag \/ AccountIPI
    \/ RequestTimed \/ RevokeAfter \/ RequestBefore \/ RevokeTimed
    \/ \E t \in Tasks : DeleteSelf(t)

-----------------------------------------------------------------------------
(* The handlers. *)

(* Slip: the time, but not the flag. *)
ipi_id_handler_NoFlag ==
    /\ idPending
    /\ idPending' = FALSE
    /\ end_ipi_time' = now
    /\ latencies' = Append(latencies, now - start_ipi_time)
    /\ UNCHANGED <<ready, pc, locals, ipi_received, now, times, arbVars>>

ipi_id_handler ==
    /\ idPending
    /\ idPending' = FALSE
    /\ end_ipi_time' = now
    /\ ipi_received' = 1
    /\ latencies' = Append(latencies, now - start_ipi_time)
    /\ UNCHANGED <<ready, pc, locals, now, times, arbVars>>

(* IPI_PAUSE *)
empty_handler ==
    /\ Take(Me, "pause")
    /\ end_ipi_time' = now
    /\ ipi_received' = 1
    /\ UNCHANGED <<ready, pc, locals, idPending, now, past>>

ipi_resume_handler ==
    /\ Take(Me, "resume")
    /\ UNCHANGED <<ready, pc, locals, shared, now, past>>

-----------------------------------------------------------------------------
(* Around the core: time, and cores that ask and revoke as they like. *)

PassTime ==
    /\ now < Horizon
    /\ now' = now + 1
    /\ UNCHANGED <<ready, pc, locals, shared, past, arbVars>>

OtherCore(d) ==
    /\ \/ owner # d /\ d \notin waiting /\ \E ack \in {0, 1} : Ask(d, ack)
       \/ (owner = d \/ d \in waiting) /\ \E result \in {0, 1} : Revoke(d, result)
       \/ \E ipi \in IPIs : Take(d, ipi)
    /\ UNCHANGED <<ready, pc, locals, shared, now, past>>

Next ==
    \/ TaskStep
    \/ ipi_id_handler \/ empty_handler \/ ipi_resume_handler
    \/ PassTime
    \/ \E d \in Cores \ {Me} : OtherCore(d)

Spec == Init /\ [][Next]_vars

(* The running task is alone on its core, and its interrupts are taken. *)
FairSpec ==
    /\ Spec
    /\ WF_vars(TaskStep)
    /\ WF_vars(ipi_id_handler)
    /\ WF_vars(empty_handler)
    /\ WF_vars(ipi_resume_handler)
-----------------------------------------------------------------------------
(* When a series is printed its statistics are those of all its runs and no   *)
(* others (lines 124-139, 194-206, 265-277). *)
StatisticsAreSeries ==
    (\E t \in {"ipi", "request", "revoke"} : Running(t)) /\ pc = "loop" =>
        /\ Len(times) = counter
        /\ \A i \in DOMAIN times : min_time <= times[i] /\ times[i] <= max_time
        /\ counter > 0 => /\ \E i \in DOMAIN times : times[i] = max_time
                          /\ \E i \in DOMAIN times : times[i] = min_time
        /\ counter > 0 =>
              /\ min_time <= sum \div counter
              /\ sum \div counter <= max_time

(* All tasks end, whatever the other cores do: none of them waits for the     *)
(* token, and every IPI ends a wait. *)
Finishes == <>(ready = {})
-----------------------------------------------------------------------------
(* What these rest on (TokenApps_proofs).                                    *)

TokenInv ==
    /\ ArbiterTypeOK
    /\ owner \notin waiting
    /\ TokenOnlyInMeasurement

(* No other IPI can come while vIPITask exists: only tasks of lower priority  *)
(* ask for the token.  Its IPI is on its way, or has been counted once. *)
IPIInv ==
    /\ now \in 0 .. Horizon
    /\ "ipi" \in ready =>
        /\ pc # "held" /\ pending[Me] = {}
        /\ pc \in {"start", "loop"} => ~idPending /\ ipi_received = 0
        /\ pc = "loop" => times = latencies
        /\ pc \in {"spin", "reset", "account"} =>
              /\ start_ipi_time \in 0 .. now
              /\ pc = "account" => ipi_received = 0
              /\ IF pc = "spin" /\ ipi_received = 0
                 THEN idPending /\ latencies = times
                 ELSE /\ ~idPending
                      /\ end_ipi_time \in start_ipi_time .. now
                      /\ latencies = Append(times, end_ipi_time - start_ipi_time)

(* The statistics of the series so far, when no time is above longest.  The   *)
(* hypercalls are counted too, but not into these. *)
SeriesInv(longest) ==
    "hypercall" \notin ready /\ pc # "start" =>
        /\ counter = Len(times) + (IF pc = "loop" THEN 0 ELSE 1)
        /\ \A i \in DOMAIN times : times[i] \in min_time .. max_time
        /\ IF times = <<>> THEN max_time = 0 /\ min_time = Word - 1 /\ sum = 0
           ELSE /\ max_time <= longest
                /\ \E i \in DOMAIN times : times[i] = max_time
                /\ \E i \in DOMAIN times : times[i] = min_time
                /\ sum \in Len(times) * min_time .. Len(times) * max_time
        /\ pc = "held" /\ "request" \in ready => arbitration_time \in Durations
=============================================================================
