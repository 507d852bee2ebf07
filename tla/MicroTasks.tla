----------------------------- MODULE MicroTasks ------------------------------
(***************************************************************************)
(* The tasks of execution-microbenchmarks, the order in which main_app     *)
(* makes them run, and what they must guarantee: to the other cores, that  *)
(* they give the token back, and to the reader of the results, that no IPI *)
(* of the token protocol is measured for one of their own.                 *)
(***************************************************************************)
EXTENDS Naturals

CONSTANT Me                            \* the core that measures

VARIABLES
    ready,                             \* tasks not deleted
    pc,                                \* of the task that runs
    owner, waiting,                    \* the token (MemoryArbiter)
    times, latencies                   \* history: times counted in this series, and
                                       \* what the IPIs themselves took

Tasks == {"hypercall", "ipi", "request", "revoke", "end"}

(* main_app gives each task a priority; the one that runs goes on until it    *)
(* deletes itself. *)

(* Slip: requests before IPIs. *)
Priority_RequestsFirst ==
    [hypercall |-> 5, ipi |-> 3, request |-> 4, revoke |-> 2, end |-> 1]

Priority == [hypercall |-> 5, ipi |-> 4, request |-> 3, revoke |-> 2, end |-> 1]

Running(t) == t \in ready /\ \A u \in ready : Priority[u] <= Priority[t]

-----------------------------------------------------------------------------
(* What vIPITask counts is what its IPIs took: no pause of the token protocol *)
(* ends a wait for an IPI, and no IPI is counted twice (lines 108-139). *)
IPITimesAreLatencies ==
    Running("ipi") /\ pc = "loop" => times = latencies

(* Each measurement gives the token back, or its place in the queue: the      *)
(* hypervisor counts this core as owner or waiting only inside of one. *)
TokenOnlyInMeasurement ==
    (owner = Me \/ Me \in waiting) <=> pc = "held"
=============================================================================
