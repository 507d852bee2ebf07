------------------------------ MODULE PremCore ------------------------------
(***************************************************************************)
(* One guest per core: the PREM task body (prem_task.c:140-259), the       *)
(* prefetch loop it calls (prefetch.S:120-156), the tick hook (:92-116)    *)
(* and the two IPI handlers (:62-84), one action per step that another     *)
(* actor can observe.  All PREM tasks of a core share the globals of       *)
(* prem_task.c and state_machine.c; here each is a function on Cores.      *)
(*                                                                         *)
(* Interrupts nest as in arch/armv8/aarch64: the tick handler runs the     *)
(* hook with interrupts enabled and the IPIs have the top priority, so an  *)
(* IPI can be taken between any two steps, also inside the tick hook; the  *)
(* task does not run while the hook is active.                             *)
(*                                                                         *)
(* Time is abstract: an armed end_low_prio may or may not have passed.     *)
(***************************************************************************)
EXTENDS MemoryArbiter

CONSTANTS
    Tasks,        \* the PREM tasks
    CoreOf,       \* the core each task is created on
    Lines         \* the cache lines each task prefetches (data_size >> 6)

ASSUME CoreOfAssumption == CoreOf \in [Tasks -> Cores]
ASSUME LinesAssumption  == Lines \in [Tasks -> Nat \ {0}]

VARIABLES
    \* The task and FreeRTOS
    pc,                    \* where a task is in vPREMTask ("idle": outside)
    remaining,             \* x1 of prefetch_data_prem
    uxSchedulerSuspended,  \* per core, the nesting of vTaskSuspendAll
    \* The globals of prem_task.c and state_machine.c
    current_state, suspend_prefetch, end_low_prio, memory_access, hypercalled,
    \* The tick hook's local
    update                 \* the answer it holds, NoUpdate when not in it

coreVars == <<pc, remaining, uxSchedulerSuspended, current_state,
              suspend_prefetch, end_low_prio, memory_access, hypercalled,
              update>>
vars     == <<coreVars, arbVars>>

States   == {"WAITING", "SUSPENDED", "MEMORY_PHASE", "COMPUTATION_PHASE"}
NoUpdate == 2

(* Slip: the logical complement, as in !update.ack. *)
LogicalComplement(b) == 1 - b

(* A byte, complemented: what storing ~b in a uint8_t leaves there. *)
Complement(b) == 255 - b

SuspendBytes == {0, 1, Complement(0), Complement(1)}

PrefetchPCs == {"check", "fetch", "wfi", "asleep"}
PCs == {"idle", "request", "arm", "deny", "hold", "enter", "fetched", "disarm",
        "revoke", "compute", "account", "finish"} \cup PrefetchPCs

NoAnswer == [ack |-> 0, ttw |-> 0]     \* memory_access.raw = 0

CoreTypeOK ==
    /\ pc \in [Tasks -> PCs]
    /\ remaining \in [Tasks -> Nat]
    /\ uxSchedulerSuspended \in [Cores -> {0, 1}]
    /\ current_state \in [Cores -> States]
    /\ suspend_prefetch \in [Cores -> SuspendBytes]
    /\ end_low_prio \in [Cores -> {0, 1}]
    /\ memory_access \in [Cores -> Answers \cup {NoAnswer}]
    /\ hypercalled \in [Cores -> {0, 1}]
    /\ update \in [Cores -> {0, 1, NoUpdate}]
Init ==
    /\ ArbiterInit
    /\ pc = [t \in Tasks |-> "idle"]
    /\ remaining = [t \in Tasks |-> 0]
    /\ uxSchedulerSuspended = [c \in Cores |-> 0]
    /\ current_state = [c \in Cores |-> "WAITING"]
    /\ suspend_prefetch = [c \in Cores |-> 0]
    /\ end_low_prio = [c \in Cores |-> 0]
    /\ memory_access = [c \in Cores |-> NoAnswer]
    /\ hypercalled = [c \in Cores |-> 0]
    /\ update = [c \in Cores |-> NoUpdate]

-----------------------------------------------------------------------------
(* Steps of a task: its core is not in the tick hook.                        *)

Step(t, from, to) ==
    /\ pc[t] = from
    /\ update[CoreOf[t]] = NoUpdate
    /\ pc' = [pc EXCEPT ![t] = to]

ChangeState(c, state) == current_state' = [current_state EXCEPT ![c] = state]

(* end_low_prio = now + ttw, when the answer has a time to wait. *)
ArmIf(c, ttw) ==
    end_low_prio' = [end_low_prio EXCEPT ![c] = IF ttw # 0 THEN 1 ELSE @]

(* The scheduler dispatches the task and it stops the scheduler.  (With       *)
(* configUSE_PREEMPTION a dispatch can come at any time the scheduler is not  *)
(* suspended; without it, only when the other tasks of the core block.)       *)
BeginJob(t) ==
    LET c == CoreOf[t] IN
    /\ Step(t, "idle", "request")
    /\ uxSchedulerSuspended[c] = 0
    /\ uxSchedulerSuspended' = [uxSchedulerSuspended EXCEPT ![c] = @ + 1]
    /\ UNCHANGED <<remaining, current_state, suspend_prefetch, end_low_prio,
                   memory_access, hypercalled, update, arbVars>>

(* The hypercall, for the first job of the core only.  With OrderedIPIs the   *)
(* IPIs of earlier jobs have been taken by then.                              *)
RequestMemory(t) ==
    LET c == CoreOf[t] IN
    /\ Step(t, "request", "arm")
    /\ hypercalled' = [hypercalled EXCEPT ![c] = @ + 1]
    /\ IF hypercalled[c] = 0
       THEN \E answer \in Answers :
               /\ Settled(c)
               /\ Ask(c, answer.ack)
               /\ memory_access' = [memory_access EXCEPT ![c] = answer]
       ELSE UNCHANGED <<memory_access, arbVars>>
    /\ UNCHANGED <<remaining, uxSchedulerSuspended, current_state,
                   suspend_prefetch, end_low_prio, update>>

ArmLowPrio(t) ==
    LET c == CoreOf[t] IN
    /\ Step(t, "arm", IF memory_access[c].ack = 0 THEN "deny" ELSE "enter")
    /\ ArmIf(c, memory_access[c].ttw)
    /\ UNCHANGED <<remaining, uxSchedulerSuspended, current_state,
                   suspend_prefetch, memory_access, hypercalled, update, arbVars>>

(* Slip: a refused core forgets to stop its prefetch. *)
Deny_KeepSuspend(t) ==
    /\ Step(t, "hold", "enter")
    /\ UNCHANGED <<remaining, uxSchedulerSuspended, current_state,
                   suspend_prefetch, end_low_prio, memory_access, hypercalled,
                   update, arbVars>>

(* Slip: the commented-out lines 166-171, without the second suspension. *)
Deny_ResumeScheduler(t) ==
    LET c == CoreOf[t] IN
    /\ Step(t, "hold", "enter")
    /\ suspend_prefetch' = [suspend_prefetch EXCEPT ![c] = 1]
    /\ uxSchedulerSuspended' = [uxSchedulerSuspended EXCEPT ![c] = @ - 1]
    /\ UNCHANGED <<remaining, current_state, end_low_prio, memory_access,
                   hypercalled, update, arbVars>>

(* Refused: two writes, in this order. *)
Deny_SetState(t) ==
    /\ Step(t, "deny", "hold")
    /\ ChangeState(CoreOf[t], "SUSPENDED")
    /\ UNCHANGED <<remaining, uxSchedulerSuspended, suspend_prefetch,
                   end_low_prio, memory_access, hypercalled, update, arbVars>>

Deny_SetSuspend(t) ==
    /\ Step(t, "hold", "enter")
    /\ suspend_prefetch' = [suspend_prefetch EXCEPT ![CoreOf[t]] = 1]
    /\ UNCHANGED <<remaining, uxSchedulerSuspended, current_state, end_low_prio,
                   memory_access, hypercalled, update, arbVars>>

(* The memory phase is entered whatever the answer was. *)
EnterMemoryPhase(t) ==
    /\ Step(t, "enter", "check")
    /\ ChangeState(CoreOf[t], "MEMORY_PHASE")
    /\ remaining' = [remaining EXCEPT ![t] = Lines[t]]
    /\ UNCHANGED <<uxSchedulerSuspended, suspend_prefetch, end_low_prio,
                   memory_access, hypercalled, update, arbVars>>

-----------------------------------------------------------------------------
(* prefetch_data_prem: load the byte; if it is 0 fetch a line, else wait for  *)
(* an interrupt and look again.  The load, the prfm and the wfi are separate. *)

loopUnchanged ==
    UNCHANGED <<uxSchedulerSuspended, current_state, suspend_prefetch,
                end_low_prio, memory_access, hypercalled, update, arbVars>>

CheckSuspend(t) ==
    /\ Step(t, "check", IF suspend_prefetch[CoreOf[t]] = 0 THEN "fetch" ELSE "wfi")
    /\ UNCHANGED remaining
    /\ loopUnchanged

(* Slip: the byte is looked at before the first line only. *)
FetchLine_NoRecheck(t) ==
    /\ Step(t, "fetch", IF remaining[t] = 1 THEN "fetched" ELSE "fetch")
    /\ remaining' = [remaining EXCEPT ![t] = @ - 1]
    /\ loopUnchanged

FetchLine(t) ==
    /\ Step(t, "fetch", IF remaining[t] = 1 THEN "fetched" ELSE "check")
    /\ remaining' = [remaining EXCEPT ![t] = @ - 1]
    /\ loopUnchanged

WaitForInterrupt(t) ==
    /\ Step(t, "wfi", "asleep")
    /\ UNCHANGED remaining
    /\ loopUnchanged

-----------------------------------------------------------------------------
(* Computation phase and end of the job.                                     *)

EnterComputationPhase(t) ==
    /\ Step(t, "fetched", "disarm")
    /\ ChangeState(CoreOf[t], "COMPUTATION_PHASE")
    /\ UNCHANGED <<remaining, uxSchedulerSuspended, suspend_prefetch,
                   end_low_prio, memory_access, hypercalled, update, arbVars>>

(* Slip: the time to wait is left armed after the memory phase. *)
DisarmLowPrio_Forgotten(t) ==
    /\ Step(t, "disarm", "revoke")
    /\ UNCHANGED <<remaining, uxSchedulerSuspended, current_state,
                   suspend_prefetch, end_low_prio, memory_access, hypercalled,
                   update, arbVars>>

DisarmLowPrio(t) ==
    /\ Step(t, "disarm", "revoke")
    /\ end_low_prio' = [end_low_prio EXCEPT ![CoreOf[t]] = 0]
    /\ UNCHANGED <<remaining, uxSchedulerSuspended, current_state,
                   suspend_prefetch, memory_access, hypercalled, update, arbVars>>

(* revoked is read once, right after: it is the branch taken here. *)
RevokeMemory(t) ==
    /\ \E revoked \in {0, 1} :
          /\ Step(t, "revoke", IF revoked = 0 THEN "compute" ELSE "account")
          /\ Revoke(CoreOf[t], revoked)
    /\ UNCHANGED <<remaining, uxSchedulerSuspended, current_state,
                   suspend_prefetch, end_low_prio, memory_access, hypercalled,
                   update>>

(* The job's code, and the cache is cleaned: nothing of this state changes. *)
RunTaskCode(t) ==
    /\ Step(t, "compute", "account")
    /\ UNCHANGED <<remaining, uxSchedulerSuspended, current_state,
                   suspend_prefetch, end_low_prio, memory_access, hypercalled,
                   update, arbVars>>

(* Slip: the count of jobs is not taken back. *)
Account_KeepCount(t) ==
    LET c == CoreOf[t] IN
    /\ Step(t, "account", "finish")
    /\ memory_access' = [memory_access EXCEPT ![c] = NoAnswer]
    /\ UNCHANGED <<remaining, uxSchedulerSuspended, current_state,
                   suspend_prefetch, end_low_prio, hypercalled, update, arbVars>>

(* A second request, for a job this one would have preempted, if the count   *)
(* of jobs is not back to 0.                                                 *)
Account(t) ==
    LET c == CoreOf[t] IN
    /\ Step(t, "account", "finish")
    /\ hypercalled' = [hypercalled EXCEPT ![c] = @ - 1]
    /\ IF hypercalled[c] - 1 # 0
       THEN \E answer \in Answers :
               /\ Settled(c)
               /\ Ask(c, answer.ack)
               /\ memory_access' = [memory_access EXCEPT ![c] = answer]
               /\ ArmIf(c, answer.ttw)
       ELSE /\ memory_access' = [memory_access EXCEPT ![c] = NoAnswer]
            /\ UNCHANGED <<end_low_prio, arbVars>>
    /\ UNCHANGED <<remaining, uxSchedulerSuspended, current_state,
                   suspend_prefetch, update>>

FinishJob(t) ==
    LET c == CoreOf[t] IN
    /\ Step(t, "finish", "idle")
    /\ ChangeState(c, "WAITING")
    /\ uxSchedulerSuspended' = [uxSchedulerSuspended EXCEPT ![c] = @ - 1]
    /\ UNCHANGED <<remaining, suspend_prefetch, end_low_prio, memory_access,
                   hypercalled, update, arbVars>>

-----------------------------------------------------------------------------
(* Interrupts.  Any of them ends the wfi of the core's task.                 *)

Wake(c) ==
    pc' = [t \in Tasks |-> IF CoreOf[t] = c /\ pc[t] = "asleep" THEN "check"
                                                               ELSE pc[t]]

(* Slip: a core that waits with the tick disabled. *)
Tick_NoWake(c) ==
    /\ update[c] = NoUpdate
    /\ UNCHANGED vars

(* A tick with no low priority to end, or not yet. *)
Tick(c) ==
    /\ update[c] = NoUpdate
    /\ Wake(c)
    /\ UNCHANGED <<remaining, uxSchedulerSuspended, current_state,
                   suspend_prefetch, end_low_prio, memory_access, hypercalled,
                   update, arbVars>>

TickTooLate(c) ==
    /\ update[c] = NoUpdate
    /\ end_low_prio[c] # 0
    /\ current_state[c] = "COMPUTATION_PHASE"
    /\ end_low_prio' = [end_low_prio EXCEPT ![c] = 0]
    /\ Wake(c)
    /\ UNCHANGED <<remaining, uxSchedulerSuspended, current_state,
                   suspend_prefetch, memory_access, hypercalled, update, arbVars>>

(* The time to wait is over: the core asks again, with its own priority ...  *)
TickUpdate(c) ==
    /\ update[c] = NoUpdate
    /\ end_low_prio[c] # 0
    /\ current_state[c] # "COMPUTATION_PHASE"
    /\ end_low_prio' = [end_low_prio EXCEPT ![c] = 0]
    /\ \E ack \in {0, 1} : /\ Ask(c, ack)
                           /\ update' = [update EXCEPT ![c] = ack]
    /\ Wake(c)
    /\ UNCHANGED <<remaining, uxSchedulerSuspended, current_state,
                   suspend_prefetch, memory_access, hypercalled>>

(* ... and then stores the complement of the answer. *)
TickStore(c) ==
    /\ update[c] # NoUpdate
    /\ suspend_prefetch' = [suspend_prefetch EXCEPT ![c] = Complement(update[c])]
    /\ update' = [update EXCEPT ![c] = NoUpdate]
    /\ UNCHANGED <<pc, remaining, uxSchedulerSuspended, current_state,
                   end_low_prio, memory_access, hypercalled, arbVars>>

(* The handlers.  The byte is written always, the state from one state only. *)
ipi_pause_handler(c) ==
    /\ Take(c, "pause")
    /\ suspend_prefetch' = [suspend_prefetch EXCEPT ![c] = 1]
    /\ ChangeState(c, IF current_state[c] = "MEMORY_PHASE" THEN "SUSPENDED"
                                                           ELSE current_state[c])
    /\ Wake(c)
    /\ UNCHANGED <<remaining, uxSchedulerSuspended, end_low_prio, memory_access,
                   hypercalled, update>>

ipi_resume_handler(c) ==
    /\ Take(c, "resume")
    /\ suspend_prefetch' = [suspend_prefetch EXCEPT ![c] = 0]
    /\ ChangeState(c, IF current_state[c] = "SUSPENDED" THEN "MEMORY_PHASE"
                                                        ELSE current_state[c])
    /\ Wake(c)
    /\ UNCHANGED <<remaining, uxSchedulerSuspended, end_low_prio, memory_access,
                   hypercalled, update>>
=============================================================================
