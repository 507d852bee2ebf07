----------------------------- MODULE FpschedApp -----------------------------
(***************************************************************************)
(* The application src/execution-fpsched/main.c: one periodic task per     *)
(* core that suspends itself in FreeRTOS when the token is refused, and    *)
(* IPI handlers that suspend and resume it.  The IPIs have the top         *)
(* priority; vTaskSuspend and vTaskResume enter a critical section, where  *)
(* vPortEnterCritical (arch/armv8/aarch64/port.c:371-379) asserts that no  *)
(* interrupt is active, and vApplicationAssert (main.c:128-156) never      *)
(* returns: the core is halted.                                            *)
(***************************************************************************)
EXTENDS TokenUsers

VARIABLES
    ack_access,        \* its local: the whole answer, not the ack alone
    current_state

appVars == <<pc, ack_access, current_state>>
vars    == <<appVars, arbVars>>

Raw(answer) == answer.ack + 2 * answer.ttw

TypeOK ==
    /\ ArbiterTypeOK
    /\ pc \in [Cores -> {"wait", "answered", "suspending", "suspended", "memory",
                         "revoke", "revoked", "deleted", "halted"}]
    /\ ack_access \in [Cores -> {Raw(a) : a \in Answers} \cup {0}]
    /\ current_state \in [Cores -> {"WAITING", "SUSPENDED", "MEMORY_PHASE",
                                    "COMPUTATION_PHASE"}]

Init ==
    /\ ArbiterInit
    /\ pc = [c \in Cores |-> "wait"]
    /\ ack_access = [c \in Cores |-> 0]
    /\ current_state = [c \in Cores |-> "WAITING"]

-----------------------------------------------------------------------------
(* vTaskHypercall                                                            *)

ChangeState(c, state) == current_state' = [current_state EXCEPT ![c] = state]

RequestMemory(c) ==
    /\ Step(c, "wait", "answered")
    /\ Settled(c)
    /\ \E answer \in Answers :
        /\ Ask(c, answer.ack)
        /\ ack_access' = [ack_access EXCEPT ![c] = Raw(answer)]
    /\ UNCHANGED current_state

Refused(c) ==
    /\ ack_access[c] = 0
    /\ Step(c, "answered", "suspending")
    /\ ChangeState(c, "SUSPENDED")
    /\ UNCHANGED <<ack_access, arbVars>>

(* Slip: vTaskSuspend(NULL) returns. *)
SuspendSelf_Returns(c) ==
    /\ Step(c, "suspending", "memory")
    /\ ChangeState(c, "MEMORY_PHASE")
    /\ UNCHANGED <<ack_access, arbVars>>

(* vTaskSuspend(NULL): the idle task runs. *)
SuspendSelf(c) ==
    /\ Step(c, "suspending", "suspended")
    /\ UNCHANGED <<ack_access, current_state, arbVars>>

EnterMemoryPhase(c) ==
    /\ ack_access[c] # 0
    /\ Step(c, "answered", "memory")
    /\ ChangeState(c, "MEMORY_PHASE")
    /\ UNCHANGED <<ack_access, arbVars>>

EnterComputationPhase(c) ==
    /\ Step(c, "memory", "revoke")
    /\ ChangeState(c, "COMPUTATION_PHASE")
    /\ UNCHANGED <<ack_access, arbVars>>

(* Slip: no revoke. *)
RevokeMemory_Forgotten(c) ==
    /\ Step(c, "revoke", "revoked")
    /\ UNCHANGED <<ack_access, current_state, arbVars>>

RevokeMemory(c) ==
    /\ Step(c, "revoke", "revoked")
    /\ \E result \in {0, 1} : Revoke(c, result)
    /\ UNCHANGED <<ack_access, current_state>>

EndJob(c) ==
    /\ Step(c, "revoked", "wait")
    /\ ChangeState(c, "WAITING")
    /\ UNCHANGED <<ack_access, arbVars>>

(* The tests are over. *)
DeleteSelf(c) ==
    /\ Step(c, "wait", "deleted")
    /\ UNCHANGED <<ack_access, current_state, arbVars>>

-----------------------------------------------------------------------------
(* The handlers.  A halted core takes no other interrupt of that priority.   *)

Halt(c) == pc' = [pc EXCEPT ![c] = "halted"]

(* vTaskSuspend in a handler, of a task that runs outside of critical         *)
(* sections. *)
ipi_pause_handler(c) ==
    /\ pc[c] # "halted"
    /\ Take(c, "pause")
    /\ IF current_state[c] = "MEMORY_PHASE"
       THEN ChangeState(c, "SUSPENDED") /\ Halt(c)
       ELSE UNCHANGED <<current_state, pc>>
    /\ UNCHANGED ack_access

(* vTaskResume does nothing for the task that is running, and asserts for one *)
(* that has been switched out. *)
ipi_resume_handler(c) ==
    /\ pc[c] # "halted"
    /\ Take(c, "resume")
    /\ IF current_state[c] = "SUSPENDED" /\ pc[c] = "suspended"
       THEN Halt(c)
       ELSE UNCHANGED pc
    /\ UNCHANGED <<ack_access, current_state>>

-----------------------------------------------------------------------------
Next ==
    \E c \in Cores :
        \/ RequestMemory(c)    \/ Refused(c)
        \/ SuspendSelf(c)      \/ EnterMemoryPhase(c)
        \/ EnterComputationPhase(c)
        \/ RevokeMemory(c)     \/ EndJob(c)
        \/ DeleteSelf(c)
        \/ ipi_pause_handler(c)
        \/ ipi_resume_handler(c)

Spec == Init /\ [][Next]_vars
-----------------------------------------------------------------------------
(* What does not hold.  Of a core that is outranked (a pause before the       *)
(* change of state is ignored), or with times to wait (a refusal looks like a *)
(* grant). *)
PrefetchNeedsToken ==
    \A c \in Cores :
        pc[c] = "memory" => owner = c \/ "pause" \in pending[c]

(* The assertion of vPortEnterCritical, port.c:378. *)
AssertHolds == \A c \in Cores : pc[c] # "halted"

(* state_machine.h:9-14: from suspended, IPI resume leads to the memory phase.*)
OwnerIsNotSuspended ==
    \A c \in Cores :
        owner = c /\ pending[c] = {} => pc[c] # "suspended"
-----------------------------------------------------------------------------
(* Without times to wait PremPromise is kept, whichever core outranks which,  *)
(* by a hypervisor whose pauses spare the statements between the answer and   *)
(* the change of state (main.c:38-48), where a pause is ignored.  A core that *)
(* was refused fetches no more, were it resumed or not, nor one that halted   *)
(* when it was paused.  The memory phase is one line. *)
PausesInMemoryPhase ==
    [][\A c \in Cores : pc[c] = "answered" => ~ipi_pause_handler(c)]_vars

leftOf(c) == IF InJob(c) /\ pc[c] # "revoke" THEN 1 ELSE 0

Overtaken == {c \in Cores : InJob(c) /\ "pause" \in pending[c]}

Promise == INSTANCE PremPromise WITH
    holder     <- owner,
    phase      <- [c \in Cores |-> phaseOf(c)],
    left       <- [c \in Cores |-> leftOf(c)],
    stragglers <- Overtaken,
    ending     <- {}

PromiseKept == Promise!Spec
-----------------------------------------------------------------------------
(* What these rest on (TokenApps_proofs).                                    *)

TokenInv ==
    /\ TypeOK
    /\ owner \notin waiting
    /\ \A c \in Cores : owner = c \/ c \in waiting <=> InJob(c)
    /\ \A c \in Cores : current_state[c] = "MEMORY_PHASE" => pc[c] = "memory"

(* There are no pauses for a core that no other outranks: a grant lasts. *)
GrantInv ==
    \A c \in Cores : Unrivalled(c) =>
        /\ "pause" \notin pending[c]
        /\ TimesToWait = {0} =>
            /\ pc[c] = "answered" /\ ack_access[c] # 0 => owner = c
            /\ pc[c] = "memory" => owner = c

(* With OrderedIPIs and PausesInMemoryPhase, and without times to wait: a core *)
(* that may fetch owns the token or has its pause on the way, and is in the   *)
(* state in which that pause stops it. *)
HeldInv ==
    \A c \in Cores :
        /\ "pause" \in pending[c] => owner # c
        /\ pc[c] = "answered" /\ ack_access[c] # 0 => owner = c \/ "pause" \in pending[c]
        /\ pc[c] = "memory" => /\ current_state[c] = "MEMORY_PHASE"
                               /\ owner = c \/ "pause" \in pending[c]
=============================================================================
