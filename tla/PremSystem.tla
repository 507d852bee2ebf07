----------------------------- MODULE PremSystem -----------------------------
(***************************************************************************)
(* The cores of PremCore, sharing memory through MemoryArbiter: the next-  *)
(* state relation, its fairness, and what the PREM tasks must guarantee.   *)
(***************************************************************************)
EXTENDS PremCore

Job(t) ==
    \/ BeginJob(t)
    \/ RequestMemory(t)
    \/ ArmLowPrio(t)
    \/ Deny_SetState(t)
    \/ Deny_SetSuspend(t)
    \/ EnterMemoryPhase(t)
    \/ CheckSuspend(t)
    \/ FetchLine(t)
    \/ WaitForInterrupt(t)
    \/ EnterComputationPhase(t)
    \/ DisarmLowPrio(t)
    \/ RevokeMemory(t)
    \/ RunTaskCode(t)
    \/ Account(t)
    \/ FinishJob(t)

TickInterrupt(c) ==
    \/ Tick(c)
    \/ TickTooLate(c)
    \/ TickUpdate(c)
    \/ TickStore(c)

IPI(c) ==
    \/ ipi_pause_handler(c)
    \/ ipi_resume_handler(c)

Next ==
    \/ \E t \in Tasks : Job(t)
    \/ \E c \in Cores : TickInterrupt(c) \/ IPI(c)

Spec == Init /\ [][Next]_vars

(***************************************************************************)
(* A task that can run runs (it is alone on its core from BeginJob on, and *)
(* its code returns), pending IPIs are taken (top priority, never masked), *)
(* and the tick timer goes on: the hook runs again and again, ends, and an *)
(* armed time to wait passes at last.  A new job need not be released.     *)
(***************************************************************************)
Fairness ==
    /\ \A t \in Tasks : WF_vars(Job(t) /\ pc[t] # "idle")
    /\ \A c \in Cores : /\ WF_vars(Tick(c))
                        /\ WF_vars(TickTooLate(c) \/ TickUpdate(c))
                        /\ WF_vars(TickStore(c))
                        /\ WF_vars(ipi_pause_handler(c))
                        /\ WF_vars(ipi_resume_handler(c))

FairSpec == Spec /\ Fairness

-----------------------------------------------------------------------------
(* State predicates the properties are written with.                         *)

(* From the answer to the request until the revoke. *)
TokenPCs == {"arm", "deny", "hold", "enter", "fetched", "disarm", "revoke"}
               \cup PrefetchPCs

InTokenWindow(c) == \E t \in Tasks : CoreOf[t] = c /\ pc[t] \in TokenPCs

-----------------------------------------------------------------------------
(* Type invariant of the hypervisor's and the guests' variables. *)
TypeOK == ArbiterTypeOK /\ CoreTypeOK

(* A core that may fetch a line (its byte is 0, in prefetch_data_prem) owns  *)
(* the token, or the IPI that pauses it is on its way: at the next check     *)
(* after ipi_pause_handler the prefetch stops.                               *)
PrefetchNeedsToken ==
    \A t \in Tasks :
        LET c == CoreOf[t] IN
        pc[t] \in PrefetchPCs /\ suspend_prefetch[c] = 0
            => owner = c \/ "pause" \in pending[c]

(* The token and the waiting set hold exactly the cores between the answer   *)
(* to their request and their revoke: a core never keeps or gets the token   *)
(* while it computes or waits for its next release (vApplicationTickHook     *)
(* could ask for it), and no request is forgotten.  That the token is gone   *)
(* before the computation is what state_machine.h:5-18 and prem_task.c:178   *)
(* say; prem_task.h:64-66 says otherwise (AccessUntilComputed).              *)
TokenMatchesJobs ==
    /\ \A c \in Cores : InTokenWindow(c) <=> (owner = c \/ c \in waiting)
    /\ owner \notin waiting
    /\ owner = NoCore => waiting = {}

(* The jobs of a core never overlap, so the globals of prem_task.c have one  *)
(* user, and the count of jobs is 1 exactly between request and revoke: the  *)
(* second request of vPREMTask (lines 193-202) is never made.  The comments  *)
(* there and in prem_task.h:48-50,70-73 count on a task that is refused      *)
(* being replaced by another (RefusedCanBeReplaced).                         *)
JobsDoNotOverlap ==
    /\ \A t, u \in Tasks :
          t # u /\ CoreOf[t] = CoreOf[u] => pc[t] = "idle" \/ pc[u] = "idle"
    /\ \A t \in Tasks :
          LET c == CoreOf[t] IN
          pc[t] # "idle" =>
              /\ uxSchedulerSuspended[c] = 1
              /\ hypercalled[c] = IF pc[t] \in {"request", "finish"} THEN 0 ELSE 1
    /\ \A c \in Cores :
          (\A t \in Tasks : CoreOf[t] = c => pc[t] = "idle") =>
              uxSchedulerSuspended[c] = 0 /\ hypercalled[c] = 0

(* In the prefetch, the state SUSPENDED means the prefetch stands still: the *)
(* byte prefetch_data_prem reads is not 0. *)
SuspendedStandsStill ==
    \A t \in Tasks :
        LET c == CoreOf[t] IN
        pc[t] \in PrefetchPCs /\ current_state[c] = "SUSPENDED"
            => suspend_prefetch[c] # 0

-----------------------------------------------------------------------------
(* The refinement: a core is in its memory phase from the answer to the      *)
(* request until the revoke; it is told that it was overtaken by IPI_PAUSE,  *)
(* and the line to come is the prfm it had decided on before.                *)

Active(c, pcs) == {t \in Tasks : CoreOf[t] = c /\ pc[t] \in pcs}

phaseOf(c) ==
    IF InTokenWindow(c) THEN "memory"
    ELSE IF Active(c, {"compute", "account"}) # {} THEN "computation"
    ELSE "rest"

leftOf(c) ==
    LET before == Active(c, {"arm", "deny", "hold", "enter"})
        during == Active(c, PrefetchPCs)
    IN  IF before # {} THEN Lines[CHOOSE t \in before : TRUE]
        ELSE IF during # {} THEN remaining[CHOOSE t \in during : TRUE]
        ELSE 0

overtaken == {c \in Cores : owner # c /\ InTokenWindow(c)}

Promise == INSTANCE PremPromise WITH
    holder     <- owner,
    phase      <- [c \in Cores |-> phaseOf(c)],
    left       <- [c \in Cores |-> leftOf(c)],
    stragglers <- {c \in overtaken : "pause" \in pending[c]},
    ending     <- {c \in overtaken : /\ "pause" \notin pending[c]
                                     /\ Active(c, {"fetch"}) # {}}

(* The tasks, handlers and hook together implement PremPromise: turns are    *)
(* taken, nobody fetches out of turn once stopped, and nobody computes on    *)
(* lines it has not fetched. *)
PromiseKept == Promise!Spec

(* A core that stands in the prefetch with its byte at 0 gets out or is      *)
(* paused again, although the IPI that resumed it may have come between the  *)
(* check and the wfi: the next tick wakes it.                                *)
ResumedProceeds ==
    \A t \in Tasks :
        (pc[t] \in PrefetchPCs /\ suspend_prefetch[CoreOf[t]] = 0)
            ~> (pc[t] \notin PrefetchPCs \/ suspend_prefetch[CoreOf[t]] # 0)
-----------------------------------------------------------------------------
(* What the invariants rest on (PremSystem_proofs).                          *)

(* A prefetch that goes on has a line to fetch. *)
LinesLeft == \A t \in Tasks : pc[t] \in PrefetchPCs => remaining[t] > 0

(* The time to wait is armed only while a job is in its token window and has *)
(* not come to its revoke: the tick hook asks for the token from there only. *)
TimerPCs == TokenPCs \ {"revoke"}

TimerInTokenWindow ==
    \A c \in Cores :
        end_low_prio[c] # 0 => \E t \in Tasks : CoreOf[t] = c /\ pc[t] \in TimerPCs

SafetyInv ==
    /\ TypeOK
    /\ LinesLeft
    /\ TimerInTokenWindow
    /\ JobsDoNotOverlap
    /\ TokenMatchesJobs
    /\ SuspendedStandsStill

(* With OrderedIPIs: IPIs do not pile up, a resume on its way is for the     *)
(* owner, and a core that was refused or stopped has its byte up, or is      *)
(* about to.                                                                 *)
StoppedWithoutToken ==
    \A t \in Tasks :
        LET c == CoreOf[t] IN
        pc[t] \in TokenPCs /\ owner # c /\ "pause" \notin pending[c]
            => \/ suspend_prefetch[c] # 0
               \/ pc[t] = "arm" /\ memory_access[c].ack = 0
               \/ pc[t] \in {"deny", "hold"}

IPIsInOrder ==
    \A c \in Cores :
        /\ pending[c] # IPIs
        /\ "resume" \in pending[c] /\ InTokenWindow(c) => owner = c

-----------------------------------------------------------------------------
(* What the comments of the code say, and the code does not do.              *)

(* Whoever holds the token uses it and gives it back: prem_task.c:110 ("Time *)
(* to wait over, just yes or no!"), and the diagram of state_machine.h, where*)
(* a job that was granted or resumed is in its memory phase and leaves it by *)
(* revoking. *)
HolderRevokes == \A c \in Cores : owner = c ~> owner # c

(* A job granted at its request (and with no IPI on the way to its core) is  *)
(* not suspended: prem_task.h:66-68, it is suspended "if the memory access   *)
(* is not granted or if a higher priority processor takes the memory token". *)
GrantedIsNotSuspended ==
    \A t \in Tasks :
        LET c       == CoreOf[t]
            granted == memory_access[c].ack = 1 /\ owner = c /\ pending[c] = {}
        IN  pc[t] \in PrefetchPCs /\ granted => suspend_prefetch[c] = 0

(* The state machine of a PREM task (state_machine.h:5-18): a core is in the *)
(* state MEMORY_PHASE only with a request granted or an IPI resume behind it,*)
(* until the IPI that pauses it is taken. *)
MemoryPhaseWasGranted ==
    \A c \in Cores :
        current_state[c] = "MEMORY_PHASE"
            => owner = c \/ pending[c] # {}

(* The access is released "after computation phase" (prem_task.h:64-66): a   *)
(* job whose code runs still has the token, or waits for it after a pause.   *)
AccessUntilComputed ==
    \A t \in Tasks :
        pc[t] = "compute" => owner = CoreOf[t] \/ CoreOf[t] \in waiting

(* A task that waits for its grant, with nothing fetched, leaves its core to *)
(* a task of a higher priority (prem_task.h:48-50, 70-73). *)
RefusedCanBeReplaced ==
    \A t \in Tasks :
        LET c == CoreOf[t] IN
        pc[t] = "enter" /\ memory_access[c].ack = 0 => uxSchedulerSuspended[c] = 0
=============================================================================
