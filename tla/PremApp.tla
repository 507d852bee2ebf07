------------------------------ MODULE PremApp -------------------------------
(***************************************************************************)
(* The application src/execution-prem/main.c: one task per core that       *)
(* prefetches under the token again and again, with IPI handlers of its    *)
(* own.  Unlike those of prem_task.c (PremCore), these handlers act on     *)
(* current_state, which prefetch() sets before it has asked for the token. *)
(* Without a time to wait there is no work for the tick hook; the tick     *)
(* only ends a wfi.                                                        *)
(*                                                                         *)
(* Each core has a priority of its own (main.c:41,169), and that of one    *)
(* rises as it goes on (main.c:112).  Outranks has every pair of cores of  *)
(* which the first is ever ahead: it permits a preemption and forces none, *)
(* so it allows whatever the priorities allow at any time.                 *)
(***************************************************************************)
EXTENDS TokenUsers

CONSTANT Lines         \* the cache lines a core prefetches at a time

ASSUME LinesAssumption == Lines \in [Cores -> Nat \ {0}]

VARIABLES
    answer,            \* prefetch()'s local: the ack
    remaining,         \* x1 of prefetch_data_prem
    current_state,
    suspend_prefetch

appVars == <<pc, answer, remaining, current_state, suspend_prefetch>>
vars    == <<appVars, arbVars>>

TypeOK ==
    /\ ArbiterTypeOK
    /\ pc \in [Cores -> {"compute", "request", "store", "waiting", "revoke"}
                            \cup LoopPCs]
    /\ answer \in [Cores -> {0, 1}]
    /\ remaining \in [Cores -> Nat]
    /\ current_state \in [Cores -> {"WAITING", "SUSPENDED", "MEMORY_PHASE"}]
    /\ suspend_prefetch \in [Cores -> {0, 1}]

Init ==
    /\ ArbiterInit
    /\ pc = [c \in Cores |-> "compute"]
    /\ answer = [c \in Cores |-> 0]
    /\ remaining = [c \in Cores |-> 0]
    /\ current_state = [c \in Cores |-> "WAITING"]
    /\ suspend_prefetch = [c \in Cores |-> 0]

-----------------------------------------------------------------------------
(* prefetch()                                                                *)

ChangeState(c, state) == current_state' = [current_state EXCEPT ![c] = state]

EnterMemoryPhase(c) ==
    /\ Step(c, "compute", "request")
    /\ ChangeState(c, "MEMORY_PHASE")
    /\ UNCHANGED <<answer, remaining, suspend_prefetch, arbVars>>

RequestMemory(c) ==
    /\ Step(c, "request", "store")
    /\ Settled(c)
    /\ \E ack \in {0, 1} : /\ Ask(c, ack)
                           /\ answer' = [answer EXCEPT ![c] = ack]
    /\ UNCHANGED <<remaining, current_state, suspend_prefetch>>

(* Slip: the answer itself. *)
StoreAnswer_NoNot(c) ==
    /\ Step(c, "store", "check")
    /\ suspend_prefetch' = [suspend_prefetch EXCEPT ![c] = answer[c]]
    /\ remaining' = [remaining EXCEPT ![c] = Lines[c]]
    /\ UNCHANGED <<answer, current_state, arbVars>>

StoreAnswer(c) ==
    /\ Step(c, "store", "check")
    /\ suspend_prefetch' = [suspend_prefetch EXCEPT ![c] = 1 - answer[c]]
    /\ remaining' = [remaining EXCEPT ![c] = Lines[c]]
    /\ UNCHANGED <<answer, current_state, arbVars>>

(* prefetch_data_prem *)
CheckSuspend(c) ==
    /\ Step(c, "check", IF suspend_prefetch[c] = 0 THEN "fetch" ELSE "wfi")
    /\ UNCHANGED <<answer, remaining, current_state, suspend_prefetch, arbVars>>

FetchLine(c) ==
    /\ Step(c, "fetch", IF remaining[c] = 1 THEN "waiting" ELSE "check")
    /\ remaining' = [remaining EXCEPT ![c] = @ - 1]
    /\ UNCHANGED <<answer, current_state, suspend_prefetch, arbVars>>

WaitForInterrupt(c) ==
    /\ Step(c, "wfi", "asleep")
    /\ UNCHANGED <<answer, remaining, current_state, suspend_prefetch, arbVars>>

Tick(c) ==
    /\ Step(c, "asleep", "check")
    /\ UNCHANGED <<answer, remaining, current_state, suspend_prefetch, arbVars>>

LeaveMemoryPhase(c) ==
    /\ Step(c, "waiting", "revoke")
    /\ ChangeState(c, "WAITING")
    /\ UNCHANGED <<answer, remaining, suspend_prefetch, arbVars>>

(* Slip: a core that was refused does not revoke. *)
RevokeMemory_IfGranted(c) ==
    /\ Step(c, "revoke", "compute")
    /\ IF answer[c] = 1 THEN \E result \in {0, 1} : Revoke(c, result)
                        ELSE UNCHANGED arbVars
    /\ UNCHANGED <<answer, remaining, current_state, suspend_prefetch>>

RevokeMemory(c) ==
    /\ Step(c, "revoke", "compute")
    /\ \E result \in {0, 1} : Revoke(c, result)
    /\ UNCHANGED <<answer, remaining, current_state, suspend_prefetch>>

-----------------------------------------------------------------------------
(* The handlers.  Both end a wfi.                                            *)

Wake(c) == pc' = [pc EXCEPT ![c] = IF @ = "asleep" THEN "check" ELSE @]

ipi_pause_handler(c) ==
    /\ Take(c, "pause")
    /\ IF current_state[c] = "MEMORY_PHASE"
       THEN /\ ChangeState(c, "SUSPENDED")
            /\ suspend_prefetch' = [suspend_prefetch EXCEPT ![c] = 1]
       ELSE UNCHANGED <<current_state, suspend_prefetch>>
    /\ Wake(c)
    /\ UNCHANGED <<answer, remaining>>

(* Slip: the state is not put back. *)
ipi_resume_handler_KeepState(c) ==
    /\ Take(c, "resume")
    /\ suspend_prefetch' = [suspend_prefetch EXCEPT ![c] =
                                IF current_state[c] = "SUSPENDED" THEN 0 ELSE @]
    /\ Wake(c)
    /\ UNCHANGED <<answer, remaining, current_state>>

ipi_resume_handler(c) ==
    /\ Take(c, "resume")
    /\ IF current_state[c] = "SUSPENDED"
       THEN /\ ChangeState(c, "MEMORY_PHASE")
            /\ suspend_prefetch' = [suspend_prefetch EXCEPT ![c] = 0]
       ELSE UNCHANGED <<current_state, suspend_prefetch>>
    /\ Wake(c)
    /\ UNCHANGED <<answer, remaining>>

TaskStep(c) ==
    \/ EnterMemoryPhase(c) \/ RequestMemory(c) \/ StoreAnswer(c)
    \/ CheckSuspend(c) \/ FetchLine(c) \/ WaitForInterrupt(c)
    \/ LeaveMemoryPhase(c) \/ RevokeMemory(c)

HandlerStep(c) == ipi_pause_handler(c) \/ ipi_resume_handler(c)

Next == \E c \in Cores : TaskStep(c) \/ HandlerStep(c) \/ Tick(c)

Spec == Init /\ [][Next]_vars
-----------------------------------------------------------------------------
(* A prefetch that the handlers have stopped (the state says so too) belongs  *)
(* to a core without the token, unless the resume is on its way: no resume of *)
(* a core paused in its prefetch is lost. *)
PausedIsResumed ==
    \A c \in Cores :
        pc[c] \in LoopPCs /\ current_state[c] = "SUSPENDED" /\ suspend_prefetch[c] = 1
            => owner # c \/ "resume" \in pending[c]

MayFetch(c) ==
    \/ pc[c] = "fetch"
    \/ pc[c] \in LoopPCs /\ suspend_prefetch[c] = 0

(* What does not hold (state_machine.h:5-18).  Of a core that is outranked: a  *)
(* pause between the answer and its store is overwritten. *)
PrefetchNeedsToken ==
    \A c \in Cores : MayFetch(c) => owner = c \/ "pause" \in pending[c]

(* main.c:77, "even if suspended it's not a big deal": a refused core goes on *)
(* when it is given the token; its state says MEMORY_PHASE, so it ignores the *)
(* resume. *)
OwnerIsNotStopped ==
    \A c \in Cores :
        owner = c /\ pc[c] \in LoopPCs /\ pending[c] = {}
            => suspend_prefetch[c] = 0
-----------------------------------------------------------------------------
(* PremPromise is kept, whichever core outranks which, by a hypervisor whose  *)
(* pauses spare the statements between the change of state and the store of   *)
(* the answer (main.c:69-75): a pause there would be overwritten, or leave a  *)
(* state in which the next pause is ignored. *)
PausesAfterStore ==
    [][\A c \in Cores : pc[c] \in {"request", "store"} => ~ipi_pause_handler(c)]_vars

leftOf(c) ==
    IF pc[c] = "store" THEN Lines[c]
    ELSE IF pc[c] \in LoopPCs THEN remaining[c]
    ELSE 0

(* An overtaken core is told by taking its pause, at worst with a line to come.*)
Overtaken == {c \in Cores : InJob(c) /\ "pause" \in pending[c]}

OnLastLine ==
    {c \in Cores : pc[c] = "fetch" /\ owner # c /\ "pause" \notin pending[c]}

Promise == INSTANCE PremPromise WITH
    holder     <- owner,
    phase      <- [c \in Cores |-> phaseOf(c)],
    left       <- [c \in Cores |-> leftOf(c)],
    stragglers <- Overtaken,
    ending     <- OnLastLine

PromiseKept == Promise!Spec
-----------------------------------------------------------------------------
(* What these rest on (TokenApps_proofs).                                    *)

(* The owner does not wait, and a core with a pause on its way (taken before  *)
(* another IPI is sent) has lost the token. *)
TokenInv ==
    /\ TypeOK
    /\ owner \notin waiting
    /\ \A c \in Cores : owner = c \/ c \in waiting <=> InJob(c)
    /\ \A c \in Cores : pc[c] \in LoopPCs => remaining[c] > 0
    /\ OrderedIPIs => \A c \in Cores : "pause" \in pending[c] => owner # c

(* A core that the handlers have stopped, or that will find itself stopped    *)
(* when it stores its answer. *)
Stopped(c) ==
    /\ current_state[c] = "SUSPENDED"
    /\ \/ pc[c] = "store" /\ answer[c] = 0
       \/ pc[c] \in LoopPCs /\ suspend_prefetch[c] = 1

StoppedInv == \A c \in Cores : Stopped(c) => owner # c \/ "resume" \in pending[c]

(* There are no pauses for a core that no other outranks: a grant lasts. *)
GrantInv ==
    \A c \in Cores : Unrivalled(c) =>
        /\ "pause" \notin pending[c]
        /\ current_state[c] # "SUSPENDED"
        /\ pc[c] = "store" /\ answer[c] = 1 => owner = c
        /\ pc[c] \in LoopPCs /\ suspend_prefetch[c] = 0 => owner = c
        /\ pc[c] = "fetch" => suspend_prefetch[c] = 0

(* With OrderedIPIs and PausesAfterStore: a resume on its way to a job is for *)
(* the owner, the state says what the byte says, and a core without the token *)
(* is stopped or has its pause on the way. *)
HeldInv ==
    \A c \in Cores :
        /\ "resume" \in pending[c] /\ InJob(c) => owner = c
        /\ pc[c] \in {"request", "store"} => current_state[c] = "MEMORY_PHASE"
        /\ pc[c] = "store" /\ answer[c] = 1 => owner = c \/ "pause" \in pending[c]
        /\ pc[c] \in LoopPCs =>
              /\ suspend_prefetch[c] = 0 => current_state[c] = "MEMORY_PHASE"
              /\ suspend_prefetch[c] = 0 => owner = c \/ "pause" \in pending[c]
              /\ current_state[c] \in {"MEMORY_PHASE", "SUSPENDED"}
=============================================================================
