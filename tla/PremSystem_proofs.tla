------------------------- MODULE PremSystem_proofs -------------------------
(***************************************************************************)
(* Proofs about PremSystem, for any cores, tasks and line counts: its      *)
(* types, the exclusion of the memory phases, and that it implements       *)
(* PremPromise.                                                            *)
(***************************************************************************)
EXTENDS PremSystem, TLAPS

USE CoresAssumption, OutranksAssumption, WaitAssumption, OrderAssumption,
    CoreOfAssumption, LinesAssumption

-----------------------------------------------------------------------------
(* The actions, for case splits.                                             *)

LEMMA NextCases ==
    ASSUME Next
    PROVE  \/ \E t \in Tasks : Job(t)
           \/ \E c \in Cores : \/ Tick(c)
                               \/ TickTooLate(c)
                               \/ TickUpdate(c)
                               \/ TickStore(c)
                               \/ ipi_pause_handler(c)
                               \/ ipi_resume_handler(c)
    BY DEF Next, TickInterrupt, IPI

(* The hypervisor's answers keep its variables in their types. *)
LEMMA AskType ==
    ASSUME ArbiterTypeOK, NEW c \in Cores, NEW ack, Ask(c, ack)
    PROVE  ArbiterTypeOK'
    BY DEF ArbiterTypeOK, Ask, Grant, Preempt, Deny, Send, IPIs

LEMMA RevokeType ==
    ASSUME ArbiterTypeOK, NEW c \in Cores, NEW result, Revoke(c, result)
    PROVE  ArbiterTypeOK'
    BY DEF ArbiterTypeOK, Revoke, HandOver, Release, Withdraw, Send, IPIs

LEMMA TakeType ==
    ASSUME ArbiterTypeOK, NEW c \in Cores, NEW ipi \in IPIs, Take(c, ipi)
    PROVE  ArbiterTypeOK'
    BY DEF ArbiterTypeOK, Take, IPIs

(* The variables keep their types in a step from a state in which the jobs   *)
(* of a core do not overlap: the two counters then count to 1.               *)
LEMMA TypeStep ==
    ASSUME TypeOK, LinesLeft, JobsDoNotOverlap, [Next]_vars
    PROVE  TypeOK'
<1> USE DEF TypeOK, CoreTypeOK, PCs, PrefetchPCs, States, SuspendBytes,
            Complement, NoUpdate
<1>1. ASSUME NEW t \in Tasks, Job(t) PROVE TypeOK'
  <2> DEFINE c == CoreOf[t]
  <2>0. c \in Cores
    OBVIOUS
  <2>1. CASE BeginJob(t)
    BY <2>0, <2>1 DEF BeginJob, Step, ArbiterTypeOK, arbVars
  <2>2. CASE RequestMemory(t)
    <3>1. hypercalled' \in [Cores -> {0, 1}]
      BY <2>0, <2>2 DEF RequestMemory, Step, JobsDoNotOverlap
    <3>2. ArbiterTypeOK' /\ memory_access' \in [Cores -> Answers \cup {NoAnswer}]
      <4>1. CASE hypercalled[c] = 0
        BY <2>0, <2>2, <4>1, AskType DEF RequestMemory
      <4>2. CASE hypercalled[c] # 0
        BY <2>0, <2>2, <4>2 DEF RequestMemory, ArbiterTypeOK, arbVars
      <4> QED BY <4>1, <4>2
    <3> QED BY <2>0, <2>2, <3>1, <3>2 DEF RequestMemory, Step
  <2>3. CASE ArmLowPrio(t)
    BY <2>0, <2>3 DEF ArmLowPrio, Step, ArmIf, ArbiterTypeOK, arbVars
  <2>4. CASE Deny_SetState(t)
    BY <2>0, <2>4 DEF Deny_SetState, Step, ChangeState, ArbiterTypeOK, arbVars
  <2>5. CASE Deny_SetSuspend(t)
    BY <2>0, <2>5 DEF Deny_SetSuspend, Step, ArbiterTypeOK, arbVars
  <2>6. CASE EnterMemoryPhase(t)
    BY <2>0, <2>6 DEF EnterMemoryPhase, Step, ChangeState, ArbiterTypeOK, arbVars
  <2>7. CASE CheckSuspend(t) \/ WaitForInterrupt(t)
    BY <2>0, <2>7 DEF CheckSuspend, WaitForInterrupt, loopUnchanged, Step,
                      ArbiterTypeOK, arbVars
  <2>8. CASE FetchLine(t)
    <3>1. remaining[t] - 1 \in Nat
      BY <2>8 DEF FetchLine, Step, LinesLeft
    <3> QED BY <2>0, <2>8, <3>1 DEF FetchLine, loopUnchanged, Step,
                                    ArbiterTypeOK, arbVars
  <2>9. CASE EnterComputationPhase(t)
    BY <2>0, <2>9 DEF EnterComputationPhase, Step, ChangeState, ArbiterTypeOK,
                      arbVars
  <2>10. CASE DisarmLowPrio(t)
    BY <2>0, <2>10 DEF DisarmLowPrio, Step, ArbiterTypeOK, arbVars
  <2>11. CASE RevokeMemory(t)
    <3>1. ArbiterTypeOK'
      BY <2>0, <2>11, RevokeType DEF RevokeMemory
    <3> QED BY <2>0, <2>11, <3>1 DEF RevokeMemory, Step
  <2>12. CASE RunTaskCode(t)
    BY <2>0, <2>12 DEF RunTaskCode, Step, ArbiterTypeOK, arbVars
  <2>13. CASE Account(t)
    <3>1. hypercalled[c] = 1
      BY <2>0, <2>13 DEF Account, Step, JobsDoNotOverlap
    <3>2. /\ hypercalled' \in [Cores -> {0, 1}]
          /\ memory_access' \in [Cores -> Answers \cup {NoAnswer}]
          /\ UNCHANGED <<end_low_prio, arbVars>>
      BY <2>0, <2>13, <3>1 DEF Account
    <3> QED BY <2>0, <2>13, <3>2 DEF Account, Step, ArbiterTypeOK, arbVars
  <2>14. CASE FinishJob(t)
    <3>1. uxSchedulerSuspended[c] = 1
      BY <2>0, <2>14 DEF FinishJob, Step, JobsDoNotOverlap
    <3> QED BY <2>0, <2>14, <3>1 DEF FinishJob, Step, ChangeState,
                                     ArbiterTypeOK, arbVars
  <2> QED BY <1>1, <2>1, <2>2, <2>3, <2>4, <2>5, <2>6, <2>7, <2>8, <2>9, <2>10,
             <2>11, <2>12, <2>13, <2>14 DEF Job
<1>2. ASSUME NEW c \in Cores, Tick(c) \/ TickTooLate(c) PROVE TypeOK'
  BY <1>2 DEF Tick, TickTooLate, Wake, ArbiterTypeOK, arbVars
<1>3. ASSUME NEW c \in Cores, TickUpdate(c) PROVE TypeOK'
  <2>1. ArbiterTypeOK'
    BY <1>3, AskType DEF TickUpdate
  <2> QED BY <1>3, <2>1 DEF TickUpdate, Wake
<1>4. ASSUME NEW c \in Cores, TickStore(c) PROVE TypeOK'
  BY <1>4 DEF TickStore, ArbiterTypeOK, arbVars
<1>5. ASSUME NEW c \in Cores, ipi_pause_handler(c) \/ ipi_resume_handler(c)
      PROVE  TypeOK'
  <2>1. ArbiterTypeOK'
    BY <1>5, TakeType DEF ipi_pause_handler, ipi_resume_handler, IPIs
  <2> QED BY <1>5, <2>1 DEF ipi_pause_handler, ipi_resume_handler, Wake,
                            ChangeState
<1>6. CASE UNCHANGED vars
  BY <1>6 DEF vars, coreVars, arbVars, ArbiterTypeOK
<1> QED BY NextCases, <1>1, <1>2, <1>3, <1>4, <1>5, <1>6

-----------------------------------------------------------------------------
(* How the program counters move.                                            *)

Ends == {"idle", "request", "finish"}

Inner(t) ==
    \/ ArmLowPrio(t) \/ Deny_SetState(t) \/ Deny_SetSuspend(t)
    \/ EnterMemoryPhase(t) \/ CheckSuspend(t) \/ FetchLine(t)
    \/ WaitForInterrupt(t) \/ EnterComputationPhase(t) \/ DisarmLowPrio(t)
    \/ RevokeMemory(t) \/ RunTaskCode(t)

Interrupt(c) ==
    \/ Tick(c) \/ TickTooLate(c) \/ TickUpdate(c) \/ TickStore(c)
    \/ ipi_pause_handler(c) \/ ipi_resume_handler(c)

LEMMA StepCases ==
    ASSUME Next
    PROVE  \/ \E t \in Tasks : \/ BeginJob(t) \/ RequestMemory(t)
                               \/ Inner(t)
                               \/ Account(t) \/ FinishJob(t)
           \/ \E c \in Cores : Interrupt(c)
    BY DEF Next, Job, TickInterrupt, IPI, Inner, Interrupt

LEMMA InnerStep ==
    ASSUME TypeOK, NEW t \in Tasks, Inner(t)
    PROVE  /\ pc[t] \notin Ends /\ pc'[t] \notin Ends
           /\ \A u \in Tasks \ {t} : pc'[u] = pc[u]
           /\ UNCHANGED <<uxSchedulerSuspended, hypercalled>>
    BY DEF Inner, Ends, TypeOK, CoreTypeOK, Step, ArmLowPrio, Deny_SetState,
           Deny_SetSuspend, EnterMemoryPhase, CheckSuspend, FetchLine,
           WaitForInterrupt, loopUnchanged, EnterComputationPhase,
           DisarmLowPrio, RevokeMemory, RunTaskCode

(* An interrupt moves a task only out of its wfi. *)
LEMMA InterruptStep ==
    ASSUME TypeOK, NEW c \in Cores, Interrupt(c)
    PROVE  /\ \A t \in Tasks : \/ pc'[t] = pc[t]
                               \/ pc[t] = "asleep" /\ pc'[t] = "check"
           /\ UNCHANGED <<remaining, uxSchedulerSuspended, hypercalled>>
    BY DEF Interrupt, TypeOK, CoreTypeOK, Wake, Tick, TickTooLate, TickUpdate,
           TickStore, ipi_pause_handler, ipi_resume_handler

LEMMA JobsKept ==
    ASSUME TypeOK, JobsDoNotOverlap,
           UNCHANGED <<uxSchedulerSuspended, hypercalled>>,
           \A t \in Tasks : \/ pc'[t] = pc[t]
                            \/ pc[t] \notin Ends /\ pc'[t] \notin Ends
    PROVE  JobsDoNotOverlap'
    BY DEF JobsDoNotOverlap, Ends

(* BeginJob finds the scheduler running, so every task of the core idle. *)
LEMMA JobsStep ==
    ASSUME TypeOK, JobsDoNotOverlap, [Next]_vars
    PROVE  JobsDoNotOverlap'
<1> USE DEF TypeOK, CoreTypeOK
<1>1. ASSUME NEW t \in Tasks, BeginJob(t) PROVE JobsDoNotOverlap'
  <2>1. \A u \in Tasks : CoreOf[u] = CoreOf[t] => pc[u] = "idle"
    BY <1>1 DEF BeginJob, JobsDoNotOverlap
  <2> QED BY <1>1, <2>1 DEF BeginJob, Step, JobsDoNotOverlap
<1>2. ASSUME NEW t \in Tasks, RequestMemory(t) PROVE JobsDoNotOverlap'
  BY <1>2 DEF RequestMemory, Step, JobsDoNotOverlap
<1>3. ASSUME NEW t \in Tasks, Inner(t) PROVE JobsDoNotOverlap'
  BY <1>3, InnerStep, JobsKept
<1>4. ASSUME NEW t \in Tasks, Account(t) PROVE JobsDoNotOverlap'
  BY <1>4 DEF Account, Step, JobsDoNotOverlap
<1>5. ASSUME NEW t \in Tasks, FinishJob(t) PROVE JobsDoNotOverlap'
  BY <1>5 DEF FinishJob, Step, JobsDoNotOverlap
<1>6. ASSUME NEW c \in Cores, Interrupt(c) PROVE JobsDoNotOverlap'
  BY <1>6, InterruptStep, JobsKept DEF Ends
<1>7. CASE UNCHANGED vars
  BY <1>7, JobsKept DEF vars, coreVars
<1> QED BY StepCases, <1>1, <1>2, <1>3, <1>4, <1>5, <1>6, <1>7

LEMMA LinesStep ==
    ASSUME TypeOK, LinesLeft, [Next]_vars
    PROVE  LinesLeft'
<1> USE DEF TypeOK, CoreTypeOK, PrefetchPCs, LinesLeft
<1>1. ASSUME NEW t \in Tasks, Job(t) PROVE LinesLeft'
  <2>1. CASE FetchLine(t)
    BY <2>1 DEF FetchLine, Step
  <2>2. CASE CheckSuspend(t) \/ WaitForInterrupt(t)
    BY <2>2 DEF CheckSuspend, WaitForInterrupt, Step
  <2>3. CASE EnterMemoryPhase(t)
    BY <2>3 DEF EnterMemoryPhase, Step
  <2>4. ASSUME pc'[t] \notin PrefetchPCs, UNCHANGED remaining,
               \A u \in Tasks \ {t} : pc'[u] = pc[u]
        PROVE  LinesLeft'
    BY <2>4
  <2> QED BY <1>1, <2>1, <2>2, <2>3, <2>4
             DEF Job, Step, BeginJob, RequestMemory, ArmLowPrio, Deny_SetState,
                 Deny_SetSuspend, EnterComputationPhase, DisarmLowPrio,
                 RevokeMemory, RunTaskCode, Account, FinishJob
<1>2. ASSUME NEW c \in Cores, Interrupt(c) PROVE LinesLeft'
  BY <1>2, InterruptStep
<1>3. CASE UNCHANGED vars
  BY <1>3 DEF vars, coreVars
<1> QED BY StepCases, <1>1, <1>2, <1>3 DEF Next, TickInterrupt, IPI, Interrupt

-----------------------------------------------------------------------------
(* In the prefetch, SUSPENDED means stopped: the pause handler writes both,  *)
(* the resume handler undoes both, and the hook's value is never 0.          *)
LEMMA SuspendedStep ==
    ASSUME TypeOK, JobsDoNotOverlap, SuspendedStandsStill, [Next]_vars
    PROVE  SuspendedStandsStill'
<1> USE DEF TypeOK, CoreTypeOK, PrefetchPCs
<1>1. ASSUME NEW t \in Tasks, Job(t) PROVE SuspendedStandsStill'
  <2> DEFINE c == CoreOf[t]
  <2>1. \A u \in Tasks \ {t} :
            CoreOf[u] = c /\ pc'[u] # "idle" => pc[t] = "idle" /\ pc[u] = pc'[u]
    BY <1>1 DEF JobsDoNotOverlap, Job, Step, BeginJob, RequestMemory, ArmLowPrio,
                Deny_SetState, Deny_SetSuspend, EnterMemoryPhase, CheckSuspend,
                FetchLine, WaitForInterrupt, EnterComputationPhase, DisarmLowPrio,
                RevokeMemory, RunTaskCode, Account, FinishJob
  <2>2. CASE EnterMemoryPhase(t)
    BY <2>1, <2>2 DEF EnterMemoryPhase, Step, ChangeState, SuspendedStandsStill
  <2>3. CASE CheckSuspend(t) \/ FetchLine(t) \/ WaitForInterrupt(t)
    BY <2>3 DEF CheckSuspend, FetchLine, WaitForInterrupt, loopUnchanged, Step,
                SuspendedStandsStill
  <2>4. CASE Deny_SetState(t) \/ EnterComputationPhase(t) \/ FinishJob(t)
    BY <2>1, <2>4 DEF Deny_SetState, EnterComputationPhase, FinishJob, Step,
                      ChangeState, SuspendedStandsStill
  <2>5. CASE Deny_SetSuspend(t)
    BY <2>5 DEF Deny_SetSuspend, Step, SuspendedStandsStill
  <2>6. ASSUME pc'[t] \notin PrefetchPCs,
               \A u \in Tasks \ {t} : pc'[u] = pc[u],
               UNCHANGED <<current_state, suspend_prefetch>>
        PROVE  SuspendedStandsStill'
    BY <2>6 DEF SuspendedStandsStill
  <2> QED BY <1>1, <2>2, <2>3, <2>4, <2>5, <2>6
             DEF Job, Step, BeginJob, RequestMemory, ArmLowPrio, DisarmLowPrio,
                 RevokeMemory, RunTaskCode, Account
<1>2. ASSUME NEW c \in Cores, Interrupt(c) PROVE SuspendedStandsStill'
  <2>1. \A t \in Tasks : pc'[t] \in PrefetchPCs <=> pc[t] \in PrefetchPCs
    BY <1>2, InterruptStep
  <2>2. CASE Tick(c) \/ TickTooLate(c) \/ TickUpdate(c)
    BY <2>1, <2>2 DEF Tick, TickTooLate, TickUpdate, SuspendedStandsStill
  <2>3. CASE TickStore(c)
    <3>1. Complement(update[c]) # 0
      BY <2>3 DEF TickStore, NoUpdate, Complement
    <3> QED BY <2>1, <2>3, <3>1 DEF TickStore, SuspendedStandsStill
  <2>4. CASE ipi_pause_handler(c)
    BY <2>1, <2>4 DEF ipi_pause_handler, ChangeState, SuspendedStandsStill
  <2>5. CASE ipi_resume_handler(c)
    BY <2>1, <2>5 DEF ipi_resume_handler, ChangeState, SuspendedStandsStill
  <2> QED BY <1>2, <2>2, <2>3, <2>4, <2>5 DEF Interrupt
<1>3. CASE UNCHANGED vars
  BY <1>3 DEF vars, coreVars, SuspendedStandsStill
<1> QED BY NextCases, <1>1, <1>2, <1>3 DEF Interrupt

-----------------------------------------------------------------------------
(* The token.                                                                *)

LEMMA WindowKept ==
    ASSUME \A t \in Tasks : pc'[t] \in TokenPCs <=> pc[t] \in TokenPCs
    PROVE  \A c \in Cores : InTokenWindow(c)' <=> InTokenWindow(c)
    BY DEF InTokenWindow

(* An answer: the core that asked is owner or waiting, and no other core     *)
(* joins or leaves them. *)
LEMMA AskToken ==
    ASSUME ArbiterTypeOK, NEW c \in Cores, NEW ack, Ask(c, ack),
           owner \notin waiting, owner = NoCore => waiting = {}
    PROVE  /\ owner' \notin waiting'
           /\ owner' = NoCore => waiting' = {}
           /\ owner' = c \/ c \in waiting'
           /\ \A d \in Cores \ {c} :
                 (owner' = d \/ d \in waiting') <=> (owner = d \/ d \in waiting)
    BY DEF ArbiterTypeOK, Ask, Grant, Preempt, Deny

(* A revoke takes the core, and only it, out. *)
LEMMA RevokeToken ==
    ASSUME ArbiterTypeOK, NEW c \in Cores, NEW result, Revoke(c, result),
           owner \notin waiting, owner = NoCore => waiting = {}
    PROVE  /\ owner' \notin waiting'
           /\ owner' = NoCore => waiting' = {}
           /\ owner' # c /\ c \notin waiting'
           /\ \A d \in Cores \ {c} :
                 (owner' = d \/ d \in waiting') <=> (owner = d \/ d \in waiting)
    BY DEF ArbiterTypeOK, Revoke, HandOver, Release, Withdraw

(* Steps of a task that neither ask nor revoke. *)
Silent(t) ==
    \/ BeginJob(t) \/ ArmLowPrio(t) \/ Deny_SetState(t) \/ Deny_SetSuspend(t)
    \/ EnterMemoryPhase(t) \/ CheckSuspend(t) \/ FetchLine(t)
    \/ WaitForInterrupt(t) \/ EnterComputationPhase(t) \/ DisarmLowPrio(t)
    \/ RunTaskCode(t) \/ FinishJob(t)

LEMMA SilentStep ==
    ASSUME TypeOK, NEW t \in Tasks, Silent(t)
    PROVE  /\ \A u \in Tasks : pc'[u] \in TokenPCs <=> pc[u] \in TokenPCs
           /\ UNCHANGED arbVars
    BY DEF Silent, TokenPCs, PrefetchPCs, TypeOK, CoreTypeOK, Step, BeginJob,
           ArmLowPrio, Deny_SetState, Deny_SetSuspend, EnterMemoryPhase,
           CheckSuspend, FetchLine, WaitForInterrupt, loopUnchanged,
           EnterComputationPhase, DisarmLowPrio, RunTaskCode, FinishJob

(* Account makes no second request. *)
LEMMA AccountStep ==
    ASSUME TypeOK, JobsDoNotOverlap, NEW t \in Tasks, Account(t)
    PROVE  /\ \A u \in Tasks : pc'[u] \in TokenPCs <=> pc[u] \in TokenPCs
           /\ UNCHANGED <<arbVars, end_low_prio, suspend_prefetch>>
<1>1. hypercalled[CoreOf[t]] - 1 = 0
  BY DEF Account, Step, JobsDoNotOverlap
<1> QED BY <1>1 DEF Account, Step, TokenPCs, PrefetchPCs, TypeOK, CoreTypeOK

LEMMA InterruptWindow ==
    ASSUME TypeOK, NEW c \in Cores, Interrupt(c)
    PROVE  /\ \A t \in Tasks : pc'[t] \in TokenPCs <=> pc[t] \in TokenPCs
           /\ \A d \in Cores : InTokenWindow(d)' <=> InTokenWindow(d)
<1>1. \A t \in Tasks : pc'[t] \in TokenPCs <=> pc[t] \in TokenPCs
  BY InterruptStep DEF TokenPCs, PrefetchPCs
<1> QED BY <1>1, WindowKept

(* RequestMemory opens the window of its core and RevokeMemory closes it;    *)
(* the windows of the other cores stay as they are.                          *)
LEMMA RequestWindow ==
    ASSUME TypeOK, NEW t \in Tasks, RequestMemory(t)
    PROVE  /\ InTokenWindow(CoreOf[t])'
           /\ \A d \in Cores \ {CoreOf[t]} : InTokenWindow(d)' <=> InTokenWindow(d)
    BY DEF RequestMemory, Step, InTokenWindow, TokenPCs, TypeOK, CoreTypeOK

LEMMA RevokeWindow ==
    ASSUME TypeOK, JobsDoNotOverlap, NEW t \in Tasks, RevokeMemory(t)
    PROVE  /\ ~ InTokenWindow(CoreOf[t])'
           /\ \A d \in Cores \ {CoreOf[t]} : InTokenWindow(d)' <=> InTokenWindow(d)
<1>1. \A u \in Tasks \ {t} : pc'[u] = pc[u]
  BY DEF RevokeMemory, Step, TypeOK, CoreTypeOK
<1>2. pc[t] # "idle" /\ pc'[t] \notin TokenPCs
  BY DEF RevokeMemory, Step, TypeOK, CoreTypeOK, TokenPCs, PrefetchPCs
<1>3. \A u \in Tasks \ {t} : CoreOf[u] = CoreOf[t] => pc[u] = "idle"
  BY <1>2 DEF JobsDoNotOverlap
<1>4. "idle" \notin TokenPCs
  BY DEF TokenPCs, PrefetchPCs
<1> QED BY <1>1, <1>2, <1>3, <1>4 DEF InTokenWindow

LEMMA TokenStep ==
    ASSUME TypeOK, JobsDoNotOverlap, TimerInTokenWindow, TokenMatchesJobs,
           [Next]_vars
    PROVE  TokenMatchesJobs'
<1>1. ASSUME NEW t \in Tasks, RequestMemory(t) PROVE TokenMatchesJobs'
  <2>1. hypercalled[CoreOf[t]] = 0
    BY <1>1 DEF RequestMemory, Step, JobsDoNotOverlap
  <2>2. PICK answer \in Answers : Ask(CoreOf[t], answer.ack)
    BY <1>1, <2>1 DEF RequestMemory
  <2> QED BY <1>1, <2>2, AskToken, RequestWindow DEF TokenMatchesJobs, TypeOK
<1>2. ASSUME NEW t \in Tasks, RevokeMemory(t) PROVE TokenMatchesJobs'
  <2>1. PICK revoked \in {0, 1} : Revoke(CoreOf[t], revoked)
    BY <1>2 DEF RevokeMemory
  <2> QED BY <1>2, <2>1, RevokeToken, RevokeWindow DEF TokenMatchesJobs, TypeOK
<1>3. ASSUME NEW t \in Tasks, Silent(t) \/ Account(t) PROVE TokenMatchesJobs'
  <2>1. /\ \A u \in Tasks : pc'[u] \in TokenPCs <=> pc[u] \in TokenPCs
        /\ UNCHANGED arbVars
    BY <1>3, SilentStep, AccountStep
  <2> QED BY <2>1, WindowKept DEF TokenMatchesJobs, arbVars
<1>4. ASSUME NEW c \in Cores, TickUpdate(c) PROVE TokenMatchesJobs'
  <2>1. \A d \in Cores : InTokenWindow(d)' <=> InTokenWindow(d)
    BY <1>4, InterruptWindow DEF Interrupt
  <2>2. InTokenWindow(c)
    BY <1>4 DEF TickUpdate, TimerInTokenWindow, TimerPCs, InTokenWindow
  <2>3. PICK ack \in {0, 1} : Ask(c, ack)
    BY <1>4 DEF TickUpdate
  <2> QED BY <2>1, <2>2, <2>3, AskToken DEF TokenMatchesJobs, TypeOK
<1>5. ASSUME NEW c \in Cores, Interrupt(c), ~ TickUpdate(c) PROVE TokenMatchesJobs'
  <2>1. \A d \in Cores : InTokenWindow(d)' <=> InTokenWindow(d)
    BY <1>5, InterruptWindow
  <2>2. UNCHANGED <<owner, waiting>>
    BY <1>5 DEF Interrupt, Tick, TickTooLate, TickStore, ipi_pause_handler,
                ipi_resume_handler, Take, arbVars
  <2> QED BY <2>1, <2>2 DEF TokenMatchesJobs
<1>6. CASE UNCHANGED vars
  BY <1>6 DEF vars, coreVars, arbVars, TokenMatchesJobs, InTokenWindow
<1> QED BY NextCases, <1>1, <1>2, <1>3, <1>4, <1>5, <1>6
         DEF Job, Silent, Interrupt

LEMMA TimerStep ==
    ASSUME TypeOK, JobsDoNotOverlap, TimerInTokenWindow, [Next]_vars
    PROVE  TimerInTokenWindow'
<1> USE DEF TypeOK, CoreTypeOK, TimerPCs, TokenPCs, PrefetchPCs
<1>0. ASSUME \A t \in Tasks : pc[t] \in TimerPCs => pc'[t] \in TimerPCs,
             \A c \in Cores : end_low_prio'[c] \in {0, end_low_prio[c]}
      PROVE  TimerInTokenWindow'
  BY <1>0 DEF TimerInTokenWindow
<1>1. ASSUME NEW t \in Tasks, Job(t) PROVE TimerInTokenWindow'
  <2> DEFINE c == CoreOf[t]
  <2>1. CASE ArmLowPrio(t)
    BY <2>1 DEF ArmLowPrio, Step, ArmIf, TimerInTokenWindow
  <2>2. CASE DisarmLowPrio(t)
    BY <2>2 DEF DisarmLowPrio, Step, TimerInTokenWindow
  <2>3. CASE RevokeMemory(t)
    <3>1. \A u \in Tasks \ {t} : CoreOf[u] = c => pc[u] = "idle"
      BY <2>3 DEF RevokeMemory, Step, JobsDoNotOverlap
    <3>2. end_low_prio[c] = 0
      BY <2>3, <3>1 DEF RevokeMemory, Step, TimerInTokenWindow
    <3> QED BY <2>3, <3>2 DEF RevokeMemory, Step, TimerInTokenWindow
  <2>4. CASE Account(t)
    BY <2>4, <1>0, AccountStep DEF Account, Step
  <2>5. CASE CheckSuspend(t) \/ FetchLine(t) \/ WaitForInterrupt(t)
    BY <2>5, <1>0 DEF CheckSuspend, FetchLine, WaitForInterrupt, loopUnchanged,
                      Step
  <2>6. CASE Deny_SetState(t) \/ Deny_SetSuspend(t) \/ EnterMemoryPhase(t)
    BY <2>6, <1>0 DEF Deny_SetState, Deny_SetSuspend, EnterMemoryPhase, Step
  <2>7. CASE BeginJob(t) \/ RequestMemory(t)
    BY <2>7, <1>0 DEF BeginJob, RequestMemory, Step
  <2>8. CASE EnterComputationPhase(t) \/ RunTaskCode(t) \/ FinishJob(t)
    BY <2>8, <1>0 DEF EnterComputationPhase, RunTaskCode, FinishJob, Step
  <2> QED BY <1>1, <2>1, <2>2, <2>3, <2>4, <2>5, <2>6, <2>7, <2>8 DEF Job
<1>2. ASSUME NEW c \in Cores, Interrupt(c) PROVE TimerInTokenWindow'
  <2>1. \A d \in Cores : end_low_prio'[d] \in {0, end_low_prio[d]}
    BY <1>2 DEF Interrupt, Tick, TickTooLate, TickUpdate, TickStore,
                ipi_pause_handler, ipi_resume_handler
  <2> QED BY <1>2, <2>1, <1>0, InterruptStep
<1>3. CASE UNCHANGED vars
  BY <1>3 DEF vars, coreVars, TimerInTokenWindow
<1> QED BY NextCases, <1>1, <1>2, <1>3 DEF Interrupt

(* The inductive invariant, for any hypervisor that orders its IPIs or not.  *)
LEMMA SafetyInductive ==
    /\ Init => SafetyInv
    /\ SafetyInv /\ [Next]_vars => SafetyInv'
<1>1. Init => SafetyInv
  <2> SUFFICES ASSUME Init PROVE SafetyInv
    OBVIOUS
  <2>1. TypeOK
    BY DEF Init, ArbiterInit, TypeOK, ArbiterTypeOK, CoreTypeOK, PCs, States,
           SuspendBytes
  <2>2. \A t \in Tasks : pc[t] = "idle" /\ pc[t] \notin TokenPCs
    BY DEF Init, TokenPCs, PrefetchPCs
  <2> QED BY <2>1, <2>2
           DEF Init, ArbiterInit, SafetyInv, LinesLeft, TimerInTokenWindow,
               JobsDoNotOverlap, TokenMatchesJobs, InTokenWindow,
               SuspendedStandsStill, PrefetchPCs
<1>2. SafetyInv /\ [Next]_vars => SafetyInv'
  BY TypeStep, LinesStep, TimerStep, JobsStep, TokenStep, SuspendedStep
     DEF SafetyInv
<1> QED BY <1>1, <1>2

(* The variables of every guest and of the hypervisor keep their types; the  *)
(* counts of prem_task.c and of the scheduler never exceed 1. *)
THEOREM TypeCorrect == Spec => []TypeOK
<1>1. SafetyInv => TypeOK
  BY DEF SafetyInv
<1> QED BY <1>1, SafetyInductive, PTL DEF Spec

(* The jobs of a core never overlap, and the second request of vPREMTask is  *)
(* dead code. *)
THEOREM NoOverlap == Spec => []JobsDoNotOverlap
<1>1. SafetyInv => JobsDoNotOverlap
  BY DEF SafetyInv
<1> QED BY <1>1, SafetyInductive, PTL DEF Spec

(* The hypervisor counts as owner or waiting exactly the cores between the   *)
(* answer to their request and their revoke, however jobs, ticks and IPIs    *)
(* interleave. *)
THEOREM TokenAccounting == Spec => []TokenMatchesJobs
<1>1. SafetyInv => TokenMatchesJobs
  BY DEF SafetyInv
<1> QED BY <1>1, SafetyInductive, PTL DEF Spec

(* No core prefetches in state SUSPENDED, beyond the line it had decided on. *)
THEOREM SuspendedStops == Spec => []SuspendedStandsStill
<1>1. SafetyInv => SuspendedStandsStill
  BY DEF SafetyInv
<1> QED BY <1>1, SafetyInductive, PTL DEF Spec

-----------------------------------------------------------------------------
(* With OrderedIPIs: nobody prefetches without the token for long.           *)

OrderInv == SafetyInv /\ IPIsInOrder /\ StoppedWithoutToken

(* A grant or a refusal sends nothing; a preemption sends a pause to the     *)
(* owner, and finds nothing on its way there.                                *)
LEMMA AskIPIs ==
    ASSUME OrderedIPIs, ArbiterTypeOK, NEW c \in Cores, NEW ack, Ask(c, ack)
    PROVE  \/ UNCHANGED pending /\ owner' = owner /\ ack = 0
           \/ UNCHANGED pending /\ owner \in {NoCore, c} /\ owner' = c
           \/ /\ owner \in Cores \ {c} /\ owner' = c
              /\ pending[owner] = {}
              /\ pending' = [pending EXCEPT ![owner] = {"pause"}]
    BY DEF ArbiterTypeOK, Ask, Grant, Preempt, Deny, Send, Settled

LEMMA RevokeIPIs ==
    ASSUME OrderedIPIs, ArbiterTypeOK, NEW c \in Cores, NEW result,
           Revoke(c, result)
    PROVE  \/ UNCHANGED <<pending, owner>>
           \/ UNCHANGED pending /\ owner = c /\ owner' = NoCore
           \/ /\ owner = c /\ owner' \in waiting
              /\ pending[owner'] = {}
              /\ pending' = [pending EXCEPT ![owner'] = {"resume"}]
    BY DEF ArbiterTypeOK, Revoke, HandOver, Release, Withdraw, Send, Settled

LEMMA IPIsStep ==
    ASSUME OrderedIPIs, SafetyInv, SafetyInv', IPIsInOrder, [Next]_vars
    PROVE  IPIsInOrder'
<1> USE DEF SafetyInv, IPIsInOrder, IPIs
<1>1. ASSUME NEW t \in Tasks, RequestMemory(t) PROVE IPIsInOrder'
  <2> DEFINE c == CoreOf[t]
  <2>1. hypercalled[c] = 0
    BY <1>1 DEF RequestMemory, Step, JobsDoNotOverlap
  <2>2. PICK answer \in Answers : Ask(c, answer.ack)
    BY <1>1, <2>1 DEF RequestMemory
  <2>3. pending[c] = {}
    BY <1>1, <2>1 DEF RequestMemory, Settled
  <2> QED BY <1>1, <2>2, <2>3, AskIPIs, RequestWindow DEF TypeOK, ArbiterTypeOK
<1>2. ASSUME NEW t \in Tasks, RevokeMemory(t) PROVE IPIsInOrder'
  <2>1. PICK revoked \in {0, 1} : Revoke(CoreOf[t], revoked)
    BY <1>2 DEF RevokeMemory
  <2> QED BY <1>2, <2>1, RevokeIPIs, RevokeWindow DEF TypeOK, ArbiterTypeOK
<1>3. ASSUME NEW t \in Tasks, Silent(t) \/ Account(t) PROVE IPIsInOrder'
  <2>1. /\ \A u \in Tasks : pc'[u] \in TokenPCs <=> pc[u] \in TokenPCs
        /\ UNCHANGED arbVars
    BY <1>3, SilentStep, AccountStep
  <2> QED BY <2>1, WindowKept DEF arbVars
<1>4. ASSUME NEW c \in Cores, TickUpdate(c) PROVE IPIsInOrder'
  <2>1. PICK ack \in {0, 1} : Ask(c, ack)
    BY <1>4 DEF TickUpdate
  <2> QED BY <1>4, <2>1, AskIPIs, InterruptWindow
          DEF TypeOK, ArbiterTypeOK, Interrupt
<1>5. ASSUME NEW c \in Cores, Interrupt(c), ~ TickUpdate(c) PROVE IPIsInOrder'
  <2>1. owner' = owner /\ \A d \in Cores : pending'[d] \subseteq pending[d]
    BY <1>5 DEF Interrupt, Tick, TickTooLate, TickStore, ipi_pause_handler,
                ipi_resume_handler, Take, arbVars, TypeOK, ArbiterTypeOK
  <2>2. \A d \in Cores : pending[d] \subseteq IPIs
    BY DEF TypeOK, ArbiterTypeOK
  <2> QED BY <1>5, <2>1, <2>2, InterruptWindow
<1>6. CASE UNCHANGED vars
  BY <1>6 DEF vars, coreVars, arbVars, InTokenWindow
<1> QED BY NextCases, <1>1, <1>2, <1>3, <1>4, <1>5, <1>6
         DEF Job, Silent, Interrupt

LEMMA StoppedStep ==
    ASSUME OrderedIPIs, SafetyInv, SafetyInv', IPIsInOrder, StoppedWithoutToken,
           [Next]_vars
    PROVE  StoppedWithoutToken'
<1> USE DEF SafetyInv, TokenPCs, PrefetchPCs
<1>1. ASSUME NEW t \in Tasks, RequestMemory(t) PROVE StoppedWithoutToken'
  <2> DEFINE c == CoreOf[t]
  <2>1. hypercalled[c] = 0
    BY <1>1 DEF RequestMemory, Step, JobsDoNotOverlap
  <2>2. PICK answer \in Answers :
            /\ Ask(c, answer.ack)
            /\ memory_access' = [memory_access EXCEPT ![c] = answer]
    BY <1>1, <2>1 DEF RequestMemory
  <2>3. \A u \in Tasks \ {t} : pc'[u] = pc[u]
    BY <1>1 DEF RequestMemory, Step, TypeOK, CoreTypeOK
  <2>4. \A u \in Tasks \ {t} : CoreOf[u] = c => pc[u] = "idle"
    BY <1>1 DEF RequestMemory, Step, JobsDoNotOverlap
  <2>5. memory_access'[c] = answer /\ pc'[t] = "arm"
    BY <1>1, <2>2 DEF RequestMemory, Step, TypeOK, CoreTypeOK
  <2>6. \A d \in Cores \ {c} : memory_access'[d] = memory_access[d]
    BY <2>2 DEF TypeOK, CoreTypeOK
  <2>7. UNCHANGED suspend_prefetch
    BY <1>1 DEF RequestMemory
  <2> QED BY <2>2, <2>3, <2>4, <2>5, <2>6, <2>7, AskIPIs
          DEF StoppedWithoutToken, TypeOK, ArbiterTypeOK
<1>2. ASSUME NEW t \in Tasks, RevokeMemory(t) PROVE StoppedWithoutToken'
  <2>1. PICK revoked \in {0, 1} : Revoke(CoreOf[t], revoked)
    BY <1>2 DEF RevokeMemory
  <2>2. \A u \in Tasks : pc'[u] \in TokenPCs => u # t /\ pc'[u] = pc[u]
    BY <1>2 DEF RevokeMemory, Step, TypeOK, CoreTypeOK
  <2>3. \A u \in Tasks \ {t} : CoreOf[u] = CoreOf[t] => pc[u] = "idle"
    BY <1>2 DEF RevokeMemory, Step, JobsDoNotOverlap
  <2>4. UNCHANGED <<suspend_prefetch, memory_access>>
    BY <1>2 DEF RevokeMemory
  <2> QED BY <2>1, <2>2, <2>3, <2>4, RevokeIPIs
          DEF StoppedWithoutToken, TypeOK, ArbiterTypeOK
<1>3. ASSUME NEW t \in Tasks, Silent(t) PROVE StoppedWithoutToken'
  <2>1. UNCHANGED <<owner, pending>>
    BY <1>3, SilentStep DEF arbVars
  <2>2. CASE BeginJob(t) \/ RunTaskCode(t) \/ FinishJob(t)
    BY <2>1, <2>2 DEF BeginJob, RunTaskCode, FinishJob, Step, TypeOK, CoreTypeOK,
                      StoppedWithoutToken
  <2>3. CASE ArmLowPrio(t)
    BY <2>1, <2>3 DEF ArmLowPrio, Step, TypeOK, CoreTypeOK, StoppedWithoutToken
  <2>4. CASE Deny_SetState(t) \/ Deny_SetSuspend(t)
    BY <2>1, <2>4 DEF Deny_SetState, Deny_SetSuspend, Step, TypeOK, CoreTypeOK,
                      StoppedWithoutToken
  <2>5. CASE EnterMemoryPhase(t) \/ EnterComputationPhase(t) \/ DisarmLowPrio(t)
    BY <2>1, <2>5 DEF EnterMemoryPhase, EnterComputationPhase, DisarmLowPrio,
                      Step, TypeOK, CoreTypeOK, StoppedWithoutToken
  <2>6. CASE CheckSuspend(t) \/ FetchLine(t) \/ WaitForInterrupt(t)
    BY <2>1, <2>6 DEF CheckSuspend, FetchLine, WaitForInterrupt, loopUnchanged,
                      Step, TypeOK, CoreTypeOK, StoppedWithoutToken
  <2> QED BY <1>3, <2>2, <2>3, <2>4, <2>5, <2>6 DEF Silent
<1>4. ASSUME NEW t \in Tasks, Account(t) PROVE StoppedWithoutToken'
  <2>1. \A u \in Tasks : pc'[u] \in TokenPCs => u # t /\ pc'[u] = pc[u]
    BY <1>4 DEF Account, Step, TypeOK, CoreTypeOK
  <2>2. \A u \in Tasks \ {t} : CoreOf[u] = CoreOf[t] => pc[u] = "idle"
    BY <1>4 DEF Account, Step, JobsDoNotOverlap
  <2>3. \A d \in Cores \ {CoreOf[t]} : memory_access'[d] = memory_access[d]
    BY <1>4 DEF Account, TypeOK, CoreTypeOK
  <2> QED BY <1>4, <2>1, <2>2, <2>3, AccountStep DEF StoppedWithoutToken, arbVars
<1>5. ASSUME NEW c \in Cores, TickUpdate(c) PROVE StoppedWithoutToken'
  <2>1. PICK ack \in {0, 1} : Ask(c, ack)
    BY <1>5 DEF TickUpdate
  <2>2. UNCHANGED <<suspend_prefetch, memory_access>>
    BY <1>5 DEF TickUpdate
  <2> QED BY <1>5, <2>1, <2>2, AskIPIs, InterruptStep
          DEF StoppedWithoutToken, TypeOK, ArbiterTypeOK, Interrupt
<1>6. ASSUME NEW c \in Cores, Tick(c) \/ TickTooLate(c) PROVE StoppedWithoutToken'
  <2>1. UNCHANGED <<suspend_prefetch, memory_access, owner, pending>>
    BY <1>6 DEF Tick, TickTooLate, arbVars
  <2> QED BY <1>6, <2>1, InterruptStep DEF StoppedWithoutToken, Interrupt
<1>7. ASSUME NEW c \in Cores, TickStore(c) PROVE StoppedWithoutToken'
  <2>1. Complement(update[c]) # 0
    BY <1>7 DEF TickStore, NoUpdate, Complement, TypeOK, CoreTypeOK
  <2> QED BY <1>7, <2>1
          DEF TickStore, StoppedWithoutToken, arbVars, TypeOK, CoreTypeOK
<1>8. ASSUME NEW c \in Cores, ipi_pause_handler(c) PROVE StoppedWithoutToken'
  <2>1. /\ suspend_prefetch'[c] = 1
        /\ \A d \in Cores \ {c} : /\ suspend_prefetch'[d] = suspend_prefetch[d]
                                  /\ pending'[d] = pending[d]
    BY <1>8 DEF ipi_pause_handler, Take, TypeOK, CoreTypeOK, ArbiterTypeOK
  <2>2. UNCHANGED <<memory_access, owner>>
    BY <1>8 DEF ipi_pause_handler, Take
  <2> QED BY <1>8, <2>1, <2>2, InterruptStep DEF StoppedWithoutToken, Interrupt
<1>9. ASSUME NEW c \in Cores, ipi_resume_handler(c) PROVE StoppedWithoutToken'
  <2>1. \A d \in Cores \ {c} : /\ suspend_prefetch'[d] = suspend_prefetch[d]
                               /\ pending'[d] = pending[d]
    BY <1>9 DEF ipi_resume_handler, Take, TypeOK, CoreTypeOK, ArbiterTypeOK
  <2>2. UNCHANGED <<memory_access, owner>>
    BY <1>9 DEF ipi_resume_handler, Take
  <2>3. InTokenWindow(c) => owner = c
    BY <1>9 DEF ipi_resume_handler, Take, IPIsInOrder
  <2> QED BY <1>9, <2>1, <2>2, <2>3, InterruptStep
          DEF StoppedWithoutToken, InTokenWindow, Interrupt
<1>10. CASE UNCHANGED vars
  BY <1>10 DEF vars, coreVars, arbVars, StoppedWithoutToken
<1> QED BY NextCases, <1>1, <1>2, <1>3, <1>4, <1>5, <1>6, <1>7, <1>8, <1>9, <1>10
         DEF Job, Silent

LEMMA OrderInductive ==
    ASSUME OrderedIPIs
    PROVE  /\ Init => OrderInv
           /\ OrderInv /\ [Next]_vars => OrderInv'
<1>1. Init => IPIsInOrder /\ StoppedWithoutToken
  BY DEF Init, ArbiterInit, IPIsInOrder, StoppedWithoutToken, IPIs, TokenPCs,
         PrefetchPCs
<1> QED BY <1>1, SafetyInductive, IPIsStep, StoppedStep DEF OrderInv

(* A core whose prefetch can go on owns the token, or the IPI that pauses it *)
(* is on its way: if IPIs are taken in the order they are sent in, the       *)
(* memory phases of any number of cores exclude each other. *)
THEOREM PrefetchExclusion ==
    ASSUME OrderedIPIs
    PROVE  Spec => []PrefetchNeedsToken
<1>1. OrderInv => PrefetchNeedsToken
  BY DEF OrderInv, StoppedWithoutToken, PrefetchNeedsToken, TokenPCs, PrefetchPCs
<1> QED BY <1>1, OrderInductive, PTL DEF Spec

-----------------------------------------------------------------------------
(* PremSystem implements PremPromise, if IPIs are taken in the order they are *)
(* sent in.  Every step of a task, a tick or a handler is a step of           *)
(* PremPromise or leaves the turns, the phases and the lines still to fetch   *)
(* as they are.                                                               *)

(* The four variables of PremPromise that are not variables of PremSystem.    *)
phases  == [c \in Cores |-> phaseOf(c)]
lefts   == [c \in Cores |-> leftOf(c)]
unaware == {c \in overtaken : "pause" \in pending[c]}
last    == {c \in overtaken : "pause" \notin pending[c] /\ Active(c, {"fetch"}) # {}}

promised == <<owner, phases, lefts, unaware, last>>

(* The lines a task has still to fetch: 0 outside of its memory phase.        *)
BeforePCs == {"arm", "deny", "hold", "enter"}

LeftAt(t) == IF pc[t] \in BeforePCs THEN Lines[t]
             ELSE IF pc[t] \in PrefetchPCs THEN remaining[t] ELSE 0

(* The choice in leftOf is no choice: one task of a core is in its job.       *)
LeftsMatch ==
    \A c \in Cores :
        /\ \A t \in Tasks : CoreOf[t] = c /\ LeftAt(t) # 0 => leftOf(c) = LeftAt(t)
        /\ (\A t \in Tasks : CoreOf[t] = c => LeftAt(t) = 0) => leftOf(c) = 0

LEMMA LeftsAgree == SafetyInv => LeftsMatch
<1> SUFFICES ASSUME SafetyInv, NEW c \in Cores
             PROVE  /\ \A t \in Tasks : CoreOf[t] = c /\ LeftAt(t) # 0
                                            => leftOf(c) = LeftAt(t)
                    /\ (\A t \in Tasks : CoreOf[t] = c => LeftAt(t) = 0)
                            => leftOf(c) = 0
  BY DEF LeftsMatch
<1> DEFINE before == Active(c, BeforePCs)
           during == Active(c, PrefetchPCs)
<1>0. leftOf(c) = IF before # {} THEN Lines[CHOOSE t \in before : TRUE]
                  ELSE IF during # {} THEN remaining[CHOOSE t \in during : TRUE]
                  ELSE 0
  BY DEF leftOf, BeforePCs
<1>1. "idle" \notin BeforePCs \cup PrefetchPCs /\ BeforePCs \cap PrefetchPCs = {}
  BY DEF BeforePCs, PrefetchPCs
<1>2. \A t, u \in Tasks :
          CoreOf[t] = CoreOf[u] /\ pc[t] # "idle" /\ pc[u] # "idle" => t = u
  BY DEF SafetyInv, JobsDoNotOverlap
<1>3. ASSUME NEW t \in Tasks, CoreOf[t] = c, LeftAt(t) # 0
      PROVE  leftOf(c) = LeftAt(t)
  <2>1. CASE pc[t] \in BeforePCs
    <3>1. before = {t}
      BY <1>1, <1>2, <1>3, <2>1 DEF Active
    <3>2. (CHOOSE u \in before : TRUE) = t
      BY <3>1
    <3> QED
      BY <1>0, <2>1, <3>1, <3>2 DEF LeftAt
  <2>2. CASE pc[t] \in PrefetchPCs
    <3>1. during = {t} /\ before = {}
      BY <1>1, <1>2, <1>3, <2>2 DEF Active
    <3>2. (CHOOSE u \in during : TRUE) = t
      BY <3>1
    <3> QED
      BY <1>0, <1>1, <2>2, <3>1, <3>2 DEF LeftAt
  <2> QED
    BY <1>3, <2>1, <2>2 DEF LeftAt
<1>4. ASSUME \A t \in Tasks : CoreOf[t] = c => LeftAt(t) = 0
      PROVE  leftOf(c) = 0
  <2>1. before = {}
    BY <1>4, LinesAssumption DEF Active, LeftAt
  <2>2. during = {}
    BY <1>1, <1>4 DEF Active, LeftAt, SafetyInv, LinesLeft, TypeOK, CoreTypeOK
  <2> QED
    BY <1>0, <2>1, <2>2
<1> QED
  BY <1>3, <1>4

LEMMA LeftsAgreeNext == SafetyInv' => LeftsMatch'
BY LeftsAgree, PTL

-----------------------------------------------------------------------------
(* A core whose tasks stay where they are, as far as PremPromise can tell.    *)
SeenAlike(d) ==
    \A u \in Tasks : CoreOf[u] = d =>
        /\ pc'[u] \in TokenPCs <=> pc[u] \in TokenPCs
        /\ pc'[u] \in {"compute", "account"} <=> pc[u] \in {"compute", "account"}
        /\ LeftAt(u)' = LeftAt(u)

FetchAlike(d) ==
    \A u \in Tasks : CoreOf[u] = d => (pc'[u] = "fetch" <=> pc[u] = "fetch")

LEMMA Alike ==
    ASSUME LeftsMatch, LeftsMatch', NEW d \in Cores, SeenAlike(d)
    PROVE  /\ phaseOf(d)' = phaseOf(d)
           /\ leftOf(d)' = leftOf(d)
           /\ InTokenWindow(d)' <=> InTokenWindow(d)
           /\ FetchAlike(d) =>
                ((Active(d, {"fetch"}) # {})' <=> Active(d, {"fetch"}) # {})
<1>1. InTokenWindow(d)' <=> InTokenWindow(d)
  BY DEF SeenAlike, InTokenWindow
<1>2. FetchAlike(d) => ((Active(d, {"fetch"}) # {})' <=> Active(d, {"fetch"}) # {})
  BY DEF FetchAlike, Active
<1>3. (Active(d, {"compute", "account"}) # {})' <=> Active(d, {"compute", "account"}) # {}
  BY DEF SeenAlike, Active
<1>4. phaseOf(d)' = phaseOf(d)
  BY <1>1, <1>3 DEF phaseOf
<1>5. leftOf(d)' = leftOf(d)
  <2>1. CASE \A t \in Tasks : CoreOf[t] = d => LeftAt(t) = 0
    BY <2>1 DEF SeenAlike, LeftsMatch
  <2>2. ASSUME NEW t \in Tasks, CoreOf[t] = d, LeftAt(t) # 0
        PROVE  leftOf(d)' = leftOf(d)
    BY <2>2 DEF SeenAlike, LeftsMatch
  <2> QED
    BY <2>1, <2>2
<1> QED
  BY <1>1, <1>2, <1>4, <1>5

(* Stuttering: nothing that PremPromise sees happens.  A core that is to      *)
(* fetch as owner, or with its pause on the way, is not among the last.       *)
LEMMA AllAlike ==
    ASSUME LeftsMatch, LeftsMatch', \A d \in Cores : SeenAlike(d), UNCHANGED owner,
           \A d \in Cores : owner # d /\ InTokenWindow(d) =>
               ("pause" \in pending'[d] <=> "pause" \in pending[d]),
           \A d \in Cores : owner # d /\ "pause" \notin pending[d] => FetchAlike(d)
    PROVE  UNCHANGED promised
<1>1. UNCHANGED phases /\ UNCHANGED lefts
  BY Alike DEF phases, lefts
<1>2. UNCHANGED unaware
  BY Alike DEF unaware, overtaken
<1>3. UNCHANGED last
  BY Alike DEF last, overtaken
<1> QED
  BY <1>1, <1>2, <1>3 DEF promised

(* The task of a core that is in its job is what PremPromise sees of the core.*)
SeenOfJob ==
    \A t \in Tasks : pc[t] # "idle" =>
        /\ InTokenWindow(CoreOf[t]) <=> pc[t] \in TokenPCs
        /\ phaseOf(CoreOf[t]) =
               IF pc[t] \in TokenPCs THEN "memory"
               ELSE IF pc[t] \in {"compute", "account"} THEN "computation"
               ELSE "rest"
        /\ leftOf(CoreOf[t]) = LeftAt(t)
        /\ Active(CoreOf[t], {"fetch"}) # {} <=> pc[t] = "fetch"

LEMMA JobSeen == SafetyInv => SeenOfJob
<1> SUFFICES ASSUME SafetyInv, NEW t \in Tasks, pc[t] # "idle"
             PROVE  /\ InTokenWindow(CoreOf[t]) <=> pc[t] \in TokenPCs
                    /\ phaseOf(CoreOf[t]) =
                           IF pc[t] \in TokenPCs THEN "memory"
                           ELSE IF pc[t] \in {"compute", "account"} THEN "computation"
                           ELSE "rest"
                    /\ leftOf(CoreOf[t]) = LeftAt(t)
                    /\ Active(CoreOf[t], {"fetch"}) # {} <=> pc[t] = "fetch"
  BY DEF SeenOfJob
<1>1. \A u \in Tasks : CoreOf[u] = CoreOf[t] /\ pc[u] # "idle" => u = t
  BY DEF SafetyInv, JobsDoNotOverlap
<1>2. "idle" \notin TokenPCs
  BY DEF TokenPCs, PrefetchPCs
<1>3. InTokenWindow(CoreOf[t]) <=> pc[t] \in TokenPCs
  BY <1>1, <1>2 DEF InTokenWindow
<1>4. /\ Active(CoreOf[t], {"fetch"}) # {} <=> pc[t] = "fetch"
      /\ Active(CoreOf[t], {"compute", "account"}) # {} <=> pc[t] \in {"compute", "account"}
  <2>1. \A pcs : "idle" \notin pcs =>
            (Active(CoreOf[t], pcs) # {} <=> pc[t] \in pcs)
    BY <1>1 DEF Active
  <2> QED
    BY <2>1
<1>5. leftOf(CoreOf[t]) = LeftAt(t)
  <2>1. CASE LeftAt(t) # 0
    BY <2>1, LeftsAgree DEF LeftsMatch
  <2>2. CASE LeftAt(t) = 0
    <3>1. ASSUME NEW u \in Tasks, CoreOf[u] = CoreOf[t] PROVE LeftAt(u) = 0
      <4>1. CASE u = t
        BY <2>2, <4>1
      <4>2. CASE pc[u] = "idle"
        BY <4>2 DEF LeftAt, BeforePCs, PrefetchPCs
      <4> QED
        BY <1>1, <3>1, <4>1, <4>2
    <3> QED
      BY <2>2, <3>1, LeftsAgree DEF LeftsMatch
  <2> QED
    BY <2>1, <2>2
<1>6. phaseOf(CoreOf[t]) = IF pc[t] \in TokenPCs THEN "memory"
                            ELSE IF pc[t] \in {"compute", "account"} THEN "computation"
                            ELSE "rest"
  BY <1>3, <1>4 DEF phaseOf
<1> QED
  BY <1>3, <1>4, <1>5, <1>6

LEMMA JobSeenNext == SafetyInv' => SeenOfJob'
BY JobSeen, PTL

(* A step of a task is not seen on the other cores.                           *)
LEMMA OthersAlike ==
    ASSUME TypeOK, NEW t \in Tasks,
           \A u \in Tasks \ {t} : pc'[u] = pc[u] /\ remaining'[u] = remaining[u]
    PROVE  \A d \in Cores \ {CoreOf[t]} : SeenAlike(d) /\ FetchAlike(d)
BY DEF SeenAlike, FetchAlike, LeftAt

-----------------------------------------------------------------------------
(* The overtaken cores are the waiting ones.                                 *)

LEMMA OvertakenWait ==
    ASSUME SafetyInv, NEW d \in Cores
    PROVE  /\ d \in overtaken <=> d \in waiting
           /\ phaseOf(d) = "memory" <=> InTokenWindow(d)
           /\ InTokenWindow(d) <=> owner = d \/ d \in waiting
           /\ InTokenWindow(d) => owner # NoCore
<1>1. InTokenWindow(d) <=> owner = d \/ d \in waiting
  BY DEF SafetyInv, TokenMatchesJobs
<1>2. owner \notin waiting /\ (owner = NoCore => waiting = {})
  BY DEF SafetyInv, TokenMatchesJobs
<1>3. d \in overtaken <=> d \in waiting
  BY <1>1, <1>2 DEF overtaken
<1>4. phaseOf(d) = "memory" <=> InTokenWindow(d)
  BY DEF phaseOf
<1>5. InTokenWindow(d) => owner # NoCore
  BY <1>1, <1>2
<1> QED
  BY <1>1, <1>3, <1>4, <1>5

WaitersMatch ==
    /\ unaware = {d \in waiting : "pause" \in pending[d]}
    /\ last = {d \in waiting : "pause" \notin pending[d] /\ Active(d, {"fetch"}) # {}}
    /\ \A d \in Cores : phases[d] = "memory" <=> owner = d \/ d \in waiting
    /\ owner \notin waiting
    /\ owner = NoCore => waiting = {}
    /\ waiting \subseteq Cores

LEMMA WaitersAgree == SafetyInv => WaitersMatch
<1> SUFFICES ASSUME SafetyInv PROVE WaitersMatch
  OBVIOUS
<1>1. /\ owner \notin waiting
      /\ owner = NoCore => waiting = {}
      /\ waiting \subseteq Cores
  BY DEF SafetyInv, TokenMatchesJobs, TypeOK, ArbiterTypeOK
<1>2. overtaken = waiting
  BY <1>1, OvertakenWait DEF overtaken
<1>3. \A d \in Cores : phases[d] = "memory" <=> owner = d \/ d \in waiting
  BY OvertakenWait DEF phases
<1> QED
  BY <1>1, <1>2, <1>3 DEF WaitersMatch, unaware, last

LEMMA WaitersAgreeNext == SafetyInv' => WaitersMatch'
BY WaitersAgree, PTL

-----------------------------------------------------------------------------
(* The steps of PremPromise, over the variables it is given.                 *)

Turn(c) ==
    /\ owner' = c
    /\ unaware' = (unaware \cup ({owner} \ {NoCore})) \ {c}
    /\ last' = last \ {c}

LEMMA IsStutter ==
    ASSUME UNCHANGED promised
    PROVE  UNCHANGED Promise!promiseVars
BY DEF promised, Promise!promiseVars, phases, lefts, unaware, last

LEMMA IsEnter ==
    ASSUME NEW c \in Cores, NEW n \in Nat \ {0}, phases[c] = "rest",
           phases' = [phases EXCEPT ![c] = "memory"],
           lefts' = [lefts EXCEPT ![c] = n],
           \/ Turn(c)
           \/ owner # NoCore /\ UNCHANGED <<owner, unaware, last>>
    PROVE  Promise!Next
<1>1. lefts'[c] = n
  BY DEF lefts
<1> QED
  BY <1>1 DEF Promise!Next, Promise!Enter, Promise!TurnTo, Turn, phases, lefts, unaware, last

LEMMA IsOvertake ==
    ASSUME NEW c \in Cores, phases[c] = "memory", Turn(c), UNCHANGED <<phases, lefts>>
    PROVE  Promise!Next
BY DEF Promise!Next, Promise!Overtake, Promise!TurnTo, Turn, phases, lefts, unaware, last

LEMMA IsFetch ==
    ASSUME NEW c \in Cores, phases[c] = "memory", lefts[c] > 0,
           c \in {owner} \cup unaware \cup last,
           lefts' = [lefts EXCEPT ![c] = @ - 1],
           last' = last \ {c},
           UNCHANGED <<owner, phases, unaware>>
    PROVE  Promise!Next
BY DEF Promise!Next, Promise!Fetch, phases, lefts, unaware, last

LEMMA IsTell ==
    ASSUME NEW c \in Cores, c \in unaware, unaware' = unaware \ {c},
           last' \in {last, last \cup {c}},
           UNCHANGED <<owner, phases, lefts>>
    PROVE  Promise!Next
BY DEF Promise!Next, Promise!Tell, phases, lefts, unaware, last

LEMMA IsCompute ==
    ASSUME NEW c \in Cores, phases[c] = "memory", lefts[c] = 0,
           phases' = [phases EXCEPT ![c] = "computation"],
           unaware' = unaware \ {c, owner'}, last' = last \ {c, owner'},
           IF owner # c THEN owner' = owner
           ELSE \/ owner' = NoCore /\ \A d \in Cores : phases'[d] # "memory"
                \/ owner' \in Cores /\ phases'[owner'] = "memory",
           UNCHANGED lefts
    PROVE  Promise!Next
BY DEF Promise!Next, Promise!Compute, Promise!Fetchers, phases, lefts, unaware, last

LEMMA IsRest ==
    ASSUME NEW c \in Cores, phases[c] = "computation",
           phases' = [phases EXCEPT ![c] = "rest"],
           UNCHANGED <<owner, lefts, unaware, last>>
    PROVE  Promise!Next
BY DEF Promise!Next, Promise!Rest, phases, lefts, unaware, last

-----------------------------------------------------------------------------
(* What the steps of PremSystem are in PremPromise.                          *)

(* All lemmas about the state before and after a step.                       *)
Matched == LeftsMatch /\ SeenOfJob /\ WaitersMatch

LEMMA MatchedBoth == SafetyInv /\ SafetyInv' => Matched /\ Matched'
BY LeftsAgree, LeftsAgreeNext, JobSeen, JobSeenNext, WaitersAgree, WaitersAgreeNext
   DEF Matched

OnlyMoves(t) ==
    \A u \in Tasks \ {t} : pc'[u] = pc[u] /\ remaining'[u] = remaining[u]

(* A step of a task, on the other cores. *)
LEMMA Elsewhere ==
    ASSUME TypeOK, Matched, Matched', NEW t \in Tasks, OnlyMoves(t)
    PROVE  \A d \in Cores \ {CoreOf[t]} :
              /\ phases'[d] = phases[d]
              /\ lefts'[d] = lefts[d]
              /\ (Active(d, {"fetch"}) # {})' <=> Active(d, {"fetch"}) # {}
<1>1. \A d \in Cores \ {CoreOf[t]} : SeenAlike(d) /\ FetchAlike(d)
  BY OthersAlike DEF OnlyMoves
<1> QED
  BY <1>1, Alike DEF Matched, phases, lefts

(* A request enters the memory phase: granted or after a preemption it takes  *)
(* the turn, refused it waits behind the holder. *)
LEMMA RequestIsEnter ==
    ASSUME OrderedIPIs, OrderInv, Matched, Matched', NEW t \in Tasks, RequestMemory(t)
    PROVE  Promise!Next
<1> DEFINE c == CoreOf[t]
<1> USE DEF OrderInv, SafetyInv
<1>0. c \in Cores
  OBVIOUS
<1>1. hypercalled[c] = 0
  BY DEF RequestMemory, Step, JobsDoNotOverlap
<1>2. PICK answer \in Answers : Ask(c, answer.ack)
  BY <1>1 DEF RequestMemory
<1>3. pending[c] = {}
  BY <1>1 DEF RequestMemory, Settled
<1>4. /\ pc[t] = "request" /\ pc'[t] = "arm"
      /\ OnlyMoves(t)
  BY DEF RequestMemory, Step, OnlyMoves, TypeOK, CoreTypeOK
<1>5. phases[c] = "rest" /\ phases'[c] = "memory" /\ lefts'[c] = Lines[t]
  BY <1>4 DEF Matched, SeenOfJob, phases, lefts, LeftAt, BeforePCs, TokenPCs, PrefetchPCs
<1>6. phases' = [phases EXCEPT ![c] = "memory"]
  BY <1>4, <1>5, Elsewhere DEF phases
<1>7. lefts' = [lefts EXCEPT ![c] = Lines[t]]
  BY <1>4, <1>5, Elsewhere DEF lefts
<1>8. owner # c /\ c \notin waiting
  BY <1>5 DEF Matched, WaitersMatch
<1>9. ~ (Active(c, {"fetch"}) # {})'
  BY <1>4 DEF Matched, SeenOfJob
<1>10. CASE Grant(c)
  <2>1. Turn(c)
    BY <1>8, <1>10 DEF Grant, Turn, Matched, WaitersMatch
  <2> QED
    BY <1>5, <1>6, <1>7, <2>1, IsEnter
<1>11. CASE Preempt(c)
  <2>1. pending[owner] = {} /\ pending' = [pending EXCEPT ![owner] = {"pause"}]
    BY <1>11 DEF Preempt, Send, Settled, TypeOK, ArbiterTypeOK
  <2>2. /\ owner \in Cores /\ owner # c /\ owner' = c
        /\ waiting' = waiting \cup {owner}
    BY <1>8, <1>11 DEF Preempt
  <2>3. unaware' = unaware \cup {owner}
    BY <2>1, <2>2 DEF Matched, WaitersMatch, TypeOK, ArbiterTypeOK
  <2>4. last' = last
    BY <1>4, <2>1, <2>2, Elsewhere, <1>8 DEF Matched, WaitersMatch, TypeOK, ArbiterTypeOK
  <2>5. Turn(c)
    BY <1>8, <2>2, <2>3, <2>4 DEF Turn, Matched, WaitersMatch
  <2> QED
    BY <1>5, <1>6, <1>7, <2>5, IsEnter
<1>12. CASE Deny(c)
  <2>1. owner # NoCore /\ UNCHANGED <<owner, pending>> /\ waiting' = waiting \cup {c}
    BY <1>12 DEF Deny
  <2>2. unaware' = unaware
    BY <1>3, <2>1 DEF Matched, WaitersMatch
  <2>3. last' = last
    BY <1>4, <1>8, <1>9, <2>1, Elsewhere DEF Matched, WaitersMatch
  <2> QED
    BY <1>5, <1>6, <1>7, <2>1, <2>2, <2>3, IsEnter
<1> QED
  BY <1>2, <1>10, <1>11, <1>12 DEF Ask

(* A line is fetched by the holder, by a core whose pause is on the way, or   *)
(* as the last one. *)
LEMMA FetchIsFetch ==
    ASSUME OrderInv, Matched, Matched', NEW t \in Tasks, FetchLine(t)
    PROVE  Promise!Next
<1> DEFINE c == CoreOf[t]
<1> USE DEF OrderInv, SafetyInv
<1>1. /\ pc[t] = "fetch" /\ pc'[t] = IF remaining[t] = 1 THEN "fetched" ELSE "check"
      /\ remaining'[t] = remaining[t] - 1
      /\ OnlyMoves(t)
      /\ UNCHANGED arbVars
  BY DEF FetchLine, Step, OnlyMoves, loopUnchanged, TypeOK, CoreTypeOK
<1>2. remaining[t] \in Nat \ {0}
  BY <1>1 DEF LinesLeft, PrefetchPCs, TypeOK, CoreTypeOK
<1>3. /\ phases[c] = "memory" /\ phases'[c] = "memory"
      /\ Active(c, {"fetch"}) # {}
      /\ ~ (Active(c, {"fetch"}) # {})'
  BY <1>1 DEF Matched, SeenOfJob, phases, TokenPCs, PrefetchPCs
<1>4. lefts[c] = remaining[t]
  BY <1>1 DEF Matched, SeenOfJob, lefts, LeftAt, BeforePCs, PrefetchPCs
<1>5. lefts'[c] = remaining[t] - 1
  BY <1>1, <1>2 DEF Matched, SeenOfJob, lefts, LeftAt, BeforePCs, PrefetchPCs
<1>6. lefts' = [lefts EXCEPT ![c] = @ - 1]
  BY <1>1, <1>4, <1>5, Elsewhere DEF lefts
<1>7. UNCHANGED phases
  BY <1>1, <1>3, Elsewhere DEF phases
<1>8. UNCHANGED unaware /\ last' = last \ {c}
  BY <1>1, <1>3, Elsewhere DEF Matched, WaitersMatch, arbVars
<1>9. c \in {owner} \cup unaware \cup last
  BY <1>3 DEF Matched, WaitersMatch
<1>10. lefts[c] > 0
  BY <1>2, <1>4
<1>11. UNCHANGED owner
  BY <1>1 DEF arbVars
<1> QED
  BY <1>3, <1>6, <1>7, <1>8, <1>9, <1>10, <1>11, IsFetch

(* A revoke ends the memory phase; the token goes to a waiting core, if any. *)
LEMMA RevokeIsCompute ==
    ASSUME OrderedIPIs, OrderInv, Matched, Matched', NEW t \in Tasks, RevokeMemory(t)
    PROVE  Promise!Next
<1> DEFINE c == CoreOf[t]
<1> USE DEF OrderInv, SafetyInv
<1>0. c \in Cores
  OBVIOUS
<1>1. PICK revoked \in {0, 1} : Revoke(c, revoked)
  BY DEF RevokeMemory
<1>2. /\ pc[t] = "revoke" /\ pc'[t] \in {"compute", "account"}
      /\ OnlyMoves(t)
  BY DEF RevokeMemory, Step, OnlyMoves, TypeOK, CoreTypeOK
<1>3. phases[c] = "memory" /\ phases'[c] = "computation"
  BY <1>2 DEF Matched, SeenOfJob, phases, TokenPCs, PrefetchPCs
<1>4. lefts[c] = 0 /\ lefts'[c] = 0
  BY <1>2 DEF Matched, SeenOfJob, lefts, LeftAt, BeforePCs, PrefetchPCs
<1>5. phases' = [phases EXCEPT ![c] = "computation"]
  BY <1>2, <1>3, Elsewhere DEF phases
<1>6. UNCHANGED lefts
  BY <1>2, <1>4, Elsewhere DEF lefts
<1>7. owner = c \/ c \in waiting
  BY <1>3 DEF Matched, WaitersMatch
<1>8. CASE HandOver(c)
  <2>1. PICK d \in waiting : owner' = d /\ waiting' = waiting \ {d} /\ Send(d, "resume")
    BY <1>8 DEF HandOver
  <2>2. d \in Cores /\ d # c /\ owner = c
    BY <1>8, <2>1 DEF HandOver, Matched, WaitersMatch
  <2>3. \A e \in Cores \ {d} : pending'[e] = pending[e]
    BY <2>1, <2>2 DEF Send, TypeOK, ArbiterTypeOK
  <2>4. unaware' = unaware \ {c, d}
    BY <2>1, <2>2, <2>3 DEF Matched, WaitersMatch
  <2>5. last' = last \ {c, d}
    BY <1>2, <2>1, <2>2, <2>3, Elsewhere DEF Matched, WaitersMatch
  <2>6. phases'[d] = "memory"
    BY <2>1, <2>2 DEF Matched, WaitersMatch
  <2> QED
    BY <1>3, <1>4, <1>5, <1>6, <2>1, <2>2, <2>4, <2>5, <2>6, IsCompute
<1>9. CASE Release(c)
  <2>1. /\ owner = c /\ waiting = {} /\ owner' = NoCore
        /\ UNCHANGED <<waiting, pending>>
    BY <1>9 DEF Release
  <2>2. unaware' = unaware \ {c, owner'} /\ last' = last \ {c, owner'}
    BY <2>1 DEF Matched, WaitersMatch
  <2>3. \A d \in Cores : phases'[d] # "memory"
    BY <2>1 DEF Matched, WaitersMatch
  <2> QED
    BY <1>3, <1>4, <1>5, <1>6, <2>1, <2>2, <2>3, IsCompute
<1>10. CASE Withdraw(c)
  <2>1. owner # c /\ waiting' = waiting \ {c} /\ UNCHANGED <<owner, pending>>
    BY <1>10 DEF Withdraw
  <2>2. unaware' = unaware \ {c, owner'}
    BY <2>1 DEF Matched, WaitersMatch
  <2>3. last' = last \ {c, owner'}
    BY <1>2, <2>1, Elsewhere DEF Matched, WaitersMatch
  <2> QED
    BY <1>3, <1>4, <1>5, <1>6, <2>1, <2>2, <2>3, IsCompute
<1> QED
  BY <1>1, <1>8, <1>9, <1>10 DEF Revoke

(* The end of the computation, without a second request. *)
LEMMA AccountIsRest ==
    ASSUME OrderInv, Matched, Matched', NEW t \in Tasks, Account(t)
    PROVE  Promise!Next
<1> DEFINE c == CoreOf[t]
<1> USE DEF OrderInv, SafetyInv
<1>1. /\ pc[t] = "account" /\ pc'[t] = "finish"
      /\ OnlyMoves(t)
  BY DEF Account, Step, OnlyMoves, TypeOK, CoreTypeOK
<1>2. UNCHANGED <<owner, waiting, pending>>
  BY AccountStep DEF arbVars
<1>3. phases[c] = "computation" /\ phases'[c] = "rest"
  BY <1>1 DEF Matched, SeenOfJob, phases, TokenPCs, PrefetchPCs
<1>4. lefts[c] = 0 /\ lefts'[c] = 0
  BY <1>1 DEF Matched, SeenOfJob, lefts, LeftAt, BeforePCs, PrefetchPCs
<1>5. ~ (Active(c, {"fetch"}) # {}) /\ ~ (Active(c, {"fetch"}) # {})'
  BY <1>1 DEF Matched, SeenOfJob
<1>6. phases' = [phases EXCEPT ![c] = "rest"]
  BY <1>1, <1>3, Elsewhere DEF phases
<1>7. UNCHANGED lefts
  BY <1>1, <1>4, Elsewhere DEF lefts
<1>8. UNCHANGED <<unaware, last>>
  BY <1>1, <1>2, <1>5, Elsewhere DEF Matched, WaitersMatch
<1> QED
  BY <1>2, <1>3, <1>6, <1>7, <1>8, IsRest

(* What the steps that PremPromise does not see do.                          *)
LEMMA IsAlike ==
    ASSUME Matched, Matched', \A d \in Cores : SeenAlike(d), UNCHANGED <<owner, waiting>>,
           \A d \in waiting : "pause" \in pending'[d] <=> "pause" \in pending[d],
           \A d \in waiting : "pause" \notin pending[d] => FetchAlike(d)
    PROVE  UNCHANGED Promise!promiseVars
<1>1. \A d \in Cores : phases'[d] = phases[d] /\ lefts'[d] = lefts[d]
  BY Alike DEF Matched, phases, lefts
<1>2. UNCHANGED phases /\ UNCHANGED lefts
  BY <1>1 DEF phases, lefts
<1>3. \A d \in waiting : "pause" \notin pending[d] =>
          ((Active(d, {"fetch"}) # {})' <=> Active(d, {"fetch"}) # {})
  BY Alike DEF Matched, WaitersMatch
<1>4. UNCHANGED unaware /\ UNCHANGED last
  BY <1>3 DEF Matched, WaitersMatch
<1> QED
  BY <1>2, <1>4, IsStutter DEF promised

(* An interrupt: a task at most leaves its wfi.                              *)
LEMMA InterruptAlike ==
    ASSUME TypeOK, NEW c \in Cores, Interrupt(c)
    PROVE  \A d \in Cores : SeenAlike(d) /\ FetchAlike(d)
<1>1. \A u \in Tasks : /\ \/ pc'[u] = pc[u]
                          \/ pc[u] = "asleep" /\ pc'[u] = "check"
                       /\ remaining'[u] = remaining[u]
  BY InterruptStep
<1>2. \A u \in Tasks : /\ pc'[u] \in TokenPCs <=> pc[u] \in TokenPCs
                       /\ pc'[u] \in {"compute", "account"} <=> pc[u] \in {"compute", "account"}
                       /\ pc'[u] = "fetch" <=> pc[u] = "fetch"
  BY <1>1 DEF TokenPCs, PrefetchPCs
<1>3. \A u \in Tasks : LeftAt(u)' = LeftAt(u)
  BY <1>1 DEF LeftAt, BeforePCs, PrefetchPCs
<1> QED
  BY <1>2, <1>3 DEF SeenAlike, FetchAlike

(* The tick hook asks again: a core in its memory phase overtakes the holder,*)
(* or nothing happens.                                                       *)
LEMMA UpdateIsOvertake ==
    ASSUME OrderedIPIs, OrderInv, Matched, Matched', NEW c \in Cores, TickUpdate(c)
    PROVE  Promise!Next \/ UNCHANGED Promise!promiseVars
<1> USE DEF OrderInv, SafetyInv
<1>1. InTokenWindow(c)
  BY DEF TickUpdate, TimerInTokenWindow, TimerPCs, InTokenWindow
<1>2. owner = c \/ c \in waiting
  BY <1>1, OvertakenWait
<1>3. \A d \in Cores : SeenAlike(d) /\ FetchAlike(d)
  BY InterruptAlike DEF Interrupt
<1>4. PICK ack \in {0, 1} : Ask(c, ack)
  BY DEF TickUpdate
<1>5. CASE Grant(c)
  <2>1. owner = c
    BY <1>2, <1>5 DEF Grant, Matched, WaitersMatch
  <2>2. UNCHANGED <<owner, waiting, pending>>
    BY <1>5, <2>1 DEF Grant, Matched, WaitersMatch
  <2> QED
    BY <1>3, <2>2, IsAlike DEF Matched, WaitersMatch
<1>6. CASE Deny(c)
  <2>1. UNCHANGED <<owner, waiting, pending>>
    BY <1>2, <1>6 DEF Deny
  <2> QED
    BY <1>3, <2>1, IsAlike DEF Matched, WaitersMatch
<1>7. CASE Preempt(c)
  <2>1. pending[owner] = {} /\ pending' = [pending EXCEPT ![owner] = {"pause"}]
    BY <1>7 DEF Preempt, Send, Settled, TypeOK, ArbiterTypeOK
  <2>2. /\ owner \in Cores /\ owner # c /\ owner' = c /\ owner # NoCore
        /\ waiting' = (waiting \ {c}) \cup {owner}
        /\ \A d \in Cores \ {owner} : pending'[d] = pending[d]
        /\ pending'[owner] = {"pause"}
    BY <1>7, <2>1 DEF Preempt, TypeOK, ArbiterTypeOK
  <2>3. unaware' = (unaware \cup {owner}) \ {c}
    BY <2>2 DEF Matched, WaitersMatch
  <2>4. \A d \in Cores : (Active(d, {"fetch"}) # {})' <=> Active(d, {"fetch"}) # {}
    BY <1>3, Alike DEF Matched
  <2>5. last' = last \ {c}
    BY <2>2, <2>4 DEF Matched, WaitersMatch
  <2>6. Turn(c)
    BY <2>2, <2>3, <2>5 DEF Turn
  <2>7. \A d \in Cores : phases'[d] = phases[d] /\ lefts'[d] = lefts[d]
    BY <1>3, Alike DEF Matched, phases, lefts
  <2>8. UNCHANGED <<phases, lefts>>
    BY <2>7 DEF phases, lefts
  <2>9. phases[c] = "memory"
    BY <1>2 DEF Matched, WaitersMatch
  <2> QED
    BY <2>6, <2>8, <2>9, IsOvertake
<1> QED
  BY <1>4, <1>5, <1>6, <1>7 DEF Ask

(* An overtaken core is told so by its pause; nobody else hears of it.        *)
LEMMA PauseIsTell ==
    ASSUME OrderInv, Matched, Matched', NEW c \in Cores, ipi_pause_handler(c)
    PROVE  Promise!Next \/ UNCHANGED Promise!promiseVars
<1> USE DEF OrderInv, SafetyInv
<1>1. \A d \in Cores : SeenAlike(d) /\ FetchAlike(d)
  BY InterruptAlike DEF Interrupt
<1>2. /\ UNCHANGED <<owner, waiting>>
      /\ "pause" \in pending[c] /\ "pause" \notin pending'[c]
      /\ \A d \in Cores \ {c} : pending'[d] = pending[d]
  BY DEF ipi_pause_handler, Take, TypeOK, ArbiterTypeOK
<1>3. CASE c \notin waiting
  <2>1. \A d \in waiting : "pause" \in pending'[d] <=> "pause" \in pending[d]
    BY <1>2, <1>3 DEF Matched, WaitersMatch
  <2> QED
    BY <1>1, <1>2, <2>1, IsAlike DEF Matched, WaitersMatch
<1>4. CASE c \in waiting
  <2>1. c \in unaware /\ unaware' = unaware \ {c}
    BY <1>2, <1>4 DEF Matched, WaitersMatch
  <2>2. \A d \in Cores : (Active(d, {"fetch"}) # {})' <=> Active(d, {"fetch"}) # {}
    BY <1>1, Alike DEF Matched
  <2>3. last' \in {last, last \cup {c}}
    <3>1. CASE Active(c, {"fetch"}) # {}
      BY <1>2, <1>4, <2>2, <3>1 DEF Matched, WaitersMatch
    <3>2. CASE ~ (Active(c, {"fetch"}) # {})
      BY <1>2, <1>4, <2>2, <3>2 DEF Matched, WaitersMatch
    <3> QED
      BY <3>1, <3>2
  <2>4. \A d \in Cores : phases'[d] = phases[d] /\ lefts'[d] = lefts[d]
    BY <1>1, Alike DEF Matched, phases, lefts
  <2>5. UNCHANGED <<phases, lefts>>
    BY <2>4 DEF phases, lefts
  <2> QED
    BY <1>2, <2>1, <2>3, <2>5, IsTell
<1> QED
  BY <1>3, <1>4

(* The other interrupts.                                                     *)
LEMMA InterruptIsStutter ==
    ASSUME OrderInv, Matched, Matched', NEW c \in Cores,
           Tick(c) \/ TickTooLate(c) \/ TickStore(c) \/ ipi_resume_handler(c)
    PROVE  UNCHANGED Promise!promiseVars
<1> USE DEF OrderInv, SafetyInv
<1>1. \A d \in Cores : SeenAlike(d) /\ FetchAlike(d)
  BY InterruptAlike DEF Interrupt
<1>2. /\ UNCHANGED <<owner, waiting>>
      /\ \A d \in Cores : "pause" \in pending'[d] <=> "pause" \in pending[d]
  BY DEF Tick, TickTooLate, TickStore, ipi_resume_handler, Take, arbVars, TypeOK, ArbiterTypeOK
<1> QED
  BY <1>1, <1>2, IsAlike DEF Matched, WaitersMatch

(* The steps of a task between its request, its fetches and its revoke.       *)
Unseen(t) ==
    \/ BeginJob(t) \/ ArmLowPrio(t) \/ Deny_SetState(t) \/ Deny_SetSuspend(t)
    \/ EnterMemoryPhase(t) \/ WaitForInterrupt(t) \/ EnterComputationPhase(t)
    \/ DisarmLowPrio(t) \/ RunTaskCode(t) \/ FinishJob(t)

LEMMA UnseenStep ==
    ASSUME TypeOK, NEW t \in Tasks, Unseen(t) \/ CheckSuspend(t)
    PROVE  /\ OnlyMoves(t)
           /\ pc'[t] \in TokenPCs <=> pc[t] \in TokenPCs
           /\ pc'[t] \in {"compute", "account"} <=> pc[t] \in {"compute", "account"}
           /\ LeftAt(t)' = LeftAt(t)
           /\ Unseen(t) => (pc'[t] = "fetch" <=> pc[t] = "fetch")
           /\ UNCHANGED <<owner, waiting, pending>>
<1> USE DEF Step, OnlyMoves, TypeOK, CoreTypeOK, TokenPCs, PrefetchPCs, LeftAt, BeforePCs, arbVars
<1>1. CASE BeginJob(t) \/ ArmLowPrio(t) \/ Deny_SetState(t) \/ Deny_SetSuspend(t)
  BY <1>1 DEF BeginJob, ArmLowPrio, Deny_SetState, Deny_SetSuspend
<1>2. CASE EnterMemoryPhase(t)
  BY <1>2 DEF EnterMemoryPhase
<1>3. CASE WaitForInterrupt(t) \/ EnterComputationPhase(t) \/ DisarmLowPrio(t)
  BY <1>3 DEF WaitForInterrupt, EnterComputationPhase, DisarmLowPrio, loopUnchanged
<1>4. CASE RunTaskCode(t) \/ FinishJob(t)
  BY <1>4 DEF RunTaskCode, FinishJob
<1>5. CASE CheckSuspend(t)
  BY <1>5 DEF CheckSuspend, loopUnchanged, Unseen, BeginJob, ArmLowPrio, Deny_SetState,
              Deny_SetSuspend, EnterMemoryPhase, WaitForInterrupt, EnterComputationPhase,
              DisarmLowPrio, RunTaskCode, FinishJob
<1> QED
  BY <1>1, <1>2, <1>3, <1>4, <1>5 DEF Unseen

(* A core that decides to fetch is the holder, or has not been told: its byte *)
(* is 0.                                                                      *)
LEMMA UnseenIsStutter ==
    ASSUME OrderInv, Matched, Matched', NEW t \in Tasks, Unseen(t) \/ CheckSuspend(t)
    PROVE  UNCHANGED Promise!promiseVars
<1> DEFINE c == CoreOf[t]
<1> USE DEF OrderInv, SafetyInv
<1>1. \A d \in Cores \ {c} : SeenAlike(d) /\ FetchAlike(d)
  BY UnseenStep, OthersAlike DEF OnlyMoves
<1>2. SeenAlike(c)
  <2>1. ASSUME NEW u \in Tasks \ {t} PROVE pc'[u] = pc[u] /\ LeftAt(u)' = LeftAt(u)
    BY UnseenStep DEF OnlyMoves, LeftAt
  <2> QED
    BY <2>1, UnseenStep DEF SeenAlike
<1>3. UNCHANGED <<owner, waiting, pending>>
  BY UnseenStep
<1>4. c \in waiting /\ "pause" \notin pending[c] => FetchAlike(c)
  <2>1. CASE Unseen(t)
    BY <2>1, UnseenStep DEF FetchAlike, OnlyMoves
  <2>2. CASE CheckSuspend(t)
    <3> SUFFICES ASSUME c \in waiting, "pause" \notin pending[c] PROVE FetchAlike(c)
      OBVIOUS
    <3>1. pc[t] = "check" /\ pc'[t] = IF suspend_prefetch[c] = 0 THEN "fetch" ELSE "wfi"
      BY <2>2 DEF CheckSuspend, Step, TypeOK, CoreTypeOK
    <3>2. owner # c
      BY DEF Matched, WaitersMatch
    <3>3. suspend_prefetch[c] # 0
      BY <3>1, <3>2 DEF StoppedWithoutToken, TokenPCs, PrefetchPCs
    <3>4. pc'[t] # "fetch" /\ pc[t] # "fetch"
      BY <3>1, <3>3
    <3> QED
      BY <3>4, UnseenStep DEF FetchAlike, OnlyMoves
  <2> QED
    BY <2>1, <2>2
<1> QED
  BY <1>1, <1>2, <1>3, <1>4, IsAlike DEF Matched, WaitersMatch

-----------------------------------------------------------------------------
LEMMA InitPromise == Init => Promise!Init
<1> SUFFICES ASSUME Init PROVE Promise!Init
  OBVIOUS
<1>1. \A d \in Cores : ~ InTokenWindow(d)
  BY DEF Init, InTokenWindow, TokenPCs, PrefetchPCs
<1>2. \A d \in Cores : \A pcs : "idle" \notin pcs => Active(d, pcs) = {}
  BY DEF Init, Active
<1>3. \A d \in Cores : phaseOf(d) = "rest"
  BY <1>1, <1>2 DEF phaseOf
<1>4. \A d \in Cores : leftOf(d) = 0
  BY <1>2 DEF leftOf, PrefetchPCs
<1>5. overtaken = {}
  BY <1>1 DEF overtaken
<1> QED
  BY <1>3, <1>4, <1>5 DEF Promise!Init, Init, ArbiterInit

(* Every step is a step of PremPromise or is not seen there. *)
LEMMA StepPromise ==
    ASSUME OrderedIPIs, OrderInv, OrderInv', [Next]_vars
    PROVE  [Promise!Next]_Promise!promiseVars
<1>0. Matched /\ Matched'
  BY MatchedBoth DEF OrderInv
<1>1. ASSUME NEW t \in Tasks, Job(t) PROVE [Promise!Next]_Promise!promiseVars
  BY <1>0, <1>1, RequestIsEnter, FetchIsFetch, RevokeIsCompute, AccountIsRest, UnseenIsStutter
     DEF Job, Unseen
<1>2. ASSUME NEW c \in Cores, Interrupt(c) PROVE [Promise!Next]_Promise!promiseVars
  BY <1>0, <1>2, UpdateIsOvertake, PauseIsTell, InterruptIsStutter DEF Interrupt
<1>3. CASE UNCHANGED vars
  <2>1. \A d \in Cores : SeenAlike(d) /\ FetchAlike(d)
    BY <1>3 DEF vars, coreVars, SeenAlike, FetchAlike, LeftAt
  <2> QED
    BY <1>0, <1>3, <2>1, IsAlike DEF vars, arbVars, Matched, WaitersMatch
<1> QED
  BY NextCases, <1>1, <1>2, <1>3 DEF Interrupt

(* The tasks, handlers and tick hooks of any number of cores implement        *)
(* PremPromise, if IPIs are taken in the order they are sent in: turns are    *)
(* taken, nobody fetches out of turn once stopped, nobody computes on lines   *)
(* it has not fetched, and the turn is not lost. *)
THEOREM PromiseIsKept ==
    ASSUME OrderedIPIs
    PROVE  Spec => PromiseKept
<1>1. Init => OrderInv
  BY OrderInductive
<1>2. OrderInv /\ [Next]_vars => OrderInv'
  BY OrderInductive
<1>3. OrderInv /\ OrderInv' /\ [Next]_vars => [Promise!Next]_Promise!promiseVars
  BY StepPromise
<1> QED
  BY <1>1, <1>2, <1>3, InitPromise, PTL DEF Spec, PromiseKept, Promise!Spec

-----------------------------------------------------------------------------
(* What PremPromise promises: TurnInv of it, from its own steps alone.       *)

(* TurnInv, and the steps, in the names used here.                           *)
TurnsKept ==
    /\ owner # NoCore => owner \in Cores /\ phases[owner] = "memory"
    /\ owner = NoCore => \A d \in Cores : phases[d] # "memory"
    /\ unaware \subseteq Cores /\ last \subseteq Cores
    /\ \A d \in unaware \cup last : phases[d] = "memory" /\ d # owner
    /\ unaware \cap last = {}
    /\ \A d \in Cores : phases[d] # "memory" => lefts[d] = 0

LEMMA TurnsAgree == TurnsKept <=> Promise!TurnInv
BY DEF TurnsKept, Promise!TurnInv, Promise!Fetchers, phases, lefts, unaware, last

LEMMA TurnsAgreeNext == TurnsKept' <=> Promise!TurnInv'
BY TurnsAgree, PTL

LEMMA TurnStep ==
    ASSUME Promise!TurnInv, [Promise!Next]_Promise!promiseVars
    PROVE  Promise!TurnInv'
<1>1. TurnsKept
  BY TurnsAgree
<1>2. CASE UNCHANGED Promise!promiseVars
  <2>1. UNCHANGED <<owner, phases, lefts, unaware, last>>
    BY <1>2 DEF Promise!promiseVars, phases, lefts, unaware, last
  <2> QED
    BY <1>1, <2>1, TurnsAgreeNext DEF TurnsKept
<1>3. ASSUME NEW c \in Cores, Promise!Enter(c) PROVE TurnsKept'
  <2>1. phases[c] = "rest"
    BY <1>3 DEF Promise!Enter, phases
  <2>2. phases' = [phases EXCEPT ![c] = "memory"]
    BY <1>3 DEF Promise!Enter, phases
  <2>3. \A d \in Cores \ {c} : lefts'[d] = lefts[d]
    BY <1>3 DEF Promise!Enter, lefts
  <2>5. \/ Turn(c)
        \/ owner # NoCore /\ UNCHANGED <<owner, unaware, last>>
    BY <1>3 DEF Promise!Enter, Promise!TurnTo, Turn, unaware, last
  <2>6. DOMAIN phases = Cores
    BY DEF phases
  <2>7. CASE Turn(c)
    BY <1>1, <2>1, <2>2, <2>3, <2>6, <2>7 DEF TurnsKept, Turn
  <2>8. CASE owner # NoCore /\ UNCHANGED <<owner, unaware, last>>
    BY <1>1, <2>1, <2>2, <2>3, <2>6, <2>8 DEF TurnsKept
  <2> QED
    BY <2>5, <2>7, <2>8
<1>4. ASSUME NEW c \in Cores, Promise!Overtake(c) PROVE TurnsKept'
  <2>1. phases[c] = "memory"
    BY <1>4 DEF Promise!Overtake, phases
  <2>2. UNCHANGED <<phases, lefts>>
    BY <1>4 DEF Promise!Overtake, phases, lefts
  <2>3. Turn(c)
    BY <1>4 DEF Promise!Overtake, Promise!TurnTo, Turn, unaware, last
  <2> QED
    BY <1>1, <2>1, <2>2, <2>3 DEF TurnsKept, Turn
<1>5. ASSUME NEW c \in Cores, Promise!Fetch(c) PROVE TurnsKept'
  <2>1. phases[c] = "memory"
    BY <1>5 DEF Promise!Fetch, phases
  <2>2. UNCHANGED <<owner, phases, unaware>>
    BY <1>5 DEF Promise!Fetch, phases, unaware
  <2>3. last' = last \ {c}
    BY <1>5 DEF Promise!Fetch, last
  <2>4. \A d \in Cores \ {c} : lefts'[d] = lefts[d]
    BY <1>5 DEF Promise!Fetch, lefts
  <2> QED
    BY <1>1, <2>1, <2>2, <2>3, <2>4 DEF TurnsKept
<1>6. ASSUME NEW c \in Cores, Promise!Tell(c) PROVE TurnsKept'
  <2>1. UNCHANGED <<owner, phases, lefts>>
    BY <1>6 DEF Promise!Tell, phases, lefts
  <2>2. c \in unaware /\ unaware' = unaware \ {c}
    BY <1>6 DEF Promise!Tell, unaware
  <2>3. last' \in {last, last \cup {c}}
    BY <1>6 DEF Promise!Tell, last
  <2> QED
    BY <1>1, <2>1, <2>2, <2>3 DEF TurnsKept
<1>7. ASSUME NEW c \in Cores, Promise!Compute(c) PROVE TurnsKept'
  <2>1. phases[c] = "memory" /\ phases' = [phases EXCEPT ![c] = "computation"]
    BY <1>7 DEF Promise!Compute, phases
  <2>2. lefts[c] = 0 /\ UNCHANGED lefts
    BY <1>7 DEF Promise!Compute, lefts
  <2>3. unaware' = unaware \ {c, owner'} /\ last' = last \ {c, owner'}
    BY <1>7 DEF Promise!Compute, unaware, last
  <2>4. IF owner # c THEN owner' = owner
        ELSE \/ owner' = NoCore /\ \A d \in Cores : phases'[d] # "memory"
             \/ owner' \in Cores /\ phases'[owner'] = "memory"
    BY <1>7 DEF Promise!Compute, Promise!Fetchers, phases
  <2>5. DOMAIN phases = Cores
    BY DEF phases
  <2> QED
    BY <1>1, <2>1, <2>2, <2>3, <2>4, <2>5 DEF TurnsKept
<1>8. ASSUME NEW c \in Cores, Promise!Rest(c) PROVE TurnsKept'
  <2>1. phases[c] = "computation" /\ phases' = [phases EXCEPT ![c] = "rest"]
    BY <1>8 DEF Promise!Rest, phases
  <2>2. UNCHANGED <<owner, lefts, unaware, last>>
    BY <1>8 DEF Promise!Rest, lefts, unaware, last
  <2>3. DOMAIN phases = Cores
    BY DEF phases
  <2> QED
    BY <1>1, <2>1, <2>2, <2>3 DEF TurnsKept
<1> QED
  BY <1>2, <1>3, <1>4, <1>5, <1>6, <1>7, <1>8, TurnsAgreeNext DEF Promise!Next

(* A specification that takes turns as PremPromise says never loses the turn, *)
(* gives it to cores in their memory phase only, and leaves no line behind.   *)
THEOREM TurnsAreKept == Promise!Spec => []Promise!TurnInv
<1>1. Promise!Init => Promise!TurnInv
  BY DEF Promise!Init, Promise!TurnInv, Promise!Fetchers
<1>2. Promise!TurnInv /\ [Promise!Next]_Promise!promiseVars => Promise!TurnInv'
  BY TurnStep
<1> QED
  BY <1>1, <1>2, PTL DEF Promise!Spec

(* PREM tasks inherit it. *)
THEOREM PremTakesTurns ==
    ASSUME OrderedIPIs PROVE Spec => []Promise!TurnInv
BY PromiseIsKept, TurnsAreKept, PTL DEF PromiseKept
=============================================================================
