--------------------------- MODULE PortInterrupts ---------------------------
(***************************************************************************)
(* The ARMv8 AArch64 port (src/arch/armv8/aarch64): critical sections, the *)
(* interrupt mask, interrupt entry and exit, and the context switch of one *)
(* core.  The kernel above is left open: any task may enter and leave its  *)
(* critical sections, yield or register for the FPU whenever it runs, and  *)
(* vTaskSwitchContext picks any task.                                      *)
(*                                                                         *)
(* Three interrupts stand for the three ranges of priorities: the tick     *)
(* (the lowest), a device whose handler calls FromISR functions (at or     *)
(* below configMAX_API_CALL_INTERRUPT_PRIORITY) and an IPI (above it, so   *)
(* the mask register never holds it back).  What runs with the I bit of    *)
(* the CPU set, from an instruction that sets it to the one that clears    *)
(* it, is one step.                                                        *)
(***************************************************************************)
EXTENDS Naturals, FiniteSets

CONSTANTS
    Tasks,        \* the FreeRTOS tasks of the core
    FpuTasks,     \* those that call vPortTaskUsesFPU before they use the FPU
    Main,         \* main(), until the scheduler is started
    MaxDepth      \* bound: critical sections a task nests

ASSUME MainAssumption  == Main \notin Tasks
ASSUME FpuAssumption   == FpuTasks \subseteq Tasks
ASSUME DepthAssumption == MaxDepth \in Nat

Threads  == Tasks \cup {Main}
Handlers == {"tick", "device", "ipi"}

(* Numerically low priorities are logically high ones (port.c:515-517): the   *)
(* lowest that can be used for the tick (arch/armv8/port.c:21), 0 for the     *)
(* IPIs, any in between for a device that calls FromISR functions. *)
Priority == [tick |-> 14, device |-> 11, ipi |-> 0]

portPRIORITY_UNIT == 16          \* 1 << portPRIORITY_SHIFT

(* The two values of the priority mask register. *)
ullMaxAPIPriorityMask == 9 * portPRIORITY_UNIT
portUNMASK_VALUE      == 255

pdFALSE == 0
pdTRUE  == 1

(* Slip: nested sections before the start unmask when the last one is left. *)
InitialNesting_Zero == 0

(* ullCriticalNesting before the scheduler is started. *)
InitialNesting == 9999

VARIABLES
    running,                   \* pxCurrentTCB, or Main
    ullCriticalNesting,
    ullPortInterruptNesting,
    ullPortYieldRequired,
    ullPortTaskHasFPUContext,
    ICCPMR,                    \* the mask register of the GIC
    taskPC,                    \* where a thread is in the port's functions
    isrPC,                     \* where a handler is ("off": not active)
    isrMask,                   \* what its uxPortSetInterruptMask returned
    context,                   \* the contexts on the tasks' stacks
    fpRegs,                    \* whose values Q0-Q31 hold
    \* History
    depth,                     \* the critical sections a thread is in
    fpUse                      \* what a task knows of its use of the FPU

vars == <<running, ullCriticalNesting, ullPortInterruptNesting,
          ullPortYieldRequired, ullPortTaskHasFPUContext, ICCPMR, taskPC, isrPC,
          isrMask, context, fpRegs, depth, fpUse>>

Contexts == [nesting : Nat, fpu : {pdFALSE, pdTRUE}, regs : Threads]

TypeOK ==
    /\ running \in Threads
    /\ ullCriticalNesting \in Nat
    /\ ullPortInterruptNesting \in Nat
    /\ ullPortYieldRequired \in {pdFALSE, pdTRUE}
    /\ ullPortTaskHasFPUContext \in {pdFALSE, pdTRUE}
    /\ ICCPMR \in {ullMaxAPIPriorityMask, portUNMASK_VALUE}
    /\ taskPC \in [Threads -> {"run", "enter", "exit"}]
    /\ isrPC \in [Handlers -> {"off", "entry", "body", "inapi", "leave", "exit"}]
    /\ isrMask \in [Handlers -> {pdFALSE, pdTRUE}]
    /\ context \in [Tasks -> Contexts]
    /\ fpRegs \in Threads
    /\ depth \in [Threads -> Nat]
    /\ fpUse \in [Tasks -> {"none", "registered", "live"}]

-----------------------------------------------------------------------------
(* pxPortInitialiseStack: no critical section, no FPU context. *)
InitialContext == [nesting |-> 0, fpu |-> pdFALSE, regs |-> Main]

Init ==
    /\ running = Main
    /\ ullCriticalNesting = InitialNesting
    /\ ullPortInterruptNesting = 0
    /\ ullPortYieldRequired = pdFALSE
    /\ ullPortTaskHasFPUContext = pdFALSE
    /\ ICCPMR = portUNMASK_VALUE
    /\ taskPC = [t \in Threads |-> "run"]
    /\ isrPC = [h \in Handlers |-> "off"]
    /\ isrMask = [h \in Handlers |-> pdFALSE]
    /\ context = [t \in Tasks |-> InitialContext]
    /\ fpRegs = Main
    /\ depth = [t \in Threads |-> IF t = Main THEN InitialNesting ELSE 0]
    /\ fpUse = [t \in Tasks |-> "none"]

(* The handler that has the core: the active one of the highest priority. *)
Active     == {h \in Handlers : isrPC[h] # "off"}
OnCore(h)  == h \in Active /\ \A g \in Active \ {h} : Priority[h] < Priority[g]
TaskOnCore == Active = {}

Thread(t, from, to) ==
    /\ running = t
    /\ TaskOnCore
    /\ taskPC[t] = from
    /\ taskPC' = [taskPC EXCEPT ![t] = to]

Handler(h, from, to) ==
    /\ OnCore(h)
    /\ isrPC[h] = from
    /\ isrPC' = [isrPC EXCEPT ![h] = to]

-----------------------------------------------------------------------------
(* Critical sections.  uxPortSetInterruptMask writes the mask register with   *)
(* the I bit set, and clears the bit after; then the nesting is counted.      *)
vPortEnterCritical_Mask(t) ==
    /\ Thread(t, "run", "enter")
    /\ depth[t] < MaxDepth + (IF t = Main THEN InitialNesting ELSE 0)
    /\ ICCPMR' = ullMaxAPIPriorityMask
    /\ UNCHANGED <<running, ullCriticalNesting, ullPortInterruptNesting,
                   ullPortYieldRequired, ullPortTaskHasFPUContext, isrPC,
                   isrMask, context, fpRegs, depth, fpUse>>

vPortEnterCritical_Count(t) ==
    /\ Thread(t, "enter", "run")
    /\ ullCriticalNesting' = ullCriticalNesting + 1
    /\ depth' = [depth EXCEPT ![t] = @ + 1]
    /\ UNCHANGED <<running, ullPortInterruptNesting, ullPortYieldRequired,
                   ullPortTaskHasFPUContext, ICCPMR, isrPC, isrMask, context,
                   fpRegs, fpUse>>

(* A thread leaves a section it is in. *)
vPortExitCritical_Count(t) ==
    /\ depth[t] > (IF t = Main THEN InitialNesting ELSE 0)
    /\ Thread(t, "run", IF ullCriticalNesting = 1 THEN "exit" ELSE "run")
    /\ ullCriticalNesting' =
           IF ullCriticalNesting > 0 THEN ullCriticalNesting - 1 ELSE 0
    /\ depth' = [depth EXCEPT ![t] = @ - 1]
    /\ UNCHANGED <<running, ullPortInterruptNesting, ullPortYieldRequired,
                   ullPortTaskHasFPUContext, ICCPMR, isrPC, isrMask, context,
                   fpRegs, fpUse>>

vPortExitCritical_Unmask(t) ==
    /\ Thread(t, "exit", "run")
    /\ ICCPMR' = portUNMASK_VALUE
    /\ UNCHANGED <<running, ullCriticalNesting, ullPortInterruptNesting,
                   ullPortYieldRequired, ullPortTaskHasFPUContext, isrPC,
                   isrMask, context, fpRegs, depth, fpUse>>

-----------------------------------------------------------------------------
(* The FPU: a task registers, and uses the registers from then on.            *)

vPortTaskUsesFPU(t) ==
    /\ t \in FpuTasks
    /\ fpUse[t] = "none"
    /\ Thread(t, "run", "run")
    /\ ullPortTaskHasFPUContext' = pdTRUE
    /\ fpUse' = [fpUse EXCEPT ![t] = "registered"]
    /\ UNCHANGED <<running, ullCriticalNesting, ullPortInterruptNesting,
                   ullPortYieldRequired, ICCPMR, isrPC, isrMask, context,
                   fpRegs, depth>>

UseFPU(t) ==
    /\ t \in FpuTasks
    /\ fpUse[t] # "none"
    /\ Thread(t, "run", "run")
    /\ fpRegs' = t
    /\ fpUse' = [fpUse EXCEPT ![t] = "live"]
    /\ UNCHANGED <<running, ullCriticalNesting, ullPortInterruptNesting,
                   ullPortYieldRequired, ullPortTaskHasFPUContext, ICCPMR,
                   isrPC, isrMask, context, depth>>

-----------------------------------------------------------------------------
(* Context switches, with the I bit set.                                     *)

(* Slip: the Q registers are not saved. *)
portSAVE_CONTEXT_NoFPU(t) ==
    context' = [context EXCEPT ![t] =
        [nesting |-> ullCriticalNesting,
         fpu     |-> ullPortTaskHasFPUContext,
         regs    |-> @.regs]]

portSAVE_CONTEXT(t) ==
    context' = [context EXCEPT ![t] =
        [nesting |-> ullCriticalNesting,
         fpu     |-> ullPortTaskHasFPUContext,
         regs    |-> IF ullPortTaskHasFPUContext # 0 THEN fpRegs ELSE @.regs]]

(* Slip: every task starts again with interrupts unmasked. *)
portRESTORE_CONTEXT_Unmask(c) ==
    /\ ICCPMR' = portUNMASK_VALUE
    /\ ullCriticalNesting' = c.nesting
    /\ ullPortTaskHasFPUContext' = c.fpu
    /\ fpRegs' = IF c.fpu # 0 THEN c.regs ELSE fpRegs

(* The mask is set to what the nesting of the task calls for. *)
portRESTORE_CONTEXT(c) ==
    /\ ICCPMR' = IF c.nesting = 0 THEN portUNMASK_VALUE
                                ELSE ullMaxAPIPriorityMask
    /\ ullCriticalNesting' = c.nesting
    /\ ullPortTaskHasFPUContext' = c.fpu
    /\ fpRegs' = IF c.fpu # 0 THEN c.regs ELSE fpRegs

(* Save, vTaskSwitchContext, restore: the task that is picked may be the one  *)
(* that was running. *)
SwitchContext ==
    \E u \in Tasks :
        /\ portSAVE_CONTEXT(running)
        /\ running' = u
        /\ portRESTORE_CONTEXT(context'[u])

NoSwitch ==
    UNCHANGED <<running, ullCriticalNesting, ullPortTaskHasFPUContext, ICCPMR,
                context, fpRegs>>

(* The tick is set up and the first task restored, with interrupts off. *)
xPortStartScheduler ==
    /\ Thread(Main, "run", "run")
    /\ \E u \in Tasks : /\ running' = u
                        /\ portRESTORE_CONTEXT(context[u])
    /\ UNCHANGED <<ullPortInterruptNesting, ullPortYieldRequired, isrPC, isrMask,
                   context, depth, fpUse>>

(* portYIELD: a task may yield inside a critical section. *)
FreeRTOS_SWI_Handler(t) ==
    /\ t \in Tasks
    /\ Thread(t, "run", "run")
    /\ SwitchContext
    /\ UNCHANGED <<ullPortInterruptNesting, ullPortYieldRequired, isrPC, isrMask,
                   depth, fpUse>>

-----------------------------------------------------------------------------
(* Interrupts.  One is signalled when the mask and the priorities of the      *)
(* active handlers let it through, and its handler has not set the I bit: it  *)
(* is set from the entry until a handler masks.  The timer is started with    *)
(* the scheduler, devices after it; the IPIs are enabled before.              *)

Signalled(h) ==
    /\ Priority[h] * portPRIORITY_UNIT < ICCPMR
    /\ \A g \in Active : Priority[h] < Priority[g] /\ isrPC[g] # "entry"
    /\ h # "ipi" => running # Main

FreeRTOS_IRQ_Handler_Entry(h) ==
    /\ Signalled(h)
    /\ isrPC' = [isrPC EXCEPT ![h] = "entry"]
    /\ ullPortInterruptNesting' = ullPortInterruptNesting + 1
    /\ UNCHANGED <<running, ullCriticalNesting, ullPortYieldRequired,
                   ullPortTaskHasFPUContext, ICCPMR, taskPC, isrMask, context,
                   fpRegs, depth, fpUse>>

FreeRTOS_IRQ_Handler_Exit(h) ==
    /\ Handler(h, "exit", "off")
    /\ ullPortInterruptNesting' = ullPortInterruptNesting - 1
    /\ IF ullPortInterruptNesting = 1 /\ ullPortYieldRequired # 0
       THEN ullPortYieldRequired' = pdFALSE /\ SwitchContext
       ELSE UNCHANGED ullPortYieldRequired /\ NoSwitch
    /\ UNCHANGED <<taskPC, isrMask, depth, fpUse>>

isrUnchanged ==
    UNCHANGED <<running, ullCriticalNesting, ullPortInterruptNesting,
                ullPortTaskHasFPUContext, taskPC, context, fpRegs, depth, fpUse>>

(* Slip: the request comes from a handler above the API priority. *)
IpiHandler_Yields ==
    /\ Handler("ipi", "entry", "exit")
    /\ ullPortYieldRequired' = pdTRUE
    /\ UNCHANGED <<ICCPMR, isrMask>>
    /\ isrUnchanged

(* The handlers of prem_task.c write globals of their own only. *)
IpiHandler ==
    /\ Handler("ipi", "entry", "exit")
    /\ UNCHANGED <<ullPortYieldRequired, ICCPMR, isrMask>>
    /\ isrUnchanged

(* FreeRTOS_Tick_Handler: mask, let nested interrupts in, increment the tick  *)
(* (the hook of which may call FromISR functions), unmask.                    *)
TickHandler_Mask ==
    /\ Handler("tick", "entry", "body")
    /\ ICCPMR' = ullMaxAPIPriorityMask
    /\ UNCHANGED <<ullPortYieldRequired, isrMask>>
    /\ isrUnchanged

TickHandler_Increment ==
    /\ Handler("tick", "body", "leave")
    /\ ullPortYieldRequired' \in {ullPortYieldRequired, pdTRUE}
    /\ UNCHANGED <<ICCPMR, isrMask>>
    /\ isrUnchanged

TickHandler_Unmask ==
    /\ Handler("tick", "leave", "exit")
    /\ ICCPMR' = portUNMASK_VALUE
    /\ UNCHANGED <<ullPortYieldRequired, isrMask>>
    /\ isrUnchanged

(* FromISR functions: each masks, keeps what the mask was, and puts it back.  *)
(* A device's handler calls at least one, and may ask for a switch.           *)
uxPortSetInterruptMask(h, from) ==
    /\ <<h, from>> \in {<<"tick", "body">>, <<"device", "entry">>,
                        <<"device", "body">>}
    /\ Handler(h, from, "inapi")
    /\ isrMask' = [isrMask EXCEPT ![h] =
                      IF ICCPMR = ullMaxAPIPriorityMask THEN pdTRUE ELSE pdFALSE]
    /\ ICCPMR' = ullMaxAPIPriorityMask
    /\ UNCHANGED ullPortYieldRequired
    /\ isrUnchanged

DeviceHandler_Return ==
    /\ Handler("device", "body", "exit")
    /\ ullPortYieldRequired' \in {ullPortYieldRequired, pdTRUE}
    /\ UNCHANGED <<ICCPMR, isrMask>>
    /\ isrUnchanged

(* Slip: what the mask was is ignored. *)
vPortClearInterruptMask_Always(h) ==
    /\ Handler(h, "inapi", "body")
    /\ ICCPMR' = portUNMASK_VALUE
    /\ UNCHANGED <<ullPortYieldRequired, isrMask>>
    /\ isrUnchanged

vPortClearInterruptMask(h) ==
    /\ Handler(h, "inapi", "body")
    /\ ICCPMR' = IF isrMask[h] = pdFALSE THEN portUNMASK_VALUE ELSE ICCPMR
    /\ UNCHANGED <<ullPortYieldRequired, isrMask>>
    /\ isrUnchanged

-----------------------------------------------------------------------------
ThreadStep(t) ==
    \/ vPortEnterCritical_Mask(t)
    \/ vPortEnterCritical_Count(t)
    \/ vPortExitCritical_Count(t)
    \/ vPortExitCritical_Unmask(t)
    \/ vPortTaskUsesFPU(t)
    \/ UseFPU(t)
    \/ FreeRTOS_SWI_Handler(t)

HandlerStep(h) ==
    \/ FreeRTOS_IRQ_Handler_Entry(h)
    \/ FreeRTOS_IRQ_Handler_Exit(h)
    \/ \E from \in {"entry", "body"} : uxPortSetInterruptMask(h, from)
    \/ vPortClearInterruptMask(h)

Next ==
    \/ \E t \in Threads : ThreadStep(t)
    \/ \E h \in Handlers : HandlerStep(h)
    \/ xPortStartScheduler
    \/ IpiHandler
    \/ TickHandler_Mask
    \/ TickHandler_Increment
    \/ TickHandler_Unmask
    \/ DeviceHandler_Return

Spec == Init /\ [][Next]_vars
-----------------------------------------------------------------------------
(* The critical sections a thread is in, counted from the scheduler's start. *)
Base(t)  == IF t = Main THEN InitialNesting ELSE 0
Inside(t) == depth[t] > Base(t)

Masked    == ICCPMR = ullMaxAPIPriorityMask
InSection == ullCriticalNesting > 0 \/ taskPC[running] # "run"

(* Who is in the kernel's data: the thread inside a critical section, the    *)
(* tick handler from its mask to its unmask, a FromISR function of a handler *)
(* that is not the tick's.                                                   *)
KernelUsers ==
    {t \in {running} : Inside(t)}
        \cup {h \in {"tick"}   : isrPC[h] \in {"body", "inapi", "leave"}}
        \cup {h \in {"device"} : isrPC[h] = "inapi"}

(* Critical sections, the tick and the FromISR functions of interrupts keep   *)
(* each other out of the kernel's data (the comments of vPortEnterCritical    *)
(* and FreeRTOS_Tick_Handler), whatever is nested, yielded or switched.       *)
KernelDataExclusive == \A x, y \in KernelUsers : x = y

(* A running task has the interrupts masked exactly while it is in a critical *)
(* section, or on its way in or out: also when it was switched out inside one *)
(* and comes back, and when the one before it was.                            *)
MaskMatchesNesting ==
    TaskOnCore /\ running \in Tasks =>
        (Masked <=> InSection)

(* Every thread finds its own count of critical sections again: the global    *)
(* counter is the running one's, the others' are in their contexts.           *)
NestingIsOwn ==
    /\ ullCriticalNesting = depth[running]
    /\ \A t \in Tasks \ {running} : context[t].nesting = depth[t]

(* A task that registered for the FPU finds its registers as it left them,    *)
(* whoever used the FPU in the meantime (vPortTaskUsesFPU).                   *)
FpuIntact ==
    running \in Tasks /\ fpUse[running] = "live" => fpRegs = running

(* A switch that a handler asked for is made before any task goes on: the     *)
(* request never outlives the handlers.                                       *)
NoYieldLeft == TaskOnCore => ullPortYieldRequired = pdFALSE

(* A task that is inside a critical section, or entering or leaving one, is   *)
(* never switched out by an interrupt: it can only yield itself.              *)
PreemptedOutsideSections ==
    [][isrPC' # isrPC /\ running' # running
          => ~Inside(running) /\ taskPC[running] = "run"]_vars

(* Before the scheduler is started, what a critical section has masked stays  *)
(* masked (port.c:153-157, the reason for the 9999).                          *)
BootStaysMasked ==
    [][running = Main /\ running' = Main /\ Masked => Masked']_vars

-----------------------------------------------------------------------------
(* What these rest on (PortInterrupts_proofs).                               *)

(* ullPortInterruptNesting counts the active handlers, so that the assertion  *)
(* of vPortEnterCritical holds in every task. *)
NestingCountsHandlers == ullPortInterruptNesting = Cardinality(Active)

(* A request for a switch comes from the tick or from a device. *)
YieldFromKernelHandler ==
    ullPortYieldRequired # 0 => isrPC["tick"] # "off" \/ isrPC["device"] # "off"

(* The mask, by who put it up: a handler runs over a masked thread only if it *)
(* is the IPI. *)
MaskOwners ==
    /\ isrPC["tick"] \in {"body", "inapi", "leave"} \/ isrPC["device"] = "inapi" => Masked
    /\ isrPC["device"] \in {"entry", "body", "exit"} => ~Masked
    /\ isrPC["tick"] \in {"entry", "exit"} /\ isrPC["device"] = "off" => ~Masked
    /\ isrPC["device"] # "off" => isrPC["tick"] \in {"off", "exit"}
    /\ isrPC["device"] = "inapi" => isrMask["device"] = pdFALSE
    /\ isrPC["tick"] = "inapi" => isrMask["tick"] = pdTRUE
    /\ isrPC["ipi"] \in {"off", "entry", "exit"}
    /\ isrPC["device"] # "leave"

(* The thread below the handlers. *)
MaskOfThread ==
    running \in Tasks =>
        /\ IF isrPC["tick"] = "off" /\ isrPC["device"] = "off"
           THEN Masked <=> InSection
           ELSE ~InSection
        /\ taskPC[running] = "exit" => ullCriticalNesting = 0

MaskOfMain ==
    running = Main =>
        /\ isrPC["tick"] = "off"
        /\ isrPC["device"] = "off"
        /\ Inside(Main) \/ taskPC[Main] # "run" => Masked
        /\ taskPC[Main] # "exit"

SwitchedOut(t) ==
    /\ taskPC[t] = "run"
    /\ context[t].fpu # 0 <=> fpUse[t] # "none"
    /\ fpUse[t] = "live" => context[t].regs = t

FpuContexts ==
    /\ \A t \in Tasks \ {running} : SwitchedOut(t)
    /\ running \in Tasks => (ullPortTaskHasFPUContext # 0 <=> fpUse[running] # "none")
    /\ running = Main => ullPortTaskHasFPUContext = pdFALSE

PortInv ==
    /\ TypeOK
    /\ NestingIsOwn
    /\ depth[Main] >= InitialNesting
    /\ NestingCountsHandlers
    /\ MaskOwners
    /\ MaskOfThread
    /\ MaskOfMain
    /\ FpuContexts
    /\ FpuIntact
    /\ YieldFromKernelHandler
=============================================================================
