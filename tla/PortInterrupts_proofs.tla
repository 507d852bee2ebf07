------------------------ MODULE PortInterrupts_proofs ------------------------
(***************************************************************************)
(* PortInv is an invariant of PortInterrupts for every set of tasks and    *)
(* every depth, and the safety properties of the port follow from it.      *)
(***************************************************************************)
EXTENDS PortInterrupts, FiniteSetTheorems, TLAPS

USE DEF Threads, Handlers, InitialNesting, pdTRUE, pdFALSE, portUNMASK_VALUE,
        ullMaxAPIPriorityMask, portPRIORITY_UNIT

(* The handlers are finitely many. *)
LEMMA HandlersFinite == IsFiniteSet(Handlers) /\ IsFiniteSet(Active)
<1>1. IsFiniteSet({"tick"}) /\ IsFiniteSet({"device"}) /\ IsFiniteSet({"ipi"})
  BY FS_Singleton
<1>2. IsFiniteSet({"tick"} \cup {"device"})
  BY <1>1, FS_Union
<1>3. IsFiniteSet(({"tick"} \cup {"device"}) \cup {"ipi"})
  BY <1>1, <1>2, FS_Union
<1>4. Handlers = ({"tick"} \cup {"device"}) \cup {"ipi"}
  OBVIOUS
<1>5. Active \subseteq Handlers
  BY DEF Active
<1> QED
  BY <1>3, <1>4, <1>5, FS_Subset

LEMMA InitInv == Init => PortInv
<1> SUFFICES ASSUME Init PROVE PortInv
  OBVIOUS
<1>1. Active = {}
  BY DEF Init, Active
<1>2. Cardinality(Active) = 0
  BY <1>1, FS_EmptySet
<1> QED
  BY <1>2, MainAssumption
     DEF Init, PortInv, TypeOK, NestingIsOwn, NestingCountsHandlers, MaskOwners,
         MaskOfThread, MaskOfMain, FpuContexts, SwitchedOut, FpuIntact,
         YieldFromKernelHandler, Masked, InSection, InitialContext, Contexts, Inside, Base

-----------------------------------------------------------------------------
(* Steps of a thread.  They leave the handlers alone, and no handler is active. *)

LEMMA NoHandler == TaskOnCore => \A h \in Handlers : isrPC[h] = "off"
BY DEF TaskOnCore, Active

(* What every step that leaves isrPC alone keeps. *)
LEMMA SameHandlers ==
    NestingCountsHandlers /\ UNCHANGED <<isrPC, ullPortInterruptNesting>>
        => NestingCountsHandlers'
BY DEF NestingCountsHandlers, Active

LEMMA CriticalStep ==
    ASSUME PortInv, NEW t \in Threads,
           \/ vPortEnterCritical_Mask(t)
           \/ vPortEnterCritical_Count(t)
           \/ vPortExitCritical_Count(t)
           \/ vPortExitCritical_Unmask(t)
    PROVE  PortInv'
<1> USE MainAssumption DEF PortInv, Thread
<1>1. CASE vPortEnterCritical_Mask(t)
  BY <1>1, NoHandler, SameHandlers
     DEF vPortEnterCritical_Mask, TypeOK, NestingIsOwn, MaskOwners, MaskOfThread,
         MaskOfMain, FpuContexts, SwitchedOut, FpuIntact, YieldFromKernelHandler,
         Masked, InSection, Inside, Base
<1>2. CASE vPortEnterCritical_Count(t)
  BY <1>2, NoHandler, SameHandlers
     DEF vPortEnterCritical_Count, TypeOK, NestingIsOwn, MaskOwners, MaskOfThread,
         MaskOfMain, FpuContexts, SwitchedOut, FpuIntact, YieldFromKernelHandler,
         Masked, InSection, Inside, Base
<1>3. CASE vPortExitCritical_Count(t)
  BY <1>3, NoHandler, SameHandlers
     DEF vPortExitCritical_Count, TypeOK, NestingIsOwn, MaskOwners, MaskOfThread,
         MaskOfMain, FpuContexts, SwitchedOut, FpuIntact, YieldFromKernelHandler,
         Masked, InSection, Inside, Base
<1>4. CASE vPortExitCritical_Unmask(t)
  BY <1>4, NoHandler, SameHandlers
     DEF vPortExitCritical_Unmask, TypeOK, NestingIsOwn, MaskOwners, MaskOfThread,
         MaskOfMain, FpuContexts, SwitchedOut, FpuIntact, YieldFromKernelHandler,
         Masked, InSection, Inside, Base
<1> QED
  BY <1>1, <1>2, <1>3, <1>4

LEMMA FpuStep ==
    ASSUME PortInv, NEW t \in Threads, vPortTaskUsesFPU(t) \/ UseFPU(t)
    PROVE  PortInv'
<1> USE MainAssumption, FpuAssumption DEF PortInv, Thread
<1>1. CASE vPortTaskUsesFPU(t)
  BY <1>1, NoHandler, SameHandlers
     DEF vPortTaskUsesFPU, TypeOK, NestingIsOwn, MaskOwners, MaskOfThread,
         MaskOfMain, FpuContexts, SwitchedOut, FpuIntact, YieldFromKernelHandler,
         Masked, InSection, Inside, Base
<1>2. CASE UseFPU(t)
  BY <1>2, NoHandler, SameHandlers
     DEF UseFPU, TypeOK, NestingIsOwn, MaskOwners, MaskOfThread,
         MaskOfMain, FpuContexts, SwitchedOut, FpuIntact, YieldFromKernelHandler,
         Masked, InSection, Inside, Base
<1> QED
  BY <1>1, <1>2

-----------------------------------------------------------------------------
(* Switches: the task picked finds its own nesting, mask and registers.      *)

LEMMA SavedContext ==
    ASSUME TypeOK, running \in Tasks, portSAVE_CONTEXT(running)
    PROVE  /\ context' \in [Tasks -> Contexts]
           /\ context'[running].nesting = ullCriticalNesting
           /\ context'[running].fpu = ullPortTaskHasFPUContext
           /\ ullPortTaskHasFPUContext # 0 => context'[running].regs = fpRegs
           /\ \A t \in Tasks \ {running} : context'[t] = context[t]
BY DEF TypeOK, Contexts, portSAVE_CONTEXT

LEMMA Switch ==
    ASSUME PortInv, running \in Tasks, taskPC[running] = "run",
           SwitchContext, UNCHANGED <<taskPC, depth, fpUse>>
    PROVE  /\ running' \in Tasks
           /\ ullCriticalNesting' \in Nat
           /\ ullPortTaskHasFPUContext' \in {pdFALSE, pdTRUE}
           /\ ICCPMR' \in {ullMaxAPIPriorityMask, portUNMASK_VALUE}
           /\ context' \in [Tasks -> Contexts]
           /\ fpRegs' \in Threads
           /\ taskPC[running'] = "run"
           /\ Masked' <=> ullCriticalNesting' > 0
           /\ NestingIsOwn'
           /\ FpuContexts'
           /\ FpuIntact'
<1> USE MainAssumption DEF PortInv, TypeOK
<1>1. PICK u \in Tasks : /\ portSAVE_CONTEXT(running)
                         /\ running' = u
                         /\ portRESTORE_CONTEXT(context'[u])
  BY DEF SwitchContext
<1>2. /\ context' \in [Tasks -> Contexts]
      /\ context'[running].nesting = ullCriticalNesting
      /\ context'[running].fpu = ullPortTaskHasFPUContext
      /\ ullPortTaskHasFPUContext # 0 => context'[running].regs = fpRegs
      /\ \A t \in Tasks \ {running} : context'[t] = context[t]
  BY <1>1, SavedContext
<1>3. \A t \in Tasks : /\ context'[t].nesting = depth[t]
                       /\ taskPC[t] = "run"
                       /\ context'[t].fpu # 0 <=> fpUse[t] # "none"
                       /\ fpUse[t] = "live" => context'[t].regs = t
  BY <1>2 DEF NestingIsOwn, FpuContexts, SwitchedOut, FpuIntact
<1>4. context'[u] \in Contexts
  BY <1>2
<1>5. /\ ullCriticalNesting' = context'[u].nesting
      /\ ullPortTaskHasFPUContext' = context'[u].fpu
      /\ ICCPMR' = IF context'[u].nesting = 0 THEN portUNMASK_VALUE
                                              ELSE ullMaxAPIPriorityMask
      /\ fpRegs' = IF context'[u].fpu # 0 THEN context'[u].regs ELSE fpRegs
  BY <1>1 DEF portRESTORE_CONTEXT
<1>6. /\ ullCriticalNesting' \in Nat
      /\ ullPortTaskHasFPUContext' \in {pdFALSE, pdTRUE}
      /\ fpRegs' \in Threads
      /\ ICCPMR' \in {ullMaxAPIPriorityMask, portUNMASK_VALUE}
      /\ Masked' <=> ullCriticalNesting' > 0
  BY <1>4, <1>5 DEF Contexts, Masked
<1>7. NestingIsOwn'
  BY <1>1, <1>3, <1>5 DEF NestingIsOwn
<1>8. FpuContexts' /\ FpuIntact'
  BY <1>1, <1>3, <1>5 DEF FpuContexts, SwitchedOut, FpuIntact
<1> QED
  BY <1>1, <1>2, <1>3, <1>6, <1>7, <1>8

LEMMA YieldStep ==
    ASSUME PortInv, NEW t \in Tasks, FreeRTOS_SWI_Handler(t)
    PROVE  PortInv'
<1> USE MainAssumption DEF PortInv, FreeRTOS_SWI_Handler, Thread
<1>1. taskPC' = taskPC
  BY DEF TypeOK
<1>2. UNCHANGED <<taskPC, depth, fpUse>> /\ running = t /\ taskPC[running] = "run"
  BY <1>1
<1>3. /\ running' \in Tasks
      /\ ullCriticalNesting' \in Nat
      /\ ullPortTaskHasFPUContext' \in {pdFALSE, pdTRUE}
      /\ ICCPMR' \in {ullMaxAPIPriorityMask, portUNMASK_VALUE}
      /\ context' \in [Tasks -> Contexts]
      /\ fpRegs' \in Threads
      /\ taskPC[running'] = "run"
      /\ Masked' <=> ullCriticalNesting' > 0
      /\ NestingIsOwn'
      /\ FpuContexts'
      /\ FpuIntact'
  BY <1>2, Switch
<1>4. \A h \in Handlers : isrPC'[h] = "off"
  BY NoHandler
<1>5. TypeOK' /\ NestingCountsHandlers' /\ (depth[Main] >= InitialNesting)'
  BY <1>2, <1>3, SameHandlers DEF TypeOK
<1>6. MaskOwners' /\ MaskOfThread' /\ MaskOfMain' /\ YieldFromKernelHandler'
  BY <1>2, <1>3, <1>4 DEF MaskOwners, MaskOfThread, MaskOfMain, InSection,
     YieldFromKernelHandler
<1> QED
  BY <1>3, <1>5, <1>6

LEMMA StartStep == PortInv /\ xPortStartScheduler => PortInv'
<1> SUFFICES ASSUME PortInv, xPortStartScheduler PROVE PortInv'
  OBVIOUS
<1> USE MainAssumption DEF PortInv, xPortStartScheduler, Thread
<1>1. UNCHANGED <<taskPC, depth, fpUse, context>> /\ running = Main
  BY DEF TypeOK
<1>2. PICK u \in Tasks : running' = u /\ portRESTORE_CONTEXT(context[u])
  OBVIOUS
<1>3. /\ context[u] \in Contexts
      /\ context[u].nesting = depth[u]
      /\ SwitchedOut(u)
  BY <1>1, <1>2 DEF TypeOK, NestingIsOwn, FpuContexts
<1>4. /\ ullCriticalNesting' = depth[u]
      /\ ullPortTaskHasFPUContext' = context[u].fpu
      /\ ICCPMR' = IF depth[u] = 0 THEN portUNMASK_VALUE ELSE ullMaxAPIPriorityMask
      /\ fpRegs' = IF context[u].fpu # 0 THEN context[u].regs ELSE fpRegs
  BY <1>2, <1>3 DEF portRESTORE_CONTEXT
<1>5. \A h \in Handlers : isrPC'[h] = "off"
  BY NoHandler
<1>6. TypeOK'
  BY <1>1, <1>2, <1>3, <1>4 DEF TypeOK, Contexts
<1>7. NestingCountsHandlers' /\ (depth[Main] >= InitialNesting)'
  BY <1>1, SameHandlers
<1>8. NestingIsOwn' /\ FpuContexts' /\ FpuIntact'
  BY <1>1, <1>2, <1>3, <1>4
     DEF NestingIsOwn, FpuContexts, SwitchedOut, FpuIntact
<1>9. MaskOwners' /\ MaskOfThread' /\ MaskOfMain' /\ YieldFromKernelHandler'
  BY <1>1, <1>2, <1>3, <1>4, <1>5
     DEF MaskOwners, MaskOfThread, MaskOfMain, InSection, Masked,
         YieldFromKernelHandler, SwitchedOut, TypeOK
<1> QED
  BY <1>6, <1>7, <1>8, <1>9

-----------------------------------------------------------------------------
(* Steps of a handler.                                                       *)

(* A handler that stays active is counted as before. *)
LEMMA StillActive ==
    ASSUME PortInv, NEW h \in Handlers, isrPC[h] # "off",
           NEW pc \in {"entry", "body", "inapi", "leave", "exit"},
           isrPC' = [isrPC EXCEPT ![h] = pc], UNCHANGED ullPortInterruptNesting
    PROVE  NestingCountsHandlers'
<1>1. Active' = Active
  BY DEF Active, PortInv, TypeOK
<1> QED
  BY <1>1 DEF NestingCountsHandlers, PortInv

LEMMA EntryStep ==
    ASSUME PortInv, NEW h \in Handlers, FreeRTOS_IRQ_Handler_Entry(h)
    PROVE  PortInv'
<1> USE MainAssumption DEF PortInv, FreeRTOS_IRQ_Handler_Entry
<1>1. h \notin Active
  BY DEF Signalled, Active, Priority
<1>2. Active' = Active \cup {h}
  BY DEF Active, TypeOK
<1>3. Cardinality(Active \cup {h}) = Cardinality(Active) + 1
  <2> HIDE DEF PortInv, FreeRTOS_IRQ_Handler_Entry
  <2> QED
    BY <1>1, HandlersFinite, FS_AddElement
<1>4. NestingCountsHandlers'
  BY <1>2, <1>3 DEF NestingCountsHandlers
<1>5. TypeOK' /\ NestingIsOwn' /\ (depth[Main] >= InitialNesting)'
  BY DEF TypeOK, NestingIsOwn
<1>6. FpuContexts' /\ FpuIntact' /\ YieldFromKernelHandler'
  BY DEF FpuContexts, SwitchedOut, FpuIntact, YieldFromKernelHandler, TypeOK
<1>7. MaskOwners' /\ MaskOfThread' /\ MaskOfMain'
  BY DEF TypeOK, Signalled, Priority, Active, MaskOwners, MaskOfThread,
         MaskOfMain, Masked, InSection, Inside, Base
<1> QED
  BY <1>4, <1>5, <1>6, <1>7

LEMMA BodyStep ==
    ASSUME PortInv,
           \/ IpiHandler
           \/ TickHandler_Mask
           \/ TickHandler_Increment
           \/ TickHandler_Unmask
           \/ DeviceHandler_Return
           \/ \E h \in Handlers : vPortClearInterruptMask(h)
           \/ \E h \in Handlers, from \in {"entry", "body"} :
                 uxPortSetInterruptMask(h, from)
    PROVE  PortInv'
<1> USE MainAssumption DEF PortInv, Handler, OnCore, Active, isrUnchanged
<1>1. /\ NestingIsOwn' /\ (depth[Main] >= InitialNesting)'
      /\ FpuContexts' /\ FpuIntact'
  BY DEF IpiHandler, TickHandler_Mask, TickHandler_Increment, TickHandler_Unmask,
         DeviceHandler_Return, vPortClearInterruptMask, uxPortSetInterruptMask,
         NestingIsOwn, FpuContexts, SwitchedOut, FpuIntact
<1>2. CASE IpiHandler
  BY <1>1, <1>2, StillActive
     DEF IpiHandler, TypeOK, MaskOwners, MaskOfThread, MaskOfMain, Masked,
         InSection, Inside, Base, YieldFromKernelHandler
<1>3. CASE TickHandler_Mask
  BY <1>1, <1>3, StillActive
     DEF TickHandler_Mask, TypeOK, MaskOwners, MaskOfThread, MaskOfMain, Masked,
         InSection, Inside, Base, YieldFromKernelHandler, Priority
<1>4. CASE TickHandler_Increment
  BY <1>1, <1>4, StillActive
     DEF TickHandler_Increment, TypeOK, MaskOwners, MaskOfThread, MaskOfMain,
         Masked, InSection, Inside, Base, YieldFromKernelHandler
<1>5. CASE TickHandler_Unmask
  BY <1>1, <1>5, StillActive
     DEF TickHandler_Unmask, TypeOK, MaskOwners, MaskOfThread, MaskOfMain, Masked,
         InSection, Inside, Base, YieldFromKernelHandler
<1>6. CASE DeviceHandler_Return
  BY <1>1, <1>6, StillActive
     DEF DeviceHandler_Return, TypeOK, MaskOwners, MaskOfThread, MaskOfMain,
         Masked, InSection, Inside, Base, YieldFromKernelHandler
<1>7. ASSUME NEW h \in Handlers, vPortClearInterruptMask(h)
      PROVE  PortInv'
  <2>1. h \in {"tick", "device"}
    BY <1>7 DEF vPortClearInterruptMask, MaskOwners
  <2>2. CASE h = "tick"
    BY <1>1, <1>7, <2>2, StillActive
       DEF vPortClearInterruptMask, TypeOK, MaskOwners, MaskOfThread, MaskOfMain,
           Masked, InSection, Inside, Base, YieldFromKernelHandler
  <2>3. CASE h = "device"
    BY <1>1, <1>7, <2>3, StillActive
       DEF vPortClearInterruptMask, TypeOK, MaskOwners, MaskOfThread, MaskOfMain,
           Masked, InSection, Inside, Base, YieldFromKernelHandler
  <2> QED
    BY <2>1, <2>2, <2>3
<1>8. ASSUME NEW h \in Handlers, NEW from \in {"entry", "body"},
             uxPortSetInterruptMask(h, from)
      PROVE  PortInv'
  <2>1. CASE h = "tick"
    BY <1>1, <1>8, <2>1, StillActive
       DEF uxPortSetInterruptMask, TypeOK, MaskOwners, MaskOfThread, MaskOfMain,
           Masked, InSection, Inside, Base, YieldFromKernelHandler
  <2>2. CASE h = "device"
    BY <1>1, <1>8, <2>2, StillActive
       DEF uxPortSetInterruptMask, TypeOK, MaskOwners, MaskOfThread, MaskOfMain,
           Masked, InSection, Inside, Base, YieldFromKernelHandler
  <2> QED
    BY <1>8, <2>1, <2>2 DEF uxPortSetInterruptMask
<1> QED
  BY <1>2, <1>3, <1>4, <1>5, <1>6, <1>7, <1>8

LEMMA ExitStep ==
    ASSUME PortInv, NEW h \in Handlers, FreeRTOS_IRQ_Handler_Exit(h)
    PROVE  PortInv'
<1> USE MainAssumption DEF PortInv, FreeRTOS_IRQ_Handler_Exit, Handler
<1>1. h \in Active /\ Active' = Active \ {h}
  BY DEF Active, OnCore, TypeOK
<1>2. /\ Cardinality(Active \ {h}) = Cardinality(Active) - 1
      /\ Cardinality(Active) \in Nat
      /\ Cardinality(Active \ {h}) \in Nat
  <2> HIDE DEF PortInv, FreeRTOS_IRQ_Handler_Exit
  <2>1. IsFiniteSet(Active \ {h})
    BY HandlersFinite, FS_RemoveElement
  <2> QED
    BY <1>1, <2>1, HandlersFinite, FS_RemoveElement, FS_CardinalityType
<1>3. /\ ullPortInterruptNesting' \in Nat
      /\ NestingCountsHandlers'
  BY <1>1, <1>2 DEF NestingCountsHandlers
<1>4. UNCHANGED <<taskPC, isrMask, depth, fpUse>>
  OBVIOUS
<1>5. CASE ullPortInterruptNesting = 1 /\ ullPortYieldRequired # 0
  <2>1. Cardinality(Active \ {h}) = 0
    BY <1>2, <1>5 DEF NestingCountsHandlers
  <2>2. Active' = {}
    <3> HIDE DEF PortInv, FreeRTOS_IRQ_Handler_Exit
    <3>1. IsFiniteSet(Active \ {h})
      BY HandlersFinite, FS_RemoveElement
    <3> QED
      BY <1>1, <2>1, <3>1, FS_EmptySet
  <2>3. \A g \in Handlers : isrPC'[g] = "off"
    BY <2>2 DEF Active
  <2>4. \A g \in Handlers \ {h} : isrPC[g] = "off"
    BY <2>3 DEF TypeOK
  <2>5. h \in {"tick", "device"}
    BY <1>5, <2>4 DEF YieldFromKernelHandler
  <2>6. running \in Tasks /\ taskPC[running] = "run"
    BY <1>5, <2>4, <2>5 DEF MaskOfThread, MaskOfMain, InSection, TypeOK
  <2>7. SwitchContext /\ ullPortYieldRequired' = pdFALSE
    BY <1>5
  <2>8. /\ running' \in Tasks
        /\ ullCriticalNesting' \in Nat
        /\ ullPortTaskHasFPUContext' \in {pdFALSE, pdTRUE}
        /\ ICCPMR' \in {ullMaxAPIPriorityMask, portUNMASK_VALUE}
        /\ context' \in [Tasks -> Contexts]
        /\ fpRegs' \in Threads
        /\ taskPC[running'] = "run"
        /\ Masked' <=> ullCriticalNesting' > 0
        /\ NestingIsOwn'
        /\ FpuContexts'
        /\ FpuIntact'
    BY <1>4, <2>6, <2>7, Switch
  <2>9. TypeOK' /\ (depth[Main] >= InitialNesting)'
    BY <1>3, <1>4, <2>7, <2>8 DEF TypeOK
  <2>10. MaskOwners' /\ MaskOfThread' /\ MaskOfMain' /\ YieldFromKernelHandler'
    BY <1>4, <2>3, <2>7, <2>8 DEF MaskOwners, MaskOfThread, MaskOfMain, InSection,
       YieldFromKernelHandler
  <2> QED
    BY <1>3, <2>8, <2>9, <2>10
<1>6. CASE ~(ullPortInterruptNesting = 1 /\ ullPortYieldRequired # 0)
  <2>1. NoSwitch /\ UNCHANGED ullPortYieldRequired
    BY <1>6
  <2>2. TypeOK' /\ (depth[Main] >= InitialNesting)' /\ NestingIsOwn'
    BY <1>3, <1>4, <2>1 DEF NoSwitch, TypeOK, NestingIsOwn
  <2>3. FpuContexts' /\ FpuIntact'
    BY <1>4, <2>1 DEF NoSwitch, FpuContexts, SwitchedOut, FpuIntact
  <2>4. MaskOwners' /\ MaskOfThread' /\ MaskOfMain'
    BY <1>4, <2>1 DEF NoSwitch, TypeOK, MaskOwners, MaskOfThread, MaskOfMain,
       Masked, InSection, Inside, Base
  <2>5. YieldFromKernelHandler'
    <3>1. SUFFICES ASSUME ullPortYieldRequired # 0
                   PROVE  isrPC'["tick"] # "off" \/ isrPC'["device"] # "off"
      BY <2>1 DEF YieldFromKernelHandler
    <3>2. Cardinality(Active \ {h}) # 0
      BY <1>2, <1>6, <3>1 DEF NestingCountsHandlers
    <3>3. Active' # {}
      <4> HIDE DEF PortInv, FreeRTOS_IRQ_Handler_Exit
      <4> QED
        BY <1>1, <3>2, FS_EmptySet
    <3>4. PICK g \in Handlers : g # h /\ isrPC[g] # "off"
      BY <1>1, <3>3 DEF Active
    <3>5. Priority[h] < Priority[g]
      BY <3>4 DEF OnCore, Active
    <3> QED
      BY <3>4, <3>5 DEF Priority, TypeOK
  <2> QED
    BY <1>3, <2>2, <2>3, <2>4, <2>5
<1> QED
  BY <1>5, <1>6

-----------------------------------------------------------------------------
LEMMA NextInv == PortInv /\ [Next]_vars => PortInv'
<1> SUFFICES ASSUME PortInv, [Next]_vars PROVE PortInv'
  OBVIOUS
<1>1. ASSUME NEW t \in Threads, ThreadStep(t) PROVE PortInv'
  BY <1>1, CriticalStep, FpuStep, YieldStep
     DEF ThreadStep, FreeRTOS_SWI_Handler
<1>2. ASSUME NEW h \in Handlers, HandlerStep(h) PROVE PortInv'
  BY <1>2, EntryStep, ExitStep, BodyStep DEF HandlerStep
<1>3. CASE xPortStartScheduler
  BY <1>3, StartStep
<1>4. CASE \/ IpiHandler
           \/ TickHandler_Mask
           \/ TickHandler_Increment
           \/ TickHandler_Unmask
           \/ DeviceHandler_Return
  BY <1>4, BodyStep
<1>5. CASE UNCHANGED vars
  BY <1>5
     DEF vars, PortInv, TypeOK, NestingIsOwn, NestingCountsHandlers, Active,
         MaskOwners, MaskOfThread, MaskOfMain, Masked, InSection, Inside, Base,
         FpuContexts, SwitchedOut, FpuIntact, YieldFromKernelHandler
<1> QED
  BY <1>1, <1>2, <1>3, <1>4, <1>5 DEF Next

(* The inductive invariant, for every set of tasks: masks, nesting counts,   *)
(* contexts and pending switches of the port agree.                          *)
THEOREM PortInvariant == Spec => []PortInv
<1>1. Init => PortInv
  BY InitInv
<1>2. PortInv /\ [Next]_vars => PortInv'
  BY NextInv
<1> QED
  BY <1>1, <1>2, PTL DEF Spec

(* The variables keep their types. *)
THEOREM TypeCorrect == Spec => []TypeOK
<1>1. PortInv => TypeOK
  BY DEF PortInv
<1> QED
  BY <1>1, PortInvariant, PTL

(* Critical sections, the tick and FromISR functions exclude each other: no  *)
(* two of them are in the kernel's data at once (vPortEnterCritical).        *)
THEOREM KernelDataIsExclusive == Spec => []KernelDataExclusive
<1>1. PortInv => KernelDataExclusive
  <2> SUFFICES ASSUME PortInv PROVE KernelDataExclusive
    OBVIOUS
  <2> USE MainAssumption DEF PortInv, TypeOK
  <2>1. ASSUME isrPC["device"] = "inapi"
        PROVE  isrPC["tick"] \notin {"body", "inapi", "leave"}
    BY <2>1 DEF MaskOwners
  <2>2. ASSUME \/ isrPC["tick"] \in {"body", "inapi", "leave"}
               \/ isrPC["device"] = "inapi"
        PROVE  ~Inside(running)
    BY <2>2 DEF MaskOfThread, MaskOfMain, NestingIsOwn, InSection, Inside, Base
  <2> QED
    BY <2>1, <2>2 DEF KernelDataExclusive, KernelUsers
<1> QED
  BY <1>1, PortInvariant, PTL

(* A running task is masked exactly while in, entering or leaving a critical *)
(* section (portRESTORE_CONTEXT sets the mask from the nesting).             *)
THEOREM MaskIsRight == Spec => []MaskMatchesNesting
<1>1. PortInv => MaskMatchesNesting
  BY NoHandler DEF PortInv, MaskMatchesNesting, MaskOfThread
<1> QED
  BY <1>1, PortInvariant, PTL

(* Every thread finds its own nesting count again.                           *)
THEOREM NestingIsKept == Spec => []NestingIsOwn
<1>1. PortInv => NestingIsOwn
  BY DEF PortInv
<1> QED
  BY <1>1, PortInvariant, PTL

(* A task registered for the FPU finds its registers again.                  *)
THEOREM FpuIsKept == Spec => []FpuIntact
<1>1. PortInv => FpuIntact
  BY DEF PortInv
<1> QED
  BY <1>1, PortInvariant, PTL

(* No request for a switch outlives the handlers.                            *)
THEOREM NoYieldIsLeft == Spec => []NoYieldLeft
<1>1. PortInv => NoYieldLeft
  BY NoHandler DEF PortInv, NoYieldLeft, YieldFromKernelHandler, TypeOK
<1> QED
  BY <1>1, PortInvariant, PTL

(* Interrupts switch tasks out outside their critical sections only.         *)
THEOREM SectionsAreNotPreempted == Spec => PreemptedOutsideSections
<1> DEFINE Kept == isrPC' # isrPC /\ running' # running
                      => ~Inside(running) /\ taskPC[running] = "run"
<1>1. ASSUME PortInv, Next PROVE Kept
  <2> SUFFICES ASSUME isrPC' # isrPC, running' # running
               PROVE  ~Inside(running) /\ taskPC[running] = "run"
    OBVIOUS
  <2>1. PICK h \in Handlers : FreeRTOS_IRQ_Handler_Exit(h)
    BY <1>1 DEF Next, ThreadStep, HandlerStep, vPortEnterCritical_Mask,
       vPortEnterCritical_Count, vPortExitCritical_Count, vPortExitCritical_Unmask,
       vPortTaskUsesFPU, UseFPU, FreeRTOS_SWI_Handler, xPortStartScheduler,
       FreeRTOS_IRQ_Handler_Entry, uxPortSetInterruptMask, vPortClearInterruptMask,
       IpiHandler, TickHandler_Mask, TickHandler_Increment, TickHandler_Unmask,
       DeviceHandler_Return, isrUnchanged
  <2>2. ullPortYieldRequired # 0
    BY <2>1 DEF FreeRTOS_IRQ_Handler_Exit, NoSwitch
  <2>3. isrPC["tick"] # "off" \/ isrPC["device"] # "off"
    BY <1>1, <2>2 DEF PortInv, YieldFromKernelHandler
  <2>4. running \in Tasks /\ ~InSection
    BY <1>1, <2>3 DEF PortInv, TypeOK, MaskOfMain, MaskOfThread
  <2> QED
    BY <1>1, <2>4, MainAssumption
       DEF PortInv, TypeOK, NestingIsOwn, InSection, Inside, Base
<1>2. PortInv /\ [Next]_vars => [Kept]_vars
  BY <1>1
<1> QED
  BY <1>2, PortInvariant, PTL DEF Spec, PreemptedOutsideSections

(* What a critical section before the scheduler's start masks stays masked.  *)
THEOREM BootMaskIsKept == Spec => BootStaysMasked
<1> DEFINE Kept == running = Main /\ running' = Main /\ Masked => Masked'
<1>1. ASSUME PortInv, Next PROVE Kept
  <2> SUFFICES ASSUME running = Main, running' = Main, Masked PROVE Masked'
    OBVIOUS
  <2> USE MainAssumption DEF PortInv, TypeOK, Masked, Thread, Handler
  <2>1. ASSUME NEW t \in Threads, ThreadStep(t) PROVE Masked'
    BY <1>1, <2>1 DEF ThreadStep, vPortEnterCritical_Mask,
       vPortEnterCritical_Count, vPortExitCritical_Count, vPortExitCritical_Unmask,
       vPortTaskUsesFPU, UseFPU, FreeRTOS_SWI_Handler, MaskOfMain
  <2>2. isrPC["tick"] = "off" /\ isrPC["device"] = "off"
    BY <1>1 DEF MaskOfMain
  <2>3. ullPortYieldRequired = 0
    BY <1>1, <2>2 DEF YieldFromKernelHandler
  <2>4. ASSUME NEW h \in Handlers, HandlerStep(h) PROVE Masked'
    BY <1>1, <2>2, <2>3, <2>4 DEF HandlerStep, FreeRTOS_IRQ_Handler_Entry,
       FreeRTOS_IRQ_Handler_Exit, NoSwitch, uxPortSetInterruptMask,
       vPortClearInterruptMask, MaskOwners
  <2>5. CASE xPortStartScheduler
    BY <1>1, <2>5 DEF xPortStartScheduler
  <2>6. CASE \/ IpiHandler
             \/ TickHandler_Mask
             \/ TickHandler_Increment
             \/ TickHandler_Unmask
             \/ DeviceHandler_Return
    BY <1>1, <2>2, <2>6 DEF IpiHandler, TickHandler_Mask, TickHandler_Increment,
       TickHandler_Unmask, DeviceHandler_Return
  <2> QED
    BY <1>1, <2>1, <2>4, <2>5, <2>6 DEF Next
<1>2. PortInv /\ [Next]_vars => [Kept]_vars
  BY <1>1
<1> QED
  BY <1>2, PortInvariant, PTL DEF Spec, BootStaysMasked
=============================================================================
