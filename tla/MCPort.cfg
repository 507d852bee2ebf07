SPECIFICATION Spec
CONSTANTS
    t1 = t1
    t2 = t2
    main = main
    Tasks = {t1, t2}
    FpuTasks = {t1, t2}
    Main = main
    MaxDepth = 2
INVARIANTS
    KernelDataExclusive
    MaskMatchesNesting
    FpuIntact
PROPERTIES
    BootStaysMasked
    PreemptedOutsideSections
