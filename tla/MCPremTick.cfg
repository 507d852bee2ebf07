\* One core, answers with a time to wait.
SPECIFICATION FairSpec
CONSTANTS
    c1 = c1
    c2 = c2
    c3 = c3
    t1 = t1
    t2 = t2
    t3 = t3
    NoCore = NoCore
    Cores = {c1}
    Tasks = {t1}
    CoreOf <- SoloCoreOf
    Lines <- SoloLines
    Outranks = {}
    TimesToWait = {1}
    OrderedIPIs = TRUE
PROPERTY
    HolderRevokes
