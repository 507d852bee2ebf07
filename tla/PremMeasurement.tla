--------------------------- MODULE PremMeasurement ---------------------------
(***************************************************************************)
(* The application src/execution-prem-measurement/main.c: one PREM task    *)
(* whose code counts its jobs, announces a size before the first one of a  *)
(* series, and after the last one asks vPREMTask to display the results    *)
(* and to prefetch more, or to be deleted.  vPREMTask counts jobs too, but *)
(* it calls the code of the task only when the revoke succeeded, and it    *)
(* counts every job.  A job is alone on its core (PremLifecycle).          *)
(***************************************************************************)
EXTENDS Naturals, Sequences

CONSTANTS
    NUMBER_OF_TESTS,
    MIN_DATA_SIZE, DATA_SIZE, DATA_SIZE_INCREMENT,
    MaxSkips               \* bound: the revokes that fail

ASSUME TestsAssumption == NUMBER_OF_TESTS \in Nat /\ NUMBER_OF_TESTS > 1
ASSUME SizeAssumption  ==
    /\ {MIN_DATA_SIZE, DATA_SIZE, DATA_SIZE_INCREMENT} \subseteq Nat \ {0}
    /\ MIN_DATA_SIZE <= DATA_SIZE
    /\ (DATA_SIZE - MIN_DATA_SIZE) % DATA_SIZE_INCREMENT = 0
ASSUME SkipAssumption  == MaxSkips \in Nat

VARIABLES
    pc,                    \* the job's: "code", "account", "size", "results"
    test_number, current_data_size,            \* of main.c
    response_number, data_size, new_prefetch_size,
    ask_change_prefetch_size, ask_display_results, kill_prem_task,
    \* History
    skips,                 \* revokes that failed so far
    announced,             \* the size printed last
    printed,               \* this job has printed
    series,                \* the jobs measured since the last results
    results                \* the results displayed

code  == <<test_number, current_data_size>>
flags == <<ask_change_prefetch_size, ask_display_results, kill_prem_task>>
prem  == <<response_number, data_size, new_prefetch_size>>
past  == <<skips, announced, printed, series, results>>
vars  == <<pc, code, flags, prem, past>>

Sizes == MIN_DATA_SIZE .. DATA_SIZE
Jobs  == [size : Sizes, announced : Sizes \cup {0}, printed : BOOLEAN]

TypeOK ==
    /\ pc \in {"prefetch", "account", "size", "results", "deleted"}
    /\ test_number \in 0 .. NUMBER_OF_TESTS - 1
    /\ current_data_size \in Sizes
    /\ response_number \in Nat
    /\ data_size \in Sizes
    /\ new_prefetch_size \in Sizes \cup {0}
    /\ {ask_change_prefetch_size, ask_display_results, kill_prem_task} \subseteq {0, 1}
    /\ skips \in 0 .. MaxSkips
    /\ announced \in Sizes \cup {0}
    /\ printed \in BOOLEAN
    /\ series \in Seq(Jobs)
    /\ results \in Seq(Seq(Jobs))

Init ==
    /\ pc = "prefetch"
    /\ test_number = 0
    /\ current_data_size = MIN_DATA_SIZE
    /\ response_number = 0
    /\ data_size = MIN_DATA_SIZE
    /\ new_prefetch_size = 0
    /\ ask_change_prefetch_size = 0
    /\ ask_display_results = 0
    /\ kill_prem_task = 0
    /\ skips = 0
    /\ announced = 0
    /\ printed = FALSE
    /\ series = <<>>
    /\ results = <<>>

-----------------------------------------------------------------------------
Step(from, to) ==
    /\ pc = from
    /\ pc' = to

Announce ==
    /\ printed' = (test_number = 0)
    /\ announced' = IF test_number = 0 THEN current_data_size ELSE announced

Continue ==
    /\ test_number + 1 # NUMBER_OF_TESTS
    /\ test_number' = test_number + 1
    /\ UNCHANGED <<current_data_size, flags, new_prefetch_size>>

(* Slip: after any size. *)
AskDelete_AnySize ==
    /\ test_number + 1 = NUMBER_OF_TESTS
    /\ test_number' = 0
    /\ kill_prem_task' = 1
    /\ UNCHANGED <<current_data_size, ask_change_prefetch_size, ask_display_results,
                   new_prefetch_size>>

AskDelete ==
    /\ test_number + 1 = NUMBER_OF_TESTS
    /\ current_data_size = DATA_SIZE
    /\ test_number' = 0
    /\ kill_prem_task' = 1
    /\ UNCHANGED <<current_data_size, ask_change_prefetch_size, ask_display_results,
                   new_prefetch_size>>

(* Slip: the size asked for is the one that was measured. *)
AskNextSize_Same ==
    /\ test_number + 1 = NUMBER_OF_TESTS
    /\ current_data_size # DATA_SIZE
    /\ test_number' = 0
    /\ ask_display_results' = 1
    /\ ask_change_prefetch_size' = 1
    /\ current_data_size' = current_data_size + DATA_SIZE_INCREMENT
    /\ new_prefetch_size' = current_data_size
    /\ UNCHANGED kill_prem_task

AskNextSize ==
    /\ test_number + 1 = NUMBER_OF_TESTS
    /\ current_data_size # DATA_SIZE
    /\ test_number' = 0
    /\ ask_display_results' = 1
    /\ ask_change_prefetch_size' = 1
    /\ current_data_size' = current_data_size + DATA_SIZE_INCREMENT
    /\ new_prefetch_size' = current_data_size'
    /\ UNCHANGED kill_prem_task

(* vPREMTask: the memory phase has ended with a revoke. *)
measuring_task ==
    /\ Step("prefetch", "account")
    /\ Announce
    /\ Continue \/ AskDelete \/ AskNextSize
    /\ UNCHANGED <<response_number, data_size, skips, series, results>>

RevokeFailed ==
    /\ skips < MaxSkips
    /\ Step("prefetch", "account")
    /\ skips' = skips + 1
    /\ printed' = FALSE
    /\ UNCHANGED <<code, flags, prem, announced, series, results>>

(* Slip: the first job of a series is measured like the others. *)
MeasureResponse_First ==
    /\ Step("account", "size")
    /\ response_number' = response_number + 1
    /\ series' = Append(series, [size |-> data_size, announced |-> announced,
                                 printed |-> printed])
    /\ UNCHANGED <<code, flags, data_size, new_prefetch_size, skips, announced,
                   printed, results>>

MeasureResponse ==
    /\ Step("account", "size")
    /\ response_number' = response_number + 1
    /\ series' = IF response_number > 0
                 THEN Append(series, [size |-> data_size, announced |-> announced,
                                      printed |-> printed])
                 ELSE series
    /\ UNCHANGED <<code, flags, data_size, new_prefetch_size, skips, announced,
                   printed, results>>

ChangePrefetchSize ==
    /\ Step("size", "results")
    /\ ask_change_prefetch_size' = 0
    /\ data_size' = IF ask_change_prefetch_size = 1 THEN new_prefetch_size
                                                    ELSE data_size
    /\ UNCHANGED <<code, ask_display_results, kill_prem_task, response_number,
                   new_prefetch_size, past>>

display_results ==
    /\ results' = Append(results, series)
    /\ series' = <<>>
    /\ response_number' = 0

Delete ==
    /\ kill_prem_task = 1
    /\ Step("results", "deleted")
    /\ kill_prem_task' = 0
    /\ display_results
    /\ UNCHANGED <<code, ask_change_prefetch_size, ask_display_results, data_size,
                   new_prefetch_size, skips, announced, printed>>

Display ==
    /\ kill_prem_task = 0
    /\ ask_display_results = 1
    /\ Step("results", "prefetch")
    /\ ask_display_results' = 0
    /\ display_results
    /\ UNCHANGED <<code, ask_change_prefetch_size, kill_prem_task, data_size,
                   new_prefetch_size, skips, announced, printed>>

GoOn ==
    /\ kill_prem_task = 0
    /\ ask_display_results = 0
    /\ Step("results", "prefetch")
    /\ UNCHANGED <<code, flags, prem, past>>

Next ==
    \/ measuring_task  \/ RevokeFailed
    \/ MeasureResponse \/ ChangePrefetchSize
    \/ Delete \/ Display \/ GoOn

Spec == Init /\ [][Next]_vars

(* A job that has computed is alone on its core and waits for nothing.  That  *)
(* a job gets as far (its release, the token, the end of its memory phase)    *)
(* is not fair: see MemoryPhasesEnd. *)
FairSpec == Spec /\ WF_vars(MeasureResponse \/ ChangePrefetchSize
                            \/ Delete \/ Display \/ GoOn)
-----------------------------------------------------------------------------
(* The sizes displayed are all of one result, in the order of the application, *)
(* each with the number of tests it wants at least.  Failed revokes do not     *)
(* change that: the requests to display and to change come from one job. *)
SizeOf(r) == MIN_DATA_SIZE + (r - 1) * DATA_SIZE_INCREMENT

ResultsInOrder ==
    \A r \in DOMAIN results :
        /\ Len(results[r]) >= NUMBER_OF_TESTS - 1
        /\ \A i \in DOMAIN results[r] : results[r][i].size = SizeOf(r)

(* main.c:41, "This one does not count is the measurements": a job that        *)
(* prints is not measured. *)
PrintedNotMeasured == \A i \in DOMAIN series : ~series[i].printed

(* Without failed revokes a result has exactly the tests asked for, all of     *)
(* the size announced before them. *)
ResultsAsAnnounced ==
    skips = 0 =>
        \A r \in DOMAIN results :
            /\ Len(results[r]) = NUMBER_OF_TESTS - 1
            /\ \A i \in DOMAIN results[r] :
                  /\ results[r][i].size = results[r][i].announced
                  /\ ~results[r][i].printed

(* No job stays in its memory phase.  The code does not promise it: a core    *)
(* that is refused sleeps until it is told, and overwrites the resume if that *)
(* comes before line 165 (prem_task.c:151-165; HolderRevokes of PremSystem).  *)
(* The rivals of this application have the default handlers (main.c:89-98). *)
MemoryPhasesEnd == (pc = "prefetch") ~> (pc # "prefetch")

(* All sizes are measured, and the task is deleted, if every memory phase     *)
(* ends and only so many revokes fail: failed revokes leave main.c's count    *)
(* behind that of prem_task.c, and neither may skip an end of a series. *)
Finishes ==
    MemoryPhasesEnd =>
        <>(pc = "deleted"
            /\ Len(results) = (DATA_SIZE - MIN_DATA_SIZE) \div DATA_SIZE_INCREMENT + 1)
-----------------------------------------------------------------------------
(* What these rest on (PremMeasurement_proofs).                              *)

(* The series that is measured. *)
Current == Len(results) + 1

(* A job has asked for the end of the series. *)
Ended == ask_display_results = 1 \/ kill_prem_task = 1

(* Jobs since the last results, one that is not counted yet among them. *)
Started == IF pc = "account" THEN response_number + 1 ELSE response_number

(* A job serves its own requests, and those to display and to change together.*)
OwnRequests ==
    /\ pc \in {"prefetch", "deleted"} => ~Ended
    /\ kill_prem_task = 1 => ask_display_results = 0
    /\ ask_change_prefetch_size = 1 =>
          /\ pc \in {"account", "size"}
          /\ new_prefetch_size = current_data_size
    /\ pc \in {"account", "size"} => ask_change_prefetch_size = ask_display_results

(* main.c is a size ahead of prem_task.c between request and change only. *)
SizesAgree ==
    /\ current_data_size = SizeOf(Current + ask_display_results)
    /\ data_size = IF pc = "results" THEN current_data_size ELSE SizeOf(Current)
    /\ (DATA_SIZE - current_data_size) % DATA_SIZE_INCREMENT = 0

(* The two counts of jobs: that of main.c misses those whose revoke failed. *)
CountsAgree ==
    IF Ended
    THEN /\ test_number = 0
         /\ Started >= NUMBER_OF_TESTS
         /\ skips = 0 => Started = NUMBER_OF_TESTS
    ELSE /\ test_number <= Started
         /\ skips = 0 => Started = test_number

SeriesIsCurrent ==
    /\ Len(series) = IF response_number = 0 THEN 0 ELSE response_number - 1
    /\ \A i \in DOMAIN series : series[i].size = SizeOf(Current)

SeriesIsAnnounced ==
    skips = 0 =>
        /\ Started > 0 => announced = SizeOf(Current)
        /\ pc = "account" => (printed <=> response_number = 0)
        /\ \A i \in DOMAIN series : /\ series[i].announced = series[i].size
                                     /\ ~series[i].printed

MeasurementInv ==
    /\ TypeOK
    /\ OwnRequests
    /\ pc # "deleted" =>
          SizesAgree /\ CountsAgree /\ SeriesIsCurrent /\ SeriesIsAnnounced
    /\ ResultsInOrder
    /\ ResultsAsAnnounced

-----------------------------------------------------------------------------
(* What Finishes says without fairness. *)

SizesToMeasure == (DATA_SIZE - MIN_DATA_SIZE) \div DATA_SIZE_INCREMENT + 1

(* The task is not deleted before the results of every size are displayed,    *)
(* and displays nothing more. *)
DeletedWhenComplete ==
    /\ Len(results) <= SizesToMeasure
    /\ pc = "deleted" => Len(results) = SizesToMeasure

(* Every step leaves fewer to take: no revoke that fails, and no series that  *)
(* is longer for it, makes the measurement begin again. *)
SizesToGo ==
    IF kill_prem_task = 1 \/ pc = "deleted" THEN 0
    ELSE (DATA_SIZE - current_data_size) \div DATA_SIZE_INCREMENT + 1

JobsToGo == SizesToGo * NUMBER_OF_TESTS - test_number + (MaxSkips - skips)

StepsToGo ==
    4 * JobsToGo + CASE pc = "account" -> 3
                     [] pc = "size"    -> 2
                     [] pc = "results" -> 1
                     [] OTHER          -> 0

FewerStepsToGo == [][StepsToGo' \in Nat /\ StepsToGo' < StepsToGo]_vars

(* Every size is displayed, about to be, or still to be measured. *)
SizesAccounted ==
    Len(results) + (ask_display_results + kill_prem_task) + SizesToGo = SizesToMeasure
=============================================================================
