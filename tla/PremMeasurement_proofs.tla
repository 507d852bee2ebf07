------------------------ MODULE PremMeasurement_proofs ------------------------
(***************************************************************************)
(* The results of execution-prem-measurement, for any number of tests, any *)
(* sizes and any number of revokes that fail: main.c and prem_task.c count *)
(* jobs and sizes apart, and the invariant is what keeps them together     *)
(* from one display to the next.                                           *)
(***************************************************************************)
EXTENDS PremMeasurement, Integers, TLAPS

USE TestsAssumption, SizeAssumption, SkipAssumption

-----------------------------------------------------------------------------
(* Sizes. *)

LEMMA FirstSize == SizeOf(1) = MIN_DATA_SIZE
BY DEF SizeOf

LEMMA NextSize ==
    ASSUME NEW r \in Nat \ {0}
    PROVE  SizeOf(r) \in Nat /\ SizeOf(r + 1) = SizeOf(r) + DATA_SIZE_INCREMENT
<1>1. /\ (r - 1) * DATA_SIZE_INCREMENT \in Nat
      /\ ((r + 1) - 1) * DATA_SIZE_INCREMENT =
             (r - 1) * DATA_SIZE_INCREMENT + DATA_SIZE_INCREMENT
  OBVIOUS
<1> QED
  BY <1>1 DEF SizeOf

LEMMA Multiples ==
    ASSUME NEW n \in Nat \ {0}, NEW k \in Nat
    PROVE  (n * k) % n = 0
<1> DEFINE q == (n * k) \div n
           r == (n * k) % n
<1>1. n * k \in Nat
  OBVIOUS
<1>2. q \in Nat /\ r \in 0 .. n - 1 /\ n * k = n * q + r
  BY <1>1
<1> HIDE DEF q, r
<1>3. n * (k - q) = r /\ k - q \in Int
  BY <1>2
<1>4. k - q <= 0
  <2>1. CASE k - q >= 1
    <3>1. n * (k - q) = n + n * (k - q - 1) /\ n * (k - q - 1) >= 0
      BY <1>3, <2>1
    <3> QED
      BY <1>2, <1>3, <3>1
  <2> QED
    BY <1>3, <2>1
<1>5. n * (k - q) <= 0
  BY <1>3, <1>4
<1> QED
  BY <1>2, <1>3, <1>5 DEF r

(* A size below the last one that is whole increments away from it is at      *)
(* least one away, and so is the next one. *)
LEMMA SizesLeft ==
    ASSUME NEW size \in Sizes, size # DATA_SIZE,
           (DATA_SIZE - size) % DATA_SIZE_INCREMENT = 0
    PROVE  /\ size + DATA_SIZE_INCREMENT \in Sizes
           /\ (DATA_SIZE - (size + DATA_SIZE_INCREMENT)) % DATA_SIZE_INCREMENT = 0
<1> DEFINE left == DATA_SIZE - size
           inc  == DATA_SIZE_INCREMENT
           q    == left \div inc
<1>1. left \in Nat \ {0} /\ inc \in Nat \ {0} /\ left % inc = 0
  BY DEF Sizes
<1>2. q \in Nat /\ left = inc * q
  BY <1>1
<1> HIDE DEF left, inc, q
<1>3. q - 1 \in Nat
  BY <1>1, <1>2
<1>4. left = inc + inc * (q - 1) /\ inc * (q - 1) \in Nat
  BY <1>1, <1>2, <1>3
<1>5. (left - inc) % inc = 0
  BY <1>1, <1>3, <1>4, Multiples
<1>6. left - inc \in Nat
  BY <1>1, <1>4
<1>7. DATA_SIZE - (size + inc) = left - inc
  BY DEF Sizes, left, inc
<1> QED
  BY <1>5, <1>6, <1>7 DEF Sizes, left, inc

-----------------------------------------------------------------------------
LEMMA InitInv == Init => MeasurementInv
<1> SUFFICES ASSUME Init PROVE MeasurementInv
  OBVIOUS
<1> USE DEF Init
<1>1. TypeOK
  <2>1. series \in Seq(Jobs) /\ results \in Seq(Seq(Jobs))
    OBVIOUS
  <2>2. {ask_change_prefetch_size, ask_display_results, kill_prem_task} \subseteq {0, 1}
    OBVIOUS
  <2>3. MIN_DATA_SIZE \in Sizes
    BY DEF Sizes
  <2>4. 0 \in Nat /\ 0 \in 0 .. NUMBER_OF_TESTS - 1 /\ 0 \in 0 .. MaxSkips
    OBVIOUS
  <2> QED
    BY <2>1, <2>2, <2>3, <2>4, Zenon DEF TypeOK
<1>2. OwnRequests
  BY DEF OwnRequests, Ended
<1>3. Current = 1
  BY DEF Current
<1>4. SizesAgree /\ CountsAgree /\ SeriesIsCurrent /\ SeriesIsAnnounced
  BY <1>3, FirstSize
     DEF SizesAgree, CountsAgree, Ended, Started, SeriesIsCurrent, SeriesIsAnnounced
<1>5. ResultsInOrder /\ ResultsAsAnnounced
  BY DEF ResultsInOrder, ResultsAsAnnounced
<1> QED
  BY <1>1, <1>2, <1>4, <1>5 DEF MeasurementInv

-----------------------------------------------------------------------------
(* One step per action; a job's code first. *)

LEMMA CodeKeeps ==
    ASSUME MeasurementInv, measuring_task
    PROVE  MeasurementInv'
<1> USE DEF measuring_task, Step, Announce, flags
<1>1. /\ TypeOK /\ OwnRequests /\ SizesAgree /\ CountsAgree
      /\ SeriesIsCurrent /\ SeriesIsAnnounced
  BY DEF MeasurementInv
<1>2. /\ ~Ended /\ Started = response_number
      /\ ask_display_results = 0 /\ kill_prem_task = 0 /\ ask_change_prefetch_size = 0
  BY <1>1 DEF OwnRequests, Ended, Started, TypeOK
<1>3. Current \in Nat \ {0} /\ Current' = Current /\ Started' = Started + 1
  BY <1>1, <1>2 DEF Current, Started, TypeOK
<1>4. /\ current_data_size = SizeOf(Current) /\ data_size = SizeOf(Current)
      /\ (DATA_SIZE - current_data_size) % DATA_SIZE_INCREMENT = 0
      /\ current_data_size \in Sizes
  BY <1>1, <1>2, <1>3 DEF SizesAgree, TypeOK
<1>5. /\ test_number <= response_number
      /\ skips = 0 => response_number = test_number
      /\ test_number \in 0 .. NUMBER_OF_TESTS - 1 /\ response_number \in Nat
  BY <1>1, <1>2 DEF CountsAgree, TypeOK
<1>6. printed' \in BOOLEAN /\ announced' \in Sizes \cup {0}
  BY <1>1 DEF TypeOK
<1>7. SeriesIsCurrent' /\ SeriesIsAnnounced'
  <2>1. SeriesIsCurrent'
    BY <1>1, <1>3 DEF SeriesIsCurrent
  <2>2. ASSUME skips' = 0
        PROVE  announced' = SizeOf(Current) /\ (printed' <=> response_number = 0)
    <3>1. CASE test_number = 0
      BY <1>4, <1>5, <2>2, <3>1
    <3>2. CASE test_number # 0
      <4>1. UNCHANGED <<skips, announced>> /\ ~printed'
        BY <3>2, Zenon
      <4>2. skips = 0 /\ response_number = test_number /\ response_number > 0
        BY <1>5, <2>2, <3>2, <4>1
      <4>3. announced = SizeOf(Current)
        BY <1>1, <1>2, <4>2 DEF SeriesIsAnnounced
      <4> QED
        BY <4>1, <4>2, <4>3
    <3> QED
      BY <3>1, <3>2
  <2> QED
    BY <1>1, <1>3, <2>1, <2>2 DEF SeriesIsAnnounced
<1>8. ResultsInOrder' /\ ResultsAsAnnounced'
  BY DEF MeasurementInv, ResultsInOrder, ResultsAsAnnounced
<1>9. TypeOK' /\ OwnRequests' /\ SizesAgree' /\ CountsAgree'
  <2>1. CASE Continue
    <3>1. TypeOK'
      BY <1>1, <1>5, <1>6, <2>1 DEF TypeOK, Continue
    <3>2. OwnRequests' /\ Ended' = Ended
      BY <1>2, <2>1 DEF OwnRequests, Ended, Continue
    <3>3. SizesAgree'
      BY <1>2, <1>3, <1>4, <2>1 DEF SizesAgree, Continue
    <3>4. CountsAgree'
      BY <1>2, <1>3, <1>5, <2>1, <3>2 DEF CountsAgree, Continue
    <3> QED
      BY <3>1, <3>2, <3>3, <3>4
  <2>2. CASE AskDelete
    <3>1. TypeOK'
      BY <1>1, <1>5, <1>6, <2>2 DEF TypeOK, AskDelete
    <3>2. OwnRequests' /\ Ended'
      BY <1>2, <2>2 DEF OwnRequests, Ended, AskDelete
    <3>3. SizesAgree'
      <4>1. UNCHANGED <<current_data_size, data_size, ask_display_results>> /\ pc' = "account"
        BY <2>2 DEF AskDelete
      <4> QED
        BY <1>2, <1>3, <1>4, <4>1 DEF SizesAgree
    <3>4. CountsAgree'
      BY <1>2, <1>3, <1>5, <2>2, <3>2 DEF CountsAgree, AskDelete
    <3> QED
      BY <3>1, <3>2, <3>3, <3>4
  <2>3. CASE AskNextSize
    <3>1. /\ current_data_size' = SizeOf(Current + 1) /\ current_data_size' \in Sizes
          /\ (DATA_SIZE - current_data_size') % DATA_SIZE_INCREMENT = 0
      BY <1>3, <1>4, <2>3, NextSize, SizesLeft DEF AskNextSize
    <3>2. TypeOK'
      BY <1>1, <1>5, <1>6, <2>3, <3>1 DEF TypeOK, AskNextSize
    <3>3. OwnRequests' /\ Ended'
      BY <1>2, <2>3 DEF OwnRequests, Ended, AskNextSize
    <3>4. SizesAgree'
      BY <1>3, <1>4, <2>3, <3>1 DEF SizesAgree, AskNextSize
    <3>5. CountsAgree'
      BY <1>2, <1>3, <1>5, <2>3, <3>3 DEF CountsAgree, AskNextSize
    <3> QED
      BY <3>2, <3>3, <3>4, <3>5
  <2> QED
    BY <2>1, <2>2, <2>3
<1> QED
  BY <1>7, <1>8, <1>9 DEF MeasurementInv

(* A job whose revoke failed asks for nothing and is counted by prem_task.c.  *)
LEMMA RevokeFailedKeeps ==
    ASSUME MeasurementInv, RevokeFailed
    PROVE  MeasurementInv'
<1> USE DEF RevokeFailed, Step, code, flags, prem
<1>1. /\ TypeOK /\ OwnRequests /\ SizesAgree /\ CountsAgree
      /\ SeriesIsCurrent /\ SeriesIsAnnounced
  BY DEF MeasurementInv
<1>2. ~Ended /\ Started' = Started + 1 /\ Current' = Current /\ ~Ended'
  BY <1>1 DEF OwnRequests, Ended, Started, Current
<1>3. TypeOK' /\ OwnRequests'
  <2>1. TypeOK'
    <3>1. skips' \in 0 .. MaxSkips
      BY <1>1 DEF TypeOK
    <3> QED
      BY <1>1, <3>1 DEF TypeOK
  <2>2. OwnRequests'
    BY <1>1 DEF OwnRequests, Ended, TypeOK
  <2> QED
    BY <2>1, <2>2
<1>4. skips' # 0
  BY <1>1 DEF TypeOK
<1>5. SizesAgree' /\ SeriesIsCurrent' /\ SeriesIsAnnounced'
  BY <1>1, <1>2, <1>4 DEF SizesAgree, SeriesIsCurrent, SeriesIsAnnounced
<1>6. CountsAgree'
  BY <1>1, <1>2, <1>4 DEF CountsAgree, TypeOK, Started
<1>7. ResultsInOrder' /\ ResultsAsAnnounced'
  BY <1>4 DEF MeasurementInv, ResultsInOrder, ResultsAsAnnounced
<1> QED
  BY <1>3, <1>5, <1>6, <1>7 DEF MeasurementInv

LEMMA MeasureKeeps ==
    ASSUME MeasurementInv, MeasureResponse
    PROVE  MeasurementInv'
<1> USE DEF MeasureResponse, Step, code, flags
<1>1. /\ TypeOK /\ OwnRequests /\ SizesAgree /\ CountsAgree
      /\ SeriesIsCurrent /\ SeriesIsAnnounced
  BY DEF MeasurementInv
<1> DEFINE job == [size |-> data_size, announced |-> announced, printed |-> printed]
<1>2. series \in Seq(Jobs) /\ job \in Jobs /\ response_number \in Nat
  BY <1>1 DEF TypeOK, Jobs
<1>3. TypeOK'
  <2>1. series' \in Seq(Jobs)
    BY <1>2
  <2> QED
    BY <1>1, <2>1 DEF TypeOK
<1>4. OwnRequests' /\ Ended' = Ended
  BY <1>1 DEF OwnRequests, Ended
<1>5. Started' = Started /\ Current' = Current
  BY <1>1 DEF Started, Current
<1>6. SizesAgree' /\ CountsAgree'
  BY <1>1, <1>4, <1>5 DEF SizesAgree, CountsAgree
<1>7. SeriesIsCurrent'
  BY <1>1, <1>2, <1>5 DEF SeriesIsCurrent, SizesAgree
<1>8. SeriesIsAnnounced'
  BY <1>1, <1>2, <1>5 DEF SeriesIsAnnounced, SizesAgree, Started
<1>9. ResultsInOrder' /\ ResultsAsAnnounced'
  BY DEF MeasurementInv, ResultsInOrder, ResultsAsAnnounced
<1> QED
  BY <1>3, <1>4, <1>6, <1>7, <1>8, <1>9 DEF MeasurementInv

LEMMA ChangeKeeps ==
    ASSUME MeasurementInv, ChangePrefetchSize
    PROVE  MeasurementInv'
<1> USE DEF ChangePrefetchSize, Step, code, past
<1>1. /\ TypeOK /\ OwnRequests /\ SizesAgree /\ CountsAgree
      /\ SeriesIsCurrent /\ SeriesIsAnnounced
  BY DEF MeasurementInv
<1>2. Ended' = Ended /\ Started' = Started /\ Current' = Current /\ Current \in Nat
  BY <1>1 DEF Ended, Started, Current, TypeOK
<1>3. data_size' = current_data_size
  BY <1>1, <1>2 DEF OwnRequests, SizesAgree, TypeOK
<1>4. TypeOK'
  BY <1>1, <1>3 DEF TypeOK
<1>5. OwnRequests'
  BY <1>1, <1>2 DEF OwnRequests, Ended
<1>6. SizesAgree' /\ CountsAgree' /\ SeriesIsCurrent' /\ SeriesIsAnnounced'
  BY <1>1, <1>2, <1>3
     DEF SizesAgree, CountsAgree, SeriesIsCurrent, SeriesIsAnnounced
<1>7. ResultsInOrder' /\ ResultsAsAnnounced'
  BY DEF MeasurementInv, ResultsInOrder, ResultsAsAnnounced
<1> QED
  BY <1>4, <1>5, <1>6, <1>7 DEF MeasurementInv

(* What is displayed once a job has asked for it is a whole series, of one    *)
(* size. *)
LEMMA ResultIsSeries ==
    ASSUME MeasurementInv, pc = "results", Ended, display_results, UNCHANGED skips
    PROVE  /\ ResultsInOrder' /\ ResultsAsAnnounced'
           /\ Current' = Current + 1 /\ Current \in Nat \ {0}
           /\ series' = <<>> /\ results' \in Seq(Seq(Jobs))
<1>1. TypeOK /\ CountsAgree /\ SeriesIsCurrent /\ SeriesIsAnnounced
  BY DEF MeasurementInv
<1>2. /\ series \in Seq(Jobs) /\ results \in Seq(Seq(Jobs))
      /\ results' = Append(results, series) /\ series' = <<>>
      /\ response_number \in Nat
  BY <1>1 DEF TypeOK, display_results
<1>3. /\ Len(series) >= NUMBER_OF_TESTS - 1
      /\ skips = 0 => Len(series) = NUMBER_OF_TESTS - 1
  BY <1>1, <1>2 DEF CountsAgree, SeriesIsCurrent, Started
<1>4. /\ Len(results') = Len(results) + 1
      /\ \A r \in DOMAIN results : results'[r] = results[r]
      /\ results'[Len(results) + 1] = series
      /\ DOMAIN results' = DOMAIN results \cup {Current}
  BY <1>2 DEF Current
<1>5. ResultsInOrder'
  BY <1>1, <1>3, <1>4 DEF MeasurementInv, ResultsInOrder, SeriesIsCurrent, Current
<1>6. ResultsAsAnnounced'
  BY <1>1, <1>3, <1>4 DEF MeasurementInv, ResultsAsAnnounced, SeriesIsAnnounced, Current
<1> QED
  BY <1>2, <1>4, <1>5, <1>6 DEF Current

LEMMA DeleteKeeps ==
    ASSUME MeasurementInv, Delete
    PROVE  MeasurementInv'
<1> USE DEF Delete, Step, code
<1>1. TypeOK /\ OwnRequests /\ Ended
  BY DEF MeasurementInv, Ended
<1>2. /\ ResultsInOrder' /\ ResultsAsAnnounced'
      /\ series' = <<>> /\ results' \in Seq(Seq(Jobs))
  BY <1>1, ResultIsSeries
<1>3. TypeOK'
  BY <1>1, <1>2 DEF TypeOK, display_results
<1>4. OwnRequests'
  BY <1>1 DEF OwnRequests, Ended, TypeOK
<1> QED
  BY <1>2, <1>3, <1>4 DEF MeasurementInv

LEMMA DisplayKeeps ==
    ASSUME MeasurementInv, Display
    PROVE  MeasurementInv'
<1> USE DEF Display, Step, code
<1>1. TypeOK /\ OwnRequests /\ SizesAgree /\ CountsAgree /\ Ended
  BY DEF MeasurementInv, Ended
<1>2. /\ ResultsInOrder' /\ ResultsAsAnnounced'
      /\ Current' = Current + 1 /\ Current \in Nat \ {0}
      /\ series' = <<>> /\ results' \in Seq(Seq(Jobs)) /\ response_number' = 0
  BY <1>1, ResultIsSeries DEF display_results
<1>3. TypeOK'
  BY <1>1, <1>2 DEF TypeOK
<1>4. OwnRequests' /\ ~Ended'
  BY <1>1 DEF OwnRequests, Ended
<1>5. Started' = 0 /\ Current' + 0 = Current'
  BY <1>2 DEF Started
<1>6. SizesAgree'
  BY <1>1, <1>2, <1>5 DEF SizesAgree
<1>7. CountsAgree'
  BY <1>1, <1>4, <1>5 DEF CountsAgree
<1>8. SeriesIsCurrent' /\ SeriesIsAnnounced'
  BY <1>2, <1>5 DEF SeriesIsCurrent, SeriesIsAnnounced
<1> QED
  BY <1>2, <1>3, <1>4, <1>6, <1>7, <1>8 DEF MeasurementInv

LEMMA GoOnKeeps ==
    ASSUME MeasurementInv, GoOn
    PROVE  MeasurementInv'
<1> USE DEF GoOn, Step, code, flags, prem, past
<1>1. /\ TypeOK /\ OwnRequests /\ SizesAgree /\ CountsAgree
      /\ SeriesIsCurrent /\ SeriesIsAnnounced
  BY DEF MeasurementInv
<1>2. ~Ended /\ ~Ended' /\ Started' = Started /\ Current' = Current /\ Current \in Nat
  BY <1>1 DEF Ended, Started, Current, TypeOK
<1>3. TypeOK' /\ OwnRequests'
  BY <1>1 DEF TypeOK, OwnRequests, Ended
<1>4. SizesAgree' /\ CountsAgree' /\ SeriesIsCurrent' /\ SeriesIsAnnounced'
  BY <1>1, <1>2 DEF SizesAgree, CountsAgree, SeriesIsCurrent, SeriesIsAnnounced
<1>5. ResultsInOrder' /\ ResultsAsAnnounced'
  BY DEF MeasurementInv, ResultsInOrder, ResultsAsAnnounced
<1> QED
  BY <1>3, <1>4, <1>5 DEF MeasurementInv

LEMMA InvKept == MeasurementInv /\ UNCHANGED vars => MeasurementInv'
<1> SUFFICES ASSUME MeasurementInv, UNCHANGED vars PROVE MeasurementInv'
  OBVIOUS
<1> USE DEF vars, code, flags, prem, past
<1>1. TypeOK' /\ OwnRequests'
  BY DEF MeasurementInv, TypeOK, OwnRequests, Ended
<1>2. SizesAgree = SizesAgree' /\ CountsAgree = CountsAgree'
  BY DEF SizesAgree, CountsAgree, Ended, Started, Current
<1>3. SeriesIsCurrent = SeriesIsCurrent' /\ SeriesIsAnnounced = SeriesIsAnnounced'
  BY DEF SeriesIsCurrent, SeriesIsAnnounced, Started, Current
<1>4. ResultsInOrder' /\ ResultsAsAnnounced'
  BY DEF MeasurementInv, ResultsInOrder, ResultsAsAnnounced
<1> QED
  BY <1>1, <1>2, <1>3, <1>4 DEF MeasurementInv

(* Between two displays main.c and prem_task.c agree on size and count.       *)
THEOREM MeasurementInvariant == Spec => []MeasurementInv
<1>1. Init => MeasurementInv
  BY InitInv
<1>2. MeasurementInv /\ [Next]_vars => MeasurementInv'
  BY CodeKeeps, RevokeFailedKeeps, MeasureKeeps, ChangeKeeps, DeleteKeeps,
     DisplayKeeps, GoOnKeeps, InvKept DEF Next
<1> QED
  BY <1>1, <1>2, PTL DEF Spec

(* The types: the sizes asked for stay between the first and the last one.    *)
THEOREM TypeCorrect == Spec => []TypeOK
<1>1. MeasurementInv => TypeOK
  BY DEF MeasurementInv
<1> QED
  BY <1>1, MeasurementInvariant, PTL

(* Result r is of the r-th size and has the number of tests it wants at       *)
(* least, whichever revokes fail. *)
THEOREM SizesInOrder == Spec => []ResultsInOrder
<1>1. MeasurementInv => ResultsInOrder
  BY DEF MeasurementInv
<1> QED
  BY <1>1, MeasurementInvariant, PTL

(* If no revoke fails, each result is that of the tests asked for, of the     *)
(* size announced before them. *)
THEOREM AnnouncedIsMeasured == Spec => []ResultsAsAnnounced
<1>1. MeasurementInv => ResultsAsAnnounced
  BY DEF MeasurementInv
<1> QED
  BY <1>1, MeasurementInvariant, PTL

-----------------------------------------------------------------------------
(* The end: nothing is displayed too early, too often or for ever. *)

LEMMA OneSizeLess ==
    ASSUME NEW left \in Nat \ {0}, NEW inc \in Nat \ {0}, left % inc = 0
    PROVE  left \div inc \in Nat \ {0} /\ (left - inc) \div inc = (left \div inc) - 1
<1> DEFINE q == left \div inc
<1>1. q \in Nat /\ left = inc * q
  OBVIOUS
<1> HIDE DEF q
<1>2. q # 0
  BY <1>1
<1>3. left - inc = inc * (q - 1) /\ q - 1 \in Nat
  BY <1>1, <1>2
<1>4. (inc * (q - 1)) \div inc = q - 1
  BY <1>3
<1> QED
  BY <1>1, <1>2, <1>3, <1>4 DEF q

(* How a step of the code, and how each other step, changes what is to go. *)
LEMMA CodeCounts ==
    ASSUME MeasurementInv, measuring_task
    PROVE  /\ SizesToGo \in Nat /\ SizesToGo' \in Nat
           /\ \/ SizesToGo' = SizesToGo /\ test_number' = test_number + 1
                 /\ UNCHANGED <<ask_display_results, kill_prem_task>>
              \/ SizesToGo' = SizesToGo - 1
                 /\ test_number + 1 = NUMBER_OF_TESTS /\ test_number' = 0
                 /\ ask_display_results' + kill_prem_task' =
                        ask_display_results + kill_prem_task + 1
<1> USE DEF measuring_task, Step
<1>1. /\ TypeOK /\ OwnRequests /\ SizesAgree /\ pc = "prefetch" /\ pc' = "account"
  BY DEF MeasurementInv
<1>2. ask_display_results = 0 /\ kill_prem_task = 0
  BY <1>1 DEF OwnRequests, Ended, TypeOK
<1>3. /\ current_data_size \in Sizes
      /\ (DATA_SIZE - current_data_size) % DATA_SIZE_INCREMENT = 0
  BY <1>1 DEF TypeOK, SizesAgree
<1>4. DATA_SIZE - current_data_size \in Nat /\ DATA_SIZE_INCREMENT \in Nat \ {0}
  BY <1>3 DEF Sizes
<1>5. /\ (DATA_SIZE - current_data_size) \div DATA_SIZE_INCREMENT \in Nat
      /\ SizesToGo = (DATA_SIZE - current_data_size) \div DATA_SIZE_INCREMENT + 1
  BY <1>1, <1>2, <1>4 DEF SizesToGo
<1>6. CASE Continue
  BY <1>1, <1>2, <1>5, <1>6 DEF Continue, flags, SizesToGo
<1>7. CASE AskDelete
  <2>1. 0 \div DATA_SIZE_INCREMENT = 0
    BY <1>4
  <2>2. SizesToGo = 1 /\ SizesToGo' = 0
    BY <1>1, <1>3, <1>5, <1>7, <2>1 DEF AskDelete, SizesToGo, Sizes
  <2> QED
    BY <1>2, <1>7, <2>2 DEF AskDelete
<1>8. CASE AskNextSize
  <2>1. /\ (DATA_SIZE - current_data_size) \div DATA_SIZE_INCREMENT \in Nat \ {0}
        /\ (DATA_SIZE - current_data_size - DATA_SIZE_INCREMENT) \div DATA_SIZE_INCREMENT
             = (DATA_SIZE - current_data_size) \div DATA_SIZE_INCREMENT - 1
    <3>1. DATA_SIZE - current_data_size \in Nat \ {0}
      BY <1>3, <1>4, <1>8 DEF AskNextSize, Sizes
    <3> QED
      BY <1>3, <1>4, <3>1, OneSizeLess
  <2>2. /\ kill_prem_task' = 0 /\ pc' # "deleted"
        /\ DATA_SIZE - current_data_size' =
               DATA_SIZE - current_data_size - DATA_SIZE_INCREMENT
    BY <1>1, <1>2, <1>3, <1>4, <1>8 DEF AskNextSize, Sizes
  <2>3. SizesToGo' = SizesToGo - 1
    BY <1>5, <2>1, <2>2 DEF SizesToGo
  <2> QED
    BY <1>2, <1>5, <1>8, <2>1, <2>3 DEF AskNextSize
<1> QED
  BY <1>6, <1>7, <1>8

LEMMA OthersCount ==
    ASSUME MeasurementInv,
           RevokeFailed \/ MeasureResponse \/ ChangePrefetchSize \/ Delete \/ Display \/ GoOn
    PROVE  SizesToGo' = SizesToGo /\ UNCHANGED test_number
<1>1. TypeOK
  BY DEF MeasurementInv
<1> QED
  BY <1>1 DEF RevokeFailed, MeasureResponse, ChangePrefetchSize, Delete, Display, GoOn,
              Step, SizesToGo, code, flags, prem, past, TypeOK

LEMMA SizesStayAccounted ==
    ASSUME MeasurementInv, SizesAccounted, [Next]_vars
    PROVE  SizesAccounted'
<1> DEFINE asked == ask_display_results + kill_prem_task
<1>1. /\ TypeOK /\ OwnRequests /\ Len(results) \in Nat /\ results \in Seq(Seq(Jobs))
      /\ ask_display_results \in {0, 1} /\ kill_prem_task \in {0, 1}
  BY DEF MeasurementInv, TypeOK
<1>2. asked \in Int /\ SizesToGo \in Int /\ SizesToMeasure \in Int
  <2>1. asked \in Int
    BY <1>1
  <2>2. SizesToGo \in Int
    BY <1>1 DEF SizesToGo, TypeOK, Sizes
  <2>3. SizesToMeasure \in Int
    BY DEF SizesToMeasure
  <2> QED
    BY <2>1, <2>2, <2>3
<1>3. Len(results) + asked + SizesToGo = SizesToMeasure
  BY DEF SizesAccounted
<1>4. SizesToMeasure' = SizesToMeasure
  BY DEF SizesToMeasure
<1>5. CASE measuring_task
  <2>1. results' = results
    BY <1>5 DEF measuring_task
  <2>2. \/ SizesToGo' = SizesToGo /\ asked' = asked
        \/ SizesToGo' = SizesToGo - 1 /\ asked' = asked + 1
    BY <1>5, CodeCounts
  <2> HIDE DEF asked
  <2>3. Len(results) + asked' + SizesToGo' = SizesToMeasure
    BY <1>1, <1>2, <1>3, <2>2
  <2> QED
    BY <1>4, <2>1, <2>3 DEF asked, SizesAccounted
<1>6. CASE RevokeFailed \/ MeasureResponse \/ ChangePrefetchSize \/ GoOn
  <2>1. UNCHANGED <<results, ask_display_results, kill_prem_task>>
    BY <1>6 DEF RevokeFailed, MeasureResponse, ChangePrefetchSize, GoOn, flags, past
  <2> QED
    BY <1>4, <1>6, <2>1, OthersCount DEF SizesAccounted
<1>7. CASE Delete \/ Display
  <2>1. Len(results') = Len(results) + 1
    BY <1>1, <1>7 DEF Delete, Display, display_results, TypeOK
  <2>2. asked = 1 /\ asked' = 0
    BY <1>1, <1>7 DEF Delete, Display, OwnRequests
  <2>3. SizesToGo' = SizesToGo
    BY <1>7, OthersCount
  <2> HIDE DEF asked
  <2>4. Len(results') + asked' + SizesToGo' = SizesToMeasure
    BY <1>1, <1>2, <1>3, <2>1, <2>2, <2>3
  <2> QED
    BY <1>4, <2>4 DEF asked, SizesAccounted
<1>8. CASE UNCHANGED vars
  BY <1>4, <1>8 DEF vars, code, flags, prem, past, SizesToGo, SizesAccounted
<1> QED
  BY <1>5, <1>6, <1>7, <1>8 DEF Next

(* The task is deleted when all sizes are displayed, not before; no size is   *)
(* displayed twice. *)
THEOREM AllSizesDisplayed == Spec => []DeletedWhenComplete
<1>1. Init => SizesAccounted
  <2> SUFFICES ASSUME Init PROVE SizesAccounted
    OBVIOUS
  <2>1. (DATA_SIZE - MIN_DATA_SIZE) \div DATA_SIZE_INCREMENT \in Int
    OBVIOUS
  <2> QED
    BY <2>1 DEF Init, SizesAccounted, SizesToGo, SizesToMeasure
<1>2. MeasurementInv /\ SizesAccounted /\ [Next]_vars => SizesAccounted'
  BY SizesStayAccounted
<1>3. MeasurementInv /\ SizesAccounted => DeletedWhenComplete
  <2> SUFFICES ASSUME TypeOK, OwnRequests, SizesAccounted PROVE DeletedWhenComplete
    BY DEF MeasurementInv
  <2>1. Len(results) \in Nat /\ ask_display_results \in Nat /\ kill_prem_task \in Nat
    BY DEF TypeOK
  <2>2. SizesToGo \in Nat
    <3>1. DATA_SIZE - current_data_size \in Nat /\ DATA_SIZE_INCREMENT \in Nat \ {0}
      BY DEF TypeOK, Sizes
    <3>2. (DATA_SIZE - current_data_size) \div DATA_SIZE_INCREMENT \in Nat
      BY <3>1
    <3> QED
      BY <3>2 DEF SizesToGo
  <2>3. pc = "deleted" =>
            ask_display_results = 0 /\ kill_prem_task = 0 /\ SizesToGo = 0
    BY DEF OwnRequests, Ended, TypeOK, SizesToGo
  <2> HIDE DEF SizesToGo
  <2> QED
    BY <2>1, <2>2, <2>3 DEF SizesAccounted, DeletedWhenComplete
<1> QED
  BY <1>1, <1>2, <1>3, MeasurementInvariant, PTL DEF Spec

LEMMA JobsToGoIsNat ==
    ASSUME MeasurementInv, pc # "deleted"
    PROVE  JobsToGo \in Nat
<1>1. TypeOK /\ CountsAgree
  BY DEF MeasurementInv
<1>2. SizesToGo \in Nat /\ (kill_prem_task # 1 => SizesToGo > 0)
  <2>1. (DATA_SIZE - current_data_size) \div DATA_SIZE_INCREMENT \in Nat
    <3>1. DATA_SIZE - current_data_size \in Nat /\ DATA_SIZE_INCREMENT \in Nat \ {0}
      BY <1>1 DEF TypeOK, Sizes
    <3> QED
      BY <3>1
  <2> QED
    BY <2>1 DEF SizesToGo
<1>3. /\ test_number \in 0 .. NUMBER_OF_TESTS - 1 /\ MaxSkips - skips \in Nat
      /\ kill_prem_task = 1 => test_number = 0
  BY <1>1 DEF TypeOK, CountsAgree, Ended
<1>4. SizesToGo * NUMBER_OF_TESTS - test_number \in Nat
  <2> HIDE DEF SizesToGo
  <2>1. CASE SizesToGo > 0
    <3>1. /\ SizesToGo - 1 \in Nat
          /\ (SizesToGo - 1) * NUMBER_OF_TESTS \in Nat
          /\ SizesToGo * NUMBER_OF_TESTS =
                 (SizesToGo - 1) * NUMBER_OF_TESTS + NUMBER_OF_TESTS
      BY <1>2, <2>1
    <3> QED
      BY <1>3, <3>1
  <2>2. CASE SizesToGo = 0
    BY <1>2, <1>3, <2>2
  <2> QED
    BY <1>2, <2>1, <2>2
<1> QED
  BY <1>3, <1>4 DEF JobsToGo

(* Each job takes one from the jobs to go, the one whose revoke fails too. *)
LEMMA JobsDecrease ==
    ASSUME MeasurementInv, measuring_task \/ RevokeFailed
    PROVE  JobsToGo' = JobsToGo - 1
<1>1. /\ test_number \in Int /\ NUMBER_OF_TESTS \in Int
      /\ MaxSkips - skips \in Int /\ skips \in Int /\ MaxSkips \in Int
  BY DEF MeasurementInv, TypeOK
<1>2. CASE measuring_task
  <2>1. skips' = skips
    BY <1>2 DEF measuring_task
  <2>2. /\ SizesToGo \in Nat
        /\ \/ SizesToGo' = SizesToGo /\ test_number' = test_number + 1
           \/ SizesToGo' = SizesToGo - 1
              /\ test_number + 1 = NUMBER_OF_TESTS /\ test_number' = 0
    BY <1>2, CodeCounts
  <2> DEFINE product == SizesToGo * NUMBER_OF_TESTS
  <2>3. product \in Int /\ (SizesToGo - 1) * NUMBER_OF_TESTS = product - NUMBER_OF_TESTS
    BY <1>1, <2>2
  <2>4. CASE SizesToGo' = SizesToGo /\ test_number' = test_number + 1
    <3>1. JobsToGo' = product - (test_number + 1) + (MaxSkips - skips)
      BY <2>1, <2>4 DEF JobsToGo
    <3> HIDE DEF product
    <3> QED
      BY <1>1, <2>3, <3>1 DEF JobsToGo, product
  <2>5. CASE SizesToGo' = SizesToGo - 1
             /\ test_number + 1 = NUMBER_OF_TESTS /\ test_number' = 0
    <3>1. JobsToGo' = (product - NUMBER_OF_TESTS) - 0 + (MaxSkips - skips)
      BY <2>1, <2>3, <2>5 DEF JobsToGo
    <3>2. JobsToGo = product - test_number + (MaxSkips - skips)
      BY DEF JobsToGo
    <3> HIDE DEF product
    <3> QED
      BY <1>1, <2>3, <2>5, <3>1, <3>2
  <2> QED
    BY <2>2, <2>4, <2>5
<1>3. CASE RevokeFailed
  <2>1. SizesToGo' = SizesToGo /\ test_number' = test_number
    BY <1>3, OthersCount
  <2>2. skips' = skips + 1
    BY <1>3 DEF RevokeFailed
  <2>3. SizesToGo * NUMBER_OF_TESTS \in Int
    <3>1. SizesToGo \in Int
      BY DEF MeasurementInv, TypeOK, SizesToGo, Sizes
    <3> QED
      BY <1>1, <3>1
  <2> QED
    BY <1>1, <2>1, <2>2, <2>3 DEF JobsToGo
<1> QED
  BY <1>2, <1>3

LEMMA JobsStay ==
    ASSUME MeasurementInv, MeasureResponse \/ ChangePrefetchSize \/ Delete \/ Display \/ GoOn
    PROVE  JobsToGo' = JobsToGo
<1>1. skips' = skips
  BY DEF MeasureResponse, ChangePrefetchSize, Delete, Display, GoOn, past
<1> QED
  BY <1>1, OthersCount DEF JobsToGo

(* The measurement cannot go on for ever: every step leaves fewer to take.    *)
(* With the fairness of FairSpec, and if memory phases end, a step is taken   *)
(* until the task is deleted: that is Finishes. *)
THEOREM MeasurementIsBounded == Spec => FewerStepsToGo
<1> DEFINE Bounded == pc # "deleted" => JobsToGo \in Nat
<1>1. MeasurementInv /\ Bounded' /\ [Next]_vars
      => [StepsToGo' \in Nat /\ StepsToGo' < StepsToGo]_vars
  <2> SUFFICES ASSUME MeasurementInv, Bounded', Next
               PROVE  StepsToGo' \in Nat /\ StepsToGo' < StepsToGo
    OBVIOUS
  <2> USE DEF Step
  <2>1. pc # "deleted"
    BY DEF Next, measuring_task, RevokeFailed, MeasureResponse, ChangePrefetchSize,
           Delete, Display, GoOn
  <2>2. JobsToGo \in Nat
    BY <2>1, JobsToGoIsNat
  <2>3. CASE measuring_task \/ RevokeFailed
    <3>1. pc = "prefetch" /\ pc' = "account"
      BY <2>3 DEF measuring_task, RevokeFailed
    <3>2. JobsToGo' \in Nat
      BY <3>1
    <3>3. JobsToGo' = JobsToGo - 1
      BY <2>3, JobsDecrease
    <3> QED
      BY <2>2, <3>1, <3>2, <3>3 DEF StepsToGo
  <2>4. CASE MeasureResponse \/ ChangePrefetchSize \/ Delete \/ Display \/ GoOn
    <3>1. \/ pc = "account" /\ pc' = "size"
          \/ pc = "size" /\ pc' = "results"
          \/ pc = "results" /\ pc' \in {"deleted", "prefetch"}
      BY <2>4 DEF MeasureResponse, ChangePrefetchSize, Delete, Display, GoOn
    <3>2. JobsToGo' = JobsToGo
      BY <2>4, JobsStay
    <3> QED
      BY <2>2, <3>1, <3>2 DEF StepsToGo
  <2> QED
    BY <2>3, <2>4 DEF Next
<1>2. MeasurementInv => Bounded
  BY JobsToGoIsNat
<1> QED
  BY <1>1, <1>2, MeasurementInvariant, PTL DEF Spec, FewerStepsToGo
=============================================================================
