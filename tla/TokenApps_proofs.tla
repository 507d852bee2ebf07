--------------------------- MODULE TokenApps_proofs ---------------------------
(***************************************************************************)
(* What holds of the three applications that ask for the token, for any    *)
(* number of cores.  Of execution-prem (PremApp): the pairs of requests    *)
(* and revokes under any policy of the hypervisor, the resumes of paused   *)
(* prefetches when IPIs stay in order, and the exclusive prefetch of a     *)
(* core that no other outranks.  Of execution-fpsched (Fps!): the pairs,   *)
(* halted cores included, and the exclusive prefetch when no answer has a  *)
(* time to wait.  Of execution-microbenchmarks (Micro!): the token is held *)
(* in measurements only, and each IPI is counted once with its own time.   *)
(* All rest on what the arbiter does.                                      *)
(***************************************************************************)
EXTENDS PremApp, Integers, Sequences, TLAPS

VARIABLE ack_access                     \* of execution-fpsched
Fps == INSTANCE FpschedApp

CONSTANTS Me, Runs, Durations, LastPrio, Word, Horizon
VARIABLES                               \* of execution-microbenchmarks
    ready, counter, prio, max_time, min_time, sum, start_ipi_time, arbitration_time,
    ipi_received, end_ipi_time, idPending, now, times, latencies
Micro == INSTANCE MicroBench
INSTANCE MicroTasks

USE CoresAssumption DEF LoopPCs, JobPCs, InJob, IPIs

-----------------------------------------------------------------------------
(* What the answers of the hypervisor do to owner, waiting cores and IPIs on  *)
(* their way. *)

(* A request or an update of a core that neither owns nor waits.              *)
LEMMA Asked ==
    ASSUME ArbiterTypeOK, owner \notin waiting,
           NEW c \in Cores, owner # c, c \notin waiting,
           NEW ack \in {0, 1}, Ask(c, ack)
    PROVE  /\ ArbiterTypeOK'
           /\ owner' \notin waiting'
           /\ \A d \in Cores : owner' = d \/ d \in waiting'
                                  <=> d = c \/ owner = d \/ d \in waiting
           /\ ack = 1 => owner' = c
           /\ ack = 0 => owner' # c
           /\ owner' \in {owner, c}
           /\ \A d \in Cores : pending'[d] \in {pending[d], pending[d] \cup {"pause"}}
           /\ \A d \in Cores : pending'[d] # pending[d] => owner = d /\ owner' # d
           /\ OrderedIPIs /\ Settled(c) => pending'[c] = {}
           /\ \A d \in Cores : Unrivalled(d) => /\ pending'[d] = pending[d]
                                                /\ owner = d => owner' = d
<1> USE CoresAssumption DEF ArbiterTypeOK, IPIs
<1>1. CASE ack = 1 /\ Grant(c)
  BY <1>1 DEF Grant, Settled
<1>2. CASE ack = 1 /\ Preempt(c)
  BY <1>2 DEF Preempt, Send, Settled, Unrivalled
<1>3. CASE ack = 0 /\ Deny(c)
  BY <1>3 DEF Deny, Settled
<1> QED
  BY <1>1, <1>2, <1>3 DEF Ask

(* A revoke: the token goes to nobody, or to one core with a resume.          *)
LEMMA Revoked ==
    ASSUME ArbiterTypeOK, owner \notin waiting,
           NEW c \in Cores, NEW result \in {0, 1}, Revoke(c, result)
    PROVE  /\ ArbiterTypeOK'
           /\ owner' \notin waiting'
           /\ \A d \in Cores : owner' = d \/ d \in waiting'
                                  <=> d # c /\ (owner = d \/ d \in waiting)
           /\ \A d \in Cores : owner' = d => owner = d \/ "resume" \in pending'[d]
           /\ \A d \in Cores : pending'[d] \in {pending[d], pending[d] \cup {"resume"}}
           /\ \A d \in Cores : pending'[d] # pending[d] => d \in waiting
           /\ OrderedIPIs => \A d \in Cores : owner' = d => owner = d \/ pending[d] = {}
           /\ owner # c => owner' = owner
<1> USE CoresAssumption DEF ArbiterTypeOK, IPIs
<1>1. CASE HandOver(c)
  <2>1. PICK d \in waiting : owner' = d /\ waiting' = waiting \ {d} /\ Send(d, "resume")
    BY <1>1 DEF HandOver
  <2> QED
    BY <1>1, <2>1 DEF HandOver, Send, Settled
<1>2. CASE Release(c)
  BY <1>2 DEF Release
<1>3. CASE Withdraw(c)
  BY <1>3 DEF Withdraw
<1> QED
  BY <1>1, <1>2, <1>3 DEF Revoke

-----------------------------------------------------------------------------
LEMMA InitInv == Init => TokenInv /\ StoppedInv /\ GrantInv
BY DEF Init, ArbiterInit, TokenInv, StoppedInv, Stopped, GrantInv, TypeOK, ArbiterTypeOK

-----------------------------------------------------------------------------
(* One step per action. *)

LEMMA TaskKeeps ==
    ASSUME TokenInv, NEW c \in Cores, TaskStep(c)
    PROVE  TokenInv'
<1> USE DEF TokenInv, TypeOK, Step, ChangeState
<1>1. CASE EnterMemoryPhase(c)
  BY <1>1 DEF EnterMemoryPhase, arbVars, ArbiterTypeOK
<1>2. CASE RequestMemory(c)
  <2>1. PICK ack \in {0, 1} : Ask(c, ack) /\ answer' = [answer EXCEPT ![c] = ack]
    BY <1>2 DEF RequestMemory
  <2>2. ~InJob(c) /\ Settled(c)
    BY <1>2 DEF RequestMemory
  <2> QED
    BY <1>2, <2>1, <2>2, Asked DEF RequestMemory, ArbiterTypeOK
<1>3. CASE StoreAnswer(c)
  <2>1. 1 - answer[c] \in {0, 1} /\ Lines[c] \in Nat \ {0}
    BY LinesAssumption
  <2> QED
    BY <1>3, <2>1 DEF StoreAnswer, arbVars, ArbiterTypeOK
<1>4. CASE CheckSuspend(c)
  BY <1>4 DEF CheckSuspend, arbVars, ArbiterTypeOK
<1>5. CASE FetchLine(c)
  BY <1>5 DEF FetchLine, arbVars, ArbiterTypeOK
<1>6. CASE WaitForInterrupt(c)
  BY <1>6 DEF WaitForInterrupt, arbVars, ArbiterTypeOK
<1>7. CASE LeaveMemoryPhase(c)
  BY <1>7 DEF LeaveMemoryPhase, arbVars, ArbiterTypeOK
<1>8. CASE RevokeMemory(c)
  <2>1. PICK result \in {0, 1} : Revoke(c, result)
    BY <1>8 DEF RevokeMemory
  <2> QED
    BY <1>8, <2>1, Revoked DEF RevokeMemory
<1> QED
  BY <1>1, <1>2, <1>3, <1>4, <1>5, <1>6, <1>7, <1>8 DEF TaskStep

LEMMA HandlerKeeps ==
    ASSUME TokenInv, NEW c \in Cores, HandlerStep(c) \/ Tick(c)
    PROVE  TokenInv'
<1> USE DEF TokenInv, TypeOK, Step, ChangeState, ArbiterTypeOK
<1>1. CASE ipi_pause_handler(c)
  BY <1>1 DEF ipi_pause_handler, Take, Wake
<1>2. CASE ipi_resume_handler(c)
  BY <1>2 DEF ipi_resume_handler, Take, Wake
<1>3. CASE Tick(c)
  BY <1>3 DEF Tick, arbVars
<1> QED
  BY <1>1, <1>2, <1>3 DEF HandlerStep

LEMMA TokenKept == TokenInv /\ UNCHANGED vars => TokenInv'
BY DEF TokenInv, TypeOK, ArbiterTypeOK, vars, appVars, arbVars

(* No lost resume: what Asked and Revoked say of the owner carries it over    *)
(* the hypercalls, and TokenInv over the pause. *)
LEMMA TaskKeepsStopped ==
    ASSUME OrderedIPIs, TokenInv, StoppedInv, NEW c \in Cores, TaskStep(c)
    PROVE  StoppedInv'
<1> USE DEF StoppedInv, Stopped, TokenInv, TypeOK, Step, ChangeState
<1>1. CASE RequestMemory(c)
  <2>1. PICK ack \in {0, 1} : Ask(c, ack) /\ answer' = [answer EXCEPT ![c] = ack]
    BY <1>1 DEF RequestMemory
  <2>2. ~InJob(c) /\ Settled(c)
    BY <1>1 DEF RequestMemory
  <2>3. /\ ack = 0 => owner' # c
        /\ owner' \in {owner, c}
        /\ \A d \in Cores : pending[d] \subseteq pending'[d]
    BY <2>1, <2>2, Asked
  <2> QED
    BY <1>1, <2>1, <2>3 DEF RequestMemory
<1>2. CASE RevokeMemory(c)
  <2>1. PICK result \in {0, 1} : Revoke(c, result)
    BY <1>2 DEF RevokeMemory
  <2>2. /\ \A d \in Cores : owner' = d => owner = d \/ "resume" \in pending'[d]
        /\ \A d \in Cores : pending[d] \subseteq pending'[d]
    BY <2>1, Revoked
  <2> QED
    BY <1>2, <2>2 DEF RevokeMemory
<1>3. CASE EnterMemoryPhase(c)
  BY <1>3 DEF EnterMemoryPhase, arbVars
<1>4. CASE StoreAnswer(c)
  BY <1>4 DEF StoreAnswer, arbVars
<1>5. CASE CheckSuspend(c) \/ FetchLine(c) \/ WaitForInterrupt(c)
  BY <1>5 DEF CheckSuspend, FetchLine, WaitForInterrupt, arbVars
<1>6. CASE LeaveMemoryPhase(c)
  BY <1>6 DEF LeaveMemoryPhase, arbVars
<1> QED
  BY <1>1, <1>2, <1>3, <1>4, <1>5, <1>6 DEF TaskStep

LEMMA HandlerKeepsStopped ==
    ASSUME OrderedIPIs, TokenInv, StoppedInv, NEW c \in Cores,
           HandlerStep(c) \/ Tick(c)
    PROVE  StoppedInv'
<1> USE DEF StoppedInv, Stopped, TokenInv, TypeOK, Step, ChangeState, ArbiterTypeOK
<1>1. CASE ipi_pause_handler(c)
  BY <1>1 DEF ipi_pause_handler, Take, Wake
<1>2. CASE ipi_resume_handler(c)
  BY <1>2 DEF ipi_resume_handler, Take, Wake
<1>3. CASE Tick(c)
  BY <1>3 DEF Tick, arbVars
<1> QED
  BY <1>1, <1>2, <1>3 DEF HandlerStep

(* Of a core that no other outranks, a grant lasts until the revoke.         *)
LEMMA TaskKeepsGrant ==
    ASSUME TokenInv, GrantInv, NEW c \in Cores, TaskStep(c)
    PROVE  GrantInv'
<1> USE DEF GrantInv, TokenInv, TypeOK, Step, ChangeState
<1>1. CASE RequestMemory(c)
  <2>1. PICK ack \in {0, 1} : Ask(c, ack) /\ answer' = [answer EXCEPT ![c] = ack]
    BY <1>1 DEF RequestMemory
  <2>2. ~InJob(c) /\ Settled(c)
    BY <1>1 DEF RequestMemory
  <2>3. /\ ack = 1 => owner' = c
        /\ \A d \in Cores : Unrivalled(d) => /\ pending'[d] = pending[d]
                                             /\ owner = d => owner' = d
    BY <2>1, <2>2, Asked
  <2> QED
    BY <1>1, <2>1, <2>3 DEF RequestMemory
<1>2. CASE RevokeMemory(c)
  <2>1. PICK result \in {0, 1} : Revoke(c, result)
    BY <1>2 DEF RevokeMemory
  <2>2. /\ owner # c => owner' = owner
        /\ \A d \in Cores : pending'[d] \in {pending[d], pending[d] \cup {"resume"}}
    BY <2>1, Revoked
  <2> QED
    BY <1>2, <2>2 DEF RevokeMemory
<1>3. CASE EnterMemoryPhase(c)
  BY <1>3 DEF EnterMemoryPhase, arbVars
<1>4. CASE StoreAnswer(c)
  BY <1>4 DEF StoreAnswer, arbVars
<1>5. CASE CheckSuspend(c) \/ FetchLine(c) \/ WaitForInterrupt(c)
  BY <1>5 DEF CheckSuspend, FetchLine, WaitForInterrupt, arbVars
<1>6. CASE LeaveMemoryPhase(c)
  BY <1>6 DEF LeaveMemoryPhase, arbVars
<1> QED
  BY <1>1, <1>2, <1>3, <1>4, <1>5, <1>6 DEF TaskStep

LEMMA HandlerKeepsGrant ==
    ASSUME TokenInv, GrantInv, NEW c \in Cores,
           HandlerStep(c) \/ Tick(c)
    PROVE  GrantInv'
<1> USE DEF GrantInv, TokenInv, TypeOK, Step, ChangeState, ArbiterTypeOK
<1>1. CASE ipi_pause_handler(c)
  <2>1. ~Unrivalled(c)
    BY <1>1 DEF ipi_pause_handler, Take
  <2>2. ASSUME NEW d \in Cores, Unrivalled(d)
        PROVE  d # c /\ UNCHANGED <<owner, pending[d], pc[d], answer[d],
                                    suspend_prefetch[d], current_state[d]>>
    BY <1>1, <2>1, <2>2 DEF ipi_pause_handler, Take, Wake
  <2> QED
    BY <2>2
<1>2. CASE ipi_resume_handler(c)
  BY <1>2 DEF ipi_resume_handler, Take, Wake
<1>3. CASE Tick(c)
  BY <1>3 DEF Tick, arbVars
<1> QED
  BY <1>1, <1>2, <1>3 DEF HandlerStep

LEMMA TokenStep == TokenInv /\ [Next]_vars => TokenInv'
BY TaskKeeps, HandlerKeeps, TokenKept DEF Next

LEMMA GrantStep == TokenInv /\ GrantInv /\ [Next]_vars => GrantInv'
<1>1. GrantInv /\ UNCHANGED vars => GrantInv'
  BY DEF GrantInv, vars, appVars, arbVars
<1> QED
  BY <1>1, TaskKeepsGrant, HandlerKeepsGrant DEF Next

-----------------------------------------------------------------------------
(* The pairs of requests and revokes stay matched, and a core with a pause on *)
(* its way has lost the token: for every policy of the hypervisor.            *)
THEOREM TokenInvariant == Spec => []TokenInv
<1>1. Init => TokenInv
  BY InitInv
<1>2. TokenInv /\ [Next]_vars => TokenInv'
  BY TokenStep
<1> QED
  BY <1>1, <1>2, PTL DEF Spec

(* The types of all variables, the line count above all (it never wraps).     *)
THEOREM TypeCorrect == Spec => []TypeOK
<1>1. TokenInv => TypeOK
  BY DEF TokenInv
<1> QED
  BY <1>1, TokenInvariant, PTL

(* Owner and waiting cores are exactly those between request and revoke.      *)
THEOREM TokenAccounting == Spec => []TokenMatchesJobs
<1>1. TokenInv => TokenMatchesJobs
  BY DEF TokenInv, TokenMatchesJobs
<1> QED
  BY <1>1, TokenInvariant, PTL

(* No resume of a core paused in its prefetch is lost when IPIs stay in order.*)
THEOREM PausedAreResumed ==
    ASSUME OrderedIPIs PROVE Spec => []PausedIsResumed
<1>1. Init => StoppedInv
  BY InitInv
<1>2. TokenInv /\ StoppedInv /\ [Next]_vars => StoppedInv'
  <2>1. StoppedInv /\ UNCHANGED vars => StoppedInv'
    BY DEF StoppedInv, Stopped, vars, appVars, arbVars
  <2> QED
    BY <2>1, TaskKeepsStopped, HandlerKeepsStopped DEF Next
<1>3. StoppedInv => PausedIsResumed
  BY DEF StoppedInv, Stopped, PausedIsResumed
<1> QED
  BY <1>1, <1>2, <1>3, TokenInvariant, PTL DEF Spec

(* A core that no other outranks prefetches only with the token, under any    *)
(* policy and in any order of IPIs. *)
THEOREM UnrivalledPrefetchAlone ==
    Spec => []UnrivalledOwnsToken
<1>1. Init => GrantInv
  BY InitInv
<1>2. TokenInv /\ GrantInv /\ [Next]_vars => GrantInv'
  BY GrantStep
<1>3. TokenInv /\ GrantInv => UnrivalledOwnsToken
  BY DEF TokenInv, TypeOK, GrantInv, UnrivalledOwnsToken, Fetching
<1> QED
  BY <1>1, <1>2, <1>3, TokenInvariant, PTL DEF Spec

-----------------------------------------------------------------------------
(* execution-prem, if no pause comes between the change of state and the store *)
(* of the answer: the cores that may fetch. *)

LEMMA HeldInit == Init => HeldInv
BY DEF Init, ArbiterInit, HeldInv

LEMMA TaskKeepsHeld ==
    ASSUME TokenInv, OrderedIPIs, HeldInv, NEW c \in Cores, TaskStep(c)
    PROVE  HeldInv'
<1> USE DEF TokenInv, TypeOK, HeldInv, Step, ChangeState
<1>1. CASE EnterMemoryPhase(c)
  BY <1>1 DEF EnterMemoryPhase, arbVars
<1>2. CASE RequestMemory(c)
  <2>1. PICK ack \in {0, 1} : Ask(c, ack) /\ answer' = [answer EXCEPT ![c] = ack]
    BY <1>2 DEF RequestMemory
  <2>2. ~InJob(c) /\ Settled(c) /\ pc' = [pc EXCEPT ![c] = "store"]
        /\ UNCHANGED <<remaining, current_state, suspend_prefetch>>
    BY <1>2 DEF RequestMemory
  <2>3. /\ ack = 1 => owner' = c
        /\ owner' \in {owner, c}
        /\ \A d \in Cores : pending'[d] \in {pending[d], pending[d] \cup {"pause"}}
        /\ pending'[c] = {}
    BY <2>1, <2>2, Asked
  <2>4. \A d \in Cores : owner = d => owner' = d \/ "pause" \in pending'[d]
    BY <2>1, <2>2 DEF Ask, Grant, Preempt, Deny, Send, ArbiterTypeOK
  <2>5. \A d \in Cores : owner = d /\ "resume" \in pending'[d] => owner' = d
    BY <2>1, <2>2 DEF Ask, Grant, Preempt, Deny, Send, Settled, ArbiterTypeOK
  <2> HIDE DEF InJob
  <2>6. \A d \in Cores \ {c} : InJob(d)' = InJob(d) /\ pc'[d] = pc[d] /\ answer'[d] = answer[d]
    BY <2>1, <2>2 DEF InJob
  <2>7. pc[c] = "request" /\ pc'[c] = "store" /\ answer'[c] = ack
    BY <1>2, <2>1, <2>2 DEF RequestMemory
  <2> QED
    BY <2>2, <2>3, <2>4, <2>5, <2>6, <2>7
<1>3. CASE StoreAnswer(c)
  BY <1>3 DEF StoreAnswer, arbVars
<1>4. CASE CheckSuspend(c)
  BY <1>4 DEF CheckSuspend, arbVars
<1>5. CASE FetchLine(c)
  BY <1>5 DEF FetchLine, arbVars
<1>6. CASE WaitForInterrupt(c)
  BY <1>6 DEF WaitForInterrupt, arbVars
<1>7. CASE LeaveMemoryPhase(c)
  BY <1>7 DEF LeaveMemoryPhase, arbVars
<1>8. CASE RevokeMemory(c)
  <2>1. PICK result \in {0, 1} : Revoke(c, result)
    BY <1>8 DEF RevokeMemory
  <2>2. /\ pc' = [pc EXCEPT ![c] = "compute"]
        /\ UNCHANGED <<answer, remaining, current_state, suspend_prefetch>>
    BY <1>8 DEF RevokeMemory
  <2>3. \A d \in Cores \ {c} : /\ owner = d => owner' = d
                               /\ "pause" \in pending[d] => "pause" \in pending'[d]
                               /\ "resume" \in pending'[d] =>
                                      "resume" \in pending[d] \/ owner' = d
    BY <2>1 DEF Revoke, HandOver, Release, Withdraw, Send, ArbiterTypeOK
  <2> QED
    BY <2>2, <2>3
<1> QED
  BY <1>1, <1>2, <1>3, <1>4, <1>5, <1>6, <1>7, <1>8 DEF TaskStep

LEMMA HandlerKeepsHeld ==
    ASSUME TokenInv, OrderedIPIs, HeldInv, NEW c \in Cores, HandlerStep(c) \/ Tick(c),
           pc[c] \in {"request", "store"} => ~ipi_pause_handler(c)
    PROVE  HeldInv'
<1> USE DEF TokenInv, TypeOK, HeldInv, Step, ChangeState, ArbiterTypeOK
<1>1. CASE ipi_pause_handler(c)
  BY <1>1 DEF ipi_pause_handler, Take, Wake
<1>2. CASE ipi_resume_handler(c)
  BY <1>2 DEF ipi_resume_handler, Take, Wake
<1>3. CASE Tick(c)
  BY <1>3 DEF Tick, arbVars
<1> QED
  BY <1>1, <1>2, <1>3 DEF HandlerStep

(* Every step is one of PremPromise, or is not seen there. *)

phases == [c \in Cores |-> phaseOf(c)]
lefts  == [c \in Cores |-> leftOf(c)]

MovesOnly(c) ==
    \A d \in Cores \ {c} : pc'[d] = pc[d] /\ remaining'[d] = remaining[d]

(* A step that moves core c alone, to phase ph with n lines to fetch. *)
LEMMA MovesOne ==
    ASSUME NEW c \in Cores, NEW ph, NEW n, MovesOnly(c),
           phaseOf(c)' = ph, leftOf(c)' = n
    PROVE  /\ phases' = [phases EXCEPT ![c] = ph]
           /\ lefts' = [lefts EXCEPT ![c] = n]
<1>1. \A d \in Cores \ {c} : phaseOf(d)' = phaseOf(d) /\ leftOf(d)' = leftOf(d)
  BY DEF MovesOnly, phaseOf, leftOf
<1> QED
  BY <1>1 DEF phases, lefts

LEMMA IsStutter ==
    ASSUME NEW c \in Cores, UNCHANGED <<owner, Overtaken, OnLastLine>>,
           phases' = [phases EXCEPT ![c] = phaseOf(c)],
           lefts' = [lefts EXCEPT ![c] = leftOf(c)]
    PROVE  UNCHANGED Promise!promiseVars
<1>1. UNCHANGED phases
  BY DEF phases
<1>2. UNCHANGED lefts
  BY DEF lefts
<1> QED
  BY <1>1, <1>2 DEF Promise!promiseVars, phases, lefts

LEMMA IsEnter ==
    ASSUME NEW c \in Cores, phases[c] = "rest",
           phases' = [phases EXCEPT ![c] = "memory"],
           NEW n \in Nat \ {0}, lefts' = [lefts EXCEPT ![c] = n],
           \/ Promise!TurnTo(c)
           \/ owner # NoCore /\ UNCHANGED <<owner, Overtaken, OnLastLine>>
    PROVE  Promise!Next
<1>1. lefts'[c] = n
  BY DEF lefts
<1> QED
  BY <1>1 DEF Promise!Next, Promise!Enter, phases, lefts

LEMMA IsFetch ==
    ASSUME NEW c \in Cores, c \in {owner} \cup Overtaken \cup OnLastLine,
           phases[c] = "memory", NEW n \in Nat \ {0}, lefts[c] = n,
           phases' = [phases EXCEPT ![c] = "memory"],
           lefts' = [lefts EXCEPT ![c] = n - 1],
           UNCHANGED <<owner, Overtaken>>, OnLastLine' = OnLastLine \ {c}
    PROVE  Promise!Next
<1>1. UNCHANGED phases
  BY DEF phases
<1>2. lefts[c] > 0 /\ lefts' = [lefts EXCEPT ![c] = @ - 1]
  OBVIOUS
<1> QED
  BY <1>1, <1>2 DEF Promise!Next, Promise!Fetch, phases, lefts

LEMMA IsTell ==
    ASSUME NEW c \in Cores, c \in Overtaken, UNCHANGED owner,
           phases' = [phases EXCEPT ![c] = phaseOf(c)],
           lefts' = [lefts EXCEPT ![c] = leftOf(c)],
           Overtaken' = Overtaken \ {c},
           OnLastLine' \in {OnLastLine, OnLastLine \cup {c}}
    PROVE  Promise!Next
<1>1. UNCHANGED phases
  BY DEF phases
<1>2. UNCHANGED lefts
  BY DEF lefts
<1> QED
  BY <1>1, <1>2 DEF Promise!Next, Promise!Tell, phases, lefts

LEMMA IsCompute ==
    ASSUME NEW c \in Cores, phases[c] = "memory", lefts[c] = 0,
           phases' = [phases EXCEPT ![c] = "computation"],
           UNCHANGED lefts,
           Overtaken' = Overtaken \ {c, owner'}, OnLastLine' = OnLastLine \ {c, owner'},
           IF owner # c THEN owner' = owner
           ELSE \/ owner' = NoCore /\ \A d \in Cores : phases'[d] # "memory"
                \/ owner' \in Cores /\ phases'[owner'] = "memory"
    PROVE  Promise!Next
BY DEF Promise!Next, Promise!Compute, Promise!Fetchers, phases, lefts

LEMMA InitPromise == Init => Promise!Init
<1> SUFFICES ASSUME Init PROVE Promise!Init
  OBVIOUS
<1>1. \A c \in Cores : phaseOf(c) = "computation" /\ leftOf(c) = 0
  BY DEF Init, phaseOf, leftOf
<1>2. Overtaken = {} /\ OnLastLine = {}
  BY DEF Init, ArbiterInit, Overtaken, OnLastLine
<1> QED
  BY <1>1, <1>2 DEF Init, ArbiterInit, Promise!Init

(* Whose turn it is after a request, and after a revoke. *)
LEMMA RequestTurns ==
    ASSUME TokenInv, OrderedIPIs, NEW c \in Cores, RequestMemory(c)
    PROVE  \/ Promise!TurnTo(c)
           \/ owner # NoCore /\ UNCHANGED <<owner, Overtaken, OnLastLine>>
<1> USE DEF TokenInv, TypeOK, Step, ArbiterTypeOK
<1>1. PICK ack \in {0, 1} : Ask(c, ack)
  BY DEF RequestMemory
<1>2. /\ ~InJob(c) /\ pending[c] = {} /\ owner # c
      /\ pc' = [pc EXCEPT ![c] = "store"] /\ pc[c] = "request"
  BY DEF RequestMemory, Settled
<1>3. \A d \in Cores \ {c} : (InJob(d)' <=> InJob(d)) /\ pc'[d] = pc[d]
  BY <1>2
<1>4. c \notin Overtaken /\ c \notin OnLastLine /\ c \notin OnLastLine'
  BY <1>2 DEF Overtaken, OnLastLine
<1> HIDE DEF InJob
<1>5. CASE Grant(c)
  <2>1. owner = NoCore /\ owner' = c /\ UNCHANGED pending
    BY <1>2, <1>5 DEF Grant
  <2>2. Overtaken' = Overtaken
    BY <1>2, <1>3, <1>4, <2>1 DEF Overtaken
  <2>3. OnLastLine' = OnLastLine
    BY <1>2, <1>3, <1>4, <2>1 DEF OnLastLine
  <2> QED
    BY <1>4, <2>1, <2>2, <2>3 DEF Promise!TurnTo
<1>6. CASE Preempt(c)
  <2>1. /\ owner \in Cores \ {c} /\ owner' = c
        /\ pending' = [pending EXCEPT ![owner] = @ \cup {"pause"}]
    BY <1>6 DEF Preempt, Send
  <2>2. InJob(owner) /\ pending'[c] = {}
    BY <1>2, <2>1
  <2>3. Overtaken' = Overtaken \cup {owner}
    BY <1>2, <1>3, <1>4, <2>1, <2>2 DEF Overtaken
  <2>4. OnLastLine' = OnLastLine
    BY <1>2, <1>3, <1>4, <2>1 DEF OnLastLine
  <2> QED
    BY <1>4, <2>1, <2>3, <2>4 DEF Promise!TurnTo
<1>7. CASE Deny(c)
  <2>1. owner # NoCore /\ UNCHANGED <<owner, pending>>
    BY <1>7 DEF Deny
  <2>2. Overtaken' = Overtaken
    BY <1>2, <1>3, <1>4, <2>1 DEF Overtaken
  <2>3. OnLastLine' = OnLastLine
    BY <1>2, <1>3, <1>4, <2>1 DEF OnLastLine
  <2> QED
    BY <2>1, <2>2, <2>3
<1> QED
  BY <1>1, <1>5, <1>6, <1>7 DEF Ask

LEMMA RevokeTurns ==
    ASSUME TokenInv, OrderedIPIs, NEW c \in Cores, RevokeMemory(c)
    PROVE  Overtaken' = Overtaken \ {c, owner'} /\ OnLastLine' = OnLastLine \ {c, owner'}
<1> USE DEF TokenInv, TypeOK, ArbiterTypeOK
<1>1. PICK result \in {0, 1} : Revoke(c, result)
  BY DEF RevokeMemory
<1>2. pc[c] = "revoke" /\ pc' = [pc EXCEPT ![c] = "compute"]
  BY DEF RevokeMemory, Step
<1>3. \A d \in Cores \ {c} : (InJob(d)' <=> InJob(d)) /\ pc'[d] = pc[d]
  BY <1>2
<1>4. ~InJob(c)' /\ pc'[c] # "fetch" /\ pc[c] # "fetch"
  BY <1>2
<1> HIDE DEF InJob
<1>5. CASE HandOver(c)
  <2>1. PICK d \in waiting : owner' = d /\ Send(d, "resume")
    BY <1>5 DEF HandOver
  <2>2. /\ d \in Cores \ {c} /\ owner = c /\ pending[d] = {}
        /\ pending' = [pending EXCEPT ![d] = {"resume"}]
    BY <1>5, <2>1 DEF HandOver, Send, Settled
  <2>3. Overtaken' = Overtaken \ {c, owner'}
    BY <1>3, <1>4, <2>1, <2>2 DEF Overtaken
  <2>4. OnLastLine' = OnLastLine \ {c, owner'}
    BY <1>3, <1>4, <2>1, <2>2 DEF OnLastLine
  <2> QED
    BY <2>3, <2>4
<1>6. CASE Release(c)
  <2>1. owner = c /\ owner' = NoCore /\ UNCHANGED pending
    BY <1>6 DEF Release
  <2>2. Overtaken' = Overtaken \ {c, owner'}
    BY <1>3, <1>4, <2>1 DEF Overtaken
  <2>3. OnLastLine' = OnLastLine \ {c, owner'}
    BY <1>3, <1>4, <2>1 DEF OnLastLine
  <2> QED
    BY <2>2, <2>3
<1>7. CASE Withdraw(c)
  <2>1. owner # c /\ UNCHANGED <<owner, pending>>
    BY <1>7 DEF Withdraw
  <2>2. Overtaken' = Overtaken \ {c, owner'}
    BY <1>3, <1>4, <2>1 DEF Overtaken
  <2>3. OnLastLine' = OnLastLine \ {c, owner'}
    BY <1>3, <1>4, <2>1 DEF OnLastLine
  <2> QED
    BY <2>2, <2>3
<1> QED
  BY <1>1, <1>5, <1>6, <1>7 DEF Revoke

LEMMA StepPromise ==
    ASSUME OrderedIPIs, TokenInv, TokenInv', HeldInv, [Next]_vars
    PROVE  [Promise!Next]_Promise!promiseVars
<1> USE DEF Step, TokenInv, TypeOK
<1> SUFFICES ASSUME NEW c \in Cores, TaskStep(c) \/ HandlerStep(c) \/ Tick(c)
             PROVE  [Promise!Next]_Promise!promiseVars
  <2>1. CASE UNCHANGED vars
    BY <2>1 DEF vars, appVars, arbVars, Promise!promiseVars, Overtaken, OnLastLine,
                phaseOf, leftOf
  <2> QED
    BY <2>1 DEF Next
<1>2. ASSUME MovesOnly(c), UNCHANGED <<owner, Overtaken, OnLastLine>>,
             phaseOf(c)' = phaseOf(c), leftOf(c)' = leftOf(c)
      PROVE  [Promise!Next]_Promise!promiseVars
  <2>1. /\ phases' = [phases EXCEPT ![c] = phaseOf(c)]
        /\ lefts' = [lefts EXCEPT ![c] = leftOf(c)]
    BY <1>2, MovesOne
  <2> QED
    BY <1>2, <2>1, IsStutter
<1>3. CASE EnterMemoryPhase(c)
  <2>1. /\ phaseOf(c) = "computation" /\ phaseOf(c)' = "rest"
        /\ leftOf(c)' = leftOf(c)
        /\ MovesOnly(c) /\ UNCHANGED owner
    BY <1>3 DEF EnterMemoryPhase, MovesOnly, arbVars, phaseOf, leftOf
  <2>2. /\ phases' = [phases EXCEPT ![c] = "rest"]
        /\ lefts' = [lefts EXCEPT ![c] = leftOf(c)]
    BY <2>1, MovesOne
  <2>3. UNCHANGED lefts
    BY <2>2 DEF lefts
  <2>4. UNCHANGED <<Overtaken, OnLastLine>>
    BY <1>3 DEF EnterMemoryPhase, arbVars, Overtaken, OnLastLine
  <2> QED
    BY <2>1, <2>2, <2>3, <2>4 DEF Promise!Next, Promise!Rest, phases, lefts
<1>4. CASE RequestMemory(c)
  <2>1. \/ Promise!TurnTo(c)
        \/ owner # NoCore /\ UNCHANGED <<owner, Overtaken, OnLastLine>>
    BY <1>4, RequestTurns
  <2>2. /\ phaseOf(c) = "rest" /\ phaseOf(c)' = "memory"
        /\ leftOf(c)' = Lines[c] /\ Lines[c] \in Nat \ {0}
        /\ MovesOnly(c)
    BY <1>4, LinesAssumption DEF RequestMemory, MovesOnly, phaseOf, leftOf
  <2>3. /\ phases' = [phases EXCEPT ![c] = "memory"]
        /\ lefts' = [lefts EXCEPT ![c] = Lines[c]]
    BY <2>2, MovesOne
  <2>4. phases[c] = "rest"
    BY <2>2 DEF phases
  <2> QED
    BY <2>1, <2>2, <2>3, <2>4, IsEnter
<1>5. CASE FetchLine(c)
  <2>1. /\ phaseOf(c) = "memory" /\ phaseOf(c)' = "memory"
        /\ leftOf(c) \in Nat \ {0} /\ leftOf(c)' = leftOf(c) - 1
        /\ MovesOnly(c) /\ UNCHANGED owner
    BY <1>5 DEF FetchLine, MovesOnly, phaseOf, leftOf, arbVars
  <2>2. /\ phases' = [phases EXCEPT ![c] = "memory"]
        /\ lefts' = [lefts EXCEPT ![c] = leftOf(c) - 1]
    BY <2>1, MovesOne
  <2>3. phases[c] = "memory" /\ lefts[c] = leftOf(c)
    BY <2>1 DEF phases, lefts
  <2>4. c \in {owner} \cup Overtaken \cup OnLastLine
    BY <1>5 DEF FetchLine, Overtaken, OnLastLine
  <2>5. UNCHANGED Overtaken /\ OnLastLine' = OnLastLine \ {c}
    BY <1>5 DEF FetchLine, Overtaken, OnLastLine, arbVars
  <2> QED
    BY <2>1, <2>2, <2>3, <2>4, <2>5, IsFetch
<1>6. CASE RevokeMemory(c)
  <2>1. PICK result \in {0, 1} : Revoke(c, result)
    BY <1>6 DEF RevokeMemory
  <2>2. /\ phaseOf(c) = "memory" /\ phaseOf(c)' = "computation"
        /\ leftOf(c) = 0 /\ leftOf(c)' = 0
        /\ MovesOnly(c)
    BY <1>6 DEF RevokeMemory, MovesOnly, phaseOf, leftOf
  <2>3. /\ phases' = [phases EXCEPT ![c] = "computation"]
        /\ lefts' = [lefts EXCEPT ![c] = leftOf(c)]
    BY <2>2, MovesOne
  <2>4. phases[c] = "memory" /\ lefts[c] = 0
    BY <2>2 DEF phases, lefts
  <2>5. UNCHANGED lefts
    BY <2>3 DEF lefts
  <2>6. \A d \in Cores : phases'[d] = "memory" <=> owner' = d \/ d \in waiting'
    BY DEF phases, phaseOf
  <2>7. \/ owner # c /\ owner' = owner
        \/ owner = c /\ waiting' = {} /\ owner' = NoCore
        \/ owner = c /\ owner' \in Cores /\ phases'[owner'] = "memory"
    BY <2>1, <2>6 DEF Revoke, HandOver, Release, Withdraw, ArbiterTypeOK
  <2>8. IF owner # c THEN owner' = owner
        ELSE \/ owner' = NoCore /\ \A d \in Cores : phases'[d] # "memory"
             \/ owner' \in Cores /\ phases'[owner'] = "memory"
    BY <2>6, <2>7
  <2>9. phases' = [phases EXCEPT ![c] = "computation"]
    BY <2>3
  <2>10. Overtaken' = Overtaken \ {c, owner'} /\ OnLastLine' = OnLastLine \ {c, owner'}
    BY <1>6, RevokeTurns
  <2> QED
    BY <2>4, <2>5, <2>8, <2>9, <2>10, IsCompute
<1>7. CASE CheckSuspend(c)
  <2>1. UNCHANGED <<Overtaken, OnLastLine>>
    BY <1>7 DEF CheckSuspend, HeldInv, Overtaken, OnLastLine, arbVars
  <2> QED
    BY <1>2, <1>7, <2>1 DEF CheckSuspend, MovesOnly, phaseOf, leftOf, arbVars
<1>8. CASE StoreAnswer(c)
  <2>1. UNCHANGED <<Overtaken, OnLastLine>>
    BY <1>8 DEF StoreAnswer, Overtaken, OnLastLine, arbVars
  <2> QED
    BY <1>2, <1>8, <2>1 DEF StoreAnswer, MovesOnly, phaseOf, leftOf, arbVars
<1>9. CASE WaitForInterrupt(c) \/ LeaveMemoryPhase(c) \/ Tick(c)
  <2>1. UNCHANGED <<Overtaken, OnLastLine>>
    BY <1>9 DEF WaitForInterrupt, LeaveMemoryPhase, Tick, Overtaken, OnLastLine, arbVars
  <2> QED
    BY <1>2, <1>9, <2>1 DEF WaitForInterrupt, LeaveMemoryPhase, Tick, MovesOnly,
                            phaseOf, leftOf, arbVars
<1>10. CASE ipi_pause_handler(c)
  <2>1. /\ phaseOf(c)' = phaseOf(c) /\ leftOf(c)' = leftOf(c)
        /\ MovesOnly(c) /\ UNCHANGED owner /\ owner # c /\ "pause" \in pending[c]
    BY <1>10 DEF ipi_pause_handler, Take, Wake, MovesOnly, phaseOf, leftOf
  <2>2. /\ phases' = [phases EXCEPT ![c] = phaseOf(c)]
        /\ lefts' = [lefts EXCEPT ![c] = leftOf(c)]
    BY <2>1, MovesOne
  <2>3. Overtaken' = Overtaken \ {c}
    BY <1>10 DEF ipi_pause_handler, Take, Wake, Overtaken, ArbiterTypeOK
  <2>4. OnLastLine' = IF pc[c] = "fetch" THEN OnLastLine \cup {c} ELSE OnLastLine
    BY <1>10, <2>1 DEF ipi_pause_handler, Take, Wake, OnLastLine, ArbiterTypeOK
  <2>5. CASE InJob(c)
    BY <2>1, <2>2, <2>3, <2>4, <2>5, IsTell DEF Overtaken
  <2>6. CASE ~InJob(c)
    <3>1. UNCHANGED <<Overtaken, OnLastLine>>
      BY <2>3, <2>4, <2>6 DEF Overtaken
    <3> QED
      BY <1>2, <2>1, <3>1
  <2> QED
    BY <2>5, <2>6
<1>11. CASE ipi_resume_handler(c)
  <2>1. UNCHANGED <<Overtaken, OnLastLine>>
    BY <1>11 DEF ipi_resume_handler, Take, Wake, Overtaken, OnLastLine, ArbiterTypeOK
  <2> QED
    BY <1>2, <1>11, <2>1 DEF ipi_resume_handler, Take, Wake, MovesOnly, phaseOf, leftOf
<1> QED
  BY <1>3, <1>4, <1>5, <1>6, <1>7, <1>8, <1>9, <1>10, <1>11 DEF TaskStep, HandlerStep

(* The cores take turns, whichever outranks which, if no pause is taken       *)
(* between the change of state and the store of the answer: only the holder   *)
(* fetches, and an overtaken core until it is told, none computes before it   *)
(* has all its lines, and the turn is not lost. *)
THEOREM PromiseIsKept ==
    ASSUME OrderedIPIs PROVE Spec /\ PausesAfterStore => PromiseKept
<1> DEFINE Spared == \A c \in Cores : pc[c] \in {"request", "store"} => ~ipi_pause_handler(c)
<1>1. Init => HeldInv
  BY HeldInit
<1>2. TokenInv /\ HeldInv /\ [Next]_vars /\ [Spared]_vars => HeldInv'
  <2>1. HeldInv /\ UNCHANGED vars => HeldInv'
    BY DEF HeldInv, vars, appVars, arbVars
  <2> QED
    BY <2>1, TaskKeepsHeld, HandlerKeepsHeld DEF Next
<1>3. TokenInv /\ TokenInv' /\ HeldInv /\ [Next]_vars
          => [Promise!Next]_Promise!promiseVars
  BY StepPromise
<1>4. Init => Promise!Init
  BY InitPromise
<1>5. Spec => []TokenInv
  BY TokenInvariant
<1> QED
  BY <1>1, <1>2, <1>3, <1>4, <1>5, PTL DEF Spec, PausesAfterStore, PromiseKept, Promise!Spec

-----------------------------------------------------------------------------
(* execution-fpsched.  Its arbiter is that of execution-prem.                *)

USE DEF Fps!LoopPCs, Fps!JobPCs, Fps!InJob, Fps!IPIs

LEMMA FpsAsked ==
    ASSUME Fps!ArbiterTypeOK, owner \notin waiting,
           NEW c \in Cores, owner # c, c \notin waiting,
           NEW ack \in {0, 1}, Fps!Settled(c), Fps!Ask(c, ack)
    PROVE  /\ Fps!ArbiterTypeOK'
           /\ owner' \notin waiting'
           /\ \A d \in Cores : owner' = d \/ d \in waiting'
                                  <=> d = c \/ owner = d \/ d \in waiting
           /\ ack = 1 => owner' = c
           /\ \A d \in Cores : Fps!Unrivalled(d) => /\ pending'[d] = pending[d]
                                                    /\ owner = d => owner' = d
<1>1. Settled(c) /\ Ask(c, ack)
  BY DEF Fps!Settled, Settled, Fps!Ask, Ask, Fps!Grant, Grant, Fps!Preempt, Preempt,
         Fps!Deny, Deny, Fps!Send, Send
<1>2. ArbiterTypeOK /\ (ArbiterTypeOK' => Fps!ArbiterTypeOK')
  BY DEF Fps!ArbiterTypeOK, ArbiterTypeOK
<1>3. \A d : Unrivalled(d) <=> Fps!Unrivalled(d)
  BY DEF Fps!Unrivalled, Unrivalled
<1> QED
  BY <1>1, <1>2, <1>3, Asked

LEMMA FpsRevoked ==
    ASSUME Fps!ArbiterTypeOK, owner \notin waiting,
           NEW c \in Cores, NEW result \in {0, 1}, Fps!Revoke(c, result)
    PROVE  /\ Fps!ArbiterTypeOK'
           /\ owner' \notin waiting'
           /\ \A d \in Cores : owner' = d \/ d \in waiting'
                                  <=> d # c /\ (owner = d \/ d \in waiting)
           /\ \A d \in Cores : pending'[d] \in {pending[d], pending[d] \cup {"resume"}}
           /\ owner # c => owner' = owner
<1>1. Revoke(c, result)
  BY DEF Fps!Revoke, Revoke, Fps!HandOver, HandOver, Fps!Release, Release,
         Fps!Withdraw, Withdraw, Fps!Send, Send, Fps!Settled, Settled
<1>2. ArbiterTypeOK /\ (ArbiterTypeOK' => Fps!ArbiterTypeOK')
  BY DEF Fps!ArbiterTypeOK, ArbiterTypeOK
<1> QED
  BY <1>1, <1>2, Revoked

LEMMA FpsInitInv == Fps!Init => Fps!TokenInv /\ Fps!GrantInv
BY DEF Fps!Init, Fps!ArbiterInit, Fps!TokenInv, Fps!GrantInv, Fps!TypeOK, Fps!ArbiterTypeOK

LEMMA FpsTokenKept == Fps!TokenInv /\ UNCHANGED Fps!vars => Fps!TokenInv'
BY DEF Fps!TokenInv, Fps!TypeOK, Fps!ArbiterTypeOK, Fps!vars, Fps!appVars, Fps!arbVars

LEMMA FpsGrantKept == Fps!GrantInv /\ UNCHANGED Fps!vars => Fps!GrantInv'
BY DEF Fps!GrantInv, Fps!vars, Fps!appVars, Fps!arbVars

(* One step per action. *)
LEMMA FpsTokenStep ==
    ASSUME Fps!TokenInv, [Fps!Next]_Fps!vars
    PROVE  Fps!TokenInv'
<1> USE DEF Fps!TokenInv, Fps!TypeOK, Fps!Step, Fps!ChangeState
<1>1. CASE UNCHANGED Fps!vars
  BY <1>1, FpsTokenKept
<1> SUFFICES ASSUME NEW c \in Cores,
                    \/ Fps!RequestMemory(c)    \/ Fps!Refused(c)
                    \/ Fps!SuspendSelf(c)      \/ Fps!EnterMemoryPhase(c)
                    \/ Fps!EnterComputationPhase(c)
                    \/ Fps!RevokeMemory(c)     \/ Fps!EndJob(c)
                    \/ Fps!DeleteSelf(c)
                    \/ Fps!ipi_pause_handler(c)
                    \/ Fps!ipi_resume_handler(c)
             PROVE  Fps!TokenInv'
  BY <1>1 DEF Fps!Next
<1>2. CASE Fps!RequestMemory(c)
  <2>1. PICK reply \in Fps!Answers :
            /\ Fps!Ask(c, reply.ack)
            /\ ack_access' = [ack_access EXCEPT ![c] = Fps!Raw(reply)]
    BY <1>2 DEF Fps!RequestMemory
  <2>2. owner # c /\ c \notin waiting /\ Fps!Settled(c) /\ reply.ack \in {0, 1}
    BY <1>2, <2>1 DEF Fps!RequestMemory, Fps!Answers
  <2>3. /\ Fps!ArbiterTypeOK'
        /\ owner' \notin waiting'
        /\ \A d \in Cores : owner' = d \/ d \in waiting'
                               <=> d = c \/ owner = d \/ d \in waiting
    BY <2>1, <2>2, FpsAsked
  <2> QED
    BY <1>2, <2>1, <2>3 DEF Fps!RequestMemory
<1>3. CASE Fps!RevokeMemory(c)
  <2>1. PICK result \in {0, 1} : Fps!Revoke(c, result)
    BY <1>3 DEF Fps!RevokeMemory
  <2>2. /\ Fps!ArbiterTypeOK'
        /\ owner' \notin waiting'
        /\ \A d \in Cores : owner' = d \/ d \in waiting'
                               <=> d # c /\ (owner = d \/ d \in waiting)
    BY <2>1, FpsRevoked
  <2> QED
    BY <1>3, <2>2 DEF Fps!RevokeMemory
<1>4. CASE Fps!Refused(c)
  BY <1>4 DEF Fps!Refused, Fps!arbVars, Fps!ArbiterTypeOK
<1>5. CASE Fps!SuspendSelf(c)
  BY <1>5 DEF Fps!SuspendSelf, Fps!arbVars, Fps!ArbiterTypeOK
<1>6. CASE Fps!EnterMemoryPhase(c)
  BY <1>6 DEF Fps!EnterMemoryPhase, Fps!arbVars, Fps!ArbiterTypeOK
<1>7. CASE Fps!EnterComputationPhase(c)
  BY <1>7 DEF Fps!EnterComputationPhase, Fps!arbVars, Fps!ArbiterTypeOK
<1>8. CASE Fps!EndJob(c) \/ Fps!DeleteSelf(c)
  BY <1>8 DEF Fps!EndJob, Fps!DeleteSelf, Fps!arbVars, Fps!ArbiterTypeOK
<1>9. CASE Fps!ipi_pause_handler(c)
  BY <1>9 DEF Fps!ipi_pause_handler, Fps!Take, Fps!Halt, Fps!ArbiterTypeOK
<1>10. CASE Fps!ipi_resume_handler(c)
  BY <1>10 DEF Fps!ipi_resume_handler, Fps!Take, Fps!Halt, Fps!ArbiterTypeOK
<1> QED
  BY <1>2, <1>3, <1>4, <1>5, <1>6, <1>7, <1>8, <1>9, <1>10

LEMMA FpsGrantStep ==
    ASSUME Fps!TokenInv, Fps!GrantInv, [Fps!Next]_Fps!vars
    PROVE  Fps!GrantInv'
<1> USE DEF Fps!GrantInv, Fps!TokenInv, Fps!TypeOK, Fps!Step, Fps!ChangeState
<1>1. CASE UNCHANGED Fps!vars
  BY <1>1, FpsGrantKept
<1> SUFFICES ASSUME NEW c \in Cores,
                    \/ Fps!RequestMemory(c)    \/ Fps!Refused(c)
                    \/ Fps!SuspendSelf(c)      \/ Fps!EnterMemoryPhase(c)
                    \/ Fps!EnterComputationPhase(c)
                    \/ Fps!RevokeMemory(c)     \/ Fps!EndJob(c)
                    \/ Fps!DeleteSelf(c)
                    \/ Fps!ipi_pause_handler(c)
                    \/ Fps!ipi_resume_handler(c)
             PROVE  Fps!GrantInv'
  BY <1>1 DEF Fps!Next
<1>2. CASE Fps!RequestMemory(c)
  <2>1. PICK reply \in Fps!Answers :
            /\ Fps!Ask(c, reply.ack)
            /\ ack_access' = [ack_access EXCEPT ![c] = Fps!Raw(reply)]
    BY <1>2 DEF Fps!RequestMemory
  <2>2. owner # c /\ c \notin waiting /\ Fps!Settled(c)
    BY <1>2 DEF Fps!RequestMemory
  <2>3. reply.ack \in {0, 1} /\ (TimesToWait = {0} => Fps!Raw(reply) = reply.ack)
    BY DEF Fps!Answers, Fps!Raw
  <2>4. /\ reply.ack = 1 => owner' = c
        /\ \A d \in Cores : Fps!Unrivalled(d) => /\ pending'[d] = pending[d]
                                                 /\ owner = d => owner' = d
    BY <2>1, <2>2, <2>3, FpsAsked
  <2> QED
    BY <1>2, <2>1, <2>3, <2>4 DEF Fps!RequestMemory
<1>3. CASE Fps!RevokeMemory(c)
  <2>1. PICK result \in {0, 1} : Fps!Revoke(c, result)
    BY <1>3 DEF Fps!RevokeMemory
  <2>2. /\ owner # c => owner' = owner
        /\ \A d \in Cores : pending'[d] \in {pending[d], pending[d] \cup {"resume"}}
    BY <2>1, FpsRevoked
  <2> QED
    BY <1>3, <2>2 DEF Fps!RevokeMemory
<1>4. CASE Fps!Refused(c) \/ Fps!SuspendSelf(c)
  BY <1>4 DEF Fps!Refused, Fps!SuspendSelf, Fps!arbVars
<1>5. CASE Fps!EnterMemoryPhase(c)
  BY <1>5 DEF Fps!EnterMemoryPhase, Fps!arbVars
<1>6. CASE Fps!EnterComputationPhase(c)
  BY <1>6 DEF Fps!EnterComputationPhase, Fps!arbVars
<1>7. CASE Fps!EndJob(c) \/ Fps!DeleteSelf(c)
  BY <1>7 DEF Fps!EndJob, Fps!DeleteSelf, Fps!arbVars
<1>8. CASE Fps!ipi_pause_handler(c)
  <2>1. ~Fps!Unrivalled(c)
    BY <1>8 DEF Fps!ipi_pause_handler, Fps!Take
  <2>2. ASSUME NEW d \in Cores, Fps!Unrivalled(d)
        PROVE  d # c /\ UNCHANGED <<owner, pending[d], pc[d], ack_access[d]>>
    BY <1>8, <2>1, <2>2 DEF Fps!ipi_pause_handler, Fps!Take, Fps!Halt, Fps!ArbiterTypeOK
  <2> QED
    BY <2>2
<1>9. CASE Fps!ipi_resume_handler(c)
  BY <1>9 DEF Fps!ipi_resume_handler, Fps!Take, Fps!Halt, Fps!ArbiterTypeOK
<1> QED
  BY <1>2, <1>3, <1>4, <1>5, <1>6, <1>7, <1>8, <1>9
-----------------------------------------------------------------------------
(* Requests and revokes match under every policy of the hypervisor.           *)
THEOREM FpsTokenInvariant == Fps!Spec => []Fps!TokenInv
<1>1. Fps!Init => Fps!TokenInv
  BY FpsInitInv
<1> QED
  BY <1>1, FpsTokenStep, PTL DEF Fps!Spec

(* The types, ack_access as a whole answer among them.                        *)
THEOREM FpsTypeCorrect == Fps!Spec => []Fps!TypeOK
<1>1. Fps!TokenInv => Fps!TypeOK
  BY DEF Fps!TokenInv
<1> QED
  BY <1>1, FpsTokenInvariant, PTL

(* Owner and waiting cores are exactly those between request and revoke; a    *)
(* halted core stays one of them. *)
THEOREM FpsTokenAccounting == Fps!Spec => []TokenMatchesJobs
<1>1. Fps!TokenInv => TokenMatchesJobs
  BY DEF Fps!TokenInv, TokenMatchesJobs
<1> QED
  BY <1>1, FpsTokenInvariant, PTL

(* When answers have no time to wait, a core that no other outranks           *)
(* prefetches only with the token. *)
THEOREM FpsUnrivalledAlone == Fps!Spec => []UnrivalledOwnsToken
<1>1. Fps!Init => Fps!GrantInv
  BY FpsInitInv
<1>2. Fps!TokenInv /\ Fps!GrantInv /\ [Fps!Next]_Fps!vars => Fps!GrantInv'
  BY FpsGrantStep
<1>3. Fps!TokenInv /\ Fps!GrantInv => UnrivalledOwnsToken
  BY DEF Fps!TokenInv, Fps!TypeOK, Fps!GrantInv, Fps!Unrivalled,
         UnrivalledOwnsToken, Unrivalled, Fetching
<1> QED
  BY <1>1, <1>2, <1>3, FpsTokenInvariant, PTL DEF Fps!Spec

-----------------------------------------------------------------------------
(* execution-fpsched without times to wait, if no pause comes between the      *)
(* answer and the change of state: the cores that may fetch. *)

LEMMA FpsHeldStep ==
    ASSUME OrderedIPIs, TimesToWait = {0}, Fps!TokenInv, Fps!HeldInv,
           [Fps!Next]_Fps!vars,
           \A c \in Cores : pc[c] = "answered" => ~Fps!ipi_pause_handler(c)
    PROVE  Fps!HeldInv'
<1> USE DEF Fps!HeldInv, Fps!TokenInv, Fps!TypeOK, Fps!Step, Fps!ChangeState
<1>1. CASE UNCHANGED Fps!vars
  BY <1>1 DEF Fps!vars, Fps!appVars, Fps!arbVars
<1> SUFFICES ASSUME NEW c \in Cores,
                    \/ Fps!RequestMemory(c)    \/ Fps!Refused(c)
                    \/ Fps!SuspendSelf(c)      \/ Fps!EnterMemoryPhase(c)
                    \/ Fps!EnterComputationPhase(c)
                    \/ Fps!RevokeMemory(c)     \/ Fps!EndJob(c)
                    \/ Fps!DeleteSelf(c)
                    \/ Fps!ipi_pause_handler(c)
                    \/ Fps!ipi_resume_handler(c)
             PROVE  Fps!HeldInv'
  BY <1>1 DEF Fps!Next
<1>2. CASE Fps!RequestMemory(c)
  <2>1. PICK reply \in Fps!Answers :
            /\ Fps!Ask(c, reply.ack)
            /\ ack_access' = [ack_access EXCEPT ![c] = Fps!Raw(reply)]
    BY <1>2 DEF Fps!RequestMemory
  <2>2. /\ owner # c /\ pending[c] = {} /\ UNCHANGED current_state
        /\ pc[c] = "wait" /\ pc' = [pc EXCEPT ![c] = "answered"]
    BY <1>2 DEF Fps!RequestMemory, Fps!Settled
  <2>3. Fps!Raw(reply) = reply.ack
    BY DEF Fps!Answers, Fps!Raw
  <2>4. reply.ack # 0 => owner' = c
    BY <2>1 DEF Fps!Ask, Fps!Grant, Fps!Preempt, Fps!Deny
  <2>5. /\ \A d \in Cores : owner = d => owner' = d \/ "pause" \in pending'[d]
        /\ \A d \in Cores : "pause" \in pending[d] => "pause" \in pending'[d]
        /\ \A d \in Cores : "pause" \in pending'[d] => owner' # d
    BY <2>1, <2>2
       DEF Fps!Ask, Fps!Grant, Fps!Preempt, Fps!Deny, Fps!Send, Fps!ArbiterTypeOK
  <2> QED
    BY <2>1, <2>2, <2>3, <2>4, <2>5
<1>3. CASE Fps!RevokeMemory(c)
  <2>1. PICK result \in {0, 1} : Fps!Revoke(c, result)
    BY <1>3 DEF Fps!RevokeMemory
  <2>2. pc' = [pc EXCEPT ![c] = "revoked"] /\ UNCHANGED <<ack_access, current_state>>
    BY <1>3 DEF Fps!RevokeMemory
  <2>3. \A d \in Cores : /\ d # c /\ owner = d => owner' = d
                         /\ "pause" \in pending'[d] <=> "pause" \in pending[d]
                         /\ "pause" \in pending'[d] => owner' # d
    BY <2>1 DEF Fps!Revoke, Fps!HandOver, Fps!Release, Fps!Withdraw, Fps!Send,
                Fps!Settled, Fps!ArbiterTypeOK
  <2> QED
    BY <2>2, <2>3
<1>4. CASE Fps!Refused(c) \/ Fps!SuspendSelf(c)
  BY <1>4 DEF Fps!Refused, Fps!SuspendSelf, Fps!arbVars
<1>5. CASE Fps!EnterMemoryPhase(c)
  BY <1>5 DEF Fps!EnterMemoryPhase, Fps!arbVars
<1>6. CASE Fps!EnterComputationPhase(c)
  BY <1>6 DEF Fps!EnterComputationPhase, Fps!arbVars
<1>7. CASE Fps!EndJob(c) \/ Fps!DeleteSelf(c)
  BY <1>7 DEF Fps!EndJob, Fps!DeleteSelf, Fps!arbVars
<1>8. CASE Fps!ipi_pause_handler(c)
  BY <1>8 DEF Fps!ipi_pause_handler, Fps!Take, Fps!Halt, Fps!ArbiterTypeOK
<1>9. CASE Fps!ipi_resume_handler(c)
  BY <1>9 DEF Fps!ipi_resume_handler, Fps!Take, Fps!Halt, Fps!ArbiterTypeOK
<1> QED
  BY <1>2, <1>3, <1>4, <1>5, <1>6, <1>7, <1>8, <1>9

(* Every step is one of PremPromise, or is not seen there. *)

fpsPhases == [c \in Cores |-> Fps!phaseOf(c)]
fpsLefts  == [c \in Cores |-> Fps!leftOf(c)]

LEMMA FpsMovesOne ==
    ASSUME NEW c \in Cores, NEW ph, NEW n, \A d \in Cores \ {c} : pc'[d] = pc[d],
           Fps!phaseOf(c)' = ph, Fps!leftOf(c)' = n
    PROVE  /\ fpsPhases' = [fpsPhases EXCEPT ![c] = ph]
           /\ fpsLefts' = [fpsLefts EXCEPT ![c] = n]
<1>1. \A d \in Cores \ {c} : /\ Fps!phaseOf(d)' = Fps!phaseOf(d)
                             /\ Fps!leftOf(d)' = Fps!leftOf(d)
  BY DEF Fps!phaseOf, Fps!leftOf
<1> QED
  BY <1>1 DEF fpsPhases, fpsLefts

LEMMA FpsIsStutter ==
    ASSUME NEW c \in Cores, UNCHANGED <<owner, Fps!Overtaken>>,
           fpsPhases' = [fpsPhases EXCEPT ![c] = Fps!phaseOf(c)],
           fpsLefts' = [fpsLefts EXCEPT ![c] = Fps!leftOf(c)]
    PROVE  UNCHANGED Fps!Promise!promiseVars
<1>1. UNCHANGED fpsPhases
  BY DEF fpsPhases
<1>2. UNCHANGED fpsLefts
  BY DEF fpsLefts
<1> QED
  BY <1>1, <1>2 DEF Fps!Promise!promiseVars, fpsPhases, fpsLefts

LEMMA FpsIsEnter ==
    ASSUME NEW c \in Cores, fpsPhases[c] = "rest",
           fpsPhases' = [fpsPhases EXCEPT ![c] = "memory"],
           NEW n \in Nat \ {0}, fpsLefts' = [fpsLefts EXCEPT ![c] = n],
           \/ Fps!Promise!TurnTo(c)
           \/ owner # NoCore /\ UNCHANGED <<owner, Fps!Overtaken>>
    PROVE  Fps!Promise!Next
<1>1. fpsLefts'[c] = n
  BY DEF fpsLefts
<1> QED
  BY <1>1 DEF Fps!Promise!Next, Fps!Promise!Enter, fpsPhases, fpsLefts

LEMMA FpsIsFetch ==
    ASSUME NEW c \in Cores, c \in {owner} \cup Fps!Overtaken,
           fpsPhases[c] = "memory", fpsLefts[c] = 1,
           fpsPhases' = [fpsPhases EXCEPT ![c] = "memory"],
           fpsLefts' = [fpsLefts EXCEPT ![c] = 0],
           UNCHANGED <<owner, Fps!Overtaken>>
    PROVE  Fps!Promise!Next
<1>1. UNCHANGED fpsPhases
  BY DEF fpsPhases
<1>2. fpsLefts[c] > 0 /\ fpsLefts' = [fpsLefts EXCEPT ![c] = @ - 1]
  OBVIOUS
<1> QED
  BY <1>1, <1>2 DEF Fps!Promise!Next, Fps!Promise!Fetch, fpsPhases, fpsLefts

LEMMA FpsIsTell ==
    ASSUME NEW c \in Cores, c \in Fps!Overtaken, UNCHANGED owner,
           fpsPhases' = [fpsPhases EXCEPT ![c] = Fps!phaseOf(c)],
           fpsLefts' = [fpsLefts EXCEPT ![c] = Fps!leftOf(c)],
           Fps!Overtaken' = Fps!Overtaken \ {c}
    PROVE  Fps!Promise!Next
<1>1. UNCHANGED fpsPhases
  BY DEF fpsPhases
<1>2. UNCHANGED fpsLefts
  BY DEF fpsLefts
<1> QED
  BY <1>1, <1>2 DEF Fps!Promise!Next, Fps!Promise!Tell, fpsPhases, fpsLefts

LEMMA FpsIsCompute ==
    ASSUME NEW c \in Cores, fpsPhases[c] = "memory", fpsLefts[c] = 0,
           fpsPhases' = [fpsPhases EXCEPT ![c] = "computation"],
           UNCHANGED fpsLefts, Fps!Overtaken' = Fps!Overtaken \ {c, owner'},
           IF owner # c THEN owner' = owner
           ELSE \/ owner' = NoCore /\ \A d \in Cores : fpsPhases'[d] # "memory"
                \/ owner' \in Cores /\ fpsPhases'[owner'] = "memory"
    PROVE  Fps!Promise!Next
BY DEF Fps!Promise!Next, Fps!Promise!Compute, Fps!Promise!Fetchers, fpsPhases, fpsLefts

LEMMA FpsInitPromise == Fps!Init => Fps!Promise!Init
<1> SUFFICES ASSUME Fps!Init PROVE Fps!Promise!Init
  OBVIOUS
<1>1. \A c \in Cores : Fps!phaseOf(c) = "rest" /\ Fps!leftOf(c) = 0
  BY DEF Fps!Init, Fps!phaseOf, Fps!leftOf
<1>2. Fps!Overtaken = {}
  BY DEF Fps!Init, Fps!ArbiterInit, Fps!Overtaken
<1> QED
  BY <1>1, <1>2 DEF Fps!Init, Fps!ArbiterInit, Fps!Promise!Init

(* Whose turn it is after a request, and after a revoke. *)
LEMMA FpsRequestTurns ==
    ASSUME OrderedIPIs, Fps!TokenInv, NEW c \in Cores, Fps!RequestMemory(c)
    PROVE  \/ Fps!Promise!TurnTo(c)
           \/ owner # NoCore /\ UNCHANGED <<owner, Fps!Overtaken>>
<1> USE DEF Fps!TokenInv, Fps!TypeOK, Fps!ArbiterTypeOK
<1>1. PICK ack \in {0, 1} : Fps!Ask(c, ack)
  BY DEF Fps!RequestMemory, Fps!Answers
<1>2. /\ ~Fps!InJob(c) /\ pending[c] = {} /\ owner # c
      /\ pc' = [pc EXCEPT ![c] = "answered"]
  BY DEF Fps!RequestMemory, Fps!Settled, Fps!Step
<1>3. \A d \in Cores \ {c} : Fps!InJob(d)' <=> Fps!InJob(d)
  BY <1>2
<1>4. c \notin Fps!Overtaken
  BY <1>2 DEF Fps!Overtaken
<1> HIDE DEF Fps!InJob
<1>5. CASE Fps!Grant(c)
  <2>1. owner = NoCore /\ owner' = c /\ UNCHANGED pending
    BY <1>2, <1>5 DEF Fps!Grant
  <2>2. Fps!Overtaken' = Fps!Overtaken
    BY <1>2, <1>3, <1>4, <2>1 DEF Fps!Overtaken
  <2> QED
    BY <1>4, <2>1, <2>2 DEF Fps!Promise!TurnTo
<1>6. CASE Fps!Preempt(c)
  <2>1. /\ owner \in Cores \ {c} /\ owner' = c
        /\ pending' = [pending EXCEPT ![owner] = @ \cup {"pause"}]
    BY <1>6 DEF Fps!Preempt, Fps!Send
  <2>2. Fps!InJob(owner) /\ pending'[c] = {}
    BY <1>2, <2>1
  <2>3. Fps!Overtaken' = Fps!Overtaken \cup {owner}
    BY <1>2, <1>3, <1>4, <2>1, <2>2 DEF Fps!Overtaken
  <2> QED
    BY <1>4, <2>1, <2>3 DEF Fps!Promise!TurnTo
<1>7. CASE Fps!Deny(c)
  <2>1. owner # NoCore /\ UNCHANGED <<owner, pending>>
    BY <1>7 DEF Fps!Deny
  <2>2. Fps!Overtaken' = Fps!Overtaken
    BY <1>2, <1>3, <1>4, <2>1 DEF Fps!Overtaken
  <2> QED
    BY <2>1, <2>2
<1> QED
  BY <1>1, <1>5, <1>6, <1>7 DEF Fps!Ask

LEMMA FpsRevokeTurns ==
    ASSUME OrderedIPIs, Fps!TokenInv, Fps!HeldInv, NEW c \in Cores, Fps!RevokeMemory(c)
    PROVE  Fps!Overtaken' = Fps!Overtaken \ {c, owner'}
<1> USE DEF Fps!TokenInv, Fps!TypeOK, Fps!ArbiterTypeOK
<1>1. PICK result \in {0, 1} : Fps!Revoke(c, result)
  BY DEF Fps!RevokeMemory
<1>2. pc' = [pc EXCEPT ![c] = "revoked"]
  BY DEF Fps!RevokeMemory, Fps!Step
<1>3. \A d \in Cores \ {c} : Fps!InJob(d)' <=> Fps!InJob(d)
  BY <1>2
<1>4. ~Fps!InJob(c)'
  BY <1>2
<1>5. \A d \in Cores : "pause" \in pending[d] => owner # d
  BY DEF Fps!HeldInv
<1> HIDE DEF Fps!InJob
<1>6. CASE Fps!HandOver(c)
  <2>1. PICK d \in waiting : owner' = d /\ Fps!Send(d, "resume")
    BY <1>6 DEF Fps!HandOver
  <2>2. /\ d \in Cores \ {c} /\ pending[d] = {}
        /\ pending' = [pending EXCEPT ![d] = {"resume"}]
    BY <1>6, <2>1 DEF Fps!HandOver, Fps!Send, Fps!Settled
  <2> QED
    BY <1>3, <1>4, <2>1, <2>2 DEF Fps!Overtaken
<1>7. CASE Fps!Release(c)
  BY <1>3, <1>4, <1>7 DEF Fps!Release, Fps!Overtaken
<1>8. CASE Fps!Withdraw(c)
  BY <1>3, <1>4, <1>5, <1>8 DEF Fps!Withdraw, Fps!Overtaken
<1> QED
  BY <1>1, <1>6, <1>7, <1>8 DEF Fps!Revoke

LEMMA FpsStepPromise ==
    ASSUME OrderedIPIs, Fps!TokenInv, Fps!TokenInv', Fps!HeldInv, [Fps!Next]_Fps!vars
    PROVE  [Fps!Promise!Next]_Fps!Promise!promiseVars
<1> USE DEF Fps!Step, Fps!TokenInv, Fps!TypeOK
<1> SUFFICES ASSUME NEW c \in Cores,
                    \/ Fps!RequestMemory(c)    \/ Fps!Refused(c)
                    \/ Fps!SuspendSelf(c)      \/ Fps!EnterMemoryPhase(c)
                    \/ Fps!EnterComputationPhase(c)
                    \/ Fps!RevokeMemory(c)     \/ Fps!EndJob(c)
                    \/ Fps!DeleteSelf(c)
                    \/ Fps!ipi_pause_handler(c)
                    \/ Fps!ipi_resume_handler(c)
             PROVE  [Fps!Promise!Next]_Fps!Promise!promiseVars
  <2>1. CASE UNCHANGED Fps!vars
    BY <2>1 DEF Fps!vars, Fps!appVars, Fps!arbVars, Fps!Promise!promiseVars,
                Fps!Overtaken, Fps!phaseOf, Fps!leftOf
  <2> QED
    BY <2>1 DEF Fps!Next
<1>2. ASSUME \A d \in Cores \ {c} : pc'[d] = pc[d], UNCHANGED <<owner, Fps!Overtaken>>,
             Fps!phaseOf(c)' = Fps!phaseOf(c), Fps!leftOf(c)' = Fps!leftOf(c)
      PROVE  [Fps!Promise!Next]_Fps!Promise!promiseVars
  <2>1. /\ fpsPhases' = [fpsPhases EXCEPT ![c] = Fps!phaseOf(c)]
        /\ fpsLefts' = [fpsLefts EXCEPT ![c] = Fps!leftOf(c)]
    BY <1>2, FpsMovesOne
  <2> QED
    BY <1>2, <2>1, FpsIsStutter
<1>3. CASE Fps!RequestMemory(c)
  <2>1. \/ Fps!Promise!TurnTo(c)
        \/ owner # NoCore /\ UNCHANGED <<owner, Fps!Overtaken>>
    BY <1>3, FpsRequestTurns
  <2>2. /\ Fps!phaseOf(c) = "rest" /\ Fps!phaseOf(c)' = "memory"
        /\ Fps!leftOf(c)' = 1
        /\ \A d \in Cores \ {c} : pc'[d] = pc[d]
    BY <1>3 DEF Fps!RequestMemory, Fps!phaseOf, Fps!leftOf
  <2>3. /\ fpsPhases' = [fpsPhases EXCEPT ![c] = "memory"]
        /\ fpsLefts' = [fpsLefts EXCEPT ![c] = 1]
    BY <2>2, FpsMovesOne
  <2>4. fpsPhases[c] = "rest"
    BY <2>2 DEF fpsPhases
  <2>5. 1 \in Nat \ {0}
    OBVIOUS
  <2> QED
    BY <2>1, <2>3, <2>4, <2>5, FpsIsEnter
<1>4. CASE Fps!EnterComputationPhase(c)
  <2>1. c \in {owner} \cup Fps!Overtaken
    BY <1>4 DEF Fps!EnterComputationPhase, Fps!HeldInv, Fps!Overtaken
  <2>2. /\ Fps!phaseOf(c) = "memory" /\ Fps!phaseOf(c)' = "memory"
        /\ Fps!leftOf(c) = 1 /\ Fps!leftOf(c)' = 0
        /\ \A d \in Cores \ {c} : pc'[d] = pc[d]
    BY <1>4 DEF Fps!EnterComputationPhase, Fps!phaseOf, Fps!leftOf
  <2>3. /\ fpsPhases' = [fpsPhases EXCEPT ![c] = "memory"]
        /\ fpsLefts' = [fpsLefts EXCEPT ![c] = 0]
    BY <2>2, FpsMovesOne
  <2>4. fpsPhases[c] = "memory" /\ fpsLefts[c] = 1
    BY <2>2 DEF fpsPhases, fpsLefts
  <2>5. UNCHANGED <<owner, Fps!Overtaken>>
    BY <1>4 DEF Fps!EnterComputationPhase, Fps!arbVars, Fps!Overtaken
  <2> QED
    BY <2>1, <2>3, <2>4, <2>5, FpsIsFetch
<1>5. CASE Fps!RevokeMemory(c)
  <2>1. PICK result \in {0, 1} : Fps!Revoke(c, result)
    BY <1>5 DEF Fps!RevokeMemory
  <2>2. /\ Fps!phaseOf(c) = "memory" /\ Fps!phaseOf(c)' = "computation"
        /\ Fps!leftOf(c) = 0 /\ Fps!leftOf(c)' = 0
        /\ \A d \in Cores \ {c} : pc'[d] = pc[d]
    BY <1>5 DEF Fps!RevokeMemory, Fps!phaseOf, Fps!leftOf
  <2>3. /\ fpsPhases' = [fpsPhases EXCEPT ![c] = "computation"]
        /\ fpsLefts' = [fpsLefts EXCEPT ![c] = Fps!leftOf(c)]
    BY <2>2, FpsMovesOne
  <2>4. fpsPhases[c] = "memory" /\ fpsLefts[c] = 0
    BY <2>2 DEF fpsPhases, fpsLefts
  <2>5. UNCHANGED fpsLefts
    BY <2>3 DEF fpsLefts
  <2>6. \A d \in Cores : fpsPhases'[d] = "memory" <=> owner' = d \/ d \in waiting'
    BY DEF fpsPhases, Fps!phaseOf
  <2>7. \/ owner # c /\ owner' = owner
        \/ owner = c /\ waiting' = {} /\ owner' = NoCore
        \/ owner = c /\ owner' \in Cores /\ fpsPhases'[owner'] = "memory"
    BY <2>1, <2>6
       DEF Fps!Revoke, Fps!HandOver, Fps!Release, Fps!Withdraw, Fps!ArbiterTypeOK
  <2>8. IF owner # c THEN owner' = owner
        ELSE \/ owner' = NoCore /\ \A d \in Cores : fpsPhases'[d] # "memory"
             \/ owner' \in Cores /\ fpsPhases'[owner'] = "memory"
    BY <2>6, <2>7
  <2>9. fpsPhases' = [fpsPhases EXCEPT ![c] = "computation"]
    BY <2>3
  <2>10. Fps!Overtaken' = Fps!Overtaken \ {c, owner'}
    BY <1>5, FpsRevokeTurns
  <2> QED
    BY <2>4, <2>5, <2>8, <2>9, <2>10, FpsIsCompute
<1>6. CASE Fps!EndJob(c)
  <2>1. /\ Fps!phaseOf(c) = "computation" /\ Fps!phaseOf(c)' = "rest"
        /\ Fps!leftOf(c)' = Fps!leftOf(c)
        /\ \A d \in Cores \ {c} : pc'[d] = pc[d]
        /\ UNCHANGED owner
    BY <1>6 DEF Fps!EndJob, Fps!arbVars, Fps!phaseOf, Fps!leftOf
  <2>2. /\ fpsPhases' = [fpsPhases EXCEPT ![c] = "rest"]
        /\ fpsLefts' = [fpsLefts EXCEPT ![c] = Fps!leftOf(c)]
    BY <2>1, FpsMovesOne
  <2>3. UNCHANGED fpsLefts
    BY <2>2 DEF fpsLefts
  <2>4. UNCHANGED Fps!Overtaken
    BY <1>6 DEF Fps!EndJob, Fps!arbVars, Fps!Overtaken
  <2> QED
    BY <2>1, <2>2, <2>3, <2>4 DEF Fps!Promise!Next, Fps!Promise!Rest, fpsPhases, fpsLefts
<1>7. CASE \/ Fps!Refused(c) \/ Fps!SuspendSelf(c) \/ Fps!EnterMemoryPhase(c)
           \/ Fps!DeleteSelf(c)
  <2>1. UNCHANGED Fps!Overtaken
    BY <1>7 DEF Fps!Refused, Fps!SuspendSelf, Fps!EnterMemoryPhase, Fps!DeleteSelf,
                Fps!arbVars, Fps!Overtaken
  <2> QED
    BY <1>2, <1>7, <2>1 DEF Fps!Refused, Fps!SuspendSelf, Fps!EnterMemoryPhase,
                      Fps!DeleteSelf, Fps!phaseOf, Fps!leftOf, Fps!arbVars
<1>8. CASE Fps!ipi_pause_handler(c)
  <2>1. /\ \A d \in Cores \ {c} : pc'[d] = pc[d]
        /\ UNCHANGED owner /\ "pause" \in pending[c]
        /\ Fps!phaseOf(c)' = Fps!phaseOf(c) /\ Fps!leftOf(c)' = Fps!leftOf(c)
    BY <1>8 DEF Fps!ipi_pause_handler, Fps!Take, Fps!Halt, Fps!phaseOf, Fps!leftOf
  <2>2. /\ fpsPhases' = [fpsPhases EXCEPT ![c] = Fps!phaseOf(c)]
        /\ fpsLefts' = [fpsLefts EXCEPT ![c] = Fps!leftOf(c)]
    BY <2>1, FpsMovesOne
  <2>3. Fps!Overtaken' = Fps!Overtaken \ {c}
    BY <1>8 DEF Fps!ipi_pause_handler, Fps!Take, Fps!Halt, Fps!Overtaken, Fps!ArbiterTypeOK
  <2>4. CASE Fps!InJob(c)
    BY <2>1, <2>2, <2>3, <2>4, FpsIsTell DEF Fps!Overtaken
  <2>5. CASE ~Fps!InJob(c)
    <3>1. UNCHANGED Fps!Overtaken
      BY <2>3, <2>5 DEF Fps!Overtaken
    <3> QED
      BY <1>2, <2>1, <3>1
  <2> QED
    BY <2>4, <2>5
<1>9. CASE Fps!ipi_resume_handler(c)
  <2>1. UNCHANGED Fps!Overtaken
    BY <1>9 DEF Fps!ipi_resume_handler, Fps!Take, Fps!Halt, Fps!Overtaken, Fps!ArbiterTypeOK
  <2> QED
    BY <1>2, <1>9, <2>1
       DEF Fps!ipi_resume_handler, Fps!Take, Fps!Halt, Fps!phaseOf, Fps!leftOf
<1> QED
  BY <1>3, <1>4, <1>5, <1>6, <1>7, <1>8, <1>9

(* Without times to wait the cores take turns here too, whichever outranks    *)
(* which, if no pause is taken between the answer and the change of state;    *)
(* those that halt stay in their memory phase. *)
THEOREM FpsPromiseIsKept ==
    ASSUME OrderedIPIs, TimesToWait = {0}
    PROVE  Fps!Spec /\ Fps!PausesInMemoryPhase => Fps!PromiseKept
<1> DEFINE Spared == \A c \in Cores : pc[c] = "answered" => ~Fps!ipi_pause_handler(c)
<1>1. Fps!Init => Fps!HeldInv
  BY DEF Fps!Init, Fps!ArbiterInit, Fps!HeldInv
<1>2. Fps!TokenInv /\ Fps!HeldInv /\ [Fps!Next]_Fps!vars /\ [Spared]_Fps!vars
          => Fps!HeldInv'
  <2>1. Fps!HeldInv /\ UNCHANGED Fps!vars => Fps!HeldInv'
    BY DEF Fps!HeldInv, Fps!vars, Fps!appVars, Fps!arbVars
  <2> QED
    BY <2>1, FpsHeldStep
<1>3. Fps!TokenInv /\ Fps!TokenInv' /\ Fps!HeldInv /\ [Fps!Next]_Fps!vars
          => [Fps!Promise!Next]_Fps!Promise!promiseVars
  BY FpsStepPromise
<1>4. Fps!Init => Fps!Promise!Init
  BY FpsInitPromise
<1>5. Fps!Spec => []Fps!TokenInv
  BY FpsTokenInvariant
<1> QED
  BY <1>1, <1>2, <1>3, <1>4, <1>5, PTL
     DEF Fps!Spec, Fps!PausesInMemoryPhase, Fps!PromiseKept, Fps!Promise!Spec

-----------------------------------------------------------------------------
(* execution-microbenchmarks.                                                *)

LEMMA MicroAsked ==
    ASSUME Micro!ArbiterTypeOK, owner \notin waiting,
           NEW c \in Cores, owner # c, c \notin waiting,
           NEW ack \in {0, 1}, Micro!Ask(c, ack)
    PROVE  /\ Micro!ArbiterTypeOK'
           /\ owner' \notin waiting'
           /\ \A d \in Cores : owner' = d \/ d \in waiting'
                                  <=> d = c \/ owner = d \/ d \in waiting
           /\ \A d \in Cores : pending'[d] # pending[d] => owner = d
<1>1. Ask(c, ack)
  BY DEF Micro!Ask, Ask, Micro!Grant, Grant, Micro!Preempt, Preempt,
         Micro!Deny, Deny, Micro!Send, Send, Micro!Settled, Settled
<1>2. ArbiterTypeOK /\ (ArbiterTypeOK' => Micro!ArbiterTypeOK')
  BY DEF Micro!ArbiterTypeOK, ArbiterTypeOK, Micro!IPIs
<1> QED
  BY <1>1, <1>2, Asked

LEMMA MicroRevoked ==
    ASSUME Micro!ArbiterTypeOK, owner \notin waiting,
           NEW c \in Cores, NEW result \in {0, 1}, Micro!Revoke(c, result)
    PROVE  /\ Micro!ArbiterTypeOK'
           /\ owner' \notin waiting'
           /\ \A d \in Cores : owner' = d \/ d \in waiting'
                                  <=> d # c /\ (owner = d \/ d \in waiting)
           /\ \A d \in Cores : pending'[d] # pending[d] => d \in waiting
<1>1. Revoke(c, result)
  BY DEF Micro!Revoke, Revoke, Micro!HandOver, HandOver, Micro!Release, Release,
         Micro!Withdraw, Withdraw, Micro!Send, Send, Micro!Settled, Settled
<1>2. ArbiterTypeOK /\ (ArbiterTypeOK' => Micro!ArbiterTypeOK')
  BY DEF Micro!ArbiterTypeOK, ArbiterTypeOK, Micro!IPIs
<1> QED
  BY <1>1, <1>2, Revoked

LEMMA MicroInitInv ==
    ASSUME Me \in Cores, Horizon \in Nat, Micro!Init
    PROVE  Micro!TokenInv /\ Micro!IPIInv
<1> USE DEF Micro!Init, Micro!ArbiterInit
<1>1. Micro!ArbiterTypeOK
  BY DEF Micro!ArbiterTypeOK
<1>2. Micro!TokenInv
  BY <1>1 DEF Micro!TokenInv, Micro!TokenOnlyInMeasurement
<1> QED
  BY <1>2 DEF Micro!IPIInv

(* What the other cores do, by themselves: nothing for a core that neither    *)
(* owns the token nor waits for it. *)
LEMMA OthersKeep ==
    ASSUME Me \in Cores, Micro!TokenInv, NEW d \in Cores \ {Me}, Micro!OtherCore(d)
    PROVE  /\ Micro!TokenInv'
           /\ pc # "held" => pending'[Me] = pending[Me]
<1> USE DEF Micro!TokenInv, Micro!TokenOnlyInMeasurement
<1>0. pc' = pc
  BY DEF Micro!OtherCore
<1>1. CASE owner # d /\ d \notin waiting /\ \E ack \in {0, 1} : Micro!Ask(d, ack)
  BY <1>0, <1>1, MicroAsked
<1>2. CASE (owner = d \/ d \in waiting) /\ \E result \in {0, 1} : Micro!Revoke(d, result)
  BY <1>0, <1>2, MicroRevoked
<1>3. CASE \E ipi \in Micro!IPIs : Micro!Take(d, ipi)
  BY <1>0, <1>3 DEF Micro!Take, Micro!ArbiterTypeOK
<1> QED
  BY <1>1, <1>2, <1>3 DEF Micro!OtherCore

LEMMA MicroTokenStep ==
    ASSUME Me \in Cores, Micro!TokenInv, [Micro!Next]_Micro!vars
    PROVE  Micro!TokenInv'
<1> USE DEF Micro!TokenInv, Micro!TokenOnlyInMeasurement, Micro!Step
<1>1. CASE UNCHANGED Micro!arbVars /\ (pc' = "held" <=> pc = "held")
  BY <1>1 DEF Micro!arbVars, Micro!ArbiterTypeOK
<1>2. CASE Micro!RequestTimed \/ Micro!RequestBefore
  BY <1>2, MicroAsked DEF Micro!RequestTimed, Micro!RequestBefore
<1>3. CASE Micro!RevokeAfter \/ Micro!RevokeTimed
  BY <1>3, MicroRevoked DEF Micro!RevokeAfter, Micro!RevokeTimed
<1>4. CASE Micro!empty_handler \/ Micro!ipi_resume_handler
  BY <1>4 DEF Micro!empty_handler, Micro!ipi_resume_handler, Micro!Take,
              Micro!ArbiterTypeOK
<1>5. CASE \E d \in Cores \ {Me} : Micro!OtherCore(d)
  BY <1>5, OthersKeep
<1>6. CASE \/ Micro!StartSeries \/ Micro!RunHypercall \/ Micro!NextPrio
           \/ Micro!MeasureIPI  \/ Micro!SeeIPI \/ Micro!ResetFlag \/ Micro!AccountIPI
           \/ \E t \in Micro!Tasks : Micro!DeleteSelf(t)
           \/ Micro!ipi_id_handler \/ Micro!PassTime \/ UNCHANGED Micro!vars
  <2>1. UNCHANGED Micro!arbVars
    BY <1>6 DEF Micro!StartSeries, Micro!RunHypercall, Micro!NextPrio, Micro!MeasureIPI,
         Micro!SeeIPI, Micro!ResetFlag, Micro!AccountIPI, Micro!DeleteSelf,
         Micro!ipi_id_handler, Micro!PassTime, Micro!vars
  <2>2. pc' = "held" <=> pc = "held"
    BY <1>6 DEF Micro!StartSeries, Micro!RunHypercall, Micro!NextPrio, Micro!MeasureIPI,
         Micro!SeeIPI, Micro!ResetFlag, Micro!AccountIPI, Micro!DeleteSelf,
         Micro!ipi_id_handler, Micro!PassTime, Micro!vars
  <2> QED
    BY <1>1, <2>1, <2>2
<1> QED
  BY <1>2, <1>3, <1>4, <1>5, <1>6 DEF Micro!Next, Micro!TaskStep

(* One step per action.  While vIPITask exists the tasks of lower priority do *)
(* not run. *)
LEMMA MicroIPIStep ==
    ASSUME Me \in Cores, Word \in Nat, Horizon \in 0 .. Word - 1,
           Micro!TokenInv, Micro!IPIInv, [Micro!Next]_Micro!vars
    PROVE  Micro!IPIInv'
<1> USE DEF Micro!IPIInv, Micro!Step
<1>1. ASSUME "ipi" \in ready, NEW t \in Micro!Tasks, Micro!Running(t)
      PROVE  t \in {"hypercall", "ipi"}
  BY <1>1 DEF Micro!Running, Micro!Priority, Micro!Tasks
<1>2. CASE UNCHANGED Micro!vars
  BY <1>2 DEF Micro!vars, Micro!locals, Micro!shared, Micro!past, Micro!arbVars
<1>3. CASE Micro!StartSeries
  BY <1>3 DEF Micro!StartSeries, Micro!shared, Micro!arbVars
<1>4. CASE Micro!RunHypercall
  BY <1>4 DEF Micro!RunHypercall, Micro!shared, Micro!past, Micro!arbVars
<1>5. CASE Micro!MeasureIPI
  BY <1>5 DEF Micro!MeasureIPI, Micro!past, Micro!arbVars
<1>6. CASE Micro!SeeIPI
  BY <1>6 DEF Micro!SeeIPI, Micro!locals, Micro!shared, Micro!past, Micro!arbVars
<1>7. CASE Micro!ResetFlag
  BY <1>7 DEF Micro!ResetFlag, Micro!locals, Micro!past, Micro!arbVars
<1>8. CASE Micro!AccountIPI
  <2>1. ASSUME "ipi" \in ready PROVE times' = latencies
    <3>1. /\ start_ipi_time \in 0 .. now /\ end_ipi_time \in start_ipi_time .. now
          /\ latencies = Append(times, end_ipi_time - start_ipi_time)
      BY <1>8, <2>1 DEF Micro!AccountIPI
    <3>2. end_ipi_time - start_ipi_time \in 0 .. Word - 1
      BY <3>1
    <3>3. \A time \in 0 .. Word - 1 : time % Word = time
      OBVIOUS
    <3> QED
      BY <1>8, <3>1, <3>2, <3>3 DEF Micro!AccountIPI, Micro!Account
  <2> QED
    BY <1>8, <2>1 DEF Micro!AccountIPI, Micro!shared, Micro!arbVars
<1>9. CASE \/ Micro!RequestTimed \/ Micro!RevokeAfter \/ Micro!RequestBefore
           \/ Micro!RevokeTimed \/ Micro!NextPrio
  <2>1. \E t \in {"request", "revoke"} : Micro!Running(t)
    BY <1>9 DEF Micro!RequestTimed, Micro!RevokeAfter, Micro!RequestBefore,
         Micro!RevokeTimed, Micro!NextPrio
  <2>2. "ipi" \notin ready
    BY <1>1, <2>1 DEF Micro!Tasks
  <2> QED
    BY <1>9, <2>2 DEF Micro!RequestTimed, Micro!RevokeAfter, Micro!RequestBefore,
         Micro!RevokeTimed, Micro!NextPrio
<1>10. CASE \E t \in Micro!Tasks : Micro!DeleteSelf(t)
  BY <1>1, <1>10 DEF Micro!DeleteSelf, Micro!Tasks, Micro!shared, Micro!past, Micro!arbVars
<1>11. CASE Micro!ipi_id_handler
  BY <1>11 DEF Micro!ipi_id_handler, Micro!locals, Micro!arbVars
<1>12. CASE Micro!empty_handler \/ Micro!ipi_resume_handler
  <2>1. "ipi" \notin ready
    BY <1>12 DEF Micro!empty_handler, Micro!ipi_resume_handler, Micro!Take
  <2> QED
    BY <1>12, <2>1 DEF Micro!empty_handler, Micro!ipi_resume_handler
<1>13. CASE Micro!PassTime
  BY <1>13 DEF Micro!PassTime, Micro!locals, Micro!shared, Micro!past, Micro!arbVars
<1>14. CASE \E d \in Cores \ {Me} : Micro!OtherCore(d)
  <2>1. PICK d \in Cores \ {Me} : Micro!OtherCore(d)
    BY <1>14
  <2>2. pc # "held" => pending'[Me] = pending[Me]
    BY <2>1, OthersKeep
  <2> QED
    BY <2>1, <2>2 DEF Micro!OtherCore, Micro!locals, Micro!shared, Micro!past
<1> QED
  BY <1>2, <1>3, <1>4, <1>5, <1>6, <1>7, <1>8, <1>9, <1>10, <1>11, <1>12, <1>13, <1>14
     DEF Micro!Next, Micro!TaskStep

(* The token is this core's, or waited for, between request and revoke only.  *)
THEOREM MicroTokenInvariant ==
    ASSUME Me \in Cores, Horizon \in Nat PROVE Micro!Spec => []Micro!TokenInv
<1>1. Micro!Init => Micro!TokenInv
  BY MicroInitInv
<1>2. Micro!TokenInv /\ [Micro!Next]_Micro!vars => Micro!TokenInv'
  BY MicroTokenStep
<1> QED
  BY <1>1, <1>2, PTL DEF Micro!Spec

(* The hypervisor counts the core as owner or waiting only inside of a        *)
(* measurement, whatever the other cores do. *)
THEOREM MicroTokenAccounting ==
    ASSUME Me \in Cores, Horizon \in Nat
    PROVE  Micro!Spec => []TokenOnlyInMeasurement
<1>1. Micro!TokenInv => TokenOnlyInMeasurement
  BY DEF Micro!TokenInv, Micro!TokenOnlyInMeasurement, TokenOnlyInMeasurement
<1> QED
  BY <1>1, MicroTokenInvariant, PTL

(* What vIPITask counts is what its IPIs took: the other cores send it no     *)
(* pause, in any number and under any policy. *)
THEOREM MicroIPITimes ==
    ASSUME Me \in Cores, Word \in Nat, Horizon \in 0 .. Word - 1
    PROVE  Micro!Spec => []IPITimesAreLatencies
<1>0. Horizon \in Nat
  OBVIOUS
<1>1. Micro!Init => Micro!IPIInv
  BY <1>0, MicroInitInv
<1>2. Micro!TokenInv /\ Micro!IPIInv /\ [Micro!Next]_Micro!vars => Micro!IPIInv'
  BY MicroIPIStep
<1>3. Micro!IPIInv => IPITimesAreLatencies
  BY DEF Micro!IPIInv, IPITimesAreLatencies, Running
<1>4. Micro!Spec => []Micro!TokenInv
  BY <1>0, MicroTokenInvariant
<1> QED
  BY <1>1, <1>2, <1>3, <1>4, PTL DEF Micro!Spec

-----------------------------------------------------------------------------
(* The series of execution-microbenchmarks. *)

LEMMA AccountTypes ==
    ASSUME Word \in Nat, {max_time, min_time, sum} \subseteq 0 .. Word - 1,
           times \in Seq(0 .. Word - 1), NEW time \in 0 .. Word - 1, Micro!Account(time)
    PROVE  /\ {max_time', min_time', sum'} \subseteq 0 .. Word - 1
           /\ times' \in Seq(0 .. Word - 1)
<1>1. /\ max_time \in 0 .. Word - 1 /\ min_time \in 0 .. Word - 1 /\ sum \in Nat
      /\ Word \in Nat \ {0} /\ time \in Nat
  OBVIOUS
<1>2. (sum + time) % Word \in 0 .. Word - 1
  <2>1. sum + time \in Nat
    BY <1>1
  <2> QED
    BY <1>1, <2>1
<1>3. max_time' \in {max_time, time} /\ min_time' \in {min_time, time}
  BY DEF Micro!Account
<1>4. sum' = (sum + time) % Word
  BY DEF Micro!Account
<1>5. times' \in Seq(0 .. Word - 1)
  BY DEF Micro!Account
<1> QED
  BY <1>1, <1>2, <1>3, <1>4, <1>5

(* Types: all times are words.  An IPI is sent before it is taken. *)
LEMMA MicroTyped ==
    ASSUME Me \in Cores, Runs \in Nat, Word \in Nat, Durations \subseteq 0 .. Word - 1,
           LastPrio \in Nat, Horizon \in 0 .. Word - 1
    PROVE  Micro!Spec => [](Micro!TypeOK /\ start_ipi_time <= now)
<1> DEFINE Typed == Micro!TypeOK /\ start_ipi_time <= now
<1>0. Horizon \in Nat /\ 0 \in 0 .. Word - 1 /\ Word - 1 \in 0 .. Word - 1
  OBVIOUS
<1>1. Micro!Init => Typed
  <2> SUFFICES ASSUME Micro!Init PROVE Typed
    OBVIOUS
  <2>1. Micro!ArbiterTypeOK
    BY <1>0, MicroInitInv DEF Micro!TokenInv
  <2>2. <<>> \in Seq(0 .. Word - 1)
    OBVIOUS
  <2>3. {times, latencies} \subseteq Seq(0 .. Word - 1)
    BY <2>2 DEF Micro!Init
  <2>4. {max_time, min_time, sum, start_ipi_time, arbitration_time, end_ipi_time}
           \subseteq 0 .. Word - 1
    BY <1>0 DEF Micro!Init
  <2>5. ready \subseteq Micro!Tasks /\ pc = "start" /\ idPending \in BOOLEAN
    BY DEF Micro!Init
  <2>6. /\ counter \in 0 .. Runs /\ prio \in 0 .. LastPrio /\ ipi_received \in {0, 1}
        /\ now \in 0 .. Horizon /\ start_ipi_time <= now
    BY <1>0 DEF Micro!Init
  <2> QED
    BY <2>1, <2>3, <2>4, <2>5, <2>6 DEF Micro!TypeOK
<1>2. Typed /\ Micro!TokenInv' /\ [Micro!Next]_Micro!vars => Typed'
  <2> SUFFICES ASSUME Typed, Micro!ArbiterTypeOK', [Micro!Next]_Micro!vars
               PROVE  Typed'
    BY DEF Micro!TokenInv
  <2> USE <1>0 DEF Micro!TypeOK, Micro!Step, Micro!shared, Micro!past, Micro!locals
  <2>1. CASE UNCHANGED Micro!vars
    BY <2>1 DEF Micro!vars
  <2>2. CASE Micro!StartSeries
    BY <2>2 DEF Micro!StartSeries
  <2>3. CASE Micro!RunHypercall \/ Micro!MeasureIPI \/ Micro!SeeIPI \/ Micro!ResetFlag
    <3>1. Micro!BeginRun => counter' \in 0 .. Runs
      BY DEF Micro!BeginRun
    <3>2. CASE Micro!RunHypercall
      BY <3>1, <3>2 DEF Micro!RunHypercall
    <3>3. CASE Micro!MeasureIPI
      <4>1. now \in 0 .. Word - 1 /\ now <= now
        OBVIOUS
      <4> QED
        BY <3>1, <3>3, <4>1 DEF Micro!MeasureIPI
    <3>4. CASE Micro!SeeIPI \/ Micro!ResetFlag
      BY <3>4 DEF Micro!SeeIPI, Micro!ResetFlag
    <3> QED
      BY <2>3, <3>2, <3>3, <3>4
  <2>4. ASSUME NEW time \in 0 .. Word - 1, Micro!Account(time)
        PROVE  /\ {max_time', min_time', sum'} \subseteq 0 .. Word - 1
               /\ times' \in Seq(0 .. Word - 1)
    BY <2>4, AccountTypes
  <2>5. CASE Micro!AccountIPI
    <3>1. (end_ipi_time - start_ipi_time) % Word \in 0 .. Word - 1
      OBVIOUS
    <3> QED
      BY <2>4, <2>5, <3>1 DEF Micro!AccountIPI
  <2>6. CASE Micro!RequestTimed \/ Micro!RequestBefore
    <3>1. Micro!BeginRun => counter' \in 0 .. Runs
      BY DEF Micro!BeginRun
    <3> QED
      BY <2>6, <3>1 DEF Micro!RequestTimed, Micro!RequestBefore
  <2>7. CASE Micro!RevokeAfter \/ Micro!RevokeTimed
    BY <2>4, <2>7 DEF Micro!RevokeAfter, Micro!RevokeTimed
  <2>8. CASE Micro!NextPrio \/ \E t \in Micro!Tasks : Micro!DeleteSelf(t)
    <3>1. /\ UNCHANGED <<counter, max_time, min_time, sum, start_ipi_time, arbitration_time,
                         ipi_received, end_ipi_time, idPending, now, times, latencies>>
          /\ pc' = "start"
      BY <2>8 DEF Micro!NextPrio, Micro!DeleteSelf
    <3>2. prio' \in 0 .. LastPrio
      <4>1. CASE Micro!NextPrio
        BY <4>1 DEF Micro!NextPrio
      <4>2. CASE \E t \in Micro!Tasks : Micro!DeleteSelf(t)
        BY <4>2 DEF Micro!DeleteSelf
      <4> QED
        BY <2>8, <4>1, <4>2
    <3>3. ready' \subseteq Micro!Tasks
      BY <2>8 DEF Micro!NextPrio, Micro!DeleteSelf
    <3> QED
      BY <3>1, <3>2, <3>3
  <2>9. CASE Micro!ipi_id_handler
    <3>1. now - start_ipi_time \in 0 .. Word - 1
      <4>1. now \in 0 .. Word - 1 /\ start_ipi_time \in 0 .. now
        OBVIOUS
      <4> QED
        BY <4>1
    <3>2. now \in 0 .. Word - 1
      OBVIOUS
    <3>3. Append(latencies, now - start_ipi_time) \in Seq(0 .. Word - 1)
      BY <3>1
    <3> QED
      BY <2>9, <3>2, <3>3 DEF Micro!ipi_id_handler
  <2>10. CASE Micro!empty_handler \/ Micro!ipi_resume_handler
    BY <2>10 DEF Micro!empty_handler, Micro!ipi_resume_handler
  <2>11. CASE Micro!PassTime
    BY <2>11 DEF Micro!PassTime
  <2>12. CASE \E d \in Cores \ {Me} : Micro!OtherCore(d)
    BY <2>12 DEF Micro!OtherCore
  <2> QED
    BY <2>1, <2>2, <2>3, <2>5, <2>6, <2>7, <2>8, <2>9, <2>10, <2>11, <2>12
       DEF Micro!Next, Micro!TaskStep
<1>3. Micro!Spec => []Micro!TokenInv
  BY <1>0, MicroTokenInvariant
<1> QED
  BY <1>1, <1>2, <1>3, PTL DEF Micro!Spec

(* The type invariant of MicroBench. *)
THEOREM MicroTypeCorrect ==
    ASSUME Me \in Cores, Runs \in Nat, Word \in Nat, Durations \subseteq 0 .. Word - 1,
           LastPrio \in Nat, Horizon \in 0 .. Word - 1
    PROVE  Micro!Spec => []Micro!TypeOK
<1>1. Micro!Spec => [](Micro!TypeOK /\ start_ipi_time <= now)
  BY MicroTyped
<1> QED
  BY <1>1, PTL

(* A product grows with its factors. *)
LEMMA TimesMonotone ==
    ASSUME NEW n \in Nat, NEW a \in Nat, NEW b \in Nat, a <= b
    PROVE  n * a <= n * b /\ n * a \in Nat /\ n * b \in Nat
OBVIOUS

LEMMA TimesOneMore ==
    ASSUME NEW n \in Nat, NEW a \in Nat
    PROVE  (n + 1) * a = n * a + a
OBVIOUS

(* Counting one time more, if the sum stays a word. *)
LEMMA SumGrows ==
    ASSUME NEW n \in Nat, NEW lo \in Nat, NEW hi \in Nat, NEW total \in n * lo .. n * hi,
           NEW lo2 \in Nat, NEW hi2 \in Nat, NEW t \in lo2 .. hi2, lo2 <= lo, hi <= hi2
    PROVE  total + t \in (n + 1) * lo2 .. (n + 1) * hi2
<1>1. n * lo2 <= n * lo /\ n * lo2 \in Nat /\ n * lo \in Nat
  BY TimesMonotone
<1>2. n * hi <= n * hi2 /\ n * hi \in Nat /\ n * hi2 \in Nat
  BY TimesMonotone
<1>3. (n + 1) * lo2 = n * lo2 + lo2 /\ (n + 1) * hi2 = n * hi2 + hi2
  BY TimesOneMore
<1> QED
  BY <1>1, <1>2, <1>3

LEMMA SmallModulo ==
    ASSUME NEW m \in Nat, NEW k \in Nat, k < m
    PROVE  k % m = k
OBVIOUS

LEMMA Mean ==
    ASSUME NEW n \in Nat, n > 0, NEW lo \in Nat, NEW hi \in Nat,
           NEW total \in n * lo .. n * hi
    PROVE  lo <= total \div n /\ total \div n <= hi
OBVIOUS

(* The statistics keep up with the times: one more is counted.  The sum does  *)
(* not wrap around if all runs together do not. *)
LEMMA SeriesGrows ==
    ASSUME Word \in Nat, NEW longest \in Nat, longest < Word,
           Micro!TypeOK, Micro!SeriesInv(longest), (Len(times) + 1) * longest < Word,
           "hypercall" \notin ready, pc # "start",
           NEW t \in 0 .. longest, Micro!Account(t)
    PROVE  /\ Len(times') = Len(times) + 1 /\ times' # <<>>
           /\ \A i \in DOMAIN times' : times'[i] \in min_time' .. max_time'
           /\ max_time' <= longest
           /\ \E i \in DOMAIN times' : times'[i] = max_time'
           /\ \E i \in DOMAIN times' : times'[i] = min_time'
           /\ sum' \in Len(times') * min_time' .. Len(times') * max_time'
<1> DEFINE n == Len(times)
           ts == Append(times, t)
           lo == IF t < min_time THEN t ELSE min_time
           hi == IF t > max_time THEN t ELSE max_time
<1>1. /\ times \in Seq(0 .. Word - 1) /\ n \in Nat /\ DOMAIN times = 1 .. n
      /\ max_time \in Nat /\ min_time \in Nat /\ sum \in Nat /\ Word \in Nat
  BY DEF Micro!TypeOK
<1>2. times' = ts /\ min_time' = lo /\ max_time' = hi /\ sum' = (sum + t) % Word
  BY DEF Micro!Account
<1>3. /\ Len(ts) = n + 1 /\ DOMAIN ts = 1 .. n + 1 /\ ts # <<>>
      /\ \A i \in 1 .. n : ts[i] = times[i]
      /\ ts[n + 1] = t
  BY <1>1
<1>4. /\ \A i \in 1 .. n : times[i] \in min_time .. max_time
      /\ IF times = <<>> THEN max_time = 0 /\ min_time = Word - 1 /\ sum = 0
         ELSE /\ max_time <= longest
              /\ \E i \in 1 .. n : times[i] = max_time
              /\ \E i \in 1 .. n : times[i] = min_time
              /\ sum \in n * min_time .. n * max_time
  BY <1>1 DEF Micro!SeriesInv
<1>5. lo \in Nat /\ hi \in Nat /\ t \in lo .. hi /\ hi <= longest
  BY <1>1, <1>4
<1>6. /\ \A i \in 1 .. n : times[i] \in lo .. hi
      /\ \E i \in 1 .. n + 1 : ts[i] = hi
      /\ \E i \in 1 .. n + 1 : ts[i] = lo
  <2>1. \A i \in 1 .. n : times[i] \in lo .. hi
    <3>1. lo <= min_time /\ max_time <= hi
      BY <1>1
    <3>2. \A x \in min_time .. max_time : x \in lo .. hi
      BY <1>1, <1>5, <3>1
    <3> QED
      BY <1>4, <3>2
  <2>2. CASE times = <<>>
    <3>1. lo = t /\ hi = t
      BY <1>1, <1>4, <2>2
    <3>2. n + 1 \in 1 .. n + 1
      BY <1>1
    <3> QED
      BY <1>3, <2>1, <3>1, <3>2
  <2>3. CASE times # <<>>
    <3>1. \E i \in 1 .. n + 1 : ts[i] = max_time
      BY <1>1, <1>3, <1>4, <2>3
    <3>2. \E i \in 1 .. n + 1 : ts[i] = min_time
      BY <1>1, <1>3, <1>4, <2>3
    <3>3. n + 1 \in 1 .. n + 1 /\ ts[n + 1] = t
      BY <1>1, <1>3
    <3> HIDE DEF n, ts
    <3>4. hi \in {t, max_time} /\ lo \in {t, min_time}
      OBVIOUS
    <3> QED
      BY <2>1, <3>1, <3>2, <3>3, <3>4
  <2> QED
    BY <2>2, <2>3
<1>7. sum + t \in (n + 1) * lo .. (n + 1) * hi
  <2>1. CASE times = <<>>
    <3>1. n = 0 /\ sum = 0 /\ lo = t /\ hi = t
      BY <1>1, <1>4, <2>1
    <3> QED
      BY <3>1
  <2>2. CASE times # <<>>
    <3>1. sum \in n * min_time .. n * max_time /\ lo <= min_time /\ max_time <= hi
      BY <1>1, <1>4, <2>2
    <3> HIDE DEF n, lo, hi
    <3> QED
      BY <1>1, <1>5, <3>1, SumGrows
  <2> QED
    BY <2>1, <2>2
<1>8. (sum + t) % Word = sum + t
  <2> HIDE DEF n, lo, hi
  <2>1. (n + 1) * hi <= (n + 1) * longest /\ (n + 1) * longest < Word
    <3>1. n + 1 \in Nat
      BY <1>1
    <3> QED
      BY <1>5, <3>1, TimesMonotone DEF n
  <2>2. (n + 1) * hi \in Int /\ (n + 1) * lo \in Int /\ (n + 1) * longest \in Int
    BY <1>1, <1>5
  <2>3. sum + t < Word /\ sum + t \in Nat
    BY <1>1, <1>7, <2>1, <2>2
  <2> QED
    BY <1>1, <2>3, SmallModulo
<1> QED
  <2>1. \A i \in 1 .. n + 1 : ts[i] \in lo .. hi
    <3>1. \A i \in 1 .. n : ts[i] \in lo .. hi
      BY <1>3, <1>6
    <3> HIDE DEF lo, hi, ts
    <3> QED
      BY <1>1, <1>3, <1>5, <3>1
  <2> HIDE DEF lo, hi, ts, n
  <2>2. Len(times') = Len(times) + 1 /\ DOMAIN times' = 1 .. n + 1
    BY <1>2, <1>3 DEF n
  <2> QED
    BY <1>2, <1>3, <1>5, <1>6, <1>7, <1>8, <2>1, <2>2 DEF n

LEMMA SeriesStays ==
    ASSUME NEW longest, Micro!SeriesInv(longest),
           UNCHANGED <<ready, counter, max_time, min_time, sum, times, arbitration_time>>,
           pc' = pc \/ {pc, pc'} \subseteq {"spin", "reset", "account"}
    PROVE  Micro!SeriesInv(longest)'
BY DEF Micro!SeriesInv

(* Another run begins. *)
LEMMA RunBegins ==
    ASSUME NEW longest, Micro!TypeOK, Micro!SeriesInv(longest), Micro!BeginRun,
           UNCHANGED <<ready, max_time, min_time, sum, times>>,
           pc = "loop", pc' \in {"spin", "held"},
           pc' = "held" /\ "request" \in ready => arbitration_time' \in Durations
    PROVE  Micro!SeriesInv(longest)'
<1>1. counter \in Nat
  BY DEF Micro!TypeOK
<1>2. "hypercall" \notin ready => counter' = Len(times) + 1
  BY <1>1 DEF Micro!SeriesInv, Micro!BeginRun
<1> QED
  BY <1>2 DEF Micro!SeriesInv

(* A run is over and counted. *)
LEMMA RunCounts ==
    ASSUME Word \in Nat, Runs \in Nat, NEW longest \in Nat, longest < Word,
           Runs * longest < Word,
           Micro!TypeOK, Micro!SeriesInv(longest), UNCHANGED <<ready, counter>>,
           "hypercall" \notin ready, pc \notin {"start", "loop"}, pc' = "loop",
           NEW t \in 0 .. longest, Micro!Account(t)
    PROVE  Micro!SeriesInv(longest)'
<1>1. /\ Len(times) \in Nat /\ counter = Len(times) + 1 /\ counter \in 0 .. Runs
  BY DEF Micro!TypeOK, Micro!SeriesInv
<1>2. (Len(times) + 1) * longest <= Runs * longest
  <2>1. longest * (Len(times) + 1) <= longest * Runs
    BY <1>1, TimesMonotone
  <2> QED
    BY <1>1, <2>1
<1>3. (Len(times) + 1) * longest < Word
  <2>1. (Len(times) + 1) * longest \in Int /\ Runs * longest \in Int
    BY <1>1
  <2> QED
    BY <1>2, <2>1
<1>4. /\ Len(times') = Len(times) + 1 /\ times' # <<>>
      /\ \A i \in DOMAIN times' : times'[i] \in min_time' .. max_time'
      /\ max_time' <= longest
      /\ \E i \in DOMAIN times' : times'[i] = max_time'
      /\ \E i \in DOMAIN times' : times'[i] = min_time'
      /\ sum' \in Len(times') * min_time' .. Len(times') * max_time'
  BY <1>3, SeriesGrows
<1>5. counter' = Len(times') + 0
  BY <1>1, <1>4
<1> QED
  BY <1>4, <1>5 DEF Micro!SeriesInv

LEMMA MicroSeriesStep ==
    ASSUME Word \in Nat, Runs \in Nat, Horizon \in Nat, NEW longest \in Nat,
           longest < Word, Runs * longest < Word,
           Durations \subseteq 0 .. longest, Horizon <= longest,
           Micro!TypeOK, Micro!IPIInv, Micro!SeriesInv(longest),
           [Micro!Next]_Micro!vars
    PROVE  Micro!SeriesInv(longest)'
<1> USE DEF Micro!Step, Micro!locals, Micro!shared, Micro!past
<1>1. ASSUME NEW t \in Micro!Tasks, Micro!Running(t)
      PROVE  /\ t # "hypercall" => "hypercall" \notin ready
             /\ t = "revoke" => "request" \notin ready
  BY <1>1 DEF Micro!Running, Micro!Priority, Micro!Tasks
<1>2. CASE UNCHANGED Micro!vars
  BY <1>2, SeriesStays DEF Micro!vars
<1>3. CASE Micro!StartSeries
  <2>1. /\ times' = <<>> /\ counter' = 0 /\ max_time' = 0 /\ min_time' = Word - 1
        /\ sum' = 0 /\ pc' = "loop"
    BY <1>3 DEF Micro!StartSeries
  <2>2. Len(times') = 0 /\ DOMAIN times' = {} /\ counter' = Len(times') + 0
    BY <2>1
  <2> QED
    BY <2>1, <2>2 DEF Micro!SeriesInv
<1>4. CASE Micro!RunHypercall
  BY <1>4 DEF Micro!RunHypercall, Micro!Running, Micro!SeriesInv
<1>5. CASE Micro!MeasureIPI
  BY <1>5, RunBegins DEF Micro!MeasureIPI
<1>6. CASE Micro!SeeIPI \/ Micro!ResetFlag
  <2>1. /\ UNCHANGED <<ready, counter, max_time, min_time, sum, times, arbitration_time>>
        /\ {pc, pc'} \subseteq {"spin", "reset", "account"}
    BY <1>6 DEF Micro!SeeIPI, Micro!ResetFlag
  <2> QED
    BY <2>1, SeriesStays
<1>7. CASE Micro!AccountIPI
  <2>1. "hypercall" \notin ready /\ "ipi" \in ready
    BY <1>1, <1>7 DEF Micro!AccountIPI, Micro!Running, Micro!Tasks
  <2>2. (end_ipi_time - start_ipi_time) % Word \in 0 .. longest
    <3>1. /\ start_ipi_time \in 0 .. now /\ end_ipi_time \in start_ipi_time .. now
          /\ now \in 0 .. Horizon
      BY <1>7, <2>1 DEF Micro!AccountIPI, Micro!IPIInv
    <3>2. end_ipi_time - start_ipi_time \in 0 .. longest
      BY <3>1
    <3> QED
      BY <3>2, SmallModulo
  <2> QED
    BY <1>7, <2>1, <2>2, RunCounts DEF Micro!AccountIPI
<1>8. CASE Micro!RequestTimed \/ Micro!RequestBefore
  <2>1. pc' = "held" /\ "request" \in ready => arbitration_time' \in Durations
    BY <1>1, <1>8 DEF Micro!RequestTimed, Micro!RequestBefore, Micro!Tasks
  <2> QED
    BY <1>8, <2>1, RunBegins DEF Micro!RequestTimed, Micro!RequestBefore
<1>9. CASE Micro!RevokeAfter
  <2>1. "hypercall" \notin ready /\ "request" \in ready
    BY <1>1, <1>9 DEF Micro!RevokeAfter, Micro!Running, Micro!Tasks
  <2>2. arbitration_time \in 0 .. longest
    BY <1>9, <2>1 DEF Micro!RevokeAfter, Micro!SeriesInv
  <2> QED
    BY <1>9, <2>1, <2>2, RunCounts DEF Micro!RevokeAfter
<1>10. CASE Micro!RevokeTimed
  <2>1. "hypercall" \notin ready
    BY <1>1, <1>10 DEF Micro!RevokeTimed, Micro!Tasks
  <2>2. arbitration_time' \in 0 .. longest
    BY <1>10 DEF Micro!RevokeTimed
  <2> QED
    BY <1>10, <2>1, <2>2, RunCounts DEF Micro!RevokeTimed
<1>11. CASE Micro!NextPrio \/ \E t \in Micro!Tasks : Micro!DeleteSelf(t)
  <2>1. pc' = "start"
    BY <1>11 DEF Micro!NextPrio, Micro!DeleteSelf
  <2> QED
    BY <2>1 DEF Micro!SeriesInv
<1>12. CASE \/ Micro!ipi_id_handler \/ Micro!empty_handler \/ Micro!ipi_resume_handler
            \/ Micro!PassTime \/ \E d \in Cores \ {Me} : Micro!OtherCore(d)
  <2>1. UNCHANGED <<ready, pc, counter, max_time, min_time, sum, times, arbitration_time>>
    BY <1>12 DEF Micro!ipi_id_handler, Micro!empty_handler, Micro!ipi_resume_handler,
                 Micro!PassTime, Micro!OtherCore
  <2> QED
    BY <2>1, SeriesStays
<1> QED
  BY <1>2, <1>3, <1>4, <1>5, <1>6, <1>7, <1>8, <1>9, <1>10, <1>11, <1>12
     DEF Micro!Next, Micro!TaskStep

(* Each printed series has the statistics of all its runs and of no others,   *)
(* the mean between minimum and maximum, if no time is so long that all runs  *)
(* of a series together exceed a word. *)
THEOREM MicroStatistics ==
    ASSUME Me \in Cores, Runs \in Nat, Word \in Nat, LastPrio \in Nat, Horizon \in Nat,
           NEW CONSTANT longest \in Nat, longest < Word, Runs * longest < Word,
           Durations \subseteq 0 .. longest, Horizon <= longest
    PROVE  Micro!Spec => []Micro!StatisticsAreSeries
<1>0. Horizon \in 0 .. Word - 1 /\ Durations \subseteq 0 .. Word - 1
  OBVIOUS
<1>1. Micro!Init => Micro!SeriesInv(longest) /\ Micro!IPIInv
  BY MicroInitInv DEF Micro!Init, Micro!SeriesInv
<1>2. /\ Micro!TypeOK /\ Micro!IPIInv /\ Micro!SeriesInv(longest) /\ [Micro!Next]_Micro!vars
      => Micro!SeriesInv(longest)'
  BY MicroSeriesStep
<1>3. Micro!TokenInv /\ Micro!IPIInv /\ [Micro!Next]_Micro!vars => Micro!IPIInv'
  BY <1>0, MicroIPIStep
<1>4. Micro!TypeOK /\ Micro!SeriesInv(longest) => Micro!StatisticsAreSeries
  <2> SUFFICES ASSUME Micro!TypeOK, Micro!SeriesInv(longest), pc = "loop",
                      \E t \in {"ipi", "request", "revoke"} : Micro!Running(t)
               PROVE  /\ Len(times) = counter
                      /\ \A i \in DOMAIN times : min_time <= times[i] /\ times[i] <= max_time
                      /\ counter > 0 => /\ \E i \in DOMAIN times : times[i] = max_time
                                        /\ \E i \in DOMAIN times : times[i] = min_time
                      /\ counter > 0 => /\ min_time <= sum \div counter
                                        /\ sum \div counter <= max_time
    BY DEF Micro!StatisticsAreSeries
  <2>1. "hypercall" \notin ready
    BY DEF Micro!Running, Micro!Priority
  <2>2. /\ Len(times) \in Nat /\ counter \in Nat /\ counter = Len(times) + 0
        /\ min_time \in Nat /\ max_time \in Nat
    BY <2>1 DEF Micro!SeriesInv, Micro!TypeOK
  <2>3. \A i \in DOMAIN times : times[i] \in min_time .. max_time
    BY <2>1 DEF Micro!SeriesInv
  <2>4. counter > 0 => /\ times # <<>>
                       /\ \E i \in DOMAIN times : times[i] = max_time
                       /\ \E i \in DOMAIN times : times[i] = min_time
                       /\ sum \in Len(times) * min_time .. Len(times) * max_time
    BY <2>1, <2>2 DEF Micro!SeriesInv
  <2>5. counter > 0 => min_time <= sum \div counter /\ sum \div counter <= max_time
    BY <2>2, <2>4, Mean
  <2> QED
    BY <2>2, <2>3, <2>4, <2>5
<1>5. Micro!Spec => []Micro!TypeOK
  BY <1>0, MicroTypeCorrect
<1>6. Micro!Spec => []Micro!TokenInv
  BY MicroTokenInvariant
<1> QED
  BY <1>1, <1>2, <1>3, <1>4, <1>5, <1>6, PTL DEF Micro!Spec
=============================================================================
