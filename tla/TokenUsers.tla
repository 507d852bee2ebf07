----------------------------- MODULE TokenUsers ------------------------------
(***************************************************************************)
(* What the applications with handlers of their own have in common, and    *)
(* must guarantee to the other cores: execution-prem (PremApp) and         *)
(* execution-fpsched (FpschedApp).  Each has one task per core that asks   *)
(* for the token, prefetches and revokes, again and again.                 *)
(***************************************************************************)
EXTENDS MemoryArbiter

VARIABLE pc                \* where the task of a core is

(* From the answer to the request until the revoke.  A refused task waits in  *)
(* prefetch_data_prem in the one application, suspended in the other. *)
LoopPCs == {"check", "fetch", "wfi", "asleep"}

JobPCs == LoopPCs \cup {"store", "waiting"}
                  \cup {"answered", "suspending", "suspended", "memory", "halted"}
                  \cup {"revoke"}

InJob(c) == pc[c] \in JobPCs

Step(c, from, to) ==
    /\ pc[c] = from
    /\ pc' = [pc EXCEPT ![c] = to]

(* A core that has decided to fetch.  With a time to wait, execution-fpsched  *)
(* takes a refusal for a grant. *)
Fetching(c) == pc[c] = "fetch" \/ (pc[c] = "memory" /\ TimesToWait = {0})

-----------------------------------------------------------------------------
(* A core that no other outranks prefetches only while it owns the token:     *)
(* whatever the others do, the answer it acts on and the resumes it takes are *)
(* true (state_machine.h:5-18). *)
UnrivalledOwnsToken ==
    \A c \in Cores : Unrivalled(c) /\ Fetching(c) => owner = c

(* The hypervisor counts as owner or waiting exactly the cores between        *)
(* request and revoke: neither the handlers nor a refusal break the pairs,    *)
(* and a halted core keeps its place for ever. *)
TokenMatchesJobs ==
    {c \in Cores : owner = c \/ c \in waiting} = {c \in Cores : InJob(c)}

-----------------------------------------------------------------------------
(* For PremPromise: a core is in its memory phase from the answer until the   *)
(* revoke, and computes from there on. *)
phaseOf(c) ==
    IF InJob(c) THEN "memory"
    ELSE IF pc[c] \in {"compute", "revoked"} THEN "computation"
    ELSE "rest"
=============================================================================
