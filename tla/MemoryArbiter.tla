--------------------------- MODULE MemoryArbiter ---------------------------
(***************************************************************************)
(* The hypervisor's memory token, as the guests use it (src/inc/           *)
(* hypervisor.h:29-31).  The hypervisor is not in this repository: this    *)
(* module is the contract the code in prem_task.c relies on.  At most one  *)
(* core owns the token.  A request or an update is answered yes or no on   *)
(* the spot; a refused or preempted core waits and gets the token, with an *)
(* IPI_RESUME, when an owner revokes its access.  Hypercalls are atomic.   *)
(* The policy is left open: Outranks only says which core may take the     *)
(* token from which.                                                       *)
(***************************************************************************)
EXTENDS Naturals

CONSTANTS
    Cores,        \* the guests, one per physical core
    NoCore,       \* "the token is free"
    Outranks,     \* <<c, d>>: a request of c may preempt d
    TimesToWait,  \* the ttw values an answer may carry (0: no waiting)
    OrderedIPIs   \* TRUE: an IPI is taken before the next one can be sent

ASSUME CoresAssumption    == NoCore \notin Cores
ASSUME OutranksAssumption == Outranks \subseteq Cores \X Cores
ASSUME WaitAssumption     == TimesToWait \subseteq Nat /\ TimesToWait # {}
ASSUME OrderAssumption    == OrderedIPIs \in BOOLEAN

VARIABLES
    owner,        \* the core that holds the token, or NoCore
    waiting,      \* the cores that will be resumed
    pending       \* per core, the IPIs sent and not yet taken

arbVars == <<owner, waiting, pending>>

IPIs == {"pause", "resume"}

Answers == [ack : {0, 1}, ttw : TimesToWait]

ArbiterTypeOK ==
    /\ owner \in Cores \cup {NoCore}
    /\ waiting \subseteq Cores
    /\ pending \in [Cores -> SUBSET IPIs]

ArbiterInit ==
    /\ owner = NoCore
    /\ waiting = {}
    /\ pending = [c \in Cores |-> {}]

-----------------------------------------------------------------------------
(* Sending.  An SGI has one pending bit per target: sending it twice before  *)
(* it is taken is sending it once, and two different SGIs of one priority    *)
(* are taken in either order.                                                *)

Settled(c) == OrderedIPIs => pending[c] = {}

Send(c, ipi) ==
    /\ Settled(c)
    /\ pending' = [pending EXCEPT ![c] = @ \cup {ipi}]

Take(c, ipi) ==
    /\ ipi \in pending[c]
    /\ pending' = [pending EXCEPT ![c] = @ \ {ipi}]
    /\ UNCHANGED <<owner, waiting>>

(* The answer ack to a request or an update of core c. *)
Grant(c) ==
    /\ owner \in {NoCore, c}
    /\ owner' = c
    /\ waiting' = waiting \ {c}
    /\ UNCHANGED pending

Preempt(c) ==
    /\ owner \in Cores \ {c}
    /\ <<c, owner>> \in Outranks
    /\ Send(owner, "pause")
    /\ owner' = c
    /\ waiting' = (waiting \ {c}) \cup {owner}

Deny(c) ==
    /\ owner \in Cores \ {c}
    /\ waiting' = waiting \cup {c}
    /\ UNCHANGED <<owner, pending>>

Ask(c, ack) ==
    \/ ack = 1 /\ Grant(c)
    \/ ack = 1 /\ Preempt(c)
    \/ ack = 0 /\ Deny(c)

(* No other core may take the token from this one. *)
Unrivalled(c) == \A d \in Cores : <<d, c>> \notin Outranks

(* A revoke of the owner (result 0) hands the token to a waiting core; a     *)
(* core that lost the token before it could revoke stops waiting, and the    *)
(* result may be any.                                                        *)
HandOver(c) ==
    /\ owner = c
    /\ \E d \in waiting : /\ owner' = d
                          /\ waiting' = waiting \ {d}
                          /\ Send(d, "resume")

Release(c) ==
    /\ owner = c
    /\ waiting = {}
    /\ owner' = NoCore
    /\ UNCHANGED <<waiting, pending>>

Withdraw(c) ==
    /\ owner # c
    /\ waiting' = waiting \ {c}
    /\ UNCHANGED <<owner, pending>>

Revoke(c, result) ==
    \/ result = 0 /\ HandOver(c)
    \/ result = 0 /\ Release(c)
    \/ result \in {0, 1} /\ Withdraw(c)
=============================================================================
