---------------------------- MODULE PremPromise ----------------------------
(***************************************************************************)
(* What predictable execution promises, without tasks, bytes or IPIs: the  *)
(* cores take turns fetching.  A core fetches the lines of its job in a    *)
(* memory phase, computes only when it has them all, and fetches only as   *)
(* holder of the token; overtaken, it goes on until it is told so, and     *)
(* then fetches one more line at most.                                     *)
(***************************************************************************)
EXTENDS Naturals

CONSTANTS Cores, NoCore

VARIABLES
    holder,      \* the core whose turn it is, or NoCore
    phase,       \* per core: "rest", "memory" or "computation"
    left,        \* per core, the lines the memory phase still has to fetch
    stragglers,  \* the overtaken cores that do not know it yet
    ending       \* those that know it, with one line still to come

promiseVars == <<holder, phase, left, stragglers, ending>>

Fetchers(ph) == {c \in Cores : ph[c] = "memory"}

Init ==
    /\ holder = NoCore
    /\ phase \in [Cores -> {"rest", "computation"}]
    /\ left = [c \in Cores |-> 0]
    /\ stragglers = {}
    /\ ending = {}

(* The turn goes to core c; the core that had it, if any, is overtaken. *)
TurnTo(c) ==
    /\ holder' = c
    /\ stragglers' = (stragglers \cup ({holder} \ {NoCore})) \ {c}
    /\ ending' = ending \ {c}

(* A memory phase starts: it gets the turn, or waits behind the holder. *)
Enter(c) ==
    /\ phase[c] = "rest"
    /\ phase' = [phase EXCEPT ![c] = "memory"]
    /\ left'[c] \in Nat \ {0}
    /\ left' = [left EXCEPT ![c] = left'[c]]
    /\ \/ TurnTo(c)
       \/ holder # NoCore /\ UNCHANGED <<holder, stragglers, ending>>

Overtake(c) ==
    /\ phase[c] = "memory"
    /\ TurnTo(c)
    /\ UNCHANGED <<phase, left>>

Fetch(c) ==
    /\ phase[c] = "memory"
    /\ left[c] > 0
    /\ c \in {holder} \cup stragglers \cup ending
    /\ left' = [left EXCEPT ![c] = @ - 1]
    /\ ending' = ending \ {c}
    /\ UNCHANGED <<holder, phase, stragglers>>

Tell(c) ==
    /\ c \in stragglers
    /\ stragglers' = stragglers \ {c}
    /\ ending' \in {ending, ending \cup {c}}
    /\ UNCHANGED <<holder, phase, left>>

(* The memory phase ends with every line fetched, and the turn is not lost:  *)
(* if others are in their memory phase, one of them has it. *)
Compute(c) ==
    /\ phase[c] = "memory"
    /\ left[c] = 0
    /\ phase' = [phase EXCEPT ![c] = "computation"]
    /\ stragglers' = stragglers \ {c, holder'}
    /\ ending' = ending \ {c, holder'}
    /\ IF holder # c THEN holder' = holder
       ELSE IF Fetchers(phase') = {} THEN holder' = NoCore
       ELSE holder' \in Fetchers(phase')
    /\ UNCHANGED left

Rest(c) ==
    /\ phase[c] = "computation"
    /\ phase' = [phase EXCEPT ![c] = "rest"]
    /\ UNCHANGED <<holder, left, stragglers, ending>>

Next ==
    \E c \in Cores :
        Enter(c) \/ Overtake(c) \/ Fetch(c) \/ Tell(c) \/ Compute(c) \/ Rest(c)

Spec == Init /\ [][Next]_promiseVars

-----------------------------------------------------------------------------
(* What follows: the turn is with a core in its memory phase, and with none   *)
(* only if none is in it; the cores that were overtaken are still fetching;   *)
(* nobody computes or rests with lines to fetch. *)
TurnInv ==
    /\ holder \in Fetchers(phase) \cup {NoCore}
    /\ holder = NoCore => Fetchers(phase) = {}
    /\ stragglers \cup ending \subseteq Fetchers(phase) \ {holder}
    /\ stragglers \cap ending = {}
    /\ \A c \in Cores : phase[c] # "memory" => left[c] = 0
=============================================================================
