----------------------------- MODULE CacheLines -----------------------------
(***************************************************************************)
(* The loops of src/prefetch.S on one cache: prefetch_data fetches the     *)
(* lines of a range, clear_L2_cache flushes a range by address and         *)
(* clear_L2_cache_CISW by set and way.  (The loop of prefetch_data_prem    *)
(* is the first with the check of suspend_prefetch, which PremCore has.)   *)
(* Registers are Width bits wide.                                          *)
(***************************************************************************)
EXTENDS Integers, FiniteSets

CONSTANTS
    Width,            \* 64 in the code
    LOG2_LINE,        \* LOG2_L2_CACHE_LINE_SIZE
    LOG2_MIN_LINE,    \* of CTR_EL0.DminLine: the step of the flush
    Addresses,        \* where data may begin
    DataSizes,
    Ways, Sets        \* of the cache

ASSUME WidthAssumption == Width \in Nat \ {0}
ASSUME LineAssumption  == /\ LOG2_LINE \in 0 .. Width
                          /\ LOG2_MIN_LINE \in 0 .. LOG2_LINE
\* Data ends a line or more below the addresses that blt takes for negative.
ASSUME DataAssumption  == /\ Addresses \subseteq Nat
                          /\ DataSizes \subseteq Nat
                          /\ \A a \in Addresses, n \in DataSizes :
                                a + n + 2^LOG2_LINE <= 2^(Width - 1)
ASSUME CacheAssumption == Ways \subseteq Nat /\ Sets \subseteq Nat

\* Of powers of two.
ASSUME PowerAssumption == /\ {2^Width, 2^(Width - 1), 2^LOG2_LINE, 2^LOG2_MIN_LINE}
                                \subseteq Nat \ {0}
                          /\ 2^Width = 2 * 2^(Width - 1)
                          /\ 2^LOG2_LINE % 2^LOG2_MIN_LINE = 0

Word == 0 .. 2^Width - 1
Wrap(n) == n % 2^Width

(* What blt compares. *)
Signed(x) == IF x < 2^(Width - 1) THEN x ELSE x - 2^Width

L2_CACHE_LINE_SIZE == 2^LOG2_LINE
MIN_LINE_SIZE      == 2^LOG2_MIN_LINE
LineOf(x)          == x \div L2_CACHE_LINE_SIZE
AllLines           == {LineOf(x) : x \in Word}

(* Reference: the lines that hold a byte of the data. *)
LinesOf(address, size) == {LineOf(x) : x \in address .. address + size - 1}

VARIABLES
    pc,
    address, size,          \* the data of the program
    x0, x1,                 \* registers of the two loops over a range
    cached,                 \* the lines in the cache
    range,                  \* the arguments <<start, end>> of the CISW loop
    SetWay,                 \* its registers Ways and Sets
    cleared,                \* the sets and ways cleared, how often each
    \* History
    before                  \* what was cached before the last call

vars == <<pc, address, size, x0, x1, cached, range, SetWay, cleared, before>>

Cells == [way : Nat, set : Nat]

TypeOK ==
    /\ pc \in {"idle", "prefetch", "fetched", "flush", "flushed", "cisw", "done"}
    /\ address \in Addresses
    /\ size \in DataSizes
    /\ x0 \in Word
    /\ x1 \in Word
    /\ cached \subseteq AllLines
    /\ range \in [start : Cells, end : Cells]
    /\ SetWay \in Cells
    /\ cleared \in [[way : Ways, set : Sets] -> 0 .. 1]
    /\ before \subseteq AllLines

Init ==
    /\ pc = "idle"
    /\ address \in Addresses
    /\ size \in DataSizes
    /\ x0 = 0
    /\ x1 = 0
    /\ cached \in {{}, AllLines}
    /\ \E w0, w1 \in Ways, s0, s1 \in Sets :
        /\ w0 <= w1
        /\ s0 <= s1
        /\ range = [start |-> [way |-> w0, set |-> s0],
                    end   |-> [way |-> w1, set |-> s1]]
    /\ SetWay = [way |-> 0, set |-> 0]
    /\ cleared = [cell \in [way : Ways, set : Sets] |-> 0]
    /\ before = cached

rangeUnchanged == UNCHANGED <<address, size, range, SetWay, cleared>>
-----------------------------------------------------------------------------
(* Slip: the size is rounded up to lines before it is shifted. *)
prefetch_data_Round ==
    /\ pc = "idle"
    /\ pc' = "prefetch"
    /\ x0' = address
    /\ x1' = size \div L2_CACHE_LINE_SIZE + 1
    /\ before' = cached
    /\ UNCHANGED cached
    /\ rangeUnchanged

prefetch_data ==
    /\ pc = "idle"
    /\ pc' = "prefetch"
    /\ x0' = address
    /\ x1' = size \div L2_CACHE_LINE_SIZE
    /\ before' = cached
    /\ UNCHANGED cached
    /\ rangeUnchanged

prefetch_loop ==
    /\ pc = "prefetch"
    /\ cached' = cached \cup {LineOf(x0)}
    /\ x0' = Wrap(x0 + L2_CACHE_LINE_SIZE)
    /\ x1' = Wrap(x1 - 1)
    /\ pc' = IF x1' = 0 THEN "fetched" ELSE "prefetch"
    /\ UNCHANGED before
    /\ rangeUnchanged

(* Slip: the start is not masked, and the last line may be stepped over. *)
clear_L2_cache_NoMask ==
    /\ pc = "fetched"
    /\ pc' = "flush"
    /\ x1' = Wrap(address + size)
    /\ x0' = address
    /\ before' = cached
    /\ UNCHANGED cached
    /\ rangeUnchanged

clear_L2_cache ==
    /\ pc = "fetched"
    /\ pc' = "flush"
    /\ x1' = Wrap(address + size)
    /\ x0' = address - (address % MIN_LINE_SIZE)
    /\ before' = cached
    /\ UNCHANGED cached
    /\ rangeUnchanged

flush_loop ==
    /\ pc = "flush"
    /\ cached' = cached \ {LineOf(x0)}
    /\ x0' = Wrap(x0 + MIN_LINE_SIZE)
    /\ pc' = IF Signed(x0') < Signed(x1) THEN "flush" ELSE "flushed"
    /\ UNCHANGED <<x1, before>>
    /\ rangeUnchanged

-----------------------------------------------------------------------------
(* By set and way: from the end of the range down to its start.              *)

ciswUnchanged == UNCHANGED <<address, size, x0, x1, cached, range, before>>

clear_L2_cache_CISW ==
    /\ pc = "flushed"
    /\ pc' = "cisw"
    /\ SetWay' = range.end
    /\ UNCHANGED cleared
    /\ ciswUnchanged

Clear == cleared' = [cleared EXCEPT ![SetWay] = @ + 1]

NextSet ==
    /\ pc = "cisw"
    /\ SetWay.set > range.start.set
    /\ Clear
    /\ SetWay' = [SetWay EXCEPT !.set = @ - 1]
    /\ UNCHANGED pc
    /\ ciswUnchanged

(* Slip: the sets of the next way are not started again. *)
NextWay_KeepSet ==
    /\ pc = "cisw"
    /\ SetWay.set <= range.start.set
    /\ Clear
    /\ IF SetWay.way <= range.start.way
       THEN pc' = "done" /\ UNCHANGED SetWay
       ELSE /\ SetWay' = [SetWay EXCEPT !.way = @ - 1]
            /\ UNCHANGED pc
    /\ ciswUnchanged

NextWay ==
    /\ pc = "cisw"
    /\ SetWay.set <= range.start.set
    /\ Clear
    /\ IF SetWay.way <= range.start.way
       THEN pc' = "done" /\ UNCHANGED SetWay
       ELSE /\ SetWay' = [way |-> SetWay.way - 1, set |-> range.end.set]
            /\ UNCHANGED pc
    /\ ciswUnchanged

Next ==
    \/ prefetch_data \/ prefetch_loop
    \/ clear_L2_cache \/ flush_loop
    \/ clear_L2_cache_CISW \/ NextSet \/ NextWay

Spec == Init /\ [][Next]_vars
-----------------------------------------------------------------------------
(* prefetch.S:98: nothing but the data is fetched, and when prefetch_data     *)
(* returns every line of the data has been, if the data is whole lines. *)
PrefetchIsExact ==
    /\ pc \in {"prefetch", "fetched"} => cached \subseteq before \cup LinesOf(address, size)
    /\ pc = "fetched" /\ address % L2_CACHE_LINE_SIZE = 0 /\ size % L2_CACHE_LINE_SIZE = 0
          => LinesOf(address, size) \subseteq cached

(* prefetch.S:10: clear_L2_cache flushes the lines of the range, in any       *)
(* alignment and with any step, and leaves all others alone. *)
FlushIsExact ==
    pc = "flushed" => cached = before \ LinesOf(address, size)

(* What clear_L2_cache_CISW clears is exactly its range, each cell once.      *)
CiswIsExact ==
    pc = "done" =>
        \A cell \in DOMAIN cleared :
            cleared[cell] =
                IF /\ cell.way \in range.start.way .. range.end.way
                   /\ cell.set \in range.start.set .. range.end.set
                THEN 1 ELSE 0
-----------------------------------------------------------------------------
(* What these rest on (CacheLines_proofs): what the loops have done so far.  *)

PrefetchSoFar ==
    pc = "prefetch" =>
        /\ x1 \in 1 .. size \div L2_CACHE_LINE_SIZE
        /\ x0 + x1 * L2_CACHE_LINE_SIZE =
               address + (size \div L2_CACHE_LINE_SIZE) * L2_CACHE_LINE_SIZE
        /\ address % L2_CACHE_LINE_SIZE = 0 =>
               /\ x0 % L2_CACHE_LINE_SIZE = 0
               /\ LinesOf(address, x0 - address) \subseteq cached

Start == address - (address % MIN_LINE_SIZE)

FlushSoFar ==
    pc = "flush" =>
        /\ x1 = address + size
        /\ x0 % MIN_LINE_SIZE = 0
        /\ Start <= x0 /\ x0 < address + size
        /\ cached = before \ LinesOf(Start, x0 - Start)

InRange(cell) ==
    /\ cell.way \in range.start.way .. range.end.way
    /\ cell.set \in range.start.set .. range.end.set

Passed(cell) ==
    \/ cell.way > SetWay.way
    \/ cell.way = SetWay.way /\ cell.set > SetWay.set

CiswSoFar ==
    /\ range.start.way <= range.end.way /\ range.start.set <= range.end.set
    /\ pc \in {"idle", "prefetch", "fetched", "flush", "flushed"} =>
          \A cell \in [way : Ways, set : Sets] : cleared[cell] = 0
    /\ pc = "cisw" =>
          /\ InRange(SetWay)
          /\ \A cell \in [way : Ways, set : Sets] :
                cleared[cell] = IF InRange(cell) /\ Passed(cell) THEN 1 ELSE 0
=============================================================================
