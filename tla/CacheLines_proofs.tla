-------------------------- MODULE CacheLines_proofs ---------------------------
(***************************************************************************)
(* The loops of prefetch.S do what they are for, for any width of          *)
(* addresses, sizes of lines, data, and ranges of sets and ways.           *)
(***************************************************************************)
EXTENDS CacheLines, TLAPS

-----------------------------------------------------------------------------
(* Sizes and addresses.                                                      *)

LEMMA Sizes ==
    /\ L2_CACHE_LINE_SIZE \in Nat \ {0} /\ MIN_LINE_SIZE \in Nat \ {0}
    /\ \E k \in Nat \ {0} : L2_CACHE_LINE_SIZE = MIN_LINE_SIZE * k
    /\ MIN_LINE_SIZE <= L2_CACHE_LINE_SIZE
<1> DEFINE l == L2_CACHE_LINE_SIZE
           m == MIN_LINE_SIZE
<1>1. l \in Nat \ {0} /\ m \in Nat \ {0} /\ l % m = 0
  BY PowerAssumption DEF L2_CACHE_LINE_SIZE, MIN_LINE_SIZE
<1> HIDE DEF l, m
<1>2. l = m * (l \div m) /\ l \div m \in Nat \ {0}
  BY <1>1
<1>3. m <= m * (l \div m)
  BY <1>1, <1>2
<1> QED
  BY <1>1, <1>2, <1>3 DEF l, m

(* Addresses of data, and one line further, are not negative for blt. *)
LEMMA Addressable ==
    /\ 2^Width \in Nat \ {0} /\ 2^(Width - 1) \in Nat \ {0}
    /\ \A x \in 0 .. 2^(Width - 1) - 1 : x \in Word /\ Wrap(x) = x /\ Signed(x) = x
    /\ \A x \in Int : Wrap(x) \in Word
    /\ \A a \in Addresses, n \in DataSizes :
          a \in Nat /\ n \in Nat /\ a + n + L2_CACHE_LINE_SIZE <= 2^(Width - 1)
<1> DEFINE w == 2^Width
           h == 2^(Width - 1)
<1>1. w \in Nat \ {0} /\ h \in Nat \ {0} /\ w = 2 * h
  BY PowerAssumption
<1>2. \A a \in Addresses, n \in DataSizes :
          a \in Nat /\ n \in Nat /\ a + n + L2_CACHE_LINE_SIZE <= h
  BY DataAssumption DEF L2_CACHE_LINE_SIZE
<1>3. /\ Word = 0 .. w - 1
      /\ \A x : Wrap(x) = x % w
      /\ \A x : Signed(x) = IF x < h THEN x ELSE x - w
  BY DEF Word, Wrap, Signed
<1> HIDE DEF w, h
<1>4. \A x \in 0 .. h - 1 : x \in Word /\ Wrap(x) = x /\ Signed(x) = x
  BY <1>1, <1>3
<1>5. \A x \in Int : Wrap(x) \in Word
  BY <1>1, <1>3
<1> QED
  BY <1>1, <1>2, <1>4, <1>5 DEF w, h

-----------------------------------------------------------------------------
(* Lines.                                                                    *)

LEMMA NextMultiple ==
    ASSUME NEW m \in Nat \ {0}, NEW x \in Nat, x % m = 0
    PROVE  (x + m) % m = 0
<1>1. PICK j \in Nat : x = m * j
  BY x = m * (x \div m), x \div m \in Nat
<1>2. x + m = m * (j + 1) /\ j + 1 \in Nat
  BY <1>1
<1>3. (m * (j + 1)) % m = 0
  BY <1>2
<1> QED
  BY <1>2, <1>3

LEMMA LastMultiple ==
    ASSUME NEW m \in Nat \ {0}, NEW x \in Nat
    PROVE  /\ x - (x % m) \in Nat /\ (x - (x % m)) % m = 0
           /\ x - (x % m) <= x /\ x < x - (x % m) + m
<1>1. x = m * (x \div m) + (x % m) /\ x % m \in 0 .. m - 1 /\ x \div m \in Nat
  OBVIOUS
<1>2. x - (x % m) = m * (x \div m) /\ m * (x \div m) \in Nat
  BY <1>1
<1>3. (m * (x \div m)) % m = 0
  BY <1>1
<1> QED
  BY <1>1, <1>2, <1>3

LEMMA InBlock ==
    ASSUME NEW m \in Nat \ {0}, NEW k \in Nat \ {0}, NEW j \in Nat, NEW r \in 0 .. m - 1
    PROVE  (m * j + r) \div (m * k) = j \div k
OBVIOUS

(* The bytes from a multiple of a line, or of the step of the flush, to the   *)
(* next one are in one line. *)
LEMMA OneLine ==
    ASSUME NEW m \in {L2_CACHE_LINE_SIZE, MIN_LINE_SIZE}, NEW x \in Nat, x % m = 0,
           NEW y \in x .. x + m - 1
    PROVE  LineOf(y) = LineOf(x)
<1>1. PICK k \in Nat \ {0} : L2_CACHE_LINE_SIZE = m * k
  <2>1. L2_CACHE_LINE_SIZE = L2_CACHE_LINE_SIZE * 1
    BY Sizes
  <2> QED
    BY <2>1, Sizes
<1>2. m \in Nat \ {0}
  BY Sizes
<1>3. PICK j \in Nat : x = m * j
  <2>1. x = m * (x \div m) /\ x \div m \in Nat
    BY <1>2
  <2> QED
    BY <2>1
<1>4. PICK r \in 0 .. m - 1 : y = m * j + r
  <2>1. y - x \in 0 .. m - 1 /\ y = m * j + (y - x)
    BY <1>2, <1>3
  <2> QED
    BY <2>1
<1>5. (m * j + r) \div (m * k) = j \div k
  BY <1>1, <1>2, InBlock
<1>6. (m * j + 0) \div (m * k) = j \div k
  BY <1>1, <1>2, InBlock
<1> QED
  BY <1>1, <1>2, <1>3, <1>4, <1>5, <1>6 DEF LineOf

(* The lines of one step more. *)
LEMMA LinesExtend ==
    ASSUME NEW m \in {L2_CACHE_LINE_SIZE, MIN_LINE_SIZE},
           NEW a \in Nat, NEW x \in Nat, a <= x, x % m = 0
    PROVE  LinesOf(a, x + m - a) = LinesOf(a, x - a) \cup {LineOf(x)}
<1>1. m \in Nat \ {0}
  BY Sizes
<1>2. a + (x + m - a) - 1 = x + m - 1 /\ a + (x - a) - 1 = x - 1
  BY <1>1
<1>3. a .. x + m - 1 = (a .. x - 1) \cup (x .. x + m - 1)
  BY <1>1
<1>4. \A y \in x .. x + m - 1 : LineOf(y) = LineOf(x)
  BY OneLine
<1>5. x \in x .. x + m - 1
  BY <1>1
<1> QED
  BY <1>2, <1>3, <1>4, <1>5 DEF LinesOf

-----------------------------------------------------------------------------
(* Types.                                                                    *)

LEMMA TypeInit == Init => TypeOK
<1> SUFFICES ASSUME Init PROVE TypeOK
  OBVIOUS
<1>1. 0 \in Word
  BY Addressable DEF Word
<1>2. range \in [start : Cells, end : Cells]
  BY CacheAssumption DEF Init, Cells
<1> QED
  BY <1>1, <1>2 DEF Init, TypeOK, Cells

(* One cell is cleared, the one that SetWay is at, if there is such a cell. *)
LEMMA ClearOne ==
    ASSUME TypeOK, CiswSoFar, pc = "cisw", Clear
    PROVE  /\ cleared' \in [[way : Ways, set : Sets] -> 0 .. 1]
           /\ \A cell \in [way : Ways, set : Sets] :
                 cleared'[cell] =
                     IF InRange(cell) /\ (Passed(cell) \/ (/\ cell.way = SetWay.way
                                                          /\ cell.set = SetWay.set))
                     THEN 1 ELSE 0
<1>1. SetWay = [way |-> SetWay.way, set |-> SetWay.set]
  BY DEF TypeOK, Cells
<1>2. ASSUME NEW cell \in [way : Ways, set : Sets]
      PROVE  /\ cell = SetWay <=> cell.way = SetWay.way /\ cell.set = SetWay.set
             /\ cell.way \in Nat /\ cell.set \in Nat
  <2>1. cell = [way |-> cell.way, set |-> cell.set]
    OBVIOUS
  <2> QED
    BY <1>1, <2>1, CacheAssumption
<1>3. ASSUME NEW cell \in [way : Ways, set : Sets]
      PROVE  cleared'[cell] = IF cell = SetWay THEN cleared[cell] + 1 ELSE cleared[cell]
  BY DEF Clear, TypeOK
<1>4. ASSUME NEW cell \in [way : Ways, set : Sets]
      PROVE  cleared'[cell] =
                 IF InRange(cell) /\ (Passed(cell) \/ (/\ cell.way = SetWay.way
                                                      /\ cell.set = SetWay.set))
                 THEN 1 ELSE 0
  <2>1. cleared[cell] = IF InRange(cell) /\ Passed(cell) THEN 1 ELSE 0
    BY DEF CiswSoFar
  <2>2. CASE cell = SetWay
    <3>1. InRange(cell) /\ ~Passed(cell)
      BY <1>2, <2>2 DEF CiswSoFar, Passed
    <3> QED
      BY <1>2, <1>3, <2>1, <2>2, <3>1
  <2>3. CASE cell # SetWay
    BY <1>2, <1>3, <2>1, <2>3
  <2> QED
    BY <2>2, <2>3
<1>5. cleared' \in [[way : Ways, set : Sets] -> 0 .. 1]
  <2>1. \A cell \in [way : Ways, set : Sets] : cleared'[cell] \in 0 .. 1
    BY <1>4
  <2>2. cleared' = [cell \in [way : Ways, set : Sets] |-> cleared'[cell]]
    BY DEF Clear, TypeOK
  <2> QED
    BY <2>1, <2>2
<1> QED
  BY <1>4, <1>5

LEMMA TypeStep ==
    ASSUME TypeOK, CiswSoFar, [Next]_vars
    PROVE  TypeOK'
<1> USE DEF TypeOK, rangeUnchanged, ciswUnchanged
<1>1. CASE prefetch_data
  <2>1. address \in Word /\ size \div L2_CACHE_LINE_SIZE \in Word
    <3>1. /\ address \in Nat /\ size \in Nat
          /\ address + size + L2_CACHE_LINE_SIZE <= 2^(Width - 1)
          /\ L2_CACHE_LINE_SIZE \in Nat \ {0}
      BY Addressable, Sizes
    <3>2. size \div L2_CACHE_LINE_SIZE \in Nat /\ size \div L2_CACHE_LINE_SIZE <= size
      BY <3>1
    <3>3. /\ address \in 0 .. 2^(Width - 1) - 1
          /\ size \div L2_CACHE_LINE_SIZE \in 0 .. 2^(Width - 1) - 1
      BY <3>1, <3>2, Addressable
    <3> QED
      BY <3>3, Addressable
  <2> QED
    BY <1>1, <2>1 DEF prefetch_data
<1>2. CASE prefetch_loop
  <2>1. LineOf(x0) \in AllLines
    BY DEF AllLines
  <2>2. x0 + L2_CACHE_LINE_SIZE \in Int /\ x1 - 1 \in Int
    BY Sizes DEF Word
  <2> QED
    BY <1>2, <2>1, <2>2, Addressable DEF prefetch_loop
<1>3. CASE clear_L2_cache
  <2>1. address \in Nat /\ size \in Nat /\ address + size + L2_CACHE_LINE_SIZE <= 2^(Width - 1)
    BY Addressable
  <2>2. address - (address % MIN_LINE_SIZE) \in 0 .. address
    BY <2>1, Sizes
  <2>3. address - (address % MIN_LINE_SIZE) \in Word /\ Wrap(address + size) \in Word
    BY <2>1, <2>2, Addressable, Sizes
  <2> QED
    BY <1>3, <2>3 DEF clear_L2_cache
<1>4. CASE flush_loop
  <2>1. x0 + MIN_LINE_SIZE \in Int
    BY Sizes DEF Word
  <2> QED
    BY <1>4, <2>1, Addressable DEF flush_loop
<1>5. CASE clear_L2_cache_CISW
  BY <1>5 DEF clear_L2_cache_CISW
<1>6. CASE NextSet
  <2>1. SetWay' \in Cells
    BY <1>6 DEF NextSet, Cells
  <2>2. cleared' \in [[way : Ways, set : Sets] -> 0 .. 1]
    BY <1>6, ClearOne DEF NextSet
  <2> QED
    BY <1>6, <2>1, <2>2 DEF NextSet
<1>7. CASE NextWay
  <2>1. SetWay' \in Cells
    BY <1>7 DEF NextWay, Cells
  <2>2. cleared' \in [[way : Ways, set : Sets] -> 0 .. 1]
    BY <1>7, ClearOne DEF NextWay
  <2> QED
    BY <1>7, <2>1, <2>2 DEF NextWay
<1>8. CASE UNCHANGED vars
  BY <1>8 DEF vars
<1> QED
  BY <1>1, <1>2, <1>3, <1>4, <1>5, <1>6, <1>7, <1>8 DEF Next

-----------------------------------------------------------------------------
(* By set and way.                                                           *)

LEMMA CiswInit == Init => CiswSoFar /\ CiswIsExact
BY DEF Init, CiswSoFar, CiswIsExact

LEMMA CiswStep ==
    ASSUME TypeOK, CiswSoFar, CiswIsExact, [Next]_vars
    PROVE  CiswSoFar' /\ CiswIsExact'
<1>0. /\ range \in [start : Cells, end : Cells] /\ SetWay \in Cells
      /\ cleared \in [[way : Ways, set : Sets] -> 0 .. 1]
      /\ Ways \subseteq Nat /\ Sets \subseteq Nat
  BY CacheAssumption DEF TypeOK
<1> USE DEF CiswSoFar, CiswIsExact, InRange
<1>1. ASSUME UNCHANGED <<range, SetWay, cleared>>,
             pc \in {"idle", "prefetch", "fetched", "flush"},
             pc' \in {"idle", "prefetch", "fetched", "flush", "flushed"}
      PROVE  CiswSoFar' /\ CiswIsExact'
  BY <1>1
<1>2. CASE prefetch_data \/ prefetch_loop \/ clear_L2_cache \/ flush_loop
  BY <1>1, <1>2 DEF prefetch_data, prefetch_loop, clear_L2_cache, flush_loop, rangeUnchanged
<1>3. CASE clear_L2_cache_CISW
  <2>1. /\ pc = "flushed" /\ pc' = "cisw" /\ SetWay' = range.end
        /\ UNCHANGED <<range, cleared>>
    BY <1>3 DEF clear_L2_cache_CISW, ciswUnchanged
  <2>2. InRange(SetWay)'
    BY <1>0, <2>1 DEF Cells
  <2>3. ASSUME NEW cell \in [way : Ways, set : Sets]
        PROVE  ~(InRange(cell)' /\ Passed(cell)')
    BY <1>0, <2>1 DEF Passed, Cells
  <2> QED
    BY <2>1, <2>2, <2>3
<1>4. CASE NextSet
  <2>1. /\ pc = "cisw" /\ pc' = "cisw" /\ Clear /\ UNCHANGED range
        /\ SetWay.set > range.start.set
        /\ SetWay' = [SetWay EXCEPT !.set = @ - 1]
    BY <1>4 DEF NextSet, ciswUnchanged
  <2>2. InRange(SetWay)'
    BY <1>0, <2>1 DEF Cells
  <2>3. ASSUME NEW cell \in [way : Ways, set : Sets]
        PROVE  cleared'[cell] = IF InRange(cell)' /\ Passed(cell)' THEN 1 ELSE 0
    <3>1. cell.way \in Nat /\ cell.set \in Nat
      BY <1>0
    <3>2. Passed(cell)' <=> Passed(cell) \/ (cell.way = SetWay.way /\ cell.set = SetWay.set)
      BY <1>0, <2>1, <3>1 DEF Passed, Cells
    <3> QED
      BY <2>1, <3>2, ClearOne
  <2> QED
    BY <2>1, <2>2, <2>3
<1>5. CASE NextWay
  <2>1. /\ pc = "cisw" /\ Clear /\ UNCHANGED range
        /\ SetWay.set <= range.start.set
    BY <1>5 DEF NextWay, ciswUnchanged
  <2>2. \A cell \in [way : Ways, set : Sets] : cell.way \in Nat /\ cell.set \in Nat
    BY <1>0
  <2>3. CASE SetWay.way <= range.start.way
    <3>1. pc' = "done"
      BY <1>5, <2>3 DEF NextWay
    <3>2. ASSUME NEW cell \in [way : Ways, set : Sets], InRange(cell)
          PROVE  Passed(cell) \/ (cell.way = SetWay.way /\ cell.set = SetWay.set)
      BY <1>0, <2>1, <2>2, <2>3, <3>2 DEF Passed, Cells
    <3>3. \A cell \in [way : Ways, set : Sets] :
              cleared'[cell] = IF InRange(cell) THEN 1 ELSE 0
      BY <2>1, <3>2, ClearOne
    <3>4. DOMAIN cleared' = [way : Ways, set : Sets]
      BY <2>1, ClearOne
    <3> QED
      BY <2>1, <3>1, <3>3, <3>4
  <2>4. CASE ~(SetWay.way <= range.start.way)
    <3>1. pc' = "cisw" /\ SetWay' = [way |-> SetWay.way - 1, set |-> range.end.set]
      BY <1>5, <2>1, <2>4 DEF NextWay
    <3>2. InRange(SetWay)'
      BY <1>0, <2>1, <2>4, <3>1 DEF Cells
    <3>3. ASSUME NEW cell \in [way : Ways, set : Sets], InRange(cell)
          PROVE  Passed(cell)' <=>
                     Passed(cell) \/ (cell.way = SetWay.way /\ cell.set = SetWay.set)
      BY <1>0, <2>1, <2>2, <3>1, <3>3 DEF Passed, Cells
    <3>4. \A cell \in [way : Ways, set : Sets] :
              cleared'[cell] = IF InRange(cell)' /\ Passed(cell)' THEN 1 ELSE 0
      BY <2>1, <3>3, ClearOne
    <3> QED
      BY <2>1, <3>1, <3>2, <3>4
  <2> QED
    BY <2>3, <2>4
<1>6. CASE UNCHANGED vars
  BY <1>6 DEF vars, Passed
<1> QED
  BY <1>2, <1>3, <1>4, <1>5, <1>6 DEF Next

CiswInv == TypeOK /\ CiswSoFar /\ CiswIsExact

LEMMA CiswInvariant == Spec => []CiswInv
<1>1. Init => CiswInv
  BY TypeInit, CiswInit DEF CiswInv
<1>2. CiswInv /\ [Next]_vars => CiswInv'
  BY TypeStep, CiswStep DEF CiswInv
<1> QED
  BY <1>1, <1>2, PTL DEF Spec

(* The types are correct, whatever is fetched, flushed or cleared. *)
THEOREM TypeCorrect == Spec => []TypeOK
<1>1. CiswInv => TypeOK
  BY DEF CiswInv
<1> QED
  BY <1>1, CiswInvariant, PTL

(* clear_L2_cache_CISW clears each cell of its range once, and no other. *)
THEOREM CiswClearsRange == Spec => []CiswIsExact
<1>1. CiswInv => CiswIsExact
  BY DEF CiswInv
<1> QED
  BY <1>1, CiswInvariant, PTL

-----------------------------------------------------------------------------
(* By address: prefetch_data.                                                *)

(* The data is a line or more.  The loop of prefetch_data does not end at 0   *)
(* if it begins there. *)
DataFillsALine == \A n \in DataSizes : n >= L2_CACHE_LINE_SIZE

(* Where the loop of prefetch_data is. *)
LEMMA PrefetchAt ==
    ASSUME TypeOK, PrefetchSoFar, pc = "prefetch"
    PROVE  /\ address \in Nat /\ size \in Nat /\ x0 \in Nat /\ x1 \in Nat \ {0}
           /\ address <= x0 /\ x0 + L2_CACHE_LINE_SIZE <= address + size
           /\ Wrap(x0 + L2_CACHE_LINE_SIZE) = x0 + L2_CACHE_LINE_SIZE
           /\ Wrap(x1 - 1) = x1 - 1
           /\ size % L2_CACHE_LINE_SIZE = 0 /\ x1 = 1 =>
                 x0 + L2_CACHE_LINE_SIZE = address + size
<1> DEFINE l == L2_CACHE_LINE_SIZE
           q == size \div l
<1>1. /\ l \in Nat \ {0} /\ address \in Nat /\ size \in Nat
      /\ address + size + l <= 2^(Width - 1) /\ 2^(Width - 1) \in Nat \ {0}
  BY Sizes, Addressable DEF TypeOK
<1>2. /\ q \in Nat /\ l * q <= size /\ q <= size
      /\ size % l = 0 => l * q = size
  BY <1>1
<1>3. x1 \in 1 .. q /\ x0 + x1 * l = address + q * l /\ x0 \in Nat
  BY <1>1 DEF PrefetchSoFar, TypeOK, Word
<1> HIDE DEF l, q
<1>4. l <= x1 * l /\ x1 * l <= q * l /\ q * l = l * q /\ x1 * l \in Nat /\ q * l \in Nat
  <2>1. x1 \in Nat \ {0} /\ q - x1 \in Nat
    BY <1>2, <1>3
  <2>2. x1 * l = l + (x1 - 1) * l /\ (x1 - 1) * l \in Nat
    BY <1>1, <2>1
  <2>3. q * l = x1 * l + (q - x1) * l /\ (q - x1) * l \in Nat
    BY <1>1, <1>2, <2>1
  <2> QED
    BY <1>1, <1>2, <2>1, <2>2, <2>3
<1>5. address <= x0 /\ x0 + l <= address + size
  BY <1>1, <1>2, <1>3, <1>4
<1>6. x0 + l \in 0 .. 2^(Width - 1) - 1 /\ x1 - 1 \in 0 .. 2^(Width - 1) - 1
  BY <1>1, <1>2, <1>3, <1>5
<1>7. size % l = 0 /\ x1 = 1 => x0 + l = address + size
  BY <1>1, <1>2, <1>3, <1>4
<1>8. Wrap(x0 + l) = x0 + l /\ Wrap(x1 - 1) = x1 - 1
  BY <1>6, Addressable
<1> QED
  BY <1>1, <1>2, <1>3, <1>5, <1>7, <1>8 DEF l

LEMMA PrefetchStep ==
    ASSUME DataFillsALine, TypeOK, PrefetchSoFar, PrefetchIsExact, [Next]_vars
    PROVE  PrefetchSoFar' /\ PrefetchIsExact'
<1> DEFINE l == L2_CACHE_LINE_SIZE
<1> USE DEF PrefetchSoFar, PrefetchIsExact
<1>1. CASE prefetch_data
  <2>1. /\ pc' = "prefetch" /\ x0' = address /\ x1' = size \div l /\ before' = cached
        /\ UNCHANGED <<address, size, cached>>
    BY <1>1 DEF prefetch_data, rangeUnchanged
  <2>2. address \in Nat /\ size \in Nat /\ size >= l /\ l \in Nat \ {0}
    BY Addressable, Sizes DEF TypeOK, DataFillsALine
  <2>3. size \div l \in 1 .. size \div l
    BY <2>2
  <2>4. LinesOf(address, address - address) = {}
    BY <2>2 DEF LinesOf
  <2> QED
    BY <2>1, <2>3, <2>4
<1>2. CASE prefetch_loop
  <2>1. /\ pc = "prefetch" /\ cached' = cached \cup {LineOf(x0)}
        /\ x0' = x0 + l /\ x1' = x1 - 1
        /\ pc' = IF x1 - 1 = 0 THEN "fetched" ELSE "prefetch"
        /\ UNCHANGED <<address, size, before>>
    BY <1>2, PrefetchAt DEF prefetch_loop, rangeUnchanged
  <2>2. /\ address \in Nat /\ size \in Nat /\ x0 \in Nat /\ x1 \in Nat \ {0}
        /\ address <= x0 /\ x0 + l <= address + size /\ l \in Nat \ {0}
        /\ size % l = 0 /\ x1 = 1 => x0 + l = address + size
    BY <2>1, PrefetchAt, Sizes
  <2> HIDE DEF l
  <2>3. cached' \subseteq before \cup LinesOf(address, size)
    <3>1. x0 \in address .. address + size - 1
      BY <2>2
    <3>2. LineOf(x0) \in LinesOf(address, size)
      BY <3>1 DEF LinesOf
    <3> QED
      BY <2>1, <3>2
  <2>4. ASSUME address % l = 0
        PROVE  (x0 + l) % l = 0 /\ LinesOf(address, x0 + l - address) \subseteq cached'
    <3>1. x0 % l = 0 /\ LinesOf(address, x0 - address) \subseteq cached
      BY <2>1, <2>4 DEF l
    <3>2. LinesOf(address, x0 + l - address) = LinesOf(address, x0 - address) \cup {LineOf(x0)}
      BY <2>2, <3>1, LinesExtend DEF l
    <3>3. (x0 + l) % l = 0
      BY <2>2, <3>1, NextMultiple
    <3> QED
      BY <2>1, <3>1, <3>2, <3>3
  <2>5. CASE x1 = 1
    <3>1. size % l = 0 => x0 + l - address = size
      BY <2>2, <2>5
    <3> QED
      BY <2>1, <2>3, <2>4, <2>5, <3>1 DEF l
  <2>6. CASE x1 # 1
    <3>1. x1 - 1 \in 1 .. size \div l /\ x1 - 1 # 0
      <4>1. x1 \in 1 .. size \div l /\ size \div l \in Nat
        BY <2>1, <2>2 DEF l
      <4> QED
        BY <2>6, <4>1
    <3>2. x0 + l + (x1 - 1) * l = address + (size \div l) * l
      <4>1. x0 + x1 * l = address + (size \div l) * l
        BY <2>1 DEF l
      <4>2. x1 * l = l + (x1 - 1) * l /\ (x1 - 1) * l \in Nat
        BY <2>2
      <4> QED
        BY <2>2, <4>1, <4>2
    <3> QED
      <4>1. pc' = "prefetch"
        BY <2>1, <3>1
      <4>2. x1' \in 1 .. size' \div l /\ x0' + x1' * l = address' + (size' \div l) * l
        BY <2>1, <3>1, <3>2
      <4>3. address' % l = 0 =>
                x0' % l = 0 /\ LinesOf(address', x0' - address') \subseteq cached'
        BY <2>1, <2>2, <2>4
      <4> QED
        BY <2>1, <2>3, <4>1, <4>2, <4>3 DEF l
  <2> QED
    BY <2>5, <2>6
<1>3. CASE clear_L2_cache \/ flush_loop
  BY <1>3 DEF clear_L2_cache, flush_loop
<1>4. CASE clear_L2_cache_CISW \/ NextSet \/ NextWay
  BY <1>4 DEF clear_L2_cache_CISW, NextSet, NextWay
<1>5. CASE UNCHANGED vars
  BY <1>5 DEF vars
<1> QED
  BY <1>1, <1>2, <1>3, <1>4, <1>5 DEF Next

(* prefetch_data fetches nothing but lines of the data, and all of them when  *)
(* the data is whole lines: if it is at least one. *)
THEOREM PrefetchFetchesData ==
    ASSUME DataFillsALine PROVE Spec => []PrefetchIsExact
<1>1. Init => PrefetchSoFar /\ PrefetchIsExact
  BY DEF Init, PrefetchSoFar, PrefetchIsExact
<1>2. TypeOK /\ PrefetchSoFar /\ PrefetchIsExact /\ [Next]_vars
          => PrefetchSoFar' /\ PrefetchIsExact'
  BY PrefetchStep
<1> QED
  BY <1>1, <1>2, TypeCorrect, PTL DEF Spec

-----------------------------------------------------------------------------
(* By address: clear_L2_cache.                                               *)

(* The steps of the flush, from the start of the first to the end of the last *)
(* one, touch the lines of the data and no others. *)
LEMMA FlushedLines ==
    ASSUME NEW a \in Nat, NEW n \in Nat \ {0}, NEW start \in Nat, NEW x \in Nat,
           start % MIN_LINE_SIZE = 0, x % MIN_LINE_SIZE = 0,
           start <= a, a < start + MIN_LINE_SIZE,
           start <= x, x < a + n, a + n <= x + MIN_LINE_SIZE
    PROVE  LinesOf(start, x + MIN_LINE_SIZE - start) = LinesOf(a, n)
<1> DEFINE m == MIN_LINE_SIZE
<1>1. m \in Nat \ {0}
  BY Sizes
<1>2. \A y \in start .. start + m - 1 : LineOf(y) = LineOf(start)
  BY OneLine
<1>3. \A y \in x .. x + m - 1 : LineOf(y) = LineOf(x)
  BY OneLine
<1> HIDE DEF m
<1>4. start + (x + m - start) - 1 = x + m - 1
  BY <1>1
<1>5. a .. a + n - 1 \subseteq start .. x + m - 1
  BY <1>1 DEF m
<1>6. ASSUME NEW y \in start .. x + m - 1
      PROVE  \E z \in a .. a + n - 1 : LineOf(z) = LineOf(y)
  <2>1. CASE y < a
    <3>1. a \in start .. start + m - 1 /\ y \in start .. start + m - 1 /\ a \in a .. a + n - 1
      BY <1>1, <2>1 DEF m
    <3> QED
      BY <1>2, <3>1
  <2>2. CASE y > a + n - 1
    <3>1. /\ a + n - 1 \in x .. x + m - 1 /\ y \in x .. x + m - 1
          /\ a + n - 1 \in a .. a + n - 1
      BY <1>1, <2>2 DEF m
    <3> QED
      BY <1>3, <3>1
  <2>3. CASE y \in a .. a + n - 1
    BY <2>3
  <2> QED
    BY <1>1, <2>1, <2>2, <2>3
<1> QED
  BY <1>4, <1>5, <1>6 DEF LinesOf, m

LEMMA FlushStep ==
    ASSUME 0 \notin DataSizes, TypeOK, FlushSoFar, FlushIsExact, [Next]_vars
    PROVE  FlushSoFar' /\ FlushIsExact'
<1> DEFINE m == MIN_LINE_SIZE
<1>0. /\ address \in Nat /\ size \in Nat \ {0} /\ m \in Nat \ {0}
      /\ address + size + m <= 2^(Width - 1) /\ 2^(Width - 1) \in Nat \ {0}
      /\ L2_CACHE_LINE_SIZE \in Nat /\ address + size \in 0 .. 2^(Width - 1) - 1
  BY Sizes, Addressable DEF TypeOK
<1>s. /\ Start \in Nat /\ Start % m = 0 /\ Start <= address /\ address < Start + m
  BY <1>0, LastMultiple DEF Start
<1> HIDE DEF m
<1> USE DEF FlushSoFar, FlushIsExact
<1>1. CASE clear_L2_cache
  <2>1. /\ pc' = "flush" /\ x1' = address + size /\ x0' = Start /\ before' = cached
        /\ UNCHANGED <<address, size, cached>>
    BY <1>0, <1>1, Addressable DEF clear_L2_cache, rangeUnchanged, Start
  <2>2. Start' = Start
    BY <2>1 DEF Start
  <2>3. LinesOf(Start, Start - Start) = {}
    BY <1>s DEF LinesOf
  <2> QED
    BY <1>0, <1>s, <2>1, <2>2, <2>3 DEF m
<1>2. CASE flush_loop
  <2>1. /\ pc = "flush" /\ x0 \in Nat /\ x0 + m \in 0 .. 2^(Width - 1) - 1
        /\ x1 = address + size /\ x0 % m = 0 /\ Start <= x0 /\ x0 < address + size
        /\ cached = before \ LinesOf(Start, x0 - Start)
    BY <1>0, <1>2 DEF flush_loop, TypeOK, Word, m
  <2>2. /\ cached' = cached \ {LineOf(x0)} /\ x0' = x0 + m
        /\ pc' = IF x0 + m < address + size THEN "flush" ELSE "flushed"
        /\ UNCHANGED <<address, size, x1, before>>
    BY <1>0, <1>2, <2>1, Addressable DEF flush_loop, rangeUnchanged, m
  <2>3. Start' = Start
    BY <2>2 DEF Start
  <2>4. LinesOf(Start, x0 + m - Start) = LinesOf(Start, x0 - Start) \cup {LineOf(x0)}
    BY <1>s, <2>1, LinesExtend DEF m
  <2>5. cached' = before' \ LinesOf(Start, x0' - Start)
    <3>1. LinesOf(Start, x0' - Start) = LinesOf(Start, x0 - Start) \cup {LineOf(x0)}
      BY <1>0, <1>s, <2>1, <2>2, <2>4
    <3> QED
      BY <2>1, <2>2, <3>1
  <2>6. (x0 + m) % m = 0
    BY <1>0, <2>1, NextMultiple
  <2>7. CASE x0 + m < address + size
    BY <1>0, <1>s, <2>1, <2>2, <2>3, <2>5, <2>6, <2>7 DEF m
  <2>8. CASE ~(x0 + m < address + size)
    <3>1. LinesOf(Start, x0 + m - Start) = LinesOf(address, size)
      <4>1. address + size <= x0 + m
        BY <1>0, <2>1, <2>8
      <4>2. /\ address \in Nat /\ size \in Nat \ {0} /\ Start \in Nat /\ x0 \in Nat
            /\ Start % MIN_LINE_SIZE = 0 /\ x0 % MIN_LINE_SIZE = 0
            /\ Start <= address /\ address < Start + MIN_LINE_SIZE
            /\ Start <= x0 /\ x0 < address + size
            /\ address + size <= x0 + MIN_LINE_SIZE
        BY <1>0, <1>s, <2>1, <4>1 DEF m
      <4>3. LinesOf(Start, x0 + MIN_LINE_SIZE - Start) = LinesOf(address, size)
        BY <4>2, FlushedLines
      <4> QED
        BY <4>3 DEF m
    <3> QED
      <4>1. cached' = before' \ LinesOf(address', size')
        BY <1>0, <1>s, <2>1, <2>2, <2>5, <3>1
      <4>2. pc' = "flushed"
        BY <2>2, <2>8
      <4> QED
        BY <4>1, <4>2
  <2> QED
    BY <2>7, <2>8
<1>3. CASE prefetch_data \/ prefetch_loop
  BY <1>3 DEF prefetch_data, prefetch_loop
<1>4. CASE clear_L2_cache_CISW \/ NextSet \/ NextWay
  BY <1>4 DEF clear_L2_cache_CISW, NextSet, NextWay
<1>5. CASE UNCHANGED vars
  BY <1>5 DEF vars, Start
<1> QED
  BY <1>1, <1>2, <1>3, <1>4, <1>5 DEF Next

(* clear_L2_cache flushes the lines of the data and no others, in any         *)
(* alignment: if there is data. *)
THEOREM FlushFlushesData ==
    ASSUME 0 \notin DataSizes PROVE Spec => []FlushIsExact
<1>1. Init => FlushSoFar /\ FlushIsExact
  BY DEF Init, FlushSoFar, FlushIsExact
<1>2. TypeOK /\ FlushSoFar /\ FlushIsExact /\ [Next]_vars => FlushSoFar' /\ FlushIsExact'
  BY FlushStep
<1> QED
  BY <1>1, <1>2, TypeCorrect, PTL DEF Spec
=============================================================================
