-------------------------- MODULE BatchRead_proofs --------------------------
(***************************************************************************)
(* Proofs about BatchRead, for any batch, any contents and ranges, any     *)
(* MaxU64 and any number of fragments: whatever Lore sends, no buffer ever *)
(* holds a byte that is not its own, and a read that succeeds is exactly   *)
(* the slice that was asked for unless Lore repeats a part of it.          *)
(*                                                                         *)
(* The argument: as long as nothing is repeated, `covered` is the number   *)
(* of positions written, each of them with its own byte; finish compares   *)
(* it with the length of the buffer, which the header's arm made the       *)
(* slice's, so that a buffer it lets pass has every position written.      *)
(* An item whose events kept to the contract is, the other way round,      *)
(* always let pass, so that one item's failure stays its own.              *)
(***************************************************************************)
EXTENDS BatchRead, FiniteSetTheorems, TLAPS

USE OutcomeAssumption, ReassemblyAssumption, BatchAssumption

-----------------------------------------------------------------------------
(* Ranges, for every MaxU64: the buffer a read is for has exactly the      *)
(* positions of the content in the caller's range, also where a sum        *)
(* saturates at the largest u64.                                           *)

(* The start is the first position an inclusive or exclusive bound admits. *)
LEMMA StartAdmits ==
  ASSUME NEW b \in Bounds, NEW p \in U64, p < MaxU64
  PROVE  /\ SpanStart(b) \in U64
         /\ b.kind = "Included"  => (p >= b.at <=> SpanStart(b) <= p)
         /\ b.kind = "Excluded"  => (p > b.at <=> SpanStart(b) <= p)
         /\ b.kind = "Unbounded" => SpanStart(b) <= p
<1>1. b.at \in Nat /\ b.at <= MaxU64 /\ p \in Nat
  BY DEF Bounds, U64
<1>2. CASE b.kind = "Included"
  <2>1. SpanStart(b) = b.at
    BY <1>2 DEF SpanStart
  <2>2. QED
    BY <1>1, <1>2, <2>1 DEF U64
<1>3. CASE b.kind = "Excluded"
  <2>1. SpanStart(b) = SatAdd(b.at, 1)
    BY <1>3 DEF SpanStart
  <2>2. QED
    BY <1>1, <1>3, <2>1 DEF SatAdd, Least, U64
<1>4. CASE b.kind = "Unbounded"
  <2>1. SpanStart(b) = 0
    BY <1>4 DEF SpanStart
  <2>2. QED
    BY <1>1, <1>4, <2>1 DEF U64
<1>5. QED
  BY <1>2, <1>3, <1>4 DEF Bounds

(* The end of the buffer is past the last position the other bound admits; *)
(* a length of zero admits none.                                           *)
LEMMA EndAdmits ==
  ASSUME NEW a \in Bounds, NEW b \in Bounds, NEW size \in U64, NEW p \in 0..(size - 1),
         SpanStart(a) <= p
  PROVE  LET length == SpanLength(a, b)
             end    == RangeEnd(SpanStart(a), length, size)
         IN  /\ b.kind = "Included"  => (p <= b.at <=> p < end) /\ (p <= b.at => length # 0)
             /\ b.kind = "Excluded"  => (p < b.at <=> p < end) /\ (p < b.at => length # 0)
             /\ b.kind = "Unbounded" => p < end /\ length # 0
<1> DEFINE start == SpanStart(a)
           length == SpanLength(a, b)
<1>1. /\ p \in Nat /\ p < size /\ size \in Nat /\ size <= MaxU64
      /\ b.at \in Nat /\ b.at <= MaxU64
  BY DEF Bounds, U64
<1>2. start \in Nat /\ start <= MaxU64
  BY <1>1, StartAdmits DEF U64
<1> HIDE DEF start, length
<1>3. CASE b.kind = "Included"
  <2>1. length = SatSub(SatAdd(b.at, 1), start)
    BY <1>3 DEF length, start, SpanLength
  <2>2. length \in Nat
    BY <2>1, <1>1, <1>2 DEF SatSub, SatAdd, Least, Most
  <2>3. RangeEnd(start, length, size) = Least(SatAdd(start, length), size)
    BY <2>2 DEF RangeEnd
  <2>4. p <= b.at <=> p < RangeEnd(start, length, size)
    BY <2>1, <2>3, <1>1, <1>2 DEF SatSub, SatAdd, Least, Most, start
  <2>5. p <= b.at => length # 0
    BY <2>1, <1>1, <1>2 DEF SatSub, SatAdd, Least, Most, start
  <2>6. QED
    BY <1>3, <2>4, <2>5 DEF start, length
<1>4. CASE b.kind = "Excluded"
  <2>1. length = SatSub(b.at, start)
    BY <1>4 DEF length, start, SpanLength
  <2>2. length \in Nat
    BY <2>1, <1>1, <1>2 DEF SatSub, Most
  <2>3. RangeEnd(start, length, size) = Least(SatAdd(start, length), size)
    BY <2>2 DEF RangeEnd
  <2>4. p < b.at <=> p < RangeEnd(start, length, size)
    BY <2>1, <2>3, <1>1, <1>2 DEF SatSub, SatAdd, Least, Most, start
  <2>5. p < b.at => length # 0
    BY <2>1, <1>1, <1>2 DEF SatSub, Most, start
  <2>6. QED
    BY <1>4, <2>4, <2>5 DEF start, length
<1>5. CASE b.kind = "Unbounded"
  <2>1. length = None
    BY <1>5 DEF length, SpanLength
  <2>2. RangeEnd(start, length, size) = size /\ length # 0
    BY <2>1 DEF RangeEnd
  <2>3. QED
    BY <1>1, <1>5, <2>2 DEF start, length
<1>6. QED
  BY <1>3, <1>4, <1>5 DEF Bounds, start, length

(* Whatever two bounds the caller names, of whatever content: the buffer   *)
(* is for exactly the positions in the range, and only a range without any *)
(* is answered without a call (span, and the header's arm of record).      *)
THEOREM SpansSelect ==
  ASSUME NEW from \in Bounds, NEW to \in Bounds, NEW size \in U64
  PROVE  SpanSelects(from, to, size)
<1> SUFFICES ASSUME NEW p \in 0..(size - 1)
             PROVE  LET start  == SpanStart(from)
                        length == SpanLength(from, to)
                    IN  /\ InRange(p, from, to) <=> start <= p /\ p < RangeEnd(start, length, size)
                        /\ InRange(p, from, to) => length # 0
  BY DEF SpanSelects
<1>1. p \in U64 /\ p < MaxU64
  BY DEF U64
<1>2. CASE SpanStart(from) <= p
  BY <1>1, <1>2, StartAdmits, EndAdmits DEF InRange, Bounds
<1>3. CASE ~(SpanStart(from) <= p)
  BY <1>1, <1>3, StartAdmits DEF InRange, Bounds
<1>4. QED
  BY <1>2, <1>3

-----------------------------------------------------------------------------
(* What the arms of `record` do to one item.                               *)

LEMMA NewItemIsTyped ==
  ASSUME NEW q \in Request
  PROVE  IsReassembly(NewItem(q)) /\ IsReassembly(Ranged(0, None))
<1>1. ASSUME NEW start \in U64, NEW length \in Lengths
      PROVE  IsReassembly(Ranged(start, length))
  BY DEF Ranged, Fresh, IsReassembly, Lengths, U64
<1>2. IsReassembly(Empty)
  <2>1. Blank(0) \in [0..(0 - 1) -> Byte]
    BY DEF Blank, Byte
  <2>2. 0 \in U64 /\ 0 # None
    BY DEF U64
  <2>3. QED
    BY <2>1, <2>2 DEF Empty, Fresh, IsReassembly, Lengths, RawCodes
<1>3. 0 \in U64 /\ None \in Lengths /\ q.start \in U64 /\ q.length \in Lengths
  BY DEF Request, Lengths, U64
<1>4. IsReassembly(NewItem(q))
  BY <1>1, <1>2, <1>3 DEF NewItem
<1>5. QED
  BY <1>1, <1>3, <1>4

LEMMA SaturationStaysInRange ==
  ASSUME NEW a \in Nat, NEW b \in Nat
  PROVE  /\ SatAdd(a, b) \in U64
         /\ SatSub(a, b) \in Nat
         /\ SatSub(a, b) <= a
  BY DEF SatAdd, SatSub, Least, Most, U64

LEMMA RangeEndIsInTheContent ==
  ASSUME NEW start \in U64, NEW length \in Lengths, NEW size \in U64
  PROVE  RangeEnd(start, length, size) \in U64 /\ RangeEnd(start, length, size) <= size
  BY DEF RangeEnd, SatAdd, Least, Lengths, U64

LEMMA HeaderAllocates ==
  ASSUME NEW r, IsReassembly(r), NEW size \in U64
  PROVE  /\ IsReassembly(RecordHeader(r, size))
         /\ RecordHeader(r, size).size \in U64
         /\ RecordHeader(r, size).size = SatSub(RangeEnd(r.start, r.length, size), r.start)
         /\ RecordHeader(r, size).bytes = Blank(RecordHeader(r, size).size)
         /\ RecordHeader(r, size).covered = r.covered
         /\ RecordHeader(r, size).start = r.start
         /\ RecordHeader(r, size).length = r.length
<1> DEFINE length == SatSub(RangeEnd(r.start, r.length, size), r.start)
<1>1. r.start \in U64 /\ r.length \in Lengths
  BY DEF IsReassembly
<1>2. length \in U64
  BY <1>1, RangeEndIsInTheContent DEF SatSub, Most, U64
<1> HIDE DEF length
<1>3. RecordHeader(r, size) = [r EXCEPT !.size = length, !.bytes = Blank(length)]
  BY DEF RecordHeader, length
<1>4. Blank(length) \in [0..(length - 1) -> Byte]
  BY DEF Blank, Byte
<1>5. length # None
  BY <1>2 DEF U64
<1>6. QED
  BY <1>2, <1>3, <1>4, <1>5 DEF IsReassembly, Lengths, length

LEMMA RefusedFragmentIsOnlyMarked ==
  ASSUME NEW r, IsReassembly(r), NEW a \in Addresses, NEW offset \in U64, NEW n \in U64,
         ~Fits(r, offset, n)
  PROVE  /\ IsReassembly(RecordData(r, a, offset, n))
         /\ RecordData(r, a, offset, n).bytes = r.bytes
         /\ RecordData(r, a, offset, n).covered = r.covered
         /\ RecordData(r, a, offset, n).size = r.size
         /\ RecordData(r, a, offset, n).start = r.start
         /\ RecordData(r, a, offset, n).length = r.length
<1> DEFINE at == IF r.size # None /\ offset >= r.start THEN offset - r.start ELSE offset
<1>1. r.start \in U64
  BY DEF IsReassembly
<1>2. at \in Nat /\ n \in Nat
  BY <1>1 DEF U64
<1>3. SatAdd(at, n) \in U64
  BY <1>2, SaturationStaysInRange
<1>4. RecordData(r, a, offset, n) = [r EXCEPT !.overflow = SatAdd(at, n)]
  BY DEF RecordData
<1> HIDE DEF at
<1>5. QED
  BY <1>3, <1>4 DEF IsReassembly, Lengths

LEMMA FittingFragmentIsCopied ==
  ASSUME NEW r, IsReassembly(r), NEW a \in Addresses, NEW offset \in U64, NEW n \in U64,
         Fits(r, offset, n)
  PROVE  LET s    == RecordData(r, a, offset, n)
             from == offset - r.start
         IN  /\ IsReassembly(s)
             /\ from \in Nat /\ r.size \in U64 /\ from + n <= r.size
             /\ s.bytes = [p \in 0..(r.size - 1) |->
                            IF from <= p /\ p < from + n THEN <<a, r.start + p>> ELSE r.bytes[p]]
             /\ s.covered = r.covered + n
             /\ s.size = r.size
             /\ s.start = r.start
             /\ s.length = r.length
<1> DEFINE from == offset - r.start
           bytes == [p \in 0..(r.size - 1) |->
                      IF from <= p /\ p < from + n THEN <<a, r.start + p>> ELSE r.bytes[p]]
<1>1. r.start \in U64 /\ r.size \in U64 /\ r.covered \in Nat /\ r.end \in U64
  BY DEF IsReassembly, Fits, Lengths
<1>2. from \in Nat /\ from + n <= r.size
  BY <1>1 DEF Fits, U64
<1>3. bytes \in [0..(r.size - 1) -> Byte]
  <2>1. r.bytes \in [0..(r.size - 1) -> Byte]
    BY DEF IsReassembly, Fits
  <2>2. \A p \in 0..(r.size - 1) : <<a, r.start + p>> \in Byte
    BY <1>1 DEF Byte, U64
  <2>3. QED
    BY <2>1, <2>2
<1>4. Most(r.end, from + n) \in U64
  BY <1>1, <1>2 DEF Most, U64
<1>5. RecordData(r, a, offset, n)
        = [r EXCEPT !.bytes = bytes, !.covered = r.covered + n, !.end = Most(r.end, from + n)]
  BY DEF RecordData
<1>6. r.covered + n \in Nat /\ r.size # None
  BY <1>1 DEF U64
<1> HIDE DEF bytes, from
<1>7. IsReassembly(RecordData(r, a, offset, n))
  BY <1>1, <1>3, <1>4, <1>5, <1>6 DEF IsReassembly
<1>8. QED
  BY <1>1, <1>2, <1>5, <1>7 DEF IsReassembly, bytes, from

LEMMA CompletionIsOnlyRecorded ==
  ASSUME NEW r, IsReassembly(r), NEW code \in RawCodes
  PROVE  /\ IsReassembly(RecordComplete(r, code))
         /\ RecordComplete(r, code).bytes = r.bytes
         /\ RecordComplete(r, code).covered = r.covered
         /\ RecordComplete(r, code).size = r.size
         /\ RecordComplete(r, code).start = r.start
         /\ RecordComplete(r, code).length = r.length
  BY DEF RecordComplete, IsReassembly

LEMMA BlankIsUnwritten ==
  ASSUME NEW r, NEW n, r.bytes = Blank(n)
  PROVE  Written(r) = {} /\ \A k \in DOMAIN r.bytes : r.bytes[k] = Zero
  BY DEF Written, Blank

LEMMA WrittenIsFinite ==
  ASSUME NEW r, IsReassembly(r)
  PROVE  IsFiniteSet(Written(r)) /\ Cardinality(Written(r)) \in Nat
<1>1. CASE r.size = None
  <2>1. r.bytes = Blank(0)
    BY <1>1 DEF IsReassembly
  <2>2. Written(r) = {}
    BY <2>1, BlankIsUnwritten
  <2>3. QED
    BY <2>2, FS_EmptySet
<1>2. CASE r.size # None
  <2>1. r.size \in Nat /\ DOMAIN r.bytes = 0..(r.size - 1)
    BY <1>2 DEF IsReassembly, Lengths, U64
  <2>2. IsFiniteSet(0..(r.size - 1))
    BY <2>1, FS_Interval
  <2>3. Written(r) \in SUBSET (0..(r.size - 1))
    BY <2>1 DEF Written
  <2>4. QED
    BY <2>2, <2>3, FS_Subset, FS_CardinalityType
<1>3. QED
  BY <1>1, <1>2

(* A fragment writes its positions: no more of them than it is long, and   *)
(* exactly as many if none had been written before.                        *)
LEMMA CopyingIsCounted ==
  ASSUME NEW r, IsReassembly(r), NEW a \in Addresses, NEW offset \in U64, NEW n \in U64,
         Fits(r, offset, n)
  PROVE  LET s == RecordData(r, a, offset, n)
             from == offset - r.start
             here == from..(from + n - 1)
         IN  /\ Written(s) = Written(r) \cup here
             /\ Cardinality(Written(s)) <= Cardinality(Written(r)) + n
             /\ Written(r) \cap here = {} =>
                  Cardinality(Written(s)) = Cardinality(Written(r)) + n
<1> DEFINE s == RecordData(r, a, offset, n)
           from == offset - r.start
           here == from..(from + n - 1)
<1>1. /\ from \in Nat /\ r.size \in Nat /\ n \in Nat /\ from + n <= r.size
      /\ s.bytes = [p \in 0..(r.size - 1) |->
                     IF from <= p /\ p < from + n THEN <<a, r.start + p>> ELSE r.bytes[p]]
  <2>1. /\ from \in Nat /\ r.size \in U64 /\ from + n <= r.size
        /\ s.bytes = [p \in 0..(r.size - 1) |->
                       IF from <= p /\ p < from + n THEN <<a, r.start + p>> ELSE r.bytes[p]]
    BY FittingFragmentIsCopied
  <2>2. QED
    BY <2>1 DEF U64
<1>2. DOMAIN r.bytes = 0..(r.size - 1) /\ r.start \in Nat
  BY <1>1 DEF IsReassembly, U64
<1> HIDE DEF s, from
<1>3. \A p \in 0..(r.size - 1) : <<a, r.start + p>> # Zero
  BY <1>2
<1>4. Written(s) = Written(r) \cup here
  BY <1>1, <1>2, <1>3 DEF Written
<1>5. IsFiniteSet(here) /\ Cardinality(here) = n
  <2>1. from \in Int /\ from + n - 1 \in Int
    BY <1>1
  <2>2. /\ IsFiniteSet(from..(from + n - 1))
        /\ Cardinality(from..(from + n - 1))
             = IF from > from + n - 1 THEN 0 ELSE (from + n - 1) - from + 1
    BY <2>1, FS_Interval
  <2>3. QED
    BY <1>1, <2>2
<1>6. Cardinality(Written(r)) \in Nat /\ IsFiniteSet(Written(r))
  BY WrittenIsFinite
<1> HIDE DEF here
<1>7. /\ IsFiniteSet(Written(r) \cap here) /\ Cardinality(Written(r) \cap here) \in Nat
      /\ Cardinality(Written(s))
           = Cardinality(Written(r)) + Cardinality(here) - Cardinality(Written(r) \cap here)
  <2>1. IsFiniteSet(Written(r) \cap here)
    BY <1>5, <1>6, FS_Intersection
  <2>2. QED
    BY <2>1, <1>4, <1>5, <1>6, FS_Union, FS_CardinalityType
<1>8. Cardinality(Written(s)) <= Cardinality(Written(r)) + n
  BY <1>1, <1>5, <1>6, <1>7
<1>9. Written(r) \cap here = {} => Cardinality(Written(s)) = Cardinality(Written(r)) + n
  BY <1>1, <1>5, <1>6, <1>7, FS_EmptySet
<1>10. QED
  BY <1>4, <1>8, <1>9 DEF s, from, here

-----------------------------------------------------------------------------
(* The initial states and the steps.                                       *)

LEMMA InitEstablishes == Init => IInv
<1> SUFFICES ASSUME Init PROVE IInv
  OBVIOUS
<1>1. \A i \in Items : item[i] = Ranged(0, None) /\ item[i].bytes = Blank(0) /\ item[i].covered = 0
  BY DEF Init, Ranged, Fresh
<1>2. \A i \in Items : IsReassembly(item[i])
  <2>1. 0 \in U64 /\ None \in Lengths
    BY DEF U64, Lengths
  <2>2. SUFFICES ASSUME NEW i \in Items PROVE IsReassembly(Ranged(0, None))
    BY <1>1
  <2>3. requests[i] \in Request
    BY DEF Init
  <2>4. QED
    BY <2>3, NewItemIsTyped
<1>3. TypeOK
  BY <1>2 DEF Init, TypeOK, Service, CallResults
<1>4. \A i \in Items : /\ Written(item[i]) = {}
                       /\ \A k \in DOMAIN item[i].bytes : item[i].bytes[k] = Zero
  BY <1>1, BlankIsUnwritten
<1>5. WrittenIsCounted
  <2> SUFFICES ASSUME NEW i \in Items
               PROVE  item[i].covered = 0 /\ Cardinality(Written(item[i])) = 0
    BY DEF WrittenIsCounted
  <2>1. QED
    BY <1>1, <1>4, FS_EmptySet
<1>6. \A i \in Items : ItemIsTheRequests(i) /\ WrittenWasSent(i)
  BY <1>1, <1>4 DEF Init, ItemIsTheRequests, WrittenWasSent
<1>7. NoForeignByte /\ AnswerIsTheFold
  BY <1>4 DEF Init, NoForeignByte, AnswerIsTheFold
<1>8. api = "one" => IsAlone
  BY DEF Init
<1>9. QED
  BY <1>3, <1>5, <1>6, <1>7, <1>8 DEF IInv

(* A one-item read has an item, and no other.                              *)
LEMMA AloneIsAnItem == Alone \in Items
  BY DEF Alone

LEMMA AloneStays ==
  ASSUME IInv, UNCHANGED <<api, requests>>
  PROVE  api' = "one" => IsAlone'
  BY DEF IInv, IsAlone, IsEmpty

(* What IInv says of one item in a call, of its record r and Lore's side s.*)
ItemIsGood(i, r, s) ==
  /\ IsReassembly(r)
  /\ s \in Service
  /\ r.start = requests[i].start
  /\ r.length = requests[i].length
  /\ r.size \in {None, SliceSize(requests[i])}
  /\ ~s.announced => r.size = None
  /\ \A k \in DOMAIN r.bytes : r.bytes[k] \in {Zero, <<requests[i].address, requests[i].start + k>>}
  /\ Cardinality(Written(r)) <= r.covered
  /\ "repeat" \notin Faults =>
       /\ r.covered = Cardinality(Written(r))
       /\ \A k \in Written(r) : requests[i].start + k \in s.sent

LEMMA ItemsInCallAreGood ==
  ASSUME IInv, phase = "calling", NEW i \in InCall
  PROVE  ItemIsGood(i, item[i], served[i])
<1>1. i \in Items /\ ~IsEmpty(requests[i])
  BY DEF InCall
<1>2. ItemIsTheRequests(i) /\ WrittenWasSent(i)
  BY <1>1 DEF IInv
<1>3. QED
  BY <1>1, <1>2
     DEF IInv, TypeOK, ItemIsGood, ItemIsTheRequests, WrittenWasSent, NoForeignByte, WrittenIsCounted

(* A step of Lore's on one item that leaves it good preserves the rest.    *)
LEMMA ItemStepPreserves ==
  ASSUME IInv, phase = "calling", NEW i \in InCall, NEW r, NEW s, ItemIsGood(i, r, s),
         item' = [item EXCEPT ![i] = r], served' = [served EXCEPT ![i] = s],
         UNCHANGED <<api, requests, result, answer, phase>>
  PROVE  IInv'
<1>1. i \in Items /\ ~IsEmpty(requests[i]) /\ ~IsEmpty(requests[i])'
  BY DEF InCall, IsEmpty
<1>2. DOMAIN item = Items /\ DOMAIN served = Items
  BY DEF IInv, TypeOK
<1>3. item'[i] = r /\ served'[i] = s
  BY <1>1, <1>2
<1>4. \A j \in Items \ {i} : item'[j] = item[j] /\ served'[j] = served[j]
  BY <1>2
<1>5. TypeOK'
  <2>1. \A j \in Items : IsReassembly(item'[j])
    BY <1>3, <1>4 DEF IInv, TypeOK, ItemIsGood
  <2>2. item' = [j \in Items |-> item'[j]]
    BY <1>2
  <2>3. served' \in [Items -> Service]
    BY DEF IInv, TypeOK, ItemIsGood
  <2>4. QED
    BY <2>1, <2>2, <2>3 DEF IInv, TypeOK
<1>6. \A j \in Items : ItemIsTheRequests(j)'
  <2>1. ItemIsTheRequests(i)'
    BY <1>1, <1>3 DEF ItemIsGood, ItemIsTheRequests, SliceSize
  <2>2. ASSUME NEW j \in Items \ {i} PROVE ItemIsTheRequests(j)'
    BY <1>4 DEF IInv, ItemIsTheRequests, SliceSize, IsEmpty
  <2>3. QED
    BY <2>1, <2>2
<1>7. \A j \in Items : WrittenWasSent(j)'
  <2>1. WrittenWasSent(i)'
    BY <1>3 DEF ItemIsGood, WrittenWasSent, Written
  <2>2. ASSUME NEW j \in Items \ {i} PROVE WrittenWasSent(j)'
    BY <1>4 DEF IInv, WrittenWasSent, Written
  <2>3. QED
    BY <2>1, <2>2
<1>8. NoForeignByte'
  BY <1>3, <1>4 DEF IInv, NoForeignByte, ItemIsGood
<1>9. WrittenIsCounted'
  <2> SUFFICES ASSUME NEW j \in Items
               PROVE  /\ Cardinality(Written(item'[j])) <= item'[j].covered
                      /\ "repeat" \notin Faults =>
                           item'[j].covered = Cardinality(Written(item'[j]))
    BY DEF WrittenIsCounted, Written
  <2>1. CASE j = i
    BY <2>1, <1>3 DEF ItemIsGood
  <2>2. CASE j # i
    BY <2>2, <1>4 DEF IInv, WrittenIsCounted
  <2>3. QED
    BY <2>1, <2>2
<1>10. AnswerIsTheFold'
  BY DEF IInv, AnswerIsTheFold
<1>11. QED
  BY <1>5, <1>6, <1>7, <1>8, <1>9, <1>10, AloneStays DEF IInv

(* An event either reaches its item or, its id lost, leaves it as it was.  *)
LEMMA RoutedStepPreserves ==
  ASSUME IInv, phase = "calling", NEW i \in InCall, NEW stray \in BOOLEAN, NEW r, NEW s,
         ItemIsGood(i, r, s), ItemIsGood(i, item[i], s),
         Route(i, stray, r), served' = [served EXCEPT ![i] = s],
         UNCHANGED <<api, requests, result, answer, phase>>
  PROVE  IInv'
<1>1. CASE item' = [item EXCEPT ![i] = r]
  BY <1>1, ItemStepPreserves
<1>2. CASE item' = item
  <2>1. item' = [item EXCEPT ![i] = item[i]]
    BY <1>2 DEF IInv, TypeOK
  <2>2. QED
    BY <2>1, ItemStepPreserves
<1>3. QED
  BY <1>1, <1>2 DEF Route

LEMMA LoreHeaderPreserves ==
  ASSUME IInv, NEW i \in Items, NEW stray \in BOOLEAN, LoreHeader(i, stray)
  PROVE  IInv'
<1> DEFINE r == RecordHeader(item[i], Size[requests[i].address])
           s == [served[i] EXCEPT !.announced = TRUE, !.clean = @ /\ ~stray]
<1>1. phase = "calling" /\ i \in InCall /\ ~served[i].announced
  BY DEF LoreHeader, Serving
<1>2. ItemIsGood(i, item[i], served[i])
  BY <1>1, ItemsInCallAreGood
<1>3. item[i].size = None
  BY <1>1, <1>2 DEF ItemIsGood
<1>4. item[i].covered = 0 /\ IsReassembly(item[i])
  BY <1>2, <1>3 DEF ItemIsGood, IsReassembly
<1>5. s \in Service /\ s.announced /\ s.sent = served[i].sent
  BY <1>2 DEF ItemIsGood, Service
<1>6. requests[i] \in Request /\ Size[requests[i].address] \in U64
  BY <1>1 DEF IInv, TypeOK, InCall, Request
<1>7. /\ IsReassembly(r)
      /\ r.size = SliceSize(requests[i])
      /\ r.bytes = Blank(r.size)
      /\ r.covered = 0
      /\ r.start = requests[i].start
      /\ r.length = requests[i].length
  BY <1>2, <1>4, <1>6, HeaderAllocates DEF ItemIsGood, SliceSize
<1> HIDE DEF r, s
<1>8. Written(r) = {} /\ \A k \in DOMAIN r.bytes : r.bytes[k] = Zero
  BY <1>7, BlankIsUnwritten
<1>9. ItemIsGood(i, r, s)
  BY <1>5, <1>7, <1>8, FS_EmptySet DEF ItemIsGood
<1>10. ItemIsGood(i, item[i], s)
  BY <1>2, <1>5 DEF ItemIsGood
<1>11. QED
  BY <1>1, <1>9, <1>10, RoutedStepPreserves DEF LoreHeader, r, s

LEMMA ShiftedPosition ==
  ASSUME NEW start \in U64, NEW from \in U64, NEW to \in U64,
         NEW k \in (from - start)..(from - start + (to - from) - 1)
  PROVE  start + k \in from..(to - 1)
  BY DEF U64

(* A fragment of the positions from..(to - 1), taken or refused, leaves an *)
(* item good: it is copied to its place, and counted if it is the first.   *)
LEMMA FragmentKeepsItemGood ==
  ASSUME NEW i, requests[i].start \in U64, NEW r, NEW s, ItemIsGood(i, r, s), s.announced,
         NEW a \in Addresses, a = requests[i].address,
         NEW from \in U64, NEW to \in U64, from < to, NEW n \in U64, n = to - from,
         NEW s2 \in Service, s2.announced, s2.sent = s.sent \cup (from..(to - 1)),
         (from..(to - 1)) \cap s.sent = {} \/ "repeat" \in Faults
  PROVE  ItemIsGood(i, RecordData(r, a, from, n), s2)
<1> DEFINE r2 == RecordData(r, a, from, n)
           at == from - r.start
<1>1. IsReassembly(r) /\ r.start = requests[i].start
  BY DEF ItemIsGood
<1>2. CASE ~Fits(r, from, n)
  <2>1. /\ IsReassembly(r2) /\ r2.bytes = r.bytes /\ r2.covered = r.covered
        /\ r2.size = r.size /\ r2.start = r.start /\ r2.length = r.length
    BY <1>1, <1>2, RefusedFragmentIsOnlyMarked
  <2> HIDE DEF r2
  <2>2. Written(r2) = Written(r)
    BY <2>1 DEF Written
  <2>3. ItemIsGood(i, r2, s2)
    BY <2>1, <2>2 DEF ItemIsGood
  <2>4. QED
    BY <2>3 DEF r2
<1>3. CASE Fits(r, from, n)
  <2> HIDE BatchAssumption
  <2>1. /\ IsReassembly(r2)
        /\ r2.bytes = [p \in 0..(r.size - 1) |->
                        IF at <= p /\ p < at + n THEN <<a, r.start + p>> ELSE r.bytes[p]]
        /\ r2.covered = r.covered + n
        /\ r2.size = r.size /\ r2.start = r.start /\ r2.length = r.length
    BY <1>1, <1>3, FittingFragmentIsCopied, SMTT(60)
  <2>2. \A k \in at..(at + n - 1) : requests[i].start + k \in from..(to - 1)
    BY <1>1, ShiftedPosition
  <2>3. Cardinality(Written(r2)) <= r2.covered
    <3>1. /\ Cardinality(Written(r2)) <= Cardinality(Written(r)) + n
          /\ Cardinality(Written(r)) \in Nat
      BY <1>1, <1>3, CopyingIsCounted, WrittenIsFinite
    <3>2. Cardinality(Written(r)) <= r.covered /\ r.covered \in Nat /\ n \in Nat
      BY <1>1 DEF ItemIsGood, IsReassembly, U64
    <3>3. IsReassembly(r2) /\ Cardinality(Written(r2)) \in Nat
      BY <2>1, WrittenIsFinite
    <3> HIDE DEF r2
    <3>4. QED
      BY <2>1, <3>1, <3>2, <3>3
  <2>4. ASSUME "repeat" \notin Faults
        PROVE  /\ r2.covered = Cardinality(Written(r2))
               /\ \A k \in Written(r2) : requests[i].start + k \in s2.sent
    <3>1. /\ r.covered = Cardinality(Written(r))
          /\ \A k \in Written(r) : requests[i].start + k \in s.sent
      BY <2>4 DEF ItemIsGood
    <3>2. Written(r) \cap (at..(at + n - 1)) = {}
      BY <2>2, <2>4, <3>1
    <3>3. /\ Written(r2) = Written(r) \cup (at..(at + n - 1))
          /\ Cardinality(Written(r2)) = Cardinality(Written(r)) + n
      BY <1>1, <1>3, <3>2, CopyingIsCounted
    <3>4. QED
      BY <2>1, <2>2, <3>1, <3>3
  <2>5. \A k \in DOMAIN r2.bytes : r2.bytes[k] \in {Zero, <<a, requests[i].start + k>>}
    <3>1. DOMAIN r2.bytes = 0..(r.size - 1)
      BY <2>1
    <3>2. DOMAIN r.bytes = 0..(r.size - 1)
      BY <1>1, <1>3 DEF IsReassembly, Fits
    <3>3. \A k \in 0..(r.size - 1) : r.bytes[k] \in {Zero, <<a, requests[i].start + k>>}
      BY <3>2 DEF ItemIsGood
    <3> HIDE DEF r2, at
    <3>4. QED
      BY <1>1, <2>1, <3>1, <3>3
  <2> HIDE DEF r2, at
  <2>6. ItemIsGood(i, r2, s2)
    BY <2>1, <2>4, <2>5, <2>3 DEF ItemIsGood
  <2>7. QED
    BY <2>6 DEF r2
<1>4. QED
  BY <1>2, <1>3

LEMMA LoreDataPreserves ==
  ASSUME IInv, NEW i \in Items, NEW stray \in BOOLEAN, NEW from \in U64, NEW to \in U64,
         LoreData(i, stray, from, to)
  PROVE  IInv'
<1> DEFINE a == requests[i].address
           n == to - from
           part == from..(to - 1)
           inside == part \subseteq Wanted(requests[i])
           firstOne == part \cap served[i].sent = {}
           r == RecordData(item[i], a, from, n)
           s == [served[i] EXCEPT !.sent = @ \cup part,
                                  !.fragments = @ + 1,
                                  !.clean = @ /\ ~stray /\ inside /\ firstOne]
<1>1. /\ phase = "calling" /\ i \in InCall /\ served[i].announced
      /\ from < to /\ (firstOne \/ "repeat" \in Faults)
      /\ served[i].fragments < MaxFragments[i]
  BY DEF LoreData, Serving
<1>2. ItemIsGood(i, item[i], served[i])
  BY <1>1, ItemsInCallAreGood
<1>3. a \in Addresses /\ requests[i].start \in U64
  BY <1>1 DEF IInv, TypeOK, InCall, Request
<1>4. n \in U64 /\ part \subseteq U64
  BY <1>1 DEF U64
<1>5. s \in Service /\ s.announced /\ s.sent = served[i].sent \cup part
  <2>1. served[i].fragments + 1 \in Nat
    BY <1>1, <1>2 DEF ItemIsGood, Service
  <2>2. (served[i].clean /\ ~stray /\ inside /\ firstOne) \in BOOLEAN
    OBVIOUS
  <2>3. served[i].sent \cup part \in SUBSET U64
    BY <1>2, <1>4 DEF ItemIsGood, Service
  <2> HIDE DEF inside, firstOne, part
  <2>4. QED
    BY <1>1, <1>2, <2>1, <2>2, <2>3 DEF ItemIsGood, Service
<1>6. /\ Route(i, stray, r) /\ served' = [served EXCEPT ![i] = s]
      /\ UNCHANGED <<api, requests, result, answer, phase>>
  BY DEF LoreData
<1>7. ItemIsGood(i, item[i], s)
  <2> HIDE DEF s, part
  <2>1. QED
    BY <1>1, <1>2, <1>5 DEF ItemIsGood
<1> HIDE DEF s
<1>8. ItemIsGood(i, r, s)
  BY <1>1, <1>2, <1>3, <1>4, <1>5, FragmentKeepsItemGood
<1> HIDE DEF r
<1>9. QED
  BY <1>1, <1>6, <1>7, <1>8, RoutedStepPreserves

LEMMA LoreCompletePreserves ==
  ASSUME IInv, NEW i \in Items, NEW stray \in BOOLEAN, NEW code \in RawCodes,
         LoreComplete(i, stray, code)
  PROVE  IInv'
<1> DEFINE r == RecordComplete(item[i], code)
           s == [served[i] EXCEPT !.code = code, !.clean = @ /\ ~stray]
<1>1. phase = "calling" /\ i \in InCall
  BY DEF LoreComplete, Serving
<1>2. ItemIsGood(i, item[i], served[i])
  BY <1>1, ItemsInCallAreGood
<1>3. s \in Service /\ s.announced = served[i].announced /\ s.sent = served[i].sent
  BY <1>2 DEF ItemIsGood, Service
<1>4. /\ IsReassembly(r) /\ r.bytes = item[i].bytes /\ r.covered = item[i].covered
      /\ r.size = item[i].size /\ r.start = item[i].start /\ r.length = item[i].length
  BY <1>2, CompletionIsOnlyRecorded DEF ItemIsGood
<1> HIDE DEF r, s
<1>5. Written(r) = Written(item[i])
  BY <1>4 DEF Written
<1>6. ItemIsGood(i, item[i], s)
  BY <1>2, <1>3 DEF ItemIsGood
<1>7. ItemIsGood(i, r, s)
  BY <1>4, <1>5, <1>6 DEF ItemIsGood
<1>8. QED
  BY <1>1, <1>6, <1>7, RoutedStepPreserves DEF LoreComplete, r, s

LEMMA BuildPreserves ==
  ASSUME IInv, Build
  PROVE  IInv'
<1>1. \A i \in Items : /\ item'[i] = NewItem(requests[i])
                       /\ item'[i].bytes = Blank(0) /\ item'[i].covered = 0
  BY DEF Build, NewItem, Empty, Ranged, Fresh
<1>2. \A i \in Items : IsReassembly(item'[i])
  <2> SUFFICES ASSUME NEW i \in Items PROVE IsReassembly(NewItem(requests[i]))
    BY <1>1
  <2>1. requests[i] \in Request
    BY DEF IInv, TypeOK
  <2>2. QED
    BY <2>1, NewItemIsTyped
<1>3. TypeOK'
  <2>1. item' = [i \in Items |-> item'[i]]
    BY DEF Build
  <2>2. QED
    BY <1>2, <2>1 DEF IInv, TypeOK, Build, CallResults
<1>4. \A i \in Items : /\ Written(item'[i]) = {}
                       /\ \A k \in DOMAIN item'[i].bytes : item'[i].bytes[k] = Zero
  BY <1>1, BlankIsUnwritten
<1>5. WrittenIsCounted'
  <2> SUFFICES ASSUME NEW i \in Items
               PROVE  item'[i].covered = 0 /\ Cardinality(Written(item'[i])) = 0
    BY DEF WrittenIsCounted, Written
  <2>1. QED
    BY <1>1, <1>4, FS_EmptySet
<1>6. \A i \in Items : ItemIsTheRequests(i)'
  <2> SUFFICES ASSUME NEW i \in Items PROVE ItemIsTheRequests(i)'
    OBVIOUS
  <2>1. phase' # "building" /\ requests' = requests
    BY DEF Build
  <2>2. item'[i] = NewItem(requests[i])
    BY <1>1
  <2>3. CASE IsEmpty(requests[i])
    BY <2>1, <2>2, <2>3 DEF ItemIsTheRequests, NewItem, IsEmpty
  <2>4. CASE ~IsEmpty(requests[i])
    BY <2>1, <2>2, <2>4 DEF ItemIsTheRequests, NewItem, Ranged, Fresh, IsEmpty
  <2>5. QED
    BY <2>3, <2>4
<1>7. \A i \in Items : WrittenWasSent(i)'
  <2> SUFFICES ASSUME NEW i \in Items PROVE WrittenWasSent(i)'
    OBVIOUS
  <2>1. Written(item[i])' = {}
    BY <1>4 DEF Written
  <2>2. QED
    BY <2>1 DEF WrittenWasSent
<1>8. NoForeignByte'
  BY <1>4 DEF NoForeignByte
<1>9. AnswerIsTheFold'
  BY DEF IInv, AnswerIsTheFold, Build
<1>10. QED
  BY <1>3, <1>5, <1>6, <1>7, <1>8, <1>9, AloneStays DEF IInv, Build

(* A step that leaves the items as they are once they have been built.     *)
LEMMA UntouchedItemsPreserved ==
  ASSUME IInv, phase # "building", phase' # "building",
         UNCHANGED <<api, requests, item, served>>,
         result' \in CallResults \cup {None}, AnswerIsTheFold',
         phase' \in {"building", "calling", "returned", "answered"}
  PROVE  IInv'
<1>1. TypeOK'
  BY DEF IInv, TypeOK
<1>2. \A i \in Items : ItemIsTheRequests(i)' /\ WrittenWasSent(i)'
  BY DEF IInv, ItemIsTheRequests, WrittenWasSent, Written, SliceSize, IsEmpty
<1>3. NoForeignByte' /\ WrittenIsCounted'
  BY DEF IInv, NoForeignByte, WrittenIsCounted, Written
<1>4. QED
  BY <1>1, <1>2, <1>3, AloneStays DEF IInv

(* The steps, one by one.                                                  *)
LEMMA EveryStep ==
  ASSUME [Next]_vars
  PROVE  \/ Build
         \/ \E i \in Items, stray \in BOOLEAN : LoreHeader(i, stray)
         \/ \E i \in Items, stray \in BOOLEAN, from, to \in U64 : LoreData(i, stray, from, to)
         \/ \E i \in Items, stray \in BOOLEAN, code \in RawCodes : LoreComplete(i, stray, code)
         \/ \E status \in CallResults : LoreReturn(status)
         \/ Fold
         \/ UNCHANGED vars
<1>1. Strays \subseteq BOOLEAN
  BY DEF Strays
<1>2. ASSUME NEW i \in Items, NEW stray \in Strays,
             \/ LoreHeader(i, stray)
             \/ \E from, to \in U64 : LoreData(i, stray, from, to)
             \/ \E code \in RawCodes : LoreComplete(i, stray, code)
      PROVE  \/ \E j \in Items, lost \in BOOLEAN : LoreHeader(j, lost)
             \/ \E j \in Items, lost \in BOOLEAN, from, to \in U64 : LoreData(j, lost, from, to)
             \/ \E j \in Items, lost \in BOOLEAN, code \in RawCodes : LoreComplete(j, lost, code)
  BY <1>1, <1>2, Zenon
<1>3. QED
  BY <1>2, Zenon DEF Next, Lore

LEMMA NextPreserves == IInv /\ [Next]_vars => IInv'
<1> SUFFICES ASSUME IInv, [Next]_vars PROVE IInv'
  OBVIOUS
<1>1. CASE Build
  BY <1>1, BuildPreserves
<1>2. ASSUME NEW i \in Items, NEW stray \in BOOLEAN, LoreHeader(i, stray) PROVE IInv'
  BY <1>2, LoreHeaderPreserves
<1>3. ASSUME NEW i \in Items, NEW stray \in BOOLEAN, NEW from \in U64, NEW to \in U64,
             LoreData(i, stray, from, to)
      PROVE  IInv'
  BY <1>3, LoreDataPreserves
<1>4. ASSUME NEW i \in Items, NEW stray \in BOOLEAN, NEW code \in RawCodes,
             LoreComplete(i, stray, code)
      PROVE  IInv'
  BY <1>4, LoreCompletePreserves
<1>5. ASSUME NEW status \in CallResults, LoreReturn(status) PROVE IInv'
  <2>1. AnswerIsTheFold'
    BY <1>5 DEF LoreReturn, IInv, AnswerIsTheFold
  <2>2. QED
    BY <1>5, <2>1, UntouchedItemsPreserved DEF LoreReturn
<1>6. CASE Fold
  <2>1. AnswerIsTheFold'
    BY <1>6 DEF Fold, AnswerIsTheFold, Folded, GetOutcomes, GetOne, Outcomes
  <2>2. result' \in CallResults \cup {None}
    BY <1>6 DEF Fold, IInv, TypeOK
  <2>3. QED
    BY <1>6, <2>1, <2>2, UntouchedItemsPreserved DEF Fold
<1>7. CASE UNCHANGED vars
  <2>1. TypeOK' /\ AnswerIsTheFold'
    BY <1>7 DEF vars, IInv, TypeOK, AnswerIsTheFold, Folded, GetOutcomes, GetOne, Outcomes
  <2>2. \A i \in Items : ItemIsTheRequests(i)' /\ WrittenWasSent(i)'
    BY <1>7 DEF vars, IInv, ItemIsTheRequests, WrittenWasSent, Written, SliceSize, IsEmpty
  <2>3. NoForeignByte' /\ WrittenIsCounted'
    BY <1>7 DEF vars, IInv, NoForeignByte, WrittenIsCounted, Written
  <2>4. QED
    BY <1>7, <2>1, <2>2, <2>3, AloneStays DEF vars, IInv
<1>8. QED
  BY <1>1, <1>2, <1>3, <1>4, <1>5, <1>6, <1>7, EveryStep

-----------------------------------------------------------------------------
(* A read that succeeds is the slice.                                      *)

LEMMA ExpectedHasItsSize ==
  ASSUME NEW q \in Request
  PROVE  Expected(q) = [k \in 0..(SliceSize(q) - 1) |-> <<q.address, q.start + k>>]
<1> DEFINE size == Size[q.address]
           end == RangeEnd(q.start, q.length, size)
<1>1. size \in U64 /\ q.start \in U64 /\ q.length \in Lengths
  BY DEF Request
<1>2. /\ end \in U64 /\ end <= size
      /\ q.length = None => end = size
      /\ q.length # None => /\ q.length \in Nat
                            /\ end <= q.start + q.length
                            /\ end = size \/ end = q.start + q.length
  BY <1>1 DEF RangeEnd, SatAdd, Least, Lengths, U64
<1> HIDE DEF end
<1>3. Contract!Slice(q) = q.start..(end - 1)
  BY <1>1, <1>2 DEF Contract!Slice, U64
<1>4. SliceSize(q) = IF end - q.start >= 0 THEN end - q.start ELSE 0
  BY DEF SliceSize, SatSub, Most, end
<1>5. {p - q.start : p \in Contract!Slice(q)} = 0..(SliceSize(q) - 1)
  <2> DEFINE places == {p - q.start : p \in q.start..(end - 1)}
  <2>1. q.start \in Nat /\ end \in Nat
    BY <1>1, <1>2 DEF U64
  <2>2. ASSUME NEW k \in places PROVE k \in 0..(SliceSize(q) - 1)
    BY <1>4, <2>1
  <2>3. ASSUME NEW k \in 0..(SliceSize(q) - 1) PROVE k \in places
    <3>1. q.start + k \in q.start..(end - 1) /\ k = (q.start + k) - q.start
      BY <1>4, <2>1
    <3>2. QED
      BY <3>1
  <2>4. QED
    BY <1>3, <2>2, <2>3
<1>6. QED
  BY <1>5 DEF Expected, Contract!Expected

(* A buffer of which as many positions are written as it has is written at *)
(* every one of them.                                                      *)
LEMMA FullBufferIsWritten ==
  ASSUME NEW r, IsReassembly(r), r.size # None, Cardinality(Written(r)) = r.size
  PROVE  \A k \in 0..(r.size - 1) : r.bytes[k] # Zero
<1>1. r.size \in Nat /\ DOMAIN r.bytes = 0..(r.size - 1)
  BY DEF IsReassembly, Lengths, U64
<1> HIDE BatchAssumption
<1>2. IsFiniteSet(0..(r.size - 1)) /\ Cardinality(0..(r.size - 1)) = r.size
  BY <1>1, FS_Interval
<1>3. Written(r) \in SUBSET (0..(r.size - 1))
  BY <1>1 DEF Written
<1>4. Written(r) = 0..(r.size - 1)
  BY <1>2, <1>3, FS_Subset
<1>5. QED
  BY <1>4 DEF Written

(* An item that finish lets pass is the slice its request asked for.       *)
LEMMA FinishedIsTheSlice ==
  ASSUME IInv, phase # "building", "repeat" \notin Faults, NEW i \in Items,
         IsOk(Finish(item[i]))
  PROVE  Finish(item[i]).value = Expected(requests[i])
<1> DEFINE r == item[i]
           q == requests[i]
<1>1. q \in Request /\ IsReassembly(r) /\ ItemIsTheRequests(i)
  BY DEF IInv, TypeOK
<1>2. /\ r.size # None /\ r.covered = r.size
      /\ Finish(r).value = r.bytes
  BY DEF Finish, IsOk, Ok, MissingEvent, SizeMismatch
<1>3. IsEmpty(q) => r.size = SliceSize(q)
  <2> SUFFICES ASSUME IsEmpty(q) PROVE r.size = SliceSize(q)
    OBVIOUS
  <2>1. r.size = 0
    BY <1>1 DEF ItemIsTheRequests, Empty, Fresh
  <2>2. q.start \in U64 /\ Size[q.address] \in U64 /\ q.length = 0 /\ 0 # None
    BY <1>1 DEF Request, IsEmpty
  <2>3. SliceSize(q) = 0
    BY <2>2 DEF SliceSize, RangeEnd, SatAdd, SatSub, Least, Most, U64
  <2>4. QED
    BY <2>1, <2>3
<1>4. r.size = SliceSize(q)
  BY <1>1, <1>2, <1>3 DEF ItemIsTheRequests
<1>5. \A k \in 0..(r.size - 1) : r.bytes[k] # Zero
  BY <1>1, <1>2, FullBufferIsWritten DEF IInv, WrittenIsCounted
<1>6. r.bytes \in [0..(r.size - 1) -> Byte]
  BY <1>1, <1>2 DEF IsReassembly
<1>7. \A k \in 0..(r.size - 1) : r.bytes[k] = <<q.address, q.start + k>>
  BY <1>5, <1>6 DEF IInv, NoForeignByte
<1>8. r.bytes = [k \in 0..(r.size - 1) |-> <<q.address, q.start + k>>]
  BY <1>6, <1>7
<1>9. Expected(q) = [k \in 0..(r.size - 1) |-> <<q.address, q.start + k>>]
  BY <1>1, <1>4, ExpectedHasItsSize
<1>10. QED
  BY <1>2, <1>8, <1>9

-----------------------------------------------------------------------------
(* The inductive invariant holds throughout.                               *)
THEOREM Invariance == Spec => []IInv
<1>1. QED
  BY InitEstablishes, NextPreserves, PTL DEF Spec

(* The types, among them that a buffer is indexed only within its length   *)
(* and that no sum leaves the u64s: record cannot panic.                   *)
THEOREM TypeCorrect == Spec => []TypeOK
<1>1. IInv => TypeOK
  BY DEF IInv
<1>2. QED
  BY Invariance, <1>1, PTL

(* Whatever bounds the caller named its ranges by, their spans select it.  *)
THEOREM RangesAreSelected == Spec => []SpanSelectsTheRange
<1>1. IInv => SpanSelectsTheRange
  <2> SUFFICES ASSUME IInv, NEW i \in Items, NEW from \in Bounds, NEW to \in Bounds
               PROVE  SpanSelects(from, to, Size[requests[i].address])
    BY DEF SpanSelectsTheRange
  <2>1. requests[i] \in Request
    BY DEF IInv, TypeOK
  <2>2. Size[requests[i].address] \in U64
    BY <2>1 DEF Request
  <2>3. QED
    BY <2>2, SpansSelect
<1>2. QED
  BY Invariance, <1>1, PTL

(* Whatever Lore sends, no buffer holds another item's bytes, nor its own  *)
(* out of place.                                                           *)
THEOREM BytesAreTheItemsOwn == Spec => []NoForeignByte
<1>1. IInv => NoForeignByte
  BY DEF IInv
<1>2. QED
  BY Invariance, <1>1, PTL

(* `covered` is never less than the number of positions written, whatever  *)
(* Lore sends, and is that number unless Lore repeats some.                *)
THEOREM CoveredCountsWritten == Spec => []WrittenIsCounted
<1>1. IInv => WrittenIsCounted
  BY DEF IInv
<1>2. QED
  BY Invariance, <1>1, PTL

(* A read that succeeds is the asked slice of the content, for any batch   *)
(* and however the fragments come, as long as none is repeated.            *)
THEOREM SuccessIsTheSlice ==
  ASSUME "repeat" \notin Faults
  PROVE  Spec => []OkIsTheSlice
<1>1. IInv => OkIsTheSlice
  <2> SUFFICES ASSUME IInv, NEW i \in DOMAIN Results, IsOk(Results[i])
               PROVE  Results[i].value = Expected(requests[i])
    BY DEF OkIsTheSlice
  <2>1. answer # None /\ phase = "answered" /\ answer = Folded
    BY DEF IInv, AnswerIsTheFold, Results
  <2>2. CASE api = "one"
    <3>1. i = Alone /\ i \in Items
      BY <2>1, <2>2, AloneIsAnItem DEF Results
    <3>2. i \in Items /\ Results[i] = GetOne(item[i])
      BY <2>1, <2>2, <3>1 DEF Results, Folded
    <3>3. GetOne(item[i]) = Finish(item[i])
      BY <3>2 DEF GetOne
    <3>4. QED
      BY <2>1, <3>2, <3>3, FinishedIsTheSlice
  <2>3. CASE api = "many"
    <3>1. answer = GetOutcomes
      BY <2>1, <2>3 DEF Folded
    <3>2. IsOk(answer) => answer = Ok(Outcomes)
      BY <3>1 DEF GetOutcomes, IsOk, Unreported, CallError, MissingEvent
    <3>3. i \in Items /\ Results[i] = Outcome(item[i])
      BY <2>1, <2>3, <3>2 DEF Results, Outcomes, Ok
    <3>4. Outcome(item[i]) = Finish(item[i])
      BY <3>3 DEF Outcome, IsOk, Failed
    <3>5. QED
      BY <2>1, <3>3, <3>4, FinishedIsTheSlice
  <2>4. QED
    BY <2>2, <2>3 DEF IInv, TypeOK
<1>2. QED
  BY Invariance, <1>1, PTL

(* An item whose completion did not arrive fails the whole batch, however  *)
(* the call itself returned.                                               *)
THEOREM UnreportedIsNeverAnswered == Spec => []UnreportedFailsTheBatch
<1>1. IInv => UnreportedFailsTheBatch
  <2> SUFFICES ASSUME IInv, answer # None, NEW i \in InCall, item[i].completion = None
               PROVE  ~IsOk(answer)
    BY DEF UnreportedFailsTheBatch
  <2>1. i \in Items /\ answer = Folded
    BY DEF InCall, IInv, AnswerIsTheFold
  <2>2. CASE api = "many"
    BY <2>1, <2>2 DEF Folded, GetOutcomes, IsOk, Unreported, CallError, MissingEvent
  <2>3. CASE api = "one"
    <3>1. i = Alone
      BY <2>3 DEF IInv, IsAlone, InCall
    <3>2. answer = GetOne(item[i])
      BY <2>1, <2>3, <3>1 DEF Folded
    <3>3. ~IsOk(Finish(item[i]))
      BY DEF Finish, IsOk, MissingEvent, SizeMismatch
    <3>4. QED
      BY <3>2, <3>3 DEF GetOne
  <2>4. QED
    BY <2>2, <2>3 DEF IInv, TypeOK
<1>2. QED
  BY Invariance, <1>1, PTL

(* A call that failed is never folded into a full success.                 *)
THEOREM FailedCallIsReported == Spec => []NoFailureIsLost
<1>1. IInv => NoFailureIsLost
  <2> SUFFICES ASSUME IInv, answer # None, result = "Call", IsOk(answer)
               PROVE  \E i \in DOMAIN Results : ~IsOk(Results[i])
    BY DEF NoFailureIsLost
  <2>1. answer = Folded
    BY DEF IInv, AnswerIsTheFold
  <2>2. CASE api = "many"
    <3>1. answer = Ok(Outcomes) /\ \E i \in Items : ~IsOk(Outcomes[i])
      BY <2>1, <2>2 DEF Folded, GetOutcomes, IsOk, Unreported, CallError, MissingEvent
    <3>2. QED
      BY <2>2, <3>1 DEF Results, Ok, Outcomes
  <2>3. CASE api = "one"
    <3> DEFINE r == item[Alone]
    <3>1. answer = GetOne(r)
      BY <2>1, <2>3 DEF Folded
    <3>2. ~IsOk(Resolve(result, r.completion))
      BY DEF Resolve, IsOk, Failed, CallError
    <3>3. QED
      BY <3>1, <3>2 DEF GetOne
  <2>4. QED
    BY <2>2, <2>3 DEF IInv, TypeOK
<1>2. QED
  BY Invariance, <1>1, PTL

-----------------------------------------------------------------------------
(* An item whose events all arrived and kept to Lore's contract.  What was *)
(* sent of it is what is written, counted and reached, and its record      *)
(* completes as Lore completed it.                                         *)
CleanItem(q, r, s) ==
  /\ r.overflow = None
  /\ r.size = None <=> ~s.announced
  /\ s.sent \subseteq Wanted(q)
  /\ \A p \in Wanted(q) : p \in s.sent <=> p - q.start \in Written(r)
  /\ r.covered = Cardinality(Written(r))
  /\ \A k \in Written(r) : k < r.end
  /\ r.end # 0 => r.end - 1 \in Written(r)
  /\ r.completion = s.code
  /\ s.code = NoError => s.announced /\ Wanted(q) \subseteq s.sent

CleanItems ==
  IF phase = "building"
  THEN \A i \in Items : served[i].code = None
  ELSE \A i \in InCall : served[i].clean => CleanItem(requests[i], item[i], served[i])

LEMMA WantedIsTheSlice ==
  ASSUME NEW q \in Request, ~IsEmpty(q)
  PROVE  /\ SliceSize(q) \in Nat
         /\ Wanted(q) = q.start..(q.start + SliceSize(q) - 1)
<1> DEFINE size == Size[q.address]
           end == RangeEnd(q.start, q.length, size)
<1>1. /\ size \in U64 /\ q.start \in Nat /\ MaxU64 \in Nat /\ size <= MaxU64
      /\ q.length = None \/ (q.length \in Nat /\ q.length > 0)
  BY DEF Request, Lengths, U64, IsEmpty
<1>2. /\ end \in Nat
      /\ q.length = None => end = size
      /\ q.length # None => end = IF q.start + q.length <= size THEN q.start + q.length ELSE size
  BY <1>1 DEF RangeEnd, SatAdd, Least, U64
<1>3. SliceSize(q) = IF end >= q.start THEN end - q.start ELSE 0
  BY <1>1, <1>2 DEF SliceSize, SatSub, Most
<1>4. \A p \in 0..(size - 1) :
        p >= q.start /\ (q.length \in {None, 0} \/ p < q.start + q.length)
          <=> q.start <= p /\ p < end
  BY <1>1, <1>2 DEF U64
<1>5. end <= size
  BY <1>1, <1>2 DEF U64
<1>6. Wanted(q) = {p \in 0..(size - 1) : q.start <= p /\ p < end}
  BY <1>4 DEF Wanted
<1> HIDE DEF end, size
<1>7. QED
  BY <1>1, <1>2, <1>3, <1>5, <1>6 DEF U64

LEMMA CleanHeader ==
  ASSUME NEW q \in Request, NEW r, IsReassembly(r), NEW s \in Service, CleanItem(q, r, s),
         ~s.announced, s.code = None, NEW size \in U64,
         NEW s2 \in Service, s2.announced, s2.sent = s.sent, s2.code = s.code
  PROVE  CleanItem(q, RecordHeader(r, size), s2)
<1> DEFINE r2 == RecordHeader(r, size)
<1>1. r.size = None /\ r.bytes = Blank(0) /\ r.covered = 0 /\ r.end = 0
  BY DEF CleanItem, IsReassembly
<1>2. r2.size \in U64 /\ r2.bytes = Blank(r2.size) /\ r2.covered = 0
  BY <1>1, HeaderAllocates
<1>3. r2.end = 0 /\ r2.overflow = None /\ r2.completion = s2.code
  BY <1>1 DEF RecordHeader, IsReassembly, CleanItem
<1>4. r2.size # None /\ s2.code # NoError
  BY <1>2 DEF U64, RawCodes
<1> HIDE DEF r2
<1>5. Written(r) = {} /\ Written(r2) = {}
  BY <1>1, <1>2, BlankIsUnwritten
<1>6. CleanItem(q, r2, s2)
  BY <1>2, <1>3, <1>4, <1>5, FS_EmptySet DEF CleanItem
<1>7. QED
  BY <1>6 DEF r2

LEMMA CleanFragment ==
  ASSUME NEW q \in Request, ~IsEmpty(q), NEW r, IsReassembly(r), r.start = q.start,
         r.size \in {None, SliceSize(q)}, NEW s \in Service, CleanItem(q, r, s),
         s.announced, s.code = None,
         NEW from \in U64, NEW to \in U64, from < to, NEW n \in U64, n = to - from,
         from..(to - 1) \subseteq Wanted(q), (from..(to - 1)) \cap s.sent = {},
         NEW s2 \in Service, s2.announced, s2.sent = s.sent \cup (from..(to - 1)),
         s2.code = s.code
  PROVE  CleanItem(q, RecordData(r, q.address, from, n), s2)
<1> DEFINE r2 == RecordData(r, q.address, from, n)
           at == from - q.start
           here == at..(at + n - 1)
<1>1. /\ q.start \in Nat /\ from \in Nat /\ to \in Nat /\ n \in Nat /\ q.address \in Addresses
      /\ r.end \in Nat
  BY DEF Request, U64, IsReassembly
<1>2. Wanted(q) = q.start..(q.start + SliceSize(q) - 1) /\ SliceSize(q) \in Nat
  BY WantedIsTheSlice
<1>3. r.size = SliceSize(q) /\ r.size # None
  BY DEF CleanItem
<1>4. from \in Wanted(q) /\ to - 1 \in Wanted(q)
  BY <1>1
<1>5. at \in Nat /\ at + n <= SliceSize(q) /\ n > 0
  BY <1>1, <1>2, <1>4
<1>6. Fits(r, from, n)
  BY <1>1, <1>3, <1>5 DEF Fits
<1>7. \A k \in here : k + q.start \in from..(to - 1)
  BY <1>1, <1>5
<1>8. Written(r) \cap here = {}
  <2> SUFFICES ASSUME NEW k \in here, k \in Written(r) PROVE FALSE
    OBVIOUS
  <2>1. k + q.start \in Wanted(q) /\ k + q.start \notin s.sent
    BY <1>7
  <2>2. (k + q.start) - q.start = k
    BY <1>1, <1>5
  <2>3. QED
    BY <2>1, <2>2 DEF CleanItem
<1>9. Written(r2) = Written(r) \cup here /\ r2.covered = Cardinality(Written(r2))
  <2>1. Written(r2) = Written(r) \cup here /\ Cardinality(Written(r2)) = Cardinality(Written(r)) + n
    BY <1>1, <1>6, <1>8, CopyingIsCounted
  <2>2. r2.covered = r.covered + n
    BY <1>6 DEF RecordData, IsReassembly
  <2>3. QED
    BY <2>1, <2>2 DEF CleanItem
<1>10. /\ r2.end = Most(r.end, at + n) /\ r2.overflow = None
       /\ r2.completion = s2.code /\ r2.size # None
  BY <1>3, <1>6 DEF RecordData, IsReassembly, CleanItem
<1> HIDE DEF r2
<1>11. /\ \A k \in Written(r2) : k < r2.end
       /\ r2.end # 0 => r2.end - 1 \in Written(r2)
  <2>1. \A k \in Written(r) : k \in Int /\ k < r.end
    <3>1. Written(r) \subseteq 0..(r.size - 1)
      BY <1>3 DEF Written, IsReassembly
    <3>2. QED
      BY <3>1 DEF CleanItem
  <2>2. r.end # 0 => r.end - 1 \in Written(r)
    BY DEF CleanItem
  <2>3. CASE r.end >= at + n
    <3>1. r2.end = r.end
      BY <1>10, <2>3 DEF Most
    <3>2. QED
      BY <1>1, <1>5, <1>9, <2>1, <2>2, <2>3, <3>1
  <2>4. CASE ~(r.end >= at + n)
    <3>1. r2.end = at + n
      BY <1>10, <2>4 DEF Most
    <3>2. at + n - 1 \in here
      BY <1>1, <1>5
    <3>3. QED
      BY <1>1, <1>5, <1>9, <2>1, <2>4, <3>1, <3>2
  <2>5. QED
    BY <2>3, <2>4
<1>12. ASSUME NEW p \in Wanted(q) PROVE p \in s2.sent <=> p - q.start \in Written(r2)
  <2>1. p \in from..(to - 1) <=> p - q.start \in here
    <3>1. p \in Int /\ q.start \in Int
      BY <1>1, <1>2
    <3>2. at + n - 1 = (to - 1) - q.start
      BY <1>1
    <3>3. p \in from..(to - 1) <=> p - q.start \in at..((to - 1) - q.start)
      BY <1>1, <3>1
    <3>4. QED
      BY <3>2, <3>3
  <2>2. p \in s.sent <=> p - q.start \in Written(r)
    BY DEF CleanItem
  <2> HIDE DEF here
  <2>3. QED
    BY <1>9, <2>1, <2>2
<1>13. s2.sent \subseteq Wanted(q) /\ s2.code # NoError
  BY DEF CleanItem, RawCodes
<1>14. CleanItem(q, r2, s2)
  BY <1>9, <1>10, <1>11, <1>12, <1>13 DEF CleanItem
<1>15. QED
  BY <1>14 DEF r2

LEMMA CleanCompletion ==
  ASSUME NEW q, NEW r, IsReassembly(r), NEW s \in Service, CleanItem(q, r, s),
         NEW code \in RawCodes, code = NoError => s.announced /\ Wanted(q) \subseteq s.sent,
         NEW s2 \in Service, s2.announced = s.announced, s2.sent = s.sent, s2.code = code
  PROVE  CleanItem(q, RecordComplete(r, code), s2)
<1> DEFINE r2 == RecordComplete(r, code)
<1>1. /\ r2.bytes = r.bytes /\ r2.covered = r.covered /\ r2.size = r.size
      /\ r2.end = r.end /\ r2.overflow = r.overflow /\ r2.completion = code
  BY DEF RecordComplete, IsReassembly
<1> HIDE DEF r2
<1>2. Written(r2) = Written(r)
  BY <1>1 DEF Written
<1>3. CleanItem(q, r2, s2)
  BY <1>1, <1>2 DEF CleanItem
<1>4. QED
  BY <1>3 DEF r2

LEMMA CleanItemsAfter ==
  ASSUME phase' # "building", UNCHANGED requests
  PROVE  CleanItems' <=> \A i \in InCall : served'[i].clean =>
                           CleanItem(requests[i], item'[i], served'[i])
<1>1. InCall' = InCall
  BY DEF InCall, IsEmpty
<1>2. QED
  BY <1>1 DEF CleanItems, CleanItem, Written, Wanted

(* An event that is lost leaves its item unclean; any other is recorded.   *)
LEMMA CleanStep ==
  ASSUME IInv, CleanItems, phase = "calling", NEW i \in InCall, NEW stray, NEW r, NEW s,
         Route(i, stray, r), served' = [served EXCEPT ![i] = s],
         s.clean => ~stray /\ CleanItem(requests[i], r, s),
         UNCHANGED <<requests, phase>>
  PROVE  CleanItems'
<1> SUFFICES ASSUME NEW j \in InCall, served'[j].clean
             PROVE  CleanItem(requests[j], item'[j], served'[j])
  BY CleanItemsAfter
<1>1. DOMAIN item = Items /\ DOMAIN served = Items /\ i \in Items /\ j \in Items
  BY DEF IInv, TypeOK, InCall
<1>2. CASE j = i
  <2>1. served'[i] = s
    BY <1>1
  <2>2. item'[i] = r
    BY <1>1, <1>2, <2>1 DEF Route
  <2>3. QED
    BY <1>2, <2>1, <2>2
<1>3. CASE j # i
  <2>1. item'[j] = item[j] /\ served'[j] = served[j]
    BY <1>1, <1>3 DEF Route
  <2>2. QED
    BY <2>1 DEF CleanItems
<1>4. QED
  BY <1>2, <1>3

LEMMA CleanLoreSteps ==
  ASSUME IInv, CleanItems, NEW i \in Items, NEW stray \in BOOLEAN
  PROVE  /\ LoreHeader(i, stray) => CleanItems'
         /\ \A from, to \in U64 : LoreData(i, stray, from, to) => CleanItems'
         /\ \A code \in RawCodes : LoreComplete(i, stray, code) => CleanItems'
<1> DEFINE q == requests[i]
           r == item[i]
           s == served[i]
<1>1. /\ q \in Request /\ Size[q.address] \in U64 /\ IsReassembly(r) /\ s \in Service
      /\ ItemIsTheRequests(i)
  BY DEF IInv, TypeOK, Request
<1>2. ASSUME Serving(i), s.clean
      PROVE  /\ phase = "calling" /\ i \in InCall /\ s.code = None /\ CleanItem(q, r, s)
             /\ ~IsEmpty(q) /\ r.start = q.start /\ r.size \in {None, SliceSize(q)}
  BY <1>1, <1>2 DEF Serving, CleanItems, InCall, ItemIsTheRequests
<1>3. ASSUME LoreHeader(i, stray) PROVE CleanItems'
  <2> DEFINE r2 == RecordHeader(r, Size[q.address])
             s2 == [s EXCEPT !.announced = TRUE, !.clean = @ /\ ~stray]
  <2>1. /\ Serving(i) /\ ~s.announced /\ Route(i, stray, r2)
        /\ served' = [served EXCEPT ![i] = s2] /\ UNCHANGED <<requests, phase>>
    BY <1>3 DEF LoreHeader
  <2>2. /\ s2 \in Service /\ s2.announced /\ s2.sent = s.sent /\ s2.code = s.code
        /\ s2.clean => s.clean /\ ~stray
    BY <1>1 DEF Service
  <2> HIDE DEF s2, r, s, q
  <2>3. s2.clean => CleanItem(q, r2, s2)
    BY <1>1, <1>2, <2>1, <2>2, CleanHeader
  <2> HIDE DEF r2
  <2>4. QED
    BY <2>1, <2>2, <2>3, CleanStep DEF Serving, q
<1>4. ASSUME NEW from \in U64, NEW to \in U64, LoreData(i, stray, from, to) PROVE CleanItems'
  <2> DEFINE part == from..(to - 1)
             inside == part \subseteq Wanted(q)
             firstOne == part \cap s.sent = {}
             n == to - from
             r2 == RecordData(r, q.address, from, n)
             s2 == [s EXCEPT !.sent = @ \cup part, !.fragments = @ + 1,
                             !.clean = @ /\ ~stray /\ inside /\ firstOne]
  <2>1. /\ Serving(i) /\ s.announced /\ from < to
        /\ Route(i, stray, r2)
        /\ served' = [served EXCEPT ![i] = s2] /\ UNCHANGED <<requests, phase>>
    BY <1>4 DEF LoreData
  <2>2. part \subseteq U64 /\ n \in U64
    BY <2>1 DEF U64
  <2>3. /\ s2 \in Service /\ s2.announced = s.announced /\ s2.sent = s.sent \cup part
        /\ s2.code = s.code
        /\ s2.clean => s.clean /\ ~stray /\ inside /\ firstOne
    <3>1. s.fragments + 1 \in Nat
      BY <1>1, <2>1 DEF Service
    <3>2. (s.clean /\ ~stray /\ inside /\ firstOne) \in BOOLEAN
      OBVIOUS
    <3>3. s.sent \cup part \in SUBSET U64
      BY <1>1, <2>2 DEF Service
    <3> HIDE DEF inside, firstOne, part
    <3>4. QED
      BY <1>1, <3>1, <3>2, <3>3 DEF Service
  <2> HIDE DEF s2, r, s, q, n
  <2>4. s2.clean => CleanItem(q, r2, s2)
    <3>1. SUFFICES ASSUME s2.clean PROVE CleanItem(q, r2, s2)
      OBVIOUS
    <3>2. n = to - from
      BY DEF n
    <3>3. part \subseteq Wanted(q) /\ part \cap s.sent = {} /\ s.clean
      BY <2>3, <3>1
    <3>4. /\ ~IsEmpty(q) /\ r.start = q.start /\ r.size \in {None, SliceSize(q)}
          /\ CleanItem(q, r, s) /\ s.code = None
      BY <1>2, <2>1, <3>3
    <3>5. q \in Request /\ IsReassembly(r) /\ s \in Service
      BY <1>1
    <3>6. s2 \in Service /\ s2.announced /\ s2.sent = s.sent \cup part /\ s2.code = s.code
      BY <2>1, <2>3
    <3>7. QED
      BY <2>1, <2>2, <3>2, <3>3, <3>4, <3>5, <3>6, CleanFragment
  <2> HIDE DEF r2, part, inside, firstOne
  <2>5. QED
    BY <2>1, <2>3, <2>4, CleanStep DEF Serving, q
<1>5. ASSUME NEW code \in RawCodes, LoreComplete(i, stray, code) PROVE CleanItems'
  <2> DEFINE r2 == RecordComplete(r, code)
             s2 == [s EXCEPT !.code = code, !.clean = @ /\ ~stray]
  <2>1. /\ Serving(i) /\ Route(i, stray, r2)
        /\ code = NoError => s.announced /\ Wanted(q) \subseteq s.sent
        /\ served' = [served EXCEPT ![i] = s2] /\ UNCHANGED <<requests, phase>>
    BY <1>5 DEF LoreComplete
  <2>2. /\ s2 \in Service /\ s2.announced = s.announced /\ s2.sent = s.sent /\ s2.code = code
        /\ s2.clean => s.clean /\ ~stray
    BY <1>1 DEF Service
  <2> HIDE DEF s2, r, s, q
  <2>3. s2.clean => CleanItem(q, r2, s2)
    BY <1>1, <1>2, <2>1, <2>2, CleanCompletion
  <2> HIDE DEF r2
  <2>4. QED
    BY <2>1, <2>2, <2>3, CleanStep DEF Serving, q
<1>6. QED
  BY <1>3, <1>4, <1>5

LEMMA CleanItemsKept ==
  /\ Init => CleanItems
  /\ IInv /\ CleanItems /\ [Next]_vars => CleanItems'
<1>1. Init => CleanItems
  BY DEF Init, CleanItems
<1>2. ASSUME IInv, CleanItems, [Next]_vars PROVE CleanItems'
  <2>1. CASE Build
    <3>1. /\ phase' # "building" /\ InCall' = InCall /\ UNCHANGED <<requests, served>>
          /\ \A i \in Items : item'[i] = NewItem(requests[i])
      BY <2>1 DEF Build, InCall, IsEmpty
    <3>2. ASSUME NEW i \in InCall PROVE CleanItem(requests[i], item'[i], served[i])
      <4> DEFINE r == item'[i]
      <4>1. i \in Items /\ r = Ranged(requests[i].start, requests[i].length)
        BY <3>1 DEF InCall, NewItem
      <4>2. /\ r.overflow = None /\ r.size = None /\ r.covered = 0 /\ r.end = 0
            /\ r.completion = None /\ r.bytes = Blank(0)
        BY <4>1 DEF Ranged, Fresh
      <4>3. ~served[i].announced /\ served[i].sent = {} /\ served[i].code = None
        BY <1>2, <2>1, <4>1 DEF Build, CleanItems, IInv, ItemIsTheRequests
      <4> HIDE DEF r
      <4>4. Written(r) = {}
        BY <4>2, BlankIsUnwritten
      <4>5. CleanItem(requests[i], r, served[i])
        BY <4>2, <4>3, <4>4, FS_EmptySet DEF CleanItem, RawCodes
      <4>6. QED
        BY <4>5 DEF r
    <3>3. QED
      BY <3>1, <3>2, CleanItemsAfter
  <2>2. ASSUME NEW i \in Items, NEW stray \in BOOLEAN,
               \/ LoreHeader(i, stray)
               \/ \E from, to \in U64 : LoreData(i, stray, from, to)
               \/ \E code \in RawCodes : LoreComplete(i, stray, code)
        PROVE  CleanItems'
    BY <1>2, <2>2, CleanLoreSteps
  <2>3. CASE /\ UNCHANGED <<requests, item, served>>
             /\ phase' = phase \/ (phase # "building" /\ phase' # "building")
    <3>1. CASE phase = "building"
      BY <1>2, <2>3, <3>1 DEF CleanItems
    <3>2. CASE phase # "building"
      <4>1. \A i \in InCall : served'[i].clean => CleanItem(requests[i], item'[i], served'[i])
        BY <1>2, <2>3, <3>2 DEF CleanItems
      <4>2. QED
        BY <2>3, <3>2, <4>1, CleanItemsAfter
    <3>3. QED
      BY <3>1, <3>2
  <2>4. ASSUME NEW status \in CallResults, LoreReturn(status) PROVE CleanItems'
    BY <2>3, <2>4 DEF LoreReturn
  <2>5. CASE Fold
    BY <2>3, <2>5 DEF Fold
  <2>6. CASE UNCHANGED vars
    BY <2>3, <2>6 DEF vars
  <2>7. QED
    <3>1. ASSUME NEW i \in Items, NEW stray \in BOOLEAN, LoreHeader(i, stray) PROVE CleanItems'
      BY <2>2, <3>1
    <3>2. ASSUME NEW i \in Items, NEW stray \in BOOLEAN, NEW from \in U64, NEW to \in U64,
                 LoreData(i, stray, from, to)
          PROVE  CleanItems'
      BY <2>2, <3>2
    <3>3. ASSUME NEW i \in Items, NEW stray \in BOOLEAN, NEW code \in RawCodes,
                 LoreComplete(i, stray, code)
          PROVE  CleanItems'
      BY <2>2, <3>3
    <3>4. QED
      BY <1>2, <2>1, <2>4, <2>5, <2>6, <3>1, <3>2, <3>3, EveryStep
<1>3. QED
  BY <1>1, <1>2

(* The record of an item that Lore read to its end passes finish, and with *)
(* the item's slice.                                                       *)
LEMMA CleanItemIsFinished ==
  ASSUME IInv, phase # "building", NEW i \in InCall,
         CleanItem(requests[i], item[i], served[i]), served[i].code = NoError
  PROVE  Finish(item[i]) = Ok(Expected(requests[i]))
<1> DEFINE r == item[i]
           q == requests[i]
<1>1. /\ i \in Items /\ q \in Request /\ ~IsEmpty(q) /\ IsReassembly(r) /\ ItemIsTheRequests(i)
  BY DEF IInv, TypeOK, InCall
<1>2. r.size # None /\ r.overflow = None /\ r.completion # None /\ Wanted(q) \subseteq served[i].sent
  BY DEF CleanItem, RawCodes
<1>3. /\ r.size = SliceSize(q) /\ r.size \in Nat /\ q.start \in Nat
      /\ Wanted(q) = q.start..(q.start + r.size - 1)
  BY <1>1, <1>2, WantedIsTheSlice DEF ItemIsTheRequests, Request, U64
<1>4. r.bytes \in [0..(r.size - 1) -> Byte]
  BY <1>1, <1>2 DEF IsReassembly
<1>5. Written(r) = 0..(r.size - 1)
  <2>1. ASSUME NEW k \in 0..(r.size - 1) PROVE k \in Written(r)
    <3>1. q.start + k \in Wanted(q) /\ (q.start + k) - q.start = k
      BY <1>3
    <3>2. QED
      BY <1>2, <3>1 DEF CleanItem
  <2>2. Written(r) \subseteq 0..(r.size - 1)
    BY <1>4 DEF Written
  <2>3. QED
    BY <2>1, <2>2
<1>6. r.covered = r.size
  BY <1>3, <1>5, FS_Interval DEF CleanItem
<1>7. r.end = r.size
  <2>1. r.end \in Nat
    BY <1>1 DEF IsReassembly, U64
  <2>2. r.end # 0 => r.end - 1 \in 0..(r.size - 1)
    BY <1>5 DEF CleanItem
  <2>3. r.size # 0 => r.size - 1 < r.end
    BY <1>3, <1>5 DEF CleanItem
  <2>4. QED
    BY <1>3, <2>1, <2>2, <2>3
<1>8. Finish(r) = Ok(r.bytes)
  BY <1>2, <1>6, <1>7 DEF Finish
<1>9. \A k \in 0..(r.size - 1) : r.bytes[k] = <<q.address, q.start + k>>
  BY <1>1, <1>4, <1>5 DEF IInv, NoForeignByte, Written
<1>10. r.bytes = [k \in 0..(r.size - 1) |-> <<q.address, q.start + k>>]
  BY <1>4, <1>9
<1>11. Expected(q) = [k \in 0..(r.size - 1) |-> <<q.address, q.start + k>>]
  BY <1>1, <1>3, ExpectedHasItsSize
<1>12. QED
  BY <1>8, <1>10, <1>11

LEMMA EmptyItemIsFinished ==
  ASSUME IInv, phase # "building", NEW i \in Items, IsEmpty(requests[i])
  PROVE  item[i].completion = NoError /\ Finish(item[i]) = Ok(Expected(requests[i]))
<1>1. requests[i] \in Request /\ item[i] = Empty
  BY DEF IInv, TypeOK, ItemIsTheRequests
<1>2. /\ item[i].completion = NoError /\ item[i].size = 0 /\ item[i].overflow = None
      /\ item[i].covered = 0 /\ item[i].end = 0 /\ item[i].bytes = Blank(0)
  BY <1>1 DEF Empty, Fresh
<1>3. Finish(item[i]) = Ok(Blank(0))
  BY <1>2 DEF Finish, RawCodes
<1>4. SliceSize(requests[i]) = 0
  <2>1. /\ requests[i].start \in U64 /\ Size[requests[i].address] \in U64
        /\ requests[i].length = 0 /\ 0 # None
    BY <1>1 DEF Request, IsEmpty
  <2>2. QED
    BY <2>1 DEF SliceSize, RangeEnd, SatAdd, SatSub, Least, Most, U64
<1>5. Expected(requests[i]) = [k \in 0..(0 - 1) |-> <<requests[i].address, requests[i].start + k>>]
  BY <1>1, <1>4, ExpectedHasItsSize
<1>6. Expected(requests[i]) = Blank(0)
  <2>1. 0..(0 - 1) = {}
    OBVIOUS
  <2>2. QED
    BY <1>5, <2>1 DEF Blank
<1>7. QED
  BY <1>2, <1>3, <1>6

(* One failed item does not fail the call: when Lore has reported every    *)
(* item, each has its own answer, the failed ones their codes and the      *)
(* others their contents, although the call itself returned a failure.     *)
THEOREM OneFailureIsOneItems == Spec => []OneFailureFailsOneItem
<1>1. Spec => [](IInv /\ CleanItems)
  BY InitEstablishes, NextPreserves, CleanItemsKept, PTL DEF Spec
<1>2. IInv /\ CleanItems => OneFailureFailsOneItem
  <2> SUFFICES ASSUME IInv, CleanItems, answer # None, api = "many",
                      \A i \in Items : Reported(i), \E i \in Items : FailedItem(i)
               PROVE  /\ IsOk(answer)
                      /\ \A i \in Items : Results[i] = IF FailedItem(i) THEN Failed(served[i].code)
                                                       ELSE Ok(Expected(requests[i]))
    BY DEF OneFailureFailsOneItem
  <2>1. phase = "answered" /\ answer = GetOutcomes
    BY DEF IInv, AnswerIsTheFold, Folded
  <2>2. ASSUME NEW i \in Items
        PROVE  /\ item[i].completion # None
               /\ Outcome(item[i]) = IF FailedItem(i) THEN Failed(served[i].code)
                                     ELSE Ok(Expected(requests[i]))
    <3>1. CASE i \notin InCall
      <4>1. item[i].completion = NoError /\ Finish(item[i]) = Ok(Expected(requests[i]))
        BY <2>1, <3>1, EmptyItemIsFinished DEF InCall
      <4>2. QED
        BY <3>1, <4>1 DEF Outcome, FromRaw, FailedItem, RawCodes
    <3>2. CASE i \in InCall
      <4>1. /\ CleanItem(requests[i], item[i], served[i])
            /\ served[i].code # None /\ served[i].code \in RawCodes \cup {None}
        BY <2>1, <3>2 DEF Reported, CleanItems, IInv, TypeOK, Service
      <4>2. item[i].completion = served[i].code
        BY <4>1 DEF CleanItem
      <4>3. CASE served[i].code = NoError
        BY <2>1, <3>2, <4>1, <4>2, <4>3, CleanItemIsFinished DEF Outcome, FromRaw, FailedItem
      <4>4. CASE served[i].code \in Codes
        BY <3>2, <4>2, <4>4 DEF Outcome, FromRaw, FailedItem, RawCodes
      <4>5. QED
        BY <4>1, <4>3, <4>4 DEF RawCodes
    <3>3. QED
      BY <3>1, <3>2
  <2>3. \E i \in Items : ~IsOk(Outcomes[i])
    <3>1. PICK i \in Items : FailedItem(i)
      OBVIOUS
    <3>2. Outcomes[i] = Failed(served[i].code)
      BY <2>2, <3>1 DEF Outcomes
    <3>3. QED
      BY <3>2 DEF IsOk, Failed
  <2>4. answer = Ok(Outcomes)
    BY <2>1, <2>2, <2>3 DEF GetOutcomes
  <2>5. IsOk(answer) /\ Results = Outcomes
    BY <2>4 DEF Results, IsOk, Ok
  <2>6. QED
    BY <2>2, <2>5 DEF Outcomes
<1>3. QED
  BY <1>1, <1>2, PTL

-----------------------------------------------------------------------------
(* The read implements its contract.  Beyond the inductive invariant that  *)
(* takes how the call went: it returns once, after the completions, and    *)
(* what an item recorded is the code Lore completed it with.               *)
CallGoesOnce ==
  /\ phase \in {"building", "calling"} => result = None
  /\ phase \in {"returned", "answered"} => result \in CallResults
  /\ \A i \in Items : item[i].completion # None => IsEmpty(requests[i])
                                              \/ served[i].code = item[i].completion

LEMMA CallSteps ==
  /\ Init => CallGoesOnce
  /\ IInv /\ CallGoesOnce /\ [Next]_vars => CallGoesOnce'
<1>1. Init => CallGoesOnce
  BY DEF Init, CallGoesOnce, Ranged, Fresh
<1>2. ASSUME IInv, CallGoesOnce, [Next]_vars PROVE CallGoesOnce'
  <2>1. CASE Build
    <3>1. \A i \in Items : item'[i] = NewItem(requests[i])
      BY <2>1 DEF Build
    <3>2. ASSUME NEW i \in Items, ~IsEmpty(requests[i]) PROVE item'[i].completion = None
      <4>1. item'[i] = Ranged(requests[i].start, requests[i].length)
        BY <3>1, <3>2 DEF NewItem
      <4>2. QED
        BY <4>1 DEF Ranged, Fresh
    <3>3. /\ requests' = requests /\ phase = "building"
          /\ \/ phase' = "returned" /\ result' = "Ok"
             \/ phase' = "calling" /\ result' = result
      BY <2>1 DEF Build
    <3>4. QED
      BY <1>2, <3>2, <3>3 DEF CallGoesOnce, IsEmpty, CallResults
  <2>2. ASSUME NEW i \in Items, NEW stray \in BOOLEAN, NEW recorded,
               Route(i, stray, recorded), UNCHANGED <<requests, result, phase>>,
               recorded.completion = served'[i].code \/ recorded.completion = item[i].completion,
               served[i].code \in {None, served'[i].code},
               \A j \in Items : j # i => served'[j] = served[j]
        PROVE  CallGoesOnce'
    <3>1. ASSUME NEW j \in Items, item'[j].completion # None
          PROVE  IsEmpty(requests[j]) \/ served'[j].code = item'[j].completion
      <4>1. item'[j] = item[j] \/ (j = i /\ item'[j] = recorded)
        BY <2>2 DEF Route, IInv, TypeOK
      <4>2. QED
        BY <1>2, <2>2, <3>1, <4>1 DEF CallGoesOnce
    <3>2. QED
      BY <1>2, <2>2, <3>1 DEF CallGoesOnce, IsEmpty
  <2>3. ASSUME NEW i \in Items, NEW stray \in BOOLEAN, LoreHeader(i, stray)
        PROVE  CallGoesOnce'
    <3> DEFINE recorded == RecordHeader(item[i], Size[requests[i].address])
    <3>1. recorded.completion = item[i].completion
      BY <1>2 DEF RecordHeader, IInv, TypeOK, IsReassembly
    <3>2. /\ served'[i].code = served[i].code
          /\ \A j \in Items : j # i => served'[j] = served[j]
      BY <2>3 DEF LoreHeader, IInv, TypeOK, Service
    <3>3. Route(i, stray, recorded) /\ UNCHANGED <<requests, result, phase>>
      BY <2>3 DEF LoreHeader
    <3> HIDE DEF recorded
    <3>4. QED
      BY <2>2, <3>1, <3>2, <3>3
  <2>4. ASSUME NEW i \in Items, NEW stray \in BOOLEAN, NEW from \in U64, NEW to \in U64,
               LoreData(i, stray, from, to)
        PROVE  CallGoesOnce'
    <3> DEFINE recorded == RecordData(item[i], requests[i].address, from, to - from)
    <3>1. recorded.completion = item[i].completion
      BY DEF RecordData, IInv, TypeOK, IsReassembly
    <3>2. /\ served'[i].code = served[i].code
          /\ \A j \in Items : j # i => served'[j] = served[j]
      BY <2>4 DEF LoreData, IInv, TypeOK, Service
    <3>3. Route(i, stray, recorded) /\ UNCHANGED <<requests, result, phase>>
      BY <2>4 DEF LoreData
    <3> HIDE DEF recorded
    <3>4. QED
      BY <2>2, <3>1, <3>2, <3>3
  <2>5. ASSUME NEW i \in Items, NEW stray \in BOOLEAN, NEW code \in RawCodes,
               LoreComplete(i, stray, code)
        PROVE  CallGoesOnce'
    <3>1. /\ served'[i].code = code /\ served[i].code = None
          /\ \A j \in Items : j # i => served'[j] = served[j]
      <4>1. served[i].code = None
        BY <2>5 DEF LoreComplete, Serving
      <4>2. PICK clean : served' = [served EXCEPT ![i] =
                           [served[i] EXCEPT !.code = code, !.clean = clean]]
        BY <2>5 DEF LoreComplete
      <4>3. served \in [Items -> Service]
        BY <1>2 DEF IInv, TypeOK
      <4>4. QED
        BY <4>1, <4>2, <4>3 DEF Service
    <3>2. RecordComplete(item[i], code).completion = code
      BY DEF RecordComplete, IInv, TypeOK, IsReassembly
    <3>3. Route(i, stray, RecordComplete(item[i], code)) /\ UNCHANGED <<requests, result, phase>>
      BY <2>5 DEF LoreComplete
    <3>4. QED
      BY <2>2, <3>1, <3>2, <3>3
  <2>6. ASSUME NEW status \in CallResults, LoreReturn(status) PROVE CallGoesOnce'
    BY <1>2, <2>6 DEF LoreReturn, CallGoesOnce, IsEmpty
  <2>7. CASE Fold
    BY <1>2, <2>7 DEF Fold, CallGoesOnce, IsEmpty
  <2>8. CASE UNCHANGED vars
    BY <1>2, <2>8 DEF vars, CallGoesOnce, IsEmpty
  <2>9. QED
    BY <1>2, <2>1, <2>3, <2>4, <2>5, <2>6, <2>7, <2>8, EveryStep
<1>3. QED
  BY <1>1, <1>2

Verdicts == [i \in Items |-> IF IsEmpty(requests[i]) THEN NoError ELSE item[i].completion]

(* A slot of the caller's answer is what the contract has it be.           *)
LEMMA SlotsAreAsPromised ==
  ASSUME IInv, phase = "returned", "repeat" \notin Faults, NEW i \in Items
  PROVE  /\ item[i].completion \in RawCodes \cup {None}
         /\ Verdicts[i] = item[i].completion
         /\ Finish(item[i]) = Ok(Contract!Expected(requests[i])) \/ LocalError(Finish(item[i]))
         /\ item[i].completion = None => LocalError(Finish(item[i]))
<1>1. IsReassembly(item[i]) /\ ItemIsTheRequests(i)
  BY DEF IInv, TypeOK
<1>2. item[i].completion \in RawCodes \cup {None}
  BY <1>1 DEF IsReassembly
<1>3. Verdicts[i] = item[i].completion
  <2>1. CASE IsEmpty(requests[i])
    <3>1. item[i] = Empty
      BY <1>1, <2>1 DEF ItemIsTheRequests
    <3>2. QED
      BY <2>1, <3>1 DEF Verdicts, Empty, Fresh
  <2>2. CASE ~IsEmpty(requests[i])
    BY <2>2 DEF Verdicts
  <2>3. QED
    BY <2>1, <2>2
<1> DEFINE r == item[i]
<1>4. \/ Finish(r).is \in {"MissingEvent", "SizeMismatch"}
      \/ Finish(r) = Ok(r.bytes) /\ r.completion # None
  BY DEF Finish, MissingEvent, SizeMismatch
<1>5. IsOk(Finish(r)) => Finish(r).value = Expected(requests[i])
  BY FinishedIsTheSlice
<1>6. Finish(r) = Ok(r.bytes) => Finish(r) = Ok(Contract!Expected(requests[i]))
  BY <1>5 DEF IsOk, Ok, Expected
<1>7. QED
  BY <1>2, <1>3, <1>4, <1>6 DEF LocalError

(* The fold of what was recorded is the contract's answer.                 *)
LEMMA FoldAnswers ==
  ASSUME IInv, CallGoesOnce, "repeat" \notin Faults, Fold
  PROVE  Contract!Answer
<1> USE DEF Verdicts
<1>1. /\ phase = "returned" /\ answer' = Folded /\ answer = None /\ result \in CallResults
      /\ UNCHANGED <<api, requests, item, result>>
  BY DEF Fold, IInv, AnswerIsTheFold, CallGoesOnce
<1>2. UNCHANGED <<api, requests, Verdicts, result>> /\ result # None
  BY <1>1 DEF IsEmpty
<1>3. ASSUME api = "many" PROVE Contract!AnswerMany
  <2>1. answer' = GetOutcomes
    BY <1>1, <1>3 DEF Folded
  <2>2. CASE \E i \in Items : item[i].completion = None
    <3>1. answer' = Unreported(result, "storage_get_item_complete")
      BY <2>1, <2>2 DEF GetOutcomes
    <3>2. \E i \in Items : Verdicts[i] = None
      BY <1>1, <2>2, SlotsAreAsPromised
    <3>3. QED
      BY <3>1, <3>2 DEF Contract!AnswerMany, Unreported, Contract!Unreported, Contract!CallError,
                        Contract!MissingEvent, CallError, MissingEvent
  <2>3. CASE \A i \in Items : item[i].completion # None
    <3>1. \A i \in Items : Verdicts[i] = item[i].completion /\ item[i].completion \in RawCodes
      BY <1>1, <2>3, SlotsAreAsPromised
    <3>2. ~(\E i \in Items : Verdicts[i] = None)
      BY <2>3, <3>1
    <3>3. CASE (\A i \in Items : IsOk(Outcomes[i])) /\ result = "Call"
      <4>1. answer' = Contract!CallError
        BY <2>1, <2>3, <3>3 DEF GetOutcomes, CallError, Contract!CallError
      <4>2. ASSUME NEW i \in Items PROVE Verdicts[i] = Contract!NoError
        <5>1. IsOk(Outcome(item[i]))
          BY <3>3 DEF Outcomes
        <5>2. item[i].completion = NoError
          BY <3>1, <5>1 DEF Outcome, FromRaw, IsOk, Failed
        <5>3. QED
          BY <3>1, <5>2 DEF NoError, Contract!NoError
      <4> HIDE DEF Verdicts
      <4>3. QED
        BY <3>2, <3>3, <4>1, <4>2 DEF Contract!AnswerMany, Verdicts
    <3>4. CASE ~((\A i \in Items : IsOk(Outcomes[i])) /\ result = "Call")
      <4>1. answer' = Ok(Outcomes)
        BY <2>1, <2>3, <3>4 DEF GetOutcomes
      <4>2. /\ answer'.is = "Ok" /\ DOMAIN answer'.value = Items
            /\ \A i \in Items : answer'.value[i] = Outcome(item[i])
        BY <4>1 DEF Ok, Outcomes
      <4>3. ASSUME NEW i \in Items PROVE Contract!IsSlot(i, Outcome(item[i]))
        <5>1. /\ Verdicts[i] = item[i].completion /\ item[i].completion \in RawCodes
              /\ Finish(item[i]) = Ok(Contract!Expected(requests[i])) \/ LocalError(Finish(item[i]))
          BY <1>1, <3>1, SlotsAreAsPromised
        <5>2. CASE item[i].completion = NoError
          <6>1. Outcome(item[i]) = Finish(item[i])
            BY <5>2 DEF Outcome, FromRaw
          <6>2. Verdicts[i] = Contract!NoError /\ Verdicts[i] \notin Codes
            BY <5>1, <5>2 DEF NoError, Contract!NoError
          <6> HIDE DEF Verdicts
          <6>3. QED
            BY <5>1, <6>1, <6>2 DEF Contract!IsSlot, Contract!LocalError, LocalError,
               Contract!Ok, Ok, Verdicts
        <5>3. CASE item[i].completion \in Codes
          <6>1. Outcome(item[i]) = Failed(item[i].completion) /\ Verdicts[i] \in Codes
            BY <5>1, <5>3 DEF Outcome, FromRaw, RawCodes
          <6>2. Verdicts[i] # Contract!NoError /\ Verdicts[i] # None
            BY <6>1 DEF Contract!NoError, NoError, RawCodes
          <6> HIDE DEF Verdicts
          <6>3. QED
            BY <5>1, <6>1, <6>2 DEF Contract!IsSlot, Contract!Failed, Failed, Verdicts
        <5>4. QED
          BY <5>1, <5>2, <5>3 DEF RawCodes
      <4>4. result = "Call" => \E i \in Items : ~IsOk(Outcome(item[i]))
        BY <3>4 DEF Outcomes
      <4> HIDE DEF Verdicts
      <4>5. QED
        BY <3>2, <4>2, <4>3, <4>4 DEF Contract!AnswerMany, Contract!IsOk, IsOk, Verdicts
    <3>5. QED
      BY <3>3, <3>4
  <2>4. QED
    BY <2>2, <2>3
<1>4. ASSUME api = "one" PROVE Contract!AnswerOne
  <2> DEFINE i == Alone
  <2>1. Contract!Alone = i
    BY DEF Alone, Contract!Alone
  <2>2. i \in Items /\ answer' = GetOne(item[i])
    BY <1>1, <1>4, AloneIsAnItem DEF Folded
  <2> HIDE DEF i
  <2>3. /\ Verdicts[i] = item[i].completion /\ item[i].completion \in RawCodes \cup {None}
        /\ Finish(item[i]) = Ok(Contract!Expected(requests[i])) \/ LocalError(Finish(item[i]))
        /\ item[i].completion = None => LocalError(Finish(item[i]))
    BY <1>1, <2>2, SlotsAreAsPromised
  <2>4. CASE item[i].completion \in Codes
    <3>1. answer' = Failed(item[i].completion) /\ Verdicts[i] \in Codes
      BY <2>2, <2>3, <2>4 DEF GetOne, Resolve, FromRaw, RawCodes, IsOk, Failed
    <3>2. Verdicts[i] # Contract!NoError /\ Verdicts[i] # None
      BY <3>1 DEF Contract!NoError, NoError, RawCodes
    <3>3. Contract!IsSlot(i, answer')
      <4> HIDE DEF Verdicts
      <4>1. QED
        BY <2>3, <3>1, <3>2 DEF Contract!IsSlot, Contract!Failed, Failed, Verdicts
    <3>4. QED
      BY <2>1, <3>1, <3>3 DEF Contract!AnswerOne
  <2>5. CASE item[i].completion \notin Codes
    <3>1. item[i].completion \in {None, NoError} /\ Verdicts[i] \notin Codes
      BY <2>3, <2>5 DEF RawCodes
    <3>2. CASE result = "Call"
      <4>1. answer' = CallError
        BY <2>2, <3>1, <3>2 DEF GetOne, Resolve, FromRaw, IsOk, CallError
      <4> HIDE DEF Verdicts
      <4>2. QED
        BY <2>1, <3>1, <3>2, <4>1 DEF Contract!AnswerOne, Contract!CallError, CallError, Verdicts
    <3>3. CASE result # "Call"
      <4>1. answer' = Finish(item[i])
        BY <2>2, <3>1, <3>3 DEF GetOne, Resolve, FromRaw, IsOk, Ok
      <4>2. Contract!IsSlot(i, answer')
        <5>1. Verdicts[i] = Contract!NoError \/ Verdicts[i] = None
          BY <2>3, <3>1 DEF NoError, Contract!NoError
        <5>2. Verdicts[i] = None => LocalError(Finish(item[i]))
          BY <2>3
        <5> HIDE DEF Verdicts
        <5>3. QED
          BY <2>3, <3>1, <4>1, <5>1, <5>2 DEF Contract!IsSlot, Contract!LocalError, LocalError,
             Contract!Ok, Ok, Verdicts
      <4> HIDE DEF Verdicts
      <4>3. QED
        BY <2>1, <3>3, <4>2 DEF Contract!AnswerOne
    <3>4. QED
      BY <3>2, <3>3
  <2>6. QED
    BY <2>4, <2>5
<1>5. QED
  BY <1>1, <1>2, <1>3, <1>4 DEF Contract!Answer, IInv, TypeOK

(* A step that leaves the caller's side and every completion as they are.  *)
LEMMA StutterOfContract ==
  ASSUME UNCHANGED <<api, requests, result, answer>>,
         \A i \in Items : ~IsEmpty(requests[i]) => item'[i].completion = item[i].completion
  PROVE  UNCHANGED Contract!contractVars
<1>1. Verdicts' = Verdicts
  BY DEF Verdicts, IsEmpty
<1>2. QED
  BY <1>1 DEF Contract!contractVars, Verdicts

(* What an event that is routed leaves of the others' completions.         *)
LEMMA RoutedCompletions ==
  ASSUME IInv, NEW i \in Items, NEW stray, NEW recorded, Route(i, stray, recorded), NEW j \in Items
  PROVE  item'[j] = item[j] \/ (j = i /\ item'[j] = recorded /\ item' = [item EXCEPT ![i] = recorded])
BY DEF Route, IInv, TypeOK

LEMMA StepIsAsPromised ==
  ASSUME IInv, CallGoesOnce, [Next]_vars, "repeat" \notin Faults
  PROVE  [Contract!Next]_(Contract!contractVars)
<1>1. CASE Build
  <2>1. /\ phase = "building" /\ result = None /\ UNCHANGED <<api, requests, answer>>
        /\ \A i \in Items : item'[i] = NewItem(requests[i])
        /\ IF InCall = {} THEN result' = "Ok" ELSE result' = result
    BY <1>1 DEF Build, CallGoesOnce
  <2>2. ASSUME NEW i \in Items, ~IsEmpty(requests[i])
        PROVE  item'[i].completion = item[i].completion
    <3>1. item'[i] = Ranged(requests[i].start, requests[i].length) /\ item[i] = Ranged(0, None)
      BY <2>1, <2>2 DEF NewItem, IInv, ItemIsTheRequests
    <3>2. QED
      BY <3>1 DEF Ranged, Fresh
  <2>3. CASE InCall # {}
    BY <2>1, <2>2, <2>3, StutterOfContract
  <2>4. CASE InCall = {}
    <3>1. \A i \in Items : Verdicts[i] = NoError
      BY <2>4 DEF InCall, Verdicts
    <3>2. Verdicts' = Verdicts
      BY <2>1, <2>2 DEF Verdicts, IsEmpty
    <3>3. Contract!Return("Ok")
      <4>1. \A i \in Items : Verdicts[i] \notin Codes
        BY <3>1
      <4>2. QED
        BY <2>1, <2>4, <3>2, <4>1 DEF Contract!Return, Verdicts
    <3>4. "Ok" \in Contract!CallResults
      BY DEF Contract!CallResults
    <3>5. QED
      BY <3>3, <3>4 DEF Contract!Next
  <2>5. QED
    BY <2>3, <2>4
<1>2. ASSUME NEW i \in Items, NEW stray \in BOOLEAN,
             LoreHeader(i, stray) \/ \E from, to \in U64 : LoreData(i, stray, from, to)
      PROVE  UNCHANGED Contract!contractVars
  <2>1. UNCHANGED <<api, requests, result, answer>>
    BY <1>2 DEF LoreHeader, LoreData
  <2>2. PICK recorded : Route(i, stray, recorded) /\ recorded.completion = item[i].completion
    <3>1. IsReassembly(item[i])
      BY DEF IInv, TypeOK
    <3>2. \A size : RecordHeader(item[i], size).completion = item[i].completion
      BY <3>1 DEF RecordHeader, IsReassembly
    <3>3. \A a, from, n : RecordData(item[i], a, from, n).completion = item[i].completion
      BY <3>1 DEF RecordData, IsReassembly
    <3>4. QED
      BY <1>2, <3>2, <3>3 DEF LoreHeader, LoreData
  <2>3. \A j \in Items : item'[j].completion = item[j].completion
    BY <2>2, RoutedCompletions
  <2>4. QED
    BY <2>1, <2>3, StutterOfContract
<1>3. ASSUME NEW i \in Items, NEW stray \in BOOLEAN, NEW code \in RawCodes,
             LoreComplete(i, stray, code)
      PROVE  [Contract!Next]_(Contract!contractVars)
  <2> DEFINE recorded == RecordComplete(item[i], code)
  <2>1. /\ UNCHANGED <<api, requests, result, answer>> /\ result = None /\ ~IsEmpty(requests[i])
        /\ served[i].code = None /\ Route(i, stray, recorded)
    BY <1>3 DEF LoreComplete, Serving, CallGoesOnce, InCall
  <2>2. recorded.completion = code
    BY DEF RecordComplete, IInv, TypeOK, IsReassembly
  <2> HIDE DEF recorded
  <2>3. CASE \A j \in Items : item'[j] = item[j]
    BY <2>1, <2>3, StutterOfContract
  <2>4. CASE item' = [item EXCEPT ![i] = recorded]
    <3>1. item = [j \in Items |-> item[j]]
      BY DEF IInv, TypeOK
    <3>2. Verdicts[i] = None
      BY <2>1 DEF Verdicts, CallGoesOnce
    <3>3. Verdicts' = [Verdicts EXCEPT ![i] = code]
      BY <2>1, <2>2, <2>4, <3>1 DEF Verdicts, IsEmpty
    <3>4. Contract!Report(i, code)
      BY <2>1, <3>2, <3>3 DEF Contract!Report, Verdicts
    <3>5. code \in Contract!RawCodes
      BY DEF Contract!RawCodes, Contract!NoError, RawCodes, NoError
    <3>6. QED
      BY <3>4, <3>5 DEF Contract!Next
  <2>5. QED
    BY <2>1, <2>3, <2>4, RoutedCompletions
<1>4. ASSUME NEW status \in CallResults, LoreReturn(status) PROVE Contract!Next
  <2>1. /\ result = None /\ result' = status /\ UNCHANGED <<api, requests, item, answer>>
        /\ status = "Ok" => \A i \in InCall : served[i].code = NoError
    BY <1>4 DEF LoreReturn, CallGoesOnce
  <2>2. ASSUME status = "Ok", NEW i \in Items PROVE Verdicts[i] \notin Codes
    <3>1. CASE IsEmpty(requests[i])
      BY <3>1 DEF Verdicts
    <3>2. CASE ~IsEmpty(requests[i])
      <4>1. item[i].completion \in {None, NoError} /\ Verdicts[i] = item[i].completion
        BY <2>1, <2>2, <3>2 DEF CallGoesOnce, InCall, Verdicts
      <4>2. QED
        BY <4>1 DEF RawCodes
    <3>3. QED
      BY <3>1, <3>2
  <2>3. Verdicts' = Verdicts
    BY <2>1 DEF Verdicts, IsEmpty
  <2>4. Contract!Return(status)
    BY <2>1, <2>2, <2>3 DEF Contract!Return, Verdicts
  <2>5. status \in Contract!CallResults
    BY DEF Contract!CallResults, CallResults
  <2>6. QED
    BY <2>4, <2>5 DEF Contract!Next
<1>5. CASE Fold
  BY <1>5, FoldAnswers DEF Contract!Next
<1>6. CASE UNCHANGED vars
  BY <1>6, StutterOfContract DEF vars
<1>7. QED
  BY <1>1, <1>2, <1>3, <1>4, <1>5, <1>6, EveryStep

(***************************************************************************)
(* The read implements its contract, for every batch and range and however *)
(* Lore delivers, fails and loses, as long as it repeats no part of a      *)
(* range: no buffer, fragment or id is left in what the caller can see.    *)
(***************************************************************************)
THEOREM ImplementsContract ==
  ASSUME "repeat" \notin Faults
  PROVE  Spec => ReadsAsPromised
<1>1. Init => Contract!Init
  <2> SUFFICES ASSUME Init PROVE Contract!Init
    OBVIOUS
  <2>1. Verdicts = [i \in Items |-> IF requests[i].length = 0 THEN Contract!NoError ELSE None]
    BY DEF Init, Verdicts, IsEmpty, NoError, Contract!NoError, Ranged, Fresh
  <2>2. api = "one" => \A i \in Items \ {Contract!Alone} : requests[i].length = 0
    BY DEF Init, IsAlone, IsEmpty, Alone, Contract!Alone
  <2>3. QED
    BY <2>1, <2>2 DEF Init, Contract!Init, Verdicts
<1>2. IInv /\ CallGoesOnce /\ [Next]_vars => [Contract!Next]_(Contract!contractVars)
  BY StepIsAsPromised
<1>3. QED
  BY <1>1, <1>2, CallSteps, Invariance, PTL DEF Spec, ReadsAsPromised, Contract!Spec
=============================================================================
