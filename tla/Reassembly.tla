----------------------------- MODULE Reassembly -----------------------------
(***************************************************************************)
(* store.rs's Reassembly: one read's events put back together into its     *)
(* buffer.  Lore reports a header with the size of the whole content, the  *)
(* content in fragments that come in no promised order, and a completion   *)
(* with the item's address and code; `finish` decides from what was        *)
(* counted on the way whether the buffer may be handed out.                *)
(*                                                                         *)
(* Offsets are u64, so every sum saturates or is checked at MaxU64.  The   *)
(* byte at position p of a content is the pair of the content's address    *)
(* and p; Zero is the 0 the buffer is allocated with, which is told apart  *)
(* from every delivered byte, a delivered 0 included.                      *)
(***************************************************************************)
EXTENDS LoreOutcome, Integers

CONSTANTS
  MaxU64,   \* u64::MAX
  Zero      \* a buffer's byte no fragment was copied over

ASSUME ReassemblyAssumption == MaxU64 \in Nat

U64 == 0..MaxU64
Least(a, b) == IF a <= b THEN a ELSE b
Most(a, b) == IF a >= b THEN a ELSE b
SatAdd(a, b) == Least(a + b, MaxU64)
SatSub(a, b) == Most(a - b, 0)

-----------------------------------------------------------------------------
(* Ranges.  A RangeBounds<u64> is two bounds; span turns it into where it  *)
(* starts and how long it is, None for one that runs to the content's end. *)

Bounds == [kind : {"Included", "Excluded", "Unbounded"}, at : U64]

SpanStart(from) ==
  CASE from.kind = "Included"  -> from.at
    [] from.kind = "Excluded"  -> SatAdd(from.at, 1)
    [] from.kind = "Unbounded" -> 0

(* Variant: an included end is taken for an excluded one.                  *)
SpanLengthExclusive(from, to) ==
  IF to.kind = "Unbounded" THEN None ELSE SatSub(to.at, SpanStart(from))

SpanLength(from, to) ==
  CASE to.kind = "Included"  -> SatSub(SatAdd(to.at, 1), SpanStart(from))
    [] to.kind = "Excluded"  -> SatSub(to.at, SpanStart(from))
    [] to.kind = "Unbounded" -> None

-----------------------------------------------------------------------------
(* The record.  `size` is the buffer's length, None before the header      *)
(* allocates it; `bytes` is the buffer.                                    *)

Lengths == U64 \cup {None}

(* vec![0u8; size].                                                        *)
Blank(size) == [p \in 0..(size - 1) |-> Zero]

Fresh(start, length, size, completion) ==
  [start |-> start, length |-> length, size |-> size, bytes |-> Blank(0),
   covered |-> 0, end |-> 0, overflow |-> None, completion |-> completion]

Ranged(start, length) == Fresh(start, length, None, None)

(* Reassembly::empty: an empty range, answered without asking Lore.        *)
Empty == Fresh(0, None, 0, NoError)

(* The range clamped to the content, as the header's arm computes it.      *)
RangeEnd(start, length, sizeContent) ==
  IF length = None THEN sizeContent ELSE Least(SatAdd(start, length), sizeContent)

(* Variant: the subtraction does not saturate.                             *)
RecordHeaderUnsaturated(r, sizeContent) ==
  LET size == RangeEnd(r.start, r.length, sizeContent) - r.start
  IN  [r EXCEPT !.size = size, !.bytes = Blank(size)]

RecordHeader(r, sizeContent) ==
  LET size == SatSub(RangeEnd(r.start, r.length, sizeContent), r.start)
  IN  [r EXCEPT !.size = size, !.bytes = Blank(size)]

(***************************************************************************)
(* A fragment of `length` bytes at `offset` of the whole content, the      *)
(* content of `address`.  It is refused, and the item marked as overflowed *)
(* with it, before the header, before the range and past the buffer's end. *)
(***************************************************************************)
(* Variant: a fragment before the range is let through.                    *)
FitsAnyStart(r, offset, length) ==
  /\ r.size # None
  /\ offset - r.start + length <= r.size

Fits(r, offset, length) ==
  /\ r.size # None
  /\ offset >= r.start
  /\ offset - r.start + length <= r.size

(* Variant: the fragment is copied to its offset within the content.       *)
RecordDataUnshifted(r, address, offset, length) ==
  IF Fits(r, offset, length)
  THEN [r EXCEPT
         !.bytes = [p \in 0..(r.size - 1) |->
                     IF offset <= p /\ p < offset + length THEN <<address, p>> ELSE r.bytes[p]],
         !.covered = @ + length,
         !.end = Most(@, offset + length - r.start)]
  ELSE [r EXCEPT !.overflow = SatAdd(offset, length)]

RecordData(r, address, offset, length) ==
  LET from == offset - r.start
      to   == from + length
  IN  IF Fits(r, offset, length)
      THEN [r EXCEPT
             !.bytes = [p \in 0..(r.size - 1) |->
                         IF from <= p /\ p < to THEN <<address, r.start + p>> ELSE r.bytes[p]],
             !.covered = @ + length,
             !.end = Most(@, to)]
      ELSE [r EXCEPT !.overflow = SatAdd(
              \* the offset is shadowed by the one within the range
              IF r.size # None /\ offset >= r.start THEN from ELSE offset, length)]

RecordComplete(r, code) == [r EXCEPT !.completion = code]

(* Variant: only how far the fragments reached is checked.                 *)
FinishByEnd(r) ==
  IF r.size = None THEN MissingEvent("storage_get_header")
  ELSE IF r.overflow # None THEN SizeMismatch(r.size, r.overflow)
  ELSE IF r.end # r.size THEN SizeMismatch(r.size, Least(r.covered, r.end))
  ELSE IF r.completion = None THEN MissingEvent("storage_get_item_complete")
  ELSE Ok(r.bytes)

(* What `finish` answers, by the checks in the order it makes them.        *)
Finish(r) ==
  IF r.size = None THEN MissingEvent("storage_get_header")
  ELSE IF r.overflow # None THEN SizeMismatch(r.size, r.overflow)
  ELSE IF r.covered # r.size \/ r.end # r.size
       THEN SizeMismatch(r.size, Least(r.covered, r.end))
  ELSE IF r.completion = None THEN MissingEvent("storage_get_item_complete")
  ELSE Ok(r.bytes)

-----------------------------------------------------------------------------
(* Whether position p lies between two bounds, as Rust means them.         *)
InRange(p, from, to) ==
  /\ CASE from.kind = "Included"  -> p >= from.at
       [] from.kind = "Excluded"  -> p > from.at
       [] from.kind = "Unbounded" -> TRUE
  /\ CASE to.kind = "Included"  -> p <= to.at
       [] to.kind = "Excluded"  -> p < to.at
       [] to.kind = "Unbounded" -> TRUE

(* What the buffer of a read is for, of a content of `size` bytes: exactly *)
(* its positions between the bounds, none of them if it is answered empty. *)
SpanSelects(from, to, size) ==
  \A p \in 0..(size - 1) :
    LET start  == SpanStart(from)
        length == SpanLength(from, to)
    IN  /\ InRange(p, from, to) <=> start <= p /\ p < RangeEnd(start, length, size)
        /\ InRange(p, from, to) => length # 0
=============================================================================
