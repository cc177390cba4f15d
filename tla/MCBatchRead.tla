---------------------------- MODULE MCBatchRead ----------------------------
(* Small instances of BatchRead: a content of three bytes and one of two,  *)
(* read whole, from an offset, past their end, from past it, and empty.    *)
EXTENDS BatchRead

CONSTANTS A, B

MCAddresses == {A, B}
MCSize == [a \in MCAddresses |-> IF a = A THEN 3 ELSE 2]

Read(a, from, length) == [address |-> a, start |-> from, length |-> length]

(* Every range of both contents that a u64 of MaxU64 can name, alone: the  *)
(* other position of the batch asks for nothing.                           *)
AnyRequest == [address : MCAddresses, start : U64, length : Lengths]
Nothing == Read(A, 1, 0)
AloneBatches == {[i \in Items |-> IF i = Alone THEN request ELSE Nothing] : request \in AnyRequest}

(* Two items: a whole content beside one byte of another, and that byte    *)
(* beside a range that reaches past the end.                               *)
PairBatches ==
  { [i \in Items |-> IF i = Alone THEN Read(B, 0, None) ELSE Read(A, 1, 1)],
    [i \in Items |-> IF i = Alone THEN Read(A, 1, 1) ELSE Read(B, 1, MaxU64)] }

AllBatches == AloneBatches \cup PairBatches

(* As many fragments as there are bytes of a content read alone.           *)
MCMaxFragments == [i \in Items |-> IF i = Alone THEN 3 ELSE 1]
=============================================================================
