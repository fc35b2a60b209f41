------------------------------ MODULE StatusList ------------------------------
(***************************************************************************)
(* The bit list of internal/entity/list.go: the value that a row of table  *)
(* status_lists stores in its column bitstring, and the operations the     *)
(* database layer applies to it in memory.                                 *)
(*                                                                         *)
(* A byte is the set of the numbers of its bits that are 1, bit 0 being    *)
(* the least significant; a list of bytes is a sequence, so byte k of the  *)
(* Go slice is element k+1.  The width of a byte is a parameter (8 in the  *)
(* code) so that TLC can fill a list with few allocations.                 *)
(***************************************************************************)
EXTENDS Integers, Sequences

CONSTANT ByteWidth

ASSUME ByteWidthAssumption == ByteWidth \in Nat \ {0}

Byte == SUBSET (0 .. ByteWidth - 1)

(* Go's integer division and remainder truncate towards zero.              *)
Quo(i) == IF i >= 0 THEN i \div ByteWidth ELSE -((-i) \div ByteWidth)
Rem(i) == IF i >= 0 THEN i % ByteWidth ELSE -((-i) % ByteWidth)

(* Entries are packed from the most significant bit down.  A negative      *)
(* remainder shifts the 1 out of the byte: the mask is then empty.         *)
BitMask(i) == {ByteWidth - 1 - Rem(i)} \cap (0 .. ByteWidth - 1)

(* The bit count of a slice of bytes, len(l.List) * 8.                     *)
BitLen(bytes) == Len(bytes) * ByteWidth

(* The slice access l.List[byteIndex] panics outside these indices.        *)
InBounds(bytes, i) == Quo(i) + 1 \in 1 .. Len(bytes)

(* Fault: the mask is assigned to the byte instead of or-ed into it.       *)
RevokeAtIndexAssigned(bytes, i) == [bytes EXCEPT ![Quo(i) + 1] = BitMask(i)]

RevokeAtIndex(bytes, i) ==
  [bytes EXCEPT ![Quo(i) + 1] = @ \cup BitMask(i)]

CheckBitAtIndex(bytes, i) == bytes[Quo(i) + 1] \cap BitMask(i) # {}

(* entity.List without its ListId, which no operation reads.               *)
NewBytes(size) == [k \in 1 .. size |-> {}]
NewList(size) == [bytes |-> NewBytes(size), free |-> size * ByteWidth]

(* AllocateNextFreeIndex: ErrFullyAllocated, or the index.  Free, which it *)
(* decrements, is not read again: the caller stores index + 1.             *)
FullyAllocated(list) == ~(list.free > 0)
NextFreeIndex(list) == BitLen(list.bytes) - list.free

===============================================================================
