--------------------------- MODULE StatusListProofs ---------------------------
(***************************************************************************)
(* What the operations of the bit list do, for every width of a byte and   *)
(* every length of the list.                                               *)
(***************************************************************************)
EXTENDS StatusList, SequenceTheorems, TLAPS

(* A fresh list has the size asked for.                                    *)
LEMMA NewBytesType ==
  ASSUME NEW size \in Nat
  PROVE  /\ NewBytes(size) \in Seq(Byte)
         /\ Len(NewBytes(size)) = size
         /\ BitLen(NewBytes(size)) = size * ByteWidth
         /\ BitLen(NewBytes(size)) \in Nat
<1>1. {} \in Byte
  BY DEF Byte
<1>2. NewBytes(size) \in Seq(Byte) /\ Len(NewBytes(size)) = size
  BY <1>1 DEF NewBytes
<1> QED
  BY <1>2, ByteWidthAssumption DEF BitLen

(* Revoking an entry inside the bounds keeps the length of the list.       *)
LEMMA RevokeAtIndexType ==
  ASSUME NEW bytes \in Seq(Byte), NEW i \in Int, InBounds(bytes, i)
  PROVE  /\ RevokeAtIndex(bytes, i) \in Seq(Byte)
         /\ Len(RevokeAtIndex(bytes, i)) = Len(bytes)
         /\ BitLen(RevokeAtIndex(bytes, i)) = BitLen(bytes)
<1> DEFINE k == Quo(i) + 1
           b == bytes[k] \cup BitMask(i)
<1>1. k \in 1 .. Len(bytes)
  BY DEF InBounds
<1>2. bytes[k] \in Byte
  BY <1>1, ElementOfSeq
<1>3. b \in Byte
  BY <1>2 DEF Byte, BitMask
<1>4. RevokeAtIndex(bytes, i) = [bytes EXCEPT ![k] = b]
  BY DEF RevokeAtIndex
<1> HIDE DEF k, b
<1>5. /\ [bytes EXCEPT ![k] = b] \in Seq(Byte)
      /\ Len([bytes EXCEPT ![k] = b]) = Len(bytes)
  BY <1>1, <1>3, ExceptSeq
<1> QED
  BY <1>4, <1>5 DEF BitLen

(* Two entries of a list are the same bit of the same byte only if they    *)
(* are the same entry.                                                     *)
LEMMA EntryIsByteAndBit ==
  ASSUME NEW i \in Nat, NEW j \in Nat, i \div ByteWidth = j \div ByteWidth,
         i % ByteWidth = j % ByteWidth
  PROVE  i = j
  BY ByteWidthAssumption

LEMMA EntryInBounds ==
  ASSUME NEW bytes \in Seq(Byte), NEW i \in 0 .. BitLen(bytes) - 1
  PROVE  /\ InBounds(bytes, i)
         /\ Quo(i) = i \div ByteWidth /\ Rem(i) = i % ByteWidth
         /\ Quo(i) \in Nat /\ Rem(i) \in 0 .. ByteWidth - 1
         /\ BitMask(i) = {ByteWidth - 1 - Rem(i)}
<1>1. i \in Nat /\ Len(bytes) \in Nat /\ ByteWidth \in Nat \ {0}
  BY ByteWidthAssumption DEF BitLen
<1>2. i < Len(bytes) * ByteWidth
  BY <1>1 DEF BitLen
<1>3. Quo(i) = i \div ByteWidth /\ Rem(i) = i % ByteWidth
  BY <1>1 DEF Quo, Rem
<1>4. Quo(i) \in Nat /\ Rem(i) \in 0 .. ByteWidth - 1
  BY <1>1, <1>3
<1>5. i \div ByteWidth < Len(bytes)
  BY <1>1, <1>2
<1> QED
  BY <1>1, <1>3, <1>4, <1>5 DEF InBounds, BitMask

(* RevokeAtIndex sets the bit of its entry and of no other, and clears     *)
(* none: packing the entries into bytes is invisible to its callers.       *)
THEOREM RevokeSetsOneEntry ==
  ASSUME NEW bytes \in Seq(Byte),
         NEW i \in 0 .. BitLen(bytes) - 1, NEW j \in 0 .. BitLen(bytes) - 1
  PROVE  CheckBitAtIndex(RevokeAtIndex(bytes, i), j)
           <=> CheckBitAtIndex(bytes, j) \/ j = i
<1> DEFINE after == RevokeAtIndex(bytes, i)
<1>1. /\ Quo(i) = i \div ByteWidth /\ Rem(i) = i % ByteWidth
      /\ Quo(j) = j \div ByteWidth /\ Rem(j) = j % ByteWidth
      /\ Quo(i) \in Nat /\ Quo(j) \in Nat
      /\ Rem(i) \in 0 .. ByteWidth - 1 /\ Rem(j) \in 0 .. ByteWidth - 1
      /\ Quo(i) + 1 \in 1 .. Len(bytes) /\ Quo(j) + 1 \in 1 .. Len(bytes)
      /\ BitMask(i) = {ByteWidth - 1 - Rem(i)}
      /\ BitMask(j) = {ByteWidth - 1 - Rem(j)}
  BY EntryInBounds DEF InBounds
<1>2. i \in Nat /\ j \in Nat /\ ByteWidth \in Nat \ {0}
  BY ByteWidthAssumption DEF BitLen
<1>3. CASE Quo(i) # Quo(j)
  <2>1. after[Quo(j) + 1] = bytes[Quo(j) + 1]
    BY <1>1, <1>3 DEF RevokeAtIndex
  <2> QED
    BY <2>1, <1>3 DEF CheckBitAtIndex
<1>4. CASE Quo(i) = Quo(j)
  <2>1. after[Quo(j) + 1] = bytes[Quo(j) + 1] \cup BitMask(i)
    BY <1>1, <1>4 DEF RevokeAtIndex
  <2>2. BitMask(i) \cap BitMask(j) # {} <=> Rem(i) = Rem(j)
    <3>1. BitMask(i) \cap BitMask(j) # {}
            <=> ByteWidth - 1 - Rem(i) = ByteWidth - 1 - Rem(j)
      BY <1>1, Zenon
    <3>2. Rem(i) \in Int /\ Rem(j) \in Int /\ ByteWidth \in Int
      BY <1>1, <1>2
    <3> QED
      BY <3>1, <3>2
  <2>3. Rem(i) = Rem(j) <=> i = j
    BY <1>1, <1>2, <1>4, EntryIsByteAndBit
  <2> QED
    BY <2>1, <2>2, <2>3 DEF CheckBitAtIndex
<1> QED
  BY <1>3, <1>4

(* An index between -7 and -1 (for bytes of 8 bits) passes the bounds      *)
(* check of Go, because the division truncates, and sets no bit, because   *)
(* the mask is shifted out of the byte: the revocation has no effect.      *)
THEOREM NegativeRevokeIsLost ==
  ASSUME NEW bytes \in Seq(Byte), bytes # <<>>,
         NEW i \in Int, -ByteWidth < i, i < 0
  PROVE  InBounds(bytes, i) /\ RevokeAtIndex(bytes, i) = bytes
<1>1. ByteWidth \in Nat \ {0} /\ Len(bytes) \in Nat \ {0}
  BY ByteWidthAssumption, EmptySeq
<1>2. (-i) \div ByteWidth = 0 /\ (-i) % ByteWidth = -i
  BY <1>1
<1>3. Quo(i) = 0 /\ Rem(i) = i
  BY <1>2 DEF Quo, Rem
<1>4. BitMask(i) = {}
  BY <1>1, <1>3 DEF BitMask
<1>5. RevokeAtIndex(bytes, i) = [bytes EXCEPT ![1] = @]
  BY <1>3, <1>4 DEF RevokeAtIndex
<1>6. [bytes EXCEPT ![1] = bytes[1]] = bytes
  OBVIOUS
<1> QED
  BY <1>1, <1>3, <1>5, <1>6 DEF InBounds

(* AllocateNextFreeIndex on a list built from a row gives the row's        *)
(* counter when the capacity is the number of bits of the list.            *)
LEMMA NextFreeIndexIsCounter ==
  ASSUME NEW bytes \in Seq(Byte), NEW next \in Nat
  PROVE  NextFreeIndex([bytes |-> bytes, free |-> BitLen(bytes) - next]) = next
  BY ByteWidthAssumption DEF NextFreeIndex, BitLen

===============================================================================
