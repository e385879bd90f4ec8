-------------------------------- MODULE VarInt --------------------------------
(* The sizes of portable storage: VarIn and ReadVarInt of                        *)
(* levin/portable_storage.go.  The two low bits of the first byte say how many   *)
(* bytes follow; the rest is the number, low byte first.                         *)
EXTENDS Integers, Sequences

PortableRawSizeMarkByte  == 0
PortableRawSizeMarkWord  == 1
PortableRawSizeMarkDword == 2

\* VarIn fails above this.
MaxVarInt == 1073741823

\* Bug: 64 is written as one byte.
VarIn_OneByteMore(i) ==
    IF i <= 64 THEN <<((4 * i) % 256) + PortableRawSizeMarkByte>>
    ELSE <<4 * (i % 64) + PortableRawSizeMarkWord, i \div 64>>

VarIn(i) ==
    IF i <= 63 THEN <<4 * i + PortableRawSizeMarkByte>>
    ELSE IF i <= 16383 THEN <<4 * (i % 64) + PortableRawSizeMarkWord, i \div 64>>
    ELSE <<4 * (i % 64) + PortableRawSizeMarkDword, (i \div 64) % 256, (i \div 16384) % 256,
           i \div 4194304>>

\* How many bytes a size has whose first byte is given; eight are not supported.
VarIntSize(first) ==
    IF first % 4 = PortableRawSizeMarkByte THEN 1
    ELSE IF first % 4 = PortableRawSizeMarkWord THEN 2
    ELSE IF first % 4 = PortableRawSizeMarkDword THEN 4 ELSE 8

\* The number in the bytes of a size.
VarIntValue(b) ==
    IF Len(b) = 1 THEN b[1] \div 4
    ELSE IF Len(b) = 2 THEN b[1] \div 4 + 64 * b[2]
    ELSE b[1] \div 4 + 64 * b[2] + 16384 * b[3] + 4194304 * b[4]
=============================================================================
