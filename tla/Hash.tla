-------------------------------- MODULE Hash --------------------------------
(***************************************************************************)
(* crc32Hex: the CRC-32 that client and server compute over a command.     *)
(* A word of 32 bits is the set of the positions of its ones, 0 the        *)
(* lowest; a text is a sequence of bytes.                                  *)
(***************************************************************************)
EXTENDS Integers, Sequences, SequencesExt

Xor(a, b) == (a \ b) \cup (b \ a)
Shr(a, k) == {i - k : i \in {j \in a : j >= k}}
Word(n)   == {i \in 0 .. 7 : (n \div 2^i) % 2 = 1}

\* a & 0xFF, as a number.
LowByte(a) == FoldLeft(LAMBDA sum, i : sum + (IF i - 1 \in a THEN 2^(i - 1) ELSE 0), 0, <<1, 2, 3, 4, 5, 6, 7, 8>>)

AllOnes == 0 .. 31

\* 0xEDB88320, reflected.
Polynomial == {5, 8, 9, 15, 19, 20, 21, 23, 24, 26, 27, 29, 30, 31}

\* One round of the inner loop that builds the table.
Round(c) == IF 0 \in c THEN Xor(Polynomial, Shr(c, 1)) ELSE Shr(c, 1)

table == [n \in 0 .. 255 |-> FoldLeft(LAMBDA c, k : Round(c), Word(n), <<0, 1, 2, 3, 4, 5, 6, 7>>)]

\* The loop over the bytes.
Register(data) ==
    FoldLeft(LAMBDA crc, b : Xor(table[LowByte(Xor(crc, Word(b)))], Shr(crc, 8)), AllOnes, data)

\* "%08x": eight digits, the highest first.
crc32Hex(data) ==
    LET crc == Xor(Register(data), AllOnes)
    IN  [d \in 1 .. 8 |-> LowByte(Shr(crc, 4 * (8 - d))) % 16]

-----------------------------------------------------------------------------
(* The reference: the message is fed to the register bit by bit, without a *)
(* table.  Used by the checks only.                                        *)

BitsOf(data) == [n \in 1 .. 8 * Len(data) |-> (n - 1) % 8 \in Word(data[(n - 1) \div 8 + 1])]

BitwiseRegister(data) ==
    FoldLeft(LAMBDA crc, bit : IF (0 \in crc) # bit THEN Xor(Polynomial, Shr(crc, 1)) ELSE Shr(crc, 1),
             AllOnes, BitsOf(data))
=============================================================================
