-------------------------------- MODULE MadBit --------------------------------
(***************************************************************************)
(* mp3/mad/bit.c: bit pointers.  A bit pointer is a byte and the number of *)
(* its bits that are still to be read.  What the bits say is left out: the *)
(* cache of the struct is the byte pointed to whenever it is looked at.    *)
(***************************************************************************)
EXTENDS Integers

CHAR_BIT == 8

Bitptr == [byte : Nat, left : 0 .. CHAR_BIT]

mad_bit_init(byte) == [byte |-> byte, left |-> CHAR_BIT]

(* The number of bits between begin and end. *)
mad_bit_length(begin, end) ==
    begin.left + CHAR_BIT * (end.byte - (begin.byte + 1)) + (CHAR_BIT - end.left)

(* Mutant: nothing is borrowed from the byte. *)
mad_bit_skip_NoBorrow(bp, len) ==
    [byte |-> bp.byte + len \div CHAR_BIT,
     left |-> (bp.left - (len % CHAR_BIT)) % (CHAR_BIT + 1)]

(* left is unsigned: it has gone below zero when it is above CHAR_BIT.     *)
mad_bit_skip(bp, len) ==
    LET left == bp.left - (len % CHAR_BIT)
    IN  IF left < 0
        THEN [byte |-> bp.byte + len \div CHAR_BIT + 1, left |-> left + CHAR_BIT]
        ELSE [byte |-> bp.byte + len \div CHAR_BIT, left |-> left]

(* Where the pointer is after len bits were read. *)
mad_bit_read(bp, len) ==
    IF len < bp.left THEN [byte |-> bp.byte, left |-> bp.left - len]
    ELSE LET rest == len - bp.left
         IN  [byte |-> bp.byte + 1 + rest \div CHAR_BIT,
              left |-> CHAR_BIT - (rest % CHAR_BIT)]

(* The bits before the pointer, which the code never computes. *)
BitPos(bp) == CHAR_BIT * bp.byte + (CHAR_BIT - bp.left)
=============================================================================
