------------------------- MODULE G2PrecomputedTable -------------------------
(***************************************************************************)
(* The table with which the Rust library multiplies a fixed point of G2 by *)
(* a scalar, a window of `w' bits of the scalar at a time.                 *)
(*                                                                         *)
(* A point is its discrete logarithm to the generator, modulo the order of *)
(* the group.  The width of the windows is a parameter, as the comment of  *)
(* WINDOW_BITS allows 1 to 7.                                              *)
(***************************************************************************)
EXTENDS Integers, Sequences

CONSTANTS
    SubgroupOrder,  \* the order of the group
    SubgroupBits,   \* the bits of the order: 255 in the code
    ScalarBytes     \* the bytes of a scalar: 32 in the code

BITS_IN_BYTE == 8

ASSUME TableAssumption ==
    /\ {SubgroupOrder, SubgroupBits, ScalarBytes} \subseteq Nat \ {0}
    /\ 2 ^ (SubgroupBits - 1) < SubgroupOrder /\ SubgroupOrder < 2 ^ SubgroupBits
    /\ SubgroupBits <= BITS_IN_BYTE * ScalarBytes

Add(p, q) == (p + q) % SubgroupOrder
Double(p) == Add(p, p)

(* div_ceil: the last window may be narrower than the others.              *)
Windows(w) == (SubgroupBits + w - 1) \div w

(* The identity is not in the table.                                       *)
WindowElements(w) == 2 ^ w - 1

(* Entry j is j + 1 times the first one, by doubling where that can be.    *)
TableRow(first, w) ==
    LET row[j \in 0 .. WindowElements(w) - 1] ==
            IF j = 0 THEN first
            ELSE IF j % 2 = 1 THEN Double(row[j \div 2])
                              ELSE Add(row[j - 1], row[0])
    IN  row

(* The next row starts at the double of the middle entry of this one.      *)
New(pt, w) ==
    LET rows[i \in 0 .. Windows(w) - 1] ==
            TableRow(IF i = 0 THEN pt
                              ELSE Double(rows[i - 1][WindowElements(w) \div 2]), w)
    IN  rows

(* Most significant byte first.                                            *)
ScalarToBytes(scalar) ==
    [k \in 1 .. ScalarBytes |-> (scalar \div 256 ^ (ScalarBytes - k)) % 256]

(* Slip (not the code): a window is always cut out of one byte.            *)
GetWindowOfByte(s, offset, w) ==
    (s[Len(s) - (offset \div BITS_IN_BYTE)] \div 2 ^ (offset % BITS_IN_BYTE)) % 2 ^ w

(* A shift to the left drops the bits beyond the byte; the parts that are  *)
(* joined have no bit in common, so that `or' is addition.                 *)
GetWindow(s, offset, w) ==
    LET shift == offset % BITS_IN_BYTE
        byte_offset == Len(s) - 1 - (offset \div BITS_IN_BYTE)
        low == s[byte_offset + 1] \div 2 ^ shift
        single_byte_window == shift <= BITS_IN_BYTE - w \/ byte_offset = 0
        bits == IF single_byte_window THEN low
                ELSE low + ((s[byte_offset] * 2 ^ (BITS_IN_BYTE - shift)) % 256)
    IN  bits % 2 ^ w

(* index.wrapping_sub(1) is no index of the row when the index is zero.    *)
CtSelect(row, index) == IF index - 1 \in DOMAIN row THEN row[index - 1] ELSE 0

Mul(tbl, scalar, w) ==
    LET s == ScalarToBytes(scalar)
        accum[i \in 0 .. Windows(w)] ==
            IF i = 0 THEN 0
            ELSE Add(accum[i - 1], CtSelect(tbl[i - 1], GetWindow(s, w * (i - 1), w)))
    IN  accum[Windows(w)]

MulVartime(tbl, scalar, extra_add, w) ==
    LET s == ScalarToBytes(scalar)
        accum[i \in 0 .. Windows(w)] ==
            IF i = 0 THEN extra_add
            ELSE LET b == GetWindow(s, w * (i - 1), w)
                 IN  IF b > 0 THEN Add(accum[i - 1], tbl[i - 1][b - 1])
                              ELSE accum[i - 1]
    IN  accum[Windows(w)]
=============================================================================
