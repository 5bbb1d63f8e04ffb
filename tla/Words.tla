-------------------------------- MODULE Words --------------------------------
(* Integers of 32 bits, as C and Java have them: values from -2^31 to 2^31 - 1, *)
(* put together from halves of 16 bits so that no intermediate value is wider.  *)
EXTENDS Integers, Bitwise

Half == 65536

MaxWord == 2147483647
MinWord == -2147483647 - 1

Hi(w) == (w \div Half) % Half
Lo(w) == w % Half

Word(h, l) == (IF h >= Half \div 2 THEN h - Half ELSE h) * Half + l

Plus(a, b) == LET low == Lo(a) + Lo(b)
              IN  Word((Hi(a) + Hi(b) + low \div Half) % Half, low % Half)

Complement(a) == -1 - a

(* Bitwise operations, four bits at a time. *)
Nibble(h, k) == (h \div 16^k) % 16

ByNibbles(table, x, y) ==
  LET part(k) == table[Nibble(x, k)][Nibble(y, k)] * 16^k
  IN  part(0) + part(1) + part(2) + part(3)

AndTable == [x \in 0..15 |-> [y \in 0..15 |-> x & y]]
OrTable  == [x \in 0..15 |-> [y \in 0..15 |-> x | y]]

BitAnd(a, b) == Word(ByNibbles(AndTable, Hi(a), Hi(b)), ByNibbles(AndTable, Lo(a), Lo(b)))

BitOr(a, b) == Word(ByNibbles(OrTable, Hi(a), Hi(b)), ByNibbles(OrTable, Lo(a), Lo(b)))

(* Shifts by a variable: the processor, like Java, looks at five bits of it. *)
Shl(a, n) ==
  LET k == n % 32
      j == k % 16
      low == Lo(a) * 2^j
  IN  IF k >= 16 THEN Word(low % Half, 0)
      ELSE Word((Hi(a) * 2^j + low \div Half) % Half, low % Half)

Sar(a, n) == LET k == n % 32
             IN  IF k < 31 THEN a \div 2^k ELSE IF a < 0 THEN -1 ELSE 0

(* Byte k of a word, byte 0 the lowest, and a byte as a signed number. *)
Byte(w, k) == (w \div 256^k) % 256

Signed(b) == IF b >= 128 THEN b - 256 ELSE b
=============================================================================
