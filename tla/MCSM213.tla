------------------------------- MODULE MCSM213 -------------------------------
EXTENDS SM213

Halts == [k \in 1..MemSize |-> 240]  \* f0 everywhere

(* Every first instruction with operands at the boundaries of what it does with *)
(* them, followed by one that uses what it left.                                *)
Firsts == {16 * c + r : c \in 0..15, r \in {0, 3, 7, 8}}
            \cup (96..111)
Seconds == {1, 18, 52, 101, 127, 128, 255}
Exts == {<<0, 0, 0, 8>>, <<127, 255, 255, 255>>, <<128, 0, 0, 1>>}
Afters == {<<97, 3>>, <<48, 2>>, <<113, 225>>}

First(b, c, e) == <<b, c>> \o IF Long(b) THEN e ELSE <<>>

SmallImages ==
  {<<[addr |-> 2, bytes |-> First(b, c, e) \o a],
     [addr |-> 2 + Len(First(b, c, e) \o a),
      bytes |-> SubSeq(Halts, 1, MemSize - 2 - Len(First(b, c, e) \o a))]>> :
     b \in Firsts, c \in Seconds, e \in Exts, a \in Afters}

Boundaries ==
  {<<0, 1, 4, 8, 12, MaxWord, 27, MinWord>>, <<-1, 28, 20, -4, 0, 24, 26, MaxWord - 2>>}

NoStart == {-1}

SmallRegisters == {[r \in 0..7 |-> s[r + 1]] : s \in Boundaries}
=============================================================================
