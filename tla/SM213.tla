-------------------------------- MODULE SM213 --------------------------------
(* The SM213 processor as the repository implements it three times: `sm`, with *)
(* a switch (Assignment8/q3/sm.c), `jt`, with jump tables (sm-jt.c), and `cpu`, *)
(* the Java classes of Assignments 2, 6 and 7 over Assignment1/MainMemory.java. *)
(* The three run one program in lockstep; a step is a fetch and an execute.    *)
EXTENDS Words, Sequences, FiniteSets, TLC, SequencesExt

CONSTANTS MemSize,      \* bytes of memory (40000 in the C programs)
          Images,       \* the files: sequences of lines [addr, bytes]
          Starts,       \* start addresses given with -p, or -1 for none
          RegisterFiles,\* registers before the first step
          MaxSteps      \* bound on the steps of a run

ASSUME SizeAssumption == MemSize \in Nat \ {0} /\ MaxSteps \in Nat

VARIABLES sm, jt, cpu,  \* machines [reg, mem, pc, status]
          version,      \* the assignment whose CPU.java this is
          apart,        \* the Java machine has executed an instruction that it
                        \* is known to do differently
          steps

vars == <<sm, jt, cpu, version, apart, steps>>

Addresses == 0 .. MemSize - 1
InRange(a, n) == a >= 0 /\ a <= MemSize - n

Set(m, r, v) == [m EXCEPT !.reg[r] = v]
Goto(m, a) == [m EXCEPT !.pc = a]
Stop(m, why) == [m EXCEPT !.status = why]

---------------------------------------------------------------------------
(* The switch. Where C reads or writes outside of an array, the machine is       *)
(* "undefined" and stops: nothing is said of it any more.                        *)

(* mem is an array of unsigned char. *)
MemInt(mem, a) == Word(mem[a] * 256 + mem[a+1], mem[a+2] * 256 + mem[a+3])
MemStore(m, a, v) ==
  [m EXCEPT !.mem = [i \in a .. a + 3 |-> Byte(v, a + 3 - i)] @@ @]

(* insOpCode, insOp0, insOp1, insOp2; insOpImm, a signed char; insOpExt. *)
Decode(first, second, ext) ==
  [code |-> first \div 16, op0 |-> first % 16,
   op1 |-> second \div 16, op2 |-> second % 16, imm |-> Signed(second), ext |-> ext]

Long(first) == first \div 16 \in {0, 11}
Length(m) == IF Long(m.mem[m.pc]) THEN 6 ELSE 2

Fetchable(m) == InRange(m.pc, 2) /\ InRange(m.pc, Length(m))

FetchIns(m) == Decode(m.mem[m.pc], m.mem[m.pc + 1],
                      IF Length(m) = 6 THEN MemInt(m.mem, m.pc + 2) ELSE 0)
Fetch(m) == Goto(m, m.pc + Length(m))

(* The registers instruction `i` names, and the address it uses. *)
Registers(i) ==
  CASE i.code \in {0, 7, 9, 10, 12, 13} -> {i.op0}
    [] i.code = 1 -> {i.op1, i.op2}
    [] i.code \in {2, 4} -> {i.op0, i.op1, i.op2}
    [] i.code = 3 -> {i.op0, i.op2}
    [] i.code = 6 -> IF i.op0 \in 0..2 THEN {i.op1, i.op2}
                     ELSE IF i.op0 \in 3..7 \cup {15} THEN {i.op2} ELSE {}
    [] i.code = 14 -> {i.op0, i.op1}
    [] OTHER -> {}

Named(i) == Registers(i) \subseteq 0..7

(* (unsigned short) imm: a negative char is extended before it is widened. *)
UnsignedShort(imm) == imm % 65536

Addr(i, reg) ==
  CASE i.code = 1 -> Plus(4 * i.op0, reg[i.op1])
    [] i.code \in {2, 14} -> Plus(reg[i.op0], Shl(reg[i.op1], 2))
    [] i.code = 3 -> Plus(4 * i.op1, reg[i.op2])
    [] i.code = 4 -> Plus(reg[i.op1], Shl(reg[i.op2], 2))
    [] i.code = 13 -> Plus(4 * UnsignedShort(i.imm), reg[i.op0])

TouchesMemory(i) == i.code \in {1, 2, 3, 4, 13, 14}

Defined(m, i) == Named(i) /\ (TouchesMemory(i) => InRange(Addr(i, m.reg), 4))

ExecALU(m, i) ==
  LET d == m.reg[i.op2]
  IN  CASE i.op0 = 0 -> Set(m, i.op2, m.reg[i.op1])
        [] i.op0 = 1 -> Set(m, i.op2, Plus(m.reg[i.op1], d))
        [] i.op0 = 2 -> Set(m, i.op2, BitAnd(m.reg[i.op1], d))
        [] i.op0 = 3 -> Set(m, i.op2, Plus(d, 1))
        [] i.op0 = 4 -> Set(m, i.op2, Plus(d, 4))
        [] i.op0 = 5 -> Set(m, i.op2, Plus(d, -1))
        [] i.op0 = 6 -> Set(m, i.op2, Plus(d, -4))
        [] i.op0 = 7 -> Set(m, i.op2, Complement(d))
        [] i.op0 = 15 -> Set(m, i.op2, Plus(m.pc, 2 * i.op1))
        [] OTHER -> m

(* Illegal instructions are reported, and the next one is executed. *)
Exec(m, i) ==
  LET r0 == m.reg[i.op0]
  IN  CASE i.code = 0 -> Set(m, i.op0, i.ext)
        [] i.code \in {1, 2} -> Set(m, i.op2, MemInt(m.mem, Addr(i, m.reg)))
        [] i.code \in {3, 4} -> MemStore(m, Addr(i, m.reg), r0)
        [] i.code = 6 -> ExecALU(m, i)
        [] i.code = 7 -> Set(m, i.op0, IF i.imm > 0 THEN Shl(r0, i.imm) ELSE Sar(r0, -i.imm))
        [] \/ i.code = 8
           \/ i.code = 9 /\ r0 = 0
           \/ i.code = 10 /\ r0 > 0 -> Goto(m, Plus(m.pc, 2 * i.imm))
        [] i.code = 11 -> Goto(m, i.ext)
        [] i.code = 12 -> Goto(m, Plus(2 * UnsignedShort(i.imm), r0))
        [] i.code \in {13, 14} -> Goto(m, MemInt(m.mem, Addr(i, m.reg)))
        [] i.code = 15 /\ i.op0 = 0 -> Stop(m, "halted")
        [] OTHER -> m

(* One iteration of compute. *)
Compute(m) ==
  IF ~Fetchable(m) \/ ~Defined(m, FetchIns(m)) THEN Stop(m, "undefined")
  ELSE Exec(Fetch(m), FetchIns(m))

(* loadFile: the bytes of each line go to its address; without -p execution  *)
(* starts at the first line.                                                 *)
LoadFile(image, start, reg) ==
  [reg |-> reg, status |-> "running",
   mem |-> FoldLeft(LAMBDA mem, line :
                      [k \in line.addr .. line.addr + Len(line.bytes) - 1
                         |-> line.bytes[k - line.addr + 1]] @@ mem,
                    [a \in Addresses |-> 0], image),
   pc |-> IF start < 0 THEN image[1].addr ELSE start]
---------------------------------------------------------------------------
(* The jump tables: the same cases as labels, and two tables of labels.      *)

JumpTable == <<"0", "1", "2", "3", "4", "DEFAULT", "6", "7", "8", "9", "A", "B",
               "C", "D", "E", "F">>

JumpTable6M == <<"6_0", "6_1", "6_2", "6_3", "6_4", "6_5", "6_6", "6_7", "6_F">>
                 \o [k \in 1..7 |-> "DEFAULT_6"]
JumpTable6 == <<"6_0", "6_1", "6_2", "6_3", "6_4", "6_5", "6_6", "6_7">>
                \o [k \in 1..7 |-> "DEFAULT_6"] \o <<"6_F">>

Label(i) == LET l == JumpTable[i.code + 1]
            IN  IF l = "6" THEN JumpTable6[i.op0 + 1] ELSE l

JtFetch(m) == Fetch(m)

(* What is done from label `l` to CONT. *)
From(l, m, i) ==
  LET to == i.op2
      rd == m.reg[to]
      rs == m.reg[i.op1]
      rr == m.reg[i.op0]
      at == Addr(i, m.reg)
  IN  CASE l = "0" -> Set(m, i.op0, i.ext)
        [] l = "1" -> Set(m, to, MemInt(m.mem, at))
        [] l = "2" -> Set(m, to, MemInt(m.mem, at))
        [] l = "3" -> MemStore(m, at, rr)
        [] l = "4" -> MemStore(m, at, rr)
        [] l = "6_0" -> Set(m, to, rs)
        [] l = "6_1" -> Set(m, to, Plus(rs, rd))
        [] l = "6_2" -> Set(m, to, BitAnd(rs, rd))
        [] l = "6_3" -> Set(m, to, Plus(rd, 1))
        [] l = "6_4" -> Set(m, to, Plus(rd, 4))
        [] l = "6_5" -> Set(m, to, Plus(rd, -1))
        [] l = "6_6" -> Set(m, to, Plus(rd, -4))
        [] l = "6_7" -> Set(m, to, Complement(rd))
        [] l = "6_F" -> Set(m, to, Plus(m.pc, 2 * i.op1))
        [] l = "7" -> Set(m, i.op0, IF i.imm > 0 THEN Shl(rr, i.imm) ELSE Sar(rr, -i.imm))
        [] l = "8" -> Goto(m, Plus(m.pc, 2 * i.imm))
        [] l = "9" -> IF rr = 0 THEN Goto(m, Plus(m.pc, 2 * i.imm)) ELSE m
        [] l = "A" -> IF rr > 0 THEN Goto(m, Plus(m.pc, 2 * i.imm)) ELSE m
        [] l = "B" -> Goto(m, i.ext)
        [] l = "C" -> Goto(m, Plus(2 * UnsignedShort(i.imm), rr))
        [] l = "D" -> Goto(m, MemInt(m.mem, at))
        [] l = "E" -> Goto(m, MemInt(m.mem, at))
        [] l = "F" -> IF i.op0 = 0 THEN Stop(m, "halted") ELSE m
        [] OTHER -> m  \* DEFAULT and DEFAULT_6 report and go to CONT

JtCompute(m) ==
  LET i == FetchIns(m)
  IN  IF ~Fetchable(m) \/ ~Defined(m, i) THEN Stop(m, "undefined")
      ELSE From(Label(i), JtFetch(m), i)
---------------------------------------------------------------------------
(* The Java machine. Its memory holds signed bytes; an access it refuses, a  *)
(* register it does not have and an illegal instruction end the run with an  *)
(* exception, "fault", or with one of the runtime's own, "ArrayIndex".       *)

IsAccessAligned(address, length) == address % length = 0

(* 0xff000000 is negative. The masks remove what the sign of a byte adds. *)
BytesToIntegerM(b) ==
  BitOr(BitOr(BitAnd(Shl(b[1], 24), Word(65280, 0)), BitAnd(Shl(b[2], 16), Word(255, 0))),
        BitOr(Shl(b[3], 8), BitAnd(b[4], 255)))
BytesToInteger(b) ==
  BitOr(BitOr(BitAnd(Shl(b[1], 24), Word(65280, 0)), BitAnd(Shl(b[2], 16), Word(255, 0))),
        BitOr(BitAnd(Shl(b[3], 8), 65280), BitAnd(b[4], 255)))

(* A cast to byte keeps the low byte, as a signed number. *)
IntegerToBytes(i) == [k \in 1..4 |-> Signed(Byte(i, 4 - k))]

(* Endianness.java, a program of its own, has the same conversion both ways. *)
BigEndianValue(b) ==
  BitOr(BitOr(BitAnd(Shl(b[1], 24), Word(65280, 0)), BitAnd(Shl(b[2], 16), Word(255, 0))),
        BitOr(BitAnd(Shl(b[3], 8), 65280), BitAnd(b[4], 255)))
LittleEndianValueM(b) ==
  BitOr(BitOr(BitAnd(Shl(b[4], 24), Word(65280, 0)), BitAnd(Shl(b[2], 16), Word(255, 0))),
        BitOr(BitAnd(Shl(b[3], 8), 65280), BitAnd(b[1], 255)))
LittleEndianValue(b) ==
  BitOr(BitOr(BitAnd(Shl(b[4], 24), Word(65280, 0)), BitAnd(Shl(b[3], 16), Word(255, 0))),
        BitOr(BitAnd(Shl(b[2], 8), 65280), BitAnd(b[1], 255)))

(* How `get` and `set` judge an access. The sum may overflow. *)
Check(address, length) ==
  IF Plus(address, length - 1) >= MemSize \/ address < 0 THEN "fault"
  ELSE IF InRange(address, length) THEN "ok" ELSE "ArrayIndex"

Get(m, address, length) == [k \in 1..length |-> m.mem[address + k - 1]]

PutM(m, address, value) ==
  LET written == {a \in Addresses : a \in address .. address + Len(value) - 1}
      n == [m EXCEPT !.mem = [a \in written |-> value[a - address + 1]] @@ @]
  IN  IF Check(address, Len(value)) # "ok" THEN Stop(n, Check(address, Len(value))) ELSE n
Put(m, address, value) ==
  IF Check(address, Len(value)) # "ok" THEN Stop(m, Check(address, Len(value)))
  ELSE [m EXCEPT !.mem = [a \in address .. address + Len(value) - 1
                            |-> value[a - address + 1]] @@ @]

(* AbstractMainMemory: integers are aligned, except where fetch reads one.   *)
ReadInteger(m, address, r) ==
  IF ~IsAccessAligned(address, 4) THEN Stop(m, "fault")
  ELSE IF Check(address, 4) # "ok" THEN Stop(m, Check(address, 4))
  ELSE Set(m, r, BytesToInteger(Get(m, address, 4)))
WriteInteger(m, address, value) ==
  IF ~IsAccessAligned(address, 4) THEN Stop(m, "fault")
  ELSE Put(m, address, IntegerToBytes(value))

(* The machine after fetch, and the instruction. pc is set at the end, so that a *)
(* fetch that fails leaves it alone.                                            *)
CpuFetch(m) ==
  LET first == Check(m.pc, 2)
      ins == [k \in 1..2 |-> Get(m, m.pc, 2)[k] % 256]
      ext == Plus(m.pc, 2)
  IN  IF first # "ok" THEN [cpu |-> Stop(m, first)]
      ELSE IF ~Long(ins[1]) THEN [cpu |-> Goto(m, ext), ins |-> Decode(ins[1], ins[2], 0)]
      ELSE IF Check(ext, 4) # "ok" THEN [cpu |-> Stop(m, Check(ext, 4))]
      ELSE [cpu |-> Goto(m, Plus(ext, 4)),
            ins |-> Decode(ins[1], ins[2], BytesToInteger(Get(m, ext, 4)))]

ExecuteALU(m, i) ==
  LET Result(v) == Set(m, i.op2, v)
      s == m.reg[i.op1]
      d == m.reg[i.op2]
  IN  CASE i.op0 = 0 -> Result(s)
        [] i.op0 = 1 -> Result(Plus(s, d))
        [] i.op0 = 2 -> Result(BitAnd(s, d))
        [] i.op0 = 3 -> Result(Plus(d, 1))
        [] i.op0 = 4 -> Result(Plus(d, 4))
        [] i.op0 = 5 -> Result(Plus(d, -1))
        [] i.op0 = 6 -> Result(Plus(d, -4))
        [] i.op0 = 7 -> Result(Complement(d))
        [] i.op0 = 15 -> Result(Plus(m.pc, 2 * i.op1))
        [] OTHER -> Stop(m, "fault")

(* The execute of Assignment 7; the TODOs at 0xd and 0xe do nothing. *)
Execute(m, i) ==
  LET r0 == m.reg[i.op0]
      r1 == m.reg[i.op1]
      unsigned == i.imm % 256
  IN  IF i.code \notin {13, 14} /\ ~Named(i) THEN Stop(m, "fault")
      ELSE CASE i.code = 0 -> Set(m, i.op0, i.ext)
             [] i.code = 1 -> ReadInteger(m, Plus(4 * i.op0, r1), i.op2)
             [] i.code = 2 -> ReadInteger(m, Plus(r0, Shl(r1, 2)), i.op2)
             [] i.code = 3 -> WriteInteger(m, Plus(4 * i.op1, m.reg[i.op2]), r0)
             [] i.code = 4 -> WriteInteger(m, Plus(r1, Shl(m.reg[i.op2], 2)), r0)
             [] i.code = 6 -> ExecuteALU(m, i)
             [] i.code = 7 -> Set(m, i.op0, IF i.imm > 0 THEN Shl(r0, i.imm)
                                            ELSE Sar(r0, -i.imm))
             [] i.code = 8 -> Goto(m, Plus(m.pc, 2 * i.imm))
             [] i.code = 9 -> IF r0 = 0 THEN Goto(m, Plus(m.pc, 2 * i.imm)) ELSE m
             [] i.code = 10 -> IF r0 > 0 THEN Goto(m, Plus(m.pc, 2 * i.imm)) ELSE m
             [] i.code = 11 -> Goto(m, i.ext)
             [] i.code = 12 -> Goto(m, Plus(2 * unsigned, r0))
             [] i.code \in {13, 14} -> m
             [] i.code = 15 -> IF i.op0 = 0 THEN Stop(m, "halted") ELSE m
             [] OTHER -> Stop(m, "fault")

(* Assignment 6 does not have 0xd and 0xe. *)
Execute6(m, i) == IF i.code \in {13, 14} THEN Stop(m, "fault") ELSE Execute(m, i)

(* Assignment 2 has neither jumps nor branches nor gpc. *)
Execute2(m, i) ==
  IF i.code \in 8..14 \/ (i.code = 6 /\ i.op0 = 15) THEN Stop(m, "fault")
  ELSE Execute(m, i)

Cycle(m) ==
  LET f == CpuFetch(m)
  IN  CASE f.cpu.status # "running" -> f.cpu
        [] version = 2 -> Execute2(f.cpu, f.ins)
        [] version = 6 -> Execute6(f.cpu, f.ins)
        [] version = 7 -> Execute(f.cpu, f.ins)

(* What Java is known to do otherwise than C: the jumps through memory of      *)
(* Assignment 7 do nothing, and the offset of 0xc is an unsigned byte.         *)
DoneApart(i) == i.code \in {13, 14} \/ (i.code = 12 /\ i.imm < 0)
---------------------------------------------------------------------------
Init == \E image \in Images, start \in Starts, reg \in RegisterFiles :
          /\ sm = LoadFile(image, start, reg)
          /\ jt = sm
          /\ cpu = [sm EXCEPT !.mem = [a \in Addresses |-> Signed(@[a])]]
          /\ version \in {2, 6, 7}
          /\ apart = FALSE
          /\ steps = 0

Runs(m) == m.status = "running"

Next == /\ steps < MaxSteps
        /\ Runs(sm) \/ Runs(jt) \/ Runs(cpu)
        /\ sm' = IF Runs(sm) THEN Compute(sm) ELSE sm
        /\ jt' = IF Runs(jt) THEN JtCompute(jt) ELSE jt
        /\ cpu' = IF Runs(cpu) THEN Cycle(cpu) ELSE cpu
        /\ apart' = (apart \/ (Runs(sm) /\ Fetchable(sm) /\ DoneApart(FetchIns(sm))))
        /\ steps' = steps + 1
        /\ UNCHANGED version

Spec == Init /\ [][Next]_vars
---------------------------------------------------------------------------
(* The jump tables take every instruction to the code the switch takes it to: *)
(* the two C programs are in the same state after every instruction, wild ones *)
(* and illegal ones included.                                                  *)
TablesAgree == jt = sm

Excused == cpu.status \notin {"running", "halted"}

(* For as long as the Java machine raises no exception and has met none of the *)
(* instructions it does otherwise, it is where the C machine is: the same       *)
(* registers, memory and pc, and halted if it is. In particular it never goes   *)
(* on where C would be outside its arrays.                                      *)
JavaAgrees ==
  apart \/ Excused \/
    /\ cpu.reg = sm.reg /\ cpu.pc = sm.pc /\ cpu.status = sm.status
    /\ \A a \in Addresses : cpu.mem[a] % 256 = sm.mem[a]

(* An access is refused as a whole: an instruction that ends in an exception has *)
(* written no register and no byte of memory.                                    *)
FaultsChangeNothing ==
  [][cpu'.status \notin {"running", "halted"} => cpu'.reg = cpu.reg /\ cpu'.mem = cpu.mem]_vars

(* The conversions between words and bytes are inverse to one another for bytes  *)
(* and words of any sign, and the two byte orders are one another's reversal.    *)
ConversionsInverse ==
  \A r \in 0..7 :
    LET b == IntegerToBytes(cpu.reg[r])
    IN  /\ BytesToInteger(b) = cpu.reg[r]
        /\ BigEndianValue(b) = cpu.reg[r]
        /\ LittleEndianValue(Reverse(b)) = cpu.reg[r]
=============================================================================
