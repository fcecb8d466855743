----------------------------- MODULE Interpreter -----------------------------
(***************************************************************************)
(* One frame of the virtual machine (core/vm): the loop of interpreter.go  *)
(* over the instructions of jump_table.go, with the stack, the memory, the *)
(* jump analysis and the pool of integers that instructions share.         *)
(*                                                                         *)
(* Stack entries are pointers to integers: an instruction computes in      *)
(* place, and what it gives to the pool is overwritten by a later one.     *)
(* Widths are scaled down: a byte has ByteBits bits, a word WordBytes      *)
(* bytes, a uint64 is below Uint.  What the state or the environment       *)
(* answers is any word of Env; calls are atomic (module EVM has them).     *)
(***************************************************************************)
EXTENDS Integers, Sequences, SequencesExt, FiniteSetsExt, Bitwise, TLC

CONSTANTS
  ByteBits, WordBytes,  \* 8, 32
  Uint,                 \* 2^64
  MaxMem,               \* highest memory size that can be paid (0xffffffffe0)
  QuadCoeffDiv, MemoryGas,
  StackLimit, poolLimit,
  Chunk, Padding,       \* codeBitmap: bits of a byte (8), bytes to spare (4)
  Env,                  \* words the environment answers with
  Few,                  \* operands of other than arithmetic instructions
  Code, Stack,          \* longer programs, and stacks they are started with
  ByteVal(_)            \* the value of a code byte when it is data

\* The frame: code, program counter, stack, integers, pool, size of the memory
\* and its cost so far, size of the return data, what the frame is at; as
\* history, the words that are on the stack, gas paid for memory, and the last
\* instruction with its operands.
VARIABLE m

W == 2 ^ (ByteBits * WordBytes)
Word == 0..W - 1
Sign == W \div 2
Byte == 2 ^ ByteBits
Id == 1..StackLimit + poolLimit + 10

----------------------------------------------------------------------------
(* jump_table.go: how many entries an instruction takes and leaves.        *)

Arithmetic ==
  [o \in {"ADD", "MUL", "SUB", "DIV", "SDIV", "MOD", "SMOD", "EXP", "SIGNEXTEND",
          "LT", "GT", "SLT", "SGT", "EQ", "AND", "OR", "XOR", "BYTE"} |-> <<2, 1>>] @@
  [o \in {"ADDMOD", "MULMOD"} |-> <<3, 1>>] @@ [o \in {"ISZERO", "NOT"} |-> <<1, 1>>]

Environment ==
  [o \in {"ADDRESS", "ORIGIN", "CALLER", "CALLVALUE", "CALLDATASIZE", "CODESIZE",
          "GASPRICE", "COINBASE", "TIMESTAMP", "NUMBER", "DIFFICULTY", "GASLIMIT"}
     |-> <<0, 1>>] @@
  [o \in {"BALANCE", "CALLDATALOAD", "EXTCODESIZE", "BLOCKHASH"} |-> <<1, 1>>] @@
  [o \in {"CALLDATACOPY", "CODECOPY"} |-> <<3, 0>>] @@
  ("SHA3" :> <<2, 1>>) @@ ("EXTCODECOPY" :> <<4, 0>>)

Storage ==
  [o \in {"PC", "MSIZE", "GAS"} |-> <<0, 1>>] @@ [o \in {"MLOAD", "SLOAD"} |-> <<1, 1>>] @@
  [o \in {"MSTORE", "MSTORE8", "SSTORE", "JUMPI"} |-> <<2, 0>>] @@
  [o \in {"POP", "JUMP"} |-> <<1, 0>>] @@ [o \in {"STOP", "JUMPDEST"} |-> <<0, 0>>]

System ==
  [o \in {"CALL", "CALLCODE"} |-> <<7, 1>>] @@
  [o \in {"DELEGATECALL", "STATICCALL"} |-> <<6, 1>>] @@
  [o \in {"RETURN", "REVERT"} |-> <<2, 0>>] @@
  ("CREATE" :> <<3, 1>>) @@ ("SELFDESTRUCT" :> <<1, 0>>) @@
  ("RETURNDATASIZE" :> <<0, 1>>) @@ ("RETURNDATACOPY" :> <<3, 0>>)

Plain == Arithmetic @@ Environment @@ Storage @@ System
valid(op) == op[1] \in DOMAIN Plain \cup {"PUSH", "DUP", "SWAP", "LOG"}

DupSwap(op) == IF op[1] = "DUP" THEN <<op[2], op[2] + 1>> ELSE <<op[2] + 1, op[2] + 1>>
Declared(op) ==
  CASE op[1] = "PUSH"            -> <<0, 1>>
    [] op[1] \in {"DUP", "SWAP"} -> DupSwap(op)
    [] op[1] = "LOG"             -> <<op[2] + 2, 0>>
    [] OTHER                     -> Plain[op[1]]

jumps(op)   == op[1] \in {"JUMP", "JUMPI"}
halts(op)   == op[1] \in {"STOP", "RETURN", "SELFDESTRUCT"}
returns(op) == op[1] \in {"CREATE", "CALL", "CALLCODE", "DELEGATECALL", "STATICCALL", "REVERT"}

----------------------------------------------------------------------------
(* Arithmetic of instructions.go and common/math/big.go.                   *)

U256(x) == x % W
S256(x) == IF x < Sign THEN x ELSE x - W
Flag(b) == IF b THEN 1 ELSE 0

Abs(x) == IF x < 0 THEN -x ELSE x

\* Big-integer division truncates the absolute values; the sign is put back.
opSdiv(x, y) ==
  IF y = 0 THEN 0 ELSE U256((IF x * y < 0 THEN -1 ELSE 1) * (Abs(x) \div Abs(y)))
opSmod(x, y) ==
  IF y = 0 THEN 0 ELSE U256((IF x < 0 THEN -1 ELSE 1) * (Abs(x) % Abs(y)))

\* Exponentiation by squaring, from the lowest bit of the exponent on.
Exp(base, exponent) ==
  LET run[i \in 0..ByteBits * WordBytes] ==
        IF i = 0 THEN <<1, base>>
        ELSE LET r == run[i - 1][1]
                 b == run[i - 1][2]
             IN  <<IF (exponent \div 2 ^ (i - 1)) % 2 = 1 THEN U256(r * b) ELSE r,
                   U256(b * b)>>
  IN  run[ByteBits * WordBytes][1]

opSignExtend(back, num) ==
  IF back >= WordBytes - 1 THEN num
  ELSE LET bit == back * ByteBits + ByteBits - 1
           mask == 2 ^ bit - 1
       IN  IF (num \div 2 ^ bit) % 2 = 1 THEN num | U256(-mask - 1) ELSE num & mask

opByte(th, val) ==
  IF th < WordBytes THEN (val \div Byte ^ (WordBytes - 1 - th)) % Byte ELSE 0

Binary(o, x, y) ==
  CASE o = "ADD" -> U256(x + y)
    [] o = "SUB" -> U256(x - y)
    [] o = "MUL" -> U256(x * y)
    [] o = "DIV" -> IF y = 0 THEN 0 ELSE x \div y
    [] o = "MOD" -> IF y = 0 THEN 0 ELSE x % y
    [] o = "SDIV" -> opSdiv(S256(x), S256(y))
    [] o = "SMOD" -> opSmod(S256(x), S256(y))
    [] o = "EXP" -> Exp(x, y)
    [] o = "SIGNEXTEND" -> opSignExtend(x, y)
    [] o = "BYTE" -> opByte(x, y)
    [] o = "AND" -> x & y
    [] o = "OR" -> x | y
    [] o = "XOR" -> x ^^ y
Comparison(o, x, y) ==
  CASE o = "LT" -> x < y
    [] o = "GT" -> x > y
    [] o = "SLT" -> S256(x) < S256(y)
    [] o = "SGT" -> S256(x) > S256(y)
    [] o = "EQ" -> x = y
Modular(o, x, y, z) ==
  IF z = 0 THEN 0 ELSE (IF o = "ADDMOD" THEN x + y ELSE x * y) % z

----------------------------------------------------------------------------
(* instructions.go: entries an instruction pops, words it may push.        *)

takes(op) ==
  CASE op[1] \in {"NOT", "ISZERO", "BALANCE", "CALLDATALOAD", "EXTCODESIZE", "BLOCKHASH",
                  "POP", "MLOAD", "SLOAD", "JUMP", "SELFDESTRUCT"} -> 1
    [] op[1] \in {"ADDMOD", "MULMOD", "CALLDATACOPY", "RETURNDATACOPY", "CODECOPY",
                  "CREATE"} -> 3
    [] op[1] = "EXTCODECOPY" -> 4
    [] op[1] \in {"DELEGATECALL", "STATICCALL"} -> 6
    [] op[1] \in {"CALL", "CALLCODE"} -> 7
    [] op[1] = "LOG" -> op[2] + 2
    [] op[1] \in DOMAIN Arithmetic \cup {"SHA3", "MSTORE", "MSTORE8", "SSTORE", "JUMPI",
                                        "RETURN", "REVERT"} -> 2
    [] OTHER -> 0

\* makePush: the bytes after the instruction, zeros beyond the end of the code.
makePush(code, pc, n) ==
  LET byte(i) == IF pc + 1 + i < Len(code) THEN ByteVal(code[pc + 2 + i]) ELSE 0
  IN  MapThenSumSet(LAMBDA i : byte(i) * Byte ^ (n - 1 - i), 0..n - 1)

results(op, v) ==
  LET o == op[1]
  IN  CASE o \in {"ISZERO"} -> {Flag(v[1] = 0)}
        [] o = "NOT" -> {U256(-v[1] - 1)}
        [] o \in {"LT", "GT", "SLT", "SGT", "EQ"} -> {Flag(Comparison(o, v[1], v[2]))}
        [] o \in {"ADDMOD", "MULMOD"} -> {Modular(o, v[1], v[2], v[3])}
        [] o \in DOMAIN Arithmetic -> {Binary(o, v[1], v[2])}
        [] o = "PUSH" -> {makePush(m.code, m.pc, op[2])}
        [] o = "PC" -> {m.pc}
        [] o = "MSIZE" -> {m.mem}
        [] o = "RETURNDATASIZE" -> {m.ret}
        [] o \in {"CALL", "CALLCODE", "DELEGATECALL", "STATICCALL"} -> {0, 1}
        [] OTHER -> Env

----------------------------------------------------------------------------
(* Which integer carries the result, and which ones go to the pool.  a are *)
(* the integers popped, v their words, g the one that intPool.get returns, *)
(* new integers that are allocated.                                        *)

E(res, got, put) == [res |-> res, got |-> got, put |-> put]

\* S256 leaves a negative number's integer alone and returns a new one.
own(a, v, new, i) == IF v[i] < Sign THEN a[i] ELSE new[i]

signed(o, a, v, g, new) ==
  LET x == own(a, v, new, 1)
      y == own(a, v, new, 2)
  IN  CASE o = "SDIV" -> IF v[2] = 0 THEN E(new[3], FALSE, <<>>) ELSE E(x, TRUE, <<y>>)
        [] o = "SMOD" -> E(IF v[2] = 0 THEN new[3] ELSE x, FALSE, <<y>>)
        [] OTHER -> LET c == Comparison(o, v[1], v[2])
                    IN  E(IF c THEN g ELSE new[3], c, <<x, y>>)

\* Computed in the first operand.
inPlace(a) == E(a[1], FALSE, <<a[2]>>)

arithmetic(o, a, v, g, new) ==
  CASE o \in {"ADD", "SUB", "MUL", "AND", "OR", "XOR"} -> inPlace(a)
    [] o \in {"DIV", "MOD"} -> E(IF v[2] = 0 THEN new[1] ELSE a[1], FALSE, <<a[2]>>)
    [] o \in {"ADDMOD", "MULMOD"} ->
         E(IF v[3] = 0 THEN new[1] ELSE a[1], FALSE, <<a[2], a[3]>>)
    [] o = "EXP" -> E(new[1], FALSE, a)
    [] o \in {"SIGNEXTEND", "BYTE"} -> E(a[2], FALSE, <<a[1]>>)
    [] o = "NOT" -> E(a[1], FALSE, <<>>)
    [] o = "ISZERO" -> E(IF v[1] = 0 THEN g ELSE new[1], v[1] = 0, a)
    [] o \in {"LT", "GT", "EQ"} ->
         LET c == Comparison(o, v[1], v[2]) IN E(IF c THEN g ELSE new[1], c, a)
    [] OTHER -> signed(o, a, v, g, new)

environment(o, a, g, new) ==
  CASE o = "SHA3" -> E(new[1], FALSE, a)
    [] o = "EXTCODESIZE" -> E(a[1], FALSE, <<>>)
    [] o = "BLOCKHASH" -> E(new[1], TRUE, <<a[1], g>>)
    [] o \in {"CALLVALUE", "CALLDATASIZE", "CODESIZE", "GASPRICE"} -> E(g, TRUE, <<>>)
    [] o \in {"CALLDATACOPY", "CODECOPY"} -> E(0, FALSE, a)
    [] o = "EXTCODECOPY" -> E(0, FALSE, Tail(a))
    [] OTHER -> E(new[1], FALSE, <<>>)

storage(o, a, g, new) ==
  CASE o \in {"POP", "MSTORE", "JUMP", "JUMPI"} -> E(0, FALSE, a)
    [] o = "SSTORE" -> E(0, FALSE, Tail(a))
    [] o = "MLOAD" -> E(new[1], FALSE, a)
    [] o = "SLOAD" -> E(new[1], FALSE, <<>>)
    [] o \in {"PC", "MSIZE", "GAS"} -> E(g, TRUE, <<>>)
    [] OTHER -> E(0, FALSE, <<>>)

system(o, a, g, new) ==
  CASE o \in {"CALL", "CALLCODE", "DELEGATECALL", "STATICCALL"} -> E(new[1], FALSE, Tail(a))
    [] o = "CREATE" -> E(new[1], FALSE, a)
    [] o \in {"RETURN", "REVERT", "RETURNDATACOPY"} -> E(0, FALSE, a)
    [] o = "RETURNDATASIZE" -> E(g, TRUE, <<>>)
    [] OTHER -> E(0, FALSE, <<>>)

effect(o, a, v, g, new) ==
  CASE o \in DOMAIN Arithmetic  -> arithmetic(o, a, v, g, new)
    [] o \in DOMAIN Environment -> environment(o, a, g, new)
    [] o \in DOMAIN Storage     -> storage(o, a, g, new)
    [] o \in DOMAIN System      -> system(o, a, g, new)
    [] o \in {"PUSH", "DUP"}    -> E(g, TRUE, <<>>)
    [] o = "LOG"                -> E(0, FALSE, SubSeq(a, 1, 2))

\* intPool.put: nothing once the pool is over its limit.
put(pool, is) == IF Len(pool) > poolLimit THEN pool ELSE pool \o is

----------------------------------------------------------------------------
(* Memory: what an instruction asks for (memory_table.go), what it touches *)
(* (instructions.go), and what it pays (gas_table.go).                     *)

calcMemSize(off, l) == IF l = 0 THEN 0 ELSE off + l

memoryCalls(v, i) ==
  Max({calcMemSize(v[i + 1], v[i + 2]), calcMemSize(v[i + 3], v[i + 4])})

memorySize(o, v) ==
  CASE o \in {"SHA3", "RETURN", "REVERT", "LOG"} -> calcMemSize(v[1], v[2])
    [] o \in {"CALLDATACOPY", "RETURNDATACOPY", "CODECOPY"} -> calcMemSize(v[1], v[3])
    [] o = "EXTCODECOPY" -> calcMemSize(v[2], v[4])
    [] o \in {"MLOAD", "MSTORE"} -> calcMemSize(v[1], WordBytes)
    [] o = "MSTORE8" -> calcMemSize(v[1], 1)
    [] o = "CREATE" -> calcMemSize(v[2], v[3])
    [] o \in {"CALL", "CALLCODE"} -> memoryCalls(v, 3)
    [] o \in {"DELEGATECALL", "STATICCALL"} -> memoryCalls(v, 2)
    [] OTHER -> 0

touches(o, v) ==
  CASE o \in {"SHA3", "RETURN", "REVERT", "LOG"} -> {<<v[1], v[2]>>}
    [] o \in {"CALLDATACOPY", "RETURNDATACOPY", "CODECOPY"} -> {<<v[1], v[3]>>}
    [] o = "EXTCODECOPY" -> {<<v[2], v[4]>>}
    [] o \in {"MLOAD", "MSTORE"} -> {<<v[1], WordBytes>>}
    [] o = "MSTORE8" -> {<<v[1], 1>>}
    [] o = "CREATE" -> {<<v[2], v[3]>>}
    [] o \in {"CALL", "CALLCODE"} -> {<<v[4], v[5]>>, <<v[6], v[7]>>}
    [] o \in {"DELEGATECALL", "STATICCALL"} -> {<<v[3], v[4]>>, <<v[5], v[6]>>}
    [] OTHER -> {}

toWordSize(size) ==
  IF size > Uint - WordBytes THEN (Uint - 1) \div WordBytes + 1
  ELSE (size + WordBytes - 1) \div WordBytes

totalFee(words) == words * MemoryGas + (words * words) \div QuadCoeffDiv

\* The memory after an instruction that asks for size bytes, and what it costs:
\* none if the size does not fit.
resize(size) ==
  LET bytes == toWordSize(size) * WordBytes
  IN  IF size >= Uint \/ bytes >= Uint \/ bytes > MaxMem THEN {}
      ELSE IF bytes <= m.mem THEN {[mem |-> m.mem, last |-> m.lastGasCost, fee |-> 0]}
      ELSE LET total == totalFee(bytes \div WordBytes)
           IN  {[mem |-> bytes, last |-> total, fee |-> total - m.lastGasCost]}

----------------------------------------------------------------------------
(* analysis.go                                                             *)

\* codeBitmap: the bits that are set, chunk by chunk, and the highest byte of
\* the bit vector that is written to.
mark(b, pc, n) ==
  LET chunks == n \div Chunk
      whole == {(pc + Chunk * i) \div Chunk + 1 : i \in 0..chunks - 1}
      single == {(pc + i) \div Chunk : i \in chunks * Chunk..n - 1}
  IN  [bits |-> b.bits \cup (pc..pc + n - 1), top |-> Max({b.top} \cup whole \cup single)]

codeBitmap(code) ==
  LET run[pc \in 0..Len(code) + WordBytes] ==  \* from pc on
        IF pc >= Len(code) THEN [bits |-> {}, top |-> 0]
        ELSE LET op == code[pc + 1]
             IN  IF op[1] = "PUSH" THEN mark(run[pc + 1 + op[2]], pc + 1, op[2])
                 ELSE run[pc + 1]
  IN  run[0]

has(code, dest) ==
  /\ dest < Uint \div 2 /\ dest < Len(code)
  /\ code[dest + 1][1] = "JUMPDEST" /\ dest \notin codeBitmap(code).bits

----------------------------------------------------------------------------
(* Interpreter.Run                                                         *)

GetOp(code, n) == IF n < Len(code) THEN code[n + 1] ELSE <<"STOP", 0>>
Op == GetOp(m.code, m.pc)

validateStack(op) ==
  /\ Len(m.stack) >= Declared(op)[1]
  /\ Len(m.stack) + Declared(op)[2] - Declared(op)[1] <= StackLimit

\* Any instruction may fail, for want of gas if for nothing else.
Fail == m.at = "run" /\ m' = [m EXCEPT !.at = "failed"]

\* The program counter after the instruction; none if a jump is refused.
nextPc(op, v) ==
  CASE op[1] = "PUSH" -> {m.pc + op[2] + 1}
    [] op[1] = "JUMPI" /\ v[2] = 0 -> {m.pc + 1}
    [] jumps(op) -> IF has(m.code, v[1]) THEN {v[1]} ELSE {}
    [] OTHER -> {m.pc + 1}

\* opReturnDataCopy refuses to read beyond the return data.
copyFits(op, v) == op[1] = "RETURNDATACOPY" => v[2] + v[3] <= m.ret

ends(op) ==
  CASE op[1] = "REVERT" -> "reverted" [] halts(op) -> "halted" [] OTHER -> "run"

\* SWAPn and DUPn reach below what they take.
Swap(s, n) == [s EXCEPT ![Len(s)] = s[Len(s) - n], ![Len(s) - n] = s[Len(s)]]
deep(op) == CASE op[1] = "DUP" -> op[2] [] op[1] = "SWAP" -> op[2] + 1 [] OTHER -> takes(op)

\* execute: pops, computes, pushes; what is pushed is written into the integer
\* that carries it.
Instruction(n, v, r, pc) ==
  LET a    == [i \in 1..takes(Op) |-> m.stack[n - i + 1]]
      free == Id \ (ToSet(m.stack) \cup ToSet(m.pool))
      new  == [i \in 1..3 |-> Min({x \in free : Cardinality({y \in free : y < x}) = i - 1})]
      g    == IF m.pool = <<>> THEN new[3] ELSE m.pool[Len(m.pool)]
      e    == effect(Op[1], a, v, g, new)
      left == IF e.got /\ m.pool # <<>> THEN Front(m.pool) ELSE m.pool
      keep == n - takes(Op)
  IN  \E val \in IF Op[1] = "DUP" THEN {v[Op[2]]} ELSE results(Op, v) :
      \E ret \in IF returns(Op) THEN {0, 1} ELSE {m.ret} :
        m' = [m EXCEPT
          !.pc = pc, !.mem = r.mem, !.lastGasCost = r.last, !.paid = @ + r.fee,
          !.ret = ret, !.at = ends(Op), !.did = [op |-> Op, v |-> v],
          !.pool = put(left, e.put),
          !.heap = IF e.res = 0 THEN @ ELSE [@ EXCEPT ![e.res] = val],
          !.stack = IF e.res = 0 THEN SubSeq(@, 1, keep) ELSE Append(SubSeq(@, 1, keep), e.res),
          !.words = IF e.res = 0 THEN SubSeq(@, 1, keep) ELSE Append(SubSeq(@, 1, keep), val)]

\* makeSwap
SwapEntries(n, v, r, pc) ==
  m' = [m EXCEPT !.pc = pc, !.did = [op |-> Op, v |-> v],
                 !.stack = Swap(@, Op[2]), !.words = Swap(@, Op[2])]

Execute ==
  /\ m.at = "run" /\ valid(Op) /\ validateStack(Op)
  /\ LET n == Len(m.stack)
         need == Declared(Op)[1]
         v == [i \in 1..need |-> m.heap[m.stack[n - i + 1]]]  \* Back(i - 1)
     IN  /\ copyFits(Op, v)
         /\ \E r \in resize(memorySize(Op[1], v)), pc \in nextPc(Op, v) :
              IF n < deep(Op) \/ \E t \in touches(Op[1], v) : t[2] > 0 /\ t[1] + t[2] > r.mem
              THEN m' = [m EXCEPT !.at = "panic"]
              ELSE IF Op[1] = "SWAP" THEN SwapEntries(n, v, r, pc)
              ELSE Instruction(n, v, r, pc)

\* An instruction alone, with all operands, or a longer program.  The pool is
\* empty at first.
Programs ==
  {<<<<<<o, 0>>>>, s>> : o \in DOMAIN Plain, s \in {<<>>}} \cup (Code \X Stack)
Operands(op) ==
  [1..Declared(op)[1] -> IF op[1] \in DOMAIN Arithmetic THEN Word ELSE Few]

Init ==
  \E p \in Programs : \E s \in IF Len(p[1]) = 1 THEN Operands(p[1][1]) ELSE {p[2]} :
    m = [code |-> p[1], pc |-> 0, stack |-> [i \in 1..Len(s) |-> i],
         heap |-> [i \in Id |-> IF i <= Len(s) THEN s[i] ELSE 0], pool |-> <<>>,
         mem |-> 0, lastGasCost |-> 0, ret |-> 0, at |-> "run",
         words |-> s, paid |-> 0, did |-> [op |-> <<"STOP", 0>>, v |-> <<>>]]

Next == Execute \/ Fail
Spec == Init /\ [][Next]_m

----------------------------------------------------------------------------
\* What a program sees is a stack of words: no instruction computes in an
\* integer that another entry of the stack stands for, or gives one to the pool
\* that is still on the stack.
StackOfWords == m.words = [i \in 1..Len(m.stack) |-> m.heap[m.stack[i]]]

\* With what the jump table declares of an instruction, no instruction reaches
\* below the stack or beyond the memory, and the stack keeps to its limit.
NoPanic == m.at # "panic" /\ Len(m.stack) <= StackLimit

\* Memory is paid for once: in all, what a memory of this size costs.
MemoryPaid == m.paid = totalFee(m.mem \div WordBytes)

\* Where instructions begin, read from the front.
Begins(code) ==
  LET at[pc \in 0..Len(code)] ==
        \/ pc = 0
        \/ \E q \in 0..pc - 1 :
             at[q] /\ pc = q + 1 + (IF code[q + 1][1] = "PUSH" THEN code[q + 1][2] ELSE 0)
  IN  {pc \in 0..Len(code) : at[pc]}

\* Data of a PUSH is never executed, a jump ends at a JUMPDEST, and the bit
\* vector of the analysis is long enough for a PUSH at the end of the code.
ControlRight ==
  /\ m.at = "run" => m.pc \in Begins(m.code) \/ m.pc >= Len(m.code)
  /\ m.at = "run" /\ jumps(m.did.op) /\ (m.did.op[1] = "JUMP" \/ m.did.v[2] # 0) =>
       GetOp(m.code, m.pc)[1] = "JUMPDEST"
  /\ codeBitmap(m.code).top <= Len(m.code) \div Chunk + Padding

\* The signed and modular instructions compute what the integers they stand
\* for say: quotients are truncated, remainders have the sign of the dividend,
\* and sums and products are not cut before they are reduced.
power[b \in Word, e \in Nat] == IF e = 0 THEN 1 ELSE U256(power[b, e - 1] * b)
ArithmeticRight ==
  LET o == m.did.op[1]
      v == m.did.v
      r == m.words[Len(m.words)]
      x == S256(v[1])
      y == S256(v[2])
      s == S256(r)
      part == Byte ^ (v[1] + 1)
  IN  CASE o = "SDIV" /\ y # 0 /\ ~(x = -Sign /\ y = -1) ->
             \E q \in -Sign..Sign : x = s * y + q /\ Abs(q) < Abs(y) /\ q * x >= 0
        [] o = "SMOD" /\ y # 0 ->
             Abs(s) < Abs(y) /\ s * x >= 0 /\ \E q \in -Sign..Sign : x - s = q * y
        [] o = "EXP" -> r = power[v[1], v[2]]
        [] o = "SIGNEXTEND" /\ v[1] < WordBytes ->
             LET low == v[2] % part
             IN  r = U256(IF low < part \div 2 THEN low ELSE low - part)
        [] o \in {"ADDMOD", "MULMOD"} /\ v[3] # 0 ->
             r < v[3] /\ \E k \in 0..W * W :
                          k * v[3] + r = IF o = "ADDMOD" THEN v[1] + v[2] ELSE v[1] * v[2]
        [] OTHER -> TRUE
=============================================================================
