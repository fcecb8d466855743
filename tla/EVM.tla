-------------------------------- MODULE EVM --------------------------------
(***************************************************************************)
(* The virtual machine (core/vm) under a transaction                       *)
(* (core/state_transition.go): call frames, the gas they pass down and     *)
(* give back, value transfers, read-only calls and contract creation.      *)
(*                                                                         *)
(* A program is any sequence of instructions: each step of the running     *)
(* frame chooses one.  Instructions that only work on the stack and on     *)
(* memory are one, Plain, and a log is like a write to storage; any of the errors that end a frame (no gas, bad  *)
(* opcode, stack, jump or write) is Fail.  A snapshot is the state that it *)
(* brings back: StateDB shows that it does.  The rules are those of        *)
(* Byzantium.  Every constant of gas is scaled down.                       *)
(***************************************************************************)
EXTENDS Integers, Sequences, SequencesExt, FiniteSets, FiniteSetsExt

CONSTANTS
  Addr, Sender, Coinbase, Precompile,
  Target,                \* accounts that are called
  Code0,                 \* accounts with code at first
  Balance0,              \* balances at first
  NewAddr(_, _),         \* address of the contract that an account creates
  GasLimit,              \* of the block
  TxGasLimit, TxGas, Plain0, Calls, CallValueTransferGas, CallStipend,
  CallNewAccountGas, CreateGas, CreateDataGas, SstoreSetGas, SstoreResetGas,
  SstoreRefundGas, SuicideGas, SuicideRefundGas, PrecompileGas,
  Fraction,              \* 64: one part in so many stays with the caller
  W,                     \* bits of a gas counter (64)
  CallCreateDepth, MaxCodeSize,
  MaxTxs, MaxUsed        \* bounds on transactions, and on gas used by earlier ones

VARIABLES
  w,          \* the state
  frames,     \* the frames that run, the innermost last
  readOnly, depth,
  tx,         \* the transaction: gas bought, and the state before it
  pool, used, \* the block's gas pool and the gas used of it
  lost,       \* gas taken from the pool by transactions that were refused
  txs, killed \* transactions begun; some contract has destroyed itself

vars == <<w, frames, readOnly, depth, tx, pool, used, lost, txs, killed>>

None == [none |-> TRUE]

Init ==
  /\ w = [bal |-> Balance0, nonce |-> [a \in Addr |-> IF a \in Code0 THEN 1 ELSE 0],
          code |-> [a \in Addr |-> IF a \in Code0 THEN 1 ELSE 0],
          stor |-> [a \in Addr |-> 0], here |-> {a \in Addr : Balance0[a] > 0 \/ a \in Code0},
          dead |-> {}, refund |-> 0]
  /\ frames = <<>> /\ readOnly = FALSE /\ depth = 0
  /\ tx = None /\ pool = GasLimit /\ used = 0 /\ lost = 0 /\ txs = 0 /\ killed = FALSE

----------------------------------------------------------------------------
(* The state.                                                              *)

empty(s, a) == s.nonce[a] = 0 /\ s.bal[a] = 0 /\ s.code[a] = 0
CanTransfer(s, a, v) == s.bal[a] >= v
Transfer(s, a, b, v) ==
  IF a = b \/ v = 0 THEN s
  ELSE [s EXCEPT !.bal[a] = @ - v, !.bal[b] = @ + v, !.here = @ \cup {b}]

\* An account that is created keeps the balance of the address.
CreateAccount(s, a) ==
  [s EXCEPT !.here = @ \cup {a}, !.nonce[a] = 0, !.code[a] = 0, !.stor[a] = 0, !.dead = @ \ {a}]

Frame(kind, self, gas, snap, sets) ==
  [kind |-> kind, self |-> self, gas |-> gas, snap |-> snap, sets |-> sets]

----------------------------------------------------------------------------
(* The entry points of the EVM.  Each gives the state, the gas to give     *)
(* back, and the frame to run, if there is code to run.                    *)

Back(s, gas) == [w |-> s, gas |-> gas, frame |-> None]

\* run: a precompiled contract, nothing at all, or the interpreter.
run(kind, self, addr, s, snap, gas, sets) ==
  IF addr = Precompile
  THEN IF gas >= PrecompileGas THEN Back(s, gas - PrecompileGas) ELSE Back(snap, 0)
  ELSE IF s.code[addr] = 0 THEN Back(s, gas)
  ELSE [w |-> s, gas |-> 0, frame |-> Frame(kind, self, gas, snap, sets)]

Call(s, caller, addr, gas, value) ==
  IF depth > CallCreateDepth \/ ~CanTransfer(s, caller, value) THEN Back(s, gas)
  ELSE IF addr \notin s.here /\ addr # Precompile /\ value = 0 THEN Back(s, gas)
  ELSE LET u == IF addr \in s.here THEN s ELSE CreateAccount(s, addr)
       IN  run("call", addr, addr, Transfer(u, caller, addr, value), s, gas, FALSE)

CallCode(s, caller, addr, gas, value) ==
  IF depth > CallCreateDepth \/ ~CanTransfer(s, caller, value) THEN Back(s, gas)
  ELSE run("callcode", caller, addr, s, s, gas, FALSE)

DelegateCall(s, caller, addr, gas) ==
  IF depth > CallCreateDepth THEN Back(s, gas)
  ELSE run("delegate", caller, addr, s, s, gas, FALSE)

\* readOnly is set, and lifted at the end, by the outermost of these calls.
StaticCall(s, caller, addr, gas) ==
  IF depth > CallCreateDepth THEN Back(s, gas)
  ELSE run("static", addr, addr, s, s, gas, ~readOnly)

\* The nonce of the creator grows whatever becomes of the creation.
Create(s, caller, gas, value) ==
  IF depth > CallCreateDepth \/ ~CanTransfer(s, caller, value) THEN Back(s, gas)
  ELSE LET n == NewAddr(caller, s.nonce[caller])
           u == [s EXCEPT !.nonce[caller] = @ + 1]
       IN  IF u.nonce[n] # 0 \/ u.code[n] # 0 THEN Back(u, 0)
           ELSE [w |-> Transfer([CreateAccount(u, n) EXCEPT !.nonce[n] = 1], caller, n, value),
                 gas |-> 0, frame |-> Frame("create", n, gas, u, FALSE)]

----------------------------------------------------------------------------
(* Instructions.                                                           *)

\* The frame that runs.
top == frames[Len(frames)]
charged(cost) == [frames EXCEPT ![Len(frames)].gas = @ - cost]
enough(cost) == frames # <<>> /\ top.gas >= cost

enforceRestrictions(writes, value) == ~(readOnly /\ (writes \/ value > 0))

Stay == UNCHANGED <<tx, pool, used, lost, txs>>
Local(cost) == enough(cost) /\ frames' = charged(cost) /\ UNCHANGED <<readOnly, depth>> /\ Stay

Plain == Local(Plain0) /\ UNCHANGED <<w, killed>>

SStore(v) ==
  LET old == w.stor[top.self]
  IN  /\ frames # <<>> /\ enforceRestrictions(TRUE, 0)
      /\ Local(IF old = 0 /\ v # 0 THEN SstoreSetGas ELSE SstoreResetGas)
      /\ w' = [w EXCEPT !.stor[top.self] = v,
                        !.refund = IF old # 0 /\ v = 0 THEN @ + SstoreRefundGas ELSE @]
      /\ UNCHANGED killed

\* What a sub-call does to the caller, after its cost: the new frame runs, or the
\* gas comes back at once.
Enter(r, cost) ==
  /\ w' = r.w
  /\ IF r.frame = None
     THEN frames' = charged(cost - r.gas) /\ UNCHANGED <<readOnly, depth>>
     ELSE /\ frames' = Append(charged(cost), r.frame)
          /\ depth' = depth + 1
          /\ readOnly' = (readOnly \/ r.frame.kind = "static")
  /\ UNCHANGED killed /\ Stay

\* callGas: what is asked for, but no more than all but a 64th of what is left
\* after the base cost; the subtraction wraps around.
callGas(available, base, asked) ==
  LET left == (available - base + 2^W) % 2^W
      most == left - left \div Fraction
  IN  IF most < asked THEN most ELSE asked

gasCall(kind, addr, value) ==
  Calls + (IF kind = "call" /\ value > 0 /\ empty(w, addr) THEN CallNewAccountGas ELSE 0)
        + (IF value > 0 THEN CallValueTransferGas ELSE 0)

Calling(kind, addr, value, asked) ==
  /\ frames # <<>> /\ (kind = "call" => enforceRestrictions(FALSE, value))
  /\ kind \in {"delegate", "static"} => value = 0
  /\ \E base \in {gasCall(kind, addr, value)} : \E cg \in {callGas(top.gas, base, asked)} :
       /\ base + cg < 2^W /\ enough(base + cg)
       /\ \E gas \in {cg + (IF value > 0 THEN CallStipend ELSE 0)} :
          \E r \in {CASE kind = "call" -> Call(w, top.self, addr, gas, value)
                      [] kind = "callcode" -> CallCode(w, top.self, addr, gas, value)
                      [] kind = "delegate" -> DelegateCall(w, top.self, addr, gas)
                      [] kind = "static" -> StaticCall(w, top.self, addr, gas)} :
            Enter(r, base + cg)

\* opCreate passes on all but a 64th.
Creating(value) ==
  LET left == top.gas - CreateGas
      gas  == left - left \div Fraction
  IN  /\ enough(CreateGas) /\ enforceRestrictions(TRUE, value)
      /\ NewAddr(top.self, w.nonce[top.self]) \in Addr
      /\ \E r \in {Create(w, top.self, gas, value)} : Enter(r, CreateGas + gas)

----------------------------------------------------------------------------
(* The end of a frame.                                                     *)

\* The outermost frame gives its gas to the transaction, others to the caller.
Leave(s, gas) ==
  LET f == SubSeq(frames, 1, Len(frames) - 1)
  IN  /\ w' = s
      /\ frames' = IF f = <<>> THEN f ELSE [f EXCEPT ![Len(f)].gas = @ + gas]
      /\ tx' = IF f = <<>> THEN [tx EXCEPT !.gas = gas] ELSE tx
      /\ depth' = depth - 1
      /\ readOnly' = IF top.sets THEN FALSE ELSE readOnly
      /\ UNCHANGED <<pool, used, lost, txs>>

\* STOP or RETURN, with as many bytes.  What a creation returns is its code.
Return(n) ==
  /\ frames # <<>> /\ UNCHANGED killed
  /\ IF top.kind # "create" THEN n = 0 /\ Leave(w, top.gas)
     ELSE IF n > MaxCodeSize \/ top.gas < n * CreateDataGas THEN Leave(top.snap, 0)
     ELSE Leave([w EXCEPT !.code[top.self] = n], top.gas - n * CreateDataGas)

Revert == frames # <<>> /\ Leave(top.snap, top.gas) /\ UNCHANGED killed
Fail == frames # <<>> /\ Leave(top.snap, 0) /\ UNCHANGED killed

\* SELFDESTRUCT: the balance goes to an account, which may be the same.
Suicide(to) ==
  LET a == top.self
      s == [w EXCEPT !.refund = IF a \in w.dead THEN @ ELSE @ + SuicideRefundGas]
      t == [s EXCEPT !.bal[to] = @ + w.bal[a], !.here = @ \cup {to}]
  IN  /\ enough(SuicideGas) /\ enforceRestrictions(TRUE, 0)
      /\ killed' = TRUE
      /\ LET u == [t EXCEPT !.bal[a] = 0, !.dead = @ \cup {a}]
         IN  Leave(u, top.gas - SuicideGas)

----------------------------------------------------------------------------
(* TransitionDb.                                                           *)

\* A transaction that passes preCheck and buyGas (the price of gas is 1), a call
\* or the creation of a contract.  One that cannot pay for its own gas or value
\* is refused: the state is brought back, but not the gas pool.
Begin(gas, to, value) ==
  LET bought == [w EXCEPT !.bal[Sender] = @ - gas]
      called == [bought EXCEPT !.nonce[Sender] = @ + 1]
      r == IF to = "new" THEN Create(bought, Sender, gas - TxGas, value)
           ELSE Call(IF to \in w.here THEN called ELSE CreateAccount(called, to),
                     Sender, to, gas - TxGas, value)
  IN  /\ tx = None /\ txs < MaxTxs /\ txs' = txs + 1
      /\ to = "new" => NewAddr(Sender, w.nonce[Sender]) \in Addr
      /\ w.bal[Sender] >= gas /\ pool >= gas /\ pool' = pool - gas
      /\ IF gas < TxGas \/ ~CanTransfer(bought, Sender, value)
         THEN lost' = lost + gas /\ UNCHANGED <<w, frames, depth, tx>>
         ELSE /\ used <= MaxUsed
              /\ w' = r.w /\ tx' = [init |-> gas, gas |-> r.gas]
              /\ frames' = IF r.frame = None THEN <<>> ELSE <<r.frame>>
              /\ depth' = Len(frames') /\ UNCHANGED lost
      /\ UNCHANGED <<readOnly, used, killed>>

\* The refund is at most half of the gas that was used.
refundGas(g, r) == Min({g \div 2, r})

\* refundGas, the payment of the miner, and Finalise.
End ==
  LET back == tx.gas + refundGas(tx.init - tx.gas, w.refund)
      s == [w EXCEPT !.bal[Sender] = @ + back, !.refund = 0]
      t == [s EXCEPT !.bal[Coinbase] = @ + tx.init - back, !.here = @ \cup {Coinbase, Sender}]
      gone == {a \in t.here : a \in t.dead \/ empty(t, a)}
      zero(f) == [a \in Addr |-> IF a \in gone THEN 0 ELSE f[a]]
  IN  /\ tx # None /\ frames = <<>>
      /\ w' = [t EXCEPT !.bal = zero(@), !.nonce = zero(@), !.code = zero(@), !.stor = zero(@),
                        !.here = @ \ gone, !.dead = {}]
      /\ pool' = pool + back /\ used' = used + tx.init - back /\ tx' = None
      /\ UNCHANGED <<frames, readOnly, depth, lost, txs, killed>>

Next ==
  \/ \E gas \in {TxGas - 1, TxGasLimit}, to \in Target \cup {"new"}, v \in {0, 1} : Begin(gas, to, v)
  \/ End \/ Plain \/ Revert \/ Fail
  \/ \E v \in {0, 1} : SStore(v) \/ Creating(v)
  \/ \E n \in 0..MaxCodeSize + 1 : Return(n)
  \/ \E to \in Target : Suicide(to)
  \/ \E kind \in {"call", "callcode", "delegate", "static"}, to \in Target, v \in {0, 1},
        asked \in {1, 2^W} : Calling(kind, to, v, asked)

Spec == Init /\ [][Next]_vars
FairSpec == Spec /\ WF_vars(Next)

----------------------------------------------------------------------------
\* Accounts that are there but empty count as not there.
Contents(s) == [bal |-> s.bal, nonce |-> s.nonce, code |-> s.code, stor |-> s.stor,
                dead |-> s.dead, refund |-> s.refund]

\* Nothing that runs under a read-only call, however deep, changes the state, and
\* the restriction holds as long as such a call runs and no longer.
ReadOnlyHolds ==
  /\ \A i \in DOMAIN frames : frames[i].kind = "static" => Contents(w) = Contents(frames[i].snap)
  /\ readOnly = \E i \in DOMAIN frames : frames[i].kind = "static"
  /\ depth = Len(frames) /\ depth <= CallCreateDepth + 1

Gas(f) == FoldLeft(LAMBDA n, x : n + x.gas, 0, f)

\* No sequence of calls, stipends and returns makes gas, also if the counter
\* wraps around in the price of a call.
GasNeverGrows ==
  tx # None /\ tx' # None => Gas(frames') + tx'.gas <= Gas(frames) + tx.gas

Sum(bal) == MapThenSumSet(LAMBDA a : bal[a], Addr)

\* Money is neither made nor lost by calls, creations, reverts and the payment
\* of gas; only accounts that destroy themselves may take money with them.
EtherConserved ==
  LET all == Sum(w.bal) + (IF tx = None THEN 0 ELSE tx.init)
  IN  all <= Sum(Balance0) /\ (~killed => all = Sum(Balance0))

\* Between transactions the block's gas is in the pool or used, but for that of
\* the transactions that were refused.
PoolBalances == tx = None => pool + used + lost = GasLimit

\* Every transaction ends, whatever the program does.
Idle == tx = None
=============================================================================
