------------------------------- MODULE MCTxPool -------------------------------
(***************************************************************************)
(* The transaction pool and what executes its transactions, checked side   *)
(* by side: part selects the component that this behaviour is one of.  The *)
(* pool has its own variables; v1 to v10 are those of the others, 0 where  *)
(* a component has fewer.                                                  *)
(***************************************************************************)
EXTENDS TxPool

VARIABLES part, v1, v2, v3, v4, v5, v6, v7, v8, v9, v10

mcvars == <<vars, part, v1, v2, v3, v4, v5, v6, v7, v8, v9, v10>>

\* Account 1 has nonces 0 to 2 and can outbid its second; account 2 has one.
Tx(a, n, p) == [from |-> a, nonce |-> n, price |-> p]
Txs == {Tx(1, 0, 1), Tx(1, 1, 1), Tx(1, 2, 1), Tx(1, 1, 2), Tx(2, 0, 1)}

\* The trie of the state has no account, an empty one, or one with everything.
NoAccount == [none |-> TRUE]
Plain(n) == [nonce |-> n, bal |-> n, code |-> n, stor |-> n]

State == INSTANCE StateDB WITH
  trie <- v1, s <- v2, copy <- v3, txs <- v4, done <- v5,
  Addr <- {"a"}, Genesis <- {[a |-> NoAccount], [a |-> Plain(0)], [a |-> Plain(1)]},
  MaxBalance <- 1, MaxJournal <- 2, MaxSnapshots <- 2, MaxTxs <- 1

\* The contract c creates n, the sender x creates k; p is precompiled and m mines.
Creates(a, k) ==
  CASE a = "c" /\ k = 1 -> "n" [] a = "x" /\ k = 0 -> "k" [] OTHER -> "none"

Vm == INSTANCE EVM WITH
  w <- v1, frames <- v2, readOnly <- v3, depth <- v4, tx <- v5, pool <- v6, used <- v7,
  lost <- v8, txs <- v9, killed <- v10,
  Addr <- {"x", "c", "n", "k", "p", "m"}, Sender <- "x", Coinbase <- "m",
  Precompile <- "p", Target <- {"c", "n", "p"}, Code0 <- {"c"},
  Balance0 <- [x |-> 20, c |-> 1, n |-> 0, k |-> 0, p |-> 0, m |-> 0],
  NewAddr <- Creates, GasLimit <- 25, TxGasLimit <- 6, TxGas <- 1, Plain0 <- 1,
  Calls <- 1, CallValueTransferGas <- 3, CallStipend <- 2, CallNewAccountGas <- 1,
  CreateGas <- 2, CreateDataGas <- 1, SstoreSetGas <- 3, SstoreResetGas <- 1,
  SstoreRefundGas <- 2, SuicideGas <- 1, SuicideRefundGas <- 2, PrecompileGas <- 1,
  Fraction <- 4, W <- 5, CallCreateDepth <- 2, MaxCodeSize <- 1, MaxTxs <- 2, MaxUsed <- 0

\* Short programs that jump, and short programs that compute.
Op(o) == <<o, 0>>
Data(b) ==
  CASE b[1] = "JUMPDEST" -> 1 [] b[1] = "PUSH" -> 2 [] b[1] \in {"JUMP", "AND"} -> 3
    [] OTHER -> 0
Jumping == {Op("JUMPDEST"), <<"PUSH", 1>>, <<"PUSH", 2>>, Op("JUMP"), Op("JUMPI"), Op("POP")}
Computing ==
  {Op("AND"), Op("SDIV"), Op("EQ"), Op("BLOCKHASH"), <<"PUSH", 1>>, <<"DUP", 2>>,
   <<"SWAP", 1>>, Op("CALL"), Op("MSTORE"), Op("RETURNDATACOPY"), <<"LOG", 1>>}
Programs ==
  [1 .. 4 -> Jumping] \cup [1 .. 3 -> Computing] \cup [1 .. 2 -> Computing]
    \cup {<<Op("INVALID"), Op("STOP")>>}

Run == INSTANCE Interpreter WITH
  m <- v1, ByteBits <- 2, WordBytes <- 2, Uint <- 8, MaxMem <- 6, QuadCoeffDiv <- 2,
  MemoryGas <- 1, StackLimit <- 8, poolLimit <- 2, Chunk <- 2, Padding <- 1,
  Env <- {1, 9}, Few <- {0, 3, 15}, Code <- Programs,
  Stack <- {<<>>, <<1, 3>>, <<0, 9, 1, 2>>, <<1, 0, 0, 0, 0, 0, 0>>}, ByteVal <- Data

\* The component has n variables; the other registers are 0.
Unused(n) ==
  /\ n <= 0 => v1 = 0
  /\ n <= 1 => v2 = 0 /\ v3 = 0 /\ v4 = 0 /\ v5 = 0
  /\ n <= 5 => v6 = 0 /\ v7 = 0 /\ v8 = 0 /\ v9 = 0 /\ v10 = 0

Step(n) ==
  /\ part' = part
  /\ n # 0 => UNCHANGED vars
  /\ n <= 0 => UNCHANGED <<v1>>
  /\ n <= 1 => UNCHANGED <<v2, v3, v4, v5>>
  /\ n <= 5 => UNCHANGED <<v6, v7, v8, v9, v10>>

MCInit ==
  /\ Init
  /\ \/ part = "pool" /\ Unused(0)
     \/ part = "statedb" /\ State!Init /\ Unused(5)
     \/ part = "evm" /\ Vm!Init /\ Unused(10)
     \/ part = "interpreter" /\ Run!Init /\ Unused(1)

MCNext ==
  \/ part = "pool" /\ Next /\ Step(0)
  \/ part = "statedb" /\ State!Next /\ Step(5)
  \/ part = "evm" /\ Vm!Next /\ Step(10)
  \/ part = "interpreter" /\ Run!Next /\ Step(1)

MCSpec == MCInit /\ [][MCNext]_mcvars

----------------------------------------------------------------------------


\* No step of the pool drops a local transaction, or one that a reorganisation
\* gives back; a commit writes what could be read; no call makes gas.
StepsRight ==
  [][/\ part = "pool" => LocalsKept /\ ReorgKeepsTransactions
     /\ part = "statedb" => State!CommitSaves
     /\ part = "evm" => Vm!GasNeverGrows]_mcvars
=============================================================================
