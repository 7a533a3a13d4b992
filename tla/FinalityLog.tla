---------------------------- MODULE FinalityLog ----------------------------
(***************************************************************************)
(* What a block tree promises its readers: a ledger that only grows.  The  *)
(* log starts at the genesis block; each step settles one more block, the  *)
(* child of the last one, and books its transactions and its reward once.  *)
(* Nothing is ever taken back.                                             *)
(***************************************************************************)
EXTENDS Naturals, Sequences

CONSTANTS
    Blocks,             \* the blocks that may be settled
    RootId,             \* the genesis block
    GenesisBalance,     \* the balances it leaves
    Parent(_),          \* the parent of a block
    TxIdsOf(_),         \* the transactions of a block
    Settle(_, _)        \* what a block makes of the balances before it

VARIABLES
    log,        \* the finalized blocks, oldest first
    balances,   \* the balance of each address after the last of them
    txIds       \* the transactions they contain

logVars == <<log, balances, txIds>>

LogInit ==
    /\ log = <<RootId>>
    /\ balances = GenesisBalance
    /\ txIds = {}

SettleNext(b) ==
    /\ Parent(b) = log[Len(log)]
    /\ log' = Append(log, b)
    /\ balances' = Settle(balances, b)
    /\ txIds' = txIds \cup TxIdsOf(b)

LogNext == \E b \in Blocks : SettleNext(b)

LogSpec == LogInit /\ [][LogNext]_logVars
=============================================================================
