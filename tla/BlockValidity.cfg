SPECIFICATION Spec
CONSTANTS
    t1 = t1
    t2 = t2
    t3 = t3
    t4 = t4
    t5 = t5
    forged = forged
    Txs <- MCTxs
    Signed <- MCSigned
    Parents = {"p1", "p2"}
    Receivers = {"alice", "bob"}
    Times = {1, 2}
    Nonces = {1, 2}
    Solving = {1}
    Bodies <- MCBodies
    MaxTxs = 5
INVARIANTS ValidAsMined
