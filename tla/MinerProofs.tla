---------------------------- MODULE MinerProofs ----------------------------
(***************************************************************************)
(* Proofs about the miner, for every number of threads, every seed, every  *)
(* set of solutions and every number of calls.                             *)
(***************************************************************************)
EXTENDS Miner, FiniteSetTheorems, TLAPS

\* The threads are started and joined in order, and the call goes on to the
\* next thread only when the last one has returned none.
ThreadsInOrder ==
    /\ \A i \in ThreadIds : i < started <=> thread[i] # "new"
    /\ caller = "starting" => joined = 0
    /\ caller = "joining" =>
          started = ThreadCount /\ \A i \in ThreadIds : i < joined => thread[i] = "none"

\* A thread gives up only because of the token or of another one's solution.
NoneExplained ==
    /\ cancellationToken => wasCancelled
    /\ \A i \in ThreadIds : thread[i] = "none" => wasCancelled \/ foundToken

\* A call without a solution has joined all its threads.
NoneLeft == caller = "idle" /\ result # "solution" => Running = {}

IInv ==
    /\ MinerTypeOK
    /\ ThreadCountExact
    /\ ThreadsInOrder
    /\ NoneExplained
    /\ NoneLeft
    /\ OneSolution

-----------------------------------------------------------------------------
(* The threads that run                                                    *)

LEMMA RunningFinite == IsFiniteSet(Running) /\ Cardinality(Running) \in Nat
  <1>1. IsFiniteSet(ThreadIds)
    BY MinerAssumption, FS_Interval DEF ThreadIds
  <1>2. Running \in SUBSET ThreadIds
    BY DEF Running
  <1> QED
    BY <1>1, <1>2, FS_Subset, FS_CardinalityType

\* One more thread runs.
LEMMA RunningGrows ==
    ASSUME MinerTypeOK, NEW i \in ThreadIds, thread[i] # "running",
           thread' = [thread EXCEPT ![i] = "running"]
    PROVE  Cardinality(Running)' = Cardinality(Running) + 1
  <1>1. Running' = Running \cup {i} /\ i \notin Running
    BY DEF Running, MinerTypeOK
  <1> QED
    BY <1>1, RunningFinite, FS_AddElement

\* One thread less runs.
LEMMA RunningShrinks ==
    ASSUME MinerTypeOK, NEW i \in ThreadIds, thread[i] = "running",
           NEW answer, answer # "running", thread' = [thread EXCEPT ![i] = answer]
    PROVE  Cardinality(Running)' = Cardinality(Running) - 1
  <1>1. Running' = Running \ {i} /\ i \in Running
    BY DEF Running, MinerTypeOK
  <1> QED
    BY <1>1, RunningFinite, FS_RemoveElement

-----------------------------------------------------------------------------
(* The steps                                                               *)

LEMMA InitIInv == MinerInit => IInv
  <1> SUFFICES ASSUME MinerInit PROVE IInv
    OBVIOUS
  <1>1. Running = {}
    BY DEF MinerInit, Running
  <1>2. MinerTypeOK
    <2>1. /\ 0 \in 0..MaxCalls /\ 0 \in 0..ThreadCount /\ 0 \in 0..0 /\ 0 \in 0..MaxTries
          /\ 0 \in Nat
      BY MinerAssumption
    <2> QED
      BY <2>1, Zenon DEF MinerInit, MinerTypeOK
  <1>3. ThreadCountExact
    BY <1>1, FS_EmptySet DEF MinerInit, ThreadCountExact
  <1>4. ThreadsInOrder /\ NoneExplained /\ NoneLeft /\ OneSolution
    BY <1>1 DEF MinerInit, ThreadsInOrder, NoneExplained, NoneLeft, OneSolution, ThreadIds
  <1> QED
    BY <1>2, <1>3, <1>4 DEF IInv

LEMMA SolvePuzzleStep == ASSUME IInv, SolvePuzzle PROVE IInv'
  <1>1. Running' = {} /\ Cardinality(Running)' = 0
    BY FS_EmptySet DEF SolvePuzzle, Running
  <1>2. MinerTypeOK'
    <2>1. /\ calls + 1 \in 0..MaxCalls /\ 0 \in 0..ThreadCount /\ 0 \in 0..0
          /\ 0 \in 0..MaxTries /\ leftBehind + Cardinality(Running) \in Nat
      BY MinerAssumption, RunningFinite DEF IInv, SolvePuzzle, MinerTypeOK
    <2> QED
      BY <2>1, Zenon DEF IInv, SolvePuzzle, MinerTypeOK
  <1>3. ThreadCountExact'
    BY <1>1, RunningFinite DEF IInv, SolvePuzzle, MinerTypeOK, ThreadCountExact
  <1>4. ThreadsInOrder' /\ NoneExplained' /\ NoneLeft' /\ OneSolution'
    BY <1>1 DEF SolvePuzzle, ThreadsInOrder, NoneExplained, NoneLeft, OneSolution, ThreadIds
  <1> QED
    BY <1>2, <1>3, <1>4 DEF IInv

LEMMA StartThreadStep == ASSUME IInv, StartThread PROVE IInv'
  <1>1. CASE started = ThreadCount
    <2>1. Running' = Running
      BY <1>1 DEF StartThread, Running
    <2>2. MinerTypeOK'
      BY <1>1 DEF IInv, StartThread, MinerTypeOK
    <2>3. ThreadCountExact'
      BY <1>1, <2>1 DEF IInv, StartThread, ThreadCountExact
    <2>4. ThreadsInOrder' /\ NoneExplained' /\ NoneLeft' /\ OneSolution'
      BY <1>1, <2>1 DEF IInv, StartThread, ThreadsInOrder, NoneExplained, NoneLeft,
                        OneSolution, ThreadIds
    <2> QED
      BY <2>2, <2>3, <2>4 DEF IInv
  <1>2. CASE started # ThreadCount
    <2>1. /\ started \in ThreadIds /\ thread[started] = "new"
          /\ caller = "starting" /\ caller' = "starting"
          /\ thread' = [thread EXCEPT ![started] = "running"]
          /\ started' = started + 1 /\ threadCount' = threadCount + 1
          /\ UNCHANGED <<calls, joined, result, tries, foundToken, leftBehind,
                         cancellationToken, isRunning, wasCancelled>>
      BY <1>2, MinerAssumption DEF IInv, StartThread, MinerTypeOK, ThreadsInOrder, ThreadIds
    <2>2. MinerTypeOK'
      BY <2>1, MinerAssumption DEF IInv, MinerTypeOK, ThreadIds
    <2>3. ThreadCountExact'
      <3>1. Cardinality(Running)' = Cardinality(Running) + 1
        BY <2>1, RunningGrows DEF IInv
      <3> QED
        BY <2>1, <3>1, RunningFinite DEF IInv, MinerTypeOK, ThreadCountExact
    <2>4. ThreadsInOrder'
      BY <2>1 DEF IInv, MinerTypeOK, ThreadsInOrder, ThreadIds
    <2>5. NoneExplained' /\ NoneLeft' /\ OneSolution'
      BY <2>1 DEF IInv, MinerTypeOK, NoneExplained, NoneLeft, OneSolution
    <2> QED
      BY <2>2, <2>3, <2>4, <2>5 DEF IInv
  <1> QED
    BY <1>1, <1>2

LEMMA JoinThreadStep == ASSUME IInv, JoinThread PROVE IInv'
  <1>1. /\ Running' = Running
        /\ caller = "joining" /\ started = ThreadCount /\ joined \in 0..ThreadCount
        /\ UNCHANGED <<calls, started, threadVars, leftBehind, cancellationToken,
                       threadCount, wasCancelled>>
    BY DEF IInv, JoinThread, Running, threadVars, MinerTypeOK, ThreadsInOrder
  <1>2. ThreadCountExact'
    BY <1>1 DEF IInv, ThreadCountExact
  <1>3. NoneExplained'
    BY <1>1 DEF IInv, NoneExplained, threadVars
  <1>4. CASE joined = ThreadCount
    <2>1. caller' = "idle" /\ isRunning' = FALSE /\ result' = "none" /\ joined' = joined
      BY <1>4 DEF JoinThread, Return
    <2>2. 0 \in ThreadIds /\ \A i \in ThreadIds : thread[i] = "none"
      BY <1>1, <1>4, MinerAssumption DEF IInv, ThreadsInOrder, ThreadIds
    <2>3. Running = {} /\ ~foundToken /\ wasCancelled
      BY <2>2 DEF Running, IInv, OneSolution, NoneExplained
    <2>4. MinerTypeOK'
      BY <1>1, <2>1 DEF IInv, MinerTypeOK, threadVars
    <2>5. ThreadsInOrder' /\ NoneLeft'
      BY <1>1, <2>1, <2>3 DEF IInv, ThreadsInOrder, NoneLeft, threadVars
    <2>6. OneSolution'
      BY <1>1, <2>1, <2>3 DEF IInv, OneSolution, threadVars
    <2> QED
      BY <1>2, <1>3, <2>4, <2>5, <2>6 DEF IInv
  <1>5. CASE joined # ThreadCount
    <2>1. joined \in ThreadIds /\ thread[joined] \in {"none", "solution"} /\ joined' = joined + 1
      BY <1>1, <1>5, MinerAssumption
         DEF IInv, MinerTypeOK, JoinThread, ThreadsInOrder, ThreadIds
    <2>2. CASE thread[joined] = "solution"
      <3>1. caller' = "idle" /\ isRunning' = FALSE /\ result' = "solution"
        BY <1>5, <2>2 DEF JoinThread, Return
      <3>2. MinerTypeOK'
        <4>1. joined + 1 \in 0..started
          BY <1>1, <2>1, MinerAssumption DEF ThreadIds
        <4> QED
          BY <1>1, <2>1, <3>1, <4>1, Zenon DEF IInv, MinerTypeOK, threadVars
      <3>3. ThreadsInOrder' /\ NoneLeft'
        BY <1>1, <3>1 DEF IInv, ThreadsInOrder, NoneLeft, threadVars
      <3>4. OneSolution'
        BY <1>1, <2>1, <2>2, <3>1 DEF IInv, OneSolution, threadVars
      <3> QED
        BY <1>2, <1>3, <3>2, <3>3, <3>4 DEF IInv
    <2>3. CASE thread[joined] = "none"
      <3>1. UNCHANGED <<caller, isRunning, result>>
        BY <1>5, <2>3 DEF JoinThread
      <3>2. MinerTypeOK'
        BY <1>1, <2>1, <3>1 DEF IInv, MinerTypeOK, threadVars, ThreadIds
      <3>3. ThreadsInOrder' /\ NoneLeft'
        BY <1>1, <2>1, <2>3, <3>1 DEF IInv, MinerTypeOK, ThreadsInOrder, NoneLeft,
                                      threadVars, ThreadIds
      <3>4. OneSolution'
        BY <1>1, <3>1 DEF IInv, OneSolution, threadVars
      <3> QED
        BY <1>2, <1>3, <3>2, <3>3, <3>4 DEF IInv
    <2> QED
      BY <2>1, <2>2, <2>3
  <1> QED
    BY <1>4, <1>5

\* What the end of a thread leaves to show, whatever the thread returns.
LEMMA EndsStep ==
    ASSUME IInv, NEW i \in ThreadIds, NEW answer \in {"none", "solution"},
           thread[i] = "running", Ends(i, answer)
    PROVE  /\ thread' \in [ThreadIds -> {"new", "running", "none", "solution"}]
           /\ threadCount' \in Nat
           /\ threadCount' = Cardinality(Running)' + leftBehind
           /\ Running' \subseteq Running
  <1>1. thread' \in [ThreadIds -> {"new", "running", "none", "solution"}]
    BY DEF IInv, MinerTypeOK, Ends
  <1>2. Cardinality(Running)' = Cardinality(Running) - 1
    BY RunningShrinks DEF IInv, Ends
  <1>3. Cardinality(Running) # 0
    <2>1. i \in Running
      BY DEF Running
    <2> QED
      BY <2>1, RunningFinite, FS_EmptySet
  <1>4. Running' \subseteq Running
    BY DEF IInv, MinerTypeOK, Ends, Running
  <1> QED
    BY <1>1, <1>2, <1>3, <1>4, RunningFinite DEF IInv, MinerTypeOK, ThreadCountExact, Ends

LEMMA TryNonceStep == ASSUME IInv, NEW i \in ThreadIds, TryNonce(i) PROVE IInv'
  <1>1. /\ thread[i] = "running"
        /\ UNCHANGED <<calls, caller, started, joined, result, leftBehind,
                       cancellationToken, isRunning, wasCancelled>>
    BY DEF TryNonce, callVars
  <1>2. caller = "idle" => result = "solution" /\ foundToken
    BY <1>1 DEF IInv, NoneLeft, OneSolution, Running
  <1>3. CASE cancellationToken \/ foundToken
    <2>1. Ends(i, "none") /\ foundToken' = foundToken
      BY <1>3 DEF TryNonce
    <2>2. tries' = tries /\ thread' = [thread EXCEPT ![i] = "none"]
      BY <2>1 DEF Ends
    <2>3. MinerTypeOK' /\ ThreadCountExact'
      <3>1. /\ thread' \in [ThreadIds -> {"new", "running", "none", "solution"}]
            /\ threadCount' \in Nat
            /\ threadCount' = Cardinality(Running)' + leftBehind
        BY <1>1, <2>1, EndsStep
      <3> QED
        BY <1>1, <2>1, <2>2, <3>1, Zenon DEF IInv, MinerTypeOK, ThreadCountExact
    <2>4. ThreadsInOrder' /\ NoneExplained' /\ NoneLeft'
      <3>1. Running' \subseteq Running
        BY <1>1, <2>1, EndsStep
      <3>2. ThreadsInOrder'
        BY <1>1, <2>2 DEF IInv, MinerTypeOK, ThreadsInOrder
      <3>3. NoneExplained'
        BY <1>1, <1>3, <2>1, <2>2 DEF IInv, MinerTypeOK, NoneExplained
      <3>4. NoneLeft'
        BY <1>1, <3>1 DEF IInv, NoneLeft
      <3> QED
        BY <3>2, <3>3, <3>4
    <2>5. OneSolution'
      BY <1>1, <2>1, <2>2 DEF IInv, MinerTypeOK, OneSolution
    <2> QED
      BY <2>3, <2>4, <2>5 DEF IInv
  <1>4. CASE ~(cancellationToken \/ foundToken) /\ SeedOf(i, tries[i]) \in Solving
    <2>1. Ends(i, "solution") /\ foundToken' = TRUE
      BY <1>4 DEF TryNonce
    <2>2. tries' = tries /\ thread' = [thread EXCEPT ![i] = "solution"]
      BY <2>1 DEF Ends
    <2>3. MinerTypeOK' /\ ThreadCountExact'
      <3>1. /\ thread' \in [ThreadIds -> {"new", "running", "none", "solution"}]
            /\ threadCount' \in Nat
            /\ threadCount' = Cardinality(Running)' + leftBehind
        BY <1>1, <2>1, EndsStep
      <3> QED
        BY <1>1, <2>1, <2>2, <3>1, Zenon DEF IInv, MinerTypeOK, ThreadCountExact
    <2>4. ThreadsInOrder' /\ NoneExplained' /\ NoneLeft'
      <3>1. Running' \subseteq Running
        BY <1>1, <2>1, EndsStep
      <3>2. ThreadsInOrder'
        BY <1>1, <2>2 DEF IInv, MinerTypeOK, ThreadsInOrder
      <3>3. NoneExplained'
        BY <1>1, <2>1, <2>2 DEF IInv, MinerTypeOK, NoneExplained
      <3>4. NoneLeft'
        BY <1>1, <3>1 DEF IInv, NoneLeft
      <3> QED
        BY <3>2, <3>3, <3>4
    <2>5. OneSolution'
      <3>1. caller # "idle" /\ \A j \in ThreadIds : thread[j] # "solution"
        BY <1>2, <1>4 DEF IInv, OneSolution
      <3> QED
        BY <1>1, <2>1, <2>2, <3>1 DEF IInv, MinerTypeOK, OneSolution
    <2> QED
      BY <2>3, <2>4, <2>5 DEF IInv
  <1>5. CASE ~(cancellationToken \/ foundToken) /\ SeedOf(i, tries[i]) \notin Solving
    <2>1. /\ tries' = [tries EXCEPT ![i] = IF @ < MaxTries THEN @ + 1 ELSE @]
          /\ UNCHANGED <<thread, threadCount, foundToken>>
      BY <1>5 DEF TryNonce
    <2>2. Running' = Running
      BY <2>1 DEF Running
    <2>3. MinerTypeOK'
      <3>1. tries' \in [ThreadIds -> 0..MaxTries]
        BY <2>1, MinerAssumption DEF IInv, MinerTypeOK
      <3> QED
        BY <1>1, <2>1, <3>1, Zenon DEF IInv, MinerTypeOK
    <2>4. ThreadCountExact' /\ ThreadsInOrder' /\ NoneExplained' /\ NoneLeft' /\ OneSolution'
      BY <1>1, <2>1, <2>2 DEF IInv, ThreadCountExact, ThreadsInOrder, NoneExplained,
                              NoneLeft, OneSolution
    <2> QED
      BY <2>3, <2>4 DEF IInv
  <1> QED
    BY <1>3, <1>4, <1>5

\* The threads of earlier calls and the token touch nothing of the call but what
\* explains why its threads give up.
LEMMA OutsideStep ==
    ASSUME IInv, LeftBehindEnds \/ SetToken \/ ResetToken \/ UNCHANGED vars
    PROVE  IInv'
  <1>1. /\ UNCHANGED <<calls, caller, started, joined, result, thread, tries, foundToken,
                       isRunning>>
        /\ Running' = Running
    BY DEF LeftBehindEnds, SetToken, ResetToken, vars, callVars, threadVars, Running
  <1>2. /\ leftBehind' \in Nat /\ threadCount' \in Nat
        /\ threadCount' = Cardinality(Running)' + leftBehind'
    <2>1. CASE LeftBehindEnds
      <3>1. /\ leftBehind > 0 /\ leftBehind' = leftBehind - 1
            /\ threadCount' = threadCount - 1
        BY <2>1 DEF LeftBehindEnds
      <3>2. leftBehind \in Nat /\ threadCount = Cardinality(Running) + leftBehind
        BY DEF IInv, MinerTypeOK, ThreadCountExact
      <3> QED
        BY <1>1, <3>1, <3>2, RunningFinite
    <2>2. CASE SetToken \/ ResetToken \/ UNCHANGED vars
      <3>1. leftBehind' = leftBehind /\ threadCount' = threadCount
        BY <2>2 DEF SetToken, ResetToken, vars
      <3> QED
        BY <1>1, <3>1 DEF IInv, MinerTypeOK, ThreadCountExact
    <2> QED
      BY <2>1, <2>2
  <1>3. /\ cancellationToken' \in BOOLEAN /\ wasCancelled' \in BOOLEAN
        /\ cancellationToken' => wasCancelled'
        /\ wasCancelled => wasCancelled'
    <2>1. /\ cancellationToken \in BOOLEAN /\ wasCancelled \in BOOLEAN
          /\ cancellationToken => wasCancelled
      BY DEF IInv, MinerTypeOK, NoneExplained
    <2>2. CASE LeftBehindEnds \/ UNCHANGED vars
      BY <2>1, <2>2 DEF LeftBehindEnds, vars
    <2>3. CASE SetToken
      BY <2>3 DEF SetToken
    <2>4. CASE ResetToken
      BY <2>1, <2>4 DEF ResetToken
    <2> QED
      BY <2>2, <2>3, <2>4
  <1>4. MinerTypeOK' /\ ThreadCountExact'
    BY <1>1, <1>2, <1>3, Zenon DEF IInv, MinerTypeOK, ThreadCountExact
  <1>5. ThreadsInOrder' /\ NoneLeft'
    BY <1>1 DEF IInv, ThreadsInOrder, NoneLeft
  <1>6. NoneExplained' /\ OneSolution'
    BY <1>1, <1>3 DEF IInv, NoneExplained, OneSolution
  <1> QED
    BY <1>4, <1>5, <1>6 DEF IInv

LEMMA Inductive == Spec => []IInv
  <1>1. MinerInit => IInv
    BY InitIInv
  <1>2. IInv /\ [Next]_vars => IInv'
    BY SolvePuzzleStep, StartThreadStep, JoinThreadStep, TryNonceStep, OutsideStep DEF Next
  <1> QED
    BY <1>1, <1>2, PTL DEF Spec

-----------------------------------------------------------------------------
(* The theorems                                                            *)

\* The state of the miner has its types: thread_count never wraps below zero.
THEOREM MinerTypeCorrect == Spec => []MinerTypeOK
  <1>1. IInv => MinerTypeOK
    BY DEF IInv
  <1> QED
    BY <1>1, Inductive, PTL

\* thread_count counts the threads that run, however many calls have left some
\* behind.
THEOREM CountCorrect == Spec => []ThreadCountExact
  <1>1. IInv => ThreadCountExact
    BY DEF IInv
  <1> QED
    BY <1>1, Inductive, PTL

\* solve_puzzle returns the one solution its threads have found, if there is one,
\* and none only after the token was set.
THEOREM SolutionCorrect == Spec => []OneSolution
  <1>1. IInv => OneSolution
    BY DEF IInv
  <1> QED
    BY <1>1, Inductive, PTL

\* Two threads' seeds differ modulo thread_count.
LEMMA SeedsDiffer ==
    ASSUME NEW i \in ThreadIds, NEW j \in ThreadIds, NEW n \in Nat, NEW m \in Nat,
           SeedOf(i, n) = SeedOf(j, m)
    PROVE  i = j
  <1>1. /\ ThreadCount \in Nat \ {0} /\ Seed \in Nat
        /\ i \in 0..(ThreadCount - 1) /\ j \in 0..(ThreadCount - 1)
    BY MinerAssumption DEF ThreadIds
  <1>2. i - j = (m - n) * ThreadCount
    BY <1>1 DEF SeedOf
  <1>3. ASSUME NEW d \in Int, d >= 1
        PROVE  d * ThreadCount >= ThreadCount
    BY <1>1, <1>3
  <1>4. CASE m > n
    BY <1>1, <1>2, <1>3, <1>4
  <1>5. CASE n > m
    <2>1. j - i = (n - m) * ThreadCount
      BY <1>1 DEF SeedOf
    <2> QED
      BY <1>1, <1>3, <1>5, <2>1
  <1> QED
    BY <1>1, <1>2, <1>4, <1>5

\* No two threads of a call try the same nonce.
THEOREM NoncesCorrect == Spec => []NoNonceTwice
  <1>1. IInv => NoNonceTwice
    <2> SUFFICES ASSUME IInv, NEW i \in ThreadIds, NEW j \in ThreadIds, i # j,
                        NEW n \in 0..tries[i], NEW m \in 0..tries[j],
                        SeedOf(i, n) = SeedOf(j, m)
                 PROVE  FALSE
      BY DEF NoNonceTwice
    <2>1. n \in Nat /\ m \in Nat
      BY MinerAssumption DEF IInv, MinerTypeOK
    <2> QED
      BY <2>1, SeedsDiffer
  <1> QED
    BY <1>1, Inductive, PTL

=============================================================================
