------------------------------- MODULE Miner -------------------------------
(***************************************************************************)
(* lib_miner/src/miner.rs: solve_puzzle starts threads that try nonces and *)
(* joins them one after the other, while the thread that receives blocks   *)
(* (nakamoto.rs) sets the cancellation token and resets it.                *)
(*                                                                         *)
(* A nonce is the seed it is drawn from; the constant Solving holds the    *)
(* seeds whose nonce solves the puzzle.  A thread holds the lock of the    *)
(* found flag and reads the token while it decides, so that one turn of    *)
(* its loop is one step.  The call returns as soon as it has joined the    *)
(* thread with the solution; the threads it has not joined then go on by   *)
(* themselves, with a found flag that stays set.                           *)
(***************************************************************************)
EXTENDS Integers, FiniteSets

CONSTANTS
    ThreadCount,        \* miner_thread_count of the configuration
    Seed,               \* miner_thread_0_seed of the configuration
    Solving,            \* the seeds whose nonce solves the puzzle
    MaxTries,           \* bound: later nonces of a thread are not told apart
    MaxCalls            \* bound: how often solve_puzzle is called

ASSUME MinerAssumption ==
    /\ ThreadCount \in Nat \ {0} /\ Seed \in Nat
    /\ Solving \subseteq Nat
    /\ MaxTries \in Nat /\ MaxCalls \in Nat

ThreadIds == 0..(ThreadCount - 1)

VARIABLES
    calls,              \* how often solve_puzzle has been called
    caller,             \* where the call is
    started, joined,    \* how many threads the call has started, and joined
    thread,             \* what each thread of the call is doing, or returned
    tries,              \* how many nonces each thread of the call has tried
    foundToken,         \* of the call
    leftBehind,         \* threads of earlier calls that still run
    cancellationToken,
    threadCount,        \* thread_count of the Miner
    isRunning,          \* is_running of the Miner
    result,             \* what the latest call has returned
    wasCancelled        \* the token has been seen set during the call (history)

callVars == <<calls, caller, started, joined, result>>
threadVars == <<thread, tries, foundToken>>
vars == <<callVars, threadVars, leftBehind, cancellationToken, threadCount, isRunning,
          wasCancelled>>

MinerTypeOK ==
    /\ calls \in 0..MaxCalls
    /\ caller \in {"idle", "starting", "joining"}
    /\ started \in 0..ThreadCount /\ joined \in 0..started
    /\ thread \in [ThreadIds -> {"new", "running", "none", "solution"}]
    /\ tries \in [ThreadIds -> 0..MaxTries]
    /\ leftBehind \in Nat /\ threadCount \in Nat
    /\ foundToken \in BOOLEAN /\ cancellationToken \in BOOLEAN
    /\ isRunning \in BOOLEAN /\ wasCancelled \in BOOLEAN
    /\ result \in {"nothing", "none", "solution"}

MinerInit ==
    /\ calls = 0 /\ caller = "idle" /\ started = 0 /\ joined = 0 /\ result = "nothing"
    /\ thread = [i \in ThreadIds |-> "new"] /\ tries = [i \in ThreadIds |-> 0]
    /\ foundToken = FALSE /\ leftBehind = 0
    /\ cancellationToken = FALSE /\ wasCancelled = FALSE
    /\ threadCount = 0 /\ isRunning = FALSE

Running == {i \in ThreadIds : thread[i] = "running"}

FaultySeedOf(i, n) == Seed + i + n      \* steps by one instead of thread_count

\* thread_seed after n turns of the loop.
SeedOf(i, n) == Seed + i + n * ThreadCount

-----------------------------------------------------------------------------
(* The call                                                                *)

\* The threads that an earlier call has not joined are no more this call's.
SolvePuzzle ==
    /\ caller = "idle" /\ calls < MaxCalls
    /\ calls' = calls + 1 /\ caller' = "starting"
    /\ started' = 0 /\ joined' = 0 /\ result' = "nothing"
    /\ leftBehind' = leftBehind + Cardinality(Running)
    /\ thread' = [i \in ThreadIds |-> "new"] /\ tries' = [i \in ThreadIds |-> 0]
    /\ foundToken' = FALSE
    /\ wasCancelled' = cancellationToken
    /\ isRunning' = TRUE
    /\ UNCHANGED <<cancellationToken, threadCount>>

FaultyStartThread ==            \* does not count the thread
    /\ caller = "starting"
    /\ IF started = ThreadCount
       THEN caller' = "joining" /\ UNCHANGED <<started, thread>>
       ELSE /\ thread' = [thread EXCEPT ![started] = "running"]
            /\ started' = started + 1
            /\ UNCHANGED caller
    /\ UNCHANGED <<calls, joined, result, tries, foundToken, leftBehind, cancellationToken,
                   isRunning, wasCancelled, threadCount>>

StartThread ==
    /\ caller = "starting"
    /\ IF started = ThreadCount
       THEN caller' = "joining" /\ UNCHANGED <<started, thread, threadCount>>
       ELSE /\ thread' = [thread EXCEPT ![started] = "running"]
            /\ threadCount' = threadCount + 1
            /\ started' = started + 1
            /\ UNCHANGED caller
    /\ UNCHANGED <<calls, joined, result, tries, foundToken, leftBehind, cancellationToken,
                   isRunning, wasCancelled>>

Return(answer) == caller' = "idle" /\ isRunning' = FALSE /\ result' = answer

\* The threads are joined in the order they were started.
JoinThread ==
    /\ caller = "joining"
    /\ IF joined = ThreadCount
       THEN Return("none") /\ UNCHANGED joined
       ELSE /\ thread[joined] # "running"
            /\ joined' = joined + 1
            /\ IF thread[joined] = "solution"
               THEN Return("solution")
               ELSE UNCHANGED <<caller, isRunning, result>>
    /\ UNCHANGED <<calls, started, threadVars, leftBehind, cancellationToken, threadCount,
                   wasCancelled>>

-----------------------------------------------------------------------------
(* The threads of the call                                                 *)

Ends(i, answer) ==
    /\ thread' = [thread EXCEPT ![i] = answer]
    /\ threadCount' = threadCount - 1
    /\ UNCHANGED tries

FaultyTryNonce(i) ==            \* does not look whether another thread has found
    /\ thread[i] = "running"
    /\ IF cancellationToken
       THEN Ends(i, "none") /\ UNCHANGED foundToken
       ELSE IF SeedOf(i, tries[i]) \in Solving
       THEN Ends(i, "solution") /\ foundToken' = TRUE
       ELSE /\ tries' = [tries EXCEPT ![i] = IF @ < MaxTries THEN @ + 1 ELSE @]
            /\ UNCHANGED <<thread, threadCount, foundToken>>
    /\ UNCHANGED <<callVars, leftBehind, cancellationToken, isRunning, wasCancelled>>

\* One turn of the loop.
TryNonce(i) ==
    /\ thread[i] = "running"
    /\ IF cancellationToken \/ foundToken
       THEN Ends(i, "none") /\ UNCHANGED foundToken
       ELSE IF SeedOf(i, tries[i]) \in Solving
       THEN Ends(i, "solution") /\ foundToken' = TRUE
       ELSE /\ tries' = [tries EXCEPT ![i] = IF @ < MaxTries THEN @ + 1 ELSE @]
            /\ UNCHANGED <<thread, threadCount, foundToken>>
    /\ UNCHANGED <<callVars, leftBehind, cancellationToken, isRunning, wasCancelled>>

FaultyLeftBehindEnds ==         \* does not count itself out
    /\ leftBehind > 0 /\ leftBehind' = leftBehind - 1
    /\ UNCHANGED <<callVars, threadVars, cancellationToken, threadCount, isRunning,
                   wasCancelled>>

\* The next turn of a thread of an earlier call.  A call returns with threads
\* running only when one has returned a solution and so has set the found flag
\* of that call for good (JoinThread; NoneLeft in MinerProofs): the turn sees the
\* flag, whatever the token is by now.
LeftBehindEnds ==
    /\ leftBehind > 0 /\ leftBehind' = leftBehind - 1
    /\ threadCount' = threadCount - 1
    /\ UNCHANGED <<callVars, threadVars, cancellationToken, isRunning, wasCancelled>>

-----------------------------------------------------------------------------
(* The thread that receives blocks                                         *)

SetToken ==
    /\ ~cancellationToken /\ cancellationToken' = TRUE
    /\ wasCancelled' = TRUE
    /\ UNCHANGED <<callVars, threadVars, leftBehind, threadCount, isRunning>>

ResetToken ==
    /\ cancellationToken /\ cancellationToken' = FALSE
    /\ UNCHANGED <<callVars, threadVars, leftBehind, threadCount, isRunning, wasCancelled>>

-----------------------------------------------------------------------------

Next ==
    \/ SolvePuzzle \/ StartThread \/ JoinThread
    \/ \E i \in ThreadIds : TryNonce(i)
    \/ LeftBehindEnds
    \/ SetToken \/ ResetToken

Spec == MinerInit /\ [][Next]_vars

\* Every thread is scheduled.  Whether blocks arrive is not known, but the
\* thread that has set the token resets it.
Fairness ==
    /\ WF_vars(SolvePuzzle) /\ WF_vars(StartThread) /\ WF_vars(JoinThread)
    /\ \A i \in ThreadIds : WF_vars(TryNonce(i))
    /\ WF_vars(LeftBehindEnds)
    /\ WF_vars(ResetToken)

FairSpec == Spec /\ Fairness

-----------------------------------------------------------------------------
(* Properties                                                              *)

\* solve_puzzle, the lock of found_token: at most one thread of a call returns
\* a solution, and the flag is set exactly when one has.  The call then returns
\* it, whichever thread found it and in whichever order the threads are joined;
\* and it returns none only when the token was set during the call.
OneSolution ==
    /\ \A i, j \in ThreadIds : thread[i] = "solution" /\ thread[j] = "solution" => i = j
    /\ foundToken <=> \E i \in ThreadIds : thread[i] = "solution"
    /\ caller = "idle" =>
          /\ result = "solution" <=> foundToken
          /\ result = "none" => wasCancelled

\* thread_count, which get_status shows, counts the threads that run: those of
\* the call and those left behind by earlier calls, in any interleaving.
ThreadCountExact == threadCount = Cardinality(Running) + leftBehind

\* thread_seed: no two threads of a call try the same nonce.
NoNonceTwice ==
    \A i, j \in ThreadIds : i # j =>
        {SeedOf(i, n) : n \in 0..tries[i]} \cap {SeedOf(j, n) : n \in 0..tries[j]} = {}

\* miner.rs:79: when a thread has found a solution the call returns.
FoundReturns == foundToken ~> caller = "idle"

\* miner.rs:79: all the other threads stop in the end, also those that the call
\* has not joined.
ThreadsStop == <>[](leftBehind = 0 /\ (foundToken => Running = {}))
=============================================================================
