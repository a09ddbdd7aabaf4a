------------------------------ MODULE WithLock ------------------------------
(***************************************************************************)
(* withLock(key, fn) of utils/lock.ts, for one key.  The process has one   *)
(* JavaScript thread: a caller runs from one await to the next without     *)
(* interruption, and a promise that settles puts the callers awaiting it   *)
(* at the end of the microtask queue, in the order in which they awaited.  *)
(*                                                                         *)
(* The map holds one promise per key and the promise is made by the call   *)
(* that holds the lock, so a promise is named by that call.  Entries of    *)
(* different keys never touch one another.                                 *)
(***************************************************************************)
EXTENDS Naturals, Sequences

CONSTANTS
    Caller,     \* the invocations of withLock with this key
    NoPromise   \* inflightLocks has no entry for the key

ASSUME NoPromiseIsNoCaller == NoPromise \notin Caller

VARIABLES
    inflight,   \* inflightLocks.get(key): the call whose promise it is
    place,      \* "new", "awaiting", "resumed", "fn" or "settled"
    reactions,  \* reactions[h]: the calls awaiting the promise of h, in order
    jobs        \* the microtask queue: calls whose awaited promise resolved

lockVars == <<inflight, place, reactions, jobs>>

Place == {"new", "awaiting", "resumed", "fn", "settled"}

LockInit ==
    /\ inflight = NoPromise
    /\ place = [c \in Caller |-> "new"]
    /\ reactions = [c \in Caller |-> <<>>]
    /\ jobs = <<>>

\* The key has no entry: leave the while loop, store a new promise, run fn.
TakeLock(c) ==
    /\ inflight = NoPromise
    /\ inflight' = c
    /\ place' = [place EXCEPT ![c] = "fn"]
    /\ UNCHANGED reactions

\* The key has an entry: await its promise.
AwaitHolder(c) ==
    /\ inflight # NoPromise
    /\ reactions' = [reactions EXCEPT ![inflight] = Append(@, c)]
    /\ place' = [place EXCEPT ![c] = "awaiting"]
    /\ UNCHANGED inflight

\* The code between a call, or a resumption, and its next await: the test of
\* the while loop and what follows it, with nothing in between.
TestAndSet(c) == TakeLock(c) \/ AwaitHolder(c)

\* Mutant: the test and the store are separated by the await, so a resumed
\* caller takes the lock without testing again (an if in place of the while).
TestOnce(c) ==
    /\ inflight' = c
    /\ place' = [place EXCEPT ![c] = "fn"]
    /\ UNCHANGED reactions

\* A request calls withLock.
Call(c) ==
    /\ place[c] = "new"
    /\ TestAndSet(c)
    /\ UNCHANGED jobs

\* Mutant: the last caller to await is the first to be resumed.
ResumeLast(c) ==
    /\ jobs # <<>>
    /\ c = jobs[Len(jobs)]
    /\ jobs' = SubSeq(jobs, 1, Len(jobs) - 1)
    /\ TestAndSet(c)

ResumeWithoutTest(c) ==
    /\ jobs # <<>>
    /\ c = Head(jobs)
    /\ jobs' = Tail(jobs)
    /\ TestOnce(c)

\* The event loop runs the next microtask: the caller tests the entry again.
Resume(c) ==
    /\ jobs # <<>>
    /\ c = Head(jobs)
    /\ jobs' = Tail(jobs)
    /\ TestAndSet(c)

\* fn resolves or rejects; either way the finally block deletes the entry and
\* resolves the promise, which queues its awaiters.  A fn ends in network I/O, and
\* settles in a turn of the event loop of its own, or it throws at once (the
\* faucet's limits), and its rejection is queued behind all that were resumed
\* before: either way they have run.
Release(c, awakened) ==
    /\ place[c] = "fn"
    /\ jobs = <<>>
    /\ inflight' = NoPromise
    /\ jobs' = awakened
    /\ reactions' = [reactions EXCEPT ![c] = <<>>]
    /\ place' = [d \in Caller |-> IF d = c THEN "settled"
                                  ELSE IF \E i \in DOMAIN awakened : awakened[i] = d
                                  THEN "resumed" ELSE place[d]]

\* Mutants: release() is forgotten; only the first awaiter is resumed.
SettleWithoutRelease(c) == Release(c, <<>>)
SettleWakesOne(c) == Release(c, IF reactions[c] = <<>> THEN <<>> ELSE <<Head(reactions[c])>>)

Settle(c) == Release(c, reactions[c])

LockNext == \E c \in Caller : Call(c) \/ Resume(c) \/ Settle(c)

LockSpec == LockInit /\ [][LockNext]_lockVars

\* The event loop drains its queue, and every fn that holds the lock settles.
\* No request is obliged to arrive.
LockFairness ==
    /\ WF_lockVars(\E c \in Caller : Resume(c))
    /\ \A c \in Caller : WF_lockVars(Settle(c))

FairLockSpec == LockSpec /\ LockFairness

-----------------------------------------------------------------------------
(* Properties *)

LockTypeOK ==
    /\ inflight \in Caller \cup {NoPromise}
    /\ place \in [Caller -> Place]
    /\ reactions \in [Caller -> Seq(Caller)]
    /\ jobs \in Seq(Caller)

\* The entry exists exactly while a fn runs, and it is the promise of that call.
HolderHasEntry == \A c \in Caller : place[c] = "fn" <=> inflight = c

\* q lists the callers that are at location loc, all of them, each once.
Lists(q, at, loc) ==
    /\ \A i \in DOMAIN q : at[q[i]] = loc
    /\ \A i, j \in DOMAIN q : q[i] = q[j] => i = j
    /\ \A c \in Caller : at[c] = loc => \E i \in DOMAIN q : q[i] = c

\* Every caller that waits is registered once, with the promise of the current
\* holder or in the microtask queue: it can be neither forgotten nor resumed twice.
WaitersQueuedOnce ==
    /\ Lists(jobs, place, "resumed")
    /\ \A h \in Caller : IF h = inflight THEN Lists(reactions[h], place, "awaiting")
                                         ELSE reactions[h] = <<>>
    /\ inflight = NoPromise => \A c \in Caller : place[c] # "awaiting"

\* The inductive invariant of withLock.
LockInv == LockTypeOK /\ HolderHasEntry /\ WaitersQueuedOnce

AbstractPhase ==
    [c \in Caller |-> CASE place[c] = "new" -> "idle"
                        [] place[c] \in {"awaiting", "resumed"} -> "waiting"
                        [] place[c] = "fn" -> "inside"
                        [] place[c] = "settled" -> "left"]

Exclusion == INSTANCE Mutex WITH phase <- AbstractPhase

\* withLock is a mutex: every step is a step of Mutex or leaves it unchanged.
\* A resumed caller that let itself in without testing the entry again
\* would break it.
ImplementsMutex == Exclusion!Spec

\* The callers that wait, in the order in which withLock will let them in.
Line == IF inflight = NoPromise THEN jobs ELSE reactions[inflight] \o jobs

Before(c, d) == \E i, j \in DOMAIN Line : i < j /\ Line[i] = c /\ Line[j] = d

\* The loop of withLock is fair among the callers that wait: one never gets in
\* before another that is ahead of it in the line, and none gets ahead.  (A
\* newcomer that calls between two microtasks can: see the README.)
NoOvertaking ==
    [][\A c, d \in Caller :
          Before(c, d) => /\ place'[d] # "fn"
                          /\ place'[c] # "fn" => Before(c, d)']_lockVars

\* No wake-up is lost: if fn always settles, every caller that waits gets in.
EveryWaiterEnters ==
    \A c \in Caller : place[c] \in {"awaiting", "resumed"} ~> place[c] = "fn"
=============================================================================
