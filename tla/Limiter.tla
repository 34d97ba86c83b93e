------------------------------- MODULE Limiter -------------------------------
(***************************************************************************)
(* RateLimiter of app/upstream/openrouter.py: calls to OpenRouter take     *)
(* turns at an asyncio.Lock, and the one that finds the window full sleeps *)
(* inside it.  Time passes in ticks: two readings of the clock that are    *)
(* exactly a period apart, to the nanosecond, are left out.                *)
(***************************************************************************)
EXTENDS Integers, Sequences, FiniteSets

CONSTANTS
    Callers,        \* calls to OpenRouter in one process
    MaxCalls,       \* max_calls
    Period,         \* period_seconds, in ticks
    EndOfTime       \* bound: the last tick

VARIABLES
    now,        \* time.monotonic()
    calls,      \* _calls
    waiter,     \* each caller: "out", "queued", "asleep" with the lock, "through"
    wakeAt,     \* when the one who sleeps may wake
    starts      \* history: when each caller went through, 0 for not yet

LimiterConstants ==
    /\ IsFiniteSet(Callers)
    /\ MaxCalls \in Nat \ {0} /\ Period \in Nat /\ EndOfTime \in Nat \ {0}

limiterVars == <<now, calls, waiter, wakeAt, starts>>

TypeOK ==
    /\ now \in 1..EndOfTime
    /\ calls \in Seq(1..EndOfTime)
    /\ waiter \in [Callers -> {"out", "queued", "asleep", "through"}]
    /\ wakeAt \in 0..(EndOfTime + Period)
    /\ starts \in [Callers -> 0..EndOfTime]

Init ==
    /\ now = 1
    /\ calls = <<>>
    /\ waiter = [c \in Callers |-> "out"]
    /\ wakeAt = 0
    /\ starts = [c \in Callers |-> 0]

Tick ==
    /\ now < EndOfTime
    /\ now' = now + 1
    /\ UNCHANGED <<calls, waiter, wakeAt, starts>>

Ask(c) ==
    /\ waiter[c] = "out"
    /\ waiter' = [waiter EXCEPT ![c] = "queued"]
    /\ UNCHANGED <<now, calls, wakeAt, starts>>

\* Mutant of LockIsFree: sleeping outside the lock
NoLock == TRUE

LockIsFree == \A c \in Callers : waiter[c] # "asleep"

\* The popleft loop takes k calls off and stops; no reading is exactly a period
\* old
Pops(k) ==
    /\ \A i \in 1..k : now - calls[i] > Period
    /\ k < Len(calls) => now - calls[k + 1] <= Period
Kept(k) == SubSeq(calls, k + 1, Len(calls))
NotToTheTick == \A i \in DOMAIN calls : now - calls[i] # Period

Through(c, kept) ==
    /\ calls' = Append(kept, now)
    /\ waiter' = [waiter EXCEPT ![c] = "through"]
    /\ starts' = [starts EXCEPT ![c] = now]

\* Room in the window
Acquire(c) ==
    /\ waiter[c] = "queued"
    /\ LockIsFree /\ NotToTheTick
    /\ \E k \in 0..Len(calls) :
        /\ Pops(k)
        /\ Len(calls) - k < MaxCalls
        /\ Through(c, Kept(k))
    /\ UNCHANGED <<now, wakeAt>>

\* Not yet: sleep, holding the lock, until the oldest call leaves the window
AcquireFull(c) ==
    /\ waiter[c] = "queued"
    /\ LockIsFree /\ NotToTheTick
    /\ \E k \in 0..Len(calls) :
        /\ Pops(k)
        /\ Len(calls) - k >= MaxCalls
        /\ calls' = Kept(k)
        /\ wakeAt' = now + Period - (now - calls[k + 1])
    /\ waiter' = [waiter EXCEPT ![c] = "asleep"]
    /\ UNCHANGED <<now, starts>>

\* The sleeper does not look at the window again, and pops nothing
WakeUp(c) ==
    /\ waiter[c] = "asleep"
    /\ now > wakeAt
    /\ Through(c, calls)
    /\ UNCHANGED <<now, wakeAt>>

\* The caller's deadline or its client is gone: the lock is released
Cancelled(c) ==
    /\ waiter[c] \in {"queued", "asleep"}
    /\ waiter' = [waiter EXCEPT ![c] = "out"]
    /\ UNCHANGED <<now, calls, wakeAt, starts>>

Next ==
    \/ Tick
    \/ \E c \in Callers : \/ Ask(c) \/ Acquire(c) \/ AcquireFull(c)
                          \/ WakeUp(c) \/ Cancelled(c)

-----------------------------------------------------------------------------
\* OpenRouter never sees more than max_calls calls in a period, whoever slept,
\* was cancelled or arrived while the sleeper kept the lock.
WithinTheRate ==
    \A t \in 1..EndOfTime :
        Cardinality({c \in Callers : starts[c] \in (t - Period + 1)..t /\ starts[c] > 0}) <= MaxCalls
=============================================================================
