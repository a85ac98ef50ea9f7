---------------------------- MODULE Surroundings ----------------------------
(***************************************************************************)
(* What both clients live in: time, the two clocks a client reads, and the *)
(* authority's discovery document.                                         *)
(*                                                                         *)
(* now is the time that passes for everyone.  time.monotonic() (and        *)
(* performance.now()) stands still while the host sleeps; time.time() (and *)
(* Date.now()) runs on, but can be set back or forward.  The document is   *)
(* abstracted to the moment it was made: the authority removes one key     *)
(* from it, and a document made before that moment holds the key.          *)
(***************************************************************************)
EXTENDS Integers

CONSTANTS
    MaxTime,    \* the last moment of a behaviour (a bound of the model)
    MaxSleep,   \* how long the host sleeps in all (a bound of the model)
    Offsets     \* by how much the wall clock may be off

ASSUME SurroundingsAssumption ==
    MaxTime \in Nat /\ MaxSleep \in Nat /\ Offsets \subseteq Int

VARIABLES
    now,        \* the time
    slept,      \* how long the host has slept
    offset,     \* how far the wall clock is ahead
    removedAt   \* when the authority removed the key, or Never

skyVars == <<now, slept, offset, removedAt>>

Never == -1

Monotonic == now - slept
Wall == now + offset

\* Whether a document made at a moment holds the key.
HasKey(made) == removedAt = Never \/ made < removedAt

SkyOK ==
    /\ now \in 0..MaxTime
    /\ slept \in 0..MaxSleep
    /\ offset \in Int
    /\ removedAt \in {Never} \cup 1..(MaxTime + 1)

SkyInit ==
    /\ now = 0
    /\ slept = 0
    /\ offset = 0
    /\ removedAt = Never

\* A moment passes with the host awake.
Pass ==
    /\ now < MaxTime
    /\ now' = now + 1
    /\ UNCHANGED <<slept, offset, removedAt>>

\* A moment passes with the host asleep: the monotonic clock stands still.
Sleep ==
    /\ now < MaxTime
    /\ slept < MaxSleep
    /\ now' = now + 1
    /\ slept' = slept + 1
    /\ UNCHANGED <<offset, removedAt>>

\* Someone sets the wall clock.
SetClock ==
    /\ offset' \in Offsets
    /\ offset' # offset
    /\ UNCHANGED <<now, slept, removedAt>>

\* The authority removes the key (Section 8.2): the documents it makes from the
\* next moment on are without it.
RemoveKey ==
    /\ removedAt = Never
    /\ removedAt' = now + 1
    /\ UNCHANGED <<now, slept, offset>>

=============================================================================
