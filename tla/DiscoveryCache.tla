--------------------------- MODULE DiscoveryCache ---------------------------
(***************************************************************************)
(* AtpClient of the Python client, called by several threads: the copy of  *)
(* the discovery document it keeps, the age it gives that copy on its two  *)
(* clocks, and the verifications that use it.  There is no lock: every     *)
(* thread that finds the copy too old requests the document for itself.    *)
(*                                                                         *)
(* A request is one Exchange; here it is answered, or it fails.  Steps     *)
(* between a reading of the clocks and the use of the copy take no time    *)
(* at the model's resolution: Awake and Asleep wait for them.              *)
(***************************************************************************)
EXTENDS DiscoveryCopy

CONSTANT Threads    \* the threads that call verify

VARIABLES
    discovery,  \* AtpClient._discovery
    received,   \* AtpClient._received
    pc,         \* where each thread is in verify
    path,       \* the well-known path a thread requests
    started,    \* the monotonic clock when its request began
    answer,     \* the answer under way to a thread: when made, and its Age
    verdict     \* what verify returns, or raises, at this moment

copyVars == <<discovery, received>>
requestVars == <<path, started, answer>>
vars == <<skyVars, copyVars, pc, requestVars, verdict>>

TypeOK ==
    /\ SkyOK
    /\ discovery \in Documents \cup {None}
    /\ received \in [monotonic : Int, wall : Int]
    /\ pc \in [Threads -> {"idle", "waiting", "answered", "returning"}]
    /\ path \in [Threads -> {"atp", "opena2a"}]
    /\ started \in [Threads -> Int]
    /\ answer \in [Threads -> Answers]
    /\ verdict \in {"none", "valid", "invalid", "unverified"}
    /\ (\E t \in Threads : pc[t] = "returning") => discovery # None

\* The constructor is given a stored copy, or none.
Init ==
    /\ SkyInit
    /\ \/ discovery = None /\ received = [monotonic |-> 0, wall |-> 0]
       \/ \E age \in StoredAges :
            discovery = StoredCopy(age) /\ received = Stamp(StoredCopy(age))
    /\ pc = [t \in Threads |-> "idle"]
    /\ path = [t \in Threads |-> "atp"]
    /\ started = [t \in Threads |-> 0]
    /\ answer = [t \in Threads |-> NoAnswer]
    /\ verdict = "none"

-----------------------------------------------------------------------------
(* The age of the copy: AtpClient._copy_age.                               *)

\* Defect: the monotonic clock alone.
MonotonicAgeAtMost(seconds) == Monotonic - received.monotonic <= seconds

\* The larger of the times elapsed on the two clocks is at most seconds.
CopyAgeAtMost(seconds) ==
    /\ Monotonic - received.monotonic <= seconds
    /\ Wall - received.wall <= seconds

CopyIsFresh == discovery # None /\ CopyAgeAtMost(RefreshAfter)

-----------------------------------------------------------------------------
(* verify and get_discovery, thread by thread.                             *)

At(t, place) == pc[t] = place
Requesting(t) == pc[t] \in {"waiting", "answered"}
GoTo(t, place) == pc' = [pc EXCEPT ![t] = place]

\* The request of a thread is over: its variables go back to their first values.
Forget(t) ==
    /\ path' = [path EXCEPT ![t] = "atp"]
    /\ started' = [started EXCEPT ![t] = 0]
    /\ answer' = [answer EXCEPT ![t] = NoAnswer]

\* get_discovery finds a copy that is young enough.
KeepCopy(t) ==
    /\ At(t, "idle")
    /\ CopyIsFresh
    /\ GoTo(t, "returning")
    /\ UNCHANGED <<skyVars, copyVars, requestVars, verdict>>

\* It finds none, or one that is too old, and requests the document.
Request(t) ==
    /\ At(t, "idle")
    /\ ~CopyIsFresh
    /\ GoTo(t, "waiting")
    /\ started' = [started EXCEPT ![t] = Monotonic]
    /\ UNCHANGED <<skyVars, copyVars, path, answer, verdict>>

\* The authority, or a shared cache on the way, sends a document: one it made
\* as long ago as the Age header says.  From here on the path makes no difference.
Answer(t) ==
    /\ At(t, "waiting")
    /\ \E age \in Ages :
         answer' = [answer EXCEPT ![t] = [made |-> now - age, age |-> age]]
    /\ path' = [path EXCEPT ![t] = "atp"]
    /\ GoTo(t, "answered")
    /\ UNCHANGED <<skyVars, copyVars, started, verdict>>

\* /.well-known/atp answers 404: the legacy path is requested.
TryLegacyPath(t) ==
    /\ At(t, "waiting")
    /\ path[t] = "atp"
    /\ path' = [path EXCEPT ![t] = "opena2a"]
    /\ started' = [started EXCEPT ![t] = Monotonic]
    /\ UNCHANGED <<skyVars, copyVars, pc, answer, verdict>>

\* Defect: the earlier copy is returned when the request fails.
FailToCopy(t) ==
    /\ Requesting(t)
    /\ GoTo(t, "returning")
    /\ Forget(t)
    /\ UNCHANGED <<skyVars, copyVars, verdict>>

\* get_discovery raises AtpError: the deadline, a status, a body or an Age
\* header it refuses.  verify raises it too, and the copy stays as it was.
Fail(t) ==
    /\ Requesting(t)
    /\ GoTo(t, "idle")
    /\ Forget(t)
    /\ verdict' = "unverified"
    /\ UNCHANGED <<skyVars, copyVars>>

\* Defect: the Age header is not held against the maximum.
ReceiveAny(t) ==
    /\ At(t, "answered")
    /\ discovery' = CopyOf(answer[t])
    /\ received' = Stamp(CopyOf(answer[t]))
    /\ GoTo(t, "returning")
    /\ Forget(t)
    /\ UNCHANGED <<skyVars, verdict>>

\* The answer is complete: both clocks are read, an Age header above the maximum
\* is refused (Fail), and any other answer replaces the copy, whichever thread
\* stored that one and whenever it was made.  self._discovery, self._received
\* are stored as one step: CPython does not switch threads between them.
Receive(t) ==
    /\ At(t, "answered")
    /\ answer[t].age <= MaxAge
    /\ discovery' = CopyOf(answer[t])
    /\ received' = Stamp(CopyOf(answer[t]))
    /\ GoTo(t, "returning")
    /\ Forget(t)
    /\ UNCHANGED <<skyVars, verdict>>

\* get_discovery returns self._discovery as it is now, whichever thread stored
\* it, and verify checks the proof against its keys.
Return(t) ==
    /\ At(t, "returning")
    /\ verdict' = IF HasKey(discovery.made) THEN "valid" ELSE "invalid"
    /\ GoTo(t, "idle")
    /\ UNCHANGED <<skyVars, copyVars, requestVars>>

-----------------------------------------------------------------------------
(* Time.                                                                   *)

Waits(t) == Requesting(t) => Monotonic < started[t] + Timeout

NobodyReturns == \A t \in Threads : ~At(t, "returning")

\* Time passes with the host awake: no request outlives its deadline, which
\* Event.wait measures on the monotonic clock.
Awake ==
    /\ NobodyReturns
    /\ \A t \in Threads : Waits(t)
    /\ Pass
    /\ verdict' = "none"
    /\ UNCHANGED <<copyVars, pc, requestVars>>

\* The host sleeps, also while requests are under way.
Asleep ==
    /\ NobodyReturns
    /\ Sleep
    /\ verdict' = "none"
    /\ UNCHANGED <<copyVars, pc, requestVars>>

\* Someone sets the wall clock, but not within a verification either.
AdjustClock ==
    /\ NobodyReturns
    /\ SetClock
    /\ UNCHANGED <<copyVars, pc, requestVars, verdict>>

Revoke == RemoveKey /\ UNCHANGED <<copyVars, pc, requestVars, verdict>>

Step(t) ==
    \/ KeepCopy(t) \/ Request(t) \/ Answer(t) \/ TryLegacyPath(t) \/ Fail(t)
    \/ Receive(t) \/ Return(t)

Next ==
    \/ \E t \in Threads : Step(t)
    \/ Awake \/ Asleep \/ AdjustClock \/ Revoke

Spec == Init /\ [][Next]_vars

-----------------------------------------------------------------------------
(* What the cache promises.                                                *)

\* A copy that verify is about to use is fresh enough, although another thread
\* may have replaced the one get_discovery looked at: either a sleep or a clock
\* that is set back alone hides nothing (the comment of _copy_age).
UsedCopyIsFresh ==
    \A t \in Threads : At(t, "returning") => FreshEnough(discovery)

\* Section 8.2: a removed key stops verifying within the maximum age of the
\* copy, the timeout of the request that fetched it and the time the host
\* slept; and no proof is rejected while the key is listed.
Revocation == INSTANCE KeyRevocation WITH Bound <- MaxAge + Timeout + MaxSleep

RemovedKeyStops == Revocation!Spec

\* clients/README.md: a key the authority removes stops verifying once a copy
\* without it arrives, so no copy with the key follows one without it.
KeyNeverReturns ==
    [][discovery # None /\ ~HasKey(discovery.made) => ~HasKey(discovery'.made)]_vars

=============================================================================
