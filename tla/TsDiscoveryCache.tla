-------------------------- MODULE TsDiscoveryCache --------------------------
(***************************************************************************)
(* AtpClient of the TypeScript client: the copy it keeps, and the one      *)
(* request that concurrent calls of getDiscovery share through #pending.   *)
(*                                                                         *)
(* A request is named by the caller that sent it.  Its #fetchDiscovery     *)
(* promise is settled when it is "stored" or "failed"; the promise that    *)
(* callers await is the one finally() returns, settled a microtask later   *)
(* (Settle), and each caller resumes in a microtask of its own.  Time      *)
(* passes only between macrotasks: once all of those have run.             *)
(***************************************************************************)
EXTENDS DiscoveryCopy

CONSTANTS
    Callers,    \* calls of verify under way at a time
    Nobody      \* no caller

\* The interface Copy: a document and the clocks when its age was 0.
Copies == [document : Documents, monotonic : Int, wall : Int]
Kept(d) == [document |-> d, monotonic |-> Stamp(d).monotonic, wall |-> Stamp(d).wall]

ASSUME TsAssumption == Nobody \notin Callers /\ None \notin Copies

VARIABLES
    copy,       \* AtpClient.#copy
    pending,    \* AtpClient.#pending: whose request it is
    phase,      \* how far the request of a caller is
    path,       \* the well-known path it is for
    started,    \* the monotonic clock when AbortSignal.timeout was called
    answer,     \* the answer under way
    pc,         \* where each caller is in verify
    awaits,     \* whose request a caller awaits
    document,   \* the document getDiscovery gave it
    verdict     \* what verify returns, or rejects with, at this moment

requestVars == <<phase, path, started, answer>>
callerVars == <<pc, awaits, document>>
vars == <<skyVars, copy, pending, requestVars, callerVars, verdict>>

InFlight(r) == phase[r] \in {"waiting", "answered"}
Settled(r) == phase[r] \in {"stored", "failed"}

TypeOK ==
    /\ SkyOK
    /\ copy \in Copies \cup {None}
    /\ pending \in Callers \cup {Nobody}
    /\ phase \in [Callers -> {"none", "waiting", "answered", "stored", "failed"}]
    /\ path \in [Callers -> {"atp", "opena2a"}]
    /\ started \in [Callers -> Int]
    /\ answer \in [Callers -> Answers]
    /\ pc \in [Callers -> {"idle", "awaiting", "returning", "rejecting"}]
    /\ awaits \in [Callers -> Callers \cup {Nobody}]
    /\ document \in [Callers -> Documents \cup {None}]
    /\ verdict \in {"none", "valid", "invalid", "unverified"}
    /\ \A c \in Callers : (pc[c] = "returning" => document[c] # None)
                          /\ (pc[c] = "awaiting" <=> awaits[c] # Nobody)

\* The constructor is given a stored copy, or none.
Init ==
    /\ SkyInit
    /\ copy = None \/ \E age \in StoredAges : copy = Kept(StoredCopy(age))
    /\ pending = Nobody
    /\ phase = [c \in Callers |-> "none"]
    /\ path = [c \in Callers |-> "atp"]
    /\ started = [c \in Callers |-> 0]
    /\ answer = [c \in Callers |-> NoAnswer]
    /\ pc = [c \in Callers |-> "idle"]
    /\ awaits = [c \in Callers |-> Nobody]
    /\ document = [c \in Callers |-> None]
    /\ verdict = "none"

-----------------------------------------------------------------------------
(* getDiscovery: the copy, the request under way, or a new request.        *)

\* Defect: the wall clock alone.
WallAgeAtMost(seconds) == Wall - copy.wall <= seconds

\* copyAge: the larger of the times elapsed on the two clocks.
CopyAgeAtMost(seconds) ==
    /\ Monotonic - copy.monotonic <= seconds
    /\ Wall - copy.wall <= seconds

CopyIsFresh == copy # None /\ CopyAgeAtMost(RefreshAfter)

GoTo(c, place) == pc' = [pc EXCEPT ![c] = place]
Await(c, r) == GoTo(c, "awaiting") /\ awaits' = [awaits EXCEPT ![c] = r]

\* The copy is young enough: the caller is given it, and verifies against it even
\* when another arrives before it resumes.
KeepCopy(c) ==
    /\ pc[c] = "idle"
    /\ CopyIsFresh
    /\ document' = [document EXCEPT ![c] = copy.document]
    /\ GoTo(c, "returning")
    /\ UNCHANGED <<skyVars, copy, pending, requestVars, awaits, verdict>>

\* A request is pending: the caller awaits it.
Join(c) ==
    /\ pc[c] = "idle"
    /\ ~CopyIsFresh
    /\ pending # Nobody
    /\ Await(c, pending)
    /\ UNCHANGED <<skyVars, copy, pending, requestVars, document, verdict>>

\* The caller sends a request of its own and makes it the pending one.
Send(c) ==
    /\ phase' = [phase EXCEPT ![c] = "waiting"]
    /\ path' = [path EXCEPT ![c] = "atp"]
    /\ started' = [started EXCEPT ![c] = Monotonic]
    /\ pending' = c
    /\ Await(c, c)
    /\ UNCHANGED <<skyVars, copy, answer, document, verdict>>

\* Defect: a call does not look whether a request is pending.
RequestAlways(c) ==
    /\ pc[c] = "idle" /\ phase[c] = "none"
    /\ ~CopyIsFresh
    /\ Send(c)

\* None is: the caller sends one.
Request(c) ==
    /\ pc[c] = "idle"
    /\ ~CopyIsFresh
    /\ pending = Nobody
    /\ Send(c)

-----------------------------------------------------------------------------
(* #fetchDiscovery.                                                        *)

\* The authority, or a shared cache on the way, sends a document: one it made
\* as long ago as the Age header says.  From here on the path makes no difference.
Answer(r) ==
    /\ phase[r] = "waiting"
    /\ \E age \in Ages :
         answer' = [answer EXCEPT ![r] = [made |-> now - age, age |-> age]]
    /\ phase' = [phase EXCEPT ![r] = "answered"]
    /\ path' = [path EXCEPT ![r] = "atp"]
    /\ UNCHANGED <<skyVars, copy, pending, started, callerVars, verdict>>

\* /.well-known/atp answers 404: the legacy path is requested.
TryLegacyPath(r) ==
    /\ phase[r] = "waiting"
    /\ path[r] = "atp"
    /\ path' = [path EXCEPT ![r] = "opena2a"]
    /\ started' = [started EXCEPT ![r] = Monotonic]
    /\ UNCHANGED <<skyVars, copy, pending, phase, answer, callerVars, verdict>>

\* The request is over: its variables go back to their first values.
EndRequest(r, end) ==
    /\ phase' = [phase EXCEPT ![r] = end]
    /\ path' = [path EXCEPT ![r] = "atp"]
    /\ started' = [started EXCEPT ![r] = 0]
    /\ answer' = [answer EXCEPT ![r] = NoAnswer]

\* It throws: the timeout, a status, a body or an Age header it refuses.
Fail(r) ==
    /\ InFlight(r)
    /\ EndRequest(r, "failed")
    /\ UNCHANGED <<skyVars, copy, pending, callerVars, verdict>>

\* Defect: the Age header is not held against the maximum.
ReceiveAny(r) ==
    /\ phase[r] = "answered"
    /\ copy' = Kept(CopyOf(answer[r]))
    /\ EndRequest(r, "stored")
    /\ UNCHANGED <<skyVars, pending, callerVars, verdict>>

\* The answer is complete and not older than the maximum: it becomes the copy.
Receive(r) ==
    /\ phase[r] = "answered"
    /\ answer[r].age <= MaxAge
    /\ copy' = Kept(CopyOf(answer[r]))
    /\ EndRequest(r, "stored")
    /\ UNCHANGED <<skyVars, pending, callerVars, verdict>>

\* Defect: the callers that await a failed request resume without its error.
ResumeAnyway(r) ==
    LET waiting == {c \in Callers : awaits[c] = r}
    IN  /\ pc' = [c \in Callers |-> IF c \in waiting THEN "returning" ELSE pc[c]]
        /\ awaits' = [c \in Callers |-> IF c \in waiting THEN Nobody ELSE awaits[c]]
        /\ document' = [c \in Callers |->
             IF c \in waiting /\ phase[r] = "stored" THEN copy.document ELSE document[c]]

\* The callers that await a request resume with its document, which is still the
\* copy, or with its error.
Resume(r) ==
    LET waiting == {c \in Callers : awaits[c] = r}
        end == IF phase[r] = "stored" THEN "returning" ELSE "rejecting"
    IN  /\ pc' = [c \in Callers |-> IF c \in waiting THEN end ELSE pc[c]]
        /\ awaits' = [c \in Callers |-> IF c \in waiting THEN Nobody ELSE awaits[c]]
        /\ document' = [c \in Callers |->
             IF c \in waiting /\ end = "returning" THEN copy.document ELSE document[c]]

\* Defect: then() in place of finally().
SettleStored(r) ==
    /\ Settled(r)
    /\ pending' = IF pending = r /\ phase[r] = "stored" THEN Nobody ELSE pending
    /\ Resume(r)
    /\ phase' = [phase EXCEPT ![r] = "none"]
    /\ UNCHANGED <<skyVars, copy, path, started, answer, verdict>>

\* finally() forgets the request, whether it failed or not, unless another has
\* taken its place; then the promise the callers await is settled.
Settle(r) ==
    /\ Settled(r)
    /\ pending' = IF pending = r THEN Nobody ELSE pending
    /\ Resume(r)
    /\ phase' = [phase EXCEPT ![r] = "none"]
    /\ UNCHANGED <<skyVars, copy, path, started, answer, verdict>>

-----------------------------------------------------------------------------
(* verify, with what getDiscovery gave it.                                 *)

\* The proof is checked against the keys of the document.
Return(c) ==
    /\ pc[c] = "returning"
    /\ verdict' = IF HasKey(document[c].made) THEN "valid" ELSE "invalid"
    /\ document' = [document EXCEPT ![c] = None]
    /\ GoTo(c, "idle")
    /\ UNCHANGED <<skyVars, copy, pending, requestVars, awaits>>

\* getDiscovery rejected with AtpError, and so does verify.
Reject(c) ==
    /\ pc[c] = "rejecting"
    /\ verdict' = "unverified"
    /\ GoTo(c, "idle")
    /\ UNCHANGED <<skyVars, copy, pending, requestVars, awaits, document>>

-----------------------------------------------------------------------------
(* Time.                                                                   *)

\* Every microtask has run.
Quiet ==
    \A c \in Callers : pc[c] \in {"idle", "awaiting"} /\ ~Settled(c)

\* Time passes with the host awake: no request outlives its AbortSignal.timeout.
Awake ==
    /\ Quiet
    /\ \A r \in Callers : InFlight(r) => Monotonic < started[r] + Timeout
    /\ Pass
    /\ verdict' = "none"
    /\ UNCHANGED <<copy, pending, requestVars, callerVars>>

\* The host sleeps, also while a request is under way.
Asleep ==
    /\ Quiet
    /\ Sleep
    /\ verdict' = "none"
    /\ UNCHANGED <<copy, pending, requestVars, callerVars>>

\* Someone sets the wall clock, but not within a macrotask either.
AdjustClock ==
    /\ Quiet
    /\ SetClock
    /\ UNCHANGED <<copy, pending, requestVars, callerVars, verdict>>

Revoke ==
    /\ RemoveKey
    /\ UNCHANGED <<copy, pending, requestVars, callerVars, verdict>>

Step(c) ==
    \/ KeepCopy(c) \/ Join(c) \/ Request(c) \/ Answer(c) \/ TryLegacyPath(c)
    \/ Fail(c) \/ Receive(c) \/ Settle(c) \/ Return(c) \/ Reject(c)

Next ==
    \/ \E c \in Callers : Step(c)
    \/ Awake \/ Asleep \/ AdjustClock \/ Revoke

Spec == Init /\ [][Next]_vars

-----------------------------------------------------------------------------
(* What the cache promises.                                                *)

\* One request for concurrent calls: the comment of getDiscovery.
SingleFlight ==
    \A r, s \in Callers : phase[r] # "none" /\ phase[s] # "none" => r = s

\* The pending request is one that is not over, so a call after a failure sends
\* a request again instead of awaiting the failed one, and a request that callers
\* await is one that will be settled.
PendingIsUnderWay ==
    /\ pending # Nobody => phase[pending] # "none"
    /\ \A c \in Callers : awaits[c] # Nobody => phase[awaits[c]] # "none"

\* A document that verify is about to use is fresh enough.
UsedCopyIsFresh ==
    \A c \in Callers : pc[c] = "returning" => FreshEnough(document[c])

\* Section 8.2, with the bound the Python client keeps as well.
Revocation == INSTANCE KeyRevocation WITH Bound <- MaxAge + Timeout + MaxSleep

RemovedKeyStops == Revocation!Spec

\* clients/README.md: a key the authority removes stops verifying once a copy
\* without it arrives.  Requests do not overlap, so no copy with the key follows
\* one without it, as long as no cache on the way sends older ones.
KeyNeverReturns ==
    [][copy # None /\ ~HasKey(copy.document.made) => ~HasKey(copy'.document.made)]_vars

=============================================================================
