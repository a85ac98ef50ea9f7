------------------------------ MODULE Exchange ------------------------------
(***************************************************************************)
(* One GET of the Python client: the thread that calls AtpClient._get (the *)
(* waiter) hands the request to a worker thread, waits for at most the     *)
(* request's timeout, and abandons the worker at that deadline.  The two   *)
(* share an _Exchange: an Event (done), the outcome, and, under _lock, the *)
(* flag _abandoned and the socket the connection has handed over.          *)
(*                                                                         *)
(* The bytes of an answer are abstracted to counts: head is the parity of  *)
(* the pieces of the head read so far (a peer may send interim answers     *)
(* without end), body counts reads of the body, and MaxBody stands for     *)
(* MAX_RESPONSE_BYTES.  What http.client and urllib do with the connection *)
(* is external: getresponse() closes the connection object as soon as the  *)
(* head says that the answer ends with the connection, and the response    *)
(* then reads on from the same socket.                                     *)
(***************************************************************************)
EXTENDS Naturals

CONSTANTS
    MaxBody,    \* reads of an answer's body that the client accepts
    Closing     \* what an answer's head may say: TRUE for "Connection: close"

ASSUME ExchangeAssumption == MaxBody \in Nat /\ Closing \subseteq BOOLEAN

VARIABLES
    waiter,     \* where the thread in _get is
    wait,       \* what done.wait(timeout) gave it
    result,     \* what _get returns or raises
    worker,     \* where the thread in _Exchange.run is
    pending,    \* what _exchange is about to return or raise
    outcome,    \* _Exchange.outcome
    done,       \* _Exchange.done
    lock,       \* who holds _Exchange._lock
    abandoned,  \* _Exchange._abandoned
    attached,   \* whether _Exchange._socket holds the socket
    sock,       \* the TCP connection
    head, body, \* how much of the answer the worker has read
    passed      \* whether getresponse() has closed the connection object

callVars == <<waiter, wait, result>>
workVars == <<pending, outcome, done>>
lockVars == <<lock, abandoned, attached>>
readVars == <<head, body, passed>>
vars == <<callVars, worker, workVars, lockVars, sock, readVars>>

Waits == {"none", "set", "deadline", "interrupted"}
Outcomes == {"unset", "fault", "transport", "status", "answer"}
Results == Waits \cup Outcomes \cup {"too_long", "not_json"}

PlacesOK ==
    /\ waiter \in {"start", "waiting", "finally", "abandoning", "shutting",
                   "judging", "returned"}
    /\ wait \in Waits
    /\ result \in Results
    /\ worker \in {"new", "connecting", "attaching", "storing", "head", "passing",
                   "body", "detaching", "closing", "publishing", "signalling", "ended"}
    /\ pending \in Outcomes
    /\ outcome \in Outcomes
    /\ lock \in {"free", "waiter", "worker"}
    /\ sock \in {"none", "open", "shut", "closed"}
    /\ head \in 0..1
    /\ body \in 0..(MaxBody + 1)

FlagsOK ==
    /\ done \in BOOLEAN /\ abandoned \in BOOLEAN
    /\ attached \in BOOLEAN /\ passed \in BOOLEAN

TypeOK == PlacesOK /\ FlagsOK

Init ==
    /\ waiter = "start" /\ wait = "none" /\ result = "none"
    /\ worker = "new" /\ pending = "unset" /\ outcome = "unset" /\ done = FALSE
    /\ lock = "free" /\ abandoned = FALSE /\ attached = FALSE
    /\ sock = "none" /\ head = 0 /\ body = 0 /\ passed = FALSE

-----------------------------------------------------------------------------
(* The worker: _Exchange.run and _exchange.                                *)

\* The worker stops reading and goes on to take its socket back.
GiveUp(why) ==
    /\ pending' = why
    /\ worker' = "detaching"

\* opener.open raises before there is a connection: an OSError from the name
\* lookup, the connect or the TLS handshake, or an error of another kind.
ConnectFails ==
    /\ worker = "connecting"
    /\ \E why \in {"transport", "fault"} : GiveUp(why)
    /\ UNCHANGED <<callVars, outcome, done, lockVars, sock, readVars>>

\* super().connect() returns with a connected socket.
Connect ==
    /\ worker = "connecting"
    /\ sock' = "open"
    /\ worker' = "attaching"
    /\ UNCHANGED <<callVars, workVars, lockVars, readVars>>

\* attach() takes the lock and finds the request abandoned: it raises
\* ConnectionAbortedError, an OSError.
AttachRefused ==
    /\ worker = "attaching"
    /\ lock = "free"
    /\ abandoned
    /\ GiveUp("transport")
    /\ UNCHANGED <<callVars, outcome, done, lockVars, sock, readVars>>

\* Defect: attach() does not look at the flag.
AttachCheckBlind ==
    /\ worker = "attaching"
    /\ lock = "free"
    /\ lock' = "worker"
    /\ worker' = "storing"
    /\ UNCHANGED <<callVars, workVars, abandoned, attached, sock, readVars>>

\* attach() takes the lock and finds the request still wanted ...
AttachCheck ==
    /\ worker = "attaching"
    /\ lock = "free"
    /\ ~abandoned
    /\ lock' = "worker"
    /\ worker' = "storing"
    /\ UNCHANGED <<callVars, workVars, abandoned, attached, sock, readVars>>

\* ... and stores the socket before it gives the lock back.
AttachStore ==
    /\ worker = "storing"
    /\ attached' = TRUE
    /\ lock' = "free"
    /\ worker' = "head"
    /\ UNCHANGED <<callVars, workVars, abandoned, sock, readVars>>

\* A piece of the head arrives and is not the end of it.  A shut socket still
\* gives what the kernel had buffered, but not without end.
ReadHead ==
    /\ worker = "head"
    /\ sock = "open"
    /\ head' = 1 - head
    /\ UNCHANGED <<callVars, worker, workVars, lockVars, sock, body, passed>>

\* The request or the head ends in an error: the peer, the timeout of one
\* read, or the end of a shut connection.  urllib closes the connection.
HeadFails ==
    /\ worker = "head"
    /\ GiveUp("transport")
    /\ UNCHANGED <<callVars, outcome, done, lockVars, sock, readVars>>

\* The head is complete: a 2xx answer, or a status urllib raises HTTPError for.
HeadEnds ==
    /\ worker = "head"
    /\ pending' \in {"answer", "status"}
    /\ \E closing \in Closing :
         worker' = IF closing THEN "passing"
                   ELSE IF pending' = "answer" THEN "body" ELSE "detaching"
    /\ UNCHANGED <<callVars, outcome, done, lockVars, sock, readVars>>

\* getresponse() passes the connection to the response: close() of the
\* connection takes the socket back, and the response keeps it open.
PassConnection ==
    /\ worker = "passing"
    /\ lock = "free"
    /\ attached' = FALSE
    /\ passed' = TRUE
    /\ worker' = IF pending = "answer" THEN "body" ELSE "detaching"
    /\ UNCHANGED <<callVars, workVars, lock, abandoned, sock, head, body>>

\* Defect: the loop does not count what it has read.
ReadBodyUnbounded ==
    /\ worker = "body"
    /\ sock # "closed"
    /\ body' = body + 1
    /\ UNCHANGED <<callVars, worker, workVars, lockVars, sock, head, passed>>

\* One read of the body returns bytes.
ReadBody ==
    /\ worker = "body"
    /\ body <= MaxBody
    /\ sock # "closed"
    /\ body' = body + 1
    /\ UNCHANGED <<callVars, worker, workVars, lockVars, sock, head, passed>>

\* The loop ends: the body is longer than the client accepts.
BodyTooLong ==
    /\ worker = "body"
    /\ body > MaxBody
    /\ worker' = "detaching"
    /\ UNCHANGED <<callVars, workVars, lockVars, sock, readVars>>

\* A read returns b"": the body is complete, or the connection has ended.  The
\* response closes the socket, which the exchange may still hold.
BodyEnds ==
    /\ worker = "body"
    /\ body <= MaxBody
    /\ sock' = "closed"
    /\ worker' = "detaching"
    /\ UNCHANGED <<callVars, workVars, lockVars, readVars>>

BodyFails ==
    /\ worker = "body"
    /\ body <= MaxBody
    /\ GiveUp("transport")
    /\ UNCHANGED <<callVars, outcome, done, lockVars, sock, readVars>>

\* detach(), of _exchange or of the connection's close().
Detach ==
    /\ worker = "detaching"
    /\ lock = "free"
    /\ attached' = FALSE
    /\ worker' = "closing"
    /\ UNCHANGED <<callVars, workVars, lock, abandoned, sock, readVars>>

Close ==
    /\ worker = "closing"
    /\ sock' = IF sock = "none" THEN "none" ELSE "closed"
    /\ worker' = "publishing"
    /\ UNCHANGED <<callVars, workVars, lockVars, readVars>>

Publish ==
    /\ worker = "publishing"
    /\ outcome' = pending
    /\ worker' = "signalling"
    /\ UNCHANGED <<callVars, pending, done, lockVars, sock, readVars>>

SetDone ==
    /\ worker = "signalling"
    /\ done' = TRUE
    /\ worker' = "ended"
    /\ UNCHANGED <<callVars, pending, outcome, lockVars, sock, readVars>>

-----------------------------------------------------------------------------
(* The waiter: AtpClient._get.                                             *)

Start ==
    /\ waiter = "start"
    /\ waiter' = "waiting"
    /\ worker' = "connecting"
    /\ UNCHANGED <<wait, result, workVars, lockVars, sock, readVars>>

\* Defect: done.wait() without a timeout.
WaitForDone ==
    /\ waiter = "waiting"
    /\ done
    /\ wait' = "set"
    /\ waiter' = "finally"
    /\ UNCHANGED <<result, worker, workVars, lockVars, sock, readVars>>

\* done.wait(timeout) returns True, or False at the deadline, which may fall
\* just after the worker has set done, or a signal raises KeyboardInterrupt.
WaitEnds ==
    /\ waiter = "waiting"
    /\ \/ done /\ wait' = "set"
       \/ wait' \in {"deadline", "interrupted"}
    /\ waiter' = "finally"
    /\ UNCHANGED <<result, worker, workVars, lockVars, sock, readVars>>

\* The finally block of _get: if not exchange.done.is_set().
CheckDone ==
    /\ waiter = "finally"
    /\ waiter' = IF done THEN "judging" ELSE "abandoning"
    /\ UNCHANGED <<wait, result, worker, workVars, lockVars, sock, readVars>>

\* Defect: abandon() sets the flag without taking the lock.
AbandonFlagUnlocked ==
    /\ waiter = "abandoning"
    /\ abandoned' = TRUE
    /\ waiter' = "shutting"
    /\ UNCHANGED <<wait, result, worker, workVars, lock, attached, sock, readVars>>

\* abandon() takes the lock and sets the flag ...
AbandonFlag ==
    /\ waiter = "abandoning"
    /\ lock = "free"
    /\ lock' = "waiter"
    /\ abandoned' = TRUE
    /\ waiter' = "shutting"
    /\ UNCHANGED <<wait, result, worker, workVars, attached, sock, readVars>>

\* Defect: abandon() sets the flag and leaves the socket alone.
AbandonFlagOnly ==
    /\ waiter = "shutting"
    /\ lock' = "free"
    /\ waiter' = "judging"
    /\ UNCHANGED <<wait, result, worker, workVars, abandoned, attached, sock, readVars>>

\* ... and shuts the socket it finds; one that is closed already gives an
\* OSError, which it ignores.
AbandonShut ==
    /\ waiter = "shutting"
    /\ sock' = IF attached /\ sock = "open" THEN "shut" ELSE sock
    /\ lock' = "free"
    /\ waiter' = "judging"
    /\ UNCHANGED <<wait, result, worker, workVars, abandoned, attached, readVars>>

\* What _get makes of the outcome it reads: it raises it, the RuntimeError that
\* stands there before run() has set one included, or judges the answer.
TakeOutcome ==
    \/ outcome # "answer" /\ result' = outcome
    \/ outcome = "answer" /\ body > MaxBody /\ result' = "too_long"
    \/ outcome = "answer" /\ body <= MaxBody /\ result' \in {"not_json", "answer"}

\* Defect: _get looks at done again instead of at what wait() returned.
JudgeDone ==
    /\ waiter = "judging"
    /\ \/ ~done /\ result' = wait
       \/ done /\ TakeOutcome
    /\ waiter' = "returned"
    /\ UNCHANGED <<wait, worker, workVars, lockVars, sock, readVars>>

Judge ==
    /\ waiter = "judging"
    /\ \/ wait # "set" /\ result' = wait
       \/ wait = "set" /\ TakeOutcome
    /\ waiter' = "returned"
    /\ UNCHANGED <<wait, worker, workVars, lockVars, sock, readVars>>

-----------------------------------------------------------------------------
Waiter == Start \/ WaitEnds \/ CheckDone \/ AbandonFlag \/ AbandonShut \/ Judge

\* A read of the head, of which one that returns is a step.
HeadStep == ReadHead \/ HeadFails \/ HeadEnds
BodyStep == ReadBody \/ BodyEnds \/ BodyFails
Network == Connect \/ ConnectFails \/ HeadStep \/ BodyStep

\* Steps of the worker that wait for nothing but the lock.
Local ==
    \/ AttachRefused \/ AttachCheck \/ AttachStore \/ PassConnection
    \/ BodyTooLong \/ Detach \/ Close \/ Publish \/ SetDone

\* The worker's thread ends, and the caller has its answer.
Finished == waiter = "returned" /\ worker = "ended" /\ UNCHANGED vars

Next == Waiter \/ Network \/ Local \/ Finished

\* Threads that can run do run and a wait ends at its deadline.  The network
\* owes the waiter nothing.
CallFairness == WF_vars(Waiter) /\ WF_vars(Local)

\* Each read or connect ends, with bytes or without: the socket timeout.
NetworkFairness == WF_vars(Network)

Spec == Init /\ [][Next]_vars
CallSpec == Spec /\ CallFairness

-----------------------------------------------------------------------------
(* What the exchange promises.                                             *)

\* What _get returns or raises, other than at the deadline or for a signal, is
\* the final outcome of a worker that has finished and was not abandoned: the
\* connection is closed, the placeholder RuntimeError is never raised, and an
\* answer cut short by abandon() is never taken for one that arrived.
ResultIsTheWorkers ==
    result \notin {"none", "deadline", "interrupted"} =>
        /\ done /\ worker = "ended" /\ ~abandoned
        /\ sock \in {"none", "closed"} /\ ~attached
        /\ result # "unset"
        /\ result = "answer" => body <= MaxBody

\* Once abandon() has returned, the worker is blocked in no read of a live
\* connection, whichever of attach() and abandon() took the lock first: the
\* class comment of _Exchange, "abandon() shuts that socket down, which ends a
\* read the worker is blocked in".
AbandonEndsRead ==
    abandoned /\ waiter \in {"judging", "returned"} /\ worker \in {"head", "body"} =>
        sock # "open"

\* The part of AbandonEndsRead that the code keeps: while getresponse() has not
\* passed the connection to the response.
AbandonEndsAttachedRead == ~passed => AbandonEndsRead

\* _get returns to its caller whatever the network does, also when the peer
\* never answers or sends a byte at a time: only the deadline is needed.
CallerReturns == (waiter = "waiting") ~> (waiter = "returned")

\* No worker outlives its request for good, not even against a peer that sends
\* pieces of a head without end: the deadline shuts the connection down, and
\* the worker then closes it and ends.
WorkerEnds ==
    NetworkFairness => ((worker = "connecting") ~> (worker = "ended" /\ sock # "open"))

=============================================================================
