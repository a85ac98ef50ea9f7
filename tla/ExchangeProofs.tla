--------------------------- MODULE ExchangeProofs ---------------------------
(***************************************************************************)
(* Proofs about Exchange, for every MaxBody and every set of heads.        *)
(*                                                                         *)
(* ResultIsTheWorkers and AbandonEndsAttachedRead are not inductive: each  *)
(* rests on who may hold the lock, on where the two threads are when the   *)
(* socket is handed over, and on what the worker has published when done   *)
(* is set.  IInv states those facts, part by part.                         *)
(***************************************************************************)
EXTENDS Exchange, TLAPS

\* The lock is held exactly while attach() stores and while abandon() shuts.
LockInv ==
    /\ lock = "worker" <=> worker = "storing"
    /\ lock = "waiter" <=> waiter = "shutting"

\* Where the waiter is tells what it has waited for and whether it abandoned.
WaiterInv ==
    /\ waiter = "start" <=> worker = "new"
    /\ waiter \in {"start", "waiting"} <=> wait = "none"
    /\ waiter \in {"start", "waiting", "finally", "abandoning"} => ~abandoned
    /\ waiter = "shutting" => abandoned
    /\ wait = "set" => done /\ ~abandoned /\ waiter # "abandoning"
    /\ waiter # "returned" => result = "none"

\* Where the worker is tells what it holds, will publish and has published.
WorkerInv ==
    /\ done <=> worker = "ended"
    /\ worker \in {"new", "connecting", "attaching", "storing", "closing",
                   "publishing", "signalling", "ended"} => ~attached
    /\ worker \in {"new", "connecting", "attaching", "storing", "head", "passing"} =>
           ~passed
    /\ worker \in {"publishing", "signalling", "ended"} => sock \in {"none", "closed"}
    /\ worker \in {"passing", "body", "detaching", "closing", "publishing", "signalling"} =>
           pending # "unset"
    /\ worker \in {"signalling", "ended"} => outcome # "unset"

\* A socket that is handed over is either wanted or no longer open.
SocketInv ==
    /\ worker = "storing" => ~abandoned
    /\ worker \in {"head", "passing"} => attached
    /\ worker = "body" /\ ~passed => attached
    /\ attached /\ abandoned /\ waiter # "shutting" => sock # "open"

\* What a result that came from the worker says about the exchange.
ResultInv ==
    result \notin {"none", "deadline", "interrupted"} =>
        /\ wait = "set" /\ result # "unset"
        /\ result = "answer" => body <= MaxBody

IInv == TypeOK /\ LockInv /\ WaiterInv /\ WorkerInv /\ SocketInv /\ ResultInv

-----------------------------------------------------------------------------

\* The flags of the exchange are set to TRUE and FALSE only.
LEMMA FlagsType == FlagsOK /\ [Next]_vars => FlagsOK'
<1> SUFFICES ASSUME FlagsOK, [Next]_vars PROVE FlagsOK'
  OBVIOUS
<1> USE DEF FlagsOK, callVars, workVars, lockVars, readVars
<1>1. CASE ConnectFails
  BY <1>1, Zenon DEF ConnectFails, GiveUp
<1>2. CASE Connect
  BY <1>2, Zenon DEF Connect
<1>3. CASE AttachRefused
  BY <1>3, Zenon DEF AttachRefused, GiveUp
<1>4. CASE AttachCheck
  BY <1>4, Zenon DEF AttachCheck
<1>5. CASE AttachStore
  BY <1>5, Zenon DEF AttachStore
<1>6. CASE ReadHead
  BY <1>6, Zenon DEF ReadHead
<1>7. CASE HeadFails
  BY <1>7, Zenon DEF HeadFails, GiveUp
<1>8. CASE HeadEnds
  BY <1>8, Zenon DEF HeadEnds
<1>9. CASE PassConnection
  BY <1>9, Zenon DEF PassConnection
<1>10. CASE ReadBody
  BY <1>10, Zenon DEF ReadBody
<1>11. CASE BodyTooLong
  BY <1>11, Zenon DEF BodyTooLong
<1>12. CASE BodyEnds
  BY <1>12, Zenon DEF BodyEnds
<1>13. CASE BodyFails
  BY <1>13, Zenon DEF BodyFails, GiveUp
<1>14. CASE Detach
  BY <1>14, Zenon DEF Detach
<1>15. CASE Close
  BY <1>15, Zenon DEF Close
<1>16. CASE Publish
  BY <1>16, Zenon DEF Publish
<1>17. CASE SetDone
  BY <1>17, Zenon DEF SetDone
<1>18. CASE Start
  BY <1>18, Zenon DEF Start
<1>19. CASE WaitEnds
  BY <1>19, Zenon DEF WaitEnds
<1>20. CASE CheckDone
  BY <1>20, Zenon DEF CheckDone
<1>21. CASE AbandonFlag
  BY <1>21, Zenon DEF AbandonFlag
<1>22. CASE AbandonShut
  BY <1>22, Zenon DEF AbandonShut
<1>23. CASE Judge
  BY <1>23, Zenon DEF Judge, TakeOutcome
<1>24. CASE UNCHANGED vars
  BY <1>24, Zenon DEF vars
<1>25. QED
  BY <1>1, <1>2, <1>3, <1>4, <1>5, <1>6, <1>7, <1>8, <1>9, <1>10, <1>11, <1>12, <1>13, <1>14, <1>15, <1>16, <1>17, <1>18, <1>19, <1>20, <1>21, <1>22, <1>23, <1>24, Zenon
  DEF Next, Waiter, Network, Local, HeadStep, BodyStep, Finished

\* The two threads stay where the code can be, and body within its bound.
LEMMA PlacesType == PlacesOK /\ [Next]_vars => PlacesOK'
<1> SUFFICES ASSUME PlacesOK, [Next]_vars PROVE PlacesOK'
  OBVIOUS
<1> USE ExchangeAssumption
    DEF PlacesOK, Waits, Outcomes, Results, callVars, workVars, lockVars, readVars
<1>1. CASE ConnectFails
  BY <1>1, SMT DEF ConnectFails, GiveUp
<1>2. CASE Connect
  BY <1>2, SMT DEF Connect
<1>3. CASE AttachRefused
  BY <1>3, SMT DEF AttachRefused, GiveUp
<1>4. CASE AttachCheck
  BY <1>4, SMT DEF AttachCheck
<1>5. CASE AttachStore
  BY <1>5, SMT DEF AttachStore
<1>6. CASE ReadHead
  BY <1>6, SMT DEF ReadHead
<1>7. CASE HeadFails
  BY <1>7, SMT DEF HeadFails, GiveUp
<1>8. CASE HeadEnds
  BY <1>8, SMT DEF HeadEnds
<1>9. CASE PassConnection
  BY <1>9, SMT DEF PassConnection
<1>10. CASE ReadBody
  BY <1>10, SMT DEF ReadBody
<1>11. CASE BodyTooLong
  BY <1>11, SMT DEF BodyTooLong
<1>12. CASE BodyEnds
  BY <1>12, SMT DEF BodyEnds
<1>13. CASE BodyFails
  BY <1>13, SMT DEF BodyFails, GiveUp
<1>14. CASE Detach
  BY <1>14, SMT DEF Detach
<1>15. CASE Close
  BY <1>15, SMT DEF Close
<1>16. CASE Publish
  BY <1>16, SMT DEF Publish
<1>17. CASE SetDone
  BY <1>17, SMT DEF SetDone
<1>18. CASE Start
  BY <1>18, SMT DEF Start
<1>19. CASE WaitEnds
  BY <1>19, SMT DEF WaitEnds
<1>20. CASE CheckDone
  BY <1>20, SMT DEF CheckDone
<1>21. CASE AbandonFlag
  BY <1>21, SMT DEF AbandonFlag
<1>22. CASE AbandonShut
  BY <1>22, SMT DEF AbandonShut
<1>23. CASE Judge
  BY <1>23, SMT DEF Judge, TakeOutcome
<1>24. CASE UNCHANGED vars
  BY <1>24, SMT DEF vars
<1>25. QED
  BY <1>1, <1>2, <1>3, <1>4, <1>5, <1>6, <1>7, <1>8, <1>9, <1>10, <1>11, <1>12, <1>13, <1>14, <1>15, <1>16, <1>17, <1>18, <1>19, <1>20, <1>21, <1>22, <1>23, <1>24, Zenon
  DEF Next, Waiter, Network, Local, HeadStep, BodyStep, Finished

\* Type correctness of the exchange: every variable of the two threads and of
\* the connection stays in its set, and body never passes MaxBody + 1.
THEOREM TypeCorrect == Spec => []TypeOK
<1>1. Init => FlagsOK
  BY Zenon DEF Init, FlagsOK
<1>2. Init => PlacesOK
  BY ExchangeAssumption, SMT DEF Init, PlacesOK, Waits, Outcomes, Results
<1>3. QED
  BY <1>1, <1>2, FlagsType, PlacesType, PTL DEF Spec, TypeOK

\* Every step keeps the five parts of IInv.
LEMMA StepKeepsParts ==
    IInv /\ [Next]_vars => LockInv' /\ WaiterInv' /\ WorkerInv' /\ SocketInv' /\ ResultInv'
<1> DEFINE Parts == LockInv /\ WaiterInv /\ WorkerInv /\ SocketInv /\ ResultInv
<1> SUFFICES ASSUME IInv, [Next]_vars PROVE Parts'
  OBVIOUS
<1> USE DEF IInv, TypeOK, PlacesOK, Waits, Outcomes, Results,
        LockInv, WaiterInv, WorkerInv, SocketInv, ResultInv,
        callVars, workVars, lockVars, readVars
<1>1. CASE ConnectFails
  BY <1>1, SMT DEF ConnectFails, GiveUp
<1>2. CASE Connect
  BY <1>2, SMT DEF Connect
<1>3. CASE AttachRefused
  BY <1>3, SMT DEF AttachRefused, GiveUp
<1>4. CASE AttachCheck
  BY <1>4, SMT DEF AttachCheck
<1>5. CASE AttachStore
  BY <1>5, SMT DEF AttachStore
<1>6. CASE ReadHead
  BY <1>6, SMT DEF ReadHead
<1>7. CASE HeadFails
  BY <1>7, SMT DEF HeadFails, GiveUp
<1>8. CASE HeadEnds
  BY <1>8, SMT DEF HeadEnds
<1>9. CASE PassConnection
  BY <1>9, SMT DEF PassConnection
<1>10. CASE ReadBody
  BY <1>10, SMT DEF ReadBody
<1>11. CASE BodyTooLong
  BY <1>11, SMT DEF BodyTooLong
<1>12. CASE BodyEnds
  BY <1>12, SMT DEF BodyEnds
<1>13. CASE BodyFails
  BY <1>13, SMT DEF BodyFails, GiveUp
<1>14. CASE Detach
  BY <1>14, SMT DEF Detach
<1>15. CASE Close
  BY <1>15, SMT DEF Close
<1>16. CASE Publish
  BY <1>16, SMT DEF Publish
<1>17. CASE SetDone
  BY <1>17, SMT DEF SetDone
<1>18. CASE Start
  BY <1>18, SMT DEF Start
<1>19. CASE WaitEnds
  BY <1>19, SMT DEF WaitEnds
<1>20. CASE CheckDone
  BY <1>20, SMT DEF CheckDone
<1>21. CASE AbandonFlag
  BY <1>21, SMT DEF AbandonFlag
<1>22. CASE AbandonShut
  BY <1>22, SMT DEF AbandonShut
<1>23. CASE Judge
  BY <1>23, SMT DEF Judge, TakeOutcome
<1>24. CASE UNCHANGED vars
  BY <1>24 DEF vars
<1>25. QED
  BY <1>1, <1>2, <1>3, <1>4, <1>5, <1>6, <1>7, <1>8, <1>9, <1>10, <1>11, <1>12, <1>13, <1>14, <1>15, <1>16, <1>17, <1>18, <1>19, <1>20, <1>21, <1>22, <1>23, <1>24, Zenon
  DEF Next, Waiter, Network, Local, HeadStep, BodyStep, Finished

-----------------------------------------------------------------------------
(* The theorems.                                                           *)

\* The inductive invariant holds of every behaviour.
THEOREM Invariance == Spec => []IInv
<1>1. Init => LockInv /\ WaiterInv /\ WorkerInv /\ SocketInv /\ ResultInv
  BY Zenon DEF Init, LockInv, WaiterInv, WorkerInv, SocketInv, ResultInv
<1>2. QED
  BY <1>1, TypeCorrect, StepKeepsParts, PTL DEF Spec, IInv

\* What _get returns or raises, other than at the deadline or for a signal, is
\* the outcome of a worker that has finished, closed its connection and was
\* never abandoned: no answer cut short by abandon() reaches a caller.
THEOREM ResultIsFinal == Spec => []ResultIsTheWorkers
<1>1. IInv => ResultIsTheWorkers
  BY Zenon DEF IInv, WaiterInv, WorkerInv, ResultInv, ResultIsTheWorkers
<1>2. QED
  BY <1>1, Invariance, PTL

\* Whichever of attach() and abandon() takes the lock first, a worker is not
\* left reading a live connection that the exchange could have shut down.
THEOREM AttachedReadEnds == Spec => []AbandonEndsAttachedRead
<1>1. IInv => AbandonEndsAttachedRead
  BY Zenon DEF IInv, SocketInv, AbandonEndsAttachedRead, AbandonEndsRead
<1>2. QED
  BY <1>1, Invariance, PTL

\* Once abandon() has returned, a worker reads a live connection only when it goes on with a
\* body that getresponse() had passed the connection of before: whatever an answer says of its
\* connection, no request is sent and no read of a head or a body begins.
NoReadBeginsLate ==
    [][abandoned /\ waiter # "shutting" /\ sock' = "open" /\ worker' \in {"head", "body"}
       => worker = "body" /\ passed]_vars

\* How far abandon() reaches, for answers that close their connection (urllib asks for them
\* with each request) as for those that keep it: finding 1 is about reads under way, and
\* never about one that begins after abandon().
THEOREM AbandonStopsNewReads == Spec => NoReadBeginsLate
<1> DEFINE Late == abandoned /\ waiter # "shutting" /\ sock' = "open" /\ worker' \in {"head", "body"}
           GoesOn == worker = "body" /\ passed
<1>1. IInv /\ [Next]_vars => [Late => GoesOn]_vars
  <2> SUFFICES ASSUME IInv, Next, Late PROVE GoesOn
    OBVIOUS
  <2> USE DEF IInv, SocketInv
  <2>1. CASE AttachStore
    BY <2>1, SMT DEF AttachStore
  <2>2. CASE HeadStep
    BY <2>2, SMT DEF HeadStep, ReadHead, HeadFails, HeadEnds, GiveUp
  <2>3. CASE PassConnection
    BY <2>3, SMT DEF PassConnection
  <2>4. CASE BodyStep
    BY <2>4, SMT DEF BodyStep, ReadBody, BodyEnds, BodyFails, GiveUp
  <2>5. CASE Connect \/ ConnectFails \/ AttachRefused \/ AttachCheck
    BY <2>5, SMT DEF Connect, ConnectFails, AttachRefused, AttachCheck, GiveUp
  <2>6. CASE BodyTooLong \/ Detach \/ Close \/ Publish \/ SetDone
    BY <2>6, Zenon DEF BodyTooLong, Detach, Close, Publish, SetDone
  <2>7. CASE Start \/ AbandonFlag \/ AbandonShut
    BY <2>7, Zenon DEF WaiterInv, Start, AbandonFlag, AbandonShut
  <2>8. CASE WaitEnds \/ CheckDone \/ Judge \/ Finished
    BY <2>8, Zenon DEF WaitEnds, CheckDone, Judge, Finished, vars, lockVars, readVars
  <2>9. QED
    BY <2>1, <2>2, <2>3, <2>4, <2>5, <2>6, <2>7, <2>8, Zenon DEF Next, Network, Local, Waiter
<1>2. QED
  BY <1>1, Invariance, PTL DEF Spec, NoReadBeginsLate

=============================================================================
