------------------------ MODULE DiscoveryCacheProofs ------------------------
(***************************************************************************)
(* Theorems about the Python client's copy of the discovery document, for  *)
(* any number of threads, any clock and any maximum age, timeout and Age.  *)
(*                                                                         *)
(* IInv relates the four quantities a used key depends on: when a document *)
(* was made, when its age was 0, how long its request took and how long    *)
(* the host slept.                                                         *)
(***************************************************************************)
EXTENDS DiscoveryCache, TLAPS

\* The copy's reading of the clocks is that of the copy itself, and its request
\* took at most the timeout, not counting the time the host slept until then.
CopyOK ==
    discovery # None =>
        /\ received = Stamp(discovery)
        /\ discovery.made <= discovery.born
        /\ discovery.born <= now
        /\ discovery.slept <= slept
        /\ discovery.born <= discovery.made + Timeout + discovery.slept

\* A request is within its deadline, and its answer was sent after it began.
RequestOK(t) ==
    /\ Requesting(t) => /\ started[t] <= Monotonic
                        /\ Monotonic <= started[t] + Timeout
    /\ At(t, "answered") => /\ answer[t].made + answer[t].age <= now
                            /\ started[t] <= answer[t].made + answer[t].age

RequestsOK == \A t \in Threads : RequestOK(t)

IInv == TypeOK /\ CopyOK /\ RequestsOK /\ UsedCopyIsFresh

-----------------------------------------------------------------------------

\* The steps that leave the surroundings alone.
LEMMA StepKeepsSky ==
    ASSUME NEW t \in Threads, Step(t)
    PROVE  UNCHANGED skyVars
BY DEF Step, KeepCopy, Request, Answer, TryLegacyPath, Fail, Receive, Return

LEMMA SkyType ==
    ASSUME SkyOK, Next
    PROVE  /\ SkyOK'
           /\ now <= now' /\ slept <= slept'
           /\ Monotonic <= Monotonic'
<1> USE SurroundingsAssumption
<1>1. CASE \E t \in Threads : Step(t)
    BY <1>1, StepKeepsSky DEF SkyOK, skyVars, Monotonic
<1>2. CASE Awake
    BY <1>2 DEF Awake, Pass, SkyOK, Monotonic, Never
<1>3. CASE Asleep
    BY <1>3 DEF Asleep, Sleep, SkyOK, Monotonic, Never
<1>4. CASE AdjustClock
    BY <1>4 DEF AdjustClock, SetClock, SkyOK, Monotonic, Never
<1>5. CASE Revoke
    BY <1>5 DEF Revoke, RemoveKey, SkyOK, Monotonic, Never
<1> QED BY <1>1, <1>2, <1>3, <1>4, <1>5 DEF Next

LEMMA CopyOfType ==
    ASSUME TypeOK, NEW t \in Threads
    PROVE  /\ CopyOf(answer[t]) \in Documents
           /\ CopyOf(answer[t]) # None
           /\ Stamp(CopyOf(answer[t])) \in [monotonic : Int, wall : Int]
BY CopyAssumption, SurroundingsAssumption
   DEF TypeOK, SkyOK, Answers, CopyOf, Documents, Stamp

\* Every variable keeps its type, and a thread that returns has a copy to use.
LEMMA TypeStep ==
    ASSUME TypeOK, [Next]_vars
    PROVE  TypeOK'
<1> USE CopyAssumption, SurroundingsAssumption
<1>1. CASE UNCHANGED vars
    BY <1>1 DEF TypeOK, SkyOK, vars, skyVars, copyVars, requestVars
<1>2. CASE Next
    <2>1. SkyOK'
        BY <1>2, SkyType DEF TypeOK
    <2>2. ASSUME NEW t \in Threads, Step(t)
          PROVE  TypeOK'
        <3>1. CASE KeepCopy(t)
            BY <2>1, <3>1 DEF KeepCopy, GoTo, At, CopyIsFresh, TypeOK, skyVars,
                              copyVars, requestVars
        <3>2. CASE Request(t)
            BY <2>1, <3>2 DEF Request, GoTo, At, TypeOK, SkyOK, Monotonic, skyVars,
                              copyVars
        <3>3. CASE Answer(t)
            BY <2>1, <3>3 DEF Answer, Answers, GoTo, At, TypeOK, SkyOK,
                              skyVars, copyVars
        <3>4. CASE TryLegacyPath(t)
            BY <2>1, <3>4 DEF TryLegacyPath, TypeOK, SkyOK, Monotonic, skyVars,
                              copyVars
        <3>5. CASE Fail(t)
            BY <2>1, <3>5 DEF Fail, GoTo, Forget, NoAnswer, Answers, TypeOK, skyVars, copyVars
        <3>6. CASE Receive(t)
            BY <2>1, <3>6, CopyOfType
               DEF Receive, GoTo, Forget, NoAnswer, Answers, TypeOK, skyVars
        <3>7. CASE Return(t)
            BY <2>1, <3>7 DEF Return, GoTo, TypeOK, skyVars, copyVars, requestVars
        <3> QED BY <2>2, <3>1, <3>2, <3>3, <3>4, <3>5, <3>6, <3>7 DEF Step
    <2>3. CASE Awake \/ Asleep \/ AdjustClock \/ Revoke
        BY <2>1, <2>3 DEF Awake, Asleep, AdjustClock, Revoke, TypeOK, copyVars,
                          requestVars
    <2> QED BY <1>2, <2>2, <2>3 DEF Next
<1> QED BY <1>1, <1>2

LEMMA InitType ==
    ASSUME Init
    PROVE  TypeOK
BY CopyAssumption, SurroundingsAssumption
   DEF Init, SkyInit, TypeOK, SkyOK, Stamp, StoredCopy, Documents, NoAnswer, Answers,
       Never

\* Every variable of the client holds a value of its type, for any constants.
THEOREM TypeCorrect == Spec => []TypeOK
<1>1. Init => TypeOK
    BY InitType
<1>2. TypeOK /\ [Next]_vars => TypeOK'
    BY TypeStep
<1> QED BY <1>1, <1>2, PTL DEF Spec
-----------------------------------------------------------------------------

LEMMA InitIInv ==
    ASSUME Init
    PROVE  IInv
<1>1. CopyOK
    BY CopyAssumption, SurroundingsAssumption
       DEF Init, SkyInit, CopyOK, Stamp, StoredCopy
<1>2. RequestsOK /\ UsedCopyIsFresh
    BY DEF Init, RequestsOK, RequestOK, Requesting, At, UsedCopyIsFresh
<1> QED BY <1>1, <1>2, InitType DEF IInv

\* The copy changes only when an answer arrives, and time and sleep only grow.
LEMMA CopyStep ==
    ASSUME IInv, Next
    PROVE  CopyOK'
<1> USE CopyAssumption, SurroundingsAssumption
<1>1. CASE UNCHANGED copyVars
    <2>1. now \in Int /\ slept \in Int /\ now' \in Int /\ slept' \in Int
          /\ now <= now' /\ slept <= slept'
        BY SkyType DEF IInv, TypeOK, SkyOK
    <2>2. discovery # None => discovery \in Documents
        BY DEF IInv, TypeOK
    <2> QED BY <1>1, <2>1, <2>2 DEF IInv, CopyOK, copyVars, Documents, Stamp
<1>2. ASSUME NEW t \in Threads, Receive(t)
      PROVE  CopyOK'
    <2>1. /\ now \in Int /\ slept \in Nat /\ started[t] \in Int
          /\ answer[t] \in Answers
        BY DEF IInv, TypeOK, SkyOK
    <2>2. /\ now - slept <= started[t] + Timeout
          /\ answer[t].made + answer[t].age <= now
          /\ started[t] <= answer[t].made + answer[t].age
        BY <1>2 DEF IInv, RequestsOK, RequestOK, Receive, At, Requesting, Monotonic
    <2>3. /\ discovery' = CopyOf(answer[t]) /\ received' = Stamp(CopyOf(answer[t]))
          /\ now' = now /\ slept' = slept
        BY <1>2 DEF Receive, skyVars
    <2> QED BY <2>1, <2>2, <2>3 DEF CopyOK, CopyOf, Answers, Stamp
<1>3. ASSUME NEW t \in Threads, Step(t), ~Receive(t)
      PROVE  UNCHANGED copyVars
    BY <1>3 DEF Step, KeepCopy, Request, Answer, TryLegacyPath, Fail, Return, copyVars
<1>4. CASE Awake \/ Asleep \/ AdjustClock \/ Revoke
    BY <1>1, <1>4 DEF Awake, Asleep, AdjustClock, Revoke
<1> QED BY <1>1, <1>2, <1>3, <1>4 DEF Next

\* A request begins within its deadline, and time passes only up to it.
LEMMA RequestsStep ==
    ASSUME IInv, Next
    PROVE  RequestsOK'
<1> SUFFICES ASSUME NEW u \in Threads
             PROVE  RequestOK(u)'
    BY DEF RequestsOK
<1> USE CopyAssumption, SurroundingsAssumption
<1>1. /\ now \in Int /\ slept \in Int /\ started \in [Threads -> Int]
      /\ answer \in [Threads -> Answers]
      /\ pc \in [Threads -> {"idle", "waiting", "answered", "returning"}]
      /\ path \in [Threads -> {"atp", "opena2a"}]
    BY DEF IInv, TypeOK, SkyOK
<1>2. RequestOK(u)
    BY DEF IInv, RequestsOK
<1>3. ASSUME NEW t \in Threads, Step(t)
      PROVE  RequestOK(u)'
    <2>1. Monotonic' = Monotonic /\ now' = now
        BY <1>3, StepKeepsSky DEF skyVars, Monotonic
    <2>2. CASE KeepCopy(t)
        BY <1>1, <1>2, <2>1, <2>2 DEF KeepCopy, GoTo, RequestOK, Requesting, At, requestVars
    <2>3. CASE Request(t)
        BY <1>1, <1>2, <2>1, <2>3 DEF Request, GoTo, RequestOK, Requesting, At, Monotonic
    <2>4. CASE Answer(t)
        <3>1. PICK age \in Ages :
                answer' = [answer EXCEPT ![t] = [made |-> now - age, age |-> age]]
            BY <2>4 DEF Answer
        <3>2. age \in Nat
            OBVIOUS
        <3>3. CASE u = t
            <4>1. /\ started[u] <= Monotonic
                  /\ Monotonic <= started[u] + Timeout
                BY <1>2, <2>4, <3>3 DEF RequestOK, Requesting, Answer, At
            <4>2. started[u] <= now
                BY <1>1, <4>1 DEF Monotonic, IInv, TypeOK, SkyOK
            <4>3. answer'[u].made = now - age /\ answer'[u].age = age
                BY <1>1, <3>1, <3>3
            <4>4. started' = started
                BY <2>4 DEF Answer
            <4> QED BY <1>1, <2>1, <3>2, <4>1, <4>2, <4>3, <4>4
                    DEF RequestOK, Requesting, At
        <3>4. CASE u # t
            BY <1>1, <1>2, <2>1, <2>4, <3>1, <3>4 DEF Answer, GoTo, RequestOK, Requesting, At
        <3> QED BY <3>3, <3>4
    <2>5. CASE TryLegacyPath(t)
        BY <1>1, <1>2, <2>1, <2>5 DEF TryLegacyPath, RequestOK, Requesting, At, Monotonic
    <2>6. CASE Fail(t)
        BY <1>1, <1>2, <2>1, <2>6 DEF Fail, GoTo, Forget, RequestOK, Requesting, At
    <2>7. CASE Receive(t)
        BY <1>1, <1>2, <2>1, <2>7 DEF Receive, GoTo, Forget, RequestOK, Requesting, At
    <2>8. CASE Return(t)
        BY <1>1, <1>2, <2>1, <2>8 DEF Return, GoTo, RequestOK, Requesting, At, requestVars
    <2> QED BY <1>3, <2>2, <2>3, <2>4, <2>5, <2>6, <2>7, <2>8 DEF Step
<1>4. CASE Awake
    <2>1. Requesting(u) => now - slept < started[u] + Timeout
        BY <1>4 DEF Awake, Waits, Monotonic
    <2> QED BY <1>1, <1>2, <1>4, <2>1
            DEF Awake, Pass, RequestOK, Requesting, At, Answers, Monotonic, requestVars
<1>5. CASE Asleep
    BY <1>1, <1>2, <1>5
       DEF Asleep, Sleep, RequestOK, Requesting, At, Answers, Monotonic, requestVars
<1>6. CASE AdjustClock \/ Revoke
    BY <1>1, <1>2, <1>6
       DEF AdjustClock, SetClock, Revoke, RemoveKey, RequestOK, Requesting, At,
           Monotonic, requestVars
<1> QED BY <1>3, <1>4, <1>5, <1>6 DEF Next

\* A copy is young enough when get_discovery keeps it or receives it, and it is
\* used before any clock moves on.
LEMMA UseStep ==
    ASSUME IInv, Next
    PROVE  UsedCopyIsFresh'
<1> USE CopyAssumption, SurroundingsAssumption
<1>0. /\ now \in Int /\ slept \in Int /\ offset \in Int
      /\ pc \in [Threads -> {"idle", "waiting", "answered", "returning"}]
      /\ discovery # None => discovery \in Documents
    BY DEF IInv, TypeOK, SkyOK
<1>1. ASSUME NEW t \in Threads, Step(t)
      PROVE  UsedCopyIsFresh'
    <2>1. now' = now /\ slept' = slept /\ offset' = offset
        BY <1>1, StepKeepsSky DEF skyVars
    <2>2. CASE KeepCopy(t)
        <3>1. /\ discovery' = discovery
              /\ pc' = [pc EXCEPT ![t] = "returning"]
              /\ CopyIsFresh
            BY <2>2 DEF KeepCopy, GoTo, copyVars
        <3>2. /\ discovery \in Documents
              /\ received = Stamp(discovery)
            BY <1>0, <3>1 DEF CopyIsFresh, IInv, CopyOK
        <3>3. /\ TrueAge(discovery) <= RefreshAfter + SleptSince(discovery)
              /\ TrueAge(discovery) <= RefreshAfter + SetBackSince(discovery)
            BY <1>0, <3>1, <3>2
               DEF CopyIsFresh, CopyAgeAtMost, Monotonic, Wall, Stamp, Documents,
                   FreshEnough, TrueAge, SleptSince, SetBackSince
        <3> QED BY <2>1, <3>1, <3>3
                DEF UsedCopyIsFresh, At, FreshEnough, TrueAge, SleptSince, SetBackSince
    <2>3. CASE Receive(t)
        <3>1. answer[t].age \in Nat /\ answer[t].age <= MaxAge
            BY <2>3 DEF Receive, IInv, TypeOK, Answers
        <3>2. TrueAge(CopyOf(answer[t])) <= MaxAge
            BY <1>0, <3>1 DEF TrueAge, CopyOf
        <3>3. TrueAge(discovery)' <= MaxAge
            BY <2>1, <2>3, <3>2 DEF Receive, TrueAge
        <3> QED BY <3>3 DEF UsedCopyIsFresh, FreshEnough
    <2>4. CASE Request(t) \/ Answer(t) \/ TryLegacyPath(t) \/ Fail(t) \/ Return(t)
        <3>1. discovery' = discovery
            BY <2>4 DEF Request, Answer, TryLegacyPath, Fail, Return, copyVars
        <3>2. \A u \in Threads : At(u, "returning")' => At(u, "returning")
            BY <1>0, <2>4 DEF Request, Answer, TryLegacyPath, Fail, Return, GoTo, At
        <3> QED BY <2>1, <3>1, <3>2
                DEF IInv, UsedCopyIsFresh, FreshEnough, TrueAge, SleptSince, SetBackSince
    <2> QED BY <1>1, <2>2, <2>3, <2>4 DEF Step
<1>2. CASE Awake \/ Asleep \/ AdjustClock
    BY <1>2 DEF Awake, Asleep, AdjustClock, NobodyReturns, At, UsedCopyIsFresh
<1>3. CASE Revoke
    BY <1>3 DEF Revoke, RemoveKey, At, IInv, UsedCopyIsFresh, FreshEnough, TrueAge, SleptSince,
                SetBackSince, copyVars
<1> QED BY <1>1, <1>2, <1>3 DEF Next

LEMMA Induction ==
    ASSUME IInv, [Next]_vars
    PROVE  IInv'
<1>1. CASE Next
    BY <1>1, TypeStep, CopyStep, RequestsStep, UseStep DEF IInv
<1>2. CASE UNCHANGED vars
    <2>1. TypeOK'
        BY <1>2, TypeStep DEF IInv
    <2>2. CopyOK' /\ RequestsOK' /\ UsedCopyIsFresh'
        BY <1>2 DEF IInv, CopyOK, RequestsOK, RequestOK, Requesting, At, Monotonic,
                    UsedCopyIsFresh, FreshEnough, TrueAge, SleptSince, SetBackSince, Stamp, vars,
                    skyVars, copyVars, requestVars
    <2> QED BY <2>1, <2>2 DEF IInv
<1> QED BY <1>1, <1>2

\* The inductive invariant.
THEOREM Invariance == Spec => []IInv
<1>1. Init => IInv
    BY InitIInv
<1>2. IInv /\ [Next]_vars => IInv'
    BY Induction
<1> QED BY <1>1, <1>2, PTL DEF Spec

\* verify never uses a copy older than the maximum age of Section 7.1, or than
\* refresh_after but for time that both clocks missed, with any number of
\* threads that replace the copy under one another.
THEOREM UsedCopiesAreFresh == Spec => []UsedCopyIsFresh
<1>1. IInv => UsedCopyIsFresh
    BY DEF IInv
<1> QED BY <1>1, Invariance, PTL

-----------------------------------------------------------------------------
(* The cache implements KeyRevocation.                                     *)

\* What a verification may conclude from the copy it uses.
LEMMA ReturnedVerdict ==
    ASSUME IInv, NEW t \in Threads, At(t, "returning")
    PROVE  /\ HasKey(discovery.made) =>
                  \/ removedAt = Never
                  \/ now < removedAt + (MaxAge + Timeout + MaxSleep)
           /\ ~HasKey(discovery.made) => removedAt # Never /\ removedAt <= now
<1> USE CopyAssumption, SurroundingsAssumption
<1>1. /\ now \in Int /\ slept \in 0..MaxSleep /\ removedAt \in Int
      /\ discovery # None /\ discovery \in Documents
    BY DEF IInv, TypeOK, SkyOK, At, Never
<1>2. /\ discovery.made <= discovery.born
      /\ discovery.born <= now
      /\ discovery.born <= discovery.made + Timeout + discovery.slept
    BY <1>1 DEF IInv, CopyOK
<1>3. \/ now - discovery.born <= MaxAge
      \/ now - discovery.born <= RefreshAfter + slept - discovery.slept
    BY <1>1 DEF IInv, UsedCopyIsFresh, FreshEnough, TrueAge, SleptSince, Documents
<1>4. discovery.slept <= slept
    BY <1>1 DEF IInv, CopyOK
<1>5. now <= discovery.made + (MaxAge + Timeout + MaxSleep)
    BY <1>1, <1>2, <1>3, <1>4 DEF Documents
<1>6. discovery.made <= now
    BY <1>1, <1>2 DEF Documents
<1>7. discovery.made \in Int
    BY <1>1 DEF Documents
<1> QED BY <1>1, <1>5, <1>6, <1>7 DEF HasKey

\* Every step of the cache is one of KeyRevocation, or leaves its state alone.
LEMMA RevocationStep ==
    ASSUME IInv, Next
    PROVE  [Revocation!Next]_(Revocation!vars)
<1> USE DEF Revocation!Next, Revocation!vars
<1>1. ASSUME NEW t \in Threads, Step(t)
      PROVE  [Revocation!Next]_(Revocation!vars)
    <2>1. now' = now /\ removedAt' = removedAt
        BY <1>1, StepKeepsSky DEF skyVars
    <2>2. CASE Return(t)
        <3>1. At(t, "returning")
            BY <2>2 DEF Return
        <3>2. CASE HasKey(discovery.made)
            BY <2>1, <2>2, <3>1, <3>2, ReturnedVerdict
               DEF Return, Revocation!Accept, Revocation!Never, Never
        <3>3. CASE ~HasKey(discovery.made)
            BY <2>1, <2>2, <3>1, <3>3, ReturnedVerdict
               DEF Return, Revocation!Reject, Revocation!Never, Never
        <3> QED BY <3>2, <3>3
    <2>3. CASE Fail(t)
        BY <2>1, <2>3 DEF Fail, Revocation!LeaveUnverified
    <2>4. CASE KeepCopy(t) \/ Request(t) \/ Answer(t) \/ TryLegacyPath(t) \/ Receive(t)
        BY <2>1, <2>4 DEF KeepCopy, Request, Answer, TryLegacyPath, Receive
    <2> QED BY <1>1, <2>2, <2>3, <2>4 DEF Step
<1>2. CASE Awake \/ Asleep
    <2>1. now \in Int
        BY SurroundingsAssumption DEF IInv, TypeOK, SkyOK
    <2> QED BY <1>2, <2>1 DEF Awake, Pass, Asleep, Sleep, Revocation!TimePasses
<1>3. CASE AdjustClock
    BY <1>3 DEF AdjustClock, SetClock
<1>4. CASE Revoke
    BY <1>4 DEF Revoke, RemoveKey, Revocation!RemoveKey, Revocation!Never, Never
<1> QED BY <1>1, <1>2, <1>3, <1>4 DEF Next

\* Section 8.2 for the Python client: the cache implements KeyRevocation, so a
\* removed key stops verifying MaxAge + Timeout + MaxSleep after its removal at
\* the latest, and no proof is rejected while its key is listed.
THEOREM RemovedKeysStop == Spec => RemovedKeyStops
<1>1. Init => Revocation!Init
    BY DEF Init, SkyInit, Revocation!Init, Revocation!Never, Never
<1>2. IInv /\ [Next]_vars => [Revocation!Next]_(Revocation!vars)
    <2> SUFFICES ASSUME IInv, [Next]_vars
                 PROVE  [Revocation!Next]_(Revocation!vars)
        OBVIOUS
    <2>1. CASE Next
        BY <2>1, RevocationStep
    <2>2. CASE UNCHANGED vars
        BY <2>2 DEF vars, skyVars, Revocation!vars
    <2> QED BY <2>1, <2>2
<1> QED BY <1>1, <1>2, Invariance, PTL DEF Spec, RemovedKeyStops, Revocation!Spec

=============================================================================
