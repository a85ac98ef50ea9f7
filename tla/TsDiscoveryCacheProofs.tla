------------------------ MODULE TsDiscoveryCacheProofs ------------------------
(***************************************************************************)
(* Theorems about the TypeScript client's copy and its shared request, for *)
(* any number of callers, any clock and any maximum age, timeout and Age.  *)
(*                                                                         *)
(* IInv says that there is one request, that it is the pending one, and    *)
(* that whoever awaits a request awaits it; that the copy is new while the *)
(* request that stored it is not forgotten; and, as for the Python client, *)
(* how a document's making, its age and the sleep of the host relate.      *)
(***************************************************************************)
EXTENDS TsDiscoveryCache, TLAPS

\* One request, the pending one, which is what callers await.
SharedOK ==
    /\ pending # Nobody => phase[pending] # "none"
    /\ \A r \in Callers : phase[r] # "none" => pending = r
    /\ \A c \in Callers : awaits[c] # Nobody => awaits[c] = pending

\* A document's request took at most the timeout, not counting the host's sleep; time is
\* the time, and sleep how long the host has slept.
DocumentOK(d, time, sleep) ==
    /\ d.made <= d.born /\ d.born <= time /\ d.slept <= sleep
    /\ d.born <= d.made + Timeout + d.slept

CopyOK ==
    /\ copy # None => copy = Kept(copy.document) /\ DocumentOK(copy.document, now, slept)
    /\ \A c \in Callers : document[c] # None => DocumentOK(document[c], now, slept)

\* No time passes between the storing of a copy and the callers' resuming.
StoredOK ==
    \A r \in Callers : phase[r] = "stored" => copy # None /\ TrueAge(copy.document) <= MaxAge

\* A request is within its deadline, and its answer was sent after it began.
RequestOK(r) ==
    /\ InFlight(r) => started[r] <= Monotonic /\ Monotonic <= started[r] + Timeout
    /\ phase[r] = "answered" => /\ answer[r].made + answer[r].age <= now
                                /\ started[r] <= answer[r].made + answer[r].age
RequestsOK == \A r \in Callers : RequestOK(r)

IInv == TypeOK /\ SharedOK /\ CopyOK /\ StoredOK /\ RequestsOK /\ UsedCopyIsFresh

-----------------------------------------------------------------------------
(* Types, and the sharing of the request.                                  *)

LEMMA StepKeepsSky ==
    ASSUME NEW c \in Callers, Step(c)
    PROVE  UNCHANGED skyVars
BY DEF Step, KeepCopy, Join, Request, Send, Answer, TryLegacyPath, Fail, Receive, Settle, Return, Reject

LEMMA SkyType ==
    ASSUME SkyOK, Next
    PROVE  /\ SkyOK' /\ now <= now' /\ slept <= slept' /\ Monotonic <= Monotonic'
<1> USE SurroundingsAssumption
<1>1. CASE \E c \in Callers : Step(c)
  BY <1>1, StepKeepsSky DEF SkyOK, skyVars, Monotonic
<1>2. CASE Awake
  BY <1>2 DEF Awake, Pass, SkyOK, Monotonic, Never
<1>3. CASE Asleep
  BY <1>3 DEF Asleep, Sleep, SkyOK, Monotonic, Never
<1>4. CASE AdjustClock
  BY <1>4 DEF AdjustClock, SetClock, SkyOK, Monotonic, Never
<1>5. CASE Revoke
  BY <1>5 DEF Revoke, RemoveKey, SkyOK, Monotonic, Never
<1> QED BY <1>1, <1>2, <1>3, <1>4, <1>5 DEF Next

LEMMA KeptType ==
    ASSUME NEW d \in Documents
    PROVE  Kept(d) \in Copies /\ Kept(d).document = d /\ Kept(d) # None
BY TsAssumption DEF Kept, Copies, Stamp, Documents

LEMMA CopyOfType ==
    ASSUME TypeOK, NEW r \in Callers
    PROVE  CopyOf(answer[r]) \in Documents
BY CopyAssumption, SurroundingsAssumption DEF TypeOK, SkyOK, Answers, CopyOf, Documents

LEMMA CopyHasDocument ==
    ASSUME TypeOK, copy # None
    PROVE  copy.document \in Documents /\ copy.document # None
BY CopyAssumption DEF TypeOK, Copies

LEMMA TypeStep ==
    ASSUME IInv, [Next]_vars
    PROVE  TypeOK'
<1> USE CopyAssumption, SurroundingsAssumption, TsAssumption
<1> TypeOK
  BY DEF IInv
<1>1. CASE UNCHANGED vars
  BY <1>1 DEF TypeOK, SkyOK, vars, skyVars, requestVars, callerVars
<1>2. CASE Next
  <2>1. SkyOK'
    BY <1>2, SkyType DEF TypeOK
  <2>2. ASSUME NEW c \in Callers, Step(c)
        PROVE  TypeOK'
    <3>1. CASE KeepCopy(c)
      BY <2>1, <3>1, CopyHasDocument DEF KeepCopy, CopyIsFresh, GoTo, TypeOK, requestVars
    <3>2. CASE Join(c)
      BY <2>1, <3>2 DEF Join, Await, GoTo, TypeOK, requestVars
    <3>3. CASE Request(c)
      <4>1. Monotonic \in Int
        BY DEF TypeOK, SkyOK, Monotonic
      <4> QED BY <2>1, <3>3, <4>1 DEF Request, Send, Await, GoTo, TypeOK
    <3>4. CASE Answer(c)
      BY <2>1, <3>4 DEF Answer, Answers, TypeOK, SkyOK, callerVars
    <3>5. CASE TryLegacyPath(c)
      <4>1. Monotonic \in Int
        BY DEF TypeOK, SkyOK, Monotonic
      <4> QED BY <2>1, <3>5, <4>1 DEF TryLegacyPath, TypeOK, callerVars
    <3>6. CASE Fail(c)
      BY <2>1, <3>6 DEF Fail, EndRequest, NoAnswer, Answers, TypeOK, callerVars
    <3>7. CASE Receive(c)
      BY <2>1, <3>7, CopyOfType, KeptType DEF Receive, EndRequest, NoAnswer, Answers, TypeOK, callerVars
    <3>8. CASE Settle(c)
      <4>1. phase[c] = "stored" => copy.document \in Documents /\ copy.document # None
        BY CopyHasDocument DEF IInv, StoredOK
      <4>2. /\ pc' \in [Callers -> {"idle", "awaiting", "returning", "rejecting"}]
            /\ awaits' \in [Callers -> Callers \cup {Nobody}]
            /\ document' \in [Callers -> Documents \cup {None}]
        BY <3>8, <4>1 DEF Settle, Resume, TypeOK
      <4>3. \A b \in Callers : (pc'[b] = "returning" => document'[b] # None)
                               /\ (pc'[b] = "awaiting" <=> awaits'[b] # Nobody)
        BY <3>8, <4>1 DEF Settle, Resume, TypeOK
      <4> QED BY <2>1, <3>8, <4>2, <4>3 DEF Settle, TypeOK
    <3>9. CASE Return(c)
      BY <2>1, <3>9 DEF Return, GoTo, TypeOK, requestVars
    <3>10. CASE Reject(c)
      BY <2>1, <3>10 DEF Reject, GoTo, TypeOK, requestVars
    <3> QED BY <2>2, <3>1, <3>2, <3>3, <3>4, <3>5, <3>6, <3>7, <3>8, <3>9, <3>10 DEF Step
  <2>3. CASE Awake \/ Asleep \/ AdjustClock \/ Revoke
    BY <2>1, <2>3 DEF Awake, Asleep, AdjustClock, Revoke, TypeOK, requestVars, callerVars
  <2> QED BY <1>2, <2>2, <2>3 DEF Next
<1> QED BY <1>1, <1>2

LEMMA SharedStep ==
    ASSUME IInv, Next
    PROVE  SharedOK'
<1> USE TsAssumption
<1>0. SharedOK /\ phase \in [Callers -> {"none", "waiting", "answered", "stored", "failed"}]
      /\ awaits \in [Callers -> Callers \cup {Nobody}] /\ pending \in Callers \cup {Nobody}
  BY DEF IInv, TypeOK
<1>1. ASSUME NEW c \in Callers, Step(c)
      PROVE  SharedOK'
  <2>1. CASE KeepCopy(c) \/ Return(c) \/ Reject(c)
    BY <1>0, <2>1 DEF KeepCopy, Return, Reject, SharedOK, requestVars
  <2>2. CASE Join(c)
    BY <1>0, <2>2 DEF Join, Await, SharedOK, requestVars
  <2>3. CASE Request(c)
    BY <1>0, <2>3 DEF Request, Send, Await, SharedOK
  <2>4. CASE Answer(c) \/ TryLegacyPath(c) \/ Fail(c) \/ Receive(c)
    <3>1. pending' = pending /\ awaits' = awaits
      BY <2>4 DEF Answer, TryLegacyPath, Fail, Receive, callerVars
    <3>2. \A r \in Callers : phase'[r] # "none" <=> phase[r] # "none"
      BY <1>0, <2>4 DEF Answer, TryLegacyPath, Fail, Receive, EndRequest, InFlight
    <3> QED BY <1>0, <3>1, <3>2 DEF SharedOK
  <2>5. CASE Settle(c)
    <3>1. pending = c
      BY <1>0, <2>5 DEF Settle, Settled, SharedOK
    <3>2. pending' = Nobody /\ phase' = [phase EXCEPT ![c] = "none"]
      BY <2>5, <3>1 DEF Settle
    <3>3. \A b \in Callers : awaits'[b] = Nobody
      BY <1>0, <2>5, <3>1 DEF Settle, Resume, SharedOK
    <3> QED BY <1>0, <3>1, <3>2, <3>3 DEF SharedOK
  <2> QED BY <1>1, <2>1, <2>2, <2>3, <2>4, <2>5 DEF Step
<1>2. CASE Awake \/ Asleep \/ AdjustClock \/ Revoke
  BY <1>0, <1>2 DEF Awake, Asleep, AdjustClock, Revoke, SharedOK, requestVars, callerVars
<1> QED BY <1>1, <1>2 DEF Next

-----------------------------------------------------------------------------
(* The copy, the requests, and the documents in use.                       *)

LEMMA InitIInv ==
    ASSUME Init
    PROVE  IInv
<1> USE CopyAssumption, SurroundingsAssumption, TsAssumption
<1>1. now = 0 /\ slept = 0 /\ offset = 0 /\ SkyOK
  BY DEF Init, SkyInit, SkyOK, Never
<1>2. \A age \in StoredAges : StoredCopy(age) \in Documents /\ DocumentOK(StoredCopy(age), now, slept)
  BY <1>1 DEF StoredCopy, Documents, DocumentOK
<1>3. copy # None => /\ copy \in Copies /\ copy = Kept(copy.document)
                     /\ DocumentOK(copy.document, now, slept)
  BY <1>2, KeptType DEF Init
<1>4. TypeOK
  BY <1>1, <1>3 DEF Init, TypeOK, NoAnswer, Answers
<1> QED
  BY <1>3, <1>4 DEF Init, IInv, SharedOK, CopyOK, StoredOK, RequestsOK, RequestOK, InFlight,
                    UsedCopyIsFresh

LEMMA CopyStep ==
    ASSUME IInv, Next
    PROVE  CopyOK'
<1> USE CopyAssumption, SurroundingsAssumption
<1>0. /\ now \in Int /\ slept \in Nat /\ now' \in Int /\ slept' \in Nat
      /\ now <= now' /\ slept <= slept' /\ document \in [Callers -> Documents \cup {None}]
  BY SkyType DEF IInv, TypeOK, SkyOK
<1>1. \A d \in Documents : DocumentOK(d, now, slept) => DocumentOK(d, now', slept')
  BY <1>0 DEF DocumentOK, Documents
<1>2. copy # None => /\ copy.document \in Documents /\ copy = Kept(copy.document)
                     /\ DocumentOK(copy.document, now, slept)
  BY CopyHasDocument DEF IInv, CopyOK
<1>3. ASSUME copy' = copy,
             \A c \in Callers : \/ document'[c] \in {document[c], None}
                                \/ copy # None /\ document'[c] = copy.document
      PROVE  CopyOK'
  <2>1. copy # None => copy = Kept(copy.document) /\ DocumentOK(copy.document, now', slept')
    BY <1>1, <1>2
  <2>2. ASSUME NEW c \in Callers, document'[c] # None
        PROVE  DocumentOK(document'[c], now', slept')
    <3>1. CASE document'[c] = document[c]
      BY <1>0, <1>1, <2>2, <3>1 DEF IInv, CopyOK
    <3>2. CASE copy # None /\ document'[c] = copy.document
      BY <1>1, <1>2, <3>2
    <3> QED BY <1>3, <2>2, <3>1, <3>2
  <2> QED BY <1>3, <2>1, <2>2 DEF CopyOK
<1>4. ASSUME NEW r \in Callers, Receive(r)
      PROVE  CopyOK'
  <2> DEFINE d == CopyOf(answer[r])
  <2>1. /\ copy' = Kept(d) /\ document' = document /\ now' = now /\ slept' = slept
        /\ d \in Documents
    BY <1>4, CopyOfType DEF Receive, skyVars, callerVars, IInv
  <2>2. /\ started[r] \in Int /\ answer[r] \in Answers
        /\ now - slept <= started[r] + Timeout
        /\ answer[r].made + answer[r].age <= now
        /\ started[r] <= answer[r].made + answer[r].age
    BY <1>4 DEF Receive, InFlight, Monotonic, IInv, TypeOK, RequestsOK, RequestOK
  <2>3. DocumentOK(d, now', slept')
    BY <1>0, <2>1, <2>2 DEF DocumentOK, CopyOf, Answers
  <2>4. copy'.document = d
    BY <2>1, KeptType
  <2>5. \A c \in Callers : document[c] # None => DocumentOK(document[c], now', slept')
    BY <1>0, <1>1 DEF IInv, CopyOK
  <2> QED BY <2>1, <2>3, <2>4, <2>5 DEF CopyOK
<1>5. ASSUME NEW c \in Callers, Step(c), ~Receive(c)
      PROVE  CopyOK'
  <2>1. CASE KeepCopy(c)
    <3>1. copy' = copy /\ copy # None /\ document' = [document EXCEPT ![c] = copy.document]
      BY <2>1 DEF KeepCopy, CopyIsFresh
    <3> QED BY <1>0, <1>3, <3>1
  <2>2. CASE Join(c) \/ Request(c) \/ Answer(c) \/ TryLegacyPath(c) \/ Fail(c) \/ Reject(c)
    <3>1. copy' = copy /\ document' = document
      BY <2>2 DEF Join, Request, Send, Answer, TryLegacyPath, Fail, Reject, callerVars
    <3> QED BY <1>3, <3>1
  <2>3. CASE Settle(c)
    <3>1. phase[c] = "stored" => copy # None
      BY DEF IInv, StoredOK
    <3>2. copy' = copy
      BY <2>3 DEF Settle
    <3>3. ASSUME NEW b \in Callers
          PROVE  document'[b] = document[b] \/ (copy # None /\ document'[b] = copy.document)
      BY <2>3, <3>1 DEF Settle, Resume
    <3> QED BY <1>3, <3>2, <3>3
  <2>4. CASE Return(c)
    <3>1. copy' = copy /\ document' = [document EXCEPT ![c] = None]
      BY <2>4 DEF Return
    <3> QED BY <1>0, <1>3, <3>1
  <2> QED BY <1>5, <2>1, <2>2, <2>3, <2>4 DEF Step
<1>6. CASE Awake \/ Asleep \/ AdjustClock \/ Revoke
  BY <1>3, <1>6 DEF Awake, Asleep, AdjustClock, Revoke, callerVars
<1> QED BY <1>4, <1>5, <1>6 DEF Next

LEMMA StoredStep ==
    ASSUME IInv, Next
    PROVE  StoredOK'
<1> USE CopyAssumption, SurroundingsAssumption
<1>0. phase \in [Callers -> {"none", "waiting", "answered", "stored", "failed"}] /\ StoredOK
      /\ now \in Int /\ TypeOK
  BY DEF IInv, TypeOK, SkyOK
<1>1. ASSUME NEW c \in Callers, Step(c)
      PROVE  StoredOK'
  <2>1. now' = now
    BY <1>1, StepKeepsSky DEF skyVars
  <2>2. CASE Receive(c)
    <3>1. answer[c].age \in Nat /\ answer[c].age <= MaxAge /\ copy' = Kept(CopyOf(answer[c]))
      BY <1>0, <2>2 DEF Receive, TypeOK, Answers
    <3>2. copy' # None /\ copy'.document = CopyOf(answer[c])
      BY <1>0, <3>1, CopyOfType, KeptType
    <3>3. CopyOf(answer[c]).born = now - answer[c].age
      BY DEF CopyOf
    <3> QED BY <1>0, <2>1, <3>1, <3>2, <3>3 DEF StoredOK, TrueAge
  <2>3. CASE ~Receive(c)
    <3>1. copy' = copy /\ \A r \in Callers : phase'[r] = "stored" => phase[r] = "stored"
      BY <1>0, <1>1, <2>3 DEF Step, KeepCopy, Join, Request, Send, Answer, TryLegacyPath, Fail, EndRequest,
         Settle, Return, Reject, requestVars
    <3> QED BY <1>0, <2>1, <3>1 DEF StoredOK, TrueAge
  <2> QED BY <2>2, <2>3
<1>2. CASE Awake \/ Asleep \/ AdjustClock
  <2>1. phase' = phase /\ \A r \in Callers : phase[r] # "stored"
    BY <1>2 DEF Awake, Asleep, AdjustClock, Quiet, Settled, requestVars
  <2> QED BY <2>1 DEF StoredOK
<1>3. CASE Revoke
  BY <1>0, <1>3 DEF Revoke, RemoveKey, StoredOK, TrueAge, requestVars
<1> QED BY <1>1, <1>2, <1>3 DEF Next

LEMMA RequestsStep ==
    ASSUME IInv, Next
    PROVE  RequestsOK'
<1> SUFFICES ASSUME NEW u \in Callers PROVE RequestOK(u)'
  BY DEF RequestsOK
<1> USE CopyAssumption, SurroundingsAssumption
<1>1. /\ now \in Int /\ slept \in Int /\ slept >= 0 /\ started \in [Callers -> Int]
      /\ answer \in [Callers -> Answers]
      /\ phase \in [Callers -> {"none", "waiting", "answered", "stored", "failed"}]
      /\ path \in [Callers -> {"atp", "opena2a"}]
  BY DEF IInv, TypeOK, SkyOK
<1>2. RequestOK(u)
  BY DEF IInv, RequestsOK
<1>3. ASSUME NEW c \in Callers, Step(c)
      PROVE  RequestOK(u)'
  <2>1. Monotonic' = Monotonic /\ now' = now /\ Monotonic \in Int
    BY <1>1, <1>3, StepKeepsSky DEF skyVars, Monotonic
  <2>2. CASE KeepCopy(c) \/ Join(c) \/ Return(c) \/ Reject(c)
    BY <1>1, <1>2, <2>1, <2>2 DEF KeepCopy, Join, Return, Reject, RequestOK, InFlight, requestVars
  <2>3. CASE Request(c)
    BY <1>1, <1>2, <2>1, <2>3 DEF Request, Send, RequestOK, InFlight
  <2>4. CASE Answer(c)
    <3>1. PICK age \in Ages : answer' = [answer EXCEPT ![c] = [made |-> now - age, age |-> age]]
      BY <2>4 DEF Answer
    <3>2. started' = started /\ phase' = [phase EXCEPT ![c] = "answered"] /\ phase[c] = "waiting"
      BY <2>4 DEF Answer
    <3>3. CASE u = c
      <4>1. started[u] <= Monotonic /\ Monotonic <= started[u] + Timeout /\ Monotonic <= now
        BY <1>1, <1>2, <3>2, <3>3 DEF RequestOK, InFlight, Monotonic
      <4>2. answer'[u].made = now - age /\ answer'[u].age = age /\ age \in Int
        BY <1>1, <3>1, <3>3
      <4> QED BY <1>1, <2>1, <3>2, <3>3, <4>1, <4>2 DEF RequestOK, InFlight
    <3>4. CASE u # c
      BY <1>1, <1>2, <2>1, <3>1, <3>2, <3>4 DEF RequestOK, InFlight
    <3> QED BY <3>3, <3>4
  <2>5. CASE TryLegacyPath(c)
    BY <1>1, <1>2, <2>1, <2>5 DEF TryLegacyPath, RequestOK, InFlight
  <2>6. CASE Fail(c) \/ Receive(c)
    BY <1>1, <1>2, <2>1, <2>6 DEF Fail, Receive, EndRequest, RequestOK, InFlight
  <2>7. CASE Settle(c)
    BY <1>1, <1>2, <2>1, <2>7 DEF Settle, RequestOK, InFlight
  <2> QED BY <1>3, <2>2, <2>3, <2>4, <2>5, <2>6, <2>7 DEF Step
<1>4. CASE Awake
  <2>1. InFlight(u) => now - slept < started[u] + Timeout
    BY <1>4 DEF Awake, Monotonic
  <2> QED BY <1>1, <1>2, <1>4, <2>1
          DEF Awake, Pass, RequestOK, InFlight, Answers, Monotonic, requestVars
<1>5. CASE Asleep
  BY <1>1, <1>2, <1>5 DEF Asleep, Sleep, RequestOK, InFlight, Answers, Monotonic, requestVars
<1>6. CASE AdjustClock \/ Revoke
  BY <1>1, <1>2, <1>6
     DEF AdjustClock, SetClock, Revoke, RemoveKey, RequestOK, InFlight, Monotonic, requestVars
<1> QED BY <1>3, <1>4, <1>5, <1>6 DEF Next

\* A document is fresh when it is handed to a caller, and used before a clock moves on.
LEMMA UseStep ==
    ASSUME IInv, Next
    PROVE  UsedCopyIsFresh'
<1> USE CopyAssumption, SurroundingsAssumption
<1>0. /\ now \in Int /\ slept \in Int /\ offset \in Int /\ TypeOK /\ UsedCopyIsFresh
      /\ pc \in [Callers -> {"idle", "awaiting", "returning", "rejecting"}]
      /\ document \in [Callers -> Documents \cup {None}]
  BY DEF IInv, TypeOK, SkyOK
<1>1. ASSUME now' = now, slept' = slept, offset' = offset,
             \A b \in Callers : pc'[b] = "returning" =>
                \/ pc[b] = "returning" /\ document'[b] = document[b]
                \/ FreshEnough(document'[b])
      PROVE  UsedCopyIsFresh'
  BY <1>0, <1>1 DEF UsedCopyIsFresh, FreshEnough, TrueAge, SleptSince, SetBackSince
<1>2. ASSUME NEW c \in Callers, Step(c)
      PROVE  UsedCopyIsFresh'
  <2>1. now' = now /\ slept' = slept /\ offset' = offset
    BY <1>2, StepKeepsSky DEF skyVars
  <2>2. CASE KeepCopy(c)
    <3>1. /\ document' = [document EXCEPT ![c] = copy.document]
          /\ pc' = [pc EXCEPT ![c] = "returning"] /\ CopyIsFresh
      BY <2>2 DEF KeepCopy, GoTo
    <3>2. copy.document \in Documents /\ copy = Kept(copy.document)
      BY <1>0, <3>1, CopyHasDocument DEF CopyIsFresh, IInv, CopyOK
    <3>3. copy.monotonic = copy.document.born - copy.document.slept
          /\ copy.wall = copy.document.born + copy.document.offset
      BY <3>2 DEF Kept, Stamp
    <3>4. FreshEnough(copy.document)
      BY <1>0, <3>1, <3>2, <3>3 DEF CopyIsFresh, CopyAgeAtMost, Monotonic, Wall, Documents,
         FreshEnough, TrueAge, SleptSince, SetBackSince
    <3> QED BY <1>0, <1>1, <2>1, <3>1, <3>4
  <2>3. CASE Settle(c)
    <3>1. phase[c] = "stored" => FreshEnough(copy.document)
      BY DEF IInv, StoredOK, FreshEnough
    <3>2. ASSUME NEW b \in Callers, pc'[b] = "returning"
          PROVE  \/ pc[b] = "returning" /\ document'[b] = document[b]
                 \/ FreshEnough(document'[b])
      BY <2>3, <3>1, <3>2 DEF Settle, Resume
    <3> QED BY <1>1, <2>1, <3>2
  <2>4. CASE Join(c) \/ Request(c) \/ Reject(c)
    <3>1. document' = document /\ \A b \in Callers : pc'[b] = "returning" => pc[b] = "returning"
      BY <1>0, <2>4 DEF Join, Request, Send, Reject, Await, GoTo
    <3> QED BY <1>1, <2>1, <3>1
  <2>5. CASE Answer(c) \/ TryLegacyPath(c) \/ Fail(c) \/ Receive(c)
    <3>1. document' = document /\ pc' = pc
      BY <2>5 DEF Answer, TryLegacyPath, Fail, Receive, callerVars
    <3> QED BY <1>1, <2>1, <3>1
  <2>6. CASE Return(c)
    <3>1. document' = [document EXCEPT ![c] = None] /\ pc' = [pc EXCEPT ![c] = "idle"]
      BY <2>6 DEF Return, GoTo
    <3> QED BY <1>0, <1>1, <2>1, <3>1
  <2> QED BY <1>2, <2>2, <2>3, <2>4, <2>5, <2>6 DEF Step
<1>3. CASE Awake \/ Asleep \/ AdjustClock
  BY <1>3 DEF Awake, Asleep, AdjustClock, Quiet, UsedCopyIsFresh, callerVars
<1>4. CASE Revoke
  BY <1>1, <1>4 DEF Revoke, RemoveKey, callerVars
<1> QED BY <1>2, <1>3, <1>4 DEF Next

LEMMA Induction ==
    ASSUME IInv, [Next]_vars
    PROVE  IInv'
<1>1. CASE Next
  BY <1>1, TypeStep, SharedStep, CopyStep, StoredStep, RequestsStep, UseStep DEF IInv
<1>2. CASE UNCHANGED vars
  <2>1. TypeOK'
    BY <1>2, TypeStep
  <2>2. SharedOK' /\ CopyOK' /\ StoredOK' /\ RequestsOK' /\ UsedCopyIsFresh'
    BY <1>2 DEF IInv, SharedOK, CopyOK, StoredOK, RequestsOK, RequestOK, InFlight, Monotonic,
       UsedCopyIsFresh, FreshEnough, TrueAge, SleptSince, SetBackSince,
       vars, skyVars, requestVars, callerVars
  <2> QED BY <2>1, <2>2 DEF IInv
<1> QED BY <1>1, <1>2

\* The inductive invariant.
THEOREM Invariance == Spec => []IInv
<1>1. Init => IInv
  BY InitIInv
<1>2. IInv /\ [Next]_vars => IInv'
  BY Induction
<1> QED BY <1>1, <1>2, PTL DEF Spec

-----------------------------------------------------------------------------
(* What follows from it.                                                   *)

\* Every variable of the client keeps its type, and a caller that returns has a document.
THEOREM TypeCorrect == Spec => []TypeOK
<1>1. IInv => TypeOK
  BY DEF IInv
<1> QED BY <1>1, Invariance, PTL

\* However many callers ask at once: there is one request, as getDiscovery's comment says.
THEOREM OneRequest == Spec => []SingleFlight
<1>1. IInv => SingleFlight
  BY DEF IInv, SharedOK, SingleFlight
<1> QED BY <1>1, Invariance, PTL

\* No caller awaits, and no later call joins, a request that is over.
THEOREM PendingRequestsEnd == Spec => []PendingIsUnderWay
<1>1. IInv => PendingIsUnderWay
  <2> SUFFICES ASSUME IInv PROVE PendingIsUnderWay
    OBVIOUS
  <2>1. SharedOK /\ Nobody \notin Callers
    BY TsAssumption DEF IInv
  <2> QED BY <2>1 DEF SharedOK, PendingIsUnderWay
<1> QED BY <1>1, Invariance, PTL

\* verify never uses a document older than the maximum age of Section 7.1, or than
\* refreshAfterMs but for time that both clocks missed.
THEOREM UsedCopiesAreFresh == Spec => []UsedCopyIsFresh
<1>1. IInv => UsedCopyIsFresh
  BY DEF IInv
<1> QED BY <1>1, Invariance, PTL

\* What a verification may conclude from the document it is given.
LEMMA ReturnedVerdict ==
    ASSUME IInv, NEW c \in Callers, pc[c] = "returning"
    PROVE  /\ HasKey(document[c].made) =>
                  \/ removedAt = Never
                  \/ now < removedAt + (MaxAge + Timeout + MaxSleep)
           /\ ~HasKey(document[c].made) => removedAt # Never /\ removedAt <= now
<1> USE CopyAssumption, SurroundingsAssumption
<1> DEFINE d == document[c]
<1>1. /\ now \in Int /\ slept \in 0..MaxSleep /\ removedAt \in Int
      /\ d # None /\ d \in Documents
  BY DEF IInv, TypeOK, SkyOK, Never
<1>2. d.made <= d.born /\ d.born <= now /\ d.slept <= slept /\ d.born <= d.made + Timeout + d.slept
  BY <1>1 DEF IInv, CopyOK, DocumentOK
<1>3. \/ now - d.born <= MaxAge
      \/ now - d.born <= RefreshAfter + slept - d.slept
  BY <1>1 DEF IInv, UsedCopyIsFresh, FreshEnough, TrueAge, SleptSince, Documents
<1>4. d.made \in Int /\ d.made <= now /\ now <= d.made + (MaxAge + Timeout + MaxSleep)
  BY <1>1, <1>2, <1>3 DEF Documents
<1> HIDE DEF d
<1>5. HasKey(d.made) =>
         removedAt = Never \/ now < removedAt + (MaxAge + Timeout + MaxSleep)
  BY <1>1, <1>4 DEF HasKey
<1>6. ~HasKey(d.made) => removedAt # Never /\ removedAt <= now
  BY <1>1, <1>4 DEF HasKey
<1> QED BY <1>5, <1>6 DEF d

\* Every step of the cache is one of KeyRevocation, or leaves its state alone.
LEMMA RevocationStep ==
    ASSUME IInv, Next
    PROVE  [Revocation!Next]_(Revocation!vars)
<1> USE DEF Revocation!Next, Revocation!vars
<1>1. ASSUME NEW c \in Callers, Step(c)
      PROVE  [Revocation!Next]_(Revocation!vars)
  <2>1. now' = now /\ removedAt' = removedAt
    BY <1>1, StepKeepsSky DEF skyVars
  <2>2. CASE Return(c)
    <3>1. pc[c] = "returning"
      BY <2>2 DEF Return
    <3>2. CASE HasKey(document[c].made)
      BY <2>1, <2>2, <3>1, <3>2, ReturnedVerdict
         DEF Return, Revocation!Accept, Revocation!Never, Never
    <3>3. CASE ~HasKey(document[c].made)
      BY <2>1, <2>2, <3>1, <3>3, ReturnedVerdict
         DEF Return, Revocation!Reject, Revocation!Never, Never
    <3> QED BY <3>2, <3>3
  <2>3. CASE Reject(c)
    BY <2>1, <2>3 DEF Reject, Revocation!LeaveUnverified
  <2>4. CASE ~Return(c) /\ ~Reject(c)
    BY <1>1, <2>1, <2>4 DEF Step, KeepCopy, Join, Request, Send, Answer, TryLegacyPath, Fail, Receive,
       Settle
  <2> QED BY <2>2, <2>3, <2>4
<1>2. CASE Awake \/ Asleep
  <2>1. now \in Int
    BY SurroundingsAssumption DEF IInv, TypeOK, SkyOK
  <2> QED BY <1>2, <2>1 DEF Awake, Pass, Asleep, Sleep, Revocation!TimePasses
<1>3. CASE AdjustClock
  BY <1>3 DEF AdjustClock, SetClock
<1>4. CASE Revoke
  BY <1>4 DEF Revoke, RemoveKey, Revocation!RemoveKey, Revocation!Never, Never
<1> QED BY <1>1, <1>2, <1>3, <1>4 DEF Next

\* Section 8.2 for the TypeScript client: its cache implements KeyRevocation, too.
THEOREM RemovedKeysStop == Spec => RemovedKeyStops
<1>1. Init => Revocation!Init
  BY DEF Init, SkyInit, Revocation!Init, Revocation!Never, Never
<1>2. IInv /\ [Next]_vars => [Revocation!Next]_(Revocation!vars)
  <2> SUFFICES ASSUME IInv, [Next]_vars
               PROVE  [Revocation!Next]_(Revocation!vars)
    OBVIOUS
  <2>1. CASE Next
    BY <2>1, RevocationStep
  <2>2. CASE UNCHANGED vars
    BY <2>2 DEF vars, skyVars, Revocation!vars
  <2> QED BY <2>1, <2>2
<1> QED BY <1>1, <1>2, Invariance, PTL DEF Spec, RemovedKeyStops, Revocation!Spec

\* Without a cache on the way, an answer was made after the copy was.
LaterOK ==
    \A r \in Callers : phase[r] = "answered" /\ copy # None => copy.document.made <= answer[r].made

LEMMA LaterStep ==
    ASSUME Ages \subseteq {0}, IInv, LaterOK, Next
    PROVE  LaterOK'
<1> USE CopyAssumption, SurroundingsAssumption
<1>0. phase \in [Callers -> {"none", "waiting", "answered", "stored", "failed"}]
      /\ answer \in [Callers -> Answers] /\ now \in Int
  BY DEF IInv, TypeOK, SkyOK
<1>1. ASSUME NEW c \in Callers, Step(c)
      PROVE  LaterOK'
  <2>1. CASE Answer(c)
    <3>1. copy' = copy /\ phase' = [phase EXCEPT ![c] = "answered"]
          /\ answer' = [answer EXCEPT ![c] = [made |-> now, age |-> 0]]
      <4>1. PICK age \in Ages : answer' = [answer EXCEPT ![c] = [made |-> now - age, age |-> age]]
        BY <2>1 DEF Answer
      <4>2. age = 0 /\ now - age = now
        BY <1>0
      <4> QED BY <2>1, <4>1, <4>2 DEF Answer
    <3>2. copy # None => copy.document.made <= now
      <4>1. copy # None => copy.document \in Documents /\ DocumentOK(copy.document, now, slept)
        BY CopyHasDocument DEF IInv, CopyOK
      <4> QED BY <1>0, <4>1 DEF DocumentOK, Documents
    <3> QED BY <1>0, <3>1, <3>2 DEF LaterOK
  <2>2. CASE Receive(c)
    <3>1. \A r \in Callers : phase[r] = "answered" => r = c
      BY <2>2 DEF Receive, IInv, SharedOK
    <3>2. phase' = [phase EXCEPT ![c] = "stored"]
      BY <2>2 DEF Receive, EndRequest
    <3> QED BY <1>0, <3>1, <3>2 DEF LaterOK
  <2>3. CASE ~Answer(c) /\ ~Receive(c)
    <3>1. copy' = copy
      BY <1>1, <2>3 DEF Step, KeepCopy, Join, Request, Send, TryLegacyPath, Fail, Settle, Return, Reject
    <3>2. \A r \in Callers : phase'[r] = "answered" => phase[r] = "answered" /\ answer'[r] = answer[r]
      BY <1>0, <1>1, <2>3 DEF Step, KeepCopy, Join, Request, Send, TryLegacyPath, Fail, EndRequest, Settle,
         Return, Reject, requestVars
    <3> QED BY <3>1, <3>2 DEF LaterOK
  <2> QED BY <2>1, <2>2, <2>3
<1>2. CASE Awake \/ Asleep \/ AdjustClock \/ Revoke
  BY <1>2 DEF Awake, Asleep, AdjustClock, Revoke, LaterOK, requestVars
<1> QED BY <1>1, <1>2 DEF Next

\* As long as no cache on the way sends older documents, a removed key does not verify
\* again once a copy without it has arrived, however many callers share the requests.
THEOREM KeysStayRemoved == Ages \subseteq {0} => (Spec => KeyNeverReturns)
<1> SUFFICES ASSUME Ages \subseteq {0} PROVE Spec => KeyNeverReturns
  OBVIOUS
<1>1. Init => LaterOK
  BY DEF Init, LaterOK
<1>2. IInv /\ LaterOK /\ [Next]_vars => LaterOK'
  <2>1. UNCHANGED vars /\ LaterOK => LaterOK'
    BY DEF LaterOK, vars, requestVars
  <2> QED BY <2>1, LaterStep
<1>3. IInv /\ LaterOK /\ [Next]_vars =>
        [copy # None /\ ~HasKey(copy.document.made) => ~HasKey(copy'.document.made)]_vars
  <2> SUFFICES ASSUME IInv, LaterOK, Next, copy # None, ~HasKey(copy.document.made)
               PROVE  ~HasKey(copy'.document.made)
    OBVIOUS
  <2>1. ASSUME NEW r \in Callers, Receive(r)
        PROVE  ~HasKey(copy'.document.made)
    <3>1. CopyOf(answer[r]) \in Documents /\ copy'.document = CopyOf(answer[r])
      BY <2>1, CopyOfType, KeptType DEF Receive, IInv
    <3>2. copy'.document.made = answer[r].made /\ answer[r].made \in Int
      BY <3>1 DEF CopyOf, Documents
    <3>3. copy.document.made <= answer[r].made
      BY <2>1 DEF LaterOK, Receive
    <3>4. copy.document.made \in Int /\ removedAt \in Int
      BY CopyHasDocument, SurroundingsAssumption DEF IInv, TypeOK, SkyOK, Never, Documents
    <3> QED BY <3>2, <3>3, <3>4 DEF HasKey
  <2>2. ASSUME NEW c \in Callers, Step(c), ~Receive(c)
        PROVE  copy' = copy
    BY <2>2 DEF Step, KeepCopy, Join, Request, Send, Answer, TryLegacyPath, Fail, Settle, Return, Reject
  <2>3. CASE Awake \/ Asleep \/ AdjustClock \/ Revoke
    BY <2>3 DEF Awake, Asleep, AdjustClock, Revoke
  <2> QED BY <2>1, <2>2, <2>3 DEF Next
<1> QED BY <1>1, <1>2, <1>3, Invariance, PTL DEF Spec, KeyNeverReturns
=============================================================================
