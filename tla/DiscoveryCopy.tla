---------------------------- MODULE DiscoveryCopy ---------------------------
(***************************************************************************)
(* A copy of the discovery document as either client holds it, and how old *)
(* it is: by the client's clocks, and in time that really passed.          *)
(***************************************************************************)
EXTENDS Surroundings

CONSTANTS
    MaxAge,         \* MAX_DISCOVERY_AGE
    RefreshAfter,   \* refresh_after, refreshAfterMs
    Timeout,        \* timeout, timeoutMs
    Ages,           \* what the Age header of an answer may say
    StoredAges,     \* ages of a copy the constructor may be given
    None            \* no document

\* A document as a client holds it: when it was made, and the time, the sleep
\* and the wall clock's offset that belong to the moment its age was 0.
Documents == [made : Int, born : Int, slept : Nat, offset : Int]

ASSUME CopyAssumption ==
    /\ MaxAge \in Nat /\ Timeout \in Nat
    /\ RefreshAfter \in 0..MaxAge
    /\ Ages \subseteq Nat /\ StoredAges \subseteq Nat
    /\ None \notin Documents

\* The reading of both clocks at which a document's age was 0.
Stamp(d) == [monotonic |-> d.born - d.slept, wall |-> d.born + d.offset]

\* The constructor is given a stored copy and its age.
StoredCopy(age) == [made |-> -age, born |-> -age, slept |-> 0, offset |-> 0]

\* An answer under way: when its document was made, and its Age header.
Answers == [made : Int, age : Nat]
NoAnswer == [made |-> 0, age |-> 0]

\* The copy an answer becomes when it is complete and both clocks are read: the
\* Age header counts toward its age.
CopyOf(answer) == [made |-> answer.made, born |-> now - answer.age,
                   slept |-> slept, offset |-> offset]

TrueAge(d) == now - d.born
SleptSince(d) == slept - d.slept
SetBackSince(d) == d.offset - offset

\* A copy is within the maximum age of Section 7.1, counted in time that really
\* passed; or it is within refresh_after but for what both clocks missed: the
\* host slept and the wall clock was set back.
FreshEnough(d) ==
    \/ TrueAge(d) <= MaxAge
    \/ /\ TrueAge(d) <= RefreshAfter + SleptSince(d)
       /\ TrueAge(d) <= RefreshAfter + SetBackSince(d)

=============================================================================
