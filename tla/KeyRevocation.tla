--------------------------- MODULE KeyRevocation ----------------------------
(***************************************************************************)
(* What Section 8.2 of ATP-SPEC.md promises about a key the authority      *)
(* removes from its discovery document, whatever a verifier stores and     *)
(* however it obtains copies: its proofs stop verifying within a bound,    *)
(* and none of them is rejected while the key is still listed.             *)
(***************************************************************************)
EXTENDS Integers

CONSTANT Bound      \* how long a removed key may go on verifying

VARIABLES
    now,        \* the time
    removedAt,  \* when the authority removed the key, or Never
    verdict     \* what a verification of a proof the key signed says now, if any

vars == <<now, removedAt, verdict>>

Never == -1

Init == now = 0 /\ removedAt = Never /\ verdict = "none"

TimePasses == now' > now /\ removedAt' = removedAt /\ verdict' = "none"

RemoveKey ==
    /\ removedAt = Never
    /\ removedAt' = now + 1
    /\ UNCHANGED <<now, verdict>>

\* A verifier accepts the proof, less than Bound after the key was removed.
Accept ==
    /\ removedAt = Never \/ now < removedAt + Bound
    /\ verdict' = "valid"
    /\ UNCHANGED <<now, removedAt>>

\* A verifier rejects the proof, once the key is removed.
Reject ==
    /\ removedAt # Never
    /\ removedAt <= now
    /\ verdict' = "invalid"
    /\ UNCHANGED <<now, removedAt>>

\* A verifier without a copy it may use leaves the proof unverified.
LeaveUnverified ==
    /\ verdict' = "unverified"
    /\ UNCHANGED <<now, removedAt>>

Next == TimePasses \/ RemoveKey \/ Accept \/ Reject \/ LeaveUnverified

Spec == Init /\ [][Next]_vars

=============================================================================
