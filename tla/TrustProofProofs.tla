-------------------------- MODULE TrustProofProofs --------------------------
(***************************************************************************)
(* Theorems about verify_trust_proof, for every proof, every list of keys  *)
(* and every set of second authorities.                                    *)
(*                                                                         *)
(* IInv says what each place in the code has established: the loop of step *)
(* 4 keeps, in issuer_signed and second_signers, only what a verified      *)
(* signature justifies.  ReasonInv says of each outcome which check failed *)
(* on the inputs, and that is what the TypeScript client computes at once. *)
(***************************************************************************)
EXTENDS TrustProof, TLAPS

\* A verified signature, of the issuer or of a second authority.
IssuerEntry(n) == CountsForIssuer(Signatures[n]) /\ Verifies(Signatures[n])
SecondEntry(n, did) ==
    /\ CountsForSecond(Signatures[n]) /\ Verifies(Signatures[n])
    /\ Signatures[n].keyId.did = did

\* What the checks that are over have established about the inputs.
ChecksInv ==
    /\ pc \in {"issuer", "resolve", "verify", "semantics", "second"} => clock < proof.expires
    /\ pc \in {"resolve", "verify", "semantics", "second"} => proof.issuer \in trusted
    /\ pc \in {"semantics", "second"} => issuerSigned = "yes"
    /\ pc = "second" => Meaningful

\* What step 4 has counted.
CountsInv ==
    /\ issuerSigned = "yes" => \E n \in DOMAIN Signatures : IssuerEntry(n)
    /\ \A did \in secondSigners : \E n \in DOMAIN Signatures : SecondEntry(n, did)

\* What an outcome says.
OutcomeInv ==
    /\ pc # "done" => outcome = "none"
    /\ outcome = "valid" =>
         /\ clock < proof.expires /\ proof.issuer \in trusted /\ Meaningful
         /\ issuerSigned = "yes"
         /\ second # None /\ proof.level >= 3 => \E did \in secondSigners : ~SharesKey(did)

IInv == TypeOK /\ ChecksInv /\ CountsInv /\ OutcomeInv

-----------------------------------------------------------------------------

\* No step changes an input.
LEMMA InputsKept ==
    ASSUME [Next]_vars
    PROVE  UNCHANGED inputVars
BY DEF Next, vars, Parse, Expiry, Issuer, Resolve, AllResolved, Verify, AllVerified,
       Semantics, SecondAuthority, Return, Pass, inputVars

\* What is defined from the inputs alone keeps its value.
LEMMA DefinedByInputs ==
    ASSUME UNCHANGED inputVars
    PROVE  /\ Signatures' = Signatures
           /\ Meaningful' <=> Meaningful
           /\ \A did : SharesKey(did)' <=> SharesKey(did)
           /\ \A n : IssuerEntry(n)' <=> IssuerEntry(n)
           /\ \A n, did : SecondEntry(n, did)' <=> SecondEntry(n, did)
<1>1. Signatures' = Signatures
    BY DEF inputVars, Signatures
<1>2. Meaningful' <=> Meaningful
    BY DEF inputVars, Meaningful
<1>3. ASSUME NEW did
      PROVE  SharesKey(did)' <=> SharesKey(did)
    BY DEF inputVars, SharesKey, IssuerKeys, OfIssuer, PublicKeys
<1>4. ASSUME NEW n
      PROVE  IssuerEntry(n)' <=> IssuerEntry(n)
    BY <1>1 DEF inputVars, IssuerEntry, CountsForIssuer, Verifies, KeyBytes, Hits,
                ResolvesTo, EntriesFor, NamesSecond, Canonical
<1>5. ASSUME NEW n, NEW did
      PROVE  SecondEntry(n, did)' <=> SecondEntry(n, did)
    BY <1>1 DEF inputVars, SecondEntry, CountsForSecond, Verifies, KeyBytes, Hits,
                ResolvesTo, EntriesFor, NamesSecond, Canonical
<1> QED BY <1>1, <1>2, <1>3, <1>4, <1>5

LEMMA InitIInv ==
    ASSUME Init
    PROVE  IInv
<1>1. TypeOK
    BY TrustProofAssumption DEF Init, TypeOK, Checks
<1>2. ChecksInv /\ CountsInv /\ OutcomeInv
    BY DEF Init, ChecksInv, CountsInv, OutcomeInv
<1> QED BY <1>1, <1>2 DEF IInv

\* Every variable keeps its type.
LEMMA TypeStep ==
    ASSUME TypeOK, [Next]_vars
    PROVE  TypeOK'
<1>1. /\ proof \in ProofType /\ keys \in Seq(KeyEntries) /\ trusted \subseteq Dids
      /\ clock \in Int /\ second \in SecondLists
      /\ proof' = proof /\ keys' = keys /\ trusted' = trusted
      /\ clock' = clock /\ second' = second
    BY InputsKept DEF TypeOK, inputVars
<1>2. Len(proof.signatures) \in Nat
    BY <1>1 DEF ProofType
<1>3. CASE UNCHANGED vars
    BY <1>1, <1>3 DEF TypeOK, vars
<1>4. CASE Parse \/ Expiry \/ Issuer \/ AllResolved \/ AllVerified \/ Semantics \/ SecondAuthority
    BY <1>1, <1>2, <1>4
       DEF TypeOK, Parse, Expiry, Issuer, AllResolved, AllVerified, Semantics,
           SecondAuthority, Return, Pass, Checks, Categories
<1>5. CASE Resolve
    BY <1>1, <1>2, <1>5 DEF TypeOK, Resolve, Return, Checks, Categories, Signatures
<1>6. CASE Verify
    <2>1. CASE ~Verifies(Signatures[index])
        BY <1>1, <1>2, <1>6, <2>1 DEF TypeOK, Verify, Return, Checks, Categories
    <2>2. CASE Verifies(Signatures[index])
        <3>1. Signatures[index] \in Entries
            BY <1>1, <1>6 DEF Verify, TypeOK, Signatures, ProofType
        <3>2. CountsForSecond(Signatures[index]) =>
                Signatures[index].keyId.did \in Dids \ {proof.issuer}
            BY <3>1 DEF CountsForSecond, NamesSecond, Entries, KeyIds
        <3>3. secondSigners' \subseteq Dids \ {proof.issuer}
            BY <1>6, <2>2, <3>2 DEF Verify, TypeOK
        <3> QED BY <1>1, <1>2, <1>6, <2>2, <3>3 DEF TypeOK, Verify, Signatures
    <2> QED BY <2>1, <2>2
<1> QED BY <1>3, <1>4, <1>5, <1>6 DEF Next

\* The verification's variables hold values of their types.
THEOREM TypeCorrect == Spec => []TypeOK
<1>1. Init => TypeOK
    BY InitIInv DEF IInv
<1>2. TypeOK /\ [Next]_vars => TypeOK'
    BY TypeStep
<1> QED BY <1>1, <1>2, PTL DEF Spec

-----------------------------------------------------------------------------

\* A check that is passed is one whose condition holds.
LEMMA ChecksStep ==
    ASSUME IInv, Next
    PROVE  ChecksInv'
<1>1. UNCHANGED inputVars
    BY InputsKept
<1>2. Meaningful' <=> Meaningful
    BY <1>1, DefinedByInputs
<1>3. proof' = proof /\ clock' = clock /\ trusted' = trusted
    BY <1>1 DEF inputVars
<1>4. /\ clock \in Int /\ proof.expires \in Int /\ issuerSigned \in {"no", "yes"}
    BY DEF IInv, TypeOK, ProofType
<1>5. CASE Parse
    BY <1>5 DEF Parse, Return, Pass, ChecksInv
<1>6. CASE Expiry
    BY <1>3, <1>4, <1>6 DEF Expiry, Return, Pass, ChecksInv
<1>7. CASE Issuer
    BY <1>3, <1>7 DEF Issuer, Return, Pass, IInv, ChecksInv
<1>8. CASE Resolve \/ AllResolved
    BY <1>2, <1>3, <1>8 DEF Resolve, AllResolved, Return, Pass, IInv, ChecksInv
<1>9. CASE Verify
    BY <1>2, <1>3, <1>9 DEF Verify, Return, IInv, ChecksInv
<1>10. CASE AllVerified
    BY <1>2, <1>3, <1>10 DEF AllVerified, Return, Pass, IInv, ChecksInv
<1>11. CASE Semantics
    BY <1>2, <1>3, <1>11 DEF Semantics, Return, Pass, IInv, ChecksInv
<1>12. CASE SecondAuthority
    BY <1>2, <1>3, <1>12 DEF SecondAuthority, Return, IInv, ChecksInv
<1> QED BY <1>5, <1>6, <1>7, <1>8, <1>9, <1>10, <1>11, <1>12 DEF Next

\* Step 4 counts a signature once it has verified.
LEMMA CountsStep ==
    ASSUME IInv, Next
    PROVE  CountsInv'
<1>1. /\ Signatures' = Signatures
      /\ \A n : IssuerEntry(n)' <=> IssuerEntry(n)
      /\ \A n, did : SecondEntry(n, did)' <=> SecondEntry(n, did)
    BY InputsKept, DefinedByInputs
<1>2. CASE UNCHANGED <<issuerSigned, secondSigners>>
    BY <1>1, <1>2 DEF IInv, CountsInv
<1>3. CASE Verify /\ Verifies(Signatures[index]) /\ index <= Len(Signatures)
    <2>1. index \in DOMAIN Signatures
        BY <1>3 DEF IInv, TypeOK, ProofType, Signatures
    <2>2. issuerSigned' = "yes" => issuerSigned = "yes" \/ IssuerEntry(index)
        BY <1>3 DEF Verify, IssuerEntry
    <2>3. \A did \in secondSigners' : did \in secondSigners \/ SecondEntry(index, did)
        BY <1>3 DEF Verify, SecondEntry
    <2> QED BY <1>1, <2>1, <2>2, <2>3 DEF IInv, CountsInv
<1>4. CASE Verify
    BY <1>2, <1>3, <1>4 DEF Verify, Return
<1>5. CASE Parse \/ Expiry \/ Issuer \/ Resolve \/ AllResolved \/ AllVerified \/ Semantics
           \/ SecondAuthority
    BY <1>2, <1>5 DEF Parse, Expiry, Issuer, Resolve, AllResolved, AllVerified, Semantics,
                      SecondAuthority, Return, Pass
<1> QED BY <1>4, <1>5 DEF Next

\* The only outcome that accepts is the one after step 7.
LEMMA OutcomeStep ==
    ASSUME IInv, Next
    PROVE  OutcomeInv'
<1>1. /\ UNCHANGED inputVars
      /\ Meaningful' <=> Meaningful
      /\ \A did : SharesKey(did)' <=> SharesKey(did)
    BY InputsKept, DefinedByInputs
<1>2. proof' = proof /\ clock' = clock /\ trusted' = trusted /\ second' = second
    BY <1>1 DEF inputVars
<1>3. pc # "done" /\ outcome = "none"
    BY DEF Next, Parse, Expiry, Issuer, Resolve, AllResolved, Verify, AllVerified,
           Semantics, SecondAuthority, IInv, OutcomeInv
<1>4. CASE Parse \/ Expiry \/ Issuer \/ Resolve \/ AllResolved \/ Verify \/ AllVerified \/ Semantics
    BY <1>3, <1>4 DEF Parse, Expiry, Issuer, Resolve, AllResolved, Verify, AllVerified,
                      Semantics, Return, Pass, OutcomeInv
<1>5. CASE SecondAuthority
    <2>1. proof.level \in Int
        BY DEF IInv, TypeOK, ProofType
    <2> QED BY <1>1, <1>2, <1>5, <2>1
            DEF SecondAuthority, Return, IInv, ChecksInv, OutcomeInv
<1> QED BY <1>4, <1>5 DEF Next

\* The inductive invariant.
THEOREM Invariance == Spec => []IInv
<1>1. Init => IInv
    BY InitIInv
<1>2. IInv /\ [Next]_vars => IInv'
    <2> SUFFICES ASSUME IInv, [Next]_vars
                 PROVE  IInv'
        OBVIOUS
    <2>1. TypeOK'
        BY TypeStep DEF IInv
    <2>2. CASE Next
        BY <2>1, <2>2, ChecksStep, CountsStep, OutcomeStep DEF IInv
    <2>3. CASE UNCHANGED vars
        <3>1. UNCHANGED <<pc, issuerSigned, secondSigners, outcome, proof, clock, trusted, second>>
            BY <2>3 DEF vars, inputVars
        <3>2. /\ Signatures' = Signatures
              /\ Meaningful' <=> Meaningful
              /\ \A did : SharesKey(did)' <=> SharesKey(did)
              /\ \A n : IssuerEntry(n)' <=> IssuerEntry(n)
              /\ \A n, did : SecondEntry(n, did)' <=> SecondEntry(n, did)
            BY InputsKept, DefinedByInputs
        <3>3. ChecksInv'
            BY <3>1, <3>2 DEF IInv, ChecksInv
        <3>4. CountsInv'
            BY <3>1, <3>2 DEF IInv, CountsInv
        <3>5. OutcomeInv'
            BY <3>1, <3>2 DEF IInv, OutcomeInv
        <3> QED BY <2>1, <3>3, <3>4, <3>5 DEF IInv
    <2> QED BY <2>2, <2>3
<1> QED BY <1>1, <1>2, PTL DEF Spec

-----------------------------------------------------------------------------

\* A signature that verifies was made with a live key of the list it is looked up in.
LEMMA VerifiedIsMade ==
    ASSUME NEW s, Verifies(s)
    PROVE  /\ MadeWithKeyOf(s, EntriesFor(s))
           /\ s.over = Canonical(proof)
           /\ s.by # Malformed
BY DEF Verifies, KeyBytes, Hits, ResolvesTo, MadeWithKeyOf

\* An accepted proof was signed by a trusted issuer with a key it has not revoked,
\* over the members that were accepted.
THEOREM AcceptedIsSigned == Spec => []IssuerVouches
<1>1. IInv => IssuerVouches
    <2> SUFFICES ASSUME IInv, outcome = "valid"
                 PROVE  /\ proof.issuer \in trusted
                        /\ \E i \in DOMAIN Signatures :
                             /\ Signatures[i].algorithm = "Ed25519"
                             /\ Signatures[i].keyId.did = proof.issuer
                             /\ MadeWithKeyOf(Signatures[i], keys)
                             /\ Signatures[i].over = Canonical(proof)
                        /\ clock < proof.expires
                        /\ proof.expires <= proof.issued + MaxValidity
        BY DEF IssuerVouches
    <2>1. PICK n \in DOMAIN Signatures : IssuerEntry(n)
        BY DEF IInv, OutcomeInv, CountsInv
    <2>2. EntriesFor(Signatures[n]) = keys
        BY <2>1 DEF IssuerEntry, CountsForIssuer, EntriesFor, NamesSecond
    <2>3. /\ MadeWithKeyOf(Signatures[n], keys)
          /\ Signatures[n].over = Canonical(proof)
        BY <2>1, <2>2, VerifiedIsMade DEF IssuerEntry
    <2>4. /\ proof.issuer \in trusted /\ clock < proof.expires
          /\ proof.expires - proof.issued <= MaxValidity
        BY DEF IInv, OutcomeInv, Meaningful
    <2>5. proof.expires \in Int /\ proof.issued \in Int /\ MaxValidity \in Int
        BY TrustProofAssumption DEF IInv, TypeOK, ProofType
    <2> QED BY <2>1, <2>3, <2>4, <2>5 DEF IssuerEntry, CountsForIssuer
<1> QED BY <1>1, Invariance, PTL

\* No issuer elevates alone: at trust level 3 and 4, when second authorities are
\* known, one of them signed with a live key that is none of the issuer's.
THEOREM ElevationNeedsTwo == Spec => []SecondAuthorityVouches
<1>1. IInv => SecondAuthorityVouches
    <2> SUFFICES ASSUME IInv, outcome = "valid", second # None, proof.level >= 3
                 PROVE  \E i \in DOMAIN Signatures :
                          /\ Signatures[i].algorithm = "Ed25519"
                          /\ Signatures[i].keyId.did \in DOMAIN second \ {proof.issuer}
                          /\ MadeWithKeyOf(Signatures[i], second[Signatures[i].keyId.did])
                          /\ Signatures[i].over = Canonical(proof)
                          /\ \A j \in DOMAIN keys :
                               keys[j].keyId.did = proof.issuer =>
                                   keys[j].raw # Signatures[i].by
        BY DEF SecondAuthorityVouches
    <2>1. PICK did \in secondSigners : ~SharesKey(did)
        BY DEF IInv, OutcomeInv
    <2>2. PICK n \in DOMAIN Signatures : SecondEntry(n, did)
        BY <2>1 DEF IInv, CountsInv
    <2>3. /\ NamesSecond(Signatures[n]) /\ Signatures[n].algorithm = "Ed25519"
          /\ Verifies(Signatures[n]) /\ Signatures[n].keyId.did = did
        BY <2>2 DEF SecondEntry, CountsForSecond
    <2>4. EntriesFor(Signatures[n]) = second[did] /\ did \in DOMAIN second \ {proof.issuer}
        BY <2>3 DEF EntriesFor, NamesSecond
    <2>5. /\ MadeWithKeyOf(Signatures[n], second[did])
          /\ Signatures[n].over = Canonical(proof)
          /\ Signatures[n].by # Malformed
        BY <2>3, <2>4, VerifiedIsMade
    <2>6. Signatures[n].by \in PublicKeys(second[did])
        BY <2>5 DEF MadeWithKeyOf, PublicKeys
    <2>7. Signatures[n].by \notin IssuerKeys
        BY <2>1, <2>6 DEF SharesKey
    <2>8. \A j \in DOMAIN keys :
            keys[j].keyId.did = proof.issuer => keys[j].raw # Signatures[n].by
        BY <2>5, <2>7 DEF IssuerKeys, OfIssuer
    <2> QED BY <2>2, <2>3, <2>4, <2>5, <2>8
<1> QED BY <1>1, Invariance, PTL

-----------------------------------------------------------------------------
(* Which check decides, and what the signatures leave open.                *)

Verified(n) == Verifies(Signatures[n])
FromIssuer(n) == CountsForIssuer(Signatures[n])
AllVerify == \A n \in DOMAIN Signatures : Verified(n)

\* What the loop of step 4 has been through, and what is settled before and after it.
JudgedInv ==
    /\ pc \notin {"parse", "done"} => Readable
    /\ pc = "verify" => \A n \in 1..(index - 1) :
         /\ Verified(n)
         /\ issuerSigned = "no" => ~FromIssuer(n)
    /\ pc \in {"semantics", "second"} => AllVerify

\* What each outcome says of the inputs.
ReasonInv ==
    /\ pc = "done" => outcome \in Categories \cup {"valid"}
    /\ outcome = "PARSE_ERROR" => ~Readable
    /\ outcome = "EXPIRED" => Readable /\ ~Current
    /\ outcome = "UNTRUSTED_ISSUER" => Current /\ ~Known
    /\ outcome = "SIGNATURE_INVALID" =>
         Known /\ (Signed => Sensible /\ second # None /\ proof.level >= 3)
    /\ outcome = "SEMANTIC_INVALID" => Authentic /\ ~Sensible
    /\ outcome = "valid" => AllVerify /\ Sensible

\* A signature verifies exactly when the first live entry of its keyId made it.
LEMMA VerifiesMeans ==
    ASSUME NEW s, EntriesFor(s) \in Seq(KeyEntries)
    PROVE  Verifies(s) <=>
             /\ s.algorithm \in Supported /\ s.over = Canonical(proof)
             /\ \E i \in Live(s) : /\ \A j \in Live(s) : i <= j
                                   /\ ListFor(s)[i].raw = s.by
<1>1. ListFor(s) = EntriesFor(s)
    BY DEF ListFor, EntriesFor, NamesSecond
<1>2. ASSUME NEW i \in DOMAIN EntriesFor(s)
      PROVE  EntriesFor(s)[i].raw \in RawKeys \cup {Malformed}
    <2>1. EntriesFor(s)[i] \in KeyEntries
        OBVIOUS
    <2> QED BY <2>1 DEF KeyEntries
<1>3. Live(s) = Hits(EntriesFor(s), s)
    BY <1>1, <1>2, TrustProofAssumption DEF Live, Hits, ResolvesTo
<1> QED BY <1>1, <1>3 DEF Verifies, KeyBytes

\* A list that a keyId resolves among is a list of entries.
LEMMA ListsAreTyped ==
    ASSUME TypeOK, NEW s
    PROVE  EntriesFor(s) \in Seq(KeyEntries)
BY TrustProofAssumption DEF TypeOK, EntriesFor, NamesSecond

\* Signed, in terms of the checks of step 4.
LEMMA SignedMeans ==
    ASSUME TypeOK
    PROVE  Signed <=> /\ AllVerify
                      /\ \E n \in DOMAIN Signatures : FromIssuer(n)
<1>1. \A n \in DOMAIN Signatures :
        Verifies(Signatures[n]) <=>
             /\ Signatures[n].algorithm \in Supported /\ Signatures[n].over = Canonical(proof)
             /\ \E i \in Live(Signatures[n]) : /\ \A j \in Live(Signatures[n]) : i <= j
                                               /\ ListFor(Signatures[n])[i].raw = Signatures[n].by
    BY VerifiesMeans, ListsAreTyped
<1> QED BY <1>1, Zenon DEF Signed, AllVerify, Verified, FromIssuer, CountsForIssuer

\* Only a signature that resolves verifies.
LEMMA VerifiedResolves ==
    ASSUME NEW s, Verifies(s)
    PROVE  Resolves(s)
BY TrustProofAssumption DEF Verifies, KeyBytes, Resolves

\* Sensible, in terms of the checks of step 5.
LEMMA SensibleMeans ==
    ASSUME TypeOK
    PROVE  Sensible <=> Authentic /\ Meaningful
<1>1. /\ proof.level \in Int /\ proof.score \in Int /\ proof.issued \in Int /\ proof.expires \in Int
      /\ proof.verdict \in Verdicts \cup {"unknown_word"}
    BY DEF TypeOK, ProofType
<1>2. proof.verdict \in Verdicts <=> proof.verdict # "unknown_word"
    BY <1>1 DEF Verdicts
<1> QED BY <1>1, <1>2, TrustProofAssumption DEF Sensible, Meaningful

\* The reference categories, too, are defined by the inputs alone.
LEMMA ReasonsByInputs ==
    ASSUME UNCHANGED inputVars
    PROVE  /\ Readable' <=> Readable
           /\ Current' <=> Current
           /\ Known' <=> Known
           /\ Signed' <=> Signed
           /\ Authentic' <=> Authentic
           /\ Sensible' <=> Sensible
           /\ \A n : Verified(n)' <=> Verified(n)
           /\ \A n : FromIssuer(n)' <=> FromIssuer(n)
           /\ AllVerify' <=> AllVerify
           /\ Signatures' = Signatures /\ second' = second /\ proof' = proof
<1>1. /\ Signatures' = Signatures /\ second' = second /\ proof' = proof /\ keys' = keys
      /\ clock' = clock /\ trusted' = trusted
    BY DEF inputVars, Signatures
<1>2. Readable' <=> Readable
    BY <1>1 DEF Readable
<1>3. Current' <=> Current
    BY <1>1, <1>2 DEF Current
<1>4. Known' <=> Known
    BY <1>1, <1>3 DEF Known
<1>5. Signed' <=> Signed
    BY <1>1 DEF Signed, Live, ListFor, Canonical
<1>6. Authentic' <=> Authentic
    BY <1>4, <1>5 DEF Authentic
<1>7. Sensible' <=> Sensible
    BY <1>1, <1>6 DEF Sensible
<1>8. \A n : Verified(n)' <=> Verified(n)
    BY <1>1 DEF Verified, Verifies, KeyBytes, Hits, ResolvesTo, EntriesFor, NamesSecond, Canonical
<1>9. \A n : FromIssuer(n)' <=> FromIssuer(n)
    BY <1>1 DEF FromIssuer, CountsForIssuer
<1>10. AllVerify' <=> AllVerify
    BY <1>1, <1>8 DEF AllVerify
<1> QED BY <1>1, <1>2, <1>3, <1>4, <1>5, <1>6, <1>7, <1>8, <1>9, <1>10

\* Where step 4 has come to.
LEMMA JudgedStep ==
    ASSUME IInv, JudgedInv, Next
    PROVE  JudgedInv'
<1>1. /\ Readable' <=> Readable
      /\ AllVerify' <=> AllVerify
      /\ Signatures' = Signatures
      /\ \A n : Verified(n)' <=> Verified(n)
      /\ \A n : FromIssuer(n)' <=> FromIssuer(n)
    BY InputsKept, ReasonsByInputs
<1>2. /\ Len(Signatures) \in Nat /\ DOMAIN Signatures = 1..Len(Signatures)
      /\ index \in 1..(Len(Signatures) + 1) /\ issuerSigned \in {"no", "yes"}
    BY DEF IInv, TypeOK, ProofType, Signatures
<1>3. CASE Parse
    BY <1>1, <1>2, <1>3 DEF Parse, Return, Pass, JudgedInv, Readable
<1>4. CASE Expiry \/ Issuer \/ Resolve \/ Semantics \/ SecondAuthority
    BY <1>1, <1>4 DEF Expiry, Issuer, Resolve, Semantics, SecondAuthority, Return, Pass, JudgedInv
<1>5. CASE AllResolved
    <2>1. index' = 1 /\ pc' = "verify" /\ Readable
        BY <1>5 DEF AllResolved, Pass, JudgedInv
    <2> QED BY <1>1, <2>1 DEF JudgedInv
<1>6. CASE Verify
    <2>1. CASE ~Verifies(Signatures[index])
        BY <1>1, <1>6, <2>1 DEF Verify, Return, JudgedInv
    <2>2. CASE Verifies(Signatures[index])
        <3>1. pc' = "verify" /\ index' = index + 1 /\ Readable
            BY <1>6, <2>2 DEF Verify, JudgedInv
        <3>2. issuerSigned' = "no" => issuerSigned = "no" /\ ~FromIssuer(index)
            BY <1>6, <2>2 DEF Verify, FromIssuer
        <3>3. \A n \in 1..index : /\ Verified(n)
                                  /\ issuerSigned' = "no" => ~FromIssuer(n)
            BY <1>2, <1>6, <2>2, <3>2 DEF Verify, Verified, JudgedInv
        <3>4. index' - 1 = index
            BY <1>2, <3>1
        <3> QED BY <1>1, <3>1, <3>3, <3>4 DEF JudgedInv
    <2> QED BY <2>1, <2>2
<1>7. CASE AllVerified
    <2>1. pc = "verify" /\ pc' \in {"done", "semantics"} /\ Readable
        BY <1>7 DEF AllVerified, Return, Pass, JudgedInv
    <2>2. \A n \in DOMAIN Signatures : n \in 1..(index - 1)
        BY <1>2, <1>7 DEF AllVerified
    <2>3. AllVerify
        BY <2>1, <2>2 DEF AllVerify, JudgedInv
    <2> QED BY <1>1, <2>1, <2>3 DEF JudgedInv
<1> QED BY <1>3, <1>4, <1>5, <1>6, <1>7 DEF Next

\* Each check returns its own category, and only where the reference has it.
LEMMA ReasonStep ==
    ASSUME IInv, JudgedInv, ReasonInv, Next
    PROVE  ReasonInv'
<1>1. /\ Readable' <=> Readable
      /\ Current' <=> Current
      /\ Known' <=> Known
      /\ Signed' <=> Signed
      /\ Authentic' <=> Authentic
      /\ Sensible' <=> Sensible
      /\ AllVerify' <=> AllVerify
      /\ second' = second /\ proof' = proof
    BY InputsKept, ReasonsByInputs
<1>2. pc # "done" /\ outcome = "none"
    BY DEF Next, Parse, Expiry, Issuer, Resolve, AllResolved, Verify, AllVerified,
           Semantics, SecondAuthority, IInv, OutcomeInv
<1>3. /\ Len(Signatures) \in Nat /\ DOMAIN Signatures = 1..Len(Signatures)
      /\ index \in 1..(Len(Signatures) + 1) /\ issuerSigned \in {"no", "yes"}
      /\ clock \in Int /\ proof.expires \in Int /\ proof.level \in Int
      /\ proof.readable \in {"yes", "no"}
    BY DEF IInv, TypeOK, ProofType, Signatures
<1>4. TypeOK
    BY DEF IInv
<1>5. ASSUME outcome' = "none", pc' # "done"
      PROVE  ReasonInv'
    BY <1>5 DEF ReasonInv, Categories
<1>6. CASE Parse
    <2>1. CASE pc' = "done"
        BY <1>1, <1>3, <1>6, <2>1 DEF Parse, Return, Pass, ReasonInv, Categories, Readable
    <2>2. CASE pc' # "done"
        BY <1>2, <1>5, <1>6, <2>2 DEF Parse, Return, Pass
    <2> QED BY <2>1, <2>2
<1>7. CASE Expiry
    <2>1. CASE pc' = "done"
        BY <1>1, <1>3, <1>7, <2>1
           DEF Expiry, Return, Pass, ReasonInv, Categories, Current, JudgedInv
    <2>2. CASE pc' # "done"
        BY <1>2, <1>5, <1>7, <2>2 DEF Expiry, Return, Pass
    <2> QED BY <2>1, <2>2
<1>8. CASE Issuer
    <2>1. CASE pc' = "done"
        BY <1>1, <1>8, <2>1
           DEF Issuer, Return, Pass, ReasonInv, Categories, Current, Known, IInv, ChecksInv, JudgedInv
    <2>2. CASE pc' # "done"
        BY <1>2, <1>5, <1>8, <2>2 DEF Issuer, Return, Pass
    <2> QED BY <2>1, <2>2
<1>9. CASE Resolve
    <2>1. CASE pc' = "done"
        <3>1. outcome' = "SIGNATURE_INVALID" /\ index \in DOMAIN Signatures
              /\ ~Resolves(Signatures[index])
            BY <1>2, <1>3, <1>9, <2>1 DEF Resolve, Return
        <3>2. Known
            BY <1>9 DEF Resolve, Known, Current, IInv, ChecksInv, JudgedInv
        <3>3. ~AllVerify
            BY <3>1, VerifiedResolves DEF AllVerify, Verified
        <3>4. ~Signed
            BY <1>4, <3>3, SignedMeans
        <3> QED BY <1>1, <2>1, <3>1, <3>2, <3>4 DEF ReasonInv, Categories
    <2>2. CASE pc' # "done"
        BY <1>2, <1>5, <1>9, <2>2 DEF Resolve, Return
    <2> QED BY <2>1, <2>2
<1>10. CASE AllResolved
    BY <1>2, <1>5, <1>10 DEF AllResolved, Pass
<1>11. CASE Verify
    <2>1. CASE pc' = "done"
        <3>1. outcome' = "SIGNATURE_INVALID" /\ index \in DOMAIN Signatures
              /\ ~Verifies(Signatures[index])
            BY <1>2, <1>3, <1>11, <2>1 DEF Verify, Return
        <3>2. Known
            BY <1>11 DEF Verify, Known, Current, IInv, ChecksInv, JudgedInv
        <3>3. ~Signed
            BY <1>4, <3>1, SignedMeans DEF AllVerify, Verified
        <3> QED BY <1>1, <2>1, <3>1, <3>2, <3>3 DEF ReasonInv, Categories
    <2>2. CASE pc' # "done"
        BY <1>2, <1>5, <1>11, <2>2 DEF Verify, Return
    <2> QED BY <2>1, <2>2
<1>12. CASE AllVerified
    <2>1. CASE pc' = "done"
        <3>1. outcome' = "SIGNATURE_INVALID" /\ issuerSigned = "no" /\ pc = "verify"
            BY <1>2, <1>12, <2>1 DEF AllVerified, Return, Pass
        <3>2. \A n \in DOMAIN Signatures : n \in 1..(index - 1)
            BY <1>3, <1>12 DEF AllVerified
        <3>3. ~Signed
            BY <1>4, <3>1, <3>2, SignedMeans DEF JudgedInv
        <3>4. Known
            BY <3>1 DEF Known, Current, IInv, ChecksInv, JudgedInv
        <3> QED BY <1>1, <2>1, <3>1, <3>3, <3>4 DEF ReasonInv, Categories
    <2>2. CASE pc' # "done"
        BY <1>2, <1>5, <1>12, <2>2 DEF AllVerified, Return, Pass
    <2> QED BY <2>1, <2>2
<1>13. ASSUME pc \in {"semantics", "second"}
       PROVE  Authentic /\ AllVerify
    <2>1. AllVerify /\ Known
        BY <1>13 DEF Known, Current, IInv, ChecksInv, JudgedInv
    <2>2. \E n \in DOMAIN Signatures : FromIssuer(n)
        BY <1>13 DEF IInv, ChecksInv, CountsInv, IssuerEntry, FromIssuer
    <2> QED BY <1>4, <2>1, <2>2, SignedMeans DEF Authentic
<1>14. CASE Semantics
    <2>1. CASE pc' = "done"
        <3>1. outcome' = "SEMANTIC_INVALID" /\ ~Meaningful /\ Authentic
            BY <1>2, <1>13, <1>14, <2>1 DEF Semantics, Return, Pass
        <3>2. ~Sensible
            BY <1>4, <3>1, SensibleMeans
        <3> QED BY <1>1, <2>1, <3>1, <3>2 DEF ReasonInv, Categories
    <2>2. CASE pc' # "done"
        BY <1>2, <1>5, <1>14, <2>2 DEF Semantics, Return, Pass
    <2> QED BY <2>1, <2>2
<1>15. CASE SecondAuthority
    <2>1. /\ pc' = "done" /\ outcome' \in {"valid", "SIGNATURE_INVALID"}
          /\ outcome' = "SIGNATURE_INVALID" => second # None /\ proof.level >= 3
        BY <1>15 DEF SecondAuthority, Return
    <2>2. Authentic /\ AllVerify /\ Meaningful
        BY <1>13, <1>15 DEF SecondAuthority, IInv, ChecksInv
    <2>3. Sensible /\ Known
        BY <1>4, <2>2, SensibleMeans DEF Authentic
    <2> QED BY <1>1, <2>1, <2>2, <2>3 DEF ReasonInv, Categories
<1> QED BY <1>6, <1>7, <1>8, <1>9, <1>10, <1>11, <1>12, <1>14, <1>15 DEF Next

\* The inductive invariant of what follows.
THEOREM ReasonsHold == Spec => [](IInv /\ JudgedInv /\ ReasonInv)
<1>1. Init => JudgedInv /\ ReasonInv
    BY DEF Init, JudgedInv, ReasonInv, Categories
<1>2. IInv /\ (JudgedInv /\ ReasonInv) /\ [Next]_vars => (JudgedInv /\ ReasonInv)'
    <2> SUFFICES ASSUME IInv, JudgedInv, ReasonInv, [Next]_vars
                 PROVE  JudgedInv' /\ ReasonInv'
        OBVIOUS
    <2>1. CASE Next
        BY <2>1, JudgedStep, ReasonStep
    <2>2. CASE UNCHANGED vars
        <3>1. UNCHANGED <<pc, index, issuerSigned, outcome>> /\ UNCHANGED inputVars
            BY <2>2 DEF vars
        <3>2. /\ Readable' <=> Readable
              /\ Current' <=> Current
              /\ Known' <=> Known
              /\ Signed' <=> Signed
              /\ Authentic' <=> Authentic
              /\ Sensible' <=> Sensible
              /\ AllVerify' <=> AllVerify
              /\ second' = second /\ proof' = proof
              /\ \A n : Verified(n)' <=> Verified(n)
              /\ \A n : FromIssuer(n)' <=> FromIssuer(n)
            BY <3>1, ReasonsByInputs
        <3>3. JudgedInv'
            BY <3>1, <3>2 DEF JudgedInv
        <3>4. ReasonInv'
            BY <3>1, <3>2 DEF ReasonInv
        <3> QED BY <3>3, <3>4
    <2> QED BY <2>1, <2>2
<1> QED BY <1>1, <1>2, Invariance, PTL DEF Spec

-----------------------------------------------------------------------------

\* Where a whole second begins, and the error of a rounded score.
LEMMA SecondOf ==
    ASSUME NEW n \in Int
    PROVE  n < (n \div Second + 1) * Second
BY TrustProofAssumption

LEMMA RoundedIsNear ==
    ASSUME NEW score \in Int
    PROVE  2 * (Rounded(score) * Millionth - score) \in (-Millionth)..Millionth
<1> DEFINE down == score \div Millionth
           rest == score % Millionth
<1>1. Millionth \in Nat \ {0}
    BY TrustProofAssumption
<1>2. /\ down \in Int /\ rest \in 0..(Millionth - 1)
      /\ score = down * Millionth + rest
    BY <1>1
<1>3. CASE Rounded(score) = down /\ 2 * rest <= Millionth
    BY <1>1, <1>2, <1>3
<1>4. CASE Rounded(score) = down + 1 /\ 2 * rest >= Millionth
    BY <1>1, <1>2, <1>4
<1> QED BY <1>1, <1>2, <1>3, <1>4 DEF Rounded

\* The members of an accepted proof are within the precision of the canonical string of
\* those that were signed.
THEOREM AcceptedTermsAreSigned == Spec => []SignedTermsHold
<1>1. IInv /\ JudgedInv /\ ReasonInv => SignedTermsHold
    <2> SUFFICES ASSUME IInv, ReasonInv, outcome = "valid", NEW n \in DOMAIN Signatures
                 PROVE  LET signed == Signatures[n].over
                        IN  /\ signed.did = proof.did /\ signed.level = proof.level
                            /\ clock < (signed.expires + 1) * Second
                            /\ 2 * (signed.score * Millionth - proof.score)
                                 \in (-Millionth)..Millionth
        BY DEF SignedTermsHold
    <2>1. Signatures[n].over = Canonical(proof)
        BY DEF ReasonInv, AllVerify, Verified, Verifies
    <2>2. /\ proof.expires \in Int /\ proof.score \in Int /\ clock \in Int
          /\ clock < proof.expires
        BY DEF IInv, TypeOK, ProofType, OutcomeInv
    <2>3. proof.expires < (proof.expires \div Second + 1) * Second
        BY <2>2, SecondOf
    <2>4. (proof.expires \div Second + 1) * Second \in Int
        BY <2>2, TrustProofAssumption
    <2>5. clock < (proof.expires \div Second + 1) * Second
        BY <2>2, <2>3, <2>4
    <2>6. 2 * (Rounded(proof.score) * Millionth - proof.score) \in (-Millionth)..Millionth
        BY <2>2, RoundedIsNear
    <2> QED BY <2>1, <2>5, <2>6 DEF Canonical
<1> QED BY <1>1, ReasonsHold, PTL

\* The two clients sign one string.
LEMMA OneCanonicalString ==
    ASSUME TypeOK
    PROVE  Ts!canonicalString(proof) = Canonical(proof)
<1>1. proof.score \in Int /\ proof.issued \in Int /\ proof.expires \in Int
    BY DEF TypeOK, ProofType
<1>2. Second \in Nat \ {0} /\ Millionth \in Nat \ {0}
    BY TrustProofAssumption
<1>3. Ts!sixPlaces(proof.score) = Rounded(proof.score)
    BY <1>1, <1>2 DEF Ts!sixPlaces, Rounded
<1>4. \A n \in Int : Ts!canonicalTime(n) = n \div Second
    BY <1>2 DEF Ts!canonicalTime, Ts!Truncated
<1> QED BY <1>1, <1>3, <1>4 DEF Ts!canonicalString, Canonical

\* Where step 7 does not decide, the TypeScript client's steps 3 and 4 are Signed.
LEMMA TsSigned ==
    ASSUME TypeOK, FiveSteps
    PROVE  LET signatures == {proof.signatures[i] : i \in DOMAIN proof.signatures}
           IN  Signed <=> /\ \A s \in signatures : Ts!signatureValid(proof, s, keys)
                          /\ \E s \in signatures : Ts!issuerSigns(proof, s)
<1>1. ASSUME NEW n \in DOMAIN Signatures
      PROVE  Ts!signatureValid(proof, Signatures[n], keys) <=> Verifies(Signatures[n])
    <2>1. EntriesFor(Signatures[n]) = keys
        BY DEF FiveSteps, NamesSecond, EntriesFor
    <2>2. Ts!Serving(keys, Signatures[n]) = Hits(keys, Signatures[n])
        BY DEF Ts!Serving, Ts!Serves, Hits, ResolvesTo
    <2> QED BY <2>1, <2>2, OneCanonicalString, TrustProofAssumption
            DEF Ts!signatureValid, Verifies, KeyBytes
<1>2. ASSUME NEW n \in DOMAIN Signatures
      PROVE  Ts!issuerSigns(proof, Signatures[n]) <=> CountsForIssuer(Signatures[n])
    BY DEF Ts!issuerSigns, CountsForIssuer
<1>3. Signed <=> /\ \A n \in DOMAIN Signatures : Ts!signatureValid(proof, Signatures[n], keys)
                 /\ \E n \in DOMAIN Signatures : Ts!issuerSigns(proof, Signatures[n])
    BY <1>1, <1>2, SignedMeans DEF AllVerify, Verified, FromIssuer
<1> QED BY <1>3 DEF Signatures

\* The TypeScript client's category is that of the first check that fails.
LEMMA TsMeans ==
    ASSUME TypeOK, FiveSteps
    PROVE  Ts!checkTrustProof(proof, keys, trusted, clock) =
             IF ~Readable THEN "PARSE_ERROR"
             ELSE IF ~Current THEN "EXPIRED"
             ELSE IF ~Known THEN "UNTRUSTED_ISSUER"
             ELSE IF ~Authentic THEN "SIGNATURE_INVALID"
             ELSE IF ~Sensible THEN "SEMANTIC_INVALID" ELSE "valid"
<1> DEFINE signatures == {proof.signatures[i] : i \in DOMAIN proof.signatures}
<1>1. /\ Len(Signatures) \in Nat /\ DOMAIN Signatures = 1..Len(Signatures)
      /\ clock \in Int /\ proof.expires \in Int /\ proof.readable \in {"yes", "no"}
    BY DEF TypeOK, ProofType, Signatures
<1>2. Readable <=> ~(proof.readable = "no" \/ signatures = {})
    <2>1. signatures = {} <=> DOMAIN Signatures = {}
        BY DEF Signatures
    <2>2. DOMAIN Signatures = {} <=> ~(Len(Signatures) > 0)
        <3>1. CASE Len(Signatures) > 0
            <4>1. 1 \in DOMAIN Signatures
                BY <1>1, <3>1
            <4> QED BY <3>1, <4>1
        <3>2. CASE ~(Len(Signatures) > 0)
            <4>1. \A n \in DOMAIN Signatures : FALSE
                BY <1>1, <3>2
            <4> QED BY <3>2, <4>1
        <3> QED BY <3>1, <3>2
    <2> QED BY <1>1, <2>1, <2>2 DEF Readable
<1>3. Readable => (Current <=> ~(proof.expires <= clock))
    BY <1>1 DEF Current
<1>4. Current => (Known <=> ~(proof.issuer \notin trusted))
    BY DEF Known
<1>5. Known => (Authentic <=> ~(\/ \E s \in signatures : ~Ts!signatureValid(proof, s, keys)
                                \/ \A s \in signatures : ~Ts!issuerSigns(proof, s)))
    BY TsSigned DEF Authentic
<1>6. Authentic => (Sensible <=> ~(~Ts!sensible(proof)))
    <2>1. /\ proof.level \in Int /\ proof.score \in Int /\ proof.issued \in Int
          /\ proof.expires \in Int /\ MaxScore \in Nat /\ MaxValidity \in Nat
        BY TrustProofAssumption DEF TypeOK, ProofType
    <2>2. Meaningful <=> Ts!sensible(proof)
        BY <2>1 DEF Meaningful, Ts!sensible
    <2> QED BY <2>2, SensibleMeans
<1> HIDE DEF signatures
<1>7. Ts!checkTrustProof(proof, keys, trusted, clock) =
        IF proof.readable = "no" \/ signatures = {} THEN "PARSE_ERROR"
        ELSE IF proof.expires <= clock THEN "EXPIRED"
        ELSE IF proof.issuer \notin trusted THEN "UNTRUSTED_ISSUER"
        ELSE IF \/ \E s \in signatures : ~Ts!signatureValid(proof, s, keys)
                \/ \A s \in signatures : ~Ts!issuerSigns(proof, s)
        THEN "SIGNATURE_INVALID"
        ELSE IF ~Ts!sensible(proof) THEN "SEMANTIC_INVALID" ELSE "valid"
    BY DEF Ts!checkTrustProof, signatures
<1> QED BY <1>2, <1>3, <1>4, <1>5, <1>6, <1>7

\* The first check that fails names the category, in both clients.
THEOREM FirstFailureNames == Spec => []FirstFailureDecides
<1>1. IInv /\ JudgedInv /\ ReasonInv => FirstFailureDecides
    <2> SUFFICES ASSUME IInv, ReasonInv, pc = "done"
                 PROVE  FirstFailureDecides
        BY DEF FirstFailureDecides
    <2>1. TypeOK /\ outcome \in Categories \cup {"valid"} /\ proof.level \in Int
        BY DEF IInv, ReasonInv, TypeOK, ProofType
    <2>2. /\ Sensible => Authentic
          /\ Authentic => Known /\ Signed
          /\ Known => Current
          /\ Current => Readable
        BY DEF Sensible, Authentic, Known, Current
    <2>3. Known /\ Signed => Authentic
        BY DEF Authentic
    <2>4. outcome = "PARSE_ERROR" <=> ~Readable
        BY <2>1, <2>2 DEF ReasonInv, Categories
    <2>5. outcome = "EXPIRED" <=> Readable /\ ~Current
        BY <2>1, <2>2 DEF ReasonInv, Categories
    <2>6. outcome = "UNTRUSTED_ISSUER" <=> Current /\ ~Known
        BY <2>1, <2>2 DEF ReasonInv, Categories
    <2>7. outcome = "SEMANTIC_INVALID" <=> Authentic /\ ~Sensible
        BY <2>1, <2>2 DEF ReasonInv, Categories
    <2>8. outcome = "SIGNATURE_INVALID" => Known
        BY DEF ReasonInv
    <2>9. Sensible /\ (second = None \/ proof.level < 3) => outcome = "valid"
        BY <2>1, <2>2 DEF ReasonInv, Categories
    <2>10. FiveSteps => outcome = Ts!checkTrustProof(proof, keys, trusted, clock)
        <3> SUFFICES ASSUME FiveSteps
                     PROVE  outcome = Ts!checkTrustProof(proof, keys, trusted, clock)
            OBVIOUS
        <3>1. second = None \/ proof.level < 3
            BY DEF FiveSteps
        <3>2. Known /\ ~Authentic => outcome = "SIGNATURE_INVALID"
            BY <2>1, <2>2 DEF ReasonInv, Categories
        <3> QED BY <2>1, <2>2, <2>4, <2>5, <2>6, <2>7, <2>9, <3>1, <3>2, TsMeans
    <2> QED BY <2>4, <2>5, <2>6, <2>7, <2>8, <2>9, <2>10 DEF FirstFailureDecides
<1> QED BY <1>1, ReasonsHold, PTL

=============================================================================
