----------------------------- MODULE TrustProof -----------------------------
(***************************************************************************)
(* verify_trust_proof of the Python client: Section 4.4 steps 1 to 5 and   *)
(* step 7, check by check, in the order of the code.                       *)
(*                                                                         *)
(* A signature is symbolic: which key made it, and over what.  A key is    *)
(* its raw bytes, which two authorities may both publish.  A keyId is a    *)
(* DID and a fragment.  Instants are counted in ticks of less than a       *)
(* second, and the canonical string keeps whole seconds only.              *)
(***************************************************************************)
EXTENDS Integers, Sequences

CONSTANTS
    Proofs,         \* the proofs to verify
    KeyLists,       \* what keys may be
    SecondLists,    \* what second_authorities may be, absence included
    Clocks,         \* what now may be
    Supported,      \* the algorithms this installation verifies
    Agents,         \* the agents a proof may be about
    Dids,           \* the authorities
    Fragments,      \* fragments of a keyId
    NoFragment,     \* a keyId without one
    RawKeys,        \* public keys, as bytes
    KeyAlgorithm,   \* the algorithm whose size a public key has
    Malformed,      \* a publicKeyHex that is no hex
    None,           \* second_authorities is absent
    Second,         \* ticks of a second
    MaxValidity,    \* MAX_VALIDITY_MICROSECONDS, in ticks
    Millionth,      \* units of a score in 0.000001
    MaxScore        \* 1.0, in units of a score

Algorithms == {"Ed25519", "ML-DSA-65"}
Verdicts == {"passed", "warning", "blocked", "listed", "verified", "unknown"}

KeyIds == [did : Dids, fragment : Fragments \cup {NoFragment}]

\* An entry of publicKeys.
KeyEntries == [keyId : KeyIds, algorithm : Algorithms, raw : RawKeys \cup {Malformed},
               status : {"active", "retired", "revoked"}]

\* The members a signature covers, as canonical() writes them and as it reads them.
Canonicals == [did : Agents, level : Int, score : Int, verdict : Verdicts \cup {"unknown_word"},
               issued : Int, expires : Int, issuer : Dids]

\* %.6f: to the nearest millionth, a tie to the even one.
Rounded(score) ==
    LET down == score \div Millionth
        rest == 2 * (score % Millionth)
    IN  IF rest > Millionth \/ (rest = Millionth /\ down % 2 = 1) THEN down + 1 ELSE down

\* _Proof.canonical: the score is rounded, and the times are cut to the second.
Canonical(p) == [did |-> p.did, level |-> p.level, score |-> Rounded(p.score),
                 verdict |-> p.verdict, issued |-> p.issued \div Second,
                 expires |-> p.expires \div Second, issuer |-> p.issuer]

\* An entry of signatures: whose key made its value, and over which string.
Entries == [keyId : KeyIds, algorithm : Algorithms \cup {"Sigstore", "unknown"},
            by : RawKeys \cup {Malformed}, over : Canonicals]

\* A proof as _parse_proof and _signature_entries read it, if they can.
ProofType == [readable : {"yes", "no"}, did : Agents, issuer : Dids, level : Int,
              score : Int, verdict : Verdicts \cup {"unknown_word"}, issued : Int,
              expires : Int, signatures : Seq(Entries)]

ASSUME TrustProofAssumption ==
    /\ NoFragment \notin Fragments
    /\ Malformed \notin RawKeys
    /\ KeyAlgorithm \in [RawKeys -> Algorithms]
    /\ Supported \subseteq Algorithms
    /\ Second \in Nat \ {0} /\ Millionth \in Nat \ {0}
    /\ MaxValidity \in Nat /\ MaxScore \in Nat
    /\ Proofs \subseteq ProofType
    /\ KeyLists \subseteq Seq(KeyEntries)
    /\ \A list \in SecondLists \ {None} :
         DOMAIN list \subseteq Dids /\ \A did \in DOMAIN list : list[did] \in Seq(KeyEntries)
    /\ Clocks \subseteq Int

VARIABLES
    proof,          \* the proof: the members that are read, and its signatures
    keys,           \* keys: the issuer's publicKeys entries
    trusted,        \* trusted_issuers
    clock,          \* now
    second,         \* second_authorities: a DID's entries, or None
    pc,             \* the check that is next
    index,          \* the signature it is at
    issuerSigned,   \* issuer_signed
    secondSigners,  \* second_signers
    outcome         \* the VerifyResult: its category, or "valid"

inputVars == <<proof, keys, trusted, clock, second>>
vars == <<inputVars, pc, index, issuerSigned, secondSigners, outcome>>

Checks == {"parse", "expiry", "issuer", "resolve", "verify", "semantics", "second", "done"}
Categories == {"PARSE_ERROR", "EXPIRED", "UNTRUSTED_ISSUER", "SIGNATURE_INVALID",
               "SEMANTIC_INVALID"}

TypeOK ==
    /\ proof \in ProofType
    /\ keys \in Seq(KeyEntries)
    /\ trusted \subseteq Dids
    /\ clock \in Int
    /\ second \in SecondLists
    /\ pc \in Checks
    /\ index \in 1..(Len(proof.signatures) + 1)
    /\ issuerSigned \in {"no", "yes"}
    /\ secondSigners \subseteq Dids \ {proof.issuer}
    /\ outcome \in Categories \cup {"none", "valid"}

Init ==
    /\ proof \in Proofs
    /\ keys \in KeyLists
    /\ trusted \in SUBSET Dids
    /\ clock \in Clocks
    /\ second \in SecondLists
    /\ pc = "parse"
    /\ index = 1
    /\ issuerSigned = "no"
    /\ secondSigners = {}
    /\ outcome = "none"

Signatures == proof.signatures

-----------------------------------------------------------------------------
(* Keys: _key_bytes and _public_keys.                                      *)

\* Defect: the status of an entry is not looked at.
ResolvesToAny(entry, s) ==
    /\ entry.keyId = s.keyId
    /\ entry.algorithm = s.algorithm
    /\ entry.raw # Malformed
    /\ KeyAlgorithm[entry.raw] = s.algorithm

\* An entry that the keyId and algorithm of a signature resolve to.
ResolvesTo(entry, s) ==
    /\ entry.keyId = s.keyId
    /\ entry.algorithm = s.algorithm
    /\ entry.status # "revoked"
    /\ entry.raw # Malformed
    /\ KeyAlgorithm[entry.raw] = s.algorithm

\* What a signature resolves to among entries, and the key of the first of them
\* (a set of that key alone, empty when the code answers None).
Hits(entries, s) == {i \in DOMAIN entries : ResolvesTo(entries[i], s)}
KeyBytes(entries, s) ==
    {entries[i].raw : i \in {h \in Hits(entries, s) : \A j \in Hits(entries, s) : h <= j}}

\* The bytes of every key of entries, whatever its algorithm and status.
PublicKeys(entries) == {entries[i].raw : i \in DOMAIN entries} \ {Malformed}

-----------------------------------------------------------------------------
(* The keys a signature resolves among (step 3 and step 7).                *)

\* A keyId that names a second authority resolves among its entries alone.
NamesSecond(s) ==
    /\ second # None
    /\ s.keyId.did \in DOMAIN second
    /\ s.keyId.did # proof.issuer

EntriesFor(s) == IF NamesSecond(s) THEN second[s.keyId.did] ELSE keys

\* An Ed25519 or ML-DSA-65 signature whose keyId resolves.
Resolves(s) == s.algorithm \in Algorithms /\ Hits(EntriesFor(s), s) # {}

\* Defect: a signature of the key is taken over any string.
MadeWithItsKey(s) ==
    s.algorithm \in Supported /\ s.by \in KeyBytes(EntriesFor(s), s)

\* The signature was made with its key over the canonical string.
Verifies(s) ==
    /\ s.algorithm \in Supported
    /\ s.by \in KeyBytes(EntriesFor(s), s)
    /\ s.over = Canonical(proof)

\* Defect: a signature by any key of keys counts as the issuer's.
CountsForAny(s) ==
    s.algorithm = "Ed25519" /\ s.keyId.fragment # NoFragment /\ ~NamesSecond(s)

CountsForIssuer(s) ==
    s.algorithm = "Ed25519" /\ s.keyId.fragment # NoFragment /\ s.keyId.did = proof.issuer

\* Defect: any other signature counts as a second authority's.
CountsForAnother(s) == s.algorithm = "Ed25519" /\ s.keyId.fragment # NoFragment

CountsForSecond(s) ==
    s.algorithm = "Ed25519" /\ s.keyId.fragment # NoFragment /\ NamesSecond(s)

\* The issuer's own keys: entries of keys whose keyId names it.
OfIssuer == {i \in DOMAIN keys : keys[i].keyId.did = proof.issuer}
IssuerKeys == {keys[i].raw : i \in OfIssuer} \ {Malformed}

\* Defect: only the keys the issuer still uses are compared.
SharesActiveKey(did) ==
    \E i \in OfIssuer : keys[i].raw \in PublicKeys(second[did]) /\ keys[i].status = "active"

\* A second authority that shares a public key with the issuer is not distinct.
SharesKey(did) == PublicKeys(second[did]) \cap IssuerKeys # {}

-----------------------------------------------------------------------------
(* The checks.                                                             *)

Return(result) ==
    /\ pc' = "done"
    /\ outcome' = result
    /\ UNCHANGED <<inputVars, index, issuerSigned, secondSigners>>

Pass(check) ==
    /\ pc' = check
    /\ index' = 1
    /\ UNCHANGED <<inputVars, issuerSigned, secondSigners, outcome>>

\* The members, the signatures and the log index are read.
Parse ==
    /\ pc = "parse"
    /\ \/ proof.readable = "no" /\ Return("PARSE_ERROR")
       \/ Signatures = <<>> /\ Return("PARSE_ERROR")
       \/ proof.readable = "yes" /\ Signatures # <<>> /\ Pass("expiry")

\* Defect: a proof is valid up to and at expiresAt.
ExpiryLate ==
    /\ pc = "expiry"
    /\ \/ proof.expires < clock /\ Return("EXPIRED")
       \/ proof.expires >= clock /\ Pass("issuer")

\* Step 1.
Expiry ==
    /\ pc = "expiry"
    /\ \/ proof.expires <= clock /\ Return("EXPIRED")
       \/ proof.expires > clock /\ Pass("issuer")

\* Step 2.
Issuer ==
    /\ pc = "issuer"
    /\ \/ proof.issuer \notin trusted /\ Return("UNTRUSTED_ISSUER")
       \/ proof.issuer \in trusted /\ Pass("resolve")

\* Step 3, signature by signature: an algorithm that is not verified, or a keyId
\* that does not resolve to a key that is not revoked, rejects the proof.
Resolve ==
    /\ pc = "resolve"
    /\ index <= Len(Signatures)
    /\ \/ ~Resolves(Signatures[index]) /\ Return("SIGNATURE_INVALID")
       \/ /\ Resolves(Signatures[index])
          /\ index' = index + 1
          /\ UNCHANGED <<inputVars, pc, issuerSigned, secondSigners, outcome>>

AllResolved ==
    /\ pc = "resolve"
    /\ index > Len(Signatures)
    /\ Pass("verify")

\* Step 4, signature by signature: each is verified, then counted.
Verify ==
    /\ pc = "verify"
    /\ index <= Len(Signatures)
    /\ LET s == Signatures[index]
       IN  \/ ~Verifies(s) /\ Return("SIGNATURE_INVALID")
           \/ /\ Verifies(s)
              /\ issuerSigned' = IF CountsForIssuer(s) THEN "yes" ELSE issuerSigned
              /\ secondSigners' = secondSigners \cup
                     (IF CountsForSecond(s) THEN {s.keyId.did} ELSE {})
              /\ index' = index + 1
              /\ UNCHANGED <<inputVars, pc, outcome>>

\* Step 4 also needs an Ed25519 signature by a key of issuerDid.
AllVerified ==
    /\ pc = "verify"
    /\ index > Len(Signatures)
    /\ \/ issuerSigned = "no" /\ Return("SIGNATURE_INVALID")
       \/ issuerSigned = "yes" /\ Pass("semantics")

\* What step 5 asks of the members.
Meaningful ==
    /\ proof.level \in 0..4
    /\ proof.score \in 0..MaxScore
    /\ proof.verdict \in Verdicts
    /\ proof.issued < proof.expires
    /\ proof.expires - proof.issued <= MaxValidity

\* Step 5.
Semantics ==
    /\ pc = "semantics"
    /\ \/ ~Meaningful /\ Return("SEMANTIC_INVALID")
       \/ Meaningful /\ Pass("second")

\* Step 7: at trust level 3 and 4 a second authority signed that shares no public
\* key with the issuer, when the verifier knows of second authorities.
SecondAuthority ==
    /\ pc = "second"
    /\ \/ (second = None \/ proof.level < 3) /\ Return("valid")
       \/ /\ second # None /\ proof.level >= 3
          /\ \/ (\E did \in secondSigners : ~SharesKey(did)) /\ Return("valid")
             \/ (\A did \in secondSigners : SharesKey(did)) /\ Return("SIGNATURE_INVALID")

Next ==
    \/ Parse \/ Expiry \/ Issuer \/ Resolve \/ AllResolved \/ Verify \/ AllVerified
    \/ Semantics \/ SecondAuthority

Spec == Init /\ [][Next]_vars

-----------------------------------------------------------------------------
(* What verify_trust_proof promises, in terms of its inputs alone.         *)

\* A key that a list publishes under the keyId of a signature made it.
MadeWithKeyOf(s, entries) ==
    \E i \in DOMAIN entries : /\ entries[i].keyId = s.keyId
                              /\ entries[i].status # "revoked"
                              /\ entries[i].raw = s.by

\* An accepted proof was signed by a trusted issuer, with an Ed25519 key it has not
\* revoked, over the members that were accepted; it has not expired, and its window
\* is at most 24 hours.
IssuerVouches ==
    outcome = "valid" =>
        /\ proof.issuer \in trusted
        /\ \E i \in DOMAIN Signatures :
             LET s == Signatures[i]
             IN  /\ s.algorithm = "Ed25519"
                 /\ s.keyId.did = proof.issuer
                 /\ MadeWithKeyOf(s, keys)
                 /\ s.over = Canonical(proof)
        /\ clock < proof.expires
        /\ proof.expires <= proof.issued + MaxValidity

\* The canonical string drops what the members hold beyond its precision, so an
\* accepted proof need not be the one that was signed; it is within that precision
\* of it: a second of its expiry and half a millionth of its score.
SignedTermsHold ==
    outcome = "valid" =>
        \A i \in DOMAIN Signatures :
            LET signed == Signatures[i].over
            IN  /\ signed.did = proof.did /\ signed.level = proof.level
                /\ clock < (signed.expires + 1) * Second
                /\ 2 * (signed.score * Millionth - proof.score) \in (-Millionth)..Millionth

\* A proof accepted at trust level 3 or 4 by a verifier that knows second
\* authorities was also signed by one of them, with a key it has not revoked and
\* the issuer never published as its own: no issuer elevates alone.
SecondAuthorityVouches ==
    outcome = "valid" /\ second # None /\ proof.level >= 3 =>
        \E i \in DOMAIN Signatures :
            LET s == Signatures[i]
            IN  /\ s.algorithm = "Ed25519"
                /\ s.keyId.did \in DOMAIN second \ {proof.issuer}
                /\ MadeWithKeyOf(s, second[s.keyId.did])
                /\ s.over = Canonical(proof)
                /\ \A j \in DOMAIN keys :
                     keys[j].keyId.did = proof.issuer => keys[j].raw # s.by

\* The entries a signature may be checked with, wherever they are listed.
ListFor(s) == IF second # None /\ s.keyId.did \in DOMAIN second \ {proof.issuer}
              THEN second[s.keyId.did] ELSE keys
Live(s) == {i \in DOMAIN ListFor(s) :
              LET entry == ListFor(s)[i]
              IN  /\ entry.keyId = s.keyId /\ entry.algorithm = s.algorithm
                  /\ entry.status # "revoked"
                  /\ entry.raw \in {raw \in RawKeys : KeyAlgorithm[raw] = s.algorithm}}

\* Every signature verifies under the first live entry of its keyId, and one of
\* them is an Ed25519 signature of the issuer.
Signed ==
    /\ \A n \in DOMAIN Signatures :
         LET s == Signatures[n]
         IN  /\ s.algorithm \in Supported /\ s.over = Canonical(proof)
             /\ \E i \in Live(s) : /\ \A j \in Live(s) : i <= j
                                   /\ ListFor(s)[i].raw = s.by
    /\ \E n \in DOMAIN Signatures :
         LET s == Signatures[n]
         IN  /\ s.algorithm = "Ed25519" /\ s.keyId.fragment # NoFragment
             /\ s.keyId.did = proof.issuer

Readable == proof.readable = "yes" /\ Len(Signatures) > 0
Current == Readable /\ clock < proof.expires
Known == Current /\ proof.issuer \in trusted
Authentic == Known /\ Signed
Sensible ==
    /\ Authentic
    /\ 0 <= proof.level /\ proof.level <= 4 /\ 0 <= proof.score /\ proof.score <= MaxScore
    /\ proof.verdict # "unknown_word"
    /\ proof.issued < proof.expires /\ proof.expires <= proof.issued + MaxValidity

Ts == INSTANCE TsTrustProof

\* Neither second authorities nor step 7 decide.
FiveSteps ==
    second = None \/ (proof.level < 3 /\ \A n \in DOMAIN Signatures : ~NamesSecond(Signatures[n]))

\* The checks run in order and the first that fails names the category; a proof
\* that passes them all, and step 7 where it applies, is accepted.  The TypeScript
\* client, which has no second authorities, answers with the same category otherwise.
FirstFailureDecides ==
    pc = "done" =>
        /\ outcome = "PARSE_ERROR" <=> ~Readable
        /\ outcome = "EXPIRED" <=> Readable /\ ~Current
        /\ outcome = "UNTRUSTED_ISSUER" <=> Current /\ ~Known
        /\ outcome = "SEMANTIC_INVALID" <=> Authentic /\ ~Sensible
        /\ outcome = "SIGNATURE_INVALID" => Known
        /\ Sensible /\ (second = None \/ proof.level < 3) => outcome = "valid"
        /\ FiveSteps => outcome = Ts!checkTrustProof(proof, keys, trusted, clock)

\* The public keys that are listed under the keyId and algorithm of a signature.
KeysListed(s) == {ListFor(s)[i].raw :
                i \in {i \in DOMAIN ListFor(s) : /\ ListFor(s)[i].keyId = s.keyId
                                                  /\ ListFor(s)[i].algorithm = s.algorithm}}

\* ATP-SPEC.md 8.2, item 5: "Trust proofs with multi-authority signatures remain
\* valid if at least one non-revoked signature exists".  So a proof below trust
\* level 3 that its issuer signed with a key it has not revoked does not fail for
\* another signature.  Each is over the proof, by the one key its keyId lists, so
\* that nothing but the revocation of a key is wrong with any of them.
RevokedCosignatureSpares ==
    /\ pc = "done" /\ Known /\ proof.level < 3
    /\ \A n \in DOMAIN Signatures :
         LET s == Signatures[n]
         IN  /\ s.algorithm \in Supported /\ s.over = Canonical(proof)
             /\ s.by \in RawKeys /\ KeyAlgorithm[s.by] = s.algorithm
             /\ KeysListed(s) = {s.by}
    /\ \E n \in DOMAIN Signatures :
         CountsForIssuer(Signatures[n]) /\ MadeWithKeyOf(Signatures[n], keys)
    => outcome # "SIGNATURE_INVALID"

=============================================================================
