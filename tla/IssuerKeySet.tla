----------------------------- MODULE IssuerKeySet -----------------------------
(***************************************************************************)
(* validate_examples.py: the rules of an issuer key set (ATP-SPEC.md       *)
(* 7.1.1), its count (Section 4.4 step 4), steps 3, 4 and 7 for a proof,   *)
(* and the checks of the two proofs that the specification prints.         *)
(*                                                                         *)
(* A keyId is the DID that it names and its fragment.  Ed25519 is          *)
(* symbolic: an entry of a proof names the key that made its signature     *)
(* over the proof's canonical string, or "nothing".                        *)
(***************************************************************************)
EXTENDS Integers, Sequences, FiniteSets

CONSTANTS
    Dids,           \* the authorities
    Keys,           \* the values of publicKeyHex
    OddKeys         \* those with an odd number of digits

\* What those encode: no bytes, which verify nothing.
NoKey == "no key"
Bytes(hex) == IF hex \in OddKeys THEN NoKey ELSE hex

KeyIds == Dids \X {"1", "2", "3"}
KeyDid(keyId) == keyId[1]

\* A discovery document and a trust proof that their schemas accept, whatever string an
\* instant is.  A document without a set has threshold 0.
DiscoveryType ==
    [publicKeys : Seq([keyId : KeyIds, algorithm : {"Ed25519", "ML-DSA-65"}, hex : Keys]),
     authority : Dids, threshold : Nat, keyIds : Seq(KeyIds)]
ProofType ==
    [issuer : Dids, level : 0..4, times : {"RFC 3339", "other"},
     signatures : Seq([keyId : KeyIds, algorithm : {"Ed25519", "ML-DSA-65", "Sigstore"},
                       by : Keys \cup {"nothing"}])]

ASSUME KeysAssumption ==
    IsFiniteSet(Keys) /\ NoKey \notin Keys /\ "nothing" \notin Keys /\ OddKeys \subseteq Keys

Declares(d) == d.threshold > 0

\* Of two entries of publicKeys with one keyId the first is read.
First(d, keyId) ==
    LET is == {i \in DOMAIN d.publicKeys : d.publicKeys[i].keyId = keyId}
    IN  d.publicKeys[CHOOSE i \in is : \A j \in is : i <= j]
Known(d) == {d.publicKeys[i].keyId : i \in DOMAIN d.publicKeys}

-----------------------------------------------------------------------------
(* issuer_key_set_errors: what is wrong with the i-th of keyIds.           *)

ListedBefore(d, i) == \E j \in 1..(i - 1) : d.keyIds[j] = d.keyIds[i]
HeldBefore(d, i) ==
    \E j \in 1..(i - 1) :
        /\ d.keyIds[j] \in Known(d) /\ First(d, d.keyIds[j]).algorithm = "Ed25519"
        /\ First(d, d.keyIds[j]).hex = First(d, d.keyIds[i]).hex

\* Defect: only a keyId that is listed twice is looked for.
EntryErrorById(d, i) ==
    IF ListedBefore(d, i) THEN "twice"
    ELSE IF d.keyIds[i] \notin Known(d) THEN "unknown"
    ELSE IF First(d, d.keyIds[i]).algorithm # "Ed25519" THEN "algorithm"
    ELSE "none"

EntryError(d, i) ==
    IF ListedBefore(d, i) THEN "twice"
    ELSE IF d.keyIds[i] \notin Known(d) THEN "unknown"
    ELSE IF First(d, d.keyIds[i]).algorithm # "Ed25519" THEN "algorithm"
    ELSE IF HeldBefore(d, i) THEN "same key"
    ELSE "none"

IssuerKeySetErrors(d) ==
    IF ~Declares(d) THEN {}
    ELSE ({EntryError(d, i) : i \in DOMAIN d.keyIds} \ {"none"})
         \cup (IF d.threshold > Len(d.keyIds) THEN {"threshold"} ELSE {})

-----------------------------------------------------------------------------
(* The signatures of a proof, under known keys: a function from keyIds.    *)

\* discovery_keys: the document's Ed25519 keys.
DiscoveryKeys(d) ==
    [k \in {k \in Known(d) : First(d, k).algorithm = "Ed25519"} |-> Bytes(First(d, k).hex)]

Ed25519Verifies(key, entry) == key # NoKey /\ entry.by = key

\* An Ed25519 entry whose keyId is known, and that verifies under its key.
Signs(entry, keys) ==
    /\ entry.algorithm = "Ed25519" /\ entry.keyId \in DOMAIN keys
    /\ Ed25519Verifies(keys[entry.keyId], entry)

EntriesOf(p) == {p.signatures[i] : i \in DOMAIN p.signatures}
Signers(p, keys) == {KeyDid(e.keyId) : e \in {e \in EntriesOf(p) : Signs(e, keys)}}
Owned(keys, did) == {keys[k] : k \in {k \in DOMAIN keys : KeyDid(k) = did}}

\* canonical_string raises ValueError.
NoString(p) == p.times = "other"

\* two_authority_errors: no canonical string; an entry that does not sign, no entry of the
\* issuer, and at trust levels 3 and 4 no other authority that shares no key with it.
TwoAuthorityErrors(p, keys) ==
    IF NoString(p) THEN {"string"} ELSE
    {"entry" : e \in {e \in EntriesOf(p) : ~Signs(e, keys)}}
        \cup (IF p.issuer \notin Signers(p, keys) THEN {"issuer"}
              ELSE IF /\ p.level >= 3
                      /\ \A did \in Signers(p, keys) \ {p.issuer} :
                            Owned(keys, did) \cap Owned(keys, p.issuer) # {}
              THEN {"single authority"} ELSE {})

\* The keys of the set that an entry of the proof verifies under.
Signed(p, d) ==
    {k \in {d.keyIds[j] : j \in DOMAIN d.keyIds} :
        \E e \in EntriesOf(p) : e.keyId = k /\ Signs(e, DiscoveryKeys(d))}

KeySetCountErrors(p, d) ==
    IF ~Declares(d) THEN {}
    ELSE IF IssuerKeySetErrors(d) # {} THEN IssuerKeySetErrors(d)
    ELSE IF NoString(p) THEN {"string"}
    ELSE IF Cardinality(Signed(p, d)) < d.threshold THEN {"count"} ELSE {}

-----------------------------------------------------------------------------
(* The proofs of Sections 4.4.1 and 4.4.2.                                 *)

\* two_authority_check, with the keys of the table of Section 4.4.1: the proof passes,
\* and fails step 7 with the issuer's entries alone.
Alone(p) == [p EXCEPT !.signatures = SelectSeq(@, LAMBDA e : KeyDid(e.keyId) = p.issuer)]
TwoAuthorityCheck(p, keys) ==
    LET errors == TwoAuthorityErrors(p, keys) \cup (IF p.level < 3 THEN {"level"} ELSE {})
    IN  IF errors # {} THEN errors
        ELSE IF "single authority" \notin TwoAuthorityErrors(Alone(p), keys) THEN {"alone"} ELSE {}

\* The proof without its last entry, and with its first in place of its last.
Edits(p) ==
    LET n == Len(p.signatures)
        kept == SubSeq(p.signatures, 1, n - 1)
    IN  {[p EXCEPT !.signatures = kept],
         [p EXCEPT !.signatures = kept \o SubSeq(p.signatures, 1, 1)]}

\* key_set_proof_check, once both examples can be read: each edit breaks the count
\* and no other rule.
KeySetProofCheck(p, d) ==
    IF ~Declares(d) THEN {"no set"}
    ELSE IF p.issuer # d.authority THEN {"authority"}
    ELSE LET errors == TwoAuthorityErrors(p, DiscoveryKeys(d)) \cup KeySetCountErrors(p, d)
         IN  IF errors # {} THEN errors
             ELSE {"edit" : edit \in {q \in Edits(p) :
                      \/ TwoAuthorityErrors(q, DiscoveryKeys(d)) # {}
                      \/ KeySetCountErrors(q, d) = {}}}

=============================================================================
