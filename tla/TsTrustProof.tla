---------------------------- MODULE TsTrustProof ----------------------------
(***************************************************************************)
(* verifyTrustProof of the TypeScript client, as the category it answers   *)
(* with: Section 4.4 steps 1 to 5.  There are no second authorities, and   *)
(* every keyId resolves among keys.                                        *)
(*                                                                         *)
(* Proofs, keys and signatures are those of TrustProof.                    *)
(***************************************************************************)
EXTENDS Integers, Sequences

CONSTANTS Supported, KeyAlgorithm, Malformed, NoFragment, Algorithms, Verdicts,
          Second, MaxValidity, Millionth, MaxScore

\* A tie goes to the even millionth: sixPlaces divides whole numbers, since toFixed(6)
\* rounds a tie up.
sixPlaces(score) ==
    LET millionths == score \div Millionth
        twiceRemainder == 2 * (score % Millionth)
    IN  millionths + (IF \/ twiceRemainder > Millionth
                         \/ twiceRemainder = Millionth /\ millionths % 2 = 1
                      THEN 1 ELSE 0)

\* Division truncates, so an instant before 1970 with a fraction is moved down.
Truncated(n) == IF n < 0 THEN -((-n) \div Second) ELSE n \div Second
canonicalTime(instant) ==
    Truncated(instant) - (IF instant < Truncated(instant) * Second THEN 1 ELSE 0)

canonicalString(p) ==
    [did |-> p.did, level |-> p.level, score |-> sixPlaces(p.score), verdict |-> p.verdict,
     issued |-> canonicalTime(p.issued), expires |-> canonicalTime(p.expires), issuer |-> p.issuer]

\* A key that is not revoked, of the signature's keyId and algorithm, and of its size.
Serves(key, s) ==
    /\ key.keyId = s.keyId /\ key.algorithm = s.algorithm /\ key.status # "revoked"
    /\ key.raw # Malformed /\ KeyAlgorithm[key.raw] = s.algorithm

Serving(keys, s) == {i \in DOMAIN keys : Serves(keys[i], s)}

\* Steps 3 and 4 for one signature, which reject with one category: keyBytes takes the
\* first key that serves.
signatureValid(p, s, keys) ==
    /\ s.algorithm \in Algorithms \cap Supported /\ s.over = canonicalString(p)
    /\ \E i \in Serving(keys, s) : s.by = keys[i].raw /\ \A j \in Serving(keys, s) : i <= j

issuerSigns(p, s) ==
    s.algorithm = "Ed25519" /\ s.keyId.fragment # NoFragment /\ s.keyId.did = p.issuer

\* Step 5.
sensible(p) ==
    /\ p.level >= 0 /\ p.level <= 4 /\ p.score >= 0 /\ p.score <= MaxScore
    /\ p.verdict \in Verdicts
    /\ p.issued < p.expires /\ p.expires - p.issued <= MaxValidity

checkTrustProof(p, keys, trusted, now) ==
    LET signatures == {p.signatures[i] : i \in DOMAIN p.signatures}
    IN  IF p.readable = "no" \/ signatures = {} THEN "PARSE_ERROR"
        ELSE IF p.expires <= now THEN "EXPIRED"
        ELSE IF p.issuer \notin trusted THEN "UNTRUSTED_ISSUER"
        ELSE IF \/ \E s \in signatures : ~signatureValid(p, s, keys)
                \/ \A s \in signatures : ~issuerSigns(p, s)
        THEN "SIGNATURE_INVALID"
        ELSE IF ~sensible(p) THEN "SEMANTIC_INVALID" ELSE "valid"

=============================================================================
