---------------------------- MODULE MCTrustProof ----------------------------
(* TrustProof with an issuer, a second authority and three public keys.    *)
EXTENDS TrustProof, TLC

CONSTANTS a1, a2, issuer, other, k1, k2, pq, main, bare, malformed, absent

TwoAgents == {a1, a2}
TwoDids == {issuer, other}
ThreeKeys == {k1, k2, pq}
Sizes == k1 :> "Ed25519" @@ k2 :> "Ed25519" @@ pq :> "ML-DSA-65"

KeyId(did, fragment) == [did |-> did, fragment |-> fragment]
Key(did, fragment, algorithm, raw, status) ==
    [keyId |-> KeyId(did, fragment), algorithm |-> algorithm, raw |-> raw,
     status |-> status]

\* The issuer's document: its own keys, in use, revoked, of the wrong size or
\* unreadable, one without a fragment, and a key it lists under the other's DID.
Listed == {
    Key(issuer, main, "Ed25519", k1, "active"), Key(issuer, main, "Ed25519", k1, "revoked"),
    Key(issuer, main, "Ed25519", k2, "retired"), Key(issuer, main, "Ed25519", pq, "active"),
    Key(issuer, main, "Ed25519", malformed, "active"), Key(issuer, bare, "Ed25519", k1, "active"),
    Key(issuer, main, "ML-DSA-65", pq, "active"), Key(other, main, "Ed25519", k1, "active")}

ListedKeys == {<<key>> : key \in Listed} \cup {<<a, b>> : a, b \in Listed}

\* What the verifier knows of the other authority.
OtherLists == {
    <<>>, <<Key(other, main, "Ed25519", k2, "active")>>,
    <<Key(other, main, "Ed25519", k2, "revoked")>>,
    <<Key(other, main, "Ed25519", k2, "active"), Key(other, bare, "Ed25519", k1, "revoked")>>}
SecondAuthorities == {absent, << >>} \cup {other :> list : list \in OtherLists}

\* Members that each fail one check or none, at levels with and without step 7.
Members(readable, did, level, score, verdict, issued, expires) ==
    [readable |-> readable, did |-> a1, issuer |-> did, level |-> level, score |-> score,
     verdict |-> verdict, issued |-> issued, expires |-> expires, signatures |-> <<>>]

MemberSets == {
    Members("yes", issuer, 2, 4, "passed", 0, 5), Members("yes", issuer, 3, 1, "passed", 1, 5),
    Members("no", issuer, 2, 4, "passed", 0, 5), Members("yes", other, 2, 3, "passed", 0, 5),
    Members("yes", issuer, 5, 4, "passed", 0, 5), Members("yes", issuer, 3, 5, "passed", 0, 5),
    Members("yes", issuer, 2, 4, "unknown_word", 0, 5), Members("yes", issuer, 3, 3, "passed", 5, 5),
    Members("yes", issuer, 3, 4, "passed", 0, 6), Members("yes", issuer, 3, 4, "passed", 0, 4),
    Members("yes", issuer, 2, 4, "passed", -1, 5)}

\* Signatures over the proof or over another one, of any key and keyId.
SignatureSet(members) ==
    LET sound == Canonical(members)
        stale == [sound EXCEPT !.expires = @ - 1]
        foreign == [sound EXCEPT !.did = a2]
        By(did, fragment, algorithm, raw, over) ==
            [keyId |-> KeyId(did, fragment), algorithm |-> algorithm, by |-> raw, over |-> over]
    IN  {By(issuer, main, "Ed25519", k1, sound), By(issuer, main, "Ed25519", k2, sound),
         By(issuer, main, "Ed25519", k1, stale), By(issuer, main, "ML-DSA-65", pq, sound),
         By(issuer, bare, "Ed25519", k1, sound), By(other, main, "Ed25519", k2, sound),
         By(other, main, "Ed25519", k1, sound), By(other, bare, "Ed25519", k1, foreign),
         By(issuer, main, "Sigstore", k1, sound)}

ProofSet == UNION {
    {members} \cup
    {[members EXCEPT !.signatures = <<a>>] : a \in SignatureSet(members)} \cup
    {[members EXCEPT !.signatures = <<a, b>>] : a, b \in SignatureSet(members)}
    : members \in MemberSets}

=============================================================================
