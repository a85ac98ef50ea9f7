-------------------------- MODULE MCValidateExamples --------------------------
EXTENDS ValidateExamples

KeyId(n) == <<"A", n>>
Listed(n, hex) == [keyId |-> KeyId(n), algorithm |-> "Ed25519", hex |-> hex]
By(keyId, key) == [keyId |-> keyId, algorithm |-> "Ed25519", by |-> key]

\* The key set of Section 7.1.1 and the proof of 4.4.2: two of the three keys.
KeySetDocument ==
    [publicKeys |-> <<Listed("1", "k1"), Listed("2", "k2"), Listed("3", "k3")>>, authority |-> "A",
     threshold |-> 2, keyIds |-> <<KeyId("1"), KeyId("2"), KeyId("3")>>]
SignedBy(signatures) ==
    [issuer |-> "A", level |-> 1, times |-> "RFC 3339", signatures |-> signatures]
Documents ==
    {[KeySetDocument EXCEPT !.threshold = t, !.keyIds = ids] :
        t \in {0, 1, 2, 3}, ids \in {<<KeyId("1")>>, <<KeyId("1"), KeyId("2")>>,
                                     <<KeyId("1"), KeyId("1")>>, <<KeyId("2"), <<"B", "1">>>>}}
    \cup {[KeySetDocument EXCEPT !.publicKeys[2].hex = h] : h \in {"k1", "odd"}}
    \cup {[KeySetDocument EXCEPT !.publicKeys[1] = Listed("2", "k3")],
          [KeySetDocument EXCEPT !.publicKeys[3].algorithm = "ML-DSA-65"],
          [KeySetDocument EXCEPT !.authority = "B"]}
Proofs ==
    {SignedBy(<<By(KeyId("1"), "k1")>>),
     SignedBy(<<By(KeyId("1"), "k1"), By(KeyId("1"), "k1")>>),
     SignedBy(<<By(KeyId("1"), "k1"), By(KeyId("2"), "k1")>>),
     SignedBy(<<By(KeyId("1"), "k1"), By(KeyId("2"), "k2"), By(KeyId("3"), "k3")>>),
     SignedBy(<<By(KeyId("1"), "k1"), By(KeyId("1"), "k1"), By(KeyId("3"), "k3")>>),
     SignedBy(<<By(KeyId("2"), "k3"), By(KeyId("3"), "k3")>>),
     SignedBy(<<By(KeyId("1"), "k1"), By(<<"B", "1">>, "k2")>>)}

\* The proof of 4.4.1, and the keys of its table.
Two(level, signatures) ==
    [issuer |-> "A", level |-> level, times |-> "RFC 3339", signatures |-> signatures]
TwoTable(second) ==
    [k \in KeyIds |-> IF k = KeyId("1") THEN "k1" ELSE IF k = <<"B", "1">> THEN second ELSE NoKey]
TwoProof == Two(3, <<By(KeyId("1"), "k1"), By(<<"B", "1">>, "k2")>>)

Good ==
    [schemas |-> [s \in Schemas |-> "ok"], map |-> "ok",
     entries |-> <<[example |-> Sigstore, schema |-> "trust-proof"],
                   [example |-> TwoAuthorities, schema |-> "trust-proof"],
                   [example |-> KeySetProof, schema |-> "trust-proof"],
                   [example |-> KeySet, schema |-> "discovery"],
                   [example |-> VcExample, schema |-> "atx-vc"]>>,
     documents |-> [d \in {"README", "SPEC"} |-> "ok"],
     text |-> [x \in Examples |-> "json"], accepted |-> [x \in Examples |-> {SchemaOf(x)}],
     window |-> {}, broken |-> {}, sigstore |-> "full",
     two |-> TwoProof, twoKeys |-> TwoTable("k2"),
     proof |-> SignedBy(<<By(KeyId("1"), "k1"), By(KeyId("2"), "k2")>>), discovery |-> KeySetDocument,
     atx |-> "ok", statusTable |-> "yes", vcTable |-> "yes", vcForm |-> "as the table"]

\* The repositories with one more defect than r.
Worse(r) ==
    {[r EXCEPT !.schemas[s] = v] : s \in Schemas, v \in {"broken", "missing"}}
    \cup {[r EXCEPT !.map = v] : v \in {"missing", "not JSON", "not entries"}}
    \cup {[r EXCEPT !.documents[d] = v] : d \in {"README", "SPEC"}, v \in {"missing", "not UTF-8"}}
    \cup {[r EXCEPT !.entries = SelectSeq(@, LAMBDA e : e.example # x)] : x \in Examples}
    \cup {[r EXCEPT !.entries = <<[example |-> "gone", schema |-> "discovery"]>> \o @],
          [r EXCEPT !.entries = <<>>],
          [r EXCEPT !.entries = SelectSeq(@, LAMBDA e : e.example # TwoAuthorities)
                                    \o <<[example |-> TwoAuthorities, schema |-> "discovery"]>>,
                    !.accepted[TwoAuthorities] = {"discovery"}]}
    \cup {[r EXCEPT !.text[x] = v] : x \in Examples, v \in {"none", "not JSON"}}
    \cup {[r EXCEPT !.accepted[x] = {}] : x \in Examples}
    \cup {[r EXCEPT !.window = @ \cup {x}] : x \in {Sigstore, TwoAuthorities, KeySetProof}}
    \cup {[r EXCEPT !.broken = @ \cup {c}] : c \in {"cosign", "level3", "atx", "card", "index"}}
    \cup {[r EXCEPT !.sigstore = v] : v \in {"no entry", "bare"}}
    \cup {[r EXCEPT !.sigstore = "no list", !.accepted[Sigstore] = {}]}
    \cup {[r EXCEPT !.two = v] : v \in {Two(2, TwoProof.signatures), Two(4, <<By(KeyId("1"), "k1")>>)}}
    \cup {[r EXCEPT !.two.times = "other"], [r EXCEPT !.proof.times = "other"]}
    \cup {[r EXCEPT !.twoKeys = TwoTable("k1")]}
    \cup {[r EXCEPT !.proof = p] : p \in Proofs} \cup {[r EXCEPT !.discovery = d] : d \in Documents}
    \cup {[r EXCEPT !.atx = v] : v \in {"missing", "not UTF-8", "not JSON", "not object"}}
    \cup {[r EXCEPT !.statusTable = "no"], [r EXCEPT !.vcTable = "no"], [r EXCEPT !.vcForm = "other"]}

MCIds == <<"trust-levels", Reasons>>

\* Repositories with two defects at most.  The maintainer edits the tables and files of
\* one that is good otherwise.
MCInit ==
    /\ \E r \in {Good} \cup Worse(Good) : \E both \in {r} \cup Worse(r) : repo = both
    /\ Init /\ (repo # Good => edits = 0)

MCSpec == MCInit /\ [][Next]_vars
=============================================================================
