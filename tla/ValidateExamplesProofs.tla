------------------------ MODULE ValidateExamplesProofs ------------------------
(***************************************************************************)
(* Theorems about the CI of a commit, for every repository, every document *)
(* and proof that their schemas accept, and every set of registries.       *)
(***************************************************************************)
EXTENDS ValidateExamples, FiniteSetTheorems, TLAPS

-----------------------------------------------------------------------------
(* Issuer key sets.                                                        *)

SetKeys(d) == {d.keyIds[i] : i \in DOMAIN d.keyIds}

LEMMA SetKeysAreFinite ==
    ASSUME NEW d \in DiscoveryType
    PROVE  IsFiniteSet(SetKeys(d))
<1>1. d.keyIds \in Seq(KeyIds)
  BY DEF DiscoveryType
<1>2. IsFiniteSet(1..Len(d.keyIds))
  BY <1>1, FS_Interval
<1> DEFINE f == [i \in 1..Len(d.keyIds) |-> d.keyIds[i]]
<1>3. f \in Surjection(1..Len(d.keyIds), SetKeys(d))
  BY <1>1 DEF Surjection, SetKeys
<1> QED BY <1>2, <1>3, FS_Surjection

\* The keys of a set without errors are the document's, and no two of them verify under
\* one key.
LEMMA SetKeysDiffer ==
    ASSUME NEW d \in DiscoveryType, Declares(d), IssuerKeySetErrors(d) = {}
    PROVE  /\ SetKeys(d) \subseteq DOMAIN DiscoveryKeys(d)
           /\ \A k, l \in SetKeys(d) :
                k # l /\ DiscoveryKeys(d)[k] # NoKey => DiscoveryKeys(d)[k] # DiscoveryKeys(d)[l]
<1>1. DOMAIN d.keyIds = 1..Len(d.keyIds) /\ Len(d.keyIds) \in Nat
  BY DEF DiscoveryType
<1>2. ASSUME NEW i \in DOMAIN d.keyIds
      PROVE  /\ ~ListedBefore(d, i) /\ d.keyIds[i] \in Known(d)
             /\ First(d, d.keyIds[i]).algorithm = "Ed25519" /\ ~HeldBefore(d, i)
  <2>1. EntryError(d, i) = "none"
    BY DEF IssuerKeySetErrors
  <2> QED BY <2>1 DEF EntryError
<1>3. ASSUME NEW k \in SetKeys(d)
      PROVE  k \in DOMAIN DiscoveryKeys(d) /\ DiscoveryKeys(d)[k] = Bytes(First(d, k).hex)
  BY <1>2 DEF SetKeys, DiscoveryKeys
<1>4. ASSUME NEW i \in DOMAIN d.keyIds, NEW j \in DOMAIN d.keyIds, i < j
      PROVE  First(d, d.keyIds[i]).hex # First(d, d.keyIds[j]).hex
  <2>1. i \in 1..(j - 1)
    BY <1>1, <1>4
  <2> QED BY <1>2, <2>1 DEF HeldBefore
<1>5. ASSUME NEW k \in SetKeys(d), NEW l \in SetKeys(d), k # l
      PROVE  First(d, k).hex # First(d, l).hex
  <2>1. PICK i \in DOMAIN d.keyIds, j \in DOMAIN d.keyIds : d.keyIds[i] = k /\ d.keyIds[j] = l
    BY DEF SetKeys
  <2>2. i < j \/ j < i
    BY <1>1, <1>5, <2>1
  <2> QED BY <1>4, <2>1, <2>2
<1> QED BY <1>3, <1>5 DEF Bytes

\* However many entries a proof has: fewer keys than the threshold make no set that meets it.
LEMMA StolenKeysAreNotEnough ==
    ASSUME NEW d \in DiscoveryType, Declares(d), IssuerKeySetErrors(d) = {},
           NEW stolen \in SUBSET Keys, Cardinality(stolen) < d.threshold
    PROVE  Cardinality({k \in SetKeys(d) : DiscoveryKeys(d)[k] \in stolen \ {NoKey}}) < d.threshold
<1> DEFINE open == {k \in SetKeys(d) : DiscoveryKeys(d)[k] \in stolen \ {NoKey}}
           f == [k \in open |-> DiscoveryKeys(d)[k]]
<1>1. IsFiniteSet(stolen)
  BY KeysAssumption, FS_Subset
<1>2. f \in Injection(open, stolen)
  BY SetKeysDiffer DEF Injection, IsInjective
<1>3. Cardinality(open) <= Cardinality(stolen) /\ IsFiniteSet(open)
  BY <1>1, <1>2, FS_Injection
<1>4. Cardinality(open) \in Nat /\ Cardinality(stolen) \in Nat /\ d.threshold \in Nat
  BY <1>1, <1>3, FS_CardinalityType DEF DiscoveryType
<1> QED BY <1>3, <1>4

LEMMA SignedAreFinite ==
    ASSUME NEW d \in DiscoveryType, NEW p
    PROVE  /\ Signed(p, d) \subseteq SetKeys(d)
           /\ IsFiniteSet(Signed(p, d)) /\ Cardinality(Signed(p, d)) \in Nat
<1>1. Signed(p, d) \subseteq SetKeys(d)
  BY DEF Signed, SetKeys
<1> QED BY <1>1, SetKeysAreFinite, FS_Subset, FS_CardinalityType

\* The entries of a proof but its last.
LEMMA LastEntry ==
    ASSUME NEW p \in ProofType,
           NEW q, q = [p EXCEPT !.signatures = SubSeq(p.signatures, 1, Len(p.signatures) - 1)]
    PROVE  /\ q.times = p.times
           /\ \E last : \A e \in EntriesOf(p) : e \in EntriesOf(q) \/ e = last
<1>1. p.signatures \in Seq([keyId : KeyIds, algorithm : {"Ed25519", "ML-DSA-65", "Sigstore"},
                            by : Keys \cup {"nothing"}])
  BY DEF ProofType
<1> DEFINE n == Len(p.signatures)
<1>2. n \in Nat /\ DOMAIN p.signatures = 1..n
  BY <1>1
<1>3. q.times = p.times /\ q.signatures = SubSeq(p.signatures, 1, n - 1)
  BY DEF ProofType
<1>4. \A i \in 1..(n - 1) : i \in DOMAIN q.signatures /\ q.signatures[i] = p.signatures[i]
  BY <1>1, <1>2, <1>3
<1>5. \A e \in EntriesOf(p) : e \in EntriesOf(q) \/ e = p.signatures[n]
  <2> SUFFICES ASSUME NEW i \in 1..n
               PROVE  p.signatures[i] \in EntriesOf(q) \/ p.signatures[i] = p.signatures[n]
    BY <1>2 DEF EntriesOf
  <2>1. i \in 1..(n - 1) \/ i = n
    BY <1>2
  <2> QED BY <1>4, <2>1 DEF EntriesOf
<1> QED BY <1>3, <1>5

\* A proof that the check passes: exactly as many different keys as the threshold asks for
\* made its entries under the set's keyIds.
LEMMA PassedProofHasItsKeys ==
    ASSUME NEW d \in DiscoveryType, NEW p \in ProofType, KeySetProofCheck(p, d) = {}
    PROVE  /\ Declares(d) /\ IssuerKeySetErrors(d) = {}
           /\ Cardinality({e.by : e \in {e \in EntriesOf(p) : e.keyId \in SetKeys(d)}}) = d.threshold
<1> DEFINE keys == DiscoveryKeys(d)
           q == [p EXCEPT !.signatures = SubSeq(p.signatures, 1, Len(p.signatures) - 1)]
           made == {e.by : e \in {e \in EntriesOf(p) : e.keyId \in SetKeys(d)}}
           f == [k \in Signed(p, d) |-> keys[k]]
<1>1. Declares(d) /\ TwoAuthorityErrors(p, keys) = {} /\ KeySetCountErrors(p, d) = {}
      /\ {"edit" : edit \in {r \in Edits(p) :
            TwoAuthorityErrors(r, keys) # {} \/ KeySetCountErrors(r, d) = {}}} = {}
  BY Zenon DEF KeySetProofCheck
<1>2. IssuerKeySetErrors(d) = {} /\ ~NoString(p) /\ ~(Cardinality(Signed(p, d)) < d.threshold)
  BY <1>1 DEF KeySetCountErrors
<1>3. KeySetCountErrors(q, d) # {}
  <2>1. q \in Edits(p)
    BY DEF Edits
  <2> QED BY <1>1, <2>1
<1>4. PICK last : \A e \in EntriesOf(p) : e \in EntriesOf(q) \/ e = last
  BY LastEntry
<1>5. Cardinality(Signed(q, d)) < d.threshold
  BY <1>2, <1>3, LastEntry DEF KeySetCountErrors, NoString
<1>6. Cardinality(Signed(p, d)) = d.threshold
  <2>1. Signed(p, d) \subseteq Signed(q, d) \cup {last.keyId}
    BY <1>4 DEF Signed
  <2>2. IsFiniteSet(Signed(q, d)) /\ Cardinality(Signed(q, d)) \in Nat
        /\ Cardinality(Signed(p, d)) \in Nat /\ d.threshold \in Nat
    BY SignedAreFinite DEF DiscoveryType
  <2>3. IsFiniteSet(Signed(q, d) \cup {last.keyId})
        /\ Cardinality(Signed(q, d) \cup {last.keyId}) <= Cardinality(Signed(q, d)) + 1
    <3>1. \A S, x : IsFiniteSet(S) /\ Cardinality(S) \in Nat =>
            IsFiniteSet(S \cup {x}) /\ Cardinality(S \cup {x}) <= Cardinality(S) + 1
      BY FS_AddElement
    <3>2. IsFiniteSet(Signed(q, d)) /\ Cardinality(Signed(q, d)) \in Nat
      BY <2>2
    <3> QED BY <3>1, <3>2
  <2>4. Cardinality(Signed(q, d) \cup {last.keyId}) \in Nat
    BY <2>3, FS_CardinalityType
  <2>5. Cardinality(Signed(p, d)) <= Cardinality(Signed(q, d) \cup {last.keyId})
    BY <2>1, <2>3, FS_Subset
  <2> QED BY <1>2, <1>5, <2>2, <2>3, <2>4, <2>5
<1>7. \A e \in EntriesOf(p) : Signs(e, keys)
  BY <1>1, <1>2 DEF TwoAuthorityErrors
<1>8. f \in Surjection(Signed(p, d), made)
  <2>1. \A k \in Signed(p, d) : \E e \in EntriesOf(p) : k \in SetKeys(d) /\ e.keyId = k /\ e.by = keys[k]
    BY DEF Signed, Signs, Ed25519Verifies, SetKeys
  <2>2. f \in [Signed(p, d) -> made]
    BY <2>1
  <2>3. \A b \in made : \E k \in Signed(p, d) : f[k] = b
    <3> SUFFICES ASSUME NEW e \in EntriesOf(p), e.keyId \in SetKeys(d)
                 PROVE  \E k \in Signed(p, d) : f[k] = e.by
      OBVIOUS
    <3>1. e.keyId \in Signed(p, d)
      BY <1>7 DEF Signed, SetKeys
    <3>2. keys[e.keyId] = e.by
      BY <1>7 DEF Signs, Ed25519Verifies
    <3> QED BY <3>1, <3>2
  <2> QED BY <2>2, <2>3 DEF Surjection
<1>9. f \in Injection(Signed(p, d), made)
  <2>1. \A k \in Signed(p, d) : k \in SetKeys(d) /\ keys[k] # NoKey
    BY DEF Signed, Signs, Ed25519Verifies, SetKeys
  <2>2. \A k, l \in Signed(p, d) : k # l => f[k] # f[l]
    BY <1>1, <1>2, <2>1, SetKeysDiffer
  <2> QED BY <1>8, <2>2 DEF Injection, IsInjective, Surjection
<1>10. Cardinality(made) = d.threshold
  BY <1>6, <1>8, <1>9, SignedAreFinite, FS_Surjection
<1> QED BY <1>1, <1>2, <1>10

-----------------------------------------------------------------------------
(* The inductive invariant: what has a verdict at each point of the run, and that a       *)
(* verdict is still the one that the repository deserves.                                 *)

InputInv ==
    /\ ci \in {"editing", "reading"} => unusable = 0
    /\ ci \in {"checking", "mapped", "registries", "passed"} => unusable = 0 /\ Inputs = {}

CheckInv ==
    /\ ci \in {"editing", "reading"} => \A c \in CheckNames : checked[c] = "none"
    /\ ci = "checking" => next \in 1..Len(Checks)
                          /\ \A i \in 1..(next - 1) : checked[Checks[i]] # "none"
    /\ ci \in {"mapped", "registries", "passed"} => \A c \in CheckNames : checked[c] # "none"
    /\ \A c \in CheckNames : checked[c] \in {"none", CheckVerdict(c)}

EntryInv ==
    /\ ci \in {"editing", "reading", "checking"} => \A e \in Entry : mapped[e] = "none"
    /\ ci \in {"editing", "reading"} => next = 1
    /\ ci = "mapped" => next \in 1..(Len(repo.entries) + 1)
                        /\ \A e \in 1..(next - 1) : mapped[e] # "none"
    /\ \A e \in Entry : mapped[e] # "none" =>
         mapped[e] = EntryVerdict(repo.entries[e]) /\ ~Crashes(repo.entries[e])

OverInv ==
    /\ crashed => ci = "failed"
    /\ Over /\ unusable = 0 /\ ~crashed =>
         (\A c \in CheckNames : checked[c] # "none") /\ (\A e \in Entry : mapped[e] # "none")
    /\ Passes => (\A c \in CheckNames : checked[c] # "FAIL") /\ (\A e \in Entry : mapped[e] # "FAIL")
    /\ ci = "passed" => CheckPasses

IInv == TypeOK /\ Coherent(repo) /\ InputInv /\ CheckInv /\ EntryInv /\ OverInv

-----------------------------------------------------------------------------
(* Facts about the data.                                                                  *)

LEMMA TheChecks ==
    /\ Len(Checks) = 19 /\ DOMAIN Checks = 1..Len(Checks)
    /\ \A i \in 1..Len(Checks) : Checks[i] \in CheckNames
    /\ \A c \in CheckNames : \E i \in 1..Len(Checks) : Checks[i] = c
    /\ {"reasons", "cosign", "level3", "keyset", "atx"} \subseteq CheckNames
    /\ IsFiniteSet(CheckNames)
<1>1. Len(Checks) = 19 /\ DOMAIN Checks = 1..Len(Checks)
  BY DEF Checks
<1>2. /\ \A i \in 1..Len(Checks) : Checks[i] \in CheckNames
      /\ \A c \in CheckNames : \E i \in 1..Len(Checks) : Checks[i] = c
  BY <1>1 DEF CheckNames
<1>3. Checks[1] = "reasons" /\ Checks[3] = "cosign" /\ Checks[4] = "level3"
      /\ Checks[5] = "keyset" /\ Checks[12] = "atx"
  BY DEF Checks
<1>4. {"reasons", "cosign", "level3", "keyset", "atx"} \subseteq CheckNames
  BY <1>1, <1>2, <1>3
<1> DEFINE f == [i \in 1..Len(Checks) |-> Checks[i]]
<1>5. f \in Surjection(1..Len(Checks), CheckNames)
  BY <1>2 DEF Surjection
<1>6. IsFiniteSet(CheckNames)
  <2>1. 1 \in Int /\ Len(Checks) \in Int
    BY <1>1
  <2>2. IsFiniteSet(1..Len(Checks))
    BY <2>1, FS_Interval
  <2> HIDE DEF f
  <2> QED BY <1>5, <2>2, FS_Surjection
<1> QED BY <1>1, <1>2, <1>4, <1>6

\* A check has one of the verdicts that main() knows, and so has an entry.
LEMMA VerdictTypes ==
    /\ \A c : CheckVerdict(c) \in {"OK", "FAIL", "SKIP"}
    /\ \A e : EntryVerdict(e) \in {"OK", "FAIL", "SKIP"}
<1>1. \A right \in BOOLEAN : Verdict(right) \in {"OK", "FAIL"}
  BY DEF Verdict
<1>2. \A x : Unread(x) \in {"FAIL", "SKIP"}
  BY DEF Unread
<1> QED BY <1>1, <1>2 DEF CheckVerdict, EntryVerdict, Verdict

LEMMA EntriesAre ==
    ASSUME TypeOK
    PROVE  /\ repo.entries \in Seq(EntryType) /\ Len(repo.entries) \in Nat
           /\ Entry = 1..Len(repo.entries) /\ IsFiniteSet(Entry)
           /\ \A e \in Entry : repo.entries[e] \in EntryType
<1>1. repo.entries \in Seq(EntryType)
  BY DEF TypeOK, RepoType
<1>2. Len(repo.entries) \in Nat /\ Entry = 1..Len(repo.entries)
  BY <1>1 DEF Entry
<1> QED BY <1>1, <1>2, FS_Interval

\* What the reading of the inputs counts is what is wrong with them.
LEMMA CountedInputs ==
    /\ Cardinality(UnusableSchemas) \in Nat /\ Cardinality(UnusableSchemas) <= Cardinality(Schemas)
    /\ Cardinality(UnusableDocuments) \in 0..2 /\ Cardinality(Schemas) \in Nat
    /\ Cardinality(UnusableSchemas) = 0 => UnusableSchemas = {}
    /\ Cardinality(UnusableDocuments) = 0 => UnusableDocuments = {}
<1>1. IsFiniteSet(Schemas) /\ IsFiniteSet({"README", "SPEC"}) /\ Cardinality({"README", "SPEC"}) = 2
  <2>1. IsFiniteSet({}) /\ IsFiniteSet({"README"}) /\ Cardinality({"README"}) = 1
    BY FS_EmptySet, FS_Singleton
  <2>2. IsFiniteSet({"README"} \cup {"SPEC"}) /\ Cardinality({"README"} \cup {"SPEC"}) = 2
    BY <2>1, FS_AddElement
  <2>3. {"README"} \cup {"SPEC"} = {"README", "SPEC"}
    OBVIOUS
  <2>4. IsFiniteSet({"discovery"}) /\ IsFiniteSet({"revocation-list"})
        /\ IsFiniteSet({"trust-proof"}) /\ IsFiniteSet({"atx-vc"})
    BY FS_Singleton
  <2>5. IsFiniteSet((({"discovery"} \cup {"revocation-list"}) \cup {"trust-proof"}) \cup {"atx-vc"})
    BY <2>4, FS_Union
  <2>6. Schemas = (({"discovery"} \cup {"revocation-list"}) \cup {"trust-proof"}) \cup {"atx-vc"}
    BY DEF Schemas, SchemasReadByName
  <2> QED BY <2>2, <2>3, <2>5, <2>6
<1>2. UnusableSchemas \subseteq Schemas /\ UnusableDocuments \subseteq {"README", "SPEC"}
  BY DEF UnusableSchemas, UnusableDocuments, Schemas
<1>3. IsFiniteSet(UnusableSchemas) /\ Cardinality(UnusableSchemas) <= Cardinality(Schemas)
  BY <1>1, <1>2, FS_Subset
<1>4. IsFiniteSet(UnusableDocuments) /\ Cardinality(UnusableDocuments) <= 2
  BY <1>1, <1>2, FS_Subset
<1>5. Cardinality(UnusableSchemas) \in Nat /\ Cardinality(UnusableDocuments) \in Nat
      /\ Cardinality(Schemas) \in Nat
  BY <1>1, <1>3, <1>4, FS_CardinalityType
<1> QED BY <1>3, <1>4, <1>5, FS_EmptySet

-----------------------------------------------------------------------------
(* Types.                                                                                 *)

LEMMA RegistriesKeepTypes ==
    ASSUME RegistriesTypeOK, RegistriesNext
    PROVE  RegistriesTypeOK'
<1> USE DEF RegistriesTypeOK
<1>1. \A f, s, v : \A r \in Registry : f \in [Registry -> s] /\ v \in s => [f EXCEPT ![r] = v] \in [Registry -> s]
  OBVIOUS
<1>2. Ids \in Seq(Registry) /\ MaxEdits \in Nat /\ edits \in Int
  BY RegistriesAssumption DEF Registry
<1>3. edits > 0 /\ edits' = edits - 1 => edits' \in 0..MaxEdits
  BY <1>2
<1>4. ASSUME NEW r \in Registry, NEW to \in Versions \cup {"unusable"}, EditTable(r, to)
      PROVE  RegistriesTypeOK'
  BY <1>1, <1>3, <1>4 DEF EditTable
<1>5. ASSUME NEW to \in Versions, EditCodes(to)
      PROVE  RegistriesTypeOK'
  BY <1>3, <1>5 DEF EditCodes
<1>6. ASSUME NEW r \in Registry, NEW to \in Versions \cup {"missing"}, EditFile(r, to)
      PROVE  RegistriesTypeOK'
  BY <1>1, <1>3, <1>6 DEF EditFile
<1>7. ASSUME Generate PROVE RegistriesTypeOK'
  <2>1. table \in [Registry -> Versions]
    BY <1>7 DEF Generate, Usable
  <2> QED BY <1>2, <1>3, <1>7, <2>1 DEF Generate
<1>8. todo # <<>> => Head(todo) \in Registry /\ Tail(todo) \in Seq(Registry)
  OBVIOUS
<1>9. ASSUME Open PROVE RegistriesTypeOK'
  BY <1>1, <1>8, <1>9 DEF Open
<1>10. ASSUME Write PROVE RegistriesTypeOK'
  <2>1. batch[Head(todo)] \in Versions
    BY <1>8, <1>10 DEF Write
  <2> QED BY <1>1, <1>8, <1>10, <2>1 DEF Write
<1>11. ASSUME Interrupt PROVE RegistriesTypeOK'
  BY <1>11 DEF Interrupt
<1> QED BY <1>4, <1>5, <1>6, <1>7, <1>9, <1>10, <1>11 DEF RegistriesNext

-----------------------------------------------------------------------------
(* The inductive step, action by action.                                                  *)

LEMMA InitHolds == Init => IInv
<1> SUFFICES ASSUME Init PROVE IInv
  OBVIOUS
<1>1. RegistriesTypeOK
  <2>1. PICK v \in Versions : /\ table = [r \in Registry |-> v] /\ codes = v
                              /\ file = [r \in Registry |-> v] /\ batch = [r \in Registry |-> v]
    BY DEF Init, RegistriesInit
  <2> QED BY <2>1 DEF Init, RegistriesInit, RegistriesTypeOK
<1>2. TypeOK
  <2>1. repo.entries \in Seq(EntryType)
    BY DEF Init, RepoType
  <2>2. next \in 1..(Len(Checks) + Len(repo.entries) + 1)
    BY <2>1, TheChecks DEF Init
  <2>3. unusable \in 0..(Cardinality(Schemas) + 3)
    BY CountedInputs DEF Init
  <2> QED BY <1>1, <2>2, <2>3 DEF Init, TypeOK, Verdicts
<1> QED BY <1>2 DEF Init, IInv, InputInv, CheckInv, EntryInv, OverInv, Over, Passes

\* Nothing that a verdict depends on changes once the commit is made.
LEMMA Unmoved ==
    ASSUME UNCHANGED <<registryVars, repo>>
    PROVE  /\ Inputs' = Inputs /\ Entry' = Entry /\ CheckPasses' = CheckPasses
           /\ Coherent(repo)' = Coherent(repo)
           /\ \A c \in CheckNames : CheckVerdict(c)' = CheckVerdict(c)
           /\ \A e \in Entry : /\ EntryVerdict(repo.entries[e])' = EntryVerdict(repo.entries[e])
                               /\ Crashes(repo.entries[e])' = Crashes(repo.entries[e])
                               /\ NotFound(repo.entries[e])' = NotFound(repo.entries[e])
<1> USE DEF registryVars
<1>1. /\ Inputs' = Inputs /\ Entry' = Entry /\ CheckPasses' = CheckPasses
      /\ Coherent(repo)' = Coherent(repo)
  BY DEF Inputs, Entry, CheckPasses, Coherent, UnusableSchemas, UnusableDocuments, UnusableMap, Usable
<1>2. \A c \in CheckNames : CheckVerdict(c)' = CheckVerdict(c)
  BY DEF CheckVerdict, ReasonsRight, SigstoreRead, SigstoreRight, Unread, Mapped, Accepted, TwoRight,
         TwoKeys, KeySetUnread, KeySetRight, AtxRight, Entry
<1>3. \A e \in Entry : /\ EntryVerdict(repo.entries[e])' = EntryVerdict(repo.entries[e])
                       /\ Crashes(repo.entries[e])' = Crashes(repo.entries[e])
                       /\ NotFound(repo.entries[e])' = NotFound(repo.entries[e])
  BY DEF EntryVerdict, Crashes, NotFound, Refused, RuleBroken
<1> QED BY <1>1, <1>2, <1>3

LEMMA EditStep ==
    ASSUME IInv, Edit
    PROVE  IInv'
<1> USE DEF IInv, Edit, ciVars
<1>1. TypeOK'
  BY RegistriesKeepTypes DEF TypeOK, Entry
<1>2. InputInv' /\ CheckInv' /\ EntryInv' /\ OverInv' /\ Coherent(repo)'
  BY DEF InputInv, CheckInv, EntryInv, OverInv, Over, Passes, Entry
<1> QED BY <1>1, <1>2

LEMMA CommitStep ==
    ASSUME IInv, Commit
    PROVE  IInv'
<1>1. UNCHANGED <<registryVars, repo, next, checked, mapped, unusable, crashed>>
      /\ ci = "editing" /\ ci' = "reading"
  BY DEF Commit
<1>2. TypeOK'
  BY <1>1 DEF IInv, TypeOK, RegistriesTypeOK, Entry, registryVars
<1>3. Coherent(repo)' /\ InputInv' /\ CheckInv' /\ EntryInv' /\ OverInv'
  BY <1>1, Unmoved DEF IInv, InputInv, CheckInv, EntryInv, OverInv, Over, Passes
<1> QED BY <1>2, <1>3 DEF IInv

LEMMA ReadInputsStep ==
    ASSUME IInv, ReadInputs
    PROVE  IInv'
<1>1. UNCHANGED <<registryVars, repo, next, checked, mapped, crashed>>
      /\ ci = "reading" /\ ci' = (IF unusable' > 0 THEN "failed" ELSE "checking")
  BY DEF ReadInputs
<1> DEFINE count == Cardinality(UnusableSchemas) + (IF UnusableMap THEN 1 ELSE 0)
                        + Cardinality(UnusableDocuments)
<1>2. unusable' = (IF \A s \in Schemas : repo.schemas[s] = "missing" THEN 1 ELSE count)
  BY DEF ReadInputs
<1>3. count \in 0..(Cardinality(Schemas) + 3)
      /\ (count = 0 => UnusableSchemas = {} /\ ~UnusableMap /\ UnusableDocuments = {})
  BY CountedInputs
<1>4. unusable' \in 0..(Cardinality(Schemas) + 3)
  BY <1>2, <1>3, CountedInputs
<1>5. TypeOK'
  BY <1>1, <1>4 DEF IInv, TypeOK, RegistriesTypeOK, Entry, registryVars
<1>6. unusable' = 0 => Inputs = {}
  BY <1>2, <1>3 DEF Inputs
<1>7. InputInv'
  BY <1>1, <1>4, <1>6, Unmoved, CountedInputs DEF InputInv
<1>8. CheckInv' /\ EntryInv'
  BY <1>1, Unmoved, TheChecks DEF IInv, CheckInv, EntryInv
<1>9. OverInv' /\ Coherent(repo)'
  BY <1>1, Unmoved DEF IInv, OverInv, Over, Passes
<1> QED BY <1>5, <1>7, <1>8, <1>9 DEF IInv

LEMMA CheckStep ==
    ASSUME IInv, Check
    PROVE  IInv'
<1>1. UNCHANGED <<registryVars, repo, mapped, unusable, crashed>> /\ ci = "checking"
  BY DEF Check
<1>2. /\ next \in 1..Len(Checks) /\ Checks[next] \in CheckNames
      /\ checked' = [checked EXCEPT ![Checks[next]] = CheckVerdict(Checks[next])]
      /\ next' = (IF next = Len(Checks) THEN 1 ELSE next + 1)
      /\ ci' = (IF next = Len(Checks) THEN "mapped" ELSE ci)
  BY TheChecks DEF Check, IInv, CheckInv
<1>3. checked \in [CheckNames -> Verdicts]
  BY DEF IInv, TypeOK
<1>4. \A c \in CheckNames : checked'[c] = IF c = Checks[next] THEN CheckVerdict(c) ELSE checked[c]
  BY <1>2, <1>3
<1>5. Len(repo.entries) \in Nat /\ Len(Checks) = 19
  BY EntriesAre, TheChecks DEF IInv
<1>6. TypeOK'
  <2>1. checked' \in [CheckNames -> Verdicts]
    BY <1>2, <1>3, VerdictTypes DEF Verdicts
  <2>2. next' \in 1..(Len(Checks) + Len(repo.entries) + 1)
    BY <1>2, <1>5
  <2>3. ci' \in {"checking", "mapped"}
    BY <1>1, <1>2
  <2> QED BY <1>1, <2>1, <2>2, <2>3 DEF IInv, TypeOK, RegistriesTypeOK, Entry, registryVars
<1>7. CheckInv'
  <2>1. \A c \in CheckNames : checked'[c] \in {"none", CheckVerdict(c)'}
    BY <1>1, <1>2, <1>4, Unmoved DEF IInv, CheckInv
  <2>2. \A i \in 1..next : checked'[Checks[i]] # "none"
    <3> SUFFICES ASSUME NEW i \in 1..next PROVE checked'[Checks[i]] # "none"
      OBVIOUS
    <3>1. Checks[i] \in CheckNames
      BY <1>2, <1>5, TheChecks
    <3>2. Checks[i] = Checks[next] \/ checked[Checks[i]] # "none"
      <4>1. i = next \/ i \in 1..(next - 1)
        BY <1>2, <1>5
      <4> QED BY <1>1, <4>1 DEF IInv, CheckInv
    <3> QED BY <1>4, <3>1, <3>2, VerdictTypes
  <2>3. next' - 1 = next \/ next = Len(Checks)
    BY <1>2, <1>5
  <2>4. ci' = "mapped" => \A c \in CheckNames : checked'[c] # "none"
    BY <1>1, <1>2, <2>2, TheChecks
  <2>5. ci' = "checking" => next' \in 1..Len(Checks) /\ \A i \in 1..(next' - 1) : checked'[Checks[i]] # "none"
    BY <1>1, <1>2, <1>5, <2>2
  <2>6. ci' \in {"checking", "mapped"}
    BY <1>1, <1>2
  <2> QED BY <2>1, <2>4, <2>5, <2>6 DEF CheckInv
<1>8. InputInv' /\ OverInv' /\ Coherent(repo)'
  BY <1>1, <1>2, Unmoved DEF IInv, InputInv, OverInv, Over, Passes
<1>9. EntryInv'
  BY <1>1, <1>2, <1>5, Unmoved DEF IInv, EntryInv
<1> QED BY <1>6, <1>7, <1>8, <1>9 DEF IInv

LEMMA PrepassStep ==
    ASSUME IInv, Prepass
    PROVE  IInv'
<1>1. UNCHANGED <<registryVars, repo, ci, next, checked, unusable, crashed>> /\ ci = "mapped" /\ next = 1
      /\ mapped' = [e \in Entry |-> IF NotFound(repo.entries[e]) THEN "FAIL" ELSE "none"]
  BY DEF Prepass
<1>2. TypeOK'
  <2>1. mapped' \in [Entry -> Verdicts]
    BY <1>1 DEF Verdicts
  <2> QED BY <1>1, <2>1 DEF IInv, TypeOK, RegistriesTypeOK, Entry, registryVars
<1>3. EntryInv'
  <2>1. \A e \in Entry : mapped'[e] # "none" =>
          mapped'[e] = EntryVerdict(repo.entries[e]) /\ ~Crashes(repo.entries[e])
    BY <1>1 DEF EntryVerdict, Crashes
  <2> QED BY <1>1, <2>1, Unmoved, EntriesAre DEF IInv, EntryInv
<1>4. InputInv' /\ CheckInv' /\ OverInv' /\ Coherent(repo)'
  BY <1>1, Unmoved DEF IInv, InputInv, CheckInv, OverInv, Over, Passes
<1> QED BY <1>2, <1>3, <1>4 DEF IInv

LEMMA EntryStep ==
    ASSUME IInv, ValidateEntry
    PROVE  IInv'
<1>1. UNCHANGED <<registryVars, repo, checked, unusable>> /\ ci = "mapped" /\ next \in Entry
  BY DEF ValidateEntry
<1> DEFINE e == repo.entries[next]
<1>2. Len(repo.entries) \in Nat /\ Entry = 1..Len(repo.entries) /\ Len(Checks) = 19
      /\ mapped \in [Entry -> Verdicts]
  BY EntriesAre, TheChecks DEF IInv, TypeOK
<1>3. CASE Crashes(e)
  <2>1. crashed' = TRUE /\ ci' = "failed" /\ UNCHANGED <<mapped, next>>
    BY <1>3 DEF ValidateEntry
  <2>2. TypeOK'
    BY <1>1, <2>1 DEF IInv, TypeOK, RegistriesTypeOK, Entry, registryVars
  <2>3. InputInv' /\ CheckInv' /\ OverInv' /\ Coherent(repo)'
    BY <1>1, <2>1, Unmoved DEF IInv, InputInv, CheckInv, OverInv, Over, Passes
  <2>4. EntryInv'
    BY <1>1, <2>1, Unmoved DEF IInv, EntryInv
  <2> QED BY <2>2, <2>3, <2>4 DEF IInv
<1>4. CASE ~Crashes(e)
  <2>1. mapped' = [mapped EXCEPT ![next] = EntryVerdict(e)] /\ next' = next + 1 /\ UNCHANGED <<crashed, ci>>
    BY <1>4 DEF ValidateEntry
  <2>2. TypeOK'
    <3>1. mapped' \in [Entry -> Verdicts]
      BY <1>1, <1>2, <2>1, VerdictTypes DEF Verdicts
    <3>2. next' \in 1..(Len(Checks) + Len(repo.entries) + 1)
      BY <1>1, <1>2, <2>1
    <3> QED BY <1>1, <2>1, <3>1, <3>2 DEF IInv, TypeOK, RegistriesTypeOK, Entry, registryVars
  <2>3. InputInv' /\ CheckInv' /\ OverInv' /\ Coherent(repo)'
    BY <1>1, <2>1, Unmoved DEF IInv, InputInv, CheckInv, OverInv, Over, Passes
  <2>4. EntryInv'
    <3>1. next' \in 1..(Len(repo.entries) + 1)
      BY <1>1, <1>2, <2>1
    <3>2. \A i \in 1..(next' - 1) : mapped'[i] # "none"
      <4> SUFFICES ASSUME NEW i \in 1..(next' - 1) PROVE mapped'[i] # "none"
        OBVIOUS
      <4>1. i \in Entry /\ (i = next \/ i \in 1..(next - 1))
        BY <1>1, <1>2, <2>1
      <4> QED BY <1>1, <1>2, <2>1, <4>1, VerdictTypes DEF IInv, EntryInv
    <3>3. \A i \in Entry : mapped'[i] # "none" =>
            mapped'[i] = EntryVerdict(repo.entries[i]) /\ ~Crashes(repo.entries[i])
      BY <1>2, <1>4, <2>1 DEF IInv, EntryInv
    <3> QED BY <1>1, <2>1, <3>1, <3>2, <3>3, Unmoved DEF EntryInv
  <2> QED BY <2>2, <2>3, <2>4 DEF IInv
<1> QED BY <1>3, <1>4

LEMMA FinishStep ==
    ASSUME IInv, Finish
    PROVE  IInv'
<1>1. UNCHANGED <<registryVars, repo, next, checked, mapped, unusable, crashed>>
      /\ ci = "mapped" /\ next > Len(repo.entries)
      /\ ci' = (IF Failures > 0 THEN "failed" ELSE "registries")
  BY DEF Finish
<1>2. TypeOK'
  BY <1>1 DEF IInv, TypeOK, RegistriesTypeOK, Entry, registryVars
<1>3. \A e \in Entry : mapped[e] # "none"
  <2>1. Entry = 1..Len(repo.entries) /\ Len(repo.entries) \in Nat
    BY EntriesAre DEF IInv
  <2>2. Entry = 1..(next - 1)
    BY <1>1, <2>1 DEF IInv, EntryInv
  <2> QED BY <1>1, <2>2 DEF IInv, EntryInv
<1>4. ~(Failures > 0) =>
        (\A c \in CheckNames : checked[c] # "FAIL") /\ (\A e \in Entry : mapped[e] # "FAIL")
  <2> DEFINE checks == {c \in CheckNames : checked[c] = "FAIL"}
             entries == {e \in Entry : mapped[e] = "FAIL"}
  <2>1. IsFiniteSet(checks) /\ IsFiniteSet(entries)
    BY TheChecks, EntriesAre, FS_Subset DEF IInv
  <2>2. Cardinality(checks) \in Nat /\ Cardinality(entries) \in Nat
    BY <2>1, FS_CardinalityType
  <2>3. ~(Failures > 0) => Cardinality(checks) = 0 /\ Cardinality(entries) = 0
    BY <2>2 DEF Failures
  <2>4. ~(Failures > 0) => checks = {} /\ entries = {}
    BY <2>1, <2>3, FS_EmptySet
  <2> QED BY <2>4
<1>5. OverInv' /\ Coherent(repo)'
  BY <1>1, <1>3, <1>4, Unmoved DEF IInv, OverInv, CheckInv, Over, Passes
<1>6. InputInv' /\ CheckInv' /\ EntryInv'
  BY <1>1, Unmoved DEF IInv, InputInv, CheckInv, EntryInv
<1> QED BY <1>2, <1>5, <1>6 DEF IInv

LEMMA RegistriesStep ==
    ASSUME IInv, CheckRegistries
    PROVE  IInv'
<1>1. UNCHANGED <<registryVars, repo, next, checked, mapped, unusable, crashed>>
      /\ ci = "registries" /\ ci' = (IF CheckPasses THEN "passed" ELSE "failed")
  BY DEF CheckRegistries
<1>2. TypeOK'
  BY <1>1 DEF IInv, TypeOK, RegistriesTypeOK, Entry, registryVars
<1>3. Coherent(repo)' /\ InputInv' /\ CheckInv' /\ EntryInv' /\ OverInv'
  BY <1>1, Unmoved DEF IInv, InputInv, CheckInv, EntryInv, OverInv, Over, Passes
<1> QED BY <1>2, <1>3 DEF IInv

LEMMA StutterStep ==
    ASSUME IInv, UNCHANGED vars
    PROVE  IInv'
<1>1. UNCHANGED <<registryVars, repo, ci, next, checked, mapped, unusable, crashed>>
  BY DEF vars, ciVars
<1>2. TypeOK'
  BY <1>1 DEF IInv, TypeOK, RegistriesTypeOK, Entry, registryVars
<1>3. Coherent(repo)' /\ InputInv' /\ CheckInv' /\ EntryInv' /\ OverInv'
  BY <1>1, Unmoved DEF IInv, InputInv, CheckInv, EntryInv, OverInv, Over, Passes
<1> QED BY <1>2, <1>3 DEF IInv

LEMMA Invariance == Spec => []IInv
<1>1. IInv /\ [Next]_vars => IInv'
  BY EditStep, CommitStep, ReadInputsStep, CheckStep, PrepassStep, EntryStep, FinishStep,
     RegistriesStep, StutterStep DEF Next
<1> QED BY InitHolds, <1>1, PTL DEF Spec

-----------------------------------------------------------------------------
(* What follows from it.                                                                  *)

\* For every repository: the verdicts, the inputs' count and the files keep their types.
THEOREM TypeCorrect == Spec => []TypeOK
<1>1. IInv => TypeOK
  BY DEF IInv
<1> QED BY Invariance, <1>1, PTL

\* An example that its check cannot use fails as an entry of the map that lists it.
LEMMA RefusedIsReported ==
    ASSUME IInv, MapAsWritten, \A e \in Entry : mapped[e] # "none",
           NEW x \in SpecExamples, Mapped(x),
           ~Accepted(x) \/ (x = KeySet /\ IssuerKeySetErrors(repo.discovery) # {})
    PROVE  ReportedInMap(x)
<1>1. PICK e \in Entry : repo.entries[e].example = x
  BY DEF Mapped
<1>2. x # "gone" /\ x # VcExample /\ SchemaOf(x) # "atx-vc" /\ (x = KeySet => SchemaOf(x) = "discovery")
  BY DEF SpecExamples, Sigstore, TwoAuthorities, KeySetProof, KeySet, VcExample, SchemaOf
<1>3. repo.entries[e].schema = SchemaOf(x)
  BY <1>1, <1>2 DEF MapAsWritten
<1>4. mapped[e] = EntryVerdict(repo.entries[e])
  BY <1>1 DEF IInv, EntryInv
<1>5. CASE ~Accepted(x)
  <2>1. Refused(repo.entries[e])
    BY <1>1, <1>3, <1>5 DEF Refused, Accepted
  <2> QED BY <1>1, <1>4, <2>1 DEF EntryVerdict, ReportedInMap
<1>6. CASE x = KeySet /\ IssuerKeySetErrors(repo.discovery) # {}
  <2>1. RuleBroken(repo.entries[e])
    BY <1>1, <1>2, <1>3, <1>6 DEF RuleBroken
  <2> QED BY <1>1, <1>2, <1>3, <1>4, <2>1 DEF EntryVerdict, Verdict, ReportedInMap
<1> QED BY <1>5, <1>6

\* A check is skipped only when the map lists the example that it could not read.
LEMMA SkipsAreReported ==
    ASSUME IInv, MapAsWritten,
           \A c \in CheckNames : checked[c] # "none", \A e \in Entry : mapped[e] # "none"
    PROVE  /\ checked["cosign"] = "SKIP" => ReportedInMap(Sigstore)
           /\ checked["level3"] = "SKIP" => ReportedInMap(TwoAuthorities)
           /\ checked["keyset"] = "SKIP" => ReportedInMap(KeySetProof) \/ ReportedInMap(KeySet)
<1>1. \A c \in {"cosign", "level3", "keyset"} : checked[c] = CheckVerdict(c)
  BY TheChecks DEF IInv, CheckInv
<1>2. \A x : Unread(x) = "SKIP" => Mapped(x)
  BY DEF Unread
<1>3. \A right \in BOOLEAN : Verdict(right) # "SKIP"
  BY DEF Verdict
<1>4. {Sigstore, TwoAuthorities, KeySetProof, KeySet} \subseteq SpecExamples
  BY DEF SpecExamples
<1>5. ASSUME checked["cosign"] = "SKIP" PROVE ReportedInMap(Sigstore)
  <2>1. ~SigstoreRead /\ Mapped(Sigstore)
    BY <1>1, <1>2, <1>3, <1>5 DEF CheckVerdict, SigstoreRight
  <2>2. ~Accepted(Sigstore)
    <3>1. SchemaOf(Sigstore) = "trust-proof"
      BY DEF SchemaOf, Sigstore, VcExample, KeySet
    <3> QED BY <2>1, <3>1 DEF SigstoreRead, Accepted, IInv, Coherent
  <2> QED BY <1>4, <2>1, <2>2, RefusedIsReported
<1>6. ASSUME checked["level3"] = "SKIP" PROVE ReportedInMap(TwoAuthorities)
  <2>1. ~Accepted(TwoAuthorities) /\ Mapped(TwoAuthorities)
    BY <1>1, <1>2, <1>3, <1>6 DEF CheckVerdict, TwoRight
  <2> QED BY <1>4, <2>1, RefusedIsReported
<1>7. ASSUME checked["keyset"] = "SKIP" PROVE ReportedInMap(KeySetProof) \/ ReportedInMap(KeySet)
  <2>1. KeySetUnread # "none" /\ Mapped(KeySetUnread)
    BY <1>1, <1>2, <1>3, <1>7 DEF CheckVerdict, KeySetRight
  <2>2. \/ KeySetUnread = KeySetProof /\ ~Accepted(KeySetProof)
        \/ KeySetUnread = KeySet
           /\ (~Accepted(KeySet) \/ IssuerKeySetErrors(repo.discovery) # {})
    BY <2>1 DEF KeySetUnread
  <2> QED BY <1>4, <2>1, <2>2, RefusedIsReported
<1> QED BY <1>5, <1>6, <1>7

\* For every repository: once the inputs can be read and nothing raises SystemExit, no
\* check and no entry is without a verdict, and what is skipped fails elsewhere.
THEOREM NothingGoesUnreported == Spec => []NothingIsLost
<1>1. ASSUME IInv, Over, MapAsWritten, unusable = 0, ~crashed
      PROVE  /\ \A c \in CheckNames : checked[c] # "none"
             /\ \A e \in Entry : mapped[e] # "none"
             /\ (\E e \in Entry : mapped[e] = "SKIP") => checked["atx"] = "FAIL"
  <2>1. (\A c \in CheckNames : checked[c] # "none") /\ (\A e \in Entry : mapped[e] # "none")
    BY <1>1 DEF IInv, OverInv
  <2>2. ASSUME NEW e \in Entry, mapped[e] = "SKIP" PROVE checked["atx"] = "FAIL"
    <3>1. EntryVerdict(repo.entries[e]) = "SKIP"
      BY <2>2, <1>1 DEF IInv, EntryInv
    <3>2. repo.atx # "ok"
      BY <3>1 DEF EntryVerdict, Verdict
    <3>3. checked["atx"] = CheckVerdict("atx")
      BY <1>1, <2>1, TheChecks DEF IInv, CheckInv
    <3> QED BY <3>2, <3>3 DEF CheckVerdict, AtxRight, Verdict
  <2> QED BY <2>1, <2>2
<1>2. IInv => NothingIsLost
  BY <1>1, SkipsAreReported DEF NothingIsLost
<1> QED BY Invariance, <1>2, PTL

\* For all documents and proofs: the key set that the check passes needs threshold keys.
THEOREM KeySetsNeedTheirKeys == Spec => []SetNeedsItsKeys
<1>1. ASSUME IInv, checked["keyset"] = "OK"
      PROVE  KeySetProofCheck(repo.proof, repo.discovery) = {}
  <2>1. CheckVerdict("keyset") = "OK"
    BY <1>1, TheChecks DEF IInv, CheckInv
  <2> QED BY <2>1 DEF CheckVerdict, Unread, Verdict, KeySetRight
<1>2. IInv => SetNeedsItsKeys
  <2> SUFFICES ASSUME IInv, checked["keyset"] = "OK"
               PROVE  LET d == repo.discovery
                          setKeys == {d.keyIds[i] : i \in DOMAIN d.keyIds}
                      IN  /\ Cardinality({e.by : e \in {e \in EntriesOf(repo.proof) : e.keyId \in setKeys}})
                               = d.threshold
                          /\ \A stolen \in SUBSET Keys :
                               Cardinality(stolen) < d.threshold =>
                                  Cardinality({k \in setKeys : DiscoveryKeys(d)[k] \in stolen \ {NoKey}})
                                    < d.threshold
    BY DEF SetNeedsItsKeys
  <2>1. repo.discovery \in DiscoveryType /\ repo.proof \in ProofType
    BY DEF IInv, TypeOK, RepoType
  <2>2. KeySetProofCheck(repo.proof, repo.discovery) = {}
    BY <1>1
  <2> QED BY <2>1, <2>2, PassedProofHasItsKeys, StolenKeysAreNotEnough DEF SetKeys
<1> QED BY Invariance, <1>2, PTL

\* For any number of registries, edits and interrupted runs: a commit that passes is
\* published as the specification's tables have it.
THEOREM PassesArePublished == Spec => []PassMeansPublished
<1>1. ASSUME IInv, ci = "passed"
      PROVE  file[Reasons] = codes /\ \A r \in Registry : file[r] = table[r]
  <2>1. checked["reasons"] = CheckVerdict("reasons") /\ checked["reasons"] # "FAIL"
    BY <1>1, TheChecks DEF IInv, CheckInv, OverInv, Passes
  <2>2. ReasonsRight
    BY <2>1 DEF CheckVerdict, Verdict
  <2> QED BY <1>1, <2>2 DEF ReasonsRight, IInv, OverInv, CheckPasses
<1>2. IInv => PassMeansPublished
  BY <1>1, RegistriesAssumption DEF PassMeansPublished
<1> QED BY Invariance, <1>2, PTL

LEMMA PassedVerdicts ==
    ASSUME IInv, Passes
    PROVE  /\ \A c \in CheckNames : checked[c] = CheckVerdict(c) /\ checked[c] \notin {"none", "FAIL"}
           /\ \A e \in Entry : mapped[e] \notin {"none", "FAIL"}
                                /\ mapped[e] = EntryVerdict(repo.entries[e]) /\ ~Crashes(repo.entries[e])
<1>1. Over /\ unusable = 0 /\ ~crashed
  BY DEF IInv, InputInv, OverInv, Over, Passes
<1>2. /\ \A c \in CheckNames : checked[c] \notin {"none", "FAIL"}
      /\ \A e \in Entry : mapped[e] \notin {"none", "FAIL"}
  BY <1>1 DEF IInv, OverInv
<1>3. \A c \in CheckNames : checked[c] = CheckVerdict(c)
  BY <1>2 DEF IInv, CheckInv
<1> QED BY <1>2, <1>3 DEF IInv, EntryInv

\* When the checks pass, each has compared what it is to compare.
LEMMA PassedChecks ==
    ASSUME IInv, Passes, MapAsWritten
    PROVE  /\ SigstoreRead /\ SigstoreRight /\ Accepted(TwoAuthorities) /\ TwoRight
           /\ KeySetUnread = "none" /\ KeySetRight /\ AtxRight /\ ReasonsRight
           /\ \A c \in CheckNames \ {"keyset"} : c \notin repo.broken
<1>1. /\ \A c \in CheckNames : checked[c] = CheckVerdict(c) /\ checked[c] \notin {"none", "FAIL"}
      /\ \A e \in Entry : mapped[e] \notin {"none", "FAIL"}
  BY PassedVerdicts
<1>2. \A x : ~ReportedInMap(x)
  BY <1>1 DEF ReportedInMap
<1>3. /\ CheckVerdict("cosign") = "OK" /\ CheckVerdict("level3") = "OK"
      /\ CheckVerdict("keyset") = "OK"
  BY <1>1, <1>2, SkipsAreReported, VerdictTypes, TheChecks
<1>4. \A right \in BOOLEAN : Verdict(right) \in {"OK", "FAIL"} /\ (Verdict(right) = "OK" <=> right)
  BY DEF Verdict
<1>5. \A x : Unread(x) # "OK"
  BY DEF Unread
<1>6. SigstoreRead /\ SigstoreRight
  BY <1>3, <1>4, <1>5 DEF CheckVerdict, SigstoreRight
<1>7. Accepted(TwoAuthorities) /\ TwoRight
  BY <1>3, <1>4, <1>5 DEF CheckVerdict, TwoRight
<1>8. KeySetUnread = "none" /\ KeySetRight
  BY <1>3, <1>4, <1>5 DEF CheckVerdict, KeySetRight
<1>9. AtxRight /\ ReasonsRight
  BY <1>1, <1>4, TheChecks DEF CheckVerdict, AtxRight, ReasonsRight
<1>10. ASSUME NEW c \in CheckNames \ {"keyset"} PROVE c \notin repo.broken
  <2>1. CASE c \in {"reasons", "cosign", "level3", "atx"}
    BY <1>6, <1>7, <1>9, <2>1 DEF ReasonsRight, SigstoreRight, TwoRight, AtxRight
  <2>2. CASE c \notin {"reasons", "cosign", "level3", "atx"}
    BY <1>1, <1>4, <2>2 DEF CheckVerdict
  <2> QED BY <2>1, <2>2
<1> QED BY <1>6, <1>7, <1>8, <1>9, <1>10

\* And so has each entry of the map.
LEMMA PassedEntries ==
    ASSUME IInv, Passes, MapAsWritten
    PROVE  \A e \in Entry :
              /\ ~NotFound(repo.entries[e]) /\ repo.entries[e].example \in Examples
              /\ Accepted(repo.entries[e].example)
              /\ repo.entries[e].example \notin repo.window
              /\ repo.entries[e].example = VcExample => repo.vcTable # "no" /\ repo.vcForm # "other"
<1> SUFFICES ASSUME NEW e \in Entry
             PROVE  /\ ~NotFound(repo.entries[e]) /\ repo.entries[e].example \in Examples
                    /\ Accepted(repo.entries[e].example)
                    /\ repo.entries[e].example \notin repo.window
                    /\ repo.entries[e].example = VcExample => repo.vcTable # "no" /\ repo.vcForm # "other"
  OBVIOUS
<1> DEFINE x == repo.entries[e].example
<1>1. EntryVerdict(repo.entries[e]) # "FAIL" /\ ~Crashes(repo.entries[e])
  BY PassedVerdicts
<1>2. ~NotFound(repo.entries[e]) /\ ~Refused(repo.entries[e])
  BY <1>1 DEF EntryVerdict
<1>3. x \in Examples /\ x # "gone"
  <2>1. repo.entries[e] \in EntryType
    BY EntriesAre DEF IInv
  <2> QED BY <1>2, <2>1 DEF EntryType, NotFound
<1>4. repo.entries[e].schema = SchemaOf(x)
  BY <1>3 DEF MapAsWritten
<1>5. Accepted(x)
  BY <1>2, <1>4 DEF Accepted, Refused
<1>6. repo.atx = "ok"
  BY PassedChecks DEF AtxRight
<1>7. ~RuleBroken(repo.entries[e])
  BY <1>1, <1>2, <1>6 DEF EntryVerdict, Verdict
<1>8. x \notin repo.window
  <2>1. repo.window \subseteq SpecExamples \ {KeySet}
    BY DEF IInv, TypeOK, RepoType
  <2>2. x \in repo.window => SchemaOf(x) = "trust-proof"
    BY <2>1 DEF SchemaOf, SpecExamples, Sigstore, TwoAuthorities, KeySetProof, KeySet, VcExample
  <2> QED BY <1>4, <1>7, <2>2 DEF RuleBroken
<1>9. x = VcExample => repo.vcTable # "no" /\ repo.vcForm # "other"
  <2>1. x = VcExample => repo.entries[e].schema = "atx-vc"
    BY <1>4 DEF SchemaOf
  <2> QED BY <1>1, <1>2, <1>6, <1>7, <2>1 DEF Crashes, RuleBroken
<1> QED BY <1>2, <1>3, <1>5, <1>8, <1>9

\* For every repository: a pass leaves nothing wrong that the checks are about.
THEOREM PassesAreSound == Spec => []PassMeansSound
<1>1. ASSUME IInv, Passes, MapAsWritten
      PROVE  Causes = {}
  <2>1. Inputs = {}
    BY <1>1 DEF IInv, InputInv, Passes
  <2>2. repo.broken = {}
    <3>1. repo.broken \subseteq CheckNames \ {"keyset"}
      BY <1>1 DEF IInv, TypeOK, RepoType
    <3> QED BY <1>1, <3>1, PassedChecks
  <2>3. ASSUME NEW x \in ReadBySome PROVE ~Wrong(x)
    <3>1. Accepted(KeySetProof) /\ Accepted(KeySet) /\ IssuerKeySetErrors(repo.discovery) = {}
      <4>1. KeySetUnread = "none" /\ KeySetProof # "none" /\ KeySet # "none"
        BY <1>1, PassedChecks DEF KeySetProof, KeySet
      <4> QED BY <4>1 DEF KeySetUnread
    <3>2. Declares(repo.discovery) /\ KeySetProofCheck(repo.proof, repo.discovery) = {}
      <4>1. KeySetProofCheck(repo.proof, repo.discovery) = {}
        BY <1>1, PassedChecks DEF KeySetRight
      <4>2. repo.discovery \in DiscoveryType /\ repo.proof \in ProofType
        BY <1>1 DEF IInv, TypeOK, RepoType
      <4> QED BY <4>1, <4>2, PassedProofHasItsKeys
    <3>3. Accepted(Sigstore) /\ repo.sigstore = "full"
      BY <1>1, PassedChecks DEF SigstoreRight
    <3>4. Accepted(TwoAuthorities) /\ TwoAuthorityCheck(repo.two, TwoKeys) = {}
      BY <1>1, PassedChecks DEF TwoRight
    <3>5. Mapped(x) => Accepted(x) /\ (x = VcExample => repo.vcTable # "no" /\ repo.vcForm # "other")
      BY <1>1, PassedEntries DEF Mapped
    <3>6. x \in {Sigstore, TwoAuthorities, KeySetProof, KeySet} \/ Mapped(x)
      BY DEF ReadBySome, SpecExamples
    <3>7. VcExample \notin SpecExamples
      BY DEF VcExample, SpecExamples, Sigstore, TwoAuthorities, KeySetProof, KeySet
    <3>8. Accepted(x)
      BY <3>1, <3>3, <3>4, <3>5, <3>6
    <3>9. x = VcExample => repo.vcTable # "no" /\ repo.vcForm # "other"
      BY <3>5, <3>6, <3>7 DEF SpecExamples
    <3> QED BY <3>1, <3>2, <3>3, <3>4, <3>8, <3>9 DEF Wrong
  <2>4. \A x \in repo.window : ~Mapped(x)
    BY <1>1, PassedEntries DEF Mapped
  <2>5. \A e \in Entry : ~NotFound(repo.entries[e])
    BY <1>1, PassedEntries
  <2>6. file[Reasons] = codes /\ repo.statusTable # "no" /\ repo.atx = "ok"
    BY <1>1, PassedChecks DEF ReasonsRight, AtxRight
  <2> QED BY <2>1, <2>2, <2>3, <2>4, <2>5, <2>6 DEF Causes
<1>2. IInv => PassMeansSound
  BY <1>1 DEF PassMeansSound
<1> QED BY Invariance, <1>2, PTL
-----------------------------------------------------------------------------
(* One cause, one failure: what the end of a run has counted.                             *)

Counted ==
    IF \A s \in Schemas : repo.schemas[s] = "missing" THEN 1
    ELSE Cardinality(UnusableSchemas) + (IF UnusableMap THEN 1 ELSE 0) + Cardinality(UnusableDocuments)

\* A run that ends at its inputs has no verdict; one that SystemExit ends has those of all
\* checks; and one that fails otherwise has counted a failure, or is ended by --check.
ReportInv ==
    /\ ci \notin {"editing", "reading"} => unusable = Counted
    /\ unusable > 0 => ~crashed /\ (\A c \in CheckNames : checked[c] = "none")
                                /\ (\A e \in Entry : mapped[e] = "none")
    /\ crashed => /\ unusable = 0 /\ \A c \in CheckNames : checked[c] # "none"
                  /\ \E e \in Entry : Crashes(repo.entries[e])
    /\ ci = "failed" /\ unusable = 0 /\ ~crashed => Failures > 0 \/ ~CheckPasses

LEMMA ReportInvHolds == Spec => []ReportInv
<1>1. Init => ReportInv
  BY DEF Init, ReportInv
<1>2. ASSUME IInv, ReportInv, Edit PROVE ReportInv'
  BY <1>2 DEF Edit, ciVars, ReportInv, IInv, InputInv, OverInv
<1>3. ASSUME IInv, ReportInv, UNCHANGED <<registryVars, repo>> PROVE
        /\ Counted' = Counted
        /\ UNCHANGED <<checked, mapped>> => Failures' = Failures
  BY <1>3, Unmoved DEF Counted, Failures, UnusableSchemas, UnusableDocuments, UnusableMap
<1>4. ASSUME IInv, ReportInv, Commit PROVE ReportInv'
  <2>1. UNCHANGED <<registryVars, repo, next, checked, mapped, unusable, crashed>>
        /\ ci = "editing" /\ ci' = "reading"
    BY <1>4 DEF Commit
  <2> QED BY <1>4, <2>1, Unmoved DEF ReportInv, IInv, InputInv, OverInv
<1>5. ASSUME IInv, ReportInv, ReadInputs PROVE ReportInv'
  <2>1. UNCHANGED <<registryVars, repo, next, checked, mapped, crashed>>
        /\ ci = "reading" /\ ci' = (IF unusable' > 0 THEN "failed" ELSE "checking")
        /\ unusable' = Counted
    BY <1>5 DEF ReadInputs, Counted
  <2>2. ~crashed /\ (\A c \in CheckNames : checked[c] = "none") /\ (\A e \in Entry : mapped[e] = "none")
    BY <1>5, <2>1 DEF IInv, OverInv, CheckInv, EntryInv
  <2>3. unusable' \in Nat /\ Counted' = Counted
    BY <1>3, <1>5, <2>1, CountedInputs DEF Counted
  <2> QED BY <2>1, <2>2, <2>3, Unmoved DEF ReportInv
<1>6. ASSUME IInv, ReportInv, Check PROVE ReportInv'
  <2>1. UNCHANGED <<registryVars, repo, mapped, unusable, crashed>> /\ ci = "checking"
        /\ ci' \in {"checking", "mapped"}
    BY <1>6 DEF Check
  <2>2. unusable = 0 /\ ~crashed
    BY <1>6, <2>1 DEF IInv, InputInv, OverInv
  <2> QED BY <1>3, <1>6, <2>1, <2>2 DEF ReportInv
<1>7. ASSUME IInv, ReportInv, Prepass PROVE ReportInv'
  <2>1. UNCHANGED <<registryVars, repo, ci, next, checked, unusable, crashed>> /\ ci = "mapped"
    BY <1>7 DEF Prepass
  <2>2. unusable = 0 /\ ~crashed
    BY <1>7, <2>1 DEF IInv, InputInv, OverInv
  <2> QED BY <1>3, <1>7, <2>1, <2>2 DEF ReportInv
<1>8. ASSUME IInv, ReportInv, ValidateEntry PROVE ReportInv'
  <2>1. UNCHANGED <<registryVars, repo, checked, unusable>> /\ ci = "mapped" /\ next \in Entry
    BY <1>8 DEF ValidateEntry
  <2>2. unusable = 0 /\ ~crashed /\ \A c \in CheckNames : checked[c] # "none"
    BY <1>8, <2>1 DEF IInv, InputInv, OverInv, CheckInv
  <2>3. \/ crashed' = TRUE /\ ci' = "failed" /\ Crashes(repo.entries[next])
        \/ UNCHANGED <<crashed, ci>>
    BY <1>8 DEF ValidateEntry
  <2>4. \A e \in Entry : Crashes(repo.entries[e])' = Crashes(repo.entries[e])
    BY <2>1, Unmoved
  <2>5. Counted' = Counted /\ Entry' = Entry
    BY <1>3, <1>8, <2>1, Unmoved
  <2>6. unusable = Counted
    BY <1>8, <2>1 DEF ReportInv
  <2>7. CASE crashed' = TRUE /\ ci' = "failed" /\ Crashes(repo.entries[next])
    <3>1. \E e \in Entry : Crashes(repo.entries[e])'
      BY <2>1, <2>4, <2>7
    <3> QED BY <2>1, <2>2, <2>5, <2>6, <2>7, <3>1 DEF ReportInv
  <2>8. CASE UNCHANGED <<crashed, ci>>
    BY <2>1, <2>2, <2>5, <2>6, <2>8 DEF ReportInv
  <2> QED BY <2>3, <2>7, <2>8
<1>9. ASSUME IInv, ReportInv, Finish PROVE ReportInv'
  <2>1. UNCHANGED <<registryVars, repo, next, checked, mapped, unusable, crashed>>
        /\ ci = "mapped" /\ ci' = (IF Failures > 0 THEN "failed" ELSE "registries")
    BY <1>9 DEF Finish
  <2>2. unusable = 0 /\ ~crashed
    BY <1>9, <2>1 DEF IInv, InputInv, OverInv
  <2> QED BY <1>3, <1>9, <2>1, <2>2 DEF ReportInv
<1>10. ASSUME IInv, ReportInv, CheckRegistries PROVE ReportInv'
  <2>1. UNCHANGED <<registryVars, repo, next, checked, mapped, unusable, crashed>>
        /\ ci = "registries" /\ ci' = (IF CheckPasses THEN "passed" ELSE "failed")
    BY <1>10 DEF CheckRegistries
  <2>2. unusable = 0 /\ ~crashed
    BY <1>10, <2>1 DEF IInv, InputInv, OverInv
  <2>3. CheckPasses' = CheckPasses
    BY <2>1, Unmoved
  <2> QED BY <1>3, <1>10, <2>1, <2>2, <2>3 DEF ReportInv
<1>11. ASSUME IInv, ReportInv, UNCHANGED vars PROVE ReportInv'
  <2>1. UNCHANGED <<registryVars, repo, ci, next, checked, mapped, unusable, crashed>>
    BY <1>11 DEF vars, ciVars
  <2>2. Counted' = Counted /\ Failures' = Failures /\ Entry' = Entry /\ CheckPasses' = CheckPasses
    BY <1>3, <1>11, <2>1, Unmoved
  <2>3. \A e \in Entry : Crashes(repo.entries[e])' = Crashes(repo.entries[e])
    BY <2>1, Unmoved
  <2> QED BY <1>11, <2>1, <2>2, <2>3 DEF ReportInv
<1>12. IInv /\ ReportInv /\ [Next]_vars => ReportInv'
  BY <1>2, <1>4, <1>5, <1>6, <1>7, <1>8, <1>9, <1>10, <1>11 DEF Next
<1> QED BY <1>1, <1>12, Invariance, PTL DEF Spec

\* The inputs' lines are counted without one too many.
LEMMA InputsCounted ==
    /\ Counted \in Nat /\ (Inputs = {} <=> Counted = 0)
    /\ \A z : Inputs = {z} => Counted = 1
<1> DEFINE schemas == {<<"schema", s>> : s \in UnusableSchemas}
           documents == {<<"document", d>> : d \in UnusableDocuments}
           map == IF UnusableMap THEN {<<"map", "map">>} ELSE {}
<1>1. CASE \A s \in Schemas : repo.schemas[s] = "missing"
  <2>1. Inputs = {<<"schema", "none">>} /\ Counted = 1
    BY <1>1 DEF Inputs, Counted
  <2>2. Inputs # {}
    BY <2>1
  <2>3. Counted = 1
    BY <2>1
  <2> HIDE DEF schemas, documents, map
  <2> QED BY <2>2, <2>3
<1>2. CASE ~\A s \in Schemas : repo.schemas[s] = "missing"
  <2>1. Inputs = (schemas \cup documents) \cup map
    BY <1>2 DEF Inputs
  <2>2. Counted = Cardinality(UnusableSchemas) + (IF UnusableMap THEN 1 ELSE 0)
                    + Cardinality(UnusableDocuments)
    BY <1>2 DEF Counted
  <2>3. Cardinality(UnusableSchemas) \in Nat /\ Cardinality(UnusableDocuments) \in Nat
        /\ (Cardinality(UnusableSchemas) = 0 <=> UnusableSchemas = {})
        /\ (Cardinality(UnusableDocuments) = 0 <=> UnusableDocuments = {})
    BY CountedInputs, FS_EmptySet
  <2>4. Counted \in Nat /\ (Counted = 0 <=> UnusableSchemas = {} /\ ~UnusableMap /\ UnusableDocuments = {})
    BY <2>2, <2>3
  <2>5. Inputs = {} <=> UnusableSchemas = {} /\ ~UnusableMap /\ UnusableDocuments = {}
    BY <2>1
  <2>6. ASSUME NEW z, Inputs = {z} PROVE Counted = 1
    <3>1. /\ \A s \in UnusableSchemas : z = <<"schema", s>>
          /\ \A d \in UnusableDocuments : z = <<"document", d>>
          /\ UnusableMap => z = <<"map", "map">>
      <4>1. (schemas \cup documents) \cup map = {z}
        BY <2>1, <2>6
      <4>2. \A s \in UnusableSchemas : <<"schema", s>> \in {z}
        BY <4>1
      <4>3. \A d \in UnusableDocuments : <<"document", d>> \in {z}
        BY <4>1
      <4>4. UnusableMap => <<"map", "map">> \in {z}
        BY <4>1
      <4> QED BY <4>2, <4>3, <4>4
    <3>2. \A s \in UnusableSchemas : z[1] = "schema" /\ z[2] = s
      BY <3>1
    <3>3. \A d \in UnusableDocuments : z[1] = "document" /\ z[2] = d
      BY <3>1
    <3>4. UnusableMap => z[1] = "map"
      BY <3>1
    <3>5. \A x : Cardinality({x}) = 1
      BY FS_Singleton
    <3>6. Inputs # {}
      BY <2>6
    <3>7. CASE UnusableSchemas # {}
      <4>1. PICK s \in UnusableSchemas : TRUE
        BY <3>7
      <4>2. UnusableSchemas = {s} /\ UnusableDocuments = {} /\ ~UnusableMap
        BY <3>2, <3>3, <3>4, <4>1
      <4>3. Cardinality(UnusableSchemas) = 1
        BY <3>5, <4>2
      <4> QED BY <2>2, <2>3, <4>2, <4>3
    <3>8. CASE UnusableSchemas = {} /\ UnusableDocuments # {}
      <4>1. PICK d \in UnusableDocuments : TRUE
        BY <3>8
      <4>2. UnusableDocuments = {d} /\ ~UnusableMap
        BY <3>3, <3>4, <4>1
      <4>3. Cardinality(UnusableDocuments) = 1
        BY <3>5, <4>2
      <4> QED BY <2>2, <2>3, <3>8, <4>2, <4>3
    <3>9. CASE UnusableSchemas = {} /\ UnusableDocuments = {}
      <4>1. UnusableMap
        BY <2>5, <3>6, <3>9
      <4> QED BY <2>2, <2>3, <3>9, <4>1
    <3> QED BY <3>7, <3>8, <3>9
  <2> QED BY <2>4, <2>5, <2>6
<1> QED BY <1>1, <1>2

\* With inputs that can be used: what is a cause, kind by kind.
LEMMA CausesAre ==
    ASSUME Inputs = {}
    PROVE  /\ \A c : <<"rule", c>> \in Causes <=> c \in repo.broken
           /\ \A x : <<"example", x>> \in Causes <=> x \in ReadBySome /\ Wrong(x)
           /\ \A x : <<"window", x>> \in Causes <=> x \in repo.window /\ Mapped(x)
           /\ \A x : <<"entry", x>> \in Causes <=>
                \E e \in Entry : repo.entries[e].example = x /\ NotFound(repo.entries[e])
           /\ <<"registry", Reasons>> \in Causes <=> file[Reasons] # codes
           /\ <<"ATX", "table">> \in Causes <=> repo.statusTable = "no"
           /\ <<"ATX", "example">> \in Causes <=> repo.atx # "ok"
           /\ \A z \in Causes : \/ \E c \in repo.broken : z = <<"rule", c>>
                                \/ \E x : z = <<"example", x>>
                                \/ \E x : z = <<"window", x>>
                                \/ \E x : z = <<"entry", x>>
                                \/ z \in {<<"registry", Reasons>>, <<"ATX", "table">>, <<"ATX", "example">>}
<1> DEFINE rules == {<<"rule", c>> : c \in repo.broken}
           examples == {<<"example", x>> : x \in {x \in ReadBySome : Wrong(x)}}
           windows == {<<"window", x>> : x \in {x \in repo.window : Mapped(x)}}
           gone == {<<"entry", repo.entries[e].example>> : e \in {e \in Entry : NotFound(repo.entries[e])}}
           registry == IF file[Reasons] # codes THEN {<<"registry", Reasons>>} ELSE {}
           tables == IF repo.statusTable = "no" THEN {<<"ATX", "table">>} ELSE {}
           atx == IF repo.atx # "ok" THEN {<<"ATX", "example">>} ELSE {}
<1>1. \A z : z \in Causes <=> \/ z \in rules \/ z \in examples \/ z \in windows \/ z \in gone
                              \/ z \in registry \/ z \in tables \/ z \in atx
  BY DEF Causes
<1>2. \A z : z \in rules <=> \E c \in repo.broken : z = <<"rule", c>>
  OBVIOUS
<1>3. \A z : z \in examples <=> \E x : x \in ReadBySome /\ Wrong(x) /\ z = <<"example", x>>
  OBVIOUS
<1>4. \A z : z \in windows <=> \E x : x \in repo.window /\ Mapped(x) /\ z = <<"window", x>>
  OBVIOUS
<1>5. \A z : z \in gone <=> \E e \in Entry : NotFound(repo.entries[e])
                                              /\ z = <<"entry", repo.entries[e].example>>
  OBVIOUS
<1>6. \A z : z \in registry <=> file[Reasons] # codes /\ z = <<"registry", Reasons>>
  OBVIOUS
<1>7. \A z : z \in tables <=> repo.statusTable = "no" /\ z = <<"ATX", "table">>
  OBVIOUS
<1>8. \A z : z \in atx <=> repo.atx # "ok" /\ z = <<"ATX", "example">>
  OBVIOUS
<1>9. \A a, b, x, y : <<a, x>> = <<b, y>> <=> a = b /\ x = y
  OBVIOUS
<1> HIDE DEF rules, examples, windows, gone, registry, tables, atx
<1>10. \A c : <<"rule", c>> \in Causes <=> c \in repo.broken
  BY <1>1, <1>2, <1>3, <1>4, <1>5, <1>6, <1>7, <1>8, <1>9
<1>11. \A x : <<"example", x>> \in Causes <=> x \in ReadBySome /\ Wrong(x)
  BY <1>1, <1>2, <1>3, <1>4, <1>5, <1>6, <1>7, <1>8, <1>9
<1>12. \A x : <<"window", x>> \in Causes <=> x \in repo.window /\ Mapped(x)
  BY <1>1, <1>2, <1>3, <1>4, <1>5, <1>6, <1>7, <1>8, <1>9
<1>13. \A x : <<"entry", x>> \in Causes <=>
                \E e \in Entry : repo.entries[e].example = x /\ NotFound(repo.entries[e])
  BY <1>1, <1>2, <1>3, <1>4, <1>5, <1>6, <1>7, <1>8, <1>9
<1>14. <<"registry", Reasons>> \in Causes <=> file[Reasons] # codes
  BY <1>1, <1>2, <1>3, <1>4, <1>5, <1>6, <1>7, <1>8, <1>9
<1>15. <<"ATX", "table">> \in Causes <=> repo.statusTable = "no"
  BY <1>1, <1>2, <1>3, <1>4, <1>5, <1>6, <1>7, <1>8, <1>9
<1>16. <<"ATX", "example">> \in Causes <=> repo.atx # "ok"
  BY <1>1, <1>2, <1>3, <1>4, <1>5, <1>6, <1>7, <1>8, <1>9
<1>17. \A z \in Causes : \/ \E c \in repo.broken : z = <<"rule", c>>
                         \/ \E x : z = <<"example", x>>
                         \/ \E x : z = <<"window", x>>
                         \/ \E x : z = <<"entry", x>>
                         \/ z \in {<<"registry", Reasons>>, <<"ATX", "table">>, <<"ATX", "example">>}
  BY <1>1, <1>2, <1>3, <1>4, <1>5, <1>6, <1>7, <1>8
<1> QED BY <1>10, <1>11, <1>12, <1>13, <1>14, <1>15, <1>16, <1>17

\* What a check may fail of, and an entry.
CausesOfCheck(c) ==
    {<<"rule", c>>} \cup
    (CASE c = "reasons" -> {<<"registry", Reasons>>}
       [] c = "cosign" -> {<<"example", Sigstore>>}
       [] c = "level3" -> {<<"example", TwoAuthorities>>}
       [] c = "keyset" -> {<<"example", KeySet>>, <<"example", KeySetProof>>}
       [] c = "atx" -> {<<"ATX", "table">>, <<"ATX", "example">>}
       [] OTHER -> {})

CausesOfEntry(e) == {<<"entry", e.example>>, <<"window", e.example>>, <<"example", e.example>>}

\* The exception of OneFailurePerCause.
FailsTwice == SigstoreRead /\ Mapped(Sigstore) /\ ~Accepted(Sigstore)

LEMMA CausesOfChecksDiffer ==
    ASSUME NEW c, NEW d, NEW z \in CausesOfCheck(c), z \in CausesOfCheck(d)
    PROVE  c = d
<1>1. \A a : CausesOfCheck(a) \subseteq
               {<<"rule", a>>, <<"registry", Reasons>>, <<"example", Sigstore>>,
                <<"example", TwoAuthorities>>, <<"example", KeySet>>, <<"example", KeySetProof>>,
                <<"ATX", "table">>, <<"ATX", "example">>}
  BY DEF CausesOfCheck
<1>2. \A a : /\ <<"registry", Reasons>> \in CausesOfCheck(a) => a = "reasons"
             /\ <<"example", Sigstore>> \in CausesOfCheck(a) => a = "cosign"
             /\ <<"example", TwoAuthorities>> \in CausesOfCheck(a) => a = "level3"
             /\ <<"example", KeySet>> \in CausesOfCheck(a) => a = "keyset"
             /\ <<"example", KeySetProof>> \in CausesOfCheck(a) => a = "keyset"
             /\ <<"ATX", "table">> \in CausesOfCheck(a) => a = "atx"
             /\ <<"ATX", "example">> \in CausesOfCheck(a) => a = "atx"
  BY DEF CausesOfCheck, Sigstore, TwoAuthorities, KeySet, KeySetProof
<1>3. \A a, b : <<"rule", b>> \in CausesOfCheck(a) => a = b
  BY DEF CausesOfCheck
<1>4. z \in {<<"rule", c>>, <<"registry", Reasons>>, <<"example", Sigstore>>,
             <<"example", TwoAuthorities>>, <<"example", KeySet>>, <<"example", KeySetProof>>,
             <<"ATX", "table">>, <<"ATX", "example">>}
  BY <1>1
<1> QED BY <1>2, <1>3, <1>4

LEMMA ExamplesDiffer ==
    /\ SpecExamples = {Sigstore, TwoAuthorities, KeySetProof, KeySet}
    /\ Sigstore \notin {TwoAuthorities, KeySetProof, KeySet} /\ TwoAuthorities \notin {KeySetProof, KeySet}
    /\ KeySetProof # KeySet /\ VcExample \notin SpecExamples /\ "none" \notin Examples
    /\ "gone" \notin Examples /\ Examples = SpecExamples \cup {VcExample}
    /\ SchemaOf(VcExample) = "atx-vc" /\ SchemaOf(KeySet) = "discovery"
    /\ \A x : x # VcExample /\ x # KeySet => SchemaOf(x) = "trust-proof"
BY DEF SpecExamples, Examples, Sigstore, TwoAuthorities, KeySetProof, KeySet, VcExample, SchemaOf

\* A failing check has a cause, which is one that only it may fail of.
LEMMA FailedCheckHasCause ==
    ASSUME IInv, Inputs = {}, NEW c \in CheckNames, CheckVerdict(c) = "FAIL"
    PROVE  \E z \in CausesOfCheck(c) : z \in Causes
<1>1. \A right \in BOOLEAN : Verdict(right) = "FAIL" <=> ~right
  BY DEF Verdict
<1>2. \A x : Unread(x) = "FAIL" <=> ~Mapped(x)
  BY DEF Unread
<1>3. SpecExamples \subseteq ReadBySome
  BY DEF ReadBySome
<1>4. c \in repo.broken => <<"rule", c>> \in Causes /\ <<"rule", c>> \in CausesOfCheck(c)
  BY CausesAre DEF CausesOfCheck
<1>5. \A x \in SpecExamples : Wrong(x) => <<"example", x>> \in Causes
  BY <1>3, CausesAre
<1>6. CASE c = "reasons"
  <2>1. c \in repo.broken \/ file[Reasons] # codes
    BY <1>1, <1>6 DEF CheckVerdict, ReasonsRight
  <2>2. <<"registry", Reasons>> \in CausesOfCheck(c)
    BY <1>6 DEF CausesOfCheck
  <2> QED BY <1>4, <2>1, <2>2, CausesAre
<1>7. CASE c = "cosign"
  <2>1. c \in repo.broken \/ ~Accepted(Sigstore) \/ repo.sigstore # "full"
    <3>1. CASE SigstoreRead
      BY <1>1, <1>7, <3>1 DEF CheckVerdict, SigstoreRight
    <3>2. CASE ~SigstoreRead
      BY <3>2 DEF SigstoreRead, Accepted
    <3> QED BY <3>1, <3>2
  <2>2. c \in repo.broken \/ Wrong(Sigstore)
    BY <2>1 DEF Wrong
  <2>3. <<"example", Sigstore>> \in CausesOfCheck(c)
    BY <1>7 DEF CausesOfCheck
  <2> QED BY <1>4, <1>5, <2>2, <2>3, ExamplesDiffer
<1>8. CASE c = "level3"
  <2>1. c \in repo.broken \/ ~Accepted(TwoAuthorities) \/ TwoAuthorityCheck(repo.two, TwoKeys) # {}
    BY <1>1, <1>8 DEF CheckVerdict, TwoRight
  <2>2. c \in repo.broken \/ Wrong(TwoAuthorities)
    BY <2>1 DEF Wrong
  <2>3. <<"example", TwoAuthorities>> \in CausesOfCheck(c)
    BY <1>8 DEF CausesOfCheck
  <2> QED BY <1>4, <1>5, <2>2, <2>3, ExamplesDiffer
<1>9. CASE c = "keyset"
  <2>1. Wrong(KeySet) \/ Wrong(KeySetProof)
    <3>1. CASE ~Accepted(KeySetProof) \/ ~Accepted(KeySet) \/ IssuerKeySetErrors(repo.discovery) # {}
      BY <3>1 DEF Wrong
    <3>2. CASE Accepted(KeySetProof) /\ Accepted(KeySet) /\ IssuerKeySetErrors(repo.discovery) = {}
      <4>1. KeySetUnread = "none"
        BY <3>2 DEF KeySetUnread
      <4>2. KeySetProofCheck(repo.proof, repo.discovery) # {}
        BY <1>1, <1>9, <4>1 DEF CheckVerdict, KeySetRight
      <4> QED BY <3>2, <4>2 DEF Wrong
    <3> QED BY <3>1, <3>2
  <2>2. <<"example", KeySet>> \in CausesOfCheck(c) /\ <<"example", KeySetProof>> \in CausesOfCheck(c)
    BY <1>9 DEF CausesOfCheck
  <2> QED BY <1>5, <2>1, <2>2, ExamplesDiffer
<1>10. CASE c = "atx"
  <2>1. c \in repo.broken \/ repo.statusTable = "no" \/ repo.atx # "ok"
    <3>1. repo.statusTable \in {"yes", "no"}
      BY DEF IInv, TypeOK, RepoType
    <3> QED BY <1>1, <1>10, <3>1 DEF CheckVerdict, AtxRight
  <2>2. <<"ATX", "table">> \in CausesOfCheck(c) /\ <<"ATX", "example">> \in CausesOfCheck(c)
    BY <1>10 DEF CausesOfCheck
  <2> QED BY <1>4, <2>1, <2>2, CausesAre
<1>11. CASE c \notin {"reasons", "cosign", "level3", "keyset", "atx"}
  <2>1. c \in repo.broken
    BY <1>1, <1>11 DEF CheckVerdict
  <2> QED BY <1>4, <2>1
<1> QED BY <1>6, <1>7, <1>8, <1>9, <1>10, <1>11

\* So has a failing entry, and one that ends the run.
LEMMA FailedEntryHasCause ==
    ASSUME IInv, Inputs = {}, MapAsWritten, NEW e \in Entry
    PROVE  LET entry == repo.entries[e]
           IN  /\ EntryVerdict(entry) = "FAIL" => \E z \in CausesOfEntry(entry) : z \in Causes
               /\ Crashes(entry) => entry.example = VcExample /\ <<"example", VcExample>> \in Causes
<1> DEFINE entry == repo.entries[e]
           x == entry.example
<1>1. entry \in EntryType
  BY EntriesAre DEF IInv
<1>2. Mapped(x)
  BY DEF Mapped
<1>3. CASE NotFound(entry)
  <2>1. <<"entry", x>> \in Causes
    BY <1>3, CausesAre
  <2>2. ~Crashes(entry) /\ <<"entry", x>> \in CausesOfEntry(entry)
    BY <1>3 DEF Crashes, CausesOfEntry
  <2> QED BY <2>1, <2>2
<1>4. CASE ~NotFound(entry)
  <2>1. x \in Examples /\ entry.schema = SchemaOf(x)
    BY <1>1, <1>4 DEF NotFound, EntryType, MapAsWritten
  <2>2. x \in ReadBySome
    BY <1>2, <2>1 DEF ReadBySome
  <2>3. Wrong(x) => <<"example", x>> \in Causes /\ <<"example", x>> \in CausesOfEntry(entry)
    BY <2>2, CausesAre DEF CausesOfEntry
  <2>4. Refused(entry) => Wrong(x)
    BY <2>1 DEF Refused, Wrong, Accepted
  <2>5. Crashes(entry) => x = VcExample /\ Wrong(x)
    BY <2>1, ExamplesDiffer DEF Crashes, Wrong
  <2>6. RuleBroken(entry) => x \in repo.window \/ Wrong(x)
    BY <2>1, ExamplesDiffer DEF RuleBroken, Wrong
  <2>7. x \in repo.window => <<"window", x>> \in Causes /\ <<"window", x>> \in CausesOfEntry(entry)
    BY <1>2, CausesAre DEF CausesOfEntry
  <2>8. EntryVerdict(entry) = "FAIL" => Refused(entry) \/ RuleBroken(entry)
    BY <1>4 DEF EntryVerdict, Verdict
  <2>9. EntryVerdict(entry) = "FAIL" => \E z \in CausesOfEntry(entry) : z \in Causes
    BY <2>3, <2>4, <2>6, <2>7, <2>8
  <2>10. Crashes(entry) => x = VcExample /\ <<"example", VcExample>> \in Causes
    BY <2>3, <2>5
  <2> QED BY <2>9, <2>10
<1> QED BY <1>3, <1>4

\* When there is only one cause, an entry and a check do not both fail of it.
LEMMA CheckOrEntry ==
    ASSUME IInv, Inputs = {}, MapAsWritten, ~FailsTwice, NEW z, Causes = {z},
           NEW c \in CheckNames, CheckVerdict(c) = "FAIL",
           NEW e \in Entry, EntryVerdict(repo.entries[e]) = "FAIL"
    PROVE  FALSE
<1> DEFINE x == repo.entries[e].example
<1>1. z \in CausesOfCheck(c) /\ z \in CausesOfEntry(repo.entries[e])
  BY FailedCheckHasCause, FailedEntryHasCause
<1>2. z = <<"example", x>> /\ x \in SpecExamples
  <2>1. z \in {<<"rule", c>>, <<"registry", Reasons>>, <<"example", Sigstore>>,
               <<"example", TwoAuthorities>>, <<"example", KeySet>>, <<"example", KeySetProof>>,
               <<"ATX", "table">>, <<"ATX", "example">>}
    BY <1>1 DEF CausesOfCheck
  <2>2. z \in {<<"entry", x>>, <<"window", x>>, <<"example", x>>}
    BY <1>1 DEF CausesOfEntry
  <2>3. z[1] \in {"rule", "registry", "example", "ATX"}
    BY <2>1
  <2>4. z = <<"example", x>>
    BY <2>2, <2>3
  <2> QED BY <2>1, <2>4, ExamplesDiffer
<1>3. Mapped(x) /\ \A y : Mapped(y) => Unread(y) = "SKIP"
  BY DEF Mapped, Unread
<1>4. ~NotFound(repo.entries[e]) /\ x \notin repo.window
  <2>1. <<"entry", x>> \notin Causes /\ <<"window", x>> \notin Causes
    BY <1>2
  <2> QED BY <1>3, <2>1, CausesAre
<1>5. x \in Examples /\ repo.entries[e].schema = SchemaOf(x)
  BY <1>2, ExamplesDiffer DEF MapAsWritten
<1>6. ~Accepted(x) \/ (x = KeySet /\ IssuerKeySetErrors(repo.discovery) # {})
  <2>1. Refused(repo.entries[e]) \/ RuleBroken(repo.entries[e])
    BY <1>4 DEF EntryVerdict, Verdict
  <2> QED BY <1>2, <1>4, <1>5, <2>1, ExamplesDiffer DEF Refused, RuleBroken, Accepted
<1>7. CASE x = Sigstore
  <2>1. c = "cosign"
    <3>1. z \in CausesOfCheck("cosign")
      BY <1>2, <1>7 DEF CausesOfCheck
    <3> QED BY <1>1, <3>1, CausesOfChecksDiffer
  <2>2. ~SigstoreRead
    BY <1>3, <1>6, <1>7, ExamplesDiffer DEF FailsTwice
  <2>3. CheckVerdict("cosign") = "SKIP"
    BY <1>3, <1>7, <2>2 DEF CheckVerdict
  <2> QED BY <2>1, <2>3
<1>8. CASE x = TwoAuthorities
  <2>1. c = "level3"
    <3>1. z \in CausesOfCheck("level3")
      BY <1>2, <1>8 DEF CausesOfCheck
    <3> QED BY <1>1, <3>1, CausesOfChecksDiffer
  <2>2. CheckVerdict("level3") = "SKIP"
    BY <1>3, <1>6, <1>8, ExamplesDiffer DEF CheckVerdict
  <2> QED BY <2>1, <2>2
<1>9. CASE x \in {KeySetProof, KeySet}
  <2>1. c = "keyset"
    <3>1. z \in CausesOfCheck("keyset")
      BY <1>2, <1>9 DEF CausesOfCheck
    <3> QED BY <1>1, <3>1, CausesOfChecksDiffer
  <2>2. x = KeySet => Accepted(KeySetProof)
    <3> SUFFICES ASSUME x = KeySet, ~Accepted(KeySetProof) PROVE FALSE
      OBVIOUS
    <3>1. <<"example", KeySetProof>> \in Causes
      BY CausesAre, ExamplesDiffer DEF ReadBySome, Wrong
    <3>2. <<"example", KeySetProof>> = <<"example", KeySet>>
      BY <1>2, <3>1
    <3> QED BY <3>2, ExamplesDiffer
  <2>3. KeySetUnread = x
    BY <1>6, <1>9, <2>2, ExamplesDiffer DEF KeySetUnread
  <2>4. CheckVerdict("keyset") = "SKIP"
    <3>1. x # "none" /\ Unread(x) = "SKIP"
      BY <1>3, <1>5, ExamplesDiffer
    <3> QED BY <2>3, <3>1 DEF CheckVerdict
  <2> QED BY <2>1, <2>4
<1> QED BY <1>2, <1>7, <1>8, <1>9, ExamplesDiffer

\* No two checks, and no two entries, fail of one cause; and when one ends the run, none.
LEMMA OneReporter ==
    ASSUME IInv, Inputs = {}, MapAsWritten, NEW z, Causes = {z}
    PROVE  /\ \A c, d \in CheckNames : CheckVerdict(c) = "FAIL" /\ CheckVerdict(d) = "FAIL" => c = d
           /\ \A e, f \in Entry : /\ EntryVerdict(repo.entries[e]) = "FAIL" \/ Crashes(repo.entries[e])
                                  /\ EntryVerdict(repo.entries[f]) = "FAIL" \/ Crashes(repo.entries[f])
                                  => e = f
           /\ \A c \in CheckNames, e \in Entry : ~(CheckVerdict(c) = "FAIL" /\ Crashes(repo.entries[e]))
<1>1. \A c \in CheckNames : CheckVerdict(c) = "FAIL" => z \in CausesOfCheck(c)
  BY FailedCheckHasCause
<1>2. ASSUME NEW e \in Entry, EntryVerdict(repo.entries[e]) = "FAIL" \/ Crashes(repo.entries[e])
      PROVE  z[2] = repo.entries[e].example
  <2>1. CASE EntryVerdict(repo.entries[e]) = "FAIL"
    <3>1. z \in CausesOfEntry(repo.entries[e])
      BY <2>1, FailedEntryHasCause
    <3> QED BY <3>1 DEF CausesOfEntry
  <2>2. CASE Crashes(repo.entries[e])
    <3>1. repo.entries[e].example = VcExample /\ z = <<"example", VcExample>>
      BY <2>2, FailedEntryHasCause
    <3> QED BY <3>1
  <2> QED BY <1>2, <2>1, <2>2
<1>3. \A c, d \in CheckNames : CheckVerdict(c) = "FAIL" /\ CheckVerdict(d) = "FAIL" => c = d
  BY <1>1, CausesOfChecksDiffer
<1>4. \A e, f \in Entry : repo.entries[e].example = repo.entries[f].example => e = f
  BY DEF MapAsWritten
<1>5. ASSUME NEW c \in CheckNames, NEW e \in Entry, CheckVerdict(c) = "FAIL", Crashes(repo.entries[e])
      PROVE  FALSE
  <2>1. z = <<"example", VcExample>>
    BY <1>5, FailedEntryHasCause
  <2>2. z \in {<<"rule", c>>, <<"registry", Reasons>>, <<"example", Sigstore>>,
               <<"example", TwoAuthorities>>, <<"example", KeySet>>, <<"example", KeySetProof>>,
               <<"ATX", "table">>, <<"ATX", "example">>}
    BY <1>1, <1>5 DEF CausesOfCheck
  <2>3. z[1] = "example" /\ z[2] = VcExample
    BY <2>1
  <2>4. z[2] \in SpecExamples
    BY <2>2, <2>3, ExamplesDiffer
  <2> QED BY <2>3, <2>4, ExamplesDiffer
<1> QED BY <1>2, <1>3, <1>4, <1>5

\* And one cause fails somewhere.
LEMMA CauseIsReported ==
    ASSUME IInv, Inputs = {}, MapAsWritten, ~FailsTwice, NEW z, Causes = {z}
    PROVE  \/ \E c \in CheckNames : CheckVerdict(c) = "FAIL"
           \/ \E e \in Entry : EntryVerdict(repo.entries[e]) = "FAIL" \/ Crashes(repo.entries[e])
<1>1. \A right \in BOOLEAN : Verdict(right) = "FAIL" <=> ~right
  BY DEF Verdict
<1>2. \A x : /\ ~Mapped(x) => Unread(x) = "FAIL"
             /\ Mapped(x) => Unread(x) = "SKIP" /\ \E e \in Entry : repo.entries[e].example = x
  BY DEF Unread, Mapped
<1>3. \A e \in Entry : NotFound(repo.entries[e]) \/ Refused(repo.entries[e])
                         => EntryVerdict(repo.entries[e]) = "FAIL"
  BY DEF EntryVerdict
<1>4. {"reasons", "cosign", "level3", "keyset", "atx"} \subseteq CheckNames
  BY TheChecks
<1>5. ASSUME NEW x \in SpecExamples, z # <<"example", x>> PROVE ~Wrong(x)
  BY <1>5, CausesAre DEF ReadBySome
<1>6. \A x, y : <<"example", x>> = <<"example", y>> <=> x = y
  OBVIOUS
<1>7. ASSUME NEW c \in repo.broken, z = <<"rule", c>>
      PROVE  CheckVerdict(c) = "FAIL" /\ c \in CheckNames
  <2>1. c \in CheckNames /\ c # "keyset"
    BY DEF IInv, TypeOK, RepoType
  <2>2. \A x \in SpecExamples : ~Wrong(x)
    BY <1>5, <1>7
  <2>3. Accepted(Sigstore) /\ repo.sigstore = "full" /\ Accepted(TwoAuthorities)
    BY <2>2, ExamplesDiffer DEF Wrong
  <2>4. SigstoreRead
    BY <2>3 DEF SigstoreRead, Accepted
  <2> QED BY <1>1, <2>1, <2>3, <2>4
             DEF CheckVerdict, ReasonsRight, SigstoreRight, TwoRight, AtxRight
<1>8. ASSUME NEW x, z = <<"entry", x>> PROVE \E e \in Entry : EntryVerdict(repo.entries[e]) = "FAIL"
  <2>1. \E e \in Entry : repo.entries[e].example = x /\ NotFound(repo.entries[e])
    BY <1>8, CausesAre
  <2> QED BY <1>3, <2>1
<1>9. ASSUME NEW x, z = <<"window", x>> PROVE \E e \in Entry : EntryVerdict(repo.entries[e]) = "FAIL"
  <2>1. x \in repo.window /\ Mapped(x)
    BY <1>9, CausesAre
  <2>2. PICK e \in Entry : repo.entries[e].example = x
    BY <1>2, <2>1
  <2>3. x \in SpecExamples /\ x # KeySet
    BY <2>1 DEF IInv, TypeOK, RepoType
  <2>4. repo.entries[e].schema = "trust-proof"
    BY <2>2, <2>3, ExamplesDiffer DEF MapAsWritten
  <2>5. EntryVerdict(repo.entries[e]) = "FAIL"
    BY <1>3, <2>1, <2>2, <2>4 DEF EntryVerdict, RuleBroken, Verdict
  <2> QED BY <2>5
<1>10. CASE z \in {<<"registry", Reasons>>, <<"ATX", "table">>, <<"ATX", "example">>}
  <2>1. z = <<"registry", Reasons>> => CheckVerdict("reasons") = "FAIL"
    BY <1>1, CausesAre DEF CheckVerdict, ReasonsRight
  <2>2. z # <<"registry", Reasons>> => CheckVerdict("atx") = "FAIL"
    BY <1>1, <1>10, CausesAre DEF CheckVerdict, AtxRight
  <2> QED BY <1>4, <2>1, <2>2
<1>11. ASSUME NEW x, z = <<"example", x>>
       PROVE  \/ \E c \in CheckNames : CheckVerdict(c) = "FAIL"
              \/ \E e \in Entry : EntryVerdict(repo.entries[e]) = "FAIL" \/ Crashes(repo.entries[e])
  <2>1. Wrong(x) /\ x \in ReadBySome
    BY <1>11, CausesAre
  <2>2. \A e \in Entry : ~NotFound(repo.entries[e]) /\ repo.atx = "ok"
    <3>1. ASSUME NEW e \in Entry, NotFound(repo.entries[e]) PROVE FALSE
      <4>1. <<"entry", repo.entries[e].example>> \in Causes
        BY <3>1, CausesAre
      <4> QED BY <1>11, <4>1
    <3> QED BY <1>11, <3>1, CausesAre
  <2>3. \A y \in SpecExamples : y # x => ~Wrong(y)
    BY <1>5, <1>6, <1>11
  <2>4. ASSUME Mapped(x), x # "gone",
               ~Accepted(x) \/ (x = KeySet /\ IssuerKeySetErrors(repo.discovery) # {})
        PROVE  \E e \in Entry : EntryVerdict(repo.entries[e]) = "FAIL"
    <3>1. PICK e \in Entry : repo.entries[e].example = x
      BY <1>2, <2>4
    <3>2. repo.entries[e].schema = SchemaOf(x)
      BY <2>4, <3>1 DEF MapAsWritten
    <3>3. Refused(repo.entries[e]) \/ RuleBroken(repo.entries[e])
      BY <2>4, <3>1, <3>2, ExamplesDiffer DEF Refused, RuleBroken, Accepted
    <3>4. repo.entries[e].schema = "atx-vc" => repo.atx = "ok"
      BY <2>2
    <3>5. EntryVerdict(repo.entries[e]) = "FAIL"
      BY <3>3, <3>4 DEF EntryVerdict, Verdict
    <3> QED BY <3>5
  <2>5. CASE x = Sigstore
    <3>1. CASE SigstoreRead
      <4>1. ~SigstoreRight
        BY <2>1, <2>5, ExamplesDiffer DEF Wrong, SigstoreRight
      <4>2. CheckVerdict("cosign") = "FAIL"
        BY <1>1, <3>1, <4>1 DEF CheckVerdict, SigstoreRight
      <4> QED BY <1>4, <4>2
    <3>2. CASE ~SigstoreRead
      <4>1. ~Accepted(Sigstore)
        <5>1. SchemaOf(Sigstore) = "trust-proof"
          BY ExamplesDiffer
        <5> QED BY <3>2, <5>1 DEF SigstoreRead, Accepted, IInv, Coherent
      <4>2. ~Mapped(Sigstore) => CheckVerdict("cosign") = "FAIL"
        BY <1>2, <3>2 DEF CheckVerdict
      <4> QED BY <1>4, <2>4, <2>5, <4>1, <4>2 DEF Sigstore
    <3> QED BY <3>1, <3>2
  <2>6. CASE x = TwoAuthorities
    <3>1. CASE Accepted(x)
      <4>1. ~TwoRight
        BY <2>1, <2>6, <3>1, ExamplesDiffer DEF Wrong, TwoRight
      <4>2. CheckVerdict("level3") = "FAIL"
        BY <1>1, <2>6, <3>1, <4>1 DEF CheckVerdict, TwoRight
      <4> QED BY <1>4, <4>2
    <3>2. CASE ~Accepted(x)
      <4>1. ~Mapped(x) => CheckVerdict("level3") = "FAIL"
        BY <1>2, <2>6, <3>2 DEF CheckVerdict
      <4> QED BY <1>4, <2>4, <2>6, <3>2, <4>1 DEF TwoAuthorities
    <3> QED BY <3>1, <3>2
  <2>7. CASE x = KeySetProof
    <3>1. Accepted(KeySet) /\ IssuerKeySetErrors(repo.discovery) = {} /\ Declares(repo.discovery)
      BY <2>3, <2>7, ExamplesDiffer DEF Wrong
    <3>2. CASE Accepted(x)
      <4>1. KeySetUnread = "none" /\ ~KeySetRight
        BY <2>1, <2>7, <3>1, <3>2, ExamplesDiffer DEF Wrong, KeySetRight, KeySetUnread
      <4>2. CheckVerdict("keyset") = "FAIL"
        BY <1>1, <4>1 DEF CheckVerdict, KeySetRight
      <4> QED BY <1>4, <4>2
    <3>3. CASE ~Accepted(x)
      <4>1. KeySetUnread = x /\ x # "none"
        BY <2>7, <3>3, ExamplesDiffer DEF KeySetUnread
      <4>2. ~Mapped(x) => CheckVerdict("keyset") = "FAIL"
        BY <1>2, <4>1 DEF CheckVerdict
      <4> QED BY <1>4, <2>4, <2>7, <3>3, <4>2 DEF KeySetProof
    <3> QED BY <3>2, <3>3
  <2>8. CASE x = KeySet
    <3>1. Accepted(KeySetProof)
      BY <2>3, <2>8, ExamplesDiffer DEF Wrong
    <3>2. CASE Accepted(x) /\ IssuerKeySetErrors(repo.discovery) = {}
      <4>1. ~Declares(repo.discovery)
        BY <2>1, <2>8, <3>2, ExamplesDiffer DEF Wrong
      <4>2. KeySetUnread = "none"
        BY <2>8, <3>1, <3>2 DEF KeySetUnread
      <4>3. ~KeySetRight
        <5>1. repo.discovery \in DiscoveryType /\ repo.proof \in ProofType
          BY DEF IInv, TypeOK, RepoType
        <5> QED BY <4>1, <5>1, PassedProofHasItsKeys DEF KeySetRight
      <4>4. CheckVerdict("keyset") = "FAIL"
        BY <1>1, <4>2, <4>3 DEF CheckVerdict, KeySetRight
      <4> QED BY <1>4, <4>4
    <3>3. CASE ~(Accepted(x) /\ IssuerKeySetErrors(repo.discovery) = {})
      <4>1. KeySetUnread = x /\ x # "none"
        BY <2>8, <3>1, <3>3, ExamplesDiffer DEF KeySetUnread
      <4>2. ~Mapped(x) => CheckVerdict("keyset") = "FAIL"
        BY <1>2, <4>1 DEF CheckVerdict
      <4> QED BY <1>4, <2>4, <2>8, <3>3, <4>2 DEF KeySet
    <3> QED BY <3>2, <3>3
  <2>9. CASE x \notin SpecExamples
    <3>1. x = VcExample /\ Mapped(x)
      BY <2>1, <2>9, ExamplesDiffer DEF ReadBySome
    <3>2. PICK e \in Entry : repo.entries[e].example = x
      BY <1>2, <3>1
    <3>3. repo.entries[e].schema = "atx-vc"
      BY <3>1, <3>2, ExamplesDiffer DEF MapAsWritten
    <3>4. ~NotFound(repo.entries[e]) /\ repo.atx = "ok"
      BY <2>2
    <3>5. CASE ~Accepted(x)
      BY <2>4, <3>1, <3>5 DEF VcExample
    <3>6. CASE Accepted(x)
      <4>1. repo.vcTable = "no" \/ repo.vcForm = "other"
        BY <2>1, <3>1, <3>6, ExamplesDiffer DEF Wrong
      <4>2. ~Refused(repo.entries[e])
        BY <3>1, <3>2, <3>3, <3>6, ExamplesDiffer DEF Refused, Accepted
      <4>3. Crashes(repo.entries[e]) \/ EntryVerdict(repo.entries[e]) = "FAIL"
        BY <3>3, <3>4, <4>1, <4>2 DEF Crashes, EntryVerdict, RuleBroken, Verdict
      <4> QED BY <4>3
    <3> QED BY <3>5, <3>6
  <2> QED BY <2>5, <2>6, <2>7, <2>8, <2>9, ExamplesDiffer
<1>12. \/ \E c \in repo.broken : z = <<"rule", c>>
       \/ \E x : z = <<"example", x>>
       \/ \E x : z = <<"window", x>>
       \/ \E x : z = <<"entry", x>>
       \/ z \in {<<"registry", Reasons>>, <<"ATX", "table">>, <<"ATX", "example">>}
  BY CausesAre
<1> QED BY <1>7, <1>8, <1>9, <1>10, <1>11, <1>12

LEMMA TaggedAreFinite ==
    ASSUME NEW S, IsFiniteSet(S), NEW k
    PROVE  IsFiniteSet({<<k, x>> : x \in S})
<1> DEFINE f == [x \in S |-> <<k, x>>]
<1>1. f \in Surjection(S, {<<k, x>> : x \in S})
  BY DEF Surjection
<1> QED BY <1>1, FS_Surjection

LEMMA CausesAreFinite ==
    ASSUME TypeOK
    PROVE  IsFiniteSet(Causes)
<1> DEFINE all == \A s \in Schemas : repo.schemas[s] = "missing"
           rules == {<<"rule", c>> : c \in repo.broken}
           examples == {<<"example", x>> : x \in {x \in ReadBySome : Wrong(x)}}
           windows == {<<"window", x>> : x \in {x \in repo.window : Mapped(x)}}
           gone == {<<"entry", repo.entries[e].example>> : e \in {e \in Entry : NotFound(repo.entries[e])}}
           registry == IF file[Reasons] # codes THEN {<<"registry", Reasons>>} ELSE {}
           tables == IF repo.statusTable = "no" THEN {<<"ATX", "table">>} ELSE {}
           atx == IF repo.atx # "ok" THEN {<<"ATX", "example">>} ELSE {}
<1>1. \A x, y, z, u, v : IsFiniteSet({}) /\ IsFiniteSet({x}) /\ IsFiniteSet({x, y})
                          /\ IsFiniteSet({x, y, z, u, v})
  <2>1. \A x : IsFiniteSet({}) /\ IsFiniteSet({x})
    BY FS_Singleton, FS_EmptySet
  <2>2. \A S, T : IsFiniteSet(S) /\ IsFiniteSet(T) => IsFiniteSet(S \cup T)
    BY FS_Union
  <2> SUFFICES ASSUME NEW x, NEW y, NEW z, NEW u, NEW v
               PROVE  IsFiniteSet({x, y}) /\ IsFiniteSet({x, y, z, u, v})
    BY <2>1
  <2>3. IsFiniteSet({x} \cup {y})
    BY <2>1, <2>2
  <2>4. IsFiniteSet({z} \cup {u})
    BY <2>1, <2>2
  <2>5. IsFiniteSet((({x} \cup {y}) \cup ({z} \cup {u})) \cup {v})
    BY <2>1, <2>2, <2>3, <2>4
  <2>6. {x} \cup {y} = {x, y} /\ (({x} \cup {y}) \cup ({z} \cup {u})) \cup {v} = {x, y, z, u, v}
    OBVIOUS
  <2> QED BY <2>3, <2>5, <2>6
<1>2. \A S, T : IsFiniteSet(S) /\ T \subseteq S => IsFiniteSet(T)
  BY FS_Subset
<1>3. \A S, T : IsFiniteSet(S) /\ IsFiniteSet(T) => IsFiniteSet(S \cup T)
  BY FS_Union
<1>4. \A S, k : IsFiniteSet(S) => IsFiniteSet({<<k, x>> : x \in S})
  BY TaggedAreFinite
<1>5. IsFiniteSet(Examples)
  <2>1. Examples = {Sigstore, TwoAuthorities, KeySetProof, KeySet, VcExample}
    BY DEF Examples, SpecExamples
  <2> QED BY <1>1, <2>1
<1>6. IsFiniteSet(rules)
  <2>1. repo.broken \subseteq CheckNames
    BY DEF TypeOK, RepoType
  <2>2. IsFiniteSet(repo.broken)
    BY <1>2, <2>1, TheChecks
  <2> QED BY <1>4, <2>2
<1>7. IsFiniteSet(examples)
  <2>1. {x \in ReadBySome : Wrong(x)} \subseteq Examples
    BY DEF ReadBySome, Examples
  <2>2. IsFiniteSet({x \in ReadBySome : Wrong(x)})
    BY <1>2, <1>5, <2>1
  <2> QED BY <1>4, <2>2
<1>8. IsFiniteSet(windows)
  <2>1. {x \in repo.window : Mapped(x)} \subseteq Examples
    BY DEF TypeOK, RepoType, Examples
  <2>2. IsFiniteSet({x \in repo.window : Mapped(x)})
    BY <1>2, <1>5, <2>1
  <2> QED BY <1>4, <2>2
<1>9. IsFiniteSet(gone)
  <2> DEFINE E == {e \in Entry : NotFound(repo.entries[e])}
             f == [e \in E |-> <<"entry", repo.entries[e].example>>]
  <2>1. IsFiniteSet(E)
    BY <1>2, EntriesAre
  <2>2. f \in Surjection(E, gone)
    BY DEF Surjection
  <2> QED BY <2>1, <2>2, FS_Surjection
<1>10. IsFiniteSet(registry) /\ IsFiniteSet(tables) /\ IsFiniteSet(atx)
  BY <1>1
<1>11. IsFiniteSet(Inputs)
  <2> DEFINE schemas == {<<"schema", s>> : s \in UnusableSchemas}
             documents == {<<"document", d>> : d \in UnusableDocuments}
             map == IF UnusableMap THEN {<<"map", "map">>} ELSE {}
  <2>1. IsFiniteSet(UnusableSchemas)
    <3>1. Schemas = {"discovery", "revocation-list", "trust-proof", "atx-vc", "atx-vc"}
      BY DEF Schemas, SchemasReadByName
    <3>2. IsFiniteSet(Schemas)
      BY <1>1, <3>1
    <3>3. UnusableSchemas \subseteq Schemas
      BY DEF UnusableSchemas, Schemas
    <3> QED BY <1>2, <3>2, <3>3
  <2>2. IsFiniteSet(UnusableDocuments)
    <3>1. UnusableDocuments \subseteq {"README", "SPEC"}
      BY DEF UnusableDocuments
    <3> QED BY <1>1, <1>2, <3>1
  <2>3. IsFiniteSet(schemas) /\ IsFiniteSet(documents)
    BY <1>4, <2>1, <2>2
  <2>4. IsFiniteSet(map)
    BY <1>1
  <2>5. IsFiniteSet((schemas \cup documents) \cup map)
    <3> HIDE DEF schemas, documents, map
    <3> QED BY <1>3, <2>3, <2>4
  <2>6. Inputs = {<<"schema", "none">>} \/ Inputs = (schemas \cup documents) \cup map
    BY DEF Inputs
  <2> QED BY <1>1, <2>5, <2>6
<1>12. IsFiniteSet((((((rules \cup examples) \cup windows) \cup gone) \cup registry) \cup tables) \cup atx)
  <2> HIDE DEF rules, examples, windows, gone, registry, tables, atx
  <2>1. IsFiniteSet(((rules \cup examples) \cup windows) \cup gone)
    BY <1>3, <1>6, <1>7, <1>8, <1>9
  <2> QED BY <1>3, <1>10, <2>1
<1>13. Causes = Inputs
       \/ Causes = (((((rules \cup examples) \cup windows) \cup gone) \cup registry) \cup tables) \cup atx
  BY DEF Causes
<1> QED BY <1>11, <1>12, <1>13

\* For every repository: a commit with nothing wrong passes, or fails at its registries,
\* and one with a single cause has a single line that says so, or is ended by it.
THEOREM OneLinePerCause == Spec => []OneFailurePerCause
<1> DEFINE checks == {c \in CheckNames : checked[c] = "FAIL"}
           entries == {e \in Entry : mapped[e] = "FAIL"}
<1>1. ASSUME IInv
      PROVE  /\ IsFiniteSet(checks) /\ IsFiniteSet(entries)
             /\ \A c \in checks : CheckVerdict(c) = "FAIL"
             /\ \A e \in entries : EntryVerdict(repo.entries[e]) = "FAIL" /\ ~Crashes(repo.entries[e])
             /\ Failures = Cardinality(checks) + Cardinality(entries)
             /\ \A c \in CheckNames : checked[c] # "none" => checked[c] = CheckVerdict(c)
  <2>1. IsFiniteSet(checks) /\ IsFiniteSet(entries)
    BY <1>1, TheChecks, EntriesAre, FS_Subset DEF IInv
  <2>2. \A c \in CheckNames : checked[c] # "none" => checked[c] = CheckVerdict(c)
    BY <1>1 DEF IInv, CheckInv
  <2>3. \A e \in entries : EntryVerdict(repo.entries[e]) = "FAIL" /\ ~Crashes(repo.entries[e])
    BY <1>1 DEF IInv, EntryInv
  <2> QED BY <2>1, <2>2, <2>3 DEF Failures
<1>2. /\ Cardinality({}) = 0 /\ \A x : Cardinality({x}) = 1
      /\ \A S : IsFiniteSet(S) /\ Cardinality(S) = 1 => \E x : S = {x}
  BY FS_EmptySet, FS_Singleton
<1>3. ASSUME IInv, ReportInv, Over, MapAsWritten, Causes = {}, ~Passes
      PROVE  ~CheckPasses
  <2>1. Inputs = {}
    BY <1>3 DEF Causes
  <2>2. ci = "failed" /\ unusable = 0
    BY <1>3, <2>1, InputsCounted DEF Over, Passes, ReportInv
  <2>3. ~crashed
    BY <1>3, <2>1, FailedEntryHasCause DEF ReportInv
  <2>4. checks = {} /\ entries = {}
    BY <1>1, <1>3, <2>1, FailedCheckHasCause, FailedEntryHasCause
  <2>5. ~(Failures > 0)
    BY <1>1, <1>2, <1>3, <2>4
  <2> QED BY <1>3, <2>2, <2>3, <2>5 DEF ReportInv
<1>4. ASSUME IInv, ReportInv, Over, MapAsWritten, ~FailsTwice, NEW z, Causes = {z}
      PROVE  unusable + Failures + (IF crashed THEN 1 ELSE 0) = 1
  <2>1. CASE Inputs # {}
    <3>1. Inputs = {z}
      BY <1>4, <2>1 DEF Causes
    <3>2. unusable = 1
      BY <1>4, <3>1, InputsCounted DEF Over, ReportInv
    <3>3. ~crashed /\ checks = {} /\ entries = {}
      BY <1>4, <3>2 DEF ReportInv
    <3>4. Failures = 0
      BY <1>1, <1>2, <1>4, <3>3
    <3> QED BY <3>2, <3>3, <3>4
  <2>2. CASE Inputs = {} /\ crashed
    <3>1. unusable = 0
      BY <1>4, <2>2 DEF ReportInv
    <3>2. PICK e \in Entry : Crashes(repo.entries[e])
      BY <1>4, <2>2 DEF ReportInv
    <3>3. checks = {} /\ entries = {}
      <4>1. ASSUME NEW c \in checks PROVE FALSE
        BY <1>1, <1>4, <2>2, <3>2, OneReporter
      <4>2. ASSUME NEW f \in entries PROVE FALSE
        <5>1. f = e
          BY <1>1, <1>4, <2>2, <3>2, OneReporter
        <5> QED BY <1>1, <1>4, <3>2, <5>1
      <4> QED BY <4>1, <4>2
    <3>4. Failures = 0
      BY <1>1, <1>2, <1>4, <3>3
    <3> QED BY <2>2, <3>1, <3>4
  <2>3. CASE Inputs = {} /\ ~crashed
    <3>1. unusable = 0
      BY <1>4, <2>3, InputsCounted DEF Over, ReportInv
    <3>2. /\ \A c \in CheckNames : checked[c] = CheckVerdict(c)
          /\ \A e \in Entry : mapped[e] = EntryVerdict(repo.entries[e]) /\ ~Crashes(repo.entries[e])
      <4>1. (\A c \in CheckNames : checked[c] # "none") /\ (\A e \in Entry : mapped[e] # "none")
        BY <1>4, <2>3, <3>1 DEF IInv, OverInv
      <4>2. \A c \in CheckNames : checked[c] = CheckVerdict(c)
        BY <1>1, <1>4, <4>1
      <4>3. \A e \in Entry : mapped[e] = EntryVerdict(repo.entries[e]) /\ ~Crashes(repo.entries[e])
        BY <1>4, <4>1 DEF IInv, EntryInv
      <4> QED BY <4>2, <4>3
    <3>3. CASE \E c \in CheckNames : CheckVerdict(c) = "FAIL"
      <4>1. PICK c \in CheckNames : CheckVerdict(c) = "FAIL"
        BY <3>3
      <4>2. checks = {c}
        BY <1>4, <2>3, <3>2, <4>1, OneReporter
      <4>3. entries = {}
        BY <1>4, <2>3, <3>2, <4>1, CheckOrEntry
      <4>4. Cardinality(checks) = 1 /\ Cardinality(entries) = 0
        BY <1>2, <4>2, <4>3
      <4>5. Failures = 1
        BY <1>1, <1>4, <4>4
      <4> QED BY <2>3, <3>1, <4>5
    <3>4. CASE \A c \in CheckNames : CheckVerdict(c) # "FAIL"
      <4>1. PICK e \in Entry : EntryVerdict(repo.entries[e]) = "FAIL"
        BY <1>4, <2>3, <3>2, <3>4, CauseIsReported
      <4>2. entries = {e}
        BY <1>4, <2>3, <3>2, <4>1, OneReporter
      <4>3. checks = {}
        BY <3>2, <3>4
      <4>4. Cardinality(checks) = 0 /\ Cardinality(entries) = 1
        BY <1>2, <4>2, <4>3
      <4>5. Failures = 1
        BY <1>1, <1>4, <4>4
      <4> QED BY <2>3, <3>1, <4>5
    <3> QED BY <3>3, <3>4
  <2> QED BY <2>1, <2>2, <2>3
<1>5. IInv /\ Cardinality(Causes) = 1 => \E z : Causes = {z}
  BY <1>2, CausesAreFinite DEF IInv
<1>6. IInv /\ ReportInv => OneFailurePerCause
  BY <1>3, <1>4, <1>5 DEF OneFailurePerCause, FailsTwice
<1> QED BY Invariance, ReportInvHolds, <1>6, PTL

=============================================================================
