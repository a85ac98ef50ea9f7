--------------------------- MODULE ValidateExamples ---------------------------
(***************************************************************************)
(* The CI of a commit: validate_examples.py, check by check, and then      *)
(* gen_registries.py --check.  The commit is made by Registries' edits of  *)
(* the tables and files, and by the rest of the repository, a record of    *)
(* what each file and example is to the checks that read it.               *)
(*                                                                         *)
(* The checks of wording, of a schema against probes, and the like are one *)
(* step each: "broken" names those whose rule does not hold.               *)
(***************************************************************************)
EXTENDS Registries, IssuerKeySet

\* The examples of ATP-SPEC.md that a check reads, by section, and the example file
\* of the Verifiable Credential form.
Sigstore == "4.3.1"
TwoAuthorities == "4.4.1"
KeySetProof == "4.4.2"
KeySet == "7.1.1"
VcExample == "atx-vc-example.json"
SpecExamples == {Sigstore, TwoAuthorities, KeySetProof, KeySet}
Examples == SpecExamples \cup {VcExample}

SchemasReadByName == {"discovery", "revocation-list", "trust-proof"}
Schemas == SchemasReadByName \cup {"atx-vc"}

\* The schema that an example is for.
SchemaOf(example) ==
    IF example = VcExample THEN "atx-vc" ELSE IF example = KeySet THEN "discovery" ELSE "trust-proof"

\* The checks of main(), in order, before those of the examples map.
Checks == <<"reasons", "index", "cosign", "level3", "keyset", "timestamp", "threats", "transport",
            "compare", "discovery", "signing", "atx", "fixtures", "reference", "claims", "version",
            "federation README", "federation SPEC", "card">>
CheckNames == {Checks[i] : i \in DOMAIN Checks}

\* An entry of the examples map; "gone" is a heading in a file that is not there.
EntryType == [example : Examples \cup {"gone"}, schema : Schemas]

\* sigstore: the entry of the 4.3.1 example: not a list of signatures, none that is
\* Sigstore, one without the members that the probes edit, or one with them.
RepoType ==
    [schemas : [Schemas -> {"ok", "broken", "missing"}],
     map : {"ok", "missing", "not JSON", "not entries"}, entries : Seq(EntryType),
     documents : [{"README", "SPEC"} -> {"ok", "missing", "not UTF-8"}],
     text : [Examples -> {"none", "not JSON", "json"}],
     accepted : [Examples -> SUBSET Schemas],
     window : SUBSET (SpecExamples \ {KeySet}), broken : SUBSET (CheckNames \ {"keyset"}),
     sigstore : {"no list", "no entry", "bare", "full"},
     two : ProofType, twoKeys : [KeyIds -> Keys \cup {NoKey}],
     proof : ProofType, discovery : DiscoveryType,
     atx : {"ok", "missing", "not UTF-8", "not JSON", "not object"},
     statusTable : {"yes", "no"}, vcTable : {"yes", "no"}, vcForm : {"as the table", "other"}]

\* The trust-proof schema asks for a list of signatures.
Coherent(r) == r.sigstore = "no list" => "trust-proof" \notin r.accepted[Sigstore]

VARIABLES
    repo,           \* the rest of the repository
    ci,             \* "editing" until the commit, "reading" the inputs, "checking", "mapped"
                    \* when the entries are next, "registries" for --check, "passed", "failed"
    next,           \* the number of the next check, or of the next entry
    checked,        \* the verdict of each check: OK, FAIL or SKIP
    mapped,         \* and of each entry of the map
    unusable,       \* the inputs that cannot be used
    crashed         \* SystemExit, raised inside a check

ciVars == <<repo, ci, next, checked, mapped, unusable, crashed>>
vars == <<registryVars, ciVars>>

Entry == 1..Len(repo.entries)
Verdicts == {"none", "OK", "FAIL", "SKIP"}

TypeOK ==
    /\ RegistriesTypeOK /\ repo \in RepoType
    /\ ci \in {"editing", "reading", "checking", "mapped", "registries", "passed", "failed"}
    /\ next \in 1..(Len(Checks) + Len(repo.entries) + 1)
    /\ checked \in [CheckNames -> Verdicts] /\ mapped \in [Entry -> Verdicts]
    /\ unusable \in 0..(Cardinality(Schemas) + 3) /\ crashed \in BOOLEAN

Init ==
    /\ RegistriesInit /\ repo \in RepoType /\ Coherent(repo) /\ ci = "editing" /\ next = 1
    /\ checked = [c \in CheckNames |-> "none"] /\ mapped = [e \in Entry |-> "none"]
    /\ unusable = 0 /\ crashed = FALSE

Edit == ci = "editing" /\ RegistriesNext /\ UNCHANGED ciVars

Commit ==
    /\ ci = "editing" /\ ci' = "reading"
    /\ UNCHANGED <<registryVars, repo, next, checked, mapped, unusable, crashed>>

-----------------------------------------------------------------------------
(* The inputs.                                                             *)

\* A listed schema that is not one, and a missing one that is read by name.
UnusableSchemas ==
    {s \in Schemas : repo.schemas[s] = "broken"}
        \cup {s \in SchemasReadByName : repo.schemas[s] = "missing"}

UnusableMap == repo.map # "ok" \/ repo.entries = <<>>
UnusableDocuments == {d \in {"README", "SPEC"} : repo.documents[d] # "ok"}

\* One line for each, and one when there is no schema at all; without any, the checks run.
ReadInputs ==
    /\ ci = "reading"
    /\ unusable' = IF \A s \in Schemas : repo.schemas[s] = "missing" THEN 1
                   ELSE Cardinality(UnusableSchemas) + (IF UnusableMap THEN 1 ELSE 0)
                        + Cardinality(UnusableDocuments)
    /\ ci' = IF unusable' > 0 THEN "failed" ELSE "checking"
    /\ UNCHANGED <<registryVars, repo, next, checked, mapped, crashed>>

-----------------------------------------------------------------------------
(* The checks.                                                             *)

\* spec_example(): the example is there and its schema accepts it.
Accepted(example) ==
    repo.text[example] = "json" /\ SchemaOf(example) \in repo.accepted[example]

\* Defect: an example is taken to be in the map when any is.
MappedAny(example) == repo.entries # <<>>

\* The examples map has an entry for the example.
Mapped(example) == \E e \in Entry : repo.entries[e].example = example

\* A check that cannot read its example leaves it to the map, when that lists it.
Unread(example) == IF Mapped(example) THEN "SKIP" ELSE "FAIL"
Verdict(right) == IF right THEN "OK" ELSE "FAIL"

\* revocation_reason_errors: the schema's codes are those of the registry file.
ReasonsRight == "reasons" \notin repo.broken /\ file[Reasons] = codes

\* sigstore_cosignature_errors.
SigstoreRead ==
    /\ repo.text[Sigstore] = "json" /\ repo.sigstore # "no list"
    /\ repo.sigstore = "bare" => Accepted(Sigstore)
SigstoreRight ==
    repo.sigstore = "full" /\ Accepted(Sigstore) /\ "cosign" \notin repo.broken

\* two_authority_check; "broken" stands for a table of keys that cannot be read.
TwoKeys == [k \in {k \in KeyIds : repo.twoKeys[k] # NoKey} |-> repo.twoKeys[k]]
TwoRight == "level3" \notin repo.broken /\ TwoAuthorityCheck(repo.two, TwoKeys) = {}

\* Defect: the heading of the other example is taken for it.
KeySetUnreadOther ==
    IF ~Accepted(KeySetProof) THEN KeySet
    ELSE IF ~Accepted(KeySet) \/ IssuerKeySetErrors(repo.discovery) # {} THEN KeySetProof
    ELSE "none"

\* key_set_proof_check: the first of its two examples that cannot be used.
KeySetUnread ==
    IF ~Accepted(KeySetProof) THEN KeySetProof
    ELSE IF ~Accepted(KeySet) \/ IssuerKeySetErrors(repo.discovery) # {} THEN KeySet
    ELSE "none"
KeySetRight == KeySetProofCheck(repo.proof, repo.discovery) = {}

\* atx_status_errors: without the table of Section 4.6 nothing else is looked at.
AtxRight == repo.statusTable = "yes" /\ repo.atx = "ok" /\ "atx" \notin repo.broken

CheckVerdict(c) ==
    CASE c = "reasons" -> Verdict(ReasonsRight)
      [] c = "cosign" -> IF SigstoreRead THEN Verdict(SigstoreRight) ELSE Unread(Sigstore)
      [] c = "level3" -> IF Accepted(TwoAuthorities) THEN Verdict(TwoRight) ELSE Unread(TwoAuthorities)
      [] c = "keyset" -> IF KeySetUnread = "none" THEN Verdict(KeySetRight) ELSE Unread(KeySetUnread)
      [] c = "atx" -> Verdict(AtxRight)
      [] OTHER -> Verdict(c \notin repo.broken)

Check ==
    /\ ci = "checking"
    /\ checked' = [checked EXCEPT ![Checks[next]] = CheckVerdict(Checks[next])]
    /\ next' = IF next = Len(Checks) THEN 1 ELSE next + 1
    /\ ci' = IF next = Len(Checks) THEN "mapped" ELSE ci
    /\ UNCHANGED <<registryVars, repo, mapped, unusable, crashed>>

-----------------------------------------------------------------------------
(* The entries of the map.                                                 *)

\* Its schema, or the file of its heading, is not there.
NotFound(e) == repo.schemas[e.schema] # "ok" \/ e.example = "gone"

\* The example cannot be read, or its schema refuses it.
Refused(e) == repo.text[e.example] # "json" \/ e.schema \notin repo.accepted[e.example]

\* SEMANTIC_CHECKS: the window of a trust proof, the rules of an issuer key set, and
\* the Verifiable Credential form.
RuleBroken(e) ==
    CASE e.schema = "trust-proof" -> e.example \in repo.window
      [] e.schema = "discovery" -> e.example = KeySet /\ IssuerKeySetErrors(repo.discovery) # {}
      [] e.schema = "atx-vc" -> repo.vcForm = "other"
      [] OTHER -> FALSE

\* Defect: an ATX example that cannot be read is a failure here, too.
EntryVerdictTwice(e) ==
    IF NotFound(e) \/ Refused(e) THEN "FAIL"
    ELSE Verdict(~RuleBroken(e) /\ (e.schema = "atx-vc" => repo.atx = "ok"))

EntryVerdict(e) ==
    IF NotFound(e) \/ Refused(e) THEN "FAIL"
    ELSE IF e.schema = "atx-vc" /\ repo.atx # "ok" THEN "SKIP"
    ELSE Verdict(~RuleBroken(e))

\* The entries that name what is not there, before all others.
Prepass ==
    /\ ci = "mapped" /\ next = 1 /\ \A e \in Entry : mapped[e] = "none"
    /\ \E e \in Entry : NotFound(repo.entries[e])
    /\ mapped' = [e \in Entry |-> IF NotFound(repo.entries[e]) THEN "FAIL" ELSE "none"]
    /\ UNCHANGED <<registryVars, repo, ci, next, checked, unusable, crashed>>

\* A form without its table ends the program.
Crashes(e) ==
    /\ ~NotFound(e) /\ ~Refused(e)
    /\ e.schema = "atx-vc" /\ repo.atx = "ok" /\ repo.vcTable = "no"

ValidateEntry ==
    /\ ci = "mapped" /\ next \in Entry
    /\ \E e \in Entry : NotFound(repo.entries[e]) => \E f \in Entry : mapped[f] # "none"
    /\ LET e == repo.entries[next]
       IN  IF Crashes(e)
           THEN crashed' = TRUE /\ ci' = "failed" /\ UNCHANGED <<mapped, next>>
           ELSE /\ mapped' = [mapped EXCEPT ![next] = EntryVerdict(e)]
                /\ next' = next + 1
                /\ UNCHANGED <<crashed, ci>>
    /\ UNCHANGED <<registryVars, repo, checked, unusable>>

-----------------------------------------------------------------------------
(* The end of each script.                                                 *)

Failures == Cardinality({c \in CheckNames : checked[c] = "FAIL"})
                + Cardinality({e \in Entry : mapped[e] = "FAIL"})

Finish ==
    /\ ci = "mapped" /\ next > Len(repo.entries)
    /\ ci' = IF Failures > 0 THEN "failed" ELSE "registries"
    /\ UNCHANGED <<registryVars, repo, next, checked, mapped, unusable, crashed>>

CheckRegistries ==
    /\ ci = "registries" /\ ci' = IF CheckPasses THEN "passed" ELSE "failed"
    /\ UNCHANGED <<registryVars, repo, next, checked, mapped, unusable, crashed>>

Next ==
    \/ Edit \/ Commit
    \/ ReadInputs \/ Check \/ Prepass \/ ValidateEntry \/ Finish \/ CheckRegistries

Spec == Init /\ [][Next]_vars

-----------------------------------------------------------------------------
(* What is wrong with a commit, whatever reports it.                       *)

Inputs ==
    IF \A s \in Schemas : repo.schemas[s] = "missing" THEN {<<"schema", "none">>}
    ELSE {<<"schema", s>> : s \in UnusableSchemas} \cup {<<"document", d>> : d \in UnusableDocuments}
         \cup (IF UnusableMap THEN {<<"map", "map">>} ELSE {})

Wrong(example) ==
    \/ ~Accepted(example)
    \/ example = Sigstore /\ repo.sigstore # "full"
    \/ example = TwoAuthorities /\ TwoAuthorityCheck(repo.two, TwoKeys) # {}
    \/ example = KeySet /\ (IssuerKeySetErrors(repo.discovery) # {} \/ ~Declares(repo.discovery))
    \/ example = KeySetProof /\ Declares(repo.discovery)
       /\ IssuerKeySetErrors(repo.discovery) = {} /\ KeySetProofCheck(repo.proof, repo.discovery) # {}
    \/ example = VcExample /\ (repo.vcTable = "no" \/ repo.vcForm = "other")

ReadBySome == SpecExamples \cup {x \in Examples : Mapped(x)}

Causes ==
    IF Inputs # {} THEN Inputs
    ELSE {<<"rule", c>> : c \in repo.broken}
         \cup {<<"example", x>> : x \in {x \in ReadBySome : Wrong(x)}}
         \cup {<<"window", x>> : x \in {x \in repo.window : Mapped(x)}}
         \cup {<<"entry", repo.entries[e].example>> : e \in {e \in Entry : NotFound(repo.entries[e])}}
         \cup (IF file[Reasons] # codes THEN {<<"registry", Reasons>>} ELSE {})
         \cup (IF repo.statusTable = "no" THEN {<<"ATX", "table">>} ELSE {})
         \cup (IF repo.atx # "ok" THEN {<<"ATX", "example">>} ELSE {})

\* The map lists no example twice, and each for the schema that is its own.
MapAsWritten ==
    \A e \in Entry :
        /\ \A f \in Entry : repo.entries[e].example = repo.entries[f].example => e = f
        /\ repo.entries[e].example # "gone" => repo.entries[e].schema = SchemaOf(repo.entries[e].example)

Over == ci \in {"registries", "passed", "failed"}
Passes == ci \in {"registries", "passed"}

\* The failure of an example that another comparison is skipped for.
ReportedInMap(example) ==
    \E e \in Entry : repo.entries[e].example = example /\ mapped[e] = "FAIL"

-----------------------------------------------------------------------------

\* validate_examples.py:173: a run that passes leaves nothing wrong, neither in an input nor
\* in an example, also when the check that would compare it was skipped, as long as the
\* map names each example's own schema.
PassMeansSound == Passes /\ MapAsWritten => Causes = {}

\* validate_examples.py:125-128, 137-141, 231-234: one cause is one failure, and nothing else fails
\* of it.  The 4.3.1 example that its schema refuses is the exception: when its Sigstore
\* entry can be probed it fails twice, as an example and as a co-signature.
OneFailurePerCause ==
    Over /\ MapAsWritten /\ ~(SigstoreRead /\ Mapped(Sigstore) /\ ~Accepted(Sigstore)) =>
        /\ Causes = {} => Passes \/ ~CheckPasses
        /\ Cardinality(Causes) = 1 => unusable + Failures + (IF crashed THEN 1 ELSE 0) = 1

\* Once the inputs can be read and nothing raises SystemExit, every check and every entry
\* has its verdict, and each that is skipped has its reason reported by another line.
NothingIsLost ==
    Over /\ MapAsWritten /\ unusable = 0 /\ ~crashed =>
        /\ \A c \in CheckNames : checked[c] # "none"
        /\ \A e \in Entry : mapped[e] # "none"
        /\ checked["cosign"] = "SKIP" => ReportedInMap(Sigstore)
        /\ checked["level3"] = "SKIP" => ReportedInMap(TwoAuthorities)
        /\ checked["keyset"] = "SKIP" => ReportedInMap(KeySetProof) \/ ReportedInMap(KeySet)
        /\ (\E e \in Entry : mapped[e] = "SKIP") => checked["atx"] = "FAIL"

\* ATP-SPEC.md 7.1.1, of a key set and proof that the key set check passes: exactly
\* threshold different keys signed it for the set, and no fewer than threshold keys can
\* make entries, under the document's keyIds, that meet it.
SetNeedsItsKeys ==
    checked["keyset"] = "OK" =>
        LET d == repo.discovery
            setKeys == {d.keyIds[i] : i \in DOMAIN d.keyIds}
        IN  /\ Cardinality({e.by : e \in {e \in EntriesOf(repo.proof) : e.keyId \in setKeys}}) = d.threshold
            /\ \A stolen \in SUBSET Keys :
                 Cardinality(stolen) < d.threshold =>
                    Cardinality({k \in setKeys : DiscoveryKeys(d)[k] \in stolen \ {NoKey}}) < d.threshold

\* A commit that passes lists in its schema the reasons of the specification's table, and
\* its registry files are those that gen_registries.py makes from it, however the edits
\* and interrupted runs of the maintainer fell.
PassMeansPublished ==
    ci = "passed" => table[Reasons] = codes /\ \A r \in Registry : file[r] = table[r]

=============================================================================
