# TLA+ models of the Agent Trust Protocol's clients and checks

This directory holds TLA+ models of the code in this repository, the TLC
configurations that check them on small instances, and TLAPS proofs of their most
important properties for every instance. `PROJECT.json` lists the components, the runs,
the lines each definition stands for, what can go wrong in the code and which property
watches for it, and the theorems.

    tlc -workers 2 -config MCExchange.cfg MCExchange     # one run
    tlapm ExchangeProofs.tla                             # one module of proofs

## 1. The system

The repository holds a specification (`ATP-SPEC.md`), two client libraries, the checks
of the specification's own examples, and a conformance suite. The clients hold nearly
all of the program logic that runs in production, and the only state that lives longer
than one call. The checks decide whether a commit is published: what they let pass is what
implementers copy.

| Component | State it keeps | Operations | Talks to |
|---|---|---|---|
| Python `_Exchange`, `AtpClient._get` (`clients/python/atp_client/__init__.py:821-924, 1060-1098`) | Event `done`, `outcome`, `_lock`, `_abandoned`, `_socket` | `run`, `attach`, `detach`, `abandon`, `_get` | a worker thread, `http.client`, `urllib`, the authority |
| Python `AtpClient` (`:927-1058`) | `_discovery`, `_received` | `get_discovery`, `_copy_age`, `verify`, `get_trust_proof` | `_get`, two clocks, the verification functions |
| TypeScript `AtpClient` (`clients/typescript/src/index.ts:937-1151`) | `#copy`, `#pending` | `getDiscovery`, `#fetchDiscovery`, `verify`, `getTrustProof`, `#get` | `fetch`, two clocks, the verification functions |
| `verify_trust_proof` and `verifyTrustProof` | none; a loop over the signatures with an accumulator | Section 4.4 steps 1 to 5, and 7 (Python only) | keys and second authorities the caller passes |
| `verify_discovery`, `verify_revocation_list`, `verify_signed_tree_head` | none | member checks in order | |
| `verify_inclusion_proof`, `verify_consistency_proof` | none; loops over a path | RFC 9162 2.1.3.2 and 2.1.4.2 | tree heads |
| Markdown readers (`markdown_lines`, `section_examples`, `section_table`, `readme_units`, `extract_block`; `parse_blocks`, `section_prose`) | an open fence, a section, a block, a paragraph | one pass over the lines of a document each | the checks below |
| `scripts/validate_examples.py` | the verdicts of a run, the examples that some check left to the map | inputs, nineteen checks, the entries of the examples map, key sets | schemas, documents, registries |
| `scripts/gen_registries.py` | files under `registries/` | write, `--check` | `ATP-SPEC.md` |
| `conformance/*.sh` | `DETAIL`, counters, the bodies of earlier answers | the tests of Levels 1 and 2 | curl, jq, an authority |
| `scripts/check_guides.py` | a pool of workers, a directory and a request log for each case | read the guide, run its blocks, compare | subprocesses, stubs of curl, requests and fetch |
| `scripts/check_license.py`, `fixture_authority.py` | none; canned answers | compare two texts; serve examples | |

### What is hard here, and what makes each part correct

*The exchange.* Two threads and a peer. The caller must get its answer or `AtpError` at
the deadline, also from a peer that sends a byte at a time. The worker must not go on
holding a connection after that, whichever way `attach` and `abandon` interleave. The
outcome the caller reads must be final, not the placeholder and not an answer cut short
by its own `abandon`.

*The copy of the discovery document.* Several threads (Python) or calls (TypeScript)
share one copy. Its age is told from two clocks: one stands still while the host sleeps,
the other can be set. Answers carry an `Age` and may arrive out of order. The copy decides
for how long a key the authority removed goes on verifying, so a copy in use must be
fresh, a failed refresh must not fall back on the old copy, and a proof of a key that is
listed must not be rejected. In TypeScript one pending promise is shared, and must be
forgotten exactly when it is over.

*Trust-proof verification.* Sequential, but what counts (the issuer's signature, a second
authority's) is collected inside the loop that verifies, from keys that come from two
sources under identifiers the proof chooses. An accepted proof must have been signed by a
live key of a trusted issuer; one at trust level 3 or 4 must have been signed by someone
else as well; the first failing check names the category; and the canonical string is less
precise than the members.

*Transparency log proofs.* Two loops that shift a position up the levels of a tree whose
size need not be a power of two, by sizes that the proof chooses. Every path that RFC 9162
defines must verify, and no other: a verified leaf is the one at its index, and a verified
consistency proof means that nothing was removed or rewritten. The loops must end, no path
be judged under a head that does not verify, and the two clients agree.

*The checks of the documents.* A line's kind depends on all lines before it, and seven
readers each have a rule of their own for where a code block opens and closes. On a text
as the documents are written they must agree, so that the example that is validated is the
one that the claims are checked against, and no block escapes.

*`validate_examples.py`.* Nineteen checks read overlapping inputs, and a check whose example
cannot be used leaves the failure to the examples map, which reads the example again by
other rules. A run that passes must leave nothing wrong, one cause must be one failure, and
nothing may fall between two checks that each leave it to the other. A key set must need
`threshold` different keys, whatever is listed twice.

*`gen_registries.py`.* Three files are written one after the other from tables that a
maintainer edits in between, and any run may be interrupted. A commit that passes must hold
what the specification's tables say.

*`check_guides.py`.* Blocks are programs of unknown behaviour on a pool of workers; they
hang, leave processes that hold pipes, follow redirects. The check must end, a request that
is not https must fail it, and the errors must come in order and be complete.

*Conformance scripts.* Results of one test are used by the next. Not modelled; see the plan.

## 2. The modules

| Module | What it models |
|---|---|
| `Exchange` | One GET of the Python client: the thread in `_get`, the worker in `_Exchange.run`, the lock, the socket, `http.client`'s use of the connection |
| `Surroundings` | Time, sleep, the wall clock, the authority's document and the removal of a key |
| `DiscoveryCopy` | A copy of the document and its age, as both clients hold it |
| `DiscoveryCache` | The Python client's cache, used by several threads |
| `TsDiscoveryCache` | The TypeScript client's cache and its shared request |
| `KeyRevocation` | Abstract: what Section 8.2 promises about a removed key, whatever the client |
| `TrustProof` | `verify_trust_proof` |
| `TransparencyLog` | The Merkle tree over the entries of a log, its audit paths and consistency paths, as the clients' tests build them |
| `LogProofs` | `verify_signed_tree_head`, `verify_inclusion_proof` and `verify_consistency_proof` of the Python client, loops included |
| `TsLogProofs` | The same of the TypeScript client, as operators |
| `TsTrustProof` | `verifyTrustProof` of the TypeScript client, as operators |
| `MarkdownReaders` | The seven readers of Markdown in `scripts/`, reading one text line by line |
| `GuideChecks` | `check_guides.py`: blocks, cases, the pool, requests, time limits, the exit status |
| `IssuerKeySet` | The rules of an issuer key set, its count, steps 3, 4 and 7 for a proof, and the checks of the two printed proofs, as operators |
| `Registries` | `gen_registries.py` and the maintainer |
| `ValidateExamples` | `validate_examples.py` and `gen_registries.py --check`, as the CI of a commit |
| `MC...` | Instances for TLC |
| `ExchangeProofs`, `DiscoveryCacheProofs`, `TsDiscoveryCacheProofs`, `TrustProofProofs`, `LogProofsProofs`, `GuideChecksProofs`, `ValidateExamplesProofs` | Theorems and proofs |
| `RecursiveFunctions` | That a recursive function whose arguments get smaller has its recursive equation, and induction on their size |

`DiscoveryCache` and `TsDiscoveryCache` extend `DiscoveryCopy`, which extends
`Surroundings`. Both implement `KeyRevocation` (`RemovedKeyStops` is its specification
under the refinement mapping that gives `now`, `removedAt` and `verdict` their own values
and `Bound` the value `MaxAge + Timeout + MaxSleep`). A request is one step of success or
failure in the cache modules; `Exchange` is what such a request is inside.

`GuideChecks` extends `MarkdownReaders`: the guide is read line by line, and the cases run
against the blocks that were found. `ValidateExamples` extends `Registries` and
`IssuerKeySet`: the commit that is checked is one that the maintainer's edits and runs have
left behind. `TrustProof` and `LogProofs` instantiate the TypeScript modules to compare the
answers.

### How state and actions correspond to the code

**Exchange.** `waiter` and `worker` are program counters; `done`, `outcome`, `abandoned`,
`attached` (whether `_socket` is set) and `lock` are the attributes of `_Exchange`.
`attach` and `abandon` are two steps each with the lock held between them, since that is
what the lock is for; `detach` is one. `WaitEnds` is `done.wait(timeout)`: it may find
`done`, or end at the deadline at any moment, or be interrupted. `CheckDone` is the
`finally` block. The answer is abstracted to how many reads of the body returned bytes;
the head has no bound, since a peer may send interim answers for ever, and is a parity.
`PassConnection` is what the standard library does and the code's own comment does not
mention: `getresponse()` calls `close()` of the connection when the head says that the
connection ends with the answer, and the response goes on reading from the same socket.

**DiscoveryCache.** `discovery` and `received` are the attributes. A document is the
moment it was made, with the moment its age was 0 and the sleep and clock offset of then,
which no action reads: they are history for the properties. `KeepCopy` and `Request` are
the two branches of `get_discovery`, `TryLegacyPath` the 404 branch, `Receive` everything
from the reading of the clocks to the store, `Fail` every path that raises, `Return` the
`return self._discovery` and the verification with it.

**TsDiscoveryCache.** The same, with `pending`. A request goes from `waiting` to
`answered` to `stored` or `failed`; `Settle` is the microtask of `finally()`, in which the
pending request is forgotten before the callers resume; `Return` and `Reject` are the
callers' own microtasks. A caller uses the document it was given, not the copy of that
moment.

**TrustProof.** `pc` names the next check, `index` the signature it is at, `issuerSigned`
and `secondSigners` are the accumulators of the second loop. A signature records which raw
key made it and over which canonical tuple; two authorities may publish the same raw key.
`Rounded` and the division by `Second` are `%.6f` and `_canonical_time`.

**LogProofs.** `pc` names the next check or the place in a loop, `at` the tree head. The
loops of `_inclusion_root` and `_consistency_roots` differ in what they fold, one hash or
two, so `hashes` holds either and the loop is written once: `JoinLeft` and `JoinRight` are
its two branches, `Climb` its inner loop, `Overlong` its `return None`, and `Strip` the
loop before it that only a consistency proof has. A hash is what was hashed, so that hashes
are equal exactly when the same tree was hashed. A signature covers `rootHash` only, as
Section 5.6 has it: claims may state any `treeSize` with it. `TransparencyLog` is the reference
that both clients are compared with; in the repository it is the class `Tree` of the tests,
and the model of it uses neither loop: `Root`, `AuditPath` and `ConsistencyPath` are recursive
functions over the sequences of entries. `TsLogProofs` takes the same claims and gives the
category at once, its loops as recursive functions (`Risen`, `Opened`, `Walked`); that the two
clients answer alike is a property of the run.

**TsTrustProof.** The TypeScript client rounds a score by dividing whole numbers
(`sixPlaces`) and cuts an instant by a division that truncates (`canonicalTime`); both are
written as the code has them, and compared with `Rounded` and `\div`.

**MarkdownReaders.** A line is its kind: a heading (the one looked for, or another), a row, a
blank line, a text, a fence with its character, length, indent and what follows it. Each
reader is an action on its own variables, all taken in one step, `ReadLine`. `under`,
`shown`, `sentences` and `plain` are history: the text as `markdown_lines` shows it, and
whether it is one that the readers claim to agree on.

**GuideChecks.** `pc` says where a case is; `StartCase`, `Judge` and `Timeout` are `run_case`
on a worker, `Collect` the loop over the futures, `Finish` the end of the pool and of the
temporary directory. A block may do anything: `Call` and `Follow` are its requests through
the stub that logs them, `Exit` ends it with or without a process left behind, `ChildEnds`
ends that. A process that has closed the pipes of its case ("detached") can go on sending
requests after the case's log has been read; `late` marks those.

**IssuerKeySet** has one operator for each function of the script. A signature names the key
that made it; a hex string with an odd number of digits is a key of no bytes.

**Registries.** `Generate` reads all tables or ends; `Open` empties a file and `Write`
completes it; `Interrupt` ends the program between any two of them.

**ValidateExamples.** `repo` is what each file and example is to the checks that read it.
`ReadInputs` is the pass over schemas, map and documents, `Check` the next check of `main`,
`Prepass` and `ValidateEntry` the examples map, `Finish` the exit status, `CheckRegistries`
the second script. The checks of wording are one verdict each (`broken`). `Causes` is the
reference: what is wrong with a commit, whatever reports it.

## 3. What the runs check

| Run | Module, configuration | Expect | Shows |
|---|---|---|---|
| `exchange` | `MCExchange`, `MCExchange.cfg` | pass | `ResultIsTheWorkers`, `AbandonEndsAttachedRead`, `CallerReturns`, `WorkerEnds` |
| `exchange_abandon_reads` | `MCExchange`, `MCExchangeClosing.cfg` | violation | `AbandonEndsRead` fails for an answer with `Connection: close` |
| `py_cache` | `MCDiscoveryCache`, `MCDiscoveryCache.cfg` | pass | `UsedCopyIsFresh`, `RemovedKeyStops` |
| `key_returns` | `MCDiscoveryCache`, `MCKeyReturns.cfg` | violation | a removed key comes back (`KeyNeverReturns`) |
| `ts_cache` | `MCTsDiscoveryCache`, `MCTsDiscoveryCache.cfg` | pass | the same as `py_cache` for TypeScript |
| `ts_shared_request` | `MCTsDiscoveryCache`, `MCTsSharedRequest.cfg` | pass | `SingleFlight`, `PendingIsUnderWay`, `KeyNeverReturns` |
| `trust_proof` | `MCTrustProof`, `MCTrustProof.cfg` | pass | `IssuerVouches`, `SignedTermsHold`, `SecondAuthorityVouches`, `FirstFailureDecides` |
| `log_proofs` | `MCLogProofs`, `MCLogProofs.cfg` | pass | `HonestProofsVerify`, `AcceptedLeafIsLogged`, `AcceptedHeadsAreOneLog`, `JudgedUnderVouchedHeads`, `ClimbStops`, `ClientsAgree` |
| `guides` | `MCGuideChecks`, `MCGuideChecks.cfg` | pass | `ReadersAgree`, `ExamplesAgree`, `UnitsHoldSentences`, `PlainRequestFails`, `PassMeansChecked`, `ErrorsInOrder`, `CheckEnds` |
| `new_block` | `MCGuideChecks`, `MCNewBlock.cfg` | violation | a block that no case uses lands unchecked (`NoBlockUnchecked`) |
| `examples` | `MCValidateExamples`, `MCValidateExamples.cfg` | pass | `PassMeansSound`, `OneFailurePerCause`, `NothingIsLost`, `SetNeedsItsKeys`, `PassMeansPublished` |
| `multi_authority` | `MCTrustProof`, `MCRevokedCosignature.cfg` | violation | a revoked co-signature key fails a proof (`RevokedCosignatureSpares`) |

Each passing run also checks its module's `TypeOK`, except `ts_shared_request`, whose
module `ts_cache` covers. Every property of a passing run has a mutant in `PROJECT.json`:
a defect of the code, written beside the definition it replaces (`\* Defect: ...`), under
which TLC finds the property violated.

### The four disagreements

1. **`abandon()` and closing connections (a bug).** The class comment of `_Exchange` says
   that `abandon()` "shuts that socket down, which ends a read the worker is blocked in".
   With `Connection: close`, or HTTP/1.0, `getresponse()` closes the connection object, and
   `_HTTPConnection.close` takes the socket back before the body is read. The worker then
   reads on until the socket timeout of one read, which a dripping peer resets for as long
   as it likes. `urllib` sends `Connection: close` with every request, so this is what most
   answers say. The caller is not affected (`CallerReturns`), nor is an exchange before its
   body: after `abandon()` no request is sent and no head or body is begun
   (`AbandonStopsNewReads`, section 4). With CPython 3.11 and a peer that drips a body, a worker whose request has a 0.5-second timeout ends at 0.6 s
   without the header and is still reading after 4 s with it. The test of the deadline
   uses a peer that does not send the header.
2. **A key that returns (documentation).** `clients/README.md` says that a removed key
   "stops verifying once a copy without it arrives". It may verify again: a later answer
   may be as old as `MAX_DISCOVERY_AGE` by its `Age` header and still replaces the copy.
   With two threads this happens without any cache on the way (`Ages = {0}`), when the
   slower thread's answer was made first. What Section 8.2 itself promises, the bound,
   holds. In TypeScript requests do not overlap, so there only a cache can bring a key
   back, and `ts_shared_request` shows that without one none returns.
3. **Multi-authority proofs (specification).** Section 8.2 item 5 says that such proofs
   remain valid while one non-revoked signature exists; the client, following Section 4.4
   step 3, rejects a proof when any of its keys is revoked.
4. **A block no case uses (documentation).** The docstring of `check_guides.py` says that "a
   block no case uses is an error, so a new block cannot land unchecked". `parse_blocks`
   does not see a block whose fence is indented, as in a list item, or has more than one
   word after it, so such a block lands unchecked. `PassMeansChecked` shows that every other
   block does fail the check, and the properties of the readers that they agree otherwise.

### What else the runs found to be so

These are not disagreements with a document; the properties state them as conditions.

- `run_case` catches `LookupError` before its block runs and `TimeoutExpired` while it
  does. Any other exception (a block read as data that is not JSON, an output that is not
  text, a logged URL that does not parse, a block of `expect_json` that is not there) ends
  `check_guides.py`: the errors of later cases are lost, and the exit status is still 1
  (`ErrorsInOrder` speaks of runs without one).
- A process that a block detached can send a plain request after the case was judged; the
  docstring says so, and `PlainRequestFails` excepts it.
- An entry of the examples map that names an example under another schema, which accepts
  it, makes a check skip its comparison with nothing reported. `PassMeansSound` and
  `NothingIsLost` are about maps without such an entry (`MapAsWritten`).
- The 4.3.1 example fails twice when its schema refuses it and its Sigstore entry can be
  probed: as an example and as a co-signature (excepted in `OneFailurePerCause`).
- A Verifiable Credential form without its table raises `SystemExit` inside the loop over
  the map, so later entries are not validated; the run fails.
- `key_set_proof_check` stops at the first of its two examples that is unusable, and
  `atx_status_errors` without the table of Section 4.6 reads nothing else: one run may show one of
  two causes only.

### Bounds, and why they are enough

- `Exchange`: `MaxBody = 2` body reads accepted and a third that is one too many; both
  kinds of connection. The threads' interleaving is complete (2546 states).
- The caches: two threads or callers, 6 moments, the host asleep for at most 2 of them,
  a clock that is right or 2 moments behind, `MaxAge = 2`, `RefreshAfter = 1`,
  `Timeout = 1`. `Ages = {0, 2, 3}` has a fresh answer, one at the limit and one above it;
  `StoredAges = {1}` a stored copy at the edge of `refresh_after`. A copy can be fetched,
  expire, be fetched again at the limit, and outlive the removal of the key by the whole
  bound; so 6 moments hold every combination of removal, sleep and setback, and mutants
  that move any limit are found. `ts_shared_request` uses three callers, so that one can
  join and one arrive later, and `Ages = {0}`, since with older answers the property
  does not hold (finding 2). TLC's symmetry is used for threads and callers, with safety
  properties only.
- `TrustProof`: eleven member sets, each of which fails one check or none, at trust levels
  with and without step 7; up to two signatures out of nine; up to two keys; a second
  authority with no, one or two keys, in use, revoked, or shared. Second = 2 ticks and a
  millionth = 2 units, so that rounding to even and both sides of a second occur; the
  clock stands at 4, which the expiries lie at and on both sides of. The function returns, so
  these runs do not check deadlock.
- `LogProofs`: every entry of every tree of up to 6 entries, and every two such trees.
  Trees of 5 and 6 entries are where the inner loop runs more than once, where a last node
  is carried up without a sibling, and where the first tree ends in the middle of the
  second. Each path comes as it is, one hash shorter or longer, and with each hash replaced
  by another of the path or by a foreign one; each leaf as another leaf and as the node
  above it; under its index and every other, one below 0 and one too large included; and
  under its tree's size and the two next to it. Consistency proofs lie between logs that
  differ in any one entry, with the paths of any of these logs. Tree heads are signed by
  another key, by one that does not resolve, or over another root.
  The members include an instant before 1970, which the two clients cut by different
  arithmetic.
- `guides`: texts of up to 6 lines of 17 kinds (fences of both characters, of three and four
  marks, indented, with nothing, one word, more or a backtick after them). Two blocks of two
  lines each fit, or a heading, a block and a fence inside it; where two readers part they do so within
  four lines. Three cases on two workers, so that one waits, with one call each besides those
  that follow a redirect (`MaxCalls = 1`): one case may leave processes, one reads a block
  as data, one compares with a block's text. The readers' variables are reset when the text
  has been read, which keeps the two halves from multiplying (2,120,722 states). A check may end
  at any point, so deadlock is not checked.
- `examples`: a repository that is good, with every one and every two of some ninety
  defects in its schemas, map, documents, examples, key sets and proofs; the properties
  relate two checks at most. A good one also goes through up to three edits, runs and
  interruptions by the maintainer (`MaxEdits = 3`) over two registries, one of which the
  revocation schema repeats, with two versions of each table: an edit, a run that is
  interrupted and an edit by hand. `MCInit` is `Init` for these repositories.
- In `MCExchange` both threads end: `Finished` lets the finished state stutter, and
  deadlock is checked otherwise.

### Fairness

Safety properties assume none. `CallFairness` says that the two threads are scheduled and
that `done.wait(timeout)` ends at its deadline; under it alone `CallerReturns` holds,
whatever the network does. `NetworkFairness` says that each connect and each read ends,
which is the socket timeout `urllib` sets; it is only a hypothesis of `WorkerEnds`, and
does not say that a peer ever finishes: `ReadHead` may repeat for ever while the socket
is open, and only `abandon()` ends it.

`CheckEnds` assumes that the check's own code runs on: the reader comes to an end
(`Begin`), the pool starts and judges cases, results are read, and the time limit of
`communicate` passes (weak fairness of `Begin`, `StartCase`, `Judge`, `Timeout`, `Collect`
and `Finish`). Nothing is assumed of a block: it may hang, and its processes may live for
ever.

## 4. What is proved

TLAPS checks these for every value of the constants that meets the named assumptions. Every
safety property and action property of section 3's passing runs is stated by a theorem.

**`ExchangeProofs`** (assumption: `MaxBody` is a natural number, `Closing` a set of
Booleans). `TypeCorrect` is inductive by itself. The other three follow from `IInv`, which
says who holds the lock at which program counter, that the flag is set exactly once
`abandon` has set it, what the worker has reached once `done` is set, and where a socket
that is open is attached. The lock part is what makes the race of `attach` and `abandon`
come out right: the worker stores its socket only while it holds the lock with
`~abandoned`, so an abandoning waiter either finds the socket or leaves a flag that the
worker will find. `AbandonStopsNewReads` is about steps, and bounds finding 1 with no
assumption on what answers say: once `abandon` has returned, nothing is sent over a
live connection and no head or body is begun to be read from one; a worker can only go on
with a body whose connection `getresponse()` had passed on before.

**`DiscoveryCacheProofs`** (assumption: the clock parameters are natural numbers and
`RefreshAfter` is at most `MaxAge`). `IInv` says that `received` is the stamp of `discovery`; that a copy's age was reckoned
from at most `Timeout`, and the time the host slept, after its document was made; that a
request under way is within `Timeout` on the monotonic clock and its answer was sent after
it began; and that a thread that returns sees a copy that is fresh enough *whichever
thread stored it*: `KeepCopy` establishes that by its test, `Receive` by the maximum age,
and time does not pass in between. From it follow
`UsedCopiesAreFresh` and `RemovedKeysStop`, that every step of the client is a step of
`KeyRevocation` or a stutter.

**`TrustProofProofs`** (assumption: `TrustProofAssumption`, the types of the constants).
`IInv` says of each program counter which checks have been passed, and of the
accumulators that `issuerSigned = "yes"` only if some signature before `index` verified
with a key of the issuer, and that each second signer has such a signature too.
`AcceptedIsSigned` and `ElevationNeedsTwo` are its consequences at `done`; the second also
uses that a second authority that shares a key is not counted, whatever that key's status.

**`LogProofsProofs`** (assumption: `LogProofsAssumption`, the types of the constants; hashes
are symbolic, see section 5). Trees of every size, paths of every length.

- *The checks.* `IInv` says which comparisons each check relies on (a consistency proof reaches
  the loops only with `1 <= fromSize < toSize`, an inclusion proof only with
  `logIndex < treeSize`), which tree heads are verified, and `fn <= sn` in the loops.
  `HeadsComeFirst` is the order of the checks. `InnerLoopEnds` holds because a right child or
  last node that is not the root has `fn > 0`, and halving an even positive number leaves a
  positive one: so the code's second test of the inner loop, `fn != 0`, never decides.
- *The tree.* RFC 9162 splits a tree from the top, the loops go up from the bottom. The lemmas
  in between give a tree of `n` entries a level for each power of two `w`: a node for each
  multiple of `w` below `n`, over the `w` entries from there on or over those that are left.
  `LevelUp` is one halving of the position; `AuditUp` and `LinkUp` say what one level adds to an
  audit path and to a consistency path.
- *The loops.* `FInv` relates a claim that is being folded to **every** log of its size at once:
  the second hash is that of the log's node at position `fn` of the level `w`, exactly if what
  was folded so far is the leaf and the path that lead there in that log. Left to right this is
  soundness and right to left completeness, so `HonestVerify`, `VerifiedLeafIsLogged` and
  `VerifiedHeadsAreOneLog` are its consequences at the end of the loops. A claim may also
  state a size that its signed root does not have; `LeafInv` keeps for it that the leaf is found
  as deep below the result as nodes were folded. `RootFixesEntries` is the fact about
  the tree itself: equally long logs with one root are equal.
- *The two clients.* `AgreeInv` says where the loops of the TypeScript client, as `TsLogProofs` has
  them, are at each place of the Python client's;
  `BothClientsAgree` is then that both end with the same category.

Induction over data is done here with sets: `RecursiveFunctions` proves, from a least number
that fails, that a recursive function whose arguments get smaller has its recursive equation,
and is instantiated for each of `Power`, `Root`, `AuditPath`, `ConsistencyPath`, `Risen` and
`Opened`. The loops' own induction is that of the invariant.

**`TrustProofProofs`, which check decides.** `JudgedInv` follows the loops: every signature
before `index` has verified, and none of them counted while `issuerSigned = "no"`. With it
`ReasonInv` says of each outcome what the inputs are like: each category but one means that
its check is the first that fails, and `SIGNATURE_INVALID` that a signature fails or that step
7 decided. The outcomes exclude one another, which gives `FirstFailureNames`; `TsMeans` shows
that the TypeScript client computes the same at once, because `OneCanonicalString` holds: its
integer rounding and its truncating division agree with `%.6f` and floor for every score and
instant. `AcceptedTermsAreSigned` follows from the arithmetic of both.

**`TsDiscoveryCacheProofs`** (assumption: the clock parameters as above, and that no caller and
no copy is the placeholder). `IInv` says that the only request under way is the pending one and that whoever waits waits
for it; that a document, stored or handed to a caller, took at most `Timeout` and the host's
sleep; that a request is within its deadline and its answer was sent after it began; and that
a copy that was just stored is within `MaxAge` until its callers have resumed. `OneRequest` and
`PendingRequestsEnd` say that sharing works; `UsedCopiesAreFresh` and `RemovedKeysStop` are
those of the Python client. `KeysStayRemoved` holds when no answer comes out of a cache
(`Ages \subseteq {0}`): since requests do not overlap, an answer is then made after the one that it
replaces. Finding 2 is the same claim where that condition or the single flight is missing.

**`GuideChecksProofs`, the readers** (assumption: `LinesAssumption`, the types of the lines). The
invariant says how each reader's fence is related to that of `markdown_lines` while the text is
plain, and for `section_examples` and `extract_block` that they are in the same block at the
same place. `NoSentenceIsLost` needs no plain text: `info` is set exactly while a fence is open.

**`GuideChecksProofs`, the cases** (assumption: `JobsAssumption`, the types of the cases). The case part of the
invariant says what holds of a case by its place: one that passed ended as expected, and every
plain request in its log was there when it was judged or is in `late`. The order part says that
`errors` lists, in order, the failed cases among the first `collected`. `ReadersAgree` is a part of
it: `PassesAreChecked` needs that a plain guide's blocks are those found.

**`ValidateExamplesProofs`** (assumptions: `KeysAssumption` with finitely many keys, and
`RegistriesAssumption`). The invariant says that each check and entry before `next` has the
verdict that its definition gives, that the inputs are usable once the checks run, and that an
entry with a verdict raised nothing. `PassesAreSound` then goes from "every verdict is OK or SKIP" to "`Causes` is
empty": a skipped check's example is in the map, and the entry's verdict would be a failure.
`KeySetsNeedTheirKeys` is a counting argument: without the same key twice the keyIds of a set
map to different keys, so fewer than `threshold` stolen keys serve fewer keyIds.

`OneLinePerCause` needs more of the end of a run, which `ReportInv` adds: `unusable` is the count
of the inputs' causes (`Counted`), a run that ends at its inputs has no verdict, and one that
`SystemExit` ends has those of all checks and an entry that raises. The rest is about one state.
`CausesOfCheck` and `CausesOfEntry` name what a line may fail of. A line that fails has such a
cause (`FailedCheckHasCause`, `FailedEntryHasCause`); no two checks and no two entries share one
(`OneReporter`); a check and an entry that share an example do not both fail of it, since the check
is then skipped (`CheckOrEntry`); and a cause that is the only one is reported by some line
(`CauseIsReported`).

Model-checked only: the liveness properties (`CallerReturns`, `WorkerEnds`, `CheckEnds`), since
TLAPS proves nothing under fairness.

## 5. What the models leave out

- Bytes, JSON, TLS, DNS, redirects, proxies: an answer arrives or the request fails.
- A verification reads the clocks and uses the copy in one moment. The host could sleep
  between the two; no test of an age excludes that.
- `Age` headers are honest. A cache that lies about them is outside what a client can tell.
- `self._discovery, self._received = ...` is one step, which holds under CPython's global
  interpreter lock; on a free-threaded build a thread could see one without the other.
- `verify_discovery` accepts every document the authority makes.
- Signatures are unforgeable and symbolic; DIDs, verdicts and agents are opaque.
- SHA-256 has no collisions, and numbers are exact: above 2^53 the TypeScript client
  reads a neighbour of the size or index that the proof states.
- A tree head that states another size than its tree's verifies, since its signature
  does not cover the size; `AcceptedLeafIsLogged` says what is left of an inclusion proof
  then, and `AcceptedHeadsAreOneLog` assumes the right sizes.
- The checks of prose, of a schema against probes, of the fixtures and of the federation and
  card documents are one verdict each in `ValidateExamples`: their properties are about wording
  or data.
- In `MarkdownReaders`, hashes without a space, setext headings and HTML blocks, of which the
  readers know nothing, are texts.
- What a block prints and what the stub answers: a case ends as it expects, or otherwise.
- Ed25519 in `IssuerKeySet` is symbolic; an instant that the schema lets through and
  `canonical_string` does not read (formats are annotations) is one value, "other".

### Not modelled

- `verify_discovery` and `verify_revocation_list` of both clients: sequences of member checks
  without state, whose order no caller can tell beyond the first category; planned.
- `get_trust_proof` and the TypeScript `#get`: they keep no state; `Exchange` is the Python GET.
- `conformance/*.sh`, `checks.jq`: shell and jq over an authority's answers; planned.
- `check_license.py`: two texts are compared. `fixture_authority.py`: a server of fixed answers.
- Schemas, registries, fixtures and examples are data; federation and the trust authority are
  specified here and implemented elsewhere.

## 6. Plan

Done: `Exchange`, the caches and `KeyRevocation`, `TrustProof` and `TsTrustProof`, `LogProofs`,
`MarkdownReaders`, `GuideChecks`, `IssuerKeySet`, `Registries`, `ValidateExamples`, and what
section 4 lists as proved. Next, most important first:

1. `Conformance`: `level1.sh` and `level2.sh` with `fetch`, `check`, `DETAIL` and the exit
   status; that a test passes only on a body of its own request, and that the status counts
   the failures.
2. `DiscoveryDocument` and `RevocationList`: the member checks in order, with the cache's
   `verify` refined to call them.
3. `DiscoveryCache` with the two stores as separate steps, for free-threaded builds.
4. Proofs for these modules as they are written: the refinement of the cache with separate
   stores, and that a failing test is counted.
