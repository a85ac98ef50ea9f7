----------------------------- MODULE GuideChecks -----------------------------
(***************************************************************************)
(* check_guides.py: a guide's blocks are read (MarkdownReaders), the cases *)
(* that name them run on the workers of a pool, and every request a block  *)
(* sends is logged and answered by the stub authority.                     *)
(*                                                                         *)
(* A block is a program that nothing is known of: it sends requests, to    *)
(* https or plain http URLs, through the stub of its language, leaves      *)
(* processes behind, exits or hangs.  A process that it leaves holds the   *)
(* pipes of the case's output ("attached") or has closed them              *)
(* ("detached"); one whose case timed out is an "orphan".                  *)
(***************************************************************************)
EXTENDS MarkdownReaders, FiniteSets

CONSTANTS
    Jobs,           \* the cases, in order
    Workers,        \* max_workers
    MaxCalls        \* bound: the requests of a block, those that follow a redirect aside

NoRef == <<"none", -1>>
Refs == Headings \X Nat

\* A case: the block it runs, the blocks it reads, the block whose text it expects to be
\* printed, the stub that answers it, whether its scenario redirects the requests, and
\* the processes that its block may leave.
JobType == [block : Refs, reads : SUBSET Refs, prints : Refs \cup {NoRef},
            stub : {"curl", "requests", "fetch"}, redirects : {"no", "yes"},
            leaves : SUBSET {"attached", "detached"}]

ASSUME JobsAssumption ==
    /\ Jobs # <<>> /\ DOMAIN Jobs = 1..Len(Jobs)
    /\ \A c \in DOMAIN Jobs :
         /\ Jobs[c].block \in Refs /\ Jobs[c].reads \subseteq Refs
         /\ Jobs[c].prints \in Refs \cup {NoRef}
    /\ Workers \in Nat \ {0} /\ MaxCalls \in Nat

Cases == 1..Len(Jobs)

VARIABLES
    phase,          \* the guide is being read, the cases run, or the check is over
    node,           \* node_command(): whether Node.js is there
    blocks,         \* Blocks.parsed, of the blocks that cases use
    unseen,         \* history: whether Markdown shows a block that no case uses
    wrong,          \* unchecked_blocks and batch_note_errors: whether they found errors
    pc,             \* where each case is
    asking,         \* the URL that exchange() is to ask next
    calls,          \* the calls a block has made
    log,            \* the request log: the schemes of its URLs that are not https
    late,           \* history: those that were logged when the case was over
    child,          \* a process that the block has left
    verdict,        \* exit status and output: as the case expects, or otherwise
    result,         \* what run_case returns or raises
    collected,      \* the results that run() has read
    errors,         \* the cases whose error lines it holds
    aborted,        \* whether a result was an exception
    exit            \* the exit status of the check

caseVars == <<pc, asking, calls, log, late, child, verdict, result>>
runVars == <<phase, node, blocks, unseen, wrong, collected, errors, aborted, exit>>
vars == <<readerVars, caseVars, runVars>>

TypeOK ==
    /\ ReadersTypeOK
    /\ phase \in {"reading", "running", "over"}
    /\ node \in {"no", "yes"} /\ unseen \in {"no", "plain", "yes"}
    /\ blocks \subseteq Refs
    /\ {wrong, aborted} \subseteq BOOLEAN
    /\ pc \in [Cases -> {"queued", "cancelled", "running", "exited", "over"}]
    /\ asking \in [Cases -> {"nothing", "http", "https"}]
    /\ calls \in [Cases -> 0..MaxCalls]
    /\ {log, late} \subseteq [Cases -> SUBSET {"http"}]
    /\ child \in [Cases -> {"none", "attached", "detached", "orphan"}]
    /\ verdict \in [Cases -> {"none", "expected", "other"}]
    /\ result \in [Cases -> {"none", "passed", "failed", "raised"}]
    /\ collected \in 0..Len(Jobs) /\ errors \in Seq(Cases)
    /\ exit \in {"none", "0", "1"}

Init ==
    /\ ReadersInit
    /\ phase = "reading" /\ wrong = FALSE
    /\ node \in {"no", "yes"} /\ blocks = {} /\ unseen = "no"
    /\ pc = [c \in Cases |-> "queued"]
    /\ asking = [c \in Cases |-> "nothing"]
    /\ calls = [c \in Cases |-> 0]
    /\ log = [c \in Cases |-> {}] /\ late = [c \in Cases |-> {}]
    /\ child = [c \in Cases |-> "none"] /\ verdict = [c \in Cases |-> "none"]
    /\ result = [c \in Cases |-> "none"]
    /\ collected = 0 /\ errors = <<>> /\ aborted = FALSE /\ exit = "none"

-----------------------------------------------------------------------------
(* Reading the guide.                                                      *)

ReadGuide == phase = "reading" /\ Read /\ UNCHANGED <<caseVars, runVars>>

\* The blocks that parse_blocks found, and those that a reader of Markdown sees.
RefsOf(counted) == {ref \in Headings \X (0..MaxLines) : ref[2] < counted[ref[1]]}
Found == RefsOf(counts)
Shown == RefsOf(shown)

\* Case.refs, of every case.
Used == {Jobs[c].block : c \in Cases} \cup (UNION {Jobs[c].reads : c \in Cases})
            \cup ({Jobs[c].prints : c \in Cases} \ {NoRef})

\* Defect: a block is taken as used when a case names its heading.
UncheckedHeading == \E found \in Found : \A used \in Used : used[1] # found[1]

Unchecked == Found \ Used # {}

\* The batch section says that the body is refused when no recording shows it, or does
\* not say it when one does.
BatchNoteWrong(refused) == refused # (notes # {})

\* The readers are done with the text.
Forget ==
    /\ number' = 0 /\ fence' = NoFence /\ guideFence' = NoFence /\ proseFence' = NoFence
    /\ examplePlace' = "before" /\ exampleLines' = <<>>
    /\ blockPlace' = "before" /\ blockLines' = <<>>
    /\ tablePlace' = "before" /\ rows' = {} /\ info' = "none" /\ paragraph' = {}
    /\ units' = {} /\ sentences' = {} /\ heading' = "none" /\ under' = "none"
    /\ prosePlace' = "before" /\ notes' = {} /\ plain' = TRUE
    /\ counts' = [h \in Headings |-> 0] /\ shown' = [h \in Headings |-> 0]

\* refused: whether the recorded responses hold the refusal of the batch body.
Begin(refused) ==
    /\ phase = "reading"
    /\ phase' = "running"
    /\ wrong' = (Unchecked \/ BatchNoteWrong(refused))
    /\ blocks' = Found \cap Used
    /\ unseen' = IF Shown \subseteq Used THEN "no" ELSE IF plain THEN "plain" ELSE "yes"
    /\ Forget
    /\ UNCHANGED <<caseVars, node, collected, errors, aborted, exit>>

-----------------------------------------------------------------------------
(* run_case, on a worker.                                                  *)

UnderWay == {c \in Cases : pc[c] \in {"running", "exited"}}

Become(c, state) == pc' = [pc EXCEPT ![c] = state]
End(c, how) == Become(c, "over") /\ result' = [result EXCEPT ![c] = how]

\* A block that the case needs is not there; a block or its runner is not.
NoBlock(c) == ~({Jobs[c].block} \cup Jobs[c].reads \subseteq blocks)
Lacks(c) == NoBlock(c) \/ (Jobs[c].stub = "fetch" /\ node = "no")

\* A free worker takes the next case.  What is not found, a step of a workflow or a member
\* of a card too, is an error line.  A scenario that is built from a block which is not JSON
\* raises, and does before the runner is looked for; else the block runs.
StartCase(c) ==
    /\ phase = "running" /\ pc[c] = "queued"
    /\ \A b \in Cases : b < c => pc[b] # "queued"
    /\ Cardinality(UnderWay) < Workers
    /\ \/ End(c, "failed")
       \/ ~NoBlock(c) /\ Jobs[c].reads # {} /\ End(c, "raised")
       \/ ~Lacks(c) /\ Become(c, "running") /\ UNCHANGED result
    /\ UNCHANGED <<readerVars, asking, calls, log, late, child, verdict, runVars>>

\* A process of the block runs: the block, or one that it has left.
Lives(c) == pc[c] = "running" \/ child[c] # "none"

\* location(): a listed https URL redirects to the same URL under http.
Location(c, scheme) ==
    IF scheme = "https" /\ Jobs[c].redirects = "yes" THEN "http" ELSE "nothing"

\* Defect: every request is taken for a plain one.
LogAll(c, scheme) ==
    /\ log' = [log EXCEPT ![c] = @ \cup {scheme}]
    /\ late' = [late EXCEPT ![c] = @ \cup (IF pc[c] = "over" THEN {scheme} \ {"https"} ELSE {})]

\* answer_from_env: the request is logged, then answered; any but https is refused.
Log(c, scheme) ==
    /\ log' = [log EXCEPT ![c] = @ \cup ({scheme} \ {"https"})]
    /\ late' = [late EXCEPT ![c] = @ \cup (IF pc[c] = "over" THEN {scheme} \ {"https"} ELSE {})]

\* A call of curl, requests or fetch.  curl follows no redirect; requests and fetch do,
\* unless the block says otherwise.
Call(c, scheme, follow) ==
    /\ exit = "none"
    /\ Lives(c) /\ asking[c] = "nothing" /\ calls[c] < MaxCalls
    /\ follow => Jobs[c].stub # "curl"
    /\ Log(c, scheme)
    /\ calls' = [calls EXCEPT ![c] = @ + 1]
    /\ asking' = [asking EXCEPT ![c] = IF follow THEN Location(c, scheme) ELSE "nothing"]
    /\ UNCHANGED <<readerVars, pc, child, verdict, result, runVars>>

\* exchange(): the request goes to the Location.
Follow(c) ==
    /\ exit = "none"
    /\ Lives(c) /\ asking[c] # "nothing"
    /\ Log(c, asking[c])
    /\ asking' = [asking EXCEPT ![c] = Location(c, asking[c])]
    /\ UNCHANGED <<readerVars, calls, pc, child, verdict, result, runVars>>

\* The block exits, and may leave a process.
Exit(c, how, left) ==
    /\ pc[c] = "running" /\ asking[c] = "nothing" /\ left \in Jobs[c].leaves \cup {"none"}
    /\ Become(c, "exited")
    /\ verdict' = [verdict EXCEPT ![c] = how]
    /\ child' = [child EXCEPT ![c] = left]
    /\ UNCHANGED <<readerVars, asking, calls, log, late, result, runVars>>

\* A process that the block has left ends, and the pipes it holds are closed.
ChildEnds(c) ==
    /\ exit = "none"
    /\ child[c] # "none" /\ asking[c] = "nothing"
    /\ child' = [child EXCEPT ![c] = "none"]
    /\ UNCHANGED <<readerVars, pc, asking, calls, log, late, verdict, result, runVars>>

\* Defect: the requests are looked at only when status and output are as expected.
FailsQuietly(c) == verdict[c] = "other"

\* The errors of a case: exit status, output, a request that is not https.
Fails(c) == verdict[c] = "other" \/ "http" \in log[c]

\* Status, output and log are read once the pipes are closed.  Nothing is caught there: an
\* output that is not text, a URL that does not parse, or, of the block whose text is
\* expected, that it is not there or not JSON, ends the case in an exception.
Judge(c) ==
    /\ pc[c] = "exited" /\ child[c] # "attached"
    /\ \/ End(c, "raised")
       \/ Jobs[c].prints \in blocks \cup {NoRef} /\ End(c, IF Fails(c) THEN "failed" ELSE "passed")
    /\ UNCHANGED <<readerVars, asking, calls, log, late, child, verdict, runVars>>

\* Defect: the time limit is on the block alone, not on what holds its pipes.
TimeoutBlock(c) ==
    /\ pc[c] = "running"
    /\ End(c, "failed")
    /\ child' = [child EXCEPT ![c] = "orphan"]
    /\ UNCHANGED <<readerVars, asking, calls, log, late, verdict, runVars>>

\* TIMEOUT: the block is killed, the processes it started are not.
Timeout(c) ==
    /\ pc[c] = "running" \/ (pc[c] = "exited" /\ child[c] = "attached")
    /\ End(c, "failed")
    /\ child' = [child EXCEPT ![c] = "orphan"]
    /\ UNCHANGED <<readerVars, asking, calls, log, late, verdict, runVars>>

-----------------------------------------------------------------------------
(* run() and main().                                                       *)

\* Defect: the results are read as they come.
CollectFirst ==
    /\ phase = "running" /\ ~aborted /\ collected < Len(Jobs)
    /\ \E c \in Cases :
         /\ pc[c] = "over" /\ \A i \in DOMAIN errors : errors[i] # c
         /\ collected' = collected + 1
         /\ errors' = IF result[c] = "failed" THEN Append(errors, c) ELSE errors
         /\ aborted' = (result[c] = "raised")
         /\ pc' = IF result[c] = "raised"
                  THEN [b \in Cases |-> IF pc[b] = "queued" THEN "cancelled" ELSE pc[b]]
                  ELSE pc
    /\ UNCHANGED <<readerVars, asking, calls, log, late, child, verdict, result,
                   phase, node, blocks, unseen, wrong, exit>>

\* The results are read in the order of the cases.  An exception ends the loop and
\* cancels the cases that have not started.
Collect ==
    /\ phase = "running" /\ ~aborted /\ collected < Len(Jobs)
    /\ LET c == collected + 1
       IN  /\ pc[c] = "over"
           /\ collected' = c
           /\ errors' = IF result[c] = "failed" THEN Append(errors, c) ELSE errors
           /\ aborted' = (result[c] = "raised")
           /\ pc' = IF result[c] = "raised"
                    THEN [b \in Cases |-> IF pc[b] = "queued" THEN "cancelled" ELSE pc[b]]
                    ELSE pc
    /\ UNCHANGED <<readerVars, asking, calls, log, late, child, verdict, result,
                   phase, node, blocks, unseen, wrong, exit>>

\* The pool waits for the cases under way, then the directory is removed, which fails
\* when a process that is still there writes to it.
Finish ==
    /\ phase = "running" /\ UnderWay = {}
    /\ aborted \/ collected = Len(Jobs)
    /\ phase' = "over"
    /\ \/ exit' = IF wrong \/ errors # <<>> \/ aborted THEN "1" ELSE "0"
       \/ (\E c \in Cases : child[c] # "none") /\ exit' = "1"
    /\ UNCHANGED <<readerVars, caseVars, node, blocks, unseen, wrong, collected, errors, aborted>>

Next ==
    \/ ReadGuide \/ \E refused \in BOOLEAN : Begin(refused)
    \/ \E c \in Cases :
         \/ StartCase(c)
         \/ \E scheme \in {"http", "https"}, follow \in BOOLEAN : Call(c, scheme, follow)
         \/ Follow(c)
         \/ \E how \in {"expected", "other"}, left \in {"none", "attached", "detached"} :
              Exit(c, how, left)
         \/ ChildEnds(c) \/ Judge(c) \/ Timeout(c)
    \/ Collect \/ Finish

\* The check's own threads run on, and the time of a case runs out; nothing is assumed
\* of a block.
Fairness ==
    /\ WF_vars(\E refused \in BOOLEAN : Begin(refused)) /\ WF_vars(Collect) /\ WF_vars(Finish)
    /\ \A c \in Cases : WF_vars(StartCase(c)) /\ WF_vars(Judge(c)) /\ WF_vars(Timeout(c))

Spec == Init /\ [][Next]_vars /\ Fairness

-----------------------------------------------------------------------------

\* check_guides.py:33-36: a block that sends a request to a URL that is not https fails
\* its case whatever it does with the refused connection, and so the check, whatever the
\* other cases do; a process that outlives its case may send one unseen.
PlainRequestFails ==
    exit = "0" => \A c \in Cases : log[c] \subseteq late[c]

\* A check that passes has run every case to its expected end and found a use for each
\* block of the guide, as a reader of Markdown sees them when the text is plain.
PassMeansChecked ==
    exit = "0" =>
        /\ \A c \in Cases : result[c] = "passed" /\ verdict[c] = "expected"
        /\ Used \subseteq blocks /\ unseen # "plain"

\* The error lines come in the order of the cases, however they end, and none is lost or
\* doubled unless an exception cuts the run short.
ErrorsInOrder ==
    /\ \A i, j \in DOMAIN errors : i < j => errors[i] < errors[j]
    /\ exit # "none" /\ ~aborted =>
         {errors[i] : i \in DOMAIN errors} = {c \in Cases : result[c] = "failed"}

\* The check ends, whatever the blocks do.
CheckEnds == <>(exit # "none")

\* check_guides.py:14: "A block no case uses is an error, so a new block cannot land
\* unchecked."
NoBlockUnchecked == exit = "0" => unseen = "no"

=============================================================================
