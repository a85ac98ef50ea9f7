--------------------------- MODULE GuideChecksProofs ---------------------------
(***************************************************************************)
(* Theorems about the guide checks, for all cases, any number of workers   *)
(* and of requests, and guides of every length.                            *)
(*                                                                         *)
(* IInv ties together the four places where a case's outcome is: where the *)
(* case is, its result, the results that run() has read, and the exit      *)
(* status.                                                                 *)
(***************************************************************************)
EXTENDS GuideChecks, TLAPS

-----------------------------------------------------------------------------
(* MarkdownReaders: the readers agree, for every set of lines and every    *)
(* length of a text.                                                       *)

\* The readers of the guide checks: before its section section_prose is in no code block.
GuideInv ==
    /\ ReadersAgree
    /\ prosePlace = "before" => proseFence = NoFence

\* The block of the example is one of three backticks.
ExampleInv ==
    /\ ExamplesAgree
    /\ plain /\ examplePlace = "open" => fence = [mark |-> "backtick", length |-> 3]

\* A line that is read is one of Lines, so a fence has a character and an info string.
LEMMA FencesAreMarked ==
    ASSUME NEW l \in Lines, l.kind = "fence"
    PROVE  l.mark # "none" /\ l.info # "none"
BY LinesAssumption

\* On a plain line markdown_lines and the guide checks open and close the same blocks,
\* and a heading is prose.
LEMMA PlainFences ==
    ASSUME NEW l, PlainLine(l)
    PROVE  /\ Opens(l) <=> GuideOpens(l)
           /\ IsHeading(l) => fence = NoFence /\ LineKind(l) = "prose"
           /\ l.kind = "title" => IsHeading(l)
BY DEF PlainLine, Opens, GuideOpens, IsHeading, LineKind

LEMMA GuideReads ==
    ASSUME GuideInv, NEW l \in Lines, ReadLine(l)
    PROVE  GuideInv'
<1> SUFFICES ASSUME plain' PROVE ReadersAgree'
  <2>1. prosePlace' = "before" => prosePlace = "before" /\ proseFence' = proseFence
    BY DEF ReadLine, SectionProse
  <2> QED BY <2>1 DEF GuideInv, ReadersAgree
<1>1. plain /\ PlainLine(l)
  BY DEF ReadLine
<1>2. guideFence = fence /\ counts = shown /\ heading = under
  BY <1>1 DEF GuideInv, ReadersAgree
<1>3. guideFence' = fence'
  BY <1>1, <1>2, PlainFences DEF ReadLine, ParseBlocks, MarkdownLines, FenceAfter
<1>4. counts' = shown'
  BY <1>1, <1>2, PlainFences DEF ReadLine, ParseBlocks, LineKind
<1>5. heading' = under'
  BY <1>1, <1>2, PlainFences DEF ReadLine, ParseBlocks
<1>6. prosePlace' = "in" => proseFence' = fence'
  <2>1. CASE prosePlace = "in"
    BY <1>1, <2>1, PlainFences
    DEF GuideInv, ReadersAgree, ReadLine, SectionProse, MarkdownLines, FenceAfter
  <2>2. CASE prosePlace # "in" /\ prosePlace' = "in"
    <3>1. prosePlace = "before" /\ proseFence' = NoFence /\ IsHeading(l)
      BY <2>2 DEF GuideInv, ReadLine, SectionProse, IsHeading
    <3>2. fence = NoFence /\ ~Opens(l)
      BY <1>1, <3>1, PlainFences DEF Opens, IsHeading
    <3> QED BY <3>1, <3>2 DEF ReadLine, MarkdownLines, FenceAfter
  <2> QED BY <2>1, <2>2
<1> QED BY <1>3, <1>4, <1>5, <1>6 DEF ReadersAgree

LEMMA ExampleReads ==
    ASSUME ExampleInv, NEW l \in Lines, ReadLine(l)
    PROVE  ExampleInv'
<1> SUFFICES ASSUME plain'
             PROVE  /\ blockPlace' = examplePlace' /\ blockLines' = exampleLines'
                    /\ examplePlace' = "open" => fence' = [mark |-> "backtick", length |-> 3]
  BY DEF ExampleInv, ExamplesAgree
<1>1. plain /\ PlainLine(l)
  BY DEF ReadLine
<1>2. blockPlace = examplePlace /\ blockLines = exampleLines
  BY <1>1 DEF ExampleInv, ExamplesAgree
<1>3. SectionExamples(l) /\ ExtractBlock(l) /\ MarkdownLines(l)
  BY DEF ReadLine
<1>4. CASE examplePlace = "open"
  <2>1. fence = [mark |-> "backtick", length |-> 3]
    BY <1>1, <1>4 DEF ExampleInv
  <2>2. fence # NoFence /\ ~IsHeading(l)
    BY <1>1, <2>1, PlainFences DEF NoFence
  <2>3. CASE l.kind = "fence"
    <3>1. l.mark = "backtick" /\ l.length = 3 /\ l.info = ""
      BY <1>1, <2>2, <2>3 DEF PlainLine
    <3>2. fence.mark = "backtick" /\ l.length = fence.length /\ fence.length \in Nat
      BY <2>1, <3>1
    <3>3. BareFence(l) /\ Closes(l, fence)
      <4>1. BareFence(l)
        BY <2>3, <3>1 DEF BareFence
      <4>2. l.mark = fence.mark
        BY <3>1, <3>2
      <4>3. l.length >= fence.length
        BY <3>2
      <4> QED BY <2>3, <3>1, <4>1, <4>2, <4>3 DEF Closes
    <3>4. LineKind(l) = "fence"
      BY <2>2, <3>3 DEF LineKind
    <3> QED BY <1>2, <1>3, <1>4, <3>3, <3>4 DEF SectionExamples, ExtractBlock
  <2>4. CASE l.kind # "fence"
    <3>1. ~BareFence(l) /\ ~Closes(l, fence) /\ LineKind(l) = "code"
      BY <2>2, <2>4 DEF BareFence, Closes, LineKind
    <3>2. fence' = fence
      BY <1>3, <2>2, <3>1 DEF MarkdownLines, FenceAfter
    <3> QED BY <1>2, <1>3, <1>4, <2>1, <3>1, <3>2 DEF SectionExamples, ExtractBlock
  <2> QED BY <2>3, <2>4
<1>5. CASE examplePlace = "seeking"
  <2>1. JsonFence(l) =>
          LineKind(l) = "fence" /\ fence' = [mark |-> "backtick", length |-> 3] /\ ~IsHeading(l)
    BY <1>1, <1>3 DEF JsonFence, PlainLine, LineKind, Opens, MarkdownLines, FenceAfter, IsHeading
  <2> QED BY <1>1, <1>2, <1>3, <1>5, <2>1, PlainFences DEF SectionExamples, ExtractBlock
<1>6. CASE examplePlace \notin {"open", "seeking"}
  BY <1>1, <1>2, <1>3, <1>6, PlainFences DEF SectionExamples, ExtractBlock
<1> QED BY <1>4, <1>5, <1>6

LEMMA UnitsRead ==
    ASSUME UnitsHoldSentences, NEW l \in Lines, ReadLine(l)
    PROVE  UnitsHoldSentences'
<1>1. ReadmeUnits(l) /\ MarkdownLines(l)
  BY DEF ReadLine
<1>2. (info' = "none") <=> (fence' = NoFence)
  <2>1. CASE LineKind(l) = "fence"
    <3>1. l.mark # "none" /\ l.info # "none"
      BY <2>1, FencesAreMarked DEF LineKind, Opens, Closes
    <3>2. [mark |-> l.mark, length |-> l.length] # NoFence
      BY <3>1 DEF NoFence
    <3> QED
      BY <1>1, <2>1, <3>1, <3>2
      DEF UnitsHoldSentences, ReadmeUnits, MarkdownLines, FenceAfter, LineKind
  <2>2. CASE LineKind(l) # "fence"
    <3>1. info' = info /\ fence' = fence
      BY <1>1, <2>2 DEF ReadmeUnits, MarkdownLines, FenceAfter, LineKind
    <3> QED BY <3>1 DEF UnitsHoldSentences
  <2> QED BY <2>1, <2>2
<1>3. units' \cup paragraph' = sentences'
  <2> DEFINE read == LineKind(l) = "prose" /\ l.kind # "blank"
             kept == LineKind(l) = "code" /\ ~Wire
  <2>1. units' \cup paragraph' =
          units \cup paragraph \cup (IF read \/ kept THEN {This} ELSE {})
    BY <1>1 DEF ReadmeUnits
  <2>2. sentences' = sentences \cup (IF read \/ kept THEN {This} ELSE {})
    BY DEF ReadLine
  <2> QED BY <2>1, <2>2 DEF UnitsHoldSentences
<1> QED BY <1>2, <1>3 DEF UnitsHoldSentences

LEMMA ReadersStart == ReadersInit => GuideInv /\ ExampleInv /\ UnitsHoldSentences
BY DEF ReadersInit, GuideInv, ReadersAgree, ExampleInv, ExamplesAgree, UnitsHoldSentences

LEMMA ReadersRest ==
    ASSUME UNCHANGED readerVars
    PROVE  /\ GuideInv => GuideInv'
           /\ ExampleInv => ExampleInv'
           /\ UnitsHoldSentences => UnitsHoldSentences'
BY DEF readerVars, GuideInv, ReadersAgree, ExampleInv, ExamplesAgree, UnitsHoldSentences, NoFence

-----------------------------------------------------------------------------

\* However long a text and whatever its lines: as long as it is plain, parse_blocks and
\* section_prose are in a code block where markdown_lines is, and find the blocks it shows.
THEOREM GuideReadersAgree == ReadersSpec => []ReadersAgree
<1>1. GuideInv /\ [Read]_readerVars => GuideInv'
  BY GuideReads, ReadersRest DEF Read
<1>2. GuideInv => ReadersAgree
  BY DEF GuideInv
<1> QED BY ReadersStart, <1>1, <1>2, PTL DEF ReadersSpec

\* For every plain text, extract_block and section_examples read one example.
THEOREM ExamplesAreOne == ReadersSpec => []ExamplesAgree
<1>1. ExampleInv /\ [Read]_readerVars => ExampleInv'
  BY ExampleReads, ReadersRest DEF Read
<1>2. ExampleInv => ExamplesAgree
  BY DEF ExampleInv
<1> QED BY ReadersStart, <1>1, <1>2, PTL DEF ReadersSpec

\* For every text, plain or not, readme_units keeps its info string with the open block
\* and loses no line of a sentence.
THEOREM NoSentenceIsLost == ReadersSpec => []UnitsHoldSentences
<1>1. UnitsHoldSentences /\ [Read]_readerVars => UnitsHoldSentences'
  BY UnitsRead, ReadersRest DEF Read
<1> QED BY ReadersStart, <1>1, PTL DEF ReadersSpec

-----------------------------------------------------------------------------
(* The cases.                                                              *)

\* No heading has more blocks than lines were read.
CountsInv == \A h \in Headings : counts[h] <= number /\ shown[h] <= number

\* A case that runs has all its blocks; one that passed did what its case expects.
Has(c) == Jobs[c].block \in blocks /\ Jobs[c].reads \subseteq blocks
CaseInv ==
    \A c \in Cases :
        /\ pc[c] = "over" <=> result[c] # "none"
        /\ pc[c] \in {"running", "exited"} => Has(c)
        /\ pc[c] = "exited" => verdict[c] # "none"
        /\ result[c] = "passed" =>
             /\ Has(c) /\ Jobs[c].prints \in blocks \cup {NoRef}
             /\ verdict[c] = "expected" /\ log[c] \subseteq late[c]
        /\ phase = "reading" => pc[c] \notin {"running", "exited", "over"}

\* What run() has read of the results.
ErrorSet == {errors[i] : i \in DOMAIN errors}
CollectInv ==
    /\ \A c \in 1..collected : pc[c] = "over" /\ (~aborted => result[c] # "raised")
    /\ ErrorSet = {c \in 1..collected : result[c] = "failed"}
    /\ \A i, j \in DOMAIN errors : i < j => errors[i] < errors[j]

\* The guide has been judged before a case runs, and the exit status is the last thing.
ExitInv ==
    /\ phase # "reading" /\ ~wrong => unseen # "plain"
    /\ exit # "none" <=> phase = "over"
    /\ phase = "over" /\ ~aborted => collected = Len(Jobs)
    /\ exit = "0" => ~wrong /\ errors = <<>> /\ ~aborted

IInv == TypeOK /\ CountsInv /\ GuideInv /\ CaseInv /\ CollectInv /\ ExitInv

-----------------------------------------------------------------------------
(* Types.                                                                  *)

LEMMA ReadKeepsTypes ==
    ASSUME ReadersTypeOK, CountsInv, Read
    PROVE  ReadersTypeOK' /\ CountsInv'
<1>1. PICK l \in Lines : ReadLine(l)
  BY DEF Read
<1>2. l \in LineType /\ MaxLines \in Nat
  BY LinesAssumption
<1>3. number' = number + 1 /\ number \in 0..MaxLines /\ number' \in 0..MaxLines /\ This \in 1..MaxLines
  <2>1. number' = number + 1 /\ number < MaxLines
    BY <1>1 DEF ReadLine, This
  <2>2. number \in 0..MaxLines
    BY DEF ReadersTypeOK
  <2> QED BY <1>2, <2>1, <2>2 DEF This
<1>4. FenceType(fence') /\ FenceType(guideFence') /\ FenceType(proseFence')
  <2>1. \A f, opens : FenceType(f) => FenceType(FenceAfter(l, f, opens))
    BY <1>2 DEF FenceType, FenceAfter, NoFence, LineType
  <2> QED
    BY <1>1, <2>1 DEF ReadLine, MarkdownLines, ParseBlocks, SectionProse, ReadersTypeOK
<1>5. {examplePlace', blockPlace'} \subseteq Places
  BY <1>1 DEF ReadLine, SectionExamples, ExtractBlock, ReadersTypeOK, Places
<1>6. {exampleLines', blockLines'} \subseteq Seq(1..MaxLines)
  <2>1. exampleLines \in Seq(1..MaxLines) /\ blockLines \in Seq(1..MaxLines)
    BY DEF ReadersTypeOK
  <2>2. Append(exampleLines, This) \in Seq(1..MaxLines)
    BY <1>3, <2>1
  <2>3. Append(blockLines, This) \in Seq(1..MaxLines)
    BY <1>3, <2>1
  <2>4. exampleLines' \in Seq(1..MaxLines)
    BY <1>1, <2>1, <2>2 DEF ReadLine, SectionExamples
  <2>5. blockLines' \in Seq(1..MaxLines)
    BY <1>1, <2>1, <2>3 DEF ReadLine, ExtractBlock
  <2> QED BY <2>4, <2>5
<1>7. /\ tablePlace' \in {"before", "section", "table", "after"}
      /\ prosePlace' \in {"before", "in", "after"}
  BY <1>1 DEF ReadLine, SectionTable, SectionProse, ReadersTypeOK
<1>8. info' \in {"none", "", "json", "bash", "words", "tick"}
  BY <1>1, <1>2 DEF ReadLine, ReadmeUnits, ReadersTypeOK, LineType
<1>9. {heading', under'} \subseteq Headings
  BY <1>1 DEF ReadLine, ParseBlocks, IsHeading, Headings, ReadersTypeOK
<1>10. {counts', shown'} \subseteq [Headings -> 0..MaxLines] /\ CountsInv'
  <2>1. \A f \in [Headings -> 0..MaxLines], h \in Headings :
          (\A k \in Headings : f[k] <= number) =>
             /\ [f EXCEPT ![h] = @ + 1] \in [Headings -> 0..MaxLines]
             /\ \A k \in Headings : [f EXCEPT ![h] = @ + 1][k] <= number + 1
    BY <1>2, <1>3
  <2>2. \A f \in [Headings -> 0..MaxLines] :
          (\A k \in Headings : f[k] <= number) => \A k \in Headings : f[k] <= number + 1
    BY <1>2, <1>3
  <2>3. counts \in [Headings -> 0..MaxLines] /\ shown \in [Headings -> 0..MaxLines]
        /\ heading \in Headings /\ under \in Headings
    BY DEF ReadersTypeOK
  <2>4. counts' = counts \/ counts' = [counts EXCEPT ![heading] = @ + 1]
    BY <1>1 DEF ReadLine, ParseBlocks
  <2>5. shown' = shown \/ shown' = [shown EXCEPT ![under] = @ + 1]
    BY <1>1 DEF ReadLine
  <2>6. counts' \in [Headings -> 0..MaxLines] /\ \A k \in Headings : counts'[k] <= number'
    BY <1>3, <2>1, <2>2, <2>3, <2>4 DEF CountsInv
  <2>7. shown' \in [Headings -> 0..MaxLines] /\ \A k \in Headings : shown'[k] <= number'
    BY <1>3, <2>1, <2>2, <2>3, <2>5 DEF CountsInv
  <2> QED BY <2>6, <2>7 DEF CountsInv
<1>11. \A lines \in {rows', paragraph', units', notes', sentences'} : lines \subseteq 1..MaxLines
  BY <1>1, <1>3 DEF ReadLine, SectionTable, ReadmeUnits, SectionProse, ReadersTypeOK
<1>12. plain' \in BOOLEAN
  BY <1>1 DEF ReadLine
<1> QED
  BY <1>3, <1>4, <1>5, <1>6, <1>7, <1>8, <1>9, <1>10, <1>11, <1>12 DEF ReadersTypeOK

\* Forgetting the text brings the readers back to where they started.
LEMMA ForgetStarts ==
    ASSUME Forget
    PROVE  ReadersTypeOK' /\ CountsInv' /\ GuideInv'
<1>1. MaxLines \in Nat
  BY LinesAssumption
<1>2. ReadersTypeOK'
  BY <1>1 DEF Forget, ReadersTypeOK, FenceType, NoFence, Places, Headings
<1>3. CountsInv'
  BY DEF Forget, CountsInv
<1>4. GuideInv'
  BY DEF Forget, GuideInv, ReadersAgree
<1> QED BY <1>2, <1>3, <1>4

LEMMA ReadersKept ==
    ASSUME UNCHANGED readerVars
    PROVE  /\ ReadersTypeOK => ReadersTypeOK'
           /\ CountsInv => CountsInv'
           /\ GuideInv => GuideInv'
BY DEF readerVars, ReadersTypeOK, CountsInv, GuideInv, ReadersAgree, FenceType, NoFence, Places

-----------------------------------------------------------------------------
(* The types of the cases and of the run.                                  *)

LEMMA JobsAreTyped ==
    /\ Len(Jobs) \in Nat /\ Cases = DOMAIN Jobs /\ MaxCalls \in Nat
    /\ \A c \in Cases : Jobs[c].block \in Refs /\ Jobs[c].reads \subseteq Refs
BY JobsAssumption DEF Cases

RunTypeOK ==
    /\ phase \in {"reading", "running", "over"}
    /\ node \in {"no", "yes"} /\ unseen \in {"no", "plain", "yes"}
    /\ blocks \subseteq Refs
    /\ {wrong, aborted} \subseteq BOOLEAN
    /\ collected \in 0..Len(Jobs) /\ errors \in Seq(Cases)
    /\ exit \in {"none", "0", "1"}

CaseTypeOK ==
    /\ pc \in [Cases -> {"queued", "cancelled", "running", "exited", "over"}]
    /\ asking \in [Cases -> {"nothing", "http", "https"}]
    /\ calls \in [Cases -> 0..MaxCalls]
    /\ {log, late} \subseteq [Cases -> SUBSET {"http"}]
    /\ child \in [Cases -> {"none", "attached", "detached", "orphan"}]
    /\ verdict \in [Cases -> {"none", "expected", "other"}]
    /\ result \in [Cases -> {"none", "passed", "failed", "raised"}]

LEMMA TypeParts == TypeOK <=> ReadersTypeOK /\ RunTypeOK /\ CaseTypeOK
BY DEF TypeOK, RunTypeOK, CaseTypeOK

LEMMA StartTypes == Init => TypeOK /\ CountsInv
<1> SUFFICES ASSUME Init PROVE TypeOK /\ CountsInv
  OBVIOUS
<1>1. ReadersTypeOK /\ CountsInv
  <2>1. MaxLines \in Nat
    BY LinesAssumption
  <2> QED
    BY <2>1 DEF Init, ReadersInit, ReadersTypeOK, CountsInv, FenceType, NoFence, Places, Headings
<1>2. RunTypeOK
  <2>1. errors \in Seq(Cases) /\ collected \in 0..Len(Jobs)
    BY JobsAreTyped DEF Init
  <2> QED BY <2>1 DEF Init, RunTypeOK
<1>3. CaseTypeOK
  BY JobsAreTyped DEF Init, CaseTypeOK
<1> QED BY <1>1, <1>2, <1>3, TypeParts

LEMMA StepTypes ==
    ASSUME TypeOK, CountsInv, [Next]_vars
    PROVE  TypeOK' /\ CountsInv'
<1>. ReadersTypeOK /\ RunTypeOK /\ CaseTypeOK
  BY TypeParts
<1>1. CASE ReadGuide
  <2>1. ReadersTypeOK' /\ CountsInv'
    BY <1>1, ReadKeepsTypes DEF ReadGuide
  <2>2. RunTypeOK' /\ CaseTypeOK'
    BY <1>1 DEF ReadGuide, caseVars, runVars, RunTypeOK, CaseTypeOK
  <2> QED BY <2>1, <2>2 DEF TypeOK, RunTypeOK, CaseTypeOK
<1>2. ASSUME NEW refused \in BOOLEAN, Begin(refused)
      PROVE  TypeOK' /\ CountsInv'
  <2>1. ReadersTypeOK' /\ CountsInv'
    BY <1>2, ForgetStarts DEF Begin
  <2>2. Found \subseteq Refs
    BY LinesAssumption DEF Found, RefsOf, Refs
  <2>3. RunTypeOK'
    <3>1. blocks' \subseteq Refs
      BY <1>2, <2>2 DEF Begin
    <3>2. unseen' \in {"no", "plain", "yes"}
      BY <1>2 DEF Begin
    <3>3. wrong' \in BOOLEAN
      BY <1>2 DEF Begin, Unchecked, BatchNoteWrong
    <3> QED BY <1>2, <3>1, <3>2, <3>3 DEF Begin, RunTypeOK
  <2>4. CaseTypeOK'
    BY <1>2 DEF Begin, CaseTypeOK, caseVars
  <2> QED BY <2>1, <2>3, <2>4 DEF TypeOK, RunTypeOK, CaseTypeOK
<1>3. ASSUME NEW c \in Cases,
             \/ StartCase(c) \/ Follow(c) \/ ChildEnds(c) \/ Judge(c) \/ Timeout(c)
             \/ \E scheme \in {"http", "https"}, follow \in BOOLEAN : Call(c, scheme, follow)
             \/ \E how \in {"expected", "other"}, left \in {"none", "attached", "detached"} :
                  Exit(c, how, left)
      PROVE  TypeOK' /\ CountsInv'
  <2>1. UNCHANGED readerVars /\ UNCHANGED runVars
    BY <1>3 DEF StartCase, Follow, ChildEnds, Judge, Timeout, Call, Exit
  <2>2. ReadersTypeOK' /\ CountsInv'
    BY <2>1, ReadersKept
  <2>3. RunTypeOK'
    BY <2>1 DEF RunTypeOK, runVars
  <2>4. CaseTypeOK'
    <3>1. CASE StartCase(c) \/ Judge(c) \/ Timeout(c)
      BY <1>3, <3>1 DEF StartCase, Judge, Timeout, End, Become, CaseTypeOK
    <3>2. CASE Follow(c)
      BY <1>3, <3>2 DEF Follow, Log, Location, CaseTypeOK
    <3>3. CASE ChildEnds(c)
      BY <1>3, <3>3 DEF ChildEnds, CaseTypeOK
    <3>4. ASSUME NEW scheme \in {"http", "https"}, NEW follow \in BOOLEAN, Call(c, scheme, follow)
          PROVE  CaseTypeOK'
      BY <1>3, <3>4, JobsAreTyped DEF Call, Log, Location, CaseTypeOK
    <3>5. ASSUME NEW how \in {"expected", "other"}, NEW left \in {"none", "attached", "detached"},
                 Exit(c, how, left)
          PROVE  CaseTypeOK'
      BY <1>3, <3>5 DEF Exit, Become, CaseTypeOK
    <3> QED BY <1>3, <3>1, <3>2, <3>3, <3>4, <3>5
  <2> QED BY <2>2, <2>3, <2>4, <2>1 DEF TypeOK, RunTypeOK, CaseTypeOK
<1>4. CASE Collect
  <2>1. ReadersTypeOK' /\ CountsInv'
    BY <1>4, ReadersKept DEF Collect
  <2>2. collected + 1 \in Cases /\ collected + 1 \in 0..Len(Jobs)
    BY <1>4, JobsAreTyped DEF Collect, RunTypeOK, Cases
  <2>3. Append(errors, collected + 1) \in Seq(Cases)
    BY <2>2 DEF RunTypeOK
  <2>4. RunTypeOK'
    BY <1>4, <2>2, <2>3 DEF Collect, RunTypeOK
  <2>5. CaseTypeOK'
    BY <1>4 DEF Collect, CaseTypeOK
  <2> QED BY <2>1, <2>4, <2>5 DEF TypeOK, RunTypeOK, CaseTypeOK
<1>5. CASE Finish
  <2>1. ReadersTypeOK' /\ CountsInv'
    BY <1>5, ReadersKept DEF Finish
  <2>2. RunTypeOK'
    BY <1>5 DEF Finish, RunTypeOK
  <2>3. CaseTypeOK'
    BY <1>5 DEF Finish, caseVars, CaseTypeOK
  <2> QED BY <2>1, <2>2, <2>3 DEF TypeOK, RunTypeOK, CaseTypeOK
<1>6. CASE UNCHANGED vars
  <2>1. ReadersTypeOK' /\ CountsInv'
    BY <1>6, ReadersKept DEF vars
  <2> QED BY <1>6, <2>1 DEF vars, caseVars, runVars, TypeOK, RunTypeOK, CaseTypeOK
<1> QED BY <1>1, <1>2, <1>3, <1>4, <1>5, <1>6 DEF Next

\* The guide checks keep their types, whatever the guide, the cases and their blocks: what
\* is logged beside https is http, and no more is counted than was read.
THEOREM TypeCorrect == Spec => []TypeOK
<1>1. TypeOK /\ CountsInv /\ [Next]_vars => (TypeOK /\ CountsInv)'
  BY StepTypes
<1> QED BY StartTypes, <1>1, PTL DEF Spec

-----------------------------------------------------------------------------
(* The invariant.                                                          *)

LEMMA Start == Init => IInv
<1> SUFFICES ASSUME Init PROVE IInv
  OBVIOUS
<1>1. TypeOK /\ CountsInv
  BY StartTypes
<1>2. GuideInv
  BY ReadersStart DEF Init
<1>3. CaseInv
  BY DEF Init, CaseInv
<1>4. CollectInv
  BY DEF Init, CollectInv, ErrorSet
<1>5. ExitInv
  BY DEF Init, ExitInv
<1> QED BY <1>1, <1>2, <1>3, <1>4, <1>5 DEF IInv

\* The readers' part: only Read and Forget change it.
LEMMA GuideStep ==
    ASSUME GuideInv, [Next]_vars
    PROVE  GuideInv'
<1>1. CASE ReadGuide
  BY <1>1, GuideReads DEF ReadGuide, Read
<1>2. CASE \E refused \in BOOLEAN : Begin(refused)
  BY <1>2, ForgetStarts DEF Begin
<1>3. CASE UNCHANGED readerVars
  BY <1>3, ReadersKept
<1> QED
  BY <1>1, <1>2, <1>3
  DEF Next, vars, StartCase, Call, Follow, Exit, ChildEnds, Judge, Timeout, Collect, Finish

\* What passes is what Fails found nothing against: its log holds no plain request, and
\* one that comes when the case is over is late.
LEMMA CaseStep ==
    ASSUME TypeOK, CaseInv, [Next]_vars
    PROVE  CaseInv'
<1>. CaseTypeOK
  BY TypeParts
<1>1. CASE ReadGuide
  BY <1>1 DEF ReadGuide, caseVars, runVars, CaseInv, Has
<1>2. ASSUME NEW refused \in BOOLEAN, Begin(refused)
      PROVE  CaseInv'
  BY <1>2 DEF Begin, caseVars, CaseInv, CaseTypeOK
<1>3. ASSUME NEW c \in Cases, StartCase(c)
      PROVE  CaseInv'
  BY <1>3 DEF StartCase, End, Become, NoBlock, Lacks, Has, CaseInv, CaseTypeOK, runVars
<1>4. ASSUME NEW c \in Cases, NEW scheme \in {"http", "https"}, Log(c, scheme),
             UNCHANGED <<pc, verdict, result, phase, blocks>>
      PROVE  CaseInv'
  BY <1>4 DEF Log, Has, CaseInv, CaseTypeOK
<1>5. ASSUME NEW c \in Cases, NEW scheme \in {"http", "https"}, NEW follow \in BOOLEAN,
             Call(c, scheme, follow)
      PROVE  CaseInv'
  BY <1>4, <1>5 DEF Call, runVars
<1>6. ASSUME NEW c \in Cases, Follow(c)
      PROVE  CaseInv'
  <2>1. asking[c] \in {"http", "https"}
    BY <1>6 DEF Follow, CaseTypeOK
  <2> QED BY <1>4, <1>6, <2>1 DEF Follow, runVars
<1>7. ASSUME NEW c \in Cases, ChildEnds(c)
      PROVE  CaseInv'
  BY <1>7 DEF ChildEnds, Has, CaseInv, runVars
<1>8. ASSUME NEW c \in Cases, NEW how \in {"expected", "other"},
             NEW left \in {"none", "attached", "detached"}, Exit(c, how, left)
      PROVE  CaseInv'
  BY <1>8 DEF Exit, Become, Has, CaseInv, CaseTypeOK, runVars
<1>9. ASSUME NEW c \in Cases, Judge(c)
      PROVE  CaseInv'
  <2>1. UNCHANGED <<log, late, verdict, blocks, phase>>
    BY <1>9 DEF Judge, runVars
  <2>2. ~Fails(c) => verdict[c] \notin {"other"} /\ log[c] = {}
    BY DEF Fails, CaseTypeOK
  <2>3. pc[c] = "exited" /\ Has(c) /\ phase # "reading"
    BY <1>9 DEF Judge, CaseInv
  <2> QED BY <1>9, <2>1, <2>2, <2>3 DEF Judge, End, Become, Has, CaseInv, CaseTypeOK
<1>10. ASSUME NEW c \in Cases, Timeout(c)
       PROVE  CaseInv'
  BY <1>10 DEF Timeout, End, Become, Has, CaseInv, CaseTypeOK, runVars
<1>11. CASE Collect
  BY <1>11 DEF Collect, Has, CaseInv, CaseTypeOK
<1>12. CASE Finish
  BY <1>12 DEF Finish, caseVars, Has, CaseInv
<1>13. CASE UNCHANGED vars
  BY <1>13 DEF vars, caseVars, runVars, Has, CaseInv
<1> QED
  BY <1>1, <1>2, <1>3, <1>5, <1>6, <1>7, <1>8, <1>9, <1>10, <1>11, <1>12, <1>13 DEF Next

\* The list of errors grows by the case that is read, which comes after all it holds.
LEMMA CollectStep ==
    ASSUME TypeOK, CaseInv, CollectInv, [Next]_vars
    PROVE  CollectInv'
<1>. CaseTypeOK /\ RunTypeOK
  BY TypeParts
<1>1. \A c \in 1..collected : c \in Cases /\ result[c] # "none"
  BY JobsAreTyped DEF CollectInv, CaseInv, RunTypeOK, Cases
<1>2. CASE Collect
  <2> DEFINE c == collected + 1
  <2>1. c \in Cases /\ collected' = c /\ pc[c] = "over" /\ ~aborted /\ result' = result
    BY <1>2, JobsAreTyped DEF Collect, RunTypeOK, Cases
  <2>2. 1..collected' = (1..collected) \cup {c} /\ c \notin 1..collected
    BY <2>1 DEF RunTypeOK
  <2>3. \A b \in 1..collected' : pc'[b] = "over" /\ (~aborted' => result'[b] # "raised")
    BY <1>1, <1>2, <2>1, <2>2 DEF Collect, CollectInv, CaseTypeOK
  <2>4. \A i \in DOMAIN errors : errors[i] \in 1..collected
    BY DEF CollectInv, ErrorSet
  <2>5. CASE result[c] = "failed"
    <3>1. errors' = Append(errors, c)
      BY <1>2, <2>5 DEF Collect
    <3>2. /\ DOMAIN errors' = (DOMAIN errors) \cup {Len(errors) + 1}
          /\ errors'[Len(errors) + 1] = c
          /\ \A i \in DOMAIN errors : errors'[i] = errors[i] /\ i < Len(errors) + 1 /\ i \in Nat
      BY <2>1, <3>1 DEF RunTypeOK
    <3>3. ErrorSet' = ErrorSet \cup {c}
      BY <3>2 DEF ErrorSet
    <3>4. ErrorSet' = {b \in 1..collected' : result'[b] = "failed"}
      BY <2>1, <2>2, <2>5, <3>3 DEF CollectInv
    <3>5. \A i, j \in DOMAIN errors' : i < j => errors'[i] < errors'[j]
      <4> SUFFICES ASSUME NEW i \in DOMAIN errors', NEW j \in DOMAIN errors', i < j
                   PROVE  errors'[i] < errors'[j]
        OBVIOUS
      <4>1. Len(errors) \in Nat /\ collected \in Nat
        BY DEF RunTypeOK
      <4>2. i \in DOMAIN errors
        BY <3>2, <4>1
      <4>3. errors'[i] = errors[i] /\ errors[i] \in 1..collected
        BY <2>4, <3>2, <4>2
      <4>4. CASE j \in DOMAIN errors
        BY <3>2, <4>2, <4>4 DEF CollectInv
      <4>5. CASE j = Len(errors) + 1
        BY <3>2, <4>1, <4>3, <4>5
      <4> QED BY <3>2, <4>4, <4>5
    <3> QED BY <2>3, <3>4, <3>5 DEF CollectInv
  <2>6. CASE result[c] # "failed"
    <3>1. errors' = errors
      BY <1>2, <2>6 DEF Collect
    <3>2. ErrorSet' = {b \in 1..collected' : result'[b] = "failed"}
      BY <2>1, <2>2, <2>6, <3>1 DEF CollectInv, ErrorSet
    <3> QED BY <2>3, <3>1, <3>2 DEF CollectInv
  <2> QED BY <2>5, <2>6
<1>3. CASE UNCHANGED <<collected, errors, aborted>> /\ \A c \in Cases :
              pc[c] = "over" => pc'[c] = pc[c] /\ result'[c] = result[c]
  BY <1>1, <1>3 DEF CollectInv, ErrorSet
<1>4. \A c \in Cases : StartCase(c) \/ Judge(c) \/ Timeout(c) =>
        /\ UNCHANGED <<collected, errors, aborted>>
        /\ \A b \in Cases : pc[b] = "over" => pc'[b] = pc[b] /\ result'[b] = result[b]
  BY DEF StartCase, Judge, Timeout, End, Become, CaseTypeOK, runVars
<1>5. \A c \in Cases : Follow(c) \/ ChildEnds(c) =>
        UNCHANGED <<collected, errors, aborted, pc, result>>
  BY DEF Follow, ChildEnds, runVars
<1>6. \A c \in Cases, scheme \in {"http", "https"}, follow \in BOOLEAN :
        Call(c, scheme, follow) => UNCHANGED <<collected, errors, aborted, pc, result>>
  BY DEF Call, runVars
<1>7. \A c \in Cases, how \in {"expected", "other"}, left \in {"none", "attached", "detached"} :
        Exit(c, how, left) =>
          /\ UNCHANGED <<collected, errors, aborted, result>>
          /\ \A b \in Cases : pc[b] = "over" => pc'[b] = pc[b]
  BY DEF Exit, Become, CaseTypeOK, runVars
<1>8. ReadGuide \/ (\E refused \in BOOLEAN : Begin(refused)) \/ Finish \/ UNCHANGED vars =>
        UNCHANGED <<collected, errors, aborted, pc, result>>
  BY DEF ReadGuide, Begin, Finish, vars, caseVars, runVars
<1> QED BY <1>2, <1>3, <1>4, <1>5, <1>6, <1>7, <1>8 DEF Next

\* A block that a plain text shows is found, so when the check of the blocks has found
\* nothing, cases use it.
LEMMA ExitStep ==
    ASSUME IInv, [Next]_vars
    PROVE  ExitInv'
<1>1. TypeOK /\ GuideInv /\ ExitInv /\ CaseTypeOK /\ RunTypeOK
  BY TypeParts DEF IInv
<1>2. ASSUME NEW refused \in BOOLEAN, Begin(refused)
      PROVE  ExitInv'
  <2>1. plain => Shown = Found
    BY <1>1 DEF GuideInv, ReadersAgree, Shown, Found
  <2>2. ~wrong' => Found \subseteq Used
    BY <1>2 DEF Begin, Unchecked
  <2>3. ~wrong' => unseen' # "plain"
    BY <1>2, <2>1, <2>2 DEF Begin
  <2> QED BY <1>1, <1>2, <2>3 DEF Begin, ExitInv
<1>3. CASE Collect
  BY <1>1, <1>3 DEF Collect, ExitInv
<1>4. CASE Finish
  BY <1>1, <1>4 DEF Finish, ExitInv, RunTypeOK
<1>5. CASE UNCHANGED <<phase, wrong, unseen, exit, aborted, collected, errors>>
  BY <1>1, <1>5 DEF ExitInv
<1> QED
  BY <1>2, <1>3, <1>4, <1>5
  DEF Next, ReadGuide, StartCase, Call, Follow, Exit, ChildEnds, Judge, Timeout, vars, runVars

LEMMA Invariance == Spec => []IInv
<1>1. IInv /\ [Next]_vars => IInv'
  BY StepTypes, GuideStep, CaseStep, CollectStep, ExitStep DEF IInv
<1> QED BY Start, <1>1, PTL DEF Spec

-----------------------------------------------------------------------------

\* Once the check has passed, all cases have.
LEMMA AllPassed ==
    ASSUME IInv, exit = "0"
    PROVE  \A c \in Cases : result[c] = "passed"
<1>1. phase = "over" /\ errors = <<>> /\ ~aborted /\ collected = Len(Jobs)
  BY DEF IInv, ExitInv
<1>2. ErrorSet = {}
  BY <1>1 DEF ErrorSet
<1>3. \A c \in Cases : pc[c] = "over" /\ result[c] \notin {"raised", "failed"}
  BY <1>1, <1>2 DEF IInv, CollectInv, Cases
<1> QED BY <1>3, TypeParts DEF IInv, CaseInv, CaseTypeOK

\* Whatever the blocks do with their requests and processes: a check that passes has seen
\* no plain request of a case that was under way.
THEOREM PlainRequestsFail == Spec => []PlainRequestFails
<1>1. IInv => PlainRequestFails
  BY AllPassed DEF IInv, CaseInv, PlainRequestFails
<1> QED BY Invariance, <1>1, PTL

\* For all cases and every guide: a check that passes has run each case to the end it
\* expects, with all its blocks, and each block of a plain guide is one that a case uses.
THEOREM PassesAreChecked == Spec => []PassMeansChecked
<1>1. ASSUME IInv, exit = "0"
      PROVE  /\ \A c \in Cases : result[c] = "passed" /\ verdict[c] = "expected"
             /\ Used \subseteq blocks /\ unseen # "plain"
  <2>1. \A c \in Cases : result[c] = "passed"
    BY <1>1, AllPassed
  <2>2. \A c \in Cases : Has(c) /\ Jobs[c].prints \in blocks \cup {NoRef} /\ verdict[c] = "expected"
    BY <1>1, <2>1 DEF IInv, CaseInv
  <2>3. Used \subseteq blocks
    BY <2>2 DEF Used, Has
  <2>4. unseen # "plain"
    BY <1>1 DEF IInv, ExitInv
  <2> QED BY <2>1, <2>2, <2>3, <2>4
<1>2. IInv => PassMeansChecked
  BY <1>1 DEF PassMeansChecked
<1> QED BY Invariance, <1>2, PTL

\* However many workers there are and in whatever order they end: the errors are in the
\* order of the cases, and those of all cases that failed.
THEOREM ErrorsKeepOrder == Spec => []ErrorsInOrder
<1>1. ASSUME IInv, exit # "none", ~aborted
      PROVE  {errors[i] : i \in DOMAIN errors} = {c \in Cases : result[c] = "failed"}
  <2>1. collected = Len(Jobs)
    BY <1>1 DEF IInv, ExitInv
  <2> QED BY <1>1, <2>1 DEF IInv, CollectInv, ErrorSet, Cases
<1>2. IInv => ErrorsInOrder
  BY <1>1 DEF ErrorsInOrder, IInv, CollectInv
<1> QED BY Invariance, <1>2, PTL

=============================================================================
