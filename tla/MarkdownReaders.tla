--------------------------- MODULE MarkdownReaders ---------------------------
(***************************************************************************)
(* The readers of Markdown in scripts/, all reading one text, line by      *)
(* line: markdown_lines and what is built on it (readme_units,             *)
(* section_examples, section_table), extract_block, which finds a mapped   *)
(* example, and parse_blocks and section_prose of the guide checks.  Each  *)
(* has a rule of its own for where a code block opens and closes.          *)
(*                                                                         *)
(* A line is its kind: a "title" is the one heading that is looked for,    *)
(* "other" any other heading of its level (hashes and a space; hashes      *)
(* alone are left out), "note" a text that states the batch refusal.  A    *)
(* fence is its character, its length, and what follows it: nothing, one   *)
(* word ("json" or "bash"), more ("words", the first being json) or a text *)
(* that holds a backtick ("tick").                                         *)
(***************************************************************************)
EXTENDS Integers, Sequences

CONSTANTS
    Lines,          \* the lines a text is made of
    MaxLines        \* bound: the number of lines of a text

LineType == [kind : {"text", "note", "blank", "row", "title", "other", "fence"},
             indented : {"no", "yes"}, mark : {"none", "backtick", "tilde"}, length : Nat,
             info : {"none", "", "json", "bash", "words", "tick"}]

ASSUME LinesAssumption ==
    /\ Lines \subseteq LineType
    /\ \A l \in Lines : l.kind = "fence" => l.mark # "none" /\ l.info # "none"
    /\ MaxLines \in Nat

VARIABLES
    number,         \* the lines read
    fence,          \* markdown_lines: the open fence
    examplePlace,   \* section_examples: current and block, for the section of the title
    exampleLines,   \* its block
    blockPlace,     \* extract_block: where it is
    blockLines,     \* its block
    tablePlace,     \* section_table: state
    rows,           \* its rows
    info,           \* readme_units: the open block's info string
    paragraph,      \* its paragraph
    units,          \* the lines it has yielded
    heading,        \* parse_blocks: heading
    counts,         \* its counts: how many blocks are found under each heading
    guideFence,     \* the fence of the block it is in
    prosePlace,     \* section_prose: before, in or after the section
    proseFence,     \* its fence
    notes,          \* the notes among its lines
    \* History, as markdown_lines shows the text:
    under,          \* the heading
    shown,          \* the blocks under each heading
    sentences,      \* the lines that are to be read as sentences
    plain           \* whether the text is as the readers agree on

readerVars == <<number, fence, examplePlace, exampleLines, blockPlace, blockLines, tablePlace,
                rows, info, paragraph, units, heading, counts, guideFence, prosePlace,
                proseFence, notes, under, shown, sentences, plain>>

NoFence == [mark |-> "none", length |-> 0]
Headings == {"none", "title", "other"}
Places == {"before", "seeking", "open", "found", "none"}

FenceType(f) == f.mark \in {"none", "backtick", "tilde"} /\ f.length \in Nat /\ DOMAIN f = {"mark", "length"}

ReadersTypeOK ==
    /\ number \in 0..MaxLines
    /\ \A f \in {fence, guideFence, proseFence} : FenceType(f)
    /\ {examplePlace, blockPlace} \subseteq Places
    /\ {exampleLines, blockLines} \subseteq Seq(1..MaxLines)
    /\ tablePlace \in {"before", "section", "table", "after"}
    /\ prosePlace \in {"before", "in", "after"}
    /\ info \in {"none", "", "json", "bash", "words", "tick"}
    /\ {heading, under} \subseteq Headings
    /\ {counts, shown} \subseteq [Headings -> 0..MaxLines]
    /\ \A lines \in {rows, paragraph, units, notes, sentences} : lines \subseteq 1..MaxLines
    /\ plain \in BOOLEAN

ReadersInit ==
    /\ number = 0
    /\ fence = NoFence /\ guideFence = NoFence /\ proseFence = NoFence
    /\ examplePlace = "before" /\ exampleLines = <<>>
    /\ blockPlace = "before" /\ blockLines = <<>>
    /\ tablePlace = "before" /\ rows = {}
    /\ info = "none" /\ paragraph = {} /\ units = {} /\ sentences = {}
    /\ heading = "none" /\ under = "none"
    /\ counts = [h \in Headings |-> 0] /\ shown = [h \in Headings |-> 0]
    /\ prosePlace = "before" /\ notes = {}
    /\ plain = TRUE

This == number + 1

-----------------------------------------------------------------------------
(* markdown_lines.                                                         *)

IsHeading(l) == l.kind \in {"title", "other"} /\ l.indented = "no"

\* A fence opens a block at any indent, unless backticks are followed by one.
Opens(l) == l.kind = "fence" /\ ~(l.mark = "backtick" /\ l.info = "tick")

\* It closes one of its own character that is no longer, with nothing after it.
Closes(l, f) == l.kind = "fence" /\ l.mark = f.mark /\ l.length >= f.length /\ l.info = ""

\* The fence that is open after l, when f was and a line that opens one opens it.
FenceAfter(l, f, opens) ==
    IF f = NoFence THEN (IF opens THEN [mark |-> l.mark, length |-> l.length] ELSE NoFence)
    ELSE IF Closes(l, f) THEN NoFence ELSE f

LineKind(l) ==
    IF fence = NoFence THEN (IF Opens(l) THEN "fence" ELSE "prose")
    ELSE IF Closes(l, fence) THEN "fence" ELSE "code"

MarkdownLines(l) == fence' = FenceAfter(l, fence, Opens(l))

\* line.strip() == "```json", and line.strip() == "```".
JsonFence(l) == l.kind = "fence" /\ l.mark = "backtick" /\ l.length = 3 /\ l.info = "json"
BareFence(l) == l.kind = "fence" /\ l.mark = "backtick" /\ l.length = 3 /\ l.info = ""

-----------------------------------------------------------------------------
(* section_examples: the first ```json block between the title and the     *)
(* next heading.  A label that heads a second section keeps its first.     *)

SectionExamples(l) ==
    LET kind == LineKind(l)
    IN  /\ examplePlace' =
             IF kind = "prose" /\ IsHeading(l)
             THEN (IF examplePlace = "before" /\ l.kind = "title" THEN "seeking"
                   ELSE IF examplePlace = "seeking" THEN "none" ELSE examplePlace)
             ELSE IF examplePlace = "seeking" /\ kind = "fence" /\ JsonFence(l) THEN "open"
             ELSE IF examplePlace = "open" /\ kind = "fence" THEN "found"
             ELSE examplePlace
        /\ exampleLines' = IF examplePlace = "open" /\ kind = "code"
                           THEN Append(exampleLines, This) ELSE exampleLines

-----------------------------------------------------------------------------
(* extract_block: the same block, found without markdown_lines.            *)

\* Defect: the block may follow the next heading.
ExtractBlockBeyond(l) ==
    /\ blockPlace' =
         IF blockPlace = "before" /\ l.kind = "title" THEN "seeking"
         ELSE IF blockPlace = "seeking" /\ JsonFence(l) THEN "open"
         ELSE IF blockPlace = "open" /\ BareFence(l) THEN "found"
         ELSE blockPlace
    /\ blockLines' = IF blockPlace = "open" /\ ~BareFence(l)
                     THEN Append(blockLines, This) ELSE blockLines

ExtractBlock(l) ==
    /\ blockPlace' =
         IF blockPlace = "before" /\ l.kind = "title" THEN "seeking"
         ELSE IF blockPlace = "seeking" /\ JsonFence(l) THEN "open"
         ELSE IF blockPlace = "seeking" /\ IsHeading(l) THEN "none"
         ELSE IF blockPlace = "open" /\ BareFence(l) THEN "found"
         ELSE blockPlace
    /\ blockLines' = IF blockPlace = "open" /\ ~BareFence(l)
                     THEN Append(blockLines, This) ELSE blockLines

-----------------------------------------------------------------------------
(* section_table and readme_units.                                         *)

\* The first table under the title; a line in a code block is no row.
SectionTable(l) ==
    LET reads == LineKind(l) = "prose"
        row == reads /\ l.kind = "row" /\ tablePlace \in {"section", "table"}
    IN  /\ tablePlace' =
             IF reads /\ tablePlace = "before" /\ l.kind = "title" THEN "section"
             ELSE IF row THEN "table"
             ELSE IF reads /\ (tablePlace = "table" \/ (tablePlace = "section" /\ IsHeading(l)))
             THEN "after" ELSE tablePlace
        /\ rows' = IF row THEN rows \cup {This} ELSE rows

\* A line that starts a block of its own: BLOCK_START.
StartsBlock(l) == l.kind \in {"title", "other", "row"}

\* Its lines are wire data: the open block's first word is json.
Wire == info \in {"json", "words"}

\* Defect: the line that ends a paragraph is not the first of the next.
ReadmeUnitsLossy(l) ==
    LET kind == LineKind(l)
        joins == kind = "prose" /\ l.kind # "blank" /\ ~(paragraph # {} /\ StartsBlock(l))
    IN  /\ paragraph' = IF joins THEN paragraph \cup {This} ELSE {}
        /\ units' = units \cup (IF joins THEN {} ELSE paragraph)
                          \cup (IF kind = "code" /\ ~Wire THEN {This} ELSE {})
        /\ info' = IF kind # "fence" THEN info ELSE IF info = "none" THEN l.info ELSE "none"

\* A blank line, a fence or a new block ends a paragraph; a code line is a unit.
ReadmeUnits(l) ==
    LET kind == LineKind(l)
        prose == kind = "prose" /\ l.kind # "blank"
        joins == prose /\ ~(paragraph # {} /\ StartsBlock(l))
    IN  /\ paragraph' = (IF joins THEN paragraph ELSE {}) \cup (IF prose THEN {This} ELSE {})
        /\ units' = units \cup (IF joins THEN {} ELSE paragraph)
                          \cup (IF kind = "code" /\ ~Wire THEN {This} ELSE {})
        /\ info' = IF kind # "fence" THEN info ELSE IF info = "none" THEN l.info ELSE "none"

-----------------------------------------------------------------------------
(* The guide checks: parse_blocks and section_prose.                       *)

\* Only a fence that is not indented, with at most one word after it, opens a block.
GuideOpens(l) == l.kind = "fence" /\ l.indented = "no" /\ l.info \in {"", "json", "bash"}

\* Defect: a block is counted when it closes, so one that never does is lost.
ParseBlocksClosed(l) ==
    /\ guideFence' = FenceAfter(l, guideFence, GuideOpens(l))
    /\ counts' = IF guideFence # NoFence /\ Closes(l, guideFence)
                 THEN [counts EXCEPT ![heading] = @ + 1] ELSE counts
    /\ heading' = IF guideFence = NoFence /\ IsHeading(l) THEN l.kind ELSE heading

\* A block is counted under the heading above it; it runs to its closing fence, or to
\* the end of the text.
ParseBlocks(l) ==
    /\ guideFence' = FenceAfter(l, guideFence, GuideOpens(l))
    /\ counts' = IF guideFence = NoFence /\ GuideOpens(l)
                 THEN [counts EXCEPT ![heading] = @ + 1] ELSE counts
    /\ heading' = IF guideFence = NoFence /\ IsHeading(l) THEN l.kind ELSE heading

\* The lines under the title, up to the next heading of its level, without code blocks.
SectionProse(l) ==
    LET reads == prosePlace = "in" /\ proseFence = NoFence /\ ~GuideOpens(l)
    IN  /\ prosePlace' =
             IF prosePlace = "before" /\ l.kind = "title" /\ l.indented = "no" THEN "in"
             ELSE IF reads /\ IsHeading(l) THEN "after" ELSE prosePlace
        /\ proseFence' = IF prosePlace = "in" THEN FenceAfter(l, proseFence, GuideOpens(l))
                         ELSE proseFence
        /\ notes' = IF reads /\ l.kind = "note" THEN notes \cup {This} ELSE notes

-----------------------------------------------------------------------------
(* The text.                                                               *)

\* What the readers agree on: fences of three backticks with at most one word, code
\* blocks that hold no other fence and no line that starts with hashes, no indent.
PlainLine(l) ==
    /\ l.indented = "no"
    /\ l.kind = "fence" => /\ l.mark = "backtick" /\ l.length = 3 /\ l.info \in {"", "json", "bash"}
                           /\ fence # NoFence => l.info = ""
    /\ IsHeading(l) => fence = NoFence

ReadLine(l) ==
    LET kind == LineKind(l)
    IN  /\ number < MaxLines
        /\ number' = This
        /\ MarkdownLines(l) /\ SectionExamples(l) /\ ExtractBlock(l) /\ SectionTable(l)
        /\ ReadmeUnits(l) /\ ParseBlocks(l) /\ SectionProse(l)
        /\ under' = IF kind = "prose" /\ IsHeading(l) THEN l.kind ELSE under
        /\ shown' = IF kind = "fence" /\ fence = NoFence
                    THEN [shown EXCEPT ![under] = @ + 1] ELSE shown
        /\ sentences' = IF \/ kind = "prose" /\ l.kind # "blank"
                           \/ kind = "code" /\ ~Wire
                        THEN sentences \cup {This} ELSE sentences
        /\ plain' = (plain /\ PlainLine(l))

Read == \E l \in Lines : ReadLine(l)

ReadersSpec == ReadersInit /\ [][Read]_readerVars

-----------------------------------------------------------------------------

\* On a plain text every reader is in a code block exactly where markdown_lines is, and
\* the guide checks find, heading by heading, every block that it shows.
ReadersAgree ==
    plain => /\ guideFence = fence
             /\ prosePlace = "in" => proseFence = fence
             /\ counts = shown /\ heading = under

\* On a plain text the example that is validated (extract_block) is the one that the
\* claims about examples are checked against (section_examples), line for line.
ExamplesAgree == plain => blockPlace = examplePlace /\ blockLines = exampleLines

\* On every text, readme_units knows the info string of the block it is in, so it never
\* asks None for its first word, and no line that is to be read as part of a sentence is
\* lost between two units.
UnitsHoldSentences ==
    /\ info = "none" <=> fence = NoFence
    /\ units \cup paragraph = sentences

=============================================================================
