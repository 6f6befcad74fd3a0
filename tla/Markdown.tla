------------------------------- MODULE Markdown -------------------------------
(***************************************************************************)
(* How a summary is cut into blocks: the desktop's parseMd and the mobile  *)
(* page's parseProse, two loops over the lines that look at no more of a   *)
(* line than its class, and the desktop's parseFrontmatter, whose quoted   *)
(* values may run over lines.                                              *)
(***************************************************************************)
EXTENDS Naturals, Sequences, FiniteSets

CONSTANT MaxLines
ASSUME MarkdownAssumption == MaxLines \in Nat

VARIABLES
    source,     \* dialect, and the class of each line
    at,         \* the line the loop is at
    blocks      \* so far: kind, first and last line

markdownVars == <<source, at, blocks>>

\* "#" and "##" with a space; "###"; "#" without; a list item at the margin or indented.
Class == {"blank", "heading", "h3", "hash", "quote", "item", "indented", "number", "fence", "text"}
\* "key: value"; one in quotes; one whose quote stays open; a line ending in a quote; any other.
YamlClass == {"key", "quoted", "opens", "closes", "other"}
Closers == {"quoted", "closes"}
Dialect == {"desktop", "mobile", "yaml"}
Classes(d) == IF d = "yaml" THEN YamlClass ELSE Class
Block == [kind : {"heading", "quote", "list", "numbers", "code", "paragraph", "property"},
          first : 1 .. MaxLines, last : 0 .. MaxLines]

MarkdownInit ==
    /\ \E d \in Dialect : \E n \in 0 .. MaxLines : \E ls \in [1 .. n -> Classes(d)] :
           source = [dialect |-> d, lines |-> ls]
    /\ at = 1 /\ blocks = <<>>

--------------------------------------------------------------------------------

Lines == source.lines
Past == Len(Lines) + 1

\* The first line from n on that is not of cs (or past the end), or is.
EndOfRun(n, cs) ==
    CHOOSE k \in n .. Past : (k = Past \/ Lines[k] \notin cs) /\ \A j \in n .. k - 1 : Lines[j] \in cs
FirstOf(n, cs) ==
    CHOOSE k \in n .. Past : (k = Past \/ Lines[k] \in cs) /\ \A j \in n .. k - 1 : Lines[j] \notin cs

AddsBlock(kind, last, next) ==
    /\ blocks' = Append(blocks, [kind |-> kind, first |-> at, last |-> last])
    /\ at' = next
    /\ UNCHANGED source
Run(kind, cs) == LET end == EndOfRun(at, cs) IN AddsBlock(kind, end - 1, end)

\* What ends a paragraph: the expression in the condition of its loop.
Stops_NoNumbers(d) ==
    IF d = "desktop" THEN {"blank", "heading", "h3", "hash", "quote", "item", "indented"}
    ELSE {"blank", "heading", "h3", "item", "fence"}
Stops(d) ==
    IF d = "desktop" THEN {"blank", "heading", "h3", "hash", "quote", "item", "indented", "number"}
    ELSE {"blank", "heading", "h3", "item", "fence"}
Paragraph(d) == LET end == FirstOf(at + 1, Stops(d)) IN AddsBlock("paragraph", end - 1, end)

SkipBlank == at' = at + 1 /\ UNCHANGED <<source, blocks>>

Desktop ==
    CASE Lines[at] = "heading" -> AddsBlock("heading", at, at + 1)
      [] Lines[at] = "quote" -> Run("quote", {"quote"})
      [] Lines[at] \in {"item", "indented"} -> Run("list", {"item", "indented"})
      [] Lines[at] = "number" -> Run("numbers", {"number"})
      [] Lines[at] = "blank" -> SkipBlank
      [] OTHER -> Paragraph("desktop")

\* A fence runs to the next one, or to the end; the closing one is no content.
AfterFence_Always(close) == close + 1
AfterFence(close) == IF close < Past THEN close + 1 ELSE close
Fence == LET close == FirstOf(at + 1, {"fence"})
         IN AddsBlock("code", close - 1, AfterFence(close))

Mobile ==
    CASE Lines[at] = "blank" -> SkipBlank
      [] Lines[at] = "fence" -> Fence
      [] Lines[at] \in {"heading", "h3"} -> AddsBlock("heading", at, at + 1)
      [] Lines[at] = "item" -> Run("list", {"item"})
      [] OTHER -> Paragraph("mobile")

\* An open quote takes lines until one closes it, that one too, or the end.
Yaml ==
    CASE Lines[at] \in {"key", "quoted"} -> AddsBlock("property", at, at + 1)
      [] Lines[at] = "opens" ->
            LET close == FirstOf(at + 1, Closers)
                last == IF close < Past THEN close ELSE close - 1
            IN AddsBlock("property", last, last + 1)
      [] OTHER -> SkipBlank

ParseStep ==
    /\ at < Past
    /\ CASE source.dialect = "desktop" -> Desktop
         [] source.dialect = "mobile" -> Mobile
         [] source.dialect = "yaml" -> Yaml
MarkdownSpec == MarkdownInit /\ [][ParseStep]_markdownVars

--------------------------------------------------------------------------------
(* Properties *)

MarkdownTypeOK ==
    /\ source.dialect \in Dialect /\ Len(Lines) <= MaxLines
    /\ \A n \in DOMAIN Lines : Lines[n] \in Classes(source.dialect)
    /\ at \in 1 .. Past
    /\ blocks \in Seq(Block)

\* The definition the loops are held to, line by line, without a loop.  A line inside a fence
\* or a quoted value belongs to it; any other joins the line above if the two are of one list
\* or quotation, or if it is plain text under a paragraph; else it begins a block.
OpenBefore(n) ==
    CASE source.dialect = "mobile" -> Cardinality({j \in 1 .. n - 1 : Lines[j] = "fence"}) % 2 = 1
      [] source.dialect = "yaml" -> \E j \in 1 .. n - 1 :
             Lines[j] = "opens" /\ \A l \in j + 1 .. n - 1 : Lines[l] \notin Closers
      [] OTHER -> FALSE

Plain(d) == IF d = "desktop" THEN {"text", "fence"} ELSE {"text", "hash", "quote", "indented", "number"}
Worded(d) == Plain(d) \cup (IF d = "desktop" THEN {"h3", "hash"} ELSE {})
Bullets(d) == IF d = "desktop" THEN {"item", "indented"} ELSE {"item"}
Joins(d, above, line) ==
    \/ {above, line} \subseteq Bullets(d)
    \/ d = "desktop" /\ above = line /\ line \in {"quote", "number"}
    \/ above \in Worded(d) /\ line \in Plain(d)

Begins(n) ==
    /\ ~OpenBefore(n)
    /\ IF source.dialect = "yaml" THEN Lines[n] \in {"key", "quoted", "opens"}
       ELSE /\ Lines[n] # "blank"
            /\ n > 1 => OpenBefore(n - 1) \/ ~Joins(source.dialect, Lines[n - 1], Lines[n])

\* The blocks are those of that definition, each once and in order: the loop ends, loses no
\* line, takes none twice, and lets nothing swallow what follows it.
BlocksAreLines ==
    at = Past =>
        /\ {blocks[b].first : b \in DOMAIN blocks} = {n \in DOMAIN Lines : Begins(n)}
        /\ \A b \in 1 .. Len(blocks) - 1 : blocks[b].last < blocks[b + 1].first
        /\ \A n \in DOMAIN Lines :
               \/ \E b \in DOMAIN blocks : n \in blocks[b].first .. blocks[b].last
               \/ Lines[n] \in {"blank", "closes", "other"}
               \/ Lines[n] = "fence" /\ OpenBefore(n)
=============================================================================
