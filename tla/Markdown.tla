------------------------------ MODULE Markdown ------------------------------
(***************************************************************************)
(* The answer on the screen (src/src/markdownconverter.cpp): parseToParts()*)
(* splits it at its fences and has md4c turn what is not code into HTML.   *)
(* The block phase is MarkdownBlocks, the inline phase MarkdownInlines;    *)
(* this module is what calls them: md_parse() and md_process_all_blocks()  *)
(* with the leaf blocks and the tables.                                    *)
(***************************************************************************)
EXTENDS MarkdownInlines

CONSTANT
  Answers,      \* the texts an answer may have
  Languages,    \* langs of parseToParts()
  Running       \* the words that the answers have in running text only

ASSUME AnswersAssumption == Answers \subseteq Seq(STRING)

VARIABLES
  markdown,     \* the answer
  chunks,       \* rawParts from the part that is next
  isCode,       \* that part is behind an odd number of fences
  parts,        \* the parts that are done
  todo,         \* what md_process_all_blocks() and its callees have yet to do
  block,        \* the entry of the blocks that is next
  loose         \* the lists and quotes that are open, TRUE when loose

vars == <<blockVars, inlineVars, markdown, chunks, isCode, parts, todo, block, loose>>
idle == <<markdown, chunks, isCode, parts>>

-----------------------------------------------------------------------------
(* parseToParts()                                                          *)

Fence == <<Tick, Tick, Tick>>

\* The first fence from i on, or the end.
NextFence(s, i) ==
  LET fences == {j \in i .. Len(s) - 2 : SubSeq(s, j, j + 2) = Fence}
  IN  IF fences = {} THEN Len(s) + 1 ELSE Min(fences)

\* QString::split(), by the positions of the fences.
SplitAtFences(s) ==
  LET split[i \in 1 .. Len(s) + 4] ==
        IF i > Len(s) + 1 THEN <<>>
        ELSE <<SubSeq(s, i, NextFence(s, i) - 1)>>
               \o IF NextFence(s, i) > Len(s) THEN <<>> ELSE split[NextFence(s, i) + 3]
  IN  split[1]

\* QString::trimmed()
Trimmed(s) ==
  LET solid == {i \in DOMAIN s : s[i] \notin Space}
  IN  IF solid = {} THEN <<>> ELSE SubSeq(s, Min(solid), Max(solid))

\* The code of a part: a first line that is the name of a language is not.
CodeOf(s) ==
  LET code == Trimmed(s)
      breaks == {i \in DOMAIN code : code[i] = "\n"}
      first == Trimmed(SubSeq(code, 1, Min(breaks) - 1))
      named == breaks # {} /\ Len(first) = 1 /\ FoldWord(first[1]) \in Languages
  IN  Trimmed(IF named THEN SubSeq(code, Min(breaks) + 1, Len(code)) ELSE code)

-----------------------------------------------------------------------------
(* What is left to do.                                                     *)

Emit(events) == [do |-> "events", events |-> events]
Inlines(ls) == [do |-> "inlines", lines |-> ls]
RowOf(type, l, aligns) == [do |-> "row", type |-> type, line |-> l, aligns |-> aligns]

\* md_process_verbatim_block_contents()
Verbatim(type, ls) ==
  FlattenSeq([i \in DOMAIN ls |->
    (IF ls[i].indent = 0 THEN <<>> ELSE <<Says(type, [k \in 1 .. ls[i].indent |-> " "])>>)
      \o <<Says(type, SubSeq(text, ls[i].beg, ls[i].end - 1)), Says(type, <<"\n">>)>>])

\* md_process_code_block_contents(): without the fence; without the blank
\* lines around indented code.
CodeLines(b) ==
  LET solid == {i \in DOMAIN b.lines : b.lines[i].beg # b.lines[i].end}
  IN  IF b.data # 0 THEN Tail(b.lines)
      ELSE IF solid = {} THEN <<>> ELSE SubSeq(b.lines, Min(solid), Max(solid))

\* md_setup_fenced_code_detail(): the first word behind the fence.
FenceLang(l) ==
  LET beg == Skip(Skip(l.beg, Eot, {CH(l.beg)}), Eot, {" "})
      ends == {e \in beg .. l.end : e > beg => CH(e-1) # " "}
      end == IF ends = {} THEN beg ELSE Max(ends)
  IN  SubSeq(text, beg, First(beg, end, LAMBDA p : CH(p) \in Space) - 1)

(* md_analyze_table_alignment() of the n columns of the underline.         *)
Alignments(l, n) ==
  LET dashes == {p \in l.beg .. l.end - 1 : CH(p) = "-" /\ (p = l.beg \/ CH(p-1) # "-")}
      begs == SetToSortSeq(dashes, <)
      end(p) == Skip(p, l.end, {"-"})
      align(p) ==
        LET left == p > l.beg /\ CH(p-1) = ":"
            right == end(p) < l.end /\ CH(end(p)) = ":"
        IN  CASE left /\ right -> " center" [] left -> " left" [] right -> " right" [] OTHER -> ""
  IN  [k \in 1 .. n |-> align(begs[k])]

\* md_process_table_block_contents()
TableTasks(b) ==
  LET aligns == Alignments(b.lines[2], b.data)
      body == [k \in 1 .. Len(b.lines) - 2 |-> RowOf("td", b.lines[k + 2], aligns)]
      head == <<Emit(<<Opens("thead", NoDetail)>>), RowOf("th", b.lines[1], aligns),
                Emit(<<Closes("thead", NoDetail)>>)>>
  IN  IF body = <<>> THEN head
      ELSE head \o <<Emit(<<Opens("tbody", NoDetail)>>)>> \o body
                \o <<Emit(<<Closes("tbody", NoDetail)>>)>>

(* md_process_leaf_block(): a paragraph of a tight list has no tags.       *)
LeafTasks(b) ==
  LET detail == CASE b.type = "h" -> [level |-> b.data]
                  [] b.type = "code" -> [lang |-> IF b.data = 0 THEN <<>> ELSE FenceLang(b.lines[1])]
                  [] OTHER -> NoDetail
      tight == loose # <<>> /\ ~Last(loose)
      contents == CASE b.type = "hr" -> <<>>
                    [] b.type = "code" -> <<Emit(Verbatim("code", CodeLines(b)))>>
                    [] b.type = "html" -> <<Emit(Verbatim("html", b.lines))>>
                    [] b.type = "table" -> TableTasks(b)
                    [] OTHER -> <<Inlines(b.lines)>>
  IN  IF tight /\ b.type = "p" THEN contents
      ELSE <<Emit(<<Opens(b.type, detail)>>)>> \o contents \o <<Emit(<<Closes(b.type, detail)>>)>>

-----------------------------------------------------------------------------
(* md_process_table_row()                                                  *)

\* The cells of the line l of a table, between its boundaries.
Cells(l) ==
  LET boundary(p) == \E k \in DOMAIN marks : /\ marks[k].ch = "|" /\ marks[k].role # ""
                                             /\ marks[k].end = p
      next(p) == First(p + 1, l.end + 1, boundary)
      from[p \in l.beg .. l.end + 1] ==
        IF p > l.end THEN <<>>
        ELSE (IF p < next(p) - 1 THEN <<[beg |-> p, end |-> next(p) - 1]>> ELSE <<>>)
               \o from[next(p)]
  IN  from[l.beg]

CellTasks(row) ==
  LET cells == Cells(row.line)
      range(k) == IF k <= Len(cells) THEN cells[k] ELSE [beg |-> 1, end |-> 1]
      trim(c) ==
        LET solid == {p \in c.beg .. c.end - 1 : ~IsBlank(p)}
        IN  IF solid = {} THEN [beg |-> c.end, end |-> c.end]
            ELSE [beg |-> Min(solid), end |-> Max(solid) + 1]
      cell(k) == <<Emit(<<Opens(row.type, [align |-> row.aligns[k]])>>),
                   Inlines(<<trim(range(k))>>),
                   Emit(<<Closes(row.type, [align |-> row.aligns[k]])>>)>>
  IN  <<Emit(<<Opens("tr", NoDetail)>>)>>
        \o FlattenSeq([k \in DOMAIN row.aligns |-> cell(k)])
        \o <<Emit(<<Closes("tr", NoDetail)>>)>>

-----------------------------------------------------------------------------
(* The conversion of an answer.                                            *)

MaxRefDefOutput == 1024 * 1024

Init ==
  /\ markdown \in Answers
  /\ chunks = IF markdown = <<>> THEN <<>> ELSE SplitAtFences(markdown)
  /\ isCode = FALSE /\ parts = <<>> /\ todo = <<>> /\ block = 1 /\ loose = <<>>
  /\ text = <<>> /\ pc = "part" /\ pos = 1 /\ line = NoLine /\ pivot = Dummy
  /\ ctx = [htmlType |-> 0, fenceLength |-> 0, loosening |-> FALSE, twoBlanks |-> FALSE]
  /\ containers = <<>> /\ build = NoBlocks
  /\ InlinesInit

NextChunk == chunks' = Tail(chunks) /\ isCode' = ~isCode /\ UNCHANGED markdown

(* A part that is code, or is empty and outside of code.                   *)
TakePart ==
  /\ pc = "part" /\ chunks # <<>> /\ (isCode \/ Head(chunks) = <<>>)
  /\ parts' = IF isCode THEN Append(parts, [isCode |-> TRUE, content |-> CodeOf(Head(chunks))])
              ELSE parts
  /\ NextChunk
  /\ UNCHANGED <<blockVars, inlineVars, todo, block, loose>>

\* toHtml() calls md_html() and that md_parse().
ParsePart ==
  /\ pc = "part" /\ chunks # <<>> /\ ~isCode /\ Head(chunks) # <<>>
  /\ LET t == Head(chunks)
     IN  /\ StartText(t)
         /\ budget' = Min({16 * Size(t, 1, Len(t) + 1), MaxRefDefOutput})
  /\ out' = Output /\ horizon' = NoHorizon /\ block' = 1 /\ loose' = <<>>
  /\ UNCHANGED <<lines, table, spot, marks, memo, pairs, last, todo, idle>>

EndPart ==
  /\ pc = "blocks" /\ block > Len(build.blocks)
  /\ parts' = Append(parts, [isCode |-> FALSE, content |-> out.html])
  /\ pc' = "part"
  /\ NextChunk
  /\ UNCHANGED <<text, pos, line, pivot, ctx, containers, build, inlineVars, todo, block, loose>>

-----------------------------------------------------------------------------
(* md_process_all_blocks()                                                 *)

Entry == build.blocks[block]
NextEntry == pc = "blocks" /\ block <= Len(build.blocks) /\ block' = block + 1
Passing == UNCHANGED <<text, pos, line, pivot, ctx, containers, build, lines, table, spot,
                       marks, memo, horizon, pairs, last, budget, idle>>

ContainerDetail(b) ==
  CASE b.type = "ol" -> [start |-> b.data] [] b.type = "li" -> [task |-> b.data]
    [] OTHER -> NoDetail

\* A quote counts as loose: its paragraphs have their tags.
OpenContainer ==
  /\ NextEntry /\ Entry.what = "open"
  /\ out' = Render(out, Opens(Entry.type, ContainerDetail(Entry)))
  /\ loose' = IF Entry.type = "li" THEN loose
              ELSE Append(loose, Entry.type = "quote" \/ Entry.loose)
  /\ UNCHANGED <<pc, todo>> /\ Passing

CloseContainer ==
  /\ NextEntry /\ Entry.what = "close"
  /\ out' = Render(out, Closes(Entry.type, ContainerDetail(Entry)))
  /\ loose' = IF Entry.type = "li" THEN loose ELSE Front(loose)
  /\ UNCHANGED <<pc, todo>> /\ Passing

ProcessLeaf ==
  /\ NextEntry /\ Entry.what = "leaf"
  /\ todo' = LeafTasks(Entry)
  /\ pc' = "tasks"
  /\ UNCHANGED <<out, loose>> /\ Passing

-----------------------------------------------------------------------------
(* What a leaf block leaves to do, in turn.                                *)

EmitEvents ==
  /\ pc = "tasks" /\ todo # <<>> /\ Head(todo).do = "events"
  /\ out' = RenderAll(out, Head(todo).events)
  /\ todo' = Tail(todo)
  /\ UNCHANGED <<pc, block, loose>> /\ Passing

ProcessNormalContents ==
  /\ pc = "tasks" /\ todo # <<>> /\ Head(todo).do = "inlines"
  /\ StartInlines(Head(todo).lines, FALSE)
  /\ todo' = Tail(todo)
  /\ UNCHANGED <<text, pos, line, pivot, ctx, containers, build, out, block, loose, idle>>

AnalyzeRow ==
  /\ pc = "tasks" /\ todo # <<>> /\ Head(todo).do = "row"
  /\ StartInlines(<<Head(todo).line>>, TRUE)
  /\ UNCHANGED <<text, pos, line, pivot, ctx, containers, build, out, todo, block, loose, idle>>

ProcessRow ==
  /\ pc = "cells"
  /\ todo' = CellTasks(Head(todo)) \o Tail(todo)
  /\ pc' = "tasks"
  /\ UNCHANGED <<out, block, loose>> /\ Passing

LeafDone ==
  /\ pc = "tasks" /\ todo = <<>>
  /\ pc' = "blocks"
  /\ UNCHANGED <<out, todo, block, loose>> /\ Passing

Converting ==
  \/ TakePart \/ ParsePart \/ EndPart \/ OpenContainer \/ CloseContainer \/ ProcessLeaf
  \/ EmitEvents \/ ProcessNormalContents \/ AnalyzeRow \/ ProcessRow \/ LeafDone
\* The answer is on the screen.
Shown == pc = "part" /\ chunks = <<>> /\ UNCHANGED vars

Next ==
  \/ Converting \/ Shown
  \/ BlockPhase /\ UNCHANGED <<inlineVars, idle, todo, block, loose>>
  \/ InlinePhase /\ UNCHANGED <<idle, todo, block, loose>>

Spec == Init /\ [][Next]_vars

-----------------------------------------------------------------------------
(* Properties.                                                             *)

\* The phases, and a cursor that is always on a line of the block: the code
\* steps to the next line without a test that there is one.  The nesting level
\* of images may become negative (AltIsText).
TypeOK ==
  /\ pc \in {"part", "line", "rules", "tail", "add", "blocks", "tasks", "collect", "links",
            "inlines", "cells"}
  /\ pc \in {"collect", "inlines"} => spot.row \in DOMAIN lines
  /\ pc = "inlines" => spot.mark \in DOMAIN marks /\ Current.role # ""
  /\ budget \in 0 .. MaxRefDefOutput
  /\ out.images \in Int

(* The containers that were opened in block_bytes and not closed are those *)
(* that md_analyze_line() keeps, in the same order, and every list there   *)
(* remembers its own opener, which it marks when it turns out to be loose. *)
StillOpen(open, i, blocks) ==
  IF blocks[i].what = "open" THEN Append(open, i)
  ELSE IF blocks[i].what = "leaf" THEN open
  ELSE IF open # <<>> /\ blocks[Last(open)].type = blocks[i].type THEN Front(open)
  ELSE Append(open, i)
Unclosed(blocks) ==
  LET open[n \in 0 .. Len(blocks)] ==
        IF n = 0 THEN <<>> ELSE StillOpen(open[n-1], n, blocks)
  IN  open[Len(blocks)]

\* Where each of the containers begins in what is open: a list has an item.
Places(conts) ==
  LET at[k \in 1 .. Len(conts) + 1] ==
        IF k = 1 THEN 1 ELSE at[k-1] + IF conts[k-1].ch = ">" THEN 1 ELSE 2
  IN  at

OpenAs(blocks, conts) ==
  LET open == Unclosed(blocks)
      at == Places(conts)
      type(k) == blocks[open[k]].type
  IN  /\ Len(open) + 1 = at[Len(conts) + 1]
      /\ \A k \in 1 .. Len(conts) :
           IF conts[k].ch = ">" THEN type(at[k]) = "quote"
           ELSE /\ type(at[k]) = ListType(conts[k]) /\ type(at[k] + 1) = "li"
                /\ conts[k].opener = open[at[k]]

ContainersMatchBuilt ==
  pc \in {"line", "add", "blocks"} => OpenAs(build.blocks, containers)

(* Between two lines, the pivot is of a line of the block that is under    *)
(* construction, or is the dummy when there is none: the lines that change *)
(* the block (the underlines of headings and tables) assert it.            *)
PivotIsCurrent ==
  pc = "line" =>
    IF build.current THEN Last(build.blocks).type = BlockType(pivot.type)
    ELSE pivot.type = "blank"

(* The lines of the blocks are those of the text: in its order, none twice *)
(* and none that ends before it begins, whatever was retyped, shortened or *)
(* dropped in between.  md_lookup_line() finds the line of an offset by    *)
(* bisection, and the inline phase reads a block from line to line.        *)
LinesInOrder ==
  \A k, m \in DOMAIN build.blocks :
    \A i \in DOMAIN build.blocks[k].lines, j \in DOMAIN build.blocks[m].lines :
      /\ build.blocks[k].lines[i].beg <= build.blocks[k].lines[i].end
      /\ k < m \/ (k = m /\ i < j) => build.blocks[k].lines[i].end < build.blocks[m].lines[j].beg

(* A position from which md_analyze_line() no longer looks for a thematic  *)
(* break (hr_killer) does not begin one.                                   *)
KillerAgrees ==
  pc = "rules" /\ line.off < line.killer /\ CH(line.off) \in {"-", "_", "*"}
    => ~ThematicBreak(line.off).hr

(* What a search remembers to be spared the next one does not change what  *)
(* it finds: the runs of backquotes of a block by their lengths, and the   *)
(* horizons of the closers of comments, instructions, declarations and     *)
(* CDATA, of which md_scan_for_html_closer() says "We have already scanned *)
(* the range up to the max_end so we know there is nothing to see"         *)
(* (md4c.c:1204).                                                          *)
NoCloserIsKnown ==
  Collecting /\ CH(Here) = Tick => CodeSpan(Here, memo).end = CodeSpan(Here, NoMemo).end
NothingToSee ==
  Collecting /\ CH(Here) = "<" =>
    LET rest == From(lines, spot.row)
    IN  HtmlAny(rest, Here, horizon).end = HtmlAny(rest, Here, NoHorizon).end

(* The cells of a table are read after their row, whose scans have moved   *)
(* the horizons behind them: there it is wrong, and only there.  In the    *)
(* row |<!--a--><!--|b| the comment <!--a--> is shown as text.             *)
Processing == build.blocks[block - 1]       \* the block that is processed
InCell == Processing.type = "table" /\ ~table
MemoryAgrees == NoCloserIsKnown /\ (Collecting /\ ~InCell => NothingToSee)

(* However often a definition is used, the output does not outgrow the     *)
(* text by more than max_ref_def_output: an autolink shows its target      *)
(* twice, and everything else in the output is there once in the text.     *)
OutputBounded ==
  LET wordBytes(s) == LET ws == SelectSeq(s, LAMBDA t : t \in Words)
                      IN  Size(ws, 1, Len(ws) + 1)
      bytes == Bytes(Eot)
  IN  wordBytes(out.html) <= 2 * bytes + Min({16 * bytes, MaxRefDefOutput})

(* The tags of every part are balanced and nested: spans that are resolved *)
(* in different passes over the marks do not overlap.  Not so when a       *)
(* delimiter of emphasis is in the target of a link, as in [a](_b) c_: the *)
(* pass over the emphasis steps behind a link without moving last_end,     *)
(* and takes the delimiter for one of the text.                            *)
PlainTags == {"p", "quote", "ul", "ol", "li", "pre", "table", "thead", "tbody", "tr", "em",
              "strong", "del", "code"}
Openers(closer) ==
  {"<" \o type \o ">" : type \in {type \in PlainTags : closer = "</" \o type \o ">"}}
    \cup CASE closer = "</a>" -> {"<a href="} [] closer = "</ol>" -> {"<ol start="}
           [] closer = "</pre>" -> {"<pre lang="} [] closer = "</h" -> {"<h"}
           [] closer = "</th>" -> {"<th"} [] closer = "</td>" -> {"<td"} [] OTHER -> {}
ClosingTags == {"</" \o type \o ">" : type \in PlainTags \cup {"a", "th", "td"}} \cup {"</h"}
OpeningTags == UNION {Openers(closer) : closer \in ClosingTags}

OpenTags(html) ==
  FoldLeft(LAMBDA open, t :
             IF t \in OpeningTags \/ (t \in ClosingTags /\ open = <<>>) THEN Append(open, t)
             ELSE IF t \notin ClosingTags THEN open
             ELSE IF Last(open) \in Openers(t) THEN Front(open) ELSE Append(open, t),
           <<>>, html)
DelimiterInTarget(s) ==
  \E i, j \in DOMAIN s : /\ 1 < i /\ i < j /\ s[i-1] = "]" /\ s[i] = "("
                         /\ s[j] \in {"*", "_", "~"} /\ \A k \in i .. j : s[k] # ")"
TagsNest ==
  \A i \in DOMAIN parts :
    ~parts[i].isCode /\ ~DelimiterInTarget(markdown) => OpenTags(parts[i].content) = <<>>

(* md4c-html.c:445, of the text of an image, the value of its attribute    *)
(* alt: "In that context we naturally cannot output nested HTML tags. So   *)
(* lets suppress them and only output the plain text".                     *)
AltIsText ==
  \A i, j \in DOMAIN out.html :
    i < j /\ out.html[i] = " alt=" /\ out.html[j] \in OpeningTags
      => \E k \in i .. j : out.html[k] = "/>"

(* Every word of the answer that is running text is shown, once, and in    *)
(* the order of the answer: splitting, blocks, lines and spans neither     *)
(* lose nor repeat nor reorder it.                                         *)
RunningText(s) == SelectSeq(s, LAMBDA t : t \in Running)
TextInOrder ==
  pc = "part" /\ chunks = <<>> =>
    RunningText(FlattenSeq([i \in DOMAIN parts |-> parts[i].content])) = RunningText(markdown)

(* Every step of the conversion takes it nearer to its end: no rule, mark, *)
(* pair of brackets or task makes the parser loop.                         *)
Rank(p) ==
  CASE p \in {"part", "tasks"} -> 4 [] p \in {"add", "collect"} -> 3
    [] p \in {"line", "links"} -> 2 [] p \in {"rules", "inlines", "cells"} -> 1
    [] OTHER -> 0                          \* "tail", "blocks"
Phase == CASE pc = "part" -> 2 [] pc \in {"line", "rules", "tail", "add"} -> 1 [] OTHER -> 0
InBlock == pc \in {"tasks", "collect", "links", "inlines", "cells"}
Unread == IF Phase = 1 THEN Eot - pos ELSE Len(build.blocks) - block
Rows == Cardinality({k \in DOMAIN todo : todo[k].do = "row"})
Waiting == Len(todo) + IF pc \in {"collect", "links", "inlines"} /\ ~table THEN 1 ELSE 0
\* In the inline phase the row and the mark go forward, but not the position.
Ahead ==
  CASE pc = "rules" -> Eot - line.off
    [] pc = "collect" -> Len(lines) - spot.row
    [] pc = "inlines" -> Len(lines) - spot.row + Len(marks) - spot.mark
    [] OTHER -> Len(pairs)
Nearby ==
  CASE pc = "rules" -> (IF ctx.htmlType > 0 THEN 1 ELSE 0) + (IF ctx.twoBlanks THEN 1 ELSE 0)
                         + (IF After("fenced") THEN 1 ELSE 0)
    [] pc \in {"collect", "inlines"} -> Eot - spot.off
    [] OTHER -> 0
Left ==
  <<Len(chunks), Phase, Unread, IF InBlock THEN 1 ELSE 0, Rows, Waiting, Rank(pc), Ahead, Nearby>>

Precedes(a, b) == \E i \in DOMAIN a : a[i] < b[i] /\ \A j \in 1 .. i - 1 : a[j] = b[j]
Advances == [][Precedes(Left', Left)]_vars
=============================================================================
