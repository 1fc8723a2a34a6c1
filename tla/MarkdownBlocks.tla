--------------------------- MODULE MarkdownBlocks ---------------------------
(***************************************************************************)
(* The block phase of md4c (src/src/md4c.c): md_process_doc() reads the    *)
(* text line by line; md_analyze_line() decides what the line is, which    *)
(* containers (block quotes and lists) it continues, leaves and enters;    *)
(* md_process_line() adds it to the block under construction.              *)
(*                                                                         *)
(* A pass of the loop of md_analyze_line() is one action, named for the    *)
(* rule that applies: the first one of Rule.  The flags are those of       *)
(* markdownconverter.cpp: the GitHub dialect.                              *)
(***************************************************************************)
EXTENDS MarkdownText

CONSTANTS
  RawNames,     \* the tags that start HTML block type 1
  RawStarts,    \* the words that begin with one of them
  BlockNames    \* the tags that start type 6 (a name that begins with another
                \* name of the table, as "header" does with "head", does not)

VARIABLES
  pc,           \* where md_process_doc() is
  pos,          \* the position of the next line
  line,         \* the MD_LINE_ANALYSIS under construction, and the locals of
                \* md_analyze_line()
  pivot,        \* *pivot_line
  ctx,          \* html_block_type, code_fence_length and the two flags
  containers,   \* ctx->containers
  build         \* block_bytes, current_block and ref_defs

blockVars == <<text, pc, pos, line, pivot, ctx, containers, build>>

CodeIndent == 4                       \* code_indent_offset
TableMaxColCount == 128

NoLine == [type |-> "none"]
Dummy == [type |-> "blank", beg |-> 0, indent |-> 0]   \* md_dummy_blank_line
NoBlocks == [blocks |-> <<>>, current |-> FALSE, defs |-> <<>>]
NoMark == [ch |-> "", start |-> 0, mark |-> 0, contents |-> 0, end |-> 0]

-----------------------------------------------------------------------------
(* The block under construction.                                           *)

(* The lines at the beginning of a text block that are reference           *)
(* definitions, and the definitions: md_consume_link_reference_definitions *)
Eaten(before, def) ==
  IF def.lines = 0 THEN [before EXCEPT !.more = FALSE]
  ELSE [lines |-> before.lines + def.lines, defs |-> Append(before.defs, def), more |-> TRUE]
Consumed(lines) ==
  LET eat(before, n) ==
        IF before.more /\ before.lines < Len(lines)
        THEN Eaten(before, Definition(From(lines, before.lines + 1))) ELSE before
  IN  FoldLeft(eat, [lines |-> 0, defs |-> <<>>, more |-> TRUE], [n \in DOMAIN lines |-> n])

(* md_end_current_block().  A setext heading loses its underline, or is    *)
(* the beginning of a paragraph when nothing else is left of it.           *)
Keep(b, leaf, rest, defs) ==
  LET heading == leaf.type = "h" /\ leaf.setext
      kept(block) == [blocks |-> Append(Front(b.blocks), block), current |-> FALSE, defs |-> defs]
  IN  IF rest = <<>> THEN [kept(leaf) EXCEPT !.blocks = Front(b.blocks)]
      ELSE IF heading /\ Len(rest) = 1
      THEN [kept([leaf EXCEPT !.type = "p", !.lines = rest]) EXCEPT !.current = TRUE]
      ELSE kept([leaf EXCEPT !.lines = IF heading THEN Front(rest) ELSE rest])
KeepBehind(b, leaf, eaten) == Keep(b, leaf, From(leaf.lines, eaten.lines + 1), b.defs \o eaten.defs)
EndLeaf(b, leaf) ==
  IF (leaf.type = "p" \/ (leaf.type = "h" /\ leaf.setext)) /\ CH(leaf.lines[1].beg) = "["
  THEN KeepBehind(b, leaf, Consumed(leaf.lines))
  ELSE Keep(b, leaf, leaf.lines, b.defs)
EndBlock(b) == IF b.current THEN EndLeaf(b, Last(b.blocks)) ELSE b

BlockType(type) ==
  CASE type = "atx" -> "h" [] type = "text" -> "p"
    [] type \in {"fenced", "indented"} -> "code" [] OTHER -> type

\* md_start_new_block() and md_add_line_into_current_block()
StartBlock(b, l) ==
  [b EXCEPT !.current = TRUE,
            !.blocks = Append(@, [what |-> "leaf", type |-> BlockType(l.type),
                                  data |-> l.data, setext |-> FALSE, lines |-> <<>>])]
AddLine(b, l) ==
  [b EXCEPT !.blocks[Len(b.blocks)].lines =
                Append(@, [beg |-> l.beg, end |-> l.end, indent |-> l.indent])]

\* md_push_container_bytes()
ContainerBytes(what, type, data) ==
  [what |-> what, type |-> type, data |-> data, loose |-> FALSE, lines |-> <<>>]
PushTo(ended, entry) == [ended EXCEPT !.blocks = Append(@, entry)]
Push(b, entry) == PushTo(EndBlock(b), entry)

ListType(c) == IF c.ch \in {".", ")"} THEN "ol" ELSE "ul"

\* md_leave_child_containers(): close the containers from the last to keep+1.
LeaveOne(b, c) ==
  IF c.ch = ">" THEN Push(b, ContainerBytes("close", "quote", 0))
  ELSE Push(Push(b, ContainerBytes("close", "li", c.task)), ContainerBytes("close", ListType(c), 0))
Leave(b, conts, keep) == FoldLeft(LeaveOne, b, Reverse(SubSeq(conts, keep + 1, Len(conts))))

(* md_enter_child_containers(): open the last n; a list remembers its      *)
(* opener, after the block before it has ended.                            *)
EnterList(ended, conts, i) ==
  [build |-> Push(Push(ended, ContainerBytes("open", ListType(conts[i]), conts[i].start)),
                  ContainerBytes("open", "li", conts[i].task)),
   conts |-> [conts EXCEPT ![i].opener = Len(ended.blocks) + 1]]
\* Mutant: the place of the opener is taken before the block before it ends.
EnterOne_Early(done, i) ==
  IF done.conts[i].ch = ">" THEN [done EXCEPT !.build = Push(@, ContainerBytes("open", "quote", 0))]
  ELSE EnterList(done.build, done.conts, i)

EnterOne(done, i) ==
  IF done.conts[i].ch = ">" THEN [done EXCEPT !.build = Push(@, ContainerBytes("open", "quote", 0))]
  ELSE EnterList(EndBlock(done.build), done.conts, i)
Enter(b, conts, n) ==
  FoldLeft(EnterOne, [build |-> b, conts |-> conts], [k \in 1 .. n |-> Len(conts) - n + k])

(* The last eight bytes of block_bytes, read as a block, are of type LI.   *)
(* They may be a line: then its offset is read as the type (enum value 4). *)
EndsLikeItem(b) ==
  LET top == Last(b.blocks)
      last == Last(top.lines)
  IN  /\ ~b.current /\ b.blocks # <<>>
      /\ IF top.lines = <<>> THEN top.type = "li"
         ELSE IF top.type \in {"code", "html"} THEN (Bytes(last.end) % 256) = 4
         ELSE (Bytes(last.beg) % 256) = 4

-----------------------------------------------------------------------------
(* Recognisers of the kinds of lines.                                      *)

(* md_line_indentation(): the columns of the blanks at p.                  *)
Indentation(total, p) ==
  LET end == Skip(p, Eot, Blank)
      column[q \in p .. end] ==
        IF q = p THEN total
        ELSE IF CH(q-1) = "\t" THEN (column[q-1] \div 4 + 1) * 4 ELSE column[q-1] + 1
  IN  [end |-> end, columns |-> column[end] - total]

(* How much of a line that begins at p the containers account for.         *)
InQuote(s, inner, i) ==
  [off |-> inner.end, total |-> s.total + 1 + inner.columns,
   indent |-> Max({0, inner.columns - 1}), parents |-> i]
Into(s, i) ==
  IF s.parents < i - 1 THEN s
  ELSE IF containers[i].ch = ">" /\ s.indent < CodeIndent /\ CH(s.off) = ">"
  THEN InQuote(s, Indentation(s.total + 1, s.off + 1), i)
  ELSE IF containers[i].ch # ">" /\ s.indent >= containers[i].contents
  THEN [s EXCEPT !.indent = @ - containers[i].contents, !.parents = i]
  ELSE s

\* A line without contents stays in the lists it could be in.
InLists(found) ==
  LET lists == {n \in found.parents .. Len(containers) :
                  \A i \in found.parents + 1 .. n : containers[i].ch # ">"}
  IN  IF AtEol(found.off) THEN [found EXCEPT !.parents = Max(lists)] ELSE found
DescendFrom(margin) ==
  InLists(FoldLeft(Into, [off |-> margin.end, total |-> margin.columns,
                          indent |-> margin.columns, parents |-> 0],
                   [i \in DOMAIN containers |-> i]))
Descend(p) == DescendFrom(Indentation(0, p))

(* md_is_container_mark()                                                  *)
MarkTo(indent, p, last) ==                 \* last: behind the digits
  LET apart == IsBlank(last + 1) \/ AtEol(last + 1)
      bullet == last = p /\ CH(p) \in {"-", "+", "*"} /\ apart
      number == last > p /\ CH(last) \in {".", ")"} /\ apart
  IN  IF indent < CodeIndent /\ p < Eot /\ (CH(p) = ">" \/ bullet \/ number)
      THEN [ch |-> CH(last), start |-> Number(SubSeq(text, p, last - 1), 10), mark |-> indent,
            contents |-> indent + last - p + 1, end |-> last + 1]
      ELSE NoMark
ContainerMark(indent, p) == MarkTo(indent, p, Skip(p, Min({p + 9, Eot}), Digits))

\* md_is_container_compatible()
Compatible(pivotContainer, mark) ==
  mark.ch # ">" /\ mark.ch = pivotContainer.ch /\ mark.mark <= pivotContainer.contents

\* md_is_hr_line(): where the run of marks and blanks at p ends, and whether
\* it is a thematic break.
ThematicBreak(p) ==
  LET end == Skip(p, Eot, {CH(p)} \cup Blank)
  IN  [end |-> end,
       hr |-> AtEol(end) /\ Cardinality({q \in p .. end - 1 : CH(q) = CH(p)}) >= 3]

\* md_is_setext_underline()
SetextUnderline(p) ==
  CH(p) \in {"=", "-"} /\ AtEol(Skip(Skip(p, Eot, {CH(p)}), Eot, Blank))

\* md_is_atxheader_line(): the level, or 0.
AtxLevel(p) ==
  LET n == Skip(p, Eot, {"#"}) - p
  IN  IF CH(p) = "#" /\ n <= 6 /\ (IsBlank(p + n) \/ AtEol(p + n)) THEN n ELSE 0

(* md_is_opening_code_fence(): the length, or 0.                           *)
FenceLength(p) ==
  LET n == Skip(p, Eot, {CH(p)}) - p
  IN  IF /\ CH(p) \in {"~", Tick} /\ n >= 3
         /\ CH(p) = Tick => \A q \in p + n .. LineEnd(p) - 1 : CH(q) # Tick
      THEN n ELSE 0

(* md_is_closing_code_fence(): where its scan stops, and whether it is one.*)
ClosingFence(ch, p) ==
  LET run == Skip(p, Eot, {ch})
      end == IF run - p < ctx.fenceLength THEN run ELSE Skip(run, Eot, {" "})
  IN  [end |-> end, closes |-> run - p >= ctx.fenceLength /\ AtEol(end)]

\* md_is_table_underline() as an automaton, and its number of columns or 0.
UnderlineStep(s, c) ==
  CASE s \in {"start", "first", "next"} /\ c = ":" -> "left"
    [] s \in {"start", "first", "next", "left", "dash"} /\ c = "-" -> "dash"
    [] s = "start" /\ c = "|" -> "first"
    [] s \in {"first", "next"} /\ c \in Blank -> s
    [] s = "dash" /\ c = ":" -> "right"
    [] s \in {"dash", "right", "gap"} /\ c \in Blank -> "gap"
    [] s \in {"dash", "right", "gap"} /\ c = "|" -> "next"
    [] OTHER -> "fail"
TableColumns(p) ==
  LET end == LineEnd(p)
      state[q \in p .. end] == IF q = p THEN "start" ELSE UnderlineStep(state[q-1], CH(q-1))
      columns == {q \in p + 1 .. end : state[q] = "dash" /\ state[q-1] # "dash"}
  IN  IF /\ state[end] \in {"dash", "right", "gap", "next"}
         /\ \E q \in p .. end - 1 : CH(q) = "|"
         /\ Cardinality(columns) <= TableMaxColCount
      THEN Cardinality(columns) ELSE 0

(* md_line_contains(): it never looks at the last byte of the document.    *)
LineContains(p, str) ==
  \E q \in p .. LineEnd(p) - Len(str) : Matches(q, str) /\ q + Len(str) < Eot

(* md_is_html_block_start_condition(): the type, or 0.  What follows <! is *)
(* in ASCII, so that type 5 (CDATA) never comes about.                     *)
Named6(name) ==
  CH(name) \in BlockNames /\ (\/ AtEol(name + 1) \/ CH(name + 1) \in Blank \cup {">"}
                              \/ Matches(name + 1, <<"/", ">">>))
Alone(tag) == tag # 0 /\ AtEol(Skip(tag, Eot, Blank))
HtmlBlockType(p) ==
  CASE CH(p) # "<" -> 0
    [] CH(p) = "<" ->
         IF CH(p+1) \in RawStarts THEN 1
         ELSE IF Matches(p + 1, <<"!", "-", "-">>) /\ p + 4 < Eot THEN 2
         ELSE IF CH(p+1) = "?" THEN 3
         ELSE IF CH(p+1) = "!" /\ p + 2 < Eot THEN 4
         ELSE IF Named6(IF CH(p+1) = "/" THEN p + 2 ELSE p + 1) /\ Bytes(Eot) - Bytes(p) > 2 THEN 6
         ELSE IF Alone(HtmlTag(<<[beg |-> p, end |-> LineEnd(p)]>>, p)) THEN 7
         ELSE 0

(* md_is_html_block_end_condition(): the line at p ends a block of the type*)
HtmlBlockEnds(type, p) ==
  CASE type = 1 -> \E q \in p .. LineEnd(p) - 4 :
                     /\ Matches(q, <<"<", "/">>) /\ CH(q+2) \in RawNames /\ CH(q+3) = ">"
    [] type = 2 -> LineContains(p, Closer.comment)
    [] type = 3 -> LineContains(p, Closer.instruction)
    [] type = 4 -> LineContains(p, Closer.declaration)
    [] type \in {6, 7} -> AtEol(p)
    [] OTHER -> FALSE

\* The task mark at p, or 0: its position.
TaskMark(p) ==
  LET at == Skip(p, p + 3, Blank)
  IN  IF /\ CH(at) = "[" /\ CH(at+1) \in {"x", "X", " "} /\ CH(at+2) = "]"
         /\ IsBlank(at+3) \/ AtEol(at+3)
      THEN at + 1 ELSE 0

-----------------------------------------------------------------------------
(* md_analyze_line()                                                       *)

n_containers == Len(containers)
AllParents == line.parents = n_containers
Fresh == line.brothers + line.children = 0      \* no container mark yet
Flush == line.indent < CodeIndent
InList == line.parents > 0 /\ containers[line.parents].ch # ">"
Mark == ContainerMark(line.indent, line.off)

\* md_parse() of the text t: the state of md_process_doc() at the beginning.
StartText(t) ==
  /\ text' = t
  /\ pc' = "line" /\ pos' = 1 /\ line' = NoLine /\ pivot' = Dummy
  /\ ctx' = [htmlType |-> 0, fenceLength |-> 0, loosening |-> FALSE, twoBlanks |-> FALSE]
  /\ containers' = <<>>
  /\ build' = NoBlocks

BeginLine ==
  /\ pc = "line" /\ pos < Eot
  /\ LET d == Descend(pos)
     IN  line' = [type |-> "none", off |-> d.off, beg |-> d.off, end |-> 0,
                  indent |-> d.indent, total |-> d.total, data |-> 0,
                  parents |-> d.parents, brothers |-> 0, children |-> 0,
                  killer |-> 0, pivot |-> pivot, task |-> "", enforce |-> FALSE,
                  loosening |-> ctx.loosening]
  /\ pc' = "rules"
  /\ UNCHANGED <<text, pos, pivot, ctx, containers, build>>

After(type) == line.pivot.type = type
Closing == ClosingFence(CH(line.pivot.beg), line.off)

(* What follows a list mark that may not interrupt a paragraph is text.    *)
Interrupts(mark) ==
  \/ ~After("text") \/ ~AllParents \/ mark.ch = ">"
  \/ ~AtEol(mark.end) /\ (mark.ch \in {".", ")"} => mark.start = 1)

(* The first rule that applies, in the order of the code; html is the type *)
(* of an HTML block that may begin at p, mark the container mark there.    *)
LeafRule(p, html) ==
  IF After("table") /\ AllParents THEN "table"
  ELSE IF Flush /\ AtxLevel(p) > 0 THEN "atx"
  ELSE IF Flush /\ FenceLength(p) > 0 THEN "opening fence"
  ELSE IF html > 0 /\ ~(html = 7 /\ After("text")) THEN "html block"
  ELSE IF /\ After("text") /\ AllParents /\ CH(p) \in {"|", "-", ":"}
          /\ build.current /\ Len(Last(build.blocks).lines) = 1
          /\ TableColumns(p) > 0 THEN "table underline"
  ELSE "text"
MarkRule(p, mark) ==
  IF ~AllParents /\ Fresh /\ mark # NoMark /\ Compatible(containers[line.parents + 1], mark)
  THEN "brother"
  ELSE IF ~Flush /\ ~After("text") THEN "indented"
  ELSE IF Flush /\ mark # NoMark THEN IF Interrupts(mark) THEN "child" ELSE "text"
  ELSE LeafRule(p, HtmlBlockType(p))
Rule ==
  IF After("fenced") /\ Flush /\ Closing.closes THEN "closing fence"
  ELSE IF After("fenced") THEN IF AllParents THEN "fenced" ELSE "left fence"
  ELSE IF After("html") /\ ctx.htmlType > 0 THEN IF AllParents THEN "html" ELSE "left html"
  ELSE IF AtEol(line.off) THEN "blank"
  ELSE IF ctx.twoBlanks THEN "two blanks"
  ELSE IF Flush /\ After("text") /\ AllParents /\ SetextUnderline(line.off) THEN "setext"
  ELSE IF Flush /\ line.off >= line.killer /\ CH(line.off) \in {"-", "_", "*"}
          /\ ThematicBreak(line.off).hr THEN "hr"
  ELSE MarkRule(line.off, Mark)

\* The rule that settles the type of the line.
Settle(changes) ==
  /\ line' = [f \in DOMAIN line |-> IF f \in DOMAIN changes THEN changes[f] ELSE line[f]]
  /\ pc' = "tail"
  /\ UNCHANGED <<text, pos, pivot>>

ContinueFence ==
  /\ pc = "rules" /\ Rule = "fenced"
  /\ Settle([type |-> "fenced", off |-> IF Flush THEN Closing.end ELSE line.off,
             indent |-> Max({0, line.indent - line.pivot.indent})])
  /\ UNCHANGED <<ctx, containers, build>>

CloseFence ==
  /\ pc = "rules" /\ Rule = "closing fence"
  /\ Settle([type |-> "blank", off |-> Closing.end])
  /\ ctx' = [ctx EXCEPT !.loosening = FALSE]
  /\ UNCHANGED <<containers, build>>

(* The container of the fence has ended: the scan for its closing fence    *)
(* has moved off all the same.                                             *)
LeaveFence ==
  /\ pc = "rules" /\ Rule = "left fence"
  /\ line' = [line EXCEPT !.off = IF Flush THEN Closing.end ELSE @, !.pivot = Dummy]
  /\ UNCHANGED <<text, pc, pos, pivot, ctx, containers, build>>

ContinueHtml ==
  /\ pc = "rules" /\ Rule = "html"
  /\ LET ends == HtmlBlockEnds(ctx.htmlType, line.off)
     IN  /\ Settle(IF ends /\ ctx.htmlType \in {6, 7}
                   THEN [type |-> "blank", indent |-> 0] ELSE [type |-> "html"])
         /\ ctx' = IF ends THEN [ctx EXCEPT !.htmlType = 0] ELSE ctx
  /\ UNCHANGED <<containers, build>>

LeaveHtml ==
  /\ pc = "rules" /\ Rule = "left html"
  /\ ctx' = [ctx EXCEPT !.htmlType = 0]
  /\ UNCHANGED <<text, pc, pos, line, pivot, containers, build>>

(* A blank line.  In an item that has no contents yet it is the second one *)
(* that the item begins with.                                              *)
BlankLine ==
  /\ pc = "rules" /\ Rule = "blank"
  /\ LET code == After("indented") /\ AllParents
     IN  /\ Settle(IF code THEN [type |-> "indented",
                                 indent |-> Max({0, line.indent - CodeIndent})]
                   ELSE [type |-> "blank"])
         /\ ctx' = [ctx EXCEPT !.loosening = ~code /\ InList /\ Fresh,
                               !.twoBlanks = @ \/ (~code /\ InList /\ Fresh /\ EndsLikeItem(build))]
  /\ UNCHANGED <<containers, build>>

LeaveEmptyItem ==
  /\ pc = "rules" /\ Rule = "two blanks"
  /\ ctx' = [ctx EXCEPT !.twoBlanks = FALSE, !.loosening = FALSE]
  /\ line' = IF AllParents /\ InList /\ Fresh /\ EndsLikeItem(build)
             THEN [line EXCEPT !.parents = @ - 1,
                               !.indent = IF line.parents = 1 THEN line.total
                                          ELSE Max({0, line.total - containers[line.parents - 1].contents})]
             ELSE line
  /\ UNCHANGED <<text, pc, pos, pivot, containers, build>>

(* A line of one of the types that need no more than themselves.           *)
Leaf(type, off, beg, data) ==
  /\ Settle([type |-> type, off |-> off, beg |-> beg, data |-> data])
  /\ ctx' = [ctx EXCEPT !.loosening = FALSE]
  /\ UNCHANGED <<containers, build>>

SetextLine ==
  /\ pc = "rules" /\ Rule = "setext"
  /\ Leaf("setext", line.off, line.beg, IF CH(line.off) = "=" THEN 1 ELSE 2)
HrLine ==
  /\ pc = "rules" /\ Rule = "hr"
  /\ Leaf("hr", line.off, line.beg, line.data)
TableLine ==
  /\ pc = "rules" /\ Rule = "table"
  /\ Leaf("table", line.off, line.beg, line.data)
AtxLine ==
  /\ pc = "rules" /\ Rule = "atx"
  /\ LET level == AtxLevel(line.off)
         beg == Skip(line.off + level, Eot, Blank)
     IN  Leaf("atx", beg, beg, level)
TableUnderlineLine ==
  /\ pc = "rules" /\ Rule = "table underline"
  /\ Leaf("underline", line.off, line.beg, TableColumns(line.off))

IndentedLine ==
  /\ pc = "rules" /\ Rule = "indented"
  /\ Settle([type |-> "indented", indent |-> line.indent - CodeIndent, data |-> 0])
  /\ ctx' = [ctx EXCEPT !.loosening = FALSE]
  /\ UNCHANGED <<containers, build>>

OpenFence ==
  /\ pc = "rules" /\ Rule = "opening fence"
  /\ Settle([type |-> "fenced", data |-> 1, enforce |-> TRUE])
  /\ ctx' = [ctx EXCEPT !.loosening = FALSE, !.fenceLength = FenceLength(line.off)]
  /\ UNCHANGED <<containers, build>>

OpenHtml ==
  /\ pc = "rules" /\ Rule = "html block"
  /\ LET type == HtmlBlockType(line.off)
     IN  ctx' = [ctx EXCEPT !.loosening = FALSE,
                            !.htmlType = IF HtmlBlockEnds(type, line.off) THEN 0 ELSE type]
  /\ Settle([type |-> "html", enforce |-> TRUE])
  /\ UNCHANGED <<containers, build>>

\* Mutant: hr_killer is set to the end of the line.
Killer_WholeLine(p) == LineEnd(p)

\* Up to where a line that is no thematic break at p will not have one.
Killer(p) == ThematicBreak(p).end

(* Behind a container mark: some of the white space belongs to the mark.   *)
Behind(mark, width, inner) ==
  LET blank == AtEol(inner.end)
      own == IF ~blank /\ inner.columns <= CodeIndent THEN inner.columns ELSE 1
  IN  [line |-> [line EXCEPT !.off = inner.end, !.beg = inner.end,
                             !.total = @ + width + inner.columns,
                             !.indent = IF blank THEN inner.columns
                                        ELSE Max({0, inner.columns - own}),
                             !.killer = IF line.off >= @ /\ CH(line.off) \in {"-", "_", "*"}
                                        THEN Killer(line.off) ELSE @,
                             !.pivot = Dummy],
       container |-> [ch |-> mark.ch, start |-> mark.start, mark |-> mark.mark,
                      contents |-> mark.contents + own, task |-> "", opener |-> 0]]
BehindWidth(mark, width) == Behind(mark, width, Indentation(line.total + width, mark.end))
BehindMark(mark) == BehindWidth(mark, mark.contents - mark.mark)

\* Another item of the list.
Brother ==
  /\ pc = "rules" /\ Rule = "brother"
  /\ \E behind \in {BehindMark(Mark)} :
       /\ line' = [behind.line EXCEPT !.brothers = 1]
       /\ containers' = [containers EXCEPT ![line.parents + 1].mark = behind.container.mark,
                                           ![line.parents + 1].contents = behind.container.contents]
  /\ ctx' = [ctx EXCEPT !.loosening = FALSE]
  /\ UNCHANGED <<text, pc, pos, pivot, build>>

\* A new container; the first one takes the place of those the line left.
Child ==
  /\ pc = "rules" /\ Rule = "child"
  /\ \E behind \in {BehindMark(Mark)} :
       LET keep == IF line.children = 0 THEN line.parents + line.brothers ELSE n_containers
       IN  /\ containers' = Append(SubSeq(containers, 1, keep), behind.container)
           /\ build' = Leave(build, containers, keep)
           /\ line' = [behind.line EXCEPT !.children = @ + 1]
  /\ ctx' = [ctx EXCEPT !.loosening = FALSE]
  /\ UNCHANGED <<text, pc, pos, pivot>>

(* Text, perhaps a lazy continuation; in a new item, perhaps behind a task *)
(* mark, which is kept for the innermost new container.                    *)
TextLine ==
  /\ pc = "rules" /\ Rule = "text"
  /\ LET task == IF ~Fresh /\ Last(containers).ch # ">" THEN TaskMark(line.off) ELSE 0
         off == IF task = 0 THEN line.off ELSE Skip(task + 2, Eot, Blank)
     IN  /\ Settle([type |-> "text", off |-> off,
                    beg |-> IF task = 0 THEN line.beg ELSE off,
                    parents |-> IF After("text") /\ Fresh THEN n_containers ELSE line.parents,
                    task |-> IF line.children = 0 THEN CH(task) ELSE ""])
         /\ containers' = IF task # 0 /\ line.children > 0
                          THEN [containers EXCEPT ![n_containers].task = CH(task)]
                          ELSE containers
  /\ ctx' = [ctx EXCEPT !.loosening = FALSE]
  /\ UNCHANGED build

-----------------------------------------------------------------------------
(* The end of md_analyze_line(): the end of the line and the containers.   *)

\* Mutant: the white space is taken off without a look at the beginning.
LineContents_Unbounded ==
  LET end == LineEnd(line.off)
      back(e, S) == Max({1} \cup {q \in 2 .. e : CH(q-1) \notin S})
  IN  IF line.type \in {"indented", "fenced", "html"} THEN end ELSE back(end, Blank)

LineContents ==
  LET end == LineEnd(line.off)
      back(e, S) == Max({line.beg} \cup {q \in line.beg + 1 .. e : CH(q-1) \notin S})
      hashes == back(back(end, Blank), {"#"})
      atx == IF hashes = line.beg \/ IsBlank(hashes - 1) THEN hashes ELSE end
  IN  IF line.type \in {"indented", "fenced", "html"} THEN end
      ELSE back(IF line.type = "atx" THEN atx ELSE end, Blank)

Loosened(b, c) == [b EXCEPT !.blocks[c.opener].loose = TRUE]
NextItem(b, item) ==
  Push(Push(b, ContainerBytes("close", "li", item.task)), ContainerBytes("open", "li", line.task))

\* The container bytes of the line: the containers it leaves, the item it
\* begins, the containers it enters.
Moved(b, n) ==
  LET keep == IF line.children = 0 THEN n ELSE n_containers
      left == Leave(b, containers, keep)
      kept == SubSeq(containers, 1, keep)
  IN  IF line.brothers = 0 THEN Enter(left, kept, line.children)
      ELSE Enter(NextItem(left, kept[n]), [kept EXCEPT ![n].task = line.task], line.children)

EndLine ==
  /\ pc = "tail"
  /\ line' = [line EXCEPT !.end = LineContents]
  /\ pos' = LineEnd(line.off) + 1
  /\ LET n == line.parents + line.brothers
         loosens == line.loosening /\ line.type # "blank" /\ n > 0 /\ containers[n].ch # ">"
     IN  \E moved \in {Moved(IF loosens THEN Loosened(build, containers[n]) ELSE build, n)} :
           build' = moved.build /\ containers' = moved.conts
  /\ pc' = "add"
  /\ UNCHANGED <<text, pivot, ctx>>

-----------------------------------------------------------------------------
(* md_process_line()                                                       *)

Processed ==
  /\ pc' = "line" /\ line' = NoLine
  /\ UNCHANGED <<text, pos, ctx, containers>>

AddBlank ==
  /\ pc = "add" /\ line.type = "blank"
  /\ build' = EndBlock(build) /\ pivot' = Dummy
  /\ Processed

AddSingle ==
  /\ pc = "add" /\ line.type \in {"hr", "atx"}
  /\ build' = EndBlock(AddLine(StartBlock(EndBlock(build), line), line))
  /\ pivot' = Dummy
  /\ Processed

Underlined(b, type) ==
  [b EXCEPT !.blocks[Len(b.blocks)].type = type, !.blocks[Len(b.blocks)].data = line.data,
            !.blocks[Len(b.blocks)].setext = type = "h"]

\* Mutant: what is left of the heading is no paragraph to go on with.
AddSetextUnderline_Dummy ==
  /\ pc = "add" /\ line.type = "setext"
  /\ build' = EndBlock(AddLine(Underlined(build, "h"), line))
  /\ pivot' = Dummy
  /\ Processed

AddSetextUnderline ==
  /\ pc = "add" /\ line.type = "setext"
  /\ build' = EndBlock(AddLine(Underlined(build, "h"), line))
  /\ pivot' = IF build'.current
              THEN [type |-> "text", beg |-> line.beg, indent |-> line.indent] ELSE Dummy
  /\ Processed

AddTableUnderline ==
  /\ pc = "add" /\ line.type = "underline"
  /\ build' = AddLine(Underlined(build, "table"), line)
  /\ pivot' = [pivot EXCEPT !.type = "table"]
  /\ Processed

(* Any other line continues the current block or starts one.               *)
AddToBlock ==
  /\ pc = "add" /\ line.type \in {"text", "table", "fenced", "indented", "html"}
  /\ \E b \in {IF line.enforce \/ line.type # pivot.type THEN EndBlock(build) ELSE build} :
       /\ build' = AddLine(IF b.current THEN b ELSE StartBlock(b, line), line)
       /\ pivot' = IF b.current THEN pivot
                   ELSE [type |-> line.type, beg |-> line.beg, indent |-> line.indent]
  /\ Processed

(* The end of the text: the last block and all containers end.             *)
EndText ==
  /\ pc = "line" /\ pos >= Eot
  /\ build' = Leave(EndBlock(build), containers, 0)
  /\ containers' = <<>>
  /\ pc' = "blocks"
  /\ UNCHANGED <<text, pos, line, pivot, ctx>>

BlockPhase ==
  \/ BeginLine \/ ContinueFence \/ CloseFence \/ LeaveFence \/ ContinueHtml \/ LeaveHtml
  \/ BlankLine \/ LeaveEmptyItem \/ SetextLine \/ HrLine \/ TableLine \/ AtxLine
  \/ TableUnderlineLine \/ IndentedLine \/ OpenFence \/ OpenHtml \/ Brother \/ Child
  \/ TextLine \/ EndLine \/ AddBlank \/ AddSingle \/ AddSetextUnderline
  \/ AddTableUnderline \/ AddToBlock \/ EndText
=============================================================================
