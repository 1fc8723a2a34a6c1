--------------------------- MODULE MarkdownInlines --------------------------
(***************************************************************************)
(* The inline phase of md4c (src/src/md4c.c) on the lines of one block:    *)
(* md_collect_marks() finds what may begin or end a span,                  *)
(* md_resolve_links() and md_analyze_marks() match these marks, and        *)
(* md_process_inlines() outputs text and spans.                            *)
(*                                                                         *)
(* A step of md_collect_marks() handles one character, a step of           *)
(* md_resolve_links() one pair of brackets, a step of md_process_inlines() *)
(* the text up to a mark and the mark.                                     *)
(***************************************************************************)
EXTENDS MarkdownBlocks, MarkdownHtml

VARIABLES
  lines,        \* the lines of the block, or of a row or cell of a table
  table,        \* table_mode: only the boundaries of the cells are looked for
  spot,         \* the line and the position where the phase is; for
                \* md_process_inlines() also the mark and the type of text
  marks,        \* ctx->marks
  memo,         \* what md_is_code_span() remembers
  horizon,      \* the html_*_horizon of the context, kept from block to block
  pairs,        \* unresolved_link_head: the openers, ordered by their closers
  last,         \* the extents of the last link and the last image
  budget,       \* max_ref_def_output
  out           \* the renderer

inlineVars == <<lines, table, spot, marks, memo, horizon, pairs, last, budget, out>>

CodeSpanMarkMaxLen == 32
NoMemo == [closers |-> <<>>, ended |-> FALSE]
NoHorizon == [kind \in Horizons |-> 0]

(* role: "" until the mark is resolved, then opener, closer or plain;      *)
(* mate: the other mark of the pair; oc, mod: MD_MARK_EMPH_OC and _MOD3.   *)
MarkAt(ch, beg, end) ==
  [ch |-> ch, beg |-> beg, end |-> end, role |-> "", mate |-> 0, opens |-> FALSE,
   closes |-> FALSE, mod |-> 0, nested |-> FALSE, auto |-> "", valid |-> FALSE,
   attr |-> NoDetail]
Potential(mark, opens, closes) == [mark EXCEPT !.opens = opens, !.closes = closes]
Plain(mark) == [mark EXCEPT !.role = "plain"]

\* md_resolve_range()
Resolve(ms, o, c) ==
  [ms EXCEPT ![o].role = "opener", ![o].mate = c, ![c].role = "closer", ![c].mate = o]

\* An opener and a closer that are matched when they are collected.
Spanning(opener, closer) ==
  <<[opener EXCEPT !.role = "opener", !.mate = Len(marks) + 2],
    [closer EXCEPT !.role = "closer", !.mate = Len(marks) + 1]>>

-----------------------------------------------------------------------------
(* md_collect_marks()                                                      *)

Row == lines[spot.row]
LastEnd == lines[Len(lines)].end
MarkChars == {"\\", "*", "_", Tick, "&", ";", "<", ">", "[", "!", "]", "~", "@", ":", ".", "|"}
Here == First(spot.off, Row.end, LAMBDA q : CH(q) \in MarkChars)
Collecting == pc = "collect" /\ Here < Row.end

\* Go on at position off, which may be on a later line.
Collect(new, off) ==
  /\ marks' = marks \o new
  /\ spot' = [spot EXCEPT !.off = off,
                          !.row = IF off > Row.end /\ off <= LastEnd
                                  THEN LineOf(lines, off) ELSE @]
  /\ UNCHANGED <<blockVars, lines, table, pairs, last, budget, out>>
Unhelped == UNCHANGED <<memo, horizon>>

Escapable(p) == CH(p) = "\\" /\ (CH(p+1) \in Punct \cup {"\n"})

CollectEscape ==
  /\ Collecting /\ Escapable(Here)
  /\ marks' = IF CH(Here + 1) = "\n" /\ spot.row = Len(lines) THEN marks
              ELSE Append(marks, Plain(MarkAt("\\", Here, Here + 2)))
  /\ spot' = [spot EXCEPT !.off = Here + 2]
  /\ UNCHANGED <<blockVars, lines, table, pairs, last, budget, out>>
  /\ Unhelped

\* What is next to a delimiter: white space or an end, punctuation, other.
Level(atEnd, p) == IF atEnd \/ IsBlank(p) THEN 0 ELSE IF CH(p) \in Punct THEN 1 ELSE 2

CollectEmphasis ==
  /\ Collecting /\ CH(Here) \in {"*", "_"}
  /\ LET p == Here
         end == Skip(p, Row.end, {CH(p)})
         left == Level(p = Row.beg, p - 1)
         right == Level(end = Row.end, end)
         none == left + right = 0 \/ (CH(p) = "_" /\ left = 2 /\ right = 2)
         mark == Potential(MarkAt(CH(p), p, end), right > 0 /\ right >= left,
                           left > 0 /\ left >= right)
         dummies == [k \in 1 .. end - p - 1 |-> MarkAt("D", p + k, p + k)]
     IN  Collect(IF none THEN <<>>
                 ELSE <<[mark EXCEPT !.mod = (end - p) % 3]>> \o dummies, end)
  /\ Unhelped

(* md_is_code_span(): runs of backquotes behind the opener up to the first *)
(* of the same length.  Those of other lengths are remembered, and so is   *)
(* that a search has reached the end.                                      *)
\* Mutant: a search that has reached the end spares every later one.
Hopeless_Always(n, open, known, ended) == n > CodeSpanMarkMaxLen \/ known >= LastEnd \/ ended

Hopeless(n, open, known, ended) ==
  n > CodeSpanMarkMaxLen \/ known >= LastEnd \/ (ended /\ known < open)
Known(memory, n) == IF n \in DOMAIN memory.closers THEN memory.closers[n] ELSE 0

\* runs: the beginnings of the runs that were read, and their lengths.
Remembered(memory, runs, ended) ==
  LET read == {q \in DOMAIN runs : runs[q] < CodeSpanMarkMaxLen}
  IN  [closers |-> [n \in DOMAIN memory.closers \cup {runs[q] : q \in read} |->
                      Max({Known(memory, n)} \cup {q \in read : runs[q] = n})],
       ended |-> memory.ended \/ ended]

(* The span from the run of n at p to the one at close: a blank at both    *)
(* ends of its text, or a line break, is not part of it.                   *)
Stripped(rest, n, open, close, row, memory) ==
  LET atBeg == close = rest[row].beg
      strip == /\ \E q \in Covered(rest) : q >= open /\ q < close /\ CH(q) # " "
               /\ open = Row.end \/ CH(open) = " "
               /\ atBeg \/ CH(close - 1) = " "
  IN  IF ~strip THEN [end |-> close + n, open |-> open, close |-> close, memo |-> memory]
      ELSE [end |-> close + n,
            open |-> IF open = Row.end THEN rest[2].beg ELSE open + 1,
            close |-> IF atBeg THEN Skip(rest[row - 1].end, Eot, Blank) ELSE close - 1,
            memo |-> memory]
CodeUpTo(rest, n, open, runs, fits, memory) ==
  IF fits = {} THEN [end |-> 0, open |-> open, memo |-> Remembered(memory, runs, TRUE)]
  ELSE Stripped(rest, n, open, Min(fits), LineOf(rest, Min(fits)),
                Remembered(memory, Restrict(runs, {q \in DOMAIN runs : q < Min(fits)}), FALSE))

Runs(rest, open) ==
  LET cells == {q \in Covered(rest) : q >= open}
      begins(q) == CH(q) = Tick /\ (q - 1 \notin cells \/ CH(q-1) # Tick)
  IN  [q \in {q \in cells : begins(q)} |-> Skip(q, rest[LineOf(rest, q)].end, {Tick}) - q]
Search(rest, n, open, runs, memory) ==
  CodeUpTo(rest, n, open, runs, {q \in DOMAIN runs : runs[q] = n}, memory)
CodeSpanOf(rest, n, open, memory) ==
  IF Hopeless(n, open, Known(memory, n), memory.ended)
  THEN [end |-> 0, open |-> open, memo |-> memory]
  ELSE Search(rest, n, open, Runs(rest, open), memory)
CodeSpan(p, memory) ==
  LET open == Skip(p, Row.end, {Tick})
  IN  CodeSpanOf(From(lines, spot.row), open - p, open, memory)

CollectCodeSpan ==
  /\ Collecting /\ CH(Here) = Tick
  /\ \E span \in {CodeSpan(Here, memo)} :
       /\ IF span.end = 0 THEN Collect(<<>>, span.open)
          ELSE Collect(Spanning(MarkAt(Tick, Here, span.open), MarkAt(Tick, span.close, span.end)),
                       span.end)
       /\ memo' = span.memo
  /\ UNCHANGED horizon

\* A ';' counts only when the mark before it is a '&'.
CollectEntity ==
  /\ Collecting /\ CH(Here) \in {"&", ";"}
  /\ LET counts == CH(Here) = "&" \/ (marks # <<>> /\ Last(marks).ch = "&")
         mark == Potential(MarkAt(CH(Here), Here, Here + 1), CH(Here) = "&", CH(Here) = ";")
     IN  Collect(IF counts THEN <<mark>> ELSE <<>>, Here + 1)
  /\ Unhelped

(* '<': raw HTML, whose marks have no width, or an autolink.               *)
Autolink(p, uri, after) ==
  LET kind(mark) == [mark EXCEPT !.auto = IF uri THEN "uri" ELSE "email"]
  IN  IF after = 0 THEN Collect(<<>>, p + 1)
      ELSE Collect(Spanning(kind(MarkAt("<", p, p + 1)), kind(MarkAt(">", after - 1, after))), after)
CollectAngle ==
  /\ Collecting /\ CH(Here) = "<"
  /\ \E html \in {HtmlAny(From(lines, spot.row), Here, horizon)}, uri \in {AutolinkUri(Here, LastEnd)} :
       /\ IF html.end # 0
          THEN Collect(Spanning(MarkAt("<", Here, Here), MarkAt(">", html.end, html.end)), html.end)
          ELSE Autolink(Here, uri # 0, IF uri # 0 THEN uri ELSE AutolinkEmail(Here, LastEnd))
       /\ horizon' = html.horizon
  /\ UNCHANGED memo

\* '[' or "![" and ']': what they are is md_resolve_links() to say.
CollectBracket ==
  /\ Collecting
  /\ CH(Here) \in {"[", "]"} \/ (CH(Here) = "!" /\ Here + 1 < Row.end /\ CH(Here + 1) = "[")
  /\ LET end == Here + IF CH(Here) = "!" THEN 2 ELSE 1
     IN  Collect(<<Potential(MarkAt(CH(Here), Here, end), CH(Here) # "]", CH(Here) = "]")>>, end)
  /\ Unhelped

(* What may become a permissive autolink; the dummy behind the mark keeps  *)
(* the ends of the line and will be its closer.                            *)
PermissiveMark(p) ==
  CASE CH(p) = "@" /\ p > Row.beg /\ IsAlnum(p - 1) /\ IsAlnum(p + 1)
         /\ Bytes(Row.end) - Bytes(p) > 3 -> MarkAt("@", p, p + 1)
    [] CH(p) = ":" /\ p > Row.beg /\ CH(p-1) \in {"http", "https", "ftp"}
         /\ p + 3 < Row.end /\ Matches(p + 1, <<"/", "/">>) -> MarkAt(":", p - 1, p + 3)
    [] CH(p) = "." /\ p > Row.beg /\ CH(p-1) = "www"
         /\ (p - 1 = Row.beg \/ CH(p-2) \in Blank \cup Punct) -> MarkAt(".", p - 1, p + 1)
    [] OTHER -> MarkAt("", p, p + 1)

(* Behind the "://" of a URL one character more is passed over.            *)
CollectPermissive ==
  /\ Collecting /\ CH(Here) \in {"@", ":", "."}
  /\ LET mark == PermissiveMark(Here)
     IN  Collect(IF mark.ch = "" THEN <<>>
                 ELSE <<Potential(mark, TRUE, FALSE), MarkAt("D", Row.beg, Row.end)>>,
                 IF mark.ch = ":" THEN mark.end + 1 ELSE mark.end)
  /\ Unhelped

CollectTilde ==
  /\ Collecting /\ CH(Here) = "~"
  /\ LET p == Here
         end == Skip(p, Row.end, {"~"})
         opens == p = Row.beg \/ CH(p-1) \in Blank \cup Punct
         closes == end = Row.end \/ CH(end) \in Blank \cup Punct
     IN  Collect(IF end - p > 2 \/ ~(opens \/ closes) THEN <<>>
                 ELSE <<Potential(MarkAt("~", p, end), opens, closes)>>, end)
  /\ Unhelped

(* Any other of the characters; a '|' counts in the rows of a table.       *)
CollectOther ==
  /\ Collecting
  /\ \/ CH(Here) \in {">", "|"} \/ (CH(Here) = "\\" /\ ~Escapable(Here))
     \/ CH(Here) = "!" /\ ~(Here + 1 < Row.end /\ CH(Here + 1) = "[")
  /\ Collect(IF table /\ CH(Here) = "|" THEN <<MarkAt("|", Here, Here + 1)>> ELSE <<>>, Here + 1)
  /\ Unhelped

CollectNextLine ==
  /\ pc = "collect" /\ Here >= Row.end /\ spot.row < Len(lines)
  /\ spot' = [spot EXCEPT !.row = @ + 1, !.off = lines[spot.row + 1].beg]
  /\ UNCHANGED <<blockVars, lines, table, marks, memo, horizon, pairs, last, budget, out>>

-----------------------------------------------------------------------------
(* md_analyze_marks()                                                      *)

(* What a walk over the marks knows: the marks, the openers that wait on a *)
(* stack, the pairs of brackets, where it goes on behind a resolved span,  *)
(* and the end of the span it resolved last.                               *)
WalkFrom(ms) ==
  [marks |-> ms, pending |-> {}, pairs |-> <<>>, from |-> 1, lastEnd |-> lines[1].beg]

\* A resolved span is skipped with all it contains; only emphasis is not when
\* inEmphasis (MD_ANALYZE_NOSKIP_EMPH).
Bypass(w, m, inEmphasis) ==
  IF m.role = "opener" /\ ~(inEmphasis /\ m.ch \in {"*", "_", "~"})
  THEN [w EXCEPT !.from = m.mate + 1] ELSE w

\* The end of the span that the analysis of a mark has resolved.
Settled(w, m) ==
  IF m.role = "" THEN w
  ELSE [w EXCEPT !.lastEnd = IF m.role = "opener" THEN w.marks[m.mate].end ELSE m.end]

\* Step(walk, i) is the analysis of one of the chars.
Walk(ms, beg, end, chars, inEmphasis, Step(_, _)) ==
  LET analyzed(w, i) == LET next == Step(w, i) IN Settled(next, next.marks[i])
      visit(w, i) ==
        LET m == w.marks[i]
        IN  IF i < w.from THEN w
            ELSE IF m.role # "" THEN Bypass(w, m, inEmphasis)
            ELSE IF m.ch \notin chars \/ m.beg < w.lastEnd THEN w
            ELSE analyzed(w, i)
  IN  FoldLeft(visit, WalkFrom(ms), [k \in 1 .. end - beg |-> beg + k - 1])

\* md_analyze_bracket(): the pairs, ordered by their closers.
AnalyzeBracket(w, i) ==
  LET o == Max(w.pending)
  IN  IF w.marks[i].opens
      THEN [w EXCEPT !.pending = @ \cup {i},
                     !.marks = IF w.pending = {} THEN @ ELSE [@ EXCEPT ![o].nested = TRUE]]
      ELSE IF w.pending = {} THEN w
      ELSE [w EXCEPT !.pending = @ \ {o}, !.pairs = Append(@, o),
                     !.marks[o].mate = i, !.marks[i].mate = o]

\* md_analyze_entity()
AnalyzeEntity(w, i) ==
  IF w.marks[i].ch = "&" /\ w.marks[i+1].ch = ";"
     /\ Entity(text, w.marks[i].beg, w.marks[i+1].end) # 0
  THEN [w EXCEPT !.marks = [Resolve(@, i, i + 1) EXCEPT ![i].end = w.marks[i+1].end]]
  ELSE w

AnalyzeBoundary(w, i) == [w EXCEPT !.marks[i].role = "plain"]

Length(m) == m.end - m.beg
Await(w, i) == IF w.marks[i].opens THEN [w EXCEPT !.pending = @ \cup {i}] ELSE w

\* Mutant: no rollback.
Span_KeepsOpeners(w, o, c) == [w EXCEPT !.marks = Resolve(@, o, c)]

\* md_rollback() and md_resolve_range(): openers inside the span are dropped.
Span(w, o, c) ==
  [w EXCEPT !.pending = {m \in @ : m < o}, !.marks = Resolve(@, o, c)]

(* md_split_emph_mark(): the last n characters of a run become a mark of   *)
(* their own, in the place of one of its dummies.                          *)
Split(ms, i, n) ==
  LET rest == i + Length(ms[i]) - n
  IN  [ms EXCEPT ![rest] = [ms[i] EXCEPT !.beg = ms[i].end - n],
                 ![i].end = ms[i].end - n]

(* md_analyze_emph(): the rule of three decides which openers will do.     *)
Fits(o, c) ==
  /\ o.ch = c.ch
  /\ (o.opens /\ o.closes) \/ (c.opens /\ c.closes) => {o.mod, c.mod} # {1, 2}

AnalyzeEmph(w, i) ==
  LET closer == w.marks[i]
      fitting == {m \in w.pending : Fits(w.marks[m], closer)}
      o == Max(fitting)
      n == Length(w.marks[o])
      k == Length(closer)
  IN  IF ~closer.closes \/ fitting = {} THEN Await(w, i)
      ELSE IF n > k THEN Span([w EXCEPT !.marks = Split(@, o, k)], o + n - k, i)
      ELSE IF n < k THEN Span([w EXCEPT !.marks = Split(@, i, k - n)], o, i)
      ELSE Span(w, o, i)

\* md_analyze_tilde()
AnalyzeTilde(w, i) ==
  LET same == {m \in w.pending : /\ w.marks[m].ch = "~"
                                 /\ Length(w.marks[m]) = Length(w.marks[i])}
  IN  IF w.marks[i].closes /\ same # {} THEN Span(w, Max(same), i) ELSE Await(w, i)

AnalyzeDelimiter(w, i) == IF w.marks[i].ch = "~" THEN AnalyzeTilde(w, i) ELSE AnalyzeEmph(w, i)

-----------------------------------------------------------------------------
(* md_analyze_permissive_autolink()                                        *)

\* md_scan_left_for_resolved_mark() and its sister: the role of the resolved
\* mark at position off, as far as a scan from mark i gets.
LeftRole(ms, i, off) ==
  LET stops == {k \in 1 .. i : /\ ms[k].ch # "D" /\ ms[k].beg <= off
                               /\ ms[k].role # "" \/ ms[k].end <= off}
      m == ms[Max(stops)]
  IN  IF stops = {} THEN "" ELSE IF off < m.end THEN m.role ELSE ""
RightRole(ms, i, off) ==
  LET stops == {k \in i .. Len(ms) : /\ ms[k].ch # "D" /\ ms[k].end > off
                                     /\ ms[k].role # "" \/ ms[k].beg > off}
      m == ms[Min(stops)]
  IN  IF stops = {} THEN "" ELSE IF m.beg <= off THEN m.role ELSE ""

\* URL_MAP: host, path, query and fragment.
UrlMap ==
  <<[start |-> "",  delim |-> ".", others |-> {".", "-", "_"}, least |-> 2],
    [start |-> "/", delim |-> "/", others |-> {"/", ".", "-", "_"}, least |-> 0],
    [start |-> "?", delim |-> "&", others |-> {"&", ".", "-", "+", "_", "=", "(", ")"}, least |-> 1],
    [start |-> "#", delim |-> "", others |-> {".", "-", "+", "_"}, least |-> 1]>>

(* One component of a URL that may begin at end: where it ends, or 0 when  *)
(* the URL fails there.                                                    *)
UrlComponent(ms, i, end, url) ==
  LET row == ms[i+1]                     \* the dummy
      beg == IF url.start = "" THEN end ELSE end + 1
      begins == url.start = "" \/ (/\ end < row.end /\ CH(end) = url.start
                                   /\ url.least > 0 => beg < row.end /\ IsAlnum(beg))
      depth[q \in beg .. row.end] ==
        IF q = beg THEN 0
        ELSE depth[q-1] + IF CH(q-1) = "(" THEN 1 ELSE IF CH(q-1) = ")" THEN -1 ELSE 0
      good(q) ==
        \/ IsAlnum(q)
        \/ /\ CH(q) \in url.others /\ RightRole(ms, i, q) = ""
           /\ CH(q) = "(" \/ (q > row.beg /\ (IsAlnum(q-1) \/ CH(q-1) = ")"))
           /\ CH(q) = ")" \/ (q + 1 < row.end /\ (IsAlnum(q+1) \/ CH(q+1) = "("))
           /\ CH(q) = ")" => depth[q] > 0
      stop == First(beg, row.end, LAMBDA q : ~good(q))
      parts == Cardinality({q \in beg .. stop - 1 : CH(q) = url.delim})
                 + IF \E q \in beg .. stop - 1 : IsAlnum(q) THEN 1 ELSE 0
      slash == url.start = "/" /\ stop < row.end /\ CH(stop) = "/"
  IN  IF ~begins THEN end
      ELSE IF parts < url.least \/ depth[stop] # 0 THEN 0
      ELSE IF slash THEN stop + 1 ELSE stop

AnalyzePermissive(w, i) ==
  LET ms == w.marks
      mark == ms[i]
      row == ms[i+1]
      user(q) == \/ IsAlnum(q)
                 \/ /\ q > row.beg /\ IsAlnum(q-1) /\ CH(q) \in {".", "-", "_", "+"}
                    /\ LeftRole(ms, i, q) = "" /\ IsAlnum(q+1)
      users == {b \in row.beg .. mark.beg : \A q \in b .. mark.beg - 1 : user(q)}
      beg == IF mark.ch = "@" THEN Min(users) ELSE mark.beg
      kinds == IF mark.ch = "@" THEN 1 ELSE 4
      ends[k \in 0 .. kinds] ==
        IF k = 0 THEN mark.end
        ELSE IF ends[k-1] = 0 THEN 0 ELSE UrlComponent(ms, i, ends[k-1], UrlMap[k])
      end == ends[kinds]
      leftOk == \/ beg = row.beg \/ CH(beg-1) \in Blank \cup {"(", "{", "["}
                \/ CH(beg-1) \in {"*", "_", "~"} /\ LeftRole(ms, i, beg - 1) = "opener"
      rightOk == \/ end = row.end \/ CH(end) \in Space \cup {")", "}", "]", ".", "!", "?", ",", ";"}
                 \/ RightRole(ms, i, end) = "closer"
      linked == [ms EXCEPT ![i].beg = beg, ![i].end = beg,
                           ![i+1].beg = end, ![i+1].end = end, ![i+1].ch = mark.ch]
  IN  IF (mark.ch = "@" => beg < mark.beg) /\ leftOk /\ end # 0 /\ rightOk
      THEN [w EXCEPT !.marks = Resolve(linked, i, i + 1)]
      ELSE w

(* md_analyze_link_contents() of the marks from .. to-1.                   *)
AnalyzeContents(ms, from, to) ==
  LET entities == Walk(ms, from, to, {"&"}, FALSE, AnalyzeEntity).marks
      emphasis == Walk(entities, from, to, {"*", "_", "~"}, FALSE, AnalyzeDelimiter).marks
  IN  Walk(emphasis, from, to, {"@", ":", "."}, TRUE, AnalyzePermissive).marks

-----------------------------------------------------------------------------
(* md_resolve_links()                                                      *)

LinkAttr(dest, title, auto) == [dest |-> dest, title |-> title, auto |-> auto]
NotLinked(left) == [is |-> FALSE, budget |-> left]

(* md_is_link_reference(): the definition of the label in b .. e-1, and    *)
(* what is left of the budget for the output of definitions.               *)
Cost(def) ==
  Size(def.label, 1, Len(def.label) + 1) + Size(text, def.dest.beg, def.dest.end)
    + Size(def.title, 1, Len(def.title) + 1)
DefinedLink(def) ==
  LinkAttr(SubSeq(text, def.dest.beg, def.dest.end - 1), def.title, FALSE)
\* Mutant: the budget is not spent.
Afforded_ForFree(def, cost) ==
  IF cost < budget THEN [is |-> TRUE, attr |-> DefinedLink(def), budget |-> budget]
  ELSE NotLinked(0)

Afforded(def, cost) ==
  IF cost < budget THEN [is |-> TRUE, attr |-> DefinedLink(def), budget |-> budget - cost]
  ELSE NotLinked(0)
ReferenceTo(found) ==
  IF budget = 0 \/ found = 0 THEN NotLinked(budget)
  ELSE Afforded(build.defs[found], Cost(build.defs[found]))
Reference(b, e) ==
  ReferenceTo(Lookup(build.defs, Merge(lines, b + (IF CH(b) = "!" THEN 2 ELSE 1), e - 1, " ")))

(* What the next pair of brackets is: end is where its link ends and taken *)
(* the number of pairs it takes.                                           *)
Opener == marks[Head(pairs)]
OpenersCloser == marks[Opener.mate]

\* Mutant: a code span or raw HTML that the end of the link cuts is not seen.
Crossed_Unseen(after) == FALSE

Crossed(after) ==
  \E k \in Opener.mate + 1 .. Len(marks) :
    /\ marks[k].role = "opener" /\ marks[k].beg < after
    /\ marks[marks[k].mate].beg >= after
SpecLink(spec) ==
  IF spec.after = 0 \/ Crossed(spec.after) THEN NotLinked(budget)
  ELSE [is |-> TRUE, end |-> spec.after, taken |-> 1, budget |-> budget,
        attr |-> LinkAttr(SubSeq(text, spec.dest.beg, spec.dest.end - 1), spec.title, FALSE)]
Labelled(ref, adjacent, end) ==
  IF ref.is THEN [is |-> TRUE, end |-> end, taken |-> IF adjacent THEN 2 ELSE 1,
                  budget |-> ref.budget, attr |-> ref.attr]
  ELSE ref
RefLink(adjacent, next) ==
  LET closer == marks[next.mate]
      full == adjacent /\ closer.beg > OpenersCloser.end + 1
  IN  IF (full /\ next.nested) \/ (~full /\ Opener.nested)
      THEN NotLinked(budget)
      ELSE Labelled(IF full THEN Reference(next.beg, closer.end)
                    ELSE Reference(Opener.beg, OpenersCloser.end),
                    adjacent, IF adjacent THEN closer.end ELSE OpenersCloser.end)
Inline(adjacent) ==
  IF ~adjacent /\ CH(OpenersCloser.end) = "("
  THEN SpecLink(InlineLink(lines, OpenersCloser.end)) ELSE NotLinked(budget)
LinkFor(adjacent, inline) ==
  IF inline.is THEN inline ELSE RefLink(adjacent, marks[pairs[2]])
LinkWhen(adjacent) == LinkFor(adjacent, Inline(adjacent))
LinkOf == LinkWhen(Len(pairs) > 1 /\ marks[pairs[2]].beg = OpenersCloser.end)

\* Inside what the last link or image has taken, or around a link.
Overtaken ==
  \/ \E kind \in {"[", "!"} : Opener.beg < last[kind].beg /\ OpenersCloser.end < last[kind].end
  \/ Opener.ch = "[" /\ Opener.beg < last["["].end

(* A permissive autolink that is all of the text of a link gives way.      *)
Suppressed(ms, o, c) ==
  IF /\ ms[o+1].role # "" /\ ms[o+1].beg = ms[o].end
     /\ ms[o+1].ch \in {"@", ":", "."}
     /\ ms[o+1].mate = c - 1 /\ ms[c-1].end = ms[c].beg
  THEN [k \in DOMAIN ms |-> IF k \in {o + 1, c - 1}
                            THEN [ms[k] EXCEPT !.ch = "D", !.role = ""] ELSE ms[k]]
  ELSE ms

OvertakenPair ==
  /\ pc = "links" /\ pairs # <<>> /\ Overtaken
  /\ pairs' = Tail(pairs)
  /\ UNCHANGED <<blockVars, lines, table, spot, marks, memo, horizon, last, budget, out>>

PlainPair ==
  /\ pc = "links" /\ pairs # <<>> /\ ~Overtaken
  /\ \E link \in {LinkOf} : ~link.is /\ budget' = link.budget
  /\ pairs' = Tail(pairs)
  /\ UNCHANGED <<blockVars, lines, table, spot, marks, memo, horizon, last, out>>

LinkPair ==
  /\ pc = "links" /\ pairs # <<>> /\ ~Overtaken
  /\ \E link \in {LinkOf} :
       LET o == Head(pairs)
           c == Opener.mate
           linked == [Resolve(marks, o, c) EXCEPT ![o].attr = link.attr, ![c].end = link.end]
       IN  /\ link.is
           /\ marks' = Suppressed(AnalyzeContents(linked, o + 1, c), o, c)
           /\ last' = [last EXCEPT ![Opener.ch] = [beg |-> Opener.beg, end |-> link.end]]
           /\ budget' = link.budget
           /\ pairs' = SubSeq(pairs, link.taken + 1, Len(pairs))
  /\ UNCHANGED <<blockVars, lines, table, spot, memo, horizon, out>>

-----------------------------------------------------------------------------
(* md_analyze_inlines()                                                    *)

InlinesInit ==
  /\ lines = <<>> /\ table = FALSE /\ spot = [row |-> 1, off |-> 1] /\ marks = <<>>
  /\ memo = NoMemo /\ horizon = NoHorizon /\ pairs = <<>>
  /\ last = [kind \in {"[", "!"} |-> NoRange] /\ budget = 0 /\ out = Output

(* Begin with the lines ls of a block, or of a row of a table.             *)
StartInlines(ls, inTable) ==
  /\ lines' = ls /\ table' = inTable
  /\ spot' = [row |-> 1, off |-> ls[1].beg]
  /\ marks' = <<>> /\ pairs' = <<>>
  /\ memo' = NoMemo
  /\ last' = [kind \in {"[", "!"} |-> NoRange]
  /\ pc' = "collect"
  /\ UNCHANGED <<horizon, budget>>

EndMark == Plain(MarkAt("end", Eot, Eot))

\* All marks are collected: pair the brackets.
AnalyzeBrackets ==
  /\ pc = "collect" /\ Here >= Row.end /\ spot.row = Len(lines)
  /\ LET all == Append(marks, EndMark)
         w == Walk(all, 1, Len(all) + 1, {"[", "]", "!"}, FALSE, AnalyzeBracket)
     IN  marks' = w.marks /\ pairs' = w.pairs
  /\ pc' = "links"
  /\ UNCHANGED <<text, pos, line, pivot, ctx, containers, build, lines, table, spot, memo,
                 horizon, last, budget, out>>

\* Mutant: the marks that no span came of are not skipped.
NextMark_Unresolved(ms, i, off) == Min({k \in i .. Len(ms) : ms[k].beg >= off})

\* Mutant: the mark that was just handled is not left behind.
NextMark_Again(ms, i, off) ==
  Min({k \in Max({1, i - 1}) .. Len(ms) : ms[k].role # "" /\ ms[k].beg >= off})

NextMark(ms, i, off) == Min({k \in i .. Len(ms) : ms[k].role # "" /\ ms[k].beg >= off})

AnalyzeRest ==
  /\ pc = "links" /\ pairs = <<>>
  /\ marks' = IF table THEN Walk(marks, 1, Len(marks) + 1, {"|"}, FALSE, AnalyzeBoundary).marks
              ELSE AnalyzeContents(marks, 1, Len(marks) + 1)
  /\ spot' = [row |-> 1, off |-> lines[1].beg, mark |-> NextMark(marks', 1, 0),
              type |-> "normal", hard |-> FALSE]
  /\ pc' = IF table THEN "cells" ELSE "inlines"
  /\ UNCHANGED <<text, pos, line, pivot, ctx, containers, build, lines, table, pairs, memo,
                 horizon, last, budget, out>>

-----------------------------------------------------------------------------
(* md_process_inlines()                                                    *)

Current == marks[spot.mark]
SpanEvents(type, n, detail) ==
  [k \in 1 .. n |-> IF Current.role = "opener" THEN Opens(type, detail) ELSE Closes(type, detail)]

\* Two characters of a run are strong emphasis, an odd one is emphasis.
EmphasisEvents(off) ==
  LET n == Current.end - off
      em == SpanEvents("em", n % 2, NoDetail)
      strong == SpanEvents("strong", n \div 2, NoDetail)
  IN  IF Current.role = "opener" THEN em \o strong ELSE strong \o em

(* The dest of an autolink is the text between its marks.                  *)
AutolinkEvents(m) ==
  LET opener == IF m.role = "opener" THEN m ELSE marks[m.mate]
      closer == marks[opener.mate]
      prefix == CASE opener.ch = "." -> <<"http://">>
                  [] opener.ch = "@" \/ opener.auto = "email" -> <<"mailto:">>
                  [] OTHER -> <<>>
      dest == prefix \o SubSeq(text, opener.end, closer.beg - 1)
  IN  IF m.role = "opener" \/ m.valid
      THEN SpanEvents("a", 1, LinkAttr(dest, <<>>, TRUE)) ELSE <<>>

(* What the mark adds to the output.                                       *)
MarkEvents(m, off) ==
  CASE m.ch = "\\" -> IF CH(m.beg + 1) = "\n" THEN <<>> ELSE <<Says(spot.type, <<CH(m.beg + 1)>>)>>
    [] m.ch = Tick -> SpanEvents("codespan", 1, NoDetail)
    [] m.ch \in {"*", "_"} -> EmphasisEvents(off)
    [] m.ch = "~" -> SpanEvents("del", 1, NoDetail)
    [] m.ch \in {"[", "!", "]"} ->
         LET opener == IF m.ch = "]" THEN marks[m.mate] ELSE m
         IN  SpanEvents(IF opener.ch = "!" THEN "img" ELSE "a", 1, opener.attr)
    [] m.ch \in {"@", ":", "."} \/ (m.ch \in {"<", ">"} /\ m.auto # "") -> AutolinkEvents(m)
    [] m.ch = "&" -> <<Says("entity", SubSeq(text, m.beg, m.end - 1))>>
    [] OTHER -> <<>>

TypeAfter(m) ==
  IF m.ch = Tick THEN IF m.role = "opener" THEN "code" ELSE "normal"
  ELSE IF m.ch \in {"<", ">"} /\ m.auto = ""
  THEN IF m.role = "opener" THEN "html" ELSE "normal"
  ELSE spot.type

(* The text up to the next mark or the end of the line, and the mark when  *)
(* the text has reached it.                                                *)
ProcessText ==
  /\ pc = "inlines" /\ spot.off < Row.end
  /\ LET m == Current
         upto == Max({spot.off, Min({Row.end, m.beg})})
         said == IF upto = spot.off THEN <<>>
                 ELSE <<Says(spot.type, SubSeq(text, spot.off, upto - 1))>>
         behind == CHOOSE r \in spot.row .. Len(lines) + 1 :
                     (r > Len(lines) \/ lines[r].end >= m.end)
                     /\ \A earlier \in spot.row .. r - 1 : lines[earlier].end < m.end
     IN  IF upto < m.beg \/ m.ch = "end"
         THEN /\ out' = RenderAll(out, said)
              /\ spot' = [spot EXCEPT !.off = upto]
              /\ marks' = marks
         ELSE /\ out' = RenderAll(out, said \o MarkEvents(m, upto))
              /\ spot' = [row |-> IF m.ch = "]" THEN behind ELSE spot.row, off |-> m.end,
                          mark |-> NextMark(marks, spot.mark + 1, m.end), type |-> TypeAfter(m),
                          hard |-> spot.hard \/ (m.ch = "\\" /\ CH(m.beg + 1) = "\n")]
              /\ marks' = IF m.role = "opener" THEN [marks EXCEPT ![m.mate].valid = TRUE] ELSE marks
  /\ UNCHANGED <<blockVars, lines, table, pairs, memo, horizon, last, budget>>

(* The end of a line: blanks are kept in code and in raw HTML; elsewhere   *)
(* two spaces make a hard break.                                           *)
BreakLine ==
  /\ pc = "inlines" /\ spot.off >= Row.end /\ spot.off < LastEnd
  /\ LET end == Skip(spot.off, IF spot.type = "html" THEN LastEnd ELSE Eot, Blank)
         blanks == IF end = spot.off THEN <<>>
                   ELSE <<Says(spot.type, SubSeq(text, spot.off, end - 1))>>
         twoSpaces == /\ end >= Row.end + 2 /\ CH(end) = "\n"
                      /\ CH(end-1) = " " /\ CH(end-2) = " "
         break == Says(IF spot.hard \/ twoSpaces THEN "br" ELSE "softbr", <<"\n">>)
     IN  out' = RenderAll(out, CASE spot.type = "code" ->
                                      IF end = Row.end THEN <<Says("code", <<" ">>)>> ELSE blanks
                                 [] spot.type = "html" -> Append(blanks, Says("html", <<"\n">>))
                                 [] OTHER -> <<break>>)
  /\ spot' = [spot EXCEPT !.row = @ + 1, !.off = lines[spot.row + 1].beg, !.hard = FALSE]
  /\ UNCHANGED <<blockVars, lines, table, marks, pairs, memo, horizon, last, budget>>

EndInlines ==
  /\ pc = "inlines" /\ spot.off >= Row.end /\ spot.off >= LastEnd
  /\ pc' = "tasks"
  /\ UNCHANGED <<text, pos, line, pivot, ctx, containers, build, inlineVars>>

InlinePhase ==
  \/ CollectEscape \/ CollectEmphasis \/ CollectCodeSpan \/ CollectEntity \/ CollectAngle
  \/ CollectBracket \/ CollectPermissive \/ CollectTilde \/ CollectOther \/ CollectNextLine
  \/ AnalyzeBrackets \/ OvertakenPair \/ PlainPair \/ LinkPair \/ AnalyzeRest
  \/ ProcessText \/ BreakLine \/ EndInlines
=============================================================================
