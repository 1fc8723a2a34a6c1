---------------------------- MODULE MarkdownText ----------------------------
(***************************************************************************)
(* The text md4c parses and the recognisers that its block phase and its   *)
(* inline phase share (src/src/md4c.c).                                    *)
(*                                                                         *)
(* The text is a sequence of tokens: every character is a token, but a run *)
(* of letters is one token, a member of Words, Width bytes long.  A        *)
(* position p stands for the C offset of the same character plus one, and  *)
(* ends are exclusive as in C.  A recogniser returns the position where    *)
(* what it found ends, or 0 (a record with end 0) when it found nothing.   *)
(***************************************************************************)
EXTENDS Integers, Sequences, FiniteSets, FiniteSetsExt, SequencesExt, TLC

CONSTANTS
  Width,        \* the length of each word in bytes
  Fold,         \* the case folding of the words that have one
  Hash(_)       \* md_link_label_hash: any function of the label it reads

ASSUME WidthAssumption == \A w \in DOMAIN Width : Width[w] \in Nat \ {0}

VARIABLE text   \* ctx->text

Words == DOMAIN Width
Tick == "tick"                             \* the backquote, which SANY cannot read
Digits == {"0", "1", "2", "3", "4", "5", "6", "7", "8", "9"}
Blank == {" ", "\t"}
Space == Blank \cup {"\n"}
Punct == {"!", "\"", "#", "$", "%", "&", "'", "(", ")", "*", "+", ",", "-",
          ".", "/", ":", ";", "<", "=", ">", "?", "@", "[", "\\", "]", "^",
          "_", Tick, "{", "|", "}", "~"}

Eot == Len(text) + 1                       \* ctx->size
CH(p) == IF p \in 1 .. Len(text) THEN text[p] ELSE ""
IsAlpha(p) == CH(p) \in Words
IsAlnum(p) == CH(p) \in Words \cup Digits
IsBlank(p) == CH(p) \in Blank
AtEol(p) == p >= Eot \/ CH(p) = "\n"

\* The bytes of s[from .. to-1]; those before position p: its C offset.
Size(s, from, to) ==
  LET sum[i \in from .. to] ==
        IF i = from THEN 0 ELSE sum[i-1] + IF s[i-1] \in Words THEN Width[s[i-1]] ELSE 1
  IN  IF from >= to THEN 0 ELSE sum[to]
Bytes(p) == Size(text, 1, p)

\* The first position of from .. to-1 that satisfies P, or to.
First(from, to, P(_)) ==
  LET hits == {p \in from .. to - 1 : P(p)}
  IN  IF hits = {} THEN IF from > to THEN from ELSE to ELSE Min(hits)

Each(s, f(_)) == [i \in DOMAIN s |-> f(s[i])]

Skip(from, to, S) == First(from, to, LAMBDA p : CH(p) \notin S)
LineEnd(p) == First(p, Eot, LAMBDA q : CH(q) = "\n")
Matches(p, str) == \A i \in 1 .. Len(str) : CH(p + i - 1) = str[i]

(* Position p, reached by a scan that began at b, is behind a backslash.   *)
Escaped(b, p) ==
  LET esc[i \in b .. p] == i > b /\ CH(i-1) = "\\" /\ ~esc[i-1]
                              /\ (CH(i) \in Punct \/ CH(i) = "\n")
  IN  esc[p]

-----------------------------------------------------------------------------
(* Lines: records with the ends beg and end of what a block keeps of them. *)

Covered(lines) == UNION {lines[i].beg .. lines[i].end - 1 : i \in DOMAIN lines}

\* md_lookup_line: the line of a position; in a gap, the line behind it.
LineOf(lines, p) ==
  LET behind == {i \in DOMAIN lines : p <= lines[i].end}
  IN  IF behind = {} THEN 0 ELSE Min(behind)

From(lines, i) == SubSeq(lines, i, Len(lines))

\* md_merge_lines: the tokens of b .. e-1, a line break replaced by br.
Merge(lines, b, e, br) ==
  LET piece(i) == [k \in 1 .. Max({0, Min({e, lines[i].end})
                                      - Max({b, lines[i].beg})}) |->
                      text[Max({b, lines[i].beg}) + k - 1]]
      sofar[i \in 0 .. Len(lines)] ==
        IF i = 0 THEN <<>>
        ELSE sofar[i-1] \o piece(i)
               \o IF b <= lines[i].end /\ lines[i].end < e THEN <<br>> ELSE <<>>
  IN  sofar[Len(lines)]

-----------------------------------------------------------------------------
(* Raw HTML.                                                               *)

Name == Words \cup Digits \cup {"-"}

(* One step of the automaton of md_is_html_tag().  "open" and "close" are  *)
(* the tag name of an opening and of a closing tag; 0, 1, 2, 3, 41, 42, 43 *)
(* are the attribute states of the code, here strings, and "name" is the   *)
(* inside of an attribute name; "/" has seen a slash that needs its '>'.   *)
AfterName(state, c) ==                     \* c may be the end of a name or value
  CASE state = "open" /\ c \notin Name -> "0"
    [] state = "close" /\ c \notin Name -> "-1"
    [] state = "name" /\ c \notin Name \cup {"_", ".", ":"} -> "2"
    [] state = "41" /\ c \in Blank \cup {"\"", "'", "=", "<", ">", Tick} -> "0"
    [] OTHER -> state
AttributeStep(s, c) ==
  CASE s \in {"done", "fail", "open", "close", "name"} -> s
    [] s = "/" -> IF c = ">" THEN "done" ELSE "fail"
    [] s = "42" -> IF c = "'" THEN "0" ELSE s
    [] s = "43" -> IF c = "\"" THEN "0" ELSE s
    [] s = "41" -> IF c = "\n" THEN "1" ELSE s
    [] s = "0" /\ c \in Space -> "1"
    [] s # "0" /\ c \in Space -> s
    [] s = "3" -> CASE c = "\"" -> "43" [] c = "'" -> "42"
                    [] c \in {"=", "<", ">", Tick} -> "fail" [] OTHER -> "41"
    [] c = ">" -> "done"
    [] c = "/" -> "/"
    [] s \in {"1", "2"} /\ c \in Words \cup {"_", ":"} -> "name"
    [] s = "2" /\ c = "=" -> "3"
    [] OTHER -> "fail"
TagStep(state, c) == AttributeStep(AfterName(state, c), c)

(* md_is_html_tag(): the end of the tag at p.  In the block phase lines is *)
(* the rest of the one line the tag has to be on.                          *)
HtmlTag(lines, p) ==
  LET closer == CH(p+1) = "/"
      name == IF closer THEN p + 2 ELSE p + 1
      cells == {q \in Covered(lines) : q > name}
      breaks == {lines[i].end : i \in 1 .. Len(lines) - 1}
      scan == {q \in cells \cup breaks : q > name}
      run[q \in name .. lines[Len(lines)].end] ==
        IF q = name THEN IF closer THEN "close" ELSE "open"
        ELSE IF q \in breaks THEN TagStep(run[q-1], "\n")
        ELSE IF q \in cells THEN TagStep(run[q-1], CH(q)) ELSE run[q-1]
      ends == {q \in scan : run[q] = "done"}
  IN  IF name < lines[1].end /\ IsAlpha(name) /\ ends # {} THEN Min(ends) + 1 ELSE 0

(* md_scan_for_html_closer(): the end of str, looked for from p.  horizon  *)
(* is where an earlier scan for it gave up; [end, horizon] is returned.    *)
HtmlCloser(lines, p, str, horizon) ==
  LET last == lines[Len(lines)]
      hits == {q \in Covered(lines) : q >= p /\ Matches(q, str)
                  /\ q + Len(str) <= lines[LineOf(lines, q)].end}
      known == p < horizon /\ horizon >= last.end - Len(str)
      giveUp == Max({p, last.beg, last.end - Len(str) + 1})
  IN  IF known THEN [end |-> 0, horizon |-> horizon]
      ELSE IF hits = {} THEN [end |-> 0, horizon |-> giveUp]
      ELSE [end |-> Min(hits) + Len(str), horizon |-> horizon]

Horizons == {"comment", "instruction", "declaration", "cdata"}
Closer == [comment |-> <<"-", "-", ">">>, instruction |-> <<"?", ">">>,
           declaration |-> <<">">>, cdata |-> <<"]", "]", ">">>]
CdataOpen == <<"<", "!", "[", "CDATA", "[">>

(* md_is_html_comment() and its three sisters: where the search for the    *)
(* closer begins, or 0 when the construct does not begin at p.             *)
HtmlOpens(lines, p, kind) ==
  LET end == lines[1].end
  IN  CASE kind = "comment" ->
             IF p + 4 < end /\ Matches(p + 1, <<"!", "-", "-">>) THEN p + 2 ELSE 0
        [] kind = "instruction" ->
             IF p + 2 < end /\ CH(p+1) = "?" THEN p + 2 ELSE 0
        [] kind = "declaration" ->
             IF p + 2 < end /\ CH(p+1) = "!" /\ IsAlpha(p+2)
             THEN Skip(p + 3, end, Words) ELSE 0
        [] kind = "cdata" ->
             IF p + Len(CdataOpen) < end /\ Matches(p, CdataOpen)
             THEN p + Len(CdataOpen) ELSE 0

(* md_is_html_any(), which tries the five constructs in this order.        *)
TryHtml(before, lines, start, kind) ==
  LET found == HtmlCloser(lines, start, Closer[kind], before.horizon[kind])
  IN  IF before.end # 0 \/ start = 0 THEN before
      ELSE [end |-> found.end, horizon |-> [before.horizon EXCEPT ![kind] = found.horizon]]

HtmlAny(lines, p, horizon) ==
  LET try(before, kind) == TryHtml(before, lines, HtmlOpens(lines, p, kind), kind)
      tag == [end |-> HtmlTag(lines, p), horizon |-> horizon]
  IN  try(try(try(try(tag, "comment"), "instruction"), "declaration"), "cdata")

-----------------------------------------------------------------------------
(* Entities and autolinks.                                                 *)

HexDigits == Digits \cup {"a", "b", "c", "d", "e", "f", "A", "B", "C", "D", "E", "F"}

\* hex_val() and the value of a decimal digit
DigitValue == [d \in HexDigits |->
                 IF d \in Digits THEN CHOOSE n \in 0 .. 9 : ToString(n) = d
                 ELSE CASE d \in {"a", "A"} -> 10 [] d \in {"b", "B"} -> 11
                        [] d \in {"c", "C"} -> 12 [] d \in {"d", "D"} -> 13
                        [] d \in {"e", "E"} -> 14 [] d \in {"f", "F"} -> 15]

\* The value of a sequence of digits.
Number(digits, base) == FoldLeft(LAMBDA n, d : n * base + DigitValue[d], 0, digits)

(* md_is_entity_str(): the end of the entity at s[p], before max, or 0.    *)
Entity(s, p, max) ==
  LET at(i) == IF i < max THEN s[i] ELSE ""
      numeric == at(p+1) = "#"
      hex == numeric /\ at(p+2) \in {"x", "X"}
      beg == p + IF hex THEN 3 ELSE IF numeric THEN 2 ELSE 1
      chars == IF hex THEN HexDigits ELSE IF numeric THEN Digits ELSE Words \cup Digits
      end == First(beg, max, LAMBDA i : s[i] \notin chars)
      most == IF hex THEN 6 ELSE IF numeric THEN 7 ELSE 48
  IN  IF /\ at(p) = "&" /\ at(end) = ";"
         /\ Size(s, beg, end) \in (IF numeric THEN 1 ELSE 2) .. most
         /\ numeric \/ at(beg) \in Words
      THEN end + 1 ELSE 0

(* md_is_autolink_uri(): <scheme:path>.                                    *)
AutolinkUri(p, max) ==
  LET colon == First(p + 2, max, LAMBDA q : CH(q) = ":")
      close == First(colon, max, LAMBDA q : CH(q) = ">")
  IN  IF /\ colon < max /\ close < max
         /\ Bytes(colon) - Bytes(p) \in 3 .. 32
         /\ \A q \in p + 2 .. colon - 1 : CH(q) \in Name \cup {"+", "."}
         /\ \A q \in colon .. close : CH(q) \notin Blank \cup {"\n", "<"}
      THEN close + 1 ELSE 0

UserChars == (Punct \ {"\"", "(", ")", ",", ":", ";", "<", ">", "@", "[", "\\", "]"})
               \cup Words \cup Digits

(* md_is_autolink_email(): <user@label.label>, a label of 63 at most.      *)
AutolinkEmail(p, max) ==
  LET at == Skip(p + 1, max, UserChars)
      close == Skip(at + 1, max, Name \cup {"."})
  IN  IF /\ at > p + 1 /\ at < max /\ CH(at) = "@"
         /\ close > at + 1 /\ close < max /\ CH(close) = ">"
         /\ \A q \in at + 1 .. close - 1 :
              CH(q) \in {"-", "."} =>
                 /\ q > at + 1 /\ CH(q-1) # "."
                 /\ CH(q) = "." => CH(q-1) # "-"
                 /\ q < close - 1
         /\ \A q \in at + 1 .. close - 1 : Size(text, q, Skip(q, close, Name)) <= 63
      THEN close + 1 ELSE 0

-----------------------------------------------------------------------------
(* Links.                                                                  *)

NoRange == [beg |-> 0, end |-> 0]
MaxLabel == 999

(* md_is_link_label(): the label whose '[' is at p, the beginning of the   *)
(* first line; beg and end are its contents without outer white space.  An *)
(* escaped character and its backslash, and a line break, count as one of  *)
(* the MaxLabel characters; the letters of a word are taken to be ASCII.   *)
LinkLabel(lines, p) ==
  LET cells == {q \in Covered(lines) : q > p}
      close == {q \in cells : CH(q) = "]" /\ ~Escaped(p + 1, q)}
      inside == {q \in cells : q < Min(close)}
      solid == {q \in inside : ~IsBlank(q)}
      read == Merge(lines, p + 1, Max(inside) + 1, "\n")
      escaped == {q \in inside : Escaped(p + 1, q)}
  IN  IF /\ CH(p) = "[" /\ close # {}
         /\ \A q \in inside : CH(q) = "[" => Escaped(p + 1, q)
         /\ solid # {}
         /\ Size(read, 1, Len(read) + 1) - Cardinality(escaped) <= MaxLabel
      THEN [after |-> Min(close) + 1, beg |-> Min(solid), end |-> Max(solid) + 1]
      ELSE [after |-> 0, beg |-> 0, end |-> 0]

NotFound == [after |-> 0, beg |-> 0, end |-> 0]

(* md_is_link_destination_A() and _B(): after is where the destination     *)
(* ends, beg and end are its contents.                                     *)
Live(p, q, max) == ~Escaped(p, q) /\ ~(CH(q) = "\\" /\ q + 1 < max /\ CH(q+1) \in Punct)

AngledTo(p, max, close) ==
  IF close < max /\ CH(close) = ">" THEN [after |-> close + 1, beg |-> p + 1, end |-> close]
  ELSE NotFound

\* level[q]: the parentheses open at q.
BareTo(p, end, level) ==
  IF end > p /\ level[end] = 0 /\ \A q \in p .. end : level[q] <= 32
  THEN [after |-> end, beg |-> p, end |-> end] ELSE NotFound
BareDestination(p, max) ==
  LET level[q \in p .. max] ==
        IF q = p THEN 0
        ELSE level[q-1] + IF ~Live(p, q-1, max) THEN 0
                          ELSE CASE CH(q-1) = "(" -> 1 [] CH(q-1) = ")" -> -1 [] OTHER -> 0
      ends(q) == CH(q) \in Space \/ (CH(q) = ")" /\ level[q] = 0)
  IN  BareTo(p, First(p, max, LAMBDA q : Live(p, q, max) /\ ends(q)), level)

LinkDestination(p, max) ==
  IF p < max /\ CH(p) = "<"
  THEN AngledTo(p, max, First(p + 1, max, LAMBDA q : Live(p, q, max) /\ CH(q) \in {"\n", "<", ">"}))
  ELSE BareDestination(p, max)

\* The first non-blank from p on, or the beginning of the next line: 0 when
\* there is no next line.
OnOrNext(lines, row, p) ==
  IF p < lines[row].end THEN [row |-> row, off |-> p]
  ELSE [row |-> row + 1, off |-> IF row < Len(lines) THEN lines[row + 1].beg ELSE 0]
Onwards(lines, row, p) == OnOrNext(lines, row, Skip(p, lines[row].end, Blank))

TitleCloser == [c \in {"\"", "'", "("} |-> IF c = "(" THEN ")" ELSE c]

(* md_is_link_title(): the title that may follow p.  Its search does not   *)
(* go back to the beginning of a line, so it also reads what precedes it.  *)
TitleFrom(open, last, close) ==
  IF /\ close < last
     /\ CH(open) = "(" => \A q \in open + 1 .. close - 1 : CH(q) = "(" => Escaped(open + 1, q)
  THEN [after |-> close + 1, beg |-> open + 1, end |-> close] ELSE NotFound
TitleAt(open, last) ==
  TitleFrom(open, last, First(open + 1, last, LAMBDA q : CH(q) = TitleCloser[CH(open)]
                                                           /\ ~Escaped(open + 1, q)))
LinkTitle(lines, p) ==
  LET open == Onwards(lines, LineOf(lines, p), p).off
  IN  IF open # 0 /\ open # p /\ CH(open) \in DOMAIN TitleCloser
      THEN TitleAt(open, lines[Len(lines)].end) ELSE NotFound

NoDefinition == [lines |-> 0]

(* md_is_link_reference_definition(): the definition that lines begin with *)
(* and the number of lines it takes.  A title that something follows on    *)
(* its last line is no title, but the position is already behind it.       *)
DefinitionWith(lines, label, row, dest, title, titleRow) ==
  LET titled == title.after # 0 /\ title.after >= lines[titleRow].end
      at == IF title.after # 0 THEN title.after ELSE dest.after
  IN  IF titled \/ at >= lines[row].end
      THEN [lines |-> IF titled THEN titleRow ELSE row,
            label |-> Merge(lines, label.beg, label.end, " "),
            dest |-> [beg |-> dest.beg, end |-> dest.end],
            title |-> IF titled THEN Merge(lines, title.beg, title.end, "\n") ELSE <<>>,
            from |-> lines[1].beg,
            upto |-> IF titled THEN title.after ELSE dest.after]
      ELSE NoDefinition
DefinitionTo(lines, label, row, dest, title) ==
  IF dest.after = 0 THEN NoDefinition
  ELSE DefinitionWith(lines, label, row, dest, title, LineOf(lines, title.end))
DefinitionFrom(lines, label, at) ==
  LET dest == LinkDestination(at.off, lines[at.row].end)
  IN  IF at.row > Len(lines) THEN NoDefinition
      ELSE DefinitionTo(lines, label, at.row, dest, LinkTitle(From(lines, at.row), dest.after))
DefinitionOf(lines, label) ==
  LET row == LineOf(lines, label.after)
  IN  IF label.after # 0 /\ label.after < lines[row].end /\ CH(label.after) = ":"
      THEN DefinitionFrom(lines, label, Onwards(lines, row, label.after + 1))
      ELSE NoDefinition
Definition(lines) == DefinitionOf(lines, LinkLabel(lines, lines[1].beg))

(* md_is_inline_link_spec(): the "(destination title)" at p.               *)
NoSpec == [after |-> 0]
SpecTo(lines, dest, title, close) ==
  IF dest.after # 0 /\ close # 0 /\ CH(close) = ")"
  THEN [after |-> close + 1, dest |-> [beg |-> dest.beg, end |-> dest.end],
        title |-> IF title.after = 0 THEN <<>> ELSE Merge(lines, title.beg, title.end, "\n")]
  ELSE NoSpec
SpecWith(lines, row, dest, title) ==
  SpecTo(lines, dest, title,
         IF title.after = 0 THEN Onwards(lines, row, dest.after).off
         ELSE Onwards(lines, LineOf(lines, title.end), title.after).off)
SpecFrom(lines, at) ==
  LET dest == LinkDestination(at.off, lines[at.row].end)
  IN  IF at.row > Len(lines) THEN NoSpec
      ELSE IF CH(at.off) = ")"
      THEN [after |-> at.off + 1, dest |-> [beg |-> at.off, end |-> at.off], title |-> <<>>]
      ELSE SpecWith(lines, at.row, dest, LinkTitle(From(lines, at.row), dest.after))
InlineLink(lines, p) ==
  LET row == LineOf(lines, p)
      at == Onwards(lines, row, p + 1)
  IN  IF at.row = row \/ AtEol(lines[row].end) THEN SpecFrom(lines, at) ELSE NoSpec

-----------------------------------------------------------------------------
(* The dictionary of reference definitions.                                *)

FoldWord(w) == IF w \in DOMAIN Fold THEN Fold[w] ELSE w

(* What md_link_label_hash() reads: white space before the label is        *)
(* skipped and every later run of it, one at the end included, is a space. *)
HashKey(label) ==
  LET key[i \in 0 .. Len(label)] ==
        IF i = 0 THEN <<>>
        ELSE IF label[i] \notin Space THEN Append(key[i-1], FoldWord(label[i]))
        ELSE IF key[i-1] = <<>> \/ key[i-1][Len(key[i-1])] = " " THEN key[i-1]
        ELSE Append(key[i-1], " ")
  IN  key[Len(label)]

(* What md_link_label_cmp() compares: it also takes the end of a label for *)
(* white space.                                                            *)
Compared(key) == IF key # <<>> /\ Last(key) = " " THEN Front(key) ELSE key
CompareKey(label) == Compared(HashKey(label))

(* md_lookup_ref_def() in the table of md_build_ref_def_hashtable(): a     *)
(* bucket whose definitions all have the label of its first one is that    *)
(* definition; any other is a sorted list searched by hash and label.      *)
Lookup(defs, label) ==
  LET size == (Len(defs) * 5) \div 4
      hash(l) == Hash(HashKey(l))
      bucket == {i \in DOMAIN defs : hash(defs[i].label) % size = hash(label) % size}
      same(i) == CompareKey(defs[i].label) = CompareKey(label)
      simple == \A i \in bucket : CompareKey(defs[i].label) = CompareKey(defs[Min(bucket)].label)
      found == {i \in bucket : same(i) /\ (simple \/ hash(defs[i].label) = hash(label))}
  IN  IF size = 0 \/ found = {} THEN 0 ELSE Min(found)
=============================================================================
