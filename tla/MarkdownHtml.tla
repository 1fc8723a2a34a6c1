---------------------------- MODULE MarkdownHtml ----------------------------
(***************************************************************************)
(* The HTML renderer (src/src/md4c-html.c): what the callbacks of md4c     *)
(* append to the output.  Inside the text of an image, which becomes the   *)
(* value of the attribute alt, the tags of spans are suppressed.           *)
(*                                                                         *)
(* The output is a sequence of tokens: those of the text, escaped, and one *)
(* for each piece of markup.                                               *)
(***************************************************************************)
EXTENDS MarkdownText

CONSTANT Named      \* ENTITY_MAP: the code points of the named entities

Output == [html |-> <<>>, images |-> 0]     \* MD_HTML

Opens(type, detail) == [event |-> "enter", type |-> type, detail |-> detail]
Closes(type, detail) == [event |-> "leave", type |-> type, detail |-> detail]
Says(type, tokens) == [event |-> "text", type |-> type, text |-> tokens]
NoDetail == [none |-> TRUE]

-----------------------------------------------------------------------------
(* Escaping and entities.                                                  *)

HtmlEscapes == ("&" :> "&amp;") @@ ("<" :> "&lt;") @@ (">" :> "&gt;") @@ ("\"" :> "&quot;")
UrlEscapes ==
  ("&" :> "&amp;") @@ ("\"" :> "%22") @@ ("'" :> "%27") @@ ("<" :> "%3C") @@ (">" :> "%3E")
    @@ ("[" :> "%5B") @@ ("]" :> "%5D") @@ ("\\" :> "%5C") @@ ("^" :> "%5E")
    @@ (Tick :> "%60") @@ ("{" :> "%7B") @@ ("|" :> "%7C") @@ ("}" :> "%7D")
    @@ (" " :> "%20") @@ ("\t" :> "%09") @@ ("\n" :> "%0A")

\* render_html_escaped() and render_url_escaped()
HtmlEscaped(s) == Each(s, LAMBDA c : IF c \in DOMAIN HtmlEscapes THEN HtmlEscapes[c] ELSE c)
UrlEscaped(s) == Each(s, LAMBDA c : IF c \in DOMAIN UrlEscapes THEN UrlEscapes[c] ELSE c)

\* render_utf8_codepoint(): a code point that is none becomes U+FFFD.
CodePoint(n) == <<"U+", ToString(IF n \in 1 .. 1114111 THEN n ELSE 65533)>>

\* entity_lookup(): a binary search over a sorted table.
EntityLookup(s) == IF s \in DOMAIN Named THEN Named[s] ELSE <<>>

(* render_entity(): the code points of an entity, none if it is unknown,   *)
(* in which case it is escaped like other text.                            *)
EntityPoints(s) ==
  LET hex == s[3] \in {"x", "X"}
      digits == SubSeq(s, IF hex THEN 4 ELSE 3, Len(s) - 1)
  IN  IF s[2] = "#" THEN <<Number(digits, IF hex THEN 16 ELSE 10)>> ELSE EntityLookup(s)
EntityText(s, escape(_)) ==
  IF EntityPoints(s) = <<>> THEN escape(s) ELSE FlattenSeq(Each(EntityPoints(s), CodePoint))

(* md_build_attribute(): the entities and the text of an attribute, without*)
(* the backslashes that escape.                                            *)
BuildAttribute(s, escapes) ==
  LET value[i \in 0 .. Len(s)] ==   \* from: what is read already; raw: behind a backslash
        IF i = 0 THEN [parts |-> <<>>, from |-> 1, raw |-> FALSE]
        ELSE
        LET done == value[i-1]
            entity == IF done.raw THEN 0 ELSE Entity(s, i, Len(s) + 1)
            backslash == /\ escapes /\ ~done.raw /\ s[i] = "\\" /\ i < Len(s)
                         /\ s[i+1] \in Punct \cup {"\n"}
        IN  IF i < done.from THEN done
            ELSE IF entity # 0
            THEN [done EXCEPT !.parts = Append(@, Says("entity", SubSeq(s, i, entity - 1))),
                              !.from = entity]
            ELSE IF backslash THEN [done EXCEPT !.raw = TRUE]
            ELSE [done EXCEPT !.parts = Append(@, Says("normal", <<s[i]>>)), !.raw = FALSE]
  IN  value[Len(s)].parts

\* render_attribute()
Attribute(s, escapes, escape(_)) ==
  FlattenSeq(Each(BuildAttribute(s, escapes),
                  LAMBDA p : IF p.type = "entity" THEN EntityText(p.text, escape) ELSE escape(p.text)))

-----------------------------------------------------------------------------
(* The callbacks.                                                          *)

TitleOf(d) ==
  IF d.title = <<>> THEN <<>>
  ELSE <<"\" title=\"">> \o Attribute(d.title, TRUE, HtmlEscaped)

\* enter_block_callback()
OpenBlock(type, d) ==
  CASE type = "ol" -> IF d.start = 1 THEN <<"<ol>">> ELSE <<"<ol start=", ToString(d.start), ">">>
    [] type = "li" -> IF d.task = "" THEN <<"<li>">>
                      ELSE <<"<li>", IF d.task = " " THEN "<input>" ELSE "<input checked>">>
    [] type = "code" -> IF d.lang = <<>> THEN <<"<pre>">>
                        ELSE <<"<pre lang=">> \o Attribute(d.lang, TRUE, HtmlEscaped) \o <<">">>
    [] type = "html" -> <<>>
    [] type = "h" -> <<"<h", ToString(d.level), ">">>
    [] type \in {"th", "td"} -> <<"<" \o type, d.align, ">">>
    [] OTHER -> <<"<" \o type \o ">">>

\* leave_block_callback()
CloseBlock(type, d) ==
  CASE type = "html" \/ type = "hr" -> <<>>
    [] type = "code" -> <<"</pre>">>
    [] type = "h" -> <<"</h", ToString(d.level), ">">>
    [] OTHER -> <<"</" \o type \o ">">>

\* enter_span_callback()
OpenSpan(type, d) ==
  CASE type = "a" -> <<"<a href=">> \o Attribute(d.dest, ~d.auto, UrlEscaped) \o TitleOf(d) \o <<">">>
    [] type = "img" -> <<"<img src=">> \o Attribute(d.dest, ~d.auto, UrlEscaped) \o <<" alt=">>
    [] type = "codespan" -> <<"<code>">>
    [] OTHER -> <<"<" \o type \o ">">>

\* leave_span_callback()
CloseSpan(type, d) ==
  CASE type = "img" -> TitleOf(d) \o <<"/>">>
    [] type = "codespan" -> <<"</code>">>
    [] OTHER -> <<"</" \o type \o ">">>

\* text_callback()
Text(type, s, inImage) ==
  CASE type = "br" -> <<IF inImage THEN " " ELSE "<br>">>
    [] type = "softbr" -> <<IF inImage THEN " " ELSE "\n">>
    [] type = "html" -> s
    [] type = "entity" -> EntityText(s, HtmlEscaped)
    [] OTHER -> HtmlEscaped(s)

Blocks == {"quote", "ul", "ol", "li", "hr", "h", "code", "html", "p", "table",
           "thead", "tbody", "tr", "th", "td"}

(* One callback.  The nesting level is tested before it grows and after it *)
(* shrinks, so that both ends of the outermost image are output.  A level  *)
(* below zero, behind an image that was never entered, counts as inside    *)
(* for breaks and as outside for tags.                                     *)
Render(out, e) ==
  LET write(s) == [out EXCEPT !.html = @ \o s]
      step == IF e.type # "img" THEN 0 ELSE IF e.event = "enter" THEN 1 ELSE -1
      level == out.images + step
  IN  IF e.event = "text" THEN write(Text(e.type, e.text, out.images # 0))
      ELSE IF e.type \in Blocks
      THEN write(IF e.event = "enter" THEN OpenBlock(e.type, e.detail)
                 ELSE CloseBlock(e.type, e.detail))
      ELSE IF e.event = "enter"
      THEN [write(IF out.images > 0 THEN <<>> ELSE OpenSpan(e.type, e.detail))
              EXCEPT !.images = level]
      ELSE [write(IF level > 0 THEN <<>> ELSE CloseSpan(e.type, e.detail))
              EXCEPT !.images = level]

RenderAll(out, events) == FoldLeft(Render, out, events)
=============================================================================
