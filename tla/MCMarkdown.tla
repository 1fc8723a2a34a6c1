------------------------------ MODULE MCMarkdown -----------------------------
(* Markdown.tla on small answers: sequences of at most three pieces of     *)
(* inline text, of at most three lines, and some longer ones.              *)
EXTENDS Markdown

\* a, b and c are running text; the other words are targets, titles, labels,
\* languages, names of tags, and what autolinks and CDATA begin with.
McRunning == {"a", "b", "c"}
McWidth ==
  [w \in McRunning \cup {"u", "t", "r", "R", "i", "x"} |-> 1]
    @@ ("js" :> 2) @@ ("div" :> 3) @@ ("amp" :> 3) @@ ("www" :> 3) @@ ("http" :> 4)
    @@ ("CDATA" :> 5) @@ ("script" :> 6) @@ ("huge" :> 600000)
McFold == "R" :> "r"
McHash(label) == Len(label)
McNamed == <<"&", "amp", ";">> :> <<38>>
McRawNames == {"script"}
McBlockNames == {"div"}
McLanguages == {"js"}

McPieces ==
  {<<"a">>, <<" ", "b", " ">>, <<"*">>, <<"*", "*">>, <<"_">>, <<"~">>, <<Tick>>, <<Tick, Tick>>,
   <<"[">>, <<"!", "[">>, <<"]", "(", "/", "u", ")">>, <<" ", " ", "\n">>,
   <<"<", "!", "-", "-">>, <<"-", "-", ">">>,
   <<"<", "i", ">">>, <<"\\">>, <<"[", "r", "]">>}
McLines ==
  {<<"a">>, <<>>, <<"-", " ", "b">>, <<"-">>, <<" ", " ", "c">>, <<" ", " ", " ", " ", "b">>,
   <<">", " ", "c">>, <<"1", ".", " ", "a">>, <<"-", "-", "-">>, <<"~", "~", "~">>,
   <<"<", "div", ">">>, <<"[", "r", "]", ":", " ", "/", "u">>,
   <<"|", "a", "|", "b">>, <<"|", "-", "|", "-">>}

UpTo3(S) == UNION {[1 .. n -> S] : n \in 1 .. 3}
Text3(ls) == FlattenSeq([i \in DOMAIN ls |-> Append(ls[i], "\n")])
McDefinition == <<"\n", "\n", "[", "r", "]", ":", " ", "/", "u">>
McInline == {FlattenSeq(d) \o McDefinition : d \in UpTo3(McPieces)}
McBlocks == {Text3(d) : d \in UpTo3(McLines)}

\* Longer answers, by their lines.
McDefinitions ==
  {<<<<"[", "r", "]", ":", " ", "/", "u", " ", "'", "t", "'">>,
     <<"[", "t", "]", ":", " ", "<", "u", ">">>, <<" ", "(", "t">>, <<"t", ")">>, <<>>,
     <<"[", "R", "]", "!", "[", "a", "]", "[", "r", "]", "[", "b", "]", "[", "]">>,
     <<"[", "t", "]", "[", "u", "]", "[", "c", "]", "[", "t", "]">>>>,
   <<<<"[", "r", "]", ":", " ", "/", "u">>, <<"a">>, <<"=", "=">>, <<"[", "r", "]">>>>,
   <<<<"[", "r", "]", ":", " ", "/", "u">>, <<"=", "=">>, <<"a">>>>,
   <<<<"[", "r", "]", ":">>, <<"/", "u">>, <<"\"", "t">>, <<"b">>>>,
   <<<<"[", "r", "]", ":", " ", "/", "huge">>, <<"[", "t", "]", ":", " ", "/", "u">>, <<>>,
     <<"[", "r", "]", " ", "[", "t", "]", " ", "[", "r", "]", " ", "[", "r", "]", " ", "[", "r", "]">>>>,
   <<<<"[", "huge", "]", ":", " ", "/", "u">>, <<"[", "huge", "]">>>>}
McContainers ==
  {<<<<"-", " ", "[", "x", "]", " ", "a">>, <<"-", " ", "[", " ", "]", " ", "b">>,
     <<" ", " ", "1", "0", ")", " ", "c">>>>,
   <<<<"*", " ", "a">>, <<>>, <<" ", " ", "b">>, <<"*", " ", "c">>>>,
   <<<<"-">>, <<>>, <<" ", " ", "a">>>>, <<<<">", " ", "-">>, <<">">>, <<">", " ", " ", "a">>>>,
   <<<<">", " ", "-", " ", "a">>, <<">", " ", "-", " ", "b">>, <<"c">>>>,
   <<<<"-", " ", "*", " ", "*", " ", "*">>>>, <<<<"*", " ", "-", " ", "*", " ", "a">>>>,
   <<<<"-", " ", "-", " ", "*", " ", "-", " ", "-">>>>,
   <<<<"-", "\t", "a">>, <<>>, <<"\t", "\t", "b">>>>,
   <<<<">", " ", "~", "~", "~">>, <<">", " ", "a">>, <<"b">>>>,
   <<<<">", " ", "<", "div", ">">>, <<"b">>, <<>>, <<"c">>>>}
McLeaves ==
  {<<<<"#", " ", "a", " ", "#">>, <<"#", "#", " ">>, <<"b", "#">>>>,
   <<<<"~", "~", "~", " ", "js">>, <<" ", "~", "~", "~", "~", " ">>, <<"a">>>>,
   <<<<Tick, Tick, Tick, "js">>, <<"a">>, <<Tick, Tick, Tick>>, <<"b", Tick, Tick, Tick>>>>,
   <<<<"a", Tick, Tick, Tick>>, <<"b">>, <<Tick, Tick, Tick, Tick>>, <<"*", "c", "*">>>>,
   <<<<"|", "a", "|", "b", "|">>, <<"|", ":", "-", ":", "|", " ", "-", ":", "|">>,
     <<Tick, "a", "|", Tick, "|", "[", "c", "]", "(", "u", ")">>, <<"b">>>>,
   <<<<"a", "|", "b">>, <<":", "-", "|", "-">>>>,
   <<<<"<", "script", ">">>, <<"a", "<", "/", "script", ">">>, <<"b">>>>,
   <<<<"<", "!", "-", "-", " ", "a">>, <<"b", "-", "-", ">">>, <<"c">>>>,
   <<<<"<", "?", "u">>, <<"a", "?", ">">>, <<"b">>>>,
   <<<<"<", "!", "u">>, <<"a", ">">>, <<"b">>>>, <<<<"<", "i", ">">>, <<"a">>>>}
McSpans ==
  {<<<<"!", "[", "a", "*", "b", "*", "!", "[", "c", "]", "(", "u", ")", "]", "(", "/", "u",
       " ", "\"", "t", "\"", ")">>>>,
   <<<<"[", "a", "[", "b", "]", "(", "/", "u", ")", "c", "]", "(", "/", "u", ")">>>>,
   <<<<"a", "&", "amp", ";", "&", "u", ";", "&", "#", "x", "4", "1", ";", "&", "#", "0", ";",
       "[", "b", "]", "(", "/", "u", "&", "amp", ";", " ", "'", "\\", "'", "'", ")">>>>,
   <<<<"\\", "*", "a", "\\">>, <<"b", "\\", "\\">>, <<"\\", "c">>>>,
   <<<<"a", "<", "!", "-", "-", "b">>, <<>>, <<"c", "<", "!", "-", "-", "a", "-", "-", ">">>>>,
   <<<<"a", "<", "?", "b", "<", "!", "u", "<", "!", "[", "CDATA", "[">>, <<>>,
     <<"c", "<", "!", "[", "CDATA", "[", "a", "]", "]", ">", "b", "<", "?">>>>,
   <<<<"a", "<", "i">>, <<"t", "=", "\"", "u", "\"", ">", "b">>>>,
   <<<<"a", " ", "u", "@", "u", ".", "u", " ", "<", "http", ":", "u", ">", "<", "u", "@", "u", ">">>,
     <<"b", " ", "http", ":", "/", "/", "u", ".", "u", "/", "u", "?", "u", "#", "u", " ",
       "www", ".", "u", ".", "u", " ", "[", "u", "@", "u", ".", "u", "]", "(", "/", "u", ")">>>>,
   <<<<"http", ":", "/", "/", "*", "a", "*", " ", "*", "b", "*", " ", "<", "u", "@", "u", ".", "huge", ">">>>>,
   <<<<"*", "*", "a", "*", "b", "*", "*", "*", "c", "~", "~", "a", "~", "~">>>>,
   <<<<"[", "a", "]", "(", Tick, "b", ")", "c", Tick>>>>,
   <<<<Tick, Tick, "a", Tick, "b", Tick, Tick>>, <<Tick, " ", Tick, Tick, "c">>>>,
   <<<<Tick, Tick, "a", Tick, "b", Tick>>>>,
   <<<<"[", "a", "]", "(", "*", "u", ")", " ", "b", "*">>>>}

\* An image that begins in the target of a link, before another image.
McImages ==
  {Text3(<<<<"[", "a", "]", "(", "u", "!", "[", "u", ")", "b", "]", "(", "u", ")", "c",
             "!", "[", "*", "a", "*", "]", "(", "u", ")", " ", " ">>, <<"b">>>>)}

McAnswers ==
  {<<>>} \cup McInline \cup McBlocks \cup McImages
    \cup {Text3(d) : d \in McDefinitions \cup McContainers \cup McLeaves \cup McSpans}

=============================================================================
