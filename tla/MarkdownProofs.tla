--------------------------- MODULE MarkdownProofs ---------------------------
(***************************************************************************)
(* Outside of the inline phase, every step of the conversion makes Left of *)
(* Markdown smaller, in the order that compares the first component that   *)
(* changes (FirstDecides).                                                 *)
(*                                                                         *)
(* In the block phase a rule that is tried again has moved the line, or    *)
(* has cleared what made it apply (RetryAdvances, BlockAdvances).  Around  *)
(* the phases, TasksInv says that what is still to be done for a leaf are  *)
(* tasks in sequence, and that row and cells meet: the row that was        *)
(* analysed is the first task when its cells replace it, and no cell is a  *)
(* row (CellsFree), so that rows grow fewer (FewerRows).  LeafTasks and its *)
(* folds are unrolled for that (FlattenFold, CellsAre).                    *)
(***************************************************************************)
EXTENDS MarkdownBlocksProofs

-----------------------------------------------------------------------------
(* What is left, by its components: the first that changes decides.        *)

LEMMA LeftIs ==
  /\ DOMAIN Left = 1 .. 9
  /\ Left[1] = Len(chunks) /\ Left[2] = Phase /\ Left[3] = Unread /\ Left[4] = IF InBlock THEN 1 ELSE 0
  /\ Left[5] = Rows /\ Left[6] = Waiting /\ Left[7] = Rank(pc) /\ Left[8] = Ahead /\ Left[9] = Nearby
BY DEF Left
LEMMA LeftNext ==
  /\ DOMAIN Left' = 1 .. 9
  /\ Left'[1] = Len(chunks') /\ Left'[2] = Phase' /\ Left'[3] = Unread' /\ Left'[4] = IF InBlock' THEN 1 ELSE 0
  /\ Left'[5] = Rows' /\ Left'[6] = Waiting' /\ Left'[7] = Rank(pc') /\ Left'[8] = Ahead' /\ Left'[9] = Nearby'
BY DEF Left

LEMMA FirstDecides ==
  ASSUME NEW i \in 1 .. 9, Left'[i] < Left[i], \A j \in 1 .. i - 1 : Left'[j] = Left[j]
  PROVE  Precedes(Left', Left)
BY LeftNext DEF Precedes

\* A part is done; a phase is; some of the text or a block is.
LEMMA LessParts ==
  ASSUME Len(chunks') < Len(chunks)
  PROVE  Precedes(Left', Left)
<1>1. Left'[1] < Left[1] /\ \A j \in 1 .. 1 - 1 : Left'[j] = Left[j]
  BY LeftIs, LeftNext
<1> QED
  BY <1>1, FirstDecides
LEMMA LessPhase ==
  ASSUME UNCHANGED chunks, Phase' < Phase
  PROVE  Precedes(Left', Left)
<1>1. Left'[2] < Left[2] /\ \A j \in 1 .. 2 - 1 : Left'[j] = Left[j]
  BY LeftIs, LeftNext
<1> QED
  BY <1>1, FirstDecides
LEMMA LessUnread ==
  ASSUME UNCHANGED chunks, Phase' = Phase, Unread' < Unread
  PROVE  Precedes(Left', Left)
<1>1. Left'[3] < Left[3] /\ \A j \in 1 .. 3 - 1 : Left'[j] = Left[j]
  BY LeftIs, LeftNext
<1> QED
  BY <1>1, FirstDecides

\* The parser stays in a phase and at a place of the text or at a block.
Stays == UNCHANGED chunks /\ Phase' = Phase /\ Unread' = Unread

LEMMA LessInBlock ==
  ASSUME Stays, InBlock, ~InBlock'
  PROVE  Precedes(Left', Left)
<1>1. Left'[4] < Left[4] /\ \A j \in 1 .. 4 - 1 : Left'[j] = Left[j]
  BY LeftIs, LeftNext DEF Stays
<1> QED
  BY <1>1, FirstDecides
LEMMA LessRows ==
  ASSUME Stays, InBlock <=> InBlock', Rows' < Rows
  PROVE  Precedes(Left', Left)
<1>1. Left'[5] < Left[5] /\ \A j \in 1 .. 5 - 1 : Left'[j] = Left[j]
  BY LeftIs, LeftNext DEF Stays
<1> QED
  BY <1>1, FirstDecides
LEMMA LessWaiting ==
  ASSUME Stays, InBlock <=> InBlock', Rows' = Rows, Waiting' < Waiting
  PROVE  Precedes(Left', Left)
<1>1. Left'[6] < Left[6] /\ \A j \in 1 .. 6 - 1 : Left'[j] = Left[j]
  BY LeftIs, LeftNext DEF Stays
<1> QED
  BY <1>1, FirstDecides

\* It stays there with the same tasks.
StaysAt == Stays /\ (InBlock <=> InBlock') /\ Rows' = Rows /\ Waiting' = Waiting

LEMMA LessRank ==
  ASSUME StaysAt, Rank(pc') < Rank(pc)
  PROVE  Precedes(Left', Left)
<1>1. Left'[7] < Left[7] /\ \A j \in 1 .. 7 - 1 : Left'[j] = Left[j]
  BY LeftIs, LeftNext DEF Stays, StaysAt
<1> QED
  BY <1>1, FirstDecides
LEMMA LessAhead ==
  ASSUME StaysAt, UNCHANGED pc, Ahead' < Ahead
  PROVE  Precedes(Left', Left)
<1>1. Left'[8] < Left[8] /\ \A j \in 1 .. 8 - 1 : Left'[j] = Left[j]
  BY LeftIs, LeftNext DEF Stays, StaysAt
<1> QED
  BY <1>1, FirstDecides
LEMMA LessNearby ==
  ASSUME StaysAt, UNCHANGED pc, Ahead' = Ahead, Nearby' < Nearby
  PROVE  Precedes(Left', Left)
<1>1. Left'[9] < Left[9] /\ \A j \in 1 .. 9 - 1 : Left'[j] = Left[j]
  BY LeftIs, LeftNext DEF Stays, StaysAt
<1> QED
  BY <1>1, FirstDecides

-----------------------------------------------------------------------------
(* The block phase.                                                        *)

\* What the block phase leaves alone.
Else == <<inlineVars, idle, todo, block, loose>>

LEMMA BlockStays ==
  ASSUME UNCHANGED Else, UNCHANGED text, pc \in BlockSteps, pc' \in BlockSteps
  PROVE  /\ UNCHANGED chunks /\ Phase' = Phase /\ Unread = Eot - pos /\ Unread' = Eot - pos'
         /\ UNCHANGED pos => StaysAt
<1>1. Phase = 1 /\ Phase' = 1
  BY DEF BlockSteps, Phase
<1>2. UNCHANGED <<chunks, todo>>
  BY DEF Else, idle
<1>3. ~InBlock /\ ~InBlock'
  BY DEF BlockSteps, InBlock
<1>4. Rows' = Rows
  BY <1>2 DEF Rows
<1>5. Waiting' = Waiting
  BY <1>2 DEF Waiting, BlockSteps
<1>6. Unread = Eot - pos /\ Unread' = Eot - pos'
  BY <1>1, SameEot DEF Unread
<1> QED
  BY <1>1, <1>2, <1>3, <1>4, <1>5, <1>6 DEF Stays, StaysAt

\* The context of the parser.
CtxOK == {"htmlType", "fenceLength", "loosening", "twoBlanks"} \subseteq DOMAIN ctx

LEMMA CtxCorrect == Spec => []CtxOK
<1>1. Init => CtxOK
  BY DEF Init, CtxOK
<1>2. CtxOK /\ [Next]_vars => CtxOK'
  <2> SUFFICES ASSUME CtxOK, [Next]_vars PROVE CtxOK'
    OBVIOUS
  <2>1. CASE UNCHANGED ctx
    BY <2>1 DEF CtxOK
  <2>2. CASE UNCHANGED vars
    BY <2>1, <2>2 DEF vars, blockVars
  <2>3. CASE Converting
    <3>1. CASE ParsePart
      BY <3>1 DEF ParsePart, StartText, CtxOK
    <3> QED
      BY <2>1, <2>3, <3>1, ConvertingFrame DEF blockOwn
  <2>4. CASE InlinePhase
    BY <2>1, <2>4, InlineFrame DEF blockOwn
  <2>5. CASE BlockPhase
    <3>1. CASE BeginLine \/ ContinueFence \/ LeaveFence \/ EndLine \/ EndText
      BY <2>1, <3>1 DEF BeginLine, ContinueFence, LeaveFence, EndLine, EndText
    <3>2. CASE AddBlank \/ AddSingle \/ AddSetextUnderline \/ AddTableUnderline \/ AddToBlock
      BY <2>1, <3>2 DEF AddBlank, AddSingle, AddSetextUnderline, AddTableUnderline, AddToBlock, Processed
    <3>3. CASE SetextLine \/ HrLine \/ TableLine \/ AtxLine \/ TableUnderlineLine
      BY <3>3 DEF SetextLine, HrLine, TableLine, AtxLine, TableUnderlineLine, Leaf, CtxOK
    <3>4. CASE CloseFence \/ LeaveHtml \/ LeaveEmptyItem \/ IndentedLine \/ Brother \/ Child \/ TextLine
      BY <3>4 DEF CloseFence, LeaveHtml, LeaveEmptyItem, IndentedLine, Brother, Child, TextLine, CtxOK
    <3>5. CASE ContinueHtml
      BY <3>5 DEF ContinueHtml, CtxOK
    <3>6. CASE BlankLine
      <4>1. \E l, b : ctx' = [ctx EXCEPT !.loosening = l, !.twoBlanks = b]
        BY <3>6, Zenon DEF BlankLine
      <4> QED
        BY <4>1 DEF CtxOK
    <3>7. CASE OpenFence
      <4>1. \E n : ctx' = [ctx EXCEPT !.loosening = FALSE, !.fenceLength = n]
        BY <3>7, Zenon DEF OpenFence
      <4> QED
        BY <4>1 DEF CtxOK
    <3>8. CASE OpenHtml
      <4>1. \E n : ctx' = [ctx EXCEPT !.loosening = FALSE, !.htmlType = n]
        BY <3>8, Zenon DEF OpenHtml
      <4> QED
        BY <4>1 DEF CtxOK
    <3> QED
      BY <2>5, <3>1, <3>2, <3>3, <3>4, <3>5, <3>6, <3>7, <3>8 DEF BlockPhase
  <2> QED
    BY <2>2, <2>3, <2>4, <2>5 DEF Next, Shown, vars, blockVars
<1> QED
  BY <1>1, <1>2, PTL DEF Spec

\* A rule that looks at the line again has read on, or will not apply again.
LEMMA RetryAdvances ==
  ASSUME OrderInv, BlocksInv, CtxOK, UNCHANGED Else, LeaveFence \/ LeaveHtml \/ LeaveEmptyItem \/ Brother \/ Child
  PROVE  Precedes(Left', Left)
<1>1. pc = "rules" /\ pc' = "rules" /\ UNCHANGED <<text, pos>>
  BY DEF LeaveFence, LeaveHtml, LeaveEmptyItem, Brother, Child
<1>2. StaysAt /\ UNCHANGED pc
  BY <1>1, BlockStays DEF BlockSteps
<1>3. Reading(line, pos)
  BY <1>1 DEF OrderInv
<1>4. PICK x, o \in Nat : x = Eot /\ o = line.off
  BY <1>1, <1>3 DEF OrderInv, BlockSteps, Reading
<1>5. Ahead = x - o /\ Ahead' = x - line'.off
  BY <1>1, <1>4, SameEot DEF Ahead
<1>6. CASE Brother \/ Child
  <2>1. Rule \in {"brother", "child"}
    BY <1>6 DEF Brother, Child
  <2>2. PICK l : l = BehindMark(Mark).line /\ Reading(l, pos) /\ line.off < l.off
    BY <1>1, <2>1, BehindReads
  <2>3. line' = [l EXCEPT !.brothers = 1] \/ line' = [l EXCEPT !.children = @ + 1]
    BY <1>6, <2>2 DEF Brother, Child
  <2>4. line'.off = l.off /\ l.off \in Nat
    BY <2>2, <2>3 DEF Reading
  <2>5. Ahead' < Ahead
    BY <1>4, <1>5, <2>2, <2>4
  <2> QED
    BY <1>2, <2>5, LessAhead
<1>7. PICK h, b, f \in {0, 1} : /\ h = IF ctx.htmlType > 0 THEN 1 ELSE 0
                                /\ b = IF ctx.twoBlanks THEN 1 ELSE 0
                                /\ f = IF After("fenced") THEN 1 ELSE 0
  OBVIOUS
<1>8. PICK h1, b1, f1 \in {0, 1} : /\ h1 = IF ctx'.htmlType > 0 THEN 1 ELSE 0
                                   /\ b1 = IF ctx'.twoBlanks THEN 1 ELSE 0
                                   /\ f1 = IF line'.pivot.type = "fenced" THEN 1 ELSE 0
  OBVIOUS
<1>9. Nearby = h + b + f /\ Nearby' = h1 + b1 + f1
  BY <1>1, <1>7, <1>8 DEF Nearby, After
<1>10. CASE LeaveFence
  <2>1. PICK y \in Nat : y = (IF Flush THEN Closing.end ELSE line.off) /\ o <= y
    BY <1>1, <1>4, ClosingEnd DEF Closing, OrderInv, BlockSteps
  <2>2. line' = [line EXCEPT !.off = y, !.pivot = Dummy] /\ UNCHANGED ctx
    BY <1>3, <1>10, <2>1 DEF LeaveFence, Reading
  <2>3. "pivot" \in DOMAIN line
    BY <1>1 DEF BlocksInv, InRules, IsLine, HasFields
  <2>4. line'.off = y /\ line'.pivot = Dummy
    BY <1>3, <2>2, <2>3 DEF Reading
  <2>5. f = 1
    BY <1>7, <1>10 DEF LeaveFence, Rule, MarkRule, LeafRule
  <2>6. h1 = h /\ b1 = b /\ f1 = 0
    BY <1>7, <1>8, <2>2, <2>4 DEF Dummy
  <2>7. Nearby' < Nearby
    BY <1>9, <2>5, <2>6
  <2>8. Ahead' <= Ahead /\ Ahead \in Int /\ Ahead' \in Int
    BY <1>4, <1>5, <2>1, <2>4
  <2> QED
    BY <1>2, <2>7, <2>8, LessAhead, LessNearby
<1>11. CASE LeaveHtml
  <2>1. UNCHANGED line /\ ctx' = [ctx EXCEPT !.htmlType = 0]
    BY <1>11 DEF LeaveHtml
  <2>2. h = 1
    BY <1>7, <1>11 DEF LeaveHtml, Rule, MarkRule, LeafRule
  <2>3. ctx'.htmlType = 0 /\ ctx'.twoBlanks = ctx.twoBlanks
    BY <2>1 DEF CtxOK
  <2>4. h1 = 0 /\ b1 = b /\ f1 = f
    BY <1>7, <1>8, <2>1, <2>3 DEF After
  <2>5. Nearby' < Nearby /\ Ahead' = Ahead
    BY <1>4, <1>5, <1>9, <2>1, <2>2, <2>4
  <2> QED
    BY <1>2, <2>5, LessNearby
<1>12. CASE LeaveEmptyItem
  <2>1. ctx' = [ctx EXCEPT !.twoBlanks = FALSE, !.loosening = FALSE]
    BY <1>12 DEF LeaveEmptyItem
  <2>2. line' = line \/ \E p, i : line' = [line EXCEPT !.parents = p, !.indent = i]
    <3>1. PICK p, i : line' = IF AllParents /\ InList /\ Fresh /\ EndsLikeItem(build)
                              THEN [line EXCEPT !.parents = @ - 1, !.indent = i] ELSE line
      BY <1>12, Zenon DEF LeaveEmptyItem
    <3> QED
      BY <3>1
  <2>3. Ahead' = Ahead /\ line'.pivot = line.pivot
    <3>1. "off" \in DOMAIN line /\ "pivot" \in DOMAIN line
      BY <1>1, <1>3 DEF Reading, BlocksInv, InRules, IsLine, HasFields
    <3>2. line'.off = line.off /\ line'.pivot = line.pivot
      BY <2>2, <3>1
    <3> QED
      BY <1>4, <1>5, <3>2
  <2>4. b = 1
    BY <1>7, <1>12 DEF LeaveEmptyItem, Rule, MarkRule, LeafRule
  <2>5. ctx'.htmlType = ctx.htmlType /\ ctx'.twoBlanks = FALSE
    BY <2>1 DEF CtxOK
  <2>6. h1 = h /\ b1 = 0 /\ f1 = f
    BY <1>7, <1>8, <2>3, <2>5 DEF After
  <2>7. Nearby' < Nearby
    BY <1>9, <2>4, <2>6
  <2> QED
    BY <1>2, <2>3, <2>7, LessNearby
<1> QED
  BY <1>6, <1>10, <1>11, <1>12

\* Every step of the block phase.
LEMMA BlockAdvances ==
  ASSUME OrderInv, BlocksInv, CtxOK, BlockPhase, UNCHANGED Else
  PROVE  Precedes(Left', Left)
<1>1. pc \in BlockSteps /\ UNCHANGED text
  BY BlockFrame
<1>2. CASE LeaveFence \/ LeaveHtml \/ LeaveEmptyItem \/ Brother \/ Child
  BY <1>2, RetryAdvances
<1>3. CASE UNCHANGED pos /\ pc' \in BlockSteps /\ Rank(pc') < Rank(pc)
  BY <1>1, <1>3, BlockStays, LessRank
<1>4. CASE BeginLine
  <2>1. pc = "line" /\ pc' = "rules" /\ UNCHANGED pos
    BY <1>4 DEF BeginLine
  <2> QED
    BY <1>3, <2>1 DEF BlockSteps, Rank
<1>5. CASE UNCHANGED pos /\ pc = "rules" /\ pc' = "tail"
  BY <1>3, <1>5 DEF BlockSteps, Rank
<1>6. CASE UNCHANGED pos /\ pc = "add" /\ pc' = "line"
  BY <1>3, <1>6 DEF BlockSteps, Rank
<1>7. CASE ContinueFence \/ CloseFence \/ ContinueHtml \/ BlankLine \/ IndentedLine \/ OpenFence \/ OpenHtml \/ TextLine
  BY <1>5, <1>7 DEF ContinueFence, CloseFence, ContinueHtml, BlankLine, IndentedLine, OpenFence, OpenHtml, TextLine, Settle
<1>8. CASE SetextLine \/ HrLine \/ TableLine \/ AtxLine \/ TableUnderlineLine
  BY <1>5, <1>8 DEF SetextLine, HrLine, TableLine, AtxLine, TableUnderlineLine, Leaf, Settle
<1>9. CASE AddBlank \/ AddSingle \/ AddSetextUnderline \/ AddTableUnderline \/ AddToBlock
  BY <1>6, <1>9 DEF AddBlank, AddSingle, AddSetextUnderline, AddTableUnderline, AddToBlock, Processed
<1>10. CASE EndLine
  <2>1. pc = "tail" /\ pc' = "add" /\ pos' = LineEnd(line.off) + 1
    BY <1>10 DEF EndLine
  <2>2. Reading(line, pos) /\ pos \in Nat /\ Eot \in Nat
    BY <2>1 DEF OrderInv, BlockSteps
  <2>3. PICK z \in Nat : z = LineEnd(line.off) /\ line.off <= z
    BY <2>2, LineEndIs DEF Reading
  <2>4. pos <= z
    BY <2>2, <2>3 DEF Reading
  <2>5. Unread' < Unread /\ UNCHANGED chunks /\ Phase' = Phase
    BY <1>1, <2>1, <2>2, <2>3, <2>4, BlockStays DEF BlockSteps
  <2> QED
    BY <2>5, LessUnread
<1>11. CASE EndText
  <2>1. UNCHANGED chunks /\ Phase' = 0 /\ Phase = 1
    BY <1>1, <1>11 DEF EndText, Phase, BlockSteps, Else, idle
  <2> QED
    BY <2>1, LessPhase
<1> QED
  BY <1>2, <1>4, <1>7, <1>8, <1>9, <1>10, <1>11 DEF BlockPhase

-----------------------------------------------------------------------------
(* The tasks of a leaf block.                                              *)

\* One sequence behind the other.
LEMMA ConcatIs ==
  ASSUME NEW s, IsSeq(s), NEW t, IsSeq(t)
  PROVE  /\ IsSeq(s \o t) /\ Len(s) \in Nat /\ Len(t) \in Nat /\ Len(s \o t) = Len(s) + Len(t)
         /\ \A i \in 1 .. Len(s) : (s \o t)[i] = s[i]
         /\ \A i \in Len(s) + 1 .. Len(s) + Len(t) : (s \o t)[i] = t[i - Len(s)]
<1>1. PICK X : s \in Seq(X)
  BY DEF IsSeq
<1>2. PICK Y : t \in Seq(Y)
  BY DEF IsSeq
<1>3. PICK Z : Z = X \cup Y
  OBVIOUS
<1>4. s \in Seq(Z) /\ t \in Seq(Z)
  BY <1>1, <1>2, <1>3
<1>5. s \o t \in Seq(Z)
  BY <1>4
<1>6. IsSeq(s \o t)
  BY <1>5 DEF IsSeq
<1> QED
  BY <1>4, <1>6

\* All but the first.
LEMMA TailIs ==
  ASSUME NEW s, IsSeq(s), s # <<>>
  PROVE  /\ IsSeq(Tail(s)) /\ Len(s) \in Nat /\ Len(s) >= 1 /\ Len(Tail(s)) = Len(s) - 1
         /\ Head(s) = s[1] /\ \A i \in 1 .. Len(s) - 1 : Tail(s)[i] = s[i+1]
<1>1. PICK X : s \in Seq(X)
  BY DEF IsSeq
<1>2. Tail(s) \in Seq(X)
  BY <1>1
<1>3. IsSeq(Tail(s))
  BY <1>2 DEF IsSeq
<1> QED
  BY <1>1, <1>3

\* A list of n values.
LEMMA ListIs ==
  ASSUME NEW n \in Nat, NEW s, DOMAIN s = 1 .. n, s = [i \in 1 .. n |-> s[i]]
  PROVE  IsSeq(s) /\ Len(s) = n
<1>1. PICK X : X = {s[i] : i \in 1 .. n}
  OBVIOUS
<1>2. s \in [1 .. n -> X]
  BY <1>1
<1>3. s \in Seq(X) /\ Len(s) = n
  BY <1>2
<1> QED
  BY <1>3 DEF IsSeq

\* The tasks that are rows of a table.
RowSet(s) == {k \in 1 .. Len(s) : s[k].do = "row"}

\* There are no more of them behind the first, and less when the first was one.
LEMMA FewerRows ==
  ASSUME NEW s, IsSeq(s), s # <<>>, NEW t, IsSeq(t), NEW d \in Nat,
         \A k \in 1 .. Len(t) : t[k].do = "row" =>
           k > d /\ (k - d) + 1 \in 1 .. Len(s) /\ t[k].do = s[(k - d) + 1].do
  PROVE  /\ Cardinality(RowSet(s)) \in Nat /\ Cardinality(RowSet(t)) \in Nat
         /\ Cardinality(RowSet(t)) <= Cardinality(RowSet(s))
         /\ s[1].do = "row" => Cardinality(RowSet(t)) < Cardinality(RowSet(s))
<1>1. Len(s) \in Nat /\ Len(t) \in Nat /\ Len(s) >= 1
  BY TailIs, ConcatIs
<1>2. IsFiniteSet(RowSet(s)) /\ IsFiniteSet(RowSet(t))
  <2>1. IsFiniteSet(1 .. Len(s)) /\ IsFiniteSet(1 .. Len(t))
    BY <1>1, FS_Interval
  <2>2. RowSet(s) \subseteq 1 .. Len(s) /\ RowSet(t) \subseteq 1 .. Len(t)
    BY DEF RowSet
  <2> QED
    BY <2>1, <2>2, FS_Subset
<1>3. PICK B : B = RowSet(s) \ {1}
  OBVIOUS
<1>4. IsFiniteSet(B) /\ Cardinality(B) \in Nat
  BY <1>2, <1>3, FS_Subset, FS_CardinalityType
<1>5. Cardinality(RowSet(t)) <= Cardinality(B)
  <2> DEFINE f == [k \in RowSet(t) |-> (k - d) + 1]
  <2>1. ASSUME NEW k \in RowSet(t) PROVE (k - d) + 1 \in B /\ k \in Nat /\ k > d
    <3>1. k \in 1 .. Len(t) /\ t[k].do = "row" /\ k \in Nat
      BY <1>1 DEF RowSet
    <3>2. k > d /\ (k - d) + 1 \in 1 .. Len(s) /\ s[(k - d) + 1].do = "row"
      BY <3>1
    <3>3. (k - d) + 1 # 1
      BY <3>1, <3>2
    <3> QED
      BY <1>3, <3>1, <3>2, <3>3 DEF RowSet
  <2>2. f \in [RowSet(t) -> B] /\ \A k, m \in RowSet(t) : f[k] = f[m] => k = m
    <3>1. f \in [RowSet(t) -> B]
      BY <2>1
    <3>2. ASSUME NEW k \in RowSet(t), NEW m \in RowSet(t), f[k] = f[m] PROVE k = m
      <4>1. (k - d) + 1 = (m - d) + 1
        BY <3>2
      <4>2. k \in Nat /\ m \in Nat
        BY <2>1
      <4> QED
        BY <4>1, <4>2
    <3> QED
      BY <3>1, <3>2
  <2> HIDE DEF f
  <2>3. f \in Injection(RowSet(t), B)
    BY <2>2 DEF Injection, IsInjective
  <2> QED
    BY <1>4, <2>3, FS_Injection
<1>6. Cardinality(B) = IF 1 \in RowSet(s) THEN Cardinality(RowSet(s)) - 1 ELSE Cardinality(RowSet(s))
  BY <1>2, <1>3, FS_RemoveElement
<1>7. s[1].do = "row" => 1 \in RowSet(s)
  BY <1>1 DEF RowSet
<1>8. Cardinality(RowSet(s)) \in Nat /\ Cardinality(RowSet(t)) \in Nat
  BY <1>2, FS_CardinalityType
<1> QED
  BY <1>4, <1>5, <1>6, <1>7, <1>8

\* A task: a row is a line and numbered columns; there is a line to process.
TaskOK(e) ==
  /\ e.do = "row" => LineOK(e.line) /\ \E n \in Nat : DOMAIN e.aligns = 1 .. n
  /\ e.do = "inlines" => Ordered(e.lines) /\ e.lines # <<>>
TasksOK(s) == IsSeq(s) /\ \A k \in 1 .. Len(s) : TaskOK(s[k])

\* Tasks without a row.
Simple(e) == TaskOK(e) /\ e.do # "row"
Free(s) == IsSeq(s) /\ \A k \in 1 .. Len(s) : Simple(s[k])

\* Two lists of them in a row.
LEMMA FreeConcat ==
  ASSUME NEW s, Free(s), NEW t, Free(t)
  PROVE  Free(s \o t)
<1>1. IsSeq(s) /\ IsSeq(t)
  BY DEF Free
<1>2. ASSUME NEW k \in 1 .. Len(s \o t) PROVE Simple((s \o t)[k])
  <2>1. CASE k \in 1 .. Len(s)
    <3>1. (s \o t)[k] = s[k]
      BY <1>1, <2>1, ConcatIs
    <3> QED
      BY <2>1, <3>1 DEF Free
  <2>2. CASE k \notin 1 .. Len(s)
    <3>1. k \in Len(s) + 1 .. Len(s) + Len(t) /\ k - Len(s) \in 1 .. Len(t)
      BY <1>1, <2>2, ConcatIs
    <3>2. (s \o t)[k] = t[k - Len(s)]
      BY <1>1, <3>1, ConcatIs
    <3> QED
      BY <3>1, <3>2 DEF Free
  <2> QED
    BY <2>1, <2>2
<1> QED
  BY <1>1, <1>2, ConcatIs DEF Free

\* FlattenSeq() goes list by list.
FlatSteps(g, s, n) == g[1] = s[1] /\ \A k \in 2 .. n : g[k] = g[k-1] \o s[k]

\* It has a value for every list.
LEMMA FlattenFold ==
  ASSUME NEW s, NEW n \in Nat \ {0}, Len(s) = n
  PROVE  \E g : FlatSteps(g, s, n) /\ FlattenSeq(s) = g[n]
<1> DEFINE Body(f, k) == IF k = 1 THEN s[k] ELSE f[k-1] \o s[k]
           Solves(m, f) == f = [k \in 1 .. m |-> Body(f, k)]
<1>1. ASSUME NEW m \in 1 .. n - 1, NEW f, Solves(m, f)
      PROVE  \E h : Solves(m + 1, h)
  <2> DEFINE h == [k \in 1 .. m + 1 |-> IF k = m + 1 THEN f[m] \o s[m+1] ELSE f[k]]
  <2>1. ASSUME NEW k \in 1 .. m + 1 PROVE h[k] = Body(h, k)
    <3>1. CASE k = m + 1
      <4>1. h[m] = f[m] /\ (m + 1) - 1 = m /\ m + 1 # 1
        OBVIOUS
      <4> HIDE DEF h
      <4>2. h[k] = f[m] \o s[m+1]
        BY <3>1 DEF h
      <4> QED
        BY <3>1, <4>1, <4>2
    <3>2. CASE k # m + 1
      <4>1. k \in 1 .. m
        BY <3>2
      <4>2. f[k] = Body(f, k)
        <5> HIDE DEF Body
        <5> QED
          BY <1>1, <4>1
      <4>3. h[k] = f[k] /\ (k # 1 => h[k-1] = f[k-1])
        BY <3>2, <4>1
      <4> HIDE DEF h
      <4> QED
        BY <4>2, <4>3
    <3> QED
      BY <3>1, <3>2
  <2>2. h = [k \in 1 .. m + 1 |-> h[k]]
    OBVIOUS
  <2> HIDE DEF h, Body
  <2> QED
    BY <2>1, <2>2
<1>2. \E f : Solves(1, f)
  <2>1. Solves(1, [k \in 1 .. 1 |-> s[1]])
    <3>1. \A k \in 1 .. 1 : k = 1
      OBVIOUS
    <3> QED
      BY <3>1
  <2> HIDE DEF Solves
  <2> QED
    BY <2>1
<1>3. \E f : Solves(n, f)
  <2> HIDE DEF Solves
  <2> DEFINE M == {m \in 0 .. n - 1 : \E f : Solves(n - m, f)}
  <2>1. M \in SUBSET Nat /\ n - 1 \in M
    <3>1. n - (n - 1) = 1 /\ n - 1 \in 0 .. n - 1
      OBVIOUS
    <3> QED
      BY <1>2, <3>1
  <2>2. PICK m \in M : \A k \in M : m <= k
    <3> HIDE DEF M
    <3> QED
      BY <2>1, LeastNat
  <2>3. PICK f : Solves(n - m, f)
    OBVIOUS
  <2>4. m = 0
    <3>1. SUFFICES ASSUME m # 0 PROVE FALSE
      OBVIOUS
    <3>2. n - m \in 1 .. n - 1 /\ (n - m) + 1 = n - (m - 1) /\ m - 1 \in 0 .. n - 1
      BY <3>1
    <3>3. m - 1 \in M
      BY <1>1, <2>3, <3>2
    <3> QED
      BY <2>2, <3>3
  <2> QED
    BY <2>3, <2>4
<1> DEFINE flatten == CHOOSE f : Solves(n, f)
<1>4. Solves(n, flatten)
  <2> HIDE DEF Solves
  <2> QED
    BY <1>3
<1>5. FlattenSeq(s) = flatten[n]
  BY DEF FlattenSeq
<1>6. \A k \in 1 .. n : flatten[k] = Body(flatten, k)
  <2> HIDE DEF flatten, Body
  <2> QED
    BY <1>4
<1> HIDE DEF flatten
<1>7. FlatSteps(flatten, s, n)
  <2>1. 1 \in 1 .. n /\ \A k \in 2 .. n : k \in 1 .. n /\ k # 1
    OBVIOUS
  <2> QED
    BY <1>6, <2>1 DEF FlatSteps
<1> QED
  BY <1>5, <1>7

\* Of lists without a row it is one.
LEMMA FlattenFree ==
  ASSUME NEW n \in Nat, NEW s, IsSeq(s), Len(s) = n, \A k \in 1 .. n : Free(s[k])
  PROVE  Free(FlattenSeq(s))
<1>1. CASE n = 0
  <2>1. FlattenSeq(s) = s
    BY <1>1 DEF FlattenSeq
  <2> QED
    BY <1>1, <2>1 DEF Free
<1>2. CASE n # 0
  <2>1. PICK g : FlatSteps(g, s, n) /\ FlattenSeq(s) = g[n]
    BY <1>2, FlattenFold
  <2> DEFINE M == {k \in 1 .. n : ~Free(g[k])}
  <2>2. M = {}
    <3>1. SUFFICES ASSUME M # {} PROVE FALSE
      OBVIOUS
    <3>2. M \in SUBSET Nat
      OBVIOUS
    <3>3. PICK m \in M : \A k \in M : m <= k
      <4> HIDE DEF M
      <4> QED
        BY <3>1, <3>2, LeastNat
    <3>4. m \in 1 .. n /\ ~Free(g[m])
      OBVIOUS
    <3>5. m # 1
      BY <1>2, <2>1, <3>4 DEF FlatSteps
    <3>6. m \in 2 .. n /\ m - 1 \in 1 .. n /\ ~(m <= m - 1)
      BY <3>4, <3>5
    <3>7. Free(g[m-1])
      BY <3>3, <3>6
    <3>8. g[m] = g[m-1] \o s[m]
      BY <2>1, <3>6 DEF FlatSteps
    <3> QED
      BY <3>4, <3>7, <3>8, FreeConcat
  <2>3. n \in 1 .. n
    BY <1>2
  <2> QED
    BY <2>1, <2>2, <2>3
<1> QED
  BY <1>1, <1>2

\* Lists of any tasks.
LEMMA TasksConcat ==
  ASSUME NEW s, TasksOK(s), NEW t, TasksOK(t)
  PROVE  TasksOK(s \o t)
<1>1. IsSeq(s) /\ IsSeq(t)
  BY DEF TasksOK
<1>2. ASSUME NEW k \in 1 .. Len(s \o t) PROVE TaskOK((s \o t)[k])
  <2>1. CASE k \in 1 .. Len(s)
    <3>1. (s \o t)[k] = s[k]
      BY <1>1, <2>1, ConcatIs
    <3> QED
      BY <2>1, <3>1 DEF TasksOK
  <2>2. CASE k \notin 1 .. Len(s)
    <3>1. k \in Len(s) + 1 .. Len(s) + Len(t) /\ k - Len(s) \in 1 .. Len(t)
      BY <1>1, <2>2, ConcatIs
    <3>2. (s \o t)[k] = t[k - Len(s)]
      BY <1>1, <3>1, ConcatIs
    <3> QED
      BY <3>1, <3>2 DEF TasksOK
  <2> QED
    BY <2>1, <2>2
<1> QED
  BY <1>1, <1>2, ConcatIs DEF TasksOK

LEMMA FreeTasks ==
  ASSUME NEW s, Free(s)
  PROVE  TasksOK(s)
BY DEF Free, TasksOK, Simple

\* A task of its own.
LEMMA OneTask ==
  ASSUME NEW e
  PROVE  IsSeq(<<e>>) /\ Len(<<e>>) = 1 /\ <<e>>[1] = e /\ (Simple(e) => Free(<<e>>)) /\ (TaskOK(e) => TasksOK(<<e>>))
<1>1. <<e>> \in Seq({e}) /\ Len(<<e>>) = 1 /\ <<e>>[1] = e
  OBVIOUS
<1>2. PICK s : s = <<e>>
  OBVIOUS
<1>3. IsSeq(s)
  BY <1>1, <1>2 DEF IsSeq
<1>4. Len(s) = 1 /\ s[1] = e /\ \A k \in 1 .. Len(s) : s[k] = e
  <2>1. \A k \in 1 .. 1 : k = 1
    OBVIOUS
  <2> QED
    BY <1>1, <1>2, <2>1
<1>5. Simple(e) => Free(s)
  BY <1>3, <1>4 DEF Free
<1>6. TaskOK(e) => TasksOK(s)
  BY <1>3, <1>4 DEF TasksOK
<1> QED
  BY <1>2, <1>3, <1>4, <1>5, <1>6

\* Events and lines are no rows.
LEMMA NoRow ==
  ASSUME NEW x
  PROVE  Simple(Emit(x)) /\ (Ordered(x) /\ x # <<>> => Simple(Inlines(x)))
BY DEF Emit, Inlines, Simple, TaskOK

\* Three tasks.
LEMMA ThreeFree ==
  ASSUME NEW x, NEW y, NEW z, Simple(x), Simple(y), Simple(z)
  PROVE  Free(<<x, y, z>>)
<1>1. PICK s : s = <<x, y, z>>
  OBVIOUS
<1>2. s \in Seq({x, y, z}) /\ Len(s) = 3 /\ s[1] = x /\ s[2] = y /\ s[3] = z
  BY <1>1
<1>3. \A k \in 1 .. 3 : k = 1 \/ k = 2 \/ k = 3
  OBVIOUS
<1>4. IsSeq(s)
  BY <1>2 DEF IsSeq
<1>5. Free(s)
  BY <1>2, <1>3, <1>4 DEF Free
<1> QED
  BY <1>1, <1>5

\* A line of its own.
LEMMA OneLine ==
  ASSUME NEW l, LineOK(l)
  PROVE  Ordered(<<l>>) /\ <<l>> # <<>>
<1>1. PICK s : s = <<l>>
  OBVIOUS
<1>2. s \in Seq({l}) /\ Len(s) = 1 /\ s[1] = l /\ s # <<>>
  BY <1>1
<1>3. \A i \in 1 .. 1 : i = 1
  OBVIOUS
<1>4. IsSeq(s)
  BY <1>2 DEF IsSeq
<1>5. Ordered(s)
  BY <1>2, <1>3, <1>4 DEF Ordered
<1> QED
  BY <1>1, <1>2, <1>5

LEMMA CellFree ==
  ASSUME NEW a, NEW l, LineOK(l), NEW c
  PROVE  Free(<<Emit(a), Inlines(<<l>>), Emit(c)>>)
BY NoRow, OneLine, ThreeFree

\* The cells of a row go from boundary to boundary.
Boundary(p) == \E k \in DOMAIN marks : /\ marks[k].ch = "|" /\ marks[k].role # "" /\ marks[k].end = p
NextBoundary(l, p) == First(p + 1, l.end + 1, Boundary)
CellAt(l, p) ==
  IF p < NextBoundary(l, p) - 1 THEN <<[beg |-> p, end |-> NextBoundary(l, p) - 1]>> ELSE <<>>

LEMMA BoundaryIs ==
  ASSUME NEW l, LineOK(l), NEW p \in l.beg .. l.end
  PROVE  NextBoundary(l, p) \in p + 1 .. l.end + 1
<1> DEFINE H == {q \in p + 1 .. (l.end + 1) - 1 : Boundary(q)}
<1>1. NextBoundary(l, p) = IF H = {} THEN IF p + 1 > l.end + 1 THEN p + 1 ELSE l.end + 1 ELSE Min(H)
  BY DEF NextBoundary, First
<1>2. l.beg \in Nat /\ l.end \in Nat
  BY DEF LineOK
<1>3. H \in SUBSET Nat /\ \A q \in H : q \in p + 1 .. l.end + 1
  BY <1>2
<1>4. H # {} => Min(H) \in H
  <2> HIDE DEF H
  <2> QED
    BY <1>3, MinIs
<1> HIDE DEF H
<1>5. CASE H = {}
  BY <1>1, <1>2, <1>5
<1>6. CASE H # {}
  BY <1>1, <1>3, <1>4, <1>6
<1> QED
  BY <1>5, <1>6

LEMMA CellsAre ==
  ASSUME NEW l, LineOK(l)
  PROVE  IsSeq(Cells(l)) /\ \A k \in 1 .. Len(Cells(l)) : LineOK(Cells(l)[k])
<1> DEFINE Body(f, p) == IF p > l.end THEN <<>> ELSE CellAt(l, p) \o f[NextBoundary(l, p)]
           Solves(m, f) == f = [p \in m .. l.end + 1 |-> Body(f, p)]
<1>0. l.beg \in Nat /\ l.end \in Nat /\ 1 <= l.beg /\ l.beg <= l.end
  BY DEF LineOK
<1>1. ASSUME NEW m \in l.beg .. l.end, NEW f, Solves(m + 1, f)
      PROVE  \E h : Solves(m, h)
  <2> DEFINE h == [p \in m .. l.end + 1 |-> IF p = m THEN CellAt(l, m) \o f[NextBoundary(l, m)] ELSE f[p]]
  <2>1. ASSUME NEW p \in m .. l.end + 1 PROVE h[p] = Body(h, p)
    <3>1. CASE p = m
      <4>1. NextBoundary(l, m) \in m + 1 .. l.end + 1
        BY BoundaryIs
      <4>2. h[NextBoundary(l, m)] = f[NextBoundary(l, m)]
        <5>1. PICK q \in m + 1 .. l.end + 1 : q = NextBoundary(l, m)
          BY <4>1
        <5>2. q \in m .. l.end + 1 /\ q # m
          BY <1>0
        <5> QED
          BY <5>1, <5>2
      <4>3. ~(m > l.end)
        BY <1>0
      <4>4. h[p] = CellAt(l, m) \o f[NextBoundary(l, m)]
        BY <3>1
      <4> HIDE DEF h
      <4> QED
        BY <3>1, <4>2, <4>3, <4>4
    <3>2. CASE p # m
      <4>1. p \in m + 1 .. l.end + 1
        BY <1>0, <3>2
      <4>2. f[p] = Body(f, p)
        <5> HIDE DEF Body
        <5> QED
          BY <1>1, <4>1
      <4>3. h[p] = f[p]
        BY <3>2
      <4>4. ~(p > l.end) => h[NextBoundary(l, p)] = f[NextBoundary(l, p)]
        <5>1. SUFFICES ASSUME ~(p > l.end) PROVE h[NextBoundary(l, p)] = f[NextBoundary(l, p)]
          OBVIOUS
        <5>2. p \in l.beg .. l.end
          BY <1>0, <5>1
        <5>3. PICK q \in p + 1 .. l.end + 1 : q = NextBoundary(l, p)
          BY <5>2, BoundaryIs
        <5>4. q \in m .. l.end + 1 /\ q # m
          BY <1>0
        <5> QED
          BY <5>3, <5>4
      <4> HIDE DEF h
      <4> QED
        BY <4>2, <4>3, <4>4
    <3> QED
      BY <3>1, <3>2
  <2>2. h = [p \in m .. l.end + 1 |-> h[p]]
    OBVIOUS
  <2> HIDE DEF h, Body
  <2> QED
    BY <2>1, <2>2
<1>2. \E f : Solves(l.end + 1, f)
  <2>1. Solves(l.end + 1, [p \in l.end + 1 .. l.end + 1 |-> <<>>])
    <3>1. \A p \in l.end + 1 .. l.end + 1 : p > l.end
      BY <1>0
    <3> QED
      BY <3>1
  <2> HIDE DEF Solves
  <2> QED
    BY <2>1
<1>3. \E f : Solves(l.beg, f)
  <2> HIDE DEF Solves
  <2> DEFINE M == {m \in l.beg .. l.end + 1 : \E f : Solves(m, f)}
  <2>1. M \in SUBSET Nat /\ l.end + 1 \in M
    BY <1>0, <1>2
  <2>2. PICK m \in M : \A k \in M : m <= k
    <3> HIDE DEF M
    <3> QED
      BY <2>1, LeastNat
  <2>3. PICK f : Solves(m, f)
    OBVIOUS
  <2>4. m = l.beg
    <3>1. SUFFICES ASSUME m # l.beg PROVE FALSE
      OBVIOUS
    <3>2. m - 1 \in l.beg .. l.end /\ (m - 1) + 1 = m /\ m - 1 \in l.beg .. l.end + 1
      BY <1>0, <3>1
    <3>3. m - 1 \in M
      BY <1>1, <2>3, <3>2
    <3> QED
      BY <1>0, <2>2, <3>3
  <2> QED
    BY <2>3, <2>4
<1> DEFINE from == CHOOSE f : Solves(l.beg, f)
<1>4. Solves(l.beg, from)
  <2> HIDE DEF Solves
  <2> QED
    BY <1>3
<1>5. Cells(l) = from[l.beg]
  BY DEF Cells, CellAt, NextBoundary, Boundary
<1>6. \A p \in l.beg .. l.end + 1 : from[p] = Body(from, p)
  <2> HIDE DEF from, Body
  <2> QED
    BY <1>4
<1> DEFINE Good(s) == IsSeq(s) /\ \A k \in 1 .. Len(s) : LineOK(s[k])
<1>7. Good(<<>>)
  <2>1. <<>> \in Seq({}) /\ Len(<<>>) = 0
    OBVIOUS
  <2> QED
    BY <2>1 DEF IsSeq
<1>8. ASSUME NEW p \in l.beg .. l.end PROVE Good(CellAt(l, p))
  <2>1. CASE ~(p < NextBoundary(l, p) - 1)
    BY <1>7, <2>1 DEF CellAt
  <2>2. CASE p < NextBoundary(l, p) - 1
    <3>1. PICK c : c = [beg |-> p, end |-> NextBoundary(l, p) - 1]
      OBVIOUS
    <3>2. PICK q \in p + 1 .. l.end + 1 : q = NextBoundary(l, p)
      BY BoundaryIs
    <3>3. LineOK(c)
      BY <1>0, <2>2, <3>1, <3>2 DEF LineOK
    <3>4. CellAt(l, p) = <<c>>
      BY <2>2, <3>1 DEF CellAt
    <3> QED
      BY <3>3, <3>4, OneLine DEF Ordered
  <2> QED
    BY <2>1, <2>2
<1>9. ASSUME NEW s, NEW t, Good(s), Good(t) PROVE Good(s \o t)
  <2>1. ASSUME NEW k \in 1 .. Len(s \o t) PROVE LineOK((s \o t)[k])
    <3>1. CASE k \in 1 .. Len(s)
      <4>1. (s \o t)[k] = s[k]
        BY <1>9, <3>1, ConcatIs
      <4> QED
        BY <1>9, <3>1, <4>1
    <3>2. CASE k \notin 1 .. Len(s)
      <4>1. k \in Len(s) + 1 .. Len(s) + Len(t) /\ k - Len(s) \in 1 .. Len(t)
        BY <1>9, <3>2, ConcatIs
      <4>2. (s \o t)[k] = t[k - Len(s)]
        BY <1>9, <4>1, ConcatIs
      <4> QED
        BY <1>9, <4>1, <4>2
    <3> QED
      BY <3>1, <3>2
  <2> QED
    BY <1>9, <2>1, ConcatIs
<1> HIDE DEF Good, from
<1>10. Good(from[l.beg])
  <2> DEFINE Bad == {n \in 0 .. l.end + 1 : l.end + 1 - n \in l.beg .. l.end + 1 /\ ~Good(from[l.end + 1 - n])}
  <2>1. SUFFICES ASSUME ~Good(from[l.beg]) PROVE FALSE
    OBVIOUS
  <2>2. Bad \in SUBSET Nat /\ Bad # {}
    <3>1. (l.end + 1) - l.beg \in Bad
      <4>1. PICK n : n = (l.end + 1) - l.beg
        OBVIOUS
      <4>2. n \in 0 .. l.end + 1 /\ l.end + 1 - n = l.beg /\ l.beg \in l.beg .. l.end + 1
        BY <1>0, <4>1
      <4> QED
        BY <2>1, <4>1, <4>2
    <3> QED
      BY <3>1
  <2>3. PICK n \in Bad : \A k \in Bad : n <= k
    <3> HIDE DEF Bad
    <3> QED
      BY <2>2, LeastNat
  <2>4. PICK p : p = l.end + 1 - n
    OBVIOUS
  <2>5. n \in Nat /\ p \in l.beg .. l.end + 1 /\ ~Good(from[p]) /\ from[p] = Body(from, p)
    BY <1>0, <1>6, <2>4
  <2>6. p \in l.beg .. l.end
    BY <1>0, <1>7, <2>5
  <2>7. PICK q \in p + 1 .. l.end + 1 : q = NextBoundary(l, p)
    BY <2>6, BoundaryIs
  <2>8. Good(from[q])
    <3>1. SUFFICES ASSUME ~Good(from[q]) PROVE FALSE
      OBVIOUS
    <3>2. PICK k : k = l.end + 1 - q
      OBVIOUS
    <3>3. k \in 0 .. l.end + 1 /\ l.end + 1 - k = q /\ q \in l.beg .. l.end + 1 /\ k < n
      BY <1>0, <2>4, <2>5, <2>6, <3>2
    <3>4. k \in Bad
      BY <3>1, <3>3
    <3> QED
      BY <2>3, <2>5, <3>3, <3>4
  <2>9. from[p] = CellAt(l, p) \o from[q]
    BY <1>0, <2>5, <2>6, <2>7
  <2> QED
    BY <1>8, <1>9, <2>5, <2>6, <2>8, <2>9
<1> QED
  BY <1>5, <1>10 DEF Good

\* The tasks of the cells of a row have none.
LEMMA CellsFree ==
  ASSUME NEW row, LineOK(row.line), NEW n \in Nat, DOMAIN row.aligns = 1 .. n
  PROVE  Free(CellTasks(row))
<1> DEFINE trim(c) == LET solid == {p \in c.beg .. c.end - 1 : ~IsBlank(p)}
                      IN  IF solid = {} THEN [beg |-> c.end, end |-> c.end]
                          ELSE [beg |-> Min(solid), end |-> Max(solid) + 1]
           range(k) == IF k <= Len(Cells(row.line)) THEN Cells(row.line)[k] ELSE [beg |-> 1, end |-> 1]
           cell(k) == <<Emit(<<Opens(row.type, [align |-> row.aligns[k]])>>),
                        Inlines(<<trim(range(k))>>),
                        Emit(<<Closes(row.type, [align |-> row.aligns[k]])>>)>>
           cells == [k \in DOMAIN row.aligns |-> cell(k)]
           first == Emit(<<Opens("tr", NoDetail)>>)
           final == Emit(<<Closes("tr", NoDetail)>>)
<1>1. CellTasks(row) = <<first>> \o FlattenSeq(cells) \o <<final>>
  BY Zenon DEF CellTasks
<1>9. ASSUME NEW c, LineOK(c) PROVE LineOK(trim(c))
  <2> DEFINE solid == {p \in c.beg .. c.end - 1 : ~IsBlank(p)}
  <2>1. c.beg \in Nat /\ c.end \in Nat /\ 1 <= c.beg /\ c.beg <= c.end
    BY <1>9 DEF LineOK
  <2>2. CASE solid = {}
    BY <2>1, <2>2 DEF LineOK
  <2>3. CASE solid # {}
    <3>1. solid \in SUBSET Nat /\ solid \in SUBSET (0 .. c.end) /\ \A p \in solid : 1 <= p
      BY <2>1
    <3>2. PICK x, y : x = Min(solid) /\ y = Max(solid)
      OBVIOUS
    <3>3. x \in solid /\ y \in solid /\ x <= y
      <4> HIDE DEF solid
      <4> QED
        BY <2>1, <2>3, <3>1, <3>2, MinIs, MaxIs
    <3>4. trim(c) = [beg |-> x, end |-> y + 1]
      BY <2>3, <3>2
    <3> HIDE DEF solid, trim
    <3>5. x \in Nat /\ y \in Nat /\ 1 <= x
      BY <3>1, <3>3
    <3> QED
      BY <3>3, <3>4, <3>5 DEF LineOK
  <2> HIDE DEF trim
  <2> QED
    BY <2>2, <2>3
<1>10. ASSUME NEW k \in 1 .. n PROVE LineOK(range(k))
  <2>1. CASE k <= Len(Cells(row.line))
    <3>1. k \in 1 .. Len(Cells(row.line))
      BY <2>1, CellsAre, ConcatIs
    <3> QED
      BY <2>1, <3>1, CellsAre
  <2>2. CASE ~(k <= Len(Cells(row.line)))
    BY <2>2 DEF LineOK
  <2> QED
    BY <2>1, <2>2
<1>2. ASSUME NEW k \in 1 .. n PROVE Free(cell(k))
  <2>1. LineOK(trim(range(k)))
    <3> HIDE DEF trim, range
    <3> QED
      BY <1>9, <1>10
  <2> HIDE DEF trim, range
  <2> QED
    BY <2>1, CellFree, Zenon
<1>3. PICK s : s = cells
  OBVIOUS
<1>4. IsSeq(s) /\ Len(s) = n /\ \A k \in 1 .. n : Free(s[k])
  <2> HIDE DEF cell
  <2>1. DOMAIN s = 1 .. n /\ \A k \in 1 .. n : s[k] = cell(k)
    BY <1>3
  <2>2. s = [k \in 1 .. n |-> s[k]]
    BY <1>3
  <2> QED
    BY <1>2, <2>1, <2>2, ListIs
<1>5. Free(FlattenSeq(s))
  BY <1>4, FlattenFree
<1>6. Free(<<first>>) /\ Free(<<final>>)
  BY OneTask, NoRow
<1> HIDE DEF cells, first, final
<1>7. Free(<<first>> \o FlattenSeq(s))
  BY <1>5, <1>6, FreeConcat
<1>8. Free((<<first>> \o FlattenSeq(s)) \o <<final>>)
  BY <1>6, <1>7, FreeConcat
<1> QED
  BY <1>1, <1>3, <1>8

LEMMA ThreeTasks ==
  ASSUME NEW x, NEW y, NEW z, TaskOK(x), TaskOK(y), TaskOK(z)
  PROVE  TasksOK(<<x, y, z>>)
<1>1. PICK s : s = <<x, y, z>>
  OBVIOUS
<1>2. s \in Seq({x, y, z}) /\ Len(s) = 3 /\ s[1] = x /\ s[2] = y /\ s[3] = z
  BY <1>1
<1>3. \A k \in 1 .. 3 : k = 1 \/ k = 2 \/ k = 3
  OBVIOUS
<1>4. IsSeq(s)
  BY <1>2 DEF IsSeq
<1>5. TasksOK(s)
  BY <1>2, <1>3, <1>4 DEF TasksOK
<1> QED
  BY <1>1, <1>5

\* Those of a table are its rows.
LEMMA RowColumned ==
  ASSUME NEW type, NEW l, LineOK(l), NEW a, NEW n \in Nat, DOMAIN a = 1 .. n
  PROVE  TaskOK(RowOf(type, l, a))
BY DEF TaskOK, RowOf

LEMMA AlignmentsAre ==
  ASSUME NEW l, NEW n \in Nat
  PROVE  DOMAIN Alignments(l, n) = 1 .. n
<1>1. \E f : Alignments(l, n) = [k \in 1 .. n |-> f[k]]
  <2> DEFINE dashes == {p \in l.beg .. l.end - 1 : CH(p) = "-" /\ (p = l.beg \/ CH(p-1) # "-")}
             begs == SetToSortSeq(dashes, <)
             end(p) == Skip(p, l.end, {"-"})
             align(p) ==
               LET left == p > l.beg /\ CH(p-1) = ":"
                   right == end(p) < l.end /\ CH(end(p)) = ":"
               IN  CASE left /\ right -> " center" [] left -> " left" [] right -> " right" [] OTHER -> ""
  <2>1. Alignments(l, n) = [k \in 1 .. n |-> align(begs[k])]
    BY Zenon DEF Alignments
  <2>2. PICK f : f = [k \in 1 .. n |-> align(begs[k])]
    OBVIOUS
  <2> HIDE DEF align, begs
  <2>3. f = [k \in 1 .. n |-> f[k]]
    BY <2>2
  <2> QED
    BY <2>1, <2>2, <2>3
<1> QED
  BY <1>1

LEMMA TableIsTasks ==
  ASSUME NEW b, b.data \in Nat, Ordered(b.lines), b.lines # <<>>
  PROVE  TasksOK(TableTasks(b))
<1> DEFINE aligns == Alignments(b.lines[2], b.data)
           body == [k \in 1 .. Len(b.lines) - 2 |-> RowOf("td", b.lines[k + 2], aligns)]
           e1 == Emit(<<Opens("thead", NoDetail)>>)
           e2 == RowOf("th", b.lines[1], aligns)
           e3 == Emit(<<Closes("thead", NoDetail)>>)
           e4 == Emit(<<Opens("tbody", NoDetail)>>)
           e5 == Emit(<<Closes("tbody", NoDetail)>>)
<1>1. TableTasks(b) = IF body = <<>> THEN <<e1, e2, e3>>
                      ELSE <<e1, e2, e3>> \o <<e4>> \o body \o <<e5>>
  BY Zenon DEF TableTasks
<1>2. PICK a : a = aligns
  OBVIOUS
<1>3. DOMAIN a = 1 .. b.data
  BY <1>2, AlignmentsAre
<1>0. IsSeq(b.lines) /\ Len(b.lines) \in Nat /\ Len(b.lines) >= 1 /\ \A i \in 1 .. Len(b.lines) : LineOK(b.lines[i])
  BY TailIs DEF Ordered
<1>4. /\ \A k \in 1 .. Len(b.lines) - 2 : TaskOK(RowOf("td", b.lines[k + 2], a))
      /\ TaskOK(RowOf("th", b.lines[1], a))
  <2>1. LineOK(b.lines[1]) /\ \A k \in 1 .. Len(b.lines) - 2 : LineOK(b.lines[k + 2])
    <3>1. \A k \in 1 .. Len(b.lines) - 2 : k + 2 \in 1 .. Len(b.lines)
      BY <1>0
    <3> QED
      BY <1>0, <3>1
  <2> QED
    BY <1>3, <2>1, RowColumned
<1>5. PICK s : s = body
  OBVIOUS
<1>6. TasksOK(s)
  <2>1. Len(b.lines) \in Nat
    BY <1>0
  <2>2. PICK m \in Nat : 1 .. m = 1 .. Len(b.lines) - 2
    <3>1. CASE Len(b.lines) >= 2
      <4>1. PICK n : n = Len(b.lines) - 2
        OBVIOUS
      <4>2. n \in Nat /\ 1 .. n = 1 .. Len(b.lines) - 2
        BY <2>1, <3>1, <4>1
      <4> QED
        BY <4>2
    <3>2. CASE Len(b.lines) < 2
      <4>1. 1 .. 0 = 1 .. Len(b.lines) - 2
        BY <2>1, <3>2
      <4> QED
        BY <4>1
    <3> QED
      BY <2>1, <3>1, <3>2
  <2> HIDE DEF aligns
  <2>3. DOMAIN s = 1 .. m /\ s = [k \in 1 .. m |-> s[k]]
        /\ \A k \in 1 .. m : s[k] = RowOf("td", b.lines[k + 2], a)
    BY <1>2, <1>5, <2>2
  <2>4. IsSeq(s) /\ Len(s) = m
    BY <2>3, ListIs
  <2> QED
    BY <1>4, <2>2, <2>3, <2>4 DEF TasksOK
<1>7. TaskOK(e1) /\ TaskOK(e3) /\ TaskOK(e4) /\ TaskOK(e5)
  BY NoRow DEF Simple
<1>8. TaskOK(e2)
  BY <1>2, <1>4
<1> HIDE DEF e1, e2, e3, e4, e5, body, aligns
<1>9. TasksOK(<<e1, e2, e3>>)
  BY <1>7, <1>8, ThreeTasks
<1>10. TasksOK(<<e4>>) /\ TasksOK(<<e5>>)
  BY <1>7, OneTask
<1>11. TasksOK(<<e1, e2, e3>> \o <<e4>>)
  BY <1>9, <1>10, TasksConcat
<1>12. TasksOK((<<e1, e2, e3>> \o <<e4>>) \o s)
  BY <1>6, <1>11, TasksConcat
<1>13. TasksOK(((<<e1, e2, e3>> \o <<e4>>) \o s) \o <<e5>>)
  BY <1>10, <1>12, TasksConcat
<1> QED
  BY <1>1, <1>5, <1>9, <1>13

LEMMA LeafIsTasks ==
  ASSUME NEW b, b.data \in Nat, Ordered(b.lines), b.lines # <<>>
  PROVE  TasksOK(LeafTasks(b))
<1>1. \E c, d : /\ \/ LeafTasks(b) = c
                   \/ LeafTasks(b) = <<Emit(<<Opens(b.type, d)>>)>> \o c \o <<Emit(<<Closes(b.type, d)>>)>>
                /\ \/ c = <<>> \/ c = <<Emit(Verbatim("code", CodeLines(b)))>>
                   \/ c = <<Emit(Verbatim("html", b.lines))>> \/ c = TableTasks(b)
                   \/ c = <<Inlines(b.lines)>>
  <2> DEFINE detail == CASE b.type = "h" -> [level |-> b.data]
                         [] b.type = "code" -> [lang |-> IF b.data = 0 THEN <<>> ELSE FenceLang(b.lines[1])]
                         [] OTHER -> NoDetail
             tight == loose # <<>> /\ ~Last(loose)
             contents == CASE b.type = "hr" -> <<>>
                           [] b.type = "code" -> <<Emit(Verbatim("code", CodeLines(b)))>>
                           [] b.type = "html" -> <<Emit(Verbatim("html", b.lines))>>
                           [] b.type = "table" -> TableTasks(b)
                           [] OTHER -> <<Inlines(b.lines)>>
  <2>1. LeafTasks(b) = IF tight /\ b.type = "p" THEN contents
                       ELSE <<Emit(<<Opens(b.type, detail)>>)>> \o contents \o <<Emit(<<Closes(b.type, detail)>>)>>
    BY Zenon DEF LeafTasks
  <2>2. \/ contents = <<>> \/ contents = <<Emit(Verbatim("code", CodeLines(b)))>>
        \/ contents = <<Emit(Verbatim("html", b.lines))>> \/ contents = TableTasks(b)
        \/ contents = <<Inlines(b.lines)>>
    BY Zenon
  <2>3. PICK d : d = detail
    OBVIOUS
  <2>4. PICK c : c = contents
    OBVIOUS
  <2> HIDE DEF contents, detail
  <2>5. \/ LeafTasks(b) = c
        \/ LeafTasks(b) = <<Emit(<<Opens(b.type, d)>>)>> \o c \o <<Emit(<<Closes(b.type, d)>>)>>
    BY <2>1, <2>3, <2>4
  <2>6. \/ c = <<>> \/ c = <<Emit(Verbatim("code", CodeLines(b)))>>
        \/ c = <<Emit(Verbatim("html", b.lines))>> \/ c = TableTasks(b)
        \/ c = <<Inlines(b.lines)>>
    BY <2>2, <2>4
  <2> QED
    BY <2>5, <2>6
<1>2. PICK c, d : /\ \/ LeafTasks(b) = c
                     \/ LeafTasks(b) = <<Emit(<<Opens(b.type, d)>>)>> \o c \o <<Emit(<<Closes(b.type, d)>>)>>
                  /\ \/ c = <<>> \/ c = <<Emit(Verbatim("code", CodeLines(b)))>>
                     \/ c = <<Emit(Verbatim("html", b.lines))>> \/ c = TableTasks(b)
                     \/ c = <<Inlines(b.lines)>>
  BY <1>1
<1>3. (\A x : TasksOK(<<Emit(x)>>)) /\ TasksOK(<<Inlines(b.lines)>>)
  BY OneTask, NoRow DEF Simple
<1>4. TasksOK(<<>>)
  <2>1. <<>> \in Seq({}) /\ Len(<<>>) = 0
    OBVIOUS
  <2> QED
    BY <2>1 DEF TasksOK, IsSeq
<1>5. TasksOK(c)
  BY <1>2, <1>3, <1>4, TableIsTasks
<1>6. PICK x, y : x = <<Opens(b.type, d)>> /\ y = <<Closes(b.type, d)>>
  OBVIOUS
<1>7. TasksOK(<<Emit(x)>> \o c)
  BY <1>3, <1>5, TasksConcat
<1>8. TasksOK((<<Emit(x)>> \o c) \o <<Emit(y)>>)
  BY <1>3, <1>7, TasksConcat
<1> QED
  BY <1>2, <1>5, <1>6, <1>8

\* A row is the first task until its cells take its place.
Inlining == {"collect", "links", "inlines"}
RowNext == todo # <<>> /\ Head(todo).do = "row"
TasksInv ==
  /\ TasksOK(todo) /\ block \in Nat \ {0}
  /\ pc \in Inlining /\ table => RowNext
  /\ pc = "cells" => RowNext

\* The inline phase goes through its steps in the same mode.
LEMMA InlineSteps ==
  InlinePhase => /\ pc \in Inlining /\ UNCHANGED table
                 /\ \/ pc' \in Inlining \/ pc' = "tasks" \/ (pc' = "cells" /\ table)
<1> USE DEF Inlining, blockVars
<1>0. Collecting => pc = "collect"
  BY DEF Collecting
<1>c. ASSUME NEW new, NEW off, Collect(new, off) PROVE UNCHANGED <<pc, table>>
  BY <1>c DEF Collect
<1>1. CASE CollectEscape \/ CollectEmphasis \/ CollectCodeSpan \/ CollectEntity \/ CollectAngle
           \/ CollectBracket \/ CollectPermissive \/ CollectTilde \/ CollectOther \/ CollectNextLine
  <2>1. pc = "collect"
    BY <1>0, <1>1 DEF CollectEscape, CollectEmphasis, CollectCodeSpan, CollectEntity, CollectAngle,
       CollectBracket, CollectPermissive, CollectTilde, CollectOther, CollectNextLine
  <2>2. UNCHANGED <<pc, table>>
    <3>1. CASE CollectEscape \/ CollectNextLine
      BY <3>1 DEF CollectEscape, CollectNextLine
    <3>2. CASE \E new, off : Collect(new, off)
      BY <1>c, <3>2
    <3>3. CollectEmphasis => \E new, off : Collect(new, off)
      BY DEF CollectEmphasis
    <3>4. CollectCodeSpan => \E new, off : Collect(new, off)
      BY DEF CollectCodeSpan
    <3>5. CollectEntity => \E new, off : Collect(new, off)
      BY DEF CollectEntity
    <3>6. CollectAngle => \E new, off : Collect(new, off)
      BY DEF CollectAngle, Autolink
    <3>7. CollectBracket => \E new, off : Collect(new, off)
      BY DEF CollectBracket
    <3>8. CollectPermissive => \E new, off : Collect(new, off)
      BY DEF CollectPermissive
    <3>9. CollectTilde => \E new, off : Collect(new, off)
      BY DEF CollectTilde
    <3>10. CollectOther => \E new, off : Collect(new, off)
      BY DEF CollectOther
    <3> QED
      BY <1>1, <3>1, <3>2, <3>3, <3>4, <3>5, <3>6, <3>7, <3>8, <3>9, <3>10
  <2> QED
    BY <2>1, <2>2
<1>2. CASE AnalyzeBrackets \/ OvertakenPair \/ PlainPair \/ LinkPair
  BY <1>2 DEF AnalyzeBrackets, OvertakenPair, PlainPair, LinkPair
<1>3. CASE AnalyzeRest
  BY <1>3 DEF AnalyzeRest
<1>4. CASE ProcessText \/ BreakLine
  BY <1>4 DEF ProcessText, BreakLine
<1>5. CASE EndInlines
  BY <1>5 DEF EndInlines, inlineVars
<1> QED
  BY <1>1, <1>2, <1>3, <1>4, <1>5 DEF InlinePhase

\* The block phase does not lead into the inline phase.
LEMMA BlockGoes ==
  BlockPhase => pc' \in {"line", "rules", "tail", "add", "blocks"}
<1>1. CASE BeginLine \/ LeaveFence \/ LeaveHtml \/ LeaveEmptyItem \/ Brother \/ Child
  BY <1>1 DEF BeginLine, LeaveFence, LeaveHtml, LeaveEmptyItem, Brother, Child
<1>2. CASE ContinueFence \/ CloseFence \/ ContinueHtml \/ BlankLine \/ IndentedLine \/ OpenFence
           \/ OpenHtml \/ TextLine
  BY <1>2 DEF ContinueFence, CloseFence, ContinueHtml, BlankLine, IndentedLine, OpenFence, OpenHtml,
     TextLine, Settle
<1>3. CASE SetextLine \/ HrLine \/ TableLine \/ AtxLine \/ TableUnderlineLine
  BY <1>3 DEF SetextLine, HrLine, TableLine, AtxLine, TableUnderlineLine, Leaf, Settle
<1>4. CASE EndLine \/ AddBlank \/ AddSingle \/ AddSetextUnderline \/ AddTableUnderline \/ AddToBlock
           \/ EndText
  BY <1>4 DEF EndLine, AddBlank, AddSingle, AddSetextUnderline, AddTableUnderline, AddToBlock, EndText,
     Processed
<1> QED
  BY <1>1, <1>2, <1>3, <1>4 DEF BlockPhase

\* The rows of a list of tasks.
LEMMA RowsAre ==
  ASSUME IsSeq(todo), IsSeq(todo')
  PROVE  Rows = Cardinality(RowSet(todo)) /\ Rows' = Cardinality(RowSet(todo'))
<1>1. DOMAIN todo = 1 .. Len(todo) /\ DOMAIN todo' = 1 .. Len(todo')
  BY DEF IsSeq
<1> QED
  BY <1>1 DEF Rows, RowSet

\* The cells of the row that is next.
LEMMA RowCells ==
  ASSUME TasksOK(todo), RowNext
  PROVE  Free(CellTasks(Head(todo)))
<1>1. Head(todo) = todo[1] /\ 1 \in 1 .. Len(todo)
  BY TailIs DEF TasksOK, RowNext
<1>2. LineOK(Head(todo).line) /\ \E n \in Nat : DOMAIN Head(todo).aligns = 1 .. n
  BY <1>1 DEF TasksOK, RowNext, TaskOK
<1>3. PICK row : row = Head(todo)
  OBVIOUS
<1>4. PICK n \in Nat : DOMAIN row.aligns = 1 .. n
  BY <1>2, <1>3
<1> QED
  BY <1>2, <1>3, <1>4, CellsFree

\* A task is done.
LEMMA TaskDone ==
  ASSUME TasksOK(todo), todo # <<>>, todo' = Tail(todo)
  PROVE  /\ TasksOK(todo') /\ Len(todo) \in Nat /\ Len(todo') = Len(todo) - 1
         /\ Rows \in Nat /\ Rows' \in Nat /\ Rows' <= Rows
<1>1. IsSeq(todo) /\ IsSeq(todo')
  BY TailIs DEF TasksOK
<1>2. Len(todo) \in Nat /\ Len(todo') = Len(todo) - 1 /\ \A i \in 1 .. Len(todo') : todo'[i] = todo[i+1]
  BY <1>1, TailIs
<1>3. \A i \in 1 .. Len(todo') : i + 1 \in 1 .. Len(todo)
  BY <1>2
<1>4. TasksOK(todo')
  BY <1>1, <1>2, <1>3 DEF TasksOK
<1>5. Rows = Cardinality(RowSet(todo)) /\ Rows' = Cardinality(RowSet(todo'))
  BY <1>1, RowsAre
<1>6. PICK s, t : s = todo /\ t = todo'
  OBVIOUS
<1>7. /\ IsSeq(s) /\ s # <<>> /\ IsSeq(t)
      /\ \A k \in 1 .. Len(t) : t[k].do = "row" =>
           k > 0 /\ (k - 0) + 1 \in 1 .. Len(s) /\ t[k].do = s[(k - 0) + 1].do
  BY <1>1, <1>2, <1>3, <1>6
<1>8. /\ Cardinality(RowSet(s)) \in Nat /\ Cardinality(RowSet(t)) \in Nat
      /\ Cardinality(RowSet(t)) <= Cardinality(RowSet(s))
  BY <1>7, FewerRows
<1> QED
  BY <1>2, <1>4, <1>5, <1>6, <1>8

\* A row is, and its cells are to do.
LEMMA RowDone ==
  ASSUME TasksOK(todo), RowNext, NEW c, Free(c), todo' = c \o Tail(todo)
  PROVE  TasksOK(todo') /\ Rows \in Nat /\ Rows' \in Nat /\ Rows' < Rows
<1>1. IsSeq(todo) /\ todo # <<>> /\ todo[1].do = "row"
  BY TailIs DEF TasksOK, RowNext
<1>2. PICK s, u : s = todo /\ u = Tail(todo)
  OBVIOUS
<1>3. /\ IsSeq(s) /\ s # <<>> /\ s[1].do = "row" /\ IsSeq(u) /\ Len(s) \in Nat /\ Len(u) = Len(s) - 1
      /\ Len(u) \in Nat /\ \A i \in 1 .. Len(u) : u[i] = s[i+1] /\ i + 1 \in 1 .. Len(s)
  <2>1. /\ IsSeq(u) /\ Len(s) \in Nat /\ Len(s) >= 1 /\ Len(u) = Len(s) - 1
        /\ \A i \in 1 .. Len(s) - 1 : u[i] = s[i+1]
    BY <1>1, <1>2, TailIs
  <2> QED
    BY <1>1, <1>2, <2>1
<1>4. TasksOK(u)
  BY <1>2, <1>3 DEF TasksOK
<1>5. TasksOK(c \o u)
  BY <1>4, FreeTasks, TasksConcat
<1>6. PICK t : t = c \o u
  OBVIOUS
<1>7. IsSeq(c) /\ IsSeq(t) /\ Len(c) \in Nat
  BY <1>3, <1>6, ConcatIs DEF Free
<1>8. ASSUME NEW k \in 1 .. Len(t), t[k].do = "row"
      PROVE  k > Len(c) /\ (k - Len(c)) + 1 \in 1 .. Len(s) /\ t[k].do = s[(k - Len(c)) + 1].do
  <2>1. Len(t) = Len(c) + Len(u)
    BY <1>3, <1>6, <1>7, ConcatIs
  <2>2. k \notin 1 .. Len(c)
    <3>1. \A i \in 1 .. Len(c) : t[i] = c[i]
      BY <1>3, <1>6, <1>7, ConcatIs
    <3> QED
      BY <1>8, <3>1 DEF Free, Simple
  <2>3. k \in Len(c) + 1 .. Len(c) + Len(u) /\ k - Len(c) \in 1 .. Len(u) /\ k > Len(c)
    BY <1>3, <1>7, <2>1, <2>2
  <2>4. t[k] = u[k - Len(c)]
    BY <1>3, <1>6, <1>7, <2>3, ConcatIs
  <2> QED
    BY <1>3, <2>3, <2>4
<1>9. /\ Cardinality(RowSet(s)) \in Nat /\ Cardinality(RowSet(t)) \in Nat
      /\ Cardinality(RowSet(t)) < Cardinality(RowSet(s))
  BY <1>3, <1>7, <1>8, FewerRows
<1>10. Rows = Cardinality(RowSet(s)) /\ Rows' = Cardinality(RowSet(t))
  BY <1>2, <1>3, <1>6, <1>7, RowsAre
<1> QED
  BY <1>2, <1>5, <1>9, <1>10

LEMMA TasksHold == Spec => []TasksInv
<1>1. Init => TasksInv
  <2> SUFFICES ASSUME Init PROVE TasksInv
    OBVIOUS
  <2>1. <<>> \in Seq({}) /\ Len(<<>>) = 0
    OBVIOUS
  <2> QED
    BY <2>1 DEF Init, TasksInv, TasksOK, IsSeq, Inlining
<1>2. TasksInv /\ OrderInv /\ [Next]_vars => TasksInv'
  <2> SUFFICES ASSUME TasksInv, OrderInv, [Next]_vars PROVE TasksInv'
    OBVIOUS
  <2> USE DEF Inlining
  <2>1. CASE UNCHANGED <<todo, block>> /\ pc' \notin Inlining \cup {"cells"}
    BY <2>1 DEF TasksInv
  <2>2. CASE InlinePhase /\ UNCHANGED <<idle, todo, block, loose>>
    BY <2>2, InlineSteps DEF TasksInv, RowNext
  <2>3. CASE BlockPhase /\ UNCHANGED <<inlineVars, idle, todo, block, loose>>
    <3>1. pc' \notin Inlining \cup {"cells"}
      BY <2>3, BlockGoes
    <3> QED
      BY <2>1, <2>3, <3>1
  <2>4. CASE UNCHANGED vars
    BY <2>4 DEF vars, blockVars, inlineVars, TasksInv, RowNext
  <2>5. CASE Converting
    <3>1. CASE TakePart
      BY <2>1, <3>1 DEF TakePart, blockVars
    <3>2. CASE ParsePart
      <4>1. pc' = "line" /\ block' = 1 /\ UNCHANGED todo
        BY <3>2 DEF ParsePart, StartText
      <4> QED
        BY <4>1 DEF TasksInv
    <3>3. CASE EndPart
      BY <2>1, <3>3 DEF EndPart
    <3>4. CASE OpenContainer \/ CloseContainer
      <4>1. pc' = "blocks" /\ block' = block + 1 /\ UNCHANGED todo
        BY <3>4 DEF OpenContainer, CloseContainer, NextEntry
      <4> QED
        BY <4>1 DEF TasksInv
    <3>5. CASE ProcessLeaf
      <4>1. pc = "blocks" /\ block <= Len(build.blocks) /\ block' = block + 1 /\ block \in Nat \ {0}
        BY <3>5 DEF ProcessLeaf, NextEntry, TasksInv
      <4>2. todo' = LeafTasks(Entry) /\ pc' = "tasks" /\ Entry.what = "leaf" /\ Entry = build.blocks[block]
        BY <3>5 DEF ProcessLeaf, Entry
      <4>3. PICK b : b = Entry
        OBVIOUS
      <4>4. b.data \in Nat /\ Ordered(b.lines) /\ b.lines # <<>>
        <5>1. Sorted(build.blocks)
          BY <4>1 DEF OrderInv, BlockSteps
        <5>2. block \in 1 .. Len(build.blocks)
          <6>1. Len(build.blocks) \in Nat
            BY <5>1, ConcatIs DEF Sorted
          <6> QED
            BY <4>1, <6>1
        <5> QED
          BY <4>2, <4>3, <5>1, <5>2 DEF Sorted, Shaped
      <4>5. TasksOK(LeafTasks(b))
        BY <4>4, LeafIsTasks
      <4> QED
        BY <4>1, <4>2, <4>3, <4>5 DEF TasksInv
    <3>6. CASE EmitEvents \/ ProcessNormalContents
      <4>1. todo # <<>> /\ todo' = Tail(todo) /\ UNCHANGED block
        BY <3>6 DEF EmitEvents, ProcessNormalContents
      <4>2. pc' = "tasks" \/ (pc' = "collect" /\ table' = FALSE)
        BY <3>6 DEF EmitEvents, ProcessNormalContents, StartInlines
      <4>3. TasksOK(todo')
        BY <4>1, TaskDone DEF TasksInv
      <4> QED
        BY <4>1, <4>2, <4>3 DEF TasksInv
    <3>7. CASE AnalyzeRow
      <4>1. UNCHANGED <<todo, block>> /\ pc' = "collect" /\ RowNext
        BY <3>7 DEF AnalyzeRow, StartInlines, RowNext
      <4> QED
        BY <4>1 DEF TasksInv, RowNext
    <3>8. CASE ProcessRow
      <4>1. pc' = "tasks" /\ UNCHANGED block /\ RowNext /\ todo' = CellTasks(Head(todo)) \o Tail(todo)
        BY <3>8 DEF ProcessRow, TasksInv
      <4>2. Free(CellTasks(Head(todo)))
        BY <4>1, RowCells DEF TasksInv
      <4>3. TasksOK(todo')
        BY <4>1, <4>2, RowDone DEF TasksInv
      <4> QED
        BY <4>1, <4>3 DEF TasksInv
    <3>9. CASE LeafDone
      BY <2>1, <3>9 DEF LeafDone
    <3> QED
      BY <2>5, <3>1, <3>2, <3>3, <3>4, <3>5, <3>6, <3>7, <3>8, <3>9 DEF Converting
  <2> QED
    BY <2>2, <2>3, <2>4, <2>5 DEF Next, Shown
<1> QED
  BY <1>1, <1>2, OrderHolds, PTL DEF Spec

\* Every step of the conversion around the parser.
LEMMA ConvertingAdvances ==
  ASSUME TextOK, OrderInv, TasksInv, Converting
  PROVE  Precedes(Left', Left)
<1>1. CASE TakePart \/ EndPart
  <2>1. chunks # <<>> /\ chunks' = Tail(chunks) /\ IsSeq(chunks)
    BY <1>1 DEF TakePart, EndPart, NextChunk, TextOK, IsSeq
  <2>2. Len(chunks') < Len(chunks)
    BY <2>1, TailIs
  <2> QED
    BY <2>2, LessParts
<1>2. CASE ParsePart
  <2>1. UNCHANGED chunks /\ pc = "part" /\ pc' = "line"
    BY <1>2 DEF ParsePart, StartText, idle
  <2> QED
    BY <2>1, LessPhase DEF Phase
<1>3. CASE OpenContainer \/ CloseContainer \/ ProcessLeaf
  <2>1. /\ UNCHANGED <<chunks, build>> /\ pc = "blocks" /\ pc' \in {"blocks", "tasks"}
        /\ block' = block + 1
    BY <1>3 DEF OpenContainer, CloseContainer, ProcessLeaf, NextEntry, Passing, idle
  <2>2. Len(build.blocks) \in Nat /\ block \in Nat
    BY <2>1, ConcatIs DEF OrderInv, BlockSteps, Sorted, TasksInv
  <2>3. Phase = 0 /\ Phase' = 0
    BY <2>1 DEF Phase
  <2>4. Unread = Len(build.blocks) - block /\ Unread' = Len(build.blocks) - (block + 1)
    BY <2>1, <2>3 DEF Unread
  <2> QED
    BY <2>1, <2>2, <2>3, <2>4, LessUnread
<1>4. CASE EmitEvents \/ ProcessNormalContents \/ AnalyzeRow \/ ProcessRow \/ LeafDone
  <2>1. UNCHANGED <<chunks, build, block>> /\ pc \in {"tasks", "cells"} /\ pc' \in {"tasks", "collect", "blocks"}
    BY <1>4 DEF EmitEvents, ProcessNormalContents, AnalyzeRow, ProcessRow, LeafDone, StartInlines,
       Passing, idle
  <2>2. Stays
    BY <2>1 DEF Stays, Phase, Unread
  <2>3. CASE LeafDone
    BY <2>2, <2>3, LessInBlock DEF LeafDone, InBlock
  <2>4. InBlock /\ (~LeafDone => InBlock')
    BY <1>4, <2>1 DEF EmitEvents, ProcessNormalContents, AnalyzeRow, ProcessRow, StartInlines, InBlock
  <2>5. CASE EmitEvents
    <3>1. todo # <<>> /\ todo' = Tail(todo) /\ pc = "tasks" /\ pc' = "tasks"
      BY <2>5 DEF EmitEvents
    <3>2. Len(todo) \in Nat /\ Len(todo') = Len(todo) - 1 /\ Rows \in Nat /\ Rows' \in Nat /\ Rows' <= Rows
      BY <3>1, TaskDone DEF TasksInv
    <3>3. Waiting = Len(todo) + 0 /\ Waiting' = Len(todo') + 0
      BY <3>1 DEF Waiting
    <3>4. InBlock /\ InBlock'
      BY <3>1 DEF InBlock
    <3>5. Waiting' < Waiting
      BY <3>2, <3>3
    <3> QED
      BY <2>2, <3>2, <3>4, <3>5, LessRows, LessWaiting
  <2>6. CASE ProcessNormalContents
    <3>1. todo # <<>> /\ todo' = Tail(todo) /\ pc = "tasks" /\ pc' = "collect" /\ table' = FALSE
      BY <2>6 DEF ProcessNormalContents, StartInlines
    <3>2. Len(todo) \in Nat /\ Len(todo') = Len(todo) - 1 /\ Rows \in Nat /\ Rows' \in Nat /\ Rows' <= Rows
      BY <3>1, TaskDone DEF TasksInv
    <3>3. Waiting = Len(todo) + 0 /\ Waiting' = Len(todo') + 1
      BY <3>1 DEF Waiting
    <3>4. InBlock /\ InBlock'
      BY <3>1 DEF InBlock
    <3>5. Waiting' = Waiting
      BY <3>2, <3>3
    <3>6. Rank(pc') < Rank(pc)
      BY <3>1 DEF Rank
    <3>7. Rows' = Rows => StaysAt
      BY <2>2, <3>4, <3>5 DEF StaysAt
    <3> QED
      BY <2>2, <3>2, <3>4, <3>6, <3>7, LessRows, LessRank
  <2>7. CASE AnalyzeRow
    <3>1. UNCHANGED todo /\ pc = "tasks" /\ pc' = "collect" /\ table' = TRUE
      BY <2>7 DEF AnalyzeRow, StartInlines
    <3>2. Waiting = Len(todo) + 0 /\ Waiting' = Len(todo) + 0
      BY <3>1 DEF Waiting
    <3>3. Rows' = Rows
      BY <3>1 DEF Rows
    <3>4. StaysAt
      BY <2>2, <3>1, <3>2, <3>3 DEF StaysAt, InBlock
    <3>5. Rank(pc') < Rank(pc)
      BY <3>1 DEF Rank
    <3> QED
      BY <3>4, <3>5, LessRank
  <2>8. CASE ProcessRow
    <3>1. pc = "cells" /\ pc' = "tasks" /\ todo' = CellTasks(Head(todo)) \o Tail(todo)
      BY <2>8 DEF ProcessRow
    <3>2. TasksOK(todo) /\ RowNext
      BY <3>1 DEF TasksInv
    <3>3. Rows' < Rows
      BY <3>1, <3>2, RowCells, RowDone
    <3>4. InBlock /\ InBlock'
      BY <3>1 DEF InBlock
    <3> QED
      BY <2>2, <3>3, <3>4, LessRows
  <2> QED
    BY <1>4, <2>3, <2>5, <2>6, <2>7, <2>8
<1> QED
  BY <1>1, <1>2, <1>3, <1>4 DEF Converting

-----------------------------------------------------------------------------
(* Outside of the inline phase, every step of the conversion takes it      *)
(* nearer to its end: no line, block, task or row of a table is taken      *)
(* twice, and no rule of md_analyze_line() is tried for ever, for any      *)
(* answer, any nesting and any number of parts.                            *)
THEOREM ConversionAdvances == Spec => [][~InlinePhase => Precedes(Left', Left)]_vars
<1>1. TextOK /\ OrderInv /\ BlocksInv /\ CtxOK /\ TasksInv /\ [Next]_vars
        => [~InlinePhase => Precedes(Left', Left)]_vars
  <2> SUFFICES ASSUME TextOK, OrderInv, BlocksInv, CtxOK, TasksInv, [Next]_vars, ~InlinePhase
               PROVE  Precedes(Left', Left) \/ UNCHANGED vars
    OBVIOUS
  <2>1. CASE Converting
    BY <2>1, ConvertingAdvances
  <2>2. CASE BlockPhase /\ UNCHANGED <<inlineVars, idle, todo, block, loose>>
    <3>1. UNCHANGED Else
      BY <2>2 DEF Else
    <3> QED
      BY <2>2, <3>1, BlockAdvances
  <2>3. CASE Shown
    BY <2>3 DEF Shown
  <2> QED
    BY <2>1, <2>2, <2>3 DEF Next
<1> QED
  BY <1>1, TextCorrect, OrderHolds, BlocksInvHolds, CtxCorrect, TasksHold, PTL DEF Spec
=============================================================================
