------------------------ MODULE MarkdownBlocksProofs ------------------------
(***************************************************************************)
(* Proofs about the block phase of md4c, for every answer: a search for a  *)
(* thematic break that is spared (hr_killer) would have found none, the    *)
(* containers in block_bytes are those of md_analyze_line(), the pivot     *)
(* line is of the block under construction, and the lines of the blocks    *)
(* are in the order of the text (KillerAgrees, ContainersMatchBuilt,       *)
(* PivotIsCurrent and LinesInOrder of Markdown).                           *)
(*                                                                         *)
(* Induction over data is done by the least number: a nonempty set of      *)
(* natural numbers has a least element (LeastNat, from the well-foundedness*)
(* of < in the library).  With it the recursive function that splits an    *)
(* answer at its fences is shown to exist and to return texts (SplitType), *)
(* and a scan over the text to end where the tokens it skips end (SkipIs). *)
(* Scans that begin inside of one another end together (SkipOn), which is  *)
(* why one failed search for a break stands for those inside of it         *)
(* (NoBreakInside).                                                        *)
(*                                                                         *)
(* What is open after the blocks is a recursive function of them, and the  *)
(* containers are entered and left by folds.  Both are unrolled too: one   *)
(* value for every step, by the least step for which there is none.  Then  *)
(* every operation of the build keeps OpenAs or changes it by a container, *)
(* and BlocksInv says at every step of a line which of the containers are  *)
(* open already.                                                           *)
(*                                                                         *)
(* The order of the lines comes last: Built says of a build that its lines *)
(* are in order and before a place, every scan of a line is bounded, and   *)
(* OrderInv says at every step that the build is before what is still to   *)
(* be read.                                                                *)
(***************************************************************************)
EXTENDS Markdown, WellFoundedInduction, FiniteSetTheorems, TLAPS

-----------------------------------------------------------------------------
(* The least number.                                                       *)

\* WFMin, without its operator.
LEMMA Minimal ==
  ASSUME NEW R, NEW D, IsWellFoundedOn(R, D)
  PROVE  \A S \in SUBSET D : S # {} => \E x \in S : \A y \in S : ~(<<y, x>> \in R)
BY WFMin, Zenon

\* A nonempty set of natural numbers has a least element.
LEMMA LeastNat ==
  ASSUME NEW S \in SUBSET Nat, S # {}
  PROVE  \E m \in S : \A k \in S : m <= k
<1>1. \E R : IsWellFoundedOn(R, Nat) /\ \A x, y \in Nat : x < y => <<x, y>> \in R
  <2>1. IsWellFoundedOn(OpToRel(<, Nat), Nat)
    BY NatLessThanWellFounded
  <2>2. \A x, y \in Nat : x < y => <<x, y>> \in OpToRel(<, Nat)
    BY DEF OpToRel
  <2> QED
    BY <2>1, <2>2, Zenon
<1>2. PICK R : IsWellFoundedOn(R, Nat) /\ \A x, y \in Nat : x < y => <<x, y>> \in R
  BY <1>1
<1>3. PICK x \in S : \A y \in S : ~(<<y, x>> \in R)
  BY <1>2, Minimal
<1>4. ASSUME NEW y \in S PROVE x <= y
  <2>1. x \in Nat /\ y \in Nat
    OBVIOUS
  <2>2. ~(y < x)
    BY <1>2, <1>3, <2>1
  <2> QED
    BY <2>1, <2>2
<1> QED
  BY <1>4

\* Min() of the community modules chooses it.
LEMMA MinIs ==
  ASSUME NEW S \in SUBSET Nat, S # {}
  PROVE  Min(S) \in S /\ \A k \in S : Min(S) <= k
<1>1. PICK m \in S : \A k \in S : m <= k
  BY LeastNat
<1> QED
  BY <1>1 DEF Min

-----------------------------------------------------------------------------
(* The parts of an answer.                                                 *)

\* A fence is found ahead, or the end.
LEMMA FenceIs ==
  ASSUME NEW s \in Seq(STRING), NEW i \in 1 .. Len(s) + 1
  PROVE  NextFence(s, i) \in i .. Len(s) + 1
<1> DEFINE F == {j \in i .. Len(s) - 2 : SubSeq(s, j, j + 2) = Fence}
<1>1. CASE F = {}
  BY <1>1 DEF NextFence
<1>2. CASE F # {}
  <2>1. Min(F) \in F
    <3>1. F \in SUBSET Nat
      OBVIOUS
    <3> HIDE DEF F
    <3> QED
      BY <1>2, <3>1, MinIs
  <2>2. NextFence(s, i) = Min(F)
    BY <1>2 DEF NextFence
  <2> QED
    BY <2>1, <2>2
<1> QED
  BY <1>1, <1>2

(* The parts of a text are texts.  Solves(m, g): from m + 1 on, g satisfies*)
(* the equations of the recursive function; the least such m is 0.         *)
LEMMA SplitType ==
  ASSUME NEW s \in Seq(STRING)
  PROVE  SplitAtFences(s) \in Seq(Seq(STRING))
<1> DEFINE N == Len(s) + 4
           T == Seq(Seq(STRING))
           Next3(i) == NextFence(s, i) + 3
           Rest(g, i) == IF NextFence(s, i) > Len(s) THEN <<>> ELSE g[Next3(i)]
           Piece(i) == <<SubSeq(s, i, NextFence(s, i) - 1)>>
           Body(g, i) == IF i > Len(s) + 1 THEN <<>> ELSE Piece(i) \o Rest(g, i)
           Solves(m, g) == g \in [1 .. N -> T] /\ \A i \in 1 .. N : i > m => g[i] = Body(g, i)
<1>0. Len(s) \in Nat /\ N \in Nat
  OBVIOUS
<1>1. \A i \in 1 .. Len(s) + 1 : NextFence(s, i) \in i .. Len(s) + 1
  BY FenceIs
<1>2. \A i \in 1 .. Len(s) + 1 : Piece(i) \in T
  <2> TAKE i \in 1 .. Len(s) + 1
  <2>1. SubSeq(s, i, NextFence(s, i) - 1) \in Seq(STRING)
    <3>1. PICK e \in i .. Len(s) + 1 : e = NextFence(s, i)
      BY <1>1
    <3>2. e - 1 \in (i - 1) .. Len(s)
      BY <3>1
    <3> QED
      BY <3>1, <3>2
  <2> QED
    BY <2>1
<1>3. ASSUME NEW i \in 1 .. N, NEW g, \A k \in 1 .. N : k > i => g[k] \in T
      PROVE  Body(g, i) \in T
  <2>1. CASE i > Len(s) + 1
    BY <2>1
  <2>2. CASE i <= Len(s) + 1
    <3>1. i \in 1 .. Len(s) + 1
      BY <2>2
    <3>2. NextFence(s, i) <= Len(s) => g[Next3(i)] \in T
      <4>1. NextFence(s, i) <= Len(s) => Next3(i) \in 1 .. N /\ Next3(i) > i
        BY <1>1, <3>1
      <4> QED
        BY <1>3, <4>1
    <3>3. Rest(g, i) \in T
      <4>1. CASE NextFence(s, i) <= Len(s)
        <5>1. Rest(g, i) = g[Next3(i)]
          BY <1>1, <3>1, <4>1
        <5> QED
          BY <3>2, <4>1, <5>1
      <4>2. CASE NextFence(s, i) > Len(s)
        BY <4>2
      <4> QED
        BY <1>1, <3>1, <4>1, <4>2
    <3>4. ~(i > Len(s) + 1)
      BY <2>2
    <3>5. Piece(i) \in T
      BY <1>2, <3>1
    <3> HIDE DEF T, Piece, Rest
    <3>6. Body(g, i) = Piece(i) \o Rest(g, i)
      BY <3>4
    <3>7. Piece(i) \o Rest(g, i) \in T
      BY <3>3, <3>5 DEF T
    <3> QED
      BY <3>6, <3>7
  <2> QED
    BY <2>1, <2>2
<1>4. ASSUME NEW m \in 1 .. N, NEW g, Solves(m, g)
      PROVE  \E h : Solves(m - 1, h)
  <2> DEFINE h == [g EXCEPT ![m] = Body(g, m)]
  <2>1. Body(g, m) \in T
    BY <1>3, <1>4
  <2>2. h \in [1 .. N -> T] /\ h[m] = Body(g, m) /\ \A k \in 1 .. N : k # m => h[k] = g[k]
    <3> HIDE DEF Body, T
    <3> QED
      BY <1>4, <2>1
  <2>3. ASSUME NEW i \in 1 .. N, i >= m PROVE Body(h, i) = Body(g, i)
    <3>1. i <= Len(s) + 1 /\ NextFence(s, i) <= Len(s) => Next3(i) \in 1 .. N /\ Next3(i) # m
      BY <1>1, <2>3
    <3>2. i <= Len(s) + 1 => Rest(h, i) = Rest(g, i)
      <4> HIDE DEF Body, T, h, Next3
      <4>1. i <= Len(s) + 1 /\ NextFence(s, i) <= Len(s) => h[Next3(i)] = g[Next3(i)]
        BY <2>2, <3>1
      <4>2. i <= Len(s) + 1 => NextFence(s, i) \in Int
        BY <1>1
      <4> QED
        BY <4>1, <4>2
    <3> HIDE DEF Rest, Piece, h
    <3> QED
      BY <3>2
  <2>4. ASSUME NEW i \in 1 .. N, i > m - 1 PROVE h[i] = Body(h, i)
    <3>1. i >= m
      BY <2>4
    <3>2. h[i] = Body(g, i)
      <4> HIDE DEF Body, T, h
      <4> QED
        BY <1>4, <2>2, <3>1
    <3> QED
      BY <2>3, <3>1, <3>2
  <2> HIDE DEF h, Body
  <2> QED
    BY <2>2, <2>4
<1>5. \E g : Solves(0, g)
  <2> DEFINE M == {m \in 0 .. N : \E g : Solves(m, g)}
  <2>1. N \in M
    <3>1. Solves(N, [i \in 1 .. N |-> <<>>])
      OBVIOUS
    <3> HIDE DEF Solves
    <3> QED
      BY <3>1
  <2>2. PICK m \in M : \A k \in M : m <= k
    <3>1. M \in SUBSET Nat
      OBVIOUS
    <3> HIDE DEF M
    <3> QED
      BY <2>1, <3>1, LeastNat
  <2>3. m = 0
    <3> HIDE DEF Solves
    <3>1. SUFFICES ASSUME m # 0 PROVE FALSE
      OBVIOUS
    <3>2. PICK g : Solves(m, g)
      OBVIOUS
    <3>3. \E h : Solves(m - 1, h)
      BY <1>4, <3>1, <3>2
    <3>4. m - 1 \in M
      BY <3>1, <3>3
    <3> QED
      BY <2>2, <3>4
  <2> QED
    BY <2>3
<1>6. PICK g : Solves(0, g)
  BY <1>5
<1>7. \E f : f = [i \in 1 .. N |-> Body(f, i)]
  <2>1. \A i \in 1 .. N : g[i] = Body(g, i)
    BY <1>6
  <2>2. g = [i \in 1 .. N |-> Body(g, i)]
    <3> HIDE DEF Body
    <3> QED
      BY <1>6, <2>1
  <2> QED
    BY <2>2
<1> DEFINE split == CHOOSE f : f = [i \in 1 .. N |-> Body(f, i)]
<1>8. split = [i \in 1 .. N |-> Body(split, i)]
  <2> HIDE DEF Body
  <2> QED
    BY <1>7
<1>9. SplitAtFences(s) = split[1]
  BY DEF SplitAtFences
<1>10. \A i \in 1 .. N : split[i] \in T
  <2> HIDE DEF split
  <2> DEFINE B == {k \in 0 .. N - 1 : split[N - k] \notin T}
  <2>1. SUFFICES ASSUME B # {} PROVE FALSE
    <3>1. \A i \in 1 .. N : N - i \in 0 .. N - 1 /\ N - (N - i) = i
      OBVIOUS
    <3> QED
      BY <2>1, <3>1
  <2>2. PICK k \in B : \A j \in B : k <= j
    <3>1. B \in SUBSET Nat
      OBVIOUS
    <3> HIDE DEF B
    <3> QED
      BY <2>1, <3>1, LeastNat
  <2>3. PICK i \in 1 .. N : i = N - k
    OBVIOUS
  <2>4. \A j \in 1 .. N : j > i => split[j] \in T
    <3> TAKE j \in 1 .. N
    <3>1. j > i => N - j \in 0 .. N - 1 /\ N - (N - j) = j /\ N - j < k
      BY <2>3
    <3> QED
      BY <2>2, <3>1
  <2>5. Body(split, i) \in T
    BY <1>3, <2>4
  <2>6. split[i] \in T
    <3> HIDE DEF Body, T
    <3> QED
      BY <1>8, <2>5
  <2> QED
    BY <2>3, <2>6
<1> HIDE DEF split
<1> QED
  BY <1>9, <1>10

-----------------------------------------------------------------------------
(* Scans over the text.                                                    *)

\* Where a scan over the tokens of S ends.
LEMMA SkipIs ==
  ASSUME NEW from \in Nat, NEW to \in Nat, NEW S
  PROVE  /\ Skip(from, to, S) \in Nat
         /\ from <= Skip(from, to, S)
         /\ from <= to => Skip(from, to, S) <= to
         /\ \A q \in Nat : from <= q /\ q < Skip(from, to, S) => q < to /\ CH(q) \in S
         /\ Skip(from, to, S) < to => CH(Skip(from, to, S)) \notin S
<1> DEFINE H == {p \in from .. to - 1 : CH(p) \notin S}
<1>1. Skip(from, to, S) = IF H = {} THEN IF from > to THEN from ELSE to ELSE Min(H)
  BY DEF Skip, First
<1>2. CASE H = {}
  BY <1>1, <1>2
<1>3. CASE H # {}
  <2>1. PICK m \in H : m = Min(H) /\ \A k \in H : m <= k
    <3>1. H \in SUBSET Nat
      OBVIOUS
    <3> HIDE DEF H
    <3> QED
      BY <1>3, <3>1, MinIs
  <2>2. Skip(from, to, S) = m
    BY <1>1, <1>3, <2>1
  <2>3. m \in Nat /\ from <= m /\ m < to /\ CH(m) \notin S
    OBVIOUS
  <2>4. \A q \in Nat : from <= q /\ q < m => q < to /\ CH(q) \in S
    <3> TAKE q \in Nat
    <3>1. from <= q /\ q < m => q \in from .. to - 1 /\ q \notin H
      BY <2>1, <2>3
    <3> QED
      BY <2>3, <3>1
  <2> QED
    BY <2>2, <2>3, <2>4
<1> QED
  BY <1>2, <1>3

\* A scan that begins inside of another one ends where that one ends.
LEMMA SkipOn ==
  ASSUME NEW from \in Nat, NEW to \in Nat, NEW S, NEW q \in Nat,
         from <= q, q < Skip(from, to, S)
  PROVE  Skip(q, to, S) = Skip(from, to, S)
<1> DEFINE a == Skip(from, to, S)
           b == Skip(q, to, S)
<1>1. /\ a \in Nat /\ q < to /\ a <= to
      /\ \A k \in Nat : from <= k /\ k < a => CH(k) \in S
      /\ a < to => CH(a) \notin S
  <2>1. q < to
    BY SkipIs
  <2> QED
    BY <2>1, SkipIs
<1>2. /\ b \in Nat /\ q <= b /\ b <= to
      /\ \A k \in Nat : q <= k /\ k < b => CH(k) \in S
      /\ b < to => CH(b) \notin S
  BY <1>1, SkipIs
<1> HIDE DEF a, b
<1>3. ~(b < a)
  BY <1>1, <1>2
<1>4. ~(a < b)
  <2>1. q < a
    BY DEF a
  <2> QED
    BY <1>1, <1>2, <2>1
<1> QED
  BY <1>1, <1>2, <1>3, <1>4 DEF a, b

\* The marks of thematic breaks.
HrMarks == {"-", "_", "*"}

\* What is inside of a run of marks that is no thematic break is none either.
LEMMA NoBreakInside ==
  ASSUME NEW n \in Nat, Eot = n, NEW p \in Nat, NEW q \in Nat, CH(p) \in HrMarks, ~ThematicBreak(p).hr,
         p <= q, q < ThematicBreak(p).end, CH(q) \in HrMarks
  PROVE  ~ThematicBreak(q).hr
<1> DEFINE S == {CH(p)} \cup Blank
           e == Skip(p, n, S)
           C(k) == {j \in k .. e - 1 : CH(j) = CH(p)}
<1>1. ThematicBreak(p).end = e /\ (ThematicBreak(p).hr <=> AtEol(e) /\ Cardinality(C(p)) >= 3)
  BY DEF ThematicBreak
<1>2. e \in Nat /\ CH(q) \in S /\ Skip(q, n, S) = e
  BY <1>1, SkipIs, SkipOn
<1>3. CH(q) = CH(p)
  BY <1>2 DEF HrMarks, Blank
<1>4. ThematicBreak(q).hr <=> AtEol(e) /\ Cardinality(C(q)) >= 3
  BY <1>2, <1>3 DEF ThematicBreak
<1>5. Cardinality(C(q)) <= Cardinality(C(p)) /\ Cardinality(C(q)) \in Nat /\ Cardinality(C(p)) \in Nat
  <2>1. C(q) \subseteq C(p)
    BY <1>2
  <2>2. IsFiniteSet(p .. e - 1) /\ C(p) \subseteq p .. e - 1
    <3>1. p \in Int /\ e - 1 \in Int
      BY <1>2
    <3> HIDE DEF e
    <3> QED
      BY <3>1, FS_Interval
  <2>3. IsFiniteSet(C(p))
    BY <2>2, FS_Subset
  <2> QED
    BY <2>1, <2>3, FS_Subset, FS_CardinalityType
<1> HIDE DEF C, e
<1> QED
  BY <1>1, <1>4, <1>5

-----------------------------------------------------------------------------
(* Frames: the block phase alone changes what it works on.                 *)

blockOwn == <<text, pos, line, pivot, ctx, containers, build>>
BlockSteps == {"line", "rules", "tail", "add"}

\* The inline phase leaves the block phase alone, and only it collects marks.
LEMMA InlineFrame ==
  InlinePhase => UNCHANGED blockOwn /\ pc \notin BlockSteps \cup {"part"} /\ pc' \notin BlockSteps
<1> USE DEF blockOwn, BlockSteps, blockVars
<1>0. Collecting => pc = "collect"
  BY DEF Collecting
<1>c. ASSUME NEW new, NEW off, Collect(new, off) PROVE UNCHANGED blockVars
  BY <1>c DEF Collect
<1>d. ASSUME pc = "collect", UNCHANGED blockVars
      PROVE  UNCHANGED blockOwn /\ pc \notin BlockSteps \cup {"part"} /\ pc' \notin BlockSteps
  BY <1>d
<1>1. CASE CollectEscape \/ CollectEmphasis \/ CollectCodeSpan \/ CollectEntity \/ CollectAngle
           \/ CollectBracket \/ CollectPermissive \/ CollectTilde \/ CollectOther \/ CollectNextLine
  <2>1. pc = "collect"
    BY <1>0, <1>1 DEF CollectEscape, CollectEmphasis, CollectCodeSpan, CollectEntity, CollectAngle,
       CollectBracket, CollectPermissive, CollectTilde, CollectOther, CollectNextLine
  <2>2. UNCHANGED blockVars
    <3>1. CASE CollectEscape \/ CollectNextLine
      BY <3>1 DEF CollectEscape, CollectNextLine
    <3>2. CASE \E new, off : Collect(new, off)
      BY <1>c, <3>2
    <3>3. CollectEmphasis => \E new, off : Collect(new, off)
      BY DEF CollectEmphasis
    <3>4. CollectCodeSpan => \E new, off : Collect(new, off)
      BY DEF CollectCodeSpan
    <3>5. CollectEntity => \E new, off : Collect(new, off)
      BY DEF CollectEntity
    <3>6. CollectAngle => \E new, off : Collect(new, off)
      BY DEF CollectAngle, Autolink
    <3>7. CollectBracket => \E new, off : Collect(new, off)
      BY DEF CollectBracket
    <3>8. CollectPermissive => \E new, off : Collect(new, off)
      BY DEF CollectPermissive
    <3>9. CollectTilde => \E new, off : Collect(new, off)
      BY DEF CollectTilde
    <3>10. CollectOther => \E new, off : Collect(new, off)
      BY DEF CollectOther
    <3> QED
      BY <1>1, <3>1, <3>2, <3>3, <3>4, <3>5, <3>6, <3>7, <3>8, <3>9, <3>10
  <2> QED
    BY <1>d, <2>1, <2>2
<1>2. CASE AnalyzeBrackets \/ OvertakenPair \/ PlainPair \/ LinkPair
  BY <1>2 DEF AnalyzeBrackets, OvertakenPair, PlainPair, LinkPair
<1>3. CASE AnalyzeRest
  BY <1>3 DEF AnalyzeRest
<1>4. CASE ProcessText \/ BreakLine \/ EndInlines
  BY <1>4 DEF ProcessText, BreakLine, EndInlines
<1> QED
  BY <1>1, <1>2, <1>3, <1>4 DEF InlinePhase

\* The conversion around them leaves it alone, or starts it.
LEMMA ConvertingFrame ==
  Converting => /\ pc \notin BlockSteps
                /\ \/ UNCHANGED <<blockOwn>> /\ pc' \notin BlockSteps
                   \/ ParsePart
<1> USE DEF blockOwn, BlockSteps, blockVars
<1>1. CASE TakePart \/ ParsePart \/ EndPart
  BY <1>1 DEF TakePart, ParsePart, EndPart, StartText
<1>2. CASE OpenContainer \/ CloseContainer \/ ProcessLeaf
  BY <1>2 DEF OpenContainer, CloseContainer, ProcessLeaf, NextEntry, Passing
<1>3. CASE EmitEvents \/ ProcessRow \/ LeafDone
  BY <1>3 DEF EmitEvents, ProcessRow, LeafDone, Passing
<1>4. CASE ProcessNormalContents \/ AnalyzeRow
  BY <1>4 DEF ProcessNormalContents, AnalyzeRow, StartInlines
<1> QED
  BY <1>1, <1>2, <1>3, <1>4 DEF Converting

\* The block phase reads one text; these actions are its loop over a line.
LEMMA BlockFrame ==
  BlockPhase => /\ pc \in BlockSteps /\ UNCHANGED text
                /\ pc' = "rules" => BeginLine \/ LeaveFence \/ LeaveHtml \/ LeaveEmptyItem \/ Brother \/ Child
<1> USE DEF BlockSteps
<1>1. CASE BeginLine \/ LeaveFence \/ LeaveHtml \/ LeaveEmptyItem \/ Brother \/ Child
  BY <1>1 DEF BeginLine, LeaveFence, LeaveHtml, LeaveEmptyItem, Brother, Child
<1>2. CASE ContinueFence \/ CloseFence \/ ContinueHtml \/ BlankLine \/ IndentedLine \/ OpenFence
           \/ OpenHtml \/ TextLine
  BY <1>2 DEF ContinueFence, CloseFence, ContinueHtml, BlankLine, IndentedLine, OpenFence, OpenHtml,
     TextLine, Settle
<1>3. CASE SetextLine \/ HrLine \/ TableLine \/ AtxLine \/ TableUnderlineLine
  BY <1>3 DEF SetextLine, HrLine, TableLine, AtxLine, TableUnderlineLine, Leaf, Settle
<1>4. CASE EndLine \/ AddBlank \/ AddSingle \/ AddSetextUnderline \/ AddTableUnderline \/ AddToBlock
           \/ EndText
  BY <1>4 DEF EndLine, AddBlank, AddSingle, AddSetextUnderline, AddTableUnderline, AddToBlock, EndText,
     Processed
<1> QED
  BY <1>1, <1>2, <1>3, <1>4 DEF BlockPhase

-----------------------------------------------------------------------------
(* The text.                                                               *)

\* The text under the parser and the parts that are left, while there are some.
TextOK ==
  /\ text \in Seq(STRING) /\ chunks \in Seq(Seq(STRING))
  /\ pc # "part" => chunks # <<>>

\* The parser works on a text that is part of an answer.
LEMMA TextCorrect == Spec => []TextOK
<1>1. Init => TextOK
  <2> SUFFICES ASSUME Init PROVE TextOK
    OBVIOUS
  <2>1. markdown \in Seq(STRING)
    BY AnswersAssumption DEF Init
  <2>2. chunks \in Seq(Seq(STRING))
    BY <2>1, SplitType DEF Init
  <2> QED
    BY <2>2 DEF Init, TextOK
<1>2. TextOK /\ [Next]_vars => TextOK'
  <2> SUFFICES ASSUME TextOK, [Next]_vars PROVE TextOK'
    OBVIOUS
  <2>1. CASE Converting
    <3>1. CASE TakePart
      BY <3>1 DEF TakePart, NextChunk, TextOK, blockVars
    <3>2. CASE ParsePart
      BY <3>2 DEF ParsePart, StartText, TextOK, idle
    <3>3. CASE EndPart
      BY <3>3 DEF EndPart, NextChunk, TextOK
    <3>4. CASE OpenContainer \/ CloseContainer \/ ProcessLeaf
      BY <3>4 DEF OpenContainer, CloseContainer, ProcessLeaf, NextEntry, Passing, TextOK, idle
    <3>5. CASE EmitEvents \/ ProcessNormalContents \/ AnalyzeRow \/ ProcessRow \/ LeafDone
      BY <3>5 DEF EmitEvents, ProcessNormalContents, AnalyzeRow, StartInlines, ProcessRow, LeafDone, Passing, TextOK, idle
    <3> QED
      BY <2>1, <3>1, <3>2, <3>3, <3>4, <3>5 DEF Converting
  <2>2. CASE InlinePhase /\ UNCHANGED <<idle, todo, block, loose>>
    <3>1. UNCHANGED <<text, chunks>> /\ pc # "part"
      BY <2>2, InlineFrame DEF idle, blockOwn
    <3> QED
      BY <3>1 DEF TextOK
  <2>3. CASE BlockPhase /\ UNCHANGED <<inlineVars, idle, todo, block, loose>>
    <3>1. UNCHANGED <<text, chunks>> /\ pc # "part"
      BY <2>3, BlockFrame DEF idle, BlockSteps
    <3> QED
      BY <3>1 DEF TextOK
  <2>4. CASE UNCHANGED vars
    BY <2>4 DEF vars, blockVars, TextOK
  <2> QED
    BY <2>1, <2>2, <2>3, <2>4 DEF Next, Shown
<1> QED
  BY <1>1, <1>2, PTL DEF Spec

-----------------------------------------------------------------------------
(* hr_killer                                                               *)

\* A container mark is wider than nothing.
LEMMA MarkEnds ==
  ASSUME NEW indent, NEW p \in 1 .. Len(text), text \in Seq(STRING), ContainerMark(indent, p) # NoMark
  PROVE  /\ ContainerMark(indent, p).end \in Nat /\ p < ContainerMark(indent, p).end
         /\ indent < CodeIndent
<1>0. Len(text) \in Nat
  OBVIOUS
<1>1. p \in Nat /\ Eot \in Nat
  BY <1>0 DEF Eot
<1> DEFINE d == Skip(p, Min({p + 9, Eot}), Digits)
<1>2. Min({p + 9, Eot}) \in Nat
  <2>1. {p + 9, Eot} \in SUBSET Nat /\ {p + 9, Eot} # {}
    BY <1>1
  <2>2. Min({p + 9, Eot}) \in {p + 9, Eot}
    BY <2>1, MinIs
  <2> QED
    BY <2>1, <2>2
<1>3. d \in Nat /\ p <= d
  BY <1>1, <1>2, SkipIs
<1> HIDE DEF d
<1>4. ContainerMark(indent, p) = MarkTo(indent, p, d)
  BY DEF ContainerMark, d
<1>5. MarkTo(indent, p, d).end = d + 1 /\ indent < CodeIndent
  BY <1>4 DEF MarkTo
<1> QED
  BY <1>1, <1>3, <1>4, <1>5

\* What the search for thematic breaks is spared is in a run of marks that
\* is none.
Spared ==
  \/ line.killer = 0
  \/ /\ line.off \in Nat /\ line.pivot = Dummy
     /\ \E p \in 1 .. Len(text) : /\ p <= line.off /\ CH(p) \in HrMarks /\ ~ThematicBreak(p).hr
                                  /\ line.killer = ThematicBreak(p).end

SparedInv == pc = "rules" => {"off", "killer", "pivot"} \subseteq DOMAIN line /\ Spared

\* A container mark takes the line on, and is no thematic break.
LEMMA BehindSpares ==
  ASSUME text \in Seq(STRING), {"off", "killer", "pivot"} \subseteq DOMAIN line, Spared,
         Rule \in {"brother", "child"}
  PROVE  \E new \in {BehindMark(Mark).line} :
           /\ {"off", "killer", "pivot"} \subseteq DOMAIN new
           /\ new.pivot = Dummy
           /\ \/ new.killer = 0
              \/ /\ new.off \in Nat
                 /\ \E p \in 1 .. Len(text) : /\ p <= new.off /\ CH(p) \in HrMarks /\ ~ThematicBreak(p).hr
                                              /\ new.killer = ThematicBreak(p).end
<1> DEFINE new == BehindMark(Mark).line
           inner == Indentation(line.total + (Mark.contents - Mark.mark), Mark.end)
<1>1. /\ DOMAIN new = DOMAIN line /\ new.pivot = Dummy /\ new.off = inner.end
      /\ new.killer = IF line.off >= line.killer /\ CH(line.off) \in HrMarks
                      THEN ThematicBreak(line.off).end ELSE line.killer
  <2> DEFINE m == Mark
             b == Behind(m, m.contents - m.mark, inner)
             own == IF ~AtEol(inner.end) /\ inner.columns <= CodeIndent THEN inner.columns ELSE 1
             moved == [line EXCEPT !.off = inner.end, !.beg = inner.end,
                         !.total = @ + (m.contents - m.mark) + inner.columns,
                         !.indent = IF AtEol(inner.end) THEN inner.columns
                                    ELSE Max({0, inner.columns - own}),
                         !.killer = IF line.off >= @ /\ CH(line.off) \in {"-", "_", "*"}
                                    THEN Killer(line.off) ELSE @,
                         !.pivot = Dummy]
  <2>1. BehindMark(Mark) = b
    BY DEF BehindMark, BehindWidth
  <2>2. \E c : b = [line |-> moved, container |-> c]
    BY Zenon DEF Behind
  <2> HIDE DEF b
  <2>3. new = moved
    <3> HIDE DEF moved
    <3> QED
      BY <2>1, <2>2
  <2> HIDE DEF inner, own, m
  <2> QED
    BY <2>3 DEF Killer, HrMarks
<1>2. inner.end = Skip(Mark.end, Eot, Blank)
  BY DEF Indentation
<1>3. Mark # NoMark /\ (Rule = MarkRule(line.off, Mark))
  BY DEF Rule, MarkRule, LeafRule
<1>4. ASSUME line.off \in 1 .. Len(text) PROVE new.off \in Nat /\ line.off <= new.off /\ Flush
  <2>1. Mark.end \in Nat /\ line.off < Mark.end /\ Flush
    BY <1>3, <1>4, MarkEnds DEF Mark, Flush
  <2>2. Eot \in Nat
    BY DEF Eot
  <2>3. Skip(Mark.end, Eot, Blank) \in Nat /\ Mark.end <= Skip(Mark.end, Eot, Blank)
    BY <2>1, <2>2, SkipIs
  <2> HIDE DEF new, inner
  <2> QED
    BY <1>1, <1>2, <1>4, <2>1, <2>3
<1> HIDE DEF new, inner
<1>5. CASE line.off >= line.killer /\ CH(line.off) \in HrMarks
  <2>1. line.off \in 1 .. Len(text)
    BY <1>5 DEF CH, HrMarks
  <2>2. ~ThematicBreak(line.off).hr
    <3>1. Flush
      BY <1>4, <2>1
    <3>2. Rule # "hr"
      OBVIOUS
    <3> QED
      BY <1>3, <1>5, <3>1, <3>2 DEF Rule, HrMarks
  <2> QED
    BY <1>1, <1>4, <1>5, <2>1, <2>2 DEF new
<1>6. CASE ~(line.off >= line.killer /\ CH(line.off) \in HrMarks)
  <2>1. new.killer = line.killer
    BY <1>1, <1>6
  <2>2. CASE line.killer = 0
    BY <1>1, <2>1, <2>2 DEF new
  <2>3. CASE line.killer # 0
    <3>1. PICK p \in 1 .. Len(text) : p <= line.off /\ CH(p) \in HrMarks /\ ~ThematicBreak(p).hr
                                     /\ line.killer = ThematicBreak(p).end
      BY <2>3 DEF Spared
    <3>2. ~AtEol(line.off)
      BY <1>3 DEF Rule
    <3>3. line.off \in 1 .. Len(text)
      <4>1. line.off \in Nat /\ Len(text) \in Nat
        BY <2>3 DEF Spared
      <4> QED
        BY <3>1, <3>2, <4>1 DEF AtEol, Eot
    <3>4. new.off \in Nat /\ p <= new.off
      BY <1>4, <3>1, <3>3
    <3> QED
      BY <1>1, <2>1, <3>1, <3>4 DEF new
  <2> QED
    BY <2>2, <2>3
<1> QED
  BY <1>5, <1>6

\* What is read off the text stays with it.
LEMMA TextFrame ==
  ASSUME UNCHANGED text
  PROVE  \A p : CH(p)' = CH(p) /\ ThematicBreak(p)' = ThematicBreak(p)
<1> TAKE p
<1>1. \A q : CH(q)' = CH(q)
  BY Zenon DEF CH
<1>2. Eot' = Eot /\ \A q : AtEol(q)' = AtEol(q)
  BY <1>1 DEF Eot, AtEol
<1>3. ThematicBreak(p)' = ThematicBreak(p)
  BY <1>1, <1>2 DEF ThematicBreak, Skip, First
<1> QED
  BY <1>1, <1>3

\* It stays so.
LEMMA SparedHolds == Spec => []SparedInv
<1>1. Init => SparedInv
  BY DEF Init, SparedInv
<1>2. TextOK /\ SparedInv /\ [Next]_vars => SparedInv'
  <2> SUFFICES ASSUME TextOK, SparedInv, [Next]_vars, pc' = "rules"
               PROVE  {"off", "killer", "pivot"} \subseteq DOMAIN line' /\ Spared'
    BY DEF SparedInv
  <2>1. CASE UNCHANGED <<text, pc, line>>
    <3>1. \A p : CH(p)' = CH(p) /\ ThematicBreak(p)' = ThematicBreak(p)
      BY <2>1, TextFrame
    <3> QED
      BY <2>1, <3>1 DEF SparedInv, Spared
  <2>2. CASE UNCHANGED vars
    BY <2>1, <2>2 DEF vars, blockVars
  <2>3. CASE Converting
    BY <2>3, ConvertingFrame DEF ParsePart, StartText, BlockSteps
  <2>4. CASE InlinePhase
    BY <2>4, InlineFrame DEF BlockSteps
  <2>5. CASE BlockPhase
    <3>0. UNCHANGED text
      BY <2>5, BlockFrame
    <3>a. \A p : CH(p)' = CH(p) /\ ThematicBreak(p)' = ThematicBreak(p)
      BY <3>0, TextFrame
    <3>1. CASE BeginLine
      <4>1. \E d, none, len : line' =
               [type |-> "none", off |-> d.off, beg |-> d.off, end |-> 0, indent |-> d.indent,
                total |-> d.total, data |-> 0, parents |-> d.parents, brothers |-> 0, children |-> 0,
                killer |-> 0, pivot |-> pivot, task |-> none, enforce |-> FALSE, loosening |-> len]
        BY <3>1, Zenon DEF BeginLine
      <4> QED
        BY <4>1 DEF Spared
    <3>2. CASE LeaveFence
      <4>1. line.pivot # Dummy /\ line' = [line EXCEPT !.off = IF Flush THEN Closing.end ELSE @, !.pivot = Dummy]
            /\ pc = "rules"
        <5>1. After("fenced")
          BY <3>2 DEF LeaveFence, Rule, MarkRule, LeafRule
        <5>2. line.pivot # Dummy
          BY <5>1 DEF After, Dummy
        <5> QED
          BY <3>2, <5>2 DEF LeaveFence
      <4>2. line.killer = 0 /\ line'.killer = 0 /\ DOMAIN line' = DOMAIN line
        BY <4>1 DEF SparedInv, Spared
      <4> QED
        BY <4>1, <4>2 DEF SparedInv, Spared
    <3>3. CASE LeaveHtml
      BY <2>1, <3>0, <3>3 DEF LeaveHtml
    <3>4. CASE LeaveEmptyItem
      <4>1. pc = "rules" /\ DOMAIN line' = DOMAIN line /\ line'.off = line.off /\ line'.killer = line.killer
            /\ line'.pivot = line.pivot
        BY <3>4 DEF LeaveEmptyItem, SparedInv
      <4> QED
        BY <3>0, <3>a, <4>1 DEF SparedInv, Spared
    <3>b. ASSUME pc = "rules", Rule \in {"brother", "child"}, NEW field \in {"brothers", "children"},
                 NEW v, line' = [BehindMark(Mark).line EXCEPT ![field] = v]
          PROVE  {"off", "killer", "pivot"} \subseteq DOMAIN line' /\ Spared'
      <4>1. PICK new \in {BehindMark(Mark).line} :
               /\ {"off", "killer", "pivot"} \subseteq DOMAIN new
               /\ new.pivot = Dummy
               /\ \/ new.killer = 0
                  \/ /\ new.off \in Nat
                     /\ \E p \in 1 .. Len(text) : /\ p <= new.off /\ CH(p) \in HrMarks /\ ~ThematicBreak(p).hr
                                                  /\ new.killer = ThematicBreak(p).end
        BY <3>b, BehindSpares DEF TextOK, SparedInv
      <4>2. /\ DOMAIN line' = DOMAIN new /\ line'.off = new.off /\ line'.killer = new.killer
            /\ line'.pivot = new.pivot
        BY <3>b, <4>1
      <4>3. Dummy' = Dummy
        BY DEF Dummy
      <4> QED
        BY <3>0, <3>a, <4>1, <4>2, <4>3 DEF Spared
    <3>5. CASE Brother
      <4>1. pc = "rules" /\ Rule = "brother" /\ line' = [BehindMark(Mark).line EXCEPT !.brothers = 1]
        BY <3>5 DEF Brother
      <4> QED
        BY <3>b, <4>1
    <3>6. CASE Child
      <4>1. pc = "rules" /\ Rule = "child" /\ line' = [BehindMark(Mark).line EXCEPT !.children = @ + 1]
        BY <3>6 DEF Child
      <4> QED
        BY <3>b, <4>1
    <3> QED
      BY <2>5, BlockFrame, <3>1, <3>2, <3>3, <3>4, <3>5, <3>6
  <2> QED
    BY <2>2, <2>3, <2>4, <2>5 DEF Next, Shown
<1> QED
  BY <1>1, <1>2, TextCorrect, PTL DEF Spec

(* Every search for a thematic break (md_is_hr_line) that md_analyze_line()*)
(* skips because of hr_killer would have found none: after the marks of    *)
(* any number of containers, whatever the answer is.                       *)
THEOREM KillerIsRight ==
  Spec => []KillerAgrees
<1>1. TextOK /\ SparedInv => KillerAgrees
  <2> SUFFICES ASSUME TextOK, SparedInv, pc = "rules", line.off < line.killer, CH(line.off) \in HrMarks
               PROVE  ~ThematicBreak(line.off).hr
    BY DEF KillerAgrees, HrMarks
  <2>1. line.off \in 1 .. Len(text)
    BY DEF CH, HrMarks
  <2>2. text \in Seq(STRING) /\ Len(text) \in Nat
    BY DEF TextOK
  <2>3. PICK p \in 1 .. Len(text) : p <= line.off /\ CH(p) \in HrMarks /\ ~ThematicBreak(p).hr
                                   /\ line.killer = ThematicBreak(p).end
    BY <2>1, <2>2 DEF SparedInv, Spared
  <2>4. PICK n \in Nat : Eot = n
    BY <2>2 DEF Eot
  <2>5. p \in Nat /\ line.off \in Nat
    BY <2>1, <2>2
  <2> QED
    BY <2>3, <2>4, <2>5, NoBreakInside
<1> QED
  BY <1>1, TextCorrect, SparedHolds, PTL

-----------------------------------------------------------------------------
(* Folds, unrolled: where the recursive functions of the library are       *)
(* defined.                                                                *)

\* The greatest of some numbers up to n.
LEMMA MaxIs ==
  ASSUME NEW n \in Nat, NEW S \in SUBSET (0 .. n), S # {}
  PROVE  Max(S) \in S /\ \A k \in S : k <= Max(S)
<1> DEFINE D == {n - k : k \in S}
<1>1. D \in SUBSET Nat /\ D # {}
  <2>1. \A k \in S : n - k \in Nat
    OBVIOUS
  <2>2. PICK k \in S : TRUE
    OBVIOUS
  <2>3. n - k \in D
    OBVIOUS
  <2> QED
    BY <2>1, <2>3
<1>2. PICK d \in D : \A k \in D : d <= k
  <2> HIDE DEF D
  <2> QED
    BY <1>1, LeastNat
<1>3. PICK x \in S : d = n - x
  OBVIOUS
<1>4. \A k \in S : x >= k
  <2> TAKE k \in S
  <2>1. d <= n - k
    BY <1>2
  <2> QED
    BY <1>3, <2>1
<1>5. \E y \in S : \A k \in S : y >= k
  BY <1>4
<1>6. Max(S) \in S /\ \A k \in S : Max(S) >= k
  BY <1>5 DEF Max
<1> QED
  BY <1>6

\* An element that bounds the others is the greatest.
LEMMA MaxTop ==
  ASSUME NEW n \in Nat, NEW S \in SUBSET (1 .. n), NEW m \in S, S \subseteq 1 .. m
  PROVE  Max(S) = m
<1>1. Max(S) \in S /\ m <= Max(S)
  <2>1. S \in SUBSET (0 .. n) /\ S # {}
    OBVIOUS
  <2> QED
    BY <2>1, MaxIs
<1>2. Max(S) \in 1 .. m
  BY <1>1
<1>3. m \in 1 .. n
  OBVIOUS
<1> QED
  BY <1>1, <1>2, <1>3

\* g tells what Leave has built after each of the containers of s.
LeaveSteps(g, b, s, n) == g[0] = b /\ \A k \in 1 .. n : g[k] = LeaveOne(g[k-1], s[k])
\* The fold of Leave goes container by container.  (No lemma about folds has
\* the operator as a parameter: the same argument proves the three of them.)
LEMMA LeaveFold ==
  ASSUME NEW b, NEW s, NEW n \in Nat, DOMAIN s = 1 .. n
  PROVE  \E g : LeaveSteps(g, b, s, n) /\ FoldLeft(LeaveOne, b, s) = g[n]
<1> DEFINE Body(f, t) == IF t = {} THEN b ELSE LeaveOne(f[t \ {Max(t)}], s[Max(t)])
           Solves(m, f) == f = [t \in SUBSET (1 .. m) |-> Body(f, t)]
<1>1. ASSUME NEW m \in 0 .. n - 1, NEW f, Solves(m, f)
      PROVE  \E h : Solves(m + 1, h)
  <2> DEFINE h == [t \in SUBSET (1 .. m + 1) |->
                    IF m + 1 \in t THEN LeaveOne(f[t \ {m + 1}], s[m + 1]) ELSE f[t]]
  <2>1. ASSUME NEW t \in SUBSET (1 .. m + 1) PROVE h[t] = Body(h, t)
    <3>1. CASE m + 1 \in t
      <4>1. Max(t) = m + 1
        <5>1. m + 1 \in Nat /\ t \subseteq 1 .. m + 1
          OBVIOUS
        <5> QED
          BY <3>1, <5>1, MaxTop
      <4>2. t \ {m + 1} \in SUBSET (1 .. m) /\ t \ {m + 1} \in SUBSET (1 .. m + 1) /\ m + 1 \notin t \ {m + 1}
        OBVIOUS
      <4>3. h[t \ {m + 1}] = f[t \ {m + 1}]
        BY <4>2
      <4> QED
        BY <3>1, <4>1, <4>3
    <3>2. CASE m + 1 \notin t
      <4>1. t \in SUBSET (1 .. m)
        BY <3>2
      <4>2. h[t] = f[t] /\ f[t] = Body(f, t)
        <5>1. h[t] = f[t]
          BY <3>2
        <5>2. f[t] = Body(f, t)
          <6> HIDE DEF Body
          <6> QED
            BY <1>1, <4>1
        <5> QED
          BY <5>1, <5>2
      <4>3. t # {} => h[t \ {Max(t)}] = f[t \ {Max(t)}]
        BY <3>2
      <4> QED
        BY <4>2, <4>3
    <3> QED
      BY <3>1, <3>2
  <2>2. h = [t \in SUBSET (1 .. m + 1) |-> h[t]]
    OBVIOUS
  <2> HIDE DEF h, Body
  <2> QED
    BY <2>1, <2>2
<1>2. \E f : Solves(0, f)
  <2>1. Solves(0, [t \in SUBSET (1 .. 0) |-> b])
    <3>1. \A t \in SUBSET (1 .. 0) : t = {}
      OBVIOUS
    <3> QED
      BY <3>1
  <2> HIDE DEF Solves
  <2> QED
    BY <2>1
<1>3. \E f : Solves(n, f)
  <2> HIDE DEF Solves
  <2> DEFINE M == {m \in 0 .. n : \E f : Solves(n - m, f)}
  <2>1. M \in SUBSET Nat /\ n \in M
    BY <1>2
  <2>2. PICK m \in M : \A k \in M : m <= k
    <3> HIDE DEF M
    <3> QED
      BY <2>1, LeastNat
  <2>3. PICK f : Solves(n - m, f)
    OBVIOUS
  <2>4. m = 0
    <3>1. SUFFICES ASSUME m # 0 PROVE FALSE
      OBVIOUS
    <3>2. n - m \in 0 .. n - 1 /\ (n - m) + 1 = n - (m - 1) /\ m - 1 \in 0 .. n
      BY <3>1
    <3>3. m - 1 \in M
      BY <1>1, <2>3, <3>2
    <3> QED
      BY <2>2, <3>3
  <2> QED
    BY <2>3, <2>4
<1> DEFINE iter == CHOOSE f : Solves(n, f)
<1>4. Solves(n, iter)
  <2> HIDE DEF Solves
  <2> QED
    BY <1>3
<1>5. FoldLeft(LeaveOne, b, s) = iter[1 .. n]
  BY DEF FoldLeft, MapThenFoldSet
<1> DEFINE g == [k \in 0 .. n |-> iter[1 .. k]]
<1>6. g[0] = b
  <2>1. iter[1 .. 0] = b
    <3> HIDE DEF iter
    <3>1. 1 .. 0 \in SUBSET (1 .. n) /\ 1 .. 0 = {}
      OBVIOUS
    <3> QED
      BY <1>4, <3>1
  <2> HIDE DEF iter
  <2> QED
    BY <2>1
<1>7. ASSUME NEW k \in 1 .. n PROVE g[k] = LeaveOne(g[k-1], s[k])
  <2> HIDE DEF iter
  <2>1. 1 .. k \in SUBSET (1 .. n) /\ k \in 1 .. k /\ (1 .. k) \ {k} = 1 .. k - 1
    OBVIOUS
  <2>2. Max(1 .. k) = k
    BY <2>1, MaxTop
  <2>3. iter[1 .. k] = Body(iter, 1 .. k)
    <3> HIDE DEF Body
    <3> QED
      BY <1>4, <2>1
  <2>4. g[k] = iter[1 .. k] /\ g[k-1] = iter[1 .. k - 1]
    OBVIOUS
  <2>5. 1 .. k # {}
    BY <2>1
  <2> HIDE DEF g
  <2> QED
    BY <2>1, <2>2, <2>3, <2>4, <2>5
<1> HIDE DEF g
<1>8. g[n] = iter[1 .. n]
  BY DEF g
<1> QED
  BY <1>5, <1>6, <1>7, <1>8 DEF LeaveSteps
\* The same of Enter.
EnterSteps(g, b, s, n) == g[0] = b /\ \A k \in 1 .. n : g[k] = EnterOne(g[k-1], s[k])
\* The fold of Enter.
LEMMA EnterFold ==
  ASSUME NEW b, NEW s, NEW n \in Nat, DOMAIN s = 1 .. n
  PROVE  \E g : EnterSteps(g, b, s, n) /\ FoldLeft(EnterOne, b, s) = g[n]
<1> DEFINE Body(f, t) == IF t = {} THEN b ELSE EnterOne(f[t \ {Max(t)}], s[Max(t)])
           Solves(m, f) == f = [t \in SUBSET (1 .. m) |-> Body(f, t)]
<1>1. ASSUME NEW m \in 0 .. n - 1, NEW f, Solves(m, f)
      PROVE  \E h : Solves(m + 1, h)
  <2> DEFINE h == [t \in SUBSET (1 .. m + 1) |->
                    IF m + 1 \in t THEN EnterOne(f[t \ {m + 1}], s[m + 1]) ELSE f[t]]
  <2>1. ASSUME NEW t \in SUBSET (1 .. m + 1) PROVE h[t] = Body(h, t)
    <3>1. CASE m + 1 \in t
      <4>1. Max(t) = m + 1
        <5>1. m + 1 \in Nat /\ t \subseteq 1 .. m + 1
          OBVIOUS
        <5> QED
          BY <3>1, <5>1, MaxTop
      <4>2. t \ {m + 1} \in SUBSET (1 .. m) /\ t \ {m + 1} \in SUBSET (1 .. m + 1) /\ m + 1 \notin t \ {m + 1}
        OBVIOUS
      <4>3. h[t \ {m + 1}] = f[t \ {m + 1}]
        BY <4>2
      <4> QED
        BY <3>1, <4>1, <4>3
    <3>2. CASE m + 1 \notin t
      <4>1. t \in SUBSET (1 .. m)
        BY <3>2
      <4>2. h[t] = f[t] /\ f[t] = Body(f, t)
        <5>1. h[t] = f[t]
          BY <3>2
        <5>2. f[t] = Body(f, t)
          <6> HIDE DEF Body
          <6> QED
            BY <1>1, <4>1
        <5> QED
          BY <5>1, <5>2
      <4>3. t # {} => h[t \ {Max(t)}] = f[t \ {Max(t)}]
        BY <3>2
      <4> QED
        BY <4>2, <4>3
    <3> QED
      BY <3>1, <3>2
  <2>2. h = [t \in SUBSET (1 .. m + 1) |-> h[t]]
    OBVIOUS
  <2> HIDE DEF h, Body
  <2> QED
    BY <2>1, <2>2
<1>2. \E f : Solves(0, f)
  <2>1. Solves(0, [t \in SUBSET (1 .. 0) |-> b])
    <3>1. \A t \in SUBSET (1 .. 0) : t = {}
      OBVIOUS
    <3> QED
      BY <3>1
  <2> HIDE DEF Solves
  <2> QED
    BY <2>1
<1>3. \E f : Solves(n, f)
  <2> HIDE DEF Solves
  <2> DEFINE M == {m \in 0 .. n : \E f : Solves(n - m, f)}
  <2>1. M \in SUBSET Nat /\ n \in M
    BY <1>2
  <2>2. PICK m \in M : \A k \in M : m <= k
    <3> HIDE DEF M
    <3> QED
      BY <2>1, LeastNat
  <2>3. PICK f : Solves(n - m, f)
    OBVIOUS
  <2>4. m = 0
    <3>1. SUFFICES ASSUME m # 0 PROVE FALSE
      OBVIOUS
    <3>2. n - m \in 0 .. n - 1 /\ (n - m) + 1 = n - (m - 1) /\ m - 1 \in 0 .. n
      BY <3>1
    <3>3. m - 1 \in M
      BY <1>1, <2>3, <3>2
    <3> QED
      BY <2>2, <3>3
  <2> QED
    BY <2>3, <2>4
<1> DEFINE iter == CHOOSE f : Solves(n, f)
<1>4. Solves(n, iter)
  <2> HIDE DEF Solves
  <2> QED
    BY <1>3
<1>5. FoldLeft(EnterOne, b, s) = iter[1 .. n]
  BY DEF FoldLeft, MapThenFoldSet
<1> DEFINE g == [k \in 0 .. n |-> iter[1 .. k]]
<1>6. g[0] = b
  <2>1. iter[1 .. 0] = b
    <3> HIDE DEF iter
    <3>1. 1 .. 0 \in SUBSET (1 .. n) /\ 1 .. 0 = {}
      OBVIOUS
    <3> QED
      BY <1>4, <3>1
  <2> HIDE DEF iter
  <2> QED
    BY <2>1
<1>7. ASSUME NEW k \in 1 .. n PROVE g[k] = EnterOne(g[k-1], s[k])
  <2> HIDE DEF iter
  <2>1. 1 .. k \in SUBSET (1 .. n) /\ k \in 1 .. k /\ (1 .. k) \ {k} = 1 .. k - 1
    OBVIOUS
  <2>2. Max(1 .. k) = k
    BY <2>1, MaxTop
  <2>3. iter[1 .. k] = Body(iter, 1 .. k)
    <3> HIDE DEF Body
    <3> QED
      BY <1>4, <2>1
  <2>4. g[k] = iter[1 .. k] /\ g[k-1] = iter[1 .. k - 1]
    OBVIOUS
  <2>5. 1 .. k # {}
    BY <2>1
  <2> HIDE DEF g
  <2> QED
    BY <2>1, <2>2, <2>3, <2>4, <2>5
<1> HIDE DEF g
<1>8. g[n] = iter[1 .. n]
  BY DEF g
<1> QED
  BY <1>5, <1>6, <1>7, <1>8 DEF EnterSteps
\* The same of Descend.
IntoSteps(g, b, s, n) == g[0] = b /\ \A k \in 1 .. n : g[k] = Into(g[k-1], s[k])
\* The fold of Descend.
LEMMA IntoFold ==
  ASSUME NEW b, NEW s, NEW n \in Nat, DOMAIN s = 1 .. n
  PROVE  \E g : IntoSteps(g, b, s, n) /\ FoldLeft(Into, b, s) = g[n]
<1> DEFINE Body(f, t) == IF t = {} THEN b ELSE Into(f[t \ {Max(t)}], s[Max(t)])
           Solves(m, f) == f = [t \in SUBSET (1 .. m) |-> Body(f, t)]
<1>1. ASSUME NEW m \in 0 .. n - 1, NEW f, Solves(m, f)
      PROVE  \E h : Solves(m + 1, h)
  <2> DEFINE h == [t \in SUBSET (1 .. m + 1) |->
                    IF m + 1 \in t THEN Into(f[t \ {m + 1}], s[m + 1]) ELSE f[t]]
  <2>1. ASSUME NEW t \in SUBSET (1 .. m + 1) PROVE h[t] = Body(h, t)
    <3>1. CASE m + 1 \in t
      <4>1. Max(t) = m + 1
        <5>1. m + 1 \in Nat /\ t \subseteq 1 .. m + 1
          OBVIOUS
        <5> QED
          BY <3>1, <5>1, MaxTop
      <4>2. t \ {m + 1} \in SUBSET (1 .. m) /\ t \ {m + 1} \in SUBSET (1 .. m + 1) /\ m + 1 \notin t \ {m + 1}
        OBVIOUS
      <4>3. h[t \ {m + 1}] = f[t \ {m + 1}]
        BY <4>2
      <4> QED
        BY <3>1, <4>1, <4>3
    <3>2. CASE m + 1 \notin t
      <4>1. t \in SUBSET (1 .. m)
        BY <3>2
      <4>2. h[t] = f[t] /\ f[t] = Body(f, t)
        <5>1. h[t] = f[t]
          BY <3>2
        <5>2. f[t] = Body(f, t)
          <6> HIDE DEF Body
          <6> QED
            BY <1>1, <4>1
        <5> QED
          BY <5>1, <5>2
      <4>3. t # {} => h[t \ {Max(t)}] = f[t \ {Max(t)}]
        BY <3>2
      <4> QED
        BY <4>2, <4>3
    <3> QED
      BY <3>1, <3>2
  <2>2. h = [t \in SUBSET (1 .. m + 1) |-> h[t]]
    OBVIOUS
  <2> HIDE DEF h, Body
  <2> QED
    BY <2>1, <2>2
<1>2. \E f : Solves(0, f)
  <2>1. Solves(0, [t \in SUBSET (1 .. 0) |-> b])
    <3>1. \A t \in SUBSET (1 .. 0) : t = {}
      OBVIOUS
    <3> QED
      BY <3>1
  <2> HIDE DEF Solves
  <2> QED
    BY <2>1
<1>3. \E f : Solves(n, f)
  <2> HIDE DEF Solves
  <2> DEFINE M == {m \in 0 .. n : \E f : Solves(n - m, f)}
  <2>1. M \in SUBSET Nat /\ n \in M
    BY <1>2
  <2>2. PICK m \in M : \A k \in M : m <= k
    <3> HIDE DEF M
    <3> QED
      BY <2>1, LeastNat
  <2>3. PICK f : Solves(n - m, f)
    OBVIOUS
  <2>4. m = 0
    <3>1. SUFFICES ASSUME m # 0 PROVE FALSE
      OBVIOUS
    <3>2. n - m \in 0 .. n - 1 /\ (n - m) + 1 = n - (m - 1) /\ m - 1 \in 0 .. n
      BY <3>1
    <3>3. m - 1 \in M
      BY <1>1, <2>3, <3>2
    <3> QED
      BY <2>2, <3>3
  <2> QED
    BY <2>3, <2>4
<1> DEFINE iter == CHOOSE f : Solves(n, f)
<1>4. Solves(n, iter)
  <2> HIDE DEF Solves
  <2> QED
    BY <1>3
<1>5. FoldLeft(Into, b, s) = iter[1 .. n]
  BY DEF FoldLeft, MapThenFoldSet
<1> DEFINE g == [k \in 0 .. n |-> iter[1 .. k]]
<1>6. g[0] = b
  <2>1. iter[1 .. 0] = b
    <3> HIDE DEF iter
    <3>1. 1 .. 0 \in SUBSET (1 .. n) /\ 1 .. 0 = {}
      OBVIOUS
    <3> QED
      BY <1>4, <3>1
  <2> HIDE DEF iter
  <2> QED
    BY <2>1
<1>7. ASSUME NEW k \in 1 .. n PROVE g[k] = Into(g[k-1], s[k])
  <2> HIDE DEF iter
  <2>1. 1 .. k \in SUBSET (1 .. n) /\ k \in 1 .. k /\ (1 .. k) \ {k} = 1 .. k - 1
    OBVIOUS
  <2>2. Max(1 .. k) = k
    BY <2>1, MaxTop
  <2>3. iter[1 .. k] = Body(iter, 1 .. k)
    <3> HIDE DEF Body
    <3> QED
      BY <1>4, <2>1
  <2>4. g[k] = iter[1 .. k] /\ g[k-1] = iter[1 .. k - 1]
    OBVIOUS
  <2>5. 1 .. k # {}
    BY <2>1
  <2> HIDE DEF g
  <2> QED
    BY <2>1, <2>2, <2>3, <2>4, <2>5
<1> HIDE DEF g
<1>8. g[n] = iter[1 .. n]
  BY DEF g
<1> QED
  BY <1>5, <1>6, <1>7, <1>8 DEF IntoSteps

-----------------------------------------------------------------------------
(* What is open after each of the blocks.                                  *)

\* g tells what is open after each of the first n blocks.
Opened(g, blocks, n) ==
  g[0] = <<>> /\ \A k \in 1 .. n : g[k] = StillOpen(g[k-1], k, blocks)

\* Unclosed goes block by block.
LEMMA OpenedExists ==
  ASSUME NEW blocks, NEW n \in Nat, Len(blocks) = n
  PROVE  \E g : Opened(g, blocks, n) /\ Unclosed(blocks) = g[n]
<1> DEFINE Body(f, k) == IF k = 0 THEN <<>> ELSE StillOpen(f[k-1], k, blocks)
           Solves(m, f) == f = [k \in 0 .. m |-> Body(f, k)]
<1>1. ASSUME NEW m \in 0 .. n - 1, NEW f, Solves(m, f)
      PROVE  \E h : Solves(m + 1, h)
  <2> DEFINE h == [k \in 0 .. m + 1 |-> IF k = m + 1 THEN StillOpen(f[m], m + 1, blocks) ELSE f[k]]
  <2>1. ASSUME NEW k \in 0 .. m + 1 PROVE h[k] = Body(h, k)
    <3>1. CASE k = m + 1
      <4>1. h[m] = f[m] /\ (m + 1) - 1 = m
        OBVIOUS
      <4> HIDE DEF h
      <4>2. h[k] = StillOpen(f[m], m + 1, blocks)
        BY <3>1 DEF h
      <4> QED
        BY <3>1, <4>1, <4>2
    <3>2. CASE k # m + 1
      <4>1. k \in 0 .. m
        BY <3>2
      <4>2. f[k] = Body(f, k)
        <5> HIDE DEF Body
        <5> QED
          BY <1>1, <4>1
      <4>3. h[k] = f[k] /\ (k # 0 => h[k-1] = f[k-1])
        BY <3>2, <4>1
      <4> HIDE DEF h
      <4> QED
        BY <4>2, <4>3
    <3> QED
      BY <3>1, <3>2
  <2>2. h = [k \in 0 .. m + 1 |-> h[k]]
    OBVIOUS
  <2> HIDE DEF h, Body
  <2> QED
    BY <2>1, <2>2
<1>2. \E f : Solves(0, f)
  <2>1. Solves(0, [k \in 0 .. 0 |-> <<>>])
    <3>1. \A k \in 0 .. 0 : k = 0
      OBVIOUS
    <3> QED
      BY <3>1
  <2> HIDE DEF Solves
  <2> QED
    BY <2>1
<1>3. \E f : Solves(n, f)
  <2> HIDE DEF Solves
  <2> DEFINE M == {m \in 0 .. n : \E f : Solves(n - m, f)}
  <2>1. M \in SUBSET Nat /\ n \in M
    BY <1>2
  <2>2. PICK m \in M : \A k \in M : m <= k
    <3> HIDE DEF M
    <3> QED
      BY <2>1, LeastNat
  <2>3. PICK f : Solves(n - m, f)
    OBVIOUS
  <2>4. m = 0
    <3>1. SUFFICES ASSUME m # 0 PROVE FALSE
      OBVIOUS
    <3>2. n - m \in 0 .. n - 1 /\ (n - m) + 1 = n - (m - 1) /\ m - 1 \in 0 .. n
      BY <3>1
    <3>3. m - 1 \in M
      BY <1>1, <2>3, <3>2
    <3> QED
      BY <2>2, <3>3
  <2> QED
    BY <2>3, <2>4
<1> DEFINE open == CHOOSE f : Solves(n, f)
<1>4. Solves(n, open)
  <2> HIDE DEF Solves
  <2> QED
    BY <1>3
<1>5. Unclosed(blocks) = open[n]
  BY DEF Unclosed
<1>6. \A k \in 0 .. n : open[k] = Body(open, k)
  <2> HIDE DEF open, Body
  <2> QED
    BY <1>4
<1> HIDE DEF open
<1>7. Opened(open, blocks, n)
  <2>1. 0 \in 0 .. n /\ \A k \in 1 .. n : k \in 0 .. n /\ k # 0
    OBVIOUS
  <2> QED
    BY <1>6, <2>1 DEF Opened
<1> QED
  BY <1>5, <1>7

\* Two sequences of blocks that are the same but for the leaves.
SameTree(s, t, n) ==
  \A i \in 1 .. n : s[i].what = t[i].what /\ (s[i].what # "leaf" => s[i].type = t[i].type)

\* The blocks up to n that are no leaves.
Inner(s, n) == {i \in 1 .. n : s[i].what # "leaf"}

\* What is open are places of containers.
LEMMA OpenedIs ==
  ASSUME NEW s, NEW n \in Nat, NEW g, Opened(g, s, n)
  PROVE  \A k \in 0 .. n : g[k] \in Seq(Inner(s, k))
<1> DEFINE Bad == {k \in 0 .. n : g[k] \notin Seq(Inner(s, k))}
<1>1. SUFFICES ASSUME Bad # {} PROVE FALSE
  OBVIOUS
<1>2. PICK k \in Bad : \A j \in Bad : k <= j
  <2>1. Bad \in SUBSET Nat
    OBVIOUS
  <2> HIDE DEF Bad
  <2> QED
    BY <1>1, <2>1, LeastNat
<1>3. k # 0
  <2>1. g[0] \in Seq(Inner(s, 0))
    BY DEF Opened
  <2> QED
    BY <2>1
<1>4. k \in 1 .. n /\ k - 1 \in 0 .. n /\ k - 1 \notin Bad
  BY <1>2, <1>3
<1>5. g[k-1] \in Seq(Inner(s, k - 1))
  BY <1>4
<1>6. Inner(s, k - 1) \subseteq Inner(s, k)
  BY <1>4 DEF Inner
<1>7. g[k-1] \in Seq(Inner(s, k))
  BY <1>5, <1>6
<1>8. g[k] = StillOpen(g[k-1], k, s)
  BY <1>4 DEF Opened
<1>9. s[k].what # "leaf" => k \in Inner(s, k)
  BY <1>4 DEF Inner
<1>10. StillOpen(g[k-1], k, s) \in Seq(Inner(s, k))
  <2> DEFINE o == g[k-1]
  <2>1. o # <<>> => Front(o) \in Seq(Inner(s, k))
    BY <1>7 DEF Front
  <2>2. s[k].what # "leaf" => Append(o, k) \in Seq(Inner(s, k))
    BY <1>7, <1>9
  <2> HIDE DEF o
  <2> QED
    BY <1>7, <2>1, <2>2 DEF StillOpen, o
<1> QED
  BY <1>8, <1>10

\* What is open depends on the containers only.
LEMMA OpenedSame ==
  ASSUME NEW s, NEW t, NEW n \in Nat, SameTree(s, t, n), NEW g, Opened(g, s, n), NEW h, Opened(h, t, n)
  PROVE  g[n] = h[n]
<1> DEFINE Bad == {k \in 0 .. n : g[k] # h[k]}
<1>1. SUFFICES ASSUME Bad # {} PROVE FALSE
  OBVIOUS
<1>2. PICK k \in Bad : \A j \in Bad : k <= j
  <2>1. Bad \in SUBSET Nat
    OBVIOUS
  <2> HIDE DEF Bad
  <2> QED
    BY <1>1, <2>1, LeastNat
<1>3. k # 0
  BY DEF Opened
<1>4. k \in 1 .. n /\ k - 1 \in 0 .. n /\ k - 1 \notin Bad
  BY <1>2, <1>3
<1>5. g[k-1] = h[k-1]
  BY <1>4
<1> DEFINE o == g[k-1]
<1>6. o \in Seq(Inner(s, k - 1))
  BY <1>4, OpenedIs
<1>7. o # <<>> => s[Last(o)].type = t[Last(o)].type
  <2>1. o # <<>> => Last(o) \in Inner(s, k - 1)
    BY <1>6 DEF Last
  <2> HIDE DEF o
  <2> QED
    BY <1>4, <2>1 DEF SameTree, Inner
<1>8. s[k].what = t[k].what /\ (s[k].what # "leaf" => s[k].type = t[k].type)
  BY <1>4 DEF SameTree
<1>9. StillOpen(o, k, s) = StillOpen(o, k, t)
  <2> HIDE DEF o
  <2> QED
    BY <1>7, <1>8 DEF StillOpen
<1>10. g[k] = StillOpen(g[k-1], k, s) /\ h[k] = StillOpen(h[k-1], k, t)
  BY <1>4 DEF Opened
<1> QED
  BY <1>5, <1>9, <1>10

\* So what is open at the end.
LEMMA UnclosedIs ==
  ASSUME NEW s, Len(s) \in Nat
  PROVE  Unclosed(s) \in Seq(Inner(s, Len(s)))
<1>1. PICK g : Opened(g, s, Len(s)) /\ Unclosed(s) = g[Len(s)]
  BY OpenedExists
<1> QED
  BY <1>1, OpenedIs

\* And that does not depend on the leaves.
LEMMA UnclosedSame ==
  ASSUME NEW s, NEW t, Len(s) \in Nat, Len(t) = Len(s), SameTree(s, t, Len(s))
  PROVE  Unclosed(s) = Unclosed(t)
<1>1. PICK g : Opened(g, s, Len(s)) /\ Unclosed(s) = g[Len(s)]
  BY OpenedExists
<1>2. PICK h : Opened(h, t, Len(s)) /\ Unclosed(t) = h[Len(s)]
  BY OpenedExists
<1> QED
  BY <1>1, <1>2, OpenedSame

\* What is open after one block more.
LEMMA UnclosedNext ==
  ASSUME NEW s, NEW t, Len(s) \in Nat, Len(t) = Len(s) + 1, SameTree(s, t, Len(s))
  PROVE  Unclosed(t) = StillOpen(Unclosed(s), Len(t), t)
<1>0. Len(t) \in Nat /\ Len(t) \in 1 .. Len(t) /\ Len(t) - 1 = Len(s)
  OBVIOUS
<1>1. PICK g : Opened(g, s, Len(s)) /\ Unclosed(s) = g[Len(s)]
  BY OpenedExists
<1>2. PICK h : Opened(h, t, Len(t)) /\ Unclosed(t) = h[Len(t)]
  BY <1>0, OpenedExists
<1>3. Opened(h, t, Len(s))
  <2>1. \A k \in 1 .. Len(s) : k \in 1 .. Len(t)
    OBVIOUS
  <2> QED
    BY <1>2, <2>1 DEF Opened
<1>4. h[Len(s)] = g[Len(s)]
  BY <1>1, <1>3, OpenedSame
<1>5. h[Len(t)] = StillOpen(h[Len(t)-1], Len(t), t)
  BY <1>0, <1>2 DEF Opened
<1> QED
  BY <1>0, <1>1, <1>2, <1>4, <1>5

-----------------------------------------------------------------------------
(* Where each container begins in what is open.                            *)

\* How many entries of block_bytes open a container.
Entries(c) == IF c.ch = ">" THEN 1 ELSE 2

\* Every container begins behind the one before it.
LEMMA PlacesAre ==
  ASSUME NEW conts, NEW n \in Nat, Len(conts) = n
  PROVE  /\ Places(conts)[1] = 1
         /\ \A k \in 1 .. n : Places(conts)[k+1] = Places(conts)[k] + Entries(conts[k])
<1> DEFINE Body(f, k) == IF k = 1 THEN 1 ELSE f[k-1] + IF conts[k-1].ch = ">" THEN 1 ELSE 2
           Solves(m, f) == f = [k \in 1 .. m + 1 |-> Body(f, k)]
<1>1. ASSUME NEW m \in 0 .. n - 1, NEW f, Solves(m, f)
      PROVE  \E h : Solves(m + 1, h)
  <2> DEFINE h == [k \in 1 .. (m + 1) + 1 |-> IF k = m + 2 THEN Body(f, m + 2) ELSE f[k]]
  <2>1. ASSUME NEW k \in 1 .. (m + 1) + 1 PROVE h[k] = Body(h, k)
    <3>1. CASE k = m + 2
      <4>1. h[m + 1] = f[m + 1] /\ (m + 2) - 1 = m + 1 /\ m + 2 # 1
        <5>1. m + 1 \in 1 .. (m + 1) + 1 /\ m + 1 # m + 2
          OBVIOUS
        <5> HIDE DEF Body
        <5> QED
          BY <5>1
      <4>2. h[k] = Body(f, m + 2)
        <5> HIDE DEF Body
        <5> QED
          BY <3>1
      <4> HIDE DEF h
      <4> QED
        BY <3>1, <4>1, <4>2
    <3>2. CASE k # m + 2
      <4>1. k \in 1 .. m + 1
        BY <3>2
      <4>2. f[k] = Body(f, k)
        <5> HIDE DEF Body
        <5> QED
          BY <1>1, <4>1
      <4>3. h[k] = f[k] /\ (k # 1 => h[k-1] = f[k-1])
        <5>1. k # 1 => k - 1 \in 1 .. (m + 1) + 1 /\ k - 1 # m + 2
          BY <4>1
        <5> HIDE DEF Body
        <5> QED
          BY <3>2, <5>1
      <4> HIDE DEF h
      <4> QED
        BY <4>2, <4>3
    <3> QED
      BY <3>1, <3>2
  <2>2. h = [k \in 1 .. (m + 1) + 1 |-> h[k]]
    <3> HIDE DEF Body
    <3> QED
      OBVIOUS
  <2> HIDE DEF h, Body
  <2> QED
    BY <2>1, <2>2
<1>2. \E f : Solves(0, f)
  <2>1. Solves(0, [k \in 1 .. 0 + 1 |-> 1])
    <3>1. \A k \in 1 .. 0 + 1 : k = 1
      OBVIOUS
    <3> QED
      BY <3>1
  <2> HIDE DEF Solves
  <2> QED
    BY <2>1
<1>3. \E f : Solves(n, f)
  <2> HIDE DEF Solves
  <2> DEFINE M == {m \in 0 .. n : \E f : Solves(n - m, f)}
  <2>1. M \in SUBSET Nat /\ n \in M
    BY <1>2
  <2>2. PICK m \in M : \A k \in M : m <= k
    <3> HIDE DEF M
    <3> QED
      BY <2>1, LeastNat
  <2>3. PICK f : Solves(n - m, f)
    OBVIOUS
  <2>4. m = 0
    <3>1. SUFFICES ASSUME m # 0 PROVE FALSE
      OBVIOUS
    <3>2. n - m \in 0 .. n - 1 /\ (n - m) + 1 = n - (m - 1) /\ m - 1 \in 0 .. n
      BY <3>1
    <3>3. m - 1 \in M
      BY <1>1, <2>3, <3>2
    <3> QED
      BY <2>2, <3>3
  <2> QED
    BY <2>3, <2>4
<1> DEFINE at == CHOOSE f : Solves(n, f)
<1>4. Solves(n, at)
  <2> HIDE DEF Solves
  <2> QED
    BY <1>3
<1>5. Places(conts) = at
  BY DEF Places
<1>6. \A k \in 1 .. n + 1 : at[k] = Body(at, k)
  <2> HIDE DEF at, Body
  <2> QED
    BY <1>4
<1> HIDE DEF at
<1>7. at[1] = 1
  BY <1>6
<1>8. ASSUME NEW k \in 1 .. n PROVE at[k+1] = at[k] + Entries(conts[k])
  <2>1. k + 1 \in 1 .. n + 1 /\ k + 1 # 1 /\ (k + 1) - 1 = k
    OBVIOUS
  <2> QED
    BY <1>6, <2>1 DEF Entries
<1> QED
  BY <1>5, <1>7, <1>8

\* The places follow one another.
LEMMA PlacesAscend ==
  ASSUME NEW conts, NEW n \in Nat, Len(conts) \in Nat, n <= Len(conts)
  PROVE  \A k \in 1 .. n + 1 : /\ Places(conts)[k] \in Nat /\ Places(conts)[k] >= 1
                               /\ k <= n => Places(conts)[k] + Entries(conts[k]) <= Places(conts)[n+1]
<1> DEFINE at == Places(conts)
<1>1. at[1] = 1 /\ \A k \in 1 .. n : at[k+1] = at[k] + Entries(conts[k])
  <2>1. \A k \in 1 .. n : k \in 1 .. Len(conts)
    OBVIOUS
  <2> QED
    BY <2>1, PlacesAre
<1>w. \A c : Entries(c) \in {1, 2}
  BY DEF Entries
<1> HIDE DEF at
<1>2. \A k \in 1 .. n + 1 : at[k] \in Nat /\ at[k] >= 1
  <2> DEFINE Bad == {k \in 1 .. n + 1 : ~(at[k] \in Nat /\ at[k] >= 1)}
  <2>1. SUFFICES ASSUME Bad # {} PROVE FALSE
    OBVIOUS
  <2>2. PICK k \in Bad : \A j \in Bad : k <= j
    <3>1. Bad \in SUBSET Nat
      OBVIOUS
    <3> HIDE DEF Bad
    <3> QED
      BY <2>1, <3>1, LeastNat
  <2>3. k # 1
    BY <1>1
  <2>4. k - 1 \in 1 .. n /\ (k - 1) + 1 = k /\ k - 1 \in 1 .. n + 1 /\ k - 1 \notin Bad
    BY <2>2, <2>3
  <2>5. at[k-1] \in Nat /\ at[k-1] >= 1
    BY <2>4
  <2>6. at[k] = at[k-1] + Entries(conts[k-1])
    BY <1>1, <2>4
  <2>7. Entries(conts[k-1]) \in {1, 2}
    BY <1>w
  <2>8. at[k] \in Nat /\ at[k] >= 1
    BY <2>5, <2>6, <2>7
  <2> QED
    BY <2>8
<1>3. \A k \in 1 .. n : at[k+1] <= at[n+1]
  <2> DEFINE Bad == {j \in 0 .. n - 1 : ~(at[(n - j) + 1] <= at[n+1])}
  <2>1. SUFFICES ASSUME Bad # {} PROVE FALSE
    <3>1. \A k \in 1 .. n : n - k \in 0 .. n - 1 /\ n - (n - k) = k
      OBVIOUS
    <3> QED
      BY <2>1, <3>1
  <2>2. PICK j \in Bad : \A i \in Bad : j <= i
    <3>1. Bad \in SUBSET Nat
      OBVIOUS
    <3> HIDE DEF Bad
    <3> QED
      BY <2>1, <3>1, LeastNat
  <2>3. j # 0
    <3>1. at[n+1] <= at[n+1]
      <4>1. at[n+1] \in Nat
        BY <1>2
      <4> QED
        BY <4>1
    <3> QED
      BY <3>1
  <2>4. j - 1 \in 0 .. n - 1 /\ j - 1 \notin Bad /\ (n - (j - 1)) + 1 = (n - j) + 2
    BY <2>2, <2>3
  <2>5. at[(n - j) + 2] <= at[n+1]
    BY <2>4
  <2>6. at[(n - j) + 2] = at[(n - j) + 1] + Entries(conts[(n - j) + 1])
    <3>1. (n - j) + 1 \in 1 .. n /\ ((n - j) + 1) + 1 = (n - j) + 2
      BY <2>3
    <3> QED
      BY <1>1, <3>1
  <2>7. at[(n - j) + 1] \in Nat /\ at[n+1] \in Nat /\ Entries(conts[(n - j) + 1]) \in {1, 2}
    <3>1. (n - j) + 1 \in 1 .. n + 1
      BY <2>3
    <3> QED
      BY <1>2, <1>w, <3>1
  <2>8. at[(n - j) + 1] <= at[n+1]
    BY <2>5, <2>6, <2>7
  <2> QED
    BY <2>8
<1> QED
  BY <1>1, <1>2, <1>3 DEF at

\* The places depend on the marks of the containers only.
LEMMA PlacesSame ==
  ASSUME NEW c, NEW d, NEW n \in Nat, Len(c) \in Nat, Len(d) \in Nat, n <= Len(c), n <= Len(d),
         \A k \in 1 .. n : c[k].ch = d[k].ch
  PROVE  \A k \in 1 .. n + 1 : Places(c)[k] = Places(d)[k]
<1> DEFINE a == Places(c)
           b == Places(d)
<1>1. a[1] = 1 /\ \A k \in 1 .. n : a[k+1] = a[k] + Entries(c[k])
  BY PlacesAre
<1>2. b[1] = 1 /\ \A k \in 1 .. n : b[k+1] = b[k] + Entries(d[k])
  BY PlacesAre
<1>3. \A k \in 1 .. n : Entries(c[k]) = Entries(d[k])
  BY DEF Entries
<1> HIDE DEF a, b
<1> DEFINE Bad == {k \in 1 .. n + 1 : a[k] # b[k]}
<1>4. SUFFICES ASSUME Bad # {} PROVE FALSE
  BY DEF a, b
<1>5. PICK k \in Bad : \A j \in Bad : k <= j
  <2>1. Bad \in SUBSET Nat
    OBVIOUS
  <2> HIDE DEF Bad
  <2> QED
    BY <1>4, <2>1, LeastNat
<1>6. k # 1
  BY <1>1, <1>2
<1>7. k - 1 \in 1 .. n /\ (k - 1) + 1 = k /\ k - 1 \in 1 .. n + 1 /\ k - 1 \notin Bad
  BY <1>5, <1>6
<1>8. a[k-1] = b[k-1]
  BY <1>7
<1>9. a[k] = a[k-1] + Entries(c[k-1]) /\ b[k] = b[k-1] + Entries(d[k-1])
  BY <1>1, <1>2, <1>7
<1> QED
  BY <1>3, <1>7, <1>8, <1>9

-----------------------------------------------------------------------------
(* The containers in what is open.                                         *)

\* Container c is where p says in what is open.
Placed(blocks, open, c, p) ==
  IF c.ch = ">" THEN blocks[open[p]].type = "quote"
  ELSE /\ blocks[open[p]].type = ListType(c) /\ blocks[open[p+1]].type = "li"
       /\ c.opener = open[p]

\* The first n containers have the same marks and openers.
SameContainers(c, d, n) ==
  \A k \in 1 .. n : c[k].ch = d[k].ch /\ (c[k].ch # ">" => c[k].opener = d[k].opener)

\* The first n containers are where they should be.
AllPlaced(blocks, open, conts, n) ==
  \A k \in 1 .. n : Placed(blocks, open, conts[k], Places(conts)[k])

\* The first m of what is open in s is so in t.
SameOpen(s, o, t, q, m) == \A i \in 1 .. m : q[i] = o[i] /\ t[o[i]].type = s[o[i]].type

\* OpenAs in these words.
LEMMA OpenAsIs ==
  ASSUME NEW s, NEW c
  PROVE  OpenAs(s, c) <=>
           /\ Len(Unclosed(s)) + 1 = Places(c)[Len(c) + 1]
           /\ AllPlaced(s, Unclosed(s), c, Len(c))
BY DEF OpenAs, Placed, AllPlaced

\* The same, up to the place of container n+1.
SameOpenTo(s, o, t, q, c, n) == SameOpen(s, o, t, q, Places(c)[n+1] - 1)

\* Two sequences of at least n containers.
Within(n, c, d) == Len(c) \in Nat /\ Len(d) \in Nat /\ n <= Len(c) /\ n <= Len(d)

\* Where nothing changes up to container n, the first n are still in place.
LEMMA StillPlaced ==
  ASSUME NEW s, NEW t, NEW c, NEW d, NEW n \in Nat, Within(n, c, d), NEW o, NEW q,
         AllPlaced(s, o, c, n), SameContainers(c, d, n),
         SameOpenTo(s, o, t, q, c, n)
  PROVE  /\ AllPlaced(t, q, d, n)
         /\ Places(d)[n+1] = Places(c)[n+1]
<1>0. Len(c) \in Nat /\ Len(d) \in Nat /\ n <= Len(c) /\ n <= Len(d)
  BY DEF Within
<1>1. \A k \in 1 .. n + 1 : Places(c)[k] = Places(d)[k]
  BY <1>0, PlacesSame DEF SameContainers
<1>2. ASSUME NEW k \in 1 .. n PROVE Placed(t, q, d[k], Places(d)[k])
  <2>1. PICK p : p = Places(c)[k]
    OBVIOUS
  <2>2. PICK e : e = Places(c)[n+1]
    OBVIOUS
  <2>3. p \in Nat /\ p >= 1 /\ e \in Nat /\ p + Entries(c[k]) <= e
    BY <1>0, <2>1, <2>2, PlacesAscend
  <2>4. c[k].ch = d[k].ch /\ (c[k].ch # ">" => c[k].opener = d[k].opener) /\ ListType(c[k]) = ListType(d[k])
    BY DEF SameContainers, ListType
  <2>5. Placed(s, o, c[k], p) /\ Places(d)[k] = p
    BY <1>0, <1>1, <2>1 DEF AllPlaced
  <2>6. CASE c[k].ch = ">"
    <3>1. p \in 1 .. e - 1
      BY <2>3, <2>6 DEF Entries
    <3> QED
      BY <2>2, <2>4, <2>5, <2>6, <3>1 DEF Placed, SameOpen, SameOpenTo
  <2>7. CASE c[k].ch # ">"
    <3>1. p \in 1 .. e - 1 /\ p + 1 \in 1 .. e - 1
      BY <2>3, <2>7 DEF Entries
    <3>2. q[p] = o[p] /\ t[o[p]].type = s[o[p]].type /\ q[p+1] = o[p+1] /\ t[o[p+1]].type = s[o[p+1]].type
      BY <2>2, <3>1 DEF SameOpen, SameOpenTo
    <3> QED
      BY <2>4, <2>5, <2>7, <3>2 DEF Placed
  <2> QED
    BY <2>6, <2>7
<1> QED
  BY <1>1, <1>2 DEF AllPlaced

\* Leaves are no containers.
LEMMA OpenSame ==
  ASSUME NEW s, NEW t, NEW c, NEW d, Len(s) \in Nat, Len(t) = Len(s), SameTree(s, t, Len(s)),
         Len(c) \in Nat, Len(d) = Len(c), SameContainers(c, d, Len(c)), OpenAs(s, c)
  PROVE  OpenAs(t, d)
<1> DEFINE o == Unclosed(s)
           q == Unclosed(t)
<1>1. q = o
  BY UnclosedSame
<1>2. o \in Seq(Inner(s, Len(s)))
  BY UnclosedIs
<1>3. Len(o) + 1 = Places(c)[Len(c) + 1] /\ AllPlaced(s, o, c, Len(c))
  BY OpenAsIs
<1> HIDE DEF o, q
<1>4. \A i \in 1 .. Len(o) : t[o[i]].type = s[o[i]].type
  <2>1. \A i \in 1 .. Len(o) : o[i] \in Inner(s, Len(s))
    BY <1>2
  <2> QED
    BY <2>1 DEF Inner, SameTree
<1>5. Places(c)[Len(c) + 1] - 1 = Len(o)
  BY <1>2, <1>3
<1>6. SameOpen(s, o, t, q, Places(c)[Len(c) + 1] - 1)
  BY <1>1, <1>4, <1>5 DEF SameOpen
<1>7. /\ AllPlaced(t, q, d, Len(c))
      /\ Places(d)[Len(c)+1] = Places(c)[Len(c)+1]
  <2>1. PICK n \in Nat : n = Len(c)
    OBVIOUS
  <2>2. Within(n, c, d)
    BY <2>1 DEF Within
  <2>3. SameContainers(c, d, n) /\ SameOpenTo(s, o, t, q, c, n)
    BY <1>6, <2>1 DEF SameOpenTo
  <2>5. AllPlaced(s, o, c, n)
    BY <1>3, <2>1
  <2>4. /\ AllPlaced(t, q, d, n)
        /\ Places(d)[n+1] = Places(c)[n+1]
    BY <2>2, <2>3, <2>5, StillPlaced
  <2> QED
    BY <2>1, <2>4
<1> QED
  BY <1>1, <1>3, <1>7, OpenAsIs DEF q

\* All but the last.
LEMMA FrontIs ==
  ASSUME NEW X, NEW s \in Seq(X), s # <<>>
  PROVE  /\ Front(s) \in Seq(X) /\ Len(Front(s)) = Len(s) - 1 /\ Len(s) \in Nat /\ Len(s) >= 1
         /\ \A i \in 1 .. Len(s) - 1 : Front(s)[i] = s[i]
<1>1. Len(s) \in Nat /\ Len(s) >= 1
  OBVIOUS
<1>2. Front(s) = SubSeq(s, 1, Len(s) - 1)
  BY DEF Front
<1>a. Len(s) - 1 \in 0 .. Len(s)
  BY <1>1
<1>3. PICK m \in 0 .. Len(s) : m = Len(s) - 1
  BY <1>a
<1>4. SubSeq(s, 1, m) \in Seq(X) /\ Len(SubSeq(s, 1, m)) = m
  BY <1>3
<1>5. \A i \in 1 .. m : SubSeq(s, 1, m)[i] = s[i]
  BY <1>3
<1> QED
  BY <1>1, <1>2, <1>3, <1>4, <1>5

\* One more block.
More(s, t, what, type) ==
  /\ Len(t) = Len(s) + 1 /\ SameTree(s, t, Len(s))
  /\ t[Len(t)].what = what /\ t[Len(t)].type = type

\* An opener is open.
LEMMA MoreOpen ==
  ASSUME NEW s, NEW t, NEW type, Len(s) \in Nat, More(s, t, "open", type)
  PROVE  /\ Unclosed(t) = Append(Unclosed(s), Len(t))
         /\ \A i \in 1 .. Len(Unclosed(s)) : /\ Unclosed(t)[i] = Unclosed(s)[i]
                                             /\ t[Unclosed(s)[i]].type = s[Unclosed(s)[i]].type
         /\ Len(Unclosed(s)) \in Nat /\ Len(Unclosed(t)) = Len(Unclosed(s)) + 1
         /\ Unclosed(t)[Len(Unclosed(s)) + 1] = Len(t)
<1>1. Unclosed(t) = StillOpen(Unclosed(s), Len(t), t)
  BY UnclosedNext DEF More
<1>2. Unclosed(t) = Append(Unclosed(s), Len(t))
  BY <1>1 DEF StillOpen, More
<1>3. Unclosed(s) \in Seq(Inner(s, Len(s)))
  BY UnclosedIs
<1>4. \A i \in 1 .. Len(Unclosed(s)) : t[Unclosed(s)[i]].type = s[Unclosed(s)[i]].type
  <2>1. \A i \in 1 .. Len(Unclosed(s)) : Unclosed(s)[i] \in Inner(s, Len(s))
    BY <1>3
  <2> QED
    BY <2>1 DEF Inner, SameTree, More
<1> QED
  BY <1>2, <1>3, <1>4

\* A closer ends what was opened last.
LEMMA MoreClosed ==
  ASSUME NEW s, NEW t, NEW type, Len(s) \in Nat, More(s, t, "close", type),
         Unclosed(s) # <<>>, s[Last(Unclosed(s))].type = type
  PROVE  /\ Unclosed(t) = Front(Unclosed(s))
         /\ \A i \in 1 .. Len(Unclosed(s)) - 1 : /\ Unclosed(t)[i] = Unclosed(s)[i]
                                                 /\ t[Unclosed(s)[i]].type = s[Unclosed(s)[i]].type
         /\ Len(Unclosed(s)) \in Nat /\ Len(Unclosed(t)) = Len(Unclosed(s)) - 1
<1>1. Unclosed(t) = StillOpen(Unclosed(s), Len(t), t)
  BY UnclosedNext DEF More
<1>2. Unclosed(s) \in Seq(Inner(s, Len(s)))
  BY UnclosedIs
<1>3. \A i \in 1 .. Len(Unclosed(s)) : t[Unclosed(s)[i]].type = s[Unclosed(s)[i]].type
  <2>1. \A i \in 1 .. Len(Unclosed(s)) : Unclosed(s)[i] \in Inner(s, Len(s))
    BY <1>2
  <2> QED
    BY <2>1 DEF Inner, SameTree, More
<1>4. Len(Unclosed(s)) \in Nat /\ Len(Unclosed(s)) >= 1
  BY <1>2
<1>5. t[Last(Unclosed(s))].type = type
  BY <1>3, <1>4 DEF Last
<1>6. Unclosed(t) = Front(Unclosed(s))
  BY <1>1, <1>5 DEF StillOpen, More
<1>7. /\ Len(Front(Unclosed(s))) = Len(Unclosed(s)) - 1
      /\ \A i \in 1 .. Len(Unclosed(s)) - 1 : Front(Unclosed(s))[i] = Unclosed(s)[i]
  <2>1. Unclosed(s) # <<>>
    OBVIOUS
  <2> QED
    BY <1>2, <2>1, FrontIs
<1>8. \A i \in 1 .. Len(Unclosed(s)) - 1 : i \in 1 .. Len(Unclosed(s))
  BY <1>4
<1> QED
  BY <1>3, <1>4, <1>6, <1>7, <1>8

-----------------------------------------------------------------------------
(* What one or two entries of block_bytes do to the containers.            *)

\* The innermost container is at the end of what is open.
LEMMA Innermost ==
  ASSUME NEW s, NEW c, Len(s) \in Nat, Len(c) \in Nat, Len(c) >= 1, OpenAs(s, c)
  PROVE  LET o == Unclosed(s)
             p == Places(c)[Len(c)]
             l == c[Len(c)]
         IN  /\ p \in Nat /\ p >= 1 /\ Len(o) = p + Entries(l) - 1 /\ AllPlaced(s, o, c, Len(c))
             /\ IF l.ch = ">" THEN s[o[p]].type = "quote" ELSE s[o[p]].type = ListType(l) /\ s[o[p+1]].type = "li"
             /\ o # <<>> /\ s[Last(o)].type = IF l.ch = ">" THEN "quote" ELSE "li"
<1> DEFINE o == Unclosed(s)
           p == Places(c)[Len(c)]
           l == c[Len(c)]
<1>1. Len(o) + 1 = Places(c)[Len(c) + 1] /\ AllPlaced(s, o, c, Len(c))
  BY OpenAsIs
<1>2. o \in Seq(Inner(s, Len(s)))
  BY UnclosedIs
<1>3. Places(c)[Len(c) + 1] = p + Entries(l)
  <2>1. Len(c) \in 1 .. Len(c)
    OBVIOUS
  <2> QED
    BY <2>1, PlacesAre
<1>4. p \in Nat /\ p >= 1
  <2>1. Len(c) \in 1 .. Len(c) + 1 /\ Len(c) <= Len(c)
    OBVIOUS
  <2> QED
    BY <2>1, PlacesAscend
<1>5. Placed(s, o, l, p)
  <2>1. Len(c) \in 1 .. Len(c)
    OBVIOUS
  <2> HIDE DEF o
  <2> QED
    BY <1>1, <2>1 DEF AllPlaced
<1> HIDE DEF o, p, l
<1>6. Entries(l) = IF l.ch = ">" THEN 1 ELSE 2
  BY DEF Entries
<1>7. Len(o) = p + Entries(l) - 1 /\ o # <<>>
  BY <1>1, <1>2, <1>3, <1>4, <1>6
<1>8. s[Last(o)].type = IF l.ch = ">" THEN "quote" ELSE "li"
  <2>1. CASE l.ch = ">"
    <3>1. Last(o) = o[p]
      BY <1>4, <1>6, <1>7, <2>1 DEF Last
    <3> QED
      BY <1>5, <2>1, <3>1 DEF Placed
  <2>2. CASE l.ch # ">"
    <3>1. Last(o) = o[p + 1]
      <4>1. Len(o) = p + 1
        BY <1>4, <1>6, <1>7, <2>2
      <4> QED
        BY <4>1 DEF Last
    <3> QED
      BY <1>5, <2>2, <3>1 DEF Placed
  <2> QED
    BY <2>1, <2>2
<1>9. IF l.ch = ">" THEN s[o[p]].type = "quote" ELSE s[o[p]].type = ListType(l) /\ s[o[p+1]].type = "li"
  BY <1>5 DEF Placed
<1> QED
  BY <1>1, <1>4, <1>7, <1>8, <1>9 DEF o, p, l

\* What is open stays open.
LEMMA KeptPlaced ==
  ASSUME NEW s, NEW c, NEW t, NEW d, NEW q, Len(s) \in Nat, Len(c) \in Nat, Len(d) = Len(c) + 1,
         SameContainers(c, d, Len(c)), OpenAs(s, c), SameOpen(s, Unclosed(s), t, q, Len(Unclosed(s)))
  PROVE  /\ Len(Unclosed(s)) \in Nat /\ Places(d)[Len(c) + 1] = Len(Unclosed(s)) + 1
         /\ AllPlaced(t, q, d, Len(c))
<1>1. PICK n \in Nat : n = Len(c)
  OBVIOUS
<1>2. PICK o : o = Unclosed(s)
  OBVIOUS
<1>3. Len(o) \in Nat
  <2>1. o \in Seq(Inner(s, Len(s)))
    BY <1>2, UnclosedIs
  <2> QED
    BY <2>1
<1>4. Len(o) + 1 = Places(c)[n + 1] /\ AllPlaced(s, o, c, n)
  BY <1>1, <1>2, OpenAsIs
<1>5. Within(n, c, d)
  BY <1>1 DEF Within
<1>6. SameContainers(c, d, n)
  BY <1>1
<1>7. SameOpenTo(s, o, t, q, c, n)
  <2>1. Places(c)[n+1] - 1 = Len(o)
    BY <1>3, <1>4
  <2> QED
    BY <1>2, <2>1 DEF SameOpenTo
<1>8. AllPlaced(t, q, d, n) /\ Places(d)[n+1] = Places(c)[n+1]
  <2>1. AllPlaced(s, o, c, n)
    BY <1>4
  <2> QED
    BY <1>5, <1>6, <1>7, <2>1, StillPlaced
<1> QED
  BY <1>1, <1>2, <1>3, <1>4, <1>8

\* One container more, at the end of what is open.
LEMMA EnterPlaced ==
  ASSUME NEW s, NEW c, NEW t, NEW d, NEW q, Len(s) \in Nat, Len(c) \in Nat, Len(d) = Len(c) + 1,
         SameContainers(c, d, Len(c)), OpenAs(s, c),
         SameOpen(s, Unclosed(s), t, q, Len(Unclosed(s))), q = Unclosed(t),
         Len(q) = Len(Unclosed(s)) + Entries(d[Len(d)]), Placed(t, q, d[Len(d)], Len(Unclosed(s)) + 1)
  PROVE  OpenAs(t, d)
<1>1. PICK n \in Nat : n = Len(c)
  OBVIOUS
<1>2. PICK o : o = Unclosed(s)
  OBVIOUS
<1>5. n + 1 = Len(d)
  BY <1>1
<1>7. Len(o) \in Nat /\ Places(d)[n+1] = Len(o) + 1 /\ AllPlaced(t, q, d, n)
  BY <1>1, <1>2, KeptPlaced
<1>8. Places(d)[n+2] = Places(d)[n+1] + Entries(d[n+1])
  <2>1. n + 1 \in 1 .. Len(d) /\ (n + 1) + 1 = n + 2
    BY <1>5
  <2> QED
    BY <1>5, <2>1, PlacesAre
<1>9. AllPlaced(t, q, d, Len(d))
  <2>1. \A k \in 1 .. Len(d) : k \in 1 .. n \/ k = n + 1
    BY <1>5
  <2>2. Placed(t, q, d[n+1], Places(d)[n+1])
    BY <1>2, <1>5, <1>7
  <2> QED
    BY <1>7, <2>1, <2>2 DEF AllPlaced
<1>10. Len(q) + 1 = Places(d)[Len(d) + 1]
  <2>1. Len(d) + 1 = n + 2
    BY <1>5
  <2>2. Len(q) = Len(o) + Entries(d[n+1]) /\ Entries(d[n+1]) \in {1, 2}
    BY <1>2, <1>5 DEF Entries
  <2> QED
    BY <1>7, <1>8, <2>1, <2>2
<1> QED
  BY <1>9, <1>10, OpenAsIs

\* An opener of a quote makes it so.
LEMMA EnterQuote ==
  ASSUME NEW s, NEW c, NEW t, NEW d, Len(s) \in Nat, Len(c) \in Nat, Len(d) = Len(c) + 1,
         SameContainers(c, d, Len(c)), OpenAs(s, c),
         More(s, t, "open", "quote"), d[Len(d)].ch = ">"
  PROVE  OpenAs(t, d)
<1>1. PICK q : q = Unclosed(t)
  OBVIOUS
<1>2. /\ SameOpen(s, Unclosed(s), t, q, Len(Unclosed(s)))
      /\ Len(Unclosed(s)) \in Nat /\ Len(q) = Len(Unclosed(s)) + 1
      /\ q[Len(Unclosed(s)) + 1] = Len(t)
  BY <1>1, MoreOpen DEF SameOpen
<1>3. Len(q) = Len(Unclosed(s)) + Entries(d[Len(d)])
  BY <1>2 DEF Entries
<1>4. Placed(t, q, d[Len(d)], Len(Unclosed(s)) + 1)
  BY <1>2 DEF Placed, More
<1> QED
  BY <1>1, <1>2, <1>3, <1>4, EnterPlaced

\* So do the openers of a list and its first item.
LEMMA EnterListItem ==
  ASSUME NEW s, NEW c, NEW t, NEW u, NEW d, Len(s) \in Nat, Len(c) \in Nat, Len(d) = Len(c) + 1,
         SameContainers(c, d, Len(c)), OpenAs(s, c),
         More(s, t, "open", ListType(d[Len(d)])), More(t, u, "open", "li"),
         d[Len(d)].ch # ">", d[Len(d)].opener = Len(t)
  PROVE  OpenAs(u, d)
<1> DEFINE o == Unclosed(s)
           q == Unclosed(t)
           r == Unclosed(u)
<1>0. Len(t) \in Nat
  BY DEF More
<1>1. /\ \A i \in 1 .. Len(o) : q[i] = o[i] /\ t[o[i]].type = s[o[i]].type
      /\ Len(o) \in Nat /\ Len(q) = Len(o) + 1 /\ q[Len(o) + 1] = Len(t)
  BY MoreOpen
<1>2. /\ \A i \in 1 .. Len(q) : r[i] = q[i] /\ u[q[i]].type = t[q[i]].type
      /\ Len(q) \in Nat /\ Len(r) = Len(q) + 1 /\ r[Len(q) + 1] = Len(u)
  BY <1>0, MoreOpen
<1>3. t[Len(t)].type = ListType(d[Len(d)]) /\ u[Len(u)].type = "li"
  BY DEF More
<1> HIDE DEF o, q, r
<1>4. SameOpen(s, o, u, r, Len(o))
  <2>1. \A i \in 1 .. Len(o) : i \in 1 .. Len(q)
    BY <1>1
  <2> QED
    BY <1>1, <1>2, <2>1 DEF SameOpen
<1>5. Len(r) = Len(o) + Entries(d[Len(d)])
  BY <1>1, <1>2 DEF Entries
<1>6. r[Len(o) + 1] = Len(t) /\ u[Len(t)].type = t[Len(t)].type /\ r[(Len(o) + 1) + 1] = Len(u)
  <2>1. Len(o) + 1 \in 1 .. Len(q)
    BY <1>1
  <2> QED
    BY <1>1, <1>2, <2>1
<1>7. Placed(u, r, d[Len(d)], Len(o) + 1)
  BY <1>3, <1>6 DEF Placed
<1>8. OpenAs(u, d)
  BY <1>4, <1>5, <1>7, EnterPlaced DEF o, r
<1> QED
  BY <1>8

\* One container less.
LEMMA LeavePlaced ==
  ASSUME NEW s, NEW c, NEW t, NEW d, NEW q, Len(s) \in Nat, Len(c) \in Nat, Len(d) \in Nat, Len(d) + 1 = Len(c),
         SameContainers(c, d, Len(d)), OpenAs(s, c), q = Unclosed(t),
         SameOpen(s, Unclosed(s), t, q, Places(c)[Len(c)] - 1),
         Len(q) = Places(c)[Len(c)] - 1
  PROVE  OpenAs(t, d)
<1>1. PICK n \in Nat : n = Len(d)
  OBVIOUS
<1>2. PICK o : o = Unclosed(s)
  OBVIOUS
<1>4. AllPlaced(s, o, c, Len(c))
  BY <1>2, OpenAsIs
<1>5. n <= Len(c) /\ n <= Len(d) /\ n + 1 = Len(c)
  BY <1>1
<1>7. AllPlaced(t, q, d, n) /\ Places(d)[n+1] = Places(c)[n+1]
  <2>1. SameContainers(c, d, n) /\ SameOpenTo(s, o, t, q, c, n)
    BY <1>1, <1>2, <1>5 DEF SameOpenTo
  <2>2. Within(n, c, d)
    BY <1>5 DEF Within
  <2>3. AllPlaced(s, o, c, n)
    BY <1>4, <1>5 DEF AllPlaced
  <2> QED
    BY <2>1, <2>2, <2>3, StillPlaced
<1>8. Places(c)[n+1] \in Nat
  <2>1. n + 1 \in 1 .. n + 1
    OBVIOUS
  <2> QED
    BY <1>5, <2>1, PlacesAscend
<1>9. Len(q) + 1 = Places(d)[Len(d) + 1]
  BY <1>1, <1>5, <1>7, <1>8
<1> QED
  BY <1>1, <1>7, <1>9, OpenAsIs

\* A closer of a quote makes it so.
LEMMA LeaveQuote ==
  ASSUME NEW s, NEW c, NEW t, NEW d, Len(s) \in Nat, Len(c) \in Nat, Len(d) \in Nat, Len(d) + 1 = Len(c),
         SameContainers(c, d, Len(d)), OpenAs(s, c),
         More(s, t, "close", "quote"), c[Len(c)].ch = ">"
  PROVE  OpenAs(t, d)
<1> DEFINE o == Unclosed(s)
           p == Places(c)[Len(c)]
<1>1. p \in Nat /\ p >= 1 /\ Len(o) = p /\ o # <<>> /\ s[Last(o)].type = "quote"
  BY Innermost DEF Entries
<1>2. PICK q : q = Unclosed(t)
  OBVIOUS
<1>3. (\A i \in 1 .. Len(o) - 1 : q[i] = o[i] /\ t[o[i]].type = s[o[i]].type) /\ Len(q) = Len(o) - 1
  BY <1>1, <1>2, MoreClosed
<1> HIDE DEF o, p
<1>4. SameOpen(s, o, t, q, p - 1) /\ Len(q) = p - 1
  BY <1>1, <1>3 DEF SameOpen
<1>5. OpenAs(t, d)
  BY <1>2, <1>4, LeavePlaced DEF o, p
<1> QED
  BY <1>5

\* So do the closers of an item and its list.
LEMMA LeaveListItem ==
  ASSUME NEW s, NEW c, NEW t, NEW u, NEW d, Len(s) \in Nat, Len(c) \in Nat, Len(d) \in Nat, Len(d) + 1 = Len(c),
         SameContainers(c, d, Len(d)), OpenAs(s, c), c[Len(c)].ch # ">",
         More(s, t, "close", "li"), More(t, u, "close", ListType(c[Len(c)]))
  PROVE  OpenAs(u, d)
<1> DEFINE o == Unclosed(s)
           p == Places(c)[Len(c)]
           q == Unclosed(t)
           r == Unclosed(u)
<1>0. Len(t) \in Nat
  BY DEF More
<1>1. p \in Nat /\ p >= 1 /\ Len(o) = p + 1 /\ o # <<>> /\ s[Last(o)].type = "li"
      /\ s[o[p]].type = ListType(c[Len(c)])
  BY Innermost DEF Entries
<1>2. (\A i \in 1 .. Len(o) - 1 : q[i] = o[i] /\ t[o[i]].type = s[o[i]].type) /\ Len(q) = Len(o) - 1
  BY <1>1, MoreClosed
<1>3. q # <<>> /\ t[Last(q)].type = ListType(c[Len(c)])
  <2> HIDE DEF o, p, q
  <2>1. Len(q) = p /\ p \in 1 .. Len(o) - 1
    BY <1>1, <1>2
  <2>2. q # <<>>
    BY <1>1, <2>1
  <2> QED
    BY <1>1, <1>2, <2>1, <2>2 DEF Last
<1>4. (\A i \in 1 .. Len(q) - 1 : r[i] = q[i] /\ u[q[i]].type = t[q[i]].type) /\ Len(r) = Len(q) - 1
  BY <1>0, <1>3, MoreClosed
<1> HIDE DEF o, p, q, r
<1>5. SameOpen(s, o, u, r, p - 1) /\ Len(r) = p - 1
  <2>1. Len(q) = p /\ \A i \in 1 .. p - 1 : i \in 1 .. Len(q) - 1 /\ i \in 1 .. Len(o) - 1
    BY <1>1, <1>2
  <2> QED
    BY <1>1, <1>2, <1>4, <2>1 DEF SameOpen
<1>6. OpenAs(u, d)
  BY <1>5, LeavePlaced DEF o, p, r
<1> QED
  BY <1>6

\* The closer of an item and the opener of the next leave the list open.
LEMMA NextListItem ==
  ASSUME NEW s, NEW c, NEW t, NEW u, NEW d, Len(s) \in Nat, Len(c) \in Nat, Len(c) >= 1, Len(d) = Len(c),
         SameContainers(c, d, Len(c)), OpenAs(s, c), c[Len(c)].ch # ">",
         More(s, t, "close", "li"), More(t, u, "open", "li")
  PROVE  OpenAs(u, d)
<1> DEFINE o == Unclosed(s)
           p == Places(c)[Len(c)]
           q == Unclosed(t)
           r == Unclosed(u)
<1>0. Len(t) \in Nat
  BY DEF More
<1>1. p \in Nat /\ p >= 1 /\ Len(o) = p + 1 /\ o # <<>> /\ s[Last(o)].type = "li"
      /\ s[o[p]].type = ListType(c[Len(c)])
  BY Innermost DEF Entries
<1>2. (\A i \in 1 .. Len(o) - 1 : q[i] = o[i] /\ t[o[i]].type = s[o[i]].type) /\ Len(q) = Len(o) - 1
  BY <1>1, MoreClosed
<1>3. (\A i \in 1 .. Len(q) : r[i] = q[i] /\ u[q[i]].type = t[q[i]].type) /\ Len(r) = Len(q) + 1
      /\ r[Len(q) + 1] = Len(u)
  BY <1>0, MoreOpen
<1>4. u[Len(u)].type = "li"
  BY DEF More
<1>5. AllPlaced(s, o, c, Len(c)) /\ Len(o) + 1 = Places(c)[Len(c) + 1]
  BY OpenAsIs
<1> HIDE DEF o, p, q, r
<1>6. Len(r) = Len(o) /\ \A i \in 1 .. p : r[i] = o[i] /\ u[o[i]].type = s[o[i]].type
  <2>1. Len(q) = p /\ \A i \in 1 .. p : i \in 1 .. Len(q) /\ i \in 1 .. Len(o) - 1
    BY <1>1, <1>2
  <2> QED
    BY <1>1, <1>2, <1>3, <2>1
<1>7. r[p + 1] = Len(u)
  BY <1>1, <1>2, <1>3
<1>8. PICK n \in Nat : n + 1 = Len(c)
  OBVIOUS
<1>9. AllPlaced(u, r, d, n) /\ Places(d)[n+1] = Places(c)[n+1]
  <2>1. SameContainers(c, d, n) /\ Within(n, c, d)
    BY <1>8 DEF SameContainers, Within
  <2>2. SameOpenTo(s, o, u, r, c, n)
    BY <1>1, <1>6, <1>8 DEF SameOpen, SameOpenTo, p
  <2>3. AllPlaced(s, o, c, n)
    BY <1>5, <1>8 DEF AllPlaced
  <2> QED
    BY <2>1, <2>2, <2>3, StillPlaced
<1>10. Placed(u, r, d[n+1], Places(d)[n+1])
  <2>1. Places(d)[n+1] = p
    BY <1>8, <1>9 DEF p
  <2>2. c[n+1].ch = d[n+1].ch /\ c[n+1].ch # ">" /\ c[n+1].opener = d[n+1].opener
    BY <1>8 DEF SameContainers
  <2>3. Placed(s, o, c[n+1], p)
    BY <1>5, <1>8 DEF AllPlaced, p
  <2>4. r[p] = o[p] /\ u[o[p]].type = s[o[p]].type
    BY <1>1, <1>6
  <2> QED
    BY <1>4, <1>7, <2>1, <2>2, <2>3, <2>4 DEF Placed, ListType
<1>11. AllPlaced(u, r, d, Len(d))
  <2>1. \A k \in 1 .. Len(d) : k \in 1 .. n \/ k = n + 1
    BY <1>8
  <2> QED
    BY <1>9, <1>10, <2>1 DEF AllPlaced
<1>12. Places(d)[Len(d) + 1] = Places(c)[Len(c) + 1]
  <2>1. \A k \in 1 .. Len(c) : c[k].ch = d[k].ch
    BY DEF SameContainers
  <2>2. Len(c) + 1 \in 1 .. Len(c) + 1 /\ Len(c) <= Len(c) /\ Len(c) <= Len(d) /\ Len(d) \in Nat
    OBVIOUS
  <2> QED
    BY <2>1, <2>2, PlacesSame
<1> QED
  BY <1>5, <1>6, <1>11, <1>12, OpenAsIs DEF r

-----------------------------------------------------------------------------
(* Sequences, and the shape of the build.                                  *)

\* A sequence of anything.
IsSeq(s) == \E X : s \in Seq(X)

\* One element more.
LEMMA AppendIs ==
  ASSUME NEW s, IsSeq(s), NEW e
  PROVE  /\ IsSeq(Append(s, e)) /\ Len(s) \in Nat /\ Len(Append(s, e)) = Len(s) + 1
         /\ Append(s, e)[Len(s) + 1] = e /\ \A i \in 1 .. Len(s) : Append(s, e)[i] = s[i]
<1>1. PICK X : s \in Seq(X)
  BY DEF IsSeq
<1>2. PICK Y : Y = X \cup {e}
  OBVIOUS
<1>3. s \in Seq(Y) /\ e \in Y
  BY <1>1, <1>2
<1>4. Append(s, e) \in Seq(Y)
  BY <1>3
<1> QED
  BY <1>3, <1>4 DEF IsSeq

\* t is s but for place n.
IsChange(t, s, n, v) == t = [s EXCEPT ![n] = v]

\* The others stay.
LEMMA ChangeIs ==
  ASSUME NEW s, IsSeq(s), NEW t, NEW n, NEW v, IsChange(t, s, n, v)
  PROVE  /\ IsSeq(t) /\ Len(t) = Len(s) /\ Len(s) \in Nat
         /\ n \in 1 .. Len(s) => t[n] = v
         /\ \A i \in 1 .. Len(s) : i # n => t[i] = s[i]
<1>1. PICK X : s \in Seq(X)
  BY DEF IsSeq
<1>2. PICK Y : Y = X \cup {v}
  OBVIOUS
<1>3. s \in Seq(Y) /\ v \in Y
  BY <1>1, <1>2
<1>4. PICK r : r = t /\ r = [s EXCEPT ![n] = v]
  BY DEF IsChange
<1>5. /\ r \in [1 .. Len(s) -> Y] /\ (n \in 1 .. Len(s) => r[n] = v)
      /\ \A i \in 1 .. Len(s) : i # n => r[i] = s[i]
  <2>1. s \in [1 .. Len(s) -> Y] /\ Len(s) \in Nat
    BY <1>3
  <2>2. PICK m : m = 1 .. Len(s)
    OBVIOUS
  <2>3. s \in [m -> Y]
    BY <2>1, <2>2
  <2>4. r \in [m -> Y] /\ (n \in m => r[n] = v) /\ \A i \in m : i # n => r[i] = s[i]
    BY <1>3, <1>4, <2>3
  <2> QED
    BY <2>2, <2>4
<1>6. r \in Seq(Y) /\ Len(r) = Len(s)
  BY <1>3, <1>5
<1> QED
  BY <1>3, <1>4, <1>5, <1>6 DEF IsSeq

\* The first m elements.
LEMMA SubIs ==
  ASSUME NEW s, IsSeq(s), NEW m \in Nat, m <= Len(s)
  PROVE  /\ IsSeq(SubSeq(s, 1, m)) /\ Len(SubSeq(s, 1, m)) = m
         /\ \A i \in 1 .. m : SubSeq(s, 1, m)[i] = s[i]
<1>1. PICK X : s \in Seq(X)
  BY DEF IsSeq
<1>2. m \in 0 .. Len(s)
  BY <1>1
<1>3. SubSeq(s, 1, m) \in Seq(X) /\ Len(SubSeq(s, 1, m)) = m
  BY <1>1, <1>2
<1>4. \A i \in 1 .. m : SubSeq(s, 1, m)[i] = s[i]
  BY <1>1, <1>2
<1>5. IsSeq(SubSeq(s, 1, m))
  BY <1>3 DEF IsSeq
<1> QED
  BY <1>3, <1>4, <1>5

\* An entry of block_bytes.
IsBlock(e) == "what" \in DOMAIN e /\ "type" \in DOMAIN e
\* The entries, and the block under construction: it is the last of them.
IsBlocks(s) == IsSeq(s) /\ \A i \in 1 .. Len(s) : IsBlock(s[i])
IsBuild(b) ==
  /\ "blocks" \in DOMAIN b /\ "current" \in DOMAIN b /\ "defs" \in DOMAIN b
  /\ IsBlocks(b.blocks) /\ b.current \in BOOLEAN
  /\ b.current => b.blocks # <<>> /\ Last(b.blocks).what = "leaf"

\* t has the containers of s.
Keeps(s, t) == \A c : Len(c) \in Nat /\ OpenAs(s, c) => OpenAs(t, c)

\* The last one.
LEMMA LastIs ==
  ASSUME NEW s, IsSeq(s), s # <<>>
  PROVE  Len(s) \in Nat /\ Len(s) >= 1 /\ Last(s) = s[Len(s)]
BY DEF IsSeq, Last

\* Blocks with the same containers keep them.
LEMMA KeepsSame ==
  ASSUME NEW s, NEW t, IsBlocks(s), Len(t) = Len(s), SameTree(s, t, Len(s))
  PROVE  Keeps(s, t)
<1> SUFFICES ASSUME NEW c, Len(c) \in Nat, OpenAs(s, c)
             PROVE  OpenAs(t, c)
  BY DEF Keeps
<1>1. Len(s) \in Nat
  BY DEF IsBlocks, IsSeq
<1>2. SameContainers(c, c, Len(c))
  BY DEF SameContainers
<1> QED
  BY <1>1, <1>2, OpenSame

\* The end of a leaf may be that nothing is left of it.
LEMMA KeepsFront ==
  ASSUME NEW s, IsBlocks(s), s # <<>>, Last(s).what = "leaf"
  PROVE  Keeps(s, Front(s)) /\ IsBlocks(Front(s))
<1>1. PICK X : s \in Seq(X)
  BY DEF IsBlocks, IsSeq
<1>2. PICK t : t = Front(s)
  OBVIOUS
<1>3. PICK m \in Nat : m = Len(t)
  BY <1>1, <1>2, FrontIs
<1>4. t \in Seq(X) /\ Len(s) = m + 1 /\ \A i \in 1 .. m : t[i] = s[i]
  BY <1>1, <1>2, <1>3, FrontIs
<1>5. SameTree(t, s, m)
  BY <1>4 DEF SameTree
<1>6. Unclosed(s) = StillOpen(Unclosed(t), Len(s), s)
  BY <1>3, <1>4, <1>5, UnclosedNext
<1>7. Unclosed(s) = Unclosed(t)
  BY <1>4, <1>6 DEF StillOpen, Last
<1>8. Unclosed(t) \in Seq(Inner(t, m))
  BY <1>3, UnclosedIs
<1>9. ASSUME NEW c, Len(c) \in Nat, OpenAs(s, c)
      PROVE  OpenAs(t, c)
  <2>1. PICK n \in Nat : n = Len(c)
    BY <1>9
  <2>2. PICK o : o = Unclosed(s)
    OBVIOUS
  <2>3. Len(o) + 1 = Places(c)[n + 1] /\ AllPlaced(s, o, c, n)
    BY <1>9, <2>1, <2>2, OpenAsIs
  <2>4. o \in Seq(Inner(t, m)) /\ o = Unclosed(t)
    BY <1>7, <1>8, <2>2
  <2>5. SameOpen(s, o, t, o, Len(o))
    <3>1. \A i \in 1 .. Len(o) : o[i] \in Inner(t, m)
      BY <2>4
    <3> QED
      BY <1>4, <3>1 DEF SameOpen, Inner
  <2>6. SameOpenTo(s, o, t, o, c, n)
    <3>1. Places(c)[n + 1] - 1 = Len(o)
      BY <2>3, <2>4
    <3> QED
      BY <2>5, <3>1 DEF SameOpenTo
  <2>7. SameContainers(c, c, n) /\ Within(n, c, c)
    BY <2>1 DEF SameContainers, Within
  <2>8. AllPlaced(s, o, c, n)
    BY <2>3
  <2>9. AllPlaced(t, o, c, n)
    BY <2>6, <2>7, <2>8, StillPlaced
  <2> QED
    BY <2>1, <2>3, <2>4, <2>9, OpenAsIs
<1>10. IsBlocks(t)
  BY <1>3, <1>4 DEF IsBlocks, IsSeq
<1> QED
  BY <1>2, <1>9, <1>10 DEF Keeps

-----------------------------------------------------------------------------
(* The operations of the build: md_end_current_block(),                    *)
(* md_push_container_bytes().                                              *)

\* What is left of the leaf of the blocks s is nothing, or goes on.
LeafKept(k, s, leaf) ==
  /\ "blocks" \in DOMAIN k /\ "current" \in DOMAIN k /\ "defs" \in DOMAIN k
  /\ \/ k.blocks = Front(s) /\ k.current = FALSE
     \/ \E l : /\ k.blocks = Append(Front(s), l) /\ IsBlock(l) /\ l.what = leaf.what
               /\ \/ k.current = FALSE
                  \/ k.current = TRUE /\ leaf.type = "h" /\ leaf.setext /\ l.type = "p"

\* Keep leaves nothing of the leaf, or a leaf.
LEMMA KeepIs ==
  ASSUME NEW b, NEW leaf, NEW rest, NEW defs, IsBlock(leaf)
  PROVE  LeafKept(Keep(b, leaf, rest, defs), b.blocks, leaf)
<1> DEFINE heading == leaf.type = "h" /\ leaf.setext
           kept(l) == [blocks |-> Append(Front(b.blocks), l), current |-> FALSE, defs |-> defs]
           par == [leaf EXCEPT !.type = "p", !.lines = rest]
           part(x) == [leaf EXCEPT !.lines = x]
<1>1. CASE rest = <<>>
  <2>1. Keep(b, leaf, rest, defs) = [kept(leaf) EXCEPT !.blocks = Front(b.blocks)]
    BY <1>1 DEF Keep
  <2> QED
    BY <2>1 DEF LeafKept
<1>2. CASE rest # <<>> /\ heading /\ Len(rest) = 1
  <2>1. Keep(b, leaf, rest, defs) = [kept(par) EXCEPT !.current = TRUE]
    BY <1>2, Zenon DEF Keep
  <2>2. IsBlock(par) /\ par.what = leaf.what /\ par.type = "p"
    BY DEF IsBlock
  <2> HIDE DEF par
  <2>3. PICK k : k = [kept(par) EXCEPT !.current = TRUE]
    OBVIOUS
  <2>4. /\ "blocks" \in DOMAIN k /\ "current" \in DOMAIN k /\ "defs" \in DOMAIN k
        /\ k.blocks = Append(Front(b.blocks), par) /\ k.current = TRUE
    BY <2>3
  <2>5. leaf.type = "h" /\ leaf.setext
    BY <1>2
  <2> QED
    BY <2>1, <2>2, <2>3, <2>4, <2>5, Zenon DEF LeafKept
<1>3. CASE rest # <<>> /\ ~(heading /\ Len(rest) = 1)
  <2>1. PICK x : Keep(b, leaf, rest, defs) = kept(part(x))
    <3>1. Keep(b, leaf, rest, defs) = kept(part(IF heading THEN Front(rest) ELSE rest))
      BY <1>3, Zenon DEF Keep
    <3> QED
      BY <3>1, Zenon
  <2>2. IsBlock(part(x)) /\ part(x).what = leaf.what
    BY DEF IsBlock
  <2>3. PICK l : l = part(x)
    OBVIOUS
  <2>4. PICK k : k = kept(l)
    OBVIOUS
  <2>5. /\ "blocks" \in DOMAIN k /\ "current" \in DOMAIN k /\ "defs" \in DOMAIN k
        /\ k.blocks = Append(Front(b.blocks), l) /\ k.current = FALSE
    BY <2>4
  <2> HIDE DEF part, kept
  <2> QED
    BY <2>1, <2>2, <2>3, <2>4, <2>5, Zenon DEF LeafKept
<1> QED
  BY <1>1, <1>2, <1>3

\* md_end_current_block().
LEMMA EndBlockIs ==
  ASSUME NEW b, IsBuild(b)
  PROVE  \E e : /\ e = EndBlock(b) /\ IsBuild(e) /\ Keeps(b.blocks, e.blocks)
                /\ e.current => /\ b.current /\ Last(b.blocks).type = "h" /\ Last(b.blocks).setext
                                /\ Last(e.blocks).type = "p"
<1>1. CASE ~b.current
  <2>1. EndBlock(b) = b
    BY <1>1 DEF EndBlock
  <2>2. Keeps(b.blocks, b.blocks)
    BY DEF Keeps
  <2> QED
    BY <1>1, <2>1, <2>2
<1>2. CASE b.current
  <2>1. PICK s : s = b.blocks
    OBVIOUS
  <2>2. PICK leaf : leaf = Last(s)
    OBVIOUS
  <2>3. IsBlocks(s) /\ s # <<>> /\ leaf.what = "leaf"
    BY <1>2, <2>1, <2>2 DEF IsBuild
  <2>4. Len(s) \in Nat /\ Len(s) >= 1 /\ leaf = s[Len(s)]
    BY <2>2, <2>3, LastIs DEF IsBlocks
  <2>5. IsBlock(leaf)
    BY <2>3, <2>4 DEF IsBlocks
  <2>6. PICK rest, defs : EndBlock(b) = Keep(b, leaf, rest, defs)
    <3>1. EndBlock(b) = EndLeaf(b, leaf)
      BY <1>2, <2>1, <2>2 DEF EndBlock
    <3>2. \/ \E eaten : EndLeaf(b, leaf) = KeepBehind(b, leaf, eaten)
          \/ EndLeaf(b, leaf) = Keep(b, leaf, leaf.lines, b.defs)
      BY Zenon DEF EndLeaf
    <3> QED
      BY <3>1, <3>2, Zenon DEF KeepBehind
  <2>a. PICK e : e = EndBlock(b)
    OBVIOUS
  <2>b. LeafKept(e, s, leaf)
    BY <2>1, <2>5, <2>6, <2>a, KeepIs
  <2>7. /\ e = EndBlock(b)
        /\ "blocks" \in DOMAIN e /\ "current" \in DOMAIN e /\ "defs" \in DOMAIN e
        /\ \/ e.blocks = Front(s) /\ e.current = FALSE
           \/ \E l : /\ e.blocks = Append(Front(s), l) /\ IsBlock(l) /\ l.what = leaf.what
                     /\ \/ e.current = FALSE
                        \/ e.current = TRUE /\ leaf.type = "h" /\ leaf.setext /\ l.type = "p"
    BY <2>a, <2>b DEF LeafKept
  <2>8. Keeps(s, Front(s)) /\ IsBlocks(Front(s))
    BY <2>2, <2>3, KeepsFront
  <2>9. CASE e.blocks = Front(s) /\ e.current = FALSE
    BY <2>1, <2>7, <2>8, <2>9 DEF IsBuild
  <2>10. CASE \E l : /\ e.blocks = Append(Front(s), l) /\ IsBlock(l) /\ l.what = leaf.what
                     /\ \/ e.current = FALSE
                        \/ e.current = TRUE /\ leaf.type = "h" /\ leaf.setext /\ l.type = "p"
    <3>1. PICK l : /\ e.blocks = Append(Front(s), l) /\ IsBlock(l) /\ l.what = leaf.what
                   /\ \/ e.current = FALSE
                      \/ e.current = TRUE /\ leaf.type = "h" /\ leaf.setext /\ l.type = "p"
      BY <2>10
    <3>2. PICK m : m = Len(s) - 1
      OBVIOUS
    <3>3. PICK f : f = Front(s)
      OBVIOUS
    <3>4. IsSeq(f) /\ Len(f) = m /\ m \in Nat /\ \A i \in 1 .. m : f[i] = s[i]
      <4>1. PICK X : s \in Seq(X)
        BY <2>3 DEF IsBlocks, IsSeq
      <4>2. Front(s) \in Seq(X) /\ Len(Front(s)) = Len(s) - 1 /\ \A i \in 1 .. Len(s) - 1 : Front(s)[i] = s[i]
        BY <2>3, <4>1, FrontIs
      <4> QED
        BY <2>4, <3>2, <3>3, <4>2 DEF IsSeq
    <3>5. PICK t : t = Append(f, l)
      OBVIOUS
    <3>6. IsSeq(t) /\ Len(t) = Len(s) /\ t[Len(s)] = l /\ \A i \in 1 .. m : t[i] = s[i]
      <4>1. IsSeq(t) /\ Len(t) = m + 1 /\ t[m + 1] = l /\ \A i \in 1 .. m : t[i] = f[i]
        BY <3>4, <3>5, AppendIs
      <4> QED
        BY <2>4, <3>2, <3>4, <4>1
    <3>7. \A i \in 1 .. Len(s) : i \in 1 .. m \/ i = Len(s)
      BY <2>4, <3>2, <3>4
    <3>8. SameTree(s, t, Len(s))
      BY <2>3, <2>4, <3>1, <3>6, <3>7 DEF SameTree
    <3>9. IsBlocks(t)
      BY <2>3, <3>1, <3>6, <3>7 DEF IsBlocks
    <3>10. Keeps(s, t)
      BY <2>3, <3>6, <3>8, KeepsSame
    <3>11. e.blocks = t /\ t # <<>> /\ Last(t) = l
      <4>1. t # <<>>
        BY <2>4, <3>6
      <4>2. Last(t) = t[Len(t)]
        BY <3>6, <4>1, LastIs
      <4> QED
        BY <3>1, <3>3, <3>5, <3>6, <4>1, <4>2
    <3>12. IsBuild(e)
      BY <2>3, <2>7, <3>1, <3>9, <3>11 DEF IsBuild
    <3> QED
      BY <1>2, <2>1, <2>2, <2>7, <3>1, <3>10, <3>11, <3>12
  <2> QED
    BY <2>7, <2>9, <2>10
<1> QED
  BY <1>1, <1>2 DEF IsBuild

\* md_push_container_bytes().
LEMMA PushIs ==
  ASSUME NEW b, IsBuild(b), ~EndBlock(b).current, NEW what, NEW type, NEW data
  PROVE  \E r : /\ r = Push(b, ContainerBytes(what, type, data)) /\ IsBuild(r) /\ ~r.current
                /\ More(EndBlock(b).blocks, r.blocks, what, type)
<1>1. PICK e : e = EndBlock(b) /\ IsBuild(e)
  BY EndBlockIs
<1>2. PICK c : c = ContainerBytes(what, type, data)
  OBVIOUS
<1>3. IsBlock(c) /\ c.what = what /\ c.type = type
  BY <1>2 DEF ContainerBytes, IsBlock
<1>4. PICK s : s = e.blocks
  OBVIOUS
<1>5. PICK r : r = [e EXCEPT !.blocks = Append(s, c)]
  OBVIOUS
<1>6. r = Push(b, ContainerBytes(what, type, data))
  BY <1>1, <1>2, <1>4, <1>5 DEF Push, PushTo
<1>7. /\ r.blocks = Append(s, c) /\ r.current = e.current
      /\ "blocks" \in DOMAIN r /\ "current" \in DOMAIN r /\ "defs" \in DOMAIN r
  BY <1>1, <1>5 DEF IsBuild
<1>8. PICK t : t = Append(s, c)
  OBVIOUS
<1>9. IsBlocks(s)
  BY <1>1, <1>4 DEF IsBuild
<1>10. IsSeq(t) /\ Len(s) \in Nat /\ Len(t) = Len(s) + 1 /\ t[Len(s) + 1] = c /\ \A i \in 1 .. Len(s) : t[i] = s[i]
  BY <1>8, <1>9, AppendIs DEF IsBlocks
<1>11. IsBlocks(t)
  BY <1>3, <1>9, <1>10 DEF IsBlocks
<1>12. More(s, t, what, type)
  BY <1>3, <1>10 DEF More, SameTree
<1>13. ~r.current /\ r.current \in BOOLEAN
  BY <1>1, <1>7 DEF IsBuild
<1>14. IsBuild(r)
  BY <1>7, <1>8, <1>11, <1>13 DEF IsBuild
<1> QED
  BY <1>1, <1>4, <1>6, <1>7, <1>8, <1>12, <1>13, <1>14

\* The block under construction is no heading: it ends for good.
Unheaded(b) == b.current => Last(b.blocks).type # "h"

\* What is needed of the containers.
IsContainers(c) == IsSeq(c) /\ \A i \in 1 .. Len(c) : "ch" \in DOMAIN c[i] /\ "opener" \in DOMAIN c[i]

\* Then md_end_current_block() ends it, and ends nothing when called again.
LEMMA EndPlain ==
  ASSUME NEW b, IsBuild(b), Unheaded(b)
  PROVE  \E e : e = EndBlock(b) /\ IsBuild(e) /\ Keeps(b.blocks, e.blocks) /\ ~e.current /\ EndBlock(e) = e
<1>1. PICK e : /\ e = EndBlock(b) /\ IsBuild(e) /\ Keeps(b.blocks, e.blocks)
               /\ e.current => b.current /\ Last(b.blocks).type = "h"
  BY EndBlockIs
<1>2. ~e.current
  BY <1>1 DEF Unheaded
<1>3. EndBlock(e) = e
  BY <1>2 DEF EndBlock
<1> QED
  BY <1>1, <1>2, <1>3

\* A container byte behind it.
LEMMA PushPlain ==
  ASSUME NEW b, IsBuild(b), Unheaded(b), NEW what, NEW type, NEW data
  PROVE  \E r, m : /\ r = Push(b, ContainerBytes(what, type, data)) /\ IsBuild(r) /\ ~r.current
                   /\ IsBlocks(m) /\ Keeps(b.blocks, m) /\ More(m, r.blocks, what, type)
<1>1. PICK e : e = EndBlock(b) /\ IsBuild(e) /\ Keeps(b.blocks, e.blocks) /\ ~e.current
  BY EndPlain
<1>2. PICK r : /\ r = Push(b, ContainerBytes(what, type, data)) /\ IsBuild(r) /\ ~r.current
               /\ More(e.blocks, r.blocks, what, type)
  BY <1>1, PushIs
<1>3. IsBlocks(e.blocks)
  BY <1>1 DEF IsBuild
<1> QED
  BY <1>1, <1>2, <1>3

\* A container byte when no block is under construction.
LEMMA PushOn ==
  ASSUME NEW b, IsBuild(b), ~b.current, NEW what, NEW type, NEW data
  PROVE  \E r : /\ r = Push(b, ContainerBytes(what, type, data)) /\ IsBuild(r) /\ ~r.current
                /\ More(b.blocks, r.blocks, what, type)
<1>1. EndBlock(b) = b
  BY DEF EndBlock
<1> QED
  BY <1>1, PushIs

\* What is open tells of a container no more than its mark and its opener.
LEMMA OtherContainers ==
  ASSUME NEW s, IsBlocks(s), NEW c, Len(c) \in Nat, NEW d, Len(d) = Len(c), SameContainers(c, d, Len(c)),
         OpenAs(s, c)
  PROVE  OpenAs(s, d)
<1>1. Len(s) \in Nat
  BY DEF IsBlocks, IsSeq
<1>2. SameTree(s, s, Len(s))
  BY DEF SameTree
<1> QED
  BY <1>1, <1>2, OpenSame

\* A step of md_leave_child_containers().
LEMMA LeaveOneIs ==
  ASSUME NEW b, IsBuild(b), Unheaded(b), NEW c, Len(c) \in Nat, NEW d, Len(d) \in Nat, Len(d) + 1 = Len(c),
         SameContainers(c, d, Len(d)), OpenAs(b.blocks, c)
  PROVE  \E r : r = LeaveOne(b, c[Len(c)]) /\ IsBuild(r) /\ ~r.current /\ OpenAs(r.blocks, d)
<1>1. PICK e : e = c[Len(c)]
  OBVIOUS
<1>2. CASE e.ch = ">"
  <2>1. PICK r, m : /\ r = Push(b, ContainerBytes("close", "quote", 0)) /\ IsBuild(r) /\ ~r.current
                    /\ IsBlocks(m) /\ Keeps(b.blocks, m) /\ More(m, r.blocks, "close", "quote")
    BY PushPlain
  <2>2. OpenAs(m, c) /\ Len(m) \in Nat
    BY <2>1 DEF Keeps, IsBlocks, IsSeq
  <2>3. OpenAs(r.blocks, d)
    BY <1>1, <1>2, <2>1, <2>2, LeaveQuote
  <2>4. r = LeaveOne(b, e)
    BY <1>2, <2>1 DEF LeaveOne
  <2> QED
    BY <1>1, <2>1, <2>3, <2>4
<1>3. CASE e.ch # ">"
  <2>1. PICK r, m : /\ r = Push(b, ContainerBytes("close", "li", e.task)) /\ IsBuild(r) /\ ~r.current
                    /\ IsBlocks(m) /\ Keeps(b.blocks, m) /\ More(m, r.blocks, "close", "li")
    BY PushPlain
  <2>2. PICK q : /\ q = Push(r, ContainerBytes("close", ListType(e), 0)) /\ IsBuild(q) /\ ~q.current
                 /\ More(r.blocks, q.blocks, "close", ListType(e))
    BY <2>1, PushOn
  <2>3. OpenAs(m, c) /\ Len(m) \in Nat
    BY <2>1 DEF Keeps, IsBlocks, IsSeq
  <2>4. OpenAs(q.blocks, d)
    BY <1>1, <1>3, <2>1, <2>2, <2>3, LeaveListItem
  <2>5. q = LeaveOne(b, e)
    BY <1>3, <2>1, <2>2, Zenon DEF LeaveOne
  <2> QED
    BY <1>1, <2>2, <2>4, <2>5
<1> QED
  BY <1>2, <1>3

\* The next item of the innermost list.
LEMMA NextItemIs ==
  ASSUME NEW b, IsBuild(b), Unheaded(b), NEW c, Len(c) \in Nat, Len(c) >= 1, OpenAs(b.blocks, c),
         c[Len(c)].ch # ">", NEW item
  PROVE  \E r : r = NextItem(b, item) /\ IsBuild(r) /\ ~r.current /\ OpenAs(r.blocks, c)
<1>1. PICK r, m : /\ r = Push(b, ContainerBytes("close", "li", item.task)) /\ IsBuild(r) /\ ~r.current
                  /\ IsBlocks(m) /\ Keeps(b.blocks, m) /\ More(m, r.blocks, "close", "li")
  BY PushPlain
<1>2. PICK q : /\ q = Push(r, ContainerBytes("open", "li", line.task)) /\ IsBuild(q) /\ ~q.current
               /\ More(r.blocks, q.blocks, "open", "li")
  BY <1>1, PushOn
<1>3. OpenAs(m, c) /\ Len(m) \in Nat
  BY <1>1 DEF Keeps, IsBlocks, IsSeq
<1>4. SameContainers(c, c, Len(c))
  BY DEF SameContainers
<1>5. OpenAs(q.blocks, c)
  BY <1>1, <1>2, <1>3, <1>4, NextListItem
<1>6. q = NextItem(b, item)
  BY <1>1, <1>2, Zenon DEF NextItem
<1> QED
  BY <1>2, <1>5, <1>6

-----------------------------------------------------------------------------
(* Containers are entered and left.                                        *)

\* md_enter_child_containers() after the first i of the containers.
IsEntered(r, i, n, b) ==
  /\ "build" \in DOMAIN r /\ "conts" \in DOMAIN r
  /\ r.build.current => r.build = b
  /\ IsBuild(r.build) /\ Unheaded(r.build) /\ IsContainers(r.conts) /\ Len(r.conts) = n
  /\ OpenAs(r.build.blocks, SubSeq(r.conts, 1, i))

\* A step of md_enter_child_containers().
LEMMA EnterOneIs ==
  ASSUME NEW n \in Nat, NEW i \in 1 .. n, NEW b0, NEW done, IsEntered(done, i - 1, n, b0)
  PROVE  \E r : r = EnterOne(done, i) /\ IsEntered(r, i, n, b0)
<1>1. PICK b, c : b = done.build /\ c = done.conts
  OBVIOUS
<1>2. IsBuild(b) /\ Unheaded(b) /\ IsContainers(c) /\ Len(c) = n
  BY <1>1 DEF IsEntered
<1>3. PICK p : p = SubSeq(c, 1, i - 1)
  OBVIOUS
<1>4. IsSeq(p) /\ Len(p) = i - 1 /\ (\A k \in 1 .. i - 1 : p[k] = c[k]) /\ OpenAs(b.blocks, p)
  <2>1. i - 1 \in Nat /\ i - 1 <= Len(c) /\ IsSeq(c)
    BY <1>2 DEF IsContainers
  <2>2. OpenAs(b.blocks, p)
    BY <1>1, <1>3 DEF IsEntered
  <2> QED
    BY <1>3, <2>1, <2>2, SubIs
<1>5. Len(p) \in Nat
  BY <1>4
<1>6. CASE c[i].ch = ">"
  <2>1. PICK r, m : /\ r = Push(b, ContainerBytes("open", "quote", 0)) /\ IsBuild(r) /\ ~r.current
                    /\ IsBlocks(m) /\ Keeps(b.blocks, m) /\ More(m, r.blocks, "open", "quote")
    BY <1>2, PushPlain
  <2>2. PICK q : q = [done EXCEPT !.build = r]
    OBVIOUS
  <2>3. q.build = r /\ q.conts = c /\ "build" \in DOMAIN q /\ "conts" \in DOMAIN q
    BY <1>1, <2>2 DEF IsEntered
  <2>4. q = EnterOne(done, i)
    BY <1>1, <1>6, <2>1, <2>2 DEF EnterOne
  <2>5. OpenAs(m, p) /\ Len(m) \in Nat
    BY <1>4, <1>5, <2>1 DEF Keeps, IsBlocks, IsSeq
  <2>6. PICK d : d = SubSeq(c, 1, i)
    OBVIOUS
  <2>7. IsSeq(d) /\ Len(d) = i /\ (\A k \in 1 .. i : d[k] = c[k])
    BY <1>2, <2>6, SubIs DEF IsContainers
  <2>8. Len(d) = Len(p) + 1 /\ SameContainers(p, d, Len(p)) /\ d[Len(d)].ch = ">"
    BY <1>4, <1>6, <2>7 DEF SameContainers
  <2>9. OpenAs(r.blocks, d)
    BY <1>5, <2>1, <2>5, <2>8, EnterQuote
  <2>10. Unheaded(r)
    BY <2>1 DEF Unheaded
  <2>11. IsEntered(q, i, n, b0)
    BY <1>2, <2>1, <2>3, <2>6, <2>9, <2>10 DEF IsEntered
  <2> QED
    BY <2>4, <2>11
<1>7. CASE c[i].ch # ">"
  <2>1. PICK e : e = EndBlock(b) /\ IsBuild(e) /\ Keeps(b.blocks, e.blocks) /\ ~e.current
    BY <1>2, EndPlain
  <2>2. PICK t : /\ t = Push(e, ContainerBytes("open", ListType(c[i]), c[i].start)) /\ IsBuild(t) /\ ~t.current
                 /\ More(e.blocks, t.blocks, "open", ListType(c[i]))
    BY <2>1, PushOn
  <2>3. PICK u : /\ u = Push(t, ContainerBytes("open", "li", c[i].task)) /\ IsBuild(u) /\ ~u.current
                 /\ More(t.blocks, u.blocks, "open", "li")
    BY <2>2, PushOn
  <2>4. PICK a : a = [c EXCEPT ![i].opener = Len(e.blocks) + 1]
    OBVIOUS
  <2>5. PICK x : x = [c[i] EXCEPT !.opener = Len(e.blocks) + 1]
    OBVIOUS
  <2>6. x.ch = c[i].ch /\ x.opener = Len(e.blocks) + 1 /\ "ch" \in DOMAIN x /\ "opener" \in DOMAIN x
    BY <1>2, <2>5 DEF IsContainers
  <2>7. a = [c EXCEPT ![i] = x]
    BY <2>4, <2>5
  <2>8. IsSeq(a) /\ Len(a) = n /\ a[i] = x /\ \A k \in 1 .. n : k # i => a[k] = c[k]
    <3>1. IsSeq(c) /\ Len(c) = n /\ i \in 1 .. Len(c)
      BY <1>2 DEF IsContainers
    <3>2. IsChange(a, c, i, x)
      BY <2>7 DEF IsChange
    <3>3. /\ IsSeq(a) /\ Len(a) = Len(c) /\ (i \in 1 .. Len(c) => a[i] = x)
          /\ \A k \in 1 .. Len(c) : k # i => a[k] = c[k]
      BY <3>1, <3>2, ChangeIs
    <3> QED
      BY <3>1, <3>3
  <2>9. IsContainers(a)
    BY <1>2, <2>6, <2>8 DEF IsContainers
  <2>10. PICK q : q = [build |-> u, conts |-> a]
    OBVIOUS
  <2>11. q = EnterOne(done, i)
    <3>1. q = EnterList(e, c, i)
      BY <2>2, <2>3, <2>4, <2>10, Zenon DEF EnterList
    <3> QED
      BY <1>1, <1>7, <2>1, <3>1 DEF EnterOne
  <2>12. PICK d : d = SubSeq(a, 1, i)
    OBVIOUS
  <2>13. IsSeq(d) /\ Len(d) = i /\ (\A k \in 1 .. i : d[k] = a[k])
    BY <2>8, <2>12, SubIs
  <2>14. Len(d) = Len(p) + 1 /\ SameContainers(p, d, Len(p)) /\ d[Len(d)] = x
    BY <1>4, <2>8, <2>13 DEF SameContainers
  <2>15. OpenAs(e.blocks, p) /\ Len(e.blocks) \in Nat
    BY <1>4, <1>5, <2>1 DEF Keeps, IsBuild, IsBlocks, IsSeq
  <2>16. d[Len(d)].ch # ">" /\ d[Len(d)].opener = Len(t.blocks) /\ ListType(d[Len(d)]) = ListType(c[i])
    BY <1>7, <2>2, <2>6, <2>14 DEF More, ListType
  <2>17. OpenAs(u.blocks, d)
    BY <1>5, <2>2, <2>3, <2>14, <2>15, <2>16, EnterListItem
  <2>18. Unheaded(u)
    BY <2>3 DEF Unheaded
  <2>19. IsEntered(q, i, n, b0)
    BY <2>3, <2>8, <2>9, <2>10, <2>12, <2>17, <2>18 DEF IsEntered
  <2> QED
    BY <2>11, <2>19
<1> QED
  BY <1>6, <1>7

\* md_enter_child_containers().
LEMMA EnterIs ==
  ASSUME NEW b, IsBuild(b), Unheaded(b), NEW c, IsContainers(c), NEW n \in Nat, n <= Len(c),
         OpenAs(b.blocks, SubSeq(c, 1, Len(c) - n))
  PROVE  \E r : /\ r = Enter(b, c, n) /\ IsBuild(r.build) /\ IsContainers(r.conts)
                /\ OpenAs(r.build.blocks, r.conts)
                /\ r.build.current => r.build = b
                /\ n = 0 => r.build = b
<1>0. PICK N \in Nat : N = Len(c)
  BY DEF IsContainers, IsSeq
<1>1. PICK s : s = [k \in 1 .. n |-> Len(c) - n + k]
  OBVIOUS
<1>2. PICK first : first = [build |-> b, conts |-> c]
  OBVIOUS
<1>3. DOMAIN s = 1 .. n
  BY <1>1
<1>f. PICK g : EnterSteps(g, first, s, n) /\ FoldLeft(EnterOne, first, s) = g[n]
  BY <1>3, EnterFold
<1>4. /\ g[0] = first
      /\ \A k \in 1 .. n : g[k] = EnterOne(g[k-1], s[k])
      /\ FoldLeft(EnterOne, first, s) = g[n]
  BY <1>f DEF EnterSteps
<1>5. IsEntered(g[0], N - n, N, b)
  BY <1>0, <1>2, <1>4 DEF IsEntered
<1> DEFINE Bad == {k \in 0 .. n : ~IsEntered(g[k], N - n + k, N, b)}
<1>6. Bad = {}
  <2>1. SUFFICES ASSUME Bad # {} PROVE FALSE
    OBVIOUS
  <2>2. PICK k \in Bad : \A j \in Bad : k <= j
    <3>1. Bad \in SUBSET Nat
      OBVIOUS
    <3> HIDE DEF Bad
    <3> QED
      BY <2>1, <3>1, LeastNat
  <2>3. k # 0
    <3>1. N - n + 0 = N - n
      BY <1>0
    <3> QED
      BY <1>5, <3>1
  <2>4. k \in 1 .. n /\ k - 1 \in 0 .. n /\ k - 1 \notin Bad
    BY <2>2, <2>3
  <2>5. PICK i \in 1 .. N : i = N - n + k
    BY <1>0, <2>4
  <2>6. IsEntered(g[k-1], i - 1, N, b)
    <3>1. N - n + (k - 1) = i - 1
      BY <1>0, <2>4, <2>5
    <3>2. IsEntered(g[k-1], N - n + (k - 1), N, b)
      BY <2>4
    <3> QED
      BY <3>1, <3>2
  <2>7. PICK d : d = g[k-1]
    OBVIOUS
  <2>8. g[k] = EnterOne(d, i)
    <3>1. s[k] = i
      BY <1>0, <1>1, <2>4, <2>5
    <3> QED
      BY <1>4, <2>4, <2>7, <3>1
  <2>9. IsEntered(g[k], i, N, b)
    BY <2>6, <2>7, <2>8, EnterOneIs
  <2> QED
    BY <2>5, <2>9
<1>7. IsEntered(g[n], N, N, b)
  <2>1. n \in 0 .. n /\ N - n + n = N
    BY <1>0
  <2> QED
    BY <1>6, <2>1
<1>8. PICK r : r = g[n]
  OBVIOUS
<1>9. r = Enter(b, c, n)
  BY <1>1, <1>2, <1>4, <1>8 DEF Enter
<1>10. n = 0 => r.build = b
  BY <1>2, <1>4, <1>8
<1>11. PICK a : a = SubSeq(r.conts, 1, N)
  OBVIOUS
<1>12. IsBuild(r.build) /\ IsContainers(r.conts) /\ (r.build.current => r.build = b) /\ Len(r.conts) = N /\ OpenAs(r.build.blocks, a)
  BY <1>7, <1>8, <1>11 DEF IsEntered
<1>13. Len(a) = N /\ \A k \in 1 .. N : a[k] = r.conts[k]
  BY <1>11, <1>12, SubIs DEF IsContainers
<1>14. OpenAs(r.build.blocks, r.conts)
  <2>1. SameContainers(a, r.conts, Len(a))
    BY <1>13 DEF SameContainers
  <2>2. IsBlocks(r.build.blocks)
    BY <1>12 DEF IsBuild
  <2> QED
    BY <1>12, <1>13, <2>1, <2>2, OtherContainers
<1> QED
  BY <1>9, <1>10, <1>12, <1>14

\* The build after the last k of the containers c have been left.
IsLeft(r, b, c, k) ==
  /\ IsBuild(r) /\ Unheaded(r) /\ OpenAs(r.blocks, SubSeq(c, 1, Len(c) - k))
  /\ k = 0 => r = b
  /\ k > 0 => ~r.current

\* When none is to leave.
LEMMA LeaveNone ==
  ASSUME NEW b, NEW c, IsSeq(c)
  PROVE  Leave(b, c, Len(c)) = b
<1>1. PICK s : s = Reverse(SubSeq(c, Len(c) + 1, Len(c)))
  OBVIOUS
<1>2. DOMAIN s = 1 .. 0
  <2>1. PICK X : c \in Seq(X)
    BY DEF IsSeq
  <2>2. Len(SubSeq(c, Len(c) + 1, Len(c))) = 0
    BY <2>1
  <2> QED
    BY <1>1, <2>2 DEF Reverse
<1>3. PICK g : LeaveSteps(g, b, s, 0) /\ FoldLeft(LeaveOne, b, s) = g[0]
  BY <1>2, LeaveFold
<1> QED
  BY <1>1, <1>3 DEF Leave, LeaveSteps

\* md_leave_child_containers().
LEMMA LeaveIs ==
  ASSUME NEW b, IsBuild(b), Unheaded(b), NEW c, IsContainers(c), OpenAs(b.blocks, c), NEW keep \in Nat, keep <= Len(c)
  PROVE  \E r : r = Leave(b, c, keep) /\ IsLeft(r, b, c, Len(c) - keep)
<1>0. PICK N \in Nat : N = Len(c)
  BY DEF IsContainers, IsSeq
<1>a. N - keep \in Nat
  BY <1>0
<1>1. PICK n \in Nat : n = N - keep
  BY <1>a, Zenon
<1>2. PICK s : s = Reverse(SubSeq(c, keep + 1, Len(c)))
  OBVIOUS
<1>3. DOMAIN s = 1 .. n /\ \A k \in 1 .. n : s[k] = c[N - k + 1]
  <2>1. PICK X : c \in Seq(X)
    BY DEF IsContainers, IsSeq
  <2>2. PICK x : x = SubSeq(c, keep + 1, N)
    OBVIOUS
  <2>3. Len(x) = n /\ \A k \in 1 .. n : x[k] = c[keep + k]
    BY <1>0, <1>1, <2>1, <2>2
  <2>4. s = [k \in 1 .. n |-> x[(n - k) + 1]]
    BY <1>0, <1>2, <2>2, <2>3 DEF Reverse
  <2>5. \A k \in 1 .. n : (n - k) + 1 \in 1 .. n /\ keep + ((n - k) + 1) = N - k + 1
    BY <1>0, <1>1
  <2> QED
    BY <2>3, <2>4, <2>5
<1>f. PICK g : LeaveSteps(g, b, s, n) /\ FoldLeft(LeaveOne, b, s) = g[n]
  BY <1>3, LeaveFold
<1>4. /\ g[0] = b
      /\ \A k \in 1 .. n : g[k] = LeaveOne(g[k-1], s[k])
      /\ FoldLeft(LeaveOne, b, s) = g[n]
  BY <1>f DEF LeaveSteps
<1>sub. \A k \in 0 .. N : /\ IsSeq(SubSeq(c, 1, N - k)) /\ Len(SubSeq(c, 1, N - k)) = N - k
                         /\ \A j \in 1 .. N - k : SubSeq(c, 1, N - k)[j] = c[j]
  <2> TAKE k \in 0 .. N
  <2>a. N - k \in Nat /\ N - k <= Len(c)
    BY <1>0
  <2>1. PICK m \in Nat : m = N - k /\ m <= Len(c)
    BY <2>a, Zenon
  <2> QED
    BY <2>1, SubIs DEF IsContainers
<1>5. IsLeft(g[0], b, c, 0)
  <2>1. PICK a : a = SubSeq(c, 1, N - 0)
    OBVIOUS
  <2>2. Len(a) = N /\ \A j \in 1 .. N : a[j] = c[j]
    BY <1>0, <1>sub, <2>1
  <2>3. SameContainers(c, a, Len(c))
    BY <1>0, <2>2 DEF SameContainers
  <2>4. IsBlocks(b.blocks)
    BY DEF IsBuild
  <2>5. OpenAs(b.blocks, a)
    BY <1>0, <2>2, <2>3, <2>4, OtherContainers
  <2> QED
    BY <1>0, <1>4, <2>1, <2>5 DEF IsLeft
<1> DEFINE Bad == {k \in 0 .. n : ~IsLeft(g[k], b, c, k)}
<1>6. Bad = {}
  <2>1. SUFFICES ASSUME Bad # {} PROVE FALSE
    OBVIOUS
  <2>2. PICK k \in Bad : \A j \in Bad : k <= j
    <3>1. Bad \in SUBSET Nat
      OBVIOUS
    <3> HIDE DEF Bad
    <3> QED
      BY <2>1, <3>1, LeastNat
  <2>3. k # 0
    BY <1>5
  <2>4. k \in 1 .. n /\ k - 1 \in 0 .. n /\ k - 1 \notin Bad
    BY <2>2, <2>3
  <2>5. PICK d : d = g[k-1]
    OBVIOUS
  <2>6. IsLeft(d, b, c, k - 1)
    BY <2>4, <2>5
  <2>7. PICK a, z : a = SubSeq(c, 1, N - (k - 1)) /\ z = SubSeq(c, 1, N - k)
    OBVIOUS
  <2>8. k \in 0 .. N /\ k - 1 \in 0 .. N /\ N - (k - 1) = (N - k) + 1 /\ N - k \in Nat
    BY <1>0, <1>1, <2>4
  <2>9. /\ Len(a) = (N - k) + 1 /\ Len(z) = N - k
        /\ \A j \in 1 .. (N - k) + 1 : a[j] = c[j]
        /\ \A j \in 1 .. N - k : z[j] = c[j]
    BY <1>sub, <2>7, <2>8
  <2>10. Len(a) \in Nat /\ Len(z) \in Nat /\ Len(z) + 1 = Len(a) /\ SameContainers(a, z, Len(z))
         /\ a[Len(a)] = s[k]
    <3>1. (N - k) + 1 \in 1 .. (N - k) + 1 /\ N - k + 1 = (N - k) + 1
      BY <2>8
    <3>2. s[k] = c[(N - k) + 1]
      BY <1>3, <2>4, <3>1
    <3> QED
      BY <2>8, <2>9, <3>1, <3>2 DEF SameContainers
  <2>11. IsBuild(d) /\ Unheaded(d) /\ OpenAs(d.blocks, a)
    BY <1>0, <2>6, <2>7 DEF IsLeft
  <2>12. g[k] = LeaveOne(d, a[Len(a)])
    BY <1>4, <2>4, <2>5, <2>10
  <2>13. PICK r : r = g[k] /\ IsBuild(r) /\ ~r.current /\ OpenAs(r.blocks, z)
    BY <2>10, <2>11, <2>12, LeaveOneIs
  <2>14. IsLeft(g[k], b, c, k)
    BY <1>0, <2>4, <2>7, <2>13 DEF IsLeft, Unheaded
  <2> QED
    BY <2>14
<1>7. IsLeft(g[n], b, c, n)
  <2>1. n \in 0 .. n
    OBVIOUS
  <2> QED
    BY <1>6, <2>1
<1>8. Leave(b, c, keep) = g[n]
  BY <1>2, <1>4 DEF Leave
<1> QED
  BY <1>0, <1>1, <1>7, <1>8

-----------------------------------------------------------------------------
(* The containers a line continues.                                        *)

\* How many of the containers go on.
LEMMA IntoIs ==
  ASSUME NEW i \in Nat, i >= 1, NEW s, "parents" \in DOMAIN s, s.parents \in 0 .. i - 1
  PROVE  \E r : r = Into(s, i) /\ "parents" \in DOMAIN r /\ r.parents \in 0 .. i
<1>1. \/ Into(s, i) = s
      \/ \E inner : Into(s, i) = InQuote(s, inner, i)
      \/ \E x : Into(s, i) = [s EXCEPT !.indent = x, !.parents = i]
  BY Zenon DEF Into
<1>2. CASE Into(s, i) = s
  BY <1>2
<1>3. CASE \E inner : Into(s, i) = InQuote(s, inner, i)
  BY <1>3 DEF InQuote
<1>4. CASE \E x : Into(s, i) = [s EXCEPT !.indent = x, !.parents = i]
  <2>1. PICK r, x : r = Into(s, i) /\ r = [s EXCEPT !.indent = x, !.parents = i]
    BY <1>4
  <2>2. r = Into(s, i) /\ "parents" \in DOMAIN r /\ r.parents = i
    BY <2>1
  <2>3. r.parents \in 0 .. i
    BY <2>2
  <2> QED
    BY <2>2, <2>3, Zenon
<1> QED
  BY <1>1, <1>2, <1>3, <1>4

\* A line without contents is in no more than there are.
LEMMA InListsIs ==
  ASSUME NEW n \in Nat, n = Len(containers), NEW f, "parents" \in DOMAIN f, f.parents \in 0 .. n
  PROVE  InLists(f).parents \in 0 .. n
<1> DEFINE lists == {m \in f.parents .. Len(containers) : \A i \in f.parents + 1 .. m : containers[i].ch # ">"}
<1>1. f.parents \in lists /\ lists \in SUBSET (0 .. n)
  OBVIOUS
<1>2. InLists(f) = f \/ InLists(f) = [f EXCEPT !.parents = Max(lists)]
  BY Zenon DEF InLists
<1> HIDE DEF lists
<1>3. Max(lists) \in 0 .. n
  BY <1>1, MaxIs
<1> QED
  BY <1>2, <1>3

\* So much is true of what md_analyze_line() finds at first.
LEMMA DescendIs ==
  ASSUME NEW n \in Nat, n = Len(containers), DOMAIN containers = 1 .. n, NEW p
  PROVE  Descend(p).parents \in 0 .. n
<1>1. PICK s : s = [i \in DOMAIN containers |-> i]
  OBVIOUS
<1>2. PICK margin : margin = Indentation(0, p)
  OBVIOUS
<1>3. PICK first : first = [off |-> margin.end, total |-> margin.columns, indent |-> margin.columns, parents |-> 0]
  OBVIOUS
<1>4. DOMAIN s = 1 .. n /\ \A k \in 1 .. n : s[k] = k
  BY <1>1
<1>5. PICK g : IntoSteps(g, first, s, n) /\ FoldLeft(Into, first, s) = g[n]
  BY <1>4, IntoFold
<1>6. g[0] = first /\ \A k \in 1 .. n : g[k] = Into(g[k-1], s[k])
  BY <1>5 DEF IntoSteps
<1> DEFINE Good(k) == "parents" \in DOMAIN g[k] /\ g[k].parents \in 0 .. k
           Bad == {k \in 0 .. n : ~Good(k)}
<1>7. Bad = {}
  <2>1. SUFFICES ASSUME Bad # {} PROVE FALSE
    OBVIOUS
  <2>2. PICK k \in Bad : \A j \in Bad : k <= j
    <3>1. Bad \in SUBSET Nat
      OBVIOUS
    <3> HIDE DEF Bad
    <3> QED
      BY <2>1, <3>1, LeastNat
  <2>3. k # 0
    BY <1>3, <1>6
  <2>4. k \in 1 .. n /\ k - 1 \in 0 .. n /\ k - 1 \notin Bad
    BY <2>2, <2>3
  <2>5. PICK d : d = g[k-1]
    OBVIOUS
  <2>6. "parents" \in DOMAIN d /\ d.parents \in 0 .. k - 1
    BY <2>4, <2>5
  <2>7. g[k] = Into(d, k)
    BY <1>4, <1>6, <2>4, <2>5
  <2>8. k \in Nat /\ k >= 1
    BY <2>4
  <2>9. Good(k)
    BY <2>6, <2>7, <2>8, IntoIs
  <2> QED
    BY <2>9
<1>8. Good(n)
  BY <1>7
<1>9. Descend(p) = InLists(g[n])
  BY <1>1, <1>2, <1>3, <1>5, Zenon DEF Descend, DescendFrom
<1> QED
  BY <1>8, <1>9, InListsIs

-----------------------------------------------------------------------------
(* The operations of the build: lines and leaves.                          *)

\* A leaf more.
LEMMA KeepsMore ==
  ASSUME NEW s, NEW t, IsBlocks(s), NEW type, More(s, t, "leaf", type)
  PROVE  Keeps(s, t)
<1>1. PICK m \in Nat : m = Len(s)
  BY DEF IsBlocks, IsSeq
<1>2. Len(t) = m + 1 /\ SameTree(s, t, m) /\ t[Len(t)].what = "leaf"
  BY <1>1 DEF More
<1>3. Unclosed(t) = StillOpen(Unclosed(s), Len(t), t)
  BY <1>1, <1>2, UnclosedNext
<1>4. Unclosed(t) = Unclosed(s)
  BY <1>2, <1>3 DEF StillOpen
<1>5. Unclosed(s) \in Seq(Inner(s, m))
  BY <1>1, UnclosedIs
<1> SUFFICES ASSUME NEW c, Len(c) \in Nat, OpenAs(s, c)
             PROVE  OpenAs(t, c)
  BY DEF Keeps
<1>6. PICK n \in Nat : n = Len(c)
  OBVIOUS
<1>7. PICK o : o = Unclosed(s)
  OBVIOUS
<1>8. Len(o) + 1 = Places(c)[n + 1] /\ AllPlaced(s, o, c, n)
  BY <1>6, <1>7, OpenAsIs
<1>9. SameOpen(s, o, t, o, Len(o))
  <2>1. \A i \in 1 .. Len(o) : o[i] \in Inner(s, m)
    BY <1>5, <1>7
  <2> QED
    BY <1>2, <2>1 DEF SameOpen, SameTree, Inner
<1>10. SameOpenTo(s, o, t, o, c, n)
  <2>1. Places(c)[n + 1] - 1 = Len(o)
    BY <1>5, <1>7, <1>8
  <2> QED
    BY <1>9, <2>1 DEF SameOpenTo
<1>11. SameContainers(c, c, n) /\ Within(n, c, c)
  BY <1>6 DEF SameContainers, Within
<1>12. AllPlaced(s, o, c, n)
  BY <1>8
<1>13. AllPlaced(t, o, c, n)
  BY <1>10, <1>11, <1>12, StillPlaced
<1> QED
  BY <1>4, <1>6, <1>7, <1>8, <1>13, OpenAsIs

\* Keeping is transitive.
LEMMA KeepsOn ==
  ASSUME NEW s, NEW t, NEW u, Keeps(s, t), Keeps(t, u)
  PROVE  Keeps(s, u)
BY DEF Keeps

\* The last block changes, and remains a leaf.
LEMMA LastChange ==
  ASSUME NEW b, IsBuild(b), b.current, NEW x, IsBlock(x), x.what = "leaf",
         NEW r, "blocks" \in DOMAIN r, "current" \in DOMAIN r, "defs" \in DOMAIN r, r.current = b.current,
         IsChange(r.blocks, b.blocks, Len(b.blocks), x)
  PROVE  IsBuild(r) /\ Keeps(b.blocks, r.blocks) /\ Last(r.blocks) = x
<1>1. PICK s, t : s = b.blocks /\ t = r.blocks
  OBVIOUS
<1>2. IsBlocks(s) /\ s # <<>> /\ Last(s).what = "leaf"
  BY <1>1 DEF IsBuild
<1>3. Len(s) \in Nat /\ Len(s) >= 1 /\ Last(s) = s[Len(s)] /\ IsSeq(s)
  BY <1>2, LastIs DEF IsBlocks
<1>4. IsSeq(t) /\ Len(t) = Len(s) /\ t[Len(s)] = x /\ \A i \in 1 .. Len(s) : i # Len(s) => t[i] = s[i]
  <2>1. IsChange(t, s, Len(s), x) /\ Len(s) \in 1 .. Len(s)
    BY <1>1, <1>3
  <2> QED
    BY <1>3, <2>1, ChangeIs
<1>5. IsBlocks(t)
  BY <1>2, <1>4 DEF IsBlocks
<1>6. SameTree(s, t, Len(s))
  BY <1>2, <1>3, <1>4 DEF SameTree
<1>7. Keeps(s, t)
  BY <1>2, <1>4, <1>6, KeepsSame
<1>8. t # <<>> /\ Last(t) = x
  <2>1. t # <<>>
    BY <1>3, <1>4
  <2> QED
    BY <1>4, <2>1, LastIs
<1> QED
  BY <1>1, <1>5, <1>7, <1>8 DEF IsBuild

\* The block under construction is the last leaf.
LEMMA LastLeaf ==
  ASSUME NEW b, IsBuild(b), b.current, NEW n, NEW e, n = Len(b.blocks), e = b.blocks[n]
  PROVE  IsBlock(e) /\ e.what = "leaf" /\ e = Last(b.blocks) /\ n \in Nat /\ n >= 1 /\ IsSeq(b.blocks)
<1>1. IsSeq(b.blocks) /\ b.blocks # <<>> /\ Last(b.blocks).what = "leaf"
  BY DEF IsBuild, IsBlocks
<1>2. n \in Nat /\ n >= 1 /\ e = Last(b.blocks)
  BY <1>1, LastIs
<1>3. n \in 1 .. Len(b.blocks)
  BY <1>2
<1>4. IsBlock(e)
  BY <1>3 DEF IsBuild, IsBlocks
<1> QED
  BY <1>1, <1>2, <1>4

\* md_start_new_block().
LEMMA StartBlockIs ==
  ASSUME NEW b, IsBuild(b), NEW l
  PROVE  \E r : /\ r = StartBlock(b, l) /\ IsBuild(r) /\ r.current /\ Keeps(b.blocks, r.blocks)
                /\ Last(r.blocks).type = BlockType(l.type)
                /\ "setext" \in DOMAIN Last(r.blocks) /\ Last(r.blocks).setext = FALSE
<1>1. PICK x : x = [what |-> "leaf", type |-> BlockType(l.type), data |-> l.data, setext |-> FALSE, lines |-> <<>>]
  OBVIOUS
<1>2. IsBlock(x) /\ x.what = "leaf" /\ x.type = BlockType(l.type) /\ x.setext = FALSE /\ "setext" \in DOMAIN x
  BY <1>1 DEF IsBlock
<1>3. PICK s : s = b.blocks
  OBVIOUS
<1>4. PICK t : t = Append(s, x)
  OBVIOUS
<1>5. PICK r : r = [b EXCEPT !.current = TRUE, !.blocks = t]
  OBVIOUS
<1>6. r = StartBlock(b, l)
  BY <1>1, <1>3, <1>4, <1>5 DEF StartBlock
<1>7. /\ r.blocks = t /\ r.current = TRUE
      /\ "blocks" \in DOMAIN r /\ "current" \in DOMAIN r /\ "defs" \in DOMAIN r
  BY <1>5 DEF IsBuild
<1>8. IsBlocks(s)
  BY <1>3 DEF IsBuild
<1>9. IsSeq(t) /\ Len(s) \in Nat /\ Len(t) = Len(s) + 1 /\ t[Len(s) + 1] = x /\ \A i \in 1 .. Len(s) : t[i] = s[i]
  BY <1>4, <1>8, AppendIs DEF IsBlocks
<1>10. IsBlocks(t)
  BY <1>2, <1>8, <1>9 DEF IsBlocks
<1>11. More(s, t, "leaf", BlockType(l.type))
  BY <1>2, <1>9 DEF More, SameTree
<1>12. Keeps(s, t)
  BY <1>8, <1>11, KeepsMore
<1>13. t # <<>> /\ Last(t) = x
  <2>1. t # <<>>
    BY <1>9
  <2> QED
    BY <1>9, <2>1, LastIs
<1>14. IsBuild(r)
  BY <1>2, <1>7, <1>10, <1>13 DEF IsBuild
<1> QED
  BY <1>2, <1>3, <1>6, <1>7, <1>12, <1>13, <1>14

\* md_add_line_into_current_block().
LEMMA AddLineIs ==
  ASSUME NEW b, IsBuild(b), b.current, NEW l
  PROVE  \E r : /\ r = AddLine(b, l) /\ IsBuild(r) /\ r.current /\ Keeps(b.blocks, r.blocks)
                /\ Last(r.blocks).type = Last(b.blocks).type
                /\ "setext" \in DOMAIN Last(b.blocks) => Last(r.blocks).setext = Last(b.blocks).setext
<1>1. PICK n, e : n = Len(b.blocks) /\ e = b.blocks[n]
  OBVIOUS
<1>2. IsBlock(e) /\ e.what = "leaf" /\ e = Last(b.blocks)
  BY <1>1, LastLeaf
<1>3. PICK v : v = Append(e.lines, [beg |-> l.beg, end |-> l.end, indent |-> l.indent])
  OBVIOUS
<1>4. PICK x : x = [e EXCEPT !.lines = v]
  OBVIOUS
<1>5. /\ IsBlock(x) /\ x.what = "leaf" /\ x.type = e.type
      /\ "setext" \in DOMAIN e => x.setext = e.setext
  BY <1>2, <1>4 DEF IsBlock
<1>6. PICK t : t = [b.blocks EXCEPT ![n] = x]
  OBVIOUS
<1>7. PICK r : r = [b EXCEPT !.blocks = t]
  OBVIOUS
<1>8. r = AddLine(b, l)
  BY <1>1, <1>3, <1>4, <1>6, <1>7 DEF AddLine
<1>9. /\ r.blocks = t /\ r.current = b.current
      /\ "blocks" \in DOMAIN r /\ "current" \in DOMAIN r /\ "defs" \in DOMAIN r
  BY <1>7 DEF IsBuild
<1>10. IsChange(r.blocks, b.blocks, Len(b.blocks), x)
  BY <1>1, <1>6, <1>9 DEF IsChange
<1>11. IsBuild(r) /\ Keeps(b.blocks, r.blocks) /\ Last(r.blocks) = x
  BY <1>5, <1>9, <1>10, LastChange
<1> QED
  BY <1>2, <1>5, <1>8, <1>9, <1>11

\* The underline of a heading or of a table changes what the block is.
LEMMA UnderlinedIs ==
  ASSUME NEW b, IsBuild(b), b.current, NEW type
  PROVE  \E r : /\ r = Underlined(b, type) /\ IsBuild(r) /\ r.current /\ Keeps(b.blocks, r.blocks)
                /\ Last(r.blocks).type = type
<1>1. PICK n, e : n = Len(b.blocks) /\ e = b.blocks[n]
  OBVIOUS
<1>2. IsBlock(e) /\ e.what = "leaf" /\ e = Last(b.blocks) /\ n \in Nat /\ n >= 1 /\ IsSeq(b.blocks)
  BY <1>1, LastLeaf
<1>3. PICK v : v = (type = "h")
  OBVIOUS
<1>4. PICK x : x = [e EXCEPT !.type = type, !.data = line.data, !.setext = v]
  OBVIOUS
<1>5. IsBlock(x) /\ x.what = "leaf" /\ x.type = type
  BY <1>2, <1>4 DEF IsBlock
<1>6. PICK t : t = [b.blocks EXCEPT ![n] = x]
  OBVIOUS
<1>7. PICK r : r = [b EXCEPT !.blocks = t]
  OBVIOUS
<1>8. r = Underlined(b, type)
  <2>1. "blocks" \in DOMAIN b /\ n \in DOMAIN b.blocks
    BY <1>1, <1>2 DEF IsBuild, IsSeq
  <2>2. PICK u : u = Underlined(b, type)
    OBVIOUS
  <2>3. u = [b EXCEPT !.blocks[n].type = type, !.blocks[n].data = line.data, !.blocks[n].setext = v]
    BY <1>1, <1>3, <2>2, Zenon DEF Underlined
  <2>4. u = [b EXCEPT !.blocks = [[[b.blocks EXCEPT ![n].type = type] EXCEPT ![n].data = line.data]
                                              EXCEPT ![n].setext = v]]
    BY <2>1, <2>3
  <2>5. t = [[[b.blocks EXCEPT ![n].type = type] EXCEPT ![n].data = line.data] EXCEPT ![n].setext = v]
    BY <1>1, <1>4, <1>6, <2>1
  <2> QED
    BY <1>7, <2>2, <2>4, <2>5
<1>9. /\ r.blocks = t /\ r.current = b.current
      /\ "blocks" \in DOMAIN r /\ "current" \in DOMAIN r /\ "defs" \in DOMAIN r
  BY <1>7 DEF IsBuild
<1>10. IsChange(r.blocks, b.blocks, Len(b.blocks), x)
  BY <1>1, <1>6, <1>9 DEF IsChange
<1>11. IsBuild(r) /\ Keeps(b.blocks, r.blocks) /\ Last(r.blocks) = x
  BY <1>5, <1>9, <1>10, LastChange
<1> QED
  BY <1>5, <1>8, <1>9, <1>11

\* A list turns out to be loose.
LEMMA LoosenedIs ==
  ASSUME NEW b, IsBuild(b), NEW c
  PROVE  \E r : /\ r = Loosened(b, c) /\ IsBuild(r) /\ r.current = b.current /\ Keeps(b.blocks, r.blocks)
                /\ b.current => Last(r.blocks).type = Last(b.blocks).type
<1>1. PICK n, e, s : n = c.opener /\ s = b.blocks /\ e = s[n]
  OBVIOUS
<1>2. PICK x : x = [e EXCEPT !.loose = TRUE]
  OBVIOUS
<1>3. PICK t : t = [s EXCEPT ![n] = x]
  OBVIOUS
<1>4. PICK r : r = [b EXCEPT !.blocks = t]
  OBVIOUS
<1>5. r = Loosened(b, c)
  BY <1>1, <1>2, <1>3, <1>4 DEF Loosened
<1>6. /\ r.blocks = t /\ r.current = b.current
      /\ "blocks" \in DOMAIN r /\ "current" \in DOMAIN r /\ "defs" \in DOMAIN r
  BY <1>4 DEF IsBuild
<1>7. IsBlocks(s) /\ IsChange(t, s, n, x)
  BY <1>1, <1>3 DEF IsBuild, IsChange
<1>8. /\ IsSeq(t) /\ Len(t) = Len(s) /\ Len(s) \in Nat /\ (n \in 1 .. Len(s) => t[n] = x)
      /\ \A i \in 1 .. Len(s) : i # n => t[i] = s[i]
  BY <1>7, ChangeIs DEF IsBlocks
<1>9. \A i \in 1 .. Len(s) : IsBlock(t[i]) /\ t[i].what = s[i].what /\ t[i].type = s[i].type
  <2> TAKE i \in 1 .. Len(s)
  <2>1. CASE i # n
    BY <1>7, <1>8, <2>1 DEF IsBlocks
  <2>2. CASE i = n
    <3>1. IsBlock(e)
      BY <1>1, <1>7, <2>2 DEF IsBlocks
    <3>2. IsBlock(x) /\ x.what = e.what /\ x.type = e.type
      BY <1>2, <3>1 DEF IsBlock
    <3> QED
      BY <1>1, <1>8, <2>2, <3>2
  <2> QED
    BY <2>1, <2>2
<1>10. IsBlocks(t) /\ SameTree(s, t, Len(s))
  BY <1>8, <1>9 DEF IsBlocks, SameTree
<1>11. Keeps(s, t)
  BY <1>7, <1>8, <1>10, KeepsSame
<1>12. s # <<>> => /\ t # <<>> /\ Last(t).type = Last(s).type /\ Last(t).what = Last(s).what
  <2> SUFFICES ASSUME s # <<>>
               PROVE  t # <<>> /\ Last(t).type = Last(s).type /\ Last(t).what = Last(s).what
    OBVIOUS
  <2>1. Len(s) >= 1 /\ Last(s) = s[Len(s)]
    BY <1>7, LastIs DEF IsBlocks
  <2>2. t # <<>>
    BY <1>8, <2>1
  <2>3. Last(t) = t[Len(s)]
    BY <1>8, <2>2, LastIs
  <2>4. Len(s) \in 1 .. Len(s)
    BY <1>8, <2>1
  <2> QED
    BY <1>9, <2>1, <2>2, <2>3, <2>4
<1> QED
  BY <1>1, <1>5, <1>6, <1>10, <1>11, <1>12 DEF IsBuild

-----------------------------------------------------------------------------
(* Sequences of containers.                                                *)

\* What is open tells of the first m containers.
LEMMA PrefixOpen ==
  ASSUME NEW s, IsBlocks(s), NEW c, IsContainers(c), NEW d, IsContainers(d),
         NEW m \in Nat, m <= Len(c), m <= Len(d), SameContainers(c, d, m),
         OpenAs(s, SubSeq(c, 1, m))
  PROVE  OpenAs(s, SubSeq(d, 1, m))
<1>1. PICK x, y : x = SubSeq(c, 1, m) /\ y = SubSeq(d, 1, m)
  OBVIOUS
<1>2. Len(x) = m /\ \A i \in 1 .. m : x[i] = c[i]
  BY <1>1, SubIs DEF IsContainers
<1>3. Len(y) = m /\ \A i \in 1 .. m : y[i] = d[i]
  BY <1>1, SubIs DEF IsContainers
<1>4. SameContainers(x, y, Len(x)) /\ Len(x) \in Nat /\ Len(y) = Len(x)
  BY <1>2, <1>3 DEF SameContainers
<1> QED
  BY <1>1, <1>4, OtherContainers

\* All of the containers are their first Len(c).
LEMMA WholeOpen ==
  ASSUME NEW s, IsBlocks(s), NEW c, IsContainers(c), NEW m, m = Len(c)
  PROVE  OpenAs(s, c) <=> OpenAs(s, SubSeq(c, 1, m))
<1>1. PICK x : x = SubSeq(c, 1, m)
  OBVIOUS
<1>2. m \in Nat /\ m <= Len(c)
  BY DEF IsContainers, IsSeq
<1>3. Len(x) = m /\ \A i \in 1 .. m : x[i] = c[i]
  BY <1>1, <1>2, SubIs DEF IsContainers
<1>4. SameContainers(x, c, Len(x)) /\ SameContainers(c, x, Len(c)) /\ Len(x) \in Nat /\ Len(x) = Len(c)
  BY <1>2, <1>3 DEF SameContainers
<1> QED
  BY <1>1, <1>4, OtherContainers

\* The first m containers.
LEMMA SubContainers ==
  ASSUME NEW c, IsContainers(c), NEW m \in Nat, m <= Len(c), NEW d, d = SubSeq(c, 1, m)
  PROVE  IsContainers(d) /\ Len(d) = m /\ (\A i \in 1 .. m : d[i] = c[i]) /\ SameContainers(c, d, m)
<1>1. IsSeq(c) /\ Len(c) \in Nat
  BY DEF IsContainers, IsSeq
<1>2. IsSeq(d) /\ Len(d) = m /\ (\A i \in 1 .. m : d[i] = c[i])
  BY <1>1, SubIs
<1> QED
  BY <1>1, <1>2 DEF IsContainers, SameContainers

\* A container changes, but neither its mark nor its opener.
LEMMA ContainersChange ==
  ASSUME NEW c, IsContainers(c), NEW i \in 1 .. Len(c), NEW x, NEW d, IsChange(d, c, i, x),
         "ch" \in DOMAIN x, "opener" \in DOMAIN x, x.ch = c[i].ch, x.opener = c[i].opener
  PROVE  IsContainers(d) /\ Len(d) = Len(c) /\ SameContainers(c, d, Len(c)) /\ \A k \in 1 .. Len(c) : c[k].ch = d[k].ch
<1>1. IsSeq(d) /\ Len(d) = Len(c) /\ d[i] = x /\ \A k \in 1 .. Len(c) : k # i => d[k] = c[k]
  BY ChangeIs DEF IsContainers
<1> QED
  BY <1>1 DEF IsContainers, SameContainers

-----------------------------------------------------------------------------
(* The inductive invariant.                                                *)

\* The types a pivot has, and those of the lines that change the last block.
PivotTypes == {"blank", "text", "table", "fenced", "indented", "html"}
Underlines == {"setext", "underline"}

\* The pivot is of the block under construction.
PivotFits(b, p) ==
  /\ "type" \in DOMAIN p /\ p.type \in PivotTypes
  /\ b.current => Last(b.blocks).type = BlockType(p.type)

\* The state between two lines.
Sound(b, c, p) == IsBuild(b) /\ IsContainers(c) /\ PivotFits(b, p)

\* What md_analyze_line() has found of the containers.
HasFields(l) ==
  /\ "type" \in DOMAIN l /\ "parents" \in DOMAIN l /\ "brothers" \in DOMAIN l
  /\ "children" \in DOMAIN l /\ "pivot" \in DOMAIN l
IsLine(l, c, b) ==
  /\ HasFields(l)
  /\ l.parents \in Nat /\ l.brothers \in {0, 1} /\ l.children \in Nat
  /\ l.parents + l.brothers + l.children <= Len(c)
  /\ l.children > 0 => l.parents + l.brothers + l.children = Len(c)
  /\ l.brothers = 1 => c[l.parents + 1].ch # ">"
  /\ OpenAs(b.blocks, SubSeq(c, 1, Len(c) - l.children))

\* The invariant, step by step: before the line, while its containers are
\* looked for, when its type is known, when its container bytes are written.
InLine(b, c, p) == Sound(b, c, p) /\ (b.current \/ p.type = "blank") /\ OpenAs(b.blocks, c)
InRules(l, b, c, p) ==
  /\ Sound(b, c, p) /\ IsLine(l, c, b)
  /\ l.pivot = Dummy \/ (l.pivot = p /\ l.brothers = 0 /\ l.children = 0)
  /\ l.children = 0 => b.current \/ p.type = "blank"
InTail(l, b, c, p) ==
  /\ Sound(b, c, p) /\ IsLine(l, c, b)
  /\ l.type \in Underlines => b.current /\ l.parents = Len(c) /\ l.brothers = 0 /\ l.children = 0
InAdd(l, b, c, p) ==
  /\ Sound(b, c, p) /\ OpenAs(b.blocks, c)
  /\ l.type \in Underlines => b.current

BlocksInv ==
  /\ pc = "line" => InLine(build, containers, pivot)
  /\ pc = "rules" => InRules(line, build, containers, pivot)
  /\ pc = "tail" => InTail(line, build, containers, pivot)
  /\ pc = "add" => InAdd(line, build, containers, pivot)

\* No line continues a heading.
LEMMA FitsUnheaded ==
  ASSUME NEW b, NEW p, PivotFits(b, p)
  PROVE  Unheaded(b)
BY DEF PivotFits, Unheaded, BlockType, PivotTypes

\* The type of the dummy line.
LEMMA DummyIs == "type" \in DOMAIN Dummy /\ Dummy.type = "blank"
BY DEF Dummy

\* The first look at a line finds containers that are open.
LEMMA BeginLineStep ==
  ASSUME BlocksInv, BeginLine
  PROVE  BlocksInv'
<1>1. pc' = "rules" /\ InLine(build, containers, pivot) /\ UNCHANGED <<pivot, containers, build>>
  BY DEF BeginLine, BlocksInv
<1>2. PICK d, none, len :
        /\ d = Descend(pos)
        /\ line' = [type |-> "none", off |-> d.off, beg |-> d.off, end |-> 0, indent |-> d.indent,
                    total |-> d.total, data |-> 0, parents |-> d.parents, brothers |-> 0, children |-> 0,
                    killer |-> 0, pivot |-> pivot, task |-> none, enforce |-> FALSE, loosening |-> len]
  BY Zenon DEF BeginLine
<1>3. PICK n \in Nat : n = Len(containers)
  BY <1>1 DEF InLine, Sound, IsContainers, IsSeq
<1>4. DOMAIN containers = 1 .. n
  BY <1>1, <1>3 DEF InLine, Sound, IsContainers, IsSeq
<1>5. d.parents \in 0 .. n
  BY <1>2, <1>3, <1>4, DescendIs
<1>6. /\ HasFields(line') /\ line'.parents = d.parents /\ line'.brothers = 0 /\ line'.children = 0
      /\ line'.pivot = pivot
  BY <1>2 DEF HasFields
<1>7. OpenAs(build.blocks, SubSeq(containers, 1, n))
  BY <1>1, <1>3, WholeOpen DEF InLine, Sound, IsBuild
<1>8. IsLine(line', containers, build)
  <2>1. n - line'.children = n
    BY <1>6
  <2> QED
    BY <1>3, <1>5, <1>6, <1>7, <2>1 DEF IsLine
<1>9. InRules(line', build, containers, pivot)
  BY <1>1, <1>6, <1>8 DEF InRules, InLine
<1> QED
  BY <1>1, <1>9 DEF BlocksInv

-----------------------------------------------------------------------------
(* The rules of md_analyze_line().                                         *)

\* What the rules that change the containers or the block ask for.
LEMMA RuleIs ==
  /\ Rule \in {"setext", "table underline"} => After("text") /\ AllParents
  /\ Rule = "brother" => ~AllParents /\ Fresh /\ Compatible(containers[line.parents + 1], Mark)
BY DEF Rule, MarkRule, LeafRule

\* A line goes on with what it has found of the containers.
LEMMA LineGoesOn ==
  ASSUME NEW k, NEW l, NEW c, NEW b, IsLine(l, c, b), HasFields(k),
         k.parents = l.parents, k.brothers = l.brothers, k.children = l.children
  PROVE  IsLine(k, c, b)
BY DEF IsLine

\* A rule settles the type of the line, and leaves the containers alone.
LEMMA SettledStep ==
  ASSUME BlocksInv, pc = "rules", NEW changes, Settle(changes), UNCHANGED <<containers, build>>,
         "type" \in DOMAIN changes, "parents" \notin DOMAIN changes, "brothers" \notin DOMAIN changes,
         "children" \notin DOMAIN changes, "pivot" \notin DOMAIN changes,
         changes.type \in Underlines => After("text") /\ AllParents
  PROVE  BlocksInv'
<1>1. InRules(line, build, containers, pivot)
  BY DEF BlocksInv
<1>2. pc' = "tail" /\ UNCHANGED <<pivot, containers, build>> /\ line' = [f \in DOMAIN line |-> IF f \in DOMAIN changes THEN changes[f] ELSE line[f]]
  BY DEF Settle
<1>3. /\ HasFields(line') /\ line'.parents = line.parents /\ line'.brothers = line.brothers
      /\ line'.children = line.children /\ line'.type = changes.type
  BY <1>1, <1>2 DEF InRules, IsLine, HasFields
<1>4. IsLine(line', containers, build)
  BY <1>1, <1>3, LineGoesOn DEF InRules
<1>5. line'.type \in Underlines => /\ build.current /\ line'.parents = Len(containers)
                                   /\ line'.brothers = 0 /\ line'.children = 0
  <2> SUFFICES ASSUME line'.type \in Underlines
               PROVE  /\ build.current /\ line'.parents = Len(containers)
                      /\ line'.brothers = 0 /\ line'.children = 0
    OBVIOUS
  <2>1. line.pivot.type = "text" /\ line.parents = Len(containers)
    BY <1>3 DEF After, AllParents, n_containers
  <2>2. line.pivot = pivot /\ line.brothers = 0 /\ line.children = 0
    BY <1>1, <2>1, DummyIs DEF InRules
  <2>3. build.current
    BY <1>1, <2>1, <2>2 DEF InRules
  <2> QED
    BY <1>3, <2>1, <2>2, <2>3
<1>6. InTail(line', build, containers, pivot)
  BY <1>1, <1>4, <1>5 DEF InTail, InRules
<1> QED
  BY <1>2, <1>6 DEF BlocksInv

\* The rules that settle the type of a line and change nothing of the blocks.
LEMMA LeafStep ==
  ASSUME BlocksInv,
         \/ ContinueFence \/ CloseFence \/ ContinueHtml \/ BlankLine \/ SetextLine \/ HrLine
         \/ TableLine \/ AtxLine \/ TableUnderlineLine \/ IndentedLine \/ OpenFence \/ OpenHtml
  PROVE  BlocksInv'
<1> DEFINE Suits(changes) ==
             /\ pc = "rules" /\ Settle(changes) /\ UNCHANGED <<containers, build>>
             /\ "type" \in DOMAIN changes /\ "parents" \notin DOMAIN changes
             /\ "brothers" \notin DOMAIN changes /\ "children" \notin DOMAIN changes
             /\ "pivot" \notin DOMAIN changes
             /\ changes.type \in Underlines => After("text") /\ AllParents
<1>0. ASSUME NEW changes, Suits(changes) PROVE BlocksInv'
  BY <1>0, SettledStep
<1>1. CASE ContinueFence
  <2>1. PICK o, i : pc = "rules" /\ Settle([type |-> "fenced", off |-> o, indent |-> i])
                    /\ UNCHANGED <<containers, build>>
    BY <1>1, Zenon DEF ContinueFence
  <2>2. PICK c : c = [type |-> "fenced", off |-> o, indent |-> i]
    OBVIOUS
  <2>3. Suits(c)
    BY <2>1, <2>2 DEF Underlines
  <2> QED
    BY <1>0, <2>3
<1>2. CASE CloseFence
  <2>1. PICK o : pc = "rules" /\ Settle([type |-> "blank", off |-> o]) /\ UNCHANGED <<containers, build>>
    BY <1>2, Zenon DEF CloseFence
  <2>2. PICK c : c = [type |-> "blank", off |-> o]
    OBVIOUS
  <2>3. Suits(c)
    BY <2>1, <2>2 DEF Underlines
  <2> QED
    BY <1>0, <2>3
<1>3. CASE ContinueHtml
  <2>1. PICK c : /\ pc = "rules" /\ Settle(c) /\ UNCHANGED <<containers, build>>
                 /\ c \in {[type |-> "blank", indent |-> 0], [type |-> "html"]}
    BY <1>3, Zenon DEF ContinueHtml
  <2>2. Suits(c)
    BY <2>1 DEF Underlines
  <2> QED
    BY <1>0, <2>2
<1>4. CASE BlankLine
  <2>1. PICK i, c : /\ pc = "rules" /\ Settle(c) /\ UNCHANGED <<containers, build>>
                    /\ c \in {[type |-> "indented", indent |-> i], [type |-> "blank"]}
    BY <1>4, Zenon DEF BlankLine
  <2>2. Suits(c)
    BY <2>1 DEF Underlines
  <2> QED
    BY <1>0, <2>2
<1>5. ASSUME NEW type, NEW off, NEW beg, NEW data, pc = "rules", Leaf(type, off, beg, data),
             type \in Underlines => After("text") /\ AllParents
      PROVE  BlocksInv'
  <2>1. PICK c : c = [type |-> type, off |-> off, beg |-> beg, data |-> data]
    OBVIOUS
  <2>2. Settle(c) /\ UNCHANGED <<containers, build>>
    BY <1>5, <2>1 DEF Leaf
  <2>3. Suits(c)
    BY <1>5, <2>1, <2>2
  <2> QED
    BY <1>0, <2>3
<1>6. CASE SetextLine \/ TableUnderlineLine
  <2>1. After("text") /\ AllParents
    BY <1>6, RuleIs DEF SetextLine, TableUnderlineLine
  <2>2. PICK type, off, beg, data : pc = "rules" /\ Leaf(type, off, beg, data)
    BY <1>6, Zenon DEF SetextLine, TableUnderlineLine
  <2> QED
    BY <1>5, <2>1, <2>2
<1>7. CASE HrLine \/ TableLine \/ AtxLine
  <2>1. PICK type, off, beg, data : type \in {"hr", "table", "atx"} /\ pc = "rules" /\ Leaf(type, off, beg, data)
    BY <1>7, Zenon DEF HrLine, TableLine, AtxLine
  <2>2. type \notin Underlines
    BY <2>1 DEF Underlines
  <2> QED
    BY <1>5, <2>1, <2>2
<1>8. CASE IndentedLine
  <2>1. PICK c, i : /\ c = [type |-> "indented", indent |-> i, data |-> 0]
                    /\ pc = "rules" /\ Settle(c) /\ UNCHANGED <<containers, build>>
    BY <1>8, Zenon DEF IndentedLine
  <2>2. Suits(c)
    BY <2>1 DEF Underlines
  <2> QED
    BY <1>0, <2>2
<1>9. CASE OpenFence
  <2>1. PICK c : /\ c = [type |-> "fenced", data |-> 1, enforce |-> TRUE]
                 /\ pc = "rules" /\ Settle(c) /\ UNCHANGED <<containers, build>>
    BY <1>9, Zenon DEF OpenFence
  <2>2. Suits(c)
    BY <2>1 DEF Underlines
  <2> QED
    BY <1>0, <2>2
<1>10. CASE OpenHtml
  <2>1. PICK c : /\ c = [type |-> "html", enforce |-> TRUE]
                 /\ pc = "rules" /\ Settle(c) /\ UNCHANGED <<containers, build>>
    BY <1>10, Zenon DEF OpenHtml
  <2>2. Suits(c)
    BY <2>1 DEF Underlines
  <2> QED
    BY <1>0, <2>2
<1> QED
  BY <1>1, <1>2, <1>3, <1>4, <1>6, <1>7, <1>8, <1>9, <1>10

\* The rules after which md_analyze_line() looks at the line again.
LEMMA RetryStep ==
  ASSUME BlocksInv, LeaveFence \/ LeaveHtml \/ LeaveEmptyItem
  PROVE  BlocksInv'
<1>1. InRules(line, build, containers, pivot) /\ pc' = "rules" /\ UNCHANGED <<pivot, containers, build>>
  BY DEF BlocksInv, LeaveFence, LeaveHtml, LeaveEmptyItem
<1>2. HasFields(line)
  BY <1>1 DEF InRules, IsLine
<1>3. CASE LeaveFence
  <2>1. PICK o : line' = [line EXCEPT !.off = o, !.pivot = Dummy]
    BY <1>3, Zenon DEF LeaveFence
  <2>2. /\ HasFields(line') /\ line'.parents = line.parents /\ line'.brothers = line.brothers
        /\ line'.children = line.children /\ line'.pivot = Dummy
    BY <1>2, <2>1 DEF HasFields
  <2>3. IsLine(line', containers, build)
    BY <1>1, <2>2, LineGoesOn DEF InRules
  <2>4. InRules(line', build, containers, pivot)
    BY <1>1, <2>2, <2>3 DEF InRules
  <2> QED
    BY <1>1, <2>4 DEF BlocksInv
<1>4. CASE LeaveHtml \/ (LeaveEmptyItem /\ UNCHANGED line)
  <2>1. UNCHANGED line
    BY <1>4 DEF LeaveHtml
  <2> QED
    BY <1>1, <2>1 DEF BlocksInv
<1>5. CASE LeaveEmptyItem /\ line' # line
  <2>1. PICK i : line' = [line EXCEPT !.parents = @ - 1, !.indent = i] /\ InList /\ Fresh
    BY <1>5, Zenon DEF LeaveEmptyItem
  <2>2. line.parents \in Nat /\ line.brothers \in {0, 1} /\ line.children \in Nat
    BY <1>1 DEF InRules, IsLine
  <2>3. line.parents > 0 /\ line.brothers = 0 /\ line.children = 0
    BY <2>1, <2>2 DEF InList, Fresh
  <2>4. /\ HasFields(line') /\ line'.parents = line.parents - 1 /\ line'.brothers = 0
        /\ line'.children = 0 /\ line'.pivot = line.pivot
    BY <1>2, <2>1, <2>3 DEF HasFields
  <2>5. Len(containers) \in Nat
    BY <1>1 DEF InRules, Sound, IsContainers, IsSeq
  <2>6. IsLine(line', containers, build)
    BY <1>1, <2>2, <2>3, <2>4, <2>5 DEF InRules, IsLine
  <2>7. InRules(line', build, containers, pivot)
    BY <1>1, <2>3, <2>4, <2>6 DEF InRules
  <2> QED
    BY <1>1, <2>7 DEF BlocksInv
<1> QED
  BY <1>3, <1>4, <1>5

\* Other containers with the same marks and openers.
LEMMA LineOther ==
  ASSUME NEW l, NEW b, IsBuild(b), NEW c, IsContainers(c), IsLine(l, c, b), NEW d, IsContainers(d),
         Len(d) = Len(c), SameContainers(c, d, Len(c))
  PROVE  IsLine(l, d, b)
<1>1. PICK n \in Nat : n = Len(c)
  BY DEF IsContainers, IsSeq
<1>2. PICK m : m = n - l.children
  OBVIOUS
<1>3. m \in Nat /\ m <= n
  BY <1>1, <1>2 DEF IsLine
<1>4. OpenAs(b.blocks, SubSeq(c, 1, m))
  BY <1>1, <1>2 DEF IsLine
<1>5. SameContainers(c, d, m)
  BY <1>1, <1>3 DEF SameContainers
<1>6. OpenAs(b.blocks, SubSeq(d, 1, m))
  <2>1. IsBlocks(b.blocks) /\ m <= Len(c) /\ m <= Len(d)
    BY <1>1, <1>3 DEF IsBuild
  <2> QED
    BY <1>3, <1>4, <1>5, <2>1, PrefixOpen
<1>7. l.brothers = 1 => d[l.parents + 1].ch # ">"
  <2> SUFFICES ASSUME l.brothers = 1
               PROVE  d[l.parents + 1].ch # ">"
    OBVIOUS
  <2>1. c[l.parents + 1].ch # ">" /\ l.parents + 1 \in 1 .. Len(c)
    BY <1>1 DEF IsLine
  <2> QED
    BY <2>1 DEF SameContainers
<1> QED
  BY <1>1, <1>2, <1>6, <1>7 DEF IsLine

\* Another item of the list the line is in.
LEMMA BrotherStep ==
  ASSUME BlocksInv, Brother
  PROVE  BlocksInv'
<1>1. InRules(line, build, containers, pivot) /\ pc' = "rules" /\ UNCHANGED <<pivot, build>>
  BY DEF BlocksInv, Brother
<1>2. PICK behind : /\ behind = BehindMark(Mark) /\ line' = [behind.line EXCEPT !.brothers = 1]
                    /\ containers' = [containers EXCEPT ![line.parents + 1].mark = behind.container.mark,
                                                        ![line.parents + 1].contents = behind.container.contents]
  BY Zenon DEF Brother
<1>3. HasFields(line) /\ line.parents \in Nat /\ line.brothers \in {0, 1} /\ line.children \in Nat
  BY <1>1 DEF InRules, IsLine
<1>4. PICK n \in Nat : n = Len(containers)
  BY <1>1 DEF InRules, Sound, IsContainers, IsSeq
<1>5. ~AllParents /\ Fresh /\ Compatible(containers[line.parents + 1], Mark)
  BY RuleIs DEF Brother
<1>6. line.parents < n /\ line.brothers = 0 /\ line.children = 0 /\ containers[line.parents + 1].ch # ">"
  <2>1. line.parents <= n
    BY <1>1, <1>3, <1>4 DEF InRules, IsLine
  <2> QED
    BY <1>3, <1>4, <1>5, <2>1 DEF AllParents, n_containers, Fresh, Compatible
<1>7. PICK width, inner : behind = Behind(Mark, width, inner)
  BY <1>2, Zenon DEF BehindMark, BehindWidth
<1>8. PICK o, t, i, k : behind.line = [line EXCEPT !.off = o, !.beg = o, !.total = t, !.indent = i,
                                                   !.killer = k, !.pivot = Dummy]
  <2>1. PICK z, o, t, i, k : behind = [line |-> [line EXCEPT !.off = o, !.beg = o, !.total = t, !.indent = i,
                                                      !.killer = k, !.pivot = Dummy], container |-> z]
    BY <1>7, Zenon DEF Behind
  <2> QED
    BY <2>1
<1>9. /\ HasFields(line') /\ line'.parents = line.parents /\ line'.brothers = 1
      /\ line'.children = 0 /\ line'.pivot = Dummy
  BY <1>2, <1>3, <1>6, <1>8 DEF HasFields
<1>10. PICK j \in 1 .. n : j = line.parents + 1
  BY <1>3, <1>4, <1>6
<1>11. PICK x : x = [containers[j] EXCEPT !.mark = behind.container.mark, !.contents = behind.container.contents]
  OBVIOUS
<1>12. "ch" \in DOMAIN x /\ "opener" \in DOMAIN x /\ x.ch = containers[j].ch /\ x.opener = containers[j].opener
  <2>1. "ch" \in DOMAIN containers[j] /\ "opener" \in DOMAIN containers[j]
    BY <1>1, <1>4 DEF InRules, Sound, IsContainers
  <2> QED
    BY <1>11, <2>1
<1>13. IsChange(containers', containers, j, x)
  <2>1. j \in DOMAIN containers
    BY <1>1, <1>4 DEF InRules, Sound, IsContainers, IsSeq
  <2>2. PICK e : e = containers[j]
    OBVIOUS
  <2>3. containers' = [[containers EXCEPT ![j].mark = behind.container.mark]
                         EXCEPT ![j].contents = behind.container.contents]
    BY <1>2, <1>10
  <2> QED
    BY <1>11, <2>1, <2>3 DEF IsChange
<1>14. /\ IsContainers(containers') /\ Len(containers') = Len(containers)
       /\ SameContainers(containers, containers', Len(containers))
  <2>1. IsContainers(containers) /\ j \in 1 .. Len(containers)
    BY <1>1, <1>4 DEF InRules, Sound
  <2> QED
    BY <1>12, <1>13, <2>1, ContainersChange
<1>15. IsLine(line', containers, build)
  <2>1. n - line'.children = n - line.children
    BY <1>6, <1>9
  <2> QED
    BY <1>1, <1>3, <1>4, <1>6, <1>9, <2>1 DEF InRules, IsLine
<1>16. IsLine(line', containers', build)
  BY <1>1, <1>14, <1>15, LineOther DEF InRules, Sound
<1>17. InRules(line', build, containers', pivot)
  BY <1>1, <1>6, <1>9, <1>14, <1>16 DEF InRules, Sound
<1> QED
  BY <1>1, <1>17 DEF BlocksInv

\* What the build keeps open when the containers behind keep are left.
LEMMA ChildLeaves ==
  ASSUME NEW l, NEW b, NEW c, IsBuild(b), Unheaded(b), IsContainers(c), IsLine(l, c, b), NEW keep,
         keep = IF l.children = 0 THEN l.parents + l.brothers ELSE Len(c)
  PROVE  \E r, m : /\ r = Leave(b, c, keep) /\ keep \in Nat /\ keep <= Len(c) /\ m \in Nat /\ m <= keep
                   /\ m = l.parents + l.brothers
                   /\ IsBuild(r) /\ Unheaded(r) /\ OpenAs(r.blocks, SubSeq(c, 1, m))
                   /\ r.current => r = b
                   /\ keep = Len(c) => r = b
<1>1. PICK n \in Nat : n = Len(c)
  BY DEF IsContainers, IsSeq
<1>2. l.parents \in Nat /\ l.brothers \in {0, 1} /\ l.children \in Nat /\ l.parents + l.brothers + l.children <= n
  BY <1>1 DEF IsLine
<1>3. keep \in Nat /\ keep <= n
  BY <1>1, <1>2
<1>4. OpenAs(b.blocks, SubSeq(c, 1, n - l.children))
  BY <1>1 DEF IsLine
<1>5. CASE l.children = 0
  <2>1. OpenAs(b.blocks, SubSeq(c, 1, n))
    <3>1. n - l.children = n
      BY <1>5
    <3> QED
      BY <1>4, <3>1
  <2>2. OpenAs(b.blocks, c)
    BY <1>1, <2>1, WholeOpen DEF IsBuild
  <2>4. keep <= Len(c)
    BY <1>1, <1>3
  <2>5. PICK r : r = Leave(b, c, keep) /\ IsLeft(r, b, c, Len(c) - keep)
    BY <1>3, <2>2, <2>4, LeaveIs
  <2>6. IsBuild(r) /\ Unheaded(r) /\ OpenAs(r.blocks, SubSeq(c, 1, keep))
    <3>1. Len(c) - (Len(c) - keep) = keep
      BY <1>1, <1>3
    <3> QED
      BY <2>5, <3>1 DEF IsLeft
  <2>7. (r.current => r = b) /\ (keep = Len(c) => r = b)
    <3>1. PICK k \in Nat : k = Len(c) - keep
      BY <1>1, <1>3
    <3>2. IsLeft(r, b, c, k)
      BY <2>5, <3>1
    <3>3. (k = 0 \/ k > 0) /\ (keep = Len(c) => k = 0)
      BY <1>3, <3>1
    <3> QED
      BY <3>2, <3>3 DEF IsLeft
  <2> QED
    BY <1>3, <1>5, <2>4, <2>5, <2>6, <2>7
<1>6. CASE l.children # 0
  <2>1. keep = Len(c)
    BY <1>6
  <2>2. Leave(b, c, keep) = b
    BY <2>1, LeaveNone DEF IsContainers
  <2>3. PICK m \in Nat : m = l.parents + l.brothers
    BY <1>2
  <2>4. m = n - l.children /\ m <= keep
    BY <1>1, <1>2, <1>6, <2>1, <2>3 DEF IsLine
  <2>5. OpenAs(b.blocks, SubSeq(c, 1, m))
    BY <1>4, <2>4
  <2> QED
    BY <1>1, <1>3, <2>2, <2>3, <2>4, <2>5
<1> QED
  BY <1>5, <1>6

\* A new container behind those that go on; the others are left.
LEMMA ChildStep ==
  ASSUME BlocksInv, Child
  PROVE  BlocksInv'
<1>1. InRules(line, build, containers, pivot) /\ pc' = "rules" /\ UNCHANGED pivot
  BY DEF BlocksInv, Child
<1>2. PICK behind, keep :
        /\ behind = BehindMark(Mark)
        /\ keep = IF line.children = 0 THEN line.parents + line.brothers ELSE Len(containers)
        /\ containers' = Append(SubSeq(containers, 1, keep), behind.container)
        /\ build' = Leave(build, containers, keep)
        /\ line' = [behind.line EXCEPT !.children = @ + 1]
  BY Zenon DEF Child, n_containers
<1>3. /\ HasFields(line) /\ line.parents \in Nat /\ line.brothers \in {0, 1} /\ line.children \in Nat
      /\ Sound(build, containers, pivot) /\ IsLine(line, containers, build)
  BY <1>1 DEF InRules, IsLine
<1>4. PICK width, inner : behind = Behind(Mark, width, inner)
  BY <1>2, Zenon DEF BehindMark, BehindWidth
<1>5. PICK y : /\ y = behind.line /\ HasFields(y) /\ y.parents = line.parents
                 /\ y.brothers = line.brothers /\ y.children = line.children /\ y.pivot = Dummy
  <2>1. PICK z, o, t, i, k : behind = [line |-> [line EXCEPT !.off = o, !.beg = o, !.total = t, !.indent = i,
                                                      !.killer = k, !.pivot = Dummy], container |-> z]
    BY <1>4, Zenon DEF Behind
  <2>2. behind.line = [line EXCEPT !.off = o, !.beg = o, !.total = t, !.indent = i, !.killer = k, !.pivot = Dummy]
    BY <2>1
  <2> QED
    BY <1>3, <2>2 DEF HasFields
<1>6. /\ HasFields(line') /\ line'.parents = line.parents /\ line'.brothers = line.brothers
      /\ line'.children = line.children + 1 /\ line'.pivot = Dummy
  <2>1. line' = [y EXCEPT !.children = @ + 1]
    BY <1>2, <1>5
  <2> QED
    BY <1>5, <2>1 DEF HasFields
<1>7. PICK x : x = behind.container /\ "ch" \in DOMAIN x /\ "opener" \in DOMAIN x
  <2>1. PICK z, own, none :
          behind = [line |-> z,
                    container |-> [ch |-> Mark.ch, start |-> Mark.start, mark |-> Mark.mark,
                                   contents |-> Mark.contents + own, task |-> none, opener |-> 0]]
    BY <1>4, Zenon DEF Behind
  <2> QED
    BY <2>1
<1>8. PICK r, m : /\ r = Leave(build, containers, keep) /\ keep \in Nat /\ keep <= Len(containers) /\ m \in Nat /\ m <= keep
                  /\ m = line.parents + line.brothers
                  /\ IsBuild(r) /\ OpenAs(r.blocks, SubSeq(containers, 1, m)) /\ PivotFits(r, pivot)
  <2>1. IsBuild(build) /\ Unheaded(build) /\ IsContainers(containers)
    BY <1>3, FitsUnheaded DEF Sound
  <2>2. PICK r, m :
          /\ r = Leave(build, containers, keep) /\ keep \in Nat /\ keep <= Len(containers) /\ m \in Nat /\ m <= keep
          /\ m = line.parents + line.brothers
          /\ IsBuild(r) /\ Unheaded(r) /\ OpenAs(r.blocks, SubSeq(containers, 1, m))
          /\ r.current => r = build
          /\ keep = Len(containers) => r = build
    BY <1>2, <1>3, <2>1, ChildLeaves
  <2>3. PivotFits(r, pivot)
    BY <1>3, <2>2 DEF Sound, PivotFits
  <2> QED
    BY <2>2, <2>3
<1>9. PICK d : d = SubSeq(containers, 1, keep)
  OBVIOUS
<1>10. IsContainers(d) /\ Len(d) = keep /\ \A j \in 1 .. keep : d[j] = containers[j]
  BY <1>3, <1>8, <1>9, SubContainers DEF Sound
<1>11. PICK e : e = Append(d, x) /\ containers' = e
  BY <1>2, <1>7, <1>9
<1>12. IsSeq(e) /\ Len(e) = keep + 1 /\ e[keep + 1] = x /\ \A j \in 1 .. keep : e[j] = d[j]
  <2>1. /\ IsSeq(e) /\ Len(e) = Len(d) + 1 /\ e[Len(d) + 1] = x /\ \A j \in 1 .. Len(d) : e[j] = d[j]
    BY <1>10, <1>11, AppendIs DEF IsContainers
  <2> QED
    BY <1>10, <2>1
<1>13. IsContainers(e)
  BY <1>7, <1>8, <1>10, <1>12 DEF IsContainers
<1>14. OpenAs(r.blocks, SubSeq(e, 1, m))
  <2>1. SameContainers(containers, e, m)
    BY <1>8, <1>10, <1>12 DEF SameContainers
  <2>2. PICK n \in Nat : n = Len(containers)
    BY <1>3 DEF Sound, IsContainers, IsSeq
  <2>3. m <= Len(containers) /\ m <= Len(e)
    BY <1>8, <1>12, <2>2
  <2>4. IsBlocks(r.blocks) /\ IsContainers(containers)
    BY <1>3, <1>8 DEF IsBuild, Sound
  <2> QED
    BY <1>8, <1>13, <2>1, <2>3, <2>4, PrefixOpen
<1>15. line'.parents + line'.brothers + line'.children = Len(e) /\ Len(e) - line'.children = m
  <2>1. PICK a \in Nat : a = line.parents
    BY <1>3
  <2>2. PICK b \in {0, 1} : b = line.brothers
    BY <1>3
  <2>3. PICK k \in Nat : k = line.children
    BY <1>3
  <2>4. line'.parents = a /\ line'.brothers = b /\ line'.children = k + 1
    BY <1>6, <2>1, <2>2, <2>3
  <2>5. k # 0 => a + b + k = Len(containers)
    <3>1. line.children > 0 => line.parents + line.brothers + line.children = Len(containers)
      BY <1>3 DEF IsLine
    <3> QED
      BY <2>1, <2>2, <2>3, <3>1
  <2>6. Len(e) = keep + 1 /\ keep = a + b + k /\ m = a + b
    BY <1>2, <1>8, <1>12, <2>1, <2>2, <2>3, <2>5
  <2> QED
    BY <2>4, <2>6
<1>16. line'.brothers = 1 => e[line'.parents + 1].ch # ">"
  <2> SUFFICES ASSUME line.brothers = 1
               PROVE  e[line.parents + 1].ch # ">"
    BY <1>6
  <2>1. PICK q \in Nat : q = line.parents + 1
    BY <1>3
  <2>2. q \in 1 .. keep
    <3>1. line.parents + line.brothers + line.children <= Len(containers)
      BY <1>3 DEF IsLine
    <3>2. PICK n \in Nat : n = Len(containers)
      BY <1>3 DEF Sound, IsContainers, IsSeq
    <3> QED
      BY <1>2, <1>3, <2>1, <3>1, <3>2
  <2>3. containers[q].ch # ">"
    BY <1>3, <2>1 DEF IsLine
  <2> QED
    BY <1>10, <1>12, <2>1, <2>2, <2>3
<1>17. IsLine(line', e, r)
  <2>1. line'.parents \in Nat /\ line'.brothers \in {0, 1} /\ line'.children \in Nat
    BY <1>3, <1>6
  <2>2. Len(e) \in Nat
    BY <1>8, <1>12
  <2>3. OpenAs(r.blocks, SubSeq(e, 1, Len(e) - line'.children))
    BY <1>14, <1>15
  <2> QED
    BY <1>6, <1>15, <1>16, <2>1, <2>2, <2>3 DEF IsLine
<1>18. InRules(line', r, e, pivot)
  <2>1. line'.children # 0
    BY <1>3, <1>6
  <2> QED
    BY <1>6, <1>8, <1>13, <1>17, <1>3, <2>1 DEF InRules, Sound
<1> QED
  <2>1. build' = r /\ containers' = e
    BY <1>2, <1>8, <1>11
  <2> QED
    BY <1>1, <1>18, <2>1 DEF BlocksInv

\* The task mark of container i is set.
IsTask(d, c, i, v) == d = [c EXCEPT ![i].task = v]

\* The task mark of the innermost container is set.
LEMMA TaskChange ==
  ASSUME NEW c, IsContainers(c), NEW i \in 1 .. Len(c), NEW v, NEW d, IsTask(d, c, i, v)
  PROVE  IsContainers(d) /\ Len(d) = Len(c) /\ SameContainers(c, d, Len(c)) /\ \A k \in 1 .. Len(c) : c[k].ch = d[k].ch
<1>1. PICK x : x = [c[i] EXCEPT !.task = v]
  OBVIOUS
<1>2. "ch" \in DOMAIN c[i] /\ "opener" \in DOMAIN c[i]
  BY DEF IsContainers
<1>3. "ch" \in DOMAIN x /\ "opener" \in DOMAIN x /\ x.ch = c[i].ch /\ x.opener = c[i].opener
  BY <1>1, <1>2
<1>4. IsChange(d, c, i, x)
  BY <1>1 DEF IsChange, IsTask
<1> QED
  BY <1>3, <1>4, ContainersChange

\* Text may continue all containers that are open, and sets a task mark.
LEMMA TextLineStep ==
  ASSUME BlocksInv, TextLine
  PROVE  BlocksInv'
<1>1. InRules(line, build, containers, pivot) /\ UNCHANGED build
  BY DEF BlocksInv, TextLine
<1>2. PICK off, beg, task :
        Settle([type |-> "text", off |-> off, beg |-> beg,
                parents |-> IF After("text") /\ Fresh THEN n_containers ELSE line.parents,
                task |-> task])
  BY Zenon DEF TextLine
<1>3. \/ containers' = containers
      \/ line.children > 0 /\ \E v : containers' = [containers EXCEPT ![n_containers].task = v]
  BY Zenon DEF TextLine
<1>4. PICK p : p = IF After("text") /\ Fresh THEN n_containers ELSE line.parents
  OBVIOUS
<1>5. PICK changes : /\ changes = [type |-> "text", off |-> off, beg |-> beg, parents |-> p, task |-> task]
                     /\ Settle(changes)
  BY <1>2, <1>4
<1>6. pc' = "tail" /\ UNCHANGED pivot /\ line' = [f \in DOMAIN line |-> IF f \in DOMAIN changes THEN changes[f] ELSE line[f]]
  BY <1>5 DEF Settle
<1>7. /\ HasFields(line) /\ line.parents \in Nat /\ line.brothers \in {0, 1} /\ line.children \in Nat
      /\ IsBuild(build) /\ IsContainers(containers) /\ IsLine(line, containers, build)
  BY <1>1 DEF InRules, IsLine, Sound
<1>8. /\ HasFields(line') /\ line'.parents = p /\ line'.brothers = line.brothers
      /\ line'.children = line.children /\ line'.type = "text"
  <2>1. DOMAIN changes = {"type", "off", "beg", "parents", "task"} /\ changes.type = "text" /\ changes.parents = p
    BY <1>5
  <2> QED
    BY <1>6, <1>7, <2>1 DEF HasFields
<1>9. PICK n \in Nat : n = Len(containers)
  BY <1>7 DEF IsContainers, IsSeq
<1>10. IsLine(line', containers, build)
  <2>1. CASE After("text") /\ Fresh
    <3>1. p = n /\ line.brothers = 0 /\ line.children = 0
      BY <1>4, <1>7, <1>9, <2>1 DEF n_containers, Fresh
    <3>2. n - line'.children = n - line.children
      BY <1>8
    <3> QED
      BY <1>7, <1>8, <1>9, <3>1, <3>2 DEF IsLine
  <2>2. CASE ~(After("text") /\ Fresh)
    <3>1. p = line.parents
      BY <1>4, <2>2
    <3> QED
      BY <1>7, <1>8, <3>1, LineGoesOn
  <2> QED
    BY <2>1, <2>2
<1>11. /\ IsContainers(containers') /\ Len(containers') = Len(containers)
       /\ SameContainers(containers, containers', Len(containers))
  <2>1. CASE containers' = containers
    BY <1>7, <2>1 DEF SameContainers
  <2>2. CASE line.children > 0 /\ \E v : containers' = [containers EXCEPT ![n_containers].task = v]
    <3>1. PICK v : containers' = [containers EXCEPT ![n].task = v]
      BY <1>9, <2>2 DEF n_containers
    <3>2. n \in 1 .. Len(containers)
      <4>1. line.parents + line.brothers + line.children <= Len(containers)
        BY <1>7 DEF IsLine
      <4> QED
        BY <1>7, <1>9, <2>2, <4>1
    <3>3. IsTask(containers', containers, n, v)
      BY <3>1 DEF IsTask
    <3> QED
      BY <1>7, <3>2, <3>3, TaskChange
  <2> QED
    BY <1>3, <2>1, <2>2
<1>12. IsLine(line', containers', build)
  BY <1>7, <1>10, <1>11, LineOther
<1>13. InTail(line', build, containers', pivot)
  BY <1>1, <1>8, <1>11, <1>12 DEF InTail, InRules, Sound, Underlines
<1> QED
  BY <1>1, <1>6, <1>13 DEF BlocksInv

\* What is entered behind the first n containers.
LEMMA EnterBehind ==
  ASSUME NEW b, IsBuild(b), Unheaded(b), NEW c, IsContainers(c), NEW n \in Nat, NEW k \in Nat, Len(c) = n + k,
         OpenAs(b.blocks, SubSeq(c, 1, n))
  PROVE  \E r : /\ r = Enter(b, c, k) /\ IsBuild(r.build) /\ IsContainers(r.conts)
                /\ OpenAs(r.build.blocks, r.conts)
                /\ r.build.current => r.build = b
                /\ k = 0 => r.build = b
<1>1. k <= Len(c) /\ Len(c) - k = n
  OBVIOUS
<1>2. OpenAs(b.blocks, SubSeq(c, 1, Len(c) - k))
  BY <1>1
<1> QED
  BY <1>1, <1>2, EnterIs

\* The container bytes of a line make what is open what the containers say.
\* While the line continues the block under construction they do nothing.
LEMMA MovedIs ==
  ASSUME NEW b, IsBuild(b), Unheaded(b), IsContainers(containers), IsLine(line, containers, b),
         NEW n, n = line.parents + line.brothers
  PROVE  \E r : /\ r = Moved(b, n) /\ IsBuild(r.build) /\ IsContainers(r.conts)
                /\ OpenAs(r.build.blocks, r.conts)
                /\ r.build.current => r.build = b
                /\ line.parents = Len(containers) => r.build = b
<1>1. line.parents \in Nat /\ line.brothers \in {0, 1} /\ line.children \in Nat
  BY DEF IsLine
<1>2. PICK keep : keep = IF line.children = 0 THEN n ELSE n_containers
  OBVIOUS
<1>3. PICK left, m :
        /\ left = Leave(b, containers, keep) /\ keep \in Nat /\ keep <= Len(containers) /\ m \in Nat /\ m <= keep
        /\ m = n
        /\ IsBuild(left) /\ Unheaded(left) /\ OpenAs(left.blocks, SubSeq(containers, 1, m))
        /\ left.current => left = b
        /\ keep = Len(containers) => left = b
  BY <1>2, ChildLeaves DEF n_containers
<1>4. PICK k \in Nat : k = line.children
  BY <1>1
<1>5. PICK N \in Nat : N = Len(containers)
  BY DEF IsContainers, IsSeq
<1>6. n \in Nat /\ n + k <= N /\ (k # 0 => n + k = N)
  BY <1>1, <1>3, <1>4, <1>5 DEF IsLine
<1>7. keep = n + k
  BY <1>2, <1>4, <1>5, <1>6 DEF n_containers
<1>8. PICK kept : kept = SubSeq(containers, 1, keep)
  OBVIOUS
<1>9. /\ IsContainers(kept) /\ Len(kept) = keep /\ (\A i \in 1 .. keep : kept[i] = containers[i])
      /\ SameContainers(containers, kept, keep)
  BY <1>3, <1>8, SubContainers
<1>10. OpenAs(left.blocks, SubSeq(kept, 1, n))
  <2>1. SameContainers(containers, kept, n)
    BY <1>3, <1>6, <1>9 DEF SameContainers
  <2>2. n <= Len(containers) /\ n <= Len(kept)
    BY <1>5, <1>6, <1>7, <1>9
  <2> QED
    BY <1>3, <1>6, <1>9, <2>1, <2>2, PrefixOpen DEF IsBuild
<1>11. CASE line.brothers = 0
  <2>1. Moved(b, n) = Enter(left, kept, k)
    BY <1>2, <1>3, <1>4, <1>8, <1>11 DEF Moved
  <2>2. Len(kept) = n + k
    BY <1>7, <1>9
  <2>3. PICK r : /\ r = Enter(left, kept, k) /\ IsBuild(r.build) /\ IsContainers(r.conts)
                 /\ OpenAs(r.build.blocks, r.conts)
                 /\ r.build.current => r.build = left
                 /\ k = 0 => r.build = left
    BY <1>3, <1>6, <1>9, <1>10, <2>2, EnterBehind
  <2>4. r.build.current => r.build = b
    BY <1>3, <2>3
  <2>5. line.parents = Len(containers) => r.build = b
    <3>1. line.parents = Len(containers) => k = 0 /\ keep = Len(containers)
      BY <1>1, <1>3, <1>4, <1>5, <1>6, <1>7
    <3> QED
      BY <1>3, <2>3, <3>1
  <2> QED
    BY <2>1, <2>3, <2>4, <2>5
<1>12. CASE line.brothers = 1
  <2>1. n >= 1 /\ n \in 1 .. keep /\ n = line.parents + 1 /\ n <= Len(kept)
    BY <1>1, <1>3, <1>6, <1>7, <1>9, <1>12
  <2>2. containers[n].ch # ">"
    BY <1>12, <2>1 DEF IsLine
  <2>3. PICK f : f = SubSeq(kept, 1, n)
    OBVIOUS
  <2>4. IsContainers(f) /\ Len(f) = n /\ \A i \in 1 .. n : f[i] = kept[i]
    BY <1>6, <1>9, <2>1, <2>3, SubContainers
  <2>5. f[Len(f)].ch # ">" /\ Len(f) \in Nat /\ Len(f) >= 1 /\ OpenAs(left.blocks, f)
    BY <1>6, <1>9, <1>10, <2>1, <2>2, <2>3, <2>4
  <2>6. PICK item : item = kept[n]
    OBVIOUS
  <2>7. PICK next : next = NextItem(left, item) /\ IsBuild(next) /\ ~next.current /\ OpenAs(next.blocks, f)
    BY <1>3, <2>5, NextItemIs
  <2>8. PICK conts : conts = [kept EXCEPT ![n].task = line.task]
    OBVIOUS
  <2>9. IsContainers(conts) /\ Len(conts) = Len(kept) /\ SameContainers(kept, conts, Len(kept))
    <3>1. IsTask(conts, kept, n, line.task)
      BY <2>8 DEF IsTask
    <3>2. n \in 1 .. Len(kept)
      BY <1>9, <2>1
    <3> QED
      BY <1>9, <3>1, <3>2, TaskChange
  <2>10. OpenAs(next.blocks, SubSeq(conts, 1, n))
    <3>1. SameContainers(kept, conts, n)
      BY <1>9, <2>1, <2>9 DEF SameContainers
    <3>2. IsBlocks(next.blocks) /\ OpenAs(next.blocks, SubSeq(kept, 1, n))
      BY <2>3, <2>7 DEF IsBuild
    <3>3. n <= Len(kept) /\ n <= Len(conts)
      BY <2>1, <2>9
    <3> QED
      BY <1>6, <1>9, <2>9, <3>1, <3>2, <3>3, PrefixOpen
  <2>11. Unheaded(next) /\ Len(conts) = n + k
    BY <1>7, <1>9, <2>7, <2>9 DEF Unheaded
  <2>12. PICK r : /\ r = Enter(next, conts, k) /\ IsBuild(r.build) /\ IsContainers(r.conts)
                  /\ OpenAs(r.build.blocks, r.conts)
                  /\ r.build.current => r.build = next
                  /\ k = 0 => r.build = next
    BY <1>6, <2>7, <2>9, <2>10, <2>11, EnterBehind
  <2>13. Moved(b, n) = Enter(next, conts, k)
    <3>1. line.brothers # 0 /\ keep = IF line.children = 0 THEN n ELSE n_containers
      BY <1>2, <1>12
    <3>2. left = Leave(b, containers, keep)
      BY <1>3
    <3>3. Moved(b, n) = Enter(NextItem(left, kept[n]), [kept EXCEPT ![n].task = line.task], line.children)
      BY <1>8, <3>1, <3>2, Zenon DEF Moved
    <3> QED
      BY <1>4, <2>6, <2>7, <2>8, <3>3, Zenon
  <2>14. line.parents # Len(containers)
    BY <1>1, <1>5, <1>6, <2>1
  <2>15. ~r.build.current
    BY <2>7, <2>12
  <2> QED
    BY <2>12, <2>13, <2>14, <2>15
<1> QED
  BY <1>1, <1>11, <1>12

\* The end of md_analyze_line().
LEMMA EndLineStep ==
  ASSUME BlocksInv, EndLine
  PROVE  BlocksInv'
<1>1. InTail(line, build, containers, pivot) /\ pc' = "add" /\ UNCHANGED pivot
  BY DEF BlocksInv, EndLine
<1>2. PICK n, b : /\ n = line.parents + line.brothers
                  /\ b = build \/ b = Loosened(build, containers[n])
                  /\ build' = Moved(b, n).build /\ containers' = Moved(b, n).conts
  BY Zenon DEF EndLine
<1>3. /\ IsBuild(build) /\ IsContainers(containers) /\ IsLine(line, containers, build) /\ HasFields(line)
      /\ PivotFits(build, pivot)
  BY <1>1 DEF InTail, Sound, IsLine
<1>4. IsBuild(b) /\ b.current = build.current /\ PivotFits(b, pivot) /\ Keeps(build.blocks, b.blocks)
  <2>1. CASE b = build
    BY <1>3, <2>1 DEF Keeps
  <2>2. CASE b = Loosened(build, containers[n])
    <3>1. PICK r : /\ r = Loosened(build, containers[n]) /\ IsBuild(r) /\ r.current = build.current
                   /\ Keeps(build.blocks, r.blocks)
                   /\ build.current => Last(r.blocks).type = Last(build.blocks).type
      BY <1>3, LoosenedIs
    <3> QED
      BY <1>3, <2>2, <3>1 DEF PivotFits
  <2> QED
    BY <1>2, <2>1, <2>2
<1>5. IsLine(line, containers, b)
  <2>1. PICK N \in Nat : N = Len(containers)
    BY <1>3 DEF IsContainers, IsSeq
  <2>2. PICK m \in Nat : m = N - line.children /\ m <= N
    BY <1>3, <2>1 DEF IsLine
  <2>3. PICK c : c = SubSeq(containers, 1, m) /\ Len(c) = m
    BY <1>3, <2>1, <2>2, SubContainers
  <2>4. OpenAs(build.blocks, c)
    BY <1>3, <2>1, <2>2, <2>3 DEF IsLine
  <2>5. OpenAs(b.blocks, c)
    BY <1>4, <2>2, <2>3, <2>4 DEF Keeps
  <2> QED
    BY <1>3, <2>1, <2>2, <2>3, <2>5 DEF IsLine
<1>6. Unheaded(b)
  BY <1>4, FitsUnheaded
<1>7. PICK r : /\ r = Moved(b, n) /\ IsBuild(r.build) /\ IsContainers(r.conts)
               /\ OpenAs(r.build.blocks, r.conts)
               /\ r.build.current => r.build = b
               /\ line.parents = Len(containers) => r.build = b
  BY <1>2, <1>3, <1>4, <1>5, <1>6, MovedIs
<1>8. line'.type = line.type
  <2>1. PICK e : line' = [line EXCEPT !.end = e]
    BY Zenon DEF EndLine
  <2> QED
    BY <1>3, <2>1 DEF HasFields
<1>9. PivotFits(r.build, pivot)
  BY <1>4, <1>7 DEF PivotFits
<1>10. line'.type \in Underlines => r.build.current
  BY <1>1, <1>4, <1>7, <1>8 DEF InTail
<1>11. InAdd(line', r.build, r.conts, pivot)
  BY <1>7, <1>9, <1>10 DEF InAdd, Sound
<1> QED
  BY <1>1, <1>2, <1>7, <1>11 DEF BlocksInv

-----------------------------------------------------------------------------
(* md_process_line()                                                       *)

\* After a line has been added.
LEMMA LineAdded ==
  ASSUME NEW s, NEW b, IsBuild(b), Keeps(s, b.blocks), NEW c, IsContainers(c), OpenAs(s, c),
         NEW p, PivotFits(b, p), b.current \/ p.type = "blank"
  PROVE  InLine(b, c, p)
<1>1. Len(c) \in Nat
  BY DEF IsContainers, IsSeq
<1>2. OpenAs(b.blocks, c)
  BY <1>1 DEF Keeps
<1> QED
  BY <1>2 DEF InLine, Sound

\* Without a block the pivot is the dummy.
LEMMA DummyFits ==
  ASSUME NEW b, ~b.current
  PROVE  PivotFits(b, Dummy) /\ Dummy.type = "blank"
BY DummyIs DEF PivotFits, PivotTypes

\* A blank line ends the block.
LEMMA AddBlankStep ==
  ASSUME BlocksInv, AddBlank
  PROVE  BlocksInv'
<1>1. InAdd(line, build, containers, pivot) /\ pc' = "line" /\ UNCHANGED containers /\ pivot' = Dummy
  BY DEF BlocksInv, AddBlank, Processed
<1>2. IsBuild(build) /\ Unheaded(build) /\ IsContainers(containers) /\ OpenAs(build.blocks, containers)
  BY <1>1, FitsUnheaded DEF InAdd, Sound
<1>3. PICK e : e = EndBlock(build) /\ IsBuild(e) /\ Keeps(build.blocks, e.blocks) /\ ~e.current /\ EndBlock(e) = e
  BY <1>2, EndPlain
<1>4. PivotFits(e, Dummy) /\ Dummy.type = "blank"
  BY <1>3, DummyFits
<1>5. InLine(e, containers, Dummy)
  BY <1>2, <1>3, <1>4, LineAdded
<1>6. build' = e
  BY <1>3 DEF AddBlank
<1> QED
  BY <1>1, <1>5, <1>6 DEF BlocksInv

\* A thematic break or an ATX heading is a block of one line.
LEMMA AddSingleStep ==
  ASSUME BlocksInv, AddSingle
  PROVE  BlocksInv'
<1>1. InAdd(line, build, containers, pivot) /\ pc' = "line" /\ UNCHANGED containers /\ pivot' = Dummy
  BY DEF BlocksInv, AddSingle, Processed
<1>2. IsBuild(build) /\ Unheaded(build) /\ IsContainers(containers) /\ OpenAs(build.blocks, containers)
  BY <1>1, FitsUnheaded DEF InAdd, Sound
<1>3. PICK e : e = EndBlock(build) /\ IsBuild(e) /\ Keeps(build.blocks, e.blocks) /\ ~e.current /\ EndBlock(e) = e
  BY <1>2, EndPlain
<1>4. PICK s : /\ s = StartBlock(e, line) /\ IsBuild(s) /\ s.current /\ Keeps(e.blocks, s.blocks)
               /\ Last(s.blocks).type = BlockType(line.type)
               /\ "setext" \in DOMAIN Last(s.blocks) /\ Last(s.blocks).setext = FALSE
  <2>1. PICK l : l = line
    OBVIOUS
  <2>2. \E s : /\ s = StartBlock(e, l) /\ IsBuild(s) /\ s.current /\ Keeps(e.blocks, s.blocks)
               /\ Last(s.blocks).type = BlockType(l.type)
               /\ "setext" \in DOMAIN Last(s.blocks) /\ Last(s.blocks).setext = FALSE
    <3>1. IsBuild(e)
      BY <1>3
    <3> QED
      BY <3>1, StartBlockIs, Zenon
  <2> QED
    BY <2>1, <2>2
<1>5. PICK a : /\ a = AddLine(s, line) /\ IsBuild(a) /\ a.current /\ Keeps(s.blocks, a.blocks)
               /\ Last(a.blocks).type = Last(s.blocks).type
               /\ "setext" \in DOMAIN Last(s.blocks) => Last(a.blocks).setext = Last(s.blocks).setext
  BY <1>4, AddLineIs
<1>6. PICK z : /\ z = EndBlock(a) /\ IsBuild(z) /\ Keeps(a.blocks, z.blocks)
               /\ z.current => /\ a.current /\ Last(a.blocks).type = "h" /\ Last(a.blocks).setext
                               /\ Last(z.blocks).type = "p"
  BY <1>5, EndBlockIs
<1>7. ~z.current
  BY <1>4, <1>5, <1>6
<1>8. Keeps(build.blocks, z.blocks)
  <2>1. Keeps(build.blocks, s.blocks)
    BY <1>3, <1>4, KeepsOn
  <2>2. Keeps(build.blocks, a.blocks)
    BY <1>5, <2>1, KeepsOn
  <2> QED
    BY <1>6, <2>2, KeepsOn
<1>9. PivotFits(z, Dummy) /\ Dummy.type = "blank"
  BY <1>7, DummyFits
<1>10. InLine(z, containers, Dummy)
  BY <1>2, <1>6, <1>8, <1>9, LineAdded
<1>11. build' = z
  BY <1>3, <1>4, <1>5, <1>6 DEF AddSingle
<1> QED
  BY <1>1, <1>10, <1>11 DEF BlocksInv

\* The underline of a heading ends it; when the heading was nothing but link
\* definitions the underline is the first line of a paragraph.
LEMMA AddSetextStep ==
  ASSUME BlocksInv, AddSetextUnderline
  PROVE  BlocksInv'
<1>1. InAdd(line, build, containers, pivot) /\ pc' = "line" /\ UNCHANGED containers
  BY DEF BlocksInv, AddSetextUnderline, Processed
<1>2. IsBuild(build) /\ build.current /\ IsContainers(containers) /\ OpenAs(build.blocks, containers)
  BY <1>1 DEF InAdd, Sound, Underlines, AddSetextUnderline
<1>3. PICK u : /\ u = Underlined(build, "h") /\ IsBuild(u) /\ u.current /\ Keeps(build.blocks, u.blocks)
  BY <1>2, UnderlinedIs
<1>4. PICK a : a = AddLine(u, line) /\ IsBuild(a) /\ a.current /\ Keeps(u.blocks, a.blocks)
  BY <1>3, AddLineIs
<1>5. PICK z : /\ z = EndBlock(a) /\ IsBuild(z) /\ Keeps(a.blocks, z.blocks)
               /\ z.current => Last(z.blocks).type = "p"
  BY <1>4, EndBlockIs
<1>6. Keeps(build.blocks, z.blocks)
  <2>1. Keeps(build.blocks, a.blocks)
    BY <1>3, <1>4, KeepsOn
  <2> QED
    BY <1>5, <2>1, KeepsOn
<1>7. build' = z
  BY <1>3, <1>4, <1>5 DEF AddSetextUnderline
<1>8. PivotFits(z, pivot') /\ (z.current \/ pivot'.type = "blank")
  <2>1. CASE z.current
    <3>1. pivot' = [type |-> "text", beg |-> line.beg, indent |-> line.indent]
      BY <1>7, <2>1 DEF AddSetextUnderline
    <3>2. "type" \in DOMAIN pivot' /\ pivot'.type = "text"
      BY <3>1
    <3>3. BlockType("text") = "p"
      BY DEF BlockType
    <3> QED
      BY <1>5, <2>1, <3>2, <3>3 DEF PivotFits, PivotTypes
  <2>2. CASE ~z.current
    <3>1. pivot' = Dummy
      BY <1>7, <2>2 DEF AddSetextUnderline
    <3> QED
      BY <2>2, <3>1, DummyFits
  <2> QED
    BY <2>1, <2>2
<1>9. InLine(z, containers, pivot')
  BY <1>2, <1>5, <1>6, <1>8, LineAdded
<1> QED
  BY <1>1, <1>7, <1>9 DEF BlocksInv

\* The underline of a table makes a table of the paragraph.
LEMMA AddTableStep ==
  ASSUME BlocksInv, AddTableUnderline
  PROVE  BlocksInv'
<1>1. InAdd(line, build, containers, pivot) /\ pc' = "line" /\ UNCHANGED containers
  BY DEF BlocksInv, AddTableUnderline, Processed
<1>2. /\ IsBuild(build) /\ build.current /\ IsContainers(containers) /\ OpenAs(build.blocks, containers)
      /\ "type" \in DOMAIN pivot
  BY <1>1 DEF InAdd, Sound, Underlines, PivotFits, AddTableUnderline
<1>3. PICK u : /\ u = Underlined(build, "table") /\ IsBuild(u) /\ u.current /\ Keeps(build.blocks, u.blocks)
               /\ Last(u.blocks).type = "table"
  BY <1>2, UnderlinedIs
<1>4. PICK a : /\ a = AddLine(u, line) /\ IsBuild(a) /\ a.current /\ Keeps(u.blocks, a.blocks)
               /\ Last(a.blocks).type = Last(u.blocks).type
  BY <1>3, AddLineIs
<1>5. Keeps(build.blocks, a.blocks)
  BY <1>3, <1>4, KeepsOn
<1>6. build' = a
  BY <1>3, <1>4 DEF AddTableUnderline
<1>7. PivotFits(a, pivot')
  <2>1. "type" \in DOMAIN pivot' /\ pivot'.type = "table"
    BY <1>2 DEF AddTableUnderline
  <2>2. BlockType("table") = "table"
    BY DEF BlockType
  <2> QED
    BY <1>3, <1>4, <2>1, <2>2 DEF PivotFits, PivotTypes
<1>8. InLine(a, containers, pivot')
  BY <1>2, <1>4, <1>5, <1>7, LineAdded
<1> QED
  BY <1>1, <1>6, <1>8 DEF BlocksInv

\* Another line continues the block or starts one.
LEMMA AddToBlockStep ==
  ASSUME BlocksInv, AddToBlock
  PROVE  BlocksInv'
<1>1. InAdd(line, build, containers, pivot) /\ pc' = "line" /\ UNCHANGED containers
  BY DEF BlocksInv, AddToBlock, Processed
<1>2. /\ IsBuild(build) /\ Unheaded(build) /\ IsContainers(containers) /\ OpenAs(build.blocks, containers)
      /\ PivotFits(build, pivot)
  BY <1>1, FitsUnheaded DEF InAdd, Sound
<1>3. PICK b : /\ b = EndBlock(build) \/ b = build
               /\ build' = AddLine(IF b.current THEN b ELSE StartBlock(b, line), line)
               /\ pivot' = IF b.current THEN pivot
                           ELSE [type |-> line.type, beg |-> line.beg, indent |-> line.indent]
  BY Zenon DEF AddToBlock
<1>4. IsBuild(b) /\ Keeps(build.blocks, b.blocks) /\ (b.current => b = build)
  <2>1. PICK e : e = EndBlock(build) /\ IsBuild(e) /\ Keeps(build.blocks, e.blocks) /\ ~e.current /\ EndBlock(e) = e
    BY <1>2, EndPlain
  <2>2. Keeps(build.blocks, build.blocks)
    BY DEF Keeps
  <2> QED
    BY <1>2, <1>3, <2>1, <2>2
<1>5. CASE b.current
  <2>1. PICK a : /\ a = AddLine(b, line) /\ IsBuild(a) /\ a.current /\ Keeps(b.blocks, a.blocks)
                 /\ Last(a.blocks).type = Last(b.blocks).type
    BY <1>4, <1>5, AddLineIs
  <2>2. Keeps(build.blocks, a.blocks)
    BY <1>4, <2>1, KeepsOn
  <2>3. build' = a /\ pivot' = pivot
    BY <1>3, <1>5, <2>1
  <2>4. PivotFits(a, pivot)
    BY <1>2, <1>4, <1>5, <2>1 DEF PivotFits
  <2>5. InLine(a, containers, pivot)
    BY <1>2, <2>1, <2>2, <2>4, LineAdded
  <2> QED
    BY <1>1, <2>3, <2>5 DEF BlocksInv
<1>6. CASE ~b.current
  <2>1. PICK s : /\ s = StartBlock(b, line) /\ IsBuild(s) /\ s.current /\ Keeps(b.blocks, s.blocks)
                 /\ Last(s.blocks).type = BlockType(line.type)
    <3>1. PICK l : l = line
      OBVIOUS
    <3>2. \E s : /\ s = StartBlock(b, l) /\ IsBuild(s) /\ s.current /\ Keeps(b.blocks, s.blocks)
                 /\ Last(s.blocks).type = BlockType(l.type)
                 /\ "setext" \in DOMAIN Last(s.blocks) /\ Last(s.blocks).setext = FALSE
      BY <1>4, StartBlockIs, Zenon
    <3> QED
      BY <3>1, <3>2
  <2>2. PICK a : /\ a = AddLine(s, line) /\ IsBuild(a) /\ a.current /\ Keeps(s.blocks, a.blocks)
                 /\ Last(a.blocks).type = Last(s.blocks).type
    BY <2>1, AddLineIs
  <2>3. Keeps(build.blocks, a.blocks)
    <3>1. Keeps(build.blocks, s.blocks)
      BY <1>4, <2>1, KeepsOn
    <3> QED
      BY <2>2, <3>1, KeepsOn
  <2>4. build' = a /\ pivot' = [type |-> line.type, beg |-> line.beg, indent |-> line.indent]
    BY <1>3, <1>6, <2>1, <2>2
  <2>5. PivotFits(a, pivot')
    <3>1. "type" \in DOMAIN pivot' /\ pivot'.type = line.type
      BY <2>4
    <3>2. line.type \in PivotTypes
      BY DEF AddToBlock, PivotTypes
    <3> QED
      BY <2>1, <2>2, <3>1, <3>2 DEF PivotFits
  <2>6. InLine(a, containers, pivot')
    BY <1>2, <2>2, <2>3, <2>5, LineAdded
  <2> QED
    BY <1>1, <2>4, <2>6 DEF BlocksInv
<1> QED
  BY <1>5, <1>6

-----------------------------------------------------------------------------
(* The theorems.                                                           *)

\* When md_process_doc() has returned, what was opened is closed.
AllClosed == pc \notin BlockSteps => OpenAs(build.blocks, containers)

\* No block and no container.
LEMMA NothingOpen ==
  ASSUME NEW b, b.blocks = <<>>, NEW c, c = <<>>
  PROVE  OpenAs(b.blocks, c)
<1>1. PICK s : s = b.blocks /\ s = <<>> /\ Len(s) = 0
  OBVIOUS
<1>2. Unclosed(s) = <<>>
  <2>1. PICK g : Opened(g, s, 0) /\ Unclosed(s) = g[0]
    BY <1>1, OpenedExists
  <2> QED
    BY <2>1 DEF Opened
<1>3. Len(c) = 0
  OBVIOUS
<1>4. Places(c)[1] = 1
  BY <1>3, PlacesAre
<1>5. AllPlaced(s, Unclosed(s), c, Len(c))
  BY <1>3 DEF AllPlaced
<1>6. Len(Unclosed(s)) + 1 = Places(c)[Len(c) + 1]
  <2>1. Len(Unclosed(s)) = 0 /\ Len(c) + 1 = 1
    BY <1>2, <1>3
  <2> QED
    BY <1>4, <2>1
<1> QED
  BY <1>1, <1>5, <1>6, OpenAsIs

\* The state in which md_process_doc() begins.
LEMMA StartIsSound ==
  ASSUME NEW b, b = NoBlocks, NEW c, c = <<>>
  PROVE  InLine(b, c, Dummy) /\ OpenAs(b.blocks, c)
<1>1. b.blocks = <<>> /\ b.current = FALSE /\ "blocks" \in DOMAIN b /\ "current" \in DOMAIN b /\ "defs" \in DOMAIN b
  BY DEF NoBlocks
<1>2. OpenAs(b.blocks, c)
  BY <1>1, NothingOpen
<1>3. IsSeq(<<>>) /\ Len(<<>>) = 0
  <2>1. <<>> \in Seq({})
    OBVIOUS
  <2> QED
    BY <2>1 DEF IsSeq
<1>4. IsBlocks(b.blocks) /\ IsContainers(c)
  BY <1>1, <1>3 DEF IsBlocks, IsContainers
<1>5. IsBuild(b)
  BY <1>1, <1>4 DEF IsBuild
<1>6. PivotFits(b, Dummy) /\ Dummy.type = "blank"
  BY <1>1, DummyFits
<1> QED
  BY <1>2, <1>4, <1>5, <1>6 DEF InLine, Sound

\* At the end of the text all containers are closed.
LEMMA EndTextStep ==
  ASSUME BlocksInv, EndText
  PROVE  pc' = "blocks" /\ OpenAs(build'.blocks, containers')
<1>1. InLine(build, containers, pivot) /\ pc' = "blocks" /\ containers' = <<>>
  BY DEF BlocksInv, EndText
<1>2. IsBuild(build) /\ Unheaded(build) /\ IsContainers(containers) /\ OpenAs(build.blocks, containers)
  BY <1>1, FitsUnheaded DEF InLine, Sound
<1>3. PICK e : e = EndBlock(build) /\ IsBuild(e) /\ Keeps(build.blocks, e.blocks) /\ ~e.current /\ EndBlock(e) = e
  BY <1>2, EndPlain
<1>4. PICK n \in Nat : n = Len(containers)
  BY <1>2 DEF IsContainers, IsSeq
<1>5. OpenAs(e.blocks, containers) /\ Unheaded(e) /\ 0 <= Len(containers)
  BY <1>2, <1>3, <1>4 DEF Keeps, Unheaded
<1>6. PICK r : r = Leave(e, containers, 0) /\ IsLeft(r, e, containers, Len(containers) - 0)
  BY <1>2, <1>3, <1>5, LeaveIs
<1>7. OpenAs(r.blocks, SubSeq(containers, 1, 0))
  <2>1. Len(containers) - (Len(containers) - 0) = 0
    BY <1>4
  <2> QED
    BY <1>6, <2>1 DEF IsLeft
<1>8. SubSeq(containers, 1, 0) = <<>>
  BY <1>2 DEF IsContainers, IsSeq
<1>9. build' = r
  BY <1>3, <1>6 DEF EndText
<1> QED
  BY <1>1, <1>7, <1>8, <1>9

\* The invariant of the block phase.
LEMMA BlocksInvHolds == Spec => [](BlocksInv /\ AllClosed)
<1>1. Init => BlocksInv /\ AllClosed
  <2> SUFFICES ASSUME Init PROVE BlocksInv /\ AllClosed
    OBVIOUS
  <2>1. pc = "part" /\ build = NoBlocks /\ containers = <<>>
    BY DEF Init
  <2>2. OpenAs(build.blocks, containers)
    BY <2>1, StartIsSound
  <2> QED
    BY <2>1, <2>2 DEF BlocksInv, AllClosed
<1>2. BlocksInv /\ AllClosed /\ [Next]_vars => BlocksInv' /\ AllClosed'
  <2> SUFFICES ASSUME BlocksInv, AllClosed, [Next]_vars PROVE BlocksInv' /\ AllClosed'
    OBVIOUS
  <2>1. CASE UNCHANGED <<pc, line, pivot, containers, build>>
    BY <2>1 DEF BlocksInv, AllClosed
  <2>2. CASE UNCHANGED vars
    BY <2>1, <2>2 DEF vars, blockVars
  <2>3. CASE UNCHANGED blockOwn /\ pc \notin BlockSteps /\ pc' \notin BlockSteps
    <3>1. UNCHANGED <<containers, build>>
      BY <2>3 DEF blockOwn
    <3> QED
      BY <2>3, <3>1 DEF BlocksInv, AllClosed, BlockSteps
  <2>4. CASE ParsePart
    <3>1. pc' = "line" /\ pivot' = Dummy /\ containers' = <<>> /\ build' = NoBlocks
      BY <2>4 DEF ParsePart, StartText
    <3>2. InLine(build', containers', Dummy)
      BY <3>1, StartIsSound
    <3> QED
      BY <3>1, <3>2 DEF BlocksInv, AllClosed, BlockSteps
  <2>5. CASE Converting
    BY <2>3, <2>4, <2>5, ConvertingFrame DEF blockOwn
  <2>6. CASE InlinePhase
    BY <2>3, <2>6, InlineFrame
  <2>7. CASE EndText
    BY <2>7, EndTextStep DEF BlocksInv, AllClosed, BlockSteps
  <2>8. CASE BlockPhase /\ ~EndText
    <3>1. BlocksInv'
      <4>1. CASE BeginLine \/ Brother \/ Child \/ TextLine \/ EndLine
        BY <4>1, BeginLineStep, BrotherStep, ChildStep, TextLineStep, EndLineStep
      <4>2. CASE LeaveFence \/ LeaveHtml \/ LeaveEmptyItem
        BY <4>2, RetryStep
      <4>3. CASE \/ ContinueFence \/ CloseFence \/ ContinueHtml \/ BlankLine \/ SetextLine \/ HrLine
                 \/ TableLine \/ AtxLine \/ TableUnderlineLine \/ IndentedLine \/ OpenFence \/ OpenHtml
        BY <4>3, LeafStep
      <4>4. CASE AddBlank \/ AddSingle \/ AddSetextUnderline \/ AddTableUnderline \/ AddToBlock
        BY <4>4, AddBlankStep, AddSingleStep, AddSetextStep, AddTableStep, AddToBlockStep
      <4> QED
        BY <2>8, <4>1, <4>2, <4>3, <4>4 DEF BlockPhase
    <3>2. pc' \in BlockSteps
      <4> USE DEF BlockSteps
      <4>1. CASE BeginLine \/ LeaveFence \/ LeaveHtml \/ LeaveEmptyItem \/ Brother \/ Child \/ EndLine
        BY <4>1 DEF BeginLine, LeaveFence, LeaveHtml, LeaveEmptyItem, Brother, Child, EndLine
      <4>2. CASE \/ ContinueFence \/ CloseFence \/ ContinueHtml \/ BlankLine \/ IndentedLine
                 \/ OpenFence \/ OpenHtml \/ TextLine
        BY <4>2 DEF ContinueFence, CloseFence, ContinueHtml, BlankLine, IndentedLine, OpenFence, OpenHtml,
           TextLine, Settle
      <4>3. CASE SetextLine \/ HrLine \/ TableLine \/ AtxLine \/ TableUnderlineLine
        BY <4>3 DEF SetextLine, HrLine, TableLine, AtxLine, TableUnderlineLine, Leaf, Settle
      <4>4. CASE AddBlank \/ AddSingle \/ AddSetextUnderline \/ AddTableUnderline \/ AddToBlock
        BY <4>4 DEF AddBlank, AddSingle, AddSetextUnderline, AddTableUnderline, AddToBlock, Processed
      <4> QED
        BY <2>8, <4>1, <4>2, <4>3, <4>4 DEF BlockPhase
    <3> QED
      BY <3>1, <3>2 DEF AllClosed
  <2> QED
    BY <2>2, <2>5, <2>6, <2>7, <2>8 DEF Next, Shown
<1> QED
  BY <1>1, <1>2, PTL DEF Spec

(* Whatever the text is, between two lines *pivot_line is of a line of the *)
(* block under construction, and is the dummy when there is none: what     *)
(* md_process_line() asserts when an underline changes that block.         *)
THEOREM PivotIsOfTheBlock == Spec => []PivotIsCurrent
<1>1. BlocksInv => PivotIsCurrent
  BY DEF BlocksInv, InLine, Sound, PivotFits, PivotIsCurrent
<1> QED
  BY <1>1, BlocksInvHolds, PTL

(* Whatever the text is, block_bytes opens and closes containers in pairs; *)
(* what it has opened and not closed are the containers of ctx->containers *)
(* in their order, and every list among them knows the place of its own    *)
(* opener (block_byte_off), through all ends of blocks that remove entries *)
(* before it is written; when md_process_doc() is done nothing is open.    *)
THEOREM ContainersAreOpen == Spec => []ContainersMatchBuilt
<1>1. BlocksInv /\ AllClosed => ContainersMatchBuilt
  BY DEF BlocksInv, AllClosed, BlockSteps, InLine, InAdd, ContainersMatchBuilt
<1> QED
  BY <1>1, BlocksInvHolds, PTL

-----------------------------------------------------------------------------
(* The lines of the blocks are in the order of the text.                   *)

\* A line keeps a range of the text.
LineOK(l) == l.beg \in Nat /\ l.end \in Nat /\ 1 <= l.beg /\ l.beg <= l.end
Ordered(ls) ==
  /\ IsSeq(ls) /\ \A i \in 1 .. Len(ls) : LineOK(ls[i])
  /\ \A i, j \in 1 .. Len(ls) : i < j => ls[i].end < ls[j].beg

\* An entry of block_bytes: a leaf has a line.
Shaped(e) ==
  /\ "what" \in DOMAIN e /\ "type" \in DOMAIN e /\ "data" \in DOMAIN e /\ "lines" \in DOMAIN e
  /\ IsSeq(e.lines)
  /\ e.what = "leaf" => e.lines # <<>> /\ e.data \in Nat

\* Every line ends before those behind it begin.
Sorted(s) ==
  /\ IsSeq(s) /\ \A k \in 1 .. Len(s) : Shaped(s[k]) /\ Ordered(s[k].lines)
  /\ \A k, m \in 1 .. Len(s) : k < m =>
       \A i \in 1 .. Len(s[k].lines) : \A j \in 1 .. Len(s[m].lines) :
         s[k].lines[i].end < s[m].lines[j].beg
Under(s, x) == \A k \in 1 .. Len(s) : \A i \in 1 .. Len(s[k].lines) : s[k].lines[i].end < x

\* Some of the lines, in a row.
PartOf(r, l, d) == \A i \in 1 .. Len(r) : i + d \in 1 .. Len(l) /\ r[i] = l[i+d]
Less(e, s, k) == e.lines = <<>> \/ (k \in 1 .. Len(s) /\ \E d \in Nat : PartOf(e.lines, s[k].lines, d))

\* A part of ordered lines.
LEMMA PartOrdered ==
  ASSUME NEW l, NEW r, Ordered(l), IsSeq(r), NEW d \in Nat, PartOf(r, l, d)
  PROVE  Ordered(r)
<1>1. ASSUME NEW i \in 1 .. Len(r) PROVE LineOK(r[i])
  BY DEF PartOf, Ordered
<1>2. Len(r) \in Nat
  BY DEF IsSeq
<1>3. ASSUME NEW i \in 1 .. Len(r), NEW j \in 1 .. Len(r), i < j PROVE r[i].end < r[j].beg
  <2>1. PICK a : a = i + d
    OBVIOUS
  <2>2. PICK b : b = j + d
    OBVIOUS
  <2>3. a \in 1 .. Len(l) /\ b \in 1 .. Len(l) /\ a < b /\ r[i] = l[a] /\ r[j] = l[b]
    BY <1>2, <1>3, <2>1, <2>2 DEF PartOf
  <2> QED
    BY <2>3 DEF Ordered
<1> QED
  BY <1>1, <1>3 DEF Ordered

\* Blocks that have no more lines are as much in order.
LEMMA LessSorted ==
  ASSUME NEW s, NEW t, Sorted(s), IsSeq(t),
         \A k \in 1 .. Len(t) : Shaped(t[k]) /\ Less(t[k], s, k)
  PROVE  Sorted(t) /\ \A x : Under(s, x) => Under(t, x)
<1>0. Len(t) \in Nat /\ Len(s) \in Nat /\ \A k \in 1 .. Len(t) : Len(t[k].lines) \in Nat
  BY DEF IsSeq, Shaped, Sorted
<1>1. ASSUME NEW k \in 1 .. Len(t), NEW i \in 1 .. Len(t[k].lines)
      PROVE  k \in 1 .. Len(s) /\ \E n \in 1 .. Len(s[k].lines) : t[k].lines[i] = s[k].lines[n]
  <2>1. t[k].lines # <<>>
    BY <1>0
  <2> QED
    BY <2>1 DEF Less, PartOf
<1>2. ASSUME NEW k \in 1 .. Len(t) PROVE Ordered(t[k].lines)
  <2>1. CASE t[k].lines = <<>>
    <3>1. IsSeq(<<>>) /\ Len(<<>>) = 0
      BY DEF IsSeq
    <3> QED
      BY <2>1, <3>1 DEF Ordered
  <2>2. CASE t[k].lines # <<>>
    <3>1. PICK d \in Nat : k \in 1 .. Len(s) /\ PartOf(t[k].lines, s[k].lines, d)
      BY <2>2 DEF Less
    <3> QED
      BY <3>1, PartOrdered DEF Sorted, Shaped
  <2> QED
    BY <2>1, <2>2
<1>3. ASSUME NEW k \in 1 .. Len(t), NEW m \in 1 .. Len(t), k < m,
             NEW i \in 1 .. Len(t[k].lines), NEW j \in 1 .. Len(t[m].lines)
      PROVE  t[k].lines[i].end < t[m].lines[j].beg
  <2>1. PICK a \in 1 .. Len(s[k].lines) : t[k].lines[i] = s[k].lines[a]
    BY <1>1
  <2>2. PICK b \in 1 .. Len(s[m].lines) : t[m].lines[j] = s[m].lines[b]
    BY <1>1
  <2>3. k \in 1 .. Len(s) /\ m \in 1 .. Len(s)
    BY <1>1
  <2> QED
    BY <1>3, <2>1, <2>2, <2>3 DEF Sorted
<1>4. ASSUME NEW x, Under(s, x) PROVE Under(t, x)
  <2> SUFFICES ASSUME NEW k \in 1 .. Len(t), NEW i \in 1 .. Len(t[k].lines)
               PROVE  t[k].lines[i].end < x
    BY DEF Under
  <2>1. k \in 1 .. Len(s)
    BY <1>1
  <2>2. PICK n \in 1 .. Len(s[k].lines) : t[k].lines[i] = s[k].lines[n]
    BY <1>1
  <2> QED
    BY <1>4, <2>1, <2>2 DEF Under
<1> QED
  BY <1>2, <1>3, <1>4 DEF Sorted

\* The same entry.
LEMMA LessSelf ==
  ASSUME NEW s, NEW k \in 1 .. Len(s)
  PROVE  Less(s[k], s, k)
<1>1. PartOf(s[k].lines, s[k].lines, 0)
  <2> SUFFICES ASSUME NEW i \in 1 .. Len(s[k].lines)
               PROVE i + 0 \in 1 .. Len(s[k].lines) /\ s[k].lines[i] = s[k].lines[i+0]
    BY DEF PartOf
  <2>1. i + 0 = i
    OBVIOUS
  <2> QED
    BY <2>1
<1> QED
  BY <1>1 DEF Less

\* The build: block_bytes, and the block under construction is in it.
Built(b, x) ==
  /\ "blocks" \in DOMAIN b /\ "current" \in DOMAIN b /\ "defs" \in DOMAIN b
  /\ Sorted(b.blocks) /\ Under(b.blocks, x)
  /\ b.current => b.blocks # <<>>

-----------------------------------------------------------------------------
(* The operations of the build keep the order.                             *)

\* All but the last.
LEMMA FrontSorted ==
  ASSUME NEW s, Sorted(s), s # <<>>
  PROVE  /\ IsSeq(Front(s)) /\ Len(Front(s)) = Len(s) - 1 /\ Len(s) \in Nat /\ Len(s) >= 1
         /\ \A i \in 1 .. Len(s) - 1 : Front(s)[i] = s[i]
         /\ Sorted(Front(s)) /\ \A x : Under(s, x) => Under(Front(s), x)
<1>1. PICK X : s \in Seq(X)
  BY DEF Sorted, IsSeq
<1>2. PICK t : t = Front(s)
  OBVIOUS
<1>3. /\ t \in Seq(X) /\ Len(t) = Len(s) - 1 /\ Len(s) \in Nat /\ Len(s) >= 1
      /\ \A i \in 1 .. Len(s) - 1 : t[i] = s[i]
  BY <1>1, <1>2, FrontIs
<1>4. ASSUME NEW k \in 1 .. Len(t) PROVE Shaped(t[k]) /\ Less(t[k], s, k)
  <2>1. k \in 1 .. Len(s) /\ t[k] = s[k]
    BY <1>3
  <2> QED
    BY <2>1, LessSelf DEF Sorted
<1>5. IsSeq(t)
  BY <1>3 DEF IsSeq
<1>6. Sorted(t) /\ \A x : Under(s, x) => Under(t, x)
  BY <1>4, <1>5, LessSorted
<1> QED
  BY <1>2, <1>3, <1>5, <1>6

\* The last one gives way to one with some of its lines.
LEMMA LastReplaced ==
  ASSUME NEW s, Sorted(s), s # <<>>, NEW e, Shaped(e), NEW d \in Nat, PartOf(e.lines, Last(s).lines, d)
  PROVE  Sorted(Append(Front(s), e)) /\ \A x : Under(s, x) => Under(Append(Front(s), e), x)
<1>1. PICK n \in Nat : n = Len(s) /\ n >= 1
  BY FrontSorted
<1>2. PICK f : f = Front(s)
  OBVIOUS
<1>3. IsSeq(f) /\ Len(f) = n - 1 /\ \A i \in 1 .. n - 1 : f[i] = s[i]
  BY <1>1, <1>2, FrontSorted
<1>4. PICK t : t = Append(f, e)
  OBVIOUS
<1>5. IsSeq(t) /\ Len(t) = n /\ t[n] = e /\ \A i \in 1 .. n - 1 : t[i] = s[i]
  <2>1. (n - 1) + 1 = n
    BY <1>1
  <2> QED
    BY <1>3, <1>4, <2>1, AppendIs
<1>6. Last(s) = s[n]
  BY <1>1 DEF Last
<1>7. ASSUME NEW k \in 1 .. Len(t) PROVE Shaped(t[k]) /\ Less(t[k], s, k)
  <2>1. CASE k = n
    BY <1>1, <1>5, <1>6, <2>1 DEF Less
  <2>2. CASE k # n
    <3>1. k \in 1 .. n - 1 /\ k \in 1 .. Len(s)
      BY <1>1, <1>5, <2>2
    <3> QED
      BY <1>5, <3>1, LessSelf DEF Sorted
  <2> QED
    BY <2>1, <2>2
<1>8. Sorted(t) /\ \A x : Under(s, x) => Under(t, x)
  BY <1>5, <1>7, LessSorted
<1> QED
  BY <1>2, <1>4, <1>8

\* An entry without lines is put behind the others.
LEMMA NoLinesAdded ==
  ASSUME NEW s, Sorted(s), NEW e, Shaped(e), e.lines = <<>>
  PROVE  Sorted(Append(s, e)) /\ \A x : Under(s, x) => Under(Append(s, e), x)
<1>1. PICK t : t = Append(s, e)
  OBVIOUS
<1>2. /\ IsSeq(t) /\ Len(s) \in Nat /\ Len(t) = Len(s) + 1 /\ t[Len(s) + 1] = e
      /\ \A i \in 1 .. Len(s) : t[i] = s[i]
  BY <1>1, AppendIs DEF Sorted
<1>3. ASSUME NEW k \in 1 .. Len(t) PROVE Shaped(t[k]) /\ Less(t[k], s, k)
  <2>1. CASE k = Len(s) + 1
    BY <1>2, <2>1 DEF Less
  <2>2. CASE k # Len(s) + 1
    <3>1. k \in 1 .. Len(s)
      BY <1>2, <2>2
    <3> QED
      BY <1>2, <3>1, LessSelf DEF Sorted
  <2> QED
    BY <2>1, <2>2
<1> QED
  BY <1>1, <1>2, <1>3, LessSorted

\* What Keep builds.
LEMMA KeepBuilt ==
  ASSUME NEW x, NEW b, Built(b, x), b.blocks # <<>>, NEW leaf, leaf = Last(b.blocks), NEW defs,
         NEW rest, IsSeq(rest), NEW d \in Nat, PartOf(rest, leaf.lines, d)
  PROVE  Built(Keep(b, leaf, rest, defs), x)
<1> DEFINE heading == leaf.type = "h" /\ leaf.setext
           kept(l) == [blocks |-> Append(Front(b.blocks), l), current |-> FALSE, defs |-> defs]
           par == [leaf EXCEPT !.type = "p", !.lines = rest]
           part(y) == [leaf EXCEPT !.lines = y]
<1>0. Shaped(leaf) /\ Sorted(b.blocks) /\ Under(b.blocks, x)
  <2>1. leaf = b.blocks[Len(b.blocks)] /\ Len(b.blocks) \in 1 .. Len(b.blocks)
    BY LastIs DEF Built, Sorted
  <2> QED
    BY <2>1 DEF Built, Sorted
<1>a. ASSUME NEW l, Shaped(l), NEW dd \in Nat, PartOf(l.lines, leaf.lines, dd), NEW k,
             "blocks" \in DOMAIN k, "current" \in DOMAIN k, "defs" \in DOMAIN k,
             k.blocks = Append(Front(b.blocks), l)
      PROVE  Built(k, x)
  <2>1. Sorted(k.blocks) /\ Under(k.blocks, x)
    BY <1>0, <1>a, LastReplaced
  <2>2. k.blocks # <<>>
    <3>1. IsSeq(Front(b.blocks))
      BY <1>0, FrontSorted
    <3>2. Len(k.blocks) = Len(Front(b.blocks)) + 1 /\ Len(Front(b.blocks)) \in Nat
      BY <1>a, <3>1, AppendIs
    <3> QED
      BY <3>2
  <2> QED
    BY <1>a, <2>1, <2>2 DEF Built
<1>1. CASE rest = <<>>
  <2>1. Keep(b, leaf, rest, defs) = [kept(leaf) EXCEPT !.blocks = Front(b.blocks)]
    BY <1>1 DEF Keep
  <2>2. PICK k : k = [kept(leaf) EXCEPT !.blocks = Front(b.blocks)]
    OBVIOUS
  <2>3. /\ "blocks" \in DOMAIN k /\ "current" \in DOMAIN k /\ "defs" \in DOMAIN k
        /\ k.blocks = Front(b.blocks) /\ k.current = FALSE
    BY <2>2
  <2>4. Sorted(k.blocks) /\ Under(k.blocks, x)
    BY <1>0, <2>3, FrontSorted
  <2> HIDE DEF kept
  <2> QED
    BY <2>1, <2>2, <2>3, <2>4, Zenon DEF Built
<1>2. CASE rest # <<>> /\ heading /\ Len(rest) = 1
  <2>1. Keep(b, leaf, rest, defs) = [kept(par) EXCEPT !.current = TRUE]
    BY <1>2, Zenon DEF Keep
  <2>2. Shaped(par) /\ par.lines = rest
    BY <1>0, <1>2 DEF Shaped
  <2> HIDE DEF par
  <2>3. PICK k : k = [kept(par) EXCEPT !.current = TRUE]
    OBVIOUS
  <2>4. /\ "blocks" \in DOMAIN k /\ "current" \in DOMAIN k /\ "defs" \in DOMAIN k
        /\ k.blocks = Append(Front(b.blocks), par)
    BY <2>3
  <2>5. Built(k, x)
    BY <1>a, <2>2, <2>4
  <2> HIDE DEF kept
  <2> QED
    BY <2>1, <2>3, <2>5, Zenon
<1>3. CASE rest # <<>> /\ ~(heading /\ Len(rest) = 1)
  <2>1. PICK y : y = IF heading THEN Front(rest) ELSE rest
    OBVIOUS
  <2>2. Keep(b, leaf, rest, defs) = kept(part(y))
    BY <1>3, <2>1, Zenon DEF Keep
  <2>3. IsSeq(y) /\ y # <<>> /\ PartOf(y, leaf.lines, d)
    <3>1. CASE ~heading
      BY <1>3, <2>1, <3>1
    <3>2. CASE heading
      <4>1. PICK X : rest \in Seq(X)
        BY DEF IsSeq
      <4>2. /\ y \in Seq(X) /\ Len(y) = Len(rest) - 1 /\ Len(rest) \in Nat /\ Len(rest) >= 1
            /\ \A i \in 1 .. Len(rest) - 1 : y[i] = rest[i]
        BY <1>3, <2>1, <3>2, <4>1, FrontIs
      <4>3. Len(rest) # 1
        BY <1>3, <3>2
      <4>4. Len(y) >= 1
        BY <4>2, <4>3
      <4>5. PartOf(y, leaf.lines, d)
        BY <4>2 DEF PartOf
      <4>6. IsSeq(y)
        BY <4>2 DEF IsSeq
      <4> QED
        BY <4>4, <4>5, <4>6
    <3> QED
      BY <3>1, <3>2
  <2>4. Shaped(part(y)) /\ part(y).lines = y
    BY <1>0, <2>3 DEF Shaped
  <2> HIDE DEF part
  <2>5. PICK l : l = part(y)
    OBVIOUS
  <2>6. PICK k : k = kept(l)
    OBVIOUS
  <2>7. /\ "blocks" \in DOMAIN k /\ "current" \in DOMAIN k /\ "defs" \in DOMAIN k
        /\ k.blocks = Append(Front(b.blocks), l)
    BY <2>6
  <2>8. Built(k, x)
    BY <1>a, <2>3, <2>4, <2>5, <2>7
  <2> HIDE DEF kept
  <2> QED
    BY <2>2, <2>5, <2>6, <2>8, Zenon
<1> QED
  BY <1>1, <1>2, <1>3

-----------------------------------------------------------------------------
(* md_consume_link_reference_definitions()                                 *)

\* A turn of its loop, and before the first one.
Fasting == [lines |-> 0, defs |-> <<>>, more |-> TRUE]
Ate(ls, before, n) ==
  IF before.more /\ before.lines < Len(ls)
  THEN Eaten(before, Definition(From(ls, before.lines + 1))) ELSE before
EatSteps(g, ls, n) == g[0] = Fasting /\ \A k \in 1 .. n : g[k] = Ate(ls, g[k-1], k)

\* The fold of Consumed.
LEMMA EatFold ==
  ASSUME NEW ls, NEW n \in Nat, DOMAIN ls = 1 .. n
  PROVE  \E g : EatSteps(g, ls, n) /\ Consumed(ls) = g[n]
<1> DEFINE s == [k \in DOMAIN ls |-> k]
           b == Fasting
<1> DEFINE Body(f, t) == IF t = {} THEN b ELSE Ate(ls, f[t \ {Max(t)}], s[Max(t)])
           Solves(m, f) == f = [t \in SUBSET (1 .. m) |-> Body(f, t)]
<1>1. ASSUME NEW m \in 0 .. n - 1, NEW f, Solves(m, f)
      PROVE  \E h : Solves(m + 1, h)
  <2> DEFINE h == [t \in SUBSET (1 .. m + 1) |->
                    IF m + 1 \in t THEN Ate(ls, f[t \ {m + 1}], s[m + 1]) ELSE f[t]]
  <2>1. ASSUME NEW t \in SUBSET (1 .. m + 1) PROVE h[t] = Body(h, t)
    <3>1. CASE m + 1 \in t
      <4>1. Max(t) = m + 1
        <5>1. m + 1 \in Nat /\ t \subseteq 1 .. m + 1
          OBVIOUS
        <5> QED
          BY <3>1, <5>1, MaxTop
      <4>2. t \ {m + 1} \in SUBSET (1 .. m) /\ t \ {m + 1} \in SUBSET (1 .. m + 1) /\ m + 1 \notin t \ {m + 1}
        OBVIOUS
      <4>3. h[t \ {m + 1}] = f[t \ {m + 1}]
        BY <4>2
      <4> QED
        BY <3>1, <4>1, <4>3
    <3>2. CASE m + 1 \notin t
      <4>1. t \in SUBSET (1 .. m)
        BY <3>2
      <4>2. h[t] = f[t] /\ f[t] = Body(f, t)
        <5>1. h[t] = f[t]
          BY <3>2
        <5>2. f[t] = Body(f, t)
          <6> HIDE DEF Body
          <6> QED
            BY <1>1, <4>1
        <5> QED
          BY <5>1, <5>2
      <4>3. t # {} => h[t \ {Max(t)}] = f[t \ {Max(t)}]
        BY <3>2
      <4> QED
        BY <4>2, <4>3
    <3> QED
      BY <3>1, <3>2
  <2>2. h = [t \in SUBSET (1 .. m + 1) |-> h[t]]
    OBVIOUS
  <2> HIDE DEF h, Body
  <2> QED
    BY <2>1, <2>2
<1>2. \E f : Solves(0, f)
  <2>1. Solves(0, [t \in SUBSET (1 .. 0) |-> b])
    <3>1. \A t \in SUBSET (1 .. 0) : t = {}
      OBVIOUS
    <3> QED
      BY <3>1
  <2> HIDE DEF Solves
  <2> QED
    BY <2>1
<1>3. \E f : Solves(n, f)
  <2> HIDE DEF Solves
  <2> DEFINE M == {m \in 0 .. n : \E f : Solves(n - m, f)}
  <2>1. M \in SUBSET Nat /\ n \in M
    BY <1>2
  <2>2. PICK m \in M : \A k \in M : m <= k
    <3> HIDE DEF M
    <3> QED
      BY <2>1, LeastNat
  <2>3. PICK f : Solves(n - m, f)
    OBVIOUS
  <2>4. m = 0
    <3>1. SUFFICES ASSUME m # 0 PROVE FALSE
      OBVIOUS
    <3>2. n - m \in 0 .. n - 1 /\ (n - m) + 1 = n - (m - 1) /\ m - 1 \in 0 .. n
      BY <3>1
    <3>3. m - 1 \in M
      BY <1>1, <2>3, <3>2
    <3> QED
      BY <2>2, <3>3
  <2> QED
    BY <2>3, <2>4
<1> DEFINE iter == CHOOSE f : Solves(n, f)
<1>4. Solves(n, iter)
  <2> HIDE DEF Solves
  <2> QED
    BY <1>3
<1>5. Consumed(ls) = iter[1 .. n]
  BY DEF Consumed, FoldLeft, MapThenFoldSet, Ate, Fasting
<1> DEFINE g == [k \in 0 .. n |-> iter[1 .. k]]
<1>6. g[0] = b
  <2>1. iter[1 .. 0] = b
    <3> HIDE DEF iter
    <3>1. 1 .. 0 \in SUBSET (1 .. n) /\ 1 .. 0 = {}
      OBVIOUS
    <3> QED
      BY <1>4, <3>1
  <2> HIDE DEF iter
  <2> QED
    BY <2>1
<1>7. ASSUME NEW k \in 1 .. n PROVE g[k] = Ate(ls, g[k-1], s[k])
  <2> HIDE DEF iter
  <2>1. 1 .. k \in SUBSET (1 .. n) /\ k \in 1 .. k /\ (1 .. k) \ {k} = 1 .. k - 1
    OBVIOUS
  <2>2. Max(1 .. k) = k
    BY <2>1, MaxTop
  <2>3. iter[1 .. k] = Body(iter, 1 .. k)
    <3> HIDE DEF Body
    <3> QED
      BY <1>4, <2>1
  <2>4. g[k] = iter[1 .. k] /\ g[k-1] = iter[1 .. k - 1]
    OBVIOUS
  <2>5. 1 .. k # {}
    BY <2>1
  <2> HIDE DEF g
  <2> QED
    BY <2>1, <2>2, <2>3, <2>4, <2>5
<1> HIDE DEF g
<1>8. g[n] = iter[1 .. n]
  BY DEF g
<1> QED
  BY <1>5, <1>6, <1>7, <1>8 DEF EatSteps

\* What is left of a sequence.
LEMMA FromIs ==
  ASSUME NEW s, IsSeq(s), NEW i \in Nat, i >= 1
  PROVE  /\ IsSeq(From(s, i)) /\ Len(s) \in Nat /\ Len(From(s, i)) \in Nat
         /\ i <= Len(s) + 1 => Len(From(s, i)) = Len(s) - i + 1
         /\ \A k \in 1 .. Len(From(s, i)) : k + (i - 1) \in 1 .. Len(s) /\ From(s, i)[k] = s[k + (i - 1)]
<1>1. PICK X : s \in Seq(X)
  BY DEF IsSeq
<1>2. PICK n \in Nat : n = Len(s)
  BY <1>1
<1>3. PICK t : t = SubSeq(s, i, n)
  OBVIOUS
<1>4. CASE i <= n + 1
  <2>1. t \in Seq(X) /\ Len(t) = n - i + 1 /\ n - i + 1 \in Nat
    BY <1>1, <1>2, <1>3, <1>4
  <2>2. ASSUME NEW k \in 1 .. n - i + 1 PROVE k + (i - 1) \in 1 .. n /\ t[k] = s[k + (i - 1)]
    <3>1. k + (i - 1) \in 1 .. n /\ k + (i - 1) = i + k - 1
      BY <1>4
    <3> QED
      BY <1>1, <1>2, <1>3, <1>4, <3>1
  <2>3. IsSeq(t)
    BY <2>1 DEF IsSeq
  <2> QED
    BY <1>2, <1>3, <2>1, <2>2, <2>3 DEF From
<1>5. CASE i > n + 1
  <2>1. t = <<>> /\ Len(t) = 0
    BY <1>1, <1>2, <1>3, <1>5
  <2>2. IsSeq(t)
    BY <2>1 DEF IsSeq
  <2> QED
    BY <1>2, <1>3, <1>5, <2>1, <2>2 DEF From
<1> QED
  BY <1>4, <1>5

\* A line is found, or none.
LEMMA LineOfNat ==
  ASSUME NEW s, IsSeq(s), NEW p
  PROVE  LineOf(s, p) \in Nat
<1> DEFINE B == {i \in DOMAIN s : p <= s[i].end}
<1>1. B \in SUBSET Nat
  <2>1. DOMAIN s = 1 .. Len(s) /\ Len(s) \in Nat
    BY DEF IsSeq
  <2> QED
    BY <2>1
<1>2. LineOf(s, p) = IF B = {} THEN 0 ELSE Min(B)
  BY DEF LineOf
<1> HIDE DEF B
<1>3. B # {} => Min(B) \in B
  BY <1>1, MinIs
<1>4. CASE B = {}
  BY <1>2, <1>4
<1>5. CASE B # {}
  <2>1. LineOf(s, p) = Min(B)
    BY <1>2, <1>5, Zenon
  <2>2. Min(B) \in Nat
    BY <1>1, <1>3, <1>5, Zenon
  <2> QED
    BY <2>1, <2>2
<1> QED
  BY <1>4, <1>5

\* A definition takes some lines.
LEMMA DefinitionNat ==
  ASSUME NEW s, IsSeq(s)
  PROVE  "lines" \in DOMAIN Definition(s) /\ Definition(s).lines \in Nat
<1>0. "lines" \in DOMAIN NoDefinition /\ NoDefinition.lines \in Nat
  BY DEF NoDefinition
<1>1. ASSUME NEW label, NEW row \in Nat, NEW dest, NEW title, NEW titleRow \in Nat
      PROVE  LET d == DefinitionWith(s, label, row, dest, title, titleRow)
             IN  "lines" \in DOMAIN d /\ d.lines \in Nat
  BY <1>0 DEF DefinitionWith
<1>2. ASSUME NEW label, NEW row \in Nat, NEW dest, NEW title
      PROVE  LET d == DefinitionTo(s, label, row, dest, title) IN "lines" \in DOMAIN d /\ d.lines \in Nat
  <2>1. LineOf(s, title.end) \in Nat
    BY LineOfNat
  <2> QED
    BY <1>0, <1>1, <2>1 DEF DefinitionTo
<1>3. ASSUME NEW label, NEW at, at.row \in Nat
      PROVE  LET d == DefinitionFrom(s, label, at) IN "lines" \in DOMAIN d /\ d.lines \in Nat
  BY <1>0, <1>2, <1>3 DEF DefinitionFrom
<1>4. ASSUME NEW row \in Nat, NEW p PROVE Onwards(s, row, p).row \in Nat
  BY DEF Onwards, OnOrNext
<1>5. ASSUME NEW label
      PROVE  LET d == DefinitionOf(s, label) IN "lines" \in DOMAIN d /\ d.lines \in Nat
  <2>1. LineOf(s, label.after) \in Nat
    BY LineOfNat
  <2>2. PICK row \in Nat : row = LineOf(s, label.after)
    BY <2>1
  <2>3. PICK at : at = Onwards(s, row, label.after + 1) /\ at.row \in Nat
    BY <1>4
  <2>4. DefinitionOf(s, label) = DefinitionFrom(s, label, at) \/ DefinitionOf(s, label) = NoDefinition
    BY <2>2, <2>3 DEF DefinitionOf
  <2> QED
    BY <1>0, <1>3, <2>3, <2>4
<1> QED
  BY <1>5 DEF Definition

\* The definitions take some lines from the beginning of a block.
LEMMA ConsumedNat ==
  ASSUME NEW ls, IsSeq(ls)
  PROVE  Consumed(ls).lines \in Nat
<1>1. PICK n \in Nat : n = Len(ls) /\ DOMAIN ls = 1 .. n
  BY DEF IsSeq
<1>2. PICK g : EatSteps(g, ls, n) /\ Consumed(ls) = g[n]
  BY <1>1, EatFold
<1> DEFINE Good(b) == "lines" \in DOMAIN b /\ "more" \in DOMAIN b /\ "defs" \in DOMAIN b /\ b.lines \in Nat
           Bad == {k \in 0 .. n : ~Good(g[k])}
<1>3. Good(Fasting)
  BY DEF Fasting
<1>4. ASSUME NEW b, Good(b), NEW k PROVE Good(Ate(ls, b, k))
  <2>1. CASE ~(b.more /\ b.lines < Len(ls))
    BY <1>4, <2>1 DEF Ate
  <2>2. CASE b.more /\ b.lines < Len(ls)
    <3>1. PICK d : d = Definition(From(ls, b.lines + 1)) /\ "lines" \in DOMAIN d /\ d.lines \in Nat
      <4>1. b.lines + 1 \in Nat /\ b.lines + 1 >= 1
        BY <1>4
      <4>2. IsSeq(From(ls, b.lines + 1))
        BY <4>1, FromIs
      <4> QED
        BY <4>2, DefinitionNat
    <3>2. Ate(ls, b, k) = Eaten(b, d)
      BY <2>2, <3>1 DEF Ate
    <3>3. Good(Eaten(b, d))
      BY <1>4, <3>1 DEF Eaten
    <3> QED
      BY <3>2, <3>3
  <2> QED
    BY <2>1, <2>2
<1>5. Bad = {}
  <2>1. SUFFICES ASSUME Bad # {} PROVE FALSE
    OBVIOUS
  <2>2. PICK k \in Bad : \A j \in Bad : k <= j
    <3>1. Bad \in SUBSET Nat
      OBVIOUS
    <3> HIDE DEF Bad
    <3> QED
      BY <2>1, <3>1, LeastNat
  <2> HIDE DEF Good
  <2>3. k # 0
    BY <1>2, <1>3 DEF EatSteps
  <2>4. k \in 1 .. n /\ k - 1 \in 0 .. n /\ k - 1 \notin Bad
    BY <2>2, <2>3
  <2> QED
    BY <1>2, <1>4, <2>2, <2>4 DEF EatSteps
<1>6. n \in 0 .. n /\ Good(g[n])
  <2> HIDE DEF Good
  <2> QED
    BY <1>5
<1> QED
  BY <1>2, <1>6

\* md_end_current_block().
LEMMA EndBlockBuilt ==
  ASSUME NEW x, NEW b, Built(b, x)
  PROVE  Built(EndBlock(b), x)
<1>1. CASE ~b.current
  BY <1>1 DEF EndBlock
<1>2. CASE b.current
  <2>1. PICK leaf : leaf = Last(b.blocks)
    OBVIOUS
  <2>2. b.blocks # <<>> /\ IsSeq(leaf.lines)
    <3>1. b.blocks # <<>> /\ IsSeq(b.blocks)
      BY <1>2 DEF Built, Sorted
    <3>2. leaf = b.blocks[Len(b.blocks)] /\ Len(b.blocks) \in 1 .. Len(b.blocks)
      BY <2>1, <3>1, LastIs
    <3> QED
      BY <3>1, <3>2 DEF Built, Sorted, Shaped
  <2>3. EndBlock(b) = EndLeaf(b, leaf)
    BY <1>2, <2>1 DEF EndBlock
  <2>4. Built(Keep(b, leaf, leaf.lines, b.defs), x)
    <3>1. PartOf(leaf.lines, leaf.lines, 0)
      <4>1. \A i \in 1 .. Len(leaf.lines) : i + 0 = i
        OBVIOUS
      <4> QED
        BY <4>1 DEF PartOf
    <3> QED
      BY <2>1, <2>2, <3>1, KeepBuilt
  <2>5. Built(KeepBehind(b, leaf, Consumed(leaf.lines)), x)
    <3>1. PICK eaten : eaten = Consumed(leaf.lines)
      OBVIOUS
    <3>2. PICK d \in Nat : d = eaten.lines
      BY <2>2, <3>1, ConsumedNat
    <3>3. PICK r : r = From(leaf.lines, d + 1)
      OBVIOUS
    <3>4. (d + 1) - 1 = d /\ d + 1 \in Nat /\ d + 1 >= 1
      OBVIOUS
    <3>5. IsSeq(r) /\ PartOf(r, leaf.lines, d)
      BY <2>2, <3>3, <3>4, FromIs DEF PartOf
    <3>6. Built(Keep(b, leaf, r, b.defs \o eaten.defs), x)
      BY <2>1, <2>2, <3>5, KeepBuilt
    <3> QED
      BY <3>1, <3>2, <3>3, <3>6 DEF KeepBehind
  <2> QED
    BY <2>3, <2>4, <2>5 DEF EndLeaf
<1> QED
  BY <1>1, <1>2

\* md_push_container_bytes() behind what has ended.
LEMMA PushBuilt ==
  ASSUME NEW x, NEW b, Built(b, x), NEW what \in {"open", "close"}, NEW type, NEW data
  PROVE  Built(Push(b, ContainerBytes(what, type, data)), x)
<1>1. PICK b0 : b0 = EndBlock(b) /\ Built(b0, x)
  BY EndBlockBuilt
<1>2. PICK e : e = ContainerBytes(what, type, data)
  OBVIOUS
<1>3. Shaped(e) /\ e.lines = <<>>
  BY <1>2 DEF ContainerBytes, Shaped, IsSeq
<1>4. PICK t : t = Append(b0.blocks, e)
  OBVIOUS
<1>5. Sorted(t) /\ Under(t, x)
  BY <1>1, <1>3, <1>4, NoLinesAdded DEF Built
<1>6. t # <<>>
  <2>1. Len(t) = Len(b0.blocks) + 1 /\ Len(b0.blocks) \in Nat
    BY <1>1, <1>4, AppendIs DEF Built, Sorted
  <2> QED
    BY <2>1
<1>7. PICK r : r = [b0 EXCEPT !.blocks = t]
  OBVIOUS
<1>8. /\ "blocks" \in DOMAIN r /\ "current" \in DOMAIN r /\ "defs" \in DOMAIN r /\ r.blocks = t
  BY <1>1, <1>7 DEF Built
<1>9. r = Push(b, ContainerBytes(what, type, data))
  BY <1>1, <1>2, <1>4, <1>7 DEF Push, PushTo
<1> QED
  BY <1>5, <1>6, <1>8, <1>9 DEF Built

\* One container is left.
LEMMA LeaveOneBuilt ==
  ASSUME NEW x, NEW b, Built(b, x), NEW c
  PROVE  Built(LeaveOne(b, c), x)
<1>1. \A type, data : Built(Push(b, ContainerBytes("close", type, data)), x)
  BY PushBuilt
<1>2. \A type, data, type2, data2 :
        Built(Push(Push(b, ContainerBytes("close", type, data)), ContainerBytes("close", type2, data2)), x)
  BY <1>1, PushBuilt
<1> QED
  BY <1>1, <1>2 DEF LeaveOne

\* The containers are left.
LEMMA LeaveBuilt ==
  ASSUME NEW x, NEW b, Built(b, x), NEW c, IsSeq(c), NEW keep \in Nat
  PROVE  Built(Leave(b, c, keep), x)
<1>1. PICK s : s = Reverse(SubSeq(c, keep + 1, Len(c)))
  OBVIOUS
<1>2. PICK n \in Nat : DOMAIN s = 1 .. n
  <2>1. PICK t : t = From(c, keep + 1)
    OBVIOUS
  <2>2. keep + 1 \in Nat /\ keep + 1 >= 1
    OBVIOUS
  <2>3. Len(t) \in Nat
    BY <2>1, <2>2, FromIs
  <2>4. s = Reverse(t)
    BY <1>1, <2>1 DEF From
  <2> QED
    BY <2>3, <2>4 DEF Reverse
<1>3. PICK g : LeaveSteps(g, b, s, n) /\ FoldLeft(LeaveOne, b, s) = g[n]
  BY <1>2, LeaveFold
<1> DEFINE Bad == {k \in 0 .. n : ~Built(g[k], x)}
<1>4. Bad = {}
  <2>1. SUFFICES ASSUME Bad # {} PROVE FALSE
    OBVIOUS
  <2>2. PICK k \in Bad : \A j \in Bad : k <= j
    <3>1. Bad \in SUBSET Nat
      OBVIOUS
    <3> HIDE DEF Bad
    <3> QED
      BY <2>1, <3>1, LeastNat
  <2>3. k # 0
    BY <1>3 DEF LeaveSteps
  <2>4. k \in 1 .. n /\ k - 1 \in 0 .. n /\ k - 1 \notin Bad
    BY <2>2, <2>3
  <2> QED
    BY <1>3, <2>2, <2>4, LeaveOneBuilt DEF LeaveSteps
<1>5. n \in 0 .. n
  OBVIOUS
<1> QED
  BY <1>1, <1>3, <1>4, <1>5 DEF Leave

\* What has been built when containers are entered.
Entering(r, x) == "build" \in DOMAIN r /\ "conts" \in DOMAIN r /\ Built(r.build, x)

\* One container is entered.
LEMMA EnterOneBuilt ==
  ASSUME NEW x, NEW r, Entering(r, x), NEW i
  PROVE  Entering(EnterOne(r, i), x)
<1>1. PICK b : b = r.build /\ Built(b, x)
  BY DEF Entering
<1>2. PICK q : q = Push(b, ContainerBytes("open", "quote", 0)) /\ Built(q, x)
  BY <1>1, PushBuilt
<1>3. Entering([r EXCEPT !.build = q], x)
  BY <1>2 DEF Entering
<1>4. PICK e : e = EndBlock(b) /\ Built(e, x)
  BY <1>1, EndBlockBuilt
<1>5. \A type, data : Built(Push(e, ContainerBytes("open", type, data)), x)
  BY <1>4, PushBuilt
<1>6. \A type, data, type2, data2 :
        Built(Push(Push(e, ContainerBytes("open", type, data)), ContainerBytes("open", type2, data2)), x)
  BY <1>5, PushBuilt
<1>7. Entering(EnterList(e, r.conts, i), x)
  BY <1>6 DEF EnterList, Entering
<1>8. EnterOne(r, i) = [r EXCEPT !.build = q] \/ EnterOne(r, i) = EnterList(e, r.conts, i)
  BY <1>1, <1>2, <1>4 DEF EnterOne
<1> QED
  BY <1>3, <1>7, <1>8

\* The containers are entered.
LEMMA EnterBuilt ==
  ASSUME NEW x, NEW b, Built(b, x), NEW c, NEW n \in Nat
  PROVE  Built(Enter(b, c, n).build, x)
<1>1. PICK s : s = [k \in 1 .. n |-> Len(c) - n + k]
  OBVIOUS
<1>2. PICK first : first = [build |-> b, conts |-> c]
  OBVIOUS
<1>3. DOMAIN s = 1 .. n
  BY <1>1
<1>4. PICK g : EnterSteps(g, first, s, n) /\ FoldLeft(EnterOne, first, s) = g[n]
  BY <1>3, EnterFold
<1>5. Entering(first, x)
  BY <1>2 DEF Entering
<1> DEFINE Bad == {k \in 0 .. n : ~Entering(g[k], x)}
<1>6. Bad = {}
  <2>1. SUFFICES ASSUME Bad # {} PROVE FALSE
    OBVIOUS
  <2>2. PICK k \in Bad : \A j \in Bad : k <= j
    <3>1. Bad \in SUBSET Nat
      OBVIOUS
    <3> HIDE DEF Bad
    <3> QED
      BY <2>1, <3>1, LeastNat
  <2>3. k # 0
    BY <1>4, <1>5 DEF EnterSteps
  <2>4. k \in 1 .. n /\ k - 1 \in 0 .. n /\ k - 1 \notin Bad
    BY <2>2, <2>3
  <2> QED
    BY <1>4, <2>2, <2>4, EnterOneBuilt DEF EnterSteps
<1>7. n \in 0 .. n
  OBVIOUS
<1>8. Enter(b, c, n) = g[n]
  BY <1>1, <1>2, <1>4 DEF Enter
<1> QED
  BY <1>6, <1>7, <1>8 DEF Entering

\* A change of an entry that leaves its lines alone.
LEMMA SameLines ==
  ASSUME NEW x, NEW b, Built(b, x), NEW i, NEW e, NEW r,
         i \in 1 .. Len(b.blocks) => Shaped(e) /\ e.lines = b.blocks[i].lines,
         "blocks" \in DOMAIN r, "current" \in DOMAIN r, "defs" \in DOMAIN r,
         IsChange(r.blocks, b.blocks, i, e), r.current = b.current
  PROVE  Built(r, x) /\ Len(r.blocks) = Len(b.blocks)
<1>1. PICK s, t : s = b.blocks /\ t = r.blocks
  OBVIOUS
<1>2. /\ IsSeq(t) /\ Len(t) = Len(s) /\ Len(s) \in Nat
      /\ i \in 1 .. Len(s) => t[i] = e
      /\ \A k \in 1 .. Len(s) : k # i => t[k] = s[k]
  BY <1>1, ChangeIs DEF Built, Sorted
<1>3. Sorted(s) /\ Under(s, x) /\ (b.current => s # <<>>)
  BY <1>1 DEF Built
<1>4. ASSUME NEW k \in 1 .. Len(t) PROVE Shaped(t[k]) /\ Less(t[k], s, k)
  <2>1. k \in 1 .. Len(s) /\ Less(s[k], s, k) /\ Shaped(s[k])
    BY <1>2, <1>3, LessSelf DEF Sorted
  <2>2. Shaped(t[k]) /\ t[k].lines = s[k].lines
    BY <1>1, <1>2, <2>1
  <2> QED
    BY <2>1, <2>2 DEF Less
<1>5. Sorted(t) /\ Under(t, x)
  BY <1>2, <1>3, <1>4, LessSorted
<1>6. s # <<>> => t # <<>>
  <2>1. t = <<>> => Len(t) = 0
    OBVIOUS
  <2>2. Len(s) = 0 => s = <<>>
    BY <1>3 DEF Sorted, IsSeq
  <2> QED
    BY <1>2, <2>1, <2>2
<1> QED
  BY <1>1, <1>2, <1>3, <1>5, <1>6 DEF Built

-----------------------------------------------------------------------------
(* A line is added.                                                        *)

\* The last block has one line more, behind all the others.
LEMMA LineBehind ==
  ASSUME NEW s, Sorted(s), NEW x \in Nat, Under(s, x), NEW t, IsSeq(t), NEW m \in Nat, m >= 1, Len(t) = m,
         \A k \in 1 .. m - 1 : k \in 1 .. Len(s) /\ t[k] = s[k],
         NEW old, old = <<>> \/ (m \in 1 .. Len(s) /\ old = s[m].lines),
         NEW r, LineOK(r), x <= r.beg, NEW y \in Nat, r.end < y,
         Shaped(t[m]), t[m].lines = Append(old, r)
  PROVE  Sorted(t) /\ Under(t, y)
<1>1. Ordered(old) /\ \A i \in 1 .. Len(old) : old[i].end < x
  <2>1. CASE old = <<>>
    <3>1. IsSeq(<<>>) /\ Len(<<>>) = 0
      BY DEF IsSeq
    <3> QED
      BY <2>1, <3>1 DEF Ordered
  <2>2. CASE old # <<>>
    BY <2>2 DEF Sorted, Under
  <2> QED
    BY <2>1, <2>2
<1>2. PICK n \in Nat : n = Len(old)
  BY <1>1 DEF Ordered, IsSeq
<1>3. PICK new : new = t[m].lines
  OBVIOUS
<1>4. IsSeq(new) /\ Len(new) = n + 1 /\ new[n + 1] = r /\ \A i \in 1 .. n : new[i] = old[i]
  BY <1>1, <1>2, <1>3, AppendIs DEF Ordered
<1>5. r.beg \in Nat /\ r.end \in Nat /\ r.beg <= r.end
  BY DEF LineOK
<1>6. ASSUME NEW i \in 1 .. n + 1 PROVE LineOK(new[i]) /\ new[i].end < y
  <2>1. CASE i = n + 1
    BY <1>4, <2>1
  <2>2. CASE i # n + 1
    <3>1. i \in 1 .. n
      BY <2>2
    <3>2. LineOK(old[i]) /\ old[i].end < x /\ new[i] = old[i]
      BY <1>1, <1>2, <1>4, <3>1 DEF Ordered
    <3> QED
      BY <1>5, <3>2 DEF LineOK
  <2> QED
    BY <2>1, <2>2
<1>7. ASSUME NEW i \in 1 .. n + 1, NEW j \in 1 .. n + 1, i < j PROVE new[i].end < new[j].beg
  <2>1. i \in 1 .. n
    BY <1>7
  <2>2. LineOK(old[i]) /\ old[i].end < x /\ new[i] = old[i]
    BY <1>1, <1>2, <1>4, <2>1 DEF Ordered
  <2>3. CASE j = n + 1
    BY <1>4, <1>5, <2>2, <2>3 DEF LineOK
  <2>4. CASE j # n + 1
    <3>1. j \in 1 .. n /\ new[j] = old[j]
      BY <1>4, <2>4
    <3> QED
      BY <1>1, <1>2, <1>7, <2>1, <2>2, <3>1 DEF Ordered
  <2> QED
    BY <2>3, <2>4
<1>8. Ordered(new)
  BY <1>4, <1>6, <1>7 DEF Ordered
<1>9. ASSUME NEW k \in 1 .. m - 1
      PROVE  /\ k \in 1 .. Len(s) /\ t[k] = s[k] /\ Shaped(t[k]) /\ Ordered(t[k].lines)
             /\ \A i \in 1 .. Len(t[k].lines) : LineOK(t[k].lines[i]) /\ t[k].lines[i].end < x
             /\ \A i \in 1 .. Len(t[k].lines) : t[k].lines[i].end < y /\ t[k].lines[i].end < r.beg
  <2>1. k \in 1 .. Len(s) /\ t[k] = s[k] /\ Shaped(s[k]) /\ Ordered(s[k].lines)
    BY DEF Sorted
  <2>2. ASSUME NEW i \in 1 .. Len(s[k].lines)
        PROVE  LineOK(s[k].lines[i]) /\ s[k].lines[i].end < x
    BY <2>1 DEF Under, Ordered
  <2>3. ASSUME NEW i \in 1 .. Len(s[k].lines)
        PROVE  s[k].lines[i].end < y /\ s[k].lines[i].end < r.beg
    BY <1>5, <2>2 DEF LineOK
  <2> QED
    BY <2>1, <2>2, <2>3
<1>10. \A k \in 1 .. Len(t) : Shaped(t[k]) /\ Ordered(t[k].lines)
  <2> TAKE k \in 1 .. Len(t)
  <2>1. k = m \/ k \in 1 .. m - 1
    OBVIOUS
  <2> QED
    BY <1>3, <1>8, <1>9, <2>1
<1>11. Under(t, y)
  <2> SUFFICES ASSUME NEW k \in 1 .. Len(t), NEW i \in 1 .. Len(t[k].lines)
               PROVE  t[k].lines[i].end < y
    BY DEF Under
  <2>1. k = m \/ k \in 1 .. m - 1
    OBVIOUS
  <2> QED
    BY <1>3, <1>4, <1>6, <1>9, <2>1
<1>12. ASSUME NEW k \in 1 .. m, NEW k2 \in 1 .. m, k < k2,
              NEW i \in 1 .. Len(t[k].lines), NEW j \in 1 .. Len(t[k2].lines)
       PROVE  t[k].lines[i].end < t[k2].lines[j].beg
  <2>1. k \in 1 .. m - 1
    BY <1>12
  <2>2. /\ k \in 1 .. Len(s) /\ t[k] = s[k] /\ LineOK(t[k].lines[i]) /\ t[k].lines[i].end < x
        /\ t[k].lines[i].end < r.beg
    BY <1>9, <2>1
  <2>3. CASE k2 # m
    <3>1. k2 \in 1 .. m - 1
      BY <2>3
    <3>2. k2 \in 1 .. Len(s) /\ t[k2] = s[k2]
      BY <1>9, <3>1
    <3> QED
      BY <1>12, <2>2, <3>2 DEF Sorted
  <2>4. CASE k2 = m
    <3>1. j \in 1 .. n + 1
      BY <1>3, <1>4, <2>4
    <3>2. CASE j = n + 1
      BY <1>3, <1>4, <2>2, <2>4, <3>2
    <3>3. CASE j # n + 1
      <4>0. j \in 1 .. n /\ t[k2].lines = new
        BY <1>3, <2>4, <3>1, <3>3
      <4>1. j \in 1 .. n /\ t[k2].lines[j] = old[j]
        BY <1>4, <4>0
      <4>2. old # <<>>
        BY <1>2, <4>1
      <4>3. m \in 1 .. Len(s) /\ old = s[m].lines
        BY <4>2
      <4> QED
        BY <1>2, <1>12, <2>2, <2>4, <4>1, <4>3 DEF Sorted
    <3> QED
      BY <3>2, <3>3
  <2> QED
    BY <2>3, <2>4
<1> QED
  BY <1>10, <1>11, <1>12 DEF Sorted

\* What a block keeps of a line.
Kept(l) == [beg |-> l.beg, end |-> l.end, indent |-> l.indent]

\* md_add_line_into_current_block().
LEMMA AddLineBuilt ==
  ASSUME NEW x \in Nat, NEW b, Built(b, x), b.blocks # <<>>, NEW l, LineOK(l), x <= l.beg, NEW y \in Nat, l.end < y
  PROVE  Built(AddLine(b, l), y)
<1>1. PICK s : s = b.blocks
  OBVIOUS
<1>2. PICK m \in Nat : m = Len(s) /\ m >= 1 /\ IsSeq(s) /\ Sorted(s) /\ Under(s, x)
  BY <1>1, LastIs DEF Built, Sorted
<1>3. PICK r : r = Kept(l)
  OBVIOUS
<1>4. LineOK(r) /\ x <= r.beg /\ r.end < y
  BY <1>3 DEF Kept, LineOK
<1>5. PICK e : e = [s[m] EXCEPT !.lines = Append(@, r)]
  OBVIOUS
<1>6. PICK t : t = [s EXCEPT ![m] = e]
  OBVIOUS
<1>7. PICK z : z = [b EXCEPT !.blocks = t]
  OBVIOUS
<1>8. z = AddLine(b, l)
  BY <1>1, <1>2, <1>3, <1>5, <1>6, <1>7 DEF AddLine, Kept
<1>9. Shaped(e) /\ e.lines = Append(s[m].lines, r)
  <2>1. Shaped(s[m])
    BY <1>2 DEF Sorted
  <2>2. PICK ls : ls = Append(s[m].lines, r)
    OBVIOUS
  <2>3. IsSeq(ls) /\ Len(ls) >= 1
    <3>1. IsSeq(s[m].lines)
      BY <2>1 DEF Shaped
    <3>2. IsSeq(ls) /\ Len(s[m].lines) \in Nat /\ Len(ls) = Len(s[m].lines) + 1
      BY <2>2, <3>1, AppendIs
    <3> QED
      BY <3>2
  <2>4. ls # <<>>
    BY <2>3
  <2>5. e = [s[m] EXCEPT !.lines = ls]
    BY <1>5, <2>2
  <2> QED
    BY <2>1, <2>2, <2>3, <2>4, <2>5 DEF Shaped
<1>10. IsSeq(t) /\ Len(t) = m /\ t[m] = e /\ \A k \in 1 .. m - 1 : t[k] = s[k]
  <2>1. IsChange(t, s, m, e)
    BY <1>6 DEF IsChange
  <2>2. \A k \in 1 .. m - 1 : k \in 1 .. m /\ k # m
    OBVIOUS
  <2>3. IsSeq(s) /\ Len(s) = m /\ m \in 1 .. m
    BY <1>2
  <2>4. /\ IsSeq(t) /\ Len(t) = Len(s)
        /\ m \in 1 .. Len(s) => t[m] = e
        /\ \A k \in 1 .. Len(s) : k # m => t[k] = s[k]
    BY <2>1, <2>3, ChangeIs
  <2> QED
    BY <2>2, <2>3, <2>4
<1>11. Sorted(t) /\ Under(t, y)
  <2>1. PICK old : old = s[m].lines
    OBVIOUS
  <2>2. \A k \in 1 .. m - 1 : k \in 1 .. Len(s) /\ t[k] = s[k]
    BY <1>2, <1>10
  <2>3. m \in 1 .. Len(s)
    BY <1>2
  <2> QED
    BY <1>2, <1>4, <1>9, <1>10, <2>1, <2>2, <2>3, LineBehind
<1>12. /\ "blocks" \in DOMAIN z /\ "current" \in DOMAIN z /\ "defs" \in DOMAIN z /\ z.blocks = t
  BY <1>7 DEF Built
<1>13. t # <<>>
  BY <1>2, <1>10
<1> QED
  BY <1>8, <1>11, <1>12, <1>13 DEF Built

\* md_start_new_block() and its first line.
LEMMA StartAddBuilt ==
  ASSUME NEW x \in Nat, NEW b, Built(b, x), NEW l, LineOK(l), x <= l.beg, NEW y \in Nat, l.end < y, l.data \in Nat
  PROVE  Built(AddLine(StartBlock(b, l), l), y)
<1>1. PICK s : s = b.blocks
  OBVIOUS
<1>2. PICK n \in Nat : n = Len(s) /\ IsSeq(s) /\ Sorted(s) /\ Under(s, x)
  BY <1>1 DEF Built, Sorted, IsSeq
<1>3. PICK r : r = Kept(l)
  OBVIOUS
<1>4. LineOK(r) /\ x <= r.beg /\ r.end < y
  BY <1>3 DEF Kept, LineOK
<1>5. PICK e : e = [what |-> "leaf", type |-> BlockType(l.type), data |-> l.data, setext |-> FALSE, lines |-> <<>>]
  OBVIOUS
<1>6. PICK b2 : b2 = StartBlock(b, l)
  OBVIOUS
<1>7. PICK u : u = Append(s, e)
  OBVIOUS
<1>8. /\ "blocks" \in DOMAIN b2 /\ "current" \in DOMAIN b2 /\ "defs" \in DOMAIN b2 /\ b2.blocks = u
  BY <1>1, <1>5, <1>6, <1>7 DEF StartBlock, Built
<1>9. IsSeq(u) /\ Len(u) = n + 1 /\ u[n + 1] = e /\ \A i \in 1 .. n : u[i] = s[i]
  BY <1>2, <1>7, AppendIs
<1>10. PICK d : d = [e EXCEPT !.lines = Append(<<>>, r)]
  OBVIOUS
<1>11. PICK t : t = [u EXCEPT ![n + 1] = d]
  OBVIOUS
<1>12. PICK z : z = [b2 EXCEPT !.blocks = t]
  OBVIOUS
<1>13. z = AddLine(b2, l)
  <2>1. e.lines = <<>>
    BY <1>5
  <2>2. d = [u[n + 1] EXCEPT !.lines = Append(@, r)]
    BY <1>9, <1>10, <2>1
  <2> QED
    BY <1>3, <1>8, <1>9, <1>11, <1>12, <2>2 DEF AddLine, Kept
<1>14. Shaped(d) /\ d.lines = Append(<<>>, r)
  <2>1. PICK ls : ls = Append(<<>>, r)
    OBVIOUS
  <2>2. IsSeq(ls) /\ Len(ls) >= 1
    <3>1. IsSeq(<<>>) /\ Len(<<>>) = 0
      BY DEF IsSeq
    <3>2. IsSeq(ls) /\ Len(ls) = 0 + 1
      BY <2>1, <3>1, AppendIs
    <3> QED
      BY <3>2
  <2>3. ls # <<>>
    BY <2>2
  <2> QED
    BY <1>5, <1>10, <2>1, <2>2, <2>3 DEF Shaped
<1>15. IsSeq(t) /\ Len(t) = n + 1 /\ t[n + 1] = d /\ \A k \in 1 .. n : t[k] = s[k]
  <2>1. IsChange(t, u, n + 1, d)
    BY <1>11 DEF IsChange
  <2>2. \A k \in 1 .. n : k \in 1 .. n + 1 /\ k # n + 1
    OBVIOUS
  <2> QED
    BY <1>9, <2>1, <2>2, ChangeIs
<1>16. Sorted(t) /\ Under(t, y)
  <2>1. PICK old : old = <<>>
    OBVIOUS
  <2>2. PICK m \in Nat : m = n + 1 /\ m >= 1
    OBVIOUS
  <2>3. \A k \in 1 .. m - 1 : k \in 1 .. Len(s) /\ t[k] = s[k]
    BY <1>2, <1>15, <2>2
  <2>4. IsSeq(t) /\ Len(t) = m /\ Shaped(t[m]) /\ t[m].lines = Append(old, r)
    BY <1>14, <1>15, <2>1, <2>2
  <2>5. old = <<>> \/ (m \in 1 .. Len(s) /\ old = s[m].lines)
    BY <2>1
  <2>6. Sorted(s) /\ Under(s, x) /\ LineOK(r) /\ x <= r.beg /\ r.end < y
    BY <1>2, <1>4
  <2> QED
    BY <2>2, <2>3, <2>4, <2>5, <2>6, LineBehind
<1>17. /\ "blocks" \in DOMAIN z /\ "current" \in DOMAIN z /\ "defs" \in DOMAIN z /\ z.blocks = t
  BY <1>8, <1>12
<1>18. t # <<>>
  BY <1>15
<1> QED
  BY <1>6, <1>13, <1>16, <1>17, <1>18 DEF Built

-----------------------------------------------------------------------------
(* How far the scans of a line get.                                        *)

\* The end of a line is not before any of its positions.
LEMMA LineEndIs ==
  ASSUME Eot \in Nat, NEW p \in Nat
  PROVE  LineEnd(p) \in Nat /\ p <= LineEnd(p)
<1> DEFINE H == {q \in p .. Eot - 1 : CH(q) = "\n"}
<1>1. LineEnd(p) = IF H = {} THEN IF p > Eot THEN p ELSE Eot ELSE Min(H)
  BY DEF LineEnd, First
<1>2. CASE H = {}
  BY <1>1, <1>2
<1>3. CASE H # {}
  <2>1. PICK m \in H : m = Min(H)
    <3>1. H \in SUBSET Nat
      OBVIOUS
    <3> HIDE DEF H
    <3> QED
      BY <1>3, <3>1, MinIs
  <2> QED
    BY <1>1, <1>3, <2>1
<1> QED
  BY <1>2, <1>3

\* The blanks at p do not end before it.
LEMMA IndentationEnd ==
  ASSUME Eot \in Nat, NEW total, NEW p \in Nat
  PROVE  Indentation(total, p).end \in Nat /\ p <= Indentation(total, p).end
<1>1. Indentation(total, p).end = Skip(p, Eot, Blank)
  BY DEF Indentation
<1> QED
  BY <1>1, SkipIs

\* Nor does the scan for a closing fence.
LEMMA ClosingEnd ==
  ASSUME Eot \in Nat, NEW ch, NEW p \in Nat
  PROVE  ClosingFence(ch, p).end \in Nat /\ p <= ClosingFence(ch, p).end
<1>1. PICK run \in Nat : run = Skip(p, Eot, {ch}) /\ p <= run
  BY SkipIs
<1> DEFINE spaces == {" "}
<1> HIDE DEF spaces
<1>2. PICK e \in Nat : e = Skip(run, Eot, spaces) /\ run <= e
  BY SkipIs
<1>3. PICK z : z = ClosingFence(ch, p).end
  OBVIOUS
<1>4. z = run \/ z = e
  BY <1>1, <1>2, <1>3, Zenon DEF ClosingFence, spaces
<1>5. p <= e
  BY <1>1, <1>2
<1> QED
  BY <1>1, <1>2, <1>3, <1>4, <1>5

\* A container mark is behind its beginning.
LEMMA MarkBehind ==
  ASSUME Eot \in Nat, NEW indent, NEW p \in Nat, ContainerMark(indent, p) # NoMark
  PROVE  ContainerMark(indent, p).end \in Nat /\ p < ContainerMark(indent, p).end
<1> DEFINE top == Min({p + 9, Eot})
<1>1. top \in Nat
  <2>1. {p + 9, Eot} \in SUBSET Nat /\ {p + 9, Eot} # {}
    OBVIOUS
  <2>2. Min({p + 9, Eot}) \in {p + 9, Eot}
    BY <2>1, MinIs
  <2> QED
    BY <2>1, <2>2
<1> HIDE DEF top
<1>2. PICK d \in Nat : d = Skip(p, top, Digits) /\ p <= d
  BY <1>1, SkipIs
<1>3. ContainerMark(indent, p) = MarkTo(indent, p, d)
  BY <1>2 DEF ContainerMark, top
<1>4. MarkTo(indent, p, d).end = d + 1
  BY <1>3 DEF MarkTo
<1> QED
  BY <1>2, <1>3, <1>4

\* A task mark is not before where it is looked for.
LEMMA TaskBehind ==
  ASSUME Eot \in Nat, NEW p \in Nat, TaskMark(p) # 0
  PROVE  TaskMark(p) \in Nat /\ p <= TaskMark(p)
<1>1. PICK e \in Nat : e = p + 3
  OBVIOUS
<1>2. PICK at \in Nat : at = Skip(p, e, Blank) /\ p <= at
  BY SkipIs
<1>3. TaskMark(p) = at + 1 \/ TaskMark(p) = 0
  BY <1>1, <1>2 DEF TaskMark
<1> QED
  BY <1>2, <1>3

\* The data of a heading is a level.
LEMMA AtxNat ==
  ASSUME Eot \in Nat, NEW p \in Nat
  PROVE  AtxLevel(p) \in Nat
<1>1. PICK e \in Nat : e = Skip(p, Eot, {"#"}) /\ p <= e
  BY SkipIs
<1>2. AtxLevel(p) = e - p \/ AtxLevel(p) = 0
  BY <1>1 DEF AtxLevel
<1> QED
  BY <1>1, <1>2

\* That of a table is a number of columns.
LEMMA ColumnsNat ==
  ASSUME Eot \in Nat, NEW p \in Nat
  PROVE  TableColumns(p) \in Nat
<1>1. PICK e \in Nat : e = LineEnd(p)
  BY LineEndIs
<1>2. PICK st : st = [q \in p .. e |-> TRUE]
  OBVIOUS
<1>3. \E S \in SUBSET (p + 1 .. e) : TableColumns(p) = Cardinality(S) \/ TableColumns(p) = 0
  <2> DEFINE state[q \in p .. LineEnd(p)] == IF q = p THEN "start" ELSE UnderlineStep(state[q-1], CH(q-1))
             columns == {q \in p + 1 .. LineEnd(p) : state[q] = "dash" /\ state[q-1] # "dash"}
  <2>1. columns \in SUBSET (p + 1 .. e)
    BY <1>1
  <2>2. TableColumns(p) = Cardinality(columns) \/ TableColumns(p) = 0
    BY Zenon DEF TableColumns
  <2> HIDE DEF columns
  <2> QED
    BY <2>1, <2>2
<1>4. \A S \in SUBSET (p + 1 .. e) : Cardinality(S) \in Nat
  <2> TAKE S \in SUBSET (p + 1 .. e)
  <2>1. p + 1 \in Int /\ e \in Int
    OBVIOUS
  <2>2. IsFiniteSet(p + 1 .. e)
    BY <2>1, FS_Interval
  <2>3. IsFiniteSet(S)
    BY <2>2, FS_Subset
  <2> QED
    BY <2>3, FS_CardinalityType
<1> QED
  BY <1>3, <1>4

\* A container that is continued takes no more than is there.
LEMMA IntoOn ==
  ASSUME Eot \in Nat, NEW i, NEW s, "off" \in DOMAIN s, s.off \in Nat
  PROVE  "off" \in DOMAIN Into(s, i) /\ Into(s, i).off \in Nat /\ s.off <= Into(s, i).off
<1>0. PICK r : r = Into(s, i)
  OBVIOUS
<1>a. PICK next \in Nat : next = s.off + 1
  OBVIOUS
<1>b. PICK inner : inner = Indentation(s.total + 1, next)
  OBVIOUS
<1>c. inner.end \in Nat /\ next <= inner.end
  BY <1>b, IndentationEnd
<1>1. \/ r = s
      \/ r = InQuote(s, inner, i)
      \/ \E x : r = [s EXCEPT !.indent = x, !.parents = i]
  BY <1>0, <1>a, <1>b, Zenon DEF Into
<1>2. CASE r = s
  BY <1>0, <1>2
<1>3. CASE r = InQuote(s, inner, i)
  <2>1. "off" \in DOMAIN r /\ r.off = inner.end
    BY <1>3 DEF InQuote
  <2> QED
    BY <1>0, <1>a, <1>c, <2>1
<1>4. CASE \E x : r = [s EXCEPT !.indent = x, !.parents = i]
  <2>1. "off" \in DOMAIN r /\ r.off = s.off
    BY <1>4
  <2> QED
    BY <1>0, <2>1
<1> QED
  BY <1>1, <1>2, <1>3, <1>4

\* What md_analyze_line() begins with is behind the beginning of the line.
LEMMA DescendOn ==
  ASSUME Eot \in Nat, NEW n \in Nat, n = Len(containers), DOMAIN containers = 1 .. n, NEW p \in Nat
  PROVE  Descend(p).off \in Nat /\ p <= Descend(p).off
<1>1. PICK s : s = [i \in DOMAIN containers |-> i]
  OBVIOUS
<1>2. PICK margin : margin = Indentation(0, p) /\ margin.end \in Nat /\ p <= margin.end
  BY IndentationEnd
<1>3. PICK first : first = [off |-> margin.end, total |-> margin.columns, indent |-> margin.columns, parents |-> 0]
  OBVIOUS
<1>4. DOMAIN s = 1 .. n
  BY <1>1
<1>5. PICK g : IntoSteps(g, first, s, n) /\ FoldLeft(Into, first, s) = g[n]
  BY <1>4, IntoFold
<1>6. g[0] = first /\ \A k \in 1 .. n : g[k] = Into(g[k-1], s[k])
  BY <1>5 DEF IntoSteps
<1> DEFINE Good(k) == "off" \in DOMAIN g[k] /\ g[k].off \in Nat /\ p <= g[k].off
           Bad == {k \in 0 .. n : ~Good(k)}
<1>7. Bad = {}
  <2>1. SUFFICES ASSUME Bad # {} PROVE FALSE
    OBVIOUS
  <2>2. PICK k \in Bad : \A j \in Bad : k <= j
    <3>1. Bad \in SUBSET Nat
      OBVIOUS
    <3> HIDE DEF Bad
    <3> QED
      BY <2>1, <3>1, LeastNat
  <2>3. k # 0
    BY <1>2, <1>3, <1>6
  <2>4. k \in 1 .. n /\ k - 1 \in 0 .. n /\ k - 1 \notin Bad
    BY <2>2, <2>3
  <2>5. PICK d : d = g[k-1]
    OBVIOUS
  <2>6. "off" \in DOMAIN d /\ d.off \in Nat /\ p <= d.off
    BY <2>4, <2>5
  <2>7. g[k] = Into(d, s[k])
    BY <1>6, <2>4, <2>5
  <2>8. "off" \in DOMAIN g[k] /\ g[k].off \in Nat /\ d.off <= g[k].off
    BY <2>6, <2>7, IntoOn
  <2>9. Good(k)
    BY <2>6, <2>8
  <2> QED
    BY <2>9
<1>8. Good(n)
  BY <1>7
<1>9. PICK f : f = g[n] /\ "off" \in DOMAIN f /\ f.off \in Nat /\ p <= f.off
  BY <1>8
<1>10. Descend(p) = InLists(f)
  BY <1>1, <1>2, <1>3, <1>5, <1>9, Zenon DEF Descend, DescendFrom
<1>11. InLists(f) = f \/ \E m : InLists(f) = [f EXCEPT !.parents = m]
  BY Zenon DEF InLists
<1>12. InLists(f).off = f.off
  BY <1>9, <1>11
<1> QED
  BY <1>9, <1>10, <1>12

\* The contents of a line end on it.
LEMMA ContentsEnd ==
  ASSUME Eot \in Nat, line.beg \in Nat, line.off \in Nat, line.beg <= line.off
  PROVE  LineContents \in Nat /\ line.beg <= LineContents /\ LineContents <= LineEnd(line.off)
<1>1. PICK b \in Nat : b = line.beg
  OBVIOUS
<1>2. PICK e \in Nat : e = LineEnd(line.off) /\ b <= e
  BY <1>1, LineEndIs
<1> DEFINE set(x, S) == {line.beg} \cup {q \in line.beg + 1 .. x : CH(q-1) \notin S}
           back(x, S) == Max(set(x, S))
           sharp == {"#"}
           hashes == back(back(e, Blank), sharp)
           atx == IF hashes = line.beg \/ IsBlank(hashes - 1) THEN hashes ELSE e
           all == IF line.type = "atx" THEN atx ELSE e
<1>3. ASSUME NEW x \in Nat, NEW S, x <= e, b <= x
      PROVE  back(x, S) \in Nat /\ b <= back(x, S) /\ back(x, S) <= e
  <2>1. PICK T : T = set(x, S)
    OBVIOUS
  <2>2. T \in SUBSET (0 .. e) /\ T # {} /\ \A q \in T : b <= q
    BY <1>1, <1>2, <1>3, <2>1
  <2>3. PICK m : m = Max(T) /\ m \in T
    BY <1>2, <2>2, MaxIs
  <2>4. m \in Nat /\ b <= m /\ m <= e
    BY <2>2, <2>3
  <2> QED
    BY <2>1, <2>3, <2>4
<1>a. LineContents = e \/ LineContents = back(all, Blank)
  BY <1>2, Zenon DEF LineContents
<1>b. hashes = back(back(e, Blank), sharp)
  OBVIOUS
<1> HIDE DEF set, back, sharp
<1>4. PICK solid \in Nat : solid = back(e, Blank) /\ b <= solid /\ solid <= e
  BY <1>2, <1>3
<1>5. PICK h \in Nat : h = hashes /\ b <= h /\ h <= e
  BY <1>3, <1>4, <1>b
<1>c. atx = hashes \/ atx = e
  OBVIOUS
<1>d. all = atx \/ all = e
  OBVIOUS
<1> HIDE DEF hashes, atx, all
<1>6. PICK z \in Nat : z = all /\ b <= z /\ z <= e
  BY <1>2, <1>5, <1>c, <1>d
<1>7. PICK y \in Nat : y = back(z, Blank) /\ b <= y /\ y <= e
  BY <1>3, <1>6
<1>8. LineContents = e \/ LineContents = y
  BY <1>6, <1>7, <1>a
<1> QED
  BY <1>1, <1>2, <1>7, <1>8

-----------------------------------------------------------------------------
(* The invariant: what is built is behind of what is read.                 *)

\* The line under construction, of which so much is read.
Reading(l, p) ==
  /\ "off" \in DOMAIN l /\ "beg" \in DOMAIN l /\ "end" \in DOMAIN l /\ "data" \in DOMAIN l
  /\ l.off \in Nat /\ l.beg \in Nat /\ l.data \in Nat
  /\ p <= l.beg /\ l.beg <= l.off

\* The line under construction, which is all read.
IsRead(l, p) == LineOK(l) /\ l.end < p /\ l.data \in Nat

\* All that is built is before pos, and before the line that is added next.
OrderInv ==
  /\ pc \in BlockSteps => pos \in Nat /\ 1 <= pos /\ Eot \in Nat
  /\ pc = "line" => Built(build, pos)
  /\ pc \in {"rules", "tail"} => Built(build, pos) /\ Reading(line, pos)
  /\ pc = "add" => Built(build, line.beg) /\ IsRead(line, pos)
  /\ pc \notin BlockSteps => Sorted(build.blocks)

\* While a line is read the text stays.
LEMMA SameEot ==
  ASSUME UNCHANGED text
  PROVE  Eot' = Eot
BY DEF Eot

\* A rule that settles the line without anything new to it.
LEMMA ReadingOn ==
  ASSUME OrderInv, pc = "rules", pc' \in {"rules", "tail"}, UNCHANGED <<text, pos>>, Built(build', pos),
         Reading(line', pos)
  PROVE  OrderInv'
BY SameEot DEF OrderInv, BlockSteps

\* The changes of a rule that settles the line.
LEMMA SettleReads ==
  ASSUME OrderInv, pc = "rules", NEW changes, Settle(changes), UNCHANGED build,
         NEW beg \in Nat, beg = IF "beg" \in DOMAIN changes THEN changes.beg ELSE line.beg,
         NEW off \in Nat, off = IF "off" \in DOMAIN changes THEN changes.off ELSE line.off,
         line.beg <= beg, beg <= off,
         "data" \in DOMAIN changes => changes.data \in Nat
  PROVE  UNCHANGED text => OrderInv'
<1> SUFFICES ASSUME UNCHANGED text PROVE OrderInv'
  OBVIOUS
<1>1. line' = [f \in DOMAIN line |-> IF f \in DOMAIN changes THEN changes[f] ELSE line[f]] /\ pc' = "tail" /\ UNCHANGED pos
  BY DEF Settle
<1>2. Reading(line, pos) /\ pos \in Nat /\ Built(build, pos)
  BY DEF OrderInv, BlockSteps
<1>3. /\ "off" \in DOMAIN line' /\ "beg" \in DOMAIN line' /\ "end" \in DOMAIN line' /\ "data" \in DOMAIN line'
      /\ line'.off = off /\ line'.beg = beg /\ line'.data \in Nat
  BY <1>1, <1>2 DEF Reading
<1>4. pos <= beg
  BY <1>2 DEF Reading
<1>5. Reading(line', pos)
  BY <1>3, <1>4 DEF Reading
<1> QED
  BY <1>1, <1>2, <1>5, ReadingOn

\* md_analyze_line() begins.
LEMMA BeginReads ==
  ASSUME OrderInv, BlocksInv, BeginLine
  PROVE  OrderInv'
<1>1. pc = "line" /\ pc' = "rules" /\ UNCHANGED <<text, pos, build>> /\ pos \in Nat /\ 1 <= pos /\ Eot \in Nat /\ Built(build, pos)
  BY DEF BeginLine, OrderInv, BlockSteps
<1>2. PICK o, d, len, none : d = Descend(pos) /\ o = d.off /\ line' =
         [type |-> "none", off |-> o, beg |-> o, end |-> 0,
                  indent |-> d.indent, total |-> d.total, data |-> 0,
                  parents |-> d.parents, brothers |-> 0, children |-> 0,
                  killer |-> 0, pivot |-> pivot, task |-> none, enforce |-> FALSE,
                  loosening |-> len]
  BY Zenon DEF BeginLine
<1>3. IsSeq(containers)
  BY <1>1 DEF BlocksInv, InLine, Sound, IsContainers
<1>4. PICK n \in Nat : n = Len(containers) /\ DOMAIN containers = 1 .. n
  BY <1>3 DEF IsSeq
<1>5. o \in Nat /\ pos <= o
  BY <1>1, <1>2, <1>4, DescendOn
<1>6. /\ "off" \in DOMAIN line' /\ "beg" \in DOMAIN line' /\ "end" \in DOMAIN line' /\ "data" \in DOMAIN line'
      /\ line'.off = o /\ line'.beg = o /\ line'.data = 0
  BY <1>2
<1>7. Reading(line', pos)
  BY <1>5, <1>6 DEF Reading
<1> QED
  BY <1>1, <1>7, SameEot DEF OrderInv, BlockSteps

\* The rules that leave the places of the line alone.
LEMMA PlainReads ==
  ASSUME OrderInv, ContinueHtml \/ BlankLine \/ SetextLine \/ HrLine \/ TableLine \/ TableUnderlineLine \/ IndentedLine
                   \/ OpenFence \/ OpenHtml
  PROVE  OrderInv'
<1>1. pc = "rules" /\ UNCHANGED <<text, build>>
  BY DEF ContinueHtml, BlankLine, SetextLine, HrLine, TableLine, TableUnderlineLine, IndentedLine, OpenFence, OpenHtml,
         Leaf, Settle
<1>2. Reading(line, pos) /\ Eot \in Nat
  BY <1>1 DEF OrderInv, BlockSteps
<1>3. PICK o, b, m \in Nat : o = line.off /\ b = line.beg /\ b <= o /\ m = line.data
  BY <1>2 DEF Reading
<1>4. PICK n \in Nat : n = TableColumns(o)
  BY <1>2, ColumnsNat
<1>5. ASSUME NEW changes, Settle(changes), "beg" \in DOMAIN changes => changes.beg = b,
             "off" \in DOMAIN changes => changes.off = o, "data" \in DOMAIN changes => changes.data \in Nat
      PROVE  OrderInv'
  <2>1. b = IF "beg" \in DOMAIN changes THEN changes.beg ELSE line.beg
    BY <1>3, <1>5
  <2>2. o = IF "off" \in DOMAIN changes THEN changes.off ELSE line.off
    BY <1>3, <1>5
  <2>3. line.beg <= b
    BY <1>3
  <2> QED
    BY <1>1, <1>3, <1>5, <2>1, <2>2, <2>3, SettleReads
<1>6. \A type, data : data \in Nat /\ Leaf(type, o, b, data) => OrderInv'
  <2> SUFFICES ASSUME NEW type, NEW data \in Nat, Leaf(type, o, b, data) PROVE OrderInv'
    OBVIOUS
  <2>1. PICK changes : changes = [type |-> type, off |-> o, beg |-> b, data |-> data] /\ Settle(changes)
    BY DEF Leaf
  <2>2. changes.beg = b /\ changes.off = o /\ changes.data \in Nat
    BY <2>1
  <2> QED
    BY <1>5, <2>1, <2>2
<1>7. CASE SetextLine \/ HrLine \/ TableLine \/ TableUnderlineLine
  <2>1. \E type, data : data \in {1, 2, m, n} /\ Leaf(type, o, b, data)
    BY <1>3, <1>4, <1>7, Zenon DEF SetextLine, HrLine, TableLine, TableUnderlineLine
  <2> QED
    BY <1>6, <2>1
<1>8. ASSUME NEW changes, Settle(changes), "beg" \notin DOMAIN changes, "off" \notin DOMAIN changes,
             "data" \in DOMAIN changes => changes.data \in {0, 1}
      PROVE  OrderInv'
  BY <1>5, <1>8
<1>9. CASE ContinueHtml
  <2>1. \/ Settle([type |-> "html"])
        \/ Settle([type |-> "blank", indent |-> 0])
    BY <1>9, Zenon DEF ContinueHtml
  <2> QED
    BY <1>8, <2>1
<1>10. CASE BlankLine
  <2>1. \/ Settle([type |-> "blank"])
        \/ \E i : Settle([type |-> "indented", indent |-> i])
    BY <1>10, Zenon DEF BlankLine
  <2> QED
    BY <1>8, <2>1
<1>11. CASE IndentedLine
  <2>1. \E i : Settle([type |-> "indented", indent |-> i, data |-> 0])
    BY <1>11, Zenon DEF IndentedLine
  <2> QED
    BY <1>8, <2>1
<1>12. CASE OpenFence \/ OpenHtml
  <2>1. Settle([type |-> "fenced", data |-> 1, enforce |-> TRUE]) \/ Settle([type |-> "html", enforce |-> TRUE])
    BY <1>12, Zenon DEF OpenFence, OpenHtml
  <2> QED
    BY <1>8, <2>1
<1> QED
  BY <1>7, <1>9, <1>10, <1>11, <1>12

\* The rules that read on.
LEMMA FenceReads ==
  ASSUME OrderInv, ContinueFence \/ CloseFence \/ AtxLine \/ TextLine
  PROVE  OrderInv'
<1>1. pc = "rules" /\ UNCHANGED <<text, build>>
  BY DEF ContinueFence, CloseFence, AtxLine, TextLine, Leaf, Settle
<1>2. Reading(line, pos) /\ Eot \in Nat
  BY <1>1 DEF OrderInv, BlockSteps
<1>3. PICK o, b \in Nat : o = line.off /\ b = line.beg /\ b <= o
  BY <1>2 DEF Reading
<1>4. PICK e \in Nat : e = Closing.end /\ o <= e
  BY <1>2, <1>3, ClosingEnd DEF Closing
<1>5. ASSUME NEW changes, Settle(changes), NEW x \in Nat, NEW y \in Nat,
             "beg" \in DOMAIN changes => changes.beg = x, "beg" \notin DOMAIN changes => x = b,
             "off" \in DOMAIN changes => changes.off = y, "off" \notin DOMAIN changes => y = o,
             b <= x, x <= y,
             "data" \in DOMAIN changes => changes.data \in Nat
      PROVE  OrderInv'
  <2>1. x = IF "beg" \in DOMAIN changes THEN changes.beg ELSE line.beg
    BY <1>3, <1>5
  <2>2. y = IF "off" \in DOMAIN changes THEN changes.off ELSE line.off
    BY <1>3, <1>5
  <2>3. line.beg <= x
    BY <1>3, <1>5
  <2> QED
    BY <1>1, <1>5, <2>1, <2>2, <2>3, SettleReads
<1>6. CASE ContinueFence
  <2>1. PICK y \in Nat : y = (IF Flush THEN Closing.end ELSE line.off) /\ b <= y
    BY <1>3, <1>4
  <2>2. PICK i, changes : changes = [type |-> "fenced", off |-> y, indent |-> i] /\ Settle(changes)
    BY <1>6, <2>1, Zenon DEF ContinueFence
  <2>3. DOMAIN changes = {"type", "off", "indent"} /\ changes.off = y
    BY <2>2
  <2>4. "beg" \notin DOMAIN changes /\ "data" \notin DOMAIN changes
    BY <2>3
  <2> QED
    BY <1>3, <1>5, <2>1, <2>2, <2>3, <2>4
<1>7. CASE CloseFence
  <2>1. b <= e
    BY <1>3, <1>4
  <2>2. PICK changes : changes = [type |-> "blank", off |-> e] /\ Settle(changes)
    BY <1>4, <1>7, Zenon DEF CloseFence
  <2>3. DOMAIN changes = {"type", "off"} /\ changes.off = e
    BY <2>2
  <2>4. "beg" \notin DOMAIN changes /\ "data" \notin DOMAIN changes
    BY <2>3
  <2> QED
    BY <1>3, <1>5, <2>1, <2>2, <2>3, <2>4
<1>8. CASE AtxLine
  <2>1. PICK n \in Nat : n = AtxLevel(line.off)
    BY <1>2, <1>3, AtxNat
  <2>2. PICK from \in Nat : from = o + n
    OBVIOUS
  <2>3. PICK y \in Nat : y = Skip(from, Eot, Blank) /\ from <= y
    BY <1>2, SkipIs
  <2>4. b <= y
    BY <1>3, <2>2, <2>3
  <2>5. Leaf("atx", y, y, n)
    BY <1>3, <1>8, <2>1, <2>2, <2>3, Zenon DEF AtxLine
  <2>6. PICK changes : changes = [type |-> "atx", off |-> y, beg |-> y, data |-> n] /\ Settle(changes)
    BY <2>5 DEF Leaf
  <2>7. changes.beg = y /\ changes.off = y /\ changes.data = n /\ DOMAIN changes = {"type", "off", "beg", "data"}
    BY <2>6
  <2>8. "beg" \in DOMAIN changes /\ "off" \in DOMAIN changes /\ y <= y
    BY <2>7
  <2> QED
    BY <1>5, <2>1, <2>4, <2>6, <2>7, <2>8
<1>9. CASE TextLine
  <2>1. PICK task : task = IF ~Fresh /\ Last(containers).ch # ">" THEN TaskMark(line.off) ELSE 0
    OBVIOUS
  <2>2. task # 0 => task \in Nat /\ o <= task
    BY <1>2, <1>3, <2>1, TaskBehind
  <2>3. PICK y \in Nat : y = (IF task = 0 THEN line.off ELSE Skip(task + 2, Eot, Blank)) /\ b <= y /\ (task = 0 => y = o)
    <3>1. CASE task = 0
      BY <1>3, <3>1
    <3>2. CASE task # 0
      <4>1. PICK from \in Nat : from = task + 2 /\ b <= from
        BY <1>3, <2>2, <3>2
      <4>2. PICK y \in Nat : y = Skip(from, Eot, Blank) /\ from <= y
        BY <1>2, <4>1, SkipIs
      <4> QED
        BY <3>2, <4>1, <4>2
    <3> QED
      BY <3>1, <3>2
  <2>4. PICK x \in Nat : x = (IF task = 0 THEN line.beg ELSE y) /\ b <= x /\ x <= y
    BY <1>3, <2>3
  <2>5. PICK p, t, changes : changes = [type |-> "text", off |-> y, beg |-> x, parents |-> p, task |-> t] /\ Settle(changes)
    BY <1>9, <2>1, <2>3, <2>4, Zenon DEF TextLine
  <2>6. changes.beg = x /\ changes.off = y /\ DOMAIN changes = {"type", "off", "beg", "parents", "task"}
    BY <2>5
  <2>7. "beg" \in DOMAIN changes /\ "off" \in DOMAIN changes /\ "data" \notin DOMAIN changes
    BY <2>6
  <2> QED
    BY <1>5, <2>4, <2>5, <2>6, <2>7
<1> QED
  BY <1>6, <1>7, <1>8, <1>9

\* The rules that look at the line again.
LEMMA RetryReads ==
  ASSUME OrderInv, LeaveFence \/ LeaveHtml \/ LeaveEmptyItem
  PROVE  OrderInv'
<1>1. pc = "rules" /\ pc' = "rules" /\ UNCHANGED <<text, pos, build>>
  BY DEF LeaveFence, LeaveHtml, LeaveEmptyItem
<1>2. Reading(line, pos) /\ Eot \in Nat /\ Built(build, pos)
  BY <1>1 DEF OrderInv, BlockSteps
<1>3. PICK o, b \in Nat : o = line.off /\ b = line.beg /\ b <= o
  BY <1>2 DEF Reading
<1>4. PICK y \in Nat : y = (IF Flush THEN Closing.end ELSE line.off) /\ b <= y
  BY <1>2, <1>3, ClosingEnd DEF Closing
<1>5. Reading(line', pos)
  <2>1. CASE LeaveFence
    <3>1. line' = [line EXCEPT !.off = y, !.pivot = Dummy]
      BY <1>2, <1>4, <2>1 DEF LeaveFence, Reading
    <3>2. /\ "off" \in DOMAIN line' /\ "beg" \in DOMAIN line' /\ "end" \in DOMAIN line' /\ "data" \in DOMAIN line'
          /\ line'.off = y /\ line'.beg = b /\ line'.data = line.data
      BY <1>2, <1>3, <3>1 DEF Reading
    <3> QED
      BY <1>2, <1>3, <1>4, <3>2 DEF Reading
  <2>2. CASE LeaveHtml
    BY <1>2, <2>2 DEF LeaveHtml
  <2>3. CASE LeaveEmptyItem
    <3>1. line' = line \/ \E p, i : line' = [line EXCEPT !.parents = p, !.indent = i]
      <4>1. PICK p, i : line' = IF AllParents /\ InList /\ Fresh /\ EndsLikeItem(build)
                                THEN [line EXCEPT !.parents = @ - 1, !.indent = i] ELSE line
        BY <2>3, Zenon DEF LeaveEmptyItem
      <4> QED
        BY <4>1
    <3> QED
      BY <1>2, <3>1 DEF Reading
  <2> QED
    BY <2>1, <2>2, <2>3
<1> QED
  BY <1>1, <1>2, <1>5, ReadingOn

\* Behind a container mark.
LEMMA BehindReads ==
  ASSUME OrderInv, pc = "rules", Rule \in {"brother", "child"}
  PROVE  \E l : l = BehindMark(Mark).line /\ Reading(l, pos) /\ line.off < l.off
<1>1. Reading(line, pos) /\ Eot \in Nat
  BY DEF OrderInv, BlockSteps
<1>2. Mark # NoMark
  BY DEF Rule, MarkRule, LeafRule
<1>3. PICK o, b, p \in Nat : o = line.off /\ b = line.beg /\ b <= o /\ p = pos /\ p <= b
  BY <1>1 DEF Reading, OrderInv, BlockSteps
<1>4. PICK m \in Nat : m = Mark.end /\ o < m
  BY <1>1, <1>2, <1>3, MarkBehind DEF Mark
<1>5. PICK inner : inner = Indentation(line.total + (Mark.contents - Mark.mark), Mark.end)
  OBVIOUS
<1>6. PICK e \in Nat : e = inner.end /\ m <= e
  BY <1>1, <1>4, <1>5, IndentationEnd
<1>a. \E c, t, i, k : Behind(Mark, Mark.contents - Mark.mark, inner) =
               [line |-> [line EXCEPT !.off = inner.end, !.beg = inner.end, !.total = t, !.indent = i, !.killer = k,
                                      !.pivot = Dummy], container |-> c]
  BY Zenon DEF Behind
<1>b. BehindMark(Mark) = Behind(Mark, Mark.contents - Mark.mark, inner)
  BY <1>5, Zenon DEF BehindMark, BehindWidth
<1>7. PICK c, t, i, k, r : r = BehindMark(Mark) /\ r = [line |-> [line EXCEPT !.off = e, !.beg = e, !.total = t, !.indent = i,
                                                                !.killer = k, !.pivot = Dummy], container |-> c]
  BY <1>6, <1>a, <1>b
<1>8. PICK l : l = r.line /\ l = [line EXCEPT !.off = e, !.beg = e, !.total = t, !.indent = i, !.killer = k, !.pivot = Dummy]
  BY <1>7
<1>9. /\ "off" \in DOMAIN l /\ "beg" \in DOMAIN l /\ "end" \in DOMAIN l /\ "data" \in DOMAIN l
      /\ l.off = e /\ l.beg = e /\ l.data = line.data
  BY <1>1, <1>8 DEF Reading
<1>10. p <= e
  BY <1>3, <1>4, <1>6
<1>11. Reading(l, pos)
  BY <1>1, <1>3, <1>9, <1>10 DEF Reading
<1>12. line.off < l.off
  BY <1>3, <1>4, <1>6, <1>9
<1> QED
  BY <1>7, <1>8, <1>11, <1>12

\* Another item of the list, or a new container.
LEMMA MarkReads ==
  ASSUME OrderInv, BlocksInv, Brother \/ Child
  PROVE  OrderInv'
<1>1. pc = "rules" /\ pc' = "rules" /\ UNCHANGED <<text, pos>> /\ Rule \in {"brother", "child"}
  BY DEF Brother, Child
<1>2. Built(build, pos)
  BY <1>1 DEF OrderInv
<1>3. PICK l : l = BehindMark(Mark).line /\ Reading(l, pos) /\ line.off < l.off
  BY <1>1, BehindReads
<1>4. line' = [l EXCEPT !.brothers = 1] \/ line' = [l EXCEPT !.children = @ + 1]
  BY <1>3 DEF Brother, Child
<1>5. Reading(line', pos)
  BY <1>3, <1>4 DEF Reading
<1>6. Built(build', pos)
  <2>1. CASE Brother
    BY <1>2, <2>1 DEF Brother
  <2>2. CASE Child
    <3>1. PICK keep : keep = (IF line.children = 0 THEN line.parents + line.brothers ELSE Len(containers))
                      /\ build' = Leave(build, containers, keep)
      BY <2>2, Zenon DEF Child, n_containers
    <3>2. IsLine(line, containers, build) /\ IsSeq(containers)
      BY <1>1 DEF BlocksInv, InRules, Sound, IsContainers
    <3>3. keep \in Nat
      <4>1. line.parents \in Nat /\ line.brothers \in {0, 1} /\ Len(containers) \in Nat
        BY <3>2 DEF IsLine, IsSeq
      <4> QED
        BY <3>1, <4>1
    <3> QED
      BY <1>2, <3>1, <3>2, <3>3, LeaveBuilt
  <2> QED
    BY <2>1, <2>2
<1> QED
  BY <1>1, <1>5, <1>6, ReadingOn

\* A list turns out to be loose.
LEMMA LoosenedBuilt ==
  ASSUME NEW x, NEW b, Built(b, x), NEW c
  PROVE  Built(Loosened(b, c), x)
<1>1. PICK n, e, s : n = c.opener /\ s = b.blocks /\ e = s[n]
  OBVIOUS
<1>2. PICK d : d = [e EXCEPT !.loose = TRUE]
  OBVIOUS
<1>3. PICK t : t = [s EXCEPT ![n] = d]
  OBVIOUS
<1>4. PICK r : r = [b EXCEPT !.blocks = t]
  OBVIOUS
<1>5. r = Loosened(b, c)
  BY <1>1, <1>2, <1>3, <1>4 DEF Loosened
<1>6. /\ r.blocks = t /\ r.current = b.current
      /\ "blocks" \in DOMAIN r /\ "current" \in DOMAIN r /\ "defs" \in DOMAIN r
  BY <1>4 DEF Built
<1>7. n \in 1 .. Len(s) => Shaped(d) /\ d.lines = e.lines
  BY <1>1, <1>2 DEF Shaped, Built, Sorted
<1>8. IsChange(t, s, n, d)
  BY <1>3 DEF IsChange
<1> QED
  BY <1>1, <1>5, <1>6, <1>7, <1>8, SameLines

\* The last block is a heading or a table.
LEMMA UnderlinedBuilt ==
  ASSUME NEW x, NEW b, Built(b, x), b.blocks # <<>>, line.data \in Nat, NEW type
  PROVE  Built(Underlined(b, type), x) /\ Underlined(b, type).blocks # <<>>
<1>1. PICK n, e : n = Len(b.blocks) /\ e = b.blocks[n]
  OBVIOUS
<1>2. IsSeq(b.blocks) /\ n \in Nat /\ n >= 1 /\ n \in 1 .. Len(b.blocks) /\ Shaped(e)
  BY <1>1, LastIs DEF Built, Sorted
<1>3. PICK v : v = (type = "h")
  OBVIOUS
<1>4. PICK d : d = [e EXCEPT !.type = type, !.data = line.data, !.setext = v]
  OBVIOUS
<1>5. Shaped(d) /\ d.lines = e.lines
  BY <1>2, <1>4 DEF Shaped
<1>6. PICK t : t = [b.blocks EXCEPT ![n] = d]
  OBVIOUS
<1>7. PICK r : r = [b EXCEPT !.blocks = t]
  OBVIOUS
<1>8. r = Underlined(b, type)
  <2>1. "blocks" \in DOMAIN b /\ n \in DOMAIN b.blocks
    BY <1>1, <1>2 DEF Built, IsSeq
  <2>2. PICK u : u = Underlined(b, type)
    OBVIOUS
  <2>3. u = [b EXCEPT !.blocks[n].type = type, !.blocks[n].data = line.data, !.blocks[n].setext = v]
    BY <1>1, <1>3, <2>2, Zenon DEF Underlined
  <2>4. u = [b EXCEPT !.blocks = [[[b.blocks EXCEPT ![n].type = type] EXCEPT ![n].data = line.data]
                                              EXCEPT ![n].setext = v]]
    BY <2>1, <2>3
  <2>5. t = [[[b.blocks EXCEPT ![n].type = type] EXCEPT ![n].data = line.data] EXCEPT ![n].setext = v]
    BY <1>1, <1>4, <1>6, <2>1
  <2> QED
    BY <1>7, <2>2, <2>4, <2>5
<1>9. /\ r.blocks = t /\ r.current = b.current
      /\ "blocks" \in DOMAIN r /\ "current" \in DOMAIN r /\ "defs" \in DOMAIN r
  BY <1>7 DEF Built
<1>10. IsChange(t, b.blocks, n, d)
  BY <1>6 DEF IsChange
<1>11. Built(r, x) /\ Len(r.blocks) = n
  BY <1>1, <1>5, <1>9, <1>10, SameLines
<1>12. r.blocks # <<>>
  BY <1>2, <1>11
<1> QED
  BY <1>8, <1>11, <1>12

\* The containers of the line are left, gone on with and entered.
LEMMA MovedBuilt ==
  ASSUME NEW x, NEW b, Built(b, x), IsLine(line, containers, build), IsContainers(containers), NEW n \in Nat
  PROVE  Built(Moved(b, n).build, x)
<1>1. PICK k \in Nat : k = line.children
  BY DEF IsLine
<1>2. PICK keep \in Nat : keep = IF line.children = 0 THEN n ELSE n_containers
  BY DEF IsContainers, IsSeq, n_containers
<1>3. PICK left : left = Leave(b, containers, keep) /\ Built(left, x)
  BY <1>2, LeaveBuilt DEF IsContainers
<1>4. \A item : Built(NextItem(left, item), x)
  <2> TAKE item
  <2>1. PICK p : p = Push(left, ContainerBytes("close", "li", item.task)) /\ Built(p, x)
    BY <1>3, PushBuilt
  <2>2. Built(Push(p, ContainerBytes("open", "li", line.task)), x)
    BY <2>1, PushBuilt
  <2> QED
    BY <2>1, <2>2 DEF NextItem
<1>5. \E c : Moved(b, n) = Enter(left, c, k) \/ \E item : Moved(b, n) = Enter(NextItem(left, item), c, k)
  BY <1>1, <1>2, <1>3, Zenon DEF Moved
<1> QED
  BY <1>3, <1>4, <1>5, EnterBuilt

\* The end of md_analyze_line().
LEMMA EndReads ==
  ASSUME OrderInv, BlocksInv, EndLine
  PROVE  OrderInv'
<1>1. pc = "tail" /\ pc' = "add" /\ UNCHANGED text
  BY DEF EndLine
<1>2. Built(build, pos) /\ Reading(line, pos) /\ Eot \in Nat /\ pos \in Nat /\ 1 <= pos
  BY <1>1 DEF OrderInv, BlockSteps
<1>3. PICK p, b, o, e, z \in Nat : p = pos /\ b = line.beg /\ o = line.off /\ p <= b /\ b <= o
                                  /\ e = LineContents /\ b <= e /\ z = LineEnd(line.off) /\ e <= z /\ o <= z
  BY <1>2, ContentsEnd, LineEndIs DEF Reading
<1>4. line' = [line EXCEPT !.end = e] /\ pos' = z + 1
  BY <1>3 DEF EndLine
<1>5. line'.beg = b /\ line'.end = e /\ line'.data = line.data
  BY <1>2, <1>3, <1>4 DEF Reading
<1>6. IsRead(line', pos') /\ pos' \in Nat /\ 1 <= pos'
  BY <1>2, <1>3, <1>4, <1>5 DEF IsRead, LineOK, Reading
<1>7. Built(build', pos)
  <2>1. PICK n, c : /\ n = line.parents + line.brothers
                    /\ c = build \/ c = Loosened(build, containers[n])
                    /\ build' = Moved(c, n).build
    BY Zenon DEF EndLine
  <2>2. Built(c, pos)
    BY <1>2, <2>1, LoosenedBuilt
  <2>3. IsLine(line, containers, build) /\ IsContainers(containers)
    BY <1>1 DEF BlocksInv, InTail, Sound
  <2>4. n \in Nat
    BY <2>1, <2>3 DEF IsLine
  <2> QED
    BY <2>1, <2>2, <2>3, <2>4, MovedBuilt
<1>8. Under(build'.blocks, pos) => Under(build'.blocks, line'.beg)
  <2> SUFFICES ASSUME Under(build'.blocks, p), NEW k \in 1 .. Len(build'.blocks),
                      NEW i \in 1 .. Len(build'.blocks[k].lines)
               PROVE  build'.blocks[k].lines[i].end < b
    BY <1>3, <1>5 DEF Under
  <2>1. build'.blocks[k].lines[i].end < p
    BY DEF Under
  <2>2. build'.blocks[k].lines[i].end \in Nat
    BY <1>7 DEF Built, Sorted, Ordered, LineOK
  <2> QED
    BY <1>3, <2>1, <2>2
<1>9. Built(build', line'.beg)
  BY <1>7, <1>8 DEF Built
<1> QED
  BY <1>1, <1>2, <1>6, <1>9, SameEot DEF OrderInv, BlockSteps

\* What is built up to x is built up to whatever is behind x.
LEMMA BuiltOn ==
  ASSUME NEW x \in Nat, NEW y \in Nat, x <= y, NEW b, Built(b, x)
  PROVE  Built(b, y)
<1>1. Under(b.blocks, y)
  <2> SUFFICES ASSUME NEW k \in 1 .. Len(b.blocks), NEW i \in 1 .. Len(b.blocks[k].lines)
               PROVE  b.blocks[k].lines[i].end < y
    BY DEF Under
  <2>1. b.blocks[k].lines[i].end < x
    BY DEF Built, Under
  <2>2. b.blocks[k].lines[i].end \in Nat
    BY DEF Built, Sorted, Ordered, LineOK
  <2> QED
    BY <2>1, <2>2
<1> QED
  BY <1>1 DEF Built

\* The line is added to what is built.
LEMMA LineReads ==
  ASSUME OrderInv, BlocksInv, AddBlank \/ AddSingle \/ AddSetextUnderline \/ AddTableUnderline \/ AddToBlock
  PROVE  OrderInv'
<1>1. pc = "add" /\ pc' = "line" /\ UNCHANGED <<text, pos>>
  BY DEF AddBlank, AddSingle, AddSetextUnderline, AddTableUnderline, AddToBlock, Processed
<1>2. pos \in Nat /\ 1 <= pos /\ Eot \in Nat
  BY <1>1 DEF OrderInv, BlockSteps
<1>3. PICK x, y \in Nat : x = line.beg /\ y = pos /\ x <= y
  BY <1>1, <1>2 DEF OrderInv, IsRead, LineOK
<1>4. Built(build, x) /\ LineOK(line) /\ x <= line.beg /\ line.end < y /\ line.data \in Nat
  BY <1>1, <1>3 DEF OrderInv, IsRead
<1>5. PICK e : e = EndBlock(build) /\ Built(e, x)
  BY <1>4, EndBlockBuilt
<1>6. Built(AddLine(StartBlock(e, line), line), y)
  BY <1>3, <1>4, <1>5, StartAddBuilt
<1>7. CASE AddBlank
  <2>1. Built(e, y)
    BY <1>3, <1>5, BuiltOn
  <2> QED
    BY <1>1, <1>2, <1>3, <1>5, <1>7, <2>1, SameEot DEF AddBlank, OrderInv, BlockSteps
<1>8. CASE AddSingle
  <2>1. Built(EndBlock(AddLine(StartBlock(e, line), line)), y)
    BY <1>6, EndBlockBuilt
  <2> QED
    BY <1>1, <1>2, <1>3, <1>5, <1>8, <2>1, SameEot DEF AddSingle, OrderInv, BlockSteps
<1>9. ASSUME line.type \in Underlines
      PROVE  \A type : Built(AddLine(Underlined(build, type), line), y)
  <2> TAKE type
  <2>1. build.current
    BY <1>1, <1>9 DEF BlocksInv, InAdd
  <2>2. build.blocks # <<>>
    BY <1>4, <2>1 DEF Built
  <2>3. PICK u : u = Underlined(build, type) /\ Built(u, x) /\ u.blocks # <<>>
    BY <1>4, <2>2, UnderlinedBuilt
  <2>4. Built(AddLine(u, line), y)
    BY <1>3, <1>4, <2>3, AddLineBuilt
  <2> QED
    BY <2>3, <2>4
<1>10. CASE AddSetextUnderline
  <2>1. PICK a : a = AddLine(Underlined(build, "h"), line) /\ Built(a, y)
    BY <1>9, <1>10 DEF AddSetextUnderline, Underlines
  <2>2. build' = EndBlock(a)
    BY <1>10, <2>1 DEF AddSetextUnderline
  <2>3. Built(EndBlock(a), y)
    BY <2>1, EndBlockBuilt
  <2> QED
    BY <1>1, <1>2, <1>3, <2>2, <2>3, SameEot DEF OrderInv, BlockSteps
<1>11. CASE AddTableUnderline
  <2>1. Built(build', y)
    BY <1>9, <1>11 DEF AddTableUnderline, Underlines
  <2> QED
    BY <1>1, <1>2, <1>3, <2>1, SameEot DEF OrderInv, BlockSteps
<1>12. CASE AddToBlock
  <2>1. PICK b : /\ b = e \/ b = build
                 /\ build' = AddLine(IF b.current THEN b ELSE StartBlock(b, line), line)
    BY <1>5, <1>12, Zenon DEF AddToBlock
  <2>2. Built(b, x)
    BY <1>4, <1>5, <2>1
  <2>3. CASE b.current
    <3>1. b.blocks # <<>>
      BY <2>2, <2>3 DEF Built
    <3>2. Built(AddLine(b, line), y)
      BY <1>3, <1>4, <2>2, <3>1, AddLineBuilt
    <3> QED
      BY <1>1, <1>2, <1>3, <2>1, <2>3, <3>2, SameEot DEF OrderInv, BlockSteps
  <2>4. CASE ~b.current
    <3>1. Built(AddLine(StartBlock(b, line), line), y)
      BY <1>3, <1>4, <2>2, StartAddBuilt
    <3> QED
      BY <1>1, <1>2, <1>3, <2>1, <2>4, <3>1, SameEot DEF OrderInv, BlockSteps
  <2> QED
    BY <2>3, <2>4
<1> QED
  BY <1>7, <1>8, <1>10, <1>11, <1>12

\* No block.
LEMMA NoneBuilt ==
  ASSUME NEW b, b = NoBlocks, NEW x
  PROVE  Built(b, x)
<1>1. b.blocks = <<>> /\ b.current = FALSE /\ "blocks" \in DOMAIN b /\ "current" \in DOMAIN b /\ "defs" \in DOMAIN b
  BY DEF NoBlocks
<1>2. IsSeq(b.blocks) /\ Len(b.blocks) = 0
  <2>1. <<>> \in Seq({})
    OBVIOUS
  <2> QED
    BY <1>1, <2>1 DEF IsSeq
<1>3. Sorted(b.blocks) /\ Under(b.blocks, x)
  BY <1>2 DEF Sorted, Under
<1> QED
  BY <1>1, <1>3 DEF Built

\* The end of the text.
LEMMA EndTextReads ==
  ASSUME OrderInv, BlocksInv, EndText
  PROVE  OrderInv'
<1>1. pc = "line" /\ pc' = "blocks" /\ build' = Leave(EndBlock(build), containers, 0)
  BY DEF EndText
<1>2. Built(build, pos) /\ IsSeq(containers)
  BY <1>1 DEF OrderInv, BlocksInv, InLine, Sound, IsContainers
<1>3. PICK e : e = EndBlock(build) /\ Built(e, pos)
  BY <1>2, EndBlockBuilt
<1>4. Built(build', pos)
  BY <1>1, <1>2, <1>3, LeaveBuilt
<1> QED
  BY <1>1, <1>4 DEF OrderInv, Built, BlockSteps

\* A part of the answer becomes the text.
LEMMA ParseReads ==
  ASSUME TextOK, ParsePart
  PROVE  OrderInv'
<1>1. PICK t : t = Head(chunks) /\ text' = t /\ pc' = "line" /\ pos' = 1 /\ build' = NoBlocks
  BY DEF ParsePart, StartText
<1>2. t \in Seq(STRING)
  BY <1>1 DEF TextOK, ParsePart
<1>3. Eot' \in Nat
  BY <1>1, <1>2 DEF Eot
<1>4. Built(build', pos')
  BY <1>1, NoneBuilt
<1> QED
  BY <1>1, <1>3, <1>4 DEF OrderInv, BlockSteps

\* It holds.
LEMMA OrderHolds == Spec => []OrderInv
<1>1. Init => OrderInv
  <2> SUFFICES ASSUME Init PROVE OrderInv
    OBVIOUS
  <2>1. pc = "part" /\ build = NoBlocks
    BY DEF Init
  <2>2. Built(build, 1)
    BY <2>1, NoneBuilt
  <2> QED
    BY <2>1, <2>2 DEF OrderInv, Built, BlockSteps
<1>2. TextOK /\ BlocksInv /\ OrderInv /\ [Next]_vars => OrderInv'
  <2> SUFFICES ASSUME TextOK, BlocksInv, OrderInv, [Next]_vars PROVE OrderInv'
    OBVIOUS
  <2>1. CASE UNCHANGED <<text, pc, pos, line, build>>
    BY <2>1, SameEot DEF OrderInv
  <2>2. CASE UNCHANGED vars
    BY <2>1, <2>2 DEF vars, blockVars
  <2>3. CASE UNCHANGED blockOwn /\ pc \notin BlockSteps /\ pc' \notin BlockSteps
    <3>1. UNCHANGED build
      BY <2>3 DEF blockOwn
    <3> QED
      BY <2>3, <3>1 DEF OrderInv, BlockSteps
  <2>4. CASE Converting
    BY <2>3, <2>4, ConvertingFrame, ParseReads DEF blockOwn
  <2>5. CASE InlinePhase
    BY <2>3, <2>5, InlineFrame
  <2>6. CASE BlockPhase
    <3>1. CASE BeginLine \/ Brother \/ Child \/ EndLine \/ EndText
      BY <3>1, BeginReads, MarkReads, EndReads, EndTextReads
    <3>2. CASE LeaveFence \/ LeaveHtml \/ LeaveEmptyItem
      BY <3>2, RetryReads
    <3>3. CASE ContinueFence \/ CloseFence \/ AtxLine \/ TextLine
      BY <3>3, FenceReads
    <3>4. CASE ContinueHtml \/ BlankLine \/ SetextLine \/ HrLine \/ TableLine \/ TableUnderlineLine \/ IndentedLine
               \/ OpenFence \/ OpenHtml
      BY <3>4, PlainReads
    <3>5. CASE AddBlank \/ AddSingle \/ AddSetextUnderline \/ AddTableUnderline \/ AddToBlock
      BY <3>5, LineReads
    <3> QED
      BY <2>6, <3>1, <3>2, <3>3, <3>4, <3>5 DEF BlockPhase
  <2> QED
    BY <2>2, <2>4, <2>5, <2>6 DEF Next, Shown
<1> QED
  BY <1>1, <1>2, TextCorrect, BlocksInvHolds, PTL DEF Spec

(* Whatever the text is, the lines of the blocks are in the order of the   *)
(* text and none of them is there twice: reference definitions, underlines *)
(* and containers shorten, retype and drop blocks, but what is left is     *)
(* fit for the bisection of md_lookup_line().                              *)
THEOREM LinesAreInOrder ==
  Spec => []LinesInOrder
<1>1. OrderInv => LinesInOrder
  <2> SUFFICES ASSUME OrderInv PROVE LinesInOrder
    OBVIOUS
  <2>1. Sorted(build.blocks)
    <3>1. pc \in BlockSteps \/ pc \notin BlockSteps
      OBVIOUS
    <3> QED
      BY <3>1 DEF OrderInv, Built, BlockSteps
  <2>2. PICK s : s = build.blocks /\ Sorted(s)
    BY <2>1
  <2> SUFFICES ASSUME NEW k \in DOMAIN s, NEW m \in DOMAIN s, NEW i \in DOMAIN s[k].lines, NEW j \in DOMAIN s[m].lines
               PROVE  /\ s[k].lines[i].beg <= s[k].lines[i].end
                      /\ k < m \/ (k = m /\ i < j) => s[k].lines[i].end < s[m].lines[j].beg
    BY <2>2 DEF LinesInOrder
  <2>3. k \in 1 .. Len(s) /\ m \in 1 .. Len(s)
    BY <2>2 DEF Sorted, IsSeq
  <2>4. Ordered(s[k].lines) /\ Ordered(s[m].lines)
    BY <2>2, <2>3 DEF Sorted
  <2>5. i \in 1 .. Len(s[k].lines) /\ j \in 1 .. Len(s[m].lines)
    BY <2>4 DEF Ordered, IsSeq
  <2>6. s[k].lines[i].beg <= s[k].lines[i].end
    BY <2>4, <2>5 DEF Ordered, LineOK
  <2>7. k < m \/ (k = m /\ i < j) => s[k].lines[i].end < s[m].lines[j].beg
    BY <2>2, <2>3, <2>4, <2>5 DEF Sorted, Ordered
  <2> QED
    BY <2>6, <2>7
<1> QED
  BY <1>1, OrderHolds, PTL
=============================================================================
