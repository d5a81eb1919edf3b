---------------------------- MODULE LibraryProofs ----------------------------
(***************************************************************************)
(* Theorems about what is kept of documents and how their texts are read:  *)
(* the pages of a text, for every text and every page size that satisfies  *)
(* PageAssumption; the sections of a text, for every text and every limit; *)
(* the shelf, for every number of curators and files; what an agent finds  *)
(* and reads, for whatever texts and queries QueryAssumption allows; the   *)
(* readers of the rule graph, for every number of readers and whatever is  *)
(* submitted; and the fortune timeline, for every calendar that knows the  *)
(* years of the charts, whatever the births and however many the periods.  *)
(***************************************************************************)
EXTENDS RuleSearch, Knowledge, TextSections, FortuneTimeline, RuleGraphProofs

(***************************************************************************)
(* Numbers and sequences.                                                  *)
(***************************************************************************)

LEMMA Products ==
    ASSUME NEW a \in Int, NEW b \in Int, NEW c \in Nat, a <= b
    PROVE  a * c <= b * c
<1>1. (b - a) * c >= 0
  OBVIOUS
<1>2. (b - a) * c = b * c - a * c
  OBVIOUS
<1> QED BY <1>1, <1>2

LEMMA Quotients ==
    ASSUME NEW v \in Int, NEW c \in Nat \ {0}
    PROVE  v \div c \in Int /\ (v \div c) * c <= v /\ v < ((v \div c) + 1) * c
<1>1. v \div c \in Int
  OBVIOUS
<1>2. (v \div c) * c <= v
  OBVIOUS
<1>3. v < (v \div c) * c + c
  OBVIOUS
<1>4. ((v \div c) + 1) * c = (v \div c) * c + c
  <2>1. \A q \in Int : (q + 1) * c = q * c + c
    OBVIOUS
  <2> QED BY <1>1, <2>1
<1> QED BY <1>1, <1>2, <1>3, <1>4

\* A sequence of a finite set holds each of its members once.
LEMMA SeqsOf ==
    ASSUME NEW S, IsFiniteSet(S), NEW s \in SetToSeqs(S)
    PROVE  /\ Cardinality(S) \in Nat /\ Len(s) = Cardinality(S) /\ s \in Seq(S)
           /\ DOMAIN s = 1..Cardinality(S)
           /\ \A i, j \in DOMAIN s : s[i] = s[j] => i = j
           /\ ToSet(s) = S
<1> DEFINE n == Cardinality(S)
<1>1. n \in Nat
  BY FS_CardinalityType
<1>2. s \in [1..n -> S] /\ \A i, j \in 1..n : i # j => s[i] # s[j]
  BY DEF SetToSeqs
<1>3. s \in Injection(1..n, S)
  BY <1>2 DEF Injection, IsInjective
<1>4. Cardinality(1..n) = n
  BY <1>1, FS_Interval
<1>5. s \in Surjection(1..n, S)
  <2> HIDE DEF n
  <2> QED BY <1>3, <1>4, FS_Injection DEF n
<1>6. ToSet(s) = S
  BY <1>2, <1>5 DEF Surjection, ToSet
<1> HIDE DEF n
<1>7. s \in Seq(S) /\ Len(s) = n
  BY <1>1, <1>2
<1> QED BY <1>1, <1>2, <1>6, <1>7 DEF n

\* u is s at these positions, in their order: from f.
InOrderOf(u, s, P, f) ==
    /\ Len(u) \in Nat /\ DOMAIN u = 1..Len(u) /\ f \in [1..Len(u) -> P]
    /\ \A k \in 1..Len(u) : u[k] = s[f[k]]
    /\ \A k, l \in 1..Len(u) : k < l => f[k] < f[l]
    /\ \A p \in P : \E k \in 1..Len(u) : f[k] = p

LEMMA AtInOrder ==
    ASSUME NEW S, NEW s, NEW P \in SUBSET Nat, IsFiniteSet(P), \A p \in P : s[p] \in S
    PROVE  At(s, P) \in Seq(S) /\ \E f : InOrderOf(At(s, P), s, P, f)
<1> DEFINE n == Cardinality(P)
           f == [k \in 1..n |-> CHOOSE p \in P : Cardinality(Below(P, p)) = k - 1]
<1>1. /\ n \in Nat
      /\ \A p \in P : Cardinality(Below(P, p)) \in 0..(n - 1)
      /\ \A p, q \in P : p < q => Cardinality(Below(P, p)) < Cardinality(Below(P, q))
      /\ \A k \in 1..n : \E p \in P : Cardinality(Below(P, p)) = k - 1
  BY PositionOf
<1>2. \A k \in 1..n : f[k] \in P /\ Cardinality(Below(P, f[k])) = k - 1
  <2> TAKE k \in 1..n
  <2>1. \E p \in P : Cardinality(Below(P, p)) = k - 1
    BY <1>1
  <2>2. f[k] = CHOOSE p \in P : Cardinality(Below(P, p)) = k - 1
    OBVIOUS
  <2> HIDE DEF f
  <2> QED BY <2>1, <2>2
<1>3. At(s, P) = [k \in 1..n |-> s[f[k]]]
  BY DEF At, Below
<1>4. f = [k \in 1..n |-> f[k]]
  OBVIOUS
<1> HIDE DEF f, n
<1>5. f \in [1..n -> P]
  BY <1>2, <1>4
<1>6. PICK u : u = At(s, P)
  OBVIOUS
<1>7. u \in [1..n -> S] /\ \A k \in 1..n : u[k] = s[f[k]]
  BY <1>2, <1>3, <1>6
<1>8. u \in Seq(S) /\ Len(u) = n /\ DOMAIN u = 1..n
  BY <1>1, <1>7
<1>9. ASSUME NEW k \in 1..n, NEW l \in 1..n, k < l PROVE f[k] < f[l]
  <2>1. PICK p \in P, q \in P : p = f[k] /\ q = f[l] /\ Cardinality(Below(P, p)) = k - 1
                                 /\ Cardinality(Below(P, q)) = l - 1
    BY <1>2
  <2>2. p \in Nat /\ q \in Nat
    OBVIOUS
  <2>3. ~(q < p) /\ p # q
    BY <1>1, <1>9, <2>1
  <2> QED BY <2>1, <2>2, <2>3
<1>10. ASSUME NEW p \in P PROVE \E k \in 1..n : f[k] = p
  <2>1. PICK c \in 0..(n - 1) : c = Cardinality(Below(P, p))
    BY <1>1
  <2>2. PICK k \in 1..n : k - 1 = c
    <3>1. c + 1 \in 1..n /\ (c + 1) - 1 = c
      BY <1>1, <2>1
    <3> QED BY <3>1
  <2>3. PICK q \in P : q = f[k] /\ Cardinality(Below(P, q)) = c
    BY <1>2, <2>2
  <2>4. p \in Nat /\ q \in Nat
    OBVIOUS
  <2>5. ~(q < p) /\ ~(p < q)
    BY <1>1, <2>1, <2>3
  <2> QED BY <2>2, <2>3, <2>4, <2>5
<1>11. InOrderOf(u, s, P, f)
  BY <1>1, <1>5, <1>7, <1>8, <1>9, <1>10 DEF InOrderOf
<1> QED BY <1>6, <1>8, <1>11

\* The beginning of a sequence.
LEMMA BeginningIs ==
    ASSUME NEW S, NEW s \in Seq(S), NEW limit \in Nat
    PROVE  LET u == SubSeq(s, 1, Smaller(Len(s), limit))
           IN /\ u \in Seq(S) /\ Len(u) \in Nat /\ DOMAIN u = 1..Len(u)
              /\ Len(u) = Smaller(Len(s), limit) /\ Len(u) <= Len(s) /\ Len(u) <= limit
              /\ \A i \in 1..Len(u) : u[i] = s[i] /\ i \in DOMAIN s
<1>1. CASE Len(s) < limit
  <2>1. Smaller(Len(s), limit) = Len(s)
    BY <1>1 DEF Smaller
  <2> QED BY <1>1, <2>1
<1>2. CASE ~(Len(s) < limit)
  <2>1. Smaller(Len(s), limit) = limit
    BY <1>2 DEF Smaller
  <2> QED BY <1>2, <2>1
<1> QED BY <1>1, <1>2

\* The smallest and the largest of some numbers.
LEMMA MinIsFirst ==
    ASSUME NEW S \in SUBSET Nat, S # {}
    PROVE  Min(S) \in S /\ \A x \in S : Min(S) <= x
<1>1. \E n \in S : \A m \in S : n <= m
  BY SmallestOf
<1> QED BY <1>1, Zenon DEF Min

LEMMA MaxIsLast ==
    ASSUME NEW b \in Nat, NEW S \in SUBSET (0 .. b), S # {}
    PROVE  Max(S) \in S /\ \A x \in S : x <= Max(S)
<1> DEFINE T == {b - x : x \in S}
<1>1. T \in SUBSET Nat /\ T # {}
  <2>1. \A x \in S : x \in Nat /\ x <= b
    OBVIOUS
  <2>2. \A x \in S : b - x \in Nat
    BY <2>1
  <2>3. PICK x : x \in S
    OBVIOUS
  <2>4. b - x \in T
    BY <2>3
  <2> QED BY <2>2, <2>4
<1>2. PICK n \in T : \A m \in T : n <= m
  <2> HIDE DEF T
  <2> QED BY <1>1, SmallestOf
<1>3. PICK x \in S : n = b - x
  BY <1>2
<1>4. \A y \in S : x >= y
  <2> TAKE y \in S
  <2>1. b - x <= b - y
    BY <1>2, <1>3
  <2> QED BY <2>1
<1>5. Max(S) \in S /\ \A y \in S : Max(S) >= y
  BY <1>3, <1>4, Zenon DEF Max
<1> QED BY <1>5

(***************************************************************************)
(* The pages of a text.                                                    *)
(***************************************************************************)

\* Going behind a newline of a window stays within the window.
LEMMA AfterLastBounds ==
    ASSUME NEW ns \in SUBSET Int, NEW a \in Int, NEW b \in Int, NEW z \in Int,
           \A n \in ns : a <= n /\ n < b
    PROVE  \/ AfterLast(ns, z) = z
           \/ AfterLast(ns, z) \in Int /\ a < AfterLast(ns, z) /\ AfterLast(ns, z) <= b
<1> DEFINE c == CHOOSE n \in ns : IsLast(n, ns)
<1>1. CASE \E n \in ns : IsLast(n, ns)
  <2>1. c \in ns
    BY <1>1
  <2>2. AfterLast(ns, z) = c + 1
    BY <1>1 DEF AfterLast
  <2> HIDE DEF c
  <2> QED BY <2>1, <2>2
<1>2. CASE ~ \E n \in ns : IsLast(n, ns)
  BY <1>2 DEF AfterLast
<1> QED BY <1>1, <1>2

LEMMA AfterFirstBounds ==
    ASSUME NEW ns \in SUBSET Int, NEW a \in Int, NEW b \in Int, NEW z \in Int,
           \A n \in ns : a <= n /\ n < b
    PROVE  \/ AfterFirst(ns, z) = z
           \/ AfterFirst(ns, z) \in Int /\ a < AfterFirst(ns, z) /\ AfterFirst(ns, z) <= b
<1> DEFINE c == CHOOSE n \in ns : IsFirst(n, ns)
<1>1. CASE \E n \in ns : IsFirst(n, ns)
  <2>1. c \in ns
    BY <1>1
  <2>2. AfterFirst(ns, z) = c + 1
    BY <1>1 DEF AfterFirst
  <2> HIDE DEF c
  <2> QED BY <2>1, <2>2
<1>2. CASE ~ \E n \in ns : IsFirst(n, ns)
  BY <1>2 DEF AfterFirst
<1> QED BY <1>1, <1>2

\* A page ends where it would without newlines, or at most Lookahead later.
LEMMA PageEndBounds ==
    ASSUME NEW content, IsText(content), NEW start \in Nat, start < content.length
    PROVE  /\ page_end(content, start) \in Int
           /\ page_end(content, start) <= content.length
           /\ page_end(content, start) <= start + PageChars + Lookahead
           /\ \/ page_end(content, start) = content.length
              \/ page_end(content, start) >= start + PageChars
<1> DEFINE target == Smaller(content.length, start + PageChars)
           far == Smaller(content.length, target + Lookahead)
           ns == Newlines(content, target, far)
<1>1. /\ target \in Int /\ far \in Int /\ content.length \in Nat
      /\ target <= content.length /\ target <= start + PageChars
      /\ far <= content.length /\ far <= target + Lookahead
      /\ target = content.length \/ target = start + PageChars
  BY PageAssumption DEF Smaller, IsText
<1>2. CASE target >= content.length
  <2>1. page_end(content, start) = content.length
    BY <1>2 DEF page_end
  <2> QED BY <1>1, <1>2, <2>1, PageAssumption
<1>3. CASE ~(target >= content.length)
  <2>1. ns \in SUBSET Int /\ \A n \in ns : target <= n /\ n < far
    BY DEF Newlines, IsText
  <2>2. page_end(content, start) = AfterFirst(ns, target)
    BY <1>3 DEF page_end
  <2> HIDE DEF target, far, ns
  <2>3. \/ AfterFirst(ns, target) = target
        \/ AfterFirst(ns, target) \in Int /\ target < AfterFirst(ns, target) /\ AfterFirst(ns, target) <= far
    BY <1>1, <2>1, AfterFirstBounds
  <2> QED BY <1>1, <1>3, <2>2, <2>3, PageAssumption
<1> QED BY <1>2, <1>3

LEMMA PageStartIs ==
    ASSUME NEW content, IsText(content), NEW position \in Nat
    PROVE  /\ page_start_for_match(content, position) \in Nat
           /\ page_start_for_match(content, position) <= position
           /\ position <= page_start_for_match(content, position) + (PageChars \div 3) + Lookahead
<1> DEFINE target == AtLeast0(position - (PageChars \div 3))
           near == AtLeast0(target - Lookahead)
           ns == Newlines(content, near, target)
           start == page_start_for_match(content, position)
<1>1. PageChars \div 3 \in Nat
  BY PageAssumption
<1>2. /\ target \in Nat /\ near \in Nat /\ target <= position
      /\ position - (PageChars \div 3) <= target /\ target - Lookahead <= near
  BY <1>1, PageAssumption DEF AtLeast0
<1>3. ns \in SUBSET Int /\ \A n \in ns : near <= n /\ n < target
  BY DEF Newlines, IsText
<1>4. start = AfterLast(ns, target)
  BY DEF page_start_for_match
<1> HIDE DEF target, near, ns, start
<1>5. \/ start = target
      \/ start \in Int /\ near < start /\ start <= target
  <2>1. near \in Int /\ target \in Int
    BY <1>2
  <2> QED BY <2>1, <1>3, <1>4, AfterLastBounds
<1>6. /\ start \in Nat /\ start <= position
      /\ position <= start + (PageChars \div 3) + Lookahead
  BY <1>1, <1>2, <1>5, PageAssumption
<1> QED BY <1>6 DEF start

LEMMA PreviousStartIs ==
    ASSUME NEW content, IsText(content), NEW start \in Nat \ {0}
    PROVE  /\ previous_page_start(content, start) \in Nat /\ previous_page_start(content, start) < start
           /\ start <= previous_page_start(content, start) + PageChars + Lookahead
<1> DEFINE target == AtLeast0(start - PageChars)
           near == AtLeast0(target - Lookahead)
           ns == Newlines(content, near, target)
           before == previous_page_start(content, start)
<1>1. PageChars > 0 /\ PageChars \in Nat /\ Lookahead \in Nat
  BY PageAssumption
<1>2. /\ target \in Nat /\ near \in Nat /\ target < start
      /\ start - PageChars <= target /\ target - Lookahead <= near
  BY <1>1 DEF AtLeast0
<1>3. ns \in SUBSET Int /\ \A n \in ns : near <= n /\ n < target
  BY DEF Newlines, IsText
<1>4. before = AfterLast(ns, target)
  BY DEF previous_page_start
<1> HIDE DEF target, near, ns, before
<1>5. \/ before = target
      \/ before \in Int /\ near < before /\ before <= target
  <2>1. near \in Int /\ target \in Int
    BY <1>2
  <2> QED BY <2>1, <1>3, <1>4, AfterLastBounds
<1>6. before \in Nat /\ before < start /\ start <= before + PageChars + Lookahead
  BY <1>1, <1>2, <1>5
<1> QED BY <1>6 DEF before

\* Every page that a cursor leads to has text on it, ends within the text and
\* is not longer than allowed: reading always moves on (_page_end).
THEOREM PagesAreSound ==
    ASSUME NEW content, IsText(content), NEW start \in Nat, start < content.length
    PROVE  PageIsSound(content, start)
<1>1. PageChars > 0
  BY PageAssumption
<1> QED BY <1>1, PageEndBounds, PageAssumption DEF PageIsSound, IsText

\* The page that a search hit leads to shows the whole match
\* (_page_start_for_match with _page_end).
THEOREM MatchesAreOnTheirPage ==
    ASSUME NEW content, IsText(content), NEW position \in Nat, NEW chars \in Nat \ {0},
           chars <= MaxQueryChars, position + chars <= content.length
    PROVE  IsOnItsPage(content, position, chars)
<1> DEFINE start == page_start_for_match(content, position)
<1>1. PageChars \div 3 \in Nat /\ content.length \in Nat
  BY PageAssumption DEF IsText
<1>2. start \in Nat /\ start <= position /\ position <= start + (PageChars \div 3) + Lookahead
  BY PageStartIs
<1> HIDE DEF start
<1>3. start < content.length
  BY <1>1, <1>2
<1>4. position + chars <= page_end(content, start)
  BY <1>1, <1>2, <1>3, PageEndBounds, PageAssumption
<1> QED BY <1>2, <1>4 DEF IsOnItsPage, start

\* The previous page begins before the page, so that going back ends, and leaves
\* less unread between the two than is looked ahead (_previous_page_start).
THEOREM PreviousPagesAreBefore ==
    ASSUME NEW content, IsText(content), NEW start \in Nat \ {0}, start < content.length
    PROVE  IsBefore(content, start)
<1> DEFINE before == previous_page_start(content, start)
<1>1. PageChars \in Nat /\ Lookahead \in Nat /\ content.length \in Nat
  BY PageAssumption DEF IsText
<1>2. before \in Nat /\ before < start /\ start <= before + PageChars + Lookahead
  BY PreviousStartIs
<1> HIDE DEF before
<1>3. start < page_end(content, before) + Lookahead + 1
  BY <1>1, <1>2, PageEndBounds
<1> QED BY <1>2, <1>3 DEF IsBefore, before

\* No newline is left between where a context begins and its match, nor
\* between its match and where it ends.
LEMMA ContextsShowMatches ==
    ASSUME NEW content, IsText(content), NEW position \in Nat, NEW chars \in Nat \ {0},
           position + chars <= content.length, Newlines(content, position, position + chars) = {}
    PROVE  LET from == context_start(content, position)
               to == context_end(content, position, chars)
           IN /\ 0 <= from /\ from <= position
              /\ position + chars <= to /\ to <= content.length
              /\ Newlines(content, from, to) = {}
<1> DEFINE begin == AtLeast0(position - ContextChars)
           before == Newlines(content, begin, position)
           last == CHOOSE n \in before : IsLast(n, before)
           end == Smaller(content.length, position + chars + ContextChars)
           behind == Newlines(content, position + chars, end)
           first == CHOOSE n \in behind : IsFirst(n, behind)
           from == context_start(content, position)
           to == context_end(content, position, chars)
<1>1. /\ content.length \in Nat /\ ContextChars \in Nat
      /\ content.newlines \in SUBSET (0..(content.length - 1))
  BY PageAssumption DEF IsText
<1>2. /\ begin \in Nat /\ begin <= position
      /\ end \in Nat /\ position + chars <= end /\ end <= content.length
  BY <1>1 DEF AtLeast0, Smaller
<1>3. /\ before = {n \in content.newlines : begin <= n /\ n < position}
      /\ behind = {n \in content.newlines : position + chars <= n /\ n < end}
  BY DEF Newlines
<1>4. from = AfterLast(before, begin) /\ to = AfterFirst(behind, end + 1) - 1
  BY DEF context_start, context_end
<1> HIDE DEF begin, before, end, behind, from, to
<1>5. before \in SUBSET (0..(content.length - 1)) /\ behind \in SUBSET Nat
  BY <1>1, <1>3
<1>6. /\ from \in Nat /\ begin <= from /\ from <= position
      /\ \A n \in content.newlines : from <= n => position <= n
  <2>1. CASE before = {}
    <3>1. from = begin
      BY <1>4, <2>1 DEF AfterLast
    <3> QED BY <1>1, <1>2, <1>3, <2>1, <3>1
  <2>2. CASE before # {}
    <3>1. \E n \in before : IsLast(n, before)
      <4>1. PICK b \in Nat : b = content.length - 1
        BY <1>1
      <4>2. before \in SUBSET (0..b)
        BY <1>5, <4>1
      <4>3. Max(before) \in before /\ \A m \in before : m <= Max(before)
        BY <2>2, <4>2, MaxIsLast
      <4> QED BY <4>3 DEF IsLast
    <3>2. last \in before /\ \A m \in before : m <= last
      BY <3>1 DEF IsLast
    <3>3. from = last + 1
      BY <1>4, <3>1 DEF AfterLast
    <3> HIDE DEF last
    <3> QED BY <1>1, <1>2, <1>3, <3>2, <3>3
  <2> QED BY <2>1, <2>2
<1>7. /\ to \in Nat /\ position + chars <= to /\ to <= end
      /\ \A n \in content.newlines : position + chars <= n => to <= n
  <2>1. CASE behind = {}
    <3>1. to = end
      BY <1>2, <1>4, <2>1 DEF AfterFirst
    <3> QED BY <1>1, <1>2, <1>3, <2>1, <3>1
  <2>2. CASE behind # {}
    <3>1. \E n \in behind : IsFirst(n, behind)
      BY <1>5, <2>2, SmallestOf DEF IsFirst
    <3>2. first \in behind /\ \A m \in behind : first <= m
      BY <3>1 DEF IsFirst
    <3>3. to = first
      <4>1. to = (first + 1) - 1 /\ first \in Nat
        BY <1>4, <1>5, <3>1, <3>2 DEF AfterFirst
      <4> HIDE DEF first
      <4> QED BY <4>1
    <3> HIDE DEF first
    <3> QED BY <1>1, <1>2, <1>3, <3>2, <3>3
  <2> QED BY <2>1, <2>2
<1>8. Newlines(content, from, to) = {}
  <2> SUFFICES ASSUME NEW n \in content.newlines, from <= n, n < to PROVE FALSE
    BY DEF Newlines
  <2>1. n \in Nat /\ position <= n /\ ~(position + chars <= n)
    BY <1>1, <1>6, <1>7
  <2> QED BY <2>1 DEF Newlines
<1>9. /\ 0 <= from /\ from <= position /\ position + chars <= to /\ to <= content.length
  BY <1>1, <1>2, <1>6, <1>7
<1> QED BY <1>8, <1>9 DEF from, to

(***************************************************************************)
(* The sections of a text.                                                 *)
(***************************************************************************)

Classes == {"n", "r", "w", "s", "c"}

\* From every position on, white space goes on up to a first place.
LEMMA SpaceEnds ==
    ASSUME NEW j \in Nat, NEW to \in Nat, j <= to
    PROVE  \E e \in j .. to : /\ ~(e < to /\ text[e + 1] \in Spaces)
                             /\ \A i \in (j + 1) .. e : text[i] \in Spaces
<1> DEFINE T == {e \in j .. to : ~(e < to /\ text[e + 1] \in Spaces)}
<1>1. T \in SUBSET Nat /\ to \in T
  OBVIOUS
<1>2. PICK e \in T : \A m \in T : e <= m
  <2> HIDE DEF T
  <2> QED BY <1>1, SmallestOf
<1>3. ASSUME NEW i \in (j + 1) .. e PROVE text[i] \in Spaces
  <2>1. i - 1 \in j .. to /\ ~(e <= i - 1) /\ (i - 1) + 1 = i
    OBVIOUS
  <2> QED BY <1>2, <2>1
<1> QED BY <1>3

\* Line breaks that follow each other go on up to the end of a paragraph.
LEMMA RunEnds ==
    ASSUME NEW a \in Nat, NEW b \in Nat, NEW d \in LineEnds(a, b), NEW f \in LineEnds(a, b), Adjoins(d, f)
    PROVE  \E g \in ParagraphEnds(a, b) : f <= g
<1> DEFINE T == {g \in LineEnds(a, b) : f <= g /\ \E c \in LineEnds(a, b) : Adjoins(c, g)}
<1>1. LineEnds(a, b) \subseteq (a + 1) .. b
  BY DEF LineEnds
<1>2. T \in SUBSET (0 .. b) /\ f \in T
  BY <1>1
<1>3. PICK g \in T : \A x \in T : x <= g
  <2> HIDE DEF T
  <2>1. Max(T) \in T /\ \A x \in T : x <= Max(T)
    BY <1>2, MaxIsLast, Zenon
  <2> QED BY <2>1, Zenon
<1>4. ASSUME NEW x \in LineEnds(a, b), Adjoins(g, x) PROVE FALSE
  <2>1. g \in LineEnds(a, b) /\ f <= g /\ g < x
    BY <1>1, <1>4 DEF Adjoins
  <2>2. x \in T
    BY <1>1, <1>4, <2>1
  <2> HIDE DEF T
  <2> QED BY <1>1, <1>2, <1>3, <2>1, <2>2
<1> QED BY <1>3, <1>4 DEF ParagraphEnds

\* The breaks of an interval are those of the highest kind that has any.
LEMMA BreaksAre ==
    ASSUME NEW a \in Nat, NEW b \in Nat
    PROVE  /\ Breaks(a, b) \subseteq (a + 1) .. b
           /\ \/ ParagraphEnds(a, b) # {} /\ Breaks(a, b) = ParagraphEnds(a, b)
              \/ /\ ParagraphEnds(a, b) = {} /\ LineEnds(a, b) # {}
                 /\ Breaks(a, b) = LineEnds(a, b)
              \/ /\ ParagraphEnds(a, b) = {} /\ LineEnds(a, b) = {}
                 /\ Breaks(a, b) = SentenceEnds(a, b)
<1>1. /\ ParagraphEnds(a, b) # {} => Breaks(a, b) = ParagraphEnds(a, b)
      /\ ParagraphEnds(a, b) = {} /\ LineEnds(a, b) # {} => Breaks(a, b) = LineEnds(a, b)
      /\ ParagraphEnds(a, b) = {} /\ LineEnds(a, b) = {} => Breaks(a, b) = SentenceEnds(a, b)
  BY DEF Breaks
<1>2. /\ ParagraphEnds(a, b) \subseteq LineEnds(a, b)
      /\ LineEnds(a, b) \subseteq (a + 1) .. b /\ SentenceEnds(a, b) \subseteq (a + 1) .. b
  BY DEF ParagraphEnds, LineEnds, SentenceEnds
<1> QED BY <1>1, <1>2

\* A section has at least one character and at most Maximum, whatever breaks.
LEMMA SectionEndIsWithin ==
    ASSUME Len(text) \in Nat, NEW start \in Nat, start < Len(text)
    PROVE  /\ SectionEnd(start) \in (start + 1) .. (start + Maximum)
           /\ SectionEnd(start) <= Len(text)
<1>0. /\ Target \in Nat /\ Maximum \in Nat /\ Lookback \in Nat /\ 0 < Target /\ Target <= Maximum
      /\ start + Target \in Nat /\ start + Maximum \in Nat
  BY SectionAssumption
<1>1. CASE Len(text) - start <= Maximum
  BY <1>0, <1>1 DEF SectionEnd
<1>2. CASE ~(Len(text) - start <= Maximum)
  <2> DEFINE from == IF start + Target > Lookback THEN (start + Target) - Lookback ELSE 0
             window == Breaks(start + Target, start + Maximum)
             earlier == Breaks(from, start + Target)
             end == preferred_break(start + Target, start + Maximum)
  <2>1. from \in Nat
    BY <1>0
  <2>2. end = IF window # {} THEN Min(window) ELSE IF earlier # {} THEN Max(earlier) ELSE start + Maximum
    BY Zenon DEF preferred_break
  <2>3. /\ window \subseteq (start + Target + 1) .. (start + Maximum)
        /\ earlier \subseteq (from + 1) .. (start + Target)
    BY <1>0, <2>1, BreaksAre
  <2> HIDE DEF from, window, earlier, end
  <2>4. end \in Nat /\ end <= start + Maximum
    <3>1. CASE window # {}
      <4>1. window \in SUBSET Nat
        BY <1>0, <2>3
      <4>2. end = Min(window) /\ Min(window) \in window
        BY <2>2, <3>1, <4>1, MinIsFirst, Zenon
      <4>3. end \in window
        BY <4>2
      <4> QED BY <1>0, <2>3, <4>3
    <3>2. CASE window = {} /\ earlier # {}
      <4>1. earlier \in SUBSET (0 .. start + Target)
        BY <1>0, <2>1, <2>3
      <4>2. end = Max(earlier) /\ Max(earlier) \in earlier
        BY <1>0, <2>2, <3>2, <4>1, MaxIsLast, Zenon
      <4>3. end \in earlier
        BY <4>2
      <4> QED BY <1>0, <2>1, <2>3, <4>3
    <3>3. CASE window = {} /\ earlier = {}
      BY <1>0, <2>2, <3>3
    <3> QED BY <3>1, <3>2, <3>3
  <2>5. SectionEnd(start) = IF end <= start THEN start + Maximum ELSE end
    BY <1>2 DEF SectionEnd, end
  <2> QED BY <1>0, <1>2, <2>4, <2>5
<1> QED BY <1>1, <1>2

\* Where a section ends that is not the last, when as much is looked back as is
\* aimed at: at the first break behind the target, else at the last one before
\* it, else at the maximum because there is none.
EndsAtWindow(s, e) == e >= s + Target + 1 /\ e \in Breaks(s + Target, s + Maximum)
EndsEarlier(s, e) ==
    /\ Breaks(s + Target, s + Maximum) = {} /\ e \in Breaks(s, s + Target)
    /\ \A x \in Breaks(s, s + Target) : x <= e
EndsAtMaximum(s, e) ==
    /\ Breaks(s + Target, s + Maximum) = {} /\ Breaks(s, s + Target) = {}
    /\ e = s + Maximum

LEMMA SectionEndIs ==
    ASSUME Lookback = Target, Len(text) \in Nat, NEW start \in Nat, SectionEnd(start) < Len(text), start < Len(text)
    PROVE  /\ start + Maximum < Len(text)
           /\ \/ EndsAtWindow(start, SectionEnd(start)) \/ EndsEarlier(start, SectionEnd(start))
              \/ EndsAtMaximum(start, SectionEnd(start))
<1>0. /\ Target \in Nat /\ Maximum \in Nat /\ 0 < Target /\ Target <= Maximum
      /\ start + Target \in Nat /\ start + Maximum \in Nat
  BY SectionAssumption
<1>1. ~(Len(text) - start <= Maximum)
  BY DEF SectionEnd
<1> DEFINE window == Breaks(start + Target, start + Maximum)
           earlier == Breaks(start, start + Target)
           end == preferred_break(start + Target, start + Maximum)
<1>2. (IF start + Target > Lookback THEN (start + Target) - Lookback ELSE 0) = start
  BY <1>0
<1>3. end = IF window # {} THEN Min(window) ELSE IF earlier # {} THEN Max(earlier) ELSE start + Maximum
  BY <1>2, Zenon DEF preferred_break
<1>4. /\ window \subseteq (start + Target + 1) .. (start + Maximum)
      /\ earlier \subseteq (start + 1) .. (start + Target)
  BY <1>0, BreaksAre
<1>5. SectionEnd(start) = IF end <= start THEN start + Maximum ELSE end
  BY <1>1 DEF SectionEnd
<1> HIDE DEF window, earlier, end
<1>6. CASE window # {}
  <2>1. end = Min(window) /\ Min(window) \in window
    <3>1. window \in SUBSET Nat
      BY <1>0, <1>4
    <3> QED BY <1>3, <1>6, <3>1, MinIsFirst, Zenon
  <2>2. end \in window
    BY <2>1
  <2>3. end \in Nat /\ end >= start + Target + 1
    BY <1>0, <1>4, <2>2
  <2>4. SectionEnd(start) = end
    BY <1>0, <1>5, <2>3
  <2> QED BY <1>0, <1>1, <2>2, <2>3, <2>4 DEF EndsAtWindow, window
<1>7. CASE window = {} /\ earlier # {}
  <2>1. end = Max(earlier) /\ Max(earlier) \in earlier /\ \A x \in earlier : x <= Max(earlier)
    <3>1. earlier \in SUBSET (0 .. start + Target)
      BY <1>0, <1>4
    <3> QED BY <1>0, <1>3, <1>7, <3>1, MaxIsLast, Zenon
  <2>2. end \in earlier /\ \A x \in earlier : x <= end
    BY <2>1, Zenon
  <2>3. SectionEnd(start) = end
    BY <1>0, <1>4, <1>5, <2>2
  <2> QED BY <1>0, <1>1, <1>7, <2>2, <2>3 DEF EndsEarlier, window, earlier
<1>8. CASE window = {} /\ earlier = {}
  <2>1. end = start + Maximum
    BY <1>3, <1>8, Zenon
  <2>2. SectionEnd(start) = start + Maximum
    BY <1>0, <1>5, <2>1
  <2> QED BY <1>0, <1>1, <1>8, <2>2 DEF EndsAtMaximum, window, earlier
<1> QED BY <1>6, <1>7, <1>8

\* A break that ends the first part of an interval is one of the whole, too.
LEMMA BreaksOfPart ==
    ASSUME NEW a \in Nat, NEW b \in Nat, NEW c \in Nat, NEW d \in Nat, NEW e \in Nat,
           a <= c, e < b, b <= d
    PROVE  /\ e \in ParagraphEnds(c, d) => e \in ParagraphEnds(a, b)
           /\ e \in LineEnds(c, d) => e \in LineEnds(a, b)
           /\ e \in SentenceEnds(c, d) => e \in SentenceEnds(a, b)
<1>1. e < d
  OBVIOUS
<1>3. \A x \in Nat : x <= e => (x \in LineEnds(c, d) => x \in LineEnds(a, b))
  BY DEF LineEnds
<1>2. ASSUME e \in ParagraphEnds(c, d) PROVE e \in ParagraphEnds(a, b)
  <2>1. e \in LineEnds(a, b)
    BY <1>2, <1>3 DEF ParagraphEnds
  <2>2. PICK p \in LineEnds(c, d) : Adjoins(p, e)
    BY <1>2 DEF ParagraphEnds
  <2>3. p \in Nat /\ p <= e
    BY <2>2 DEF LineEnds, Adjoins
  <2>4. ASSUME NEW x \in LineEnds(a, b), Adjoins(e, x) PROVE FALSE
    <3>1. x \in LineEnds(c, d)
      <4>1. e \in (c + 1) .. d
        BY <1>2 DEF ParagraphEnds, LineEnds
      <4>2. x \in (a + 1) .. b /\ text[x] = "n" /\ e < x
        BY <2>4 DEF LineEnds, Adjoins
      <4> QED BY <4>1, <4>2 DEF LineEnds
    <3> QED BY <1>2, <2>4, <3>1 DEF ParagraphEnds
  <2> QED BY <1>3, <2>1, <2>2, <2>3, <2>4 DEF ParagraphEnds
<1>4. ASSUME e \in SentenceEnds(c, d) PROVE e \in SentenceEnds(a, b)
  <2>1. PICK s \in (c + 1) .. e : text[s] = "s" /\ \A i \in (s + 1) .. e : text[i] \in Spaces
    BY <1>4 DEF SentenceEnds
  <2>2. s \in (a + 1) .. e /\ e \in (a + 1) .. b /\ ~(e < b /\ text[e + 1] \in Spaces)
    BY <1>1, <1>4, <2>1 DEF SentenceEnds
  <2> QED BY <2>1, <2>2 DEF SentenceEnds
<1> QED BY <1>2, <1>3, <1>4

\* Of two sections in a row that are together shorter than the target, the
\* second one ends at a break of a lower kind.
LEMMA CrumbsOfTwo ==
    ASSUME Lookback = Target, Len(text) \in Nat, NEW s \in Nat, NEW e \in Nat, NEW f \in Nat,
           e = SectionEnd(s), f = SectionEnd(e), s < e, e < f, f < Len(text), f - s < Target
    PROVE  BreakKind(e) > BreakKind(f)
<1>0. /\ Target \in Nat /\ Maximum \in Nat /\ 0 < Target /\ Target <= Maximum
      /\ s + Target \in Nat /\ e + Target \in Nat /\ f < s + Target /\ f < e + Target
  BY SectionAssumption
<1>1. e \in Breaks(s, s + Target) /\ \A x \in Breaks(s, s + Target) : x <= e
  <2>1. EndsAtWindow(s, e) \/ EndsEarlier(s, e) \/ EndsAtMaximum(s, e)
    BY SectionEndIs
  <2> QED BY <1>0, <2>1 DEF EndsAtWindow, EndsEarlier, EndsAtMaximum
<1>2. f \in Breaks(e, e + Target)
  <2>1. EndsAtWindow(e, f) \/ EndsEarlier(e, f) \/ EndsAtMaximum(e, f)
    BY SectionEndIs
  <2> QED BY <1>0, <2>1 DEF EndsAtWindow, EndsEarlier, EndsAtMaximum
<1> DEFINE P == ParagraphEnds(s, s + Target)
           L == LineEnds(s, s + Target)
           S == SentenceEnds(s, s + Target)
           P2 == ParagraphEnds(e, e + Target)
           L2 == LineEnds(e, e + Target)
           S2 == SentenceEnds(e, e + Target)
<1>3. /\ f \in P2 => f \in P
      /\ f \in L2 => f \in L
      /\ f \in S2 => f \in S
  <2>1. /\ s + Target \in Nat /\ e + Target \in Nat
        /\ s <= e /\ f < s + Target /\ s + Target <= e + Target
    BY <1>0
  <2> QED BY <2>1, BreaksOfPart, Zenon
<1>4. /\ \/ P # {} /\ Breaks(s, s + Target) = P
         \/ P = {} /\ L # {} /\ Breaks(s, s + Target) = L
         \/ P = {} /\ L = {} /\ Breaks(s, s + Target) = S
      /\ \/ P2 # {} /\ Breaks(e, e + Target) = P2
         \/ P2 = {} /\ L2 # {} /\ Breaks(e, e + Target) = L2
         \/ P2 = {} /\ L2 = {} /\ Breaks(e, e + Target) = S2
  BY <1>0, BreaksAre
<1>5. f \notin Breaks(s, s + Target)
  BY <1>1
<1>6. BreakKind(f) \in 1 .. 3 /\ (text[f] # "n" => BreakKind(f) = 1)
  BY DEF BreakKind
<1>7. CASE P # {}
  <2>1. e \in P /\ \A x \in P : x <= e
    BY <1>1, <1>4, <1>7
  <2>2. PICK d \in L : Adjoins(d, e)
    BY <2>1 DEF ParagraphEnds
  <2>3. BreakKind(e) = 3
    <3>1. d \in LineEnds(0, e) /\ text[e] = "n"
      BY <2>1, <2>2 DEF ParagraphEnds, LineEnds, Adjoins
    <3> QED BY <2>2, <3>1 DEF BreakKind
  <2>4. ASSUME text[f] = "n", NEW x \in LineEnds(0, f), Adjoins(x, f) PROVE FALSE
    <3>1. x \in Nat /\ x < f /\ text[x] = "n" /\ text[e] = "n"
      BY <2>1, <2>4 DEF ParagraphEnds, LineEnds, Adjoins
    <3>2. e <= x
      <4> SUFFICES ASSUME x < e PROVE FALSE
        BY <3>1
      <4>1. e = x + 1 /\ text[x + 1] = "r"
        BY <2>4, <3>1 DEF Adjoins
      <4> QED BY <3>1, <4>1
    <3>3. x \in L /\ f \in L
      BY <1>0, <2>4, <3>1, <3>2, SMTT(30) DEF LineEnds
    <3>4. PICK g \in P : f <= g
      BY <1>0, <2>4, <3>3, RunEnds
    <3>5. g <= e
      BY <2>1, <3>4
    <3>6. g \in L
      BY <3>4 DEF ParagraphEnds
    <3>7. g \in Nat
      BY <1>0, <3>6 DEF LineEnds
    <3> QED BY <1>0, <3>4, <3>5, <3>7
  <2>5. BreakKind(f) # 3
    BY <2>4 DEF BreakKind
  <2> QED BY <1>6, <2>3, <2>5
<1>8. CASE P = {} /\ L # {}
  <2>1. e \in L /\ f \notin L2 /\ f \notin P2
    BY <1>1, <1>3, <1>4, <1>5, <1>8
  <2>2. BreakKind(e) \in {2, 3}
    BY <2>1 DEF BreakKind, LineEnds
  <2>3. text[f] # "n"
    BY <1>0, <2>1 DEF LineEnds
  <2> QED BY <1>6, <2>2, <2>3
<1>9. CASE P = {} /\ L = {}
  BY <1>2, <1>3, <1>4, <1>5, <1>9
<1> QED BY <1>7, <1>8, <1>9

\* A section that ends within a sentence has no break in it.
LEMMA SentenceStaysWhole ==
    ASSUME Lookback = Target, Len(text) \in Nat, NEW s \in Nat, NEW e \in Nat,
           e = SectionEnd(s), s < e, e < Len(text), text[e] \notin Spaces \cup {"s"}
    PROVE  e = s + Maximum /\ \A j \in (s + 1) .. e : text[j] \notin {"n", "s"}
<1>0. /\ Target \in Nat /\ Maximum \in Nat /\ 0 < Target /\ Target <= Maximum
      /\ s + Target \in Nat /\ s + Maximum \in Nat
  BY SectionAssumption
<1>1. ASSUME NEW a \in Nat, NEW b \in Nat PROVE e \notin Breaks(a, b)
  <2> SUFFICES ASSUME e \in Breaks(a, b) PROVE text[e] \in Spaces \cup {"s"}
    OBVIOUS
  <2>1. CASE e \in SentenceEnds(a, b)
    <3>1. PICK p \in (a + 1) .. e : text[p] = "s" /\ \A i \in (p + 1) .. e : text[i] \in Spaces
      BY <2>1 DEF SentenceEnds
    <3>2. p = e \/ e \in (p + 1) .. e
      OBVIOUS
    <3> QED BY <3>1, <3>2
  <2>2. CASE e \in ParagraphEnds(a, b) \/ e \in LineEnds(a, b)
    BY <2>2 DEF ParagraphEnds, LineEnds, Spaces
  <2> QED BY <2>1, <2>2, BreaksAre
<1>2. EndsAtMaximum(s, e)
  <2>1. EndsAtWindow(s, e) \/ EndsEarlier(s, e) \/ EndsAtMaximum(s, e)
    BY SectionEndIs
  <2> QED BY <1>0, <1>1, <2>1 DEF EndsAtWindow, EndsEarlier
<1>3. ASSUME NEW a \in Nat, NEW b \in Nat, Breaks(a, b) = {}, NEW j \in (a + 1) .. b
      PROVE  text[j] \notin {"n", "s"}
  <2>1. LineEnds(a, b) = {} /\ SentenceEnds(a, b) = {}
    BY <1>3, BreaksAre
  <2>2. text[j] # "n"
    BY <2>1 DEF LineEnds
  <2>3. ASSUME text[j] = "s" PROVE FALSE
    <3>1. PICK g \in j .. b : /\ ~(g < b /\ text[g + 1] \in Spaces)
                              /\ \A i \in (j + 1) .. g : text[i] \in Spaces
      <4>1. j \in Nat /\ j <= b
        OBVIOUS
      <4> QED BY <4>1, SpaceEnds
    <3>2. g \in (a + 1) .. b /\ j \in (a + 1) .. g
      OBVIOUS
    <3>3. g \in SentenceEnds(a, b)
      BY <2>3, <3>1, <3>2 DEF SentenceEnds
    <3> QED BY <2>1, <3>3
  <2> QED BY <2>2, <2>3
<1>4. \A j \in (s + 1) .. e : j \in (s + 1) .. (s + Target) \/ j \in (s + Target + 1) .. (s + Maximum)
  BY <1>0, <1>2 DEF EndsAtMaximum
<1>5. \A j \in (s + 1) .. (s + Target) : text[j] \notin {"n", "s"}
  BY <1>0, <1>2, <1>3 DEF EndsAtMaximum
<1>6. \A j \in (s + Target + 1) .. (s + Maximum) : text[j] \notin {"n", "s"}
  BY <1>0, <1>2, <1>3 DEF EndsAtMaximum
<1> QED BY <1>2, <1>4, <1>5, <1>6 DEF EndsAtMaximum

SectionRecords == [start : Nat, end : Nat]

\* Every section ends where the loop has put the end of one that begins there.
SectionsInv ==
    /\ text \in Seq(Classes) /\ sections \in Seq(SectionRecords)
    /\ SectionsCover
    /\ \A i \in DOMAIN sections : sections[i].start < Len(text) /\ sections[i].end = SectionEnd(sections[i].start)

\* One turn of the loop adds a section behind the last one.
LEMMA TurnKeepsSections ==
    ASSUME SectionsInv, split_document_sections
    PROVE  SectionsInv'
<1> DEFINE n == Len(sections)
           new == [start |-> Position, end |-> SectionEnd(Position)]
<1>0. text \in Seq(Classes) /\ Len(text) \in Nat /\ sections \in Seq(SectionRecords) /\ n \in Nat /\ text' = text
  BY DEF SectionsInv, split_document_sections
<1>1. Position \in Nat /\ Position = IF n = 0 THEN 0 ELSE sections[n].end
  <2>1. CASE sections = <<>>
    BY <2>1 DEF Position
  <2>2. CASE sections # <<>>
    <3>1. n # 0 /\ n \in 1 .. n
      BY <1>0, <2>2
    <3>2. sections[n] \in SectionRecords
      BY <1>0, <3>1
    <3> QED BY <2>2, <3>1, <3>2 DEF Position, Last, SectionRecords
  <2> QED BY <2>1, <2>2
<1>2. Position < Len(text) /\ sections' = Append(sections, new)
  BY DEF split_document_sections
<1>3. /\ SectionEnd(Position) \in (Position + 1) .. (Position + Maximum)
      /\ SectionEnd(Position) <= Len(text)
  BY <1>0, <1>1, <1>2, SectionEndIsWithin
<1>4. new \in SectionRecords /\ new.start = Position /\ new.end = SectionEnd(Position)
  BY <1>1, <1>3, SectionAssumption DEF SectionRecords
<1> HIDE DEF new, n
<1>5. /\ sections' \in Seq(SectionRecords) /\ DOMAIN sections' = 1 .. n + 1 /\ DOMAIN sections = 1 .. n
      /\ sections'[n + 1] = new
      /\ \A i \in 1 .. n : sections'[i] = sections[i]
  BY <1>0, <1>2, <1>4 DEF n
<1>6. \A s : SectionEnd(s)' = SectionEnd(s)
  BY <1>0 DEF SectionEnd, preferred_break, Breaks, ParagraphEnds, LineEnds, SentenceEnds, Adjoins
<1>7. SectionsCover'
  <2> SUFFICES ASSUME NEW i \in 1 .. n + 1
               PROVE  /\ sections'[i].start = (IF i = 1 THEN 0 ELSE sections'[i - 1].end)
                      /\ sections'[i].end \in (sections'[i].start + 1) .. (sections'[i].start + Maximum)
                      /\ sections'[i].end <= Len(text)
    BY <1>0, <1>5 DEF SectionsCover
  <2>1. CASE i = n + 1
    <3>1. i # 1 => n \in 1 .. n /\ i - 1 = n /\ n # 0
      BY <1>0, <2>1
    <3>2. i = 1 => n = 0
      BY <1>0, <2>1
    <3> QED BY <1>1, <1>3, <1>4, <1>5, <2>1, <3>1, <3>2
  <2>2. CASE i # n + 1
    <3>1. i \in 1 .. n /\ (i # 1 => i - 1 \in 1 .. n)
      BY <1>0, <2>2
    <3> QED BY <1>5, <3>1 DEF SectionsInv, SectionsCover
  <2> QED BY <2>1, <2>2
<1>8. ASSUME NEW i \in DOMAIN sections'
      PROVE  sections'[i].start < Len(text) /\ sections'[i].end = SectionEnd(sections'[i].start)
  <2>1. CASE i = n + 1
    BY <1>2, <1>4, <1>5, <2>1
  <2>2. CASE i # n + 1
    <3>1. i \in 1 .. n
      BY <1>0, <1>5, <2>2
    <3> QED BY <1>5, <3>1 DEF SectionsInv
  <2> QED BY <2>1, <2>2
<1> QED BY <1>0, <1>5, <1>6, <1>7, <1>8 DEF SectionsInv

LEMMA SectionsInvHolds ==
    ASSUME NEW CONSTANT texts \in SUBSET Seq(Classes)
    PROVE  SectionsInit(texts) /\ [][split_document_sections]_sectionVars => []SectionsInv
<1>1. SectionsInit(texts) => SectionsInv
  BY DEF SectionsInit, SectionsInv, SectionsCover
<1>2. SectionsInv /\ [split_document_sections]_sectionVars => SectionsInv'
  <2>1. CASE split_document_sections
    BY <2>1, TurnKeepsSections
  <2>2. ASSUME UNCHANGED sectionVars, SectionsInv PROVE SectionsInv'
    <3>1. text' = text /\ sections' = sections
      BY <2>2 DEF sectionVars
    <3>2. \A s : SectionEnd(s)' = SectionEnd(s)
      BY <3>1 DEF SectionEnd, preferred_break, Breaks, ParagraphEnds, LineEnds, SentenceEnds, Adjoins
    <3>3. SectionsCover'
      BY <2>2, <3>1 DEF SectionsInv, SectionsCover
    <3> QED BY <2>2, <3>1, <3>2, <3>3 DEF SectionsInv
  <2> QED BY <2>1, <2>2
<1> QED BY <1>1, <1>2, PTL

\* Cutting a text for the model preserves every character exactly once, for all
\* limits that split_document_sections accepts and whatever is looked back: the
\* sections follow each other without a gap, none is empty or too long.
THEOREM SectionsAreTheText ==
    ASSUME NEW CONSTANT texts \in SUBSET Seq(Classes)
    PROVE  SectionsInit(texts) /\ [][split_document_sections]_sectionVars => []SectionsCover
<1>1. SectionsInv => SectionsCover
  BY DEF SectionsInv
<1> QED BY <1>1, SectionsInvHolds, PTL

\* And when as much is looked back as is aimed at (2000 characters both), the
\* text is not cut into crumbs or within a sentence that could have been kept,
\* whether its lines end with a newline or with a carriage return before it.
THEOREM SectionsAreCutWell ==
    ASSUME NEW CONSTANT texts \in SUBSET Seq(Classes), Lookback = Target
    PROVE  SectionsInit(texts) /\ [][split_document_sections]_sectionVars => []SectionsAreSound
<1>1. SectionsInv => SectionsAreSound
  <2> SUFFICES ASSUME SectionsInv PROVE SectionsAreSound
    OBVIOUS
  <2>0. /\ Len(text) \in Nat /\ Len(sections) \in Nat /\ DOMAIN sections = 1 .. Len(sections)
        /\ SectionsCover /\ Target \in Nat
    BY SectionAssumption DEF SectionsInv
  <2>1. \A i \in DOMAIN sections :
           /\ sections[i].start \in Nat /\ sections[i].end \in Nat /\ sections[i].start < sections[i].end
           /\ sections[i].end = SectionEnd(sections[i].start) /\ sections[i].end <= Len(text)
    <3> TAKE i \in DOMAIN sections
    <3>1. sections[i] \in SectionRecords
      BY DEF SectionsInv
    <3>2. /\ sections[i].end \in (sections[i].start + 1) .. (sections[i].start + Maximum)
          /\ sections[i].end <= Len(text) /\ sections[i].end = SectionEnd(sections[i].start)
      BY DEF SectionsInv, SectionsCover
    <3> QED BY <3>1, <3>2, SectionAssumption DEF SectionRecords
  <2>2. CrumbsAreFew
    <3> SUFFICES ASSUME NEW i \in 1 .. (Len(sections) - 1),
                        sections[i + 1].end < Len(text),
                        ~(sections[i + 1].end - sections[i].start >= Target)
                 PROVE  BreakKind(sections[i].end) > BreakKind(sections[i + 1].end)
      BY DEF CrumbsAreFew
    <3>1. i \in DOMAIN sections /\ i + 1 \in DOMAIN sections /\ i + 1 # 1 /\ (i + 1) - 1 = i
      BY <2>0
    <3>2. sections[i + 1].start = sections[i].end
      BY <2>0, <3>1 DEF SectionsCover
    <3>3. PICK s \in Nat, e \in Nat, f \in Nat :
             s = sections[i].start /\ e = sections[i].end /\ f = sections[i + 1].end
      BY <2>1, <3>1
    <3>4. e = SectionEnd(s) /\ f = SectionEnd(e) /\ s < e /\ e < f /\ f < Len(text) /\ f - s < Target
      BY <2>0, <2>1, <3>1, <3>2, <3>3
    <3> QED BY <2>0, <3>3, <3>4, CrumbsOfTwo
  <2>3. SentencesStayWhole
    <3> SUFFICES ASSUME NEW i \in DOMAIN sections,
                        sections[i].end < Len(text), text[sections[i].end] \notin Spaces \cup {"s"}
                 PROVE  /\ sections[i].end = sections[i].start + Maximum
                        /\ \A j \in (sections[i].start + 1) .. sections[i].end : text[j] \notin {"n", "s"}
      BY DEF SentencesStayWhole
    <3> QED BY <2>0, <2>1, SentenceStaysWhole
  <2> QED BY <2>0, <2>2, <2>3 DEF SectionsAreSound
<1> QED BY <1>1, SectionsInvHolds, PTL

(***************************************************************************)
(* The shelf.                                                              *)
(***************************************************************************)

\* What detect_txt_encoding finds, decode_stored_txt accepts: the bytes and the
\* label that are stored are those that were tried.
LEMMA DetectedIsDecodable ==
    ASSUME NEW file, detect_txt_encoding(file) # "refused"
    PROVE  decode_stored_txt(file, detect_txt_encoding(file))
<1> DEFINE candidates == CandidateEncodings(file)
           at == {i \in DOMAIN candidates : candidates[i] \in file.decodes \cap file.readable}
           first == CHOOSE i \in at : \A j \in at : i <= j
<1>1. at # {} /\ detect_txt_encoding(file) = candidates[first]
  BY DEF detect_txt_encoding, FirstAccepted
<1>2. candidates \in {<<"utf-8-sig">>, <<"utf-16-le">>, <<"utf-16-be">>, <<"utf-8", "gb18030">>}
  <2>1. CASE file.bom = "utf-8"
    BY <2>1 DEF CandidateEncodings
  <2>2. CASE file.bom = "little"
    BY <2>2 DEF CandidateEncodings
  <2>3. CASE file.bom = "big"
    BY <2>3 DEF CandidateEncodings
  <2>4. CASE file.bom \notin {"utf-8", "little", "big"}
    BY <2>4 DEF CandidateEncodings
  <2> QED BY <2>1, <2>2, <2>3, <2>4
<1>3. at \in SUBSET Nat
  <2>1. DOMAIN candidates \in {1..1, 1..2}
    <3> HIDE DEF candidates
    <3> QED BY <1>2
  <2> QED BY <2>1
<1>4. first \in at
  <2> HIDE DEF at
  <2> QED BY <1>1, <1>3, SmallestOf
<1> QED BY <1>1, <1>4 DEF decode_stored_txt

\* The documents an installation may begin with: different files, each of which
\* can be read, and not more than ever inserted.
ShelfIsSane(shelf) ==
    /\ shelf \in Seq(Files) /\ Len(shelf) <= MaxDocuments
    /\ \A d \in DOMAIN shelf : detect_txt_encoding(shelf[d]) # "refused"
    /\ \A d, e \in DOMAIN shelf : shelf[d].digest = shelf[e].digest => d = e

\* What the routes hold between their transactions.
CuratorsHold ==
    /\ DOMAIN curator = Curators
    /\ \A c \in Curators :
          /\ curator[c].pc \in {"idle", "insert", "refresh", "delete", "done"}
          /\ curator[c].pc = "insert" => detect_txt_encoding(curator[c].file) # "refused"
          /\ curator[c].pc = "delete" => curator[c].row \in 1..inserted

\* Audit rows are of rows that were inserted: one that is inserted next has none.
AuditsAreOfRows ==
    /\ inserted \in 0..MaxDocuments /\ DOMAIN documents \subseteq 1..inserted
    /\ \A d : <<"uploaded", d>> \in audited \/ <<"deleted", d>> \in audited => d \in 1..inserted

ShelfInv == CuratorsHold /\ AuditsAreOfRows /\ NoTwins /\ DocumentsAreAudited /\ StoredIsReadable

\* The row that is inserted: the route holds a file that was read, its digest is
\* not held, and its number is new.
LEMMA InsertKeepsShelf ==
    ASSUME ShelfInv, NEW c \in Curators, upload_insert(c)
    PROVE  ShelfInv'
<1> DEFINE file == curator[c].file
           row == inserted + 1
<1>1. /\ inserted \in Nat /\ row \in 1..MaxDocuments /\ row \notin 1..inserted
      /\ \A d : d \in 1..row <=> d \in 1..inserted \/ d = row
  BY KnowledgeAssumption DEF upload_insert, ShelfInv, AuditsAreOfRows
<1>2. CASE ~MayInsert(file)
  <2>1. UNCHANGED <<documents, inserted, audited>> /\ Answer(c, "409")
    BY <1>2 DEF upload_insert
  <2>2. CuratorsHold'
    BY <2>1 DEF ShelfInv, CuratorsHold, Answer, NoCurator
  <2> QED BY <2>1, <2>2 DEF ShelfInv, AuditsAreOfRows, NoTwins, DocumentsAreAudited, StoredIsReadable
<1>3. CASE MayInsert(file)
  <2>1. /\ documents' = [d \in DOMAIN documents \cup {row} |->
                            IF d = row THEN [file |-> file, encoding |-> detect_txt_encoding(file)]
                            ELSE documents[d]]
        /\ inserted' = row /\ audited' = audited \cup {<<"uploaded", row>>}
        /\ curator' = [curator EXCEPT ![c] = [NoCurator EXCEPT !.pc = "refresh", !.row = row]]
        /\ curator[c].pc = "insert"
    BY <1>3 DEF upload_insert
  <2> HIDE DEF row
  <2>2. /\ DOMAIN documents' = DOMAIN documents \cup {row}
        /\ documents'[row].file = file /\ documents'[row].encoding = detect_txt_encoding(file)
        /\ \A d \in DOMAIN documents : d # row /\ documents'[d] = documents[d]
    BY <1>1, <2>1 DEF ShelfInv, AuditsAreOfRows
  <2>3. CuratorsHold'
    BY <1>1, <2>1 DEF ShelfInv, CuratorsHold, NoCurator
  <2>4. AuditsAreOfRows'
    BY <1>1, <2>1, <2>2 DEF ShelfInv, AuditsAreOfRows
  <2>5. NoTwins'
    <3>1. \A d \in DOMAIN documents : documents[d].file.digest # file.digest
      BY <1>3 DEF MayInsert, Held
    <3> QED BY <2>2, <3>1 DEF ShelfInv, NoTwins
  <2>6. DocumentsAreAudited'
    <3>1. <<"deleted", row>> \notin audited'
      BY <1>1, <2>1 DEF ShelfInv, AuditsAreOfRows
    <3>2. \A d \in 1..inserted : /\ d # row /\ <<"deleted", d>> \in audited' <=> <<"deleted", d>> \in audited
                                 /\ <<"uploaded", d>> \in audited'
      BY <1>1, <2>1 DEF ShelfInv, DocumentsAreAudited
    <3> QED BY <1>1, <2>1, <2>2, <3>1, <3>2 DEF ShelfInv, DocumentsAreAudited
  <2>7. StoredIsReadable'
    <3>1. decode_stored_txt(file, detect_txt_encoding(file))
      BY <2>1, DetectedIsDecodable DEF ShelfInv, CuratorsHold
    <3> QED BY <2>2, <3>1 DEF ShelfInv, StoredIsReadable
  <2> QED BY <2>3, <2>4, <2>5, <2>6, <2>7 DEF ShelfInv
<1> QED BY <1>2, <1>3

\* A deletion and its audit row, also of a row that another one deleted before.
LEMMA DeleteKeepsShelf ==
    ASSUME ShelfInv, NEW c \in Curators, delete_commit(c)
    PROVE  ShelfInv'
<1> DEFINE row == curator[c].row
<1>1. /\ documents' = [d \in DOMAIN documents \ {row} |-> documents[d]]
      /\ audited' = audited \cup {<<"deleted", row>>}
      /\ inserted' = inserted /\ Answer(c, "204") /\ row \in 1..inserted
  BY DEF delete_commit, ShelfInv, CuratorsHold
<1> HIDE DEF row
<1>2. /\ DOMAIN documents' = DOMAIN documents \ {row}
      /\ \A d \in DOMAIN documents' : documents'[d] = documents[d]
  BY <1>1
<1>3. CuratorsHold'
  BY <1>1 DEF ShelfInv, CuratorsHold, Answer, NoCurator
<1>4. AuditsAreOfRows'
  BY <1>1, <1>2 DEF ShelfInv, AuditsAreOfRows
<1>5. NoTwins'
  BY <1>2 DEF ShelfInv, NoTwins
<1>6. DocumentsAreAudited'
  BY <1>1, <1>2 DEF ShelfInv, DocumentsAreAudited
<1>7. StoredIsReadable'
  BY <1>2 DEF ShelfInv, StoredIsReadable
<1> QED BY <1>3, <1>4, <1>5, <1>6, <1>7 DEF ShelfInv

\* The other steps of the routes and those of an agent change no document.
LEMMA OthersKeepShelf ==
    ASSUME ShelfInv, UNCHANGED <<documents, inserted, audited>>, CuratorsHold'
    PROVE  ShelfInv'
  BY DEF ShelfInv, AuditsAreOfRows, NoTwins, DocumentsAreAudited, StoredIsReadable

LEMMA RoutesKeepShelf ==
    ASSUME ShelfInv, ShelfNext
    PROVE  ShelfInv'
<1> PICK c \in Curators :
        \/ \E file \in Uploads : upload_check(c, file)
        \/ upload_insert(c) \/ upload_refresh(c)
        \/ \E d \in 1..inserted : delete_get(c, d)
        \/ delete_commit(c) \/ commit_fails(c)
        \/ curator[c].pc = "done" /\ curator' = [curator EXCEPT ![c] = NoCurator]
           /\ UNCHANGED <<documents, inserted, audited, auditErrors, readingVars>>
  BY DEF ShelfNext
<1>1. ASSUME NEW file \in Uploads, upload_check(c, file) PROVE ShelfInv'
  <2>1. UNCHANGED <<documents, inserted, audited>>
    BY <1>1 DEF upload_check
  <2>2. CASE detect_txt_encoding(file) = "refused"
    <3>1. CuratorsHold'
      BY <1>1, <2>1, <2>2 DEF upload_check, ShelfInv, CuratorsHold, Answer, NoCurator
    <3> QED BY <2>1, <3>1, OthersKeepShelf
  <2>3. CASE detect_txt_encoding(file) # "refused"
    <3>1. \/ Answer(c, "409")
          \/ curator' = [curator EXCEPT ![c] = [NoCurator EXCEPT !.pc = "insert", !.file = file]]
      BY <1>1, <2>3 DEF upload_check
    <3>2. CuratorsHold'
      BY <2>1, <2>3, <3>1, ZenonT(40) DEF ShelfInv, CuratorsHold, Answer, NoCurator
    <3> QED BY <2>1, <3>2, OthersKeepShelf
  <2> QED BY <2>2, <2>3
<1>2. CASE upload_insert(c)
  BY <1>2, InsertKeepsShelf
<1>3. CASE upload_refresh(c) \/ commit_fails(c)
  <2>1. UNCHANGED <<documents, inserted, audited>> /\ \E status : Answer(c, status)
    BY <1>3 DEF upload_refresh, commit_fails
  <2>2. CuratorsHold'
    BY <2>1 DEF ShelfInv, CuratorsHold, Answer, NoCurator
  <2> QED BY <2>1, <2>2, OthersKeepShelf
<1>4. ASSUME NEW d \in 1..inserted, delete_get(c, d) PROVE ShelfInv'
  <2>1. /\ UNCHANGED <<documents, inserted, audited>>
        /\ \/ curator' = [curator EXCEPT ![c] = [NoCurator EXCEPT !.pc = "delete", !.row = d]]
           \/ Answer(c, "404")
    BY <1>4 DEF delete_get
  <2>2. CuratorsHold'
    BY <2>1, ZenonT(40) DEF ShelfInv, CuratorsHold, Answer, NoCurator
  <2> QED BY <2>1, <2>2, OthersKeepShelf
<1>5. CASE delete_commit(c)
  BY <1>5, DeleteKeepsShelf
<1>6. CASE curator' = [curator EXCEPT ![c] = NoCurator] /\ UNCHANGED <<documents, inserted, audited>>
  <2>1. CuratorsHold'
    BY <1>6 DEF ShelfInv, CuratorsHold, NoCurator
  <2> QED BY <1>6, <2>1, OthersKeepShelf
<1> QED BY <1>1, <1>2, <1>3, <1>4, <1>5, <1>6

LEMMA ShelfInvHolds ==
    ASSUME NEW CONSTANT shelves, \A shelf \in shelves : ShelfIsSane(shelf)
    PROVE  KnowledgeInit(shelves) /\ [][ShelfNext \/ ReadNext]_knowledgeVars => []ShelfInv
<1>1. KnowledgeInit(shelves) => ShelfInv
  <2> SUFFICES ASSUME KnowledgeInit(shelves) PROVE ShelfInv
    OBVIOUS
  <2> PICK shelf \in shelves :
        /\ documents = [d \in DOMAIN shelf |-> [file |-> shelf[d], encoding |-> detect_txt_encoding(shelf[d])]]
        /\ inserted = Len(shelf) /\ audited = {<<"uploaded", d>> : d \in DOMAIN shelf}
    BY DEF KnowledgeInit
  <2>1. /\ ShelfIsSane(shelf) /\ Len(shelf) \in Nat /\ DOMAIN shelf = 1..Len(shelf)
        /\ Len(shelf) <= MaxDocuments /\ DOMAIN documents = 1..inserted
    <3>1. ShelfIsSane(shelf) /\ DOMAIN documents = DOMAIN shelf
      OBVIOUS
    <3>2. shelf \in Seq(Files) /\ Len(shelf) <= MaxDocuments
      BY <3>1 DEF ShelfIsSane
    <3> QED BY <3>1, <3>2
  <2>2. \A d \in 1..inserted : documents[d].file = shelf[d] /\ documents[d].encoding = detect_txt_encoding(shelf[d])
    BY <2>1
  <2>3. CuratorsHold
    BY DEF KnowledgeInit, CuratorsHold, NoCurator
  <2>4. AuditsAreOfRows
    BY <2>1, KnowledgeAssumption DEF AuditsAreOfRows
  <2>5. NoTwins
    BY <2>1, <2>2 DEF NoTwins, ShelfIsSane
  <2>6. DocumentsAreAudited
    BY <2>1 DEF DocumentsAreAudited
  <2>7. StoredIsReadable
    BY <2>1, <2>2, DetectedIsDecodable DEF StoredIsReadable, ShelfIsSane
  <2> QED BY <2>3, <2>4, <2>5, <2>6, <2>7 DEF ShelfInv
<1>2. ShelfInv /\ [ShelfNext \/ ReadNext]_knowledgeVars => ShelfInv'
  <2> SUFFICES ASSUME ShelfInv, [ShelfNext \/ ReadNext]_knowledgeVars PROVE ShelfInv'
    OBVIOUS
  <2>1. CASE ShelfNext
    BY <2>1, RoutesKeepShelf
  <2>2. CASE ReadNext \/ UNCHANGED knowledgeVars
    <3>1. UNCHANGED shelfVars
      BY <2>2 DEF ReadNext, open_session, search_knowledge, read_hit, read_next, read_previous, knowledgeVars
    <3>2. UNCHANGED <<documents, inserted, audited>> /\ CuratorsHold'
      BY <3>1 DEF shelfVars, ShelfInv, CuratorsHold
    <3> QED BY <3>2, OthersKeepShelf
  <2> QED BY <2>1, <2>2
<1> QED BY <1>1, <1>2, PTL

\* Uploads and deletions of any number of administrators beside one another and
\* beside an agent that reads, with any commits failing, store no file twice,
\* leave an audit row of every row that comes or goes, and store nothing that
\* could not be decoded again and would keep every session from beginning.
THEOREM DocumentsStaySound ==
    ASSUME NEW CONSTANT shelves, \A shelf \in shelves : ShelfIsSane(shelf)
    PROVE  KnowledgeInit(shelves) /\ [][ShelfNext \/ ReadNext]_knowledgeVars
               => [](NoTwins /\ DocumentsAreAudited /\ StoredIsReadable)
<1>1. ShelfInv => NoTwins /\ DocumentsAreAudited /\ StoredIsReadable
  BY DEF ShelfInv
<1> QED BY <1>1, ShelfInvHolds, PTL

(***************************************************************************)
(* What an agent finds and reads.                                          *)
(***************************************************************************)

\* What a search may find in the documents of the session: a place that fits
\* within the text and is of one line.
Matches ==
    {hit \in [source : DOMAIN corpus, position : Nat, chars : 1..MaxQueryChars] :
        LET content == corpus[hit.source].text
        IN /\ hit.position + hit.chars <= content.length
           /\ Newlines(content, hit.position, hit.position + hit.chars) = {}}

LEMMA GroupIs ==
    ASSUME NEW queries \in SearchQueries, NEW q \in DOMAIN queries,
           NEW source \in DOMAIN corpus, corpus[source] \in Files
    PROVE  /\ Group(queries[q], source) \in Seq(Matches)
           /\ Len(Group(queries[q], source)) <= MaxHitsPerGroup
<1> DEFINE content == corpus[source].text
           query == queries[q]
           found == content.found[query.text]
           matched[p \in found] == \A r \in found : r < p /\ p < r + query.chars => ~matched[r]
           D == {p \in found : matched[p]}
           hit == [p \in D |-> [source |-> source, position |-> p, chars |-> query.chars]]
           all == InOrder(hit)
<1>1. /\ query.chars \in 1..MaxQueryChars /\ content.length \in Nat /\ MaxHitsPerGroup \in Nat
      /\ \A p \in found : /\ p \in Nat /\ p + query.chars <= content.length
                          /\ Newlines(content, p, p + query.chars) = {}
  BY QueryAssumption, FilesAssumption DEF IsText
<1>2. Group(query, source) = SubSeq(all, 1, Smaller(Len(all), MaxHitsPerGroup))
  BY DEF Group
<1>3. D \in SUBSET found /\ DOMAIN hit = D
      /\ \A p \in D : hit[p] = [source |-> source, position |-> p, chars |-> query.chars]
  OBVIOUS
<1> HIDE DEF matched, D, hit
<1>4. D \in SUBSET (0..content.length)
  <2>1. \A p \in found : p \in Nat /\ p + query.chars <= content.length
    BY <1>1
  <2>2. query.chars \in Nat
    BY <1>1
  <2> HIDE DEF found, content, query
  <2> QED BY <1>1, <1>3, <2>1, <2>2
<1>5. IsFiniteSet(D) /\ D \in SUBSET Nat
  <2>1. PICK n \in Nat : n = content.length
    BY <1>1
  <2>2. D \in SUBSET (0..n)
    BY <1>4, <2>1
  <2>3. IsFiniteSet(0..n)
    BY 0 \in Int, n \in Int, FS_Interval, Zenon
  <2>4. IsFiniteSet(D)
    BY <2>2, <2>3, FS_Subset, Zenon
  <2> QED BY <2>2, <2>4
<1>6. \A p \in D : hit[p] \in Matches
  <2> TAKE p \in D
  <2>1. p \in found
    BY <1>3
  <2>2. PICK h, n : /\ h = hit[p] /\ n = query.chars
                    /\ h = [source |-> source, position |-> p, chars |-> n]
    BY <1>3
  <2>3. /\ p \in Nat /\ n \in 1..MaxQueryChars /\ p + n <= content.length
        /\ Newlines(content, p, p + n) = {}
    BY <1>1, <2>1, <2>2
  <2>4. h \in Matches
    BY <2>2, <2>3 DEF Matches
  <2> QED BY <2>2, <2>4
<1>7. all \in Seq(Matches)
  BY <1>3, <1>5, <1>6, AtInOrder DEF InOrder
<1>8. Group(query, source) \in Seq(Matches) /\ Len(Group(query, source)) <= MaxHitsPerGroup
  <2>1. MaxHitsPerGroup \in Nat
    BY <1>1
  <2> HIDE DEF all, query, content, found
  <2> QED BY <1>2, <1>7, <2>1, BeginningIs
<1> QED BY <1>8 DEF query

\* Turns are taken round by round.
LEMMA TurnIs ==
    ASSUME NEW N \in Nat \ {0}, NEW n \in Nat \ {0}
    PROVE  /\ ((n - 1) % N) + 1 \in 1..N
           /\ ((n - 1) \div N) + 1 \in Nat \ {0}
           /\ \A m \in Nat \ {0} : ((m - 1) \div N) + 1 < ((n - 1) \div N) + 1 => m < n
<1> DEFINE d(m) == (m - 1) \div N
<1>1. \A m \in Nat \ {0} : d(m) \in Nat
  OBVIOUS
<1>2. \A m \in Nat \ {0} : d(m) * N <= m - 1 /\ m - 1 < (d(m) + 1) * N
  <2> TAKE m \in Nat \ {0}
  <2> QED BY Quotients
<1>3. (n - 1) % N \in 0..(N - 1)
  OBVIOUS
<1> HIDE DEF d
<1>4. ASSUME NEW m \in Nat \ {0}, d(m) < d(n) PROVE m < n
  <2>1. d(m) + 1 <= d(n) /\ d(m) + 1 \in Int /\ d(n) \in Int
    BY <1>1, <1>4
  <2>2. (d(m) + 1) * N <= d(n) * N
    BY <2>1, Products
  <2>3. PICK x \in Int, y \in Int : x = (d(m) + 1) * N /\ y = d(n) * N
    BY <2>1
  <2>4. m - 1 < x /\ y <= n - 1 /\ x <= y
    BY <1>2, <2>2, <2>3
  <2> QED BY <2>4
<1>5. \A m \in Nat \ {0} : d(m) + 1 < d(n) + 1 => m < n
  BY <1>1, <1>4
<1>6. d(n) + 1 \in Nat \ {0} /\ ((n - 1) % N) + 1 \in 1..N
  BY <1>1, <1>3
<1> QED BY <1>5, <1>6 DEF d

\* Of M rounds of N turns, one is that of h in round j.
HasTurn(M, N, h, j) == \E n \in 1..(M * N) : ((n - 1) % N) + 1 = h /\ ((n - 1) \div N) + 1 = j

LEMMA TurnOf ==
    ASSUME NEW N \in Nat \ {0}, NEW M \in Nat, NEW h \in 1..N, NEW j \in 1..M
    PROVE  HasTurn(M, N, h, j)
<1> DEFINE v == (j - 1) * N + (h - 1)
<1>1. (j - 1) * N \in Nat /\ (j - 1) * N + N = j * N /\ j * N <= M * N /\ j * N \in Nat /\ M * N \in Nat
  <2>1. \A a \in Nat : a * N \in Nat
    OBVIOUS
  <2>2. j * N <= M * N
    BY Products
  <2>3. \A a \in Int : a * N + N = (a + 1) * N
    OBVIOUS
  <2>4. j - 1 \in Nat /\ (j - 1) + 1 = j
    OBVIOUS
  <2> QED BY <2>1, <2>2, <2>3, <2>4
<1>2. PICK a \in Nat, b \in Nat, c \in Nat : a = (j - 1) * N /\ b = j * N /\ c = M * N
  BY <1>1
<1>3. v \in Nat /\ a <= v /\ v < b /\ b <= c /\ v = a + (h - 1)
  BY <1>1, <1>2
<1> HIDE DEF v
<1> DEFINE d == v \div N
<1>4. d \in Nat /\ d * N <= v /\ v < (d + 1) * N /\ v % N = v - d * N
  <2>1. d * N <= v /\ v < (d + 1) * N
    BY <1>3, Quotients
  <2>2. d \in Nat /\ v % N = v - d * N
    BY <1>3
  <2> QED BY <2>1, <2>2
<1> HIDE DEF d
<1>5. d = j - 1
  <2>1. ~(d < j - 1)
    <3> SUFFICES ASSUME d + 1 <= j - 1 PROVE FALSE
      BY <1>4
    <3>1. (d + 1) * N <= (j - 1) * N
      BY <1>4, Products
    <3>2. PICK x \in Int : x = (d + 1) * N
      BY <1>4
    <3> QED BY <1>2, <1>3, <1>4, <3>1, <3>2
  <2>2. ~(j <= d)
    <3> SUFFICES ASSUME j <= d PROVE FALSE
      OBVIOUS
    <3>1. j * N <= d * N
      BY <1>4, Products
    <3>2. PICK x \in Int : x = d * N
      BY <1>4
    <3> QED BY <1>2, <1>3, <1>4, <3>1, <3>2
  <2> QED BY <1>4, <2>1, <2>2
<1>6. v % N = h - 1
  BY <1>2, <1>3, <1>4, <1>5
<1>7. v + 1 \in 1..(M * N) /\ (v + 1) - 1 = v
  BY <1>2, <1>3
<1> QED BY <1>5, <1>6, <1>7 DEF d, HasTurn

LEMMA BeginningIsFair ==
    ASSUME NEW S, NEW groups, NEW found \in Seq(S), IsFair(found, groups), NEW limit \in Nat
    PROVE  IsFair(SubSeq(found, 1, Smaller(Len(found), limit)), groups)
<1> DEFINE u == SubSeq(found, 1, Smaller(Len(found), limit))
<1>1. /\ Len(u) \in Nat /\ DOMAIN u = 1..Len(u)
      /\ \A i \in 1..Len(u) : u[i] = found[i] /\ i \in DOMAIN found
  BY BeginningIs
<1> HIDE DEF u
<1>2. ASSUME NEW i \in DOMAIN u
      PROVE  \E g \in DOMAIN groups : \E k \in DOMAIN groups[g] :
                /\ u[i] = groups[g][k]
                /\ \A h \in DOMAIN groups : \A j \in DOMAIN groups[h] :
                      j < k => \E m \in 1..(i - 1) : SamePlace(u[m], groups[h][j])
  <2>1. PICK g \in DOMAIN groups : \E k \in DOMAIN groups[g] :
                /\ found[i] = groups[g][k]
                /\ \A h \in DOMAIN groups : \A j \in DOMAIN groups[h] :
                      j < k => \E m \in 1..(i - 1) : SamePlace(found[m], groups[h][j])
    BY <1>1 DEF IsFair
  <2>2. PICK k \in DOMAIN groups[g] :
                /\ found[i] = groups[g][k]
                /\ \A h \in DOMAIN groups : \A j \in DOMAIN groups[h] :
                      j < k => \E m \in 1..(i - 1) : SamePlace(found[m], groups[h][j])
    BY <2>1
  <2>3. ASSUME NEW h \in DOMAIN groups, NEW j \in DOMAIN groups[h], j < k
        PROVE  \E m \in 1..(i - 1) : SamePlace(u[m], groups[h][j])
    <3>1. PICK m \in 1..(i - 1) : SamePlace(found[m], groups[h][j])
      BY <2>2, <2>3
    <3>2. m \in 1..Len(u)
      BY <1>1
    <3> QED BY <1>1, <3>1, <3>2
  <2> QED BY <1>1, <2>2, <2>3
<1>3. \A i, j \in DOMAIN u : SamePlace(u[i], u[j]) => i = j
  BY <1>1 DEF IsFair
<1> QED BY <1>2, <1>3 DEF IsFair, u

LEMMA FoundIsFair ==
    ASSUME NEW S, NEW N \in Nat, NEW groups, DOMAIN groups = 1..N, Len(groups) = N,
           \A g \in 1..N : groups[g] \in Seq(S) /\ Len(groups[g]) <= MaxHitsPerGroup
    PROVE  find_hits(groups) \in Seq(S) /\ IsFair(find_hits(groups), groups)
<1> DEFINE T == Turns(groups)
           taken == [n \in T |-> groups[GroupOf(groups, n)][RoundOf(groups, n)]]
           all == Interleaved(groups)
           first == {i \in DOMAIN all : \A j \in 1..(i - 1) : ~SamePlace(all[j], all[i])}
           new == At(all, first)
<1>1. MaxHitsPerGroup \in Nat /\ MaxTrackedHits \in Nat
  BY QueryAssumption
<1>2. /\ T \in SUBSET (Nat \ {0}) /\ IsFiniteSet(T)
      /\ \A n \in Nat : n \in T <=> /\ n \in 1..(MaxHitsPerGroup * N)
                                    /\ RoundOf(groups, n) <= Len(groups[GroupOf(groups, n)])
  <2>1. PICK c \in Nat : c = MaxHitsPerGroup * N
    <3>1. MaxHitsPerGroup * N \in Nat
      BY <1>1
    <3> QED BY <3>1
  <2>2. T = {n \in 1..c : RoundOf(groups, n) <= Len(groups[GroupOf(groups, n)])}
    BY <2>1 DEF Turns
  <2>3. T \in SUBSET (1..c)
    BY <2>2
  <2>4. IsFiniteSet(1..c)
    BY 1 \in Int, c \in Int, FS_Interval, Zenon
  <2>5. IsFiniteSet(T)
    BY <2>3, <2>4, FS_Subset, Zenon
  <2> HIDE DEF T
  <2> QED BY <2>1, <2>2, <2>3, <2>5
<1> HIDE DEF T
<1>3. ASSUME NEW n \in T
      PROVE  /\ N \in Nat \ {0} /\ GroupOf(groups, n) \in 1..N
             /\ RoundOf(groups, n) \in DOMAIN groups[GroupOf(groups, n)]
             /\ \A m \in T : RoundOf(groups, m) < RoundOf(groups, n) => m < n
  <2>1. N # 0
    <3>1. N = 0 => MaxHitsPerGroup * N = 0
      BY <1>1
    <3> QED BY <1>2, <3>1
  <2>2. GroupOf(groups, n) = ((n - 1) % N) + 1 /\ \A m : RoundOf(groups, m) = ((m - 1) \div N) + 1
    BY DEF GroupOf, RoundOf
  <2>3. n \in Nat \ {0} /\ T \in SUBSET (Nat \ {0})
    BY <1>2
  <2>4. /\ GroupOf(groups, n) \in 1..N /\ RoundOf(groups, n) \in Nat \ {0}
        /\ \A m \in T : RoundOf(groups, m) < RoundOf(groups, n) => m < n
    <3>1. /\ ((n - 1) % N) + 1 \in 1..N
          /\ ((n - 1) \div N) + 1 \in Nat \ {0}
          /\ \A m \in Nat \ {0} : ((m - 1) \div N) + 1 < ((n - 1) \div N) + 1 => m < n
      BY <2>1, <2>3, TurnIs
    <3> QED BY <2>2, <2>3, <3>1
  <2>5. PICK g \in 1..N, k \in Nat \ {0} : g = GroupOf(groups, n) /\ k = RoundOf(groups, n)
    BY <2>4
  <2>6. k <= Len(groups[g]) /\ groups[g] \in Seq(S)
    BY <1>2, <2>5
  <2>7. k \in DOMAIN groups[g]
    BY <2>6
  <2> QED BY <2>1, <2>4, <2>5, <2>7
<1>4. DOMAIN taken = T /\ \A n \in T : taken[n] = groups[GroupOf(groups, n)][RoundOf(groups, n)]
  OBVIOUS
<1>5. all = At(taken, T)
  BY <1>4 DEF Interleaved, InOrder, T
<1>6. ASSUME NEW n \in T PROVE taken[n] \in S
  <2>1. PICK g \in 1..N : g = GroupOf(groups, n)
    BY <1>3
  <2>2. PICK k : k = RoundOf(groups, n)
    OBVIOUS
  <2>3. k \in DOMAIN groups[g] /\ taken[n] = groups[g][k] /\ groups[g] \in Seq(S)
    BY <1>3, <1>4, <2>1, <2>2
  <2> HIDE DEF taken
  <2> QED BY <2>3
<1> HIDE DEF taken, all
<1>7. all \in Seq(S) /\ \E f : InOrderOf(all, taken, T, f)
  BY <1>2, <1>5, <1>6, AtInOrder
<1>8. PICK f : InOrderOf(all, taken, T, f)
  BY <1>7
<1>9. /\ Len(all) \in Nat /\ DOMAIN all = 1..Len(all)
      /\ \A i \in DOMAIN all : all[i] = taken[f[i]] /\ f[i] \in T /\ f[i] \in Nat
      /\ \A i, j \in DOMAIN all : i < j => f[i] < f[j]
      /\ \A n \in T : \E i \in DOMAIN all : f[i] = n
  BY <1>2, <1>8 DEF InOrderOf
<1>10. first \in SUBSET DOMAIN all /\ first \in SUBSET Nat /\ IsFiniteSet(first)
  <2>1. IsFiniteSet(1..Len(all))
    BY 1 \in Int, <1>9, FS_Interval
  <2>2. first \in SUBSET DOMAIN all
    OBVIOUS
  <2>3. IsFiniteSet(first)
    BY <1>9, <2>1, <2>2, FS_Subset, Zenon
  <2> QED BY <1>9, <2>2, <2>3
<1>11. \A i \in DOMAIN all : i \in first <=> \A j \in 1..(i - 1) : ~SamePlace(all[j], all[i])
  OBVIOUS
<1> HIDE DEF first
<1>12. new \in Seq(S) /\ \E e : InOrderOf(new, all, first, e)
  <2>1. \A i \in first : all[i] \in S
    BY <1>7, <1>10
  <2> QED BY <1>10, <2>1, AtInOrder
<1> HIDE DEF new
<1>13. PICK e : InOrderOf(new, all, first, e)
  BY <1>12
<1>14. /\ Len(new) \in Nat /\ DOMAIN new = 1..Len(new)
       /\ \A i \in DOMAIN new : new[i] = all[e[i]] /\ e[i] \in first /\ e[i] \in DOMAIN all /\ e[i] \in Nat
       /\ \A i, j \in DOMAIN new : i < j => e[i] < e[j]
       /\ \A p \in first : \E i \in DOMAIN new : e[i] = p
  BY <1>10, <1>13 DEF InOrderOf
<1>15. IsFair(new, groups)
  <2>1. ASSUME NEW i \in DOMAIN new
        PROVE  \E g \in DOMAIN groups : \E k \in DOMAIN groups[g] :
                  /\ new[i] = groups[g][k]
                  /\ \A h \in DOMAIN groups : \A j \in DOMAIN groups[h] :
                        j < k => \E m \in 1..(i - 1) : SamePlace(new[m], groups[h][j])
    <3>1. PICK p \in DOMAIN all : p = e[i] /\ new[i] = all[p]
      BY <1>14
    <3>2. PICK n \in T : n = f[p] /\ all[p] = taken[n]
      BY <1>9
    <3>3. PICK g \in 1..N, k \in Nat :
             /\ g = GroupOf(groups, n) /\ k = RoundOf(groups, n)
             /\ k \in DOMAIN groups[g] /\ taken[n] = groups[g][k]
      <4>1. PICK g \in 1..N : g = GroupOf(groups, n)
        BY <1>3
      <4>2. RoundOf(groups, n) \in DOMAIN groups[g] /\ groups[g] \in Seq(S)
        BY <1>3, <4>1
      <4>3. RoundOf(groups, n) \in Nat
        BY <4>2
      <4> QED BY <1>4, <4>1, <4>2, <4>3
    <3>4. ASSUME NEW h \in DOMAIN groups, NEW j \in DOMAIN groups[h], j < k
          PROVE  \E m \in 1..(i - 1) : SamePlace(new[m], groups[h][j])
      <4>1. h \in 1..N /\ groups[h] \in Seq(S) /\ Len(groups[h]) <= MaxHitsPerGroup /\ N \in Nat \ {0}
        BY <1>3
      <4>2. j \in 1..MaxHitsPerGroup /\ j <= Len(groups[h])
        BY <1>1, <4>1
      <4>3. PICK q \in 1..(MaxHitsPerGroup * N) : ((q - 1) % N) + 1 = h /\ ((q - 1) \div N) + 1 = j
        <5>1. PICK M \in Nat : M = MaxHitsPerGroup
          BY <1>1
        <5>2. j \in 1..M /\ h \in 1..N /\ N \in Nat \ {0}
          BY <4>1, <4>2, <5>1
        <5>3. HasTurn(M, N, h, j)
          BY <5>2, TurnOf
        <5> QED BY <5>1, <5>3 DEF HasTurn
      <4>4. GroupOf(groups, q) = h /\ RoundOf(groups, q) = j /\ q \in Nat
        BY <1>1, <4>3 DEF GroupOf, RoundOf
      <4>5. q \in T /\ q < n
        <5>1. q \in T
          BY <1>2, <4>2, <4>3, <4>4
        <5> QED BY <1>3, <3>3, <3>4, <4>4, <5>1
      <4>6. PICK r \in DOMAIN all : f[r] = q /\ all[r] = groups[h][j]
        <5>1. taken[q] = groups[h][j]
          BY <1>4, <4>4, <4>5
        <5> QED BY <1>9, <4>5, <5>1
      <4>7. r < p
        <5>1. r \in Nat /\ p \in Nat /\ q \in Nat /\ n \in Nat
          BY <1>2, <1>9
        <5>2. f[p] = n /\ f[r] = q /\ q < n
          BY <3>2, <4>5, <4>6
        <5>3. p < r => f[p] < f[r]
          BY <1>9, <3>1, <4>6
        <5> QED BY <5>1, <5>2, <5>3
      <4>8. PICK s \in DOMAIN all : /\ SamePlace(all[s], all[r]) /\ s <= r
                                    /\ \A t \in DOMAIN all : SamePlace(all[t], all[r]) => s <= t
        <5> DEFINE Same == {s \in DOMAIN all : SamePlace(all[s], all[r])}
        <5>1. r \in Same /\ Same \in SUBSET Nat
          BY <1>9 DEF SamePlace
        <5> HIDE DEF Same
        <5>2. PICK s \in Same : \A t \in Same : s <= t
          BY <5>1, SmallestOf
        <5> QED BY <5>1, <5>2 DEF Same
      <4>9. s \in first
        <5> SUFFICES ASSUME NEW t \in 1..(s - 1), SamePlace(all[t], all[s]) PROVE FALSE
          BY <1>11
        <5>1. t \in DOMAIN all /\ t < s
          BY <1>9
        <5>2. SamePlace(all[t], all[r])
          BY <4>8 DEF SamePlace
        <5>3. s <= t
          BY <4>8, <5>1, <5>2
        <5>4. s \in Nat /\ t \in Nat
          BY <1>9, <4>8, <5>1
        <5> QED BY <5>1, <5>3, <5>4
      <4>10. PICK m \in DOMAIN new : e[m] = s /\ new[m] = all[s]
        BY <1>14, <4>9
      <4>11. m < i
        <5>1. s \in Nat /\ p \in Nat /\ r \in Nat /\ m \in Nat /\ i \in Nat /\ s < p
          BY <1>9, <1>14, <4>7, <4>8
        <5>2. e[i] = p /\ e[m] = s
          BY <3>1, <4>10
        <5>3. i < m => e[i] < e[m]
          BY <1>14, <4>10
        <5> QED BY <5>1, <5>2, <5>3
      <4>12. m \in 1..(i - 1)
        BY <1>14, <4>11
      <4> QED BY <4>6, <4>8, <4>10, <4>12
    <3> QED BY <3>1, <3>2, <3>3, <3>4
  <2>2. ASSUME NEW i \in DOMAIN new, NEW j \in DOMAIN new, SamePlace(new[i], new[j]), i < j PROVE FALSE
    <3>1. PICK p \in first, q \in first : /\ p = e[i] /\ q = e[j] /\ p \in DOMAIN all /\ q \in DOMAIN all
                                          /\ new[i] = all[p] /\ new[j] = all[q] /\ p < q
      BY <1>14, <2>2
    <3>2. p \in 1..(q - 1)
      BY <1>9, <3>1
    <3> QED BY <1>11, <2>2, <3>1, <3>2
  <2>3. ASSUME NEW i \in DOMAIN new, NEW j \in DOMAIN new, SamePlace(new[i], new[j]) PROVE i = j
    <3>1. SamePlace(new[j], new[i])
      BY <2>3 DEF SamePlace
    <3>2. i \in Nat /\ j \in Nat
      BY <1>14
    <3> QED BY <2>2, <2>3, <3>1, <3>2
  <2> QED BY <2>1, <2>3 DEF IsFair
<1>16. find_hits(groups) = SubSeq(new, 1, Smaller(Len(new), MaxTrackedHits))
  BY DEF find_hits, new, first, all
<1>17. find_hits(groups) \in Seq(S)
  BY <1>1, <1>12, <1>16, BeginningIs
<1> QED BY <1>1, <1>12, <1>15, <1>16, <1>17, BeginningIsFair

LEMMA GroupsAre ==
    ASSUME NEW queries \in SearchQueries, NEW sources \in SourceChoices, corpus \in Seq(Files)
    PROVE  \E N \in Nat :
              /\ DOMAIN Groups(queries, sources) = 1..N /\ Len(Groups(queries, sources)) = N
              /\ \A g \in 1..N : /\ Groups(queries, sources)[g] \in Seq(Matches)
                                 /\ Len(Groups(queries, sources)[g]) <= MaxHitsPerGroup
<1>1. queries \in Seq(Range(queries))
  BY QueryAssumption
<1>2. Len(queries) \in Nat /\ DOMAIN queries = 1..Len(queries)
  BY <1>1
<1>3. /\ Len(sources) \in Nat /\ DOMAIN sources = 1..Len(sources)
      /\ \A s \in DOMAIN sources : sources[s] \in DOMAIN corpus
  <2>1. DOMAIN corpus = 1..Len(corpus) /\ Len(corpus) \in Nat
    OBVIOUS
  <2>2. CASE sources = [i \in DOMAIN corpus |-> i]
    <3>1. sources \in [1..Len(corpus) -> DOMAIN corpus]
      BY <2>1, <2>2
    <3>2. Len(sources) = Len(corpus)
      BY <2>1, <3>1
    <3> QED BY <2>1, <3>1, <3>2
  <2>3. CASE \E i \in DOMAIN corpus : sources = <<i>>
    BY <2>3
  <2> QED BY <2>2, <2>3 DEF SourceChoices
<1> DEFINE A == Len(queries)
           B == Len(sources)
           N == A * B
           groups == Groups(queries, sources)
<1>4. N \in Nat
  BY <1>2, <1>3
<1>5. groups = [n \in 1..N |-> Group(queries[((n - 1) \div B) + 1], sources[((n - 1) % B) + 1])]
  BY DEF Groups
<1>6. ASSUME NEW n \in 1..N
      PROVE  ((n - 1) \div B) + 1 \in DOMAIN queries /\ ((n - 1) % B) + 1 \in DOMAIN sources
  <2>0. PICK a \in Nat, b \in Nat : a = A /\ b = B
    BY <1>2, <1>3
  <2>1. n \in 1..(a * b) /\ n \in Nat \ {0}
    BY <1>4, <2>0
  <2>2. b # 0
    <3>1. b = 0 => a * b = 0
      OBVIOUS
    <3> QED BY <2>1, <3>1
  <2> DEFINE d == (n - 1) \div b
  <2>3. d + 1 \in Nat \ {0} /\ ((n - 1) % b) + 1 \in 1..b
    BY <2>1, <2>2, TurnIs
  <2>4. d \in Int /\ d * b <= n - 1
    BY <2>1, <2>2, Quotients
  <2> HIDE DEF d
  <2>5. ~(a <= d)
    <3> SUFFICES ASSUME a <= d PROVE FALSE
      OBVIOUS
    <3>1. a * b <= d * b
      BY <2>4, Products
    <3>2. PICK x \in Int, y \in Int : x = a * b /\ y = d * b
      BY <2>4
    <3> QED BY <2>1, <2>4, <3>1, <3>2
  <2>6. d + 1 \in 1..a
    BY <2>3, <2>4, <2>5
  <2> QED BY <1>2, <1>3, <2>0, <2>3, <2>6, SMTT(30) DEF d
<1> HIDE DEF A, B, N, groups
<1>7. ASSUME NEW n \in 1..N PROVE groups[n] \in Seq(Matches) /\ Len(groups[n]) <= MaxHitsPerGroup
  <2>1. PICK q \in DOMAIN queries, s \in DOMAIN sources : groups[n] = Group(queries[q], sources[s])
    BY <1>5, <1>6
  <2>2. PICK source \in DOMAIN corpus : source = sources[s]
    BY <1>3
  <2>3. corpus[source] \in Files
    OBVIOUS
  <2> QED BY <2>1, <2>2, <2>3, GroupIs
<1>8. groups \in [1..N -> Seq(Matches)]
  BY <1>5, <1>7
<1>9. DOMAIN groups = 1..N /\ Len(groups) = N
  BY <1>4, <1>8
<1> QED BY <1>4, <1>7, <1>9 DEF groups

\* What a search answers fits the texts, and is fair.
LEMMA SearchIs ==
    ASSUME NEW queries \in SearchQueries, NEW sources \in SourceChoices, corpus \in Seq(Files),
           search_knowledge(queries, sources)
    PROVE  hits' \in Seq(Matches) /\ IsFair(hits', Groups(queries, sources))
<1> DEFINE groups == Groups(queries, sources)
           found == find_hits(groups)
<1>1. hits' = SubSeq(found, 1, Smaller(Len(found), ResultsPerPage))
  BY DEF search_knowledge
<1>2. PICK N \in Nat : /\ DOMAIN groups = 1..N /\ Len(groups) = N
                       /\ \A g \in 1..N : groups[g] \in Seq(Matches) /\ Len(groups[g]) <= MaxHitsPerGroup
  BY GroupsAre
<1> HIDE DEF groups
<1>3. found \in Seq(Matches) /\ IsFair(found, groups)
  BY <1>2, FoundIsFair
<1> HIDE DEF found
<1>4. ResultsPerPage \in Nat
  BY QueryAssumption
<1>5. hits' \in Seq(Matches) /\ IsFair(hits', groups)
  BY <1>1, <1>3, <1>4, BeginningIs, BeginningIsFair
<1> QED BY <1>5 DEF groups

\* Rows and uploads are of files, for which the assumptions hold.
FilesHold ==
    /\ \A d \in DOMAIN documents : documents[d].file \in Files
    /\ \A c \in Curators : curator[c].pc = "insert" => curator[c].file \in Files

\* What an agent holds of its session: hits that fit its texts, and a page that
\* begins within one.
PageHolds(reading) ==
    /\ reading.source \in 0..Len(corpus)
    /\ reading.source # 0 => reading.start \in Nat /\ reading.start < corpus[reading.source].text.length
ReadingHolds ==
    /\ corpus \in Seq(Files)
    /\ corpus = <<>> => hits = <<>>
    /\ hits \in Seq(Matches)
    /\ page \in [source : Nat, start : Int] /\ PageHolds(page)

ReadInv == ShelfInv /\ FilesHold /\ ReadingHolds

LEMMA RoutesKeepFiles ==
    ASSUME ShelfInv, FilesHold, ShelfNext
    PROVE  FilesHold'
<1> PICK c \in Curators :
        \/ \E file \in Uploads : upload_check(c, file)
        \/ upload_insert(c) \/ upload_refresh(c)
        \/ \E d \in 1..inserted : delete_get(c, d)
        \/ delete_commit(c) \/ commit_fails(c)
        \/ curator[c].pc = "done" /\ curator' = [curator EXCEPT ![c] = NoCurator]
           /\ UNCHANGED <<documents, inserted, audited, auditErrors, readingVars>>
  BY DEF ShelfNext
<1>0. DOMAIN curator = Curators
  BY DEF ShelfInv, CuratorsHold
<1>1. ASSUME NEW file \in Uploads, upload_check(c, file) PROVE FilesHold'
  <2>1. /\ UNCHANGED documents
        /\ \/ \E status : Answer(c, status)
           \/ curator' = [curator EXCEPT ![c] = [NoCurator EXCEPT !.pc = "insert", !.file = file]]
    BY <1>1 DEF upload_check
  <2>2. file \in Files
    BY FilesAssumption
  <2> QED BY <1>0, <2>1, <2>2 DEF FilesHold, Answer, NoCurator
<1>2. CASE upload_insert(c)
  <2>1. CASE \E status : Answer(c, status) /\ UNCHANGED documents
    BY <1>0, <2>1 DEF FilesHold, Answer, NoCurator
  <2>2. CASE /\ documents' = [d \in DOMAIN documents \cup {inserted + 1} |->
                                 IF d = inserted + 1
                                 THEN [file |-> curator[c].file, encoding |-> detect_txt_encoding(curator[c].file)]
                                 ELSE documents[d]]
             /\ curator' = [curator EXCEPT ![c] = [NoCurator EXCEPT !.pc = "refresh", !.row = inserted + 1]]
    <3>1. curator[c].file \in Files
      BY <1>2 DEF upload_insert, FilesHold
    <3>2. \A d \in DOMAIN documents' : documents'[d].file \in Files
      BY <2>2, <3>1 DEF FilesHold
    <3>3. \A e \in Curators : curator'[e].pc = "insert" => curator'[e].file \in Files
      BY <1>0, <2>2 DEF FilesHold, NoCurator
    <3> QED BY <3>2, <3>3 DEF FilesHold
  <2> QED BY <1>2, <2>1, <2>2 DEF upload_insert
<1>3. CASE upload_refresh(c) \/ commit_fails(c)
  <2>1. UNCHANGED documents /\ \E status : Answer(c, status)
    BY <1>3 DEF upload_refresh, commit_fails
  <2> QED BY <1>0, <2>1 DEF FilesHold, Answer, NoCurator
<1>4. ASSUME NEW d \in 1..inserted, delete_get(c, d) PROVE FilesHold'
  <2>1. /\ UNCHANGED documents
        /\ \/ curator' = [curator EXCEPT ![c] = [NoCurator EXCEPT !.pc = "delete", !.row = d]]
           \/ Answer(c, "404")
    BY <1>4 DEF delete_get
  <2> QED BY <1>0, <2>1 DEF FilesHold, Answer, NoCurator
<1>5. CASE delete_commit(c)
  <2>1. documents' = [d \in DOMAIN documents \ {curator[c].row} |-> documents[d]] /\ Answer(c, "204")
    BY <1>5 DEF delete_commit
  <2> QED BY <1>0, <2>1 DEF FilesHold, Answer, NoCurator
<1>6. CASE curator' = [curator EXCEPT ![c] = NoCurator] /\ UNCHANGED documents
  BY <1>0, <1>6 DEF FilesHold, NoCurator
<1> QED BY <1>1, <1>2, <1>3, <1>4, <1>5, <1>6

LEMMA SessionIsOpened ==
    ASSUME ReadInv, open_session
    PROVE  ReadingHolds'
<1> PICK order \in SetToSeqs(DOMAIN documents) :
        corpus' = [i \in DOMAIN order |-> documents[order[i]].file]
  BY DEF open_session
<1>1. corpus = <<>> /\ hits = <<>> /\ UNCHANGED <<hits, page>>
  BY DEF open_session, ReadInv, ReadingHolds
<1>2. IsFiniteSet(DOMAIN documents)
  <2>1. inserted \in Nat /\ DOMAIN documents \subseteq 1..inserted
    BY KnowledgeAssumption DEF ReadInv, ShelfInv, AuditsAreOfRows
  <2>2. IsFiniteSet(1..inserted)
    BY 1 \in Int, <2>1, FS_Interval
  <2> QED BY <2>1, <2>2, FS_Subset, Zenon
<1>3. PICK n \in Nat : DOMAIN order = 1..n /\ order \in Seq(DOMAIN documents)
  BY <1>2, SeqsOf
<1>4. \A i \in 1..n : documents[order[i]].file \in Files
  BY <1>3 DEF ReadInv, FilesHold
<1>5. corpus' \in [1..n -> Files]
  BY <1>3, <1>4
<1>6. corpus' \in Seq(Files) /\ Len(corpus') \in Nat
  BY <1>5
<1>7. hits' \in Seq(Matches')
  BY <1>1
<1>8. page.source = 0 /\ page \in [source : Nat, start : Int]
  <2>1. Len(corpus) = 0
    BY <1>1
  <2> QED BY <2>1 DEF ReadInv, ReadingHolds, PageHolds
<1>9. PageHolds(page)'
  BY <1>1, <1>6, <1>8 DEF PageHolds
<1> QED BY <1>1, <1>6, <1>7, <1>8, <1>9 DEF ReadingHolds

\* A step that reads a page within a text keeps the rest of the session.
LEMMA SessionGoesOn ==
    ASSUME ReadInv, UNCHANGED <<corpus, hits>>, page' \in [source : Nat, start : Int],
           page'.source \in 1..Len(corpus),
           page'.start \in Nat, page'.start < corpus[page'.source].text.length
    PROVE  ReadingHolds'
<1>1. Matches' = Matches
  BY DEF Matches
<1> QED BY <1>1 DEF ReadInv, ReadingHolds, PageHolds

LEMMA ReadingKeeps ==
    ASSUME ReadInv, ReadNext
    PROVE  ReadingHolds'
<1>0. corpus \in Seq(Files) /\ Len(corpus) \in Nat /\ DOMAIN corpus = 1..Len(corpus)
  BY DEF ReadInv, ReadingHolds
<1>1. CASE open_session
  BY <1>1, SessionIsOpened
<1>2. ASSUME NEW queries \in SearchQueries, NEW sources \in SourceChoices, search_knowledge(queries, sources)
      PROVE  ReadingHolds'
  <2>1. UNCHANGED <<corpus, page>> /\ corpus # <<>>
    BY <1>2 DEF search_knowledge
  <2>2. hits' \in Seq(Matches)
    BY <1>0, <1>2, SearchIs
  <2>3. Matches' = Matches
    BY <2>1 DEF Matches
  <2> QED BY <2>1, <2>2, <2>3 DEF ReadInv, ReadingHolds, PageHolds
<1>3. ASSUME NEW i \in DOMAIN hits, read_hit(i) PROVE ReadingHolds'
  <2>1. PICK hit \in Matches : hit = hits[i]
    BY DEF ReadInv, ReadingHolds
  <2>2. PICK content : content = corpus[hit.source].text
    OBVIOUS
  <2>3. /\ hit.source \in DOMAIN corpus /\ hit.position \in Nat /\ hit.chars \in 1..MaxQueryChars
        /\ hit.position + hit.chars <= content.length
    BY <2>2 DEF Matches
  <2>4. IsText(content)
    BY <1>0, <2>2, <2>3, FilesAssumption
  <2>5. PICK start \in Nat : start = page_start_for_match(content, hit.position) /\ start <= hit.position
    BY <2>3, <2>4, PageStartIs
  <2>6. start < content.length
    <3>1. content.length \in Nat /\ MaxQueryChars \in Nat
      BY <2>4, PageAssumption DEF IsText
    <3> QED BY <2>3, <2>5, <3>1
  <2>7. page' = [source |-> hit.source, start |-> start] /\ UNCHANGED <<corpus, hits>>
    BY <1>3, <2>1, <2>2, <2>5 DEF read_hit, Cursor
  <2> QED BY <1>0, <2>2, <2>3, <2>6, <2>7, SessionGoesOn
<1>4. ASSUME page.source # 0
      PROVE  /\ page \in [source : Nat, start : Nat] /\ page.source \in DOMAIN corpus
             /\ IsText(corpus[page.source].text) /\ page.start < corpus[page.source].text.length
  <2>1. page.source \in 1..Len(corpus) /\ page.start \in Nat /\ page \in [source : Nat, start : Int]
    BY <1>0, <1>4 DEF ReadInv, ReadingHolds, PageHolds
  <2>2. corpus[page.source] \in Files
    BY <1>0, <2>1
  <2> QED BY <1>0, <1>4, <2>1, <2>2, FilesAssumption DEF ReadInv, ReadingHolds, PageHolds
<1>5. CASE read_next
  <2>1. PICK content : content = corpus[page.source].text
    OBVIOUS
  <2>2. PICK end : end = page_end(content, page.start)
    OBVIOUS
  <2>3. /\ page.source # 0 /\ end < content.length /\ page' = [page EXCEPT !.start = end]
        /\ UNCHANGED <<corpus, hits>>
    BY <1>5, <2>1, <2>2 DEF read_next
  <2>4. end \in Int /\ page.start < end
    BY <1>4, <2>1, <2>2, <2>3, PageEndBounds, PagesAreSound DEF PageIsSound
  <2>5. end \in Nat
    BY <1>4, <2>3, <2>4
  <2> QED BY <1>0, <1>4, <2>1, <2>3, <2>5, SessionGoesOn
<1>6. CASE read_previous
  <2>1. PICK content : content = corpus[page.source].text
    OBVIOUS
  <2>2. PICK start : start = previous_page_start(content, page.start)
    OBVIOUS
  <2>3. /\ page.source # 0 /\ page.start > 0 /\ page' = [page EXCEPT !.start = start]
        /\ UNCHANGED <<corpus, hits>>
    BY <1>6, <2>1, <2>2 DEF read_previous
  <2>4. start \in Nat /\ start < page.start
    BY <1>4, <2>1, <2>2, <2>3, PreviousStartIs
  <2>5. start < content.length
    <3>1. content.length \in Nat
      BY <1>4, <2>1, <2>3 DEF IsText
    <3> QED BY <1>4, <2>1, <2>3, <2>4, <3>1
  <2> QED BY <1>0, <1>4, <2>1, <2>3, <2>4, <2>5, SessionGoesOn
<1> QED BY <1>1, <1>2, <1>3, <1>5, <1>6 DEF ReadNext

LEMMA ReadInvHolds ==
    ASSUME NEW CONSTANT shelves, \A shelf \in shelves : ShelfIsSane(shelf)
    PROVE  KnowledgeInit(shelves) /\ [][ShelfNext \/ ReadNext]_knowledgeVars => []ReadInv
<1>1. KnowledgeInit(shelves) => FilesHold /\ ReadingHolds
  <2> SUFFICES ASSUME KnowledgeInit(shelves) PROVE FilesHold /\ ReadingHolds
    OBVIOUS
  <2> PICK shelf \in shelves :
        documents = [d \in DOMAIN shelf |-> [file |-> shelf[d], encoding |-> detect_txt_encoding(shelf[d])]]
    BY DEF KnowledgeInit
  <2>1. shelf \in Seq(Files)
    BY DEF ShelfIsSane
  <2>2. \A d \in DOMAIN documents : documents[d].file = shelf[d] /\ d \in DOMAIN shelf
    OBVIOUS
  <2>3. FilesHold
    BY <2>1, <2>2 DEF FilesHold, KnowledgeInit, NoCurator
  <2>4. corpus = <<>> /\ hits = <<>> /\ page = [source |-> 0, start |-> 0]
    BY DEF KnowledgeInit
  <2>5. Len(corpus) = 0 /\ page.source = 0
    BY <2>4
  <2> QED BY <2>3, <2>4, <2>5 DEF ReadingHolds, PageHolds
<1>2. ReadInv /\ [ShelfNext \/ ReadNext]_knowledgeVars => FilesHold' /\ ReadingHolds'
  <2> SUFFICES ASSUME ReadInv, [ShelfNext \/ ReadNext]_knowledgeVars PROVE FilesHold' /\ ReadingHolds'
    OBVIOUS
  <2>1. ASSUME UNCHANGED readingVars PROVE ReadingHolds'
    <3>1. UNCHANGED <<corpus, hits, page>>
      BY <2>1 DEF readingVars
    <3>2. Matches' = Matches
      BY <3>1 DEF Matches
    <3> QED BY <3>1, <3>2 DEF ReadInv, ReadingHolds, PageHolds
  <2>2. ASSUME UNCHANGED shelfVars PROVE FilesHold'
    <3>1. UNCHANGED <<documents, curator>>
      BY <2>2 DEF shelfVars
    <3> QED BY <3>1 DEF ReadInv, FilesHold
  <2>3. CASE ShelfNext
    <3>1. UNCHANGED readingVars
      BY <2>3 DEF ShelfNext, upload_check, upload_insert, upload_refresh, delete_get, delete_commit,
                  commit_fails, readingVars
    <3> QED BY <2>1, <2>3, <3>1, RoutesKeepFiles, SMTT(30) DEF ReadInv
  <2>4. CASE ReadNext
    <3>1. UNCHANGED shelfVars
      BY <2>4 DEF ReadNext, open_session, search_knowledge, read_hit, read_next, read_previous
    <3> QED BY <2>2, <2>4, <3>1, ReadingKeeps
  <2>5. CASE UNCHANGED knowledgeVars
    BY <2>1, <2>2, <2>5 DEF knowledgeVars
  <2> QED BY <2>3, <2>4, <2>5
<1>3. ReadInv <=> ShelfInv /\ FilesHold /\ ReadingHolds
  BY DEF ReadInv
<1> QED BY <1>1, <1>2, <1>3, ShelfInvHolds, PTL

\* Beside one another and beside an agent that reads, administrators' uploads
\* and deletions keep all that is promised of the shelf, with every variable of
\* its type: what the session holds is files, and its page begins in one.
THEOREM ShelfStaysSound ==
    ASSUME NEW CONSTANT shelves, \A shelf \in shelves : ShelfIsSane(shelf)
    PROVE  KnowledgeInit(shelves) /\ [][ShelfNext \/ ReadNext]_knowledgeVars => []ShelfIsSound
<1>1. ReadInv => ShelfIsSound
  <2> SUFFICES ASSUME ReadInv PROVE ShelfIsSound
    OBVIOUS
  <2>1. DOMAIN documents \subseteq 1..inserted /\ inserted \in 0..MaxDocuments
    BY DEF ReadInv, ShelfInv, AuditsAreOfRows
  <2>2. \A c \in Curators : curator[c].pc \in {"idle", "insert", "refresh", "delete", "done"}
    BY DEF ReadInv, ShelfInv, CuratorsHold
  <2>3. corpus \in Seq(Files) /\ Len(corpus) \in Nat /\ DOMAIN corpus = 1..Len(corpus)
    BY DEF ReadInv, ReadingHolds
  <2>4. \A i \in DOMAIN corpus : corpus[i] \in Files /\ IsText(corpus[i].text)
    BY <2>3, FilesAssumption
  <2>5. page.source \in 0..Len(corpus)
    BY DEF ReadInv, ReadingHolds, PageHolds
  <2>6. page.source # 0 => page.start \in 0..(corpus[page.source].text.length - 1)
    <3> SUFFICES ASSUME page.source # 0 PROVE page.start \in 0..(corpus[page.source].text.length - 1)
      OBVIOUS
    <3>1. page.source \in DOMAIN corpus
      BY <2>3, <2>5
    <3>2. corpus[page.source].text.length \in Nat
      BY <2>4, <3>1 DEF IsText
    <3>3. page.start \in Nat /\ page.start < corpus[page.source].text.length
      BY DEF ReadInv, ReadingHolds, PageHolds
    <3> QED BY <3>2, <3>3
  <2>7. KnowledgeTypeOK
    BY <2>1, <2>2, <2>4, <2>5, <2>6 DEF KnowledgeTypeOK
  <2> QED BY <2>7 DEF ShelfIsSound, ReadInv, ShelfInv
<1> QED BY <1>1, ReadInvHolds, PTL

\* Whatever the agent searches for and reads, in whatever order and with whatever
\* texts: the page that a hit leads to (_page_start_for_match, _page_end) and its
\* context (_context_bounds) show the whole match, and reading on and back
\* (_page_end, _previous_page_start) always get further.
THEOREM PagesAlwaysShowMatches ==
    ASSUME NEW CONSTANT shelves, \A shelf \in shelves : ShelfIsSane(shelf)
    PROVE  KnowledgeInit(shelves) /\ [][ShelfNext \/ ReadNext]_knowledgeVars => []PagesShowMatches
<1>1. ReadInv => PagesShowMatches
  <2> SUFFICES ASSUME ReadInv PROVE PagesShowMatches
    OBVIOUS
  <2>1. corpus \in Seq(Files) /\ Len(corpus) \in Nat /\ DOMAIN corpus = 1..Len(corpus)
    BY DEF ReadInv, ReadingHolds
  <2>2. \A s \in DOMAIN corpus : IsText(corpus[s].text)
    BY <2>1, FilesAssumption
  <2>3. ASSUME NEW i \in DOMAIN hits
        PROVE  /\ hits[i].source \in DOMAIN corpus
               /\ hits[i].position \in Nat /\ hits[i].chars \in Nat \ {0} /\ hits[i].chars <= MaxQueryChars
               /\ hits[i].position + hits[i].chars <= corpus[hits[i].source].text.length
               /\ Newlines(corpus[hits[i].source].text, hits[i].position, hits[i].position + hits[i].chars) = {}
    <3>1. PICK hit \in Matches : hit = hits[i]
      BY DEF ReadInv, ReadingHolds
    <3>2. /\ hit.source \in DOMAIN corpus /\ hit.position \in Nat /\ hit.chars \in 1..MaxQueryChars
          /\ hit.position + hit.chars <= corpus[hit.source].text.length
          /\ Newlines(corpus[hit.source].text, hit.position, hit.position + hit.chars) = {}
      BY DEF Matches
    <3>3. hit.chars \in Nat \ {0} /\ hit.chars <= MaxQueryChars
      BY <3>2, PageAssumption
    <3> QED BY <3>1, <3>2, <3>3
  <2>4. MatchIsOnPage
    BY <2>2, <2>3, MatchesAreOnTheirPage DEF MatchIsOnPage
  <2>5. ContextShowsMatch
    <3> SUFFICES ASSUME NEW i \in DOMAIN hits
                 PROVE  LET content == corpus[hits[i].source].text
                            from == context_start(content, hits[i].position)
                            to == context_end(content, hits[i].position, hits[i].chars)
                        IN /\ 0 <= from /\ from <= hits[i].position
                           /\ hits[i].position + hits[i].chars <= to /\ to <= content.length
                           /\ Newlines(content, from, to) = {}
      BY DEF ContextShowsMatch
    <3> QED BY <2>2, <2>3, ContextsShowMatches
  <2>6. PagesProgress
    <3> SUFFICES ASSUME page.source # 0
                 PROVE  /\ PageIsSound(corpus[page.source].text, page.start)
                        /\ page.start > 0 => IsBefore(corpus[page.source].text, page.start)
      BY DEF PagesProgress
    <3>1. /\ page.source \in DOMAIN corpus /\ page.start \in Nat
          /\ page.start < corpus[page.source].text.length
      BY <2>1 DEF ReadInv, ReadingHolds, PageHolds
    <3>2. IsText(corpus[page.source].text)
      BY <2>2, <3>1
    <3>3. PageIsSound(corpus[page.source].text, page.start)
      BY <3>1, <3>2, PagesAreSound
    <3>4. page.start > 0 => IsBefore(corpus[page.source].text, page.start)
      BY <3>1, <3>2, PreviousPagesAreBefore
    <3> QED BY <3>3, <3>4
  <2> QED BY <2>4, <2>5, <2>6 DEF PagesShowMatches
<1> QED BY <1>1, ReadInvHolds, PTL

\* Every search answers in turns (_find_hits): a match of one query in one source
\* only after all earlier ones of every query and source, and no place twice,
\* however many there are and wherever the lists are cut.
THEOREM HitsStayFair ==
    ASSUME NEW CONSTANT shelves, \A shelf \in shelves : ShelfIsSane(shelf)
    PROVE  KnowledgeInit(shelves) /\ [][ShelfNext \/ ReadNext]_knowledgeVars => HitsAreFair
<1> DEFINE Fairly == hits # hits' => \E queries \in SearchQueries, sources \in SourceChoices :
                                         IsFair(hits', Groups(queries, sources))
<1>1. ReadInv /\ [ShelfNext \/ ReadNext]_knowledgeVars => [Fairly]_readingVars
  <2> SUFFICES ASSUME ReadInv, [ShelfNext \/ ReadNext]_knowledgeVars, hits # hits'
               PROVE  \E queries \in SearchQueries, sources \in SourceChoices :
                          IsFair(hits', Groups(queries, sources))
    BY SMTT(30)
  <2>1. PICK queries \in SearchQueries, sources \in SourceChoices : search_knowledge(queries, sources)
    BY DEF ShelfNext, ReadNext, upload_check, upload_insert, upload_refresh, delete_get, delete_commit,
           commit_fails, open_session, read_hit, read_next, read_previous, readingVars, shelfVars, knowledgeVars
  <2> QED BY <2>1, SearchIs DEF ReadInv, ReadingHolds
<1> QED BY <1>1, ReadInvHolds, PTL DEF HitsAreFair

(***************************************************************************)
(* What a search ranks.                                                    *)
(***************************************************************************)

LEMMA CutIs ==
    ASSUME NEW S, NEW s \in Seq(S), NEW limit \in Nat
    PROVE  /\ Cut(s, limit) \in Seq(S)
           /\ Len(Cut(s, limit)) = IF Len(s) < limit THEN Len(s) ELSE limit
           /\ DOMAIN Cut(s, limit) = 1..Len(Cut(s, limit))
           /\ \A i \in DOMAIN Cut(s, limit) : i \in DOMAIN s /\ Cut(s, limit)[i] = s[i]
<1>1. CASE Len(s) < limit
  <2>1. Cut(s, limit) = SubSeq(s, 1, Len(s))
    BY <1>1 DEF Cut
  <2> QED BY <1>1, <2>1
<1>2. CASE ~(Len(s) < limit)
  <2>1. Cut(s, limit) = SubSeq(s, 1, limit)
    BY <1>2 DEF Cut
  <2> QED BY <1>2, <2>1
<1> QED BY <1>1, <1>2

\* A ranking holds different members of what matches; all, when they are not
\* more than are recalled, and as many as are recalled otherwise.
LEMMA RankingIs ==
    ASSUME NEW S, IsFiniteSet(S), NEW b \in Rankings(S)
    PROVE  /\ Len(b) \in Nat /\ DOMAIN b = 1..Len(b) /\ ToSet(b) \subseteq S
           /\ \A i, j \in DOMAIN b : b[i] = b[j] => i = j
           /\ ToSet(b) = S \/ Len(b) = RecallLimit
<1> PICK s \in SetToSeqs(S) : b = Cut(s, RecallLimit)
  BY DEF Rankings
<1>1. /\ Cardinality(S) \in Nat /\ Len(s) = Cardinality(S) /\ s \in Seq(S)
      /\ DOMAIN s = 1..Len(s)
      /\ \A i, j \in DOMAIN s : s[i] = s[j] => i = j
      /\ ToSet(s) = S
  BY SeqsOf
<1>2. RecallLimit \in Nat
  BY LimitAssumption
<1>3. /\ b \in Seq(S)
      /\ Len(b) = IF Len(s) < RecallLimit THEN Len(s) ELSE RecallLimit
      /\ DOMAIN b = 1..Len(b)
      /\ \A i \in DOMAIN b : i \in DOMAIN s /\ b[i] = s[i]
  BY <1>1, <1>2, CutIs
<1>4. ToSet(b) \subseteq S
  BY <1>1, <1>3 DEF ToSet
<1>5. ToSet(b) = S \/ Len(b) = RecallLimit
  <2> SUFFICES ASSUME Len(b) # RecallLimit PROVE S \subseteq ToSet(b)
    BY <1>4
  <2>1. Len(b) = Len(s) /\ DOMAIN b = DOMAIN s
    BY <1>1, <1>2, <1>3
  <2> QED BY <1>1, <1>3, <2>1 DEF ToSet
<1> QED BY <1>1, <1>3, <1>4, <1>5

\* The rank of a rule: where it stands, from one; none stand in one place.
LEMMA RankIs ==
    ASSUME NEW b, Len(b) \in Nat, DOMAIN b = 1..Len(b), NEW r
    PROVE  /\ r \in ToSet(b) => RankIn(b, r) \in 1..Len(b) /\ b[RankIn(b, r)] = r
           /\ r \notin ToSet(b) => RankIn(b, r) = 0
           /\ RankIn(b, r) \in Nat
<1>1. CASE r \in ToSet(b)
  <2>1. \E i \in DOMAIN b : b[i] = r
    BY <1>1 DEF ToSet
  <2> DEFINE i == CHOOSE i \in DOMAIN b : b[i] = r
  <2>2. i \in DOMAIN b /\ b[i] = r
    BY <2>1
  <2>3. RankIn(b, r) = i
    BY <1>1 DEF RankIn
  <2> HIDE DEF i
  <2> QED BY <1>1, <2>2, <2>3
<1>2. CASE r \notin ToSet(b)
  BY <1>2 DEF RankIn
<1> QED BY <1>1, <1>2

LEMMA CountTo ==
    ASSUME NEW n \in Nat
    PROVE  Cardinality(1..n) = n
  BY FS_Interval

LEMMA TimesGrows ==
    ASSUME NEW x \in Nat, NEW y \in Nat, NEW z \in Nat, x < y, z > 0
    PROVE  x * z < y * z /\ x * z \in Nat /\ y * z \in Nat /\ z * x = x * z /\ z * y = y * z
<1>1. PICK d \in Nat : y = x + d /\ d > 0
  <2>1. y - x \in Nat /\ y = x + (y - x) /\ y - x > 0
    OBVIOUS
  <2> QED BY <2>1
<1>2. d * z > 0 /\ d * z \in Nat /\ x * z \in Nat
  BY <1>1
<1>3. y * z = x * z + d * z
  BY <1>1
<1> QED BY <1>2, <1>3

\* Fused scores fall with both ranks: who is in both lists stands before who is
\* lower in each or missing from it.
LEMMA ScoresFall ==
    ASSUME NEW a \in Nat, NEW b \in Nat, NEW c \in Nat, NEW d \in Nat, c > 0, d > 0,
           a = 0 \/ a > c, b = 0 \/ b > d
    PROVE  Higher(RrfScore(c, d), RrfScore(a, b))
<1> DEFINE A == 5 + a
           B == 5 + b
           C == 5 + c
           D == 5 + d
<1>1. A \in Nat /\ B \in Nat /\ C \in Nat /\ D \in Nat /\ A > 0 /\ B > 0 /\ C > 0 /\ D > 0
  OBVIOUS
<1>2. /\ RrfScore(c, d) = <<C + D, C * D>>
      /\ a = 0 /\ b = 0 => RrfScore(a, b) = <<0, 1>>
      /\ a = 0 /\ b # 0 => RrfScore(a, b) = <<1, B>>
      /\ a # 0 /\ b = 0 => RrfScore(a, b) = <<1, A>>
      /\ a # 0 /\ b # 0 => RrfScore(a, b) = <<A + B, A * B>>
  BY DEF RrfScore, RRF_RANK_CONSTANT
<1>3. (a # 0 => C < A) /\ (b # 0 => D < B)
  OBVIOUS
<1> HIDE DEF A, B, C, D
<1>4. C * D \in Nat /\ C * D > 0
  <2>1. 0 * D < C * D
    BY <1>1, TimesGrows
  <2> QED BY <1>1, <2>1
<1>5. CASE a = 0 /\ b = 0
  <2>1. (C + D) * 1 > 0 * (C * D)
    BY <1>1, <1>4
  <2> QED BY <1>2, <1>5, <2>1 DEF Higher
<1>6. CASE a = 0 /\ b # 0
  <2>1. D * C < B * C /\ D * C = C * D /\ B * C = C * B
    BY <1>1, <1>3, <1>6, TimesGrows
  <2>2. D * B > 0 /\ D * B \in Nat /\ C * B \in Nat
    BY <1>1
  <2>3. (C + D) * B = C * B + D * B
    BY <1>1
  <2>4. (C + D) * B > 1 * (C * D)
    BY <1>4, <2>1, <2>2, <2>3
  <2> QED BY <1>2, <1>6, <2>4 DEF Higher
<1>7. CASE a # 0 /\ b = 0
  <2>1. C * D < A * D
    BY <1>1, <1>3, <1>7, TimesGrows
  <2>2. C * A > 0 /\ C * A \in Nat /\ D * A \in Nat /\ D * A = A * D
    BY <1>1
  <2>3. (C + D) * A = C * A + D * A
    BY <1>1
  <2>4. (C + D) * A > 1 * (C * D)
    BY <1>4, <2>1, <2>2, <2>3
  <2> QED BY <1>2, <1>7, <2>4 DEF Higher
<1>8. CASE a # 0 /\ b # 0
  <2>1. PICK ac \in Nat, bd \in Nat : ac = A * C /\ bd = B * D /\ ac > 0 /\ bd > 0
    BY <1>1
  <2>2. D * ac < B * ac /\ C * bd < A * bd /\ {D * ac, B * ac, C * bd, A * bd} \subseteq Nat
    BY <1>1, <1>3, <1>8, <2>1, TimesGrows
  <2>3. (C + D) * (A * B) = B * ac + A * bd
    BY <1>1, <2>1
  <2>4. (A + B) * (C * D) = D * ac + C * bd
    BY <1>1, <2>1
  <2>5. (C + D) * (A * B) > (A + B) * (C * D)
    BY <2>2, <2>3, <2>4
  <2> QED BY <1>2, <1>8, <2>5 DEF Higher
<1> QED BY <1>5, <1>6, <1>7, <1>8

\* The hits before they are ordered: one for every rule that matches exactly or
\* is recalled by either list, and no two in one place of a list.
HitsFit(found, query, rules, bm25, vector) ==
    /\ IsFiniteSet(found)
    /\ \A h \in found :
          /\ h.rule \in DOMAIN rules /\ h.priority = exact_priority(query, rules[h.rule])
          /\ h.priority \in 0..2 /\ h.bm25 \in Nat /\ h.vector \in Nat
          /\ h.bm25 = RankIn(bm25, h.rule) /\ h.vector = RankIn(vector, h.rule)
          /\ h.priority > 0 \/ h.bm25 > 0 \/ h.vector > 0
    /\ \A h, k \in found : \/ h.rule = k.rule
                           \/ h.bm25 # 0 /\ h.bm25 = k.bm25
                           \/ h.vector # 0 /\ h.vector = k.vector
                           => h = k
    /\ \A r \in DOMAIN rules : exact_priority(query, rules[r]) > 0 \/ r \in ToSet(bm25)
                               => \E h \in found : h.rule = r
    /\ Len(bm25) <= Cardinality(found)

LEMMA HitsAre ==
    ASSUME NEW query, NEW rules, IsFiniteSet(DOMAIN rules), NEW V, IsFiniteSet(V),
           NEW bm25 \in Rankings(bm25_matches(query, rules)), NEW vector \in Rankings(V)
    PROVE  HitsFit(HitSet(query, rules, bm25, vector), query, rules, bm25, vector)
<1> DEFINE found == HitSet(query, rules, bm25, vector)
           Hit(r) == [rule |-> r, priority |-> exact_priority(query, rules[r]),
                      bm25 |-> RankIn(bm25, r), vector |-> RankIn(vector, r)]
           M == bm25_matches(query, rules)
<1>1. M \subseteq DOMAIN rules /\ IsFiniteSet(M)
  <2>1. M \subseteq DOMAIN rules
    BY DEF bm25_matches
  <2> QED BY <2>1, FS_Subset
<1> HIDE DEF M
<1>2. /\ Len(bm25) \in Nat /\ DOMAIN bm25 = 1..Len(bm25) /\ ToSet(bm25) \subseteq M
      /\ \A i, j \in DOMAIN bm25 : bm25[i] = bm25[j] => i = j
  BY <1>1, RankingIs DEF M
<1>3. Len(vector) \in Nat /\ DOMAIN vector = 1..Len(vector)
  BY RankingIs
<1>4. \A r : /\ RankIn(bm25, r) \in Nat /\ RankIn(vector, r) \in Nat
             /\ RankIn(bm25, r) # 0 => bm25[RankIn(bm25, r)] = r
             /\ RankIn(vector, r) # 0 => vector[RankIn(vector, r)] = r
             /\ r \in ToSet(bm25) => RankIn(bm25, r) > 0
  BY <1>2, <1>3, RankIs
<1>5. \A r : exact_priority(query, rules[r]) \in 0..2
  BY DEF exact_priority
<1>6. \A h : h \in found <=> \E r \in DOMAIN rules :
                 h = Hit(r) /\ (h.priority > 0 \/ h.bm25 > 0 \/ h.vector > 0)
  BY DEF HitSet
<1>7. /\ IsFiniteSet(found)
  <2> DEFINE all == {Hit(r) : r \in DOMAIN rules}
             f == [r \in DOMAIN rules |-> Hit(r)]
  <2>1. f \in Surjection(DOMAIN rules, all)
    <3> HIDE DEF Hit
    <3> QED BY DEF Surjection
  <2>2. IsFiniteSet(all)
    <3> HIDE DEF all, f
    <3> QED BY <2>1, FS_Surjection
  <2>3. found \in SUBSET all
    BY <1>6
  <2> HIDE DEF all, found
  <2> QED BY <2>2, <2>3, FS_Subset
<1> HIDE DEF found
<1>8. \A h \in found : \E r \in DOMAIN rules :
         /\ h = Hit(r) /\ h.rule = r /\ h.priority = exact_priority(query, rules[r])
         /\ h.bm25 = RankIn(bm25, r) /\ h.vector = RankIn(vector, r)
         /\ h.priority > 0 \/ h.bm25 > 0 \/ h.vector > 0
  BY <1>6
<1>9. \A r \in DOMAIN rules : exact_priority(query, rules[r]) > 0 \/ r \in ToSet(bm25)
                                => Hit(r) \in found /\ Hit(r).rule = r
  BY <1>4, <1>6
<1> HIDE DEF Hit
<1>10. Len(bm25) <= Cardinality(found)
  <2> DEFINE g == [i \in 1..Len(bm25) |-> Hit(bm25[i])]
  <2>1. \A i \in 1..Len(bm25) : bm25[i] \in DOMAIN rules /\ bm25[i] \in ToSet(bm25)
    BY <1>1, <1>2 DEF ToSet
  <2>2. \A i \in 1..Len(bm25) : Hit(bm25[i]) \in found /\ Hit(bm25[i]).rule = bm25[i]
    BY <1>9, <2>1
  <2>3. g \in Injection(1..Len(bm25), found)
    BY <1>2, <2>2 DEF Injection, IsInjective
  <2>4. Cardinality(1..Len(bm25)) = Len(bm25)
    BY <1>2, CountTo
  <2> HIDE DEF g
  <2> QED BY <1>7, <2>3, <2>4, FS_Injection
<1>11. ASSUME NEW h \in found, NEW k \in found,
              \/ h.rule = k.rule
              \/ h.bm25 # 0 /\ h.bm25 = k.bm25
              \/ h.vector # 0 /\ h.vector = k.vector
       PROVE  h = k
  <2>1. PICK r \in DOMAIN rules : h = Hit(r) /\ h.rule = r /\ h.bm25 = RankIn(bm25, r) /\ h.vector = RankIn(vector, r)
    BY <1>8
  <2>2. PICK s \in DOMAIN rules : k = Hit(s) /\ k.rule = s /\ k.bm25 = RankIn(bm25, s) /\ k.vector = RankIn(vector, s)
    BY <1>8
  <2>3. r = s
    BY <1>4, <1>11, <2>1, <2>2
  <2> QED BY <2>1, <2>2, <2>3
<1>12. \A h \in found :
         /\ h.rule \in DOMAIN rules /\ h.priority = exact_priority(query, rules[h.rule])
         /\ h.priority \in 0..2 /\ h.bm25 \in Nat /\ h.vector \in Nat
         /\ h.bm25 = RankIn(bm25, h.rule) /\ h.vector = RankIn(vector, h.rule)
         /\ h.priority > 0 \/ h.bm25 > 0 \/ h.vector > 0
  BY <1>4, <1>5, <1>8
<1>13. \A r \in DOMAIN rules : exact_priority(query, rules[r]) > 0 \/ r \in ToSet(bm25)
                                 => \E h \in found : h.rule = r
  BY <1>9
<1>14. HitsFit(found, query, rules, bm25, vector)
  BY <1>7, <1>10, <1>11, <1>12, <1>13 DEF HitsFit
<1> QED BY <1>14 DEF found

\* The hits of a search, as they were ranked when it was.
HitsAreRanked(x) ==
    \E bm25 \in Rankings(bm25_matches(x.query, x.rules)), vector \in Rankings(DOMAIN x.vectors) :
    \E order \in Ordered(HitSet(x.query, x.rules, bm25, vector)) : x.hits = Cut(order, ResultLimit)

\* What the order of the hits promises, of one search.
HitsInOrder(x) ==
    /\ \A i, j \in DOMAIN x.hits : i < j =>
          /\ x.hits[i].rule # x.hits[j].rule
          /\ x.hits[i].priority >= x.hits[j].priority
          /\ x.hits[i].priority + x.hits[j].priority = 0 /\ x.hits[j].bm25 > 0 /\ x.hits[j].vector > 0
             => x.hits[i].bm25 \in 1..(x.hits[j].bm25 - 1) \/ x.hits[i].vector \in 1..(x.hits[j].vector - 1)
    /\ \A r \in DOMAIN x.rules :
          exact_priority(x.query, x.rules[r]) > 0
          => Len(x.hits) = ResultLimit \/ \E i \in DOMAIN x.hits : x.hits[i].rule = r

\* And what a search does not lose.
HitsAreKept(x) ==
    /\ Len(x.hits) < ResultLimit =>
          bm25_matches(x.query, x.rules) \subseteq {x.hits[i].rule : i \in DOMAIN x.hits}
    /\ x.vectors = <<>> => \A i \in DOMAIN x.hits : x.hits[i].vector = 0

\* Why a rule is among the hits.
HitsAreFound(x) ==
    /\ Len(x.hits) \in Nat /\ Len(x.hits) <= ResultLimit /\ DOMAIN x.hits = 1..Len(x.hits)
    /\ \A i \in DOMAIN x.hits :
          LET h == x.hits[i] IN
          /\ h.rule \in DOMAIN x.rules
          /\ h.bm25 # 0 \/ h.vector # 0 \/ exact_priority(x.query, x.rules[h.rule]) > 0

\* Hits that were ranked are in order, all that there is room for, and found.
LEMMA RankedHits ==
    ASSUME NEW x, IsFiniteSet(DOMAIN x.rules), IsFiniteSet(DOMAIN x.vectors), HitsAreRanked(x)
    PROVE  HitsInOrder(x) /\ HitsAreKept(x) /\ HitsAreFound(x)
<1>1. PICK bm25 \in Rankings(bm25_matches(x.query, x.rules)), vector \in Rankings(DOMAIN x.vectors) :
      \E order \in Ordered(HitSet(x.query, x.rules, bm25, vector)) : x.hits = Cut(order, ResultLimit)
  BY DEF HitsAreRanked
<1>2. PICK set : set = HitSet(x.query, x.rules, bm25, vector)
  OBVIOUS
<1>3. PICK order \in Ordered(set) : x.hits = Cut(order, ResultLimit)
  BY <1>1, <1>2
<1>4. /\ IsFiniteSet(set)
      /\ \A h \in set :
            /\ h.rule \in DOMAIN x.rules /\ h.priority = exact_priority(x.query, x.rules[h.rule])
            /\ h.priority \in 0..2 /\ h.bm25 \in Nat /\ h.vector \in Nat
            /\ h.bm25 = RankIn(bm25, h.rule) /\ h.vector = RankIn(vector, h.rule)
            /\ h.priority > 0 \/ h.bm25 > 0 \/ h.vector > 0
      /\ \A h, k \in set : \/ h.rule = k.rule
                           \/ h.bm25 # 0 /\ h.bm25 = k.bm25
                           \/ h.vector # 0 /\ h.vector = k.vector
                           => h = k
      /\ \A r \in DOMAIN x.rules : exact_priority(x.query, x.rules[r]) > 0 \/ r \in ToSet(bm25)
                                   => \E h \in set : h.rule = r
      /\ Len(bm25) <= Cardinality(set)
  <2>1. HitsFit(set, x.query, x.rules, bm25, vector)
    BY <1>2, HitsAre
  <2> QED BY <2>1 DEF HitsFit
<1>5. /\ order \in SetToSeqs(set)
      /\ \A i, j \in DOMAIN order : i < j => ~Before(order[j], order[i])
  BY <1>3 DEF Ordered
<1>6. /\ Cardinality(set) \in Nat /\ Len(order) = Cardinality(set) /\ order \in Seq(set)
      /\ DOMAIN order = 1..Cardinality(set)
      /\ \A i, j \in DOMAIN order : order[i] = order[j] => i = j
      /\ ToSet(order) = set
  BY <1>4, <1>5, SeqsOf
<1>7. ResultLimit \in Nat /\ RecallLimit \in Nat /\ ResultLimit <= RecallLimit
  BY LimitAssumption
<1>8. /\ x.hits \in Seq(set)
      /\ Len(x.hits) = IF Len(order) < ResultLimit THEN Len(order) ELSE ResultLimit
      /\ DOMAIN x.hits = 1..Len(x.hits)
      /\ \A i \in DOMAIN x.hits : i \in DOMAIN order /\ x.hits[i] = order[i]
  BY <1>3, <1>6, <1>7, CutIs
<1>9. /\ Len(x.hits) \in Nat /\ Len(x.hits) <= ResultLimit /\ DOMAIN x.hits \subseteq Nat
      /\ \A i \in DOMAIN x.hits : x.hits[i] \in set
  BY <1>6, <1>7, <1>8
<1>10. ASSUME Len(x.hits) # ResultLimit, NEW h \in set PROVE \E i \in DOMAIN x.hits : x.hits[i] = h
  <2>1. Len(x.hits) = Len(order) /\ DOMAIN x.hits = DOMAIN order
    BY <1>6, <1>8, <1>10
  <2>2. \E i \in DOMAIN order : order[i] = h
    BY <1>6, <1>10 DEF ToSet
  <2> QED BY <1>8, <2>1, <2>2
<1>11. HitsInOrder(x)
  <2>1. ASSUME NEW i \in DOMAIN x.hits, NEW j \in DOMAIN x.hits, i < j
        PROVE  /\ x.hits[i].rule # x.hits[j].rule
               /\ x.hits[i].priority >= x.hits[j].priority
               /\ x.hits[i].priority + x.hits[j].priority = 0 /\ x.hits[j].bm25 > 0 /\ x.hits[j].vector > 0
                  => \/ x.hits[i].bm25 \in 1..(x.hits[j].bm25 - 1)
                     \/ x.hits[i].vector \in 1..(x.hits[j].vector - 1)
    <3>1. PICK g, h : g = x.hits[i] /\ h = x.hits[j]
      OBVIOUS
    <3>2. g \in set /\ h \in set /\ g # h /\ ~Before(h, g)
      BY <1>5, <1>6, <1>8, <1>9, <2>1, <3>1
    <3>3. g.rule # h.rule
      BY <1>4, <3>2
    <3>4. /\ g.priority \in Nat /\ h.priority \in Nat /\ g.bm25 \in Nat /\ h.bm25 \in Nat
          /\ g.vector \in Nat /\ h.vector \in Nat
      BY <1>4, <3>2
    <3>5. g.priority >= h.priority
      BY <3>2, <3>4 DEF Before
    <3>6. ASSUME g.priority + h.priority = 0, h.bm25 > 0, h.vector > 0
          PROVE  g.bm25 \in 1..(h.bm25 - 1) \/ g.vector \in 1..(h.vector - 1)
      <4> SUFFICES ASSUME ~(g.bm25 \in 1..(h.bm25 - 1)), ~(g.vector \in 1..(h.vector - 1)) PROVE FALSE
        OBVIOUS
      <4>1. g.bm25 # h.bm25 /\ g.vector # h.vector
        BY <1>4, <3>2, <3>4, <3>6
      <4>2. (g.bm25 = 0 \/ g.bm25 > h.bm25) /\ (g.vector = 0 \/ g.vector > h.vector)
        BY <3>4, <4>1
      <4>3. Higher(RrfScore(h.bm25, h.vector), RrfScore(g.bm25, g.vector))
        BY <3>4, <3>6, <4>2, ScoresFall
      <4>4. h.priority = 0 /\ g.priority = 0
        BY <3>4, <3>6
      <4> QED BY <3>2, <4>3, <4>4 DEF Before
    <3> QED BY <3>1, <3>3, <3>5, <3>6
  <2>2. ASSUME NEW r \in DOMAIN x.rules, exact_priority(x.query, x.rules[r]) > 0, Len(x.hits) # ResultLimit
        PROVE  \E i \in DOMAIN x.hits : x.hits[i].rule = r
    BY <1>4, <1>10, <2>2
  <2> QED BY <2>1, <2>2 DEF HitsInOrder
<1>12. HitsAreKept(x)
  <2>1. bm25_matches(x.query, x.rules) \subseteq DOMAIN x.rules
    BY DEF bm25_matches
  <2>2. IsFiniteSet(bm25_matches(x.query, x.rules))
    BY <2>1, FS_Subset
  <2>3. ToSet(bm25) = bm25_matches(x.query, x.rules) \/ Len(bm25) = RecallLimit
    BY <2>2, RankingIs
  <2>4. ASSUME Len(x.hits) < ResultLimit, NEW r \in bm25_matches(x.query, x.rules)
        PROVE  r \in {x.hits[i].rule : i \in DOMAIN x.hits}
    <3>1. Cardinality(set) < RecallLimit
      BY <1>6, <1>7, <1>8, <2>4
    <3>2. ToSet(bm25) = bm25_matches(x.query, x.rules)
      BY <1>4, <1>6, <1>7, <2>3, <3>1
    <3>3. PICK h \in set : h.rule = r
      BY <1>4, <2>1, <2>4, <3>2
    <3>4. Len(x.hits) # ResultLimit
      BY <1>7, <1>9, <2>4
    <3> QED BY <1>10, <3>3, <3>4
  <2>5. ASSUME x.vectors = <<>>, NEW i \in DOMAIN x.hits PROVE x.hits[i].vector = 0
    <3>1. DOMAIN x.vectors = {}
      BY <2>5
    <3>2. /\ Len(vector) \in Nat /\ DOMAIN vector = 1..Len(vector) /\ ToSet(vector) \subseteq {}
      BY <3>1, RankingIs
    <3>3. x.hits[i].rule \notin ToSet(vector)
      BY <3>2
    <3>4. RankIn(vector, x.hits[i].rule) = 0
      BY <3>2, <3>3, RankIs
    <3> QED BY <1>4, <1>9, <3>4
  <2> QED BY <2>4, <2>5 DEF HitsAreKept
<1>13. HitsAreFound(x)
  BY <1>4, <1>8, <1>9 DEF HitsAreFound
<1> QED BY <1>11, <1>12, <1>13

(***************************************************************************)
(* Readers beside the organizer.                                           *)
(***************************************************************************)

\* The names around a rule that a search has read are in the graph.
IsSeen(edges, r, rule) ==
    /\ \A c \in rule.concepts : \E e \in edges : e.from = r /\ e.kind = "RELATES_TO" /\ e.to[2] = c
    /\ \A c \in rule.outcomes : \E e \in edges : /\ e.from = r /\ e.kind \in {"PRODUCES", "DOES_NOT_PROVE"}
                                                 /\ e.to[2] = c
    /\ \A c \in rule.conditions :
          \/ \E e \in edges : e.to = r /\ e.kind \in {"STRENGTHENS", "WEAKENS"} /\ e.from[2] = c
          \/ \E d, e \in edges : /\ d.from = r /\ d.kind = "HAS_CONDITION_GROUP" /\ e.from = d.to
                                 /\ e.kind \in {"REQUIRES", "EXCLUDES"} /\ e.to[2] = c

LEMMA SummaryIsSeen ==
    ASSUME NEW g, NEW r
    PROVE  IsSeen(DOMAIN g.edges, r, Summary(g, r))
<1> DEFINE to(from, kinds) == {e.to[2] : e \in {d \in DOMAIN g.edges : d.from = from /\ d.kind \in kinds}}
           groups == {e.to : e \in {d \in DOMAIN g.edges : d.from = r /\ d.kind = "HAS_CONDITION_GROUP"}}
           modifiers == {e.from[2] : e \in {d \in DOMAIN g.edges : d.to = r /\ d.kind \in {"STRENGTHENS", "WEAKENS"}}}
           required == UNION {to(group, {"REQUIRES", "EXCLUDES"}) : group \in groups}
<1>1. /\ Summary(g, r).concepts = to(r, {"RELATES_TO"})
      /\ Summary(g, r).outcomes = to(r, {"PRODUCES", "DOES_NOT_PROVE"})
      /\ Summary(g, r).conditions = modifiers \cup required
  BY DEF Summary
<1>2. \A from, kinds : \A c \in to(from, kinds) :
         \E e \in DOMAIN g.edges : e.from = from /\ e.kind \in kinds /\ e.to[2] = c
  OBVIOUS
<1>3. \A c \in modifiers : \E e \in DOMAIN g.edges : /\ e.to = r /\ e.kind \in {"STRENGTHENS", "WEAKENS"}
                                                     /\ e.from[2] = c
  OBVIOUS
<1>4. \A c \in required : \E d, e \in DOMAIN g.edges :
         /\ d.from = r /\ d.kind = "HAS_CONDITION_GROUP" /\ e.from = d.to
         /\ e.kind \in {"REQUIRES", "EXCLUDES"} /\ e.to[2] = c
  <2> TAKE c \in required
  <2>1. PICK group \in groups : c \in to(group, {"REQUIRES", "EXCLUDES"})
    OBVIOUS
  <2>2. PICK d \in DOMAIN g.edges : d.from = r /\ d.kind = "HAS_CONDITION_GROUP" /\ group = d.to
    OBVIOUS
  <2> HIDE DEF to, groups, required
  <2>3. PICK e \in DOMAIN g.edges : e.from = group /\ e.kind \in {"REQUIRES", "EXCLUDES"} /\ e.to[2] = c
    BY <1>2, <2>1
  <2> QED BY <2>2, <2>3
<1> HIDE DEF to, groups, modifiers, required
<1>5. \A c \in Summary(g, r).concepts : \E e \in DOMAIN g.edges :
         e.from = r /\ e.kind = "RELATES_TO" /\ e.to[2] = c
  BY <1>1, <1>2
<1>6. \A c \in Summary(g, r).outcomes : \E e \in DOMAIN g.edges :
         e.from = r /\ e.kind \in {"PRODUCES", "DOES_NOT_PROVE"} /\ e.to[2] = c
  BY <1>1, <1>2
<1> QED BY <1>1, <1>3, <1>4, <1>5, <1>6 DEF IsSeen

LEMMA SeenStays ==
    ASSUME NEW edges, NEW more, edges \subseteq more, NEW r, NEW rule, IsSeen(edges, r, rule)
    PROVE  IsSeen(more, r, rule)
  BY DEF IsSeen

\* What is shown of a rule, of which a name was found.
Shows(item, e) ==
    LET conditions == item.strengthened_by \cup item.weakened_by
                      \cup (UNION {g.all_of \cup g.none_of : g \in item.condition_groups})
    IN CASE e[1] = "Rule" -> e[2] = item.name
         [] e[1] = "Alias" -> e[2] \in item.aliases
         [] e[1] = "Condition" -> e[2] \in conditions
         [] e[1] = "Outcome" -> e[2] \in item.outcomes \cup item.does_not_prove
         [] e[1] = "Concept" -> e[2] \in item.concepts
         [] OTHER -> TRUE

LEMMA ShowsIs ==
    ASSUME NEW item, NEW e
    PROVE  /\ e[1] = "Rule" => (Shows(item, e) <=> e[2] = item.name)
           /\ e[1] = "Alias" => (Shows(item, e) <=> e[2] \in item.aliases)
           /\ e[1] = "Condition" =>
                 (Shows(item, e) <=> e[2] \in item.strengthened_by \cup item.weakened_by
                                              \cup (UNION {g.all_of \cup g.none_of : g \in item.condition_groups}))
           /\ e[1] = "Outcome" => (Shows(item, e) <=> e[2] \in item.outcomes \cup item.does_not_prove)
           /\ e[1] = "Concept" => (Shows(item, e) <=> e[2] \in item.concepts)
           /\ e[1] \notin {"Rule", "Alias", "Condition", "Outcome", "Concept"} => Shows(item, e)
<1> DEFINE conditions == item.strengthened_by \cup item.weakened_by
                         \cup (UNION {g.all_of \cup g.none_of : g \in item.condition_groups})
<1>1. Shows(item, e) = CASE e[1] = "Rule" -> e[2] = item.name
                         [] e[1] = "Alias" -> e[2] \in item.aliases
                         [] e[1] = "Condition" -> e[2] \in conditions
                         [] e[1] = "Outcome" -> e[2] \in item.outcomes \cup item.does_not_prove
                         [] e[1] = "Concept" -> e[2] \in item.concepts
                         [] OTHER -> TRUE
  BY DEF Shows
<1> HIDE DEF conditions
<1>2. e[1] = "Rule" => (Shows(item, e) <=> e[2] = item.name)
  BY <1>1
<1>3. e[1] = "Alias" => (Shows(item, e) <=> e[2] \in item.aliases)
  BY <1>1
<1>4. e[1] = "Condition" => (Shows(item, e) <=> e[2] \in conditions)
  BY <1>1
<1>5. e[1] = "Outcome" => (Shows(item, e) <=> e[2] \in item.outcomes \cup item.does_not_prove)
  BY <1>1
<1>6. e[1] = "Concept" => (Shows(item, e) <=> e[2] \in item.concepts)
  BY <1>1
<1>7. e[1] \notin {"Rule", "Alias", "Condition", "Outcome", "Concept"} => Shows(item, e)
  BY <1>1
<1> QED BY <1>2, <1>3, <1>4, <1>5, <1>6, <1>7 DEF conditions

\* The names that were read are shown with the rule, in the groups and lists
\* that are read later.
LEMMA NamesAreShown ==
    ASSUME NEW g, AreEdges(DOMAIN g.edges), NEW r, NEW rule, IsSeen(DOMAIN g.edges, r, rule),
           NEW e \in Fields(rule), e[2] # NoKey
    PROVE  Shows(project_search_rule(r, rule, get_rule_neighborhood(g, r)), e)
<1> DEFINE edges == get_rule_neighborhood(g, r)
           item == project_search_rule(r, rule, edges)
           out(kind) == {x.to[2] : x \in {d \in edges : d.from = r /\ d.kind = kind}} \ {NoKey}
           into(kind) == {x.from[2] : x \in {d \in edges : d.to = r /\ d.kind = kind}} \ {NoKey}
           groups == {x.to : x \in {d \in edges : d.from = r /\ d.kind = "HAS_CONDITION_GROUP"}}
           of(group, kind) == {x.to[2] : x \in {d \in edges : d.from = group /\ d.kind = kind}}
<1>1. /\ item.name = rule.name /\ item.aliases = rule.aliases
      /\ item.condition_groups = {[all_of |-> of(x, "REQUIRES"), none_of |-> of(x, "EXCLUDES")] : x \in groups}
      /\ item.strengthened_by = into("STRENGTHENS") /\ item.weakened_by = into("WEAKENS")
      /\ item.concepts = out("RELATES_TO") /\ item.outcomes = out("PRODUCES")
      /\ item.does_not_prove = out("DOES_NOT_PROVE")
  BY DEF project_search_rule
<1>2. \A x \in DOMAIN g.edges : x.from = r \/ x.to = r => x \in edges
  BY DEF get_rule_neighborhood
<1>3. \A d, x \in DOMAIN g.edges : /\ d.from = r /\ d.kind = "HAS_CONDITION_GROUP" /\ x.from = d.to
                                    /\ x.kind \in {"REQUIRES", "EXCLUDES"}
                                    => x \in edges
  BY DEF get_rule_neighborhood, AreEdges
<1>4. \/ e[1] = "Rule" /\ e[2] = rule.name
      \/ e[1] = "Alias" /\ e[2] \in rule.aliases
      \/ e[1] = "Condition" /\ e[2] \in rule.conditions
      \/ e[1] = "Outcome" /\ e[2] \in rule.outcomes
      \/ e[1] = "Concept" /\ e[2] \in rule.concepts
  BY DEF Fields
<1> SUFFICES Shows(item, e)
  OBVIOUS
<1> HIDE DEF item, edges, groups
<1>5. \A kind : \A x \in edges :
         /\ x.from = r /\ x.kind = kind /\ x.to[2] # NoKey => x.to[2] \in out(kind)
         /\ x.to = r /\ x.kind = kind /\ x.from[2] # NoKey => x.from[2] \in into(kind)
  OBVIOUS
<1>6. \A group, kind : \A x \in edges : x.from = group /\ x.kind = kind => x.to[2] \in of(group, kind)
  OBVIOUS
<1>7. \A x \in edges : x.from = r /\ x.kind = "HAS_CONDITION_GROUP" => x.to \in groups
  BY DEF groups
<1> HIDE DEF out, into, of
<1>8. CASE e[1] = "Rule" /\ e[2] = rule.name
  BY <1>1, <1>8, ShowsIs
<1>9. CASE e[1] = "Alias" /\ e[2] \in rule.aliases
  BY <1>1, <1>9, ShowsIs
<1>10. CASE e[1] = "Condition" /\ e[2] \in rule.conditions
  <2>1. SUFFICES \/ e[2] \in item.strengthened_by \/ e[2] \in item.weakened_by
                 \/ \E y \in item.condition_groups : e[2] \in y.all_of \cup y.none_of
    BY <1>10, ShowsIs
  <2>2. CASE \E x \in DOMAIN g.edges : x.to = r /\ x.kind \in {"STRENGTHENS", "WEAKENS"} /\ x.from[2] = e[2]
    BY <1>1, <1>2, <1>5, <2>2
  <2>3. CASE \E d, x \in DOMAIN g.edges : /\ d.from = r /\ d.kind = "HAS_CONDITION_GROUP" /\ x.from = d.to
                                          /\ x.kind \in {"REQUIRES", "EXCLUDES"} /\ x.to[2] = e[2]
    <3>1. PICK d \in DOMAIN g.edges, x \in DOMAIN g.edges :
             /\ d.from = r /\ d.kind = "HAS_CONDITION_GROUP" /\ x.from = d.to
             /\ x.kind \in {"REQUIRES", "EXCLUDES"} /\ x.to[2] = e[2]
      BY <2>3
    <3>2. d \in edges /\ x \in edges
      BY <1>2, <1>3, <3>1
    <3>3. d.to \in groups /\ (e[2] \in of(d.to, "REQUIRES") \/ e[2] \in of(d.to, "EXCLUDES"))
      BY <1>6, <1>7, <3>1, <3>2
    <3>4. PICK y \in item.condition_groups : y = [all_of |-> of(d.to, "REQUIRES"), none_of |-> of(d.to, "EXCLUDES")]
      BY <1>1, <3>3
    <3>5. e[2] \in y.all_of \cup y.none_of
      BY <3>3, <3>4
    <3> QED BY <3>5
  <2> QED BY <1>10, <2>2, <2>3 DEF IsSeen
<1>11. CASE e[1] = "Outcome" /\ e[2] \in rule.outcomes
  <2>1. PICK x \in edges : x.from = r /\ x.kind \in {"PRODUCES", "DOES_NOT_PROVE"} /\ x.to[2] = e[2]
    BY <1>2, <1>11 DEF IsSeen
  <2>2. e[2] \in out("PRODUCES") \/ e[2] \in out("DOES_NOT_PROVE")
    BY <1>5, <2>1
  <2> QED BY <1>1, <1>11, <2>2, ShowsIs
<1>12. CASE e[1] = "Concept" /\ e[2] \in rule.concepts
  <2>1. PICK x \in edges : x.from = r /\ x.kind = "RELATES_TO" /\ x.to[2] = e[2]
    BY <1>2, <1>12 DEF IsSeen
  <2>2. e[2] \in out("RELATES_TO")
    BY <1>5, <2>1
  <2> QED BY <1>1, <1>12, <2>2, ShowsIs
<1> QED BY <1>4, <1>8, <1>9, <1>10, <1>11, <1>12

\* Every hit has a reason that is shown: a name that matched, or its list.
LEMMA EvidenceHolds ==
    ASSUME NEW g, AreEdges(DOMAIN g.edges), NEW r, NEW rule, IsSeen(DOMAIN g.edges, r, rule),
           NEW query, NEW hit,
           hit.bm25 # 0 \/ hit.vector # 0 \/ exact_priority(query, rule) > 0
    PROVE  /\ hybrid_scored_rule(query, rule, hit) # {}
           /\ \A e \in hybrid_scored_rule(query, rule, hit) :
                 Shows(project_search_rule(r, rule, get_rule_neighborhood(g, r)), e)
<1> DEFINE item == project_search_rule(r, rule, get_rule_neighborhood(g, r))
           evidence == search_evidence(query, rule)
<1>1. CASE evidence # {}
  <2>1. hybrid_scored_rule(query, rule, hit) = evidence
    BY <1>1 DEF hybrid_scored_rule
  <2>2. \A e \in evidence : e \in Fields(rule) /\ e[2] # NoKey
    BY DEF search_evidence
  <2>3. \A e \in Fields(rule) : e[2] # NoKey => Shows(item, e)
    BY NamesAreShown
  <2> HIDE DEF evidence, item
  <2> QED BY <1>1, <2>1, <2>2, <2>3 DEF item
<1>2. CASE evidence = {}
  <2>1. hit.bm25 # 0 \/ hit.vector # 0
    <3> SUFFICES ASSUME exact_priority(query, rule) > 0 PROVE FALSE
      OBVIOUS
    <3>1. query.key # NoKey /\ (query.key = rule.name \/ query.key \in rule.aliases)
      BY DEF exact_priority
    <3>2. <<"Rule", rule.name>> \in Fields(rule) /\ (\A a \in rule.aliases : <<"Alias", a>> \in Fields(rule))
      BY DEF Fields
    <3>3. PICK f \in Fields(rule) : f[2] = query.key
      <4>1. CASE query.key = rule.name
        BY <3>2, <4>1
      <4>2. CASE query.key \in rule.aliases
        BY <3>2, <4>2
      <4> QED BY <3>1, <4>1, <4>2
    <3>4. f \in evidence
      BY <3>1, <3>3 DEF search_evidence
    <3> QED BY <1>2, <3>4
  <2>2. hybrid_scored_rule(query, rule, hit) \in {{<<"BM25", query.key>>}, {<<"Vector", rule.name>>}}
    <3>1. CASE hit.bm25 # 0
      BY <1>2, <3>1 DEF hybrid_scored_rule
    <3>2. CASE hit.bm25 = 0
      BY <1>2, <2>1, <3>2 DEF hybrid_scored_rule
    <3> QED BY <3>1, <3>2
  <2>3. Shows(item, <<"BM25", query.key>>) /\ Shows(item, <<"Vector", rule.name>>)
    <3> HIDE DEF item
    <3> QED BY ShowsIs
  <2> HIDE DEF item
  <2> QED BY <2>2, <2>3 DEF item
<1> QED BY <1>1, <1>2

\* A reader has these fields.
IsReader(x) == x = [pc |-> x.pc, query |-> x.query, rules |-> x.rules, hits |-> x.hits, vectors |-> x.vectors,
                    items |-> x.items, nodes |-> x.nodes, relationships |-> x.relationships]

\* A reader, beside a graph with these rules and relationships.
ReaderIsSound(x, rules, edges) ==
    /\ IsReader(x)
    /\ x.pc \in {"idle", "rank", "read", "answered", "nodes", "shown"}
    /\ DOMAIN x.rules \subseteq rules /\ IsFiniteSet(DOMAIN x.rules)
    /\ x.rules = [r \in DOMAIN x.rules |-> x.rules[r]]
    /\ x.vectors \in {<<>>, x.rules}
    /\ x.pc \in {"read", "answered"} => HitsAreRanked(x)
    /\ x.pc \in {"rank", "read"} => \A r \in DOMAIN x.rules : IsSeen(edges, r, x.rules[r])
    /\ x.pc = "answered" =>
          /\ Len(x.items) <= ResultLimit /\ DOMAIN x.items = DOMAIN x.hits
          /\ \A i \in DOMAIN x.items :
                LET evidence == hybrid_scored_rule(x.query, x.rules[x.hits[i].rule], x.hits[i])
                IN evidence # {} /\ \A e \in evidence : Shows(x.items[i], e)
    /\ EndsOf(x.relationships) \subseteq x.nodes
    /\ x.pc # "shown" => x.relationships = {}

ReadersAreSound ==
    /\ DOMAIN search = Readers /\ DOMAIN cache \subseteq Rules /\ embeddingError \in BOOLEAN
    /\ \A s \in Readers : ReaderIsSound(search[s], Rules, DOMAIN graph.edges)
SearchInv == GraphIsReadable /\ ReadersAreSound

LEMMA ReaderStays ==
    ASSUME NEW x, NEW rules, NEW edges, NEW moreRules, NEW moreEdges, ReaderIsSound(x, rules, edges),
           rules \subseteq moreRules, edges \subseteq moreEdges
    PROVE  ReaderIsSound(x, moreRules, moreEdges)
<1>1. \A r \in DOMAIN x.rules : IsSeen(edges, r, x.rules[r]) => IsSeen(moreEdges, r, x.rules[r])
  BY SeenStays
<1> QED BY <1>1 DEF ReaderIsSound

\* One who has read nothing.
LEMMA NobodyReads ==
    ASSUME NEW rules, NEW edges
    PROVE  ReaderIsSound(NoSearch, rules, edges)
<1>1. DOMAIN <<>> = {} /\ <<>> = [r \in {} |-> <<>>[r]]
  OBVIOUS
<1>2. /\ NoSearch.rules = <<>> /\ NoSearch.vectors = <<>> /\ NoSearch.pc = "idle"
      /\ NoSearch.relationships = {}
  BY DEF NoSearch
<1>3. IsReader(NoSearch)
  BY DEF IsReader, NoSearch
<1>4. EndsOf(NoSearch.relationships) = {}
  BY <1>2 DEF EndsOf
<1> QED BY <1>1, <1>2, <1>3, <1>4, FS_EmptySet DEF ReaderIsSound

\* One reader goes on, beside a graph that stays.
LEMMA ReaderGoesOn ==
    ASSUME SearchInv, UNCHANGED graphVars, NEW s \in Readers, NEW x,
           ReaderIsSound(x, Rules, DOMAIN graph.edges), search' = [search EXCEPT ![s] = x],
           DOMAIN cache' \subseteq Rules, embeddingError' \in BOOLEAN
    PROVE  SearchInv'
<1>1. graph' = graph /\ session' = session
  BY DEF graphVars
<1>2. GraphIsReadable'
  BY <1>1 DEF SearchInv, GraphIsReadable, Rules, AreEdges, Edge
<1>3. Rules' = Rules
  BY <1>1 DEF Rules
<1>4. \A t \in Readers : ReaderIsSound(search'[t], Rules, DOMAIN graph.edges)
  BY DEF SearchInv, ReadersAreSound
<1>5. DOMAIN search' = Readers
  BY DEF SearchInv, ReadersAreSound
<1>6. ReadersAreSound'
  BY <1>1, <1>3, <1>4, <1>5 DEF ReadersAreSound
<1> QED BY <1>2, <1>6 DEF SearchInv

LEMMA VectorsAreOfRead ==
    ASSUME NEW old, NEW rules, rules = [r \in DOMAIN rules |-> rules[r]]
    PROVE  document_embeddings(old, rules) = rules
<1>1. \A r : (IF r \in DOMAIN old /\ old[r] = rules[r] THEN old[r] ELSE rules[r]) = rules[r]
  OBVIOUS
<1> QED BY <1>1 DEF document_embeddings

\* Ranked with any vectors of the rules that were read, or with none.
LEMMA RankingKeeps ==
    ASSUME SearchInv, UNCHANGED graphVars, NEW s \in Readers, search[s].pc = "rank",
           NEW vectors \in {<<>>, search[s].rules}, Ranked(s, vectors),
           DOMAIN cache' \subseteq Rules, embeddingError' \in BOOLEAN
    PROVE  SearchInv'
<1>1. ReaderIsSound(search[s], Rules, DOMAIN graph.edges) /\ DOMAIN search = Readers
  BY DEF SearchInv, ReadersAreSound
<1>2. PICK bm25 \in Rankings(bm25_matches(search[s].query, search[s].rules)),
           vector \in Rankings(DOMAIN vectors) :
        \E order \in Ordered(HitSet(search[s].query, search[s].rules, bm25, vector)) :
           search' = [search EXCEPT ![s].pc = "read", ![s].hits = Cut(order, ResultLimit), ![s].vectors = vectors]
  BY DEF Ranked
<1>3. PICK order \in Ordered(HitSet(search[s].query, search[s].rules, bm25, vector)) :
           search' = [search EXCEPT ![s].pc = "read", ![s].hits = Cut(order, ResultLimit), ![s].vectors = vectors]
  BY <1>2
<1>4. PICK best : best = Cut(order, ResultLimit)
  OBVIOUS
<1>5. PICK x : x = [search[s] EXCEPT !.pc = "read", !.hits = best, !.vectors = vectors]
  OBVIOUS
<1>6. search' = [search EXCEPT ![s] = x]
  BY <1>1, <1>3, <1>4, <1>5
<1>7. IsReader(search[s])
  BY <1>1 DEF ReaderIsSound
<1>8. /\ IsReader(x) /\ x.pc = "read" /\ x.query = search[s].query /\ x.rules = search[s].rules /\ x.hits = best
      /\ x.vectors = vectors /\ x.nodes = search[s].nodes /\ x.relationships = search[s].relationships
  BY <1>5, <1>7 DEF IsReader
<1>9. HitsAreRanked(x)
  BY <1>3, <1>4, <1>8 DEF HitsAreRanked
<1>10. ReaderIsSound(x, Rules, DOMAIN graph.edges)
  BY <1>1, <1>8, <1>9 DEF ReaderIsSound
<1> QED BY <1>6, <1>10, ReaderGoesOn

LEMMA AnswerKeeps ==
    ASSUME SearchInv, NEW s \in Readers, search_answer(s)
    PROVE  SearchInv'
<1>1. ReaderIsSound(search[s], Rules, DOMAIN graph.edges) /\ DOMAIN search = Readers
      /\ AreEdges(DOMAIN graph.edges)
  BY DEF SearchInv, ReadersAreSound, GraphIsReadable
<1>2. search[s].pc = "read" /\ UNCHANGED graphVars /\ UNCHANGED <<cache, embeddingError>>
  BY DEF search_answer
<1> DEFINE shown(i) == LET r == search[s].hits[i].rule
                       IN project_search_rule(r, search[s].rules[r], get_rule_neighborhood(graph, r))
           items == [i \in DOMAIN search[s].hits |-> shown(i)]
<1>3. PICK x : x = [search[s] EXCEPT !.pc = "answered", !.items = items] /\ search' = [search EXCEPT ![s] = x]
  BY <1>1 DEF search_answer
<1>4. HitsAreFound(search[s])
  <2>1. HitsAreRanked(search[s]) /\ IsFiniteSet(DOMAIN search[s].rules) /\ IsFiniteSet(DOMAIN search[s].vectors)
    BY <1>1, <1>2, FS_EmptySet DEF ReaderIsSound
  <2> QED BY <2>1, RankedHits
<1>5. Len(items) <= ResultLimit /\ DOMAIN items = DOMAIN search[s].hits
  <2> HIDE DEF shown
  <2> QED BY <1>4, SMTT(30) DEF HitsAreFound
<1>6. ASSUME NEW i \in DOMAIN search[s].hits
      PROVE  LET evidence == hybrid_scored_rule(search[s].query, search[s].rules[search[s].hits[i].rule], search[s].hits[i])
             IN evidence # {} /\ \A e \in evidence : Shows(items[i], e)
  <2>1. PICK h, r, rule : h = search[s].hits[i] /\ r = h.rule /\ rule = search[s].rules[r]
    OBVIOUS
  <2>2. r \in DOMAIN search[s].rules /\ (h.bm25 # 0 \/ h.vector # 0 \/ exact_priority(search[s].query, rule) > 0)
    BY <1>4, <1>6, <2>1 DEF HitsAreFound
  <2>3. IsSeen(DOMAIN graph.edges, r, rule)
    BY <1>1, <1>2, <2>1, <2>2 DEF ReaderIsSound
  <2>4. items[i] = project_search_rule(r, rule, get_rule_neighborhood(graph, r))
    BY <1>6, <2>1
  <2>5. /\ hybrid_scored_rule(search[s].query, rule, h) # {}
        /\ \A e \in hybrid_scored_rule(search[s].query, rule, h) :
              Shows(project_search_rule(r, rule, get_rule_neighborhood(graph, r)), e)
    BY <1>1, <2>2, <2>3, EvidenceHolds
  <2> HIDE DEF items
  <2> QED BY <2>1, <2>4, <2>5
<1> HIDE DEF items
<1>7. IsReader(search[s])
  BY <1>1 DEF ReaderIsSound
<1>8. /\ IsReader(x) /\ x.pc = "answered" /\ x.query = search[s].query /\ x.rules = search[s].rules
      /\ x.hits = search[s].hits /\ x.vectors = search[s].vectors /\ x.items = items
      /\ x.nodes = search[s].nodes /\ x.relationships = search[s].relationships
  BY <1>3, <1>7 DEF IsReader
<1>9. HitsAreRanked(x)
  <2>1. HitsAreRanked(search[s])
    BY <1>1, <1>2 DEF ReaderIsSound
  <2> QED BY <1>8, <2>1 DEF HitsAreRanked
<1>10. ReaderIsSound(x, Rules, DOMAIN graph.edges)
  BY <1>1, <1>2, <1>5, <1>6, <1>8, <1>9 DEF ReaderIsSound
<1>11. DOMAIN cache' \subseteq Rules /\ embeddingError' \in BOOLEAN
  BY <1>2 DEF SearchInv, ReadersAreSound
<1> QED BY <1>2, <1>3, <1>10, <1>11, ReaderGoesOn

LEMMA ListKeeps ==
    ASSUME SearchInv, NEW s \in Readers, NEW query, search_list(s, query)
    PROVE  SearchInv'
<1> DEFINE rules == list_rule_summaries(graph)
<1>1. PICK x : /\ x = [NoSearch EXCEPT !.pc = "rank", !.query = query, !.rules = rules]
               /\ search' = [search EXCEPT ![s] = x]
  BY DEF search_list
<1>2. DOMAIN rules = Rules /\ (\A r \in Rules : rules[r] = Summary(graph, r)) /\ rules = [r \in DOMAIN rules |-> rules[r]]
  BY DEF list_rule_summaries, Rules
<1>3. IsFiniteSet(Rules)
  BY DEF SearchInv, GraphIsReadable
<1> HIDE DEF rules
<1>4. IsReader(x) /\ x.pc = "rank" /\ x.rules = rules /\ x.vectors = <<>> /\ x.relationships = {}
  BY <1>1 DEF IsReader, NoSearch
<1>5. \A r \in DOMAIN x.rules : IsSeen(DOMAIN graph.edges, r, x.rules[r])
  BY <1>2, <1>4, SummaryIsSeen
<1>6. EndsOf(x.relationships) = {}
  BY <1>4 DEF EndsOf
<1>7. ReaderIsSound(x, Rules, DOMAIN graph.edges)
  BY <1>2, <1>3, <1>4, <1>5, <1>6 DEF ReaderIsSound
<1>8. DOMAIN cache' \subseteq Rules /\ embeddingError' \in BOOLEAN /\ UNCHANGED graphVars
  BY DEF SearchInv, ReadersAreSound, search_list
<1> QED BY <1>1, <1>7, <1>8, ReaderGoesOn

LEMMA RankStepsKeep ==
    ASSUME SearchInv, NEW s \in Readers, search_sync(s) \/ search_sync_without_vectors(s)
    PROVE  SearchInv'
<1>1. ReaderIsSound(search[s], Rules, DOMAIN graph.edges) /\ DOMAIN cache \subseteq Rules
  BY DEF SearchInv, ReadersAreSound
<1>2. /\ search[s].rules = [r \in DOMAIN search[s].rules |-> search[s].rules[r]]
      /\ DOMAIN search[s].rules \subseteq Rules
  BY <1>1 DEF ReaderIsSound
<1>3. document_embeddings(cache, search[s].rules) = search[s].rules
  BY <1>2, VectorsAreOfRead
<1>4. CASE search_sync(s)
  <2>1. /\ search[s].pc = "rank" /\ cache' = search[s].rules /\ Ranked(s, cache')
        /\ UNCHANGED graphVars /\ embeddingError' = embeddingError
    BY <1>3, <1>4 DEF search_sync
  <2>2. PICK vectors : vectors = cache'
    OBVIOUS
  <2>3. Ranked(s, vectors) /\ vectors \in {<<>>, search[s].rules}
    BY <2>1, <2>2
  <2>4. DOMAIN cache' \subseteq Rules /\ embeddingError' \in BOOLEAN
    BY <1>2, <2>1 DEF SearchInv, ReadersAreSound
  <2> QED BY <2>1, <2>3, <2>4, RankingKeeps
<1>5. CASE search_sync_without_vectors(s)
  <2>1. search[s].pc = "rank" /\ Ranked(s, <<>>) /\ UNCHANGED graphVars /\ embeddingError' = TRUE
    BY <1>5 DEF search_sync_without_vectors
  <2>2. \/ cache' = cache \/ cache' = search[s].rules
        \/ cache' = [r \in DOMAIN cache \cap DOMAIN search[s].rules |-> cache[r]]
    BY <1>3, <1>5 DEF search_sync_without_vectors
  <2>3. DOMAIN cache' \subseteq Rules
    BY <1>1, <1>2, <2>2
  <2> QED BY <2>1, <2>3, RankingKeeps
<1> QED BY <1>4, <1>5

LEMMA SnapshotKeeps ==
    ASSUME SearchInv, NEW s \in Readers, snapshot_nodes(s) \/ snapshot_relationships(s)
    PROVE  SearchInv'
<1>1. ReaderIsSound(search[s], Rules, DOMAIN graph.edges) /\ DOMAIN search = Readers
  BY DEF SearchInv, ReadersAreSound
<1>2. DOMAIN cache' \subseteq Rules /\ embeddingError' \in BOOLEAN /\ UNCHANGED graphVars
  BY DEF SearchInv, ReadersAreSound, snapshot_nodes, snapshot_relationships
<1>3. CASE snapshot_nodes(s)
  <2>1. search[s].pc = "idle" /\ search[s].relationships = {} /\ IsReader(search[s])
    BY <1>1, <1>3 DEF ReaderIsSound, snapshot_nodes
  <2>2. PICK nodes : nodes = Rules \cup EndsOf(DOMAIN graph.edges)
    OBVIOUS
  <2>3. PICK x : x = [search[s] EXCEPT !.pc = "nodes", !.nodes = nodes] /\ search' = [search EXCEPT ![s] = x]
    BY <1>1, <1>3, <2>2 DEF snapshot_nodes
  <2>4. /\ IsReader(x) /\ x.pc = "nodes" /\ x.rules = search[s].rules /\ x.vectors = search[s].vectors
        /\ x.relationships = {}
    BY <2>1, <2>3 DEF IsReader
  <2>5. EndsOf(x.relationships) = {}
    BY <2>4 DEF EndsOf
  <2>6. ReaderIsSound(x, Rules, DOMAIN graph.edges)
    BY <1>1, <2>4, <2>5 DEF ReaderIsSound
  <2> QED BY <1>2, <2>3, <2>6, ReaderGoesOn
<1>4. CASE snapshot_relationships(s)
  <2>1. IsReader(search[s])
    BY <1>1 DEF ReaderIsSound
  <2>2. PICK shown : shown = Shown(DOMAIN graph.edges, search[s].nodes)
    OBVIOUS
  <2>3. PICK x : x = [search[s] EXCEPT !.pc = "shown", !.relationships = shown] /\ search' = [search EXCEPT ![s] = x]
    BY <1>1, <1>4, <2>2 DEF snapshot_relationships
  <2>4. /\ IsReader(x) /\ x.pc = "shown" /\ x.rules = search[s].rules /\ x.vectors = search[s].vectors
        /\ x.nodes = search[s].nodes /\ x.relationships = shown
    BY <2>1, <2>3 DEF IsReader
  <2>5. EndsOf(shown) \subseteq search[s].nodes
    BY <2>2 DEF EndsOf, Shown
  <2>6. ReaderIsSound(x, Rules, DOMAIN graph.edges)
    BY <1>1, <2>4, <2>5 DEF ReaderIsSound
  <2> QED BY <1>2, <2>3, <2>6, ReaderGoesOn
<1>5. snapshot_nodes(s) \/ snapshot_relationships(s)
  OBVIOUS
<1> QED BY <1>3, <1>4, <1>5

\* The process restarts: nobody reads, and the cache is of the rules there are.
LEMMA RestartKeeps ==
    ASSUME SearchInv, restart
    PROVE  SearchInv'
<1>1. GraphGrows
  <2>1. PICK none : none = {}
    OBVIOUS
  <2>2. none \in SUBSET Seq(none)
    BY <2>1
  <2>3. GraphNext(none)
    BY DEF restart, GraphNext
  <2>4. GraphIsReadable
    BY DEF SearchInv
  <2> QED BY <2>2, <2>3, <2>4, OrganizerGrows
<1>2. search' = [s \in Readers |-> NoSearch]
  BY DEF restart
<1>3. PICK broken \in BOOLEAN :
         /\ embeddingError' = broken
         /\ cache' = IF broken THEN <<>> ELSE document_embeddings(<<>>, list_rule_summaries(graph'))
  BY DEF restart
<1>4. DOMAIN cache' \subseteq DOMAIN graph'.rules
  <2>1. DOMAIN document_embeddings(<<>>, list_rule_summaries(graph')) = DOMAIN graph'.rules
    <3>1. PICK g : g = graph'
      OBVIOUS
    <3>2. DOMAIN document_embeddings(<<>>, list_rule_summaries(g)) = DOMAIN g.rules
      BY DEF document_embeddings, list_rule_summaries
    <3> QED BY <3>1, <3>2
  <2>2. DOMAIN <<>> = {}
    OBVIOUS
  <2>3. CASE broken = TRUE
    BY <1>3, <2>2, <2>3
  <2>4. CASE broken = FALSE
    BY <1>3, <2>1, <2>4
  <2> QED BY <2>3, <2>4
<1>5. \A s \in Readers : ReaderIsSound(search'[s], DOMAIN graph'.rules, DOMAIN graph'.edges)
  <2> TAKE s \in Readers
  <2>1. search'[s] = NoSearch
    BY <1>2
  <2> QED BY <2>1, NobodyReads
<1>6. ReadersAreSound'
  BY <1>2, <1>3, <1>4, <1>5 DEF ReadersAreSound, Rules
<1> QED BY <1>1, <1>6 DEF SearchInv, GraphGrows

\* The organizer goes on, beside readers that do not.
LEMMA OrganizerKeeps ==
    ASSUME SearchInv, NEW Candidates, NEW submissions \in SUBSET Seq(Candidates),
           GraphNext(submissions), UNCHANGED searchVars
    PROVE  SearchInv'
<1>1. GraphGrows
  BY OrganizerGrows DEF SearchInv
<1>2. /\ Rules \subseteq DOMAIN graph'.rules /\ DOMAIN graph.edges \subseteq DOMAIN graph'.edges
      /\ GraphIsReadable'
  BY <1>1 DEF GraphGrows
<1>3. search' = search /\ cache' = cache /\ embeddingError' = embeddingError
  BY DEF searchVars
<1>4. \A s \in Readers : ReaderIsSound(search[s], DOMAIN graph'.rules, DOMAIN graph'.edges)
  <2>1. \A s \in Readers : ReaderIsSound(search[s], Rules, DOMAIN graph.edges)
    BY DEF SearchInv, ReadersAreSound
  <2> QED BY <1>2, <2>1, ReaderStays
<1>5. ReadersAreSound'
  BY <1>2, <1>3, <1>4 DEF SearchInv, ReadersAreSound, Rules
<1> QED BY <1>2, <1>5 DEF SearchInv

LEMMA SearchInvHolds ==
    ASSUME NEW CONSTANT Candidates, NEW CONSTANT submissions \in SUBSET Seq(Candidates)
    PROVE  SearchInit /\ [][SearchNext(submissions) \/ SnapshotNext(submissions)]_<<graphVars, searchVars>>
               => []SearchInv
<1>1. SearchInit => SearchInv
  <2> SUFFICES ASSUME SearchInit PROVE SearchInv
    OBVIOUS
  <2>1. Rules = {} /\ DOMAIN graph.edges = {} /\ session = NoSession
    BY DEF SearchInit, GraphInit, Rules
  <2>2. DOMAIN session.change = {}
    <3>1. DOMAIN NoSession.change = {}
      BY DEF NoSession
    <3> QED BY <2>1, <3>1
  <2>3. session = [pc |-> session.pc, section |-> session.section, given |-> session.given,
                   change |-> session.change, existing |-> session.existing, result |-> session.result]
    BY <2>1 DEF NoSession
  <2>4. GraphIsReadable
    BY <2>1, <2>2, <2>3, FS_EmptySet DEF GraphIsReadable, AreEdges
  <2>5. DOMAIN cache = {} /\ embeddingError \in BOOLEAN /\ search = [s \in Readers |-> NoSearch]
    <3>1. cache = <<>> /\ DOMAIN <<>> = {}
      BY DEF SearchInit
    <3>2. embeddingError = FALSE /\ search = [s \in Readers |-> NoSearch]
      BY DEF SearchInit
    <3> QED BY <3>1, <3>2
  <2>6. \A s \in Readers : search[s] = NoSearch
    BY <2>5
  <2>7. ReadersAreSound
    BY <2>5, <2>6, NobodyReads DEF ReadersAreSound
  <2> QED BY <2>4, <2>7 DEF SearchInv
<1>2. SearchInv /\ [SearchNext(submissions) \/ SnapshotNext(submissions)]_<<graphVars, searchVars>> => SearchInv'
  <2> SUFFICES ASSUME SearchInv, [SearchNext(submissions) \/ SnapshotNext(submissions)]_<<graphVars, searchVars>>
               PROVE  SearchInv'
    OBVIOUS
  <2>1. CASE GraphNext(submissions) /\ UNCHANGED searchVars
    BY <2>1, OrganizerKeeps
  <2>2. ASSUME NEW s \in Readers, NEW query \in Queries, search_list(s, query) PROVE SearchInv'
    BY <2>2, ListKeeps
  <2>3. ASSUME NEW s \in Readers, search_sync(s) \/ search_sync_without_vectors(s) PROVE SearchInv'
    BY <2>3, RankStepsKeep
  <2>4. ASSUME NEW s \in Readers, search_answer(s) PROVE SearchInv'
    BY <2>4, AnswerKeeps
  <2>5. CASE restart
    BY <2>5, RestartKeeps
  <2>6. ASSUME NEW s \in Readers, snapshot_nodes(s) \/ snapshot_relationships(s) PROVE SearchInv'
    BY <2>6, SnapshotKeeps
  <2>7. CASE UNCHANGED <<graphVars, searchVars>>
    <3>1. graph' = graph /\ session' = session
      BY <2>7 DEF graphVars
    <3>2. search' = search /\ cache' = cache /\ embeddingError' = embeddingError
      BY <2>7 DEF searchVars
    <3> QED BY <3>1, <3>2 DEF SearchInv, GraphIsReadable, ReadersAreSound, Rules, AreEdges, Edge
  <2> QED BY <2>1, <2>2, <2>3, <2>4, <2>5, <2>6, <2>7 DEF SearchNext, SnapshotNext
<1> QED BY <1>1, <1>2, PTL

\* Searches that overlap, with a model that fails or not, while the organizer
\* writes (search_rule_graph and RuleGraphHybridSearch): each ranks with vectors
\* of the texts it read, pins exact matches, loses nothing that there is room for.
THEOREM SearchesStaySound ==
    ASSUME NEW CONSTANT Candidates, NEW CONSTANT submissions \in SUBSET Seq(Candidates)
    PROVE  SearchInit /\ [][SearchNext(submissions) \/ SnapshotNext(submissions)]_<<graphVars, searchVars>>
               => []SearchesAreSound
<1>1. SearchInv => SearchesAreSound
  <2> SUFFICES ASSUME SearchInv PROVE SearchesAreSound
    OBVIOUS
  <2>1. \A s \in Readers : ReaderIsSound(search[s], Rules, DOMAIN graph.edges)
    BY DEF SearchInv, ReadersAreSound
  <2>2. ASSUME NEW s \in Readers, search[s].pc \in {"read", "answered"}
        PROVE  HitsInOrder(search[s]) /\ HitsAreKept(search[s])
    <3>1. HitsAreRanked(search[s]) /\ IsFiniteSet(DOMAIN search[s].rules) /\ IsFiniteSet(DOMAIN search[s].vectors)
      <4>1. ReaderIsSound(search[s], Rules, DOMAIN graph.edges)
        BY <2>1
      <4>2. DOMAIN <<>> = {}
        OBVIOUS
      <4>3. IsFiniteSet(DOMAIN search[s].rules) /\ search[s].vectors \in {<<>>, search[s].rules}
        BY <4>1 DEF ReaderIsSound
      <4>4. IsFiniteSet(DOMAIN search[s].vectors)
        BY <4>2, <4>3, FS_EmptySet
      <4> QED BY <2>2, <4>1, <4>3, <4>4 DEF ReaderIsSound
    <3> QED BY <3>1, RankedHits
  <2>3. SearchTypeOK
    BY <2>1 DEF SearchInv, ReadersAreSound, SearchTypeOK, ReaderIsSound
  <2>4. VectorsAreCurrent
    BY <2>1 DEF VectorsAreCurrent, ReaderIsSound
  <2>5. RankedRight
    BY <2>2 DEF RankedRight, HitsInOrder
  <2>6. NothingFoundIsLost
    BY <2>2 DEF NothingFoundIsLost, HitsAreKept
  <2> QED BY <2>3, <2>4, <2>5, <2>6 DEF SearchesAreSound
<1> QED BY <1>1, SearchInvHolds, PTL

\* What a reader gets from two reads of the graph fits together, whatever the
\* organizer commits between them: the names that explain a hit are shown with it
\* (get_rule_neighborhoods, _project_search_rule), and the administrator's view
\* joins nodes it has (GraphStore.snapshot).
THEOREM ReadsStayTogether ==
    ASSUME NEW CONSTANT Candidates, NEW CONSTANT submissions \in SUBSET Seq(Candidates)
    PROVE  SearchInit /\ [][SearchNext(submissions) \/ SnapshotNext(submissions)]_<<graphVars, searchVars>>
               => []ReadsFitTogether
<1>1. SearchInv => ReadsFitTogether
  <2> SUFFICES ASSUME SearchInv PROVE ReadsFitTogether
    OBVIOUS
  <2>1. \A s \in Readers : ReaderIsSound(search[s], Rules, DOMAIN graph.edges)
    BY DEF SearchInv, ReadersAreSound
  <2>2. ASSUME NEW s \in Readers, search[s].pc = "answered", NEW i \in DOMAIN search[s].items
        PROVE  LET evidence == hybrid_scored_rule(search[s].query, search[s].rules[search[s].hits[i].rule],
                                                  search[s].hits[i])
               IN evidence # {} /\ \A e \in evidence : Shows(search[s].items[i], e)
    BY <2>1, <2>2 DEF ReaderIsSound
  <2>3. EvidenceIsShown
    BY <2>2 DEF EvidenceIsShown, Shows
  <2>4. SnapshotIsClosed
    BY <2>1 DEF SnapshotIsClosed, ReaderIsSound
  <2> QED BY <2>3, <2>4 DEF ReadsFitTogether
<1> QED BY <1>1, SearchInvHolds, PTL

(***************************************************************************)
(* The fortune timeline.                                                   *)
(***************************************************************************)

\* A chart whose timeline the calendar covers.
Years == ((birth \div CivilYear) - 1)..((End \div CivilYear) + 1)
IsChart ==
    /\ calendar \in Calendars /\ Years \subseteq DOMAIN calendar
    /\ birth \in Int /\ luck \in Int /\ birth <= luck /\ End \in Int /\ luck <= End

LEMMA FlowYearStarts ==
    ASSUME IsChart
    PROVE  /\ CivilYear \in Nat \ {0} /\ Years \subseteq Int
           /\ \A y \in Years : /\ FlowYearStart(y) \in Int /\ calendar[y] \in [1..12 -> Int]
                               /\ y * CivilYear <= FlowYearStart(y) /\ FlowYearStart(y) < (y + 1) * CivilYear
           /\ \A y, z \in Years : y < z => FlowYearStart(y) < FlowYearStart(z)
<1>1. CivilYear \in Nat \ {0} /\ birth \in Int /\ End \in Int
  BY FortuneAssumption DEF IsChart
<1>2. birth \div CivilYear \in Int /\ End \div CivilYear \in Int
  BY <1>1
<1>3. Years \subseteq Int
  BY <1>2 DEF Years
<1>4. ASSUME NEW y \in Years
      PROVE  /\ FlowYearStart(y) \in Int /\ calendar[y] \in [1..12 -> Int]
             /\ y * CivilYear <= FlowYearStart(y) /\ FlowYearStart(y) < (y + 1) * CivilYear
  <2>1. calendar[y] \in [1..12 -> Int] /\ calendar[y][1] \div CivilYear = y
    BY CalendarAssumption DEF IsChart
  <2>2. calendar[y][1] \in Int
    BY <2>1
  <2> QED BY <1>1, <2>1, <2>2, Quotients DEF FlowYearStart
<1>5. ASSUME NEW y \in Years, NEW z \in Years, y < z PROVE FlowYearStart(y) < FlowYearStart(z)
  <2>1. y + 1 <= z /\ y + 1 \in Int /\ z \in Int
    BY <1>3, <1>5
  <2>2. (y + 1) * CivilYear <= z * CivilYear
    BY <1>1, <2>1, Products
  <2>3. z * CivilYear \in Int /\ (y + 1) * CivilYear \in Int
    BY <1>1, <2>1
  <2> QED BY <1>4, <2>2, <2>3
<1> QED BY <1>1, <1>3, <1>4, <1>5

\* The flow year of an instant is the one that it is in.
LEMMA FlowYearOf ==
    ASSUME IsChart, NEW v \in (birth - 1)..End
    PROVE  LET y == flow_year_for_datetime(v)
           IN /\ y \in Years /\ y + 1 \in Years /\ FlowYearStart(y) <= v /\ v < FlowYearStart(y + 1)
              /\ \A z \in Years : z + 1 \in Years /\ FlowYearStart(z) <= v /\ v < FlowYearStart(z + 1) => z = y
<1> DEFINE C == CivilYear
           low == (birth \div C) - 1
           high == (End \div C) + 1
           q == v \div C
           y == flow_year_for_datetime(v)
<1>1. C \in Nat \ {0} /\ birth \in Int /\ End \in Int /\ v \in Int /\ birth - 1 <= v /\ v <= End
  BY FortuneAssumption DEF IsChart
<1>2. /\ birth \div C \in Int /\ (birth \div C) * C <= birth
      /\ End \div C \in Int /\ End < ((End \div C) + 1) * C
      /\ q \in Int /\ q * C <= v /\ v < (q + 1) * C
  <2>1. birth \div C \in Int /\ (birth \div C) * C <= birth
    BY <1>1, Quotients
  <2>2. End \div C \in Int /\ End < ((End \div C) + 1) * C
    BY <1>1, Quotients
  <2>3. q \in Int /\ q * C <= v /\ v < (q + 1) * C
    BY <1>1, Quotients
  <2> QED BY <2>1, <2>2, <2>3
<1>3. low \in Int /\ high \in Int /\ low + 1 = birth \div C /\ Years = low..high
  BY <1>2 DEF Years
<1> HIDE DEF C, low, high, q
<1>4. \A x, z \in Int : x * C \in Int /\ (x <= z => x * C <= z * C)
  BY <1>1, Products
<1>5. low <= high
  <2> SUFFICES ASSUME high + 1 <= low PROVE FALSE
    BY <1>3
  <2>1. high * C <= low * C /\ low * C <= (low + 1) * C /\ End < high * C
    BY <1>2, <1>3, <1>4 DEF high
  <2>2. (low + 1) * C <= birth /\ high * C \in Int /\ low * C \in Int /\ (low + 1) * C \in Int
    BY <1>2, <1>3, <1>4
  <2> QED BY <1>1, <2>1, <2>2 DEF IsChart
<1>6. /\ \A x \in Years : FlowYearStart(x) \in Int /\ x * C <= FlowYearStart(x) /\ FlowYearStart(x) < (x + 1) * C
      /\ \A x, z \in Years : x < z => FlowYearStart(x) < FlowYearStart(z)
  BY FlowYearStarts DEF C
<1>7. FlowYearStart(low) <= v /\ v < FlowYearStart(high)
  <2>1. low \in Years /\ high \in Years
    BY <1>3, <1>5
  <2>2. FlowYearStart(low) < (low + 1) * C /\ (low + 1) * C <= birth /\ (low + 1) * C \in Int
    BY <1>2, <1>3, <1>4, <1>6, <2>1
  <2>3. high * C <= FlowYearStart(high) /\ End < high * C /\ high * C \in Int
    BY <1>2, <1>3, <1>4, <1>6, <2>1 DEF high
  <2> QED BY <1>1, <1>6, <2>1, <2>2, <2>3
<1>8. q \in low..(high - 1)
  <2>1. ASSUME q + 1 <= low PROVE FALSE
    <3>1. (q + 1) * C <= low * C /\ low \in Years
      BY <1>2, <1>3, <1>4, <1>5, <2>1
    <3>2. low * C <= FlowYearStart(low) /\ low * C \in Int /\ (q + 1) * C \in Int /\ FlowYearStart(low) \in Int
      BY <1>2, <1>3, <1>4, <1>6, <3>1
    <3> QED BY <1>1, <1>2, <1>7, <3>1, <3>2
  <2>2. ASSUME high <= q PROVE FALSE
    <3>1. high * C <= q * C /\ high * C \in Int /\ q * C \in Int /\ End < high * C
      BY <1>2, <1>3, <1>4, <2>2 DEF high
    <3> QED BY <1>1, <1>2, <3>1
  <2> QED BY <1>2, <1>3, <2>1, <2>2
<1>9. q \in Years /\ q + 1 \in Years
  BY <1>3, <1>8
<1>10. y = IF v >= FlowYearStart(q) THEN q ELSE q - 1
  BY DEF flow_year_for_datetime, q, C
<1> HIDE DEF y
<1>11. y \in Years /\ y + 1 \in Years /\ FlowYearStart(y) <= v /\ v < FlowYearStart(y + 1)
  <2>1. CASE v >= FlowYearStart(q)
    <3>1. (q + 1) * C <= FlowYearStart(q + 1) /\ (q + 1) * C \in Int /\ FlowYearStart(q + 1) \in Int
      BY <1>2, <1>4, <1>6, <1>9
    <3> QED BY <1>1, <1>2, <1>9, <1>10, <2>1, <3>1
  <2>2. CASE ~(v >= FlowYearStart(q))
    <3>1. q # low
      BY <1>1, <1>6, <1>7, <1>9, <2>2
    <3>2. q - 1 \in Years /\ (q - 1) + 1 = q
      BY <1>3, <1>8, <3>1
    <3>3. FlowYearStart(q - 1) < q * C /\ FlowYearStart(q - 1) \in Int /\ q * C \in Int
      BY <1>2, <1>4, <1>6, <3>2
    <3>4. FlowYearStart(q) \in Int
      BY <1>6, <1>9
    <3> QED BY <1>1, <1>2, <1>9, <1>10, <2>2, <3>2, <3>3, <3>4
  <2> QED BY <2>1, <2>2
<1>12. ASSUME NEW z \in Years, z + 1 \in Years, FlowYearStart(z) <= v, v < FlowYearStart(z + 1) PROVE z = y
  <2>1. z \in Int /\ y \in Int /\ FlowYearStart(z) \in Int /\ FlowYearStart(z + 1) \in Int
        /\ FlowYearStart(y) \in Int /\ FlowYearStart(y + 1) \in Int
    BY <1>3, <1>6, <1>11, <1>12
  <2>2. ASSUME z < y PROVE FALSE
    <3>1. FlowYearStart(z + 1) <= FlowYearStart(y)
      BY <1>6, <1>11, <1>12, <2>1, <2>2
    <3> QED BY <1>1, <1>11, <1>12, <2>1, <3>1
  <2>3. ASSUME y < z PROVE FALSE
    <3>1. FlowYearStart(y + 1) <= FlowYearStart(z)
      BY <1>6, <1>11, <1>12, <2>1, <2>3
    <3> QED BY <1>1, <1>11, <1>12, <2>1, <3>1
  <2> QED BY <2>1, <2>2, <2>3
<1> QED BY <1>11, <1>12 DEF y

LEMMA MonthsOfYear ==
    ASSUME IsChart, NEW y \in Years, y + 1 \in Years
    PROVE  /\ calendar[y][1] = FlowYearStart(y) /\ MonthEnd(y, 12) = FlowYearStart(y + 1)
           /\ \A m \in 1..12 : /\ calendar[y][m] \in Int /\ MonthEnd(y, m) \in Int
                               /\ calendar[y][m] < MonthEnd(y, m)
                               /\ FlowYearStart(y) <= calendar[y][m] /\ MonthEnd(y, m) <= FlowYearStart(y + 1)
           /\ \A m \in 1..11 : MonthEnd(y, m) = calendar[y][m + 1]
           /\ \A a, b \in 1..12 : a < b => MonthEnd(y, a) <= calendar[y][b]
<1> DEFINE c == calendar[y]
<1>1. c \in [1..12 -> Int] /\ FlowYearStart(y) \in Int /\ FlowYearStart(y + 1) \in Int
  BY FlowYearStarts
<1>2. (\A m \in 1..11 : c[m] < c[m + 1]) /\ c[12] < FlowYearStart(y + 1)
  BY CalendarAssumption DEF IsChart, FlowYearStart
<1>3. /\ MonthEnd(y, 12) = FlowYearStart(y + 1) /\ c[1] = FlowYearStart(y)
      /\ \A m \in 1..11 : MonthEnd(y, m) = c[m + 1]
  BY DEF MonthEnd, FlowYearStart
<1> HIDE DEF c
<1>4. \A m \in 1..12 : c[m] \in Int /\ MonthEnd(y, m) \in Int /\ c[m] < MonthEnd(y, m)
  <2> TAKE m \in 1..12
  <2>1. CASE m = 12
    BY <1>1, <1>2, <1>3, <2>1
  <2>2. CASE m # 12
    <3>1. m \in 1..11 /\ m + 1 \in 1..12
      BY <2>2
    <3> QED BY <1>1, <1>2, <1>3, <3>1
  <2> QED BY <2>1, <2>2
<1>5. \A a \in 1..12 : \A b \in 1..12 : a < b => MonthEnd(y, a) <= c[b]
  <2> SUFFICES ASSUME NEW a \in 1..12, NEW x \in 1..12, a < x, ~(MonthEnd(y, a) <= c[x]) PROVE FALSE
    OBVIOUS
  <2> DEFINE T == {k \in 1..12 : a < k /\ ~(MonthEnd(y, a) <= c[k])}
  <2>1. PICK b \in T : \A k \in T : b <= k
    <3>1. T \in SUBSET Nat /\ T # {}
      OBVIOUS
    <3> HIDE DEF T
    <3> QED BY <3>1, SmallestOf
  <2>2. b - 1 \in 1..11 /\ (b - 1) + 1 = b /\ a <= b - 1 /\ b - 1 \notin T
    BY <2>1
  <2>3. c[b - 1] < c[b]
    BY <1>2, <2>2
  <2>4. CASE b - 1 = a
    <3>1. MonthEnd(y, a) = c[b]
      BY <1>3, <2>2, <2>4
    <3> QED BY <1>1, <2>1, <3>1
  <2>5. CASE b - 1 # a
    <3>1. MonthEnd(y, a) <= c[b - 1]
      BY <2>2, <2>5
    <3> QED BY <1>1, <1>4, <2>1, <2>2, <2>3, <3>1
  <2> QED BY <2>4, <2>5
<1>6. \A m \in 1..12 : FlowYearStart(y) <= c[m] /\ MonthEnd(y, m) <= FlowYearStart(y + 1)
  <2> TAKE m \in 1..12
  <2>1. FlowYearStart(y) <= c[m]
    <3>1. m = 1 \/ MonthEnd(y, 1) <= c[m]
      BY <1>5
    <3> QED BY <1>1, <1>3, <1>4, <3>1
  <2>2. MonthEnd(y, m) <= FlowYearStart(y + 1)
    <3>1. m = 12 \/ MonthEnd(y, m) <= c[12]
      BY <1>5
    <3> QED BY <1>1, <1>2, <1>3, <1>4, <3>1
  <2> QED BY <2>1, <2>2
<1> QED BY <1>3, <1>4, <1>5, <1>6 DEF c

LEMMA MonthOf ==
    ASSUME IsChart, NEW y \in Years, y + 1 \in Years, NEW v \in Int, FlowYearStart(y) <= v, v < FlowYearStart(y + 1)
    PROVE  \E m \in 1..12 : calendar[y][m] <= v /\ v < MonthEnd(y, m)
<1> DEFINE T == {m \in 1..12 : v < MonthEnd(y, m)}
<1>1. /\ calendar[y][1] = FlowYearStart(y) /\ MonthEnd(y, 12) = FlowYearStart(y + 1)
      /\ \A m \in 1..12 : calendar[y][m] \in Int /\ MonthEnd(y, m) \in Int
      /\ \A m \in 1..11 : MonthEnd(y, m) = calendar[y][m + 1]
  BY MonthsOfYear
<1>2. PICK m \in T : \A k \in T : m <= k
  <2>1. T \in SUBSET Nat /\ 12 \in T
    BY <1>1
  <2> HIDE DEF T
  <2> QED BY <2>1, SmallestOf
<1>3. CASE m = 1
  BY <1>1, <1>2, <1>3
<1>4. CASE m # 1
  <2>1. m - 1 \in 1..11 /\ (m - 1) + 1 = m /\ m - 1 \notin T
    BY <1>2, <1>4
  <2>2. MonthEnd(y, m - 1) = calendar[y][m] /\ ~(v < MonthEnd(y, m - 1))
    BY <1>1, <2>1
  <2> QED BY <1>1, <1>2, <2>2
<1> QED BY <1>3, <1>4

\* The periods follow one another; each but the first lasts at least two years.
Last0 == FORTUNE_BIG_LUCK_PERIODS - 1
LEMMA SpecsAre ==
    ASSUME IsChart
    PROVE  /\ FORTUNE_BIG_LUCK_PERIODS \in Nat \ {0} /\ DOMAIN Specs = 0..Last0
           /\ \A i \in 0..Last0 :
                 /\ Specs[i].index = i /\ Specs[i].start \in Int /\ Specs[i].end \in Int
                 /\ birth <= Specs[i].start /\ Specs[i].start <= Specs[i].end /\ Specs[i].end <= End
                 /\ Specs[i].start_year = flow_year_for_datetime(Specs[i].start)
                 /\ Specs[i].end_year = flow_year_for_datetime(Specs[i].end - 1)
                 /\ i # 0 => Specs[i].start + 2 * CivilYear <= Specs[i].end
           /\ Specs[0].start = birth /\ Specs[0].end = luck /\ Specs[Last0].end = End
           /\ \A i \in 0..(Last0 - 1) : Specs[i].end = Specs[i + 1].start
           /\ \A i, j \in 0..Last0 : i < j => Specs[i].end <= Specs[j].start
<1> DEFINE C == CivilYear
           P == PeriodYears
           N == FORTUNE_BIG_LUCK_PERIODS
           A(i) == luck + (i * P) * C
<1>1. /\ C \in Nat \ {0} /\ P \in Nat \ {0, 1} /\ N \in Nat \ {0}
      /\ birth \in Int /\ luck \in Int /\ birth <= luck /\ End \in Int
  BY FortuneAssumption DEF IsChart
<1>2. \A i \in Int : (i * P) \in Int /\ (i * P) * C \in Int /\ A(i) \in Int
  BY <1>1
<1>3. \A i, j \in Int : i <= j => A(i) <= A(j)
  <2> SUFFICES ASSUME NEW i \in Int, NEW j \in Int, i <= j PROVE A(i) <= A(j)
    OBVIOUS
  <2>1. i * P <= j * P /\ i * P \in Int /\ j * P \in Int
    BY <1>1, <1>2, Products
  <2>2. (i * P) * C <= (j * P) * C
    BY <1>1, <2>1, Products
  <2> QED BY <1>1, <1>2, <2>2
<1>4. \A i \in Int : A(i) + 2 * C <= A(i + 1)
  <2> SUFFICES ASSUME NEW i \in Int PROVE A(i) + 2 * C <= A(i + 1)
    OBVIOUS
  <2>1. (i + 1) * P = i * P + P
    BY <1>1
  <2>2. i * P + 2 <= (i + 1) * P /\ i * P + 2 \in Int /\ (i + 1) * P \in Int
    BY <1>1, <1>2, <2>1
  <2>3. (i * P + 2) * C <= ((i + 1) * P) * C
    BY <1>1, <2>2, Products
  <2>4. (i * P + 2) * C = (i * P) * C + 2 * C
    <3>1. \A x \in Int : (x + 2) * C = x * C + 2 * C
      BY <1>1
    <3> QED BY <1>2, <3>1
  <2>5. ((i + 1) * P) * C \in Int /\ (i * P) * C \in Int /\ 2 * C \in Int
    BY <1>1, <1>2
  <2> HIDE DEF C, P
  <2> QED BY <1>1, <2>3, <2>4, <2>5
<1>5. A(0) = luck /\ End = A(Last0)
  BY <1>1 DEF End, Last0
<1>6. Specs = [i \in 0..Last0 |-> BigLuckSpec(i)]
  BY DEF Specs, Last0
<1>7. \A i \in 0..Last0 :
         /\ Specs[i].index = i
         /\ Specs[i].start = (IF i = 0 THEN birth ELSE A(i - 1))
         /\ Specs[i].end = (IF i = 0 THEN luck ELSE A(i))
         /\ Specs[i].start_year = flow_year_for_datetime(Specs[i].start)
         /\ Specs[i].end_year = flow_year_for_datetime(Specs[i].end - 1)
  BY <1>6 DEF BigLuckSpec, NextYear, last_flow_year
<1> HIDE DEF A, N, P, C
<1>8. Last0 \in Nat /\ \A i \in 0..Last0 : i \in Int /\ i - 1 \in Int /\ (i - 1) + 1 = i
  BY <1>1 DEF Last0, N
<1>9. \A i \in 0..Last0 :
         /\ Specs[i].start \in Int /\ Specs[i].end \in Int
         /\ i # 0 => Specs[i].start + 2 * C <= Specs[i].end
         /\ birth <= Specs[i].start /\ Specs[i].start <= Specs[i].end /\ Specs[i].end <= End
  <2> TAKE i \in 0..Last0
  <2>1. A(i - 1) \in Int /\ A(i) \in Int /\ A(i - 1) + 2 * C <= A(i) /\ A(i) <= A(Last0)
    <3>1. i \in Int /\ i - 1 \in Int /\ (i - 1) + 1 = i /\ Last0 \in Int /\ i <= Last0
      BY <1>8
    <3>2. A(i - 1) + 2 * C <= A((i - 1) + 1)
      BY <1>4, <3>1
    <3>3. A(i - 1) + 2 * C <= A(i)
      BY <3>1, <3>2
    <3> QED BY <1>2, <1>3, <3>1, <3>3
  <2>2. i # 0 => A(0) <= A(i - 1)
    BY <1>3, <1>8
  <2>3. A(0) <= A(Last0)
    BY <1>3, <1>8
  <2> QED BY <1>1, <1>5, <1>7, <2>1, <2>2, <2>3
<1>10. Specs[0].start = birth /\ Specs[0].end = luck /\ Specs[Last0].end = End
  BY <1>1, <1>5, <1>7, <1>8
<1>11. \A i \in 0..(Last0 - 1) : Specs[i].end = Specs[i + 1].start
  <2> TAKE i \in 0..(Last0 - 1)
  <2>1. i \in 0..Last0 /\ i + 1 \in 0..Last0 /\ i + 1 # 0 /\ (i + 1) - 1 = i
    BY <1>8
  <2>2. Specs[i + 1].start = A(i)
    BY <1>7, <2>1
  <2> QED BY <1>5, <1>7, <2>1, <2>2
<1>12. \A i, j \in 0..Last0 : i < j => Specs[i].end <= Specs[j].start
  <2> SUFFICES ASSUME NEW i \in 0..Last0, NEW j \in 0..Last0, i < j PROVE Specs[i].end <= Specs[j].start
    OBVIOUS
  <2>1. i <= j - 1 /\ j # 0 /\ A(i) <= A(j - 1)
    BY <1>3, <1>8
  <2> QED BY <1>5, <1>7, <2>1
<1> QED BY <1>1, <1>6, <1>7, <1>9, <1>10, <1>11, <1>12 DEF C, N

\* A sequence is known by its length and its elements.
LEMMA SegmentsAre ==
    ASSUME NEW n \in Nat, NEW s, s = [k \in 1..n |-> s[k]]
    PROVE  /\ Len(s) = n /\ DOMAIN s = 1..n /\ (s = <<>> <=> n = 0)
           /\ n # 0 => Last(s) = s[n]
           /\ n # 0 => /\ DOMAIN Tail(s) = 1..(n - 1) /\ Tail(s) = [k \in 1..(n - 1) |-> Tail(s)[k]]
                       /\ \A k \in 1..(n - 1) : Tail(s)[k] = s[k + 1]
           /\ ToSet(s) = {s[k] : k \in 1..n}
<1> DEFINE S == {s[k] : k \in 1..n}
<1>1. DOMAIN s = 1..n
  OBVIOUS
<1>2. \A k \in 1..n : s[k] \in S
  OBVIOUS
<1> HIDE DEF S
<1>3. s \in [1..n -> S]
  BY <1>2
<1>4. s \in Seq(S) /\ Len(s) = n
  BY <1>1, <1>3, IsASeq, LenProperties
<1>5. s = <<>> <=> n = 0
  BY <1>4, EmptySeq
<1>6. ASSUME n # 0
      PROVE /\ DOMAIN Tail(s) = 1..(n - 1) /\ Tail(s) = [k \in 1..(n - 1) |-> Tail(s)[k]]
            /\ \A k \in 1..(n - 1) : Tail(s)[k] = s[k + 1]
  <2>1. Tail(s) \in Seq(S) /\ Len(Tail(s)) = n - 1 /\ \A k \in 1..(n - 1) : Tail(s)[k] = s[k + 1]
    BY <1>4, <1>5, <1>6, HeadTailProperties
  <2>2. Tail(s) \in [1..(n - 1) -> S]
    BY <2>1, LenProperties
  <2> QED BY <2>1, <2>2
<1>7. Last(s) = s[n]
  BY <1>4 DEF Last
<1>8. ToSet(s) = {s[k] : k \in 1..n}
  BY <1>1 DEF ToSet
<1> QED BY <1>1, <1>4, <1>5, <1>6, <1>7, <1>8

LEMMA AtInterval ==
    ASSUME NEW s, NEW a \in Nat, NEW b \in Nat, a <= b
    PROVE  At(s, a..b) = [k \in 1..(b - a + 1) |-> s[a + k - 1]]
<1> DEFINE n == b - a + 1
           p(k) == a + k - 1
<1>1. n \in Nat /\ Cardinality(a..b) = n
  <2>1. Cardinality(a..b) = IF a > b THEN 0 ELSE b - a + 1
    BY FS_Interval
  <2> QED BY <2>1
<1>2. \A q \in a..b : Cardinality({r \in a..b : r < q}) = q - a
  <2> TAKE q \in a..b
  <2>1. {r \in a..b : r < q} = a..(q - 1)
    OBVIOUS
  <2>2. Cardinality(a..(q - 1)) = IF a > q - 1 THEN 0 ELSE (q - 1) - a + 1
    BY FS_Interval
  <2>3. (IF a > q - 1 THEN 0 ELSE (q - 1) - a + 1) = q - a
    OBVIOUS
  <2> QED BY <2>1, <2>2, <2>3
<1>3. \A k \in 1..n : (CHOOSE q \in a..b : Cardinality({r \in a..b : r < q}) = k - 1) = p(k)
  <2> TAKE k \in 1..n
  <2>1. p(k) \in a..b /\ p(k) - a = k - 1
    OBVIOUS
  <2>2. \A q \in a..b : Cardinality({r \in a..b : r < q}) = k - 1 <=> q = p(k)
    <3> TAKE q \in a..b
    <3>1. Cardinality({r \in a..b : r < q}) = q - a
      BY <1>2
    <3> QED BY <3>1, <2>1
  <2> HIDE DEF p
  <2> QED BY <2>1, <2>2
<1>4. At(s, a..b) = [k \in 1..n |-> s[CHOOSE q \in a..b : Cardinality({r \in a..b : r < q}) = k - 1]]
  BY <1>1 DEF At
<1>5. \A k \in 1..n : s[CHOOSE q \in a..b : Cardinality({r \in a..b : r < q}) = k - 1] = s[p(k)]
  BY <1>3
<1> HIDE DEF n
<1>6. At(s, a..b) = [k \in 1..n |-> s[p(k)]]
  BY <1>4, <1>5
<1> QED BY <1>6 DEF n

LEMMA YearsAreInterval ==
    ASSUME IsChart, NEW a \in Years, NEW b \in Years
    PROVE  \A y \in Int : a <= y /\ y <= b => y \in Years
<1> DEFINE low == (birth \div CivilYear) - 1
           high == (End \div CivilYear) + 1
<1>1. low \in Int /\ high \in Int
  BY FortuneAssumption DEF IsChart
<1>2. Years = low..high
  BY DEF Years
<1> HIDE DEF low, high
<1> QED BY <1>1, <1>2

\* The natural interval of a flow year that overlaps a period, and the segment
\* that is clipped from it.
LEMMA YearsOfPeriod ==
    ASSUME IsChart, NEW i \in 0..Last0, Specs[i].start < Specs[i].end,
           NEW y \in Specs[i].start_year..Specs[i].end_year
    PROVE  LET from == SegmentStart(Specs[i], y)
               to == Earlier(FlowYearStart(y + 1), Specs[i].end)
           IN /\ y \in Years /\ y + 1 \in Years /\ Specs[i].start_year <= Specs[i].end_year
              /\ from \in Int /\ to \in Int /\ from < to
              /\ FlowYearStart(y) <= from /\ to <= FlowYearStart(y + 1)
              /\ y = Specs[i].start_year => from = Specs[i].start
              /\ y = Specs[i].end_year => to = Specs[i].end
              /\ y # Specs[i].start_year => from = FlowYearStart(y)
              /\ y # Specs[i].end_year => to = FlowYearStart(y + 1)
<1> DEFINE S == Specs[i].start
           E == Specs[i].end
           a == Specs[i].start_year
           b == Specs[i].end_year
           F(z) == FlowYearStart(z)
<1>1. /\ S \in Int /\ E \in Int /\ birth <= S /\ S < E /\ E <= End /\ birth \in Int /\ End \in Int
      /\ a = flow_year_for_datetime(S) /\ b = flow_year_for_datetime(E - 1)
  BY SpecsAre DEF IsChart
<1>2. a \in Years /\ a + 1 \in Years /\ F(a) <= S /\ S < F(a + 1)
  <2>1. S \in (birth - 1)..End
    BY <1>1
  <2> HIDE DEF S
  <2> QED BY <1>1, <2>1, FlowYearOf
<1>3. b \in Years /\ b + 1 \in Years /\ F(b) <= E - 1 /\ E - 1 < F(b + 1)
  <2>1. E - 1 \in (birth - 1)..End
    BY <1>1
  <2> DEFINE v == E - 1
  <2>2. v \in (birth - 1)..End /\ b = flow_year_for_datetime(v)
    BY <1>1, <2>1
  <2> HIDE DEF v
  <2>3. b \in Years /\ b + 1 \in Years /\ F(b) <= v /\ v < F(b + 1)
    BY <2>2, FlowYearOf
  <2> QED BY <2>3 DEF v
<1>4. Years \subseteq Int /\ (\A z \in Years : F(z) \in Int) /\ \A z, w \in Years : z < w => F(z) < F(w)
  BY FlowYearStarts
<1>5. y \in a..b
  OBVIOUS
<1> HIDE DEF S, E, a, b, F
<1>6. y \in a..b /\ y \in Int /\ a \in Int /\ b \in Int /\ a <= b
  <2>1. a \in Int /\ b \in Int
    BY <1>2, <1>3, <1>4
  <2> QED BY <1>5, <2>1
<1>13. y \in Years /\ y + 1 \in Years
  <2>1. y + 1 \in Int /\ a <= y /\ y <= y + 1 /\ y + 1 <= b + 1 /\ b + 1 \in Int
    BY <1>6
  <2> QED BY <1>2, <1>3, <1>6, <2>1, YearsAreInterval
<1>7. y \in Years /\ y + 1 \in Years /\ F(y) \in Int /\ F(y + 1) \in Int /\ F(y) < F(y + 1)
  BY <1>4, <1>6, <1>13
<1>8. F(y) <= E - 1 /\ S < F(y + 1)
  <2>1. y = b \/ F(y) < F(b)
    BY <1>3, <1>4, <1>6, <1>7
  <2>2. y = a \/ F(a + 1) < F(y + 1)
    BY <1>2, <1>4, <1>6, <1>7
  <2> QED BY <1>1, <1>2, <1>3, <1>4, <1>7, <2>1, <2>2
<1>9. y # a => S < F(y)
  <2>1. ASSUME y # a PROVE a + 1 = y \/ F(a + 1) < F(y)
    BY <1>2, <1>4, <1>6, <1>7, <2>1
  <2> QED BY <1>1, <1>2, <1>4, <1>7, <2>1
<1>10. y # b => F(y + 1) <= E - 1
  <2>1. ASSUME y # b PROVE y + 1 = b \/ F(y + 1) < F(b)
    BY <1>3, <1>4, <1>6, <1>7, <2>1
  <2> QED BY <1>1, <1>3, <1>4, <1>7, <2>1
<1>11. y = a => F(y) <= S
  BY <1>2
<1>12. y = b => E <= F(y + 1)
  BY <1>1, <1>3, <1>4
<1> QED
  BY <1>1, <1>6, <1>7, <1>8, <1>9, <1>10, <1>11, <1>12 DEF SegmentStart, Later, Earlier, S, E, a, b, F

\* The segment of year y in period i, and what is clipped of month m from it.
From(i, y) == SegmentStart(Specs[i], y)
To(i, y) == Earlier(FlowYearStart(y + 1), Specs[i].end)
IsSegment(i, y) ==
    /\ y \in Years /\ y + 1 \in Years
    /\ From(i, y) \in Int /\ To(i, y) \in Int /\ From(i, y) < To(i, y)
    /\ FlowYearStart(y) <= From(i, y) /\ To(i, y) <= FlowYearStart(y + 1)
MonthFrom(i, y, m) == Later(calendar[y][m], From(i, y))
MonthTo(i, y, m) == Earlier(MonthEnd(y, m), To(i, y))
Month(i, y, m) == monthly_fortune(Specs, i, y, From(i, y), To(i, y), m)

\* The months a to b are those of a segment.
HasMonths(i, y, a, b) ==
    /\ a <= b
    /\ annual_fortune(Specs, i, y).months = [k \in 1..(b - a + 1) |-> Month(i, y, a + k - 1)]
    /\ MonthFrom(i, y, a) = From(i, y) /\ MonthTo(i, y, b) = To(i, y)
    /\ \A m \in a..b : /\ MonthFrom(i, y, m) \in Int /\ MonthTo(i, y, m) \in Int
                       /\ MonthFrom(i, y, m) < MonthTo(i, y, m)
                       /\ From(i, y) <= MonthFrom(i, y, m) /\ MonthTo(i, y, m) <= To(i, y)
                       /\ calendar[y][m] <= MonthFrom(i, y, m) /\ MonthTo(i, y, m) <= MonthEnd(y, m)
    /\ \A m \in a..(b - 1) : MonthTo(i, y, m) = MonthFrom(i, y, m + 1)

LEMMA MonthsOfSegment ==
    ASSUME IsChart, NEW i, NEW y, IsSegment(i, y)
    PROVE  \E a, b \in 1..12 : HasMonths(i, y, a, b)
<1> DEFINE f == From(i, y)
           t == To(i, y)
           c(m) == calendar[y][m]
           e(m) == MonthEnd(y, m)
           ms == [m \in 1..12 |-> monthly_fortune(Specs, i, y, f, t, m)]
           T == {m \in 1..12 : ms[m].start < ms[m].end}
<1>1. /\ y \in Years /\ y + 1 \in Years /\ f \in Int /\ t \in Int /\ f < t
      /\ FlowYearStart(y) <= f /\ t <= FlowYearStart(y + 1)
  BY DEF IsSegment
<1>2. /\ \A m \in 1..12 : c(m) \in Int /\ e(m) \in Int /\ c(m) < e(m)
      /\ \A m \in 1..11 : e(m) = c(m + 1)
      /\ \A m, n \in 1..12 : m < n => e(m) <= c(n)
      /\ FlowYearStart(y) \in Int /\ FlowYearStart(y + 1) \in Int
  BY <1>1, MonthsOfYear, FlowYearStarts
<1>3. PICK a \in 1..12 : c(a) <= f /\ f < e(a)
  <2>1. f < FlowYearStart(y + 1)
    BY <1>1, <1>2
  <2> HIDE DEF f
  <2> QED BY <1>1, <2>1, MonthOf
<1>4. PICK b \in 1..12 : c(b) <= t - 1 /\ t - 1 < e(b)
  <2> DEFINE v == t - 1
  <2>1. v \in Int /\ FlowYearStart(y) <= v /\ v < FlowYearStart(y + 1)
    BY <1>1, <1>2
  <2> HIDE DEF v
  <2>2. \E b \in 1..12 : c(b) <= v /\ v < e(b)
    BY <1>1, <2>1, MonthOf
  <2> QED BY <2>2 DEF v
<1>5. /\ annual_fortune(Specs, i, y).months = At(ms, T)
      /\ \A m \in 1..12 : ms[m] = Month(i, y, m) /\ ms[m].start = Later(c(m), f) /\ ms[m].end = Earlier(e(m), t)
      /\ \A m \in 1..12 : MonthFrom(i, y, m) = Later(c(m), f) /\ MonthTo(i, y, m) = Earlier(e(m), t)
  BY DEF annual_fortune, monthly_fortune, From, To, MonthFrom, MonthTo, Month
<1>12. T = {m \in 1..12 : Later(c(m), f) < Earlier(e(m), t)}
  BY <1>5
<1> HIDE DEF f, t, c, e, ms, T
<1>6. \A m \in 1..12 : Later(c(m), f) < Earlier(e(m), t) <=> (c(m) < t /\ f < e(m))
  BY <1>1, <1>2 DEF Later, Earlier
<1>7. \A m \in 1..12 : (f < e(m) <=> a <= m) /\ (c(m) < t <=> m <= b)
  <2> TAKE m \in 1..12
  <2>1. m < a => e(m) <= c(a)
    BY <1>2
  <2>2. a < m => e(a) <= c(m)
    BY <1>2
  <2>3. m < b => e(m) <= c(b)
    BY <1>2
  <2>4. b < m => e(b) <= c(m)
    BY <1>2
  <2>5. c(m) \in Int /\ e(m) \in Int /\ c(m) < e(m) /\ c(a) \in Int /\ e(a) \in Int /\ c(b) \in Int /\ e(b) \in Int
    BY <1>2
  <2>6. f < e(m) <=> a <= m
    BY <1>1, <1>3, <2>1, <2>2, <2>5
  <2>7. c(m) < t <=> m <= b
    BY <1>1, <1>4, <2>3, <2>4, <2>5
  <2> QED BY <2>6, <2>7
<1>8. a <= b
  <2>1. c(a) < t
    BY <1>1, <1>2, <1>3
  <2> QED BY <1>7, <2>1
<1>9. T = a..b
  <2>1. \A m \in 1..12 : m \in T <=> a <= m /\ m <= b
    BY <1>6, <1>7, <1>12
  <2>2. T \subseteq 1..12
    BY <1>12
  <2>3. \A m \in a..b : m \in 1..12 /\ a <= m /\ m <= b
    OBVIOUS
  <2>4. T \subseteq a..b
    <3>1. \A m \in 1..12 : a <= m /\ m <= b => m \in a..b
      OBVIOUS
    <3> QED BY <2>1, <2>2, <3>1
  <2>5. a..b \subseteq T
    BY <2>1, <2>3
  <2> QED BY <2>4, <2>5
<1>10. annual_fortune(Specs, i, y).months = [k \in 1..(b - a + 1) |-> Month(i, y, a + k - 1)]
  <2>1. At(ms, a..b) = [k \in 1..(b - a + 1) |-> ms[a + k - 1]]
    <3>1. a \in Nat /\ b \in Nat
      OBVIOUS
    <3>2. \A s : At(s, a..b) = [k \in 1..(b - a + 1) |-> s[a + k - 1]]
      <4>1. PICK low \in Nat, high \in Nat : low = a /\ high = b
        BY <3>1
      <4>2. low <= high
        BY <1>8, <4>1
      <4>3. \A s : At(s, low..high) = [k \in 1..(high - low + 1) |-> s[low + k - 1]]
        BY <4>2, AtInterval
      <4> QED BY <4>1, <4>3, SMTT(30)
    <3> QED BY <3>2
  <2>2. \A k \in 1..(b - a + 1) : a + k - 1 \in 1..12
    OBVIOUS
  <2>3. \A k \in 1..(b - a + 1) : ms[a + k - 1] = Month(i, y, a + k - 1)
    BY <1>5, <2>2
  <2> QED BY <1>5, <1>9, <2>1, <2>3
<1>11. /\ Later(c(a), f) = f /\ Earlier(e(b), t) = t
       /\ \A m \in a..b : /\ Later(c(m), f) \in Int /\ Earlier(e(m), t) \in Int
                          /\ Later(c(m), f) < Earlier(e(m), t)
                          /\ f <= Later(c(m), f) /\ Earlier(e(m), t) <= t
                          /\ c(m) <= Later(c(m), f) /\ Earlier(e(m), t) <= e(m)
       /\ \A m \in a..(b - 1) : Earlier(e(m), t) = Later(c(m + 1), f)
  <2>1. Later(c(a), f) = f /\ Earlier(e(b), t) = t
    BY <1>1, <1>2, <1>3, <1>4 DEF Later, Earlier
  <2>2. ASSUME NEW m \in a..b
        PROVE  /\ Later(c(m), f) \in Int /\ Earlier(e(m), t) \in Int
               /\ Later(c(m), f) < Earlier(e(m), t)
               /\ f <= Later(c(m), f) /\ Earlier(e(m), t) <= t
               /\ c(m) <= Later(c(m), f) /\ Earlier(e(m), t) <= e(m)
    <3>1. m \in 1..12 /\ a <= m /\ m <= b
      OBVIOUS
    <3>2. c(m) < t /\ f < e(m)
      BY <1>7, <3>1
    <3>3. c(m) \in Int /\ e(m) \in Int /\ Later(c(m), f) < Earlier(e(m), t)
      BY <1>2, <1>6, <3>1, <3>2
    <3> QED BY <1>1, <3>3 DEF Later, Earlier
  <2>3. ASSUME NEW m \in a..(b - 1) PROVE Earlier(e(m), t) = Later(c(m + 1), f)
    <3>1. m \in 1..11 /\ m \in 1..12 /\ m + 1 \in 1..12 /\ m + 1 <= b /\ a <= m
      OBVIOUS
    <3>2. e(m) = c(m + 1) /\ c(m + 1) < t /\ f < e(m) /\ e(m) \in Int
      BY <1>2, <1>7, <3>1
    <3> QED BY <1>1, <3>2 DEF Later, Earlier
  <2> QED BY <2>1, <2>2, <2>3
<1> HIDE DEF Month
<1>13. \A m \in a..b : m \in 1..12
  OBVIOUS
<1>14. \A m \in a..(b - 1) : m \in 1..12 /\ m + 1 \in 1..12
  OBVIOUS
<1> QED
  <2>1. /\ MonthFrom(i, y, a) = f /\ MonthTo(i, y, b) = t
        /\ \A m \in a..b : /\ MonthFrom(i, y, m) \in Int /\ MonthTo(i, y, m) \in Int
                           /\ MonthFrom(i, y, m) < MonthTo(i, y, m)
                           /\ f <= MonthFrom(i, y, m) /\ MonthTo(i, y, m) <= t
                           /\ c(m) <= MonthFrom(i, y, m) /\ MonthTo(i, y, m) <= e(m)
    BY <1>5, <1>11, <1>13
  <2>2. \A m \in a..(b - 1) : MonthTo(i, y, m) = MonthFrom(i, y, m + 1)
    BY <1>5, <1>11, <1>14
  <2>3. HasMonths(i, y, a, b)
    BY <1>8, <1>10, <2>1, <2>2 DEF HasMonths, f, t, c, e
  <2> QED BY <2>3

LEMMA Tiling ==
    ASSUME NEW n \in Nat \ {0}, NEW s, NEW from, NEW to, s = [k \in 1..n |-> s[k]],
           s[1].start = from, s[n].end = to,
           \A k \in 1..n : s[k].start < s[k].end,
           \A k \in 1..(n - 1) : s[k].end = s[k + 1].start
    PROVE  Tiles(s, from, to)
<1>1. Len(s) = n /\ DOMAIN s = 1..n /\ s # <<>> /\ Last(s) = s[n]
  BY SegmentsAre
<1> QED BY <1>1 DEF Tiles

\* The months of a segment tile it.
LEMMA MonthsTile ==
    ASSUME IsChart, NEW i, NEW y, IsSegment(i, y)
    PROVE  Tiles(annual_fortune(Specs, i, y).months, From(i, y), To(i, y))
<1> DEFINE s == annual_fortune(Specs, i, y).months
<1>1. PICK a, b \in 1..12 : HasMonths(i, y, a, b)
  BY MonthsOfSegment
<1> DEFINE n == b - a + 1
<1>2. n \in Nat \ {0} /\ a <= b
  BY <1>1 DEF HasMonths
<1>3. s = [k \in 1..n |-> Month(i, y, a + k - 1)]
  BY <1>1 DEF HasMonths
<1>4. \A m \in 1..12 : Month(i, y, m).start = MonthFrom(i, y, m) /\ Month(i, y, m).end = MonthTo(i, y, m)
  BY DEF Month, monthly_fortune, MonthFrom, MonthTo
<1>5. \A k \in 1..n : /\ a + k - 1 \in a..b /\ a + k - 1 \in 1..12
                      /\ k # n => a + k - 1 \in a..(b - 1) /\ (a + k - 1) + 1 = a + (k + 1) - 1
  BY <1>2
<1>6. a + 1 - 1 = a /\ a + n - 1 = b /\ 1 \in 1..n /\ n \in 1..n
  BY <1>2
<1> HIDE DEF s, n, Month
<1>7. \A k \in 1..n : s[k] = Month(i, y, a + k - 1)
  BY <1>3
<1>8. s = [k \in 1..n |-> s[k]]
  BY <1>3
<1>9. s[1].start = From(i, y) /\ s[n].end = To(i, y)
  <2>1. s[1].start = MonthFrom(i, y, a) /\ s[n].end = MonthTo(i, y, b)
    BY <1>4, <1>6, <1>7
  <2> QED BY <1>1, <2>1 DEF HasMonths
<1>10. \A k \in 1..n : s[k].start < s[k].end
  BY <1>1, <1>4, <1>5, <1>7 DEF HasMonths
<1>11. \A k \in 1..(n - 1) : s[k].end = s[k + 1].start
  <2> TAKE k \in 1..(n - 1)
  <2>1. k \in 1..n /\ k + 1 \in 1..n /\ k # n
    BY <1>2
  <2>2. MonthTo(i, y, a + k - 1) = MonthFrom(i, y, (a + k - 1) + 1)
    BY <1>1, <1>5, <2>1 DEF HasMonths
  <2> QED BY <1>4, <1>5, <1>7, <2>1, <2>2
<1>12. Tiles(s, From(i, y), To(i, y))
  BY <1>2, <1>8, <1>9, <1>10, <1>11, Tiling
<1> QED BY <1>12 DEF s

\* The years of a period that lasts: their segments tile it.
FirstYear(i) == Specs[i].start_year
YearCount(i) == Specs[i].end_year - Specs[i].start_year + 1
YearAt(i, k) == annual_fortune(Specs, i, FirstYear(i) + k - 1)
LEMMA YearsTile ==
    ASSUME IsChart, NEW i \in 0..Last0, Specs[i].start < Specs[i].end
    PROVE  LET period == BigLuckPeriod(Specs, i)
           IN /\ YearCount(i) \in Nat \ {0} /\ FirstYear(i) \in Years
              /\ period.years = [k \in 1..YearCount(i) |-> YearAt(i, k)]
              /\ \A k \in 1..YearCount(i) :
                    LET y == FirstYear(i) + k - 1
                    IN /\ IsSegment(i, y) /\ y \in Specs[i].start_year..Specs[i].end_year
                       /\ YearAt(i, k).year = y /\ YearAt(i, k).start = From(i, y) /\ YearAt(i, k).end = To(i, y)
              /\ Tiles(period.years, Specs[i].start, Specs[i].end)
<1> DEFINE a == Specs[i].start_year
           b == Specs[i].end_year
           n == YearCount(i)
           s == BigLuckPeriod(Specs, i).years
<1>1. /\ Specs[i].start \in Int /\ Specs[i].end \in Int /\ birth <= Specs[i].start /\ Specs[i].end <= End
      /\ a = flow_year_for_datetime(Specs[i].start) /\ b = flow_year_for_datetime(Specs[i].end - 1)
      /\ birth \in Int /\ End \in Int
  BY SpecsAre DEF IsChart
<1>2. a \in Years /\ b \in Years /\ a \in Int /\ b \in Int
  <2>1. Specs[i].start \in (birth - 1)..End /\ Specs[i].end - 1 \in (birth - 1)..End
    BY <1>1
  <2> DEFINE v == Specs[i].end - 1
  <2>2. a \in Years
    <3>1. \A w \in (birth - 1)..End : flow_year_for_datetime(w) \in Years
      BY FlowYearOf
    <3> QED BY <1>1, <2>1, <3>1
  <2>3. b \in Years
    <3>1. \A w \in (birth - 1)..End : flow_year_for_datetime(w) \in Years
      BY FlowYearOf
    <3> QED BY <1>1, <2>1, <3>1
  <2> QED BY <2>2, <2>3, FlowYearStarts
<1>3. a <= b
  <2>1. \A w \in (birth - 1)..End : LET z == flow_year_for_datetime(w)
           IN z \in Years /\ z + 1 \in Years /\ FlowYearStart(z) <= w /\ w < FlowYearStart(z + 1)
    BY FlowYearOf
  <2>2. Specs[i].start \in (birth - 1)..End /\ Specs[i].end - 1 \in (birth - 1)..End
    BY <1>1
  <2>3. FlowYearStart(a) <= Specs[i].start /\ Specs[i].end - 1 < FlowYearStart(b + 1) /\ b + 1 \in Years
    BY <1>1, <2>1, <2>2
  <2>4. FlowYearStart(a) \in Int /\ FlowYearStart(b + 1) \in Int /\ FlowYearStart(a) < FlowYearStart(b + 1)
    BY <1>1, <1>2, <2>3, FlowYearStarts
  <2>5. ~(b + 1 < a)
    <3>1. b + 1 < a => FlowYearStart(b + 1) < FlowYearStart(a)
      BY <1>2, <2>3, FlowYearStarts
    <3> QED BY <2>4, <3>1
  <2>6. b + 1 # a
    BY <2>4
  <2> QED BY <1>2, <2>5, <2>6
<1>4. n \in Nat \ {0} /\ n = b - a + 1
  BY <1>2, <1>3 DEF YearCount
<1>5. s = [k \in 1..n |-> YearAt(i, k)]
  BY DEF BigLuckPeriod, YearAt, YearCount, FirstYear
<1>6. \A k \in 1..n :
         LET y == a + k - 1
         IN /\ y \in a..b
            /\ k = 1 => y = a
            /\ k = n => y = b
            /\ k # n => y # b /\ y + 1 = a + (k + 1) - 1
  BY <1>2, <1>4
<1>7. \A y \in a..b :
         /\ IsSegment(i, y)
         /\ y = a => From(i, y) = Specs[i].start
         /\ y = b => To(i, y) = Specs[i].end
         /\ y # a => From(i, y) = FlowYearStart(y)
         /\ y # b => To(i, y) = FlowYearStart(y + 1)
  BY YearsOfPeriod DEF IsSegment, From, To
<1>8. \A k \in 1..n : /\ YearAt(i, k).year = a + k - 1 /\ YearAt(i, k).start = From(i, a + k - 1)
                      /\ YearAt(i, k).end = To(i, a + k - 1)
  BY DEF YearAt, annual_fortune, From, To, FirstYear
<1> HIDE DEF a, b, n, s, YearAt
<1>9. \A k \in 1..n : s[k] = YearAt(i, k)
  BY <1>5
<1>10. s = [k \in 1..n |-> s[k]]
  BY <1>5
<1>11. s[1].start = Specs[i].start /\ s[n].end = Specs[i].end
  <2>1. 1 \in 1..n /\ n \in 1..n
    BY <1>4
  <2>2. a + 1 - 1 = a /\ a + n - 1 = b /\ a \in a..b /\ b \in a..b
    BY <1>2, <1>3, <1>4
  <2>3. s[1].start = From(i, a) /\ s[n].end = To(i, b)
    BY <1>8, <1>9, <2>1, <2>2
  <2> QED BY <1>7, <2>2, <2>3
<1>12. \A k \in 1..n : s[k].start < s[k].end
  BY <1>6, <1>7, <1>8, <1>9 DEF IsSegment
<1>13. \A k \in 1..(n - 1) : s[k].end = s[k + 1].start
  <2> TAKE k \in 1..(n - 1)
  <2>1. k \in 1..n /\ k + 1 \in 1..n /\ k # n
    BY <1>4
  <2> DEFINE y == a + k - 1
  <2>2. y \in a..b /\ y # b /\ y + 1 = a + (k + 1) - 1 /\ y + 1 \in a..b /\ y + 1 # a
    <3>1. y \in a..b /\ y # b /\ y + 1 = a + (k + 1) - 1
      BY <1>6, <2>1
    <3>2. a + (k + 1) - 1 \in a..b
      BY <1>6, <2>1
    <3>3. y + 1 # a
      BY <1>2, <2>1
    <3> QED BY <3>1, <3>2, <3>3
  <2>3. s[k].end = To(i, y) /\ s[k + 1].start = From(i, y + 1)
    BY <1>8, <1>9, <2>1, <2>2
  <2> HIDE DEF y
  <2>4. To(i, y) = FlowYearStart(y + 1) /\ From(i, y + 1) = FlowYearStart(y + 1)
    BY <1>7, <2>2
  <2> QED BY <2>3, <2>4
<1>14. Tiles(s, Specs[i].start, Specs[i].end)
  BY <1>4, <1>10, <1>11, <1>12, <1>13, Tiling
<1>15. FirstYear(i) = a
  BY DEF FirstYear, a
<1> QED BY <1>2, <1>4, <1>5, <1>6, <1>7, <1>8, <1>14, <1>15 DEF a, b, n, s

\* A period that is over as it begins has a year only if that year is cut there.
LEMMA EmptyPeriod ==
    ASSUME IsChart, luck = birth
    PROVE  LET years == BigLuckPeriod(Specs, 0).years
           IN IF birth = FlowYearStart(flow_year_for_datetime(birth)) THEN years = <<>>
              ELSE \E k \in DOMAIN years : years[k].start >= years[k].end
<1> DEFINE a == Specs[0].start_year
           b == Specs[0].end_year
           years == BigLuckPeriod(Specs, 0).years
<1>1. /\ Specs[0].start = birth /\ Specs[0].end = birth
      /\ a = flow_year_for_datetime(birth) /\ b = flow_year_for_datetime(birth - 1)
      /\ birth \in Int /\ birth <= End /\ End \in Int
  <2>1. Specs[0].start = birth /\ Specs[0].end = luck /\ 0 \in 0..Last0
    BY SpecsAre DEF Last0
  <2> QED BY <2>1, SpecsAre DEF IsChart
<1>2. \A v \in (birth - 1)..End : LET z == flow_year_for_datetime(v)
         IN /\ z \in Years /\ z + 1 \in Years /\ FlowYearStart(z) <= v /\ v < FlowYearStart(z + 1)
            /\ \A w \in Years : w + 1 \in Years /\ FlowYearStart(w) <= v /\ v < FlowYearStart(w + 1) => w = z
  BY FlowYearOf
<1>3. birth \in (birth - 1)..End /\ birth - 1 \in (birth - 1)..End
  BY <1>1
<1>4. /\ a \in Years /\ a + 1 \in Years /\ FlowYearStart(a) <= birth /\ birth < FlowYearStart(a + 1)
      /\ b \in Years /\ b + 1 \in Years /\ FlowYearStart(b) <= birth - 1 /\ birth - 1 < FlowYearStart(b + 1)
      /\ \A w \in Years : w + 1 \in Years /\ FlowYearStart(w) <= birth - 1 /\ birth - 1 < FlowYearStart(w + 1) => w = b
  BY <1>1, <1>2, <1>3
<1>5. years = [k \in 1..(b - a + 1) |-> annual_fortune(Specs, 0, a + k - 1)]
  BY DEF BigLuckPeriod
<1>6. \A y : /\ annual_fortune(Specs, 0, y).start = Later(FlowYearStart(y), birth)
             /\ annual_fortune(Specs, 0, y).end = Earlier(FlowYearStart(y + 1), birth)
  BY <1>1 DEF annual_fortune, SegmentStart
<1> HIDE DEF a, b, years
<1>7. /\ a \in Int /\ b \in Int /\ FlowYearStart(a) \in Int /\ FlowYearStart(b) \in Int
      /\ FlowYearStart(a + 1) \in Int /\ FlowYearStart(b + 1) \in Int
      /\ \A y, z \in Years : y < z => FlowYearStart(y) < FlowYearStart(z)
  BY <1>4, FlowYearStarts
<1>8. CASE birth = FlowYearStart(a)
  <2>1. FlowYearStart(b) < FlowYearStart(a)
    BY <1>1, <1>4, <1>7, <1>8
  <2>2. b < a
    BY <1>4, <1>7, <2>1
  <2>3. b - a + 1 \in Int /\ b - a + 1 <= 0
    BY <1>7, <2>2
  <2>4. 1..(b - a + 1) = 1..0
    BY <2>3
  <2>5. years = [k \in 1..0 |-> annual_fortune(Specs, 0, a + k - 1)]
    BY <1>5, <2>4
  <2>6. years = [k \in 1..0 |-> years[k]]
    BY <2>5
  <2>7. years = <<>>
    <3>1. 0 \in Nat
      OBVIOUS
    <3> QED BY <2>6, <3>1, SegmentsAre
  <2> QED BY <1>1, <1>8, <2>7 DEF a, years
<1>9. CASE birth # FlowYearStart(a)
  <2>1. a = b
    BY <1>1, <1>4, <1>7, <1>9
  <2>2. b - a + 1 = 1 /\ a + 1 - 1 = a
    BY <1>7, <2>1
  <2>3. DOMAIN years = 1..1 /\ 1 \in 1..1
    BY <1>5, <2>2
  <2>4. years[1] = annual_fortune(Specs, 0, a)
    BY <1>5, <2>2, <2>3
  <2>5. years[1].start = Later(FlowYearStart(a), birth) /\ years[1].end = Earlier(FlowYearStart(a + 1), birth)
    BY <1>6, <2>4
  <2>6. years[1].start >= years[1].end
    BY <1>1, <1>4, <1>7, <2>5 DEF Later, Earlier
  <2> QED BY <1>1, <1>9, <2>3, <2>6 DEF a, years
<1> QED BY <1>8, <1>9

\* The periods that calculate_fortune_cycles makes, and the year that stops it.
Periods == [i \in 1..FORTUNE_BIG_LUCK_PERIODS |-> BigLuckPeriod(Specs, i - 1)]
HasCutYear ==
    \E i \in DOMAIN Periods : \E k \in DOMAIN Periods[i].years :
        Periods[i].years[k].start >= Periods[i].years[k].end
Lasts(i) == Specs[i].start < Specs[i].end

LEMMA PeriodsAre ==
    ASSUME IsChart
    PROVE  /\ \A p \in 1..FORTUNE_BIG_LUCK_PERIODS :
                 /\ p - 1 \in 0..Last0 /\ Periods[p] = BigLuckPeriod(Specs, p - 1)
                 /\ Periods[p].index = p - 1
                 /\ Periods[p].start = Specs[p - 1].start /\ Periods[p].end = Specs[p - 1].end
           /\ \A i \in 0..Last0 : Lasts(i) \/ (i = 0 /\ luck = birth)
           /\ luck # birth => Lasts(0)
           /\ FORTUNE_BIG_LUCK_PERIODS \in Nat \ {0} /\ Last0 + 1 = FORTUNE_BIG_LUCK_PERIODS
<1>1. FORTUNE_BIG_LUCK_PERIODS \in Nat \ {0} /\ CivilYear \in Nat \ {0} /\ birth \in Int /\ luck \in Int /\ birth <= luck
  BY FortuneAssumption DEF IsChart
<1>2. Last0 \in Nat /\ Last0 + 1 = FORTUNE_BIG_LUCK_PERIODS
  BY <1>1 DEF Last0
<1>3. \A p \in 1..FORTUNE_BIG_LUCK_PERIODS : p - 1 \in 0..Last0
  BY <1>2
<1>4. \A p \in 1..FORTUNE_BIG_LUCK_PERIODS :
         /\ Periods[p] = BigLuckPeriod(Specs, p - 1)
         /\ BigLuckPeriod(Specs, p - 1).index = p - 1
         /\ BigLuckPeriod(Specs, p - 1).start = Specs[p - 1].start
         /\ BigLuckPeriod(Specs, p - 1).end = Specs[p - 1].end
  BY DEF Periods, BigLuckPeriod
<1>5. ASSUME NEW i \in 0..Last0 PROVE Lasts(i) \/ (i = 0 /\ luck = birth)
  <2>1. CASE i # 0
    <3>1. Specs[i].start \in Int /\ Specs[i].end \in Int /\ Specs[i].start + 2 * CivilYear <= Specs[i].end
      BY <2>1, SpecsAre
    <3> QED BY <1>1, <3>1 DEF Lasts
  <2>2. CASE i = 0
    <3>1. Specs[0].start = birth /\ Specs[0].end = luck
      BY SpecsAre
    <3> QED BY <1>1, <2>2, <3>1 DEF Lasts
  <2> QED BY <2>1, <2>2
<1>6. luck # birth => Lasts(0)
  <2>1. 0 \in 0..Last0
    BY <1>2
  <2> QED BY <1>5, <2>1
<1> QED BY <1>1, <1>2, <1>3, <1>4, <1>5, <1>6

LEMMA CutYears ==
    ASSUME IsChart
    PROVE  HasCutYear <=> (luck = birth /\ birth # FlowYearStart(flow_year_for_datetime(birth)))
<1> DEFINE N == FORTUNE_BIG_LUCK_PERIODS
           cut(p) == \E k \in DOMAIN Periods[p].years : Periods[p].years[k].start >= Periods[p].years[k].end
<1>1. /\ \A p \in 1..N : p - 1 \in 0..Last0 /\ Periods[p] = BigLuckPeriod(Specs, p - 1)
      /\ \A i \in 0..Last0 : Lasts(i) \/ (i = 0 /\ luck = birth)
      /\ luck # birth => Lasts(0)
      /\ N \in Nat \ {0}
  BY PeriodsAre
<1>2. ASSUME NEW p \in 1..N, Lasts(p - 1) PROVE ~cut(p)
  <2> DEFINE i == p - 1
             s == Periods[p].years
  <2>1. i \in 0..Last0 /\ Specs[i].start < Specs[i].end /\ s = BigLuckPeriod(Specs, i).years
    BY <1>1, <1>2 DEF Lasts
  <2> HIDE DEF i, s
  <2>2. YearCount(i) \in Nat \ {0} /\ s = [k \in 1..YearCount(i) |-> YearAt(i, k)]
        /\ \A k \in 1..YearCount(i) :
              LET y == FirstYear(i) + k - 1
              IN IsSegment(i, y) /\ YearAt(i, k).start = From(i, y) /\ YearAt(i, k).end = To(i, y)
    BY <2>1, YearsTile
  <2> HIDE DEF YearAt
  <2>3. DOMAIN s = 1..YearCount(i) /\ \A k \in 1..YearCount(i) : s[k] = YearAt(i, k)
    BY <2>2
  <2>4. ASSUME NEW k \in DOMAIN s PROVE ~(s[k].start >= s[k].end)
    <3> DEFINE y == FirstYear(i) + k - 1
    <3>1. IsSegment(i, y) /\ s[k].start = From(i, y) /\ s[k].end = To(i, y)
      BY <2>2, <2>3
    <3> HIDE DEF y
    <3> QED BY <3>1 DEF IsSegment
  <2> QED BY <2>4 DEF s
<1>3. HasCutYear <=> \E p \in 1..N : cut(p)
  BY DEF HasCutYear, Periods
<1>4. 1 \in 1..N /\ 1 - 1 = 0
  BY <1>1
<1> HIDE DEF cut, N
<1>5. HasCutYear <=> ~Lasts(0) /\ luck = birth /\ cut(1)
  <2>1. ASSUME NEW p \in 1..N, cut(p) PROVE p = 1 /\ ~Lasts(0) /\ luck = birth
    <3>1. ~Lasts(p - 1)
      BY <1>2, <2>1
    <3>2. p - 1 = 0 /\ luck = birth
      BY <1>1, <3>1
    <3>3. p = 1
      BY <3>2
    <3> QED BY <3>1, <3>2, <3>3, <1>4
  <2> QED BY <1>3, <1>4, <2>1
<1>6. CASE luck # birth
  BY <1>5, <1>6
<1>7. CASE luck = birth
  <2>1. ~Lasts(0)
    <3>1. Specs[0].start = birth /\ Specs[0].end = luck /\ birth \in Int
      BY SpecsAre DEF IsChart
    <3> QED BY <1>7, <3>1 DEF Lasts
  <2>2. Periods[1].years = BigLuckPeriod(Specs, 0).years
    BY <1>1, <1>4
  <2>3. cut(1) <=> birth # FlowYearStart(flow_year_for_datetime(birth))
    <3> DEFINE s == Periods[1].years
    <3>1. IF birth = FlowYearStart(flow_year_for_datetime(birth)) THEN s = <<>>
          ELSE \E k \in DOMAIN s : s[k].start >= s[k].end
      BY <1>7, <2>2, EmptyPeriod
    <3>2. s = <<>> => DOMAIN s = {}
      OBVIOUS
    <3>3. cut(1) <=> \E k \in DOMAIN s : s[k].start >= s[k].end
      BY DEF cut
    <3> HIDE DEF s
    <3> QED BY <3>1, <3>2, <3>3
  <2> QED BY <1>5, <1>7, <2>1, <2>3
<1> QED BY <1>6, <1>7

\* What is known of a timeline that was calculated: its years are those of the
\* periods that last, and nothing else.
IsCalculated == outcome = "done" /\ IsChart /\ ~HasCutYear /\ timeline = Periods

LEMMA YearsOfTimeline ==
    ASSUME IsCalculated, NEW p \in DOMAIN timeline
    PROVE  /\ p \in 1..FORTUNE_BIG_LUCK_PERIODS /\ p - 1 \in 0..Last0
           /\ timeline[p].start = Specs[p - 1].start /\ timeline[p].end = Specs[p - 1].end
           /\ timeline[p].years = BigLuckPeriod(Specs, p - 1).years
           /\ timeline[p].years # <<>> => Lasts(p - 1)
           /\ Tiles(timeline[p].years, timeline[p].start, timeline[p].end)
<1> DEFINE i == p - 1
<1>1. p \in 1..FORTUNE_BIG_LUCK_PERIODS /\ timeline = Periods
  BY DEF IsCalculated, Periods
<1>2. /\ i \in 0..Last0 /\ timeline[p] = BigLuckPeriod(Specs, i)
      /\ timeline[p].start = Specs[i].start /\ timeline[p].end = Specs[i].end
      /\ (Lasts(i) \/ (i = 0 /\ luck = birth))
  BY <1>1, PeriodsAre DEF IsCalculated
<1> HIDE DEF i
<1>3. CASE Lasts(i)
  <2>1. Tiles(BigLuckPeriod(Specs, i).years, Specs[i].start, Specs[i].end)
    BY <1>2, <1>3, YearsTile DEF IsCalculated, Lasts
  <2> QED BY <1>1, <1>2, <1>3, <2>1 DEF i
<1>4. CASE ~Lasts(i)
  <2>1. i = 0 /\ luck = birth
    BY <1>2, <1>4
  <2>2. birth = FlowYearStart(flow_year_for_datetime(birth))
    BY <2>1, CutYears DEF IsCalculated
  <2>3. BigLuckPeriod(Specs, 0).years = <<>>
    BY <2>1, <2>2, EmptyPeriod DEF IsCalculated
  <2>4. Specs[0].start = birth /\ Specs[0].end = luck
    BY SpecsAre DEF IsCalculated
  <2> QED BY <1>1, <1>2, <2>1, <2>3, <2>4 DEF i, Tiles
<1> QED BY <1>3, <1>4

\* A year of the timeline is the segment of a flow year, and its months tile it.
LEMMA YearOfTimeline ==
    ASSUME IsCalculated, NEW p \in DOMAIN timeline, NEW k \in DOMAIN timeline[p].years
    PROVE  LET i == p - 1
               y == timeline[p].years[k].year
           IN /\ i \in 0..Last0 /\ Lasts(i) /\ IsSegment(i, y)
              /\ timeline[p].years[k] = annual_fortune(Specs, i, y)
              /\ timeline[p].years[k].start = From(i, y) /\ timeline[p].years[k].end = To(i, y)
              /\ Tiles(timeline[p].years[k].months, From(i, y), To(i, y))
<1> DEFINE i == p - 1
           s == timeline[p].years
<1>1. i \in 0..Last0 /\ s = BigLuckPeriod(Specs, i).years /\ (s # <<>> => Lasts(i)) /\ IsChart
  BY YearsOfTimeline DEF IsCalculated
<1>2. s # <<>>
  <2>1. k \in DOMAIN s
    OBVIOUS
  <2> HIDE DEF s
  <2> QED BY <2>1
<1> HIDE DEF i, s
<1>3. YearCount(i) \in Nat \ {0} /\ s = [j \in 1..YearCount(i) |-> YearAt(i, j)]
      /\ \A j \in 1..YearCount(i) :
            LET y == FirstYear(i) + j - 1
            IN IsSegment(i, y) /\ YearAt(i, j).year = y /\ YearAt(i, j).start = From(i, y) /\ YearAt(i, j).end = To(i, y)
  BY <1>1, <1>2, YearsTile DEF Lasts
<1> DEFINE y == FirstYear(i) + k - 1
<1>4. k \in 1..YearCount(i)
  BY <1>3 DEF s
<1>5. s[k] = YearAt(i, k)
  <2> HIDE DEF YearAt
  <2> QED BY <1>3, <1>4
<1>6. IsSegment(i, y) /\ s[k].year = y /\ s[k].start = From(i, y) /\ s[k].end = To(i, y)
  <2> HIDE DEF YearAt
  <2> QED BY <1>3, <1>4, <1>5
<1>7. s[k] = annual_fortune(Specs, i, y)
  BY <1>5 DEF YearAt
<1> HIDE DEF y
<1>8. Tiles(annual_fortune(Specs, i, y).months, From(i, y), To(i, y))
  BY <1>1, <1>6, MonthsTile
<1> QED BY <1>1, <1>2, <1>6, <1>7, <1>8 DEF i, s

LEMMA PeriodsFollow ==
    ASSUME IsCalculated
    PROVE  LET N == FORTUNE_BIG_LUCK_PERIODS
           IN /\ timeline = [p \in 1..N |-> timeline[p]] /\ N \in Nat \ {0}
              /\ \A p \in 1..N : p # 1 => timeline[p].start < timeline[p].end
              /\ luck # birth => timeline[1].start < timeline[1].end
              /\ \A p \in 1..(N - 1) : timeline[p].end = timeline[p + 1].start
              /\ timeline[1].start = birth /\ timeline[1].end = luck /\ timeline[N].end = End
<1> DEFINE N == FORTUNE_BIG_LUCK_PERIODS
<1>1. /\ timeline = [p \in 1..N |-> timeline[p]] /\ N \in Nat \ {0} /\ Last0 + 1 = N /\ Last0 \in Nat
      /\ \A p \in 1..N : p - 1 \in 0..Last0 /\ timeline[p].start = Specs[p - 1].start /\ timeline[p].end = Specs[p - 1].end
      /\ \A i \in 0..Last0 : Lasts(i) \/ (i = 0 /\ luck = birth)
  <2>1. timeline = Periods /\ Periods = [p \in 1..N |-> Periods[p]]
    BY DEF IsCalculated, Periods
  <2>2. Last0 \in Nat
    BY PeriodsAre DEF IsCalculated, Last0
  <2> QED BY <2>1, <2>2, PeriodsAre DEF IsCalculated
<1>2. /\ Specs[0].start = birth /\ Specs[0].end = luck /\ Specs[Last0].end = End
      /\ \A i \in 0..(Last0 - 1) : Specs[i].end = Specs[i + 1].start
  BY SpecsAre DEF IsCalculated
<1> HIDE DEF N
<1>3. \A p \in 1..N : p # 1 => timeline[p].start < timeline[p].end
  <2> TAKE p \in 1..N
  <2>1. p # 1 => p - 1 # 0
    BY <1>1
  <2> QED BY <1>1, <2>1 DEF Lasts
<1>4. \A p \in 1..(N - 1) : timeline[p].end = timeline[p + 1].start
  <2> TAKE p \in 1..(N - 1)
  <2>1. p \in 1..N /\ p + 1 \in 1..N /\ p - 1 \in 0..(Last0 - 1) /\ (p + 1) - 1 = (p - 1) + 1
    BY <1>1
  <2>2. timeline[p].end = Specs[p - 1].end /\ timeline[p + 1].start = Specs[(p + 1) - 1].start
    BY <1>1, <2>1
  <2>3. Specs[p - 1].end = Specs[(p - 1) + 1].start
    BY <1>2, <2>1
  <2> QED BY <2>1, <2>2, <2>3
<1>5. timeline[1].start = birth /\ timeline[1].end = luck /\ timeline[N].end = End
  <2>1. 1 \in 1..N /\ N \in 1..N /\ 1 - 1 = 0 /\ N - 1 = Last0
    BY <1>1
  <2> QED BY <1>1, <1>2, <2>1
<1>6. luck # birth => timeline[1].start < timeline[1].end
  <2>1. luck # birth => Lasts(0)
    BY <1>1
  <2> QED BY <1>2, <1>5, <2>1 DEF Lasts
<1> QED BY <1>1, <1>3, <1>4, <1>5, <1>6 DEF N

LEMMA TilesAll ==
    ASSUME IsCalculated
    PROVE  TimelineTiles
<1> DEFINE N == FORTUNE_BIG_LUCK_PERIODS
           tail == IF luck = birth THEN Tail(timeline) ELSE timeline
<1>1. timeline = [p \in 1..N |-> timeline[p]] /\ N \in Nat \ {0}
  BY PeriodsFollow
<1>3. \A p \in 1..N : p # 1 => timeline[p].start < timeline[p].end
  BY PeriodsFollow
<1>4. \A p \in 1..(N - 1) : timeline[p].end = timeline[p + 1].start
  BY PeriodsFollow
<1>5. timeline[1].start = birth /\ timeline[1].end = luck /\ timeline[N].end = End
  BY PeriodsFollow
<1>2. luck # birth => timeline[1].start < timeline[1].end
  BY PeriodsFollow
<1> HIDE DEF N
<1>6. Tiles(tail, birth, End)
  <2>1. CASE luck # birth
    <3>1. timeline[1].start < timeline[1].end
      BY <1>2, <2>1
    <3>2. \A p \in 1..N : timeline[p].start < timeline[p].end
      BY <1>3, <3>1
    <3>3. Tiles(timeline, birth, End)
      BY <1>1, <1>4, <1>5, <3>2, Tiling
    <3> QED BY <2>1, <3>3
  <2>2. CASE luck = birth
    <3> DEFINE s == Tail(timeline)
    <3>1. /\ N - 1 \in Nat /\ s = [k \in 1..(N - 1) |-> s[k]]
          /\ \A k \in 1..(N - 1) : s[k] = timeline[k + 1]
      BY <1>1, SegmentsAre
    <3> HIDE DEF s
    <3>2. CASE N = 1
      <4>1. s = <<>>
        BY <3>1, <3>2, SegmentsAre
      <4>2. birth = End
        BY <1>5, <2>2, <3>2
      <4> QED BY <2>2, <4>1, <4>2 DEF Tiles, s
    <3>3. CASE N # 1
      <4> DEFINE n == N - 1
      <4>1. n \in Nat \ {0} /\ n + 1 = N /\ 1 \in 1..n /\ n \in 1..n
        BY <1>1, <3>3
      <4>2. s[1].start = birth /\ s[n].end = End
        <5>1. s[1] = timeline[2] /\ s[n] = timeline[N] /\ 1 \in 1..(N - 1) /\ 1 + 1 = 2
          BY <3>1, <4>1
        <5>2. timeline[2].start = luck
          BY <1>4, <1>5, <5>1
        <5> QED BY <1>5, <2>2, <5>1, <5>2
      <4>3. \A k \in 1..n : s[k].start < s[k].end
        <5> TAKE k \in 1..n
        <5>1. s[k] = timeline[k + 1] /\ k + 1 \in 1..N /\ k + 1 # 1
          BY <3>1, <4>1
        <5> QED BY <1>3, <5>1
      <4>4. \A k \in 1..(n - 1) : s[k].end = s[k + 1].start
        <5> TAKE k \in 1..(n - 1)
        <5>1. k \in 1..n /\ k + 1 \in 1..n /\ k + 1 \in 1..(N - 1)
          BY <4>1
        <5>2. s[k] = timeline[k + 1] /\ s[k + 1] = timeline[(k + 1) + 1]
          BY <3>1, <5>1
        <5> QED BY <1>4, <5>1, <5>2
      <4>5. s = [k \in 1..n |-> s[k]]
        BY <3>1
      <4> HIDE DEF n
      <4>6. Tiles(s, birth, End)
        BY <4>1, <4>2, <4>3, <4>4, <4>5, Tiling
      <4> QED BY <2>2, <4>6 DEF s
    <3> QED BY <3>2, <3>3
  <2> QED BY <2>1, <2>2
<1>7. \A p \in DOMAIN timeline :
         /\ Tiles(timeline[p].years, timeline[p].start, timeline[p].end)
         /\ \A k \in DOMAIN timeline[p].years :
               LET year == timeline[p].years[k] IN Tiles(year.months, year.start, year.end)
  <2> TAKE p \in DOMAIN timeline
  <2>1. Tiles(timeline[p].years, timeline[p].start, timeline[p].end)
    BY YearsOfTimeline
  <2>2. ASSUME NEW k \in DOMAIN timeline[p].years
        PROVE  LET year == timeline[p].years[k] IN Tiles(year.months, year.start, year.end)
    BY YearOfTimeline
  <2> QED BY <2>1, <2>2
<1> QED BY <1>6, <1>7 DEF TimelineTiles

\* What is clipped of month m of year y in period i.
IsMonth(i, y, m) ==
    /\ IsSegment(i, y) /\ m \in 1..12
    /\ MonthFrom(i, y, m) \in Int /\ MonthTo(i, y, m) \in Int /\ MonthFrom(i, y, m) < MonthTo(i, y, m)
    /\ From(i, y) <= MonthFrom(i, y, m) /\ MonthTo(i, y, m) <= To(i, y)
    /\ calendar[y][m] <= MonthFrom(i, y, m) /\ MonthTo(i, y, m) <= MonthEnd(y, m)

LEMMA MonthOfTimeline ==
    ASSUME IsCalculated, NEW p \in DOMAIN timeline, NEW k \in DOMAIN timeline[p].years,
           NEW j \in DOMAIN timeline[p].years[k].months
    PROVE  LET y == timeline[p].years[k].year
               month == timeline[p].years[k].months[j]
           IN month.index \in 1..12 /\ IsMonth(p - 1, y, month.index) /\ month = Month(p - 1, y, month.index)
<1> DEFINE i == p - 1
           y == timeline[p].years[k].year
           s == timeline[p].years[k].months
<1>1. IsSegment(i, y) /\ s = annual_fortune(Specs, i, y).months /\ IsChart
  BY YearOfTimeline DEF IsCalculated
<1>2. j \in DOMAIN s
  OBVIOUS
<1> HIDE DEF i, y, s
<1>3. PICK a, b \in 1..12 : HasMonths(i, y, a, b)
  BY <1>1, MonthsOfSegment
<1> DEFINE m == a + j - 1
<1>4. s = [q \in 1..(b - a + 1) |-> Month(i, y, a + q - 1)]
  BY <1>1, <1>3 DEF HasMonths
<1>5. j \in 1..(b - a + 1)
  BY <1>2, <1>4
<1>6. m \in a..b /\ m \in 1..12
  BY <1>5
<1>7. s[j] = Month(i, y, m)
  <2> HIDE DEF Month
  <2> QED BY <1>4, <1>5
<1>8. s[j].index = m
  BY <1>7 DEF Month, monthly_fortune
<1> HIDE DEF m
<1>9. IsMonth(i, y, m)
  BY <1>1, <1>3, <1>6 DEF HasMonths, IsMonth
<1> QED BY <1>6, <1>7, <1>8, <1>9 DEF i, y, s

\* A month that begins when another ends is its rest, or the month that follows.
LEMMA NextMonth ==
    ASSUME IsChart, NEW i, NEW y, NEW m, NEW j, NEW z, NEW n, IsMonth(i, y, m), IsMonth(j, z, n),
           MonthTo(i, y, m) = MonthFrom(j, z, n)
    PROVE  \/ z = y /\ n = m
           \/ z = y /\ n = m + 1
           \/ z = y + 1 /\ m = 12 /\ n = 1
<1> DEFINE t == MonthTo(i, y, m)
           F(x) == FlowYearStart(x)
<1>1. /\ y \in Years /\ y + 1 \in Years /\ z \in Years /\ z + 1 \in Years /\ m \in 1..12 /\ n \in 1..12
      /\ t \in Int /\ MonthFrom(i, y, m) \in Int /\ MonthTo(j, z, n) \in Int
      /\ calendar[y][m] <= MonthFrom(i, y, m) /\ MonthFrom(i, y, m) < t /\ t <= MonthEnd(y, m)
      /\ calendar[z][n] <= t /\ t < MonthTo(j, z, n) /\ MonthTo(j, z, n) <= MonthEnd(z, n)
  BY DEF IsMonth, IsSegment
<1>2. \A x \in {y, z} :
         /\ calendar[x][1] = F(x) /\ MonthEnd(x, 12) = F(x + 1)
         /\ \A a \in 1..12 : /\ calendar[x][a] \in Int /\ MonthEnd(x, a) \in Int /\ calendar[x][a] < MonthEnd(x, a)
                             /\ F(x) <= calendar[x][a] /\ MonthEnd(x, a) <= F(x + 1)
         /\ \A a \in 1..11 : MonthEnd(x, a) = calendar[x][a + 1]
         /\ \A a, b \in 1..12 : a < b => MonthEnd(x, a) <= calendar[x][b]
  <2>1. y \in Years /\ y + 1 \in Years /\ z \in Years /\ z + 1 \in Years
    BY <1>1
  <2> QED BY <2>1, MonthsOfYear
<1>3. /\ y \in Int /\ z \in Int /\ F(y) \in Int /\ F(z) \in Int /\ F(y + 1) \in Int /\ F(z + 1) \in Int
      /\ \A x, w \in Years : x < w => F(x) < F(w)
  BY <1>1, FlowYearStarts
<1> HIDE DEF t, F
<1>4. calendar[y][m] < t /\ t <= MonthEnd(y, m) /\ calendar[z][n] <= t /\ t < MonthEnd(z, n)
  BY <1>1, <1>2
<1>5. F(y) < t /\ t <= F(y + 1) /\ F(z) <= t /\ t < F(z + 1)
  BY <1>1, <1>2, <1>3, <1>4
<1>6. z = y \/ z = y + 1
  <2>1. ~(z < y)
    <3>1. ASSUME z < y PROVE FALSE
      <4>1. z + 1 = y \/ F(z + 1) < F(y)
        BY <1>1, <1>3, <3>1
      <4> QED BY <1>1, <1>3, <1>5, <4>1
    <3> QED BY <3>1
  <2>2. ~(y + 1 < z)
    <3>1. ASSUME y + 1 < z PROVE FALSE
      <4>1. F(y + 1) < F(z)
        BY <1>1, <1>3, <3>1
      <4> QED BY <1>1, <1>3, <1>5, <4>1
    <3> QED BY <3>1
  <2> QED BY <1>3, <2>1, <2>2
<1>7. CASE z = y
  <2>1. ~(n < m)
    <3>1. n < m => MonthEnd(y, n) <= calendar[y][m]
      BY <1>1, <1>2
    <3> QED BY <1>1, <1>2, <1>4, <1>7, <3>1
  <2>2. ~(m + 1 < n)
    <3>1. ASSUME m + 1 < n PROVE FALSE
      <4>1. m \in 1..11 /\ m + 1 \in 1..12
        BY <1>1, <3>1
      <4>2. MonthEnd(y, m) = calendar[y][m + 1] /\ MonthEnd(y, m + 1) <= calendar[y][n]
        BY <1>1, <1>2, <3>1, <4>1
      <4>3. calendar[y][m + 1] < MonthEnd(y, m + 1) /\ calendar[y][m + 1] \in Int /\ MonthEnd(y, m + 1) \in Int
            /\ calendar[y][n] \in Int
        BY <1>1, <1>2, <4>1
      <4> QED BY <1>1, <1>4, <1>7, <4>2, <4>3
    <3> QED BY <3>1
  <2> QED BY <1>1, <1>7, <2>1, <2>2
<1>8. CASE z = y + 1
  <2>1. t = F(y + 1)
    BY <1>1, <1>3, <1>5, <1>8
  <2>2. m = 12
    <3>1. ASSUME m # 12 PROVE FALSE
      <4>1. m \in 1..11 /\ m + 1 \in 1..12
        BY <1>1, <3>1
      <4>2. MonthEnd(y, m) = calendar[y][m + 1] /\ calendar[y][m + 1] < MonthEnd(y, m + 1)
            /\ MonthEnd(y, m + 1) <= F(y + 1) /\ calendar[y][m + 1] \in Int /\ MonthEnd(y, m + 1) \in Int
        BY <1>2, <4>1
      <4> QED BY <1>1, <1>3, <1>4, <2>1, <4>2
    <3> QED BY <3>1
  <2>3. n = 1
    <3>1. ASSUME n # 1 PROVE FALSE
      <4>1. 1 \in 1..12 /\ 1 < n
        BY <1>1, <3>1
      <4>2. MonthEnd(z, 1) <= calendar[z][n] /\ calendar[z][1] < MonthEnd(z, 1) /\ calendar[z][1] = F(z)
            /\ MonthEnd(z, 1) \in Int /\ calendar[z][n] \in Int
        BY <1>1, <1>2, <4>1
      <4> QED BY <1>1, <1>3, <1>4, <1>8, <2>1, <4>2
    <3> QED BY <3>1
  <2> QED BY <1>8, <2>2, <2>3
<1> QED BY <1>6, <1>7, <1>8

\* The stem of a month by the five-tigers rule follows that of the month before.
LEMMA StemsFollow ==
    ASSUME NEW y \in Int, NEW m \in 1..12
    PROVE  LET f == first_month_gan_index(y)
           IN /\ f \in {0, 2, 4, 6, 8} /\ (f + m - 1) % 10 \in 0..9 /\ (m + 1) % 12 \in 0..11
              /\ ((f + m - 1) % 10) % 2 = ((m + 1) % 12) % 2
              /\ (f + (m + 1) - 1) % 10 = (((f + m - 1) % 10) + 1) % 10
              /\ ((m + 1) + 1) % 12 = (((m + 1) % 12) + 1) % 12
              /\ (first_month_gan_index(y + 1) + 1 - 1) % 10 = (((f + 12 - 1) % 10) + 1) % 10
<1> DEFINE s == (y - 4) % 10
           q == ((y + 1) - 4) % 10
<1>1. s \in 0..9 /\ q = (IF s = 9 THEN 0 ELSE s + 1)
  BY SMT
<1>2. first_month_gan_index(y) = ((s % 5) * 2 + 2) % 10 /\ first_month_gan_index(y + 1) = ((q % 5) * 2 + 2) % 10
  BY DEF first_month_gan_index, YearStem
<1> HIDE DEF s, q
<1>3. /\ first_month_gan_index(y) = (IF s % 5 = 4 THEN 0 ELSE (s % 5) * 2 + 2) /\ s % 5 \in 0..4
      /\ q % 5 = (IF s % 5 = 4 THEN 0 ELSE (s % 5) + 1)
  BY <1>1, <1>2
<1> DEFINE f == first_month_gan_index(y)
           g == first_month_gan_index(y + 1)
           r == s % 5
<1>4. f = (IF r = 4 THEN 0 ELSE r * 2 + 2) /\ r \in 0..4
  BY <1>3
<1>5. g = (IF r = 4 THEN 2 ELSE IF r = 3 THEN 0 ELSE r * 2 + 4)
  BY <1>2, <1>3
<1> HIDE DEF f, g, r
<1>6. f \in {0, 2, 4, 6, 8}
  BY <1>4
<1>7. /\ (f + m - 1) % 10 \in 0..9 /\ (m + 1) % 12 \in 0..11
      /\ ((f + m - 1) % 10) % 2 = ((m + 1) % 12) % 2
      /\ (f + (m + 1) - 1) % 10 = (((f + m - 1) % 10) + 1) % 10
      /\ ((m + 1) + 1) % 12 = (((m + 1) % 12) + 1) % 12
  BY <1>6
<1>8. (g + 1 - 1) % 10 = (((f + 12 - 1) % 10) + 1) % 10
  BY <1>4, <1>5
<1> QED BY <1>6, <1>7, <1>8 DEF f, g

LEMMA MonthsAre ==
    ASSUME IsCalculated, NEW this \in Months
    PROVE  \E i, y : this.index \in 1..12 /\ IsMonth(i, y, this.index) /\ this = Month(i, y, this.index)
<1>1. PICK p \in DOMAIN timeline : this \in UNION {ToSet(year.months) : year \in ToSet(timeline[p].years)}
  BY DEF Months
<1>2. PICK year \in ToSet(timeline[p].years) : this \in ToSet(year.months)
  BY <1>1
<1>3. PICK k \in DOMAIN timeline[p].years : year = timeline[p].years[k]
  BY <1>2 DEF ToSet
<1>4. PICK j \in DOMAIN year.months : this = year.months[j]
  BY <1>2 DEF ToSet
<1>5. j \in DOMAIN timeline[p].years[k].months /\ this = timeline[p].years[k].months[j]
  BY <1>3, <1>4
<1> DEFINE y == timeline[p].years[k].year
<1>6. this.index \in 1..12 /\ IsMonth(p - 1, y, this.index) /\ this = Month(p - 1, y, this.index)
  BY <1>5, MonthOfTimeline
<1> QED BY <1>6

LEMMA MonthFields ==
    ASSUME NEW i, NEW y, NEW m
    PROVE  /\ Month(i, y, m).index = m
           /\ Month(i, y, m).start = MonthFrom(i, y, m) /\ Month(i, y, m).end = MonthTo(i, y, m)
           /\ Month(i, y, m).stem = (first_month_gan_index(y) + m - 1) % 10
           /\ Month(i, y, m).branch = (m + 1) % 12
           /\ Month(i, y, m).phase =
                Phase(Specs, i, calendar[y][m], MonthEnd(y, m), MonthFrom(i, y, m), MonthTo(i, y, m))
  BY DEF Month, monthly_fortune, MonthFrom, MonthTo

LEMMA MonthsAllFollow ==
    ASSUME IsCalculated
    PROVE  MonthsFollowOn
<1> SUFFICES ASSUME NEW this \in Months, NEW next \in Months, this.end = next.start
             PROVE  LET step == IF this.index = next.index THEN 0 ELSE 1
                    IN /\ next.stem = (this.stem + step) % 10 /\ next.branch = (this.branch + step) % 12
                       /\ this.stem % 2 = this.branch % 2
  BY DEF MonthsFollowOn
<1> DEFINE m == this.index
           n == next.index
<1>1. PICK i, y : m \in 1..12 /\ IsMonth(i, y, m) /\ this = Month(i, y, m)
  BY MonthsAre
<1>2. PICK j, z : n \in 1..12 /\ IsMonth(j, z, n) /\ next = Month(j, z, n)
  BY MonthsAre
<1>3. /\ this.end = MonthTo(i, y, m) /\ next.start = MonthFrom(j, z, n)
      /\ this.stem = (first_month_gan_index(y) + m - 1) % 10 /\ this.branch = (m + 1) % 12
      /\ next.stem = (first_month_gan_index(z) + n - 1) % 10 /\ next.branch = (n + 1) % 12
  <2> HIDE DEF m, n
  <2>1. /\ this.end = MonthTo(i, y, m)
        /\ this.stem = (first_month_gan_index(y) + m - 1) % 10 /\ this.branch = (m + 1) % 12
    BY <1>1, MonthFields
  <2>2. /\ next.start = MonthFrom(j, z, n)
        /\ next.stem = (first_month_gan_index(z) + n - 1) % 10 /\ next.branch = (n + 1) % 12
    BY <1>2, MonthFields
  <2> QED BY <2>1, <2>2
<1>4. y \in Int
  <2>1. y \in Years
    BY <1>1 DEF IsMonth, IsSegment
  <2> QED BY <2>1, FlowYearStarts DEF IsCalculated
<1> HIDE DEF m, n
<1>5. \/ z = y /\ n = m
      \/ z = y /\ n = m + 1
      \/ z = y + 1 /\ m = 12 /\ n = 1
  <2>1. MonthTo(i, y, m) = MonthFrom(j, z, n)
    BY <1>3
  <2> QED BY <1>1, <1>2, <2>1, NextMonth DEF IsCalculated
<1> DEFINE f == first_month_gan_index(y)
           stem == (f + m - 1) % 10
           branch == (m + 1) % 12
<1>6. /\ stem \in 0..9 /\ branch \in 0..11 /\ stem % 2 = branch % 2
      /\ (f + (m + 1) - 1) % 10 = (stem + 1) % 10 /\ ((m + 1) + 1) % 12 = (branch + 1) % 12
      /\ (first_month_gan_index(y + 1) + 1 - 1) % 10 = (((f + 12 - 1) % 10) + 1) % 10
  BY <1>1, <1>4, StemsFollow
<1>7. this.stem = stem /\ this.branch = branch
  BY <1>3
<1>8. CASE z = y /\ n = m
  <2>1. next.stem = stem /\ next.branch = branch
    BY <1>3, <1>8
  <2> HIDE DEF stem, branch
  <2>2. (stem + 0) % 10 = stem /\ (branch + 0) % 12 = branch
    BY <1>6
  <2> QED BY <1>6, <1>7, <1>8, <2>1, <2>2 DEF m, n
<1>9. CASE z = y /\ n = m + 1
  <2>1. next.stem = (stem + 1) % 10 /\ next.branch = (branch + 1) % 12
    BY <1>3, <1>6, <1>9
  <2>2. m # n
    BY <1>1, <1>9
  <2> HIDE DEF stem, branch
  <2> QED BY <1>6, <1>7, <2>1, <2>2 DEF m, n
<1>10. CASE z = y + 1 /\ m = 12 /\ n = 1
  <2>1. next.stem = (stem + 1) % 10
    <3>1. next.stem = (first_month_gan_index(y + 1) + 1 - 1) % 10 /\ stem = (f + 12 - 1) % 10
      BY <1>3, <1>10
    <3> HIDE DEF stem
    <3> QED BY <1>6, <3>1
  <2>2. next.branch = 2 /\ branch = 1 /\ (branch + 1) % 12 = 2
    BY <1>3, <1>10
  <2>3. m # n
    BY <1>10
  <2> HIDE DEF stem, branch
  <2> QED BY <1>6, <1>7, <2>1, <2>2, <2>3 DEF m, n
<1> QED BY <1>5, <1>8, <1>9, <1>10

\* A segment is marked "after" when its period begins within the natural interval
\* it was clipped from, and "before" when the next one does.
LEMMA PhaseIs ==
    ASSUME IsChart, NEW i \in 0..Last0, NEW start \in Int, NEW end \in Int, NEW from \in Int, NEW to \in Int,
           start <= from, from < to, to <= end, end < start + 2 * CivilYear, to <= Specs[i].end
    PROVE  /\ Phase(Specs, i, start, end, from, to) = "after" <=> (i # 0 /\ from = Specs[i].start)
           /\ Phase(Specs, i, start, end, from, to) = "before" <=> (i # Last0 /\ to = Specs[i].end /\ to < end)
<1> DEFINE next == transition_in_interval(Specs, start, end)
           within == {j \in DOMAIN Specs \ {0} : start <= Specs[j].start /\ Specs[j].start < end}
           S(j) == Specs[j].start
           D == 1..Last0
<1>1. /\ DOMAIN Specs = 0..Last0 /\ CivilYear \in Nat \ {0}
      /\ \A j \in 0..Last0 : /\ S(j) \in Int /\ Specs[j].end \in Int
                             /\ j # 0 => S(j) + 2 * CivilYear <= Specs[j].end
      /\ \A j, k \in 0..Last0 : j < k => Specs[j].end <= S(k)
      /\ \A j \in 0..(Last0 - 1) : Specs[j].end = S(j + 1)
  BY SpecsAre, FortuneAssumption
<1>2. Last0 \in Nat
  BY FortuneAssumption DEF Last0
<1>3. (DOMAIN Specs) \ {0} = D
  BY <1>1, <1>2
<1>4. within = {j \in D : start <= S(j) /\ S(j) < end}
  BY <1>3
<1>5. next = IF within = {} THEN 0 ELSE CHOOSE j \in within : \A k \in within : j <= k
  BY DEF transition_in_interval
<1>6. Phase(Specs, i, start, end, from, to) =
        IF next # 0 /\ next = i /\ from = S(next) THEN "after"
        ELSE IF next = i + 1 /\ to = S(next) THEN "before" ELSE "none"
  BY DEF Phase
<1> HIDE DEF next, within, S
<1>7. \A j, k \in within : j = k
  <2> SUFFICES ASSUME NEW j \in within, NEW k \in within, j < k PROVE FALSE
    <3>1. \A j \in within : j \in Int
      BY <1>2, <1>4
    <3>2. \A j, k \in within : ~(j < k)
      OBVIOUS
    <3> QED BY <3>1, <3>2
  <2>1. j \in D /\ k \in D /\ start <= S(j) /\ S(k) < end
    BY <1>4
  <2>2. j \in 0..Last0 /\ k \in 0..Last0 /\ j # 0
    BY <1>2, <2>1
  <2>3. S(j) + 2 * CivilYear <= Specs[j].end /\ Specs[j].end <= S(k) /\ S(j) \in Int /\ S(k) \in Int /\ Specs[j].end \in Int
    BY <1>1, <2>2
  <2> QED BY <1>1, <2>1, <2>3
<1>8. \A j \in Int : j # 0 => (next = j <=> j \in within)
  <2>1. CASE within = {}
    BY <1>5, <2>1
  <2>2. CASE within # {}
    <3>4. PICK w \in within : TRUE
      BY <2>2
    <3>1. within = {w}
      BY <1>7, <3>4
    <3>2. w \in Int /\ w <= w
      BY <1>2, <1>4, <3>1
    <3>3. next \in within
      <4>1. \E j \in within : \A k \in within : j <= k
        BY <3>1, <3>2
      <4>2. next = CHOOSE j \in within : \A k \in within : j <= k
        BY <1>5, <2>2
      <4> QED BY <4>1, <4>2
    <3> QED BY <3>1, <3>3
  <2> QED BY <2>1, <2>2
<1>9. next = i /\ next # 0 /\ from = S(i) <=> i # 0 /\ from = S(i)
  <2>1. ASSUME i # 0, from = S(i) PROVE i \in within
    <3>1. i \in D /\ start <= S(i) /\ S(i) < end
      BY <1>2, <2>1
    <3> QED BY <1>4, <3>1
  <2>2. i \in Int
    OBVIOUS
  <2> QED BY <1>8, <2>1, <2>2
<1>10. next = i + 1 /\ to = S(i + 1) <=> i # Last0 /\ to = Specs[i].end /\ to < end
  <2>1. ASSUME next = i + 1, to = S(i + 1) PROVE i # Last0 /\ to = Specs[i].end /\ to < end
    <3>1. i + 1 \in Int /\ i + 1 # 0
      OBVIOUS
    <3>2. i + 1 \in within
      BY <1>8, <2>1, <3>1
    <3>3. i + 1 \in D /\ S(i + 1) < end
      BY <1>4, <3>2
    <3>4. i \in 0..(Last0 - 1)
      BY <1>2, <3>3
    <3>5. Specs[i].end = S(i + 1) /\ i # Last0
      BY <1>1, <1>2, <3>4
    <3> QED BY <2>1, <3>3, <3>5
  <2>2. ASSUME i # Last0, to = Specs[i].end, to < end PROVE next = i + 1 /\ to = S(i + 1)
    <3>1. i \in 0..(Last0 - 1) /\ i + 1 \in D /\ i + 1 \in Int /\ i + 1 # 0
      BY <1>2, <2>2
    <3>2. to = S(i + 1)
      BY <1>1, <2>2, <3>1
    <3>3. start <= S(i + 1) /\ S(i + 1) < end
      BY <2>2, <3>2
    <3>4. i + 1 \in within
      BY <1>4, <3>1, <3>3
    <3> QED BY <1>8, <3>1, <3>2, <3>4
  <2> QED BY <2>1, <2>2
<1>11. ~(next = i /\ next = i + 1)
  <2>1. i # i + 1
    OBVIOUS
  <2> QED BY <2>1
<1>12. Phase(Specs, i, start, end, from, to) = "after" <=> i # 0 /\ from = S(i)
  BY <1>6, <1>9
<1>13. Phase(Specs, i, start, end, from, to) = "before" <=> i # Last0 /\ to = Specs[i].end /\ to < end
  BY <1>6, <1>10, <1>11, SMTT(30)
<1> QED BY <1>12, <1>13 DEF S

LEMMA AllMarked ==
    ASSUME IsCalculated
    PROVE  TransitionsAreMarked
<1>1. /\ Len(timeline) = Last0 + 1 /\ Last0 \in Nat /\ CivilYear \in Nat \ {0}
      /\ \A p \in DOMAIN timeline : p \in Nat \ {0}
  <2>1. timeline = [p \in 1..FORTUNE_BIG_LUCK_PERIODS |-> timeline[p]] /\ Last0 + 1 = FORTUNE_BIG_LUCK_PERIODS
        /\ FORTUNE_BIG_LUCK_PERIODS \in Nat \ {0}
    <3>1. timeline = Periods /\ Periods = [p \in 1..FORTUNE_BIG_LUCK_PERIODS |-> Periods[p]]
      BY DEF IsCalculated, Periods
    <3> QED BY <3>1, PeriodsAre DEF IsCalculated
  <2>2. Len(timeline) = FORTUNE_BIG_LUCK_PERIODS /\ DOMAIN timeline = 1..FORTUNE_BIG_LUCK_PERIODS
    <3> DEFINE n == FORTUNE_BIG_LUCK_PERIODS
    <3>1. n \in Nat /\ timeline = [p \in 1..n |-> timeline[p]]
      BY <2>1
    <3> HIDE DEF n
    <3>2. Len(timeline) = n /\ DOMAIN timeline = 1..n
      BY <3>1, SegmentsAre, SMTT(30)
    <3> QED BY <3>2 DEF n
  <2> QED BY <2>1, <2>2, FortuneAssumption DEF Last0
<1>2. ASSUME NEW p \in DOMAIN timeline, NEW k \in DOMAIN timeline[p].years
      PROVE  LET spec == timeline[p]
                 year == spec.years[k]
                 begins(s, natural) == p > 1 /\ s.start = spec.start /\ natural <= s.start
                 cut(s, natural) == p < Len(timeline) /\ s.end = spec.end /\ s.end < natural
             IN /\ year.phase = "after" <=> begins(year, FlowYearStart(year.year))
                /\ year.phase = "before" <=> cut(year, FlowYearStart(year.year + 1))
                /\ \A j \in DOMAIN year.months : LET month == year.months[j] IN
                      /\ month.phase = "after" <=> begins(month, calendar[year.year][month.index])
                      /\ month.phase = "before" <=> cut(month, MonthEnd(year.year, month.index))
  <2> DEFINE i == p - 1
             year == timeline[p].years[k]
             y == year.year
  <2>1. /\ i \in 0..Last0 /\ IsSegment(i, y) /\ year = annual_fortune(Specs, i, y)
        /\ year.start = From(i, y) /\ year.end = To(i, y)
        /\ timeline[p].start = Specs[i].start /\ timeline[p].end = Specs[i].end
    BY <1>2, YearOfTimeline, YearsOfTimeline
  <2>2. p > 1 <=> i # 0
    BY <1>1
  <2>3. p < Len(timeline) <=> i # Last0
    BY <1>1, <2>1
  <2>4. year.phase = Phase(Specs, i, FlowYearStart(y), FlowYearStart(y + 1), From(i, y), To(i, y))
    <3> HIDE DEF i, y, year
    <3> QED BY <2>1 DEF annual_fortune, From, To
  <2>5. ASSUME NEW j \in DOMAIN year.months
        PROVE  LET m == year.months[j].index
               IN /\ IsMonth(i, y, m) /\ year.months[j].start = MonthFrom(i, y, m) /\ year.months[j].end = MonthTo(i, y, m)
                  /\ year.months[j].phase =
                        Phase(Specs, i, calendar[y][m], MonthEnd(y, m), MonthFrom(i, y, m), MonthTo(i, y, m))
    <3> DEFINE m == year.months[j].index
    <3>1. IsMonth(i, y, m) /\ year.months[j] = Month(i, y, m)
      BY <1>2, <2>5, MonthOfTimeline
    <3> HIDE DEF i, y, m
    <3> QED BY <3>1, MonthFields DEF m
  <2> HIDE DEF i, y, year
  <2>6. /\ y \in Years /\ y + 1 \in Years /\ y \in Int
        /\ FlowYearStart(y) \in Int /\ FlowYearStart(y + 1) \in Int
        /\ FlowYearStart(y + 1) < FlowYearStart(y) + 2 * CivilYear
    <3>1. y \in Years /\ y + 1 \in Years
      BY <2>1 DEF IsSegment
    <3>2. /\ y \in Int /\ FlowYearStart(y) \in Int /\ FlowYearStart(y + 1) \in Int
          /\ y * CivilYear <= FlowYearStart(y) /\ FlowYearStart(y + 1) < ((y + 1) + 1) * CivilYear
      BY <3>1, FlowYearStarts DEF IsCalculated
    <3>3. ((y + 1) + 1) * CivilYear = y * CivilYear + 2 * CivilYear
      <4>1. \A c, z \in Int : ((z + 1) + 1) * c = z * c + 2 * c
        OBVIOUS
      <4> QED BY <1>1, <3>2, <4>1
    <3>4. y * CivilYear \in Int /\ 2 * CivilYear \in Int /\ ((y + 1) + 1) * CivilYear \in Int
      BY <1>1, <3>2
    <3> QED BY <3>1, <3>2, <3>3, <3>4
  <2>7. /\ From(i, y) \in Int /\ To(i, y) \in Int /\ From(i, y) < To(i, y)
        /\ FlowYearStart(y) <= From(i, y) /\ To(i, y) <= FlowYearStart(y + 1) /\ To(i, y) <= Specs[i].end
    <3>1. Specs[i].end \in Int
      BY <2>1, SpecsAre DEF IsCalculated
    <3>2. To(i, y) <= Specs[i].end
      BY <2>6, <3>1 DEF To, Earlier
    <3> QED BY <2>1, <3>2 DEF IsSegment
  <2>8. /\ year.phase = "after" <=> (i # 0 /\ From(i, y) = Specs[i].start)
        /\ year.phase = "before" <=> (i # Last0 /\ To(i, y) = Specs[i].end /\ To(i, y) < FlowYearStart(y + 1))
    BY <2>1, <2>4, <2>6, <2>7, PhaseIs DEF IsCalculated
  <2>9. ASSUME NEW j \in DOMAIN year.months
        PROVE  LET month == year.months[j]
               IN /\ month.phase = "after" <=>
                       (p > 1 /\ month.start = timeline[p].start /\ calendar[y][month.index] <= month.start)
                  /\ month.phase = "before" <=>
                       (p < Len(timeline) /\ month.end = timeline[p].end /\ month.end < MonthEnd(y, month.index))
    <3> DEFINE m == year.months[j].index
               c == calendar[y][m]
               e == MonthEnd(y, m)
               f == MonthFrom(i, y, m)
               t == MonthTo(i, y, m)
    <3>1. /\ IsMonth(i, y, m) /\ year.months[j].start = f /\ year.months[j].end = t
          /\ year.months[j].phase = Phase(Specs, i, c, e, f, t)
      BY <2>5, <2>9
    <3> HIDE DEF m
    <3>2. /\ c \in Int /\ e \in Int /\ FlowYearStart(y) <= c /\ e <= FlowYearStart(y + 1)
      <4>1. m \in 1..12
        BY <3>1 DEF IsMonth
      <4> QED BY <2>6, <4>1, MonthsOfYear DEF IsCalculated
    <3>3. /\ f \in Int /\ t \in Int /\ f < t /\ c <= f /\ t <= e /\ t <= To(i, y)
      BY <3>1 DEF IsMonth
    <3> HIDE DEF c, e, f, t
    <3>4. e < c + 2 * CivilYear /\ t <= Specs[i].end
      <4>1. Specs[i].end \in Int
        BY <2>1, SpecsAre DEF IsCalculated
      <4> QED BY <1>1, <2>6, <2>7, <3>2, <3>3, <4>1, SMTT(30)
    <3>5. /\ year.months[j].phase = "after" <=> (i # 0 /\ f = Specs[i].start)
          /\ year.months[j].phase = "before" <=> (i # Last0 /\ t = Specs[i].end /\ t < e)
      BY <2>1, <3>1, <3>2, <3>3, <3>4, PhaseIs DEF IsCalculated
    <3>6. /\ year.months[j].phase = "after" <=> (p > 1 /\ f = timeline[p].start /\ c <= f)
          /\ year.months[j].phase = "before" <=> (p < Len(timeline) /\ t = timeline[p].end /\ t < e)
      BY <2>1, <2>2, <2>3, <3>3, <3>5
    <3> QED BY <3>1, <3>6 DEF c, e, m
  <2>10. /\ year.phase = "after" <=> (p > 1 /\ year.start = timeline[p].start /\ FlowYearStart(y) <= year.start)
         /\ year.phase = "before" <=> (p < Len(timeline) /\ year.end = timeline[p].end /\ year.end < FlowYearStart(y + 1))
    BY <2>1, <2>2, <2>3, <2>7, <2>8
  <2> QED BY <2>9, <2>10 DEF year, y
<1> QED BY <1>2 DEF TransitionsAreMarked

\* The first segment that holds at an instant.
LEMMA FirstAtIs ==
    ASSUME NEW s, NEW n \in Nat, DOMAIN s = 1..n, NEW at
    PROVE  LET f == FirstAt(s, at)
           IN /\ f = 0 => \A k \in 1..n : ~(s[k].start <= at /\ at < s[k].end)
              /\ f # 0 => f \in 1..n /\ s[f].start <= at /\ at < s[f].end
<1> DEFINE H == {k \in DOMAIN s : s[k].start <= at /\ at < s[k].end}
           f == FirstAt(s, at)
<1>1. f = IF H = {} THEN 0 ELSE CHOOSE k \in H : \A j \in H : k <= j
  BY DEF FirstAt
<1>2. CASE H = {}
  BY <1>1, <1>2
<1>3. CASE H # {}
  <2>1. \E k \in H : \A j \in H : k <= j
    <3>1. H \in SUBSET Nat
      OBVIOUS
    <3> HIDE DEF H
    <3> QED BY <1>3, <3>1, SmallestOf
  <2>2. f \in H
    <3> HIDE DEF H, f
    <3> QED BY <1>1, <1>3, <2>1
  <2>3. 0 \notin H
    OBVIOUS
  <2> HIDE DEF f
  <2> QED BY <2>2, <2>3 DEF f
<1> QED BY <1>2, <1>3

\* Segments that follow each other hold at each instant between.
LEMMA SegmentsCover ==
    ASSUME NEW s, NEW n \in Nat \ {0}, NEW from \in Int, NEW to \in Int, s[1].start = from, s[n].end = to,
           \A k \in 1..(n - 1) : s[k].end = s[k + 1].start,
           \A k \in 1..n : s[k].start \in Int /\ s[k].end \in Int,
           NEW at \in Int, from <= at, at < to
    PROVE  \E k \in 1..n : s[k].start <= at /\ at < s[k].end
<1> DEFINE T == {k \in 1..n : at < s[k].end}
<1>4. PICK k \in T : \A j \in T : k <= j
  <2>1. T \in SUBSET Nat /\ n \in T
    OBVIOUS
  <2> HIDE DEF T
  <2> QED BY <2>1, SmallestOf
<1>5. CASE k = 1
  BY <1>4, <1>5
<1>6. CASE k # 1
  <2>1. k - 1 \in 1..(n - 1) /\ k - 1 \in 1..n /\ (k - 1) + 1 = k /\ k - 1 \notin T
    BY <1>4, <1>6
  <2>2. s[k - 1].end = s[k].start /\ ~(at < s[k - 1].end)
    BY <2>1
  <2> QED BY <1>4, <2>1, <2>2
<1> QED BY <1>5, <1>6

LEMMA TilesCover ==
    ASSUME NEW s, NEW n \in Nat, s = [k \in 1..n |-> s[k]], NEW from \in Int, NEW to \in Int, Tiles(s, from, to),
           \A k \in 1..n : s[k].start \in Int /\ s[k].end \in Int,
           NEW at \in Int, from <= at, at < to
    PROVE  \E k \in 1..n : s[k].start <= at /\ at < s[k].end
<1>1. n # 0
  <2>1. s = <<>> => from = to
    BY DEF Tiles
  <2> QED BY <2>1, SegmentsAre
<1>2. /\ Len(s) = n /\ DOMAIN s = 1..n /\ s # <<>> /\ Last(s) = s[n]
  BY <1>1, SegmentsAre
<1>3. /\ s[1].start = from /\ s[n].end = to
      /\ \A k \in 1..(n - 1) : s[k].end = s[k + 1].start
  BY <1>2 DEF Tiles
<1> QED BY <1>1, <1>3, SegmentsCover

Choice(at) ==
    LET p == FirstAt(timeline, at)
        y == IF p = 0 THEN 0 ELSE FirstAt(timeline[p].years, at)
        m == IF y = 0 THEN 0 ELSE FirstAt(timeline[p].years[y].months, at)
    IN [at |-> at, period |-> p, year |-> y, month |-> m]

\* The choice for an instant of the timeline has a year and a month of it.
ChoiceIsRight(at) ==
    LET choice == Choice(at)
    IN IF choice.period = 0 THEN at < birth \/ at >= End
       ELSE /\ choice.year # 0 /\ choice.month # 0
            /\ LET year == timeline[choice.period].years[choice.year]
                   month == year.months[choice.month]
               IN /\ year.year = flow_year_for_datetime(at)
                  /\ calendar[year.year][month.index] <= at
                  /\ at < MonthEnd(year.year, month.index)
                  /\ timeline[choice.period].start <= at
                  /\ at < timeline[choice.period].end

LEMMA YearsAreSegments ==
    ASSUME IsCalculated, NEW p \in DOMAIN timeline
    PROVE  \E n \in Nat : timeline[p].years = [k \in 1..n |-> timeline[p].years[k]]
<1> DEFINE i == p - 1
           n == Specs[i].end_year - Specs[i].start_year + 1
           s == timeline[p].years
<1>1. s = BigLuckPeriod(Specs, i).years /\ (s # <<>> => Lasts(i)) /\ i \in 0..Last0
  BY YearsOfTimeline
<1>2. CASE s = <<>>
  <2>1. s = [k \in 1..0 |-> s[k]]
    BY <1>2
  <2> QED BY <2>1
<1>3. CASE s # <<>>
  <2> HIDE DEF i, s
  <2>1. YearCount(i) \in Nat /\ s = [k \in 1..YearCount(i) |-> YearAt(i, k)]
    BY <1>1, <1>3, YearsTile DEF IsCalculated, Lasts
  <2> HIDE DEF YearAt
  <2>2. s = [k \in 1..YearCount(i) |-> s[k]]
    BY <2>1
  <2> QED BY <2>1, <2>2 DEF s
<1> QED BY <1>2, <1>3

LEMMA MonthsAreSegments ==
    ASSUME IsCalculated, NEW p \in DOMAIN timeline, NEW k \in DOMAIN timeline[p].years
    PROVE  \E n \in Nat : timeline[p].years[k].months = [j \in 1..n |-> timeline[p].years[k].months[j]]
<1> DEFINE i == p - 1
           y == timeline[p].years[k].year
           s == timeline[p].years[k].months
<1>1. IsSegment(i, y) /\ s = annual_fortune(Specs, i, y).months /\ IsChart
  BY YearOfTimeline DEF IsCalculated
<1> HIDE DEF i, y, s
<1>2. PICK a, b \in 1..12 : HasMonths(i, y, a, b)
  BY <1>1, MonthsOfSegment
<1>3. b - a + 1 \in Nat /\ s = [q \in 1..(b - a + 1) |-> Month(i, y, a + q - 1)]
  BY <1>1, <1>2 DEF HasMonths
<1> HIDE DEF Month
<1>4. s = [q \in 1..(b - a + 1) |-> s[q]]
  BY <1>3
<1> QED BY <1>3, <1>4 DEF s

LEMMA ChoicesAreRight ==
    ASSUME IsCalculated, NEW at \in (birth - 1)..End
    PROVE  ChoiceIsRight(at)
<1> DEFINE N == FORTUNE_BIG_LUCK_PERIODS
           p == FirstAt(timeline, at)
<1>1. /\ timeline = [q \in 1..N |-> timeline[q]] /\ DOMAIN timeline = 1..N /\ N \in Nat
      /\ \A q \in 1..N : timeline[q].start \in Int /\ timeline[q].end \in Int
      /\ birth \in Int /\ End \in Int /\ at \in Int /\ luck \in Int
  <2>1. timeline = [q \in 1..N |-> timeline[q]] /\ DOMAIN timeline = 1..N
    <3>1. timeline = Periods /\ Periods = [q \in 1..N |-> Periods[q]] /\ DOMAIN Periods = 1..N
      BY DEF IsCalculated, Periods
    <3> QED BY <3>1
  <2>2. \A q \in 1..N : timeline[q].start \in Int /\ timeline[q].end \in Int
    <3> TAKE q \in 1..N
    <3>1. q \in DOMAIN timeline
      BY <2>1
    <3>2. q - 1 \in 0..Last0 /\ timeline[q].start = Specs[q - 1].start /\ timeline[q].end = Specs[q - 1].end
      BY <3>1, YearsOfTimeline
    <3> QED BY <3>2, SpecsAre DEF IsCalculated
  <2>3. birth \in Int /\ End \in Int /\ luck \in Int
    BY DEF IsCalculated, IsChart
  <2> QED BY <2>1, <2>2, <2>3, FortuneAssumption
<1>2. CASE p = 0
  <2>1. \A q \in 1..N : ~(timeline[q].start <= at /\ at < timeline[q].end)
    <3> HIDE DEF N
    <3> QED BY <1>1, <1>2, FirstAtIs
  <2>2. at < birth \/ at >= End
    <3> SUFFICES ASSUME birth <= at, at < End PROVE FALSE
      BY <1>1
    <3>1. /\ timeline[1].start = birth /\ timeline[N].end = End /\ N \in Nat \ {0}
          /\ \A q \in 1..(N - 1) : timeline[q].end = timeline[q + 1].start
      BY PeriodsFollow
    <3> HIDE DEF N
    <3>2. \E q \in 1..N : timeline[q].start <= at /\ at < timeline[q].end
      BY <1>1, <3>1, SegmentsCover
    <3> QED BY <2>1, <3>2
  <2> HIDE DEF p
  <2>3. Choice(at).period = 0
    BY <1>2 DEF Choice, p
  <2> QED BY <2>2, <2>3 DEF ChoiceIsRight
<1>3. CASE p # 0
  <2>1. p \in DOMAIN timeline /\ timeline[p].start <= at /\ at < timeline[p].end
    <3> HIDE DEF N
    <3> QED BY <1>1, <1>3, FirstAtIs
  <2> DEFINE years == timeline[p].years
             k == FirstAt(years, at)
             i == p - 1
  <2> HIDE DEF p
  <2>2. Tiles(years, timeline[p].start, timeline[p].end) /\ timeline[p].start \in Int /\ timeline[p].end \in Int
    BY <1>1, <2>1, YearsOfTimeline
  <2>3. PICK n \in Nat : years = [q \in 1..n |-> years[q]]
    BY <2>1, YearsAreSegments
  <2>4. DOMAIN years = 1..n
    <3> HIDE DEF years
    <3> QED BY <2>3
  <2>5. ASSUME NEW q \in DOMAIN years
        PROVE  LET y == years[q].year
               IN /\ IsSegment(i, y) /\ years[q].start = From(i, y) /\ years[q].end = To(i, y)
                  /\ years[q].start \in Int /\ years[q].end \in Int
                  /\ Tiles(years[q].months, years[q].start, years[q].end)
    <3>1. LET y == years[q].year
          IN /\ IsSegment(i, y) /\ years[q].start = From(i, y) /\ years[q].end = To(i, y)
             /\ Tiles(years[q].months, From(i, y), To(i, y))
      BY <2>1, YearOfTimeline
    <3> HIDE DEF years, i
    <3> QED BY <3>1 DEF IsSegment
  <2>6. k \in DOMAIN years /\ k # 0 /\ years[k].start <= at /\ at < years[k].end
    <3> HIDE DEF years
    <3>1. \E q \in 1..n : years[q].start <= at /\ at < years[q].end
      BY <1>1, <2>1, <2>2, <2>3, <2>4, <2>5, TilesCover
    <3> QED BY <2>4, <3>1, FirstAtIs
  <2> DEFINE y == years[k].year
             months == years[k].months
             j == FirstAt(months, at)
  <2>7. PICK l \in Nat : months = [q \in 1..l |-> months[q]]
    <3>1. k \in DOMAIN timeline[p].years
      BY <2>6
    <3> HIDE DEF k
    <3> QED BY <2>1, <3>1, MonthsAreSegments
  <2>8. DOMAIN months = 1..l
    <3> HIDE DEF months
    <3> QED BY <2>7, SMTT(30)
  <2>9. ASSUME NEW q \in DOMAIN months
        PROVE  LET m == months[q].index
               IN /\ m \in 1..12 /\ IsMonth(i, y, m)
                  /\ months[q].start = MonthFrom(i, y, m) /\ months[q].end = MonthTo(i, y, m)
                  /\ months[q].start \in Int /\ months[q].end \in Int
    <3> DEFINE m == months[q].index
    <3>1. k \in DOMAIN timeline[p].years /\ q \in DOMAIN timeline[p].years[k].months
      BY <2>6, <2>9
    <3>2. m \in 1..12 /\ IsMonth(i, y, m) /\ months[q] = Month(i, y, m)
      <4> HIDE DEF k
      <4> QED BY <2>1, <3>1, MonthOfTimeline
    <3> HIDE DEF m, y, i, k
    <3>3. months[q].start = MonthFrom(i, y, m) /\ months[q].end = MonthTo(i, y, m)
      BY <3>2, MonthFields
    <3>4. MonthFrom(i, y, m) \in Int /\ MonthTo(i, y, m) \in Int
      BY <3>2 DEF IsMonth
    <3> QED BY <3>2, <3>3, <3>4 DEF m
  <2>10. j \in DOMAIN months /\ j # 0 /\ months[j].start <= at /\ at < months[j].end
    <3>1. Tiles(months, years[k].start, years[k].end) /\ years[k].start \in Int /\ years[k].end \in Int
      BY <2>5, <2>6
    <3> HIDE DEF months, years, k
    <3>2. \E q \in 1..l : months[q].start <= at /\ at < months[q].end
      BY <1>1, <2>6, <2>7, <2>8, <2>9, <3>1, TilesCover
    <3> QED BY <2>8, <3>2, FirstAtIs
  <2> DEFINE m == months[j].index
  <2>11. /\ IsSegment(i, y) /\ From(i, y) <= at /\ at < To(i, y)
         /\ m \in 1..12 /\ IsMonth(i, y, m) /\ MonthFrom(i, y, m) <= at /\ at < MonthTo(i, y, m)
    <3>1. IsSegment(i, y) /\ From(i, y) <= at /\ at < To(i, y)
      <4> HIDE DEF k, years, i
      <4> QED BY <2>5, <2>6
    <3>2. m \in 1..12 /\ IsMonth(i, y, m) /\ MonthFrom(i, y, m) <= at /\ at < MonthTo(i, y, m)
      <4> HIDE DEF j, months, i, y
      <4> QED BY <2>9, <2>10 DEF m
    <3> QED BY <3>1, <3>2
  <2>12. Choice(at).period = p /\ Choice(at).year = k /\ Choice(at).month = j
    <3>1. Choice(at) = [at |-> at, period |-> p, year |-> k, month |-> j]
      <4>1. p # 0 /\ k # 0
        BY <1>3, <2>6 DEF p
      <4> QED BY <4>1 DEF Choice, p
    <3> HIDE DEF k, j
    <3> QED BY <3>1
  <2>13. y = flow_year_for_datetime(at)
    <3> HIDE DEF y, i
    <3>1. /\ y \in Years /\ y + 1 \in Years /\ FlowYearStart(y) \in Int /\ FlowYearStart(y + 1) \in Int
      BY <2>11, FlowYearStarts DEF IsSegment, IsCalculated
    <3>2. FlowYearStart(y) <= at /\ at < FlowYearStart(y + 1)
      <4>1. /\ From(i, y) \in Int /\ To(i, y) \in Int /\ FlowYearStart(y) <= From(i, y)
            /\ To(i, y) <= FlowYearStart(y + 1) /\ From(i, y) <= at /\ at < To(i, y)
        BY <2>11 DEF IsSegment
      <4> QED BY <1>1, <3>1, <4>1, SMTT(30)
    <3> QED BY <3>1, <3>2, FlowYearOf, SMTT(30) DEF IsCalculated
  <2>14. calendar[y][m] <= at /\ at < MonthEnd(y, m)
    <3> HIDE DEF y, i, m
    <3>1. y \in Years /\ y + 1 \in Years
      BY <2>11 DEF IsSegment
    <3>2. calendar[y][m] \in Int /\ MonthEnd(y, m) \in Int
      BY <2>11, <3>1, MonthsOfYear DEF IsCalculated
    <3> QED BY <1>1, <2>11, <3>2 DEF IsMonth
  <2>15. p # 0
    BY <1>3 DEF p
  <2>16. k # 0 /\ j # 0
    BY <2>6, <2>10
  <2>17. /\ Choice(at).period # 0 /\ Choice(at).year # 0 /\ Choice(at).month # 0
         /\ timeline[Choice(at).period].years[Choice(at).year] = years[k]
         /\ timeline[Choice(at).period].years[Choice(at).year].months[Choice(at).month] = months[j]
    <3> HIDE DEF k, j
    <3> QED BY <2>12, <2>15, <2>16
  <2> DEFINE c == Choice(at)
  <2>18. c.period # 0 /\ c.period = p /\ c.year # 0 /\ c.month # 0
         /\ timeline[c.period].years[c.year] = years[k] /\ timeline[c.period].years[c.year].months[c.month] = months[j]
    BY <2>12, <2>17
  <2> HIDE DEF c, k, j, years, months
  <2> QED BY <2>1, <2>13, <2>14, <2>18 DEF ChoiceIsRight, c
<1> QED BY <1>2, <1>3

\* The invariant: what is answered is calculated from the chart, and what is
\* chosen is chosen from that.
FortuneInv ==
    /\ IsChart /\ outcome \in {"none", "failed", "done"}
    /\ outcome = "failed" => HasCutYear
    /\ outcome = "done" => IsCalculated
    /\ chosen # NoChoice =>
          outcome = "done" /\ \E at \in (birth - 1)..End : chosen = Choice(at)

LEMMA FortuneStarts ==
    ASSUME NEW births \in SUBSET Int, YearsAreKnown(births), FortuneInit(births)
    PROVE  FortuneInv
<1>1. calendar \in Calendars /\ birth \in births /\ birth \in Int /\ outcome = "none" /\ chosen = NoChoice
  BY DEF FortuneInit
<1>2. PICK f \in FirstLucks : luck = birth + f
  BY DEF FortuneInit
<1>3. f \in Nat /\ luck \in Int /\ birth <= luck
  BY <1>1, <1>2, FortuneAssumption
<1> DEFINE n == (FORTUNE_BIG_LUCK_PERIODS - 1) * PeriodYears * CivilYear
<1>4. n \in Nat
  <2>1. FORTUNE_BIG_LUCK_PERIODS - 1 \in Nat /\ PeriodYears \in Nat /\ CivilYear \in Nat
    BY FortuneAssumption
  <2>2. (FORTUNE_BIG_LUCK_PERIODS - 1) * PeriodYears \in Nat
    BY <2>1
  <2> QED BY <2>1, <2>2
<1>5. End = luck + n /\ End = birth + f + n
  BY <1>1, <1>2, <1>3, <1>4 DEF End
<1>6. ((birth \div CivilYear) - 1)..((End \div CivilYear) + 1) \subseteq DOMAIN calendar
  <2>1. ((birth \div CivilYear) - 1)..(((birth + f + n) \div CivilYear) + 1) \subseteq DOMAIN calendar
    BY <1>1 DEF YearsAreKnown
  <2> HIDE DEF n
  <2> QED BY <1>5, <2>1
<1> HIDE DEF n
<1>7. IsChart
  BY <1>1, <1>3, <1>4, <1>5, <1>6 DEF IsChart, Years
<1> QED BY <1>1, <1>7 DEF FortuneInv

\* A step that leaves the chart alone leaves its timeline alone.
LEMMA SameChart ==
    ASSUME UNCHANGED <<calendar, birth, luck>>
    PROVE  IsChart' = IsChart /\ HasCutYear' = HasCutYear /\ Periods' = Periods /\ End' = End
<1>1. calendar' = calendar /\ birth' = birth /\ luck' = luck
  OBVIOUS
<1>2. End' = End
  BY <1>1 DEF End
<1>3. \A y : FlowYearStart(y)' = FlowYearStart(y)
  BY <1>1 DEF FlowYearStart
<1>4. \A v : flow_year_for_datetime(v)' = flow_year_for_datetime(v)
  BY <1>3 DEF flow_year_for_datetime
<1>5. \A y, m : MonthEnd(y, m)' = MonthEnd(y, m)
  BY <1>1, <1>3 DEF MonthEnd
<1>6. Specs' = Specs
  <2>1. \A i : BigLuckSpec(i)' = BigLuckSpec(i)
    BY <1>1, <1>4 DEF BigLuckSpec, last_flow_year
  <2> QED BY <2>1 DEF Specs
<1>7. \A i, y, from, to, m : monthly_fortune(Specs, i, y, from, to, m)' = monthly_fortune(Specs, i, y, from, to, m)
  BY <1>1, <1>5, <1>6 DEF monthly_fortune
<1>8. \A i, y : SegmentStart(Specs[i], y)' = SegmentStart(Specs[i], y)
  BY <1>3, <1>6 DEF SegmentStart
<1>9. \A i, y : annual_fortune(Specs, i, y)' = annual_fortune(Specs, i, y)
  <2> SUFFICES ASSUME NEW i, NEW y PROVE annual_fortune(Specs, i, y)' = annual_fortune(Specs, i, y)
    OBVIOUS
  <2> DEFINE from == SegmentStart(Specs[i], y)
             to == Earlier(FlowYearStart(y + 1), Specs[i].end)
             months == [m \in 1..12 |-> monthly_fortune(Specs, i, y, from, to, m)]
             overlapping == At(months, {m \in 1..12 : months[m].start < months[m].end})
             age == y - flow_year_for_datetime(birth) + 1
             phase == Phase(Specs, i, FlowYearStart(y), FlowYearStart(y + 1), from, to)
             year == [year |-> y, start |-> from, end |-> to, nominal_age |-> age, phase |-> phase,
                      months |-> overlapping]
  <2>1. annual_fortune(Specs, i, y) = year
    BY DEF annual_fortune
  <2>2. annual_fortune(Specs, i, y)' = year'
    BY DEF annual_fortune
  <2>3. from' = from /\ to' = to /\ age' = age
    BY <1>1, <1>3, <1>4, <1>6, <1>8
  <2>4. phase' = phase
    BY <1>3, <1>6, <2>3
  <2> HIDE DEF from, to
  <2>5. months' = months
    BY <1>7, <2>3
  <2> HIDE DEF months
  <2>6. overlapping' = overlapping
    BY <2>5
  <2> HIDE DEF overlapping, age, phase
  <2> QED BY <2>1, <2>2, <2>3, <2>4, <2>6
<1>10. \A i : BigLuckPeriod(Specs, i)' = BigLuckPeriod(Specs, i)
  BY <1>6, <1>9 DEF BigLuckPeriod
<1>11. Periods' = Periods
  BY <1>10 DEF Periods
<1>12. HasCutYear' = HasCutYear
  BY <1>11 DEF HasCutYear
<1>13. IsChart' = IsChart
  BY <1>1, <1>2 DEF IsChart, Years
<1> QED BY <1>2, <1>11, <1>12, <1>13

LEMMA FortuneGoesOn ==
    ASSUME FortuneInv, [FortuneNext]_fortuneVars
    PROVE  FortuneInv'
<1>1. CASE calculate_fortune_cycles
  <2>1. /\ outcome = "none" /\ UNCHANGED <<calendar, birth, luck>> /\ chosen' = chosen
        /\ IF HasCutYear THEN outcome' = "failed" /\ timeline' = timeline
           ELSE outcome' = "done" /\ timeline' = Periods
    BY <1>1 DEF calculate_fortune_cycles, HasCutYear, Periods
  <2>2. IsChart' = IsChart /\ HasCutYear' = HasCutYear /\ Periods' = Periods
    BY <2>1, SameChart
  <2>3. chosen = NoChoice /\ NoChoice' = NoChoice
    BY <2>1 DEF FortuneInv, NoChoice
  <2>4. chosen' = NoChoice'
    BY <2>1, <2>3
  <2> QED BY <2>1, <2>2, <2>4 DEF FortuneInv, IsCalculated
<1>2. ASSUME NEW at \in (birth - 1)..End, select_fortune_at(at) PROVE FortuneInv'
  <2>1. outcome = "done" /\ UNCHANGED <<calendar, birth, luck>> /\ outcome' = outcome /\ timeline' = timeline
    BY <1>2 DEF select_fortune_at
  <2>2. chosen' = Choice(at)
    BY <1>2 DEF select_fortune_at, Choice
  <2>3. IsChart' = IsChart /\ HasCutYear' = HasCutYear /\ Periods' = Periods /\ End' = End /\ birth' = birth
    BY <2>1, SameChart
  <2>4. Choice(at)' = Choice(at)
    BY <2>1 DEF Choice, FirstAt
  <2>5. outcome' = "done" /\ \E v \in (birth' - 1)..End' : chosen' = Choice(v)'
    BY <2>1, <2>2, <2>3, <2>4
  <2> QED BY <2>1, <2>3, <2>5 DEF FortuneInv, IsCalculated
<1>3. CASE UNCHANGED fortuneVars
  <2>1. UNCHANGED <<calendar, birth, luck>> /\ outcome' = outcome /\ timeline' = timeline /\ chosen' = chosen
    BY <1>3 DEF fortuneVars
  <2>2. IsChart' = IsChart /\ HasCutYear' = HasCutYear /\ Periods' = Periods /\ End' = End /\ birth' = birth
    BY <2>1, SameChart
  <2>3. \A at : Choice(at)' = Choice(at)
    BY <2>1 DEF Choice, FirstAt
  <2>4. NoChoice' = NoChoice
    BY DEF NoChoice
  <2> QED BY <2>1, <2>2, <2>3, <2>4 DEF FortuneInv, IsCalculated
<1> QED BY <1>1, <1>2, <1>3 DEF FortuneNext

LEMMA FortuneInvHolds ==
    ASSUME NEW CONSTANT births \in SUBSET Int, YearsAreKnown(births)
    PROVE  FortuneInit(births) /\ [][FortuneNext]_fortuneVars => []FortuneInv
<1>1. FortuneInit(births) => FortuneInv
  BY FortuneStarts
<1>2. FortuneInv /\ [FortuneNext]_fortuneVars => FortuneInv'
  BY FortuneGoesOn
<1> QED BY <1>1, <1>2, PTL

\* The timeline of fortune periods is complete: periods, flow years and flow
\* months follow each other without a gap or an overlap, the pillars of the
\* months go on in the cycle, every change of periods is marked where it divides
\* a year or a month and nowhere else, and only a birth at which luck begins at
\* once can have none (_calculate_fortune_cycles).  For every calendar that
\* knows the years of the charts, whatever the births and however many periods.
THEOREM TimelineStaysSound ==
    ASSUME NEW CONSTANT births \in SUBSET Int, YearsAreKnown(births)
    PROVE  FortuneInit(births) /\ [][FortuneNext]_fortuneVars => []TimelineIsSound
<1>1. FortuneInv => TimelineIsSound
  <2> SUFFICES ASSUME FortuneInv PROVE TimelineIsSound
    OBVIOUS
  <2>1. CASE outcome = "done"
    <3>1. IsCalculated
      BY <2>1 DEF FortuneInv
    <3>2. TimelineTiles /\ MonthsFollowOn /\ TransitionsAreMarked
      BY <3>1, TilesAll, MonthsAllFollow, AllMarked
    <3>3. FailsOnlyAtOnce
      BY <2>1, <3>1, CutYears DEF IsCalculated, FailsOnlyAtOnce
    <3> QED BY <3>2, <3>3 DEF TimelineIsSound
  <2>2. CASE outcome # "done"
    <3>1. TimelineTiles /\ MonthsFollowOn /\ TransitionsAreMarked
      BY <2>2 DEF TimelineTiles, MonthsFollowOn, TransitionsAreMarked
    <3>2. FailsOnlyAtOnce
      BY <2>2, CutYears, SMTT(30) DEF FortuneInv, FailsOnlyAtOnce
    <3> QED BY <3>1, <3>2 DEF TimelineIsSound
  <2> QED BY <2>1, <2>2
<1> QED BY <1>1, FortuneInvHolds, PTL

\* An instant of the timeline has a period, a year and a month, those in which
\* the calendar has it, and only an instant outside is refused: both
\* "construction invariants" that select_fortune_at relies on.
THEOREM ChosenStaysRight ==
    ASSUME NEW CONSTANT births \in SUBSET Int, YearsAreKnown(births)
    PROVE  FortuneInit(births) /\ [][FortuneNext]_fortuneVars => []ChosenHolds
<1>1. FortuneInv => ChosenHolds
  <2> SUFFICES ASSUME FortuneInv, chosen # NoChoice PROVE ChosenHolds
    BY DEF ChosenHolds
  <2>1. IsCalculated
    BY DEF FortuneInv
  <2>2. PICK at \in (birth - 1)..End : chosen = Choice(at)
    BY DEF FortuneInv
  <2>3. ChoiceIsRight(at) /\ chosen.at = at
    BY <2>1, <2>2, ChoicesAreRight DEF Choice
  <2> HIDE DEF Choice
  <2> QED BY <2>2, <2>3, ZenonT(40) DEF ChoiceIsRight, ChosenHolds
<1> QED BY <1>1, FortuneInvHolds, PTL
=============================================================================
