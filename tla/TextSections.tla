---------------------------- MODULE TextSections ----------------------------
(***************************************************************************)
(* How the text of a document is cut into the sections that the organizer  *)
(* reads (split_document_sections).  A character is of a class: "n" a      *)
(* newline, "r" a carriage return, which belongs to the line break if a    *)
(* newline follows it, "w" other white space, "s" the end of a sentence,   *)
(* "c" any other.  Positions count from 0, as those of the code.           *)
(***************************************************************************)
EXTENDS Naturals, FiniteSetsExt, SequencesExt

CONSTANTS Target, Maximum, Lookback     \* 2000, 2500 and 2000 characters

ASSUME SectionAssumption == Target \in Nat \ {0} /\ Maximum \in Nat /\ Lookback \in Nat /\ Target <= Maximum

VARIABLES
    text,       \* the text to cut
    sections    \* the sections so far: records [start, end]
sectionVars == <<text, sections>>

\* Where the matches of each pattern end in text[from:to]: two line breaks or
\* more, a line break, a sentence with the white space behind it.
LineEnds(from, to) == {e \in (from + 1)..to : text[e] = "n"}
\* The line break that ends at e comes right after the one that ends at d.
Adjoins(d, e) == e = d + 1 \/ (e = d + 2 /\ text[d + 1] = "r")
ParagraphEnds(from, to) ==
    {e \in LineEnds(from, to) : /\ \E d \in LineEnds(from, to) : Adjoins(d, e)
                               /\ \A d \in LineEnds(from, to) : ~Adjoins(e, d)}
Spaces == {"n", "r", "w"}
SentenceEnds(from, to) ==
    {e \in (from + 1)..to :
        /\ \E s \in (from + 1)..e : text[s] = "s" /\ \A i \in (s + 1)..e : text[i] \in Spaces
        /\ ~(e < to /\ text[e + 1] \in Spaces)}

\* The breaks of the first pattern that occurs.
Breaks(from, to) ==
    IF ParagraphEnds(from, to) # {} THEN ParagraphEnds(from, to)
    ELSE IF LineEnds(from, to) # {} THEN LineEnds(from, to)
    ELSE SentenceEnds(from, to)

\* The first break between the target and the maximum, else the last one before
\* the target, else none.
preferred_break_first(target_end, maximum_end) ==
    LET window == Breaks(target_end, maximum_end)
        earlier == Breaks(IF target_end > Lookback THEN target_end - Lookback ELSE 0, target_end)
    IN IF window # {} THEN Min(window) ELSE IF earlier # {} THEN Min(earlier) ELSE maximum_end
preferred_break(target_end, maximum_end) ==
    LET window == Breaks(target_end, maximum_end)
        earlier == Breaks(IF target_end > Lookback THEN target_end - Lookback ELSE 0, target_end)
    IN IF window # {} THEN Min(window) ELSE IF earlier # {} THEN Max(earlier) ELSE maximum_end

Position == IF sections = <<>> THEN 0 ELSE Last(sections).end
SectionEnd(start) ==
    IF Len(text) - start <= Maximum THEN Len(text)
    ELSE LET end == preferred_break(start + Target, start + Maximum)
         IN IF end <= start THEN start + Maximum ELSE end

SectionsInit(texts) == text \in texts /\ sections = <<>>

\* One turn of the loop.
split_document_sections ==
    /\ Position < Len(text)
    /\ sections' = Append(sections, [start |-> Position, end |-> SectionEnd(Position)])
    /\ UNCHANGED text

(***************************************************************************)
(* Properties.                                                             *)
(***************************************************************************)

\* "Preserving every original character exactly once": the sections follow each
\* other without a gap from the beginning, are not empty and within the maximum,
\* whatever breaks are found where.
SectionsCover ==
    \A i \in DOMAIN sections :
        /\ sections[i].start = (IF i = 1 THEN 0 ELSE sections[i - 1].end)
        /\ sections[i].end \in (sections[i].start + 1)..(sections[i].start + Maximum)
        /\ sections[i].end <= Len(text)

\* A text is not cut into crumbs, of which each would cost a session.  A section
\* may end long before the target, but then it and the next one are together as
\* long as the target, or the next one ends at a break of a lower kind: there are
\* never more than three in a row, of a paragraph, a line and a sentence.
BreakKind(e) ==
    IF text[e] # "n" THEN 1 ELSE IF \E d \in LineEnds(0, e) : Adjoins(d, e) THEN 3 ELSE 2
CrumbsAreFew ==
    \A i \in 1..(Len(sections) - 1) :
        LET this == sections[i]  next == sections[i + 1] IN
        next.end < Len(text) =>
            next.end - this.start >= Target \/ BreakKind(this.end) > BreakKind(next.end)

\* No sentence is cut unless none ended on the way: a section that ends within a
\* sentence has the maximum length and no break in it.  (This depends on Lookback
\* being Target, as 2000 is: with less a break may be overlooked, with more one
\* may be found that is before the section.)
SentencesStayWhole ==
    \A i \in DOMAIN sections :
        LET end == sections[i].end IN
        end < Len(text) /\ text[end] \notin Spaces \cup {"s"}
        => end = sections[i].start + Maximum /\ \A j \in (sections[i].start + 1)..end : text[j] \notin {"n", "s"}

\* The sections are the text, in few pieces that are cut between sentences.
SectionsAreSound == SectionsCover /\ CrumbsAreFew /\ SentencesStayWhole
=============================================================================
