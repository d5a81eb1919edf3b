------------------------------- MODULE Paging -------------------------------
(***************************************************************************)
(* Where the pages of a text begin and end (knowledge_tools.py): pages of  *)
(* about PageChars characters that end after a newline when one follows    *)
(* within Lookahead.  A text is its length and the positions of its        *)
(* newlines; positions count from 0.                                       *)
(***************************************************************************)
EXTENDS Integers

CONSTANTS PageChars, Lookahead, ContextChars, MaxQueryChars

\* 1800, 240, 180 and 40 in the code: a match and what a page may begin before
\* it fit on a page.
ASSUME PageAssumption ==
    /\ PageChars \in Nat /\ Lookahead \in Nat /\ ContextChars \in Nat /\ MaxQueryChars \in Nat \ {0}
    /\ (PageChars \div 3) + Lookahead + MaxQueryChars <= PageChars

AtLeast0(n) == IF n > 0 THEN n ELSE 0
Smaller(m, n) == IF m < n THEN m ELSE n

\* text.find and text.rfind of a newline in from..to-1, and what to use instead.
Newlines(text, from, to) == {n \in text.newlines : from <= n /\ n < to}
IsFirst(n, ns) == n \in ns /\ \A m \in ns : n <= m
IsLast(n, ns) == n \in ns /\ \A m \in ns : m <= n
AfterFirst(ns, otherwise) ==
    IF \E n \in ns : IsFirst(n, ns) THEN (CHOOSE n \in ns : IsFirst(n, ns)) + 1 ELSE otherwise
AfterLast(ns, otherwise) ==
    IF \E n \in ns : IsLast(n, ns) THEN (CHOOSE n \in ns : IsLast(n, ns)) + 1 ELSE otherwise

page_start_for_match_half(text, position) ==
    LET target == AtLeast0(position - (PageChars \div 2) - Lookahead)
    IN AfterLast(Newlines(text, AtLeast0(target - Lookahead), target), target)
page_start_for_match(text, position) ==
    LET target == AtLeast0(position - (PageChars \div 3))
    IN AfterLast(Newlines(text, AtLeast0(target - Lookahead), target), target)

page_end(text, start) ==
    LET target == Smaller(text.length, start + PageChars)
    IN IF target >= text.length THEN text.length
       ELSE AfterFirst(Newlines(text, target, Smaller(text.length, target + Lookahead)), target)

previous_page_start(text, start) ==
    LET target == AtLeast0(start - PageChars)
    IN AfterLast(Newlines(text, AtLeast0(target - Lookahead), target), target)

\* The line around a match, cut ContextChars before and behind it.
context_start(text, position) ==
    LET start == AtLeast0(position - ContextChars)
    IN AfterLast(Newlines(text, start, position), start)
context_end(text, position, chars) ==
    LET end == Smaller(text.length, position + chars + ContextChars)
    IN AfterFirst(Newlines(text, position + chars, end), end + 1) - 1

(***************************************************************************)
(* Statements about one text, used by the properties of Knowledge and      *)
(* proved for every text in LibraryProofs.                                  *)
(***************************************************************************)

IsText(text) == text.length \in Nat /\ text.newlines \subseteq 0..(text.length - 1)

\* A page is not empty, not longer than a page and what is looked ahead.
PageIsSound(text, start) ==
    /\ start < page_end(text, start) /\ page_end(text, start) <= text.length
    /\ page_end(text, start) <= start + PageChars + Lookahead

\* The page that a hit is read on begins before the match and ends after it.
IsOnItsPage(text, position, chars) ==
    LET start == page_start_for_match(text, position)
    IN start <= position /\ position + chars <= page_end(text, start)

\* The page before a page begins before it, and what may lie between the two
\* is shorter than what is looked ahead for a newline.
IsBefore(text, start) ==
    LET before == previous_page_start(text, start)
    IN before < start /\ start < page_end(text, before) + Lookahead + 1
=============================================================================
