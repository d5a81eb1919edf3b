------------------------------ MODULE MCLibrary ------------------------------
(***************************************************************************)
(* Small instances of the parts that share no state with each other: the   *)
(* merge of rules, the search and the snapshots beside it, the documents   *)
(* and the tools that read them, the sections of a text and the fortune    *)
(* timeline.  A behaviour is one of one part; the others stay as they      *)
(* began.                                                                  *)
(***************************************************************************)
EXTENDS RuleSearch, Knowledge, TextSections, FortuneTimeline

VARIABLE part
ruleVars == <<graphVars, searchVars>>

Parts == {"merge", "search", "snapshot", "shelf", "reading", "sections", "fortune"}

(* Rules: two keys, one of which contains the other and has two spellings,  *)
(* and the two with "and" between them; "." has no key.                    *)
MCTokens == {"ab", "b", "and", "none"}
MCTexts == {"a", "A", "b", "a and b", ".", " "}
MCKeyOf == [t \in MCTexts |-> CASE t \in {"a", "A"} -> <<"ab">> [] t = "b" -> <<"b">>
                                 [] t = "a and b" -> <<"ab", "and", "b">> [] OTHER -> <<>>]
MCSections == {[job |-> "j1", at |-> 1], [job |-> "j2", at |-> 1]}
Plain == [name |-> "a", summary |-> 1, aliases |-> <<>>, existing |-> NoId,
          texts |-> [k \in TextKinds |-> <<>>], groups |-> <<>>, links |-> {}]
ConditionGroup(all, none) == [all_of |-> all, none_of |-> none]
Link(kind, name) == [kind |-> kind, id |-> RuleId(name)]

Candidates ==
    {[Plain EXCEPT !.texts["RELATES_TO"] = <<"a", "A", "b">>],
     [Plain EXCEPT !.name = "A", !.summary = 2, !.aliases = <<"b">>],
     [Plain EXCEPT !.name = "b", !.links = {Link("REFINES", "a")},
                   !.groups = <<ConditionGroup(<<"a", "b">>, <<>>), ConditionGroup(<<"b", "a", "A">>, <<>>)>>],
     [Plain EXCEPT !.name = "b", !.existing = RuleId("a"), !.summary = 2,
                   !.links = {Link("REFINES", "a"), Link("CONTRADICTS", "b")}],
     [Plain EXCEPT !.existing = RuleId("a"), !.aliases = <<".", "A", "a">>,
                   !.groups = <<ConditionGroup(<<>>, <<"a">>), ConditionGroup(<<"a">>, <<"b">>), ConditionGroup(<<>>, <<>>)>>],
     [Plain EXCEPT !.name = "b", !.existing = RuleId("b"), !.texts["WEAKENS"] = <<"a">>,
                   !.texts["DOES_NOT_PROVE"] = <<"A">>, !.groups = <<ConditionGroup(<<"A">>, <<>>)>>],
     [Plain EXCEPT !.groups = <<ConditionGroup(<<"a", "b">>, <<>>), ConditionGroup(<<"a and b">>, <<>>)>>],
     [Plain EXCEPT !.existing = RuleId("a"),
                   !.groups = <<ConditionGroup(<<"a and b">>, <<"b">>), ConditionGroup(<<"A">>, <<>>)>>],
     [Plain EXCEPT !.name = "."],
     [Plain EXCEPT !.name = "b", !.summary = 0],
     [Plain EXCEPT !.groups = <<ConditionGroup(<<"a">>, <<"A">>)>>]}
MergeSubmissions == {<<>>} \cup {<<c>> : c \in Candidates} \cup (Candidates \X Candidates)

SearchSubmissions ==
    {<<[Plain EXCEPT !.texts["STRENGTHENS"] = <<"b">>],
       [Plain EXCEPT !.name = "b", !.groups = <<ConditionGroup(<<"a">>, <<"b">>)>>]>>,
     <<[Plain EXCEPT !.existing = RuleId("a"), !.aliases = <<"b">>, !.texts["DOES_NOT_PROVE"] = <<"b">>,
                     !.links = {Link("REFINES", "b")}],
       [Plain EXCEPT !.name = "."]>>}
ASSUME CandidateAssumption ==
    \A submission \in MergeSubmissions \cup SearchSubmissions :
        \A i \in DOMAIN submission : IsCandidate(submission[i])
MCQueries == {[key |-> <<"b">>, terms |-> {<<"b">>}]}
MCContains == {<<<<"b">>, <<"ab">>>>}

(* Documents: every text of nine characters, each of which may be a newline,  *)
(* but for the places where the queries are found.                           *)
Windows(n, newlines, chars) == {p \in 0..(n - chars) : newlines \cap (p..(p + chars - 1)) = {}}
TextWith(n, newlines) ==
    [length |-> n, newlines |-> newlines,
     found |-> [x |-> {p \in Windows(n, newlines, 1) : p % 2 = 1},
                y |-> {p \in Windows(n, newlines, 2) : p % 3 # 1}]]
File(digest, bom, decodes, readable, content) ==
    [digest |-> digest, bom |-> bom, decodes |-> decodes, readable |-> readable, text |-> content]
Short == TextWith(3, {1})
MCUploads == {File("d1", "none", {"utf-8", "gb18030"}, {"utf-8"}, Short),
              File("d2", "none", {"utf-8", "gb18030"}, {"gb18030"}, Short),
              File("d3", "little", {"utf-8", "utf-16-le"}, {"utf-8"}, Short)}
Books == {File("b", "none", {"utf-8"}, {"utf-8"}, TextWith(9, newlines)) : newlines \in SUBSET (0..8)}
Note == File("o", "big", {"utf-16-be"}, {"utf-16-be"}, TextWith(5, {2}))
MCFiles == MCUploads \cup Books \cup {Note}
Query(t, n) == [text |-> t, chars |-> n]
MCSearchQueries == {<<Query("x", 1)>>, <<Query("x", 1), Query("y", 2)>>, <<Query("y", 2), Query("x", 1)>>}

(* Sections: every text of up to six characters of the five classes, every   *)
(* one of seven without blanks, and of eight with two sorts of break.        *)
MCCuts == (UNION {[1..n -> {"n", "r", "w", "s", "c"}] : n \in 0..6})
          \cup [1..7 -> {"n", "r", "s", "c"}] \cup [1..8 -> {"n", "s", "c"}] \cup [1..8 -> {"n", "r", "c"}]

(* Fortune: years of 24 units, whose first months begin at different days. *)
MCCalendars ==
    {[year \in 0..8 |-> [m \in 1..12 |-> 24 * year + (IF m = 1 THEN 1 + ((year * k) % 3) ELSE 2 * m)]] : k \in 0..2}
MCBirths == {24 + 2 * i : i \in 0..11} \cup {27, 29}
ASSUME BirthAssumption == YearsAreKnown(MCBirths)

Sym == Permutations(Readers) \cup Permutations(Curators)

MCInit ==
    /\ part \in Parts
    /\ SearchInit
    /\ KnowledgeInit(IF part = "reading" THEN {<<b, Note>> : b \in Books} ELSE {<<>>})
    /\ SectionsInit(IF part = "sections" THEN MCCuts ELSE {<<>>})
    /\ FortuneInit(IF part = "fortune" THEN MCBirths ELSE {24})
    /\ part # "fortune" => calendar = CHOOSE c \in MCCalendars : TRUE
    /\ part # "fortune" => luck = birth

MCNext ==
    /\ UNCHANGED part
    /\ \/ /\ part = "merge" /\ GraphNext(MergeSubmissions)
          /\ UNCHANGED <<searchVars, knowledgeVars, sectionVars, fortuneVars>>
       \/ /\ part = "search" /\ SearchNext(SearchSubmissions)
          /\ UNCHANGED <<knowledgeVars, sectionVars, fortuneVars>>
       \/ /\ part = "snapshot" /\ SnapshotNext(SearchSubmissions)
          /\ UNCHANGED <<knowledgeVars, sectionVars, fortuneVars>>
       \/ /\ part = "shelf" /\ ShelfNext
          /\ UNCHANGED <<ruleVars, sectionVars, fortuneVars>>
       \/ /\ part = "reading" /\ ReadNext
          /\ UNCHANGED <<ruleVars, sectionVars, fortuneVars>>
       \/ /\ part = "sections" /\ split_document_sections
          /\ UNCHANGED <<ruleVars, knowledgeVars, fortuneVars>>
       \/ /\ part = "fortune" /\ FortuneNext
          /\ UNCHANGED <<ruleVars, knowledgeVars, sectionVars>>
=============================================================================
