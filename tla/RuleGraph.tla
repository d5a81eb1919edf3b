------------------------------ MODULE RuleGraph ------------------------------
(***************************************************************************)
(* The rule graph in Neo4j and the one session that writes it: a model     *)
(* reads a section of a document and submits rules; a submission is        *)
(* validated, merged with the rules that exist (merge_graph_extractions)   *)
(* and written as one transaction (GraphStore.apply_rules).                *)
(*                                                                         *)
(* A text is a member of Texts, and KeyOf its normalized key: texts that   *)
(* differ in case, width or punctuation only have the same key, and a text *)
(* without letters and digits has an empty one.  A key is a sequence of    *)
(* tokens, of which And and None are the words "and" and "none": the id of *)
(* a group is made of keys with these words between them, and without a    *)
(* mark of where a key ends.  A summary is its length.  A node other than  *)
(* a rule is its id; the properties of a relationship are the jobs that    *)
(* wrote it.                                                               *)
(***************************************************************************)
EXTENDS Naturals, FiniteSets, SequencesExt, Positions

CONSTANTS
    Tokens,                 \* the letters and words of keys
    And, None,              \* the words "and" and "none"
    Texts, KeyOf,           \* the texts and their keys
    Blank,                  \* a text of white space only
    Sections,               \* records [job, at]: the sections, each of a job
    MaxSubmits,             \* bound: submissions in all
    MaxFailures             \* bound: sessions that fail, with or without effect

ASSUME TextAssumption ==
    /\ KeyOf \in [Texts -> {KeyOf[t] : t \in Texts}]
    /\ Blank \in Texts /\ KeyOf[Blank] = <<>>
ASSUME KeyAssumption ==
    /\ And \in Tokens /\ None \in Tokens /\ And # None
    /\ \A t \in Texts : KeyOf[t] \in Seq(Tokens)
ASSUME RuleBoundAssumption == MaxSubmits \in Nat /\ MaxFailures \in Nat

VARIABLES
    graph,      \* [rules, edges, ranges]: what is committed in Neo4j
    session,    \* the organizer's session on a section
    done,       \* the sections that ended with a result
    counted,    \* rules_created, summed over the sections that ended
    submits,    \* bound: submissions so far
    failures    \* bound: failures so far
graphVars == <<graph, session, done, counted, submits, failures>>

TextKinds == {"RELATES_TO", "STRENGTHENS", "WEAKENS", "PRODUCES", "DOES_NOT_PROVE"}
LinkKinds == {"REFINES", "EXCEPTION_TO", "CONTRADICTS"}

NoId == <<>>    \* the empty existing_rule_id
NoKey == <<>>   \* the key of a text without letters and digits
\* The ids: a prefix and the key that is hashed.
RuleId(name) == <<"R", KeyOf[name]>>
ConditionId(text) == <<"C", KeyOf[text]>>
TextId(kind, text) ==
    CASE kind = "RELATES_TO" -> <<"K", KeyOf[text]>>
      [] kind \in {"STRENGTHENS", "WEAKENS"} -> ConditionId(text)
      [] OTHER -> <<"O", KeyOf[text]>>
KeysOf(texts) == [i \in DOMAIN texts |-> KeyOf[texts[i]]]
\* The key of a group: normalize_graph_key leaves nothing of its texts and the
\* words between them but letters, so that the key of the condition "x and y" is
\* that of the conditions x and y.  ("all" follows the rule's id, which is of a
\* fixed length, and "and" and "none" overlap with nothing they stand beside.)
JoinedFirst(keys) ==
    LET joined[n \in 0..Len(keys)] ==
            CASE n = 0 -> <<>> [] n = 1 -> keys[1] [] OTHER -> joined[n - 1] \o <<And>> \o keys[n]
    IN joined
Joined(keys) == JoinedFirst(keys)[Len(keys)]
GroupId_of_all_only(id, group) == <<"G", id, Joined(KeysOf(group.all_of)) \o <<None>>>>
GroupId(id, group) ==
    <<"G", id, Joined(KeysOf(group.all_of)) \o <<None>> \o Joined(KeysOf(group.none_of))>>

Rules == DOMAIN graph.rules
NoSubmission == [rules |-> {}, created |-> 0, merged |-> 0, relations |-> 0]

(***************************************************************************)
(* Validation and merge.                                                   *)
(***************************************************************************)

\* A rule as ExtractedGraphRule lets it be submitted: every field has its type,
\* and links are of the kinds that the schema lists.
GroupRecords == [all_of : Seq(Texts), none_of : Seq(Texts)]
IsCandidate(c) ==
    /\ c = [name |-> c.name, summary |-> c.summary, aliases |-> c.aliases, existing |-> c.existing,
            texts |-> c.texts, groups |-> c.groups, links |-> c.links]
    /\ c.name \in Texts /\ c.summary \in Nat /\ c.aliases \in Seq(Texts)
    /\ c.texts \in [TextKinds -> Seq(Texts)] /\ c.groups \in Seq(GroupRecords)
    /\ IsFiniteSet(c.links) /\ \A l \in c.links : l.kind \in LinkKinds

\* A condition group without any condition is dropped before validation; any
\* other that names an empty condition or contradicts itself refuses the input.
discard_empty_condition_groups(groups) ==
    At(groups, {i \in DOMAIN groups : groups[i].all_of # <<>> \/ groups[i].none_of # <<>>})
validate_group(group) ==
    LET positive == ToSet(KeysOf(group.all_of))
        negative == ToSet(KeysOf(group.none_of))
    IN NoKey \notin positive \cup negative /\ positive \cap negative = {}

unique_texts(texts) ==
    At(texts, {i \in DOMAIN texts : /\ KeyOf[texts[i]] # NoKey
                                    /\ \A j \in 1..(i - 1) : KeyOf[texts[j]] # KeyOf[texts[i]]})

condition_group(group) ==
    LET all_of == unique_texts(group.all_of)
        none_of == unique_texts(group.none_of)
    IN [all_of |-> At(all_of, {i \in DOMAIN all_of : KeyOf[all_of[i]] \notin ToSet(KeysOf(none_of))}),
        none_of |-> none_of]

\* Two groups that name the same conditions in another order are the same.
GroupKey(group) == <<ToSet(KeysOf(group.all_of)), ToSet(KeysOf(group.none_of))>>
unique_condition_groups(groups) ==
    At(groups, {i \in DOMAIN groups : \A j \in 1..(i - 1) : GroupKey(groups[j]) # GroupKey(groups[i])})

\* The rules that are known by a key, as their name or an alias.
KnownBy(rules, key) ==
    {r \in DOMAIN rules : \E t \in {rules[r].name} \cup ToSet(rules[r].aliases) : KeyOf[t] = key}

\* A rule that names an id must name one that exists; one that names none must
\* not be known yet, by its name or an alias (which an empty key never is).
RefusedRule_by_name_only(candidate, rules) ==
    IF candidate.existing # NoId THEN candidate.existing \notin DOMAIN rules
    ELSE KeyOf[candidate.name] # NoKey /\ KnownBy(rules, KeyOf[candidate.name]) # {}
RefusedRule(candidate, rules) ==
    IF candidate.existing # NoId THEN candidate.existing \notin DOMAIN rules
    ELSE \E t \in {candidate.name} \cup ToSet(candidate.aliases) :
            KeyOf[t] # NoKey /\ KnownBy(rules, KeyOf[t]) # {}

RuleIdOf(candidate) == IF candidate.existing # NoId THEN candidate.existing
                                                    ELSE RuleId(candidate.name)

\* What a first candidate of a rule starts from: the rule that exists, or itself.
FirstOf(candidate, rules) ==
    LET id == RuleIdOf(candidate)
    IN [name |-> IF id \in DOMAIN rules THEN rules[id].name ELSE candidate.name,
        summary |-> IF id \in DOMAIN rules THEN rules[id].summary ELSE candidate.summary,
        aliases |-> IF id \in DOMAIN rules THEN rules[id].aliases ELSE <<>>,
        texts |-> [k \in TextKinds |-> <<>>], groups |-> <<>>, links |-> {}]

\* Links to rules that are not in the graph, or to the rule itself, are dropped.
kept_links_to_any_rule(links, id, rules) == {l \in links : l.id \in DOMAIN rules}
kept_links(links, id, rules) == {l \in links : l.id \in DOMAIN rules \ {id}}

\* A candidate without a name or a summary is passed over.
PassedOver(candidate) == candidate.name = Blank \/ candidate.summary = 0

\* One candidate added to the change set merged so far.
AddCandidate(merged, candidate, rules) ==
    LET id == RuleIdOf(candidate)
        old == IF id \in DOMAIN merged THEN merged[id] ELSE FirstOf(candidate, rules)
        longer == id \notin DOMAIN rules /\ candidate.summary > old.summary
        groups == discard_empty_condition_groups(candidate.groups)
        new == [name |-> old.name,
                summary |-> IF longer THEN candidate.summary ELSE old.summary,
                aliases |-> (IF KeyOf[candidate.name] = KeyOf[old.name] THEN old.aliases
                             ELSE Append(old.aliases, candidate.name)) \o candidate.aliases,
                texts |-> [k \in TextKinds |-> old.texts[k] \o candidate.texts[k]],
                groups |-> old.groups \o [i \in DOMAIN groups |-> condition_group(groups[i])],
                links |-> old.links \cup kept_links(candidate.links, id, rules)]
    IN IF PassedOver(candidate) THEN merged
       ELSE [r \in DOMAIN merged \cup {id} |-> IF r = id THEN new ELSE merged[r]]

\* The change set after the first n candidates.
Merged(submission, rules) ==
    LET merged[n \in 0..Len(submission)] ==
            IF n = 0 THEN <<>> ELSE AddCandidate(merged[n - 1], submission[n], rules)
    IN merged

merge_graph_extractions(submission, rules) ==
    LET merged == Merged(submission, rules)[Len(submission)]
    IN [r \in DOMAIN merged |->
           [merged[r] EXCEPT !.aliases = unique_texts(@), !.groups = unique_condition_groups(@),
                             !.texts = [k \in TextKinds |-> unique_texts(@[k])]]]

Refused(submission, rules) ==
    \E c \in ToSet(submission) :
        \/ \E g \in ToSet(discard_empty_condition_groups(c.groups)) : ~validate_group(g)
        \/ ~PassedOver(c) /\ RefusedRule(c, rules)

(***************************************************************************)
(* The write.                                                              *)
(***************************************************************************)

Edge(from, kind, to) == [from |-> from, kind |-> kind, to |-> to]
SourceId(job) == <<"S", job>>
TextEdges(id, rule) ==
    UNION {{IF k \in {"STRENGTHENS", "WEAKENS"} THEN Edge(TextId(k, t), k, id)
                                                ELSE Edge(id, k, TextId(k, t)) :
               t \in ToSet(rule.texts[k])} : k \in TextKinds}
GroupEdges(id, group) ==
    {Edge(id, "HAS_CONDITION_GROUP", GroupId(id, group))}
    \cup {Edge(GroupId(id, group), "REQUIRES", ConditionId(t)) : t \in ToSet(group.all_of)}
    \cup {Edge(GroupId(id, group), "EXCLUDES", ConditionId(t)) : t \in ToSet(group.none_of)}

\* The relationships that a rule of a change set writes.  A link to a rule that
\* does not exist matches nothing and writes nothing.
write_named_relations(id, rule, rules) ==
    TextEdges(id, rule)
    \cup (UNION {GroupEdges(id, g) : g \in ToSet(rule.groups)})
    \cup {Edge(id, l.kind, l.id) : l \in {k \in rule.links : k.id \in rules}}
EdgesOf(change, job, rules) ==
    UNION {write_named_relations(id, change[id], rules) \cup {Edge(id, "SOURCED_FROM", SourceId(job))} :
           id \in DOMAIN change}

\* ON CREATE sets name, summary and aliases; ON MATCH adds the aliases that
\* are missing.
MergedRule_adds_again(id, rule, rules) ==
    IF id \notin DOMAIN rules
    THEN [name |-> rule.name, summary |-> rule.summary, aliases |-> rule.aliases]
    ELSE [rules[id] EXCEPT !.aliases = @ \o rule.aliases]
MergedRule(id, rule, rules) ==
    IF id \notin DOMAIN rules
    THEN [name |-> rule.name, summary |-> rule.summary, aliases |-> rule.aliases]
    ELSE LET missing == {i \in DOMAIN rule.aliases : rule.aliases[i] \notin ToSet(rules[id].aliases)}
         IN [rules[id] EXCEPT !.aliases = @ \o At(rule.aliases, missing)]

RangesOf(g, change, section, r) ==
    (IF r \in DOMAIN g.ranges THEN g.ranges[r] ELSE {})
    \cup (IF r \in DOMAIN change THEN {section} ELSE {})
write_change_set(g, change, section) ==
    LET ids == DOMAIN g.rules \cup DOMAIN change
        edges == EdgesOf(change, section.job, ids)
        written(e) == IF e \in DOMAIN g.edges THEN g.edges[e] ELSE {}
    IN [rules |-> [r \in ids |-> IF r \in DOMAIN change THEN MergedRule(r, change[r], g.rules)
                                                        ELSE g.rules[r]],
        edges |-> [e \in DOMAIN g.edges \cup edges |->
                      IF e \in edges THEN written(e) \cup {section.job} ELSE g.edges[e]],
        ranges |-> [r \in ids |-> RangesOf(g, change, section, r)]]

\* What apply_rules reports: the rules that the read before the transaction
\* found are merged, the others created; a rule counts for one relationship, and
\* so do each of its texts, groups, conditions and links.
Items(rule) ==
    {<<"SOURCED_FROM", 0, 0>>} \cup {<<l.kind, l.id, 0>> : l \in rule.links}
    \cup (UNION {{<<k, i, 0>> : i \in DOMAIN rule.texts[k]} : k \in TextKinds})
    \cup (UNION {{<<"HAS_CONDITION_GROUP", i, 0>>}
                 \cup {<<"REQUIRES", i, j>> : j \in DOMAIN rule.groups[i].all_of}
                 \cup {<<"EXCLUDES", i, j>> : j \in DOMAIN rule.groups[i].none_of} : i \in DOMAIN rule.groups})
apply_result(change, existing) ==
    [rules |-> DOMAIN change,
     created |-> Cardinality(DOMAIN change \ existing),
     merged |-> Cardinality(DOMAIN change \cap existing),
     relations |-> Cardinality(UNION {{id} \X Items(change[id]) : id \in DOMAIN change})]

(***************************************************************************)
(* The session.                                                            *)
(***************************************************************************)

NoSession == [pc |-> "none", section |-> [job |-> "", at |-> 0], given |-> <<>>,
              change |-> <<>>, existing |-> {}, result |-> NoSubmission]

GraphInit ==
    /\ graph = [rules |-> <<>>, edges |-> <<>>, ranges |-> <<>>]
    /\ session = NoSession /\ done = {}
    /\ counted = 0 /\ submits = 0 /\ failures = 0

\* A section that has no result yet is given to a new session.
extract_graph_section(s) ==
    /\ session.pc = "none" /\ s \in Sections \ done
    /\ session' = [NoSession EXCEPT !.pc = "model", !.section = s]
    /\ UNCHANGED <<graph, done, counted, submits, failures>>

\* The model calls submit_rule_graph.  What is refused is returned to it.
submit(submission) ==
    /\ session.pc = "model" /\ submits < MaxSubmits
    /\ submits' = submits + 1
    /\ ~Refused(submission, graph.rules)
    /\ LET change == merge_graph_extractions(submission, graph.rules)
       IN session' = IF change = <<>> THEN [session EXCEPT !.result = NoSubmission, !.pc = "submitted"]
                     ELSE [session EXCEPT !.given = submission, !.change = change, !.pc = "apply"]
    /\ UNCHANGED <<graph, done, counted, failures>>

\* apply_rules reads which of its rules exist, in a transaction of its own.
apply_rules_read ==
    /\ session.pc = "apply"
    /\ session' = [session EXCEPT !.pc = "write", !.existing = Rules \cap DOMAIN session.change]
    /\ UNCHANGED <<graph, done, counted, submits, failures>>

\* The transaction commits and the tool returns what it reports.
apply_rules_write ==
    /\ session.pc = "write"
    /\ graph' = write_change_set(graph, session.change, session.section)
    /\ session' = [NoSession EXCEPT !.pc = "submitted", !.section = session.section,
                      !.result = apply_result(session.change, session.existing)]
    /\ UNCHANGED <<done, counted, submits, failures>>

\* The model goes on after a submission, to submit more.
go_on ==
    /\ session.pc = "submitted"
    /\ session' = [session EXCEPT !.pc = "model"]
    /\ submits < MaxSubmits
    /\ UNCHANGED <<graph, done, counted, submits, failures>>

\* The model stops: the section ends with the report of the last submission.
finalize ==
    /\ session.pc = "submitted"
    /\ done' = done \cup {session.section}
    /\ counted' = counted + session.result.created
    /\ session' = NoSession
    /\ UNCHANGED <<graph, submits, failures>>

\* The session ends without a result (an error, a timeout, a kill); a commit in
\* flight has taken effect or not.  The section is given to another session.
fail ==
    /\ session.pc # "none" /\ failures < MaxFailures
    /\ failures' = failures + 1 /\ session' = NoSession
    /\ \/ UNCHANGED graph
       \/ session.pc = "write" /\ graph' = write_change_set(graph, session.change, session.section)
    /\ UNCHANGED <<done, counted, submits>>

\* The submissions are what the model may submit: sequences of rules.
GraphNext(submissions) ==
    \/ \E s \in Sections : extract_graph_section(s)
    \/ \E submission \in submissions : submit(submission)
    \/ apply_rules_read \/ apply_rules_write
    \/ go_on \/ finalize \/ fail

(***************************************************************************)
(* Properties.                                                             *)
(***************************************************************************)

\* Every variable keeps its shape: rules with known texts, relationships with
\* the jobs that wrote them, a session at one of its steps.
GraphTypeOK ==
    /\ \A r \in Rules : /\ graph.rules[r].name \in Texts /\ graph.rules[r].summary \in Nat \ {0}
                        /\ graph.rules[r].aliases \in Seq(Texts)
    /\ \A e \in DOMAIN graph.edges : graph.edges[e] \subseteq {s.job : s \in Sections}
    /\ graph.ranges \in [Rules -> SUBSET Sections]
    /\ session.pc \in {"none", "model", "apply", "write", "submitted"}
    /\ done \subseteq Sections /\ {counted, submits, failures} \subseteq Nat

\* "The agent never deletes or overwrites existing rules": names and summaries
\* stay, and aliases, relationships and section ranges are only added.
RulesKeep ==
    [][/\ \A r \in Rules : /\ graph'.rules[r].name = graph.rules[r].name
                           /\ graph'.rules[r].summary = graph.rules[r].summary
                           /\ IsPrefix(graph.rules[r].aliases, graph'.rules[r].aliases)
                           /\ graph.ranges[r] \subseteq graph'.ranges[r]
       /\ \A e \in DOMAIN graph.edges : graph.edges[e] \subseteq graph'.edges[e]]_graph

\* A rule is created only under a name and aliases that no rule was known by:
\* the model has to decide whether it means a rule that exists.
CreatedIsUnknown ==
    [][\A r \in DOMAIN graph'.rules \ Rules :
          LET rule == graph'.rules[r]
          IN \A t \in {rule.name} \cup ToSet(rule.aliases) :
                KeyOf[t] # NoKey => KnownBy(graph.rules, KeyOf[t]) = {}]_graph

\* Names tell rules apart, the id is that of the name, and a rule never lists
\* two spellings of one alias.
OneRulePerName ==
    \A r \in Rules : /\ r = RuleId(graph.rules[r].name)
                     /\ IsInjective(KeysOf(graph.rules[r].aliases))

\* A relationship joins what exists: no rule is linked to a missing one or to
\* itself, and every rule is sourced from the jobs of its section ranges.
EdgesJoin ==
    /\ \A e \in DOMAIN graph.edges :
          e.kind \in LinkKinds => {e.from, e.to} \subseteq Rules /\ e.from # e.to
    /\ \A r \in Rules : /\ graph.ranges[r] # {}
                        /\ {e.to : e \in {d \in DOMAIN graph.edges : d.kind = "SOURCED_FROM" /\ d.from = r}}
                           = {SourceId(s.job) : s \in graph.ranges[r]}

\* What a group requires and what it excludes, of the keys of its conditions.
ConditionsOf(g, group) ==
    LET of(kind) == {e.to[2] : e \in {d \in DOMAIN g.edges : d.from = group /\ d.kind = kind}}
    IN <<of("REQUIRES"), of("EXCLUDES")>>
\* None of the keys contains a word that joins the keys of a group.
Wordless(keys) == \A k \in keys : {And, None} \cap ToSet(k) = {}

\* Groups of conditions are never mixed up, as far as none of the conditions
\* that meet in one has the word "and" or "none" in it: where a submission writes
\* a group there are then the conditions of that group and no others, none both
\* required and excluded, and the groups written before keep theirs.  Of other
\* groups nothing is claimed: those of [x, y] and of [x and y] of one rule have
\* one id, and their conditions come together.
ConditionsStayApart ==
    [][/\ \A r \in DOMAIN session.change : \A group \in ToSet(session.change[r].groups) :
             LET now == ConditionsOf(graph', GroupId(r, group))
             IN Wordless(now[1] \cup now[2]) =>
                   now = GroupKey(group) /\ now[1] \cup now[2] # {} /\ now[1] \cap now[2] = {}
       /\ \A e \in DOMAIN graph.edges :
             LET now == ConditionsOf(graph', e.to)
             IN e.kind = "HAS_CONDITION_GROUP" /\ Wordless(now[1] \cup now[2]) =>
                   now = ConditionsOf(graph, e.to)]_graph

\* What a submission reports is what its transaction did, although the rules
\* that exist are read before it: rules created and merged, and, unless the words
\* "and" and "none" in conditions may have brought two groups together, one count
\* for every relationship.
GroupsAreWordless(change) ==
    \A r \in DOMAIN change : \A group \in ToSet(change[r].groups) :
        Wordless(GroupKey(group)[1] \cup GroupKey(group)[2])
ReportIsExact ==
    [][session.pc = "write" /\ session'.pc = "submitted" =>
         /\ session'.result.created = Cardinality(DOMAIN graph'.rules \ Rules)
         /\ session'.result.merged = Cardinality(session'.result.rules \cap Rules)
         /\ GroupsAreWordless(session.change) =>
               session'.result.relations =
                  Cardinality(EdgesOf(session.change, session.section.job, DOMAIN graph'.rules))]_<<graph, session>>

\* A section that is repeated after its rules were committed (its session
\* failed, the process was killed) writes nothing again when the model names the
\* rules it finds: not an alias, a relationship or a range more.
RepeatAddsNothing ==
    session.pc = "write" =>
        LET once == write_change_set(graph, session.change, session.section)
            again == [i \in DOMAIN session.given |->
                         [session.given[i] EXCEPT !.existing = RuleIdOf(session.given[i]), !.links = {}]]
        IN /\ ~Refused(again, once.rules)
           /\ once = write_change_set(once, merge_graph_extractions(again, once.rules),
                                      session.section)

\* Over failed, repeated and several submissions, no created rule is ever
\* counted twice in the progress of the job.
CreatedCountedOnce == counted <= Cardinality(Rules)

\* The graph after any submissions, failed or repeated: rules told apart by
\* their names, relationships between what exists, and no rule counted twice in
\* the progress of a job.
GraphIsSound == GraphTypeOK /\ OneRulePerName /\ EdgesJoin /\ CreatedCountedOnce

\* What a write may do to the graph: nothing is lost, no rule is created that was
\* known, no group mixed with another, and what is reported is what was done.
WritesAreSound == RulesKeep /\ CreatedIsUnknown /\ ConditionsStayApart /\ ReportIsExact
=============================================================================
