----------------------------- MODULE RuleSearch -----------------------------
(***************************************************************************)
(* The readers of the rule graph while the organizer writes it: the        *)
(* hybrid search of the agents (RuleGraphReadCapability._search over       *)
(* RuleGraphHybridSearch), which reads the graph twice and shares one      *)
(* cache of embedding vectors, and the administrator's snapshot, which     *)
(* reads nodes and relationships apart.                                    *)
(*                                                                         *)
(* A vector is the search text it was computed from, and a search text is  *)
(* the summary of its rule.  How BM25 and the vectors rank is left open:   *)
(* any order of the rules they return.  A query is its key and its terms;  *)
(* matches in the words of summaries are left out.                         *)
(***************************************************************************)
EXTENDS RuleGraph

CONSTANTS
    Readers,      \* agent runs that search, administrators that look
    Queries,        \* records [key, terms]
    SharesToken,    \* pairs of keys that share a word, two or three characters
    ContainedIn,       \* pairs of keys one of which contains the other
    RecallLimit,    \* BM25_RECALL_LIMIT and VECTOR_RECALL_LIMIT
    ResultLimit     \* SEARCH_RESULT_LIMIT

ASSUME LimitAssumption == RecallLimit \in Nat /\ ResultLimit \in Nat /\ ResultLimit <= RecallLimit

VARIABLES
    cache,              \* _embedding_cache: the text each cached vector is of
    embeddingError,     \* _embedding_error
    search              \* what each reader has read: an agent run its search, the
                        \* administrator the nodes and then the relationships
searchVars == <<cache, embeddingError, search>>

(***************************************************************************)
(* What the queries return.                                                *)
(***************************************************************************)

\* RULE_SUMMARIES_QUERY: a rule with the names around it, group conditions and
\* modifying conditions together.
Summary(g, r) ==
    LET to(from, kinds) == {e.to[2] : e \in {d \in DOMAIN g.edges : d.from = from /\ d.kind \in kinds}}
        groups == {e.to : e \in {d \in DOMAIN g.edges : d.from = r /\ d.kind = "HAS_CONDITION_GROUP"}}
        modifiers == {e.from[2] : e \in {d \in DOMAIN g.edges : d.to = r /\ d.kind \in {"STRENGTHENS", "WEAKENS"}}}
    IN [name |-> KeyOf[g.rules[r].name], aliases |-> ToSet(KeysOf(g.rules[r].aliases)),
        summary |-> g.rules[r].summary,
        concepts |-> to(r, {"RELATES_TO"}), outcomes |-> to(r, {"PRODUCES", "DOES_NOT_PROVE"}),
        conditions |-> modifiers \cup UNION {to(group, {"REQUIRES", "EXCLUDES"}) : group \in groups}]
list_rule_summaries(g) == [r \in DOMAIN g.rules |-> Summary(g, r)]

\* RULE_NEIGHBORHOODS_QUERY: the relationships of a rule, and those of its
\* condition groups to their conditions.
get_rule_neighborhood_one_step(g, r) == {e \in DOMAIN g.edges : r \in {e.from, e.to}}
get_rule_neighborhood(g, r) ==
    {e \in DOMAIN g.edges :
        \/ r \in {e.from, e.to}
        \/ e.kind \in {"REQUIRES", "EXCLUDES"} /\ Edge(r, "HAS_CONDITION_GROUP", e.from) \in DOMAIN g.edges}

(***************************************************************************)
(* Matching and ranking.                                                   *)
(***************************************************************************)

exact_priority(query, rule) ==
    IF query.key = NoKey THEN 0
    ELSE IF query.key = rule.name THEN 2
    ELSE IF query.key \in rule.aliases THEN 1 ELSE 0

Fields(rule) ==
    {<<"Rule", rule.name>>} \cup ({"Alias"} \X rule.aliases) \cup ({"Condition"} \X rule.conditions)
    \cup ({"Outcome"} \X rule.outcomes) \cup ({"Concept"} \X rule.concepts)

\* The names of a rule that match: equal to the query or one of its terms, or
\* one within the other.
search_evidence(query, rule) ==
    {f \in Fields(rule) : /\ f[2] # NoKey
                          /\ \E t \in {query.key} \cup query.terms :
                                t = f[2] \/ <<t, f[2]>> \in ContainedIn}
hybrid_scored_rule(query, rule, hit) ==
    LET evidence == search_evidence(query, rule)
    IN IF evidence # {} THEN evidence
       ELSE IF hit.bm25 # 0 THEN {<<"BM25", query.key>>}
       ELSE IF hit.vector # 0 THEN {<<"Vector", rule.name>>} ELSE {}

bm25_matches(query, rules) ==
    {r \in DOMAIN rules : \E t \in query.terms, f \in Fields(rules[r]) :
                              t = f[2] \/ <<t, f[2]>> \in SharesToken}

\* The rankings that a set of matching rules may get, cut at the recall limit.
Cut(ranking, limit) == SubSeq(ranking, 1, IF Len(ranking) < limit THEN Len(ranking) ELSE limit)
Rankings(rules) == {Cut(s, RecallLimit) : s \in SetToSeqs(rules)}
RankIn(ranking, r) == IF r \in ToSet(ranking) THEN CHOOSE i \in DOMAIN ranking : ranking[i] = r ELSE 0

\* Reciprocal rank fusion: 1 / (5 + rank) for each list a rule is in, as a
\* fraction, of which the greater goes first.
RRF_RANK_CONSTANT == 5
RrfScore(bm25, vector) ==
    LET b == RRF_RANK_CONSTANT + bm25  v == RRF_RANK_CONSTANT + vector
    IN IF bm25 = 0 THEN (IF vector = 0 THEN <<0, 1>> ELSE <<1, v>>)
       ELSE IF vector = 0 THEN <<1, b>> ELSE <<b + v, b * v>>
Higher(x, y) == x[1] * y[2] > y[1] * x[2]

\* Whether hit x must stand before hit y: exact matches are pinned on top, names
\* before aliases, and the rest goes by its fused score.
Before(x, y) ==
    \/ x.priority > y.priority
    \/ x.priority = 0 /\ y.priority = 0
       /\ Higher(RrfScore(x.bm25, x.vector), RrfScore(y.bm25, y.vector))

\* The hits of one query: every exact match and everything either list recalled,
\* in order (ties by name), cut at the limit.
HitSet(query, rules, bm25, vector) ==
    {h \in {[rule |-> r, priority |-> exact_priority(query, rules[r]),
             bm25 |-> RankIn(bm25, r), vector |-> RankIn(vector, r)] : r \in DOMAIN rules} :
        h.priority > 0 \/ h.bm25 > 0 \/ h.vector > 0}
Ordered(hits) ==
    {s \in SetToSeqs(hits) : \A i, j \in DOMAIN s : i < j => ~Before(s[j], s[i])}

\* The cache once the vectors of these rules are computed: the entries of other
\* rules are dropped, those whose text changed are computed again.
document_embeddings_by_id(old, rules) ==
    [r \in DOMAIN rules |-> IF r \in DOMAIN old THEN old[r] ELSE rules[r]]
document_embeddings(old, rules) ==
    [r \in DOMAIN rules |-> IF r \in DOMAIN old /\ old[r] = rules[r] THEN old[r] ELSE rules[r]]

(***************************************************************************)
(* What a found rule is shown with.                                        *)
(***************************************************************************)

\* The rule as the first read found it, with what the second read finds around
\* it; names without a key are left out.
project_search_rule(r, rule, edges) ==
    LET out(kind) == {e.to[2] : e \in {d \in edges : d.from = r /\ d.kind = kind}} \ {NoKey}
        into(kind) == {e.from[2] : e \in {d \in edges : d.to = r /\ d.kind = kind}} \ {NoKey}
        groups == {e.to : e \in {d \in edges : d.from = r /\ d.kind = "HAS_CONDITION_GROUP"}}
        of(group, kind) == {e.to[2] : e \in {d \in edges : d.from = group /\ d.kind = kind}}
    IN [rule |-> r, name |-> rule.name, aliases |-> rule.aliases,
        condition_groups |-> {[all_of |-> of(g, "REQUIRES"), none_of |-> of(g, "EXCLUDES")] : g \in groups},
        strengthened_by |-> into("STRENGTHENS"), weakened_by |-> into("WEAKENS"),
        concepts |-> out("RELATES_TO"), outcomes |-> out("PRODUCES"),
        does_not_prove |-> out("DOES_NOT_PROVE"), sources |-> out("SOURCED_FROM"),
        related_rules |-> {<<e.kind, e.from, e.to>> : e \in {d \in edges : d.kind \in LinkKinds}}]

(***************************************************************************)
(* The readers.                                                            *)
(***************************************************************************)

NoSearch == [pc |-> "idle", query |-> <<>>, rules |-> <<>>, hits |-> <<>>, vectors |-> <<>>, items |-> <<>>,
             nodes |-> {}, relationships |-> {}]

SearchInit ==
    /\ GraphInit
    /\ cache = <<>> /\ embeddingError = FALSE
    /\ search = [s \in Readers |-> NoSearch]

\* search_rule_graph begins: the rules are read.
search_list(s, query) ==
    /\ search[s].pc = "idle"
    /\ search' = [search EXCEPT ![s] = [NoSearch EXCEPT !.pc = "rank", !.query = query,
                                            !.rules = list_rule_summaries(graph)]]
    /\ UNCHANGED <<graphVars, cache, embeddingError>>

\* The hits of search s with these vectors (none when they are not available).
Ranked(s, vectors) ==
    \E bm25 \in Rankings(bm25_matches(search[s].query, search[s].rules)),
       vector \in Rankings(DOMAIN vectors) :
    \E order \in Ordered(HitSet(search[s].query, search[s].rules, bm25, vector)) :
        search' = [search EXCEPT ![s].pc = "read", ![s].hits = Cut(order, ResultLimit),
                                 ![s].vectors = vectors]

\* _search_sync, in a thread that holds the lock: ranked with the vectors ...
search_sync(s) ==
    /\ search[s].pc = "rank" /\ ~embeddingError
    /\ cache' = document_embeddings(cache, search[s].rules)
    /\ Ranked(s, cache')
    /\ UNCHANGED <<graphVars, embeddingError>>

\* ... or, from the first failure of the model on, without them: it failed on the
\* texts (other rules' entries are dropped, no new ones added) or on the query.
search_sync_without_vectors(s) ==
    /\ search[s].pc = "rank"
    /\ embeddingError' = TRUE
    /\ cache' \in IF embeddingError THEN {cache}
                  ELSE {[r \in DOMAIN cache \cap DOMAIN search[s].rules |-> cache[r]],
                        document_embeddings(cache, search[s].rules)}
    /\ Ranked(s, <<>>)
    /\ UNCHANGED <<graphVars>>

\* The neighborhoods of the hits are read and the answer put together.
search_answer(s) ==
    /\ search[s].pc = "read"
    /\ search' = [search EXCEPT ![s].pc = "answered",
                     ![s].items = [i \in DOMAIN search[s].hits |->
                         LET r == search[s].hits[i].rule
                         IN project_search_rule(r, search[s].rules[r], get_rule_neighborhood(graph, r))]]
    /\ UNCHANGED <<graphVars, cache, embeddingError>>

\* The process restarts: the organizer's session and the searches end, and the
\* cache is warmed with the rules of the graph, or the model fails at once.
restart ==
    /\ fail
    /\ search' = [s \in Readers |-> NoSearch]
    /\ \E broken \in BOOLEAN :
          /\ broken => DOMAIN graph'.rules # {}
          /\ embeddingError' = broken
          /\ cache' = IF broken THEN <<>> ELSE document_embeddings(<<>>, list_rule_summaries(graph'))

\* The administrator's snapshot of the graph: nodes first, relationships in
\* another query, of which those that join nodes already read are kept.
EndsOf(edges) == UNION {{e.from, e.to} : e \in edges}
snapshot_nodes(s) ==
    /\ search[s].pc = "idle"
    /\ search' = [search EXCEPT ![s].pc = "nodes", ![s].nodes = Rules \cup EndsOf(DOMAIN graph.edges)]
    /\ UNCHANGED <<graphVars, cache, embeddingError>>
Shown(edges, nodes) == {e \in edges : {e.from, e.to} \subseteq nodes}
snapshot_relationships(s) ==
    /\ search[s].pc = "nodes"
    /\ search' = [search EXCEPT ![s].pc = "shown", ![s].relationships = Shown(DOMAIN graph.edges, search[s].nodes)]
    /\ UNCHANGED <<graphVars, cache, embeddingError>>

SearchNext(submissions) ==
    \/ GraphNext(submissions) /\ UNCHANGED searchVars
    \/ \E s \in Readers : \/ \E query \in Queries : search_list(s, query)
                          \/ search_sync(s) \/ search_sync_without_vectors(s)
                          \/ search_answer(s)
    \/ restart
SnapshotNext(submissions) ==
    \/ GraphNext(submissions) /\ UNCHANGED searchVars
    \/ \E s \in Readers : snapshot_nodes(s) \/ snapshot_relationships(s)

(***************************************************************************)
(* Properties.                                                             *)
(***************************************************************************)

\* The cache holds texts of rules that exist, hits are within the limit.
SearchTypeOK ==
    /\ DOMAIN cache \subseteq Rules /\ embeddingError \in BOOLEAN
    /\ \A s \in Readers : /\ search[s].pc \in {"idle", "rank", "read", "answered", "nodes", "shown"}
                          /\ search[s].pc = "answered" => Len(search[s].items) <= ResultLimit
                          /\ DOMAIN search[s].rules \subseteq Rules

\* A search ranks with the vectors of the texts it read, although searches that
\* read the graph earlier or later update the same cache: never with the vector
\* of a text that its rule no longer had, or did not have yet.
VectorsAreCurrent ==
    \A s \in Readers : search[s].vectors \in {<<>>, search[s].rules}

\* Exact matches are pinned on top, names before aliases; the rest follows by
\* fused rank, no rule twice, and no rule left out is better than one shown.
RankedRight ==
    \A s \in Readers : search[s].pc \in {"read", "answered"} => LET hits == search[s].hits IN
        /\ \A i, j \in DOMAIN hits : i < j =>
              /\ hits[i].rule # hits[j].rule
              /\ hits[i].priority >= hits[j].priority
              /\ hits[i].priority + hits[j].priority = 0 /\ hits[j].bm25 > 0 /\ hits[j].vector > 0
                 => hits[i].bm25 \in 1..(hits[j].bm25 - 1) \/ hits[i].vector \in 1..(hits[j].vector - 1)
        /\ \A r \in DOMAIN search[s].rules :
              exact_priority(search[s].query, search[s].rules[r]) > 0
              => Len(hits) = ResultLimit \/ \E i \in DOMAIN hits : hits[i].rule = r

\* A failing embedding model costs the vectors only: what BM25 finds is still
\* answered when there is room, and vectors are not used again.
NothingFoundIsLost ==
    \A s \in Readers : search[s].pc \in {"read", "answered"} =>
        /\ Len(search[s].hits) < ResultLimit =>
              bm25_matches(search[s].query, search[s].rules)
              \subseteq {search[s].hits[i].rule : i \in DOMAIN search[s].hits}
        /\ search[s].vectors = <<>> => \A i \in DOMAIN search[s].hits : search[s].hits[i].vector = 0

\* Every hit is explained, and what explains it can be seen in what is shown,
\* although the two are read from the graph at different times.
EvidenceIsShown ==
    \A s \in Readers : search[s].pc = "answered" => \A i \in DOMAIN search[s].items :
        LET hit == search[s].hits[i]  item == search[s].items[i]
            conditions == item.strengthened_by \cup item.weakened_by
                          \cup UNION {g.all_of \cup g.none_of : g \in item.condition_groups}
            evidence == hybrid_scored_rule(search[s].query, search[s].rules[hit.rule], hit)
        IN /\ evidence # {}
           /\ \A e \in evidence : CASE e[1] = "Rule" -> e[2] = item.name
                                    [] e[1] = "Alias" -> e[2] \in item.aliases
                                    [] e[1] = "Condition" -> e[2] \in conditions
                                    [] e[1] = "Outcome" -> e[2] \in item.outcomes \cup item.does_not_prove
                                    [] e[1] = "Concept" -> e[2] \in item.concepts
                                    [] OTHER -> TRUE

\* The administrator's view never holds a relationship to a node it lacks.
SnapshotIsClosed ==
    \A s \in Readers : EndsOf(search[s].relationships) \subseteq search[s].nodes

\* Searches beside one another, with and without vectors: each ranks by the
\* texts it has read, in the order promised, and loses nothing it has found.
SearchesAreSound == SearchTypeOK /\ VectorsAreCurrent /\ RankedRight /\ NothingFoundIsLost

\* What a reader gets from two reads of the graph fits together, whatever the
\* organizer committed between them.
ReadsFitTogether == EvidenceIsShown /\ SnapshotIsClosed
=============================================================================
