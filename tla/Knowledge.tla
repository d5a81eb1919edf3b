----------------------------- MODULE Knowledge ------------------------------
(***************************************************************************)
(* The administrator's TXT documents and the session in which an agent     *)
(* searches and reads them: KnowledgeRepository with its routes, and       *)
(* KnowledgeToolSession.                                                   *)
(*                                                                         *)
(* A file is what decides whether it can be read; its text, for the tools, *)
(* is its length, its newlines and where each query occurs.                *)
(***************************************************************************)
EXTENDS Paging, Positions, SequencesExt

CONSTANTS
    Files,              \* records [digest, bom, decodes, readable, text]
    Uploads,            \* those that are offered for upload
    Curators,           \* administrators' requests in flight
    MaxDocuments,       \* bound: rows ever inserted
    MaxAuditErrors,     \* bound: failing commits
    SearchQueries,      \* sequences of queries: records [text, chars]
    MaxHitsPerGroup, MaxTrackedHits, ResultsPerPage

ASSUME KnowledgeAssumption == MaxDocuments \in Nat

\* Uploads are files.  A query has characters, none of them a newline (the input
\* model refuses those), and is found only where all of them are in the text.
ASSUME FilesAssumption == Uploads \subseteq Files /\ \A file \in Files : IsText(file.text)
ASSUME QueryAssumption ==
    /\ MaxHitsPerGroup \in Nat \ {0} /\ MaxTrackedHits \in Nat /\ ResultsPerPage \in Nat
    /\ \A queries \in SearchQueries :
          /\ queries \in Seq(Range(queries))
          /\ \A i \in DOMAIN queries :
                /\ queries[i].chars \in 1..MaxQueryChars
                /\ \A file \in Files :
                      \A p \in file.text.found[queries[i].text] :
                          /\ p \in Nat /\ p + queries[i].chars <= file.text.length
                          /\ Newlines(file.text, p, p + queries[i].chars) = {}

VARIABLES
    documents,      \* the rows, by number: the file and the label of its encoding
    inserted,       \* how many rows were ever inserted
    audited,        \* the audit rows: <<"uploaded" or "deleted", row>>
    auditErrors,    \* bound: commits that failed
    curator,        \* the routes between their transactions
    corpus,         \* the documents an agent session holds: a sequence of files
    hits,           \* what its last search found
    page            \* what it read last: its source and where it begins
shelfVars == <<documents, inserted, audited, auditErrors, curator>>
readingVars == <<corpus, hits, page>>
knowledgeVars == <<shelfVars, readingVars>>

(***************************************************************************)
(* Encodings.                                                              *)
(***************************************************************************)

CandidateEncodings(file) ==
    CASE file.bom = "utf-8" -> <<"utf-8-sig">>
      [] file.bom = "little" -> <<"utf-16-le">>
      [] file.bom = "big" -> <<"utf-16-be">>
      [] OTHER -> <<"utf-8", "gb18030">>

\* What decode_stored_txt accepts: bytes of that encoding whose text is not
\* empty, binary or full of control characters.
decode_stored_txt(file, encoding) == encoding \in file.decodes \cap file.readable

\* The first of the candidates in a set, or "refused" when none is in it.
FirstAccepted(candidates, accepted) ==
    LET at == {i \in DOMAIN candidates : candidates[i] \in accepted}
    IN IF at = {} THEN "refused" ELSE candidates[CHOOSE i \in at : \A j \in at : i <= j]

detect_by_decoding_only(file) == FirstAccepted(CandidateEncodings(file), file.decodes)
detect_txt_encoding(file) == FirstAccepted(CandidateEncodings(file), file.decodes \cap file.readable)

(***************************************************************************)
(* The routes of documents.                                                *)
(***************************************************************************)

Held(digest) == {d \in DOMAIN documents : documents[d].file.digest = digest}
NoCurator == [pc |-> "idle", file |-> <<>>, row |-> 0, answer |-> "none"]
Answer(c, status) == curator' = [curator EXCEPT ![c] = [NoCurator EXCEPT !.pc = "done", !.answer = status]]

\* The documents to begin with are one of these sequences of files.
KnowledgeInit(shelves) ==
    /\ \E shelf \in shelves :
          /\ documents = [d \in DOMAIN shelf |-> [file |-> shelf[d], encoding |-> detect_txt_encoding(shelf[d])]]
          /\ inserted = Len(shelf) /\ audited = {<<"uploaded", d>> : d \in DOMAIN shelf}
    /\ auditErrors = 0
    /\ curator = [c \in Curators |-> NoCurator]
    /\ corpus = <<>> /\ hits = <<>> /\ page = [source |-> 0, start |-> 0]

\* upload_document up to the look for a document with the same digest.
upload_check(c, file) ==
    /\ curator[c].pc = "idle"
    /\ IF detect_txt_encoding(file) = "refused" THEN Answer(c, "400")
       ELSE IF Held(file.digest) # {} THEN Answer(c, "409")
       ELSE curator' = [curator EXCEPT ![c] = [NoCurator EXCEPT !.pc = "insert", !.file = file]]
    /\ UNCHANGED <<documents, inserted, audited, auditErrors, readingVars>>

\* INSERT, refused by the unique digest when another upload was faster, and the
\* audit row, committed together.
MayInsert(file) == Held(file.digest) = {}
upload_insert(c) ==
    /\ curator[c].pc = "insert" /\ inserted < MaxDocuments
    /\ LET file == curator[c].file  row == inserted + 1
       IN IF ~MayInsert(file) THEN Answer(c, "409") /\ UNCHANGED <<documents, inserted, audited>>
          ELSE /\ documents' = [d \in DOMAIN documents \cup {row} |->
                                   IF d = row THEN [file |-> file, encoding |-> detect_txt_encoding(file)]
                                   ELSE documents[d]]
               /\ inserted' = row /\ audited' = audited \cup {<<"uploaded", row>>}
               /\ curator' = [curator EXCEPT ![c] = [NoCurator EXCEPT !.pc = "refresh", !.row = row]]
    /\ UNCHANGED <<auditErrors, readingVars>>

\* The refresh after the commit finds the row, or it was deleted meanwhile.
upload_refresh(c) ==
    /\ curator[c].pc = "refresh"
    /\ Answer(c, IF curator[c].row \in DOMAIN documents THEN "201" ELSE "500")
    /\ UNCHANGED <<documents, inserted, audited, auditErrors, readingVars>>

delete_get(c, d) ==
    /\ curator[c].pc = "idle"
    /\ IF d \in DOMAIN documents
       THEN curator' = [curator EXCEPT ![c] = [NoCurator EXCEPT !.pc = "delete", !.row = d]]
       ELSE Answer(c, "404")
    /\ UNCHANGED <<documents, inserted, audited, auditErrors, readingVars>>

\* DELETE (of no row, when another deletion was faster: a warning only) and the
\* audit row, committed together.
delete_commit(c) ==
    /\ curator[c].pc = "delete"
    /\ documents' = [d \in DOMAIN documents \ {curator[c].row} |-> documents[d]]
    /\ audited' = audited \cup {<<"deleted", curator[c].row>>}
    /\ Answer(c, "204")
    /\ UNCHANGED <<inserted, auditErrors, readingVars>>

\* The audit row, or the commit, fails: nothing of the transaction stays.
commit_fails(c) ==
    /\ curator[c].pc \in {"insert", "delete"} /\ auditErrors < MaxAuditErrors
    /\ auditErrors' = auditErrors + 1
    /\ Answer(c, "500")
    /\ UNCHANGED <<documents, inserted, audited, readingVars>>

(***************************************************************************)
(* The session of an agent.                                                *)
(***************************************************************************)

\* KnowledgeToolSession: every document is decoded, or no session begins.
open_session ==
    /\ corpus = <<>> /\ documents # <<>>
    /\ \A d \in DOMAIN documents : decode_stored_txt(documents[d].file, documents[d].encoding)
    /\ corpus' \in {[i \in DOMAIN order |-> documents[order[i]].file] : order \in SetToSeqs(DOMAIN documents)}
    /\ UNCHANGED <<shelfVars, hits, page>>

\* The matches of a query in a source, from left to right: each is found from
\* where the one before it ends.
Group(query, source) ==
    LET found == corpus[source].text.found[query.text]
        matched[p \in found] == \A q \in found : q < p /\ p < q + query.chars => ~matched[q]
        all == InOrder([p \in {q \in found : matched[q]} |->
                           [source |-> source, position |-> p, chars |-> query.chars]])
    IN SubSeq(all, 1, Smaller(Len(all), MaxHitsPerGroup))

\* A group for each query in each of the chosen sources.
Groups(queries, sources) ==
    [n \in 1..(Len(queries) * Len(sources)) |->
        Group(queries[((n - 1) \div Len(sources)) + 1], sources[((n - 1) % Len(sources)) + 1])]

\* The first matches of all groups, then the second ones, and so on.
Interleaved_by_group(groups) ==
    LET turns == {n \in 1..(MaxHitsPerGroup * Len(groups)) :
                     ((n - 1) % MaxHitsPerGroup) + 1 <= Len(groups[((n - 1) \div MaxHitsPerGroup) + 1])}
    IN InOrder([n \in turns |-> groups[((n - 1) \div MaxHitsPerGroup) + 1][((n - 1) % MaxHitsPerGroup) + 1]])
GroupOf(groups, n) == ((n - 1) % Len(groups)) + 1
RoundOf(groups, n) == ((n - 1) \div Len(groups)) + 1
Turns(groups) == {n \in 1..(MaxHitsPerGroup * Len(groups)) : RoundOf(groups, n) <= Len(groups[GroupOf(groups, n)])}
Interleaved(groups) == InOrder([n \in Turns(groups) |-> groups[GroupOf(groups, n)][RoundOf(groups, n)]])

SamePlace(x, y) == x.source = y.source /\ x.position = y.position
find_hits(groups) ==
    LET all == Interleaved(groups)
        new == At(all, {i \in DOMAIN all : \A j \in 1..(i - 1) : ~SamePlace(all[j], all[i])})
    IN SubSeq(new, 1, Smaller(Len(new), MaxTrackedHits))

\* search_knowledge: a page of hits, each with a context and a cursor.
Cursor(hit) == [source |-> hit.source, start |-> page_start_for_match(corpus[hit.source].text, hit.position)]
search_knowledge(queries, sources) ==
    /\ corpus # <<>> /\ hits = <<>>
    /\ LET found == find_hits(Groups(queries, sources))
       IN hits' = SubSeq(found, 1, Smaller(Len(found), ResultsPerPage))
    /\ UNCHANGED <<shelfVars, corpus, page>>

\* read_knowledge with the cursor of a hit, or of the page before or after the
\* one read last.  (A cursor means the same whenever it is used: older ones add
\* nothing.)
read_hit(i) ==
    /\ i \in DOMAIN hits /\ page' = Cursor(hits[i])
    /\ UNCHANGED <<shelfVars, corpus, hits>>
read_next ==
    /\ page.source # 0
    /\ LET text == corpus[page.source].text
       IN page_end(text, page.start) < text.length /\ page' = [page EXCEPT !.start = page_end(text, @)]
    /\ UNCHANGED <<shelfVars, corpus, hits>>
read_previous ==
    /\ page.source # 0 /\ page.start > 0
    /\ page' = [page EXCEPT !.start = previous_page_start(corpus[page.source].text, @)]
    /\ UNCHANGED <<shelfVars, corpus, hits>>

SourceChoices == {[i \in DOMAIN corpus |-> i]} \cup {<<i>> : i \in DOMAIN corpus}
ReadNext ==
    \/ open_session
    \/ \E queries \in SearchQueries, sources \in SourceChoices : search_knowledge(queries, sources)
    \/ \E i \in DOMAIN hits : read_hit(i)
    \/ read_next \/ read_previous
ShelfNext ==
    \E c \in Curators :
        \/ \E file \in Uploads : upload_check(c, file)
        \/ upload_insert(c) \/ upload_refresh(c)
        \/ \E d \in 1..inserted : delete_get(c, d)
        \/ delete_commit(c) \/ commit_fails(c)
        \/ curator[c].pc = "done" /\ curator' = [curator EXCEPT ![c] = NoCurator]
           /\ UNCHANGED <<documents, inserted, audited, auditErrors, readingVars>>

(***************************************************************************)
(* Properties.                                                             *)
(***************************************************************************)

\* Every variable keeps its type: rows that were inserted, answers of the
\* routes, a page of a source that begins within its text.
KnowledgeTypeOK ==
    /\ DOMAIN documents \subseteq 1..inserted /\ inserted \in 0..MaxDocuments
    /\ \A c \in Curators : curator[c].pc \in {"idle", "insert", "refresh", "delete", "done"}
    /\ \A i \in DOMAIN corpus : corpus[i] \in Files /\ IsText(corpus[i].text)
    /\ page.source \in 0..Len(corpus)
    /\ page.source # 0 => page.start \in 0..(corpus[page.source].text.length - 1)

\* No file is stored twice, although two uploads of it may both have looked for
\* it before either was inserted.
NoTwins == \A d, e \in DOMAIN documents : documents[d].file.digest = documents[e].file.digest => d = e

\* No document comes or goes without its audit row, whatever fails.
DocumentsAreAudited ==
    \A d \in 1..inserted : /\ <<"uploaded", d>> \in audited
                           /\ d \in DOMAIN documents <=> <<"deleted", d>> \notin audited

\* Every stored document can be decoded again: one that could not would keep
\* every chat, report and evaluation from beginning.
StoredIsReadable ==
    \A d \in DOMAIN documents : decode_stored_txt(documents[d].file, documents[d].encoding)

\* The page that a hit leads to shows the whole match.
MatchIsOnPage ==
    \A i \in DOMAIN hits : IsOnItsPage(corpus[hits[i].source].text, hits[i].position, hits[i].chars)

\* Every page a cursor leads to has text on it and is bounded, and the page
\* before it begins earlier and ends close to it: reading on and back both end.
PagesProgress ==
    page.source # 0 => LET text == corpus[page.source].text
                       IN /\ PageIsSound(text, page.start)
                          /\ page.start > 0 => IsBefore(text, page.start)

\* The context of a hit lies within one line and shows the whole match.
ContextShowsMatch ==
    \A i \in DOMAIN hits :
        LET text == corpus[hits[i].source].text
            from == context_start(text, hits[i].position)
            to == context_end(text, hits[i].position, hits[i].chars)
        IN /\ 0 <= from /\ from <= hits[i].position
           /\ hits[i].position + hits[i].chars <= to /\ to <= text.length
           /\ Newlines(text, from, to) = {}

\* Each of the hits is of a group whose turn had come: the earlier matches of
\* all groups are before it; and no place is hit twice.
IsFair(found, groups) ==
    /\ \A i \in DOMAIN found : \E g \in DOMAIN groups : \E k \in DOMAIN groups[g] :
          /\ found[i] = groups[g][k]
          /\ \A h \in DOMAIN groups : \A j \in DOMAIN groups[h] :
                j < k => \E m \in 1..(i - 1) : SamePlace(found[m], groups[h][j])
    /\ \A i, j \in DOMAIN found : SamePlace(found[i], found[j]) => i = j

\* No query and no source crowds out another: a search answers the k-th match of
\* one only after the earlier matches of all, and no place twice.
HitsAreFair ==
    [][hits # hits' =>
        \E queries \in SearchQueries, sources \in SourceChoices :
            IsFair(hits', Groups(queries, sources))]_readingVars

\* The shelf after any uploads and deletions beside one another, and failing
\* commits: no document twice, unaudited or unreadable.
ShelfIsSound == KnowledgeTypeOK /\ NoTwins /\ DocumentsAreAudited /\ StoredIsReadable

\* What an agent reads of a text: pages and contexts that show what was found.
PagesShowMatches == MatchIsOnPage /\ PagesProgress /\ ContextShowsMatch
=============================================================================
