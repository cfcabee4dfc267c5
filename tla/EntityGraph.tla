----------------------------- MODULE EntityGraph -----------------------------
(***************************************************************************)
(* The tables entities and graph_edges, and the references of facts to     *)
(* entities: what ingestion inserts, and the curation endpoints that merge *)
(* and split entities (merge_entities and split_entity of app/db.py).      *)
(*                                                                         *)
(* A merge reads both entities in autocommit mode and computes the         *)
(* survivor's aliases from what it read; a split reads its source.         *)
(* Everything from the first write on is one transaction.                  *)
(*                                                                         *)
(* A name stands for a type with a normalized name, a label for the        *)
(* source, the predicate and the evidence of an edge.                      *)
(*                                                                         *)
(* NextIdAlways, NamesOnly, ReferredNever, RedirectSubject and             *)
(* EdgesFromOnly are slips the properties must catch, each written before  *)
(* the definition it would replace.                                        *)
(***************************************************************************)
EXTENDS Integers, FiniteSets

CONSTANTS
    Workers,    \* threads that serve requests or ingest
    Names,      \* (type, normalized_name) of entities
    Facts,      \* ids of facts
    Labels,     \* (source, predicate, evidence) of edges
    NewAliases, \* aliases a split gives its entity
    MaxId,      \* bound: ids of entities
    MaxEdges    \* bound: edges when ingestion inserts one

ASSUME GraphAssumption ==
    /\ MaxId \in Nat /\ MaxEdges \in Nat
    /\ "none" \notin Names
    /\ NewAliases \subseteq SUBSET Names

Ids == 1..MaxId
NULL == 0

VARIABLES
    entities,  \* the rows of entities by id; AUTOINCREMENT uses no id again
    nextId,
    facts,     \* subject and object of the committed facts
    edges,     \* the rows of graph_edges, which are UNIQUE
    job        \* what each worker has read

vars == <<entities, nextId, facts, edges, job>>

Entities == [name : Names, aliases : SUBSET Names]
Gone == [name |-> "none", aliases |-> {}]
NoFact == [stored |-> FALSE, subject |-> NULL, object |-> NULL]

NoJob == [pc |-> "idle", one |-> NULL, two |-> NULL, first |-> Gone, second |-> Gone]

Present(rows, i) == i \in Ids /\ rows[i] # Gone
Live == {i \in Ids : Present(entities, i)}

\* A statement that leaves a reference to a missing row fails (foreign_keys is on).
Edges == [subject : Ids, object : Ids, label : Labels]

Done(w) == job' = [job EXCEPT ![w] = NoJob]

-----------------------------------------------------------------------------
\* upsert_entity: INSERT OR IGNORE, then SELECT by type and name.
Named(rows, n) == {i \in Ids : rows[i].name = n}

\* The id, and the table, after an upsert; none is possible past the bound.
CanUpsert(n) == Named(entities, n) # {} \/ nextId \in Ids
IdOf(n) == IF Named(entities, n) # {} THEN CHOOSE i \in Named(entities, n) : TRUE ELSE nextId
Upserted(n, aliases) ==
    IF Named(entities, n) # {} THEN entities
    ELSE [entities EXCEPT ![nextId] = [name |-> n, aliases |-> aliases]]
NextIdAlways(n) == nextId + 1
NextId(n) == IF Named(entities, n) # {} THEN nextId ELSE nextId + 1

\* insert_edge: INSERT OR IGNORE.
Edge(i, k, label) == [subject |-> i, object |-> k, label |-> label]

-----------------------------------------------------------------------------
\* Ingestion keeps the id of a document's entity while commits happen in
\* between, and relates to it what it finds later.
IngestEntity(w, n) ==
    /\ job[w].pc = "idle"
    /\ CanUpsert(n)
    /\ entities' = Upserted(n, {})
    /\ nextId' = NextId(n)
    /\ job' = [job EXCEPT ![w] = [NoJob EXCEPT !.pc = "ingest", !.one = IdOf(n)]]
    /\ UNCHANGED <<facts, edges>>

IngestEdge(w, n, label) ==
    /\ job[w].pc = "ingest"
    /\ job[w].one \in Live
    /\ Cardinality(edges) < MaxEdges
    /\ CanUpsert(n)
    /\ entities' = Upserted(n, {})
    /\ nextId' = NextId(n)
    /\ edges' = edges \cup {Edge(job[w].one, IdOf(n), label)}
    /\ Done(w)
    /\ UNCHANGED facts

IngestFact(w, f, object) ==
    /\ job[w].pc = "ingest"
    /\ job[w].one \in Live
    /\ ~facts[f].stored
    /\ facts' = [facts EXCEPT ![f] = [stored |-> TRUE, subject |-> job[w].one, object |-> object]]
    /\ Done(w)
    /\ UNCHANGED <<entities, nextId, edges>>

\* The entity was merged away, or the run fails otherwise.
IngestFails(w) ==
    /\ job[w].pc = "ingest"
    /\ Done(w)
    /\ UNCHANGED <<entities, nextId, facts, edges>>

-----------------------------------------------------------------------------
\* merge_entities.

MergeRead(w, survivor, duplicate) ==
    /\ job[w].pc = "idle"
    /\ survivor # duplicate
    /\ survivor \in Live /\ duplicate \in Live
    /\ job' = [job EXCEPT ![w] = [pc |-> "merge", one |-> survivor, two |-> duplicate,
                                  first |-> entities[survivor], second |-> entities[duplicate]]]
    /\ UNCHANGED <<entities, nextId, facts, edges>>

NamesOnly(w) == job[w].first.aliases \cup {job[w].second.name}
Aliases(w) == job[w].first.aliases \cup {job[w].second.name} \cup job[w].second.aliases

To(i, from, to) == IF i = from THEN to ELSE i

RedirectSubject(rows, from, to) ==
    [f \in Facts |-> [rows[f] EXCEPT !.subject = To(rows[f].subject, from, to)]]
Redirected(rows, from, to) ==
    [f \in Facts |-> [rows[f] EXCEPT !.subject = To(rows[f].subject, from, to),
                                     !.object = To(rows[f].object, from, to)]]

\* DELETE FROM entities: the facts that still refer to the row lose it.
Nulled(rows, id) ==
    [f \in Facts |-> [rows[f] EXCEPT !.subject = IF @ = id THEN NULL ELSE @,
                                     !.object = IF @ = id THEN NULL ELSE @]]

Touching(id) == {e \in edges : e.subject = id \/ e.object = id}
EdgesFromOnly(set, from, to) ==
    {[e EXCEPT !.subject = To(e.subject, from, to)] :
        e \in {e \in set : e.subject = from /\ e.object # from}}
RedirectedEdges(set, from, to) ==
    {[e EXCEPT !.subject = To(e.subject, from, to), !.object = To(e.object, from, to)] : e \in set}

\* Facts or edges to redirect.
ReferredNever(id) == FALSE
Referred(id) ==
    \/ \E f \in Facts : id \in {facts[f].subject, facts[f].object}
    \/ Touching(id) # {}

\* The UPDATE of a survivor that is gone changes nothing, and as long as
\* nothing is redirected to it nothing fails.
MergeCommit(w) ==
    LET survivor == job[w].one
        duplicate == job[w].two
        named == IF survivor \in Live THEN [entities EXCEPT ![survivor].aliases = Aliases(w)]
                 ELSE entities
    IN /\ job[w].pc = "merge"
       /\ survivor \in Live \/ ~Referred(duplicate)
       /\ entities' = [named EXCEPT ![duplicate] = Gone]
       /\ facts' = Nulled(Redirected(facts, duplicate, survivor), duplicate)
       /\ edges' = (edges \ Touching(duplicate))
                   \cup RedirectedEdges(Touching(duplicate), duplicate, survivor)
       /\ Done(w)
       /\ UNCHANGED nextId

\* IntegrityError: what refers to the duplicate cannot refer to the survivor.
MergeFails(w) ==
    /\ job[w].pc = "merge"
    /\ job[w].one \notin Live /\ Referred(job[w].two)
    /\ Done(w)
    /\ UNCHANGED <<entities, nextId, facts, edges>>

-----------------------------------------------------------------------------
\* split_entity.

SplitRead(w, source) ==
    /\ job[w].pc = "idle"
    /\ source \in Live
    /\ job' = [job EXCEPT ![w] = [NoJob EXCEPT !.pc = "split", !.one = source]]
    /\ UNCHANGED <<entities, nextId, facts, edges>>

\* Of the facts and edges that the request names those move that belong to the
\* source now.  Each edge is inserted again, or ignored because it exists, and
\* deleted: one that is moved to where it was is deleted.
SplitCommit(w, n, aliases, moveFacts, moveEdges) ==
    LET source == job[w].one
        new == IdOf(n)
        moved == moveEdges \cap Touching(source)
    IN /\ job[w].pc = "split"
       /\ CanUpsert(n)
       /\ entities' = Upserted(n, aliases)
       /\ nextId' = NextId(n)
       /\ facts' = [f \in Facts |-> IF f \in moveFacts THEN Redirected(facts, source, new)[f]
                                    ELSE facts[f]]
       /\ edges' = (edges \cup RedirectedEdges(moved, source, new)) \ moved
       /\ Done(w)

Abandon(w) ==
    /\ job[w].pc \in {"merge", "split"}
    /\ Done(w)
    /\ UNCHANGED <<entities, nextId, facts, edges>>

-----------------------------------------------------------------------------
Init ==
    /\ entities = [i \in Ids |-> Gone]
    /\ nextId = 1
    /\ facts = [f \in Facts |-> NoFact]
    /\ edges = {}
    /\ job = [w \in Workers |-> NoJob]

Ingest(w) ==
    \/ \E n \in Names : IngestEntity(w, n)
    \/ \E n \in Names, label \in Labels : IngestEdge(w, n, label)
    \/ \E f \in Facts, object \in Live \cup {NULL} : IngestFact(w, f, object)
    \/ IngestFails(w)

Merge(w) ==
    \/ \E survivor, duplicate \in Ids : MergeRead(w, survivor, duplicate)
    \/ MergeCommit(w)
    \/ MergeFails(w)

Split(w) ==
    \/ \E source \in Ids : SplitRead(w, source)
    \/ \E n \in Names, aliases \in NewAliases,
          moveFacts \in SUBSET Facts, moveEdges \in SUBSET edges :
          SplitCommit(w, n, aliases, moveFacts, moveEdges)

\* Only because ids are bounded: none is left, and every entity was merged away.
Exhausted == nextId \notin Ids /\ Live = {} /\ UNCHANGED vars

Next ==
    \/ \E w \in Workers : Ingest(w) \/ Merge(w) \/ Split(w) \/ Abandon(w)
    \/ Exhausted

Spec == Init /\ [][Next]_vars

-----------------------------------------------------------------------------
Jobs == [pc : {"idle", "ingest", "merge", "split"}, one : Ids \cup {NULL}, two : Ids \cup {NULL},
         first : Entities \cup {Gone}, second : Entities \cup {Gone}]

TypeOK ==
    /\ entities \in [Ids -> Entities \cup {Gone}]
    /\ nextId \in 1..(MaxId + 1)
    /\ facts \in [Facts -> [stored : BOOLEAN, subject : Ids \cup {NULL}, object : Ids \cup {NULL}]]
    /\ edges \subseteq Edges
    /\ job \in [Workers -> Jobs]

\* No fact and no edge refers to an entity that a merge has deleted, however
\* merges, splits and ingestion overlap; and no two entities have one name.
NoDangling ==
    /\ \A f \in Facts : {facts[f].subject, facts[f].object} \subseteq Live \cup {NULL}
    /\ \A e \in edges : {e.subject, e.object} \subseteq Live
    /\ \A i, k \in Live : entities[i].name = entities[k].name => i = k

\* After a step that deletes i, facts and edges say of k what they said of i,
\* and of all others what they said before.
TakenOver(i, k) ==
    /\ \A f \in Facts : /\ facts'[f].subject = To(facts[f].subject, i, k)
                       /\ facts'[f].object = To(facts[f].object, i, k)
    /\ \A e \in edges : Edge(To(e.subject, i, k), To(e.object, i, k), e.label) \in edges'

\* Evidence is never lost.  A fact keeps a subject and an object once it has
\* one.  And when a merge deletes an entity, another one takes over every fact
\* and every edge of it, also those ingested after the merge read: each edge is
\* there between the entities it is redirected to, with its source, predicate
\* and evidence, be it inserted or ignored because an equal one exists.
EvidenceKept ==
    [][/\ \A f \in Facts :
            /\ facts[f].subject # NULL => facts'[f].subject # NULL
            /\ facts[f].object # NULL => facts'[f].object # NULL
       /\ \A i \in Live :
            ~Present(entities', i) => \E k \in Ids \ {i} : TakenOver(i, k)]_vars

AllNames(rows) == UNION {{rows[i].name} \cup rows[i].aliases : i \in {i \in Ids : rows[i] # Gone}}

\* A name by which an entity can be found is lost only by a merge that read
\* the survivor or the duplicate before another request changed it: merges that
\* do not overlap keep every name and alias.
Stale(w) ==
    /\ job[w].pc = "merge"
    /\ \/ entities[job[w].one] # job[w].first
       \/ entities[job[w].two] # job[w].second

NamesKept ==
    [][(\A w \in Workers : ~Stale(w)) => AllNames(entities) \subseteq AllNames(entities')]_vars

-----------------------------------------------------------------------------
\* tests/test_curation.py: merged["id"] == survivor_id.  After a merge that
\* deleted its duplicate the survivor is there.
SurvivorStays ==
    [][\A w \in Workers :
          /\ job[w].pc = "merge" /\ job'[w].pc = "idle"
          /\ Present(entities, job[w].two) /\ ~Present(entities', job[w].two)
          => Present(entities', job[w].one)]_vars
=============================================================================
