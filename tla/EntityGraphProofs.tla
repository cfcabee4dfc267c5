-------------------------- MODULE EntityGraphProofs --------------------------
(***************************************************************************)
(* Theorems about EntityGraph for any number of workers, names, facts,     *)
(* labels and ids.                                                         *)
(***************************************************************************)
EXTENDS EntityGraph, TLAPS

-----------------------------------------------------------------------------
\* The inductive invariant.

\* No id is used twice, and the rows of the ids to come are empty.
Fresh == \A i \in Ids : i >= nextId => entities[i] = Gone

\* A fact that is not stored yet refers to nothing.
Blank == \A f \in Facts : ~facts[f].stored => facts[f] = NoFact

JobOK(w) ==
    /\ job[w].pc # "idle" => job[w].one \in Ids
    /\ job[w].pc = "merge" =>
        /\ job[w].two \in Ids
        /\ job[w].one # job[w].two
        /\ {job[w].first, job[w].second} \subseteq Entities

IInv ==
    /\ TypeOK
    /\ NoDangling
    /\ Fresh
    /\ Blank
    /\ \A w \in Workers : JobOK(w)

-----------------------------------------------------------------------------
\* Rows.

Rows == [Ids -> Entities \cup {Gone}]
References == [stored : BOOLEAN, subject : Ids \cup {NULL}, object : Ids \cup {NULL}]

\* What an upsert returns and leaves: an entity of that name, all that were
\* there, and still one of each name.
LEMMA UpsertKeeps ==
  ASSUME IInv, NEW n \in Names, NEW aliases \in SUBSET Names, CanUpsert(n)
  PROVE  /\ IdOf(n) \in Ids
         /\ Upserted(n, aliases) \in Rows
         /\ Upserted(n, aliases)[IdOf(n)] # Gone
         /\ NextId(n) \in 1..(MaxId + 1)
         /\ \A i \in Live : Upserted(n, aliases)[i] = entities[i]
         /\ \A i \in Ids : i >= NextId(n) => Upserted(n, aliases)[i] = Gone
         /\ \A i, k \in Ids :
               /\ Upserted(n, aliases)[i] # Gone
               /\ Upserted(n, aliases)[k] # Gone
               /\ Upserted(n, aliases)[i].name = Upserted(n, aliases)[k].name
               => i = k
<1> DEFINE new == [name |-> n, aliases |-> aliases]
<1>0. /\ entities \in Rows
      /\ nextId \in 1..(MaxId + 1)
      /\ MaxId \in Nat
      /\ Live = {i \in Ids : entities[i] # Gone}
      /\ \A i, k \in Live : entities[i].name = entities[k].name => i = k
      /\ \A i \in Ids : i >= nextId => entities[i] = Gone
  BY GraphAssumption DEF IInv, TypeOK, NoDangling, Fresh, Rows, Live, Present
<1>1. CASE Named(entities, n) # {}
  <2>1. IdOf(n) \in Named(entities, n)
    BY <1>1 DEF IdOf
  <2>2. IdOf(n) \in Ids /\ entities[IdOf(n)].name = n
    BY <2>1 DEF Named
  <2>3. entities[IdOf(n)] # Gone
    BY <2>2, GraphAssumption DEF Gone
  <2>4. Upserted(n, aliases) = entities /\ NextId(n) = nextId
    BY <1>1 DEF Upserted, NextId
  <2> QED
    BY <1>0, <2>2, <2>3, <2>4
<1>2. CASE Named(entities, n) = {}
  <2>1. nextId \in Ids /\ IdOf(n) = nextId /\ NextId(n) = nextId + 1
    BY <1>2 DEF CanUpsert, IdOf, NextId
  <2>2. Upserted(n, aliases) = [entities EXCEPT ![nextId] = new]
    BY <1>2 DEF Upserted
  <2>3. entities[nextId] = Gone
    BY <1>0, <2>1
  <2>4. new \in Entities /\ new # Gone /\ new.name = n
    BY GraphAssumption DEF Entities, Gone
  <2>5. \A i \in Ids : entities[i].name # n
    BY <1>2 DEF Named
  <2>6. Upserted(n, aliases) \in Rows
    BY <1>0, <2>1, <2>2, <2>4 DEF Rows
  <2>7. \A i \in Ids : Upserted(n, aliases)[i] = IF i = nextId THEN new ELSE entities[i]
    BY <1>0, <2>1, <2>2 DEF Rows
  <2>8. NextId(n) \in 1..(MaxId + 1)
    BY <1>0, <2>1 DEF Ids
  <2> HIDE DEF new
  <2>9. \A i \in Ids : i >= NextId(n) => i >= nextId /\ i # nextId
    BY <1>0, <2>1 DEF Ids
  <2>10. \A i, k \in Ids :
               /\ Upserted(n, aliases)[i] # Gone
               /\ Upserted(n, aliases)[k] # Gone
               /\ Upserted(n, aliases)[i].name = Upserted(n, aliases)[k].name
               => i = k
    BY <1>0, <2>4, <2>5, <2>7
  <2> QED
    BY <1>0, <2>1, <2>3, <2>4, <2>6, <2>7, <2>8, <2>9, <2>10
<1> QED
  BY <1>1, <1>2

\* Who is done, or only reads, disturbs nothing.
LEMMA DoneKeeps ==
  ASSUME IInv, NEW w \in Workers, Done(w)
  PROVE  /\ job' \in [Workers -> Jobs]
         /\ \A v \in Workers : JobOK(v)'
<1>1. NoJob \in Jobs /\ NoJob.pc = "idle"
  BY DEF NoJob, Jobs, NULL
<1>2. job \in [Workers -> Jobs] /\ \A v \in Workers : JobOK(v)
  BY DEF IInv, TypeOK
<1> QED
  BY <1>1, <1>2 DEF Done, JobOK

LEMMA TablesKeep ==
  ASSUME IInv, UNCHANGED <<entities, nextId, facts, edges>>,
         job' \in [Workers -> Jobs], \A v \in Workers : JobOK(v)'
  PROVE  IInv'
BY DEF IInv, TypeOK, NoDangling, Fresh, Blank, Live, Present

\* An upsert, and references to rows that are there afterwards.
LEMMA UpsertStep ==
  ASSUME IInv, NEW n \in Names, NEW aliases \in SUBSET Names, CanUpsert(n),
         entities' = Upserted(n, aliases), nextId' = NextId(n),
         facts' \in [Facts -> References],
         \A f \in Facts : {facts'[f].subject, facts'[f].object} \subseteq Live \cup {IdOf(n), NULL},
         Blank',
         edges' \subseteq Edges,
         \A e \in edges' : {e.subject, e.object} \subseteq Live \cup {IdOf(n)},
         job' \in [Workers -> Jobs], \A v \in Workers : JobOK(v)'
  PROVE  IInv'
<1>1. /\ IdOf(n) \in Ids
      /\ entities' \in Rows
      /\ entities'[IdOf(n)] # Gone
      /\ nextId' \in 1..(MaxId + 1)
      /\ \A i \in Live : entities'[i] = entities[i]
      /\ \A i \in Ids : i >= nextId' => entities'[i] = Gone
      /\ \A i, k \in Ids :
            entities'[i] # Gone /\ entities'[k] # Gone /\ entities'[i].name = entities'[k].name => i = k
  BY UpsertKeeps
<1>2. Live \cup {IdOf(n)} \subseteq Live'
  BY <1>1 DEF Live, Present
<1>3. TypeOK'
  BY <1>1 DEF TypeOK, Rows, References
<1>4. NoDangling'
  <2>1. \A f \in Facts : {facts'[f].subject, facts'[f].object} \subseteq Live' \cup {NULL}
    BY <1>2
  <2>2. \A e \in edges' : {e.subject, e.object} \subseteq Live'
    BY <1>2
  <2>3. \A i, k \in Live' : entities'[i].name = entities'[k].name => i = k
    BY <1>1 DEF Live, Present
  <2> QED
    BY <2>1, <2>2, <2>3 DEF NoDangling
<1>5. Fresh'
  BY <1>1 DEF Fresh
<1> QED
  BY <1>3, <1>4, <1>5 DEF IInv

\* What every step may rely on.
LEMMA Tables ==
  ASSUME IInv
  PROVE  /\ facts \in [Facts -> References]
         /\ edges \subseteq Edges
         /\ job \in [Workers -> Jobs]
         /\ entities \in Rows
         /\ \A f \in Facts : {facts[f].subject, facts[f].object} \subseteq Live \cup {NULL}
         /\ \A e \in edges : {e.subject, e.object} \subseteq Live
         /\ Live = {i \in Ids : entities[i] # Gone}
         /\ NULL \notin Ids
         /\ Blank
BY GraphAssumption DEF IInv, TypeOK, References, NoDangling, Rows, Live, Present, Ids, NULL

-----------------------------------------------------------------------------
\* Ingestion.

LEMMA IngestEntityKeeps ==
  ASSUME IInv, NEW w \in Workers, NEW n \in Names, IngestEntity(w, n)
  PROVE  IInv'
<1>1. CanUpsert(n) /\ entities' = Upserted(n, {}) /\ nextId' = NextId(n) /\ UNCHANGED <<facts, edges>>
  BY DEF IngestEntity
<1>2. IdOf(n) \in Ids
  BY <1>1, UpsertKeeps
<1> DEFINE new == [NoJob EXCEPT !.pc = "ingest", !.one = IdOf(n)]
<1>3. new \in Jobs /\ new.pc = "ingest" /\ new.one \in Ids
  BY <1>2 DEF NoJob, Jobs, NULL
<1>4. job' = [job EXCEPT ![w] = new]
  BY DEF IngestEntity
<1> HIDE DEF new
<1>5. job' \in [Workers -> Jobs] /\ \A v \in Workers : JobOK(v)'
  BY <1>3, <1>4, Tables DEF IInv, JobOK
<1>6. Blank'
  BY <1>1, Tables DEF Blank
<1> QED
  BY <1>1, <1>5, <1>6, Tables, UpsertStep

LEMMA IngestEdgeKeeps ==
  ASSUME IInv, NEW w \in Workers, NEW n \in Names, NEW label \in Labels, IngestEdge(w, n, label)
  PROVE  IInv'
<1>1. /\ CanUpsert(n) /\ entities' = Upserted(n, {}) /\ nextId' = NextId(n)
      /\ edges' = edges \cup {Edge(job[w].one, IdOf(n), label)}
      /\ job[w].one \in Live
      /\ UNCHANGED facts /\ Done(w)
  BY DEF IngestEdge
<1>2. IdOf(n) \in Ids
  BY <1>1, UpsertKeeps
<1> DEFINE new == Edge(job[w].one, IdOf(n), label)
<1>3. new \in Edges /\ new.subject = job[w].one /\ new.object = IdOf(n)
  BY <1>1, <1>2, Tables DEF Edge, Edges
<1> HIDE DEF new
<1>4. edges' = edges \cup {new}
  BY <1>1 DEF new
<1>5. /\ edges' \subseteq Edges
      /\ \A e \in edges' : {e.subject, e.object} \subseteq Live \cup {IdOf(n)}
  BY <1>1, <1>3, <1>4, Tables
<1>6. Blank'
  BY <1>1, Tables DEF Blank
<1> QED
  BY <1>1, <1>5, <1>6, Tables, DoneKeeps, UpsertStep

LEMMA IngestFactKeeps ==
  ASSUME IInv, NEW w \in Workers, NEW f \in Facts, NEW object \in Live \cup {NULL},
         IngestFact(w, f, object)
  PROVE  IInv'
<1> DEFINE new == [stored |-> TRUE, subject |-> job[w].one, object |-> object]
<1>1. /\ job[w].one \in Live
      /\ facts' = [facts EXCEPT ![f] = new]
      /\ UNCHANGED <<entities, nextId, edges>> /\ Done(w)
  BY DEF IngestFact
<1>2. /\ new \in References
      /\ {new.subject, new.object} \subseteq Live \cup {NULL}
      /\ new.stored
  BY <1>1, Tables DEF References
<1> HIDE DEF new
<1>3. \A g \in Facts : facts'[g] = IF g = f THEN new ELSE facts[g]
  BY <1>1, Tables
<1>4. facts' \in [Facts -> References]
  BY <1>1, <1>2, Tables
<1>5. Live' = Live
  BY <1>1 DEF Live, Present
<1>6. TypeOK'
  BY <1>1, <1>4, DoneKeeps DEF IInv, TypeOK, References
<1>7. NoDangling'
  BY <1>1, <1>2, <1>3, <1>5 DEF IInv, NoDangling
<1>8. Blank'
  BY <1>2, <1>3, Tables DEF Blank
<1>9. Fresh'
  BY <1>1 DEF IInv, Fresh
<1> QED
  BY <1>1, <1>6, <1>7, <1>8, <1>9, DoneKeeps DEF IInv

-----------------------------------------------------------------------------
\* Merge.

LEMMA MergeReadKeeps ==
  ASSUME IInv, NEW w \in Workers, NEW survivor \in Ids, NEW duplicate \in Ids,
         MergeRead(w, survivor, duplicate)
  PROVE  IInv'
<1> DEFINE new == [pc |-> "merge", one |-> survivor, two |-> duplicate,
                   first |-> entities[survivor], second |-> entities[duplicate]]
<1>1. /\ survivor # duplicate /\ survivor \in Live /\ duplicate \in Live
      /\ job' = [job EXCEPT ![w] = new]
      /\ UNCHANGED <<entities, nextId, facts, edges>>
  BY DEF MergeRead
<1>2. entities[survivor] \in Entities /\ entities[duplicate] \in Entities
  BY <1>1, Tables DEF Rows
<1>3. /\ new \in Jobs
      /\ new.pc = "merge" /\ new.one = survivor /\ new.two = duplicate
      /\ {new.first, new.second} \subseteq Entities
  BY <1>2 DEF Jobs
<1> HIDE DEF new
<1>4. job' \in [Workers -> Jobs] /\ \A v \in Workers : JobOK(v)'
  BY <1>1, <1>3, Tables DEF IInv, JobOK
<1> QED
  BY <1>1, <1>4, TablesKeep

\* Redirecting to an entity that is there, if anything is redirected at all.
LEMMA RedirectedFacts ==
  ASSUME IInv, NEW from \in Ids, NEW to \in Ids
  PROVE  /\ Redirected(facts, from, to) \in [Facts -> References]
         /\ \A f \in Facts :
                /\ Redirected(facts, from, to)[f].stored = facts[f].stored
                /\ Redirected(facts, from, to)[f].subject = To(facts[f].subject, from, to)
                /\ Redirected(facts, from, to)[f].object = To(facts[f].object, from, to)
<1> DEFINE row(f) == [facts[f] EXCEPT !.subject = To(facts[f].subject, from, to),
                                      !.object = To(facts[f].object, from, to)]
<1>1. ASSUME NEW f \in Facts
      PROVE  /\ row(f) \in References
             /\ row(f).stored = facts[f].stored
             /\ row(f).subject = To(facts[f].subject, from, to)
             /\ row(f).object = To(facts[f].object, from, to)
  <2>1. facts[f] \in References
    BY Tables
  <2>2. To(facts[f].subject, from, to) \in Ids \cup {NULL} /\ To(facts[f].object, from, to) \in Ids \cup {NULL}
    BY <2>1 DEF To, References
  <2> QED
    BY <2>1, <2>2 DEF References
<1>2. Redirected(facts, from, to) = [f \in Facts |-> row(f)]
  BY DEF Redirected
<1> HIDE DEF row
<1> QED
  BY <1>1, <1>2

LEMMA RedirectedEdge ==
  ASSUME IInv, NEW from \in Ids, NEW to \in Ids, NEW set \in SUBSET edges,
         NEW e \in RedirectedEdges(set, from, to)
  PROVE  \E old \in set :
            /\ e \in Edges
            /\ e.label = old.label
            /\ e.subject = To(old.subject, from, to)
            /\ e.object = To(old.object, from, to)
<1>1. PICK old \in set :
        e = [old EXCEPT !.subject = To(old.subject, from, to), !.object = To(old.object, from, to)]
  BY DEF RedirectedEdges
<1>2. old \in Edges
  BY Tables
<1>3. old.subject \in Ids /\ old.object \in Ids /\ old.label \in Labels
  BY <1>2 DEF Edges
<1>4. To(old.subject, from, to) \in Ids /\ To(old.object, from, to) \in Ids
  BY <1>3 DEF To
<1> QED
  BY <1>1, <1>2, <1>3, <1>4 DEF Edges

\* After the redirection nothing is left for ON DELETE SET NULL to do.
LEMMA NothingNulled ==
  ASSUME IInv, NEW from \in Ids, NEW to \in Ids, from # to
  PROVE  Nulled(Redirected(facts, from, to), from) = Redirected(facts, from, to)
<1> DEFINE rows == Redirected(facts, from, to)
<1>1. /\ rows \in [Facts -> References]
      /\ \A f \in Facts : rows[f].subject # from /\ rows[f].object # from
  BY RedirectedFacts DEF To
<1> HIDE DEF rows
<1>2. ASSUME NEW f \in Facts
      PROVE  [rows[f] EXCEPT !.subject = IF @ = from THEN NULL ELSE @,
                             !.object = IF @ = from THEN NULL ELSE @] = rows[f]
  <2>1. rows[f] \in References /\ rows[f].subject # from /\ rows[f].object # from
    BY <1>1
  <2> QED
    BY <2>1 DEF References
<1>3. Nulled(rows, from) = rows
  BY <1>1, <1>2 DEF Nulled
<1> QED
  BY <1>3 DEF rows

\* A merge: its two entities, and the tables it leaves.
LEMMA MergeStep ==
  ASSUME IInv, NEW w \in Workers, MergeCommit(w),
         NEW survivor, survivor = job[w].one, NEW duplicate, duplicate = job[w].two
  PROVE  /\ survivor \in Ids /\ duplicate \in Ids /\ survivor # duplicate
         /\ survivor \in Live \/ ~Referred(duplicate)
         /\ entities' \in Rows
         /\ entities'[duplicate] = Gone
         /\ \A i \in Ids \ {duplicate} :
              /\ entities[i] = Gone <=> entities'[i] = Gone
              /\ entities'[i].name = entities[i].name
              /\ i # survivor => entities'[i] = entities[i]
         /\ survivor \in Live => entities'[survivor].aliases = Aliases(w)
         /\ facts' = Redirected(facts, duplicate, survivor)
         /\ edges' = (edges \ Touching(duplicate))
                     \cup RedirectedEdges(Touching(duplicate), duplicate, survivor)
<1>1. /\ survivor \in Ids /\ duplicate \in Ids /\ survivor # duplicate
      /\ job[w].first \in Entities /\ job[w].second \in Entities
  BY Tables DEF IInv, JobOK, MergeCommit
<1>2. Aliases(w) \in SUBSET Names
  BY <1>1 DEF Aliases, Entities
<1>3. /\ survivor \in Live \/ ~Referred(duplicate)
      /\ edges' = (edges \ Touching(duplicate))
                  \cup RedirectedEdges(Touching(duplicate), duplicate, survivor)
  BY DEF MergeCommit
<1>4. facts' = Redirected(facts, duplicate, survivor)
  BY <1>1, NothingNulled DEF MergeCommit
<1>5. CASE survivor \in Live
  <2> DEFINE new == [entities[survivor] EXCEPT !.aliases = Aliases(w)]
  <2>1. entities[survivor] \in Entities
    BY <1>5, Tables DEF Rows
  <2>2. new \in Entities /\ new # Gone /\ new.name = entities[survivor].name /\ new.aliases = Aliases(w)
    BY <1>2, <2>1, GraphAssumption DEF Entities, Gone
  <2>3. entities' = [[entities EXCEPT ![survivor] = new] EXCEPT ![duplicate] = Gone]
    BY <1>5 DEF MergeCommit
  <2>4. entities[survivor] # Gone
    BY <1>5, Tables
  <2> HIDE DEF new
  <2> QED
    BY <1>1, <1>3, <1>4, <2>2, <2>3, <2>4, Tables DEF Rows
<1>6. CASE survivor \notin Live
  <2>1. entities' = [entities EXCEPT ![duplicate] = Gone]
    BY <1>6 DEF MergeCommit
  <2> QED
    BY <1>1, <1>3, <1>4, <1>6, <2>1, Tables DEF Rows
<1> QED
  BY <1>5, <1>6

LEMMA MergeCommitKeeps ==
  ASSUME IInv, NEW w \in Workers, MergeCommit(w)
  PROVE  IInv'
<1> DEFINE survivor == job[w].one
           duplicate == job[w].two
<1>1. /\ survivor \in Ids /\ duplicate \in Ids /\ survivor # duplicate
      /\ survivor \in Live \/ ~Referred(duplicate)
      /\ entities' \in Rows
      /\ entities'[duplicate] = Gone
      /\ \A i \in Ids \ {duplicate} :
           /\ entities[i] = Gone <=> entities'[i] = Gone
           /\ entities'[i].name = entities[i].name
      /\ facts' = Redirected(facts, duplicate, survivor)
      /\ edges' = (edges \ Touching(duplicate))
                  \cup RedirectedEdges(Touching(duplicate), duplicate, survivor)
  BY MergeStep
<1>2. UNCHANGED nextId /\ Done(w)
  BY DEF MergeCommit
<1>3. /\ facts' \in [Facts -> References]
      /\ \A f \in Facts :
            /\ facts'[f].stored = facts[f].stored
            /\ facts'[f].subject = To(facts[f].subject, duplicate, survivor)
            /\ facts'[f].object = To(facts[f].object, duplicate, survivor)
  BY <1>1, RedirectedFacts
<1> HIDE DEF survivor, duplicate
<1>4. Live' = Live \ {duplicate}
  BY <1>1, Tables DEF Live, Present
<1>5. \A f \in Facts : {facts'[f].subject, facts'[f].object} \subseteq Live' \cup {NULL}
  <2> SUFFICES ASSUME NEW f \in Facts
               PROVE  {facts'[f].subject, facts'[f].object} \subseteq Live' \cup {NULL}
    OBVIOUS
  <2>1. {facts[f].subject, facts[f].object} \subseteq Live \cup {NULL}
    BY Tables
  <2>2. duplicate \in {facts[f].subject, facts[f].object} => survivor \in Live
    BY <1>1 DEF Referred
  <2> QED
    BY <1>1, <1>3, <1>4, <2>1, <2>2 DEF To
<1>6. ASSUME NEW e \in edges'
      PROVE  e \in Edges /\ {e.subject, e.object} \subseteq Live'
  <2>1. CASE e \in edges \ Touching(duplicate)
    BY <1>4, <2>1, Tables DEF Touching
  <2>2. CASE e \in RedirectedEdges(Touching(duplicate), duplicate, survivor)
    <3>1. Touching(duplicate) \in SUBSET edges
      BY DEF Touching
    <3>2. PICK old \in Touching(duplicate) :
            /\ e \in Edges
            /\ e.subject = To(old.subject, duplicate, survivor)
            /\ e.object = To(old.object, duplicate, survivor)
      BY <1>1, <2>2, <3>1, RedirectedEdge
    <3>3. survivor \in Live
      BY <1>1, <3>2 DEF Referred
    <3>4. old.subject \in Live /\ old.object \in Live
      BY <3>1, <3>2, Tables
    <3> QED
      BY <1>1, <1>4, <3>2, <3>3, <3>4 DEF To
  <2> QED
    BY <1>1, <1>6, <2>1, <2>2
<1>7. \A i, k \in Live' : entities'[i].name = entities'[k].name => i = k
  <2>1. \A i, k \in Live : entities[i].name = entities[k].name => i = k
    BY DEF IInv, NoDangling
  <2> QED
    BY <1>1, <1>4, <2>1, Tables
<1>8. TypeOK'
  BY <1>1, <1>2, <1>3, <1>6, DoneKeeps DEF IInv, TypeOK, Rows, References
<1>9. NoDangling'
  BY <1>5, <1>6, <1>7 DEF NoDangling
<1>10. Fresh'
  BY <1>1, <1>2 DEF IInv, Fresh
<1>11. Blank'
  <2> SUFFICES ASSUME NEW f \in Facts, ~facts'[f].stored
               PROVE  facts'[f] = NoFact
    BY DEF Blank
  <2>1. facts[f] = NoFact
    BY <1>3, Tables DEF Blank
  <2>2. facts[f].subject = NULL /\ facts[f].object = NULL
    BY <2>1 DEF NoFact
  <2>3. facts'[f].subject = NULL /\ facts'[f].object = NULL
    BY <1>1, <1>3, <2>2, Tables DEF To
  <2>4. facts'[f] \in References
    BY <1>3
  <2> QED
    BY <2>3, <2>4 DEF References, NoFact
<1> QED
  BY <1>2, <1>8, <1>9, <1>10, <1>11, DoneKeeps DEF IInv

-----------------------------------------------------------------------------
\* Split.

LEMMA SplitReadKeeps ==
  ASSUME IInv, NEW w \in Workers, NEW source \in Ids, SplitRead(w, source)
  PROVE  IInv'
<1> DEFINE new == [NoJob EXCEPT !.pc = "split", !.one = source]
<1>1. new \in Jobs /\ new.pc = "split" /\ new.one \in Ids
  BY DEF NoJob, Jobs, NULL
<1>2. job' = [job EXCEPT ![w] = new] /\ UNCHANGED <<entities, nextId, facts, edges>>
  BY DEF SplitRead
<1> HIDE DEF new
<1>3. job' \in [Workers -> Jobs] /\ \A v \in Workers : JobOK(v)'
  BY <1>1, <1>2, Tables DEF IInv, JobOK
<1> QED
  BY <1>2, <1>3, TablesKeep

LEMMA SplitCommitKeeps ==
  ASSUME IInv, NEW w \in Workers, NEW n \in Names, NEW aliases \in NewAliases,
         NEW moveFacts \in SUBSET Facts, NEW moveEdges \in SUBSET edges,
         SplitCommit(w, n, aliases, moveFacts, moveEdges)
  PROVE  IInv'
<1> DEFINE source == job[w].one
           new == IdOf(n)
           moved == moveEdges \cap Touching(source)
<1>1. /\ CanUpsert(n) /\ entities' = Upserted(n, aliases) /\ nextId' = NextId(n)
      /\ facts' = [f \in Facts |-> IF f \in moveFacts THEN Redirected(facts, source, new)[f]
                                   ELSE facts[f]]
      /\ edges' = (edges \cup RedirectedEdges(moved, source, new)) \ moved
      /\ Done(w)
  BY DEF SplitCommit
<1>2. aliases \in SUBSET Names
  BY GraphAssumption
<1>3. new \in Ids
  BY <1>1, <1>2, UpsertKeeps
<1>4. source \in Ids
  BY DEF IInv, JobOK, SplitCommit
<1>5. moved \in SUBSET edges
  OBVIOUS
<1> HIDE DEF source, new, moved
<1>6. /\ Redirected(facts, source, new) \in [Facts -> References]
      /\ \A f \in Facts :
            /\ Redirected(facts, source, new)[f].stored = facts[f].stored
            /\ Redirected(facts, source, new)[f].subject = To(facts[f].subject, source, new)
            /\ Redirected(facts, source, new)[f].object = To(facts[f].object, source, new)
  BY <1>3, <1>4, RedirectedFacts
<1>7. facts' \in [Facts -> References]
  BY <1>1, <1>6, Tables
<1>8. \A f \in Facts : {facts'[f].subject, facts'[f].object} \subseteq Live \cup {new, NULL}
  <2> SUFFICES ASSUME NEW f \in Facts
               PROVE  {facts'[f].subject, facts'[f].object} \subseteq Live \cup {new, NULL}
    OBVIOUS
  <2>1. {facts[f].subject, facts[f].object} \subseteq Live \cup {NULL}
    BY Tables
  <2> QED
    BY <1>1, <1>6, <2>1 DEF To
<1>9. Blank'
  <2> SUFFICES ASSUME NEW f \in Facts, ~facts'[f].stored
               PROVE  facts'[f] = NoFact
    BY DEF Blank
  <2>1. facts[f] = NoFact
    BY <1>1, <1>6, Tables DEF Blank
  <2>2. facts[f].subject = NULL /\ facts[f].object = NULL
    BY <2>1 DEF NoFact
  <2>3. facts'[f].subject = NULL /\ facts'[f].object = NULL
    BY <1>1, <1>4, <1>6, <2>2, Tables DEF To
  <2>4. facts'[f] \in References
    BY <1>7
  <2> QED
    BY <2>3, <2>4 DEF References, NoFact
<1>10. ASSUME NEW e \in edges'
       PROVE  e \in Edges /\ {e.subject, e.object} \subseteq Live \cup {new}
  <2>1. CASE e \in edges
    BY <2>1, Tables
  <2>2. CASE e \in RedirectedEdges(moved, source, new)
    <3>1. PICK old \in moved :
            /\ e \in Edges
            /\ e.subject = To(old.subject, source, new)
            /\ e.object = To(old.object, source, new)
      BY <1>3, <1>4, <1>5, <2>2, RedirectedEdge
    <3>2. old.subject \in Live /\ old.object \in Live
      BY <1>5, <3>1, Tables
    <3> QED
      BY <3>1, <3>2 DEF To
  <2> QED
    BY <1>1, <1>10, <2>1, <2>2
<1> QED
  BY <1>1, <1>2, <1>7, <1>8, <1>9, <1>10, DoneKeeps, UpsertStep DEF new

-----------------------------------------------------------------------------
\* All steps.

LEMMA InitIInv == Init => IInv
<1> SUFFICES ASSUME Init PROVE IInv
  OBVIOUS
<1>1. NoFact \in References /\ NoJob \in Jobs
  BY DEF NoFact, References, NoJob, Jobs, NULL
<1>2. TypeOK
  BY <1>1, GraphAssumption DEF Init, TypeOK, References
<1>3. Live = {}
  BY DEF Init, Live, Present
<1>4. NoDangling
  BY <1>3 DEF Init, NoDangling, NoFact
<1>5. Fresh /\ Blank /\ \A w \in Workers : JobOK(w)
  BY DEF Init, Fresh, Blank, JobOK, NoJob
<1> QED
  BY <1>2, <1>4, <1>5 DEF IInv

LEMMA QuietKeeps ==
  ASSUME IInv, NEW w \in Workers,
         IngestFails(w) \/ MergeFails(w) \/ Abandon(w)
  PROVE  IInv'
BY DoneKeeps, TablesKeep DEF IngestFails, MergeFails, Abandon

LEMMA StutterKeeps == ASSUME IInv, UNCHANGED vars PROVE IInv'
BY DEF IInv, TypeOK, NoDangling, Fresh, Blank, JobOK, Live, Present, vars

\* However ingestion, merges and splits overlap, the tables and what the
\* workers have read stay consistent.
THEOREM Invariance == Spec => []IInv
<1>1. IInv /\ [Next]_vars => IInv'
  <2> SUFFICES ASSUME IInv, [Next]_vars PROVE IInv'
    OBVIOUS
  <2>1. CASE UNCHANGED vars \/ Exhausted
    BY <2>1, StutterKeeps DEF Exhausted
  <2>2. ASSUME NEW w \in Workers, Ingest(w)
        PROVE  IInv'
    BY <2>2, IngestEntityKeeps, IngestEdgeKeeps, IngestFactKeeps, QuietKeeps DEF Ingest
  <2>3. ASSUME NEW w \in Workers, Merge(w)
        PROVE  IInv'
    BY <2>3, MergeReadKeeps, MergeCommitKeeps, QuietKeeps DEF Merge
  <2>4. ASSUME NEW w \in Workers, Split(w)
        PROVE  IInv'
    BY <2>4, SplitReadKeeps, SplitCommitKeeps DEF Split
  <2>5. ASSUME NEW w \in Workers, Abandon(w)
        PROVE  IInv'
    BY <2>5, QuietKeeps
  <2> QED
    BY <2>1, <2>2, <2>3, <2>4, <2>5 DEF Next
<1> QED
  BY <1>1, InitIInv, PTL DEF Spec

\* Entities, facts, edges and what workers have read keep their shape.
THEOREM TypeCorrect == Spec => []TypeOK
<1>1. IInv => TypeOK
  BY DEF IInv
<1> QED
  BY <1>1, Invariance, PTL

\* No fact and no edge refers to an entity that a merge has deleted, and no two
\* entities have one name.
THEOREM ReferencesHold == Spec => []NoDangling
<1>1. IInv => NoDangling
  BY DEF IInv
<1> QED
  BY <1>1, Invariance, PTL

-----------------------------------------------------------------------------
\* Evidence.

FactKept(f) ==
    /\ facts[f].subject # NULL => facts'[f].subject # NULL
    /\ facts[f].object # NULL => facts'[f].object # NULL

Removed(i) == i \in Live /\ ~Present(entities', i)

\* A redirection takes no reference away.
LEMMA RedirectedKept ==
  ASSUME IInv, NEW from \in Ids, NEW to \in Ids, NEW f \in Facts,
         facts'[f] \in {facts[f], Redirected(facts, from, to)[f]}
  PROVE  FactKept(f)
BY RedirectedFacts, Tables DEF FactKept, To

\* An upsert, or a table left alone, removes no entity.
LEMMA UpsertRemovesNone ==
  ASSUME IInv, NEW n \in Names, NEW aliases \in SUBSET Names, CanUpsert(n),
         entities' = Upserted(n, aliases), NEW i \in Ids
  PROVE  ~Removed(i)
<1>1. \A k \in Live : entities'[k] = entities[k]
  BY UpsertKeeps
<1> QED
  BY <1>1, Tables DEF Removed, Present

\* The survivor takes over what the duplicate had.
LEMMA MergeKeepsEvidence ==
  ASSUME IInv, NEW w \in Workers, MergeCommit(w)
  PROVE  /\ \A f \in Facts : FactKept(f)
         /\ \A i \in Ids : Removed(i) => \E k \in Ids \ {i} : TakenOver(i, k)
<1> DEFINE survivor == job[w].one
           duplicate == job[w].two
<1>1. /\ survivor \in Ids /\ duplicate \in Ids
      /\ facts' = Redirected(facts, duplicate, survivor)
      /\ edges' = (edges \ Touching(duplicate))
                  \cup RedirectedEdges(Touching(duplicate), duplicate, survivor)
  BY MergeStep
<1>2. survivor # duplicate
  BY MergeStep
<1>3. \A i \in Ids : Removed(i) => i = duplicate
  BY MergeStep, Tables DEF Removed, Present
<1> HIDE DEF survivor, duplicate
<1>4. \A f \in Facts : FactKept(f)
  BY <1>1, RedirectedKept
<1>5. ASSUME NEW f \in Facts
      PROVE  /\ facts'[f].subject = To(facts[f].subject, duplicate, survivor)
             /\ facts'[f].object = To(facts[f].object, duplicate, survivor)
  BY <1>1, RedirectedFacts, Tables
<1>6. ASSUME NEW e \in edges
      PROVE  Edge(To(e.subject, duplicate, survivor), To(e.object, duplicate, survivor), e.label)
               \in edges'
  <2> DEFINE new == [e EXCEPT !.subject = To(e.subject, duplicate, survivor),
                              !.object = To(e.object, duplicate, survivor)]
  <2>1. e \in Edges
    BY Tables
  <2>2. new = Edge(To(e.subject, duplicate, survivor), To(e.object, duplicate, survivor), e.label)
    <3>1. new \in [subject : {To(e.subject, duplicate, survivor)},
                   object : {To(e.object, duplicate, survivor)}, label : {e.label}]
      BY <2>1 DEF Edges
    <3> HIDE DEF new
    <3> QED
      BY <3>1 DEF Edge
  <2>3. CASE e \in Touching(duplicate)
    <3>1. new \in RedirectedEdges(Touching(duplicate), duplicate, survivor)
      BY <2>3 DEF RedirectedEdges
    <3> QED
      BY <1>1, <2>2, <3>1
  <2>4. CASE e \notin Touching(duplicate)
    <3>1. e.subject # duplicate /\ e.object # duplicate
      BY <2>4 DEF Touching
    <3>2. e = Edge(e.subject, e.object, e.label)
      BY <2>1 DEF Edges, Edge
    <3> QED
      BY <1>1, <2>4, <3>1, <3>2 DEF To
  <2> QED
    BY <2>3, <2>4
<1>7. TakenOver(duplicate, survivor)
  BY <1>5, <1>6 DEF TakenOver
<1> QED
  BY <1>1, <1>2, <1>3, <1>4, <1>7

LEMMA StepKeepsEvidence ==
  ASSUME IInv, [Next]_vars
  PROVE  /\ \A f \in Facts : FactKept(f)
         /\ \A i \in Live :
              ~Present(entities', i) => \E k \in Ids \ {i} : TakenOver(i, k)
<1>1. ASSUME UNCHANGED entities
      PROVE  \A i \in Ids : ~Removed(i)
  BY <1>1 DEF Removed, Live
<1>2. ASSUME UNCHANGED facts
      PROVE  \A f \in Facts : FactKept(f)
  BY <1>2 DEF FactKept
<1>3. CASE UNCHANGED vars \/ Exhausted
  BY <1>1, <1>2, <1>3 DEF vars, Exhausted, Removed, Live
<1>4. ASSUME NEW w \in Workers, Ingest(w)
      PROVE  /\ \A f \in Facts : FactKept(f)
             /\ \A i \in Ids : ~Removed(i)
  <2>1. ASSUME NEW n \in Names, IngestEntity(w, n)
        PROVE  /\ \A f \in Facts : FactKept(f)
               /\ \A i \in Ids : ~Removed(i)
    BY <1>2, <2>1, UpsertRemovesNone DEF IngestEntity
  <2>2. ASSUME NEW n \in Names, NEW label \in Labels, IngestEdge(w, n, label)
        PROVE  /\ \A f \in Facts : FactKept(f)
               /\ \A i \in Ids : ~Removed(i)
    BY <1>2, <2>2, UpsertRemovesNone DEF IngestEdge
  <2>3. ASSUME NEW f \in Facts, NEW object \in Live \cup {NULL}, IngestFact(w, f, object)
        PROVE  /\ \A g \in Facts : FactKept(g)
               /\ \A i \in Ids : ~Removed(i)
    <3>1. \A g \in Facts \ {f} : facts'[g] = facts[g]
      BY <2>3, Tables DEF IngestFact
    <3>2. facts[f] = NoFact
      BY <2>3, Tables DEF IngestFact, Blank
    <3> QED
      BY <1>1, <2>3, <3>1, <3>2 DEF IngestFact, FactKept, NoFact
  <2>4. CASE IngestFails(w)
    BY <1>1, <1>2, <2>4 DEF IngestFails
  <2> QED
    BY <1>4, <2>1, <2>2, <2>3, <2>4 DEF Ingest
<1>5. ASSUME NEW w \in Workers, Split(w)
      PROVE  /\ \A f \in Facts : FactKept(f)
             /\ \A i \in Ids : ~Removed(i)
  <2>1. CASE \E source \in Ids : SplitRead(w, source)
    BY <1>1, <1>2, <2>1 DEF SplitRead
  <2>2. ASSUME NEW n \in Names, NEW aliases \in NewAliases,
               NEW moveFacts \in SUBSET Facts, NEW moveEdges \in SUBSET edges,
               SplitCommit(w, n, aliases, moveFacts, moveEdges)
        PROVE  /\ \A f \in Facts : FactKept(f)
               /\ \A i \in Ids : ~Removed(i)
    <3>1. aliases \in SUBSET Names
      BY GraphAssumption
    <3>2. IdOf(n) \in Ids /\ job[w].one \in Ids
      BY <2>2, <3>1, UpsertKeeps DEF SplitCommit, IInv, JobOK
    <3>3. \A f \in Facts : facts'[f] \in {facts[f], Redirected(facts, job[w].one, IdOf(n))[f]}
      BY <2>2 DEF SplitCommit
    <3> QED
      BY <2>2, <3>1, <3>2, <3>3, RedirectedKept, UpsertRemovesNone DEF SplitCommit
  <2> QED
    BY <1>5, <2>1, <2>2 DEF Split
<1>6. ASSUME NEW w \in Workers, Merge(w) \/ Abandon(w), ~MergeCommit(w)
      PROVE  /\ \A f \in Facts : FactKept(f)
             /\ \A i \in Ids : ~Removed(i)
  BY <1>1, <1>2, <1>6 DEF Merge, MergeRead, MergeFails, Abandon
<1>7. \A i \in Ids : Removed(i) <=> i \in Live /\ ~Present(entities', i)
  BY DEF Removed
<1>8. Live \subseteq Ids
  BY DEF Live
<1> QED
  BY <1>3, <1>4, <1>5, <1>6, <1>7, <1>8, MergeKeepsEvidence DEF Next

\* No step takes a subject or an object from a fact, and when a merge deletes an
\* entity, another one takes over all its facts and edges.
THEOREM EvidenceHolds == Spec => EvidenceKept
<1>1. IInv /\ [Next]_vars =>
        [/\ \A f \in Facts :
              /\ facts[f].subject # NULL => facts'[f].subject # NULL
              /\ facts[f].object # NULL => facts'[f].object # NULL
         /\ \A i \in Live :
              ~Present(entities', i) => \E k \in Ids \ {i} : TakenOver(i, k)]_vars
  BY StepKeepsEvidence DEF FactKept
<1> QED
  BY <1>1, Invariance, PTL DEF Spec, EvidenceKept

-----------------------------------------------------------------------------
\* Names.

NamesOf(row) == {row.name} \cup row.aliases

\* Names stay when every row stays, or hands its names to another.
LEMMA NamesHandedOver ==
  ASSUME \A i \in Live : \E k \in Ids :
            entities'[k] # Gone /\ NamesOf(entities[i]) \subseteq NamesOf(entities'[k])
  PROVE  AllNames(entities) \subseteq AllNames(entities')
BY DEF AllNames, NamesOf, Live, Present

LEMMA RowsStayNames ==
  ASSUME \A i \in Live : entities'[i] = entities[i]
  PROVE  AllNames(entities) \subseteq AllNames(entities')
BY NamesHandedOver DEF Live, Present

LEMMA UpsertKeepsNames ==
  ASSUME IInv, NEW n \in Names, NEW aliases \in SUBSET Names, CanUpsert(n),
         entities' = Upserted(n, aliases)
  PROVE  AllNames(entities) \subseteq AllNames(entities')
BY UpsertKeeps, RowsStayNames

\* The survivor takes over the duplicate's name and aliases, and keeps its own.
LEMMA FreshMergeKeepsNames ==
  ASSUME IInv, NEW w \in Workers, MergeCommit(w), ~Stale(w)
  PROVE  AllNames(entities) \subseteq AllNames(entities')
<1> DEFINE survivor == job[w].one
           duplicate == job[w].two
<1>1. /\ survivor \in Ids /\ duplicate \in Ids /\ survivor # duplicate
      /\ entities[survivor] = job[w].first /\ entities[duplicate] = job[w].second
      /\ job[w].first \in Entities
      /\ entities[survivor] # Gone
  BY GraphAssumption DEF IInv, JobOK, MergeCommit, Stale, Entities, Gone
<1>2. survivor \in Live
  BY <1>1, Tables
<1>3. entities' = [[entities EXCEPT ![survivor].aliases = Aliases(w)] EXCEPT ![duplicate] = Gone]
  BY <1>2 DEF MergeCommit
<1>4. /\ entities'[survivor] = [job[w].first EXCEPT !.aliases = Aliases(w)]
      /\ \A i \in Ids \ {survivor, duplicate} : entities'[i] = entities[i]
  BY <1>1, <1>3, Tables DEF Rows
<1>5. /\ entities'[survivor].name = job[w].first.name
      /\ entities'[survivor].aliases = Aliases(w)
  BY <1>1, <1>4 DEF Entities
<1>6. entities'[survivor] # Gone
  BY <1>1, <1>5, GraphAssumption DEF Entities, Gone
<1>7. /\ NamesOf(entities[survivor]) \subseteq NamesOf(entities'[survivor])
      /\ NamesOf(entities[duplicate]) \subseteq NamesOf(entities'[survivor])
  BY <1>1, <1>5 DEF NamesOf, Aliases
<1> HIDE DEF survivor, duplicate
<1> QED
  BY <1>1, <1>4, <1>6, <1>7, Tables, NamesHandedOver

LEMMA StepKeepsNames ==
  ASSUME IInv, [Next]_vars, \A w \in Workers : ~Stale(w)
  PROVE  AllNames(entities) \subseteq AllNames(entities')
<1>1. ASSUME UNCHANGED entities
      PROVE  AllNames(entities) \subseteq AllNames(entities')
  BY <1>1 DEF AllNames
<1>2. CASE UNCHANGED vars \/ Exhausted
  BY <1>1, <1>2 DEF vars, Exhausted
<1>3. ASSUME NEW w \in Workers, Ingest(w)
      PROVE  AllNames(entities) \subseteq AllNames(entities')
  <2>1. CASE \E n \in Names : CanUpsert(n) /\ entities' = Upserted(n, {})
    BY <2>1, UpsertKeepsNames
  <2> QED
    BY <1>1, <1>3, <2>1 DEF Ingest, IngestEntity, IngestEdge, IngestFact, IngestFails
<1>4. ASSUME NEW w \in Workers, Split(w)
      PROVE  AllNames(entities) \subseteq AllNames(entities')
  BY <1>1, <1>4, UpsertKeepsNames, GraphAssumption DEF Split, SplitRead, SplitCommit
<1>5. ASSUME NEW w \in Workers, Merge(w) \/ Abandon(w), ~MergeCommit(w)
      PROVE  AllNames(entities) \subseteq AllNames(entities')
  BY <1>1, <1>5 DEF Merge, MergeRead, MergeFails, Abandon
<1> QED
  BY <1>2, <1>3, <1>4, <1>5, FreshMergeKeepsNames DEF Next

\* As long as no merge works on what another request has changed, no name by
\* which an entity can be found is lost.
THEOREM NamesHold == Spec => NamesKept
<1>1. IInv /\ [Next]_vars =>
        [(\A w \in Workers : ~Stale(w)) => AllNames(entities) \subseteq AllNames(entities')]_vars
  BY StepKeepsNames
<1> QED
  BY <1>1, Invariance, PTL DEF Spec, NamesKept
=============================================================================
