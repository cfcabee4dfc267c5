--------------------------- MODULE IngestPipeline ---------------------------
(***************************************************************************)
(* Ingestion of a folder of documents and archives: ingest_folder of       *)
(* app/ingest.py over the tables ingest_files (the manifest) and sources,  *)
(* as run by scripts/batch_ingest.py.                                      *)
(*                                                                         *)
(* upsert_ingest_file and insert_document_chunk begin with a script, and a *)
(* script commits what is pending.  So a document is committed piece by    *)
(* piece: first its manifest row and its source, then one unit after the   *)
(* other (a chunk, or the part of a chunk after a table), then the row     *)
(* that says it is indexed.  Each step here ends with one of these         *)
(* commits; between a run's first write and its commit no other run can    *)
(* write.                                                                  *)
(*                                                                         *)
(* KnownNever, KnownWhileProcessing, KnownFailed, DueAnyway, OriginalsAny  *)
(* and NoOriginals are slips the properties must catch, each written       *)
(* before the definition it would replace.                                 *)
(***************************************************************************)
EXTENDS Integers, Sequences, FiniteSets

CONSTANTS
    Runs,      \* processes and threads that may ingest the folder
    Paths,     \* paths of files, in the folder or extracted from an archive
    Contents,  \* what a file may hold, told apart by its checksum
    Kind,      \* [Contents -> {"document", "archive", "unsupported"}]
    Units,     \* units a document's text is committed in; 0: it has no text
    Members,   \* what an archive extracts: a sequence of <<path, content>>
    Folder,    \* the folder: a sequence of <<path, content>>, sorted
    Options,   \* the options runs are started with
    MaxSources,       \* bound: ids of sources rows
    OverlapLimit,     \* bound: sources up to which a run starts without resume,
                      \* or while another is at work
    MaxInterruptions, \* bound: errors and crashes
    NoPath, NoContent

ASSUME IngestAssumption ==
    /\ Kind \in [Contents -> {"document", "archive", "unsupported"}]
    /\ Units \in [Contents -> Nat]
    /\ Members \in [Contents -> Seq(Paths \X Contents)]
    /\ Folder \in Seq(Paths \X Contents)
    /\ Options \subseteq [resume : BOOLEAN, retry_failed : BOOLEAN,
                          retry_unsupported : BOOLEAN, limit : Nat]
    /\ MaxSources \in Nat
    /\ OverlapLimit \in Nat
    /\ MaxInterruptions \in Nat
    /\ NoPath \notin Paths
    /\ NoContent \notin Contents

\* What the folder or an archive may put at a path.
Files == {Folder[i] : i \in DOMAIN Folder}
         \cup UNION {{Members[c][i] : i \in DOMAIN Members[c]} : c \in Contents}

\* diagnose_file: the suffixes of archives and of documents have none in common,
\* so no path holds an archive at one time and a document at another.
ASSUME SuffixAssumption ==
    \A f, g \in Files : f[1] = g[1] /\ Kind[f[2]] = "archive" => Kind[g[2]] # "document"

SourceIds == 1..MaxSources
NoSource == 0

VARIABLES
    disk,          \* what each path holds now
    manifest,      \* the committed ingest_files rows
    sources,       \* the committed sources, with the units of text they have
    job,           \* where each run is
    interruptions  \* errors and crashes so far

vars == <<disk, manifest, sources, job, interruptions>>

RESUME_INDEXED_STATUSES == {"indexed", "archive_indexed", "duplicate_skipped"}
Finished == RESUME_INDEXED_STATUSES \cup {"skipped_unsupported", "failed"}

Rows == [status   : Finished \cup {"absent", "processing"},
         checksum : Contents \cup {NoContent},
         source   : SourceIds \cup {NoSource}]
Absent == [status |-> "absent", checksum |-> NoContent, source |-> NoSource]

\* The checksum comes from the run that routed the file, the content is what
\* was read when the file was parsed.
Sources == [checksum : Contents \cup {NoContent}, content : Contents \cup {NoContent},
            units : Nat]
NoneYet == [checksum |-> NoContent, content |-> NoContent, units |-> 0]

\* One frame per folder being walked: what is left to route, how much of the
\* limit is left, and the archive the folder was extracted from.
Frames == [todo : Seq(Paths), left : Nat, archive : Paths \cup {NoPath},
           checksum : Contents \cup {NoContent}]

\* "parse": routed, not yet opened.  "chunks": source committed, units to come.
Jobs == [pc : {"idle", "route", "parse", "chunks"}, options : Options \cup {NoPath},
         frames : Seq(Frames), checksum : Contents \cup {NoContent},
         source : SourceIds \cup {NoSource}]
NoJob == [pc |-> "idle", options |-> NoPath, frames |-> <<>>,
          checksum |-> NoContent, source |-> NoSource]

PathsOf(files) == [i \in DOMAIN files |-> files[i][1]]

-----------------------------------------------------------------------------
Top(r) == Head(job[r].frames)
Here(r) == Head(Top(r).todo)

\* The run looks at a file: it is past the previous one.
Routing(r) == job[r].pc = "route" /\ Top(r).todo # <<>>

Passed(frame, cost) ==
    [frame EXCEPT !.todo = Tail(@), !.left = @ - cost]

\* Back to routing after a file of the frames' top folder.
Advance(r, frames, cost) ==
    job' = [job EXCEPT ![r] =
               [NoJob EXCEPT !.pc = "route", !.options = job[r].options,
                             !.frames = <<Passed(Head(frames), cost)>> \o Tail(frames)]]

\* upsert_ingest_file: a missing checksum or source keeps the old one.
Upserted(rows, p, status, checksum, source) ==
    [rows EXCEPT ![p] =
        [status   |-> status,
         checksum |-> IF checksum = NoContent THEN rows[p].checksum ELSE checksum,
         source   |-> IF source = NoSource THEN rows[p].source ELSE source]]

Upsert(p, status, checksum, source) == Upserted(manifest, p, status, checksum, source)

\* A file is recorded: its final row is committed and the run moves on.
Record(r, p, status, checksum, source) ==
    /\ manifest' = Upsert(p, status, checksum, source)
    /\ Advance(r, job[r].frames, 1)

Interrupt ==
    /\ interruptions < MaxInterruptions
    /\ interruptions' = interruptions + 1

-----------------------------------------------------------------------------
\* What a resumed run does not look at again.  A row left "processing" by a
\* run that died is not among it.
KnownNever(r, p) == FALSE
KnownFailed(r, p) == job[r].options.resume /\ manifest[p].status \in Finished
Known(r, p) ==
    /\ job[r].options.resume
    /\ \/ manifest[p].status \in RESUME_INDEXED_STATUSES
       \/ manifest[p].status = "skipped_unsupported" /\ ~job[r].options.retry_unsupported
       \/ manifest[p].status = "failed" /\ ~job[r].options.retry_failed

\* The file is to be routed, and the limit lets it.
DueAnyway(r, kind) ==
    /\ Routing(r)
    /\ disk[Here(r)] # NoContent
    /\ ~Known(r, Here(r))
    /\ Kind[disk[Here(r)]] = kind
Due(r, kind) ==
    /\ Routing(r)
    /\ disk[Here(r)] # NoContent
    /\ ~Known(r, Here(r))
    /\ Top(r).left > 0
    /\ Kind[disk[Here(r)]] = kind

Stored == {s \in SourceIds : sources[s] # NoneYet}

StartRun(r, options) ==
    /\ job[r].pc = "idle"
    /\ \/ options.resume /\ \A q \in Runs : job[q].pc = "idle"
       \/ Cardinality(Stored) < OverlapLimit
    /\ job' = [job EXCEPT ![r] =
                  [NoJob EXCEPT !.pc = "route", !.options = options,
                                !.frames = <<[todo |-> PathsOf(Folder),
                                              left |-> options.limit,
                                              archive |-> NoPath,
                                              checksum |-> NoContent]>>]]
    /\ UNCHANGED <<disk, manifest, sources, interruptions>>

\* Gone from the disk since the folder was listed, or known from the manifest.
PassOver(r) ==
    /\ Routing(r)
    /\ disk[Here(r)] = NoContent \/ Known(r, Here(r))
    /\ Advance(r, job[r].frames, 0)
    /\ UNCHANGED <<disk, manifest, sources, interruptions>>

StopAtLimit(r) ==
    /\ Routing(r)
    /\ disk[Here(r)] # NoContent
    /\ ~Known(r, Here(r))
    /\ Top(r).left = 0
    /\ job' = [job EXCEPT ![r] = [@ EXCEPT !.frames =
                  <<[Top(r) EXCEPT !.todo = <<>>]>> \o Tail(job[r].frames)]]
    /\ UNCHANGED <<disk, manifest, sources, interruptions>>

EndRun(r) ==
    /\ job[r].pc = "route"
    /\ Top(r).todo = <<>>
    /\ Top(r).archive = NoPath
    /\ job' = [job EXCEPT ![r] = NoJob]
    /\ UNCHANGED <<disk, manifest, sources, interruptions>>

SkipUnsupported(r) ==
    /\ Due(r, "unsupported")
    /\ Record(r, Here(r), "skipped_unsupported", NoContent, NoSource)
    /\ UNCHANGED <<disk, sources, interruptions>>

-----------------------------------------------------------------------------
\* Archives.  The folder an archive is extracted to has the archive's name: what
\* an archive of that name left there before is removed.

MemberPaths(c) == {Members[c][i][1] : i \in DOMAIN Members[c]}

Siblings(c) ==
    UNION {MemberPaths(a) : a \in {a \in Contents : MemberPaths(a) \cap MemberPaths(c) # {}}}

\* The first n members are extracted.
Extracted(c, n) ==
    [p \in Paths |->
        IF \E i \in 1..n : Members[c][i][1] = p
        THEN Members[c][CHOOSE i \in 1..n : Members[c][i][1] = p][2]
        ELSE IF p \in Siblings(c) THEN NoContent ELSE disk[p]]

\* The row is committed by the script that the inner ingest_folder begins with.
OpenArchive(r) ==
    /\ Due(r, "archive")
    /\ LET archive == disk[Here(r)]
       IN /\ disk' = Extracted(archive, Len(Members[archive]))
          /\ job' = [job EXCEPT ![r] = [@ EXCEPT !.frames =
                        <<[todo |-> PathsOf(Members[archive]), left |-> Top(r).left,
                           archive |-> Here(r), checksum |-> archive]>> \o job[r].frames]]
    /\ manifest' = Upsert(Here(r), "processing", disk[Here(r)], NoSource)
    /\ UNCHANGED <<sources, interruptions>>

\* Also when the folder was left at its limit.
CloseArchive(r) ==
    /\ job[r].pc = "route"
    /\ Top(r).todo = <<>>
    /\ Top(r).archive # NoPath
    /\ manifest' = Upsert(Top(r).archive, "archive_indexed", Top(r).checksum, NoSource)
    /\ Advance(r, Tail(job[r].frames), 1)
    /\ UNCHANGED <<disk, sources, interruptions>>

\* The archive does not open, or not all of it can be extracted.
ArchiveFails(r) ==
    /\ Due(r, "archive")
    /\ Interrupt
    /\ Record(r, Here(r), "failed", disk[Here(r)], NoSource)
    /\ \/ UNCHANGED disk
       \/ \E n \in 0..Len(Members[disk[Here(r)]]) : disk' = Extracted(disk[Here(r)], n)
    /\ UNCHANGED sources

-----------------------------------------------------------------------------
\* Documents.

OriginalsAny(c, p) == {q \in Paths \ {p} : manifest[q].checksum = c}
NoOriginals(c, p) == {}
Originals(c, p) ==
    {q \in Paths \ {p} : /\ manifest[q].checksum = c
                         /\ manifest[q].status \in {"indexed", "archive_indexed"}}

SkipDuplicate(r) ==
    /\ Due(r, "document")
    /\ job[r].options.resume
    /\ \E q \in Originals(disk[Here(r)], Here(r)) :
        Record(r, Here(r), "duplicate_skipped", disk[Here(r)], manifest[q].source)
    /\ UNCHANGED <<disk, sources, interruptions>>

\* The checksum and the search for an original are reads: no lock is held yet.
Begin(r) ==
    /\ Due(r, "document")
    /\ job[r].options.resume => Originals(disk[Here(r)], Here(r)) = {}
    /\ job' = [job EXCEPT ![r] = [@ EXCEPT !.pc = "parse", !.checksum = disk[Here(r)]]]
    /\ UNCHANGED <<disk, manifest, sources, interruptions>>

\* Ids are given out in order; AUTOINCREMENT uses none again.
NextSource(s) ==
    /\ sources[s] = NoneYet
    /\ \A t \in SourceIds : t < s => sources[t] # NoneYet

\* The first chunk commits the row "processing" and the source.
OpenSource(r) ==
    /\ job[r].pc = "parse"
    /\ disk[Here(r)] # NoContent
    /\ Units[disk[Here(r)]] > 0
    /\ manifest' = Upsert(Here(r), "processing", job[r].checksum, NoSource)
    /\ \E s \in SourceIds :
        /\ NextSource(s)
        /\ sources' = [sources EXCEPT ![s] =
              [checksum |-> job[r].checksum, content |-> disk[Here(r)], units |-> 0]]
        /\ job' = [job EXCEPT ![r] = [@ EXCEPT !.pc = "chunks", !.source = s]]
    /\ UNCHANGED <<disk, interruptions>>

Whole(s) == sources[s].units = Units[sources[s].content]

WriteUnit(r) ==
    /\ job[r].pc = "chunks"
    /\ sources[job[r].source].units < Units[sources[job[r].source].content]
    /\ sources' = [sources EXCEPT ![job[r].source].units = @ + 1]
    /\ UNCHANGED <<disk, manifest, job, interruptions>>

Index(r) ==
    /\ job[r].pc = "chunks"
    /\ Whole(job[r].source)
    /\ Record(r, Here(r), "indexed", job[r].checksum, job[r].source)
    /\ UNCHANGED <<disk, sources, interruptions>>

-----------------------------------------------------------------------------
\* The handler of ingest_folder records the failure; what the document has
\* written so far is committed with it.

\* There is no text in the file, or the file is gone.
Unreadable(r) ==
    /\ job[r].pc = "parse"
    /\ disk[Here(r)] # NoContent => Units[disk[Here(r)]] = 0
    /\ Record(r, Here(r), "failed", job[r].checksum, NoSource)
    /\ UNCHANGED <<disk, sources, interruptions>>

\* Any other error: a converter fails, the database stays locked past the
\* timeout, an entity of the document was merged away.  A source that was not
\* committed yet may be committed now.
FileFails(r) ==
    /\ job[r].pc \in {"parse", "chunks"}
    /\ Interrupt
    /\ Record(r, Here(r), "failed", job[r].checksum, NoSource)
    /\ \/ UNCHANGED sources
       \/ /\ job[r].pc = "parse"
          /\ disk[Here(r)] # NoContent
          /\ \E s \in SourceIds :
                /\ NextSource(s)
                /\ sources' = [sources EXCEPT ![s] =
                      [checksum |-> job[r].checksum, content |-> disk[Here(r)], units |-> 0]]
    /\ UNCHANGED disk

\* What the handler commits of the file in hand when it fails itself.
Leavings(r) ==
    {manifest} \cup (IF job[r].pc = "parse"
                     THEN {Upsert(Here(r), "processing", job[r].checksum, NoSource)}
                     ELSE {})

\* The handler fails as well, say because the database stays locked, within an
\* archive: the handler around the archive records it as failed.
FolderFails(r) ==
    /\ job[r].pc # "idle"
    /\ Top(r).archive # NoPath
    /\ Interrupt
    /\ \E rows \in Leavings(r) :
        manifest' = Upserted(rows, Top(r).archive, "failed", Top(r).checksum, NoSource)
    /\ Advance(r, Tail(job[r].frames), 1)
    /\ UNCHANGED <<disk, sources>>

\* The process stops, or the handler fails outside an archive and the run ends.
Crash(r) ==
    /\ job[r].pc # "idle"
    /\ Interrupt
    /\ manifest' \in Leavings(r)
    /\ job' = [job EXCEPT ![r] = NoJob]
    /\ UNCHANGED <<disk, sources>>

-----------------------------------------------------------------------------
Init ==
    /\ disk = [p \in Paths |->
                  IF \E i \in DOMAIN Folder : Folder[i][1] = p
                  THEN Folder[CHOOSE i \in DOMAIN Folder : Folder[i][1] = p][2]
                  ELSE NoContent]
    /\ manifest = [p \in Paths |-> Absent]
    /\ sources = [s \in SourceIds |-> NoneYet]
    /\ job = [r \in Runs |-> NoJob]
    /\ interruptions = 0

\* What a run does as long as nothing goes wrong.
Step(r) ==
    \/ PassOver(r) \/ StopAtLimit(r) \/ EndRun(r) \/ SkipUnsupported(r)
    \/ OpenArchive(r) \/ CloseArchive(r)
    \/ SkipDuplicate(r) \/ Begin(r) \/ OpenSource(r) \/ WriteUnit(r) \/ Index(r)
    \/ Unreadable(r)

Start(r) == \E options \in Options : StartRun(r, options)

Next ==
    \E r \in Runs :
        \/ Start(r)
        \/ Step(r)
        \/ ArchiveFails(r)
        \/ FileFails(r)
        \/ FolderFails(r)
        \/ Crash(r)

Spec == Init /\ [][Next]_vars

\* Runs get on with their work, and the operator starts one again as long as
\* files are left (README.md:489, "continue the batch").
Fairness == \A r \in Runs : WF_vars(Step(r)) /\ WF_vars(Start(r))
FairSpec == Spec /\ Fairness

-----------------------------------------------------------------------------
TypeOK ==
    /\ disk \in [Paths -> Contents \cup {NoContent}]
    /\ manifest \in [Paths -> Rows]
    /\ sources \in [SourceIds -> Sources]
    /\ job \in [Runs -> Jobs]
    /\ interruptions \in 0..MaxInterruptions

\* What the manifest calls indexed, or a duplicate of something indexed, has
\* a source with the file's checksum and with all of the text: no crash, error
\* or second run leaves such a row pointing to a source that was cut short.
\* ingest_folder takes these rows for done forever.
IndexedRowWhole(p) ==
    manifest[p].status \in {"indexed", "duplicate_skipped"} =>
        /\ manifest[p].source \in SourceIds
        /\ manifest[p].checksum \in Contents
        /\ sources[manifest[p].source].checksum = manifest[p].checksum
        /\ Whole(manifest[p].source)

IndexedWhole == \A p \in Paths : IndexedRowWhole(p)

InFlight(r, p) ==
    \/ job[r].pc \in {"parse", "chunks"} /\ Here(r) = p
    \/ \E i \in DOMAIN job[r].frames : job[r].frames[i].archive = p

\* A finished file is left alone by every run started with resume, whatever
\* crashed before and whatever archive the file turns up in again; the
\* exception is a file that a second run had in hand when it was finished.
DoneStays ==
    [][\A p \in Paths :
          /\ manifest[p].status \in RESUME_INDEXED_STATUSES
          /\ \A r \in Runs : job[r].pc # "idle" => job[r].options.resume
          /\ ~\E r \in Runs : InFlight(r, p)
          => manifest'[p] = manifest[p]]_vars

Copies(c) == {s \in SourceIds : sources[s].checksum = c}

\* Runs that come one after the other and resume store a content once, and
\* once more for each error or crash, however many paths and archives hold it.
\* For runs that do not overlap.
DedupeBound ==
    \A c \in Contents : Cardinality(Copies(c)) <= 1 + interruptions

\* Files of the folder that a run with these options tries again each time and
\* in vain.  Each of them uses up the limit.
Hopeless(options) ==
    {i \in DOMAIN Folder :
        \/ options.retry_failed /\ Kind[Folder[i][2]] = "document" /\ Units[Folder[i][2]] = 0
        \/ options.retry_unsupported /\ Kind[Folder[i][2]] = "unsupported"}

\* The limit is more than what is tried in vain may use up.
Enough(options) == options.resume /\ options.limit > Cardinality(Hopeless(options))

Underway(options) == \E r \in Runs : job[r].pc # "idle" /\ job[r].options = options

\* As long as there are runs with limit enough, every file of the folder is
\* sooner or later settled for good, although runs crash and stop at their
\* limit: a row left "processing" is taken up again, and a run passes over what
\* is settled, or tries it again, without coming to a stop before the rest.
SettlingRuns == []<>(\E options \in Options : Enough(options) /\ Underway(options))


\* As long as there are runs that retry failures, with limit enough, each
\* readable document of the folder ends up indexed, whatever failed before.
RetryingRuns ==
    []<>(\E options \in Options : Enough(options) /\ options.retry_failed /\ Underway(options))

Readable == {i \in DOMAIN Folder : Kind[Folder[i][2]] = "document" /\ Units[Folder[i][2]] > 0}

FolderRetried ==
    RetryingRuns =>
        \A i \in Readable : <>[](manifest[Folder[i][1]].status \in {"indexed", "duplicate_skipped"})

-----------------------------------------------------------------------------
\* What the documentation says of the program.

\* README.md: "per-file commit".  A committed source that no run is writing
\* has all of its text.
PerFileCommit ==
    \A s \in SourceIds :
        /\ sources[s] # NoneYet
        /\ ~\E r \in Runs : job[r].pc = "chunks" /\ job[r].source = s
        => Whole(s)

\* README.md: what resume passes over is what is already known.  Every
\* member of an archive of the folder is sooner or later reached.
MembersReached ==
    \A i \in DOMAIN Folder :
        \A j \in DOMAIN Members[Folder[i][2]] :
            <>(manifest[Members[Folder[i][2]][j][1]].status \in Finished)

=============================================================================
