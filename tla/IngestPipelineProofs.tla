------------------------ MODULE IngestPipelineProofs ------------------------
(***************************************************************************)
(* Theorems about IngestPipeline for any folder, any nesting of archives   *)
(* and any number of runs and interruptions.  Only the last one, on copies *)
(* of a content, is about runs that do not overlap.                        *)
(***************************************************************************)
EXTENDS IngestPipeline, FiniteSetTheorems, TLAPS

-----------------------------------------------------------------------------
\* The inductive invariant.

\* A folder in which a file is being worked on.
Engaged(frame) == frame.todo # <<>> /\ frame.left > 0

OfArchive(frame) ==
    /\ frame.archive \in Paths
    /\ frame.checksum \in Contents
    /\ Kind[frame.checksum] = "archive"

\* The folders below the top are at work on the archive above them; only the
\* last one, the folder the run was started on, is not from an archive.
WellStacked(frames) ==
    /\ frames \in Seq(Frames)
    /\ frames # <<>>
    /\ \A i \in 2..Len(frames) : Engaged(frames[i])
    /\ \A i \in 1..Len(frames) :
        IF i = Len(frames) THEN frames[i].archive = NoPath ELSE OfArchive(frames[i])

JobOK(r) ==
    /\ job[r].pc # "idle" => WellStacked(job[r].frames)
    /\ job[r].pc = "idle" => job[r].frames = <<>>
    /\ job[r].pc \in {"parse", "chunks"} =>
        /\ Engaged(Top(r))
        /\ job[r].checksum \in Contents
    /\ job[r].pc = "chunks" =>
        /\ job[r].source \in SourceIds
        /\ sources[job[r].source].checksum = job[r].checksum

\* A document with the checksum of an archive is not among the duplicates.
ArchiveRow(p) ==
    manifest[p].status = "archive_indexed" =>
        /\ manifest[p].checksum \in Contents
        /\ Kind[manifest[p].checksum] = "archive"

IInv ==
    /\ TypeOK
    /\ \A r \in Runs : JobOK(r)
    /\ \A p \in Paths : IndexedRowWhole(p) /\ ArchiveRow(p)

-----------------------------------------------------------------------------
\* Frames.

LEMMA PassedType ==
  ASSUME NEW frame \in Frames, frame.todo # <<>>, NEW cost \in {0, 1},
         cost = 1 => frame.left > 0
  PROVE  /\ Passed(frame, cost) \in Frames
         /\ Passed(frame, cost).archive = frame.archive
         /\ Passed(frame, cost).checksum = frame.checksum
<1>1. Tail(frame.todo) \in Seq(Paths)
  BY DEF Frames
<1>2. frame.left - cost \in Nat
  BY DEF Frames
<1> QED
  BY <1>1, <1>2 DEF Frames, Passed

LEMMA Replaced ==
  ASSUME NEW frames, WellStacked(frames), NEW frame \in Frames,
         frame.archive = Head(frames).archive, frame.checksum = Head(frames).checksum
  PROVE  WellStacked(<<frame>> \o Tail(frames))
<1> DEFINE new == <<frame>> \o Tail(frames)
<1>1. frames \in Seq(Frames) /\ frames # <<>>
  BY DEF WellStacked
<1>2. new \in Seq(Frames) /\ Len(new) = Len(frames) /\ new # <<>>
  BY <1>1
<1>3. new[1] = frame /\ Head(frames) = frames[1]
  BY <1>1
<1>4. \A i \in 2..Len(frames) : new[i] = frames[i]
  BY <1>1
<1>5. Len(frames) \in Nat /\ Len(frames) >= 1
  BY <1>1
<1> HIDE DEF new
<1>6. \A i \in 2..Len(new) : Engaged(new[i])
  BY <1>2, <1>4 DEF WellStacked
<1>7. ASSUME NEW i \in 1..Len(new)
      PROVE  IF i = Len(new) THEN new[i].archive = NoPath ELSE OfArchive(new[i])
  <2>1. CASE i = 1
    BY <2>1, <1>2, <1>3, <1>5 DEF WellStacked, OfArchive
  <2>2. CASE i \in 2..Len(frames)
    BY <2>2, <1>2, <1>4, <1>5 DEF WellStacked
  <2> QED
    BY <2>1, <2>2, <1>2, <1>5
<1>8. WellStacked(new)
  BY <1>2, <1>6, <1>7 DEF WellStacked
<1> QED
  BY <1>8 DEF new

LEMMA Popped ==
  ASSUME NEW frames, WellStacked(frames), Head(frames).archive # NoPath
  PROVE  WellStacked(Tail(frames)) /\ Engaged(Head(Tail(frames)))
<1> DEFINE new == Tail(frames)
<1>1. frames \in Seq(Frames) /\ frames # <<>> /\ Len(frames) \in Nat /\ Len(frames) >= 1
  BY DEF WellStacked
<1>2. Head(frames) = frames[1]
  BY <1>1
<1>3. Len(frames) >= 2
  BY <1>1, <1>2 DEF WellStacked
<1>4. new \in Seq(Frames) /\ Len(new) = Len(frames) - 1 /\ new # <<>>
  BY <1>1, <1>3
<1>5. \A i \in 1..Len(new) : new[i] = frames[i + 1]
  BY <1>1, <1>4
<1>6. Head(new) = frames[2]
  BY <1>4, <1>5
<1> HIDE DEF new
<1>7. Engaged(Head(new))
  BY <1>6, <1>3, <1>1 DEF WellStacked
<1>8. \A i \in 2..Len(new) : Engaged(new[i])
  BY <1>4, <1>5, <1>1 DEF WellStacked
<1>9. ASSUME NEW i \in 1..Len(new)
      PROVE  IF i = Len(new) THEN new[i].archive = NoPath ELSE OfArchive(new[i])
  <2>1. i + 1 \in 1..Len(frames) /\ (i = Len(new) <=> i + 1 = Len(frames))
    BY <1>4, <1>1
  <2> QED
    BY <2>1, <1>5 DEF WellStacked
<1>10. WellStacked(new)
  BY <1>4, <1>8, <1>9 DEF WellStacked
<1> QED
  BY <1>7, <1>10 DEF new

LEMMA Pushed ==
  ASSUME NEW frames, WellStacked(frames), Engaged(Head(frames)),
         NEW frame \in Frames, OfArchive(frame)
  PROVE  WellStacked(<<frame>> \o frames) /\ Head(<<frame>> \o frames) = frame
<1> DEFINE new == <<frame>> \o frames
<1>1. frames \in Seq(Frames) /\ frames # <<>> /\ Len(frames) \in Nat /\ Len(frames) >= 1
  BY DEF WellStacked
<1>2. new \in Seq(Frames) /\ Len(new) = Len(frames) + 1 /\ new # <<>>
  BY <1>1
<1>3. new[1] = frame /\ Head(frames) = frames[1] /\ Head(new) = frame
  BY <1>1
<1>4. \A i \in 2..Len(new) : new[i] = frames[i - 1]
  BY <1>1, <1>2
<1> HIDE DEF new
<1>5. ASSUME NEW i \in 2..Len(new) PROVE Engaged(new[i])
  <2>1. CASE i = 2
    BY <2>1, <1>4, <1>3
  <2>2. CASE i # 2
    <3>1. i - 1 \in 2..Len(frames)
      BY <2>2, <1>1, <1>2
    <3> QED
      BY <3>1, <1>4 DEF WellStacked
  <2> QED
    BY <2>1, <2>2
<1>6. ASSUME NEW i \in 1..Len(new)
      PROVE  IF i = Len(new) THEN new[i].archive = NoPath ELSE OfArchive(new[i])
  <2>1. CASE i = 1
    BY <2>1, <1>1, <1>2, <1>3
  <2>2. CASE i # 1
    <3>1. /\ i - 1 \in 1..Len(frames)
          /\ i = Len(new) <=> i - 1 = Len(frames)
          /\ i \in 2..Len(new)
      BY <2>2, <1>1, <1>2
    <3> QED
      BY <3>1, <1>4 DEF WellStacked
  <2> QED
    BY <2>1, <2>2
<1>7. WellStacked(new)
  BY <1>2, <1>5, <1>6 DEF WellStacked
<1> QED
  BY <1>7, <1>3 DEF new

-----------------------------------------------------------------------------
\* Types of what the actions write.

LEMMA PathsOfType ==
  ASSUME NEW files \in Seq(Paths \X Contents)
  PROVE  PathsOf(files) \in Seq(Paths)
<1>1. \A i \in 1..Len(files) : files[i][1] \in Paths
  OBVIOUS
<1> QED
  BY <1>1 DEF PathsOf

LEMMA MembersType ==
  ASSUME NEW c \in Contents
  PROVE  Members[c] \in Seq(Paths \X Contents)
BY IngestAssumption

LEMMA ExtractedType ==
  ASSUME TypeOK, NEW c \in Contents, NEW n \in 0..Len(Members[c])
  PROVE  Extracted(c, n) \in [Paths -> Contents \cup {NoContent}]
<1>1. Members[c] \in Seq(Paths \X Contents)
  BY MembersType
<1>2. \A i \in 1..n : Members[c][i][2] \in Contents
  BY <1>1
<1>3. ASSUME NEW p \in Paths, \E i \in 1..n : Members[c][i][1] = p
      PROVE  (CHOOSE i \in 1..n : Members[c][i][1] = p) \in 1..n
  BY <1>3
<1> QED
  BY <1>2, <1>3 DEF Extracted, TypeOK

LEMMA UpsertedType ==
  ASSUME NEW rows \in [Paths -> Rows], NEW p \in Paths,
         NEW status \in Finished \cup {"processing"},
         NEW checksum \in Contents \cup {NoContent},
         NEW source \in SourceIds \cup {NoSource}
  PROVE  /\ Upserted(rows, p, status, checksum, source) \in [Paths -> Rows]
         /\ Upserted(rows, p, status, checksum, source)[p].status = status
         /\ \A q \in Paths \ {p} :
               Upserted(rows, p, status, checksum, source)[q] = rows[q]
         /\ checksum # NoContent =>
               Upserted(rows, p, status, checksum, source)[p].checksum = checksum
         /\ source # NoSource =>
               Upserted(rows, p, status, checksum, source)[p].source = source
<1> DEFINE row == [status   |-> status,
                   checksum |-> IF checksum = NoContent THEN rows[p].checksum ELSE checksum,
                   source   |-> IF source = NoSource THEN rows[p].source ELSE source]
<1>1. row \in Rows
  BY DEF Rows
<1> QED
  BY <1>1 DEF Upserted

LEMMA InterruptType ==
  ASSUME TypeOK, Interrupt
  PROVE  interruptions' \in 0..MaxInterruptions
BY IngestAssumption DEF TypeOK, Interrupt

LEMMA AdvanceType ==
  ASSUME TypeOK, NEW r \in Runs, NEW frames, WellStacked(frames),
         Head(frames).todo # <<>>, NEW cost \in {0, 1},
         cost = 1 => Head(frames).left > 0, Advance(r, frames, cost)
  PROVE  /\ job' \in [Runs -> Jobs]
         /\ job'[r].pc = "route"
         /\ WellStacked(job'[r].frames)
         /\ \A q \in Runs \ {r} : job'[q] = job[q]
<1> DEFINE top == Passed(Head(frames), cost)
           new == <<top>> \o Tail(frames)
           next == [NoJob EXCEPT !.pc = "route", !.options = job[r].options,
                                 !.frames = new]
<1>1. Head(frames) \in Frames
  BY DEF WellStacked
<1>2. /\ top \in Frames
      /\ top.archive = Head(frames).archive
      /\ top.checksum = Head(frames).checksum
  BY <1>1, PassedType
<1> HIDE DEF top
<1>3. WellStacked(new)
  BY <1>2, Replaced
<1>4. new \in Seq(Frames)
  BY <1>3 DEF WellStacked
<1> HIDE DEF new
<1>5. job[r].options \in Options \cup {NoPath}
  BY DEF TypeOK, Jobs
<1>6. next \in Jobs /\ next.pc = "route" /\ next.frames = new
  BY <1>4, <1>5 DEF Jobs, NoJob
<1>7. job' = [job EXCEPT ![r] = next]
  BY DEF Advance, new, top
<1> HIDE DEF next
<1>8. job \in [Runs -> Jobs]
  BY DEF TypeOK
<1> QED
  BY <1>3, <1>6, <1>7, <1>8

-----------------------------------------------------------------------------
\* What a step leaves as it was.

SourcesKept ==
    \A s \in SourceIds :
        /\ sources[s].checksum \in Contents => sources'[s].checksum = sources[s].checksum
        /\ sources[s].checksum \in Contents /\ Whole(s) => Whole(s)'

LEMMA SameSources ==
  ASSUME UNCHANGED sources
  PROVE  SourcesKept
BY DEF SourcesKept, Whole

LEMMA SameJob ==
  ASSUME SourcesKept, NEW q \in Runs, JobOK(q), job'[q] = job[q]
  PROVE  JobOK(q)'
BY DEF SourcesKept, JobOK, Top

LEMMA RoutingJob ==
  ASSUME NEW q \in Runs, job'[q].pc = "route", WellStacked(job'[q].frames)
  PROVE  JobOK(q)'
BY DEF JobOK, Top

LEMMA SameRow ==
  ASSUME SourcesKept, NEW p \in Paths, IndexedRowWhole(p), ArchiveRow(p),
         manifest'[p] = manifest[p]
  PROVE  IndexedRowWhole(p)' /\ ArchiveRow(p)'
BY DEF SourcesKept, IndexedRowWhole, ArchiveRow

LEMMA OpenRow ==
  ASSUME NEW p \in Paths,
         manifest'[p].status \in {"processing", "failed", "skipped_unsupported"}
  PROVE  IndexedRowWhole(p)' /\ ArchiveRow(p)'
BY DEF IndexedRowWhole, ArchiveRow

-----------------------------------------------------------------------------
\* Where a run is.

LEMMA AtWork ==
  ASSUME IInv, NEW r \in Runs, job[r].pc # "idle"
  PROVE  /\ WellStacked(job[r].frames)
         /\ Top(r) \in Frames
         /\ Top(r).todo # <<>> => Here(r) \in Paths
<1>1. WellStacked(job[r].frames)
  BY DEF IInv, JobOK
<1>2. Top(r) \in Frames
  BY <1>1 DEF WellStacked, Top
<1> QED
  BY <1>1, <1>2 DEF Here, Frames

LEMMA InHand ==
  ASSUME IInv, NEW r \in Runs, job[r].pc \in {"parse", "chunks"}
  PROVE  Here(r) \in Paths /\ Engaged(Top(r)) /\ job[r].checksum \in Contents
<1>1. Engaged(Top(r)) /\ job[r].checksum \in Contents
  BY DEF IInv, JobOK
<1> QED
  BY <1>1, AtWork DEF Engaged

LEMMA IsDue ==
  ASSUME IInv, NEW r \in Runs, NEW kind, Due(r, kind)
  PROVE  /\ job[r].pc = "route"
         /\ Here(r) \in Paths
         /\ Engaged(Top(r))
         /\ disk[Here(r)] \in Contents
         /\ Kind[disk[Here(r)]] = kind
<1>1. job[r].pc = "route" /\ Top(r).todo # <<>> /\ Top(r).left > 0
  BY DEF Due, Routing
<1>2. Here(r) \in Paths
  BY <1>1, AtWork
<1> QED
  BY <1>1, <1>2 DEF Due, Engaged, IInv, TypeOK

LEMMA AdvanceStep ==
  ASSUME IInv, NEW r \in Runs, NEW frames, WellStacked(frames), SourcesKept,
         Head(frames).todo # <<>>, NEW cost \in {0, 1},
         cost = 1 => Head(frames).left > 0, Advance(r, frames, cost)
  PROVE  job' \in [Runs -> Jobs] /\ \A q \in Runs : JobOK(q)'
<1>1. TypeOK
  BY DEF IInv
<1>2. /\ job' \in [Runs -> Jobs]
      /\ job'[r].pc = "route"
      /\ WellStacked(job'[r].frames)
      /\ \A q \in Runs \ {r} : job'[q] = job[q]
  BY <1>1, AdvanceType
<1>3. JobOK(r)'
  BY <1>2, RoutingJob
<1>4. ASSUME NEW q \in Runs, q # r PROVE JobOK(q)'
  BY <1>2, <1>4, SameJob DEF IInv
<1> QED
  BY <1>2, <1>3, <1>4

LEMMA RowsStep ==
  ASSUME IInv, SourcesKept, NEW p \in Paths,
         \A q \in Paths \ {p} : manifest'[q] = manifest[q],
         IndexedRowWhole(p)', ArchiveRow(p)'
  PROVE  \A q \in Paths : IndexedRowWhole(q)' /\ ArchiveRow(q)'
<1>1. ASSUME NEW q \in Paths, q # p PROVE IndexedRowWhole(q)' /\ ArchiveRow(q)'
  BY <1>1, SameRow DEF IInv
<1> QED
  BY <1>1

LEMMA SameRows ==
  ASSUME IInv, SourcesKept, UNCHANGED manifest
  PROVE  \A q \in Paths : IndexedRowWhole(q)' /\ ArchiveRow(q)'
BY SameRow DEF IInv

\* A file's last row is written and the run moves on.
LEMMA RecordStep ==
  ASSUME IInv, NEW r \in Runs, job[r].pc # "idle", Engaged(Top(r)), SourcesKept,
         NEW p \in Paths, NEW status \in Finished,
         NEW checksum \in Contents \cup {NoContent},
         NEW source \in SourceIds \cup {NoSource},
         Record(r, p, status, checksum, source)
  PROVE  /\ job' \in [Runs -> Jobs] /\ \A q \in Runs : JobOK(q)'
         /\ manifest' \in [Paths -> Rows]
         /\ \A q \in Paths \ {p} : manifest'[q] = manifest[q]
         /\ manifest'[p].status = status
         /\ checksum # NoContent => manifest'[p].checksum = checksum
         /\ source # NoSource => manifest'[p].source = source
<1>1. WellStacked(job[r].frames)
  BY AtWork
<1>2. Head(job[r].frames).todo # <<>> /\ Head(job[r].frames).left > 0
  BY DEF Engaged, Top
<1>3. Advance(r, job[r].frames, 1)
  BY DEF Record
<1>4. job' \in [Runs -> Jobs] /\ \A q \in Runs : JobOK(q)'
  BY <1>1, <1>2, <1>3, AdvanceStep
<1>5. manifest \in [Paths -> Rows]
  BY DEF IInv, TypeOK
<1>6. manifest' = Upserted(manifest, p, status, checksum, source)
  BY DEF Record, Upsert
<1>7. /\ manifest' \in [Paths -> Rows]
      /\ manifest'[p].status = status
      /\ \A q \in Paths \ {p} : manifest'[q] = manifest[q]
      /\ checksum # NoContent => manifest'[p].checksum = checksum
      /\ source # NoSource => manifest'[p].source = source
  <2>1. /\ status \in Finished \cup {"processing"}
        /\ checksum \in Contents \cup {NoContent}
        /\ source \in SourceIds \cup {NoSource}
        /\ p \in Paths
    OBVIOUS
  <2>2. /\ Upserted(manifest, p, status, checksum, source) \in [Paths -> Rows]
        /\ Upserted(manifest, p, status, checksum, source)[p].status = status
        /\ \A q \in Paths \ {p} :
              Upserted(manifest, p, status, checksum, source)[q] = manifest[q]
    BY <1>5, <2>1, UpsertedType
  <2>3. checksum # NoContent =>
           Upserted(manifest, p, status, checksum, source)[p].checksum = checksum
    BY <1>5 DEF Upserted
  <2>4. source # NoSource =>
           Upserted(manifest, p, status, checksum, source)[p].source = source
    BY <1>5 DEF Upserted
  <2> QED
    BY <1>6, <2>2, <2>3, <2>4
<1> QED
  BY <1>4, <1>7

\* In particular a row that promises nothing.
LEMMA RecordOpen ==
  ASSUME IInv, NEW r \in Runs, job[r].pc # "idle", Engaged(Top(r)), SourcesKept,
         NEW p \in Paths, NEW status \in {"failed", "skipped_unsupported"},
         NEW checksum \in Contents \cup {NoContent},
         Record(r, p, status, checksum, NoSource)
  PROVE  /\ job' \in [Runs -> Jobs] /\ \A q \in Runs : JobOK(q)'
         /\ manifest' \in [Paths -> Rows]
         /\ \A q \in Paths : IndexedRowWhole(q)' /\ ArchiveRow(q)'
<1>1. status \in Finished
  BY DEF Finished
<1>2. /\ job' \in [Runs -> Jobs] /\ \A q \in Runs : JobOK(q)'
      /\ manifest' \in [Paths -> Rows]
      /\ \A q \in Paths \ {p} : manifest'[q] = manifest[q]
      /\ manifest'[p].status = status
  BY <1>1, RecordStep
<1>3. IndexedRowWhole(p)' /\ ArchiveRow(p)'
  BY <1>2, OpenRow
<1>4. \A q \in Paths : IndexedRowWhole(q)' /\ ArchiveRow(q)'
  BY <1>2, <1>3, RowsStep
<1> QED
  BY <1>2, <1>4

-----------------------------------------------------------------------------
\* Every action keeps the invariant.

LEMMA InitIInv == Init => IInv
<1> SUFFICES ASSUME Init PROVE IInv
  OBVIOUS
<1>1. disk \in [Paths -> Contents \cup {NoContent}]
  <2>1. \A j \in 1..Len(Folder) : Folder[j][2] \in Contents
    BY IngestAssumption
  <2>2. ASSUME NEW p \in Paths, \E j \in DOMAIN Folder : Folder[j][1] = p
        PROVE  Folder[CHOOSE j \in DOMAIN Folder : Folder[j][1] = p][2] \in Contents
    <3>1. DOMAIN Folder = 1..Len(Folder)
      BY IngestAssumption
    <3>2. (CHOOSE j \in DOMAIN Folder : Folder[j][1] = p) \in DOMAIN Folder
      BY <2>2
    <3> QED
      BY <2>1, <3>1, <3>2
  <2> QED
    BY <2>2 DEF Init
<1>2. NoJob \in Jobs
  BY DEF NoJob, Jobs
<1>3. Absent \in Rows /\ NoneYet \in Sources
  BY DEF Absent, Rows, NoneYet, Sources
<1>4. TypeOK
  BY <1>1, <1>2, <1>3, IngestAssumption DEF Init, TypeOK
<1>5. \A r \in Runs : JobOK(r)
  BY DEF Init, JobOK, NoJob
<1>6. \A p \in Paths : IndexedRowWhole(p) /\ ArchiveRow(p)
  BY DEF Init, Absent, IndexedRowWhole, ArchiveRow
<1> QED
  BY <1>4, <1>5, <1>6 DEF IInv

LEMMA StartRunKeeps ==
  ASSUME IInv, NEW r \in Runs, NEW options \in Options, StartRun(r, options)
  PROVE  IInv'
<1> DEFINE frame == [todo |-> PathsOf(Folder), left |-> options.limit,
                     archive |-> NoPath, checksum |-> NoContent]
           new == [NoJob EXCEPT !.pc = "route", !.options = options, !.frames = <<frame>>]
<1>1. frame \in Frames
  BY PathsOfType, IngestAssumption DEF Frames
<1>2. frame.archive = NoPath
  OBVIOUS
<1>3. job' = [job EXCEPT ![r] = new]
  BY DEF StartRun
<1> HIDE DEF frame
<1>4. WellStacked(<<frame>>)
  BY <1>1, <1>2 DEF WellStacked
<1>5. new \in Jobs /\ new.pc = "route" /\ new.frames = <<frame>>
  <2>1. <<frame>> \in Seq(Frames)
    BY <1>1
  <2> QED
    BY <2>1 DEF Jobs, NoJob
<1> HIDE DEF new
<1>6. job \in [Runs -> Jobs]
  BY DEF IInv, TypeOK
<1>7. job' \in [Runs -> Jobs] /\ \A q \in Runs \ {r} : job'[q] = job[q]
  BY <1>3, <1>5, <1>6
<1>8. SourcesKept /\ UNCHANGED manifest
  BY SameSources DEF StartRun
<1>9. JobOK(r)'
  <2>1. job'[r].pc = "route" /\ WellStacked(job'[r].frames)
    BY <1>3, <1>4, <1>5, <1>6
  <2> QED
    BY <2>1, RoutingJob
<1>10. \A q \in Runs : JobOK(q)'
  <2>1. ASSUME NEW q \in Runs, q # r PROVE JobOK(q)'
    BY <2>1, <1>7, <1>8, SameJob DEF IInv
  <2> QED
    BY <2>1, <1>9
<1>11. \A q \in Paths : IndexedRowWhole(q)' /\ ArchiveRow(q)'
  BY <1>8, SameRows
<1>12. TypeOK'
  BY <1>7 DEF StartRun, IInv, TypeOK
<1> QED
  BY <1>10, <1>11, <1>12 DEF IInv

LEMMA PassOverKeeps ==
  ASSUME IInv, NEW r \in Runs, PassOver(r)
  PROVE  IInv'
<1>1. job[r].pc = "route" /\ Top(r).todo # <<>>
  BY DEF PassOver, Routing
<1>2. WellStacked(job[r].frames) /\ Head(job[r].frames).todo # <<>>
  BY <1>1, AtWork DEF Top
<1>3. SourcesKept /\ UNCHANGED manifest
  BY SameSources DEF PassOver
<1>4. job' \in [Runs -> Jobs] /\ \A q \in Runs : JobOK(q)'
  <2>1. Advance(r, job[r].frames, 0)
    BY DEF PassOver
  <2> QED
    BY <2>1, <1>2, <1>3, AdvanceStep
<1>5. \A q \in Paths : IndexedRowWhole(q)' /\ ArchiveRow(q)'
  BY <1>3, SameRows
<1>6. TypeOK'
  BY <1>4 DEF PassOver, IInv, TypeOK
<1> QED
  BY <1>4, <1>5, <1>6 DEF IInv

LEMMA StopAtLimitKeeps ==
  ASSUME IInv, NEW r \in Runs, StopAtLimit(r)
  PROVE  IInv'
<1> DEFINE frame == [Top(r) EXCEPT !.todo = <<>>]
           frames == <<frame>> \o Tail(job[r].frames)
<1>1. job[r].pc = "route" /\ WellStacked(job[r].frames) /\ Top(r) \in Frames
  BY AtWork DEF StopAtLimit, Routing
<1>2. /\ frame \in Frames
      /\ frame.archive = Head(job[r].frames).archive
      /\ frame.checksum = Head(job[r].frames).checksum
  <2>1. <<>> \in Seq(Paths)
    OBVIOUS
  <2>2. ASSUME NEW f \in Frames
        PROVE  /\ [f EXCEPT !.todo = <<>>] \in Frames
               /\ [f EXCEPT !.todo = <<>>].archive = f.archive
               /\ [f EXCEPT !.todo = <<>>].checksum = f.checksum
    BY <2>1 DEF Frames
  <2> QED
    BY <1>1, <2>2 DEF Top
<1>3. job' = [job EXCEPT ![r] = [@ EXCEPT !.frames = frames]]
  BY DEF StopAtLimit
<1> HIDE DEF frame
<1>4. WellStacked(frames)
  BY <1>1, <1>2, Replaced
<1>5. frames \in Seq(Frames)
  BY <1>4 DEF WellStacked
<1> HIDE DEF frames
<1>6. job \in [Runs -> Jobs]
  BY DEF IInv, TypeOK
<1>7. ASSUME NEW j \in Jobs, j.pc = "route"
      PROVE  /\ [j EXCEPT !.frames = frames] \in Jobs
             /\ [j EXCEPT !.frames = frames].pc = "route"
             /\ [j EXCEPT !.frames = frames].frames = frames
  BY <1>5, <1>7 DEF Jobs
<1>8. /\ job' \in [Runs -> Jobs]
      /\ job'[r].pc = "route"
      /\ job'[r].frames = frames
      /\ \A q \in Runs \ {r} : job'[q] = job[q]
  BY <1>1, <1>3, <1>6, <1>7
<1>9. SourcesKept /\ UNCHANGED manifest
  BY SameSources DEF StopAtLimit
<1>10. \A q \in Runs : JobOK(q)'
  <2>1. JobOK(r)'
    BY <1>4, <1>8, RoutingJob
  <2>2. ASSUME NEW q \in Runs, q # r PROVE JobOK(q)'
    BY <2>2, <1>8, <1>9, SameJob DEF IInv
  <2> QED
    BY <2>1, <2>2
<1>11. \A q \in Paths : IndexedRowWhole(q)' /\ ArchiveRow(q)'
  BY <1>9, SameRows
<1>12. TypeOK'
  BY <1>8 DEF StopAtLimit, IInv, TypeOK
<1> QED
  BY <1>10, <1>11, <1>12 DEF IInv

\* A run that ends or is cut off.
LEMMA IdleJobs ==
  ASSUME IInv, SourcesKept, NEW r \in Runs, job' = [job EXCEPT ![r] = NoJob]
  PROVE  job' \in [Runs -> Jobs] /\ \A q \in Runs : JobOK(q)'
<1>1. NoJob \in Jobs /\ NoJob.pc = "idle" /\ NoJob.frames = <<>>
  BY DEF NoJob, Jobs
<1>2. job \in [Runs -> Jobs]
  BY DEF IInv, TypeOK
<1>3. /\ job' \in [Runs -> Jobs]
      /\ job'[r] = NoJob
      /\ \A q \in Runs \ {r} : job'[q] = job[q]
  BY <1>1, <1>2
<1>4. JobOK(r)'
  BY <1>1, <1>3 DEF JobOK
<1>5. ASSUME NEW q \in Runs, q # r PROVE JobOK(q)'
  BY <1>3, <1>5, SameJob DEF IInv
<1> QED
  BY <1>3, <1>4, <1>5

LEMMA EndRunKeeps ==
  ASSUME IInv, NEW r \in Runs, EndRun(r)
  PROVE  IInv'
<1>1. SourcesKept /\ UNCHANGED manifest
  BY SameSources DEF EndRun
<1>2. job' \in [Runs -> Jobs] /\ \A q \in Runs : JobOK(q)'
  BY <1>1, IdleJobs DEF EndRun
<1>3. \A q \in Paths : IndexedRowWhole(q)' /\ ArchiveRow(q)'
  BY <1>1, SameRows
<1>4. TypeOK'
  BY <1>2 DEF EndRun, IInv, TypeOK
<1> QED
  BY <1>2, <1>3, <1>4 DEF IInv

LEMMA SkipUnsupportedKeeps ==
  ASSUME IInv, NEW r \in Runs, SkipUnsupported(r)
  PROVE  IInv'
<1>1. job[r].pc # "idle" /\ Here(r) \in Paths /\ Engaged(Top(r))
  BY IsDue DEF SkipUnsupported
<1>2. SourcesKept
  BY SameSources DEF SkipUnsupported
<1>3. /\ job' \in [Runs -> Jobs] /\ \A q \in Runs : JobOK(q)'
      /\ manifest' \in [Paths -> Rows]
      /\ \A q \in Paths : IndexedRowWhole(q)' /\ ArchiveRow(q)'
  <2>1. Record(r, Here(r), "skipped_unsupported", NoContent, NoSource)
    BY DEF SkipUnsupported
  <2> QED
    BY <2>1, <1>1, <1>2, RecordOpen
<1>4. TypeOK'
  BY <1>3 DEF SkipUnsupported, IInv, TypeOK
<1> QED
  BY <1>3, <1>4 DEF IInv

LEMMA OpenArchiveKeeps ==
  ASSUME IInv, NEW r \in Runs, OpenArchive(r)
  PROVE  IInv'
<1> DEFINE c == disk[Here(r)]
           frame == [todo |-> PathsOf(Members[c]), left |-> Top(r).left,
                     archive |-> Here(r), checksum |-> c]
           frames == <<frame>> \o job[r].frames
<1>1. /\ job[r].pc = "route" /\ Here(r) \in Paths /\ Engaged(Top(r))
      /\ c \in Contents /\ Kind[c] = "archive"
  BY IsDue DEF OpenArchive
<1>2. WellStacked(job[r].frames) /\ Top(r) \in Frames
  BY <1>1, AtWork
<1>3. Members[c] \in Seq(Paths \X Contents)
  BY <1>1, MembersType
<1>4. job' = [job EXCEPT ![r] = [@ EXCEPT !.frames = frames]]
  BY DEF OpenArchive
<1>5. disk' = Extracted(c, Len(Members[c]))
  BY DEF OpenArchive
<1>6. manifest' = Upserted(manifest, Here(r), "processing", c, NoSource)
  BY DEF OpenArchive, Upsert
<1> HIDE DEF c
<1>7. PathsOf(Members[c]) \in Seq(Paths)
  BY <1>3, PathsOfType
<1>8. frame \in Frames
  BY <1>1, <1>2, <1>7 DEF Frames
<1>9. OfArchive(frame)
  BY <1>1 DEF OfArchive
<1> HIDE DEF frame
<1>10. WellStacked(frames)
  BY <1>1, <1>2, <1>8, <1>9, Pushed DEF Top
<1>11. frames \in Seq(Frames)
  BY <1>10 DEF WellStacked
<1> HIDE DEF frames
<1>12. TypeOK /\ job \in [Runs -> Jobs] /\ manifest \in [Paths -> Rows]
  BY DEF IInv, TypeOK
<1>13. ASSUME NEW j \in Jobs, j.pc = "route"
       PROVE  /\ [j EXCEPT !.frames = frames] \in Jobs
              /\ [j EXCEPT !.frames = frames].pc = "route"
              /\ [j EXCEPT !.frames = frames].frames = frames
  BY <1>11, <1>13 DEF Jobs
<1>14. /\ job' \in [Runs -> Jobs]
       /\ job'[r].pc = "route"
       /\ job'[r].frames = frames
       /\ \A q \in Runs \ {r} : job'[q] = job[q]
  BY <1>1, <1>4, <1>12, <1>13
<1>15. SourcesKept
  BY SameSources DEF OpenArchive
<1>16. \A q \in Runs : JobOK(q)'
  <2>1. JobOK(r)'
    BY <1>10, <1>14, RoutingJob
  <2>2. ASSUME NEW q \in Runs, q # r PROVE JobOK(q)'
    BY <2>2, <1>14, <1>15, SameJob DEF IInv
  <2> QED
    BY <2>1, <2>2
<1>17. /\ manifest' \in [Paths -> Rows]
       /\ manifest'[Here(r)].status = "processing"
       /\ \A q \in Paths \ {Here(r)} : manifest'[q] = manifest[q]
  <2>1. PICK p \in Paths, archive \in Contents : p = Here(r) /\ archive = c
    BY <1>1
  <2>2. manifest' = Upserted(manifest, p, "processing", archive, NoSource)
    BY <1>6, <2>1
  <2> QED
    BY <1>12, <2>1, <2>2, UpsertedType
<1>18. \A q \in Paths : IndexedRowWhole(q)' /\ ArchiveRow(q)'
  <2>1. PICK p \in Paths : p = Here(r)
    BY <1>1
  <2>2. IndexedRowWhole(p)' /\ ArchiveRow(p)'
    BY <1>17, <2>1, OpenRow
  <2> QED
    BY <1>15, <1>17, <2>1, <2>2, RowsStep
<1>19. disk' \in [Paths -> Contents \cup {NoContent}]
  <2>1. Len(Members[c]) \in 0..Len(Members[c])
    BY <1>3
  <2> QED
    BY <2>1, <1>1, <1>5, <1>12, ExtractedType
<1>20. TypeOK'
  BY <1>14, <1>17, <1>19, <1>12 DEF OpenArchive, TypeOK
<1> QED
  BY <1>16, <1>18, <1>20 DEF IInv

\* The archive the folder at the top is from, and the folder it was found in.
LEMMA AboveFolder ==
  ASSUME IInv, NEW r \in Runs, job[r].pc # "idle", Top(r).archive # NoPath
  PROVE  /\ OfArchive(Top(r))
         /\ WellStacked(Tail(job[r].frames))
         /\ Engaged(Head(Tail(job[r].frames)))
<1>1. WellStacked(job[r].frames)
  BY AtWork
<1>2. OfArchive(Top(r))
  <2>1. job[r].frames \in Seq(Frames) /\ Len(job[r].frames) >= 1
        /\ Top(r) = job[r].frames[1]
    BY <1>1 DEF WellStacked, Top
  <2> QED
    BY <1>1, <2>1 DEF WellStacked
<1> QED
  BY <1>1, <1>2, Popped DEF Top

LEMMA CloseArchiveKeeps ==
  ASSUME IInv, NEW r \in Runs, CloseArchive(r)
  PROVE  IInv'
<1>1. job[r].pc = "route" /\ Top(r).archive # NoPath
  BY DEF CloseArchive
<1>2. /\ OfArchive(Top(r))
      /\ WellStacked(Tail(job[r].frames))
      /\ Engaged(Head(Tail(job[r].frames)))
  BY <1>1, AboveFolder
<1>3. PICK p \in Paths, c \in Contents :
        p = Top(r).archive /\ c = Top(r).checksum /\ Kind[c] = "archive"
  BY <1>2 DEF OfArchive
<1>4. manifest' = Upserted(manifest, p, "archive_indexed", c, NoSource)
  BY <1>3 DEF CloseArchive, Upsert
<1>5. Advance(r, Tail(job[r].frames), 1) /\ UNCHANGED sources
  BY DEF CloseArchive
<1>6. SourcesKept
  BY <1>5, SameSources
<1>7. job' \in [Runs -> Jobs] /\ \A q \in Runs : JobOK(q)'
  BY <1>2, <1>5, <1>6, AdvanceStep DEF Engaged
<1>8. /\ manifest' \in [Paths -> Rows]
      /\ manifest'[p].status = "archive_indexed"
      /\ manifest'[p].checksum = c
      /\ \A q \in Paths \ {p} : manifest'[q] = manifest[q]
  <2>1. manifest \in [Paths -> Rows] /\ "archive_indexed" \in Finished /\ c # NoContent
    BY <1>3, IngestAssumption DEF IInv, TypeOK, Finished, RESUME_INDEXED_STATUSES
  <2> QED
    BY <2>1, <1>3, <1>4, UpsertedType
<1>9. \A q \in Paths : IndexedRowWhole(q)' /\ ArchiveRow(q)'
  <2>1. IndexedRowWhole(p)' /\ ArchiveRow(p)'
    BY <1>3, <1>8 DEF IndexedRowWhole, ArchiveRow
  <2> QED
    BY <2>1, <1>3, <1>6, <1>8, RowsStep
<1>10. TypeOK'
  BY <1>7, <1>8 DEF CloseArchive, IInv, TypeOK
<1> QED
  BY <1>7, <1>9, <1>10 DEF IInv

LEMMA ArchiveFailsKeeps ==
  ASSUME IInv, NEW r \in Runs, ArchiveFails(r)
  PROVE  IInv'
<1>1. /\ job[r].pc = "route" /\ Here(r) \in Paths /\ Engaged(Top(r))
      /\ disk[Here(r)] \in Contents
  BY IsDue DEF ArchiveFails
<1>2. SourcesKept
  BY SameSources DEF ArchiveFails
<1>3. /\ job' \in [Runs -> Jobs] /\ \A q \in Runs : JobOK(q)'
      /\ manifest' \in [Paths -> Rows]
      /\ \A q \in Paths : IndexedRowWhole(q)' /\ ArchiveRow(q)'
  <2>1. Record(r, Here(r), "failed", disk[Here(r)], NoSource)
    BY DEF ArchiveFails
  <2> QED
    BY <2>1, <1>1, <1>2, RecordOpen
<1>4. TypeOK
  BY DEF IInv
<1>5. disk' \in [Paths -> Contents \cup {NoContent}]
  <2>1. CASE UNCHANGED disk
    BY <2>1, <1>4 DEF TypeOK
  <2>2. CASE \E n \in 0..Len(Members[disk[Here(r)]]) : disk' = Extracted(disk[Here(r)], n)
    BY <2>2, <1>1, <1>4, ExtractedType
  <2> QED
    BY <2>1, <2>2 DEF ArchiveFails
<1>6. interruptions' \in 0..MaxInterruptions
  BY <1>4, InterruptType DEF ArchiveFails
<1>7. TypeOK'
  BY <1>3, <1>4, <1>5, <1>6 DEF ArchiveFails, TypeOK
<1> QED
  BY <1>3, <1>7 DEF IInv

LEMMA SkipDuplicateKeeps ==
  ASSUME IInv, NEW r \in Runs, SkipDuplicate(r)
  PROVE  IInv'
<1> DEFINE c == disk[Here(r)]
<1>1. /\ job[r].pc = "route" /\ Here(r) \in Paths /\ Engaged(Top(r))
      /\ c \in Contents /\ Kind[c] = "document"
  BY IsDue DEF SkipDuplicate
<1>2. PICK q \in Originals(c, Here(r)) :
        Record(r, Here(r), "duplicate_skipped", c, manifest[q].source)
  BY DEF SkipDuplicate
<1>3. UNCHANGED <<disk, sources, interruptions>>
  BY DEF SkipDuplicate
<1> HIDE DEF c
\* The original is a document: it is indexed, and so it has a whole source.
<1>4. /\ manifest[q].source \in SourceIds
      /\ sources[manifest[q].source].checksum = c
      /\ Whole(manifest[q].source)
  <2>1. /\ q \in Paths
        /\ manifest[q].checksum = c
        /\ manifest[q].status \in {"indexed", "archive_indexed"}
    BY <1>2 DEF Originals
  <2>2. manifest[q].status = "indexed"
    BY <1>1, <2>1 DEF IInv, ArchiveRow
  <2> QED
    BY <2>1, <2>2 DEF IInv, IndexedRowWhole
<1>5. SourcesKept
  BY <1>3, SameSources
<1>6. "duplicate_skipped" \in Finished /\ c # NoContent /\ manifest[q].source # NoSource
  BY <1>1, <1>4, IngestAssumption DEF Finished, RESUME_INDEXED_STATUSES, SourceIds, NoSource
<1>7. /\ job' \in [Runs -> Jobs] /\ \A w \in Runs : JobOK(w)'
      /\ manifest' \in [Paths -> Rows]
      /\ \A p \in Paths \ {Here(r)} : manifest'[p] = manifest[p]
      /\ manifest'[Here(r)].status = "duplicate_skipped"
      /\ manifest'[Here(r)].checksum = c
      /\ manifest'[Here(r)].source = manifest[q].source
  BY <1>1, <1>2, <1>4, <1>5, <1>6, RecordStep
<1>8. \A p \in Paths : IndexedRowWhole(p)' /\ ArchiveRow(p)'
  <2>1. PICK here \in Paths : here = Here(r)
    BY <1>1
  <2>2. /\ manifest'[here].status = "duplicate_skipped"
        /\ manifest'[here].checksum = c
        /\ manifest'[here].source = manifest[q].source
        /\ \A p \in Paths \ {here} : manifest'[p] = manifest[p]
    BY <1>7, <2>1
  <2>3. IndexedRowWhole(here)' /\ ArchiveRow(here)'
    BY <1>1, <1>3, <1>4, <2>2 DEF IndexedRowWhole, ArchiveRow, Whole
  <2> QED
    BY <2>1, <2>2, <2>3, <1>5, RowsStep
<1>9. TypeOK'
  BY <1>3, <1>7 DEF IInv, TypeOK
<1> QED
  BY <1>7, <1>8, <1>9 DEF IInv

LEMMA BeginKeeps ==
  ASSUME IInv, NEW r \in Runs, Begin(r)
  PROVE  IInv'
<1> DEFINE c == disk[Here(r)]
<1>1. job[r].pc = "route" /\ Engaged(Top(r)) /\ c \in Contents
  BY IsDue DEF Begin
<1>2. job' = [job EXCEPT ![r] = [@ EXCEPT !.pc = "parse", !.checksum = c]]
  BY DEF Begin
<1> HIDE DEF c
<1>3. WellStacked(job[r].frames)
  BY <1>1, AtWork
<1>4. job \in [Runs -> Jobs]
  BY DEF IInv, TypeOK
<1>5. ASSUME NEW j \in Jobs
      PROVE  LET new == [j EXCEPT !.pc = "parse", !.checksum = c]
             IN  new \in Jobs /\ new.pc = "parse" /\ new.checksum = c
                 /\ new.frames = j.frames
  BY <1>1 DEF Jobs
<1>6. /\ job' \in [Runs -> Jobs]
      /\ job'[r].pc = "parse" /\ job'[r].checksum = c
      /\ job'[r].frames = job[r].frames
      /\ \A q \in Runs \ {r} : job'[q] = job[q]
  BY <1>2, <1>4, <1>5
<1>7. SourcesKept /\ UNCHANGED manifest
  BY SameSources DEF Begin
<1>8. \A q \in Runs : JobOK(q)'
  <2>1. JobOK(r)'
    BY <1>1, <1>3, <1>6 DEF JobOK, Top
  <2>2. ASSUME NEW q \in Runs, q # r PROVE JobOK(q)'
    BY <2>2, <1>6, <1>7, SameJob DEF IInv
  <2> QED
    BY <2>1, <2>2
<1>9. \A q \in Paths : IndexedRowWhole(q)' /\ ArchiveRow(q)'
  BY <1>7, SameRows
<1>10. TypeOK'
  BY <1>6 DEF Begin, IInv, TypeOK
<1> QED
  BY <1>8, <1>9, <1>10 DEF IInv

\* A new source disturbs none that is there.
LEMMA NewSource ==
  ASSUME IInv, NEW s \in SourceIds, NextSource(s),
         NEW c \in Contents, NEW content \in Contents,
         sources' = [sources EXCEPT ![s] =
                        [checksum |-> c, content |-> content, units |-> 0]]
  PROVE  /\ SourcesKept
         /\ sources' \in [SourceIds -> Sources]
         /\ sources'[s].checksum = c
<1>1. sources \in [SourceIds -> Sources]
  BY DEF IInv, TypeOK
<1>2. sources[s].checksum \notin Contents
  BY IngestAssumption DEF NextSource, NoneYet
<1>3. \A t \in SourceIds : t # s => sources'[t] = sources[t]
  BY <1>1
<1>4. SourcesKept
  BY <1>2, <1>3 DEF SourcesKept, Whole
<1>5. [checksum |-> c, content |-> content, units |-> 0] \in Sources
  BY DEF Sources
<1> QED
  BY <1>1, <1>4, <1>5

LEMMA OpenSourceKeeps ==
  ASSUME IInv, NEW r \in Runs, OpenSource(r)
  PROVE  IInv'
<1>1. job[r].pc = "parse"
  BY DEF OpenSource
<1>2. PICK p \in Paths, c \in Contents : p = Here(r) /\ c = job[r].checksum
  BY <1>1, InHand
<1>3. TypeOK /\ job \in [Runs -> Jobs] /\ manifest \in [Paths -> Rows]
  BY DEF IInv, TypeOK
<1>4. PICK content \in Contents : content = disk[Here(r)]
  BY <1>2, <1>3 DEF OpenSource, TypeOK
<1>5. PICK s \in SourceIds :
        /\ NextSource(s)
        /\ sources' = [sources EXCEPT ![s] =
                          [checksum |-> job[r].checksum, content |-> disk[Here(r)],
                           units |-> 0]]
        /\ job' = [job EXCEPT ![r] = [@ EXCEPT !.pc = "chunks", !.source = s]]
  BY DEF OpenSource
<1>6. SourcesKept /\ sources' \in [SourceIds -> Sources] /\ sources'[s].checksum = c
  BY <1>2, <1>4, <1>5, NewSource
<1>7. ASSUME NEW j \in Jobs
      PROVE  LET new == [j EXCEPT !.pc = "chunks", !.source = s]
             IN  new \in Jobs /\ new.pc = "chunks" /\ new.source = s
                 /\ new.frames = j.frames /\ new.checksum = j.checksum
  BY DEF Jobs
<1>8. /\ job' \in [Runs -> Jobs]
      /\ job'[r].pc = "chunks" /\ job'[r].source = s
      /\ job'[r].frames = job[r].frames /\ job'[r].checksum = c
      /\ \A q \in Runs \ {r} : job'[q] = job[q]
  BY <1>2, <1>3, <1>5, <1>7
<1>9. \A q \in Runs : JobOK(q)'
  <2>1. JobOK(r) /\ Engaged(Top(r)) /\ WellStacked(job[r].frames)
    BY <1>1, InHand, AtWork DEF IInv
  <2>2. JobOK(r)'
    BY <2>1, <1>6, <1>8 DEF JobOK, Top
  <2>3. ASSUME NEW q \in Runs, q # r PROVE JobOK(q)'
    BY <2>3, <1>6, <1>8, SameJob DEF IInv
  <2> QED
    BY <2>2, <2>3
<1>10. manifest' = Upserted(manifest, p, "processing", c, NoSource)
  BY <1>2 DEF OpenSource, Upsert
<1>11. /\ manifest' \in [Paths -> Rows]
       /\ manifest'[p].status = "processing"
       /\ \A q \in Paths \ {p} : manifest'[q] = manifest[q]
  <2>1. manifest \in [Paths -> Rows] /\ "processing" \in Finished \cup {"processing"}
    BY <1>3
  <2>2. c \in Contents \cup {NoContent} /\ NoSource \in SourceIds \cup {NoSource}
    OBVIOUS
  <2> QED
    BY ONLY <2>1, <2>2, <1>10, UpsertedType
<1>12. \A q \in Paths : IndexedRowWhole(q)' /\ ArchiveRow(q)'
  <2>1. IndexedRowWhole(p)' /\ ArchiveRow(p)'
    BY <1>11, OpenRow
  <2> QED
    BY <1>6, <1>11, <2>1, RowsStep
<1>13. TypeOK'
  BY <1>3, <1>6, <1>8, <1>11 DEF OpenSource, TypeOK
<1> QED
  BY <1>9, <1>12, <1>13 DEF IInv

LEMMA WriteUnitKeeps ==
  ASSUME IInv, NEW r \in Runs, WriteUnit(r)
  PROVE  IInv'
<1>1. PICK s \in SourceIds : s = job[r].source
  BY DEF WriteUnit, IInv, JobOK
<1>2. sources \in [SourceIds -> Sources]
  BY DEF IInv, TypeOK
<1>3. /\ sources[s].units < Units[sources[s].content]
      /\ sources' = [sources EXCEPT ![s].units = @ + 1]
  BY <1>1 DEF WriteUnit
<1>4. ASSUME NEW row \in Sources
      PROVE  /\ [row EXCEPT !.units = @ + 1] \in Sources
             /\ [row EXCEPT !.units = @ + 1].checksum = row.checksum
  BY DEF Sources
<1>5. /\ sources' \in [SourceIds -> Sources]
      /\ \A t \in SourceIds : sources'[t].checksum = sources[t].checksum
      /\ \A t \in SourceIds \ {s} : sources'[t] = sources[t]
  <2> DEFINE new == [sources[s] EXCEPT !.units = @ + 1]
  <2>1. new \in Sources /\ new.checksum = sources[s].checksum
    BY <1>2, <1>4
  <2>2. sources'[s] = new
    BY <1>2, <1>3 DEF Sources
  <2>3. DOMAIN sources' = SourceIds /\ \A t \in SourceIds \ {s} : sources'[t] = sources[t]
    BY <1>2, <1>3
  <2>4. sources' = [t \in SourceIds |-> sources'[t]]
    BY <1>2, <1>3
  <2> HIDE DEF new
  <2>5. \A t \in SourceIds : sources'[t] \in Sources
    BY <1>2, <2>1, <2>2, <2>3
  <2> QED
    BY <2>1, <2>2, <2>3, <2>4, <2>5
\* The source that grows was not whole.
<1>6. ~(sources[s].checksum \in Contents /\ Whole(s))
  <2>1. sources[s].checksum \in Contents
    BY <1>1 DEF WriteUnit, IInv, JobOK
  <2>2. sources[s].units \in Nat
    BY <1>2 DEF Sources
  <2>3. CASE sources[s].content \in Contents
    <3>1. Units[sources[s].content] \in Nat
      BY <2>3, IngestAssumption
    <3> QED
      BY <3>1, <2>2, <1>3 DEF Whole
  <2>4. CASE sources[s].content = NoContent
    BY <2>4, <2>2, <1>3 DEF Whole
  <2> QED
    BY <2>3, <2>4, <1>2 DEF Sources
<1>7. SourcesKept
  BY <1>5, <1>6 DEF SourcesKept, Whole
<1>8. UNCHANGED <<manifest, job>>
  BY DEF WriteUnit
<1>9. \A q \in Runs : JobOK(q)'
  BY <1>7, <1>8, SameJob DEF IInv
<1>10. \A q \in Paths : IndexedRowWhole(q)' /\ ArchiveRow(q)'
  BY <1>7, <1>8, SameRows
<1>11. TypeOK'
  BY <1>5 DEF WriteUnit, IInv, TypeOK
<1> QED
  BY <1>9, <1>10, <1>11 DEF IInv

LEMMA IndexKeeps ==
  ASSUME IInv, NEW r \in Runs, Index(r)
  PROVE  IInv'
<1>1. job[r].pc = "chunks" /\ Whole(job[r].source) /\ UNCHANGED <<disk, sources, interruptions>>
  BY DEF Index
<1>2. Engaged(Top(r))
  BY <1>1, InHand
<1>3. PICK p \in Paths, c \in Contents, s \in SourceIds :
        /\ p = Here(r) /\ c = job[r].checksum /\ s = job[r].source
        /\ sources[s].checksum = c
  BY <1>1, InHand DEF IInv, JobOK
<1>4. Record(r, p, "indexed", c, s)
  BY <1>3 DEF Index
<1>5. SourcesKept
  BY <1>1, SameSources
<1>6. "indexed" \in Finished /\ c # NoContent /\ s # NoSource
  BY IngestAssumption DEF Finished, RESUME_INDEXED_STATUSES, SourceIds, NoSource
<1>7. /\ job' \in [Runs -> Jobs] /\ \A q \in Runs : JobOK(q)'
      /\ manifest' \in [Paths -> Rows]
      /\ \A q \in Paths \ {p} : manifest'[q] = manifest[q]
      /\ manifest'[p].status = "indexed"
      /\ manifest'[p].checksum = c
      /\ manifest'[p].source = s
  BY <1>1, <1>2, <1>4, <1>5, <1>6, RecordStep
<1>8. \A q \in Paths : IndexedRowWhole(q)' /\ ArchiveRow(q)'
  <2>1. IndexedRowWhole(p)' /\ ArchiveRow(p)'
    BY <1>1, <1>3, <1>7 DEF IndexedRowWhole, ArchiveRow, Whole
  <2> QED
    BY <2>1, <1>5, <1>7, RowsStep
<1>9. TypeOK'
  BY <1>1, <1>7 DEF IInv, TypeOK
<1> QED
  BY <1>7, <1>8, <1>9 DEF IInv

LEMMA UnreadableKeeps ==
  ASSUME IInv, NEW r \in Runs, Unreadable(r)
  PROVE  IInv'
<1>1. job[r].pc = "parse" /\ UNCHANGED <<disk, sources, interruptions>>
  BY DEF Unreadable
<1>2. Engaged(Top(r)) /\ Here(r) \in Paths /\ job[r].checksum \in Contents
  BY <1>1, InHand
<1>3. Record(r, Here(r), "failed", job[r].checksum, NoSource)
  BY DEF Unreadable
<1>4. SourcesKept
  BY <1>1, SameSources
<1>5. /\ job' \in [Runs -> Jobs] /\ \A q \in Runs : JobOK(q)'
      /\ manifest' \in [Paths -> Rows]
      /\ \A q \in Paths : IndexedRowWhole(q)' /\ ArchiveRow(q)'
  BY <1>1, <1>2, <1>3, <1>4, RecordOpen
<1>6. TypeOK'
  BY <1>1, <1>5 DEF IInv, TypeOK
<1> QED
  BY <1>5, <1>6 DEF IInv

LEMMA FileFailsKeeps ==
  ASSUME IInv, NEW r \in Runs, FileFails(r)
  PROVE  IInv'
<1>1. job[r].pc \in {"parse", "chunks"} /\ UNCHANGED disk
  BY DEF FileFails
<1>2. Engaged(Top(r)) /\ Here(r) \in Paths /\ job[r].checksum \in Contents
  BY <1>1, InHand
<1>3. Record(r, Here(r), "failed", job[r].checksum, NoSource)
  BY DEF FileFails
<1>4. SourcesKept /\ sources' \in [SourceIds -> Sources]
  <2>1. CASE UNCHANGED sources
    BY <2>1, SameSources DEF IInv, TypeOK
  <2>2. CASE ~UNCHANGED sources
    <3>1. PICK s \in SourceIds :
            /\ NextSource(s)
            /\ disk[Here(r)] # NoContent
            /\ sources' = [sources EXCEPT ![s] =
                 [checksum |-> job[r].checksum, content |-> disk[Here(r)], units |-> 0]]
      BY <2>2 DEF FileFails
    <3>2. disk[Here(r)] \in Contents
      BY <3>1, <1>2 DEF IInv, TypeOK
    <3> QED
      BY <3>1, <3>2, <1>2, NewSource
  <2> QED
    BY <2>1, <2>2
<1>5. /\ job' \in [Runs -> Jobs] /\ \A q \in Runs : JobOK(q)'
      /\ manifest' \in [Paths -> Rows]
      /\ \A q \in Paths : IndexedRowWhole(q)' /\ ArchiveRow(q)'
  BY <1>1, <1>2, <1>3, <1>4, RecordOpen
<1>6. interruptions' \in 0..MaxInterruptions
  BY InterruptType DEF FileFails, IInv
<1>7. TypeOK'
  BY <1>1, <1>4, <1>5, <1>6 DEF IInv, TypeOK
<1> QED
  BY <1>5, <1>7 DEF IInv

\* What is left of a file in hand: its row at most turns to "processing".
LEMMA LeavingsStep ==
  ASSUME IInv, NEW r \in Runs, NEW rows \in Leavings(r)
  PROVE  /\ rows \in [Paths -> Rows]
         /\ \A q \in Paths : rows[q] = manifest[q] \/ rows[q].status = "processing"
<1>1. manifest \in [Paths -> Rows]
  BY DEF IInv, TypeOK
<1>2. CASE rows = manifest
  BY <1>1, <1>2
<1>3. CASE rows # manifest
  <2>1. /\ job[r].pc = "parse"
        /\ rows = Upserted(manifest, Here(r), "processing", job[r].checksum, NoSource)
    BY <1>3 DEF Leavings, Upsert
  <2>2. PICK p \in Paths, c \in Contents : p = Here(r) /\ c = job[r].checksum
    BY <2>1, InHand
  <2>3. rows = Upserted(manifest, p, "processing", c, NoSource)
    BY <2>1, <2>2
  <2>4. /\ rows \in [Paths -> Rows]
        /\ rows[p].status = "processing"
        /\ \A q \in Paths \ {p} : rows[q] = manifest[q]
    <3>1. "processing" \in Finished \cup {"processing"} /\ c \in Contents \cup {NoContent}
          /\ NoSource \in SourceIds \cup {NoSource}
      OBVIOUS
    <3> QED
      BY ONLY <1>1, <2>2, <2>3, <3>1, UpsertedType
  <2> QED
    BY <2>4
<1> QED
  BY <1>2, <1>3

LEMMA FolderFailsKeeps ==
  ASSUME IInv, NEW r \in Runs, FolderFails(r)
  PROVE  IInv'
<1>1. job[r].pc # "idle" /\ Top(r).archive # NoPath /\ UNCHANGED <<disk, sources>>
  BY DEF FolderFails
<1>2. /\ OfArchive(Top(r))
      /\ WellStacked(Tail(job[r].frames))
      /\ Engaged(Head(Tail(job[r].frames)))
  BY <1>1, AboveFolder
<1>3. PICK p \in Paths, c \in Contents : p = Top(r).archive /\ c = Top(r).checksum
  BY <1>2 DEF OfArchive
<1>4. PICK rows \in Leavings(r) : manifest' = Upserted(rows, p, "failed", c, NoSource)
  BY <1>3 DEF FolderFails
<1>5. SourcesKept
  BY <1>1, SameSources
<1>6. job' \in [Runs -> Jobs] /\ \A q \in Runs : JobOK(q)'
  <2>1. Advance(r, Tail(job[r].frames), 1)
    BY DEF FolderFails
  <2> QED
    BY <2>1, <1>2, <1>5, AdvanceStep DEF Engaged
<1>7. /\ rows \in [Paths -> Rows]
      /\ \A q \in Paths : rows[q] = manifest[q] \/ rows[q].status = "processing"
  BY LeavingsStep
<1>8. /\ manifest' \in [Paths -> Rows]
      /\ manifest'[p].status = "failed"
      /\ \A q \in Paths \ {p} : manifest'[q] = rows[q]
  <2>1. "failed" \in Finished
    BY DEF Finished
  <2> QED
    BY <2>1, <1>4, <1>7, UpsertedType
<1>9. ASSUME NEW q \in Paths PROVE IndexedRowWhole(q)' /\ ArchiveRow(q)'
  <2>1. CASE manifest'[q] = manifest[q]
    BY <2>1, <1>5, SameRow DEF IInv
  <2>2. CASE manifest'[q].status \in {"processing", "failed"}
    BY <2>2, OpenRow
  <2> QED
    BY <2>1, <2>2, <1>7, <1>8
<1>10. interruptions' \in 0..MaxInterruptions
  BY InterruptType DEF FolderFails, IInv
<1>11. TypeOK'
  BY <1>1, <1>6, <1>8, <1>10 DEF IInv, TypeOK
<1> QED
  BY <1>6, <1>9, <1>11 DEF IInv

LEMMA CrashKeeps ==
  ASSUME IInv, NEW r \in Runs, Crash(r)
  PROVE  IInv'
<1>1. UNCHANGED <<disk, sources>> /\ manifest' \in Leavings(r)
  BY DEF Crash
<1>2. SourcesKept
  BY <1>1, SameSources
<1>3. job' \in [Runs -> Jobs] /\ \A q \in Runs : JobOK(q)'
  BY <1>2, IdleJobs DEF Crash
<1>4. PICK rows \in Leavings(r) : manifest' = rows
  BY <1>1
<1>5. /\ manifest' \in [Paths -> Rows]
      /\ \A q \in Paths : manifest'[q] = manifest[q] \/ manifest'[q].status = "processing"
  BY <1>4, LeavingsStep
<1>6. ASSUME NEW q \in Paths PROVE IndexedRowWhole(q)' /\ ArchiveRow(q)'
  <2>1. CASE manifest'[q] = manifest[q]
    BY <2>1, <1>2, SameRow DEF IInv
  <2>2. CASE manifest'[q].status = "processing"
    BY <2>2, OpenRow
  <2> QED
    BY <2>1, <2>2, <1>5
<1>7. interruptions' \in 0..MaxInterruptions
  BY InterruptType DEF Crash, IInv
<1>8. TypeOK'
  BY <1>1, <1>3, <1>5, <1>7 DEF IInv, TypeOK
<1> QED
  BY <1>3, <1>6, <1>8 DEF IInv

LEMMA StutterKeeps ==
  ASSUME IInv, UNCHANGED vars
  PROVE  IInv'
<1>1. UNCHANGED <<disk, manifest, sources, job, interruptions>>
  BY DEF vars
<1>2. SourcesKept
  BY <1>1, SameSources
<1>3. \A q \in Runs : JobOK(q)'
  BY <1>1, <1>2, SameJob DEF IInv
<1>4. \A q \in Paths : IndexedRowWhole(q)' /\ ArchiveRow(q)'
  BY <1>1, <1>2, SameRows
<1>5. TypeOK'
  BY <1>1 DEF IInv, TypeOK
<1> QED
  BY <1>3, <1>4, <1>5 DEF IInv

\* No step of any run, crash or failure leaves the invariant: a source only
\* grows, and a row says "indexed" or "duplicate_skipped" only of a source
\* that has stopped growing.
THEOREM Invariance == Spec => []IInv
<1>1. IInv /\ [Next]_vars => IInv'
  <2> SUFFICES ASSUME IInv, [Next]_vars PROVE IInv'
    OBVIOUS
  <2>1. CASE UNCHANGED vars
    BY <2>1, StutterKeeps
  <2>2. CASE Next
    <3>1. PICK r \in Runs :
            \/ Start(r) \/ Step(r)
            \/ ArchiveFails(r) \/ FileFails(r) \/ FolderFails(r) \/ Crash(r)
      BY <2>2 DEF Next
    <3>2. CASE Start(r)
      BY <3>2, StartRunKeeps DEF Start
    <3>3. CASE Step(r)
      BY <3>3, PassOverKeeps, StopAtLimitKeeps, EndRunKeeps, SkipUnsupportedKeeps,
         OpenArchiveKeeps, CloseArchiveKeeps, SkipDuplicateKeeps, BeginKeeps,
         OpenSourceKeeps, WriteUnitKeeps, IndexKeeps, UnreadableKeeps
         DEF Step
    <3>4. CASE ArchiveFails(r) \/ FileFails(r) \/ FolderFails(r) \/ Crash(r)
      BY <3>4, ArchiveFailsKeeps, FileFailsKeeps, FolderFailsKeeps, CrashKeeps
    <3> QED
      BY <3>1, <3>2, <3>3, <3>4
  <2> QED
    BY <2>1, <2>2
<1> QED
  BY <1>1, InitIInv, PTL DEF Spec

\* Rows, sources and runs keep their shape; in particular no run exceeds the
\* limit of a folder it is in.
THEOREM TypeCorrect == Spec => []TypeOK
<1>1. IInv => TypeOK
  BY DEF IInv
<1> QED
  BY <1>1, Invariance, PTL

\* What the manifest calls indexed has a source with all of its text.
THEOREM IndexedIsWhole == Spec => []IndexedWhole
<1>1. IInv => IndexedWhole
  BY DEF IInv, IndexedWhole
<1> QED
  BY <1>1, Invariance, PTL

-----------------------------------------------------------------------------
\* Finished files are left alone.

Settled(p) ==
    /\ manifest[p].status \in RESUME_INDEXED_STATUSES
    /\ \A r \in Runs : job[r].pc # "idle" => job[r].options.resume
    /\ ~\E r \in Runs : InFlight(r, p)

\* What a run routes is not a settled file.
LEMMA DueIsOther ==
  ASSUME IInv, NEW p \in Paths, Settled(p), NEW r \in Runs, NEW kind, Due(r, kind)
  PROVE  p # Here(r)
BY DEF Due, Routing, Known, Settled

LEMMA TopIsOther ==
  ASSUME IInv, NEW p \in Paths, Settled(p), NEW r \in Runs, job[r].pc # "idle"
  PROVE  /\ p # Top(r).archive
         /\ job[r].pc \in {"parse", "chunks"} => p # Here(r)
<1>1. WellStacked(job[r].frames)
  BY AtWork
<1>2. 1 \in DOMAIN job[r].frames /\ Top(r) = job[r].frames[1]
  BY <1>1 DEF WellStacked, Top
<1> QED
  BY <1>2 DEF Settled, InFlight

LEMMA OtherRow ==
  ASSUME NEW rows, NEW p \in Paths, NEW q, p # q, NEW status, NEW checksum, NEW source,
         rows \in [Paths -> Rows]
  PROVE  Upserted(rows, q, status, checksum, source)[p] = rows[p]
BY DEF Upserted

LEMMA LeavingsSettled ==
  ASSUME IInv, NEW p \in Paths, Settled(p), NEW r \in Runs, job[r].pc # "idle",
         NEW rows \in Leavings(r)
  PROVE  rows[p] = manifest[p]
<1>1. manifest \in [Paths -> Rows]
  BY DEF IInv, TypeOK
<1>2. CASE rows # manifest
  <2>1. job[r].pc = "parse"
        /\ rows = Upserted(manifest, Here(r), "processing", job[r].checksum, NoSource)
    BY <1>2 DEF Leavings, Upsert
  <2> QED
    BY <1>1, <2>1, TopIsOther, OtherRow
<1> QED
  BY <1>2

LEMMA StepLeavesSettled ==
  ASSUME IInv, [Next]_vars, NEW p \in Paths, Settled(p)
  PROVE  manifest'[p] = manifest[p]
<1>1. manifest \in [Paths -> Rows]
  BY DEF IInv, TypeOK
<1>2. ASSUME NEW q, p # q, NEW status, NEW checksum, NEW source,
             manifest' = Upsert(q, status, checksum, source)
      PROVE  manifest'[p] = manifest[p]
  BY <1>1, <1>2, OtherRow DEF Upsert
<1>3. ASSUME UNCHANGED manifest PROVE manifest'[p] = manifest[p]
  BY <1>3
<1>4. CASE UNCHANGED vars
  BY <1>4 DEF vars
<1>5. CASE Next
  <2>1. PICK r \in Runs :
          \/ Start(r) \/ Step(r)
          \/ ArchiveFails(r) \/ FileFails(r) \/ FolderFails(r) \/ Crash(r)
    BY <1>5 DEF Next
  <2>2. CASE Start(r) \/ PassOver(r) \/ StopAtLimit(r) \/ EndRun(r) \/ Begin(r) \/ WriteUnit(r)
    BY <2>2, <1>3 DEF Start, StartRun, PassOver, StopAtLimit, EndRun, Begin, WriteUnit
  <2>3. CASE SkipUnsupported(r)
    BY <2>3, <1>2, DueIsOther DEF SkipUnsupported, Record
  <2>4. CASE OpenArchive(r)
    BY <2>4, <1>2, DueIsOther DEF OpenArchive
  <2>5. CASE CloseArchive(r)
    BY <2>5, <1>2, TopIsOther DEF CloseArchive
  <2>6. CASE SkipDuplicate(r)
    BY <2>6, <1>2, DueIsOther DEF SkipDuplicate, Record
  <2>7. CASE OpenSource(r)
    BY <2>7, <1>2, TopIsOther DEF OpenSource
  <2>8. CASE Index(r) \/ Unreadable(r) \/ FileFails(r)
    BY <2>8, <1>2, TopIsOther DEF Index, Unreadable, FileFails, Record
  <2>9. CASE ArchiveFails(r)
    BY <2>9, <1>2, DueIsOther DEF ArchiveFails, Record
  <2>10. CASE FolderFails(r)
    <3>1. PICK rows \in Leavings(r) :
            manifest' = Upserted(rows, Top(r).archive, "failed", Top(r).checksum, NoSource)
      BY <2>10 DEF FolderFails
    <3>2. job[r].pc # "idle" /\ p # Top(r).archive
      BY <2>10, TopIsOther DEF FolderFails
    <3>3. rows \in [Paths -> Rows] /\ rows[p] = manifest[p]
      BY <3>2, LeavingsStep, LeavingsSettled
    <3> QED
      BY <3>1, <3>2, <3>3, OtherRow
  <2>11. CASE Crash(r)
    BY <2>11, LeavingsSettled DEF Crash
  <2> QED
    BY <2>1, <2>2, <2>3, <2>4, <2>5, <2>6, <2>7, <2>8, <2>9, <2>10, <2>11 DEF Step
<1> QED
  BY <1>4, <1>5

\* Runs that resume, whatever fails or crashes, leave a finished file alone.
THEOREM DoneForGood == Spec => DoneStays
<1>1. IInv /\ [Next]_vars =>
        [\A p \in Paths :
          /\ manifest[p].status \in RESUME_INDEXED_STATUSES
          /\ \A r \in Runs : job[r].pc # "idle" => job[r].options.resume
          /\ ~\E r \in Runs : InFlight(r, p)
          => manifest'[p] = manifest[p]]_vars
  BY StepLeavesSettled DEF Settled
<1> QED
  BY <1>1, Invariance, PTL DEF Spec, DoneStays

-----------------------------------------------------------------------------
\* A content is stored once, as long as runs come one after the other.

\* Runs do not overlap, and each resumes.
OneAtATime ==
    \/ OverlapLimit = 0
    \/ (\A r, q \in Runs : r = q) /\ \A options \in Options : options.resume

Acts(r) ==
    \/ Start(r) \/ Step(r)
    \/ ArchiveFails(r) \/ FileFails(r) \/ FolderFails(r) \/ Crash(r)

Placed(p, c) == <<p, c>> \in Files
Document(p, c) == Placed(p, c) /\ Kind[c] = "document"
IndexedAs(p, c) == manifest[p].status = "indexed" /\ manifest[p].checksum = c

OnDisk(p) == disk[p] # NoContent => Placed(p, disk[p])

Alone(r) ==
    job[r].pc # "idle" =>
        job[r].options.resume /\ \A q \in Runs \ {r} : job[q].pc = "idle"

\* Each archive a run is inside of was found where its row is.
Origin(frame) == frame.archive # NoPath => Placed(frame.archive, frame.checksum)
Traced(frames) == \A i \in 1..Len(frames) : Origin(frames[i])

\* The file in hand is a document that is not indexed yet; before its source is
\* opened, no other path is indexed with its content either.
HandOK(r) ==
    /\ job[r].pc \in {"parse", "chunks"} =>
        /\ Document(Here(r), job[r].checksum)
        /\ manifest[Here(r)].status # "indexed"
    /\ job[r].pc = "parse" => \A p \in Paths : ~IndexedAs(p, job[r].checksum)

RowOK(p) == manifest[p].status = "indexed" => Document(p, manifest[p].checksum)

\* One of the copies of a content is accounted for: a row says where it is, or
\* it is being written.
Held(c) ==
    \/ \E p \in Paths : IndexedAs(p, c)
    \/ \E r \in Runs : job[r].pc = "chunks" /\ job[r].checksum = c

Bounded(c) == Cardinality(Copies(c)) <= interruptions + (IF Held(c) THEN 1 ELSE 0)

RunsOK == \A r \in Runs : Alone(r) /\ Traced(job[r].frames) /\ HandOK(r)

StoredInv ==
    /\ \A p \in Paths : OnDisk(p) /\ RowOK(p)
    /\ RunsOK
    /\ \A c \in Contents : Bounded(c)

LEMMA SourcesCounted ==
  ASSUME NEW S, S \subseteq SourceIds
  PROVE  IsFiniteSet(S) /\ Cardinality(S) \in Nat
<1>1. IsFiniteSet(SourceIds)
  BY FS_Interval, IngestAssumption DEF SourceIds
<1> QED
  BY <1>1, FS_Subset, FS_CardinalityType

LEMMA StartsAlone ==
  ASSUME OneAtATime, IInv, NEW r \in Runs, NEW options \in Options, StartRun(r, options)
  PROVE  options.resume /\ \A q \in Runs : job[q].pc = "idle"
<1>1. Cardinality(Stored) \in Nat
  BY SourcesCounted DEF Stored
<1>2. CASE OverlapLimit = 0
  BY <1>1, <1>2 DEF StartRun
<1>3. CASE (\A q, w \in Runs : q = w) /\ \A o \in Options : o.resume
  BY <1>3 DEF StartRun
<1> QED
  BY <1>2, <1>3 DEF OneAtATime

\* Whoever acts, everybody else is idle.
LEMMA Solo ==
  ASSUME OneAtATime, IInv, RunsOK, NEW r \in Runs, Acts(r)
  PROVE  \A q \in Runs \ {r} : job[q].pc = "idle" /\ job'[q] = job[q]
<1>1. job \in [Runs -> Jobs]
  BY DEF IInv, TypeOK
<1>2. \A q \in Runs \ {r} : job'[q] = job[q]
  BY <1>1 DEF Acts, Start, StartRun, Step, ArchiveFails, FileFails, FolderFails, Crash,
     PassOver, StopAtLimit, EndRun, SkipUnsupported, OpenArchive, CloseArchive,
     SkipDuplicate, Begin, OpenSource, WriteUnit, Index, Unreadable, Record, Advance
<1>3. CASE Start(r)
  BY <1>2, <1>3, StartsAlone DEF Start
<1>4. CASE ~Start(r)
  <2>1. job[r].pc # "idle"
    BY <1>4 DEF Acts, Step, ArchiveFails, FileFails, FolderFails, Crash,
       PassOver, StopAtLimit, EndRun, SkipUnsupported, OpenArchive, CloseArchive,
       SkipDuplicate, Begin, OpenSource, WriteUnit, Index, Unreadable, Due, Routing
  <2> QED
    BY <1>2, <2>1 DEF RunsOK, Alone
<1> QED
  BY <1>3, <1>4

\* What lies on the disk comes from the folder or from an archive.
LEMMA ExtractedPlaced ==
  ASSUME IInv, \A p \in Paths : OnDisk(p), NEW c \in Contents, NEW n \in 0..Len(Members[c]),
         disk' = Extracted(c, n), NEW p \in Paths
  PROVE  OnDisk(p)'
<1>1. Members[c] \in Seq(Paths \X Contents) /\ DOMAIN Members[c] = 1..Len(Members[c])
  BY MembersType
<1>2. CASE \E i \in 1..n : Members[c][i][1] = p
  <2> DEFINE i == CHOOSE j \in 1..n : Members[c][j][1] = p
  <2>1. i \in 1..n /\ Members[c][i][1] = p
    BY <1>2
  <2>2. disk'[p] = Members[c][i][2]
    BY <1>2 DEF Extracted
  <2> HIDE DEF i
  <2>3. i \in DOMAIN Members[c] /\ Members[c][i] \in Paths \X Contents
    BY <1>1, <2>1
  <2>4. Members[c][i] = <<p, disk'[p]>> /\ Members[c][i] \in Files
    BY <2>1, <2>2, <2>3 DEF Files
  <2> QED
    BY <2>4 DEF OnDisk, Placed
<1>3. CASE ~\E i \in 1..n : Members[c][i][1] = p
  <2>1. disk'[p] = NoContent \/ disk'[p] = disk[p]
    BY <1>3 DEF Extracted
  <2> QED
    BY <2>1 DEF OnDisk
<1> QED
  BY <1>2, <1>3

LEMMA DiskStep ==
  ASSUME IInv, \A p \in Paths : OnDisk(p), NEW r \in Runs, Acts(r)
  PROVE  \A p \in Paths : OnDisk(p)'
<1>1. CASE UNCHANGED disk
  BY <1>1 DEF OnDisk
<1>2. CASE OpenArchive(r)
  <2>1. PICK c \in Contents : c = disk[Here(r)]
    BY <1>2, IsDue DEF OpenArchive
  <2>2. Len(Members[c]) \in 0..Len(Members[c])
    BY MembersType
  <2>3. disk' = Extracted(c, Len(Members[c]))
    BY <1>2, <2>1 DEF OpenArchive
  <2> QED
    BY <2>2, <2>3, ExtractedPlaced
<1>3. CASE ArchiveFails(r) /\ ~UNCHANGED disk
  <2>1. PICK c \in Contents : c = disk[Here(r)]
    BY <1>3, IsDue DEF ArchiveFails
  <2>2. PICK n \in 0..Len(Members[c]) : disk' = Extracted(c, n)
    BY <1>3, <2>1 DEF ArchiveFails
  <2> QED
    BY <2>2, ExtractedPlaced
<1> QED
  BY <1>1, <1>2, <1>3 DEF Acts, Start, StartRun, Step, FileFails, FolderFails, Crash,
     PassOver, StopAtLimit, EndRun, SkipUnsupported, CloseArchive,
     SkipDuplicate, Begin, OpenSource, WriteUnit, Index, Unreadable

-----------------------------------------------------------------------------
\* The run at work.

LEMMA RunsFromOne ==
  ASSUME IInv, NEW r \in Runs,
         \A q \in Runs \ {r} : job[q].pc = "idle" /\ job'[q] = job[q],
         job'[r].pc # "idle" => job'[r].options.resume,
         Traced(job'[r].frames), HandOK(r)'
  PROVE  RunsOK'
<1>1. ASSUME NEW q \in Runs, q # r
      PROVE  Alone(q)' /\ Traced(job'[q].frames) /\ HandOK(q)'
  <2>1. job'[q].pc = "idle" /\ job'[q].frames = <<>>
    BY <1>1 DEF IInv, JobOK
  <2> QED
    BY <2>1 DEF Alone, Traced, HandOK
<1>2. Alone(r)'
  BY DEF Alone
<1> QED
  BY <1>1, <1>2 DEF RunsOK

LEMMA TracedReplaced ==
  ASSUME NEW frames, WellStacked(frames), Traced(frames), NEW frame \in Frames,
         frame.archive = Head(frames).archive, frame.checksum = Head(frames).checksum
  PROVE  Traced(<<frame>> \o Tail(frames))
<1> DEFINE new == <<frame>> \o Tail(frames)
<1>1. frames \in Seq(Frames) /\ frames # <<>> /\ Len(frames) \in Nat /\ Len(frames) >= 1
  BY DEF WellStacked
<1>2. Len(new) = Len(frames) /\ new[1] = frame /\ Head(frames) = frames[1]
  BY <1>1
<1>3. \A i \in 2..Len(frames) : new[i] = frames[i]
  BY <1>1
<1> HIDE DEF new
<1>4. ASSUME NEW i \in 1..Len(new) PROVE Origin(new[i])
  <2>1. CASE i = 1
    BY <2>1, <1>1, <1>2 DEF Traced, Origin
  <2>2. CASE i \in 2..Len(frames)
    BY <2>2, <1>1, <1>2, <1>3 DEF Traced
  <2> QED
    BY <2>1, <2>2, <1>1, <1>2
<1> QED
  BY <1>4 DEF Traced, new

LEMMA TracedPopped ==
  ASSUME NEW frames, WellStacked(frames), Traced(frames)
  PROVE  Traced(Tail(frames))
<1>1. frames \in Seq(Frames) /\ frames # <<>> /\ Len(frames) \in Nat /\ Len(frames) >= 1
  BY DEF WellStacked
<1>2. Len(Tail(frames)) = Len(frames) - 1
  BY <1>1
<1>3. \A i \in 1..Len(Tail(frames)) : Tail(frames)[i] = frames[i + 1] /\ i + 1 \in 1..Len(frames)
  BY <1>1, <1>2
<1> QED
  BY <1>3 DEF Traced

LEMMA TracedPushed ==
  ASSUME NEW frames, WellStacked(frames), Traced(frames), NEW frame \in Frames, Origin(frame)
  PROVE  Traced(<<frame>> \o frames)
<1> DEFINE new == <<frame>> \o frames
<1>1. frames \in Seq(Frames) /\ Len(frames) \in Nat
  BY DEF WellStacked
<1>2. Len(new) = Len(frames) + 1 /\ new[1] = frame
  BY <1>1
<1>3. \A i \in 2..Len(new) : new[i] = frames[i - 1] /\ i - 1 \in 1..Len(frames)
  BY <1>1, <1>2
<1> HIDE DEF new
<1>4. ASSUME NEW i \in 1..Len(new) PROVE Origin(new[i])
  <2>1. CASE i = 1
    BY <2>1, <1>2
  <2>2. CASE i # 1
    <3>1. i \in 2..Len(new)
      BY <2>2, <1>1, <1>2
    <3> QED
      BY <3>1, <1>3 DEF Traced
  <2> QED
    BY <2>1, <2>2
<1> QED
  BY <1>4 DEF Traced, new

LEMMA RunsIdle ==
  ASSUME OneAtATime, IInv, RunsOK, NEW r \in Runs, Acts(r), job' = [job EXCEPT ![r] = NoJob]
  PROVE  RunsOK'
<1>1. job'[r].pc = "idle" /\ job'[r].frames = <<>>
  BY DEF IInv, TypeOK, NoJob
<1>2. Traced(job'[r].frames) /\ HandOK(r)'
  BY <1>1 DEF Traced, HandOK
<1> QED
  BY <1>1, <1>2, Solo, RunsFromOne

\* The run goes on with the folder at the top of frames.
LEMMA RunsAdvance ==
  ASSUME OneAtATime, IInv, RunsOK, NEW r \in Runs, Acts(r), job[r].pc # "idle",
         NEW frames, WellStacked(frames), Traced(frames), Head(frames).todo # <<>>,
         NEW cost \in {0, 1}, cost = 1 => Head(frames).left > 0, Advance(r, frames, cost)
  PROVE  RunsOK'
<1> DEFINE top == Passed(Head(frames), cost)
<1>1. Head(frames) \in Frames
  BY DEF WellStacked
<1>2. /\ top \in Frames
      /\ top.archive = Head(frames).archive
      /\ top.checksum = Head(frames).checksum
  BY <1>1, PassedType
<1>3. /\ job'[r].pc = "route"
      /\ job'[r].options = job[r].options
      /\ job'[r].frames = <<top>> \o Tail(frames)
  <2>1. job \in [Runs -> Jobs]
    BY DEF IInv, TypeOK
  <2> QED
    BY <2>1 DEF Advance, NoJob
<1> HIDE DEF top
<1>4. Traced(job'[r].frames)
  BY <1>2, <1>3, TracedReplaced
<1>5. job'[r].options.resume
  BY <1>3 DEF RunsOK, Alone
<1>6. HandOK(r)'
  BY <1>3 DEF HandOK
<1> QED
  BY <1>4, <1>5, <1>6, Solo, RunsFromOne

\* It is done with the file in hand, or with the archive it was inside of.
LEMMA RunsRecord ==
  ASSUME OneAtATime, IInv, RunsOK, NEW r \in Runs, Acts(r), job[r].pc # "idle",
         \/ Top(r).todo # <<>> /\ Advance(r, job[r].frames, 0)
         \/ Engaged(Top(r)) /\ Advance(r, job[r].frames, 1)
         \/ Top(r).archive # NoPath /\ Advance(r, Tail(job[r].frames), 1)
  PROVE  RunsOK'
<1>1. WellStacked(job[r].frames) /\ Traced(job[r].frames)
  BY AtWork DEF RunsOK
<1>2. CASE Top(r).todo # <<>> /\ Advance(r, job[r].frames, 0)
  BY <1>1, <1>2, RunsAdvance DEF Top
<1>3. CASE Engaged(Top(r)) /\ Advance(r, job[r].frames, 1)
  BY <1>1, <1>3, RunsAdvance DEF Top, Engaged
<1>4. CASE Top(r).archive # NoPath /\ Advance(r, Tail(job[r].frames), 1)
  <2>1. WellStacked(Tail(job[r].frames)) /\ Engaged(Head(Tail(job[r].frames)))
    BY <1>4, AboveFolder
  <2>2. Traced(Tail(job[r].frames))
    BY <1>1, TracedPopped
  <2> QED
    BY <1>4, <2>1, <2>2, RunsAdvance DEF Engaged
<1> QED
  BY <1>2, <1>3, <1>4

LEMMA StartRuns ==
  ASSUME OneAtATime, IInv, RunsOK, NEW r \in Runs, Start(r)
  PROVE  RunsOK'
<1>1. PICK options \in Options : StartRun(r, options)
  BY DEF Start
<1>2. options.resume
  BY <1>1, StartsAlone
<1>3. /\ job'[r].pc = "route"
      /\ job'[r].options = options
      /\ job'[r].frames = <<[todo |-> PathsOf(Folder), left |-> options.limit,
                             archive |-> NoPath, checksum |-> NoContent]>>
  <2>1. job \in [Runs -> Jobs]
    BY DEF IInv, TypeOK
  <2> QED
    BY <1>1, <2>1 DEF StartRun, NoJob
<1>4. Traced(job'[r].frames) /\ HandOK(r)'
  BY <1>3 DEF Traced, Origin, HandOK
<1>5. Acts(r)
  BY DEF Acts
<1> QED
  BY <1>2, <1>3, <1>4, <1>5, Solo, RunsFromOne

LEMMA StopRuns ==
  ASSUME OneAtATime, IInv, RunsOK, NEW r \in Runs, StopAtLimit(r)
  PROVE  RunsOK'
<1> DEFINE frame == [Top(r) EXCEPT !.todo = <<>>]
<1>1. job[r].pc = "route"
  BY DEF StopAtLimit, Routing
<1>2. WellStacked(job[r].frames) /\ Top(r) \in Frames /\ Traced(job[r].frames)
  BY <1>1, AtWork DEF RunsOK
<1>3. /\ frame \in Frames
      /\ frame.archive = Head(job[r].frames).archive
      /\ frame.checksum = Head(job[r].frames).checksum
  <2>1. ASSUME NEW f \in Frames
        PROVE  /\ [f EXCEPT !.todo = <<>>] \in Frames
               /\ [f EXCEPT !.todo = <<>>].archive = f.archive
               /\ [f EXCEPT !.todo = <<>>].checksum = f.checksum
    <3>1. <<>> \in Seq(Paths)
      OBVIOUS
    <3> QED
      BY <3>1 DEF Frames
  <2> QED
    BY <1>2, <2>1 DEF Top
<1>4. /\ job'[r].pc = "route"
      /\ job'[r].options = job[r].options
      /\ job'[r].frames = <<frame>> \o Tail(job[r].frames)
  <2>1. job \in [Runs -> Jobs]
    BY DEF IInv, TypeOK
  <2>2. ASSUME NEW j \in Jobs, NEW frames
        PROVE  /\ [j EXCEPT !.frames = frames].pc = j.pc
               /\ [j EXCEPT !.frames = frames].options = j.options
               /\ [j EXCEPT !.frames = frames].frames = frames
    BY DEF Jobs
  <2>3. job'[r] = [job[r] EXCEPT !.frames = <<frame>> \o Tail(job[r].frames)]
    BY <2>1 DEF StopAtLimit
  <2> QED
    BY <1>1, <2>1, <2>2, <2>3
<1> HIDE DEF frame
<1>5. Traced(job'[r].frames)
  BY <1>2, <1>3, <1>4, TracedReplaced
<1>6. job'[r].options.resume
  BY <1>1, <1>4 DEF RunsOK, Alone
<1>7. HandOK(r)' /\ Acts(r)
  BY <1>4 DEF HandOK, Acts, Step
<1> QED
  BY <1>5, <1>6, <1>7, Solo, RunsFromOne

LEMMA OpenArchiveRuns ==
  ASSUME OneAtATime, IInv, RunsOK, \A p \in Paths : OnDisk(p), NEW r \in Runs, OpenArchive(r)
  PROVE  RunsOK'
<1> DEFINE c == disk[Here(r)]
           frame == [todo |-> PathsOf(Members[c]), left |-> Top(r).left,
                     archive |-> Here(r), checksum |-> c]
<1>1. /\ job[r].pc = "route" /\ Here(r) \in Paths /\ c \in Contents
  BY IsDue DEF OpenArchive
<1>2. WellStacked(job[r].frames) /\ Top(r) \in Frames /\ Traced(job[r].frames)
  BY <1>1, AtWork DEF RunsOK
<1>3. frame \in Frames
  <2>1. PathsOf(Members[c]) \in Seq(Paths)
    BY <1>1, MembersType, PathsOfType
  <2>2. Top(r).left \in Nat
    BY <1>2 DEF Frames
  <2> QED
    BY <1>1, <2>1, <2>2 DEF Frames
<1>4. Origin(frame)
  <2>1. c # NoContent
    BY <1>1, IngestAssumption
  <2> QED
    BY <1>1, <2>1 DEF Origin, OnDisk
<1>5. /\ job'[r].pc = "route"
      /\ job'[r].options = job[r].options
      /\ job'[r].frames = <<frame>> \o job[r].frames
  <2>1. job \in [Runs -> Jobs]
    BY DEF IInv, TypeOK
  <2>2. ASSUME NEW j \in Jobs, NEW frames
        PROVE  /\ [j EXCEPT !.frames = frames].pc = j.pc
               /\ [j EXCEPT !.frames = frames].options = j.options
               /\ [j EXCEPT !.frames = frames].frames = frames
    BY DEF Jobs
  <2>3. job'[r] = [job[r] EXCEPT !.frames = <<frame>> \o job[r].frames]
    BY <2>1 DEF OpenArchive
  <2> QED
    BY <1>1, <2>1, <2>2, <2>3
<1> HIDE DEF frame
<1>6. Traced(job'[r].frames)
  BY <1>2, <1>3, <1>4, <1>5, TracedPushed
<1>7. job'[r].options.resume
  BY <1>1, <1>5 DEF RunsOK, Alone
<1>8. HandOK(r)' /\ Acts(r)
  BY <1>5 DEF HandOK, Acts, Step
<1> QED
  BY <1>6, <1>7, <1>8, Solo, RunsFromOne

\* What a run routes is not indexed: runs resume.
LEMMA DueNotIndexed ==
  ASSUME RunsOK, NEW r \in Runs, NEW kind, Due(r, kind)
  PROVE  manifest[Here(r)].status # "indexed"
BY DEF RunsOK, Alone, Due, Routing, Known, RESUME_INDEXED_STATUSES

\* Steps within a file.
LEMMA InFileRuns ==
  ASSUME OneAtATime, IInv, RunsOK, NEW r \in Runs, Acts(r), job[r].pc # "idle",
         job'[r].options = job[r].options, job'[r].frames = job[r].frames, HandOK(r)'
  PROVE  RunsOK'
<1>1. Traced(job'[r].frames) /\ job'[r].options.resume
  BY DEF RunsOK, Alone
<1> QED
  BY <1>1, Solo, RunsFromOne

LEMMA BeginRuns ==
  ASSUME OneAtATime, IInv, RunsOK, \A p \in Paths : OnDisk(p), NEW r \in Runs, Begin(r)
  PROVE  RunsOK'
<1>1. PICK c \in Contents :
        /\ c = disk[Here(r)] /\ Kind[c] = "document" /\ job[r].pc = "route" /\ Here(r) \in Paths
  BY IsDue DEF Begin
<1>2. /\ job'[r].pc = "parse"
      /\ job'[r].checksum = c
      /\ job'[r].options = job[r].options
      /\ job'[r].frames = job[r].frames
  <2>1. job \in [Runs -> Jobs] /\ job[r] \in Jobs
    BY DEF IInv, TypeOK
  <2>2. ASSUME NEW j \in Jobs
        PROVE  /\ [j EXCEPT !.pc = "parse", !.checksum = c].pc = "parse"
               /\ [j EXCEPT !.pc = "parse", !.checksum = c].checksum = c
               /\ [j EXCEPT !.pc = "parse", !.checksum = c].options = j.options
               /\ [j EXCEPT !.pc = "parse", !.checksum = c].frames = j.frames
    BY DEF Jobs
  <2>3. job'[r] = [job[r] EXCEPT !.pc = "parse", !.checksum = c]
    BY <1>1, <2>1 DEF Begin
  <2> QED
    BY <2>1, <2>2, <2>3
<1>3. Here(r)' = Here(r) /\ UNCHANGED manifest
  BY <1>2 DEF Here, Top, Begin
<1>4. manifest[Here(r)].status # "indexed"
  BY DueNotIndexed DEF Begin
<1>5. Document(Here(r), c)
  <2>1. c # NoContent
    BY IngestAssumption
  <2> QED
    BY <1>1, <2>1 DEF OnDisk, Document
<1>6. \A p \in Paths : ~IndexedAs(p, c)
  <2>1. Originals(c, Here(r)) = {}
    BY <1>1 DEF Begin, RunsOK, Alone
  <2> QED
    BY <1>4, <2>1 DEF Originals, IndexedAs
<1>7. HandOK(r)'
  BY <1>2, <1>3, <1>4, <1>5, <1>6 DEF HandOK, IndexedAs
<1>8. Acts(r)
  BY DEF Acts, Step
<1> QED
  BY <1>1, <1>2, <1>7, <1>8, InFileRuns

LEMMA OpenSourceRuns ==
  ASSUME OneAtATime, IInv, RunsOK, NEW r \in Runs, OpenSource(r)
  PROVE  RunsOK'
<1>1. job[r].pc = "parse" /\ Here(r) \in Paths /\ job[r].checksum \in Contents
  BY InHand DEF OpenSource
<1>2. /\ job'[r].pc = "chunks"
      /\ job'[r].checksum = job[r].checksum
      /\ job'[r].options = job[r].options
      /\ job'[r].frames = job[r].frames
  <2>1. job \in [Runs -> Jobs] /\ job[r] \in Jobs
    BY DEF IInv, TypeOK
  <2>2. ASSUME NEW j \in Jobs, NEW s
        PROVE  /\ [j EXCEPT !.pc = "chunks", !.source = s].pc = "chunks"
               /\ [j EXCEPT !.pc = "chunks", !.source = s].checksum = j.checksum
               /\ [j EXCEPT !.pc = "chunks", !.source = s].options = j.options
               /\ [j EXCEPT !.pc = "chunks", !.source = s].frames = j.frames
    BY DEF Jobs
  <2>3. \E s \in SourceIds : job'[r] = [job[r] EXCEPT !.pc = "chunks", !.source = s]
    BY <2>1 DEF OpenSource
  <2> QED
    BY <2>1, <2>2, <2>3
<1>3. Here(r)' = Here(r)
  BY <1>2 DEF Here, Top
<1>4. manifest'[Here(r)].status = "processing"
  BY <1>1 DEF OpenSource, Upsert, Upserted, IInv, TypeOK
<1>5. HandOK(r)'
  BY <1>1, <1>2, <1>3, <1>4 DEF HandOK, RunsOK, Document, Placed
<1>6. Acts(r)
  BY DEF Acts, Step
<1> QED
  BY <1>1, <1>2, <1>5, <1>6, InFileRuns

LEMMA RunsStep ==
  ASSUME OneAtATime, IInv, RunsOK, \A p \in Paths : OnDisk(p), NEW r \in Runs, Acts(r)
  PROVE  RunsOK'
<1>1. CASE Start(r)
  BY <1>1, StartRuns
<1>2. CASE StopAtLimit(r)
  BY <1>2, StopRuns
<1>3. CASE OpenArchive(r)
  BY <1>3, OpenArchiveRuns
<1>4. CASE Begin(r)
  BY <1>4, BeginRuns
<1>5. CASE OpenSource(r)
  BY <1>5, OpenSourceRuns
<1>6. CASE WriteUnit(r)
  <2>1. UNCHANGED <<job, manifest>>
    BY <1>6 DEF WriteUnit
  <2> QED
    BY <2>1 DEF RunsOK, Alone, HandOK, Here, Top, IndexedAs
<1>7. CASE EndRun(r) \/ Crash(r)
  BY <1>7, RunsIdle DEF EndRun, Crash
<1>8. CASE PassOver(r)
  <2>1. job[r].pc # "idle" /\ Top(r).todo # <<>> /\ Advance(r, job[r].frames, 0)
    BY <1>8 DEF PassOver, Routing
  <2> QED
    BY <2>1, RunsRecord
<1>9. CASE SkipUnsupported(r) \/ SkipDuplicate(r) \/ ArchiveFails(r)
  <2>1. job[r].pc # "idle" /\ Engaged(Top(r))
    BY <1>9, IsDue DEF SkipUnsupported, SkipDuplicate, ArchiveFails
  <2>2. Advance(r, job[r].frames, 1)
    BY <1>9 DEF SkipUnsupported, SkipDuplicate, ArchiveFails, Record
  <2> QED
    BY <2>1, <2>2, RunsRecord
<1>10. CASE Index(r) \/ Unreadable(r) \/ FileFails(r)
  <2>1. job[r].pc # "idle" /\ Engaged(Top(r))
    BY <1>10, InHand DEF Index, Unreadable, FileFails
  <2>2. Advance(r, job[r].frames, 1)
    BY <1>10 DEF Index, Unreadable, FileFails, Record
  <2> QED
    BY <2>1, <2>2, RunsRecord
<1>11. CASE CloseArchive(r) \/ FolderFails(r)
  <2>1. /\ job[r].pc # "idle" /\ Top(r).archive # NoPath
        /\ Advance(r, Tail(job[r].frames), 1)
    BY <1>11 DEF CloseArchive, FolderFails
  <2> QED
    BY <2>1, RunsRecord
<1> QED
  BY <1>1, <1>2, <1>3, <1>4, <1>5, <1>6, <1>7, <1>8, <1>9, <1>10, <1>11 DEF Acts, Step

-----------------------------------------------------------------------------
\* Indexed rows, and the copies they account for.

LEMMA OnlyIndexIndexes ==
  ASSUME IInv, RunsOK, NEW r \in Runs, Acts(r), NEW p \in Paths,
         manifest'[p].status = "indexed", manifest'[p] # manifest[p]
  PROVE  /\ Index(r)
         /\ manifest' = Upsert(Here(r), "indexed", job[r].checksum, job[r].source)
         /\ p = Here(r)
<1>1. manifest \in [Paths -> Rows]
  BY DEF IInv, TypeOK
<1>2. ASSUME NEW rows \in [Paths -> Rows], NEW q, NEW status, NEW checksum, NEW source,
             manifest' = Upserted(rows, q, status, checksum, source)
      PROVE  IF p = q THEN status = "indexed" ELSE manifest'[p] = rows[p]
  BY <1>2 DEF Upserted
<1>3. ASSUME NEW q, NEW status, NEW checksum, NEW source, status # "indexed",
             manifest' = Upsert(q, status, checksum, source)
      PROVE  FALSE
  BY <1>1, <1>2, <1>3 DEF Upsert
<1>4. CASE UNCHANGED manifest
  BY <1>4
<1>5. CASE Index(r)
  <2>1. manifest' = Upsert(Here(r), "indexed", job[r].checksum, job[r].source)
    BY <1>5 DEF Index, Record
  <2>2. p = Here(r)
    BY <1>1, <2>1 DEF Upsert, Upserted
  <2> QED
    BY <1>5, <2>1, <2>2
<1>6. CASE SkipUnsupported(r) \/ SkipDuplicate(r) \/ ArchiveFails(r) \/ Unreadable(r)
           \/ FileFails(r)
  BY <1>3, <1>6 DEF SkipUnsupported, SkipDuplicate, ArchiveFails, Unreadable, FileFails, Record
<1>7. CASE OpenArchive(r) \/ CloseArchive(r) \/ OpenSource(r)
  <2>1. CASE OpenArchive(r)
    BY <1>3, <2>1 DEF OpenArchive
  <2>2. CASE CloseArchive(r)
    BY <1>3, <2>2 DEF CloseArchive
  <2>3. CASE OpenSource(r)
    BY <1>3, <2>3 DEF OpenSource
  <2> QED
    BY <1>7, <2>1, <2>2, <2>3
<1>8. CASE FolderFails(r) \/ Crash(r)
  <2>1. PICK rows \in Leavings(r) :
          \/ manifest' = rows
          \/ manifest' = Upserted(rows, Top(r).archive, "failed", Top(r).checksum, NoSource)
    BY <1>8 DEF FolderFails, Crash
  <2>2. rows \in [Paths -> Rows] /\ (rows[p] = manifest[p] \/ rows[p].status = "processing")
    BY LeavingsStep
  <2>3. manifest'[p] = rows[p]
    BY <1>2, <2>1, <2>2
  <2> QED
    BY <2>2, <2>3
<1> QED
  BY <1>4, <1>5, <1>6, <1>7, <1>8 DEF Acts, Start, StartRun, Step, PassOver, StopAtLimit,
     EndRun, Begin, WriteUnit

LEMMA RowOKStep ==
  ASSUME IInv, StoredInv, NEW r \in Runs, Acts(r), NEW p \in Paths
  PROVE  RowOK(p)'
<1>1. CASE manifest'[p] = manifest[p]
  BY <1>1 DEF StoredInv, RowOK, Document, Placed
<1>2. CASE manifest'[p] # manifest[p] /\ manifest'[p].status = "indexed"
  <2>1. /\ Index(r) /\ p = Here(r)
        /\ manifest' = Upsert(Here(r), "indexed", job[r].checksum, job[r].source)
    BY <1>2, OnlyIndexIndexes DEF StoredInv
  <2>2. job[r].pc = "chunks" /\ job[r].checksum \in Contents
    BY <2>1, InHand DEF Index
  <2>3. manifest'[p].checksum = job[r].checksum
    <3>1. manifest \in [Paths -> Rows] /\ job[r].checksum # NoContent
      BY <2>2, IngestAssumption DEF IInv, TypeOK
    <3> QED
      BY <2>1, <3>1 DEF Upsert, Upserted
  <2>4. Document(p, job[r].checksum)
    BY <2>1, <2>2 DEF StoredInv, RunsOK, HandOK
  <2> QED
    BY <2>3, <2>4 DEF RowOK, Document, Placed
<1> QED
  BY <1>1, <1>2 DEF RowOK

\* As long as nothing fails, an indexed row stays as it is.
LEMMA IndexedKept ==
  ASSUME IInv, StoredInv, NEW r \in Runs, Start(r) \/ Step(r),
         NEW p \in Paths, manifest[p].status = "indexed"
  PROVE  manifest'[p] = manifest[p]
<1>1. manifest \in [Paths -> Rows] /\ RunsOK
  BY DEF IInv, TypeOK, StoredInv
<1>2. ASSUME NEW q, p # q, NEW status, NEW checksum, NEW source,
             manifest' = Upsert(q, status, checksum, source)
      PROVE  manifest'[p] = manifest[p]
  BY <1>1, <1>2, OtherRow DEF Upsert
<1>3. CASE UNCHANGED manifest
  BY <1>3
<1>4. CASE SkipUnsupported(r) \/ SkipDuplicate(r) \/ OpenArchive(r)
  <2>1. p # Here(r)
    BY <1>1, <1>4, DueNotIndexed DEF SkipUnsupported, SkipDuplicate, OpenArchive
  <2> QED
    BY <1>2, <1>4, <2>1 DEF SkipUnsupported, SkipDuplicate, OpenArchive, Record
<1>5. CASE OpenSource(r) \/ Index(r) \/ Unreadable(r)
  <2>1. p # Here(r)
    BY <1>1, <1>5 DEF OpenSource, Index, Unreadable, RunsOK, HandOK
  <2>2. CASE OpenSource(r)
    BY <1>2, <2>1, <2>2 DEF OpenSource
  <2>3. CASE Index(r)
    BY <1>2, <2>1, <2>3 DEF Index, Record
  <2>4. CASE Unreadable(r)
    BY <1>2, <2>1, <2>4 DEF Unreadable, Record
  <2> QED
    BY <1>5, <2>2, <2>3, <2>4
\* An archive's row is not a document's: their suffixes differ.
<1>6. CASE CloseArchive(r)
  <2>1. OfArchive(Top(r)) /\ Top(r) = job[r].frames[1] /\ 1 \in 1..Len(job[r].frames)
    <3>1. job[r].pc # "idle" /\ Top(r).archive # NoPath
      BY <1>6 DEF CloseArchive
    <3>2. job[r].frames \in Seq(Frames) /\ job[r].frames # <<>>
      BY <3>1, AtWork DEF WellStacked
    <3> QED
      BY <3>1, <3>2, AboveFolder DEF Top
  <2>2. Placed(Top(r).archive, Top(r).checksum) /\ Kind[Top(r).checksum] = "archive"
    BY <1>1, <1>6, <2>1 DEF CloseArchive, RunsOK, Traced, Origin, OfArchive
  <2>3. Document(p, manifest[p].checksum)
    BY DEF StoredInv, RowOK
  <2>4. p # Top(r).archive
    BY <2>2, <2>3, SuffixAssumption DEF Document, Placed
  <2> QED
    BY <1>2, <1>6, <2>4 DEF CloseArchive
<1> QED
  BY <1>3, <1>4, <1>5, <1>6 DEF Start, StartRun, Step, PassOver, StopAtLimit, EndRun, Begin,
     WriteUnit

LEMMA HeldKept ==
  ASSUME OneAtATime, IInv, StoredInv, NEW r \in Runs, Start(r) \/ Step(r),
         NEW c \in Contents, Held(c)
  PROVE  Held(c)'
<1>1. Acts(r) /\ RunsOK
  BY DEF Acts, StoredInv
<1>2. CASE \E p \in Paths : IndexedAs(p, c)
  BY <1>2, IndexedKept DEF Held, IndexedAs
<1>3. CASE \E q \in Runs : job[q].pc = "chunks" /\ job[q].checksum = c
  <2>1. job[r].pc = "chunks" /\ job[r].checksum = c
    BY <1>1, <1>3, Solo
  <2>2. CASE WriteUnit(r)
    BY <2>1, <2>2 DEF WriteUnit, Held
  <2>3. CASE Index(r)
    <3>1. manifest \in [Paths -> Rows] /\ Here(r) \in Paths /\ c # NoContent
      BY <2>1, InHand, IngestAssumption DEF IInv, TypeOK
    <3>2. manifest' = Upsert(Here(r), "indexed", c, job[r].source)
      BY <2>1, <2>3 DEF Index, Record
    <3>3. PICK p \in Paths : p = Here(r)
      BY <3>1
    <3>4. manifest'[p].status = "indexed" /\ manifest'[p].checksum = c
      BY <3>1, <3>2, <3>3 DEF Upsert, Upserted
    <3> QED
      BY <3>4 DEF IndexedAs, Held
  <2>4. CASE ~WriteUnit(r) /\ ~Index(r)
    BY <2>1, <2>4 DEF Start, StartRun, Step, PassOver, StopAtLimit, EndRun, SkipUnsupported,
       OpenArchive, CloseArchive, SkipDuplicate, Begin, OpenSource, Unreadable, Due, Routing
  <2> QED
    BY <2>2, <2>3, <2>4
<1> QED
  BY <1>2, <1>3 DEF Held

LEMMA CopiesSame ==
  ASSUME \A s \in SourceIds : sources'[s].checksum = sources[s].checksum, NEW c
  PROVE  Copies(c)' = Copies(c)
BY DEF Copies

\* Opening a source adds one copy of its content.
LEMMA CopiesGrow ==
  ASSUME IInv, NEW s \in SourceIds, NextSource(s), NEW k \in Contents, NEW content,
         sources' = [sources EXCEPT ![s] = [checksum |-> k, content |-> content, units |-> 0]],
         NEW c \in Contents
  PROVE  Copies(c)' = IF c = k THEN Copies(c) \cup {s} ELSE Copies(c)
<1>1. sources \in [SourceIds -> Sources]
  BY DEF IInv, TypeOK
<1>2. sources[s].checksum \notin Contents
  BY IngestAssumption DEF NextSource, NoneYet
<1>3. /\ sources'[s].checksum = k
      /\ \A t \in SourceIds \ {s} : sources'[t] = sources[t]
  BY <1>1
<1> QED
  BY <1>2, <1>3 DEF Copies

LEMMA KeptCount ==
  ASSUME IInv, NEW c, Bounded(c), Copies(c)' = Copies(c), interruptions' = interruptions,
         Held(c) => Held(c)'
  PROVE  Bounded(c)'
<1>1. Cardinality(Copies(c)) \in Nat /\ interruptions \in Nat
  BY SourcesCounted, IngestAssumption DEF Copies, IInv, TypeOK
<1> QED
  BY <1>1 DEF Bounded

\* Each error or crash allows one copy that nothing accounts for any more.
LEMMA SpoiltCount ==
  ASSUME IInv, NEW c, Bounded(c), Copies(c)' = Copies(c), interruptions' = interruptions + 1
  PROVE  Bounded(c)'
<1>1. Cardinality(Copies(c)) \in Nat /\ interruptions \in Nat
  BY SourcesCounted, IngestAssumption DEF Copies, IInv, TypeOK
<1> QED
  BY <1>1 DEF Bounded

LEMMA GrownCount ==
  ASSUME IInv, NEW c, Bounded(c), ~Held(c), NEW s \in SourceIds,
         Copies(c)' = Copies(c) \cup {s},
         \/ interruptions' = interruptions /\ Held(c)'
         \/ interruptions' = interruptions + 1
  PROVE  Bounded(c)'
<1>1. /\ IsFiniteSet(Copies(c)) /\ Cardinality(Copies(c)) \in Nat
      /\ interruptions \in Nat
  BY SourcesCounted, IngestAssumption DEF Copies, IInv, TypeOK
<1>2. Cardinality(Copies(c) \cup {s})
        = IF s \in Copies(c) THEN Cardinality(Copies(c)) ELSE Cardinality(Copies(c)) + 1
  BY <1>1, FS_AddElement
<1> QED
  BY <1>1, <1>2 DEF Bounded

\* Before its source is opened, nothing accounts for the content in hand.
LEMMA ParsedNotHeld ==
  ASSUME OneAtATime, IInv, RunsOK, NEW r \in Runs, Acts(r), job[r].pc = "parse"
  PROVE  ~Held(job[r].checksum)
<1>1. \A p \in Paths : ~IndexedAs(p, job[r].checksum)
  BY DEF RunsOK, HandOK
<1>2. \A q \in Runs : job[q].pc # "chunks"
  BY Solo
<1> QED
  BY <1>1, <1>2 DEF Held

LEMMA OpenSourceCount ==
  ASSUME OneAtATime, IInv, StoredInv, NEW r \in Runs, OpenSource(r), NEW c \in Contents
  PROVE  Bounded(c)'
<1>1. job[r].pc = "parse" /\ Acts(r) /\ RunsOK /\ Bounded(c)
  BY DEF OpenSource, Acts, Step, StoredInv
<1>2. PICK k \in Contents : k = job[r].checksum
  BY <1>1, InHand
<1>3. PICK s \in SourceIds :
        /\ NextSource(s)
        /\ sources' = [sources EXCEPT ![s] =
              [checksum |-> k, content |-> disk[Here(r)], units |-> 0]]
        /\ job' = [job EXCEPT ![r] = [@ EXCEPT !.pc = "chunks", !.source = s]]
  BY <1>2 DEF OpenSource
<1>4. interruptions' = interruptions
  BY DEF OpenSource
<1>5. CASE c = k
  <2>1. Copies(c)' = Copies(c) \cup {s}
    BY <1>3, <1>5, CopiesGrow
  <2>2. ~Held(c)
    BY <1>1, <1>2, <1>5, ParsedNotHeld
  <2>3. job'[r].pc = "chunks" /\ job'[r].checksum = c
    <3>1. job \in [Runs -> Jobs] /\ job[r] \in Jobs
      BY DEF IInv, TypeOK
    <3>2. job'[r] = [job[r] EXCEPT !.pc = "chunks", !.source = s]
      BY <1>3, <3>1
    <3> QED
      BY <1>2, <1>5, <3>1, <3>2 DEF Jobs
  <2>4. Held(c)'
    BY <2>3 DEF Held
  <2> QED
    BY <1>1, <1>4, <2>1, <2>2, <2>4, GrownCount
<1>6. CASE c # k
  <2>1. Copies(c)' = Copies(c)
    BY <1>3, <1>6, CopiesGrow
  <2>2. Held(c) => Held(c)'
    BY HeldKept DEF Step
  <2> QED
    BY <1>1, <1>4, <2>1, <2>2, KeptCount
<1> QED
  BY <1>5, <1>6

LEMMA FileFailsCount ==
  ASSUME OneAtATime, IInv, StoredInv, NEW r \in Runs, FileFails(r), NEW c \in Contents
  PROVE  Bounded(c)'
<1>1. Acts(r) /\ RunsOK /\ Bounded(c) /\ interruptions' = interruptions + 1
  BY DEF FileFails, Interrupt, Acts, StoredInv
<1>2. CASE UNCHANGED sources
  <2>1. Copies(c)' = Copies(c)
    BY <1>2 DEF Copies
  <2> QED
    BY <1>1, <2>1, SpoiltCount
<1>3. CASE ~UNCHANGED sources
  <2>1. job[r].pc = "parse"
    BY <1>3 DEF FileFails
  <2>2. PICK k \in Contents : k = job[r].checksum
    BY <2>1, InHand
  <2>3. PICK s \in SourceIds :
          /\ NextSource(s)
          /\ sources' = [sources EXCEPT ![s] =
                [checksum |-> k, content |-> disk[Here(r)], units |-> 0]]
    BY <1>3, <2>2 DEF FileFails
  <2>4. CASE c = k
    <3>1. Copies(c)' = Copies(c) \cup {s}
      BY <2>3, <2>4, CopiesGrow
    <3>2. ~Held(c)
      BY <1>1, <2>1, <2>2, <2>4, ParsedNotHeld
    <3> QED
      BY <1>1, <3>1, <3>2, GrownCount
  <2>5. CASE c # k
    <3>1. Copies(c)' = Copies(c)
      BY <2>3, <2>5, CopiesGrow
    <3> QED
      BY <1>1, <3>1, SpoiltCount
  <2> QED
    BY <2>4, <2>5
<1> QED
  BY <1>2, <1>3

LEMMA CountStep ==
  ASSUME OneAtATime, IInv, StoredInv, NEW r \in Runs, Acts(r), NEW c \in Contents
  PROVE  Bounded(c)'
<1>1. Bounded(c)
  BY DEF StoredInv
<1>2. CASE OpenSource(r) \/ FileFails(r)
  BY <1>2, OpenSourceCount, FileFailsCount
<1>3. CASE ArchiveFails(r) \/ FolderFails(r) \/ Crash(r)
  <2>1. UNCHANGED sources /\ interruptions' = interruptions + 1
    BY <1>3 DEF ArchiveFails, FolderFails, Crash, Interrupt
  <2>2. Copies(c)' = Copies(c)
    BY <2>1 DEF Copies
  <2> QED
    BY <1>1, <2>1, <2>2, SpoiltCount
<1>4. CASE (Start(r) \/ Step(r)) /\ ~OpenSource(r)
  <2>1. interruptions' = interruptions
    BY <1>4 DEF Start, StartRun, Step, PassOver, StopAtLimit, EndRun, SkipUnsupported,
       OpenArchive, CloseArchive, SkipDuplicate, Begin, WriteUnit, Index, Unreadable
  <2>2. \A s \in SourceIds : sources'[s].checksum = sources[s].checksum
    <3>1. CASE WriteUnit(r)
      <4>1. sources \in [SourceIds -> Sources]
        BY DEF IInv, TypeOK
      <4>2. ASSUME NEW row \in Sources
            PROVE  [row EXCEPT !.units = @ + 1].checksum = row.checksum
        BY DEF Sources
      <4>3. \A s \in SourceIds :
              sources'[s] = sources[s] \/ sources'[s] = [sources[s] EXCEPT !.units = @ + 1]
        BY <3>1, <4>1 DEF WriteUnit
      <4> QED
        BY <4>1, <4>2, <4>3
    <3>2. CASE ~WriteUnit(r)
      BY <1>4, <3>2 DEF Start, StartRun, Step, PassOver, StopAtLimit, EndRun, SkipUnsupported,
         OpenArchive, CloseArchive, SkipDuplicate, Begin, Index, Unreadable
    <3> QED
      BY <3>1, <3>2
  <2>3. Copies(c)' = Copies(c)
    BY <2>2, CopiesSame
  <2>4. Held(c) => Held(c)'
    BY <1>4, HeldKept
  <2> QED
    BY <1>1, <2>1, <2>3, <2>4, KeptCount
<1> QED
  BY <1>2, <1>3, <1>4 DEF Acts

LEMMA InitStored == ASSUME Init PROVE StoredInv
<1>1. ASSUME NEW p \in Paths PROVE OnDisk(p) /\ RowOK(p)
  <2>1. CASE \E i \in DOMAIN Folder : Folder[i][1] = p
    <3> DEFINE i == CHOOSE j \in DOMAIN Folder : Folder[j][1] = p
    <3>1. i \in DOMAIN Folder /\ Folder[i][1] = p
      BY <2>1
    <3>2. disk[p] = Folder[i][2]
      BY <2>1 DEF Init
    <3> HIDE DEF i
    <3>3. Folder[i] \in Paths \X Contents
      BY <3>1, IngestAssumption
    <3>4. Folder[i] = <<p, disk[p]>> /\ Folder[i] \in Files
      BY <3>1, <3>2, <3>3 DEF Files
    <3> QED
      BY <3>4 DEF OnDisk, Placed, RowOK, Init, Absent
  <2>2. CASE ~\E i \in DOMAIN Folder : Folder[i][1] = p
    BY <2>2 DEF Init, OnDisk, RowOK, Absent
  <2> QED
    BY <2>1, <2>2
<1>2. RunsOK
  BY DEF Init, RunsOK, Alone, Traced, HandOK, NoJob
<1>3. ASSUME NEW c \in Contents PROVE Bounded(c)
  <2>1. Copies(c) = {}
    BY IngestAssumption DEF Init, Copies, NoneYet
  <2>2. Cardinality(Copies(c)) = 0
    BY <2>1, FS_EmptySet
  <2> QED
    BY <2>2 DEF Init, Bounded
<1> QED
  BY <1>1, <1>2, <1>3 DEF StoredInv

LEMMA StoredStep ==
  ASSUME OneAtATime, IInv, StoredInv, [Next]_vars
  PROVE  StoredInv'
<1>1. CASE UNCHANGED vars
  BY <1>1 DEF vars, StoredInv, OnDisk, RowOK, RunsOK, Alone, HandOK, Here, Top, IndexedAs,
     Bounded, Held, Copies
<1>2. CASE Next
  <2>1. PICK r \in Runs : Acts(r)
    BY <1>2 DEF Next, Acts
  <2>2. RunsOK /\ \A p \in Paths : OnDisk(p)
    BY DEF StoredInv
  <2>3. \A p \in Paths : OnDisk(p)' /\ RowOK(p)'
    BY <2>1, <2>2, DiskStep, RowOKStep
  <2>4. RunsOK'
    BY <2>1, <2>2, RunsStep
  <2>5. \A c \in Contents : Bounded(c)'
    BY <2>1, CountStep
  <2> QED
    BY <2>3, <2>4, <2>5 DEF StoredInv
<1> QED
  BY <1>1, <1>2

\* When runs do not overlap and resume, the copies of a content are accounted
\* for by one indexed row or one source at work, and by what was interrupted.
THEOREM StoredInvariance == OneAtATime => (Spec => [](IInv /\ StoredInv))
<1> SUFFICES ASSUME OneAtATime PROVE Spec => [](IInv /\ StoredInv)
  OBVIOUS
<1>1. IInv /\ StoredInv /\ [Next]_vars => StoredInv'
  BY StoredStep
<1> QED
  BY <1>1, InitStored, Invariance, PTL DEF Spec

\* A content is stored once, and once more for each error or crash, however
\* many paths and archives hold it.
THEOREM StoredOnce == OneAtATime => (Spec => []DedupeBound)
<1> SUFFICES ASSUME OneAtATime PROVE Spec => []DedupeBound
  OBVIOUS
<1>1. IInv /\ StoredInv => DedupeBound
  <2> SUFFICES ASSUME IInv, StoredInv, NEW c \in Contents
               PROVE  Cardinality(Copies(c)) <= 1 + interruptions
    BY DEF DedupeBound
  <2>1. Cardinality(Copies(c)) \in Nat /\ interruptions \in Nat
    BY SourcesCounted, IngestAssumption DEF Copies, IInv, TypeOK
  <2> QED
    BY <2>1 DEF StoredInv, Bounded
<1> QED
  BY <1>1, StoredInvariance, PTL

=============================================================================
