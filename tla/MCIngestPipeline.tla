-------------------------- MODULE MCIngestPipeline --------------------------
(***************************************************************************)
(* Small instances of IngestPipeline.  A folder is given with what its     *)
(* files hold; the archives of ArchiveFolder have the same name in two     *)
(* directories, so both extract to the same place.                         *)
(***************************************************************************)
EXTENDS IngestPipeline

CONSTANTS
    blank, box, chart, first, twin, inner, other, tool, \* paths
    report, scan, boxed, reboxed, binary               \* contents

MCKind == [c \in Contents |->
    IF c \in {boxed, reboxed} THEN "archive"
    ELSE IF c = binary THEN "unsupported" ELSE "document"]

MCUnits == [c \in Contents |-> IF c = report THEN 2 ELSE 0]

MCMembers == [c \in Contents |->
    IF c = boxed THEN <<<<inner, report>>, <<other, scan>>>>
    ELSE IF c = reboxed THEN <<<<inner, scan>>, <<tool, binary>>>>
    ELSE <<>>]

\* Two archives that extract to one place, the second without one of the
\* members of the first, and a copy of a member; before them, and between them,
\* a document without text and a file of an unsupported type.
ArchiveFolder == <<<<blank, scan>>, <<box, boxed>>, <<chart, binary>>,
                   <<first, report>>, <<twin, reboxed>>>>

\* An archive alone, of which a run reaches one member.
OneArchive == <<<<box, boxed>>>>

Resume(limit) == [resume |-> TRUE, retry_failed |-> FALSE,
                  retry_unsupported |-> FALSE, limit |-> limit]

LimitOne == {Resume(1)}
Retry(limit) == [Resume(limit) EXCEPT !.retry_failed = TRUE]
RetryAll(limit) == [Retry(limit) EXCEPT !.retry_unsupported = TRUE]

\* Each with a limit that is just enough, and the retries also with one less.
AnyOptions == {Resume(1), Resume(3), Retry(1), Retry(2), RetryAll(2), RetryAll(3)}
=============================================================================
