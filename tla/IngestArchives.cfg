SPECIFICATION FairSpec
CONSTANTS
    Runs = {r1}
    Paths = {blank, box, chart, first, twin, inner, other, tool}
    Contents = {report, scan, boxed, reboxed, binary}
    MaxSources = 4  OverlapLimit = 1
    MaxInterruptions = 3
    Folder <- ArchiveFolder  Options <- AnyOptions
    NoPath = NoPath  NoContent = NoContent
    blank = blank  box = box  chart = chart  first = first  twin = twin
    inner = inner  other = other  tool = tool
    report = report  scan = scan  boxed = boxed  reboxed = reboxed  binary = binary
    Kind <- MCKind  Units <- MCUnits  Members <- MCMembers
INVARIANT TypeOK
INVARIANT IndexedWhole
INVARIANT DedupeBound
PROPERTY DoneStays
 
PROPERTY FolderRetried
