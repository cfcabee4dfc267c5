SPECIFICATION FairSpec
CONSTANTS
    Runs = {r1}
    Paths = {box, inner, other}
    Contents = {report, scan, boxed}
    MaxSources = 1  OverlapLimit = 0
    MaxInterruptions = 0
    Folder <- OneArchive  Options <- LimitOne
    NoPath = NoPath  NoContent = NoContent
    blank = blank  box = box  chart = chart  first = first  twin = twin
    inner = inner  other = other  tool = tool
    report = report  scan = scan  boxed = boxed  reboxed = reboxed  binary = binary
    Kind <- MCKind  Units <- MCUnits  Members <- MCMembers
PROPERTY MembersReached
