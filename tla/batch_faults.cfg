SPECIFICATION FairSpec
CONSTANTS
    f1 = f1
    f2 = f2
    p1 = p1
    p2 = p2
    p3 = p3
    p4 = p4
    Null = Null
    Photos = {f1, f2}
    WithImg = {f1, f2}
    WithSol = {f1}
    Colour = {f1}
    InJobs = {f1}
    Processes = {p1, p2, p3, p4}
    IngestTools = {"ingest_core", "dry_run"}
    Role <- OneOfEach
    Order <- BySol
    Limit = 1
    Faults = {"crash", "raise", "download", "pg", "misread", "service", "dry_run"}
    MaxKinds = 2
    FaultsRecur = FALSE
INVARIANTS RowsAreBacked RunningIsOwned ColourRecorded AnalysisAfterTransform
PROPERTIES EventuallyAnalyzed
