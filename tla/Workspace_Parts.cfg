SPECIFICATION WorkspaceSpec
CONSTANTS
    a1 = a1
    a2 = a2
    b1 = b1
    b2 = b2
    c1 = c1
    c2 = c2
    Members = {a1, a2}
    Slots = {b1, b2}
    Columns = {c1, c2}
    Cards = {card1, card2}
    Seeded = {card1}
    Titles = {title}
    MaxWrites = 2
    BoardFaults = {"broadcast"}
    Users = {creator, a1, a2}
    Creator = creator
    Requests = {b1, b2}
    MaxRequests = 4
    MaxEvents = 3
    Sources = {a1, a2}
    Servings = {b1, b2}
    Runs = {run1, run2}
    MaxServed = 5
    MaxRunEvents = 2
    Callers = {a1, a2}
    Repositories = {repo1, repo2}
    Headings = {heading1, heading2}
    NReviewed = 2
    MaxCalls = 3
    MaxRecorded = 2
    MaxConnects = 2
    NFiles = 4
    ImportRelations <- ImportsLookedAt
    Queries <- QueriesLookedAt
    Blobs <- BlobsLookedAt
    Limits <- LimitsLookedAt
    Finishers = {a1, a2}
    Readers = {r1}
    MaxTrail = 2
SYMMETRY Symmetric
INVARIANTS
    BoardConverges
    OwnerRemains
    OwnerIsLastHandedTo
    PlaybooksAreTrue
    ShippedOnce
    AnswerIsHonest
    ReportStands
PROPERTY EditsOnlyOwnFields
CHECK_DEADLOCK FALSE
