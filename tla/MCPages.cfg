SPECIFICATION Spec
CONSTANTS
    creator = creator
    a = a
    None = None
    blank = blank
    full = full
    Creator = creator
    Respondents = {a}
    Eligible = {a}
    MaxResponses = 1
    Answers = {blank, full}
    Blank = blank
    Valid = {full}
    MaxTasks = 2
    MaxListings = 2
INVARIANTS
    TypeOK
    ClosedMeansOver
    VerdictIsOwn
    AnswersKept
PROPERTIES
    PageSettles
