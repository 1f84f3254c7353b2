SPECIFICATION Spec
CONSTANTS
    None = None
    q1 = q1
    q2 = q2
    d1 = d1
    d2 = d2
    n1 = n1
    n2 = n2
    Ids = {q1, q2}
    DraftIds = {d1, d2}
    Names = {n1, n2}
    Types = {"h1", "short_text"}
    MinQuestions = 2
    MaxQuestions = 2
    MaxSaved = 1
    SavedTypes = {"short_text"}
SYMMETRY Symmetry
PROPERTIES
    PublishedIsAnswerable

