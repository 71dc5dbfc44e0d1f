CONSTANTS
    Nodes = {0, 1, 2}
    Ids = {0, 1, 2, 3}
    Root = 0
    Plain = ""
    Docs <- MCDocs
    Documents <- MCTexts
    Requests <- MCRequests
    MaxBuilds = 4
    Mechanisms <- MCMechanisms
    Ground = "ground"
SPECIFICATION DocumentsSpec
CHECK_DEADLOCK FALSE
INVARIANTS OrderStands WearsTheFirst OnlyTheEdit RightAnswer MechanismIsRight
PROPERTIES WalkAnswers
