SPECIFICATION FairSpec
CONSTANTS
    MaxOps = 4
    MaxAsks = 2
    None = None
PROPERTIES QuestionIsDrawn
