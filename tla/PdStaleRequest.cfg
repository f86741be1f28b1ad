CONSTANTS
    Ids = 4
    Attempts = 2
    MaxQueue = 2
SPECIFICATION Spec
PROPERTY AnswersThisOffer
