SPECIFICATION Spec
CONSTANTS
    Offers <- MCOffers
    Greetings <- MCGreetings
    MaxPath = 3
    Room = 4
    StageCap = 3
    BitsPerByte = 2
    MaxStreams = 16
INVARIANTS
    InOrder
    FieldsAlign
    AnswerAgrees
    NotBothWait
    PathsStayInside
CHECK_DEADLOCK FALSE
