CONSTANTS
    None = None
    Users = {a, b}
    Window = 1
    MaxTime = 2
    ClientIds = {i}
    Texts = {x, y}
    Conversations = {c1, c2}
    MaxPending = 2
    MaxLength = 2
SYMMETRY Symmetry
SPECIFICATION Spec
INVARIANTS
    TypeOK
    OneConversationPerPair
    StoredOncePerKey
    AnswersAgree
    ListsFollowMessages
    NotifiedOnce
    PagesFollowSeq
    ShownMayBeWrittenTo
PROPERTY KeepsPromise
