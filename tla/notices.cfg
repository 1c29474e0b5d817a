SPECIFICATION MCSpec
CONSTANTS
    u1 = u1  u2 = u2  out = out  t1 = t1  f1 = f1  none = none
    b1 = b1  b2 = b2  w1 = w1  w2 = w2  s1 = s1  s2 = s2
    Users <- TwoUsers
    Outsider = out
    Tasks <- OneTask
    Folder = f1
    NoCall = none
    Choices <- Some
    MaxRequests = 2
    MaxOps = 1
    MaxEvents = 2
    MaxVisits = 1
    Viewers <- TwoUsers
    Boards <- TwoBoards
    Widgets <- TwoWidgets
    Linked <- OneFolder
    Reads <- AllRead
    Manages <- AllRead
    Slots <- TwoSlots
    Idle = none
    Nothing = none
    MaxBoardCalls = 2
SYMMETRY Symmetry
INVARIANTS AllOrNone BadgeRight OnlyCommitted HeardOnce WholeOrGone
PROPERTY FoldersReachWidgets
CHECK_DEADLOCK FALSE
