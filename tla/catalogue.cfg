SPECIFICATION MCSpec
CONSTANTS
    s1 = s1  s2 = s2  f1 = f1  f2 = f2  t1 = t1  t2 = t2  i1 = i1
    u1 = u1  u2 = u2  v1 = v1  v2 = v2  r1 = r1  r2 = r2
    None = None
    Spaces <- TwoSpaces
    Folders <- TwoFolders
    Tasks <- TwoTasks
    Items <- OneItem
    Elsewhere <- OneElsewhere
    MaxCalls = 4
    Readers <- TwoUsers
    Shelved <- Both
    SpacesOf <- TwoSpaces
    Views <- TwoViews
    Rows <- TwoRows
    Nobody = None
    MaxShelfCalls = 4
    MaxAt = 2
SYMMETRY Symmetry
INVARIANTS Offered FieldsReachTasks OneEach
PROPERTY PlacesApart
CHECK_DEADLOCK FALSE
