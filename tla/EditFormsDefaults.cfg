SPECIFICATION Spec
CONSTANTS
    r1 = r1
    r2 = r2
    Record <- MCRecord
    New = New
    Nothing = Nothing
    Forms <- AllForms
    MaxVisits = 2
    MaxSaves = 2
    MaxTheirs = 1
SYMMETRY Symmetry
INVARIANT DefaultsAreTracked
CHECK_DEADLOCK FALSE
