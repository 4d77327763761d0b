SPECIFICATION Spec
CONSTANTS
    Migrators = {m1}
    Seeders = {s1, s2}
    Earlier = Earlier
    Drafts = {d1}
    Searches = {}
    Category = "general"
CHECK_DEADLOCK FALSE
INVARIANTS
    NoDuplicateRows
