SPECIFICATION FairSpec
CONSTANTS
    Migrators = {m1, m2}
    Seeders = {s1, s2}
    Earlier = Earlier
    Drafts = {d1}
    Searches = {q1}
    Category = "general"
INVARIANTS
    TypeOK
    SchemaMatchesVersion
    FixturesOnce
    ArticlesDoubledOnlyByRace
    DeadlocksAreFound
PROPERTIES
    ReviewsSurvive
    CommandsEnd
    ArticlesGetFound
