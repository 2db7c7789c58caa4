CONSTANTS
    t1 = t1 t2 = t2
    None = None
    Task = {t1, t2}
    ClassOf <- MCClassOf
SPECIFICATION Spec
INVARIANTS SchemaMatchesVersion OnlyReviewsBlockMigration LegacyTasksStayUnapproved
PROPERTY ResolutionsSurvive
