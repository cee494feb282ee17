SPECIFICATION Spec
CONSTANTS
    PageSize = 2
    None = None
    MaxEntities = 5
    MaxPrevious = 2
INVARIANTS TypeOK NothingRaises NextPageFollows NothingSkipped
