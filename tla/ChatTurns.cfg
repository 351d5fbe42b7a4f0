SPECIFICATION FairSpec
CONSTANTS
  Requests = {r1, r2, r3}
  Window = 2
  MaxPast = 2
  Nobody = Nobody
INVARIANTS WholeTurns ContextHasNoHole AnnouncedIsSaved DeletedStaysEmpty
PROPERTIES GrowsAtTheEnd EveryTurnEnds
