\* A request of any kind against a connection of any tag that others use too.
SPECIFICATION FairSpec
CONSTANTS
    q1 = q1
    Requests = {q1}
    Edits <- SmallEdits
INVARIANTS NothingPastTheGate AllOrNothing AnswersAreTrue EntriesAreTrue RunsAreAudited
PROPERTIES  GatesWrites
CHECK_DEADLOCK FALSE
