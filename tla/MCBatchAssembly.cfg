SPECIFICATION Spec
CONSTANTS
    Accounts = {"a", "b", "c"}
    Tokens = {"t"}
    Rails = {"zelle", "card", "ach"}
    Partition <- MCPartition
    Entries <- MCEntries
    Seeded <- MCSeeded
    MaxLog = 6
    Growth = 1
    Cutoffs = {5, 7}
    Views <- MCViews
    RootSets <- MCRootSets
    Roots <- MCRoots
    Children <- MCChildren
    Fanouts <- MCFanouts
    Quotas <- MCQuotas
    AssociationQuota = 1
    AssociationSlots = 1
    Draws = {"newest", "oldest"}
    Hosts <- MCHosts
    Behaviours <- MCBehaviours
CHECK_DEADLOCK FALSE
INVARIANTS RowsAsReference AnswersIndependent StubsFromThePast SlotsAligned
