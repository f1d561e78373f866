SPECIFICATION FairMembersSpec
CONSTANTS
    LastRoom = 2
    MaxEvents = 3
    MaxUnread = 1
CHECK_DEADLOCK FALSE
INVARIANTS
    OneWhoPerRoom
    ViewsFresh
PROPERTIES
    CommandsEnd
