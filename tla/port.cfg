\* Two torrents, three ports to search.  Swarms end.
SPECIFICATION Spec
CONSTANTS
    Torrents = {1, 2}
    First = 6881
    Last = 6883
    Ephemeral = {40000, 40001}
CHECK_DEADLOCK FALSE
INVARIANTS
    ListensWhereItSays
