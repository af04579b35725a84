\* Two torrent files, one of them with a bar in its name; at most two torrents
\* at a time.  A run that has used up its ids can always be closed.
SPECIFICATION Spec
CONSTANTS
    Paths <- WindowPaths
    TS_MAX_TORRENTS = 2
    MaxId = 3
INVARIANTS
    DetailsOfSelected
PROPERTIES
    ActsOnChosen
    RestoredAlike
