SPECIFICATION FairSpec
CONSTANTS
    Plays = {11, 12, 13, 14, 15}
    WatchedAt <- MCWatchedAt
    Film <- MCFilm
    NoTmdb = NoTmdb
    LastTime = 4
    MaxFilms = 2
    StartAt = 2
    MaxKills = 3
    MaxIdle = 1
INVARIANTS NeverTwice NoneDropped RewatchTrue
PROPERTIES AllSent
CHECK_DEADLOCK FALSE
