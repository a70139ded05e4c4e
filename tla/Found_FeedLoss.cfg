\* Two loads of one session: the second has replaced the feed when the first
\* cuts it, and an entry that came while both awaited is dropped.
CONSTANTS
    Room = {room1}
    NoRoom = NoRoom
    Load = {l1, l2}
    MaxMessages = 2
    MaxMoves = 1
SPECIFICATION FeedSpec
PROPERTIES LoadKeepsLiveEntries
