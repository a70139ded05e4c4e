\* A guest that asked while the host was away is never offered to him.
CONSTANTS
    Guest = {g1}
    Link = {h1, h2}
    NoLink = NoLink
    MaxHistory = 1
    MaxEmits = 0
    MaxBreaks = 1
SPECIFICATION RelaySpec
INVARIANTS WaitingGuestsAreOffered
