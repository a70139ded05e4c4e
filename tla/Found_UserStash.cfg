\* With untracked files only, a reconcile pops the user's own stash entry.
CONSTANTS
    Task = {t1}
    NoTask = NoTask
    MaxConcurrent = 1
    MaxUserSteps = 3
    MaxDeaths = 0
SPECIFICATION TreeSpec
PROPERTIES OwnStashOnly
CHECK_DEADLOCK FALSE
