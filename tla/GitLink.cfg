SPECIFICATION GitSpec
CONSTANTS
    File = {f}
    Branch = {main, side}
    Initial = main
    Repo = {hub1}
    MaxVersions = 2
    MaxCommits = 4
    MaxGitEdits = 3
    MaxGitFaults = 1
PROPERTY LinkKeepsFiles
CHECK_DEADLOCK FALSE
