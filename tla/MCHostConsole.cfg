SPECIFICATION Spec
CONSTANTS
    Starts = {"start", "s1", "s2", "boot", "busy", "app"}
    Commands = {"sd-info", "ls", "mkdir", "run-app", "reboot"}
    Replies <- MCReplies
    Splits = {TRUE, FALSE}
    MaxCommands <- MCCommands
    MaxPolls <- MCPolls
    MaxWaits = 2
INVARIANT TypedForItsStage
PROPERTIES OwnReply EndsForAReason
CHECK_DEADLOCK FALSE
