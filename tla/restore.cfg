\* Anything fails, is interrupted or dies, and another process may create a root.
CONSTANTS
    Failing = {"stage", "verify", "set_aside", "activate", "configure", "undo_remove", "undo", "undo_config"}
    Interruptible = TRUE
    Shared = TRUE
SPECIFICATION RestoreSpec
INVARIANTS OldOrAllNew AllOrNothing
\* The call returns or dies.
CHECK_DEADLOCK FALSE
