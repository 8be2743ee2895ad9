\* Two lines, one after the other
CONSTANTS
    Programs = {"sleep", "kill", "cat", "echo", "ls"}
    CommLen = 10
    MaxLines = 2
    Lines <- MCLines
    Leftovers <- MCLeftovers
SPECIFICATION Spec
INVARIANTS
    RunsAsTyped
    HandledAsTyped
    ShownAsTyped
\* The bound on the lines stops the user.
CHECK_DEADLOCK FALSE
