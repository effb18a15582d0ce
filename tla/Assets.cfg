SPECIFICATION LiveSpec
CONSTANTS
    Assets = {1, 2}
    Codes = {"c1", "c2"}
    Unread = "unread"
    Sealed = {1}
    Mute = {1}
    Every = 1
    HoldFor = 1
    MaxChanges = 2
    MaxRestarts = 1
INVARIANTS
    AnswersHold
PROPERTIES
    EachIsTold
