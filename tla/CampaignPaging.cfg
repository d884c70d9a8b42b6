SPECIFICATION Spec
CONSTANTS
    Types = {"simple", "split", "testab"}
    MaxContacts = 7
    BatchLimit = 2
    Spreads = {0, 5, 7}
    Percents = {20, 50, 100}
    MaxMessages = 3
INVARIANTS
    OneMessageEach
    NobodySkipped
