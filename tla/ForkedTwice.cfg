\* Two peers answer an INVITE, and the call with one of them ends.
SPECIFICATION ForkSpec
CONSTANTS
    ForkTags = {"f1", "f2"}
    MaxDialogs = 3
    MaxResponses = 4
INVARIANT OneDialogPerPeer
CHECK_DEADLOCK FALSE
