\* Attaching, detaching and world updates that may fail.
SPECIFICATION Spec
CONSTANTS
    Link = {"hand", "tool"}
    Name = {"box", "ball"}
    Cached = {"box"}
    Envs = 2
    NameLists <- MCNameLists
    EnableLists <- MCNoLists
    ContactSets <- MCContacts
    MaxCapacity = 2
INVARIANTS
    DisabledOwned
PROPERTIES
    FailedAttachHarmless
    DetachRestores
    AttachReplaces
    
