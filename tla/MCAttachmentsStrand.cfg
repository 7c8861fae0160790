\* A world update between attach and detach.
SPECIFICATION Spec
CONSTANTS
    Link = {"hand"}
    Name = {"box", "ball"}
    Cached = {"box"}
    Envs = 2
    NameLists <- MCNameLists
    EnableLists <- MCNoLists
    ContactSets <- MCContacts
    MaxCapacity = 2
PROPERTIES
    DetachFrees
