SPECIFICATION Spec
CONSTANTS
    Heads = {"cargo"}
    Rests = {"test", "doc"}
    DangerousWords = {}
    HiddenWords = {}
    Sessions = {s1}
    Projects = {p1}
    HandDenies = {}
    MaxEvents = 3
INVARIANTS
    DeniesDurable
CHECK_DEADLOCK FALSE
