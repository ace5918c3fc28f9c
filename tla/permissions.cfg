SPECIFICATION Spec
CONSTANTS
    Heads = {"cargo"}
    Rests = {"test", "rm", ".env"}
    DangerousWords = {"rm"}
    HiddenWords = {".env"}
    Sessions = {s1, s2}
    Projects = {p1, p2}
    HandDenies <- MCHandDenies
    MaxEvents = 3
VIEW Future
SYMMETRY Swaps
INVARIANTS
    TypeOK
    HandDeniesKept
    DeniesStayHome
PROPERTIES
    PolicyHolds
CHECK_DEADLOCK FALSE
