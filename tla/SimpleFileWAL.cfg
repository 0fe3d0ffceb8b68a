SPECIFICATION Spec
CONSTANTS
    Records = {"a", "b", "empty"}
    Size <- MCSize
    NoRecord = "none"
INVARIANTS AckedIsDurable NeverMixed
