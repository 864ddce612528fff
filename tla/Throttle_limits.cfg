SPECIFICATION Spec
CONSTANTS
    Settings <- Some
    BufLen = 2
    Cap = 4
INVARIANTS Bounded Spared
PROPERTIES Resumes
