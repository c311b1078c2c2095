SPECIFICATION ConfigSpec
CONSTANTS
    Gpu = {g0, g1}
    Server <- MCServer
    IndexOf <- MCIndexOf
    Alloc = {1, 2}
    Mistakes = TRUE
INVARIANTS
    ConfiguredIsOwn
PROPERTY
    UpdateKeepsApart
