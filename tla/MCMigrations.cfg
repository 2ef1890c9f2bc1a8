CONSTANTS
    p1 = p1
    p2 = p2
    p3 = p3
    ann = ann
    NoOne = NoOne
    Processes = {p1, p2, p3}
    Users = {ann}
SPECIFICATION MigrationsSpec
SYMMETRY Interchangeable
INVARIANTS
    MigrationsTypeOK
    UpgradesAreWhole
