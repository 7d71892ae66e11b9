CONSTANTS
    p1 = p1
    r1 = r1
    r2 = r2
    Person = {p1}
    Request = {r1, r2}
    None = None
    MaxEvents = 2
SPECIFICATION Spec
INVARIANTS OneUser OwnSession RightPowers
PROPERTIES Revoked LockFreed
