SPECIFICATION Spec
CONSTANTS
    f1 = f1
    f2 = f2
    s1 = s1
    s2 = s2
    s3 = s3
    v0 = v0
    v1 = v1
    v2 = v2
    Fields = {f1, f2}
    Sources = {s1, s2, s3}
    Values = {v0, v1, v2}
    Blank = Blank
    None = None
    Default <- MCDefault
    Original <- MCOriginal
INVARIANTS
    TypeOK
    NothingLeftOver
    MessageTrue
PROPERTY
    PromiseSpec
