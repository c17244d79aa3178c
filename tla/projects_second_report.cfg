SPECIFICATION Spec
SYMMETRY Symmetry
CONSTANTS
    p1 = p1
    p2 = p2
    i1 = i1
    i2 = i2
    u1 = u1
    u2 = u2
    l1 = l1
    l2 = l2
    t1 = t1
    t2 = t2
    w1 = w1
    b1 = b1
    b2 = b2
    Null = Null
    Projects = {p1}
    Images = {i1}
    Users = {u1}
    Lids = {l1}
    Requests = {t1}
    Workers = {}
    MaxProjects = 1
    MaxImages = 1
    Publications = {b1, b2}
    Attached <- TwoForms
    Operations = {"create", "publish"}
INVARIANTS ReportIsTheOneSent
CHECK_DEADLOCK FALSE
