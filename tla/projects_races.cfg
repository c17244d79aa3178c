SPECIFICATION Spec
SYMMETRY Symmetry
CONSTANTS
    p1 = p1
    p2 = p2
    i1 = i1
    i2 = i2
    u1 = u1
    u2 = u2
    l1 = l1
    l2 = l2
    t1 = t1
    t2 = t2
    w1 = w1
    b1 = b1
    b2 = b2
    Null = Null
    Projects = {p1, p2}
    Images = {i1, i2}
    Users = {u1, u2}
    Lids = {l1, l2}
    Requests = {t1, t2}
    Workers = {w1}
    MaxProjects = 1
    MaxImages = 1
    Publications = {b1}
    Attached <- OneForm
    Operations = {"create", "add_image", "remove_image", "delete", "publish"}
INVARIANTS TypeOK LimitsBounded PublishedStored
PROPERTIES OwnersOnly PreviewKept
CHECK_DEADLOCK FALSE
