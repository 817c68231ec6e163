SPECIFICATION ServicesSpec
CONSTANTS
    p1 = p1
    p2 = p2
    s1 = s1
    s2 = s2
    c1 = c1
    closer = closer
    NoWriter = NoWriter
    Publishers = {p1, p2}
    Subscribers = {s1, s2}
    Channels = {c1}
    PubChannel <- OneChannelPub
    SubChannel <- OneChannelSub
    Cancelable = {p2}
    Readers = {s1, s2}
    BufCap = 1
    OutCap = 1
    MaxMessages <- TwoAndOne
    q1 = q1
    b1 = b1
    q3 = q3
    a1 = a1
    a2 = a2
    root = root
    sub_runtime = sub_runtime
    Requests = {q1, b1}
    BudgetKind = {b1}
    Runtimes = {root, sub_runtime}
    Root = root
    Owner <- StreamedAtSub
    Answers = {a1, a2}
    Handled = {}
    Streamed = {q1, b1}
    RespondsOnce = TRUE
INVARIANT RefusedMeansResolved
CHECK_DEADLOCK FALSE
