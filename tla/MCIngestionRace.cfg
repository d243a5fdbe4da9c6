SPECIFICATION Spec
CONSTANTS
    s1 = s1  s2 = s2
    v1 = v1  v2 = v2
    c1 = c1  c2 = c2
    k1 = k1  k2 = k2  k3 = k3
    p1 = p1  p2 = p2  p3 = p3  p4 = p4
    w1 = w1  w2 = w2
    None = None
    Source = {s1, s2}
    Version = {v1, v2}
    Chunk = {c1, c2}
    Key = {k1, k2, k3}
    Payload = {p1, p2, p3, p4}
    Worker = {w1, w2}
    Content <- MCContent
    Links <- MCLinks
    Command <- MCCommand
INVARIANTS
    NoSilentLoss
