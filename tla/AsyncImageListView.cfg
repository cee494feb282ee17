SPECIFICATION Spec
CONSTANTS
    i1 = i1
    i2 = i2
    i3 = i3
    h1 = h1
    h2 = h2
    Writers = {w1}
    Readers = {r1}
    Nodes = {n1, n2, n3}
    Images = {i1, i2, i3}
    Headers = {h1, h2}
    HeaderOf <- MCHeaderOf
    NULL = NULL
INVARIANTS ReaderSeesAll
