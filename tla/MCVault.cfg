\* Starts with keys that get damaged or replaced, and two connects to a bastion
\* that is rekeyed, deleted and made anew.
SPECIFICATION Spec
CONSTANTS
    h1 = h1
    h2 = h2
    old = old
    new = new
    f1 = f1
    f2 = f2
    f3 = f3
    m1 = m1
    m2 = m2
    p = p
    c1 = c1
    q1 = q1
    q2 = q2
    None = None
    MasterKeys = {m1, m2}
    Phrases = {p}
    Hosts = {h1, h2}
    AliasOf <- OneAlias
    Addresses = {old, new}
    AddressOf <- Address
    HostKeys = {f1, f2, f3}
    KeysOf <- Keys
    Conns = {c1}
    Requests = {q1, q2}
SYMMETRY VaultSymmetry
INVARIANTS OneKey PinIsOwn
PROPERTIES PinHolds
CHECK_DEADLOCK FALSE
