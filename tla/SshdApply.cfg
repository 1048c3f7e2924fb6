SPECIFICATION Spec
CONSTANTS
    Tx = {t1, t2}
    Ips = {ip1, ip2}
    Options = {yes, keys}
    Allowed = {keys}
    Wanted = keys
    Barrings <- AnyBarring
    Edits = {e1}
    MaxFaults = 2
    None = None
SYMMETRY Transactions
INVARIANTS LockExact SettledEditsSurvive OriginalAtHand ReportsHonest LockoutIsReported
