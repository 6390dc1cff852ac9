SPECIFICATION PartsSpec

CONSTANTS
    Mains <- MCMains
    Above <- MCAbove
    Sessions = {s1, s2}
    CardOf <- MCCardOf
    Searches = {odd, even}
    CandidateKeys = {ka, kb}
    SelectorKeys = {k1, k2}
    Budgets <- MCBudgets
    MaxOpened = 2
    odd = odd
    even = even
    ka = ka
    kb = kb
    k1 = k1
    k2 = k2
    s1 = s1
    s2 = s2
    Issues = {i1, i2}
    NoIssue = NoIssue
    MaxArchives = 2
    MaxReopens = 1

SYMMETRY Alike
INVARIANTS LedgerIsSound OpenSearchCanClose CutoverIsSound
PROPERTIES OnlyTraceKept
CHECK_DEADLOCK FALSE
