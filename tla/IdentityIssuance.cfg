\* Two calls open at a time on two threads; three accounts, two of them of one name
\* in two namespaces; tokens with a pod uid and without.
SPECIFICATION FairSpec
CONSTANTS
    c1 = c1
    c2 = c2
    t1 = t1
    t2 = t2
    shop = shop
    bank = bank
    web = web
    db = db
    p1 = p1
    p2 = p2
    Calls = {c1, c2}
    Threads = {t1, t2}
    Namespaces = {shop, bank}
    Names = {web, db}
    Accounts <- MCAccounts
    Pods = {p1, p2}
    Workloads <- MCWorkloads
    None = None
INVARIANTS
    CertificateIsCallers
    SanWasAuthenticated
PROPERTIES
    EveryCallIsClosed
    ImplementsIssuer
