SPECIFICATION FairSpec
CONSTANTS
    Users = {u1}
    Sessions = {s1}
    Tokens = {t1, t2, t3}
    Requests = {r1, r2}
    None = None
    TTL = 1
    MaxNow = 0
    Crashes = FALSE
PROPERTIES
    RequestsEnd
