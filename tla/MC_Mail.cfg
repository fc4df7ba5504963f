SPECIFICATION MailSpec
CONSTANTS
    Mails = {m1}
    Processes = {s1, s2}
    Nothing = Nothing
    Jobs <- MC_Jobs
    Attempts = 3
    MaxFaults = 4
CHECK_DEADLOCK FALSE
INVARIANTS
    CopiesExplained
PROPERTIES
    MailSettles
