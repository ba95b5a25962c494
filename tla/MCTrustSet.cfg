SPECIFICATION FairSpec
CONSTANTS
    a1 = a1
    a2 = a2
    a3 = a3
    n1 = n1
    n2 = n2
    n3 = n3
    Admins = {a1, a2, a3}
    NoAdmin = NoAdmin
    Numbers <- MCNumbers
    Config <- MCConfig
    MaxMeetings = 2
INVARIANTS RevokedStayOut ConfiguredTrusted
PROPERTIES TrustLostByRevocationOnly UpdateSucceeds
