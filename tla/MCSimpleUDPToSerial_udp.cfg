SPECIFICATION FairSpec
CONSTANTS
    Defaults <- MCDefaults
    Forms <- MCForms
    MaxPosts = 2
    MaxResets = 1
INVARIANTS
    ListensOnOnePort
    SubmissionsStayWhole
PROPERTIES
    WorksAsSet
CHECK_DEADLOCK FALSE
