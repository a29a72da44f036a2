SPECIFICATION Spec
CONSTANTS
    c1 = c1
    c2 = c2
    Conns = {c1, c2}
    NoCon = NoCon
    NoFunc = NoFunc
    Contents <- MCContents
    MaxMtime = 1
    MaxFailures = 1
    EditsShow = TRUE
    FileStays = TRUE
    Usernames <- MCUsernames
    Passwords <- MCPasswords
    admin_username <- MCUsername
    admin_password <- MCPassword
    Challenge <- MCChallenge
INVARIANTS
    ThreadsAnchored
CHECK_DEADLOCK FALSE
