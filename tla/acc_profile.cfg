\* Sign-ups and saves on one phone, with failures and restarts.
SPECIFICATION Spec
CONSTANTS
    old = old
    new = new
    mouse = mouse
    secret = secret
    smile = smile
    Empty = Empty
    Placeholder = Placeholder
    None = None
    Emails = {old, new}
    Passwords = {mouse, secret}
    Photos = {smile}
    MaxAccounts = 2
    MaxActs = 7
SYMMETRY Interchangeable
INVARIANTS
    TypeOK
    ProfileHasPhoto
    ProfileIsCurrent
    PasswordAsSubmitted
\* The user may stop.
CHECK_DEADLOCK FALSE
