SPECIFICATION Spec
CONSTANTS
    None = None
    Null = Null
    Requests <- Pages
    Docks = {"dock"}
    Passwords = {"", "weak", "Strong1!"}
    Strong = {"Strong1!"}
    MaxEdits = 3
    MaxPages = 3
    MaxSteps = 4
    EditPages = 1
CHECK_DEADLOCK FALSE
INVARIANTS
    TypeOK
    SessionUrlIsEntry
    MergingIsAsked
    OneForgotLink
    FailuresCounted
    NoLateSubmit
    PasswordGate
PROPERTIES
    RedirectsOfEntry
    ImplementsPlain
