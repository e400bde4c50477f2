SPECIFICATION Spec
CONSTANTS
    Editors = {e1, e2}
    Replacers = {e2}
    Reloaders = {w}
    Edits = {x, y}
    MaxCrashes = 1
    Users = {Admin, root}
    Passwords = {Admin123, secret1}
    Dotted = {}
    Admin = Admin
    Admin123 = Admin123
    Browser = b
    MaxSecrets = 2
    None = None
INVARIANTS
    NothingUnasked
    SessionsStay
    
PROPERTIES
    Durable
    OnlyStaleReloadParts
CHECK_DEADLOCK FALSE
