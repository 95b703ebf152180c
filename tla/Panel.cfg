\* Two requests of a logged-in owner or a client, one fault.
SPECIFICATION PanelFairSpec
CONSTANTS
    r1 = r1
    r2 = r2
    b1 = b1
    Reqs = {r1, r2}
    Bindings = {b1}
    Token = "token"
    LoginFailures = 1
    MaxOps = 2
    MaxSessions = 2
    MaxMishaps = 1
INVARIANTS
    
    SignedOut
    BindingsApplied
 
