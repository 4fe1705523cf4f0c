SPECIFICATION Spec
CONSTANTS
    p1 = p1
    p2 = p2
    n1 = n1
    n2 = n2
    pw1 = pw1
    k1 = k1
    k2 = k2
    Clients <- MCClients
    Names <- MCNames
    Passwords <- MCPasswords
    MasterKeys <- MCMasterKeys
    Unset = Unset
    MaxCalls = 5
SYMMETRY Symmetry
INVARIANTS PromisedPasswordStored StoresAgree ResolveMatchesProfile
PROPERTY ReadOnlyLostOnlyByOverlap
