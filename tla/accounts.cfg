SPECIFICATION Spec
CONSTANTS
    Requests = {r1, r2}
    Emails = {e1, e2}
    Subjects = {s1, s2}
    SamlSubjects = {s1}
    Local = local
    MaxAccounts = 2
SYMMETRY Symmetry
INVARIANTS TypeOK VerifiedByToken SameIdentitySameAccount
