SPECIFICATION Spec
CONSTANTS
    Windows = {w1, w2}
    Sites <- FewSites
    Typed = {"root", "splash", "auth", "deny", "file"}
    NoSite = NoSite
    NoToken = NoToken
    BinAuth = TRUE
    QUERYMAXLEN = 16
    MaxUpsets = 1
INVARIANTS
    TypeOK
    OriginKept
PROPERTIES
    AnswersEnd
    FormLeadsOn
