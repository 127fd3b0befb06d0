CONSTANTS
    t1 = t1
    t2 = t2
    n1 = n1
    n2 = n2
    c1 = c1
    c2 = c2
    Threads = {t1, t2}
    Chats = {n1, n2}
    Consoles = {c1, c2}
    Legacy <- MCLegacy
    Nothing = Nothing

SPECIFICATION Spec

INVARIANTS
    TypeOK
    OneRowPerConversation
    NoResurrection

PROPERTIES
    ImportOnlyAdds

CHECK_DEADLOCK FALSE
