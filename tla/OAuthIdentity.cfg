SPECIFICATION Spec
CONSTANTS
    Redirects = {r1, r2, r3}
    Callbacks = {c1, c2, c3}
    Users = {u1, u2}
    Outsider = Outsider
    Nobody = Nobody
    p1 = p1
    p2 = p2
    p3 = p3
    e1 = e1
    E1 = E1
    e2 = e2
    Identities = {p1, p2, p3}
    Emails = {e1, e2}
    Mailbox <- MCMailbox
    Answers <- MCAnswers
    Policies = {TRUE, FALSE}
    AutoLinkUnverified = TRUE
    MaxAttempts = 2
    MaxProviders = 3
    MaxFaults = 1
SYMMETRY Symmetry
INVARIANTS TypeOK StateTakenOnce IndexesAgree LookupsAgree OnlyInvitedLinks 
PROPERTIES LinksOnlyRequester ImplementsRegistry
CHECK_DEADLOCK FALSE
