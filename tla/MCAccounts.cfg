SPECIFICATION Spec
CONSTANTS
    github = github
    google = google
    hub = hub
    hub2 = hub2
    goo = goo
    mail = mail
    Identities = {hub, hub2, goo}
    Providers = {github, google}
    ProviderOf <- Provided
    Emails = {mail}
    EmailOf <- OneMail
    Logins = {n1, n2}
    Items = {x}
    Slots = {r1, r2}
    MaxUsers = 2
INVARIANTS TypeOK AccountsOwned OneTokenPerLogin ApprovedOnly InvitationsExplained KillSwitch LeftoversExplained
PROPERTY LastAccountExplained
SYMMETRY RequestSymmetry
