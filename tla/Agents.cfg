SPECIFICATION FairSpec
CONSTANTS
    ann = ann
    gus = gus
    c1 = c1
    c2 = c2
    People = {ann, gus}
    Guests = {gus}
    Calls = {c1, c2}
    MaxEvents = 3
INVARIANTS
    OpensAlone
PROPERTIES
    AgentLeaves
    AgentNickSettles
    BannedCredentialGone
