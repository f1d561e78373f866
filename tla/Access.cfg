SPECIFICATION Spec
CONSTANTS
    e1 = e1
    e2 = e2
    bob = bob
    BOB = BOB
    eve = eve
    kbob = kbob
    keve = keve
    Emails = {e1, e2}
    Nicks = {bob, BOB, eve}
    Keys = {kbob, keve}
    Fold <- MCFold
    Tokens = {t1, t2}
    Procs = {p1}
    Lists <- MCLists
    Guests = {g1}
    GuestNicks = {bob}
    NoOne = NoOne
    NoNick = NoNick
SYMMETRY MCSymmetry
INVARIANTS
    CredentialNickOwned
    OneLiveCredential
PROPERTIES
    NicknameNeverReassigned
    AdminKept
    StartSound
