SPECIFICATION FairSpec
CONSTANTS
    Requests <- MCRequests
    Credentials = {c1}
    Nonces = {n1}
    c1 = c1
    n1 = n1
    Clock = {2, 3, 7}
    NotBefore = 3
    Expiry = 8
    Tick = 2
    Window = 1
    Retention = 6
    Nobody = Nobody
    Calls = {a1, a2}
INVARIANTS AcceptedOnce ReservationOutlivesWindow
PROPERTIES RevokedStaysOut AuthenticateReturns
