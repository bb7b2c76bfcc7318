\* The notifier's cursor and the live followers.
CONSTANTS
    MaxId = 3
    Senders <- MCSenders
    Limit = 2
    Clients = {c1}
    NoRow = NoRow
SPECIFICATION Spec
INVARIANTS NothingPassedOver PublishedOnce FollowedInOrder
 
