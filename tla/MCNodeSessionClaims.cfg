SPECIFICATION Spec
CONSTANTS
    Channels = {c1}
    MaxUpdate = 2
PROPERTIES ClaimsAreReturned
