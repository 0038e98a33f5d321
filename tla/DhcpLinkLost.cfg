SPECIFICATION FairSpec
CONSTANTS
    MAX_DHCP_TRIES = 4
    COOP_TRIES = 4
    TRIES_LIMIT = 7
PROPERTY LinkUpdateTakesEffect
