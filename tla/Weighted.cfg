CONSTANTS
    one = one
    uno = uno
    two = two
    three = three
    four = four
    Client = {one, uno, two, three, four}
    W <- Weights
    Size = 3
SPECIFICATION FairSpec
INVARIANTS ClientsTypeOK Bounded HeadBlocked
PROPERTIES InOrder NoStarvation
