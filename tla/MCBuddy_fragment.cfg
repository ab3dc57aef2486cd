CONSTANTS
    MaxOrder = 4
    TopOrder = 3
    Start = 6
    Size <- MCSize
SPECIFICATION BuddySpec
INVARIANT MergesBack
