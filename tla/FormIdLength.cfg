SPECIFICATION Spec
CONSTANTS
    Armor = Armor
    Outfits = Outfits
    Plugins = {Armor, Outfits}
    Literal = Literal
    Orders <- MCOrders
    Entries <- MCEntries
    Bad = Bad
    Huge = Huge
    NoEntry = NoEntry
    Longest = 3
INVARIANT OverlongPassedOver
