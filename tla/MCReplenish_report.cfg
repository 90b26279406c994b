SPECIFICATION ReplenishSpec
CONSTANTS
    MaxQuantity = 8
    MaxSafety = 5
    MaxSales = 2
INVARIANTS ReplenishTypeOK SuggestionClosesGap LowStockAgreed
PROPERTIES FollowingMissesByDrift
