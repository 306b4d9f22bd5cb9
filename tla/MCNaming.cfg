SPECIFICATION NamingSpec
CONSTANTS
    Own = own
    Others = {other}
    Budgets <- MCBudgets
INVARIANT PublishedIsThere
PROPERTY ViewsAreSnapshots
 
 
CHECK_DEADLOCK FALSE
