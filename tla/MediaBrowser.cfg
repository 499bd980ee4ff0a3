\* Every order of up to four messages of each kind, deletions, and a tap.  A room
\* whose MaxItems messages are all deleted stops here: the bound ends it.
CONSTANT MaxItems = 4
SPECIFICATION Spec
INVARIANTS TypeOK OpensOnTheTapped
CHECK_DEADLOCK FALSE
