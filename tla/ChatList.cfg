\* The list of friends and the list of groups, and rooms that outlive a deletion.
CONSTANTS
  NickNames = {}
  NoNickName = "none"
  MaxChats = 4
  MaxBlocks = 3
  MaxMessages = 1
  MaxRooms = 1
SPECIFICATION Spec
INVARIANTS TypeOK GroupUidsUnique GroupListMirrorsTable OnlyStraysOutliveChats
