\* Only saving changes a nickname: refuted by a room that holds the old one.
CONSTANTS
  Friends <- MCFriends
  Groups <- MCGroups
  NickNames = {"nick"}
  NoNickName = "none"
  MaxSent = 2
  MaxDepth = 3
  MaxDelayed = 1
SPECIFICATION Spec
PROPERTY NickNameChangesBySaving
