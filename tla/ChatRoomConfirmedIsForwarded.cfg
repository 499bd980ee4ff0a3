\* A confirmed forward is written: refuted when its screen was left.
CONSTANTS
  Friends <- MCFriends
  Groups <- MCGroups
  NickNames = {"nick"}
  NoNickName = "none"
  MaxSent = 2
  MaxDepth = 2
  MaxDelayed = 1
SPECIFICATION Spec
PROPERTY ConfirmedIsForwarded
