\* A deleted message is gone: refuted for one that was just sent.
CONSTANTS
  Friends <- MCFriends
  Groups <- MCGroups
  NickNames = {"nick"}
  NoNickName = "none"
  MaxSent = 1
  MaxDepth = 1
  MaxDelayed = 1
SPECIFICATION Spec
PROPERTY DeletedIsGone
