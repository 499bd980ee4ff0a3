\* Three screens: a room, its info screen and what is above it, a forward on its way,
\* a group whose timer is started, a group that is left while its messages
\* wait, a widget that points at it, and the process killed at any moment.
CONSTANTS
  Friends <- MCFriends
  Groups <- MCGroups
  NickNames = {"nick"}
  NoNickName = "none"
  MaxSent = 2
  MaxDepth = 3
  MaxDelayed = 1
SPECIFICATION Spec
INVARIANTS TypeOK OneChatPerUid ItemKeysAgree StoredInSendOrder SessionsMirrorTables BadgeMirrorsTables
PROPERTIES ChatStaysGone KeepsMessages
