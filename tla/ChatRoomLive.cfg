\* Progress of the main queue in a process that is not killed. Sending stops at
\* MaxSent, and every screen can still be left. The third message is the one a
\* group's timer sends after the two that start it, and the widget may push a room
\* beneath the picker that sends one of them. Nobody saves a nickname.
CONSTANTS
  Friends <- MCFriends
  Groups <- MCGroups
  NickNames = {}
  NoNickName = "none"
  MaxSent = 3
  MaxDepth = 2
  MaxDelayed = 1
SPECIFICATION LiveSpec
PROPERTIES SentIsStored BadgeCatchesUp OnlyPickersTickUnseen
