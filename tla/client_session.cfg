CONSTANTS
  MaxLogins = 2
  MaxMessages = 3
  MaxJoins = 2
  ChannelSize = 3
SPECIFICATION FairSpec
INVARIANTS SessionTypeOK SessionIsCurrent PollsAreCounted
PROPERTIES NoStaleMessages LoginEnds
CHECK_DEADLOCK FALSE
