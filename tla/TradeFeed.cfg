SPECIFICATION FeedSpec
CONSTANTS
  NoAnswer = NoAnswer
  Identities = {mine, other}
  MAX = 2
  Limit = 1
  MaxTrades = 3
  MaxPolls = 2
  MaxScopes = 2
  MaxFailures = 1
INVARIANTS
  FeedTypeOK
  FeedIsRecent
PROPERTIES
  FeedConverges
