\* Two queries that may share the token; the queryables may clone their Query and
\* need not answer.
CONSTANTS
  q1 = q1
  q2 = q2
  k1 = k1
  k2 = k2
  Query = {q1, q2}
  Queryable = {k1, k2}
  Matches <- MCMatches
  Token = {t1}
  None = None
  MaxRefs = 2
  MaxReplies = 1
SPECIFICATION FairSpec
INVARIANTS AllRepliesBeforeOnDrop CancelledIsQuiet
PROPERTIES   ImplementsClosures
CHECK_DEADLOCK FALSE
