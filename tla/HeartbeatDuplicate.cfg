SPECIFICATION AlertSpec
CONSTANTS
  CommentCap = 2
  MaxFlips = 2
  MaxElapsed = 2
  MaxFaults = 2
INVARIANT OneOpenIssue
