CONSTANTS
  Tab = {a, b}
  MainTab = a
  Client = {"web", "nolocks", "native"}
  MaxTokens = 3
  MaxFamilies = 2
  MaxLosses = 1
SPECIFICATION FairSpec
INVARIANTS SessionsTypeOK OneFresh HonestStaysSignedIn ReuseMeansLoss
PROPERTIES DeadStaysDead RevokingEndsFamily RefreshEnds
CHECK_DEADLOCK FALSE
