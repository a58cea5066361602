\* A process in many environments, and visitors of the home page while a
\* release replaces another.
SPECIFICATION FairSpec
CONSTANTS
  Unset = Unset
  Blank = Blank
  Junk = Junk
  None = None
  ConnsLimit = 4
  SecondsLimit = 16
  DriverConns = 4
  Old = Old
  New = New
  Instances = {Old, New}
  Visitors = {"v1", "v2", "v3"}
  AssetOrder <- TheOrder
  Content <- TheContent
  Deployments <- TheDeployments
INVARIANTS
  FirstSettingWins
  ProductionIsReal
  LimitsPositive
  PagesWhole
PROPERTIES
  ColdRendersOnlyCrash
  EveryVisitorAnswered
CHECK_DEADLOCK FALSE
