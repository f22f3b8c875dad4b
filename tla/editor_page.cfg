SPECIFICATION Spec
CONSTANTS
  v1 = v1
  v2 = v2
  Values = {v1, v2}
  Blank = Blank
  InitItems <- OneAndThree
  Frame = 2
  MaxClicks = 4
INVARIANTS
  TypeOK
  DomIsData
  ListFillsFrame
  SignsMatchList
  OpenDialogHasItem
  PageFourIsCurrent
  LaunchFailsOnlyAfterRemoval
  UnsavedIsExplained
CHECK_DEADLOCK FALSE
