CONSTANTS
  Unmounted = Unmounted
  MaxReads = 2
  Themes <- MCThemes
  Names = {"a", "b"}
  NoField = "none"
  MaxClicks = 3
SPECIFICATION Spec
 
PROPERTY ConnectEnds
CHECK_DEADLOCK FALSE
