CONSTANTS
  Csis = {1, 2}
  MaxVid = 2
  Duplications = {TRUE, FALSE}
  MaxRounds = 1
SPECIFICATION LayoutSpec
INVARIANTS LayoutTypeOK OneEntryPerVid RightWindows
