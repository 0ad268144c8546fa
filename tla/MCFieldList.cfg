SPECIFICATION Spec
CONSTANTS
  NoForm = "plain"
  Shapes <- MCShapes
  Named = {"Pair", "Framed", "Percent"}
  Files <- MCFiles
  Fresh <- MCFresh
  Offered = {"Pair", "Percent"}
  Orders = {"big", "little"}
  MaxFields = 4
  MaxEdits = 3
INVARIANTS LayoutHolds
PROPERTIES StillCovered
