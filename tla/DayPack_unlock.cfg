SPECIFICATION Spec
CONSTANTS
  Workers = {w1, w2}
  Days = {d1}
  Sources <- MCSources
  None = None
  MaxEdits = 1
  MaxPacks = 2
  MaxVersion = 3
PROPERTIES PublishedIsLocked
