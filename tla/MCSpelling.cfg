\* Every document of the recordings, with two lines struck, typed or moved; and
\* every history of four revisions of one file.
CONSTANTS
  Parts = {"spelling", "reading"}
  Text = {a, b}
  Recordings <- MCRecordings
  Edits <- MCEdits
  Resolutions <- MCResolutions
  HeaderLines <- MCHeaderLines
  BodyLines <- MCBodyLines
  MaxSlips = 2
SPECIFICATION MCSpec
SYMMETRY Alike
CHECK_DEADLOCK FALSE
INVARIANTS
  DocumentsReadAlike
  OneTextIsShown
