\* The budget is OneOfEach and no more: two widths do not fit.
SPECIFICATION FairSpec
CONSTANTS
  Slots <- MCSlots
  Cap = 10
  Texts <- MCTexts
  Unrendered <- MCUnrendered
  Outs = {"x", "y", "z"}
  NoOut = "x"
  Fingerprint <- MCFingerprint
  Widths = {1, 2}
  FirstWidth = 1
  Bytes <- MCBytes
  MaxActs = 3
  MaxOwed = 1
  MaxDeaths = 1
INVARIANTS StoreSound
PROPERTIES NeverEvicted CatchesUp
CHECK_DEADLOCK FALSE
