SPECIFICATION Spec
CONSTANTS
  Formats <- MCXml
  Inputs <- MCInputs
  Stems <- MCStems
  MaxRead = 9
  MaxText = 16
  MaxWord = 4
  Longest = 8
  MaxPdf = 6
  Fonts <- MCFonts
  Readable <- MCReadable
CHECK_DEADLOCK FALSE
INVARIANT
  EmptyOnlyIfBinary
