SPECIFICATION TabSpec
CONSTANTS
  w1 = w1
  w2 = w2
  Page = {w1, w2}
PROPERTIES ConfirmNeverEnables
