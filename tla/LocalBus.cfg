SPECIFICATION FairSpec
CONSTANTS
  Words = {0, 7}
  Values = {1, 2}
PROPERTIES ImplementsBusFile
