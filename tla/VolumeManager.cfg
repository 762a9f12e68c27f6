CONSTANTS
  Digit <- SomeDigits
  Letter = {"x"}
  BUF_SIZE = 2
  LAST_VOLUME_TYPE = 4
  Files <- ThreeFiles
  MaxNumber = 11
  PathRoom = 1
  MaxPath = 1
  MaxLine = 8
  MaxVolumes = 2
SPECIFICATION Spec
INVARIANTS ReadsFormat OpenFilesOwned AnswersAndRecords
