\* A commit whose answer is lost: the handler takes its registration for failed.
SPECIFICATION Spec
CONSTANTS
  Datasets = {d1, d2}
  UploadLimit = 1
  MaxSize = 2
  LostAnswers = 1
  None = None
PROPERTIES
  RemovesOnlyUnregistered
\* Everything uploaded, judged and shown: nothing is left to do.
CHECK_DEADLOCK FALSE
