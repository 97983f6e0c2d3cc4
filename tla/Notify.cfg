\* Two sessions under a cap of one and a table of one notification, so that a
\* pass skips and a prune deletes.
CONSTANTS
  Ids = {a, b}
  Cap = 1
  Keep = 1
  Scopes = {"all", "opened"}
  MaxMsgs = 2
  MaxActs = 2
  MaxTrouble = 1
SPECIFICATION Spec
PROPERTIES AnnouncedInTime QuestionIsNotified
CHECK_DEADLOCK FALSE
