\* One session with two messages, one file and one scratch handler.  Sessions
\* share nothing but the pass, which takes them one after the other.
CONSTANTS
  Ids = {a}
  Titles = {t1, t2}
  MaxMsgs = 2
  MaxPlans = 1
  Files = {f1}
  Texts = {empty, x}
  Empty = empty
  NoFile = nofile
  Savers = {h1}
  MaxEdits = 1
  MaxTrouble = 1
  NoHash = nohash
SPECIFICATION IndexSpec
INVARIANTS IndexIsSound
PROPERTIES MessagesBecomeSearchable
CHECK_DEADLOCK FALSE
