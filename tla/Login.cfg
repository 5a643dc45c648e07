SPECIFICATION Spec
CONSTANTS
  Tabs = {tab1, tab2}
  States = {st1, st2, st3}
  NoState = NoState
  Issuers = {"", "casdoor"}
INVARIANT StateIsVerified
CHECK_DEADLOCK FALSE
