SPECIFICATION Spec
CONSTANTS
  Inbounds = {i1}
  Outbounds = {o1}
  Endpoints = {e1}
  Services = {s1}
  WithTls = {i1}
  Editors = {}
  Browser = browser
  NoOne = none
  SafeModes = {FALSE}
  MaxRevision = 4
INVARIANT XrayRunsWhatIsSaved
CHECK_DEADLOCK FALSE
