SPECIFICATION SessionsSpec
CONSTANTS
  Devices = {phone, browser}
  Phones = {phone}
  Refreshes = {r1}
  Tokens = {t1, t2}
  NoToken = NoToken
CHECK_DEADLOCK FALSE
INVARIANT CurrentSessionSurvives
