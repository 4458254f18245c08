\* Two requests in flight, a user with two-factor authentication and one without, room
\* for one message. Tokens, challenges and logins run out, so the run may stop.
CONSTANTS
  Requests = {r1, r2}
  Users = {ann, tom}
  Totp = {tom}
  Nobody = nobody
  Codes = {k1, k2}
  Room = 1
  MaxTokens = 2
  MaxChallenges = 1
  MaxLogins = 1
SYMMETRY SlotSymmetry
SPECIFICATION Spec
INVARIANTS IdentityProven  
CHECK_DEADLOCK FALSE
