\* The locked driver: a rejected INSERT throws a wrapped error.
CONSTANTS
  n1 = n1  a1 = a1  a2 = a2  u1 = u1  u2 = u2  r1 = r1  r2 = r2
  Nil = Nil
  Node = {n1}
  Agent = {a1, a2}
  User = {u1, u2}
  Identity <- Own
  Request = {r1, r2}
  Mortal = {r2}
  Ttls = {1}
  Wanted = {}
  CodeVisible = FALSE
  MaxClaims = 3
  MaxTime = 2
SPECIFICATION FairSpec
PROPERTIES LockFreeClaim
