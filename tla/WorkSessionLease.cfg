\* Two concurrent requests; a lease lasts one tick or (work sessions only) is
\* over from the start, so rows expire and tasks are claimed again.
CONSTANTS
  n1 = n1  a1 = a1  a2 = a2  u1 = u1  u2 = u2  r1 = r1  r2 = r2
  Nil = Nil
  Node = {n1}
  Agent = {a1, a2}
  User = {u1, u2}
  Identity <- Own
  Request = {r1, r2}
  Mortal = {}
  Ttls <- MixedTtls
  Wanted = {"completed"}
  CodeVisible = TRUE
  MaxClaims = 3
  MaxTime = 2
SYMMETRY FullSymmetry
SPECIFICATION Spec
INVARIANTS TypeOK ExclusiveClaim
PROPERTIES ImplementsLease LeaseNotStolen NoSpuriousCollision
