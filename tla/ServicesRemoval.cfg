SPECIFICATION Spec

CONSTANTS
  Focus = {"evidence"}
  t1 = t1  t2 = t2  t3 = t3
  c1 = c1  c2 = c2
  f1 = f1  f2 = f2
  a1 = a1
  r1 = r1
  Artifact = {a1, a2}
  Trio = {t1, t2, t3}
  ContentOf <- MCContentOf
  Run = {u1, u2}
  Listed = {a1}
  Legacy <- MCLegacy
  None = None
  Facts = {f1, f2}
  Shows <- MCShows
  PassesFilter = {f2}
  DeadlineOf <- MCDeadlineOf
  Dispatcher = {d1, d2}
  MaxTime = 6
  Token = {w1, w2, w3, w4}
  Request = {q1, q2}
  NoToken = None
  RunId = {r1, r2, r3}
  Session = {s1, s2}
  SuppliedKey <- MCSuppliedKey
  PollInterval = 2
  MaxMinute = 2
  NoRun = None

CHECK_DEADLOCK FALSE

INVARIANT CrawledPagesStay
