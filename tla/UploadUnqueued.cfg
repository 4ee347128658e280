SPECIFICATION UntilSuccessSpec
CONSTANTS
  c1 = c1  c2 = c2  c3 = c3  c4 = c4  k1 = k1  f1 = f1  f2 = f2
  Keys = {k1}
  Files = {f1, f2}
  NoFile = NoFile
  Clients = {c1}
  Message <- Single
  MaxFaults = 1
PROPERTIES SuccessIsQueued
