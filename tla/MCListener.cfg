SPECIFICATION ListenSpec
CONSTANTS
  s1 = s1  s2 = s2  s3 = s3
  i1 = i1  i2 = i2  i3 = i3
  Servers = {s1, s2, s3}
  Inodes = {i1, i2}
  NoInode = NoInode
INVARIANTS FileHasOwner FlagIsTrue
CHECK_DEADLOCK FALSE
