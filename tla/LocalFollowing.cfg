CONSTANTS
  Creators = {a, b}
  Views = {v1, v2}
  Runs = {r1}
  Cursors = {}
  None = None
  MaxTime = 2
  CreatorLimit = 1
  MaxEntries = 2
SPECIFICATION Spec
SYMMETRY Symmetry
INVARIANT FollowingInv FreshViewIsTruth
PROPERTY RefreshNeverRegresses
CONSTRAINT NothingLost
VIEW WhatIsRead
