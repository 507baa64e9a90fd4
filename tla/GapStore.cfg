\* A question worded, or without content words, two calls at a time, a restart.
SPECIFICATION Spec
CONSTANTS
  Meanings = {m}
  Wordings = {v, blank}
  Blank = blank
  Agents = {tech}
  Names = {n}
  Calls = {c, d}
  MaxSearches = 3
  MaxBoots = 2
INVARIANTS
  CountersAreSound
  RecentAreUnread
  MeaningsAreSearched
  OneRowPerQuestion
CHECK_DEADLOCK FALSE
