\* Two runs over three editions of one feed: the date a posting was first seen with is lost.
SPECIFICATION Spec
CONSTANTS
  Absent = Absent
  ServerZone = 0
  Documents <- EditedFeeds
  Runs = {r1, r2}
  Limits = {0}
  PageSize = 2
  Zones <- SessionZones
PROPERTIES
  PublishedAtPreserved
