\* Two checks, two feeds and two lists: one check can reload while the other waits
\* and the list is replaced in between.
CONSTANTS
  Checks = {c1, c2}
  Feeds = {f1, f2}
  MaxMark = 2
  MayFail = TRUE
SPECIFICATION FairSpec
INVARIANTS AnswersCurrent 
PROPERTIES CacheNeverGoesBack EveryCheckAnswered
