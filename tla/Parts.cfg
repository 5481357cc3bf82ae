SPECIFICATION Spec
CONSTANTS
  ArticleIds = {1, 2, 3}
  Limits = {0, 1, 2}
  MaxValue = 1
  MaxChanges = 2
  Requests = {q1, q2}
  Articles = {d1, d2}
  Categories = {c1, c2}
  Nothing = Nothing
  Uploads = {u1, u2}
  Users = {x1}
  Names = {n1, n2}
  Variants = {"sm", "lg"}
  Last = "lg"
  Workers = 2
  Nobody = Nobody
  Day = 4
  Days = 2
  MaxNow = 9
INVARIANTS PartsTypeOK NothingSkipped RepeatsFellBack DanglingOnlyByOverlap AvatarsServed ShowsWhatWasSaved TempFilesMatch OneDelayIsEnough
PROPERTIES PagesEnd PulledWithCategory EditsEnd
CHECK_DEADLOCK FALSE
