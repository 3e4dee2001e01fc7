\* A returning visitor's page and one click.
SPECIFICATION Spec
CONSTANTS
  Clicks = {c1}
  Visit = Visit
  PageSize = 1
  MaxJobs = 1
PROPERTY
  FailureIsAnnounced
\* The page comes to rest when every answer is in and the user is done.
CHECK_DEADLOCK FALSE
