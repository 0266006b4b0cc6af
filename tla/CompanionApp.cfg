\* Three enrollments and two crashes; writes and requests may fail.
CONSTANTS
  MaxEnrollments = 3
  MaxCrashes = 2
  Events = {"storage", "network"}
SPECIFICATION FairSpec
CHECK_DEADLOCK FALSE
INVARIANTS TypeOK RevokedIsNotServed WorksWithWhatIsStored
PROPERTIES ResetRevokesLink ImplementsEnrollmentRecord PendingIsResolved LoopReturns
