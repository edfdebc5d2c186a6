SPECIFICATION FairSpec
INVARIANTS TypeOK OneProbe DetachedAtShutdown SuccessExplained
PROPERTIES SignalEndsProcess TracingResumes
