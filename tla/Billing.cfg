CONSTANTS
    Subs = {s1}
    Hooks = {h1}
    Reconciler = rec
    Runs = {r1}
    NoticeDays <- Days
    Window = 0
    MaxDowngrades = 1
SPECIFICATION FairSpec
INVARIANTS PaidIsActive
PROPERTIES DeactivatedAfterNotices OneReminderADay RemovedStays StatusesConverge DeadlinesAreCleared
CHECK_DEADLOCK FALSE
