\* Two overlapping invocations at the same output directory.
SPECIFICATION Spec
CONSTANT MaxRuns = 2
INVARIANT AtomicPublish
CHECK_DEADLOCK FALSE
