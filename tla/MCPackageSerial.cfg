\* Invocations one after the other, each free to crash, fail or be rejected.
SPECIFICATION FairSerialSpec
CONSTANT MaxRuns = 3
INVARIANTS TypeOK AtomicPublish LeftoversNeverBlock AuditSeparatesFailures
PROPERTIES NoOverwrite DeliversWholePackages DrivenRunPublishes
\* Every invocation ends, so the system stops.
CHECK_DEADLOCK FALSE
