CONSTANTS
    Feeds = {f1, f2, f3}
    GroupNumbers <- MCGroupNumbers
    ConfiguredWorkers <- MCConfiguredWorkers
    Nobody = Nobody
SPECIFICATION ControllerSpec
INVARIANTS ControllerTypeOK GroupBarrier WorkerBound NoResultLost RaisesOnlyAlone
PROPERTIES EveryFeedReported ImplementsContract
\* The batch ends: run() returns or raises.
CHECK_DEADLOCK FALSE
