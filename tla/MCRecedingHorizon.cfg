\* Changing goals, seeds and worlds and partial resets between the commands of
\* two robots; a control loop that keeps asking is served.
SPECIFICATION FairSpec
CONSTANTS
    Robots <- MCRobots
    Goals = {"a"}
    Window = 2
    UseDeceleration = TRUE
INVARIANTS
    QueueMirrored
    CommandsSafe
    StaleBounded
PROPERTIES
    GoalsServed
