\* Configurations of up to three routes, paths of up to six characters.
SPECIFICATION Spec
CONSTANTS
    Configs <- MCConfigs
    UsableBackends <- MCUsable
    AbsoluteEndpoints <- MCAbsolute
    NoOverride = "none"
    Paths <- MCPaths
INVARIANTS
    VerdictExact
    OneCheckPerBackend
    RouteOrderIrrelevant
    RoutedBySegments
\* Validation ends with a verdict.
CHECK_DEADLOCK FALSE
