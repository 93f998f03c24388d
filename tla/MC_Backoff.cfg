CONSTANT Configs <- MCConfigs
SPECIFICATION Spec
INVARIANT TypeOK
INVARIANT NeverPanics
INVARIANT BackoffBounded
