CONSTANT SEM_VALUE_MAX = 2
SPECIFICATION SmokersSpec
INVARIANT TakenByTheRightOne
PROPERTY AllTakenInTheEnd
