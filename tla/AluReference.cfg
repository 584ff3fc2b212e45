SPECIFICATION Spec
INVARIANTS
    AdcIsAddition
    SbcIsSubtraction
    DecimalAdcIsBcd
    DecimalSbcIsBcd
    SbcCarriesAgree
    RotationsInverse
CHECK_DEADLOCK FALSE
