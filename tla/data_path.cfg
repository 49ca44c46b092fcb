SPECIFICATION Spec
CONSTANTS
    Types <- MCTypes
    Severity <- MCSeverity
    NameOrder <- MCNameOrder
    Nestable <- MCNestable
    Backed = {"ssn", "jwt"}
    SpacedPass = {"ssn"}
    MinOverlap = 1
    MinTrim = 2
    MinRun = 2
    LowEntropy = {"ssn", "pin"}
    BaseTypes = {"jwt", "password", "header"}
    ProfileNames = {"BASE_SECURITY", "P", "C", "Q"}
    Destinations = {"SIEM", "FILE"}
    MaxScore = 2
    DefaultScore = 1
    Families <- MCFamilies
    Tokens = {0, 1, 2, 3}
    NoTokens = {"pin"}
    LabelWidth = 2
    FixedMask = 3
INVARIANTS
    ChunksCover
    NoValueSurvives
    SpansSettled
    ExactRemoval
    TokensConsistent
    StrictestWins
