SPECIFICATION Spec
CONSTANT NoValue = NoValue
INVARIANTS ConfigurationIsSafe InstallationIsHonest WorkersKeepTheirWord GraphIsRight AnswersAreHonest ServingEndsWell 
PROPERTY StepsStayWithinBounds
