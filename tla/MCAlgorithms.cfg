SPECIFICATION Spec
INVARIANTS RouteRight FilesRight GeometryRight ParametersNamed StampsPrinted ExercisesSolved
