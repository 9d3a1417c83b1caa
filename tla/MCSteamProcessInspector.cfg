\* Two PIDs, two paths and two App IDs beside none: a PID can be used again with
\* the path and the environment of before, with either, or with neither.
CONSTANTS
  Pid = {p1, p2}
  Path = {a, b}
  App = {g1, g2}
  NoApp = NoApp
  NoProgram = NoProgram

SPECIFICATION Spec
INVARIANT AnnotationIsOwn
SYMMETRY Symmetry
