SPECIFICATION Spec
CONSTANTS
  Unidades = {u1}
  Checks = {c1}
  Mecanicos = {m1}
  Sujetos = {m1}
  Fotos = {f1, f2, f3}
  Tags = {"ODOMETER"}
  Fuentes = {s1}
  Llaves = {k1, k2}
  Lecturas <- ContentReadings
  Politicas <- TwoPolicies
  EstadosUnidad = {"EN_PATIO", "FUERA"}
  MinFotos = 2
  MaxFotos = 2
  NULL = NULL
  MaxDia = 2
  MaxVersion = 12
  MaxSolicitudes = 2
SYMMETRY Symmetry
INVARIANTS
  SignedAsReviewed
  CompletionEffectsOnce
  OneAnsweredCompletion
PROPERTIES
  CompletedImmutable
  ImplementsContract
CHECK_DEADLOCK FALSE
