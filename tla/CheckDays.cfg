SPECIFICATION SchedulerSpec
CONSTANTS
  Unidades = {u1, u2}
  Checks = {c1, c2}
  Mecanicos = {m1}
  Sujetos = {m1}
  Fotos = {}
  Tags = {}
  Fuentes = {s1}
  Llaves = {k1}
  Lecturas <- PlainReadings
  Politicas <- OnePolicy
  EstadosUnidad = {"EN_PATIO", "FUERA"}
  MinFotos = 0
  MaxFotos = 0
  NULL = NULL
  MaxDia = 2
  MaxVersion = 5
  MaxSolicitudes = 1
  MaxFallas = 1
INVARIANTS
  OneActiveCheck
PROPERTIES
  DailyCoverage
CHECK_DEADLOCK FALSE
