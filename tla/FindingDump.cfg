SPECIFICATION Spec
CONSTANTS
    Hilos <- MCHilos
    Vacios = {}
    Cargas = {{0, 1}}
    Particiones = 1
    MaxDumps = 2
INVARIANTS RespuestaRecibida
CHECK_DEADLOCK FALSE
