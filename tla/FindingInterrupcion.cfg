SPECIFICATION Spec
CONSTANTS
    Hilos <- MCHilos
    Lugares <- MCLugares
    W = 16
    Direcciones = {2, 3, 12}
    Valores = {15}
    Algorithm = "CMN"
    MaxDespachos = 3
    M = 3
INVARIANTS InterrupcionNoPerdida
CHECK_DEADLOCK FALSE
