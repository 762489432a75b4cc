SPECIFICATION Spec
CONSTANTS
    block_count = 4
    Conexiones = {c1, c2}
    Hilos = {h1}
    Tamanios = {1}
    Dumps <- MCDumps
    Nadie = Nadie
    MaxReloj = 0
    MaxCaidas = 1
INVARIANTS BitmapUtilizado
CHECK_DEADLOCK FALSE
