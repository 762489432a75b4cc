SPECIFICATION FairSpec
CONSTANTS
    block_count = 5
    Conexiones = {c1, c2, c3}
    Hilos = {h1}
    Tamanios = {1, 2}
    Dumps <- MCDumps
    Nadie = Nadie
    MaxReloj = 1
    MaxCaidas = 1
INVARIANTS SinCompartir DumpGuardado RechazoJusto EspacioReservado PerdidosPorCaida
PROPERTIES Respondido
CHECK_DEADLOCK FALSE
