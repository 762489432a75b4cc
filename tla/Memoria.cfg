SPECIFICATION FairSpec
CONSTANTS
    Hilos <- MCHilosPermisos
    Vacios = {2}
    Cargas = {{0, 1}, {2}}
    Particiones = 1
    MaxDumps = 2
INVARIANTS PedidosEncuentran SoloPierdenLoTerminado Acuerdo RespuestaPropia
PROPERTIES DumpRespondido PedidoRespondido
CHECK_DEADLOCK FALSE
