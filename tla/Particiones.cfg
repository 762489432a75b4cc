SPECIFICATION Spec
CONSTANTS
    Pids = {0, 1, 2, 3}
    Tamanios = {0, 1, 2}
    Configuraciones <- MCConfiguraciones
INVARIANTS TypeOK Teselado SinFragmentos ProcesosEnParticiones DuenioUnico
PROPERTIES ImplementaMemoria
