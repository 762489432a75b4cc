----------------------------- MODULE FileSystem -----------------------------
(***************************************************************************)
(* The filesystem process: one thread per connection receives a memory     *)
(* dump, reserves blocks in the bitmap, writes a metadata file, an index   *)
(* block and data blocks, and answers.  The bitmap and the blocks are      *)
(* mapped files: like the metadata they outlive the process, which may die *)
(* between any two steps and be started again.                             *)
(*                                                                         *)
(* Sizes are counted in blocks, time in the seconds of a file name.        *)
(***************************************************************************)
EXTENDS Integers, Sequences, FiniteSets, FiniteSetsExt

CONSTANTS
    block_count,     \* filesystem_config->block_count
    Conexiones,      \* connections memoria opens, one dump each
    Dumps,           \* dumps it asks for: [hilo, tamanio, texto]
    Nadie,           \* no connection
    MaxReloj,        \* bound: seconds that pass
    MaxCaidas        \* bound: it is killed if it has died fewer times than this

\* texto: how many of the blocks of a dump end before the byte after its first NUL.
\* (memoria sends no dump of size 0.)
ASSUME DumpsAssumption ==
    /\ block_count \in Nat \ {0} /\ IsFiniteSet(Dumps) /\ Dumps # {}
    /\ \A d \in Dumps : d.tamanio \in Nat \ {0} /\ d.texto \in 0 .. d.tamanio
ASSUME ConexionesAssumption ==
    IsFiniteSet(Conexiones) /\ Nadie \notin Conexiones
ASSUME CotasAssumption == MaxReloj \in Nat /\ MaxCaidas \in Nat

VARIABLES
    archivo_bitmap, archivo_bloques,  \* "no existe", "vacio", "listo"
    bitmap,            \* the blocks whose bit is set
    bloques,           \* what each block holds
    metadata,          \* the metadata file of each name
    fs,                \* where the process is: "caido", starting, "listo"
    pc,                \* where the thread of each connection is
    datos_archivo,     \* the dump it received
    nombre_archivo, indices, parte,  \* locals of ejecutar_memory_dump
    respuesta,         \* what it sent
    mutex_filesystem,  \* the connection that holds it
    reloj, caidas      \* seconds that passed, times the process died

disco   == <<archivo_bitmap, archivo_bloques, bitmap, bloques, metadata>>
hilos   == <<pc, datos_archivo, nombre_archivo, indices, parte, respuesta>>
entorno == <<reloj, caidas>>
vars    == <<disco, fs, hilos, mutex_filesystem, entorno>>

NoExiste == [size |-> -1, index_block |-> -1, existe |-> FALSE]
Vacia    == [NoExiste EXCEPT !.existe = TRUE]
SinDump  == [hilo |-> Nadie, tamanio |-> 0, texto |-> 0]
SinNombre == <<Nadie, 0>>
EnBlanco == [de |-> Nadie, parte |-> 0, fiel |-> FALSE, lista |-> <<>>]
Nombres  == {d.hilo : d \in Dumps} \X (0 .. MaxReloj)
Bloques  == 0 .. block_count - 1

Init ==
    /\ archivo_bitmap = "no existe" /\ archivo_bloques = "no existe"
    /\ bitmap = {}
    /\ bloques = [b \in Bloques |-> EnBlanco]
    /\ metadata = [n \in Nombres |-> NoExiste]
    /\ fs = "caido"
    /\ pc = [c \in Conexiones |-> "nueva"]
    /\ datos_archivo = [c \in Conexiones |-> SinDump]
    /\ nombre_archivo = [c \in Conexiones |-> SinNombre]
    /\ indices = [c \in Conexiones |-> <<>>]
    /\ parte = [c \in Conexiones |-> 1]
    /\ respuesta = [c \in Conexiones |-> "NINGUNA"]
    /\ mutex_filesystem = Nadie
    /\ reloj = 0 /\ caidas = 0

-----------------------------------------------------------------------------
(* Starting: inicializar_archivos.  A file is created empty and then given *)
(* its size, full of zeros, in two system calls.                           *)

\* Mutation of AbrirBitmap: an existing bitmap is given its size again, all zeros.
AbrirSiempreNuevo ==
    /\ fs = "caido"
    /\ archivo_bitmap' = "vacio" /\ bitmap' = {} /\ fs' = "abrir_bitmap"
    /\ UNCHANGED <<archivo_bloques, bloques, metadata, hilos, mutex_filesystem, entorno>>

AbrirBitmap ==
    /\ fs = "caido"
    /\ IF archivo_bitmap = "no existe"
       THEN archivo_bitmap' = "vacio" /\ fs' = "abrir_bitmap"
       ELSE UNCHANGED archivo_bitmap /\ fs' = "inicializar_archivos"
    /\ UNCHANGED <<archivo_bloques, bitmap, bloques, metadata, hilos, mutex_filesystem,
                   entorno>>

\* ftruncate and setear_bitmap.
CrearBitmap ==
    /\ fs = "abrir_bitmap"
    /\ archivo_bitmap' = "listo" /\ bitmap' = {}
    /\ fs' = "inicializar_archivos"
    /\ UNCHANGED <<archivo_bloques, bloques, metadata, hilos, mutex_filesystem, entorno>>

AbrirBloques ==
    /\ fs = "inicializar_archivos"
    /\ IF archivo_bloques = "no existe"
       THEN archivo_bloques' = "vacio" /\ fs' = "abrir_archivo_bloques"
       ELSE UNCHANGED archivo_bloques /\ fs' = "listo"
    /\ UNCHANGED <<archivo_bitmap, bitmap, bloques, metadata, hilos, mutex_filesystem,
                   entorno>>

CrearBloques ==
    /\ fs = "abrir_archivo_bloques"
    /\ archivo_bloques' = "listo"
    /\ fs' = "listo"
    /\ UNCHANGED <<archivo_bitmap, bitmap, bloques, metadata, hilos, mutex_filesystem,
                   entorno>>

-----------------------------------------------------------------------------
(* One dump: process_connection of connection c *)

Va(c, desde, hasta) == fs = "listo" /\ pc[c] = desde /\ pc' = [pc EXCEPT ![c] = hasta]

\* memoria connects and its request is received and copied.
RecibirDump(c) ==
    /\ Va(c, "nueva", "lock")
    /\ \E d \in Dumps : datos_archivo' = [datos_archivo EXCEPT ![c] = d]
    /\ UNCHANGED <<disco, fs, nombre_archivo, indices, parte, respuesta, mutex_filesystem,
                   entorno>>

\* cantidad_bloques_libres: the clear bits.
Libres == Bloques \ bitmap

\* Mutation of bloques_necesarios: two blocks of indices.
un_bloque_de_mas(c) == datos_archivo[c].tamanio + 2

\* The data blocks and one block of indices.
bloques_necesarios(c) == datos_archivo[c].tamanio + 1

buscar_espacio_bitmap(n) == Cardinality(Libres) >= n

\* Mutation of Entra: nobody waits.
EntraSinEsperar(c) == fs = "listo" /\ archivo_bitmap = "listo"

\* mutex_filesystem is free and the bitmap can be read.  (mutex_bitmap is only taken
\* under mutex_filesystem, so nobody ever waits for it.)
Entra(c) == mutex_filesystem = Nadie /\ archivo_bitmap = "listo"

\* There is room: the file gets its name.
HayEspacio(c) ==
    /\ Va(c, "lock", "asignar") /\ Entra(c)
    /\ buscar_espacio_bitmap(bloques_necesarios(c))
    /\ mutex_filesystem' = c
    /\ nombre_archivo' = [nombre_archivo EXCEPT ![c] = <<datos_archivo[c].hilo, reloj>>]
    /\ UNCHANGED <<disco, fs, datos_archivo, indices, parte, respuesta, entorno>>

\* Mutation of SinEspacio: the error path keeps mutex_filesystem.
SinEspacioConMutex(c) ==
    /\ Va(c, "lock", "responder") /\ Entra(c)
    /\ ~buscar_espacio_bitmap(bloques_necesarios(c))
    /\ respuesta' = [respuesta EXCEPT ![c] = "ERROR"]
    /\ mutex_filesystem' = c
    /\ UNCHANGED <<disco, fs, datos_archivo, nombre_archivo, indices, parte, entorno>>

SinEspacio(c) ==
    /\ Va(c, "lock", "responder") /\ Entra(c)
    /\ ~buscar_espacio_bitmap(bloques_necesarios(c))
    /\ respuesta' = [respuesta EXCEPT ![c] = "ERROR"]
    /\ UNCHANGED <<disco, fs, datos_archivo, nombre_archivo, indices, parte,
                   mutex_filesystem, entorno>>

\* Mutation of AsignarBloque: the bit is not set.
AsignarSinMarcar(c) ==
    /\ pc[c] = "asignar" /\ Libres # {}
    /\ indices' = [indices EXCEPT ![c] = Append(@, Min(Libres))]
    /\ Va(c, "asignar", IF Len(indices'[c]) = bloques_necesarios(c) THEN "crear" ELSE "asignar")
    /\ UNCHANGED <<disco, fs, datos_archivo, nombre_archivo, parte, respuesta,
                   mutex_filesystem, entorno>>

\* asignar_bloques_bitmap, one block: the first one whose bit is clear.
AsignarBloque(c) ==
    /\ pc[c] = "asignar" /\ Libres # {}
    /\ bitmap' = bitmap \cup {Min(Libres)}
    /\ indices' = [indices EXCEPT ![c] = Append(@, Min(Libres))]
    /\ Va(c, "asignar", IF Len(indices'[c]) = bloques_necesarios(c) THEN "crear" ELSE "asignar")
    /\ UNCHANGED <<archivo_bitmap, archivo_bloques, bloques, metadata, fs, datos_archivo,
                   nombre_archivo, parte, respuesta, mutex_filesystem, entorno>>

\* crear_archivo_metadata: fopen empties the file; each key is saved by emptying
\* it and writing every key so far.
Metadata(c, desde, hasta, m) ==
    /\ Va(c, desde, hasta)
    /\ metadata' = [metadata EXCEPT ![nombre_archivo[c]] = m]
    /\ UNCHANGED <<archivo_bitmap, archivo_bloques, bitmap, bloques, fs, datos_archivo,
                   nombre_archivo, indices, parte, respuesta, mutex_filesystem, entorno>>

CrearMetadata(c)     == Metadata(c, "crear", "size", Vacia)
GuardarSize(c)       == Metadata(c, "size", "vaciar",
                                 [Vacia EXCEPT !.size = datos_archivo[c].tamanio])
VaciarMetadata(c)    == Metadata(c, "vaciar", "index_block", Vacia)
GuardarIndexBlock(c) == Metadata(c, "index_block", "indices",
                                 [Vacia EXCEPT !.size = datos_archivo[c].tamanio,
                                               !.index_block = indices[c][1]])

\* What the file's index block is to hold.
BloquesDeDatos(c) == Tail(indices[c])

\* sizeof(buffer_indices) is the size of a pointer: two indices are written (the
\* second one is not of the file when it has one data block, and is left out).
EscribirIndices(c) ==
    /\ Va(c, "indices", "datos") /\ archivo_bloques = "listo"
    /\ bloques' = [bloques EXCEPT ![indices[c][1]] =
                     [de |-> c, parte |-> 0, fiel |-> TRUE,
                      lista |-> SubSeq(BloquesDeDatos(c), 1,
                                       Min({2, datos_archivo[c].tamanio}))]]
    /\ UNCHANGED <<archivo_bitmap, archivo_bloques, bitmap, metadata, fs, datos_archivo,
                   nombre_archivo, indices, parte, respuesta, mutex_filesystem, entorno>>

\* Where the next data block goes.
base_bloque(c) == indices[c][parte[c] + 1]

\* buffer is a strdup of the dump: it ends at the first NUL, and what is read
\* after it is whatever lies there.
EscribirBloque(c) ==
    /\ Va(c, "datos", IF parte[c] = datos_archivo[c].tamanio THEN "unlock" ELSE "datos")
    /\ \E fiel \in BOOLEAN :
       /\ parte[c] <= datos_archivo[c].texto => fiel
       /\ bloques' = [bloques EXCEPT ![base_bloque(c)] =
                        [de |-> c, parte |-> parte[c], fiel |-> fiel, lista |-> <<>>]]
    /\ parte' = [parte EXCEPT ![c] = @ + 1]
    /\ UNCHANGED <<archivo_bitmap, archivo_bloques, bitmap, metadata, fs, datos_archivo,
                   nombre_archivo, indices, respuesta, mutex_filesystem, entorno>>

Salir(c) ==
    /\ Va(c, "unlock", "responder")
    /\ mutex_filesystem' = Nadie
    /\ respuesta' = [respuesta EXCEPT ![c] = "OK"]
    /\ UNCHANGED <<disco, fs, datos_archivo, nombre_archivo, indices, parte, entorno>>

Responder(c) ==
    /\ Va(c, "responder", "fin")
    /\ UNCHANGED <<disco, fs, datos_archivo, nombre_archivo, indices, parte, respuesta,
                   mutex_filesystem, entorno>>

-----------------------------------------------------------------------------
(* What happens to the process *)

Viva(c) == pc[c] \notin {"nueva", "fin", "cortada"}

\* The process dies, whatever it was doing, and its connections with it.
Muere ==
    /\ fs' = "caido" /\ mutex_filesystem' = Nadie
    /\ pc' = [c \in Conexiones |-> IF Viva(c) THEN "cortada" ELSE pc[c]]
    /\ caidas' = caidas + 1
    /\ UNCHANGED <<disco, datos_archivo, nombre_archivo, indices, parte, respuesta, reloj>>

Caer == fs # "caido" /\ caidas < MaxCaidas /\ Muere

\* The mapped file is shorter than what is read or written: SIGBUS.
ErrorDeBus(c) ==
    /\ fs = "listo"
    /\ \/ pc[c] = "lock" /\ mutex_filesystem = Nadie /\ archivo_bitmap # "listo"
       \/ pc[c] = "indices" /\ archivo_bloques # "listo"
    /\ Muere

Tic ==
    /\ reloj < MaxReloj
    /\ reloj' = reloj + 1
    /\ UNCHANGED <<disco, fs, hilos, mutex_filesystem, caidas>>

-----------------------------------------------------------------------------
inicializar_archivos == AbrirBitmap \/ CrearBitmap \/ AbrirBloques \/ CrearBloques
crear_archivo_metadata(c) == \/ CrearMetadata(c) \/ GuardarSize(c) \/ VaciarMetadata(c)
                             \/ GuardarIndexBlock(c)
ejecutar_memory_dump(c) == \/ HayEspacio(c) \/ SinEspacio(c) \/ AsignarBloque(c)
                           \/ crear_archivo_metadata(c) \/ EscribirIndices(c)
                           \/ EscribirBloque(c)
\* what a thread does once it has its request
Atender(c) == ejecutar_memory_dump(c) \/ Salir(c) \/ Responder(c) \/ ErrorDeBus(c)

Next ==
    \/ inicializar_archivos \/ Caer \/ Tic
    \/ \E c \in Conexiones : RecibirDump(c) \/ Atender(c)

Spec == Init /\ [][Next]_vars

\* Every thread of the process runs.
FairSpec == Spec /\ \A c \in Conexiones : WF_vars(Atender(c))
=============================================================================
