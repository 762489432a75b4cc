------------------------ MODULE FileSystemProperties ------------------------
(* What the filesystem of FileSystem.tla must keep true. *)
EXTENDS FileSystem, SequencesExt

Guardados == {c \in Conexiones : respuesta[c] = "OK"}   \* dumps answered OK
EnCurso   == {c \in Conexiones : Viva(c)}
Usados(c) == ToSet(indices[c])

EstadosHilo    == {"nueva", "lock", "asignar", "crear", "size", "vaciar", "index_block",
                   "indices", "datos", "unlock", "responder", "fin", "cortada"}
EstadosProceso == {"caido", "abrir_bitmap", "inicializar_archivos", "abrir_archivo_bloques",
                   "listo"}
Contenidos     == [de : Conexiones \cup {Nadie}, parte : Nat, fiel : BOOLEAN,
                   lista : Seq(Bloques)]
Metadatas      == [size : Nat \cup {-1}, index_block : Bloques \cup {-1}, existe : BOOLEAN]

TipoDisco ==
    /\ archivo_bitmap \in {"no existe", "vacio", "listo"}
    /\ archivo_bloques \in {"no existe", "vacio", "listo"}
    /\ bitmap \subseteq Bloques
    /\ bloques \in [Bloques -> Contenidos]
    /\ metadata \in [Nombres -> Metadatas]

TipoHilos ==
    /\ pc \in [Conexiones -> EstadosHilo]
    /\ datos_archivo \in [Conexiones -> Dumps \cup {SinDump}]
    /\ nombre_archivo \in [Conexiones -> Nombres \cup {SinNombre}]
    /\ indices \in [Conexiones -> Seq(Bloques)]
    /\ parte \in [Conexiones -> Nat]
    /\ respuesta \in [Conexiones -> {"NINGUNA", "OK", "ERROR"}]

TipoProceso ==
    /\ fs \in EstadosProceso
    /\ mutex_filesystem \in Conexiones \cup {Nadie}
    /\ reloj \in 0 .. MaxReloj /\ caidas \in Nat

\* The type of every variable.
TypeOK == TipoDisco /\ TipoHilos /\ TipoProceso

-----------------------------------------------------------------------------
\* Two dumps never get the same block, whatever process died between them: the
\* blocks of every dump, in progress, stored or cut short, are marked in the bitmap,
\* each for that dump alone.
SinCompartir ==
    \A c \in Conexiones :
       /\ Usados(c) \subseteq bitmap
       /\ IsInjective(indices[c])
       /\ \A d \in Conexiones \ {c} : Usados(c) \cap Usados(d) = {}

\* A dump that was answered OK keeps its blocks, as they were written, through
\* later dumps, crashes and restarts, with what was dumped up to its first NUL; and the
\* file of its name leads to its index block, which lists the first of them, unless another
\* dump of the same thread in the same second took the name.
DumpGuardado ==
    \A c \in Guardados :
       /\ \A k \in 1 .. datos_archivo[c].tamanio :
             LET b == bloques[indices[c][k+1]] IN
             b.de = c /\ b.parte = k /\ (k <= datos_archivo[c].texto => b.fiel)
       /\ bloques[indices[c][1]].de = c
       /\ IsPrefix(bloques[indices[c][1]].lista, BloquesDeDatos(c))
       /\ \/ metadata[nombre_archivo[c]] =
                [size |-> datos_archivo[c].tamanio, index_block |-> indices[c][1],
                 existe |-> TRUE]
          \/ \E d \in Conexiones \ {c} : nombre_archivo[d] = nombre_archivo[c]

\* A dump is refused only when the blocks it needs are not free.  (Blocks are never
\* given back, so it would be refused ever after.)
RechazoJusto ==
    \A c \in Conexiones : respuesta[c] = "ERROR" =>
       Cardinality(Libres) < datos_archivo[c].tamanio + 1

\* The room that was found is still there while the blocks are taken: the abort() of
\* asignar_bloques_bitmap is not reached ("esto no puede pasar").
EspacioReservado ==
    \A c \in Conexiones : pc[c] = "asignar" =>
       Cardinality(Libres) >= bloques_necesarios(c) - Len(indices[c])

\* What a crash costs: at most the blocks of the one dump that mutex_filesystem let in.
PerdidosPorCaida ==
    Cardinality(bitmap \ UNION {Usados(c) : c \in Guardados \cup EnCurso})
       <= caidas * (1 + Max({d.tamanio : d \in Dumps}))

\* Every dump received is answered, unless the process dies.
Respondido == \A c \in Conexiones : pc[c] = "lock" ~> pc[c] \in {"fin", "cortada"}

-----------------------------------------------------------------------------
\* A bitmap that exists was set up by an earlier run ("No se setea el bitmap, porque ya
\* fue utilizado en otra ejecucion", main.c:99): the process serves only with one.
BitmapUtilizado == fs = "listo" => archivo_bitmap = "listo"
=============================================================================
