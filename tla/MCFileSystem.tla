---------------------------- MODULE MCFileSystem ----------------------------
(* Small filesystems, and dumps that compete for their blocks. *)
EXTENDS FileSystemProperties

CONSTANTS Hilos, Tamanios

\* Dumps without a NUL before their last byte.
MCDumps == {[hilo |-> h, tamanio |-> n, texto |-> n] : h \in Hilos, n \in Tamanios}

\* Dumps with a NUL anywhere.
MCDumpsConNul ==
    {d \in [hilo : Hilos, tamanio : Tamanios, texto : 0 .. 3] : d.texto <= d.tamanio}
=============================================================================
