-------------------------- MODULE FileSystemProofs --------------------------
(* Theorems about the filesystem, for every value of the constants. *)
EXTENDS FileSystemProperties, FiniteSetTheorems, WellFoundedInduction, TLAPS

-----------------------------------------------------------------------------
(* Numbers, sequences and sets *)

LEMMA MinIsIn ==
  ASSUME NEW S, S \subseteq Nat, S # {}
  PROVE  Min(S) \in S
<1> DEFINE R == OpToRel(<, Nat)
<1>1. R = {p \in Nat \X Nat : p[1] < p[2]}
  BY Zenon DEF OpToRel
<1>2. IsWellFoundedOn(R, Nat)
  BY NatLessThanWellFounded
<1> HIDE DEF R
<1>3. PICK x \in S : \A y \in S : ~ (<<y, x>> \in R)
  BY <1>2, WFMin
<1>4. ASSUME NEW y \in S PROVE x <= y
  <2>1. x \in Nat /\ y \in Nat /\ <<y, x>> \notin {p \in Nat \X Nat : p[1] < p[2]}
    BY <1>1, <1>3
  <2> QED
    BY <2>1
<1> QED
  BY <1>4 DEF Min

LEMMA AppendFacts ==
  ASSUME NEW S, NEW s \in Seq(S), NEW x \in S, x \notin ToSet(s), IsInjective(s)
  PROVE  /\ Append(s, x) \in Seq(S) /\ Len(Append(s, x)) = Len(s) + 1
         /\ ToSet(Append(s, x)) = ToSet(s) \cup {x}
         /\ IsInjective(Append(s, x))
BY DEF ToSet, IsInjective

LEMMA MinDos ==
  ASSUME NEW n \in Nat \ {0}
  PROVE  Min({2, n}) \in 1 .. n /\ Min({2, n}) <= 2
<1>1. \E x \in {2, n} : \A y \in {2, n} : x <= y
  OBVIOUS
<1> QED
  BY <1>1 DEF Min

-----------------------------------------------------------------------------
(* The invariant: where each thread is and what it holds *)

Dentro == {"asignar", "crear", "size", "vaciar", "index_block", "indices", "datos", "unlock"}
ConSusBloques == Dentro \ {"asignar"}

\* A thread between the lock and the unlock holds mutex_filesystem; a dump has no block
\* before it, all of its blocks once they were taken, none if it was refused.
Fase(c) ==
    /\ pc[c] \in Dentro => mutex_filesystem = c
    /\ pc[c] \in Dentro \/ respuesta[c] = "OK" => nombre_archivo[c] \in Nombres
    /\ pc[c] # "nueva" => datos_archivo[c] \in Dumps
    /\ pc[c] \in {"nueva", "lock"} => indices[c] = <<>>
    /\ pc[c] \notin {"responder", "fin", "cortada"} => respuesta[c] = "NINGUNA"
    /\ pc[c] = "asignar" => Len(indices[c]) < bloques_necesarios(c)
    /\ pc[c] \in ConSusBloques \/ respuesta[c] = "OK"
          => Len(indices[c]) = bloques_necesarios(c)
    /\ pc[c] = "responder" => respuesta[c] # "NINGUNA"
    /\ respuesta[c] = "ERROR" => indices[c] = <<>>
    /\ pc[c] \in {"nueva", "lock"} \cup (Dentro \ {"datos", "unlock"}) => parte[c] = 1
    /\ pc[c] = "datos" => parte[c] \in 1 .. datos_archivo[c].tamanio

Fases == \A c \in Conexiones : Fase(c)

\* The bitmap is filled with zeros only before the first dump.
Arranque ==
    /\ fs = "abrir_bitmap" => archivo_bitmap # "listo"
    /\ archivo_bitmap # "listo" =>
          \A c \in Conexiones : indices[c] = <<>> /\ respuesta[c] # "ERROR"
                                /\ pc[c] \notin Dentro

Inv1 == TypeOK /\ Fases /\ Arranque

LEMMA Init1 == Init => Inv1
<1> SUFFICES ASSUME Init PROVE Inv1
  OBVIOUS
<1>1. EnBlanco \in Contenidos /\ NoExiste \in Metadatas
  BY DEF EnBlanco, Contenidos, NoExiste, Metadatas
<1>2. TypeOK
  <2>1. TipoDisco
    BY <1>1 DEF Init, TipoDisco
  <2>2. TipoHilos
    <3>1. <<>> \in Seq(Bloques) /\ 1 \in Nat
      OBVIOUS
    <3> QED
      BY <3>1, Zenon DEF Init, TipoHilos, EstadosHilo
  <2>3. TipoProceso
    <3>1. fs = "caido" /\ mutex_filesystem = Nadie /\ reloj = 0 /\ caidas = 0
      BY DEF Init
    <3> QED
      BY <3>1, CotasAssumption DEF TipoProceso, EstadosProceso
  <2> QED
    BY <2>1, <2>2, <2>3 DEF TypeOK
<1>3. Fases /\ Arranque
  BY DEF Init, Fases, Fase, Arranque, Dentro, ConSusBloques
<1> QED
  BY <1>2, <1>3 DEF Inv1

\* A step that leaves the variables of a thread alone leaves it in its phase.
LEMMA FaseIgual ==
  ASSUME NEW d \in Conexiones, Fase(d),
         pc'[d] = pc[d], datos_archivo'[d] = datos_archivo[d],
         nombre_archivo'[d] = nombre_archivo[d], indices'[d] = indices[d],
         parte'[d] = parte[d], respuesta'[d] = respuesta[d],
         mutex_filesystem' = mutex_filesystem \/ pc[d] \notin Dentro
  PROVE  Fase(d)'
BY DEF Fase, bloques_necesarios, Nombres

\* The size of a dump that was received.
LEMMA Medidas ==
  ASSUME NEW c \in Conexiones, datos_archivo[c] \in Dumps
  PROVE  /\ datos_archivo[c].tamanio \in Nat \ {0}
         /\ datos_archivo[c].texto \in 0 .. datos_archivo[c].tamanio
         /\ bloques_necesarios(c) = datos_archivo[c].tamanio + 1
BY DumpsAssumption DEF bloques_necesarios

\* The next block taken is one that was free.
LEMMA BloqueLibre ==
  ASSUME Libres # {}
  PROVE  Min(Libres) \in Bloques /\ Min(Libres) \notin bitmap
<1>1. Libres \subseteq Nat
  BY DumpsAssumption DEF Libres, Bloques
<1> QED
  BY <1>1, MinIsIn DEF Libres

\* Every step keeps the first part of the invariant.
LEMMA Next1 == Inv1 /\ [Next]_vars => Inv1'
<1> SUFFICES ASSUME Inv1, [Next]_vars PROVE Inv1'
  OBVIOUS
<1>t. /\ TipoDisco /\ TipoHilos /\ TipoProceso /\ Arranque /\ Fases
  BY DEF Inv1, TypeOK
<1>f. \A c \in Conexiones : Fase(c)
  BY <1>t DEF Fases
<1> USE DEF disco, hilos, entorno
<1> DEFINE Quietos == UNCHANGED <<hilos, mutex_filesystem>>
<1>q. ASSUME Quietos PROVE Fases' /\ TipoHilos'
  <2>1. TipoHilos'
    BY <1>t, <1>q DEF TipoHilos, Nombres
  <2>2. \A d \in Conexiones : Fase(d)'
    BY <1>f, <1>q, FaseIgual
  <2> QED
    BY <2>1, <2>2 DEF Fases
<1>1. CASE inicializar_archivos
  <2>1. Quietos /\ UNCHANGED entorno
    BY <1>1 DEF inicializar_archivos, AbrirBitmap, CrearBitmap, AbrirBloques, CrearBloques
  <2>2. TipoDisco' /\ TipoProceso'
    BY <1>1, <1>t DEF inicializar_archivos, AbrirBitmap, CrearBitmap, AbrirBloques,
       CrearBloques, TipoDisco, TipoProceso, EstadosProceso, Nombres
  <2>3. Arranque'
    BY <1>1, <1>t, <2>1 DEF inicializar_archivos, AbrirBitmap, CrearBitmap, AbrirBloques,
       CrearBloques, Arranque
  <2> QED
    BY <1>q, <2>1, <2>2, <2>3 DEF Inv1, TypeOK
<1>2. ASSUME Muere PROVE Inv1'
  <2>1. TipoDisco' /\ TipoProceso'
    <3>1. TipoDisco'
      BY <1>2, <1>t DEF Muere, TipoDisco
    <3>2. TipoProceso'
      BY <1>2, <1>t DEF Muere, TipoProceso, EstadosProceso
    <3> QED
      BY <3>1, <3>2
  <2>2. /\ pc' \in [Conexiones -> EstadosHilo]
        /\ \A d \in Conexiones : pc'[d] = IF Viva(d) THEN "cortada" ELSE pc[d]
    BY <1>2, <1>t DEF Muere, TipoHilos, EstadosHilo
  <2>3. TipoHilos'
    BY <1>2, <1>t, <2>2 DEF Muere, TipoHilos
  <2>4. \A d \in Conexiones : Fase(d)'
    BY <1>2, <1>f, <2>2 DEF Muere, Viva, Fase, Dentro, ConSusBloques, bloques_necesarios
  <2>5. Arranque'
    BY <1>2, <1>t, <2>2 DEF Muere, Viva, Arranque, Dentro
  <2> QED
    BY <2>1, <2>3, <2>4, <2>5 DEF Inv1, TypeOK, Fases
<1>3. CASE Caer
  BY <1>2, <1>3 DEF Caer
<1>4. CASE Tic
  <2>1. TipoDisco' /\ Arranque'
    BY <1>4, <1>t DEF Tic, TipoDisco, Arranque
  <2>2. TipoProceso'
    BY <1>4, <1>t, CotasAssumption DEF Tic, TipoProceso
  <2> QED
    BY <1>4, <1>q, <2>1, <2>2 DEF Tic, Inv1, TypeOK
<1>5. ASSUME NEW c \in Conexiones, RecibirDump(c) PROVE Inv1'
  <2>1. TipoDisco' /\ TipoProceso'
    BY <1>5, <1>t DEF RecibirDump, Va, TipoDisco, TipoProceso
  <2>2. TipoHilos'
    BY <1>5, <1>t DEF RecibirDump, Va, TipoHilos, EstadosHilo
  <2>3. pc'[c] = "lock" /\ datos_archivo'[c] \in Dumps
    BY <1>5, <1>t DEF RecibirDump, Va, TipoHilos
  <2>4. Fase(c)'
    BY <1>5, <1>f, <2>3 DEF RecibirDump, Va, Fase, Dentro, ConSusBloques
  <2>5. ASSUME NEW d \in Conexiones \ {c} PROVE Fase(d)'
    BY <1>5, <1>t, <1>f, FaseIgual DEF RecibirDump, Va, TipoHilos
  <2>6. Arranque'
    BY <1>5, <1>t DEF RecibirDump, Va, TipoHilos, Arranque, Dentro
  <2> QED
    BY <2>1, <2>2, <2>4, <2>5, <2>6 DEF Inv1, TypeOK, Fases
<1>6. ASSUME NEW c \in Conexiones, HayEspacio(c) PROVE Inv1'
  <2>1. datos_archivo[c] \in Dumps /\ pc[c] = "lock"
    BY <1>6, <1>f DEF HayEspacio, Va, Fase
  <2>2. <<datos_archivo[c].hilo, reloj>> \in Nombres
    BY <2>1, <1>t DEF Nombres, TipoProceso
  <2>3. TipoDisco' /\ TipoProceso'
    BY <1>6, <1>t DEF HayEspacio, Va, TipoDisco, TipoProceso
  <2>4. TipoHilos'
    BY <1>6, <1>t, <2>2 DEF HayEspacio, Va, TipoHilos, EstadosHilo
  <2>5. pc'[c] = "asignar" /\ mutex_filesystem' = c /\ nombre_archivo'[c] \in Nombres
    BY <1>6, <1>t, <2>2 DEF HayEspacio, Va, TipoHilos
  <2>6. Fase(c)'
    <3>1. bloques_necesarios(c)' > 0
      BY <1>6, <2>1, DumpsAssumption DEF HayEspacio, bloques_necesarios
    <3> QED
      BY <1>6, <1>f, <2>1, <2>5, <3>1 DEF HayEspacio, Va, Fase, Dentro, ConSusBloques, Nombres
  <2>7. ASSUME NEW d \in Conexiones \ {c} PROVE Fase(d)'
    <3>1. pc[d] \notin Dentro
      BY <1>6, <1>f, ConexionesAssumption DEF HayEspacio, Entra, Fase
    <3> QED
      BY <1>6, <1>t, <1>f, <3>1, FaseIgual DEF HayEspacio, Va, TipoHilos
  <2>8. Arranque'
    BY <1>6, <1>t DEF HayEspacio, Entra, Va, Arranque
  <2> QED
    BY <2>3, <2>4, <2>6, <2>7, <2>8 DEF Inv1, TypeOK, Fases
<1>7. ASSUME NEW c \in Conexiones, SinEspacio(c) PROVE Inv1'
  <2>1. TipoDisco' /\ TipoProceso'
    BY <1>7, <1>t DEF SinEspacio, Va, TipoDisco, TipoProceso
  <2>2. TipoHilos' /\ pc'[c] = "responder" /\ respuesta'[c] = "ERROR"
    BY <1>7, <1>t DEF SinEspacio, Va, TipoHilos, EstadosHilo
  <2>3. Fase(c)'
    BY <1>7, <1>f, <2>2 DEF SinEspacio, Va, Fase, Dentro, ConSusBloques
  <2>4. ASSUME NEW d \in Conexiones \ {c} PROVE Fase(d)'
    BY <1>7, <1>t, <1>f, FaseIgual DEF SinEspacio, Va, TipoHilos
  <2>5. Arranque'
    BY <1>7, <1>t DEF SinEspacio, Entra, Va, Arranque
  <2> QED
    BY <2>1, <2>2, <2>3, <2>4, <2>5 DEF Inv1, TypeOK, Fases
<1>8. ASSUME NEW c \in Conexiones, AsignarBloque(c) PROVE Inv1'
  <2>1. Min(Libres) \in Bloques
    BY <1>8, BloqueLibre DEF AsignarBloque
  <2>2. /\ indices' \in [Conexiones -> Seq(Bloques)]
        /\ Len(indices'[c]) = Len(indices[c]) + 1
        /\ \A d \in Conexiones \ {c} : indices'[d] = indices[d]
    BY <1>8, <1>t, <2>1 DEF AsignarBloque, TipoHilos
  <2>3. TipoDisco' /\ TipoProceso'
    BY <1>8, <1>t, <2>1 DEF AsignarBloque, Va, TipoDisco, TipoProceso
  <2>4. TipoHilos'
    BY <1>8, <1>t, <2>2 DEF AsignarBloque, Va, TipoHilos, EstadosHilo
  <2>5. pc'[c] = IF Len(indices'[c]) = bloques_necesarios(c) THEN "crear" ELSE "asignar"
    BY <1>8, <1>t DEF AsignarBloque, Va, TipoHilos
  <2>6. Fase(c)'
    <3>1. bloques_necesarios(c) \in Nat /\ bloques_necesarios(c)' = bloques_necesarios(c)
          /\ pc[c] = "asignar" /\ Len(indices[c]) \in Nat
      BY <1>8, <1>t, <1>f, Medidas DEF AsignarBloque, Fase, bloques_necesarios, TipoHilos
    <3> QED
      BY <1>8, <1>f, <2>2, <2>5, <3>1 DEF AsignarBloque, Fase, Dentro, ConSusBloques, Nombres
  <2>7. ASSUME NEW d \in Conexiones \ {c} PROVE Fase(d)'
    BY <1>8, <1>t, <1>f, <2>2, FaseIgual DEF AsignarBloque, Va, TipoHilos
  <2>8. Arranque'
    BY <1>8, <1>t DEF AsignarBloque, Arranque, Dentro
  <2> QED
    BY <2>3, <2>4, <2>6, <2>7, <2>8 DEF Inv1, TypeOK, Fases
<1>9. ASSUME NEW c \in Conexiones, crear_archivo_metadata(c) PROVE Inv1'
  <2>1. PICK desde \in ConSusBloques \ {"datos", "unlock"},
             hasta \in ConSusBloques \ {"datos", "unlock"}, m \in Metadatas :
                Metadata(c, desde, hasta, m)
    <3>1. CASE pc[c] \in ConSusBloques
      <4>1. datos_archivo[c] \in Dumps /\ Len(indices[c]) = bloques_necesarios(c)
            /\ indices[c] \in Seq(Bloques)
        BY <1>t, <1>f, <3>1 DEF Fase, ConSusBloques, Dentro, TipoHilos
      <4>2. datos_archivo[c].tamanio \in Nat /\ indices[c][1] \in Bloques
        BY <4>1, Medidas
      <4>3. /\ Vacia \in Metadatas
            /\ [Vacia EXCEPT !.size = datos_archivo[c].tamanio] \in Metadatas
            /\ [Vacia EXCEPT !.size = datos_archivo[c].tamanio,
                             !.index_block = indices[c][1]] \in Metadatas
        BY <4>2 DEF Vacia, NoExiste, Metadatas
      <4> QED
        BY <1>9, <4>3 DEF crear_archivo_metadata, CrearMetadata, GuardarSize,
           VaciarMetadata, GuardarIndexBlock, ConSusBloques, Dentro
    <3>2. CASE pc[c] \notin ConSusBloques
      BY <1>9, <3>2 DEF crear_archivo_metadata, CrearMetadata, GuardarSize,
           VaciarMetadata, GuardarIndexBlock, Metadata, Va, ConSusBloques, Dentro
    <3> QED
      BY <3>1, <3>2
  <2>2. TipoDisco' /\ TipoProceso'
    BY <2>1, <1>t DEF Metadata, Va, TipoDisco, TipoProceso
  <2>3. TipoHilos' /\ pc'[c] = hasta /\ pc[c] = desde
    BY <2>1, <1>t DEF Metadata, Va, TipoHilos, EstadosHilo, ConSusBloques, Dentro
  <2>4. Fase(c)'
    BY <2>1, <1>f, <2>3 DEF Metadata, Va, Fase, Dentro, ConSusBloques, bloques_necesarios, Nombres
  <2>5. ASSUME NEW d \in Conexiones \ {c} PROVE Fase(d)'
    BY <2>1, <1>t, <1>f, FaseIgual DEF Metadata, Va, TipoHilos
  <2>6. Arranque'
    BY <2>1, <2>3, <1>t DEF Metadata, Arranque, Dentro, ConSusBloques
  <2> QED
    BY <2>2, <2>3, <2>4, <2>5, <2>6 DEF Inv1, TypeOK, Fases
<1>10. ASSUME NEW c \in Conexiones, EscribirIndices(c) PROVE Inv1'
  <2>1. datos_archivo[c].tamanio \in Nat \ {0} /\ indices[c] \in Seq(Bloques)
        /\ Len(indices[c]) = datos_archivo[c].tamanio + 1 /\ pc[c] = "indices"
    BY <1>10, <1>t, <1>f, Medidas DEF EscribirIndices, Va, Fase, ConSusBloques, Dentro, TipoHilos
  <2>2. SubSeq(BloquesDeDatos(c), 1, Min({2, datos_archivo[c].tamanio})) \in Seq(Bloques)
    BY <2>1, MinDos DEF BloquesDeDatos
  <2>3. \E x \in Contenidos : bloques' = [bloques EXCEPT ![indices[c][1]] = x]
    BY <1>10, <2>2 DEF EscribirIndices, Contenidos
  <2>4. TipoDisco' /\ TipoProceso'
    BY <1>10, <1>t, <2>3 DEF EscribirIndices, Va, TipoDisco, TipoProceso
  <2>5. TipoHilos' /\ pc'[c] = "datos"
    BY <1>10, <1>t DEF EscribirIndices, Va, TipoHilos, EstadosHilo
  <2>6. Fase(c)'
    BY <1>10, <1>f, <2>1, <2>5
       DEF EscribirIndices, Fase, Dentro, ConSusBloques, bloques_necesarios, Nombres
  <2>7. ASSUME NEW d \in Conexiones \ {c} PROVE Fase(d)'
    BY <1>10, <1>t, <1>f, FaseIgual DEF EscribirIndices, Va, TipoHilos
  <2>8. Arranque'
    BY <1>10, <1>t, <2>1 DEF EscribirIndices, Arranque, Dentro
  <2> QED
    BY <2>4, <2>5, <2>6, <2>7, <2>8 DEF Inv1, TypeOK, Fases
<1>11. ASSUME NEW c \in Conexiones, EscribirBloque(c) PROVE Inv1'
  <2>1. datos_archivo[c].tamanio \in Nat \ {0} /\ parte[c] \in 1 .. datos_archivo[c].tamanio
        /\ pc[c] = "datos"
    BY <1>11, <1>f, Medidas DEF EscribirBloque, Va, Fase
  <2>2. \E x \in Contenidos : bloques' = [bloques EXCEPT ![base_bloque(c)] = x]
    <3>1. PICK fiel \in BOOLEAN :
             bloques' = [bloques EXCEPT ![base_bloque(c)] =
                           [de |-> c, parte |-> parte[c], fiel |-> fiel, lista |-> <<>>]]
      BY <1>11 DEF EscribirBloque
    <3>2. [de |-> c, parte |-> parte[c], fiel |-> fiel, lista |-> <<>>] \in Contenidos
      BY <2>1 DEF Contenidos
    <3> QED
      BY <3>1, <3>2
  <2>3. TipoDisco' /\ TipoProceso'
    BY <1>11, <1>t, <2>2 DEF EscribirBloque, Va, TipoDisco, TipoProceso
  <2>4. /\ TipoHilos' /\ parte'[c] = parte[c] + 1
        /\ pc'[c] = IF parte[c] = datos_archivo[c].tamanio THEN "unlock" ELSE "datos"
    BY <1>11, <1>t, <2>1 DEF EscribirBloque, Va, TipoHilos, EstadosHilo
  <2>5. Fase(c)'
    BY <1>11, <1>f, <2>1, <2>4
       DEF EscribirBloque, Fase, Dentro, ConSusBloques, bloques_necesarios, Nombres
  <2>6. ASSUME NEW d \in Conexiones \ {c} PROVE Fase(d)'
    BY <1>11, <1>t, <1>f, FaseIgual DEF EscribirBloque, Va, TipoHilos
  <2>7. Arranque'
    BY <1>11, <1>t, <2>1 DEF EscribirBloque, Arranque, Dentro
  <2> QED
    BY <2>3, <2>4, <2>5, <2>6, <2>7 DEF Inv1, TypeOK, Fases
<1>12. ASSUME NEW c \in Conexiones, Salir(c) PROVE Inv1'
  <2>1. TipoDisco' /\ TipoProceso'
    BY <1>12, <1>t DEF Salir, Va, TipoDisco, TipoProceso
  <2>2. TipoHilos' /\ pc'[c] = "responder" /\ pc[c] = "unlock" /\ respuesta'[c] = "OK"
    BY <1>12, <1>t DEF Salir, Va, TipoHilos, EstadosHilo
  <2>3. Fase(c)'
    BY <1>12, <1>f, <2>2 DEF Salir, Fase, Dentro, ConSusBloques, bloques_necesarios
  <2>4. ASSUME NEW d \in Conexiones \ {c} PROVE Fase(d)'
    <3>1. pc[d] \notin Dentro
      BY <1>f, <2>2 DEF Fase, Dentro
    <3> QED
      BY <1>12, <1>t, <1>f, <3>1, FaseIgual DEF Salir, Va, TipoHilos
  <2>5. Arranque'
    BY <1>12, <1>t, <2>2 DEF Salir, Arranque, Dentro
  <2> QED
    BY <2>1, <2>2, <2>3, <2>4, <2>5 DEF Inv1, TypeOK, Fases
<1>13. ASSUME NEW c \in Conexiones, Responder(c) PROVE Inv1'
  <2>1. TipoDisco' /\ TipoProceso'
    BY <1>13, <1>t DEF Responder, Va, TipoDisco, TipoProceso
  <2>2. TipoHilos' /\ pc'[c] = "fin" /\ pc[c] = "responder"
    BY <1>13, <1>t DEF Responder, Va, TipoHilos, EstadosHilo
  <2>3. Fase(c)'
    BY <1>13, <1>f, <2>2 DEF Responder, Fase, Dentro, ConSusBloques, bloques_necesarios
  <2>4. ASSUME NEW d \in Conexiones \ {c} PROVE Fase(d)'
    BY <1>13, <1>t, <1>f, FaseIgual DEF Responder, Va, TipoHilos
  <2>5. Arranque'
    BY <1>13, <1>t DEF Responder, Va, TipoHilos, Arranque, Dentro
  <2> QED
    BY <2>1, <2>2, <2>3, <2>4, <2>5 DEF Inv1, TypeOK, Fases
<1>14. ASSUME NEW c \in Conexiones, ErrorDeBus(c) PROVE Inv1'
  BY <1>2, <1>14 DEF ErrorDeBus
<1>15. CASE UNCHANGED vars
  <2>1. TipoDisco' /\ TipoProceso' /\ Arranque'
    BY <1>15, <1>t DEF vars, TipoDisco, TipoProceso, Arranque
  <2> QED
    BY <1>15, <1>q, <2>1 DEF vars, Inv1, TypeOK
<1> QED
  BY <1>1, <1>3, <1>4, <1>5, <1>6, <1>7, <1>8, <1>9, <1>10, <1>11, <1>12, <1>13, <1>14, <1>15
     DEF Next, Atender, ejecutar_memory_dump

-----------------------------------------------------------------------------
(* Who has which block *)

Inv2 == SinCompartir /\ EspacioReservado /\ RechazoJusto

LEMMA SinBloques ==
  ASSUME NEW c \in Conexiones, indices[c] = <<>>
  PROVE  Usados(c) = {} /\ IsInjective(indices[c])
BY DEF Usados, ToSet, IsInjective

LEMMA Init2 == Init => Inv2
<1> SUFFICES ASSUME Init PROVE Inv2
  OBVIOUS
<1>1. \A c \in Conexiones : indices[c] = <<>> /\ pc[c] = "nueva" /\ respuesta[c] = "NINGUNA"
  BY DEF Init
<1>2. SinCompartir
  BY <1>1, SinBloques DEF SinCompartir
<1> QED
  BY <1>1, <1>2 DEF Inv2, EspacioReservado, RechazoJusto

\* The set of free blocks can be counted, and a block that is taken is one less.
LEMMA Contar ==
  /\ IsFiniteSet(Libres) /\ Cardinality(Libres) \in Nat
  /\ \A b \in Libres : Cardinality(Libres \ {b}) = Cardinality(Libres) - 1
<1>1. IsFiniteSet(Bloques)
  BY DumpsAssumption, FS_Interval DEF Bloques
<1>2. IsFiniteSet(Libres)
  BY <1>1, FS_Difference DEF Libres
<1> QED
  BY <1>2, FS_CardinalityType, FS_RemoveElement

\* Steps that neither take a block nor set up the bitmap: who may start taking blocks and
\* who may be refused in one.
PasoSinBloques ==
    /\ UNCHANGED <<bitmap, indices>>
    /\ \A c \in Conexiones :
          /\ pc'[c] = "asignar" =>
                \/ pc[c] = "asignar" /\ datos_archivo'[c] = datos_archivo[c]
                \/ HayEspacio(c)
          /\ respuesta'[c] = "ERROR" =>
                \/ respuesta[c] = "ERROR" /\ datos_archivo'[c] = datos_archivo[c]
                \/ SinEspacio(c)

LEMMA Pasos ==
  ASSUME Inv1, [Next]_vars
  PROVE  CrearBitmap \/ (\E c \in Conexiones : AsignarBloque(c)) \/ PasoSinBloques
<1>t. TipoHilos /\ \A c \in Conexiones : Fase(c)
  BY DEF Inv1, TypeOK, Fases
<1> USE DEF disco, hilos, entorno
<1>1. CASE AbrirBitmap \/ AbrirBloques \/ CrearBloques \/ Tic \/ UNCHANGED vars
  BY <1>1 DEF AbrirBitmap, AbrirBloques, CrearBloques, Tic, vars, PasoSinBloques
<1>2. CASE Muere
  BY <1>2, <1>t DEF Muere, PasoSinBloques
<1>3. ASSUME NEW c \in Conexiones, RecibirDump(c) PROVE PasoSinBloques
  <2>1. respuesta'[c] = "NINGUNA" /\ pc'[c] = "lock"
    BY <1>3, <1>t DEF RecibirDump, Va, Fase, TipoHilos
  <2> QED
    BY <1>3, <1>t, <2>1 DEF RecibirDump, Va, TipoHilos, PasoSinBloques
<1>4. ASSUME NEW c \in Conexiones, HayEspacio(c) PROVE PasoSinBloques
  BY <1>4, <1>t DEF HayEspacio, Va, TipoHilos, PasoSinBloques
<1>5. ASSUME NEW c \in Conexiones, SinEspacio(c) PROVE PasoSinBloques
  BY <1>5, <1>t DEF SinEspacio, Va, TipoHilos, PasoSinBloques
<1>6. ASSUME NEW c \in Conexiones, crear_archivo_metadata(c) PROVE PasoSinBloques
  BY <1>6, <1>t DEF crear_archivo_metadata, CrearMetadata, GuardarSize, VaciarMetadata,
     GuardarIndexBlock, Metadata, Va, TipoHilos, PasoSinBloques
<1>7. ASSUME NEW c \in Conexiones, EscribirIndices(c) \/ EscribirBloque(c) PROVE PasoSinBloques
  BY <1>7, <1>t DEF EscribirIndices, EscribirBloque, Va, TipoHilos, PasoSinBloques
<1>8. ASSUME NEW c \in Conexiones, Salir(c) \/ Responder(c) PROVE PasoSinBloques
  BY <1>8, <1>t DEF Salir, Responder, Va, TipoHilos, PasoSinBloques
<1> QED
  BY <1>1, <1>2, <1>3, <1>4, <1>5, <1>6, <1>7, <1>8 DEF Next, inicializar_archivos, Caer,
     Atender, ejecutar_memory_dump, ErrorDeBus

LEMMA Next2 == Inv1 /\ Inv1' /\ Inv2 /\ [Next]_vars => Inv2'
<1> SUFFICES ASSUME Inv1, Inv1', Inv2, [Next]_vars PROVE Inv2'
  OBVIOUS
<1>t. /\ TipoHilos /\ bitmap \subseteq Bloques /\ Arranque
      /\ \A c \in Conexiones : Fase(c)
  BY DEF Inv1, TypeOK, Fases, TipoDisco
<1>c. Cardinality(Libres) \in Nat
  BY Contar
<1>1. CASE CrearBitmap
  <2>1. /\ archivo_bitmap # "listo"
        /\ indices' = indices /\ respuesta' = respuesta /\ pc' = pc
    BY <1>1, <1>t DEF CrearBitmap, hilos, Arranque
  <2>2. \A c \in Conexiones : indices'[c] = <<>> /\ respuesta'[c] # "ERROR" /\ pc'[c] # "asignar"
    BY <1>t, <2>1 DEF Arranque, Dentro
  <2>3. \A c \in Conexiones : Usados(c)' = {} /\ IsInjective(indices'[c])
    BY <2>2 DEF Usados, ToSet, IsInjective
  <2>4. SinCompartir'
    BY <2>3 DEF SinCompartir
  <2> QED
    BY <2>2, <2>4 DEF Inv2, EspacioReservado, RechazoJusto
<1>2. ASSUME NEW c \in Conexiones, AsignarBloque(c) PROVE Inv2'
  <2> DEFINE b == Min(Libres)
  <2>1. b \in Bloques /\ b \notin bitmap /\ bitmap' = bitmap \cup {b}
    BY <1>2, BloqueLibre DEF AsignarBloque
  <2>2. /\ indices[c] \in Seq(Bloques) /\ indices'[c] = Append(indices[c], b)
        /\ \A d \in Conexiones \ {c} : indices'[d] = indices[d]
    BY <1>2, <1>t DEF AsignarBloque, TipoHilos
  <2>3. IsInjective(indices[c]) /\ b \notin ToSet(indices[c])
    BY <2>1 DEF Inv2, SinCompartir, Usados
  <2>4. /\ IsInjective(indices'[c]) /\ Usados(c)' = Usados(c) \cup {b}
        /\ Len(indices'[c]) = Len(indices[c]) + 1
    BY <2>1, <2>2, <2>3, AppendFacts DEF Usados
  <2>5. \A d \in Conexiones \ {c} : Usados(d)' = Usados(d)
    BY <2>2 DEF Usados
  <2>6. SinCompartir'
    <3>1. \A d \in Conexiones : Usados(d) \subseteq bitmap /\ b \notin Usados(d)
      BY <2>1 DEF Inv2, SinCompartir
    <3>2. ASSUME NEW d \in Conexiones
          PROVE  Usados(d)' \subseteq bitmap' /\ IsInjective(indices'[d])
      BY <2>1, <2>2, <2>4, <2>5, <3>1 DEF Inv2, SinCompartir
    <3>3. ASSUME NEW d \in Conexiones, NEW e \in Conexiones \ {d}
          PROVE  Usados(d)' \cap Usados(e)' = {}
      <4>1. Usados(d) \cap Usados(e) = {} /\ b \notin Usados(d) /\ b \notin Usados(e)
        BY <3>1, <3>3 DEF Inv2, SinCompartir
      <4>2. \/ Usados(d)' = Usados(d) /\ Usados(e)' = Usados(e)
            \/ Usados(d)' = Usados(d) \cup {b} /\ Usados(e)' = Usados(e)
            \/ Usados(d)' = Usados(d) /\ Usados(e)' = Usados(e) \cup {b}
        BY <2>4, <2>5, <3>3
      <4> QED
        BY <4>1, <4>2
    <3> QED
      BY <3>2, <3>3 DEF SinCompartir
  <2>7. Libres' = Libres \ {b} /\ b \in Libres
    BY <2>1 DEF Libres, Bloques
  <2>8. Cardinality(Libres)' = Cardinality(Libres) - 1
    BY <2>7, Contar
  <2>9. EspacioReservado'
    <3> SUFFICES ASSUME NEW d \in Conexiones, pc'[d] = "asignar"
                 PROVE  Cardinality(Libres)' >= bloques_necesarios(d)' - Len(indices'[d])
      BY DEF EspacioReservado
    <3>1. d = c
      BY <1>2, <1>t DEF AsignarBloque, Va, TipoHilos, Fase, Dentro
    <3>2. bloques_necesarios(c)' = bloques_necesarios(c) /\ bloques_necesarios(c) \in Nat
      BY <1>2, <1>t, Medidas DEF AsignarBloque, hilos, Fase, bloques_necesarios
    <3>3. Cardinality(Libres) >= bloques_necesarios(c) - Len(indices[c]) /\ Len(indices[c]) \in Nat
      BY <1>2, <2>2 DEF Inv2, EspacioReservado, AsignarBloque
    <3> QED
      BY <1>c, <2>4, <2>8, <3>1, <3>2, <3>3
  <2>10. RechazoJusto'
    <3> SUFFICES ASSUME NEW d \in Conexiones, respuesta'[d] = "ERROR"
                 PROVE  Cardinality(Libres)' < datos_archivo'[d].tamanio + 1
      BY DEF RechazoJusto
    <3>1. respuesta[d] = "ERROR" /\ datos_archivo'[d] = datos_archivo[d]
      BY <1>2 DEF AsignarBloque
    <3>2. datos_archivo[d].tamanio \in Nat
      BY <1>t, <3>1, Medidas DEF Fase
    <3> QED
      BY <1>c, <2>8, <3>1, <3>2 DEF Inv2, RechazoJusto
  <2> QED
    BY <2>6, <2>9, <2>10 DEF Inv2
<1>3. CASE PasoSinBloques
  <2>1. SinCompartir' /\ Libres' = Libres
    BY <1>3 DEF PasoSinBloques, Inv2, SinCompartir, Usados, Libres, Bloques
  <2>2. EspacioReservado'
    <3> SUFFICES ASSUME NEW d \in Conexiones, pc'[d] = "asignar"
                 PROVE  Cardinality(Libres) >= bloques_necesarios(d)' - Len(indices[d])
      BY <1>3, <2>1 DEF EspacioReservado, PasoSinBloques
    <3>1. CASE pc[d] = "asignar" /\ datos_archivo'[d] = datos_archivo[d]
      BY <3>1 DEF Inv2, EspacioReservado, bloques_necesarios
    <3>2. CASE HayEspacio(d)
      <4>1. indices[d] = <<>> /\ bloques_necesarios(d)' = bloques_necesarios(d)
            /\ bloques_necesarios(d) \in Nat
        BY <3>2, <1>t, Medidas DEF HayEspacio, Va, Fase, bloques_necesarios
      <4> QED
        BY <3>2, <4>1 DEF HayEspacio, buscar_espacio_bitmap
    <3> QED
      BY <1>3, <3>1, <3>2 DEF PasoSinBloques
  <2>3. RechazoJusto'
    <3> SUFFICES ASSUME NEW d \in Conexiones, respuesta'[d] = "ERROR"
                 PROVE  Cardinality(Libres) < datos_archivo'[d].tamanio + 1
      BY <1>3, <2>1 DEF RechazoJusto, PasoSinBloques
    <3>1. CASE respuesta[d] = "ERROR" /\ datos_archivo'[d] = datos_archivo[d]
      BY <3>1 DEF Inv2, RechazoJusto
    <3>2. CASE SinEspacio(d)
      <4>1. datos_archivo'[d] = datos_archivo[d] /\ datos_archivo[d].tamanio \in Nat
        BY <3>2, <1>t, Medidas DEF SinEspacio, Va, Fase
      <4> QED
        BY <3>2, <4>1, <1>c DEF SinEspacio, buscar_espacio_bitmap, bloques_necesarios
    <3> QED
      BY <1>3, <3>1, <3>2 DEF PasoSinBloques
  <2> QED
    BY <2>1, <2>2, <2>3 DEF Inv2
<1> QED
  BY <1>1, <1>2, <1>3, Pasos

-----------------------------------------------------------------------------
(* What was written where *)

\* The k-th part of the dump of c is in its block; its index block; its file.
Parte(c, k) == LET b == bloques[indices[c][k+1]] IN
                  b.de = c /\ b.parte = k /\ (k <= datos_archivo[c].texto => b.fiel)
Indice(c)   == /\ bloques[indices[c][1]].de = c
               /\ IsPrefix(bloques[indices[c][1]].lista, BloquesDeDatos(c))
ConNombre(d) == pc[d] \notin {"nueva", "lock"}
EnSuArchivo(c) ==
    \/ metadata[nombre_archivo[c]] =
          [size |-> datos_archivo[c].tamanio, index_block |-> indices[c][1], existe |-> TRUE]
    \/ \E d \in Conexiones \ {c} : nombre_archivo[d] = nombre_archivo[c] /\ ConNombre(d)

\* A dump in progress has on disk what its thread has written so far.
Escrito(c) ==
    /\ pc[c] = "datos" => \A k \in 1 .. parte[c] - 1 : Parte(c, k)
    /\ pc[c] = "unlock" \/ respuesta[c] = "OK" =>
          \A k \in 1 .. datos_archivo[c].tamanio : Parte(c, k)
    /\ pc[c] \in {"datos", "unlock"} \/ respuesta[c] = "OK" => Indice(c)
    /\ pc[c] \in {"indices", "datos", "unlock"} \/ respuesta[c] = "OK" => EnSuArchivo(c)

Inv3 == \A c \in Conexiones : Escrito(c)

LEMMA Init3 == Init => Inv3
BY DEF Init, Inv3, Escrito

\* No step changes the name or the request of a thread once it has them, nor its blocks
\* once it has them all.
LEMMA LoSuyo ==
  ASSUME Inv1, [Next]_vars, NEW d \in Conexiones, ConNombre(d)
  PROVE  /\ ConNombre(d)' /\ nombre_archivo'[d] = nombre_archivo[d]
         /\ datos_archivo'[d] = datos_archivo[d]
         /\ pc[d] # "asignar" => indices'[d] = indices[d]
<1>t. TipoHilos
  BY DEF Inv1, TypeOK
<1> USE DEF disco, hilos, entorno, ConNombre
<1>1. CASE inicializar_archivos \/ Tic \/ UNCHANGED vars
  BY <1>1 DEF inicializar_archivos, AbrirBitmap, CrearBitmap, AbrirBloques, CrearBloques,
              Tic, vars
<1>2. CASE Muere
  BY <1>2, <1>t DEF Muere, TipoHilos
<1>3. ASSUME NEW c \in Conexiones, RecibirDump(c) \/ HayEspacio(c) \/ SinEspacio(c)
      PROVE  /\ ConNombre(d)' /\ nombre_archivo'[d] = nombre_archivo[d]
             /\ datos_archivo'[d] = datos_archivo[d] /\ indices'[d] = indices[d]
  BY <1>3, <1>t DEF RecibirDump, HayEspacio, SinEspacio, Va, TipoHilos
<1>4. ASSUME NEW c \in Conexiones, AsignarBloque(c)
      PROVE  /\ ConNombre(d)' /\ nombre_archivo'[d] = nombre_archivo[d]
             /\ datos_archivo'[d] = datos_archivo[d]
             /\ pc[d] # "asignar" => indices'[d] = indices[d]
  BY <1>4, <1>t DEF AsignarBloque, Va, TipoHilos
<1>5. ASSUME NEW c \in Conexiones, crear_archivo_metadata(c)
      PROVE  /\ ConNombre(d)' /\ nombre_archivo'[d] = nombre_archivo[d]
             /\ datos_archivo'[d] = datos_archivo[d] /\ indices'[d] = indices[d]
  BY <1>5, <1>t DEF crear_archivo_metadata, CrearMetadata, GuardarSize, VaciarMetadata,
                    GuardarIndexBlock, Metadata, Va, TipoHilos
<1>6. ASSUME NEW c \in Conexiones,
             EscribirIndices(c) \/ EscribirBloque(c) \/ Salir(c) \/ Responder(c)
      PROVE  /\ ConNombre(d)' /\ nombre_archivo'[d] = nombre_archivo[d]
             /\ datos_archivo'[d] = datos_archivo[d] /\ indices'[d] = indices[d]
  BY <1>6, <1>t DEF EscribirIndices, EscribirBloque, Salir, Responder, Va, TipoHilos
<1> QED
  BY <1>1, <1>2, <1>3, <1>4, <1>5, <1>6 DEF Next, Caer, Atender, ejecutar_memory_dump,
     ErrorDeBus

\* The file of a dump changes hands only to another dump of the same name.
LEMMA ArchivoIgual ==
  ASSUME Inv1, [Next]_vars, NEW c \in Conexiones, ConNombre(c), pc[c] # "asignar",
         EnSuArchivo(c),
         \/ metadata'[nombre_archivo[c]] = metadata[nombre_archivo[c]]
         \/ \E d \in Conexiones \ {c} : nombre_archivo[d] = nombre_archivo[c] /\ ConNombre(d)
  PROVE  EnSuArchivo(c)'
<1>1. /\ nombre_archivo'[c] = nombre_archivo[c] /\ datos_archivo'[c] = datos_archivo[c]
      /\ indices'[c] = indices[c]
  BY LoSuyo
<1>2. CASE \E d \in Conexiones \ {c} : nombre_archivo[d] = nombre_archivo[c] /\ ConNombre(d)
  BY <1>1, <1>2, LoSuyo DEF EnSuArchivo
<1>3. CASE ~ \E d \in Conexiones \ {c} : nombre_archivo[d] = nombre_archivo[c] /\ ConNombre(d)
  BY <1>1, <1>3 DEF EnSuArchivo
<1> QED
  BY <1>2, <1>3

\* A step that writes none of its blocks keeps what the dump wrote, wherever its thread goes
\* without having written more.
LEMMA EscritoIgual ==
  ASSUME Inv1, [Next]_vars, NEW c \in Conexiones, Escrito(c),
         pc'[c] \in {"indices", "datos", "unlock"} => pc'[c] = pc[c] /\ parte'[c] = parte[c],
         respuesta'[c] = "OK" => respuesta[c] = "OK" \/ pc[c] = "unlock",
         pc[c] \in ConSusBloques \/ respuesta[c] = "OK" =>
            \A i \in 1 .. Len(indices[c]) : bloques'[indices[c][i]] = bloques[indices[c][i]],
         pc[c] \in ConSusBloques \/ respuesta[c] = "OK" =>
            \/ metadata'[nombre_archivo[c]] = metadata[nombre_archivo[c]]
            \/ \E d \in Conexiones \ {c} : nombre_archivo[d] = nombre_archivo[c] /\ ConNombre(d)
  PROVE  Escrito(c)'
<1> DEFINE Activo == pc[c] \in {"indices", "datos", "unlock"} \/ respuesta[c] = "OK"
<1>f. Fase(c) /\ TipoHilos
  BY DEF Inv1, Fases, TypeOK
<1>1. CASE Activo
  <2>1. ConNombre(c) /\ pc[c] # "asignar" /\ datos_archivo[c] \in Dumps
        /\ Len(indices[c]) = bloques_necesarios(c)
    BY <1>1, <1>f DEF Fase, ConNombre, ConSusBloques, Dentro
  <2>2. /\ datos_archivo'[c] = datos_archivo[c] /\ indices'[c] = indices[c]
    BY <2>1, LoSuyo
  <2>3. datos_archivo[c].tamanio \in Nat \ {0} /\ Len(indices[c]) = datos_archivo[c].tamanio + 1
    BY <2>1, Medidas
  <2>4. \A i \in 1 .. Len(indices[c]) : bloques'[indices[c][i]] = bloques[indices[c][i]]
    BY <1>1 DEF ConSusBloques, Dentro
  <2>5. ASSUME NEW k \in 1 .. datos_archivo[c].tamanio, Parte(c, k) PROVE Parte(c, k)'
    <3>1. bloques'[indices[c][k+1]] = bloques[indices[c][k+1]]
      <4>1. k + 1 \in 1 .. Len(indices[c])
        BY <2>3
      <4> QED
        BY <2>4, <4>1
    <3> QED
      BY <2>2, <2>5, <3>1 DEF Parte
  <2>6. Indice(c) => Indice(c)'
    <3>1. bloques'[indices[c][1]] = bloques[indices[c][1]]
      BY <2>3, <2>4
    <3> QED
      BY <2>2, <3>1 DEF Indice, BloquesDeDatos
  <2>7. EnSuArchivo(c)'
    BY <1>1, <2>1, ArchivoIgual DEF Escrito, ConSusBloques, Dentro
  <2>8. pc'[c] = "datos" => \A k \in 1 .. parte'[c] - 1 : Parte(c, k)'
    BY <1>f, <2>3, <2>5 DEF Escrito, Fase
  <2>9. pc'[c] = "unlock" \/ respuesta'[c] = "OK" =>
           \A k \in 1 .. datos_archivo'[c].tamanio : Parte(c, k)'
    BY <2>2, <2>5 DEF Escrito
  <2>10. pc'[c] \in {"datos", "unlock"} \/ respuesta'[c] = "OK" => Indice(c)'
    BY <2>6 DEF Escrito
  <2> QED
    BY <2>7, <2>8, <2>9, <2>10 DEF Escrito
<1>2. CASE ~Activo
  BY <1>2 DEF Escrito
<1> QED
  BY <1>1, <1>2

\* No block has two owners, nor twice the same one.
LEMMA BloqueAjeno ==
  ASSUME Inv1, Inv2, NEW c \in Conexiones, NEW d \in Conexiones,
         NEW i \in 1 .. Len(indices[c]), NEW j \in 1 .. Len(indices[d]),
         c # d \/ i # j
  PROVE  indices[c][i] # indices[d][j] /\ indices[c][i] \in Bloques
<1>t. indices[c] \in Seq(Bloques) /\ indices[d] \in Seq(Bloques)
  BY DEF Inv1, TypeOK, TipoHilos
<1>1. indices[c][i] \in Usados(c) /\ indices[d][j] \in Usados(d)
  BY <1>t DEF Usados, ToSet
<1>2. CASE c # d
  <2>1. Usados(c) \cap Usados(d) = {}
    BY <1>2 DEF Inv2, SinCompartir
  <2> QED
    BY <1>t, <1>1, <2>1
<1>3. CASE c = d
  BY <1>t, <1>3 DEF Inv2, SinCompartir, IsInjective
<1> QED
  BY <1>t, <1>2, <1>3

\* Who is where when a thread writes in the filesystem.
LEMMA QuienEscribe ==
  ASSUME Inv1, NEW c \in Conexiones, pc[c] \in ConSusBloques
  PROVE  /\ datos_archivo[c] \in Dumps /\ datos_archivo[c].tamanio \in Nat \ {0}
         /\ indices[c] \in Seq(Bloques) /\ Len(indices[c]) = datos_archivo[c].tamanio + 1
         /\ nombre_archivo[c] \in Nombres /\ ConNombre(c) /\ respuesta[c] = "NINGUNA"
<1>1. datos_archivo[c] \in Dumps /\ Fase(c) /\ indices[c] \in Seq(Bloques)
  BY DEF Inv1, Fases, Fase, ConSusBloques, Dentro, TypeOK, TipoHilos
<1> QED
  BY <1>1, Medidas DEF Fase, ConSusBloques, Dentro, ConNombre

LEMMA Next3 == Inv1 /\ Inv2 /\ Inv3 /\ [Next]_vars => Inv3'
<1> SUFFICES ASSUME Inv1, Inv2, Inv3, [Next]_vars PROVE Inv3'
  OBVIOUS
<1>t. TipoHilos /\ TipoDisco
  BY DEF Inv1, TypeOK
<1>f. \A c \in Conexiones : Fase(c) /\ Escrito(c)
  BY DEF Inv1, Inv3, Fases
<1> USE DEF disco, hilos, entorno
\* steps that write nothing
<1> DEFINE Nada(d) ==
      /\ pc'[d] \in {"indices", "datos", "unlock"} => pc'[d] = pc[d] /\ parte'[d] = parte[d]
      /\ respuesta'[d] = "OK" => respuesta[d] = "OK" \/ pc[d] = "unlock"
<1>n. ASSUME UNCHANGED <<bloques, metadata>>, \A d \in Conexiones : Nada(d) PROVE Inv3'
  BY <1>n, <1>f, EscritoIgual DEF Inv3
<1>1. CASE inicializar_archivos \/ Tic \/ UNCHANGED vars
  BY <1>n, <1>1 DEF inicializar_archivos, AbrirBitmap, CrearBitmap, AbrirBloques,
                    CrearBloques, Tic, vars
<1>2. ASSUME Muere PROVE Inv3'
  BY <1>n, <1>t, <1>2 DEF Muere, TipoHilos
<1>3. ASSUME NEW c \in Conexiones,
             RecibirDump(c) \/ HayEspacio(c) \/ SinEspacio(c) \/ AsignarBloque(c)
      PROVE  Inv3'
  BY <1>n, <1>t, <1>3 DEF RecibirDump, HayEspacio, SinEspacio, AsignarBloque, Va, TipoHilos
<1>4. ASSUME NEW c \in Conexiones, Salir(c) \/ Responder(c) PROVE Inv3'
  BY <1>n, <1>t, <1>4 DEF Salir, Responder, Va, TipoHilos
\* the metadata file
<1>5. ASSUME NEW c \in Conexiones, crear_archivo_metadata(c) PROVE Inv3'
  <2>1. /\ pc[c] \in {"crear", "size", "vaciar", "index_block"}
        /\ pc' = [pc EXCEPT ![c] = pc'[c]]
        /\ pc'[c] \in {"size", "vaciar", "index_block", "indices"}
        /\ pc'[c] = "indices" => GuardarIndexBlock(c)
        /\ \A n \in Nombres \ {nombre_archivo[c]} : metadata'[n] = metadata[n]
        /\ UNCHANGED <<bloques, parte, respuesta>>
    BY <1>5, <1>t DEF crear_archivo_metadata, CrearMetadata, GuardarSize, VaciarMetadata,
                      GuardarIndexBlock, Metadata, Va, TipoHilos, TipoDisco
  <2>2. pc[c] \in ConSusBloques
    BY <2>1 DEF ConSusBloques, Dentro
  <2>3. respuesta[c] = "NINGUNA" /\ ConNombre(c) /\ nombre_archivo[c] \in Nombres
    BY <2>2, QuienEscribe
  <2>4. ASSUME NEW d \in Conexiones \ {c} PROVE Escrito(d)'
    <3>1. Nada(d)
      BY <1>t, <2>1 DEF TipoHilos
    <3>2. CASE nombre_archivo[d] \in Nombres
      BY <1>f, <2>1, <2>3, <3>1, <3>2, EscritoIgual
    <3>3. CASE nombre_archivo[d] \notin Nombres
      BY <1>f, <2>1, <3>1, <3>3, EscritoIgual DEF Fase, ConSusBloques
    <3> QED
      BY <3>2, <3>3
  <2>5. Escrito(c)'
    <3>1. ASSUME pc'[c] = "indices" PROVE EnSuArchivo(c)'
      <4>1. /\ nombre_archivo' = nombre_archivo /\ datos_archivo' = datos_archivo
            /\ indices' = indices
            /\ metadata'[nombre_archivo[c]] =
                  [Vacia EXCEPT !.size = datos_archivo[c].tamanio,
                                !.index_block = indices[c][1]]
        BY <2>1, <2>3, <3>1, <1>t DEF GuardarIndexBlock, Metadata, TipoDisco
      <4>2. metadata'[nombre_archivo[c]] =
               [size |-> datos_archivo[c].tamanio, index_block |-> indices[c][1],
                existe |-> TRUE]
        BY <4>1 DEF Vacia, NoExiste
      <4> QED
        BY <4>1, <4>2 DEF EnSuArchivo
    <3> QED
      BY <2>1, <2>3, <3>1 DEF Escrito
  <2> QED
    BY <2>4, <2>5 DEF Inv3
\* the index block
<1>6. ASSUME NEW c \in Conexiones, EscribirIndices(c) PROVE Inv3'
  <2> DEFINE n == datos_archivo[c].tamanio
             T == BloquesDeDatos(c)
             x == [de |-> c, parte |-> 0, fiel |-> TRUE, lista |-> SubSeq(T, 1, Min({2, n}))]
  <2>1. /\ pc[c] = "indices" /\ pc' = [pc EXCEPT ![c] = "datos"]
        /\ bloques' = [bloques EXCEPT ![indices[c][1]] = x]
        /\ UNCHANGED <<metadata, parte, respuesta, indices, datos_archivo, nombre_archivo>>
    BY <1>6 DEF EscribirIndices, Va
  <2>2. /\ n \in Nat \ {0} /\ indices[c] \in Seq(Bloques) /\ Len(indices[c]) = n + 1
        /\ respuesta[c] = "NINGUNA" /\ ConNombre(c) /\ parte[c] = 1
    BY <2>1, <1>f, QuienEscribe DEF ConSusBloques, Dentro, Fase
  <2>3. ASSUME NEW d \in Conexiones \ {c} PROVE Escrito(d)'
    <3>1. ASSUME NEW i \in 1 .. Len(indices[d])
          PROVE  bloques'[indices[d][i]] = bloques[indices[d][i]]
      <4>1. indices[d][i] # indices[c][1] /\ indices[d][i] \in Bloques
        BY <2>2, BloqueAjeno
      <4> QED
        BY <1>t, <2>1, <4>1 DEF TipoDisco
    <3> QED
      BY <1>f, <1>t, <2>1, <3>1, EscritoIgual DEF TipoHilos
  <2>4. Indice(c)'
    <3>1. T \in Seq(Bloques) /\ Len(T) = n /\ Min({2, n}) \in 1 .. n
      BY <2>2, MinDos DEF BloquesDeDatos
    <3>2. bloques'[indices[c][1]] = x
      <4>1. indices[c][1] \in Bloques
        BY <2>2
      <4> HIDE DEF x
      <4> QED
        BY <1>t, <2>1, <4>1 DEF TipoDisco
    <3>3. IsPrefix(SubSeq(T, 1, Min({2, n})), T)
      <4> HIDE DEF T, n
      <4>1. ASSUME NEW m \in 1 .. n
            PROVE  Len(SubSeq(T, 1, m)) = m /\ SubSeq(SubSeq(T, 1, m), 1, m) = SubSeq(T, 1, m)
        BY <2>2, <3>1
      <4>2. PICK m \in 1 .. n : m = Min({2, n})
        BY <3>1
      <4>3. Len(SubSeq(T, 1, m)) = m /\ SubSeq(SubSeq(T, 1, m), 1, m) = SubSeq(T, 1, m)
            /\ m <= Len(T)
        BY <2>2, <3>1, <4>1
      <4>4. IsPrefix(SubSeq(T, 1, m), T)
        BY <4>3 DEF IsPrefix
      <4> QED
        BY <4>2, <4>4
    <3>4. T' = T /\ x.de = c /\ x.lista = SubSeq(T, 1, Min({2, n}))
      BY <2>1 DEF BloquesDeDatos
    <3> QED
      BY <2>1, <3>2, <3>3, <3>4 DEF Indice
  <2>5. EnSuArchivo(c)'
    BY <1>f, <2>1, <2>2, ArchivoIgual DEF Escrito
  <2>6. pc'[c] = "datos" /\ parte'[c] = 1 /\ respuesta'[c] = "NINGUNA"
    BY <1>t, <2>1, <2>2 DEF TipoHilos
  <2>7. Escrito(c)'
    BY <2>4, <2>5, <2>6 DEF Escrito
  <2> QED
    BY <2>3, <2>7 DEF Inv3
\* a data block
<1>7. ASSUME NEW c \in Conexiones, EscribirBloque(c) PROVE Inv3'
  <2> DEFINE n == datos_archivo[c].tamanio
             k == parte[c]
  <2>1. PICK fiel \in BOOLEAN :
          /\ pc[c] = "datos" /\ pc' = [pc EXCEPT ![c] = IF k = n THEN "unlock" ELSE "datos"]
          /\ k <= datos_archivo[c].texto => fiel
          /\ bloques' = [bloques EXCEPT ![indices[c][k+1]] =
                           [de |-> c, parte |-> k, fiel |-> fiel, lista |-> <<>>]]
          /\ parte' = [parte EXCEPT ![c] = k + 1]
          /\ UNCHANGED <<metadata, respuesta, indices, datos_archivo, nombre_archivo>>
    BY <1>7 DEF EscribirBloque, Va, base_bloque
  <2>2. /\ n \in Nat \ {0} /\ indices[c] \in Seq(Bloques) /\ Len(indices[c]) = n + 1
        /\ respuesta[c] = "NINGUNA" /\ ConNombre(c) /\ k \in 1 .. n
    BY <2>1, <1>f, QuienEscribe DEF ConSusBloques, Dentro, Fase
  <2>3. k + 1 \in 1 .. Len(indices[c])
    BY <2>2
  <2>4. ASSUME NEW d \in Conexiones, NEW i \in 1 .. Len(indices[d]), d # c \/ i # k + 1
        PROVE  bloques'[indices[d][i]] = bloques[indices[d][i]]
    <3>1. indices[c][k+1] # indices[d][i]
      BY <2>3, <2>4, BloqueAjeno
    <3>2. indices[d][i] \in Bloques
      BY <2>2, <2>3, <2>4, BloqueAjeno
    <3> QED
      BY <1>t, <2>1, <3>1, <3>2 DEF TipoDisco
  <2>5. ASSUME NEW d \in Conexiones \ {c} PROVE Escrito(d)'
    <3>1. \A i \in 1 .. Len(indices[d]) : bloques'[indices[d][i]] = bloques[indices[d][i]]
      BY <2>4
    <3> QED
      BY <1>f, <1>t, <2>1, <3>1, EscritoIgual DEF TipoHilos
  <2>6. ASSUME NEW m \in 1 .. n, m = k PROVE Parte(c, m)'
    <3>1. indices[c][k+1] \in Bloques
      BY <2>2, <2>3
    <3>2. bloques'[indices[c][m+1]] = [de |-> c, parte |-> m, fiel |-> fiel, lista |-> <<>>]
      BY <1>t, <2>1, <2>6, <3>1 DEF TipoDisco
    <3>3. indices' = indices /\ datos_archivo' = datos_archivo
      BY <2>1
    <3> QED
      BY <2>1, <2>6, <3>2, <3>3 DEF Parte
  <2>7. ASSUME NEW m \in 1 .. k - 1 PROVE Parte(c, m)'
    <3>1. m + 1 \in 1 .. Len(indices[c]) /\ m + 1 # k + 1 /\ Parte(c, m)
      BY <1>f, <2>1, <2>2 DEF Escrito
    <3>2. bloques'[indices[c][m+1]] = bloques[indices[c][m+1]]
      BY <2>4, <3>1
    <3> QED
      BY <2>1, <3>1, <3>2 DEF Parte
  <2>8. Indice(c)'
    <3>1. 1 \in 1 .. Len(indices[c]) /\ 1 # k + 1
      BY <2>2
    <3>2. bloques'[indices[c][1]] = bloques[indices[c][1]]
      BY <2>4, <3>1
    <3> QED
      BY <1>f, <2>1, <3>2 DEF Escrito, Indice, BloquesDeDatos
  <2>9. EnSuArchivo(c)'
    BY <1>f, <2>1, <2>2, ArchivoIgual DEF Escrito
  <2>10. /\ pc'[c] = IF k = n THEN "unlock" ELSE "datos"
         /\ parte'[c] = k + 1 /\ respuesta'[c] = "NINGUNA"
    BY <1>t, <2>1, <2>2 DEF TipoHilos
  <2>11. ASSUME NEW m \in 1 .. k PROVE Parte(c, m)'
    <3>1. CASE m = k
      BY <2>2, <2>6, <3>1
    <3>2. CASE m # k
      <4>1. m \in 1 .. k - 1
        BY <2>2, <3>2
      <4> QED
        BY <2>7, <4>1
    <3> QED
      BY <3>1, <3>2
  <2>12. \A m \in 1 .. parte'[c] - 1 : Parte(c, m)'
    BY <2>2, <2>10, <2>11
  <2>13. pc'[c] = "unlock" => \A m \in 1 .. datos_archivo'[c].tamanio : Parte(c, m)'
    BY <2>1, <2>10, <2>11
  <2>14. Escrito(c)'
    BY <2>8, <2>9, <2>10, <2>12, <2>13 DEF Escrito
  <2> QED
    BY <2>5, <2>14 DEF Inv3
<1>8. ASSUME NEW c \in Conexiones, ErrorDeBus(c) PROVE Inv3'
  BY <1>2, <1>8 DEF ErrorDeBus
<1> QED
  BY <1>1, <1>2, <1>3, <1>4, <1>5, <1>6, <1>7, <1>8 DEF Next, Caer, Atender,
     ejecutar_memory_dump

-----------------------------------------------------------------------------
(* What a crash costs *)

LEMMA MaxIsIn ==
  ASSUME NEW S, IsFiniteSet(S), S \subseteq Nat, S # {}
  PROVE  Max(S) \in S /\ \A y \in S : y <= Max(S)
<1> DEFINE Mayores(x) == {y \in S : y > x}
           C == {Mayores(x) : x \in S}
           R == StrictSubsetOrdering(S)
<1>1. C \subseteq FiniteSubsetsOf(S) /\ C # {}
  <2>1. \A x \in S : Mayores(x) \in SUBSET S
    OBVIOUS
  <2>2. \A x \in S : IsFiniteSet(Mayores(x))
    BY <2>1, FS_Subset
  <2> QED
    BY <2>1, <2>2 DEF FiniteSubsetsOf
<1>2. PICK T \in C : \A U \in C : ~ (<<U, T>> \in R)
  <2> HIDE DEF C, R
  <2>1. IsWellFoundedOn(R, FiniteSubsetsOf(S))
    BY FS_StrictSubsetOrderingWellFounded DEF R
  <2> QED
    BY <1>1, <2>1, WFMin
<1>3. PICK x \in S : T = Mayores(x)
  BY <1>2
<1>4. ASSUME NEW y \in S PROVE y <= x
  <2> SUFFICES ASSUME y > x PROVE FALSE
    BY <1>3
  <2>1. Mayores(y) \subseteq T /\ y \in T /\ y \notin Mayores(y) /\ Mayores(y) \in C
    <3>1. x \in Nat /\ y \in Nat /\ \A z \in S : z \in Nat
      OBVIOUS
    <3>2. Mayores(y) \subseteq Mayores(x)
      <4>1. ASSUME NEW z \in S, z > y PROVE z > x
        BY <3>1, <4>1
      <4> QED
        BY <4>1
    <3>3. y \in Mayores(x) /\ y \notin Mayores(y)
      BY <3>1
    <3>4. Mayores(y) \in C
      OBVIOUS
    <3> QED
      BY <1>3, <3>2, <3>3, <3>4
  <2>2. <<Mayores(y), T>> \in R
    BY <2>1, <1>3 DEF StrictSubsetOrdering
  <2> QED
    BY <1>2, <2>1, <2>2
<1> QED
  BY <1>3, <1>4 DEF Max

Tamanos  == {d.tamanio : d \in Dumps}
Perdidos == {b \in bitmap : \A c \in Conexiones : respuesta[c] = "OK" \/ Viva(c)
                               => b \notin Usados(c)}

LEMMA MayorDump ==
  /\ Max(Tamanos) \in Nat
  /\ \A d \in Dumps : d.tamanio <= Max(Tamanos)
<1> DEFINE f == [e \in Dumps |-> e.tamanio]
<1>1. f \in Surjection(Dumps, Tamanos)
  BY DEF Surjection, Tamanos
<1>2. IsFiniteSet(Tamanos)
  BY <1>1, DumpsAssumption, FS_Surjection
<1>3. Tamanos \subseteq Nat /\ Tamanos # {} /\ \A d \in Dumps : d.tamanio \in Tamanos
  BY DumpsAssumption DEF Tamanos
<1> QED
  BY <1>2, <1>3, MaxIsIn

\* A dump has as many blocks as its list says.
LEMMA CuantosUsa ==
  ASSUME NEW c \in Conexiones, indices[c] \in Seq(Bloques)
  PROVE  IsFiniteSet(Usados(c)) /\ Cardinality(Usados(c)) <= Len(indices[c])
         /\ Cardinality(Usados(c)) \in Nat
<1>1. indices[c] \in Surjection(1 .. Len(indices[c]), Usados(c))
  BY DEF Surjection, Usados, ToSet
<1>2. IsFiniteSet(1 .. Len(indices[c])) /\ Cardinality(1 .. Len(indices[c])) = Len(indices[c])
  BY FS_Interval
<1> QED
  BY <1>1, <1>2, FS_Surjection, FS_CardinalityType

LEMMA PerdidosFinitos ==
  ASSUME NEW P, P \subseteq Bloques
  PROVE  IsFiniteSet(P) /\ Cardinality(P) \in Nat
<1>1. IsFiniteSet(Bloques)
  BY DumpsAssumption, FS_Interval DEF Bloques
<1> QED
  BY <1>1, FS_Subset, FS_CardinalityType

\* No step but a death loses a block.
LEMMA NadaSePierde ==
  ASSUME Inv1, [Next]_vars, ~Muere
  PROVE  Perdidos' \subseteq Perdidos /\ caidas' = caidas
<1>t. TipoHilos /\ \A c \in Conexiones : Fase(c)
  BY DEF Inv1, TypeOK, Fases
<1> USE DEF disco, hilos, entorno
<1>1. CASE AbrirBitmap \/ AbrirBloques \/ CrearBloques \/ Tic \/ UNCHANGED vars
  BY <1>1 DEF AbrirBitmap, AbrirBloques, CrearBloques, Tic, vars, Perdidos, Usados, Viva
<1>2. CASE CrearBitmap
  BY <1>2 DEF CrearBitmap, Perdidos
<1>3. ASSUME NEW c \in Conexiones, AsignarBloque(c)
      PROVE  Perdidos' \subseteq Perdidos /\ caidas' = caidas
  <2> DEFINE b == Min(Libres)
  <2>1. /\ bitmap' = bitmap \cup {b} /\ indices'[c] = Append(indices[c], b)
        /\ indices[c] \in Seq(Bloques)
        /\ \A d \in Conexiones \ {c} : indices'[d] = indices[d] /\ pc'[d] = pc[d]
        /\ pc[c] = "asignar" /\ pc'[c] \in {"asignar", "crear"}
        /\ respuesta' = respuesta /\ caidas' = caidas
    BY <1>3, <1>t DEF AsignarBloque, Va, TipoHilos
  <2>2. b \in Bloques
    BY <1>3, BloqueLibre DEF AsignarBloque
  <2>3. Usados(c)' = Usados(c) \cup {b} /\ Viva(c)'
    BY <2>1, <2>2 DEF Usados, ToSet, Viva
  <2>4. \A d \in Conexiones \ {c} : Usados(d)' = Usados(d) /\ Viva(d)' = Viva(d)
    BY <2>1 DEF Usados, Viva
  <2> QED
    BY <2>1, <2>3, <2>4 DEF Perdidos
<1>4. ASSUME UNCHANGED <<bitmap, indices, caidas>>,
             \A c \in Conexiones : /\ Viva(c) => Viva(c)' \/ respuesta'[c] = "OK"
                                                 \/ indices[c] = <<>>
                                   /\ respuesta[c] = "OK" => respuesta'[c] = "OK"
      PROVE  Perdidos' \subseteq Perdidos /\ caidas' = caidas
  <2>1. \A c \in Conexiones : indices[c] = <<>> => Usados(c) = {}
    BY SinBloques
  <2>2. \A c \in Conexiones : Usados(c)' = Usados(c)
    BY <1>4 DEF Usados
  <2> QED
    BY <1>4, <2>1, <2>2 DEF Perdidos
<1>5. ASSUME NEW c \in Conexiones, RecibirDump(c) \/ HayEspacio(c) \/ SinEspacio(c)
      PROVE  Perdidos' \subseteq Perdidos /\ caidas' = caidas
  BY <1>4, <1>5, <1>t DEF RecibirDump, HayEspacio, SinEspacio, Va, TipoHilos, Viva, Fase
<1>6. ASSUME NEW c \in Conexiones, crear_archivo_metadata(c)
      PROVE  Perdidos' \subseteq Perdidos /\ caidas' = caidas
  BY <1>4, <1>6, <1>t DEF crear_archivo_metadata, CrearMetadata, GuardarSize, VaciarMetadata,
     GuardarIndexBlock, Metadata, Va, TipoHilos, Viva
<1>7. ASSUME NEW c \in Conexiones, EscribirIndices(c) \/ EscribirBloque(c)
      PROVE  Perdidos' \subseteq Perdidos /\ caidas' = caidas
  BY <1>4, <1>7, <1>t DEF EscribirIndices, EscribirBloque, Va, TipoHilos, Viva
<1>8. ASSUME NEW c \in Conexiones, Salir(c) \/ Responder(c)
      PROVE  Perdidos' \subseteq Perdidos /\ caidas' = caidas
  BY <1>4, <1>8, <1>t DEF Salir, Responder, Va, TipoHilos, Viva, Fase
<1> QED
  BY <1>1, <1>2, <1>3, <1>5, <1>6, <1>7, <1>8 DEF Next, inicializar_archivos, Caer,
     Atender, ejecutar_memory_dump, ErrorDeBus

\* A death loses the blocks of the thread that holds mutex_filesystem, and no other.
LEMMA LoQueCuesta ==
  ASSUME Inv1, Muere
  PROVE  \/ Perdidos' \subseteq Perdidos
         \/ \E m \in Conexiones : pc[m] \in Dentro /\ Perdidos' \subseteq Perdidos \cup Usados(m)
<1>t. TipoHilos /\ \A c \in Conexiones : Fase(c)
  BY DEF Inv1, TypeOK, Fases
<1>1. bitmap' = bitmap /\ indices' = indices /\ respuesta' = respuesta
  BY DEF Muere, disco
<1>2. \A c \in Conexiones : Usados(c)' = Usados(c)
  BY <1>1 DEF Usados
<1>3. ASSUME NEW c \in Conexiones, Viva(c), respuesta[c] # "OK", pc[c] \notin Dentro
      PROVE  Usados(c) = {}
  <2>1. indices[c] = <<>>
    <3>1. pc[c] \in {"lock", "responder"}
      BY <1>t, <1>3 DEF Viva, TipoHilos, EstadosHilo, Dentro
    <3>2. pc[c] = "responder" => respuesta[c] = "ERROR"
      BY <1>t, <1>3 DEF Fase, TipoHilos
    <3> QED
      BY <1>t, <3>1, <3>2 DEF Fase
  <2> QED
    BY <2>1, SinBloques
<1>4. CASE \E m \in Conexiones : pc[m] \in Dentro
  <2>1. PICK m \in Conexiones : pc[m] \in Dentro
    BY <1>4
  <2>2. \A c \in Conexiones \ {m} : pc[c] \notin Dentro
    BY <1>t, <2>1 DEF Fase
  <2>3. Perdidos' \subseteq Perdidos \cup Usados(m)
    BY <1>1, <1>2, <1>3, <2>2 DEF Perdidos
  <2> QED
    BY <2>1, <2>3
<1>5. CASE ~ \E m \in Conexiones : pc[m] \in Dentro
  BY <1>1, <1>2, <1>3, <1>5 DEF Perdidos
<1> QED
  BY <1>4, <1>5

LEMMA Init4 == Init => PerdidosPorCaida
<1> SUFFICES ASSUME Init PROVE PerdidosPorCaida
  OBVIOUS
<1>1. bitmap \ UNION {Usados(c) : c \in Guardados \cup EnCurso} = {} /\ caidas = 0
  BY DEF Init
<1>2. Max(Tamanos) \in Nat
  BY MayorDump
<1> QED
  BY <1>1, <1>2, FS_EmptySet DEF PerdidosPorCaida, Tamanos

LEMMA Next4 == Inv1 /\ Inv1' /\ PerdidosPorCaida /\ [Next]_vars => PerdidosPorCaida'
<1> SUFFICES ASSUME Inv1, Inv1', PerdidosPorCaida, [Next]_vars PROVE PerdidosPorCaida'
  OBVIOUS
<1>t. caidas \in Nat /\ TipoHilos /\ \A c \in Conexiones : Fase(c)
  BY DEF Inv1, TypeOK, TipoProceso, Fases
<1>k. PICK K \in Nat : K = 1 + Max(Tamanos) /\ \A d \in Dumps : 1 + d.tamanio <= K
  BY MayorDump, DumpsAssumption
<1>c. /\ IsFiniteSet(Perdidos) /\ Cardinality(Perdidos) \in Nat
      /\ IsFiniteSet(Perdidos') /\ Cardinality(Perdidos') \in Nat
  <2>1. Perdidos \subseteq Bloques /\ Perdidos' \subseteq Bloques
    BY DEF Perdidos, Inv1, TypeOK, TipoDisco, Bloques
  <2> QED
    BY <2>1, PerdidosFinitos
<1>1. Cardinality(Perdidos) <= caidas * K
  <2>1. Perdidos = bitmap \ UNION {Usados(c) : c \in Guardados \cup EnCurso}
    BY DEF Perdidos, Guardados, EnCurso
  <2> QED
    BY <1>k, <2>1 DEF PerdidosPorCaida, Tamanos
<1>2. Perdidos' \subseteq Perdidos => Cardinality(Perdidos') <= Cardinality(Perdidos)
  BY <1>c, FS_Subset
<1>3. SUFFICES Cardinality(Perdidos') <= caidas' * K
  <2>1. Perdidos' = (bitmap \ UNION {Usados(c) : c \in Guardados \cup EnCurso})'
    BY DEF Perdidos, Guardados, EnCurso
  <2> QED
    BY <1>k, <2>1 DEF PerdidosPorCaida, Tamanos
<1>4. CASE ~Muere
  <2>1. Perdidos' \subseteq Perdidos /\ caidas' = caidas
    BY <1>4, NadaSePierde
  <2>2. caidas * K \in Nat /\ caidas' * K = caidas * K
    BY <1>t, <1>k, <2>1
  <2> QED
    BY <1>c, <1>1, <1>2, <2>1, <2>2
<1>5. CASE Muere
  <2>1. caidas' = caidas + 1 /\ caidas' * K = caidas * K + K /\ caidas * K \in Nat
    BY <1>5, <1>t, <1>k DEF Muere
  <2>2. CASE Perdidos' \subseteq Perdidos
    BY <1>c, <1>1, <1>2, <1>k, <2>1, <2>2
  <2>3. ASSUME NEW m \in Conexiones, pc[m] \in Dentro, Perdidos' \subseteq Perdidos \cup Usados(m)
        PROVE  Cardinality(Perdidos') <= caidas' * K
    <3>1. /\ datos_archivo[m] \in Dumps /\ indices[m] \in Seq(Bloques)
          /\ Len(indices[m]) <= bloques_necesarios(m)
      BY <1>t, <2>3, Medidas DEF Fase, Dentro, ConSusBloques, TipoHilos
    <3>2. /\ IsFiniteSet(Usados(m)) /\ Cardinality(Usados(m)) \in Nat
          /\ Cardinality(Usados(m)) <= Len(indices[m])
      BY <3>1, CuantosUsa
    <3>3. Cardinality(Usados(m)) <= K
      BY <1>k, <3>1, <3>2, Medidas
    <3>4. IsFiniteSet(Perdidos \cap Usados(m)) /\ Cardinality(Perdidos \cap Usados(m)) \in Nat
      BY <1>c, FS_Intersection, FS_CardinalityType
    <3>5. /\ IsFiniteSet(Perdidos \cup Usados(m))
          /\ Cardinality(Perdidos \cup Usados(m)) <= Cardinality(Perdidos) + Cardinality(Usados(m))
          /\ Cardinality(Perdidos \cup Usados(m)) \in Nat
      <4>1. /\ IsFiniteSet(Perdidos \cup Usados(m))
            /\ Cardinality(Perdidos \cup Usados(m)) =
                  Cardinality(Perdidos) + Cardinality(Usados(m))
                    - Cardinality(Perdidos \cap Usados(m))
        BY <1>c, <3>2, FS_Union
      <4>2. Cardinality(Perdidos \cup Usados(m)) \in Nat
        BY <4>1, FS_CardinalityType
      <4> QED
        BY <1>c, <3>2, <3>4, <4>1, <4>2
    <3>6. Cardinality(Perdidos') <= Cardinality(Perdidos \cup Usados(m))
      BY <2>3, <3>5, FS_Subset
    <3> QED
      BY <1>c, <1>1, <1>k, <2>1, <3>2, <3>3, <3>5, <3>6
  <2> QED
    BY <1>5, <2>2, <2>3, LoQueCuesta
<1> QED
  BY <1>4, <1>5

-----------------------------------------------------------------------------
(* The theorems *)

Inv == Inv1 /\ Inv2 /\ Inv3 /\ PerdidosPorCaida

LEMMA Invariante == Spec => []Inv
<1>1. Init => Inv
  BY Init1, Init2, Init3, Init4 DEF Inv
<1>2. Inv /\ [Next]_vars => Inv'
  BY Next1, Next2, Next3, Next4 DEF Inv
<1> QED
  BY <1>1, <1>2, PTL DEF Spec

\* Every variable keeps its type.
THEOREM Tipos == Spec => []TypeOK
<1>1. Inv => TypeOK
  BY DEF Inv, Inv1
<1> QED
  BY <1>1, Invariante, PTL

\* Whatever dies and starts again, two dumps never get the same block.
THEOREM NadieComparte == Spec => []SinCompartir
<1>1. Inv => SinCompartir
  BY DEF Inv, Inv2
<1> QED
  BY <1>1, Invariante, PTL

\* The room a dump was let in for is there until it has all of its blocks.
THEOREM HayLugar == Spec => []EspacioReservado
<1>1. Inv => EspacioReservado
  BY DEF Inv, Inv2
<1> QED
  BY <1>1, Invariante, PTL

\* A dump is refused only for want of blocks, and would be ever after.
THEOREM SoloPorEspacio == Spec => []RechazoJusto
<1>1. Inv => RechazoJusto
  BY DEF Inv, Inv2
<1> QED
  BY <1>1, Invariante, PTL

\* What was answered OK stays on disk as it was dumped, through other dumps, crashes and
\* restarts.
THEOREM SeConserva == Spec => []DumpGuardado
<1>1. Inv => DumpGuardado
  BY DEF Inv, Inv3, Escrito, Parte, Indice, EnSuArchivo, DumpGuardado, Guardados
<1> QED
  BY <1>1, Invariante, PTL

\* A crash costs at most the blocks of the one dump that mutex_filesystem let in.
THEOREM CostoDeCaer == Spec => []PerdidosPorCaida
<1>1. Inv => PerdidosPorCaida
  BY DEF Inv
<1> QED
  BY <1>1, Invariante, PTL
=============================================================================
