--------------------------- MODULE ProcesadorVirtual ---------------------------
(***************************************************************************)
(* What the cpu, memoria's contexts and the kernel's dispatches promise    *)
(* together: each thread has registers of its own, which start at 0, which *)
(* only the thread's instructions write, one after the other, and which    *)
(* are gone when it ends.                                                  *)
(***************************************************************************)
EXTENDS Integers

CONSTANTS Hilos, M, SinContexto

VARIABLE registros      \* instructions each thread's registers have gone through, modulo M

Init == registros = [t \in Hilos |-> SinContexto]

Crear(t)    == registros[t] = SinContexto /\ registros' = [registros EXCEPT ![t] = 0]
Ejecutar(t) == registros[t] # SinContexto
               /\ registros' = [registros EXCEPT ![t] = (@ + 1) % M]
Terminar(S) == /\ \A t \in S : registros[t] # SinContexto
               /\ registros' = [t \in Hilos |-> IF t \in S THEN SinContexto ELSE registros[t]]

Next == \/ \E t \in Hilos : Crear(t) \/ Ejecutar(t)
        \/ \E S \in SUBSET Hilos : Terminar(S)
Spec == Init /\ [][Next]_registros
=============================================================================
