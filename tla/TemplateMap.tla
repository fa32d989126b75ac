----------------------------- MODULE TemplateMap -----------------------------
(***************************************************************************)
(* TemplateMap: what the template storage promises the face engine.        *)
(*                                                                         *)
(* A user's enrolments are a map from face ids to templates that survives  *)
(* a crash.  The engine works on a copy of it: a template gets into the    *)
(* copy only once it is stored, leaves the store only by a deletion, and a *)
(* new session starts from exactly what is stored.  A write that was cut   *)
(* short leaves a broken face, which lasts until that session.             *)
(*                                                                         *)
(* Nothing is promised of the map once operations have overlapped.         *)
(***************************************************************************)
EXTENDS Naturals

CONSTANTS Faces, MaxSaves

VARIABLES
    stored,   \* the durable template of each face, 0 if none
    broken,   \* the faces whose file cannot be read
    cache,    \* the engine's copy
    up,       \* has the engine been given the enrolments since it started
    alone,    \* have all operations run one after the other
    saves     \* templates made so far

vars == <<stored, broken, cache, up, alone, saves>>

Init ==
    /\ stored = [f \in Faces |-> 0] /\ broken = {} /\ cache = [f \in Faces |-> 0]
    /\ up = FALSE /\ alone = TRUE /\ saves = 0

(* A template is made; it may come to nothing. *)
Make ==
    /\ up /\ saves < MaxSaves /\ saves' = saves + 1
    /\ UNCHANGED <<stored, broken, cache, up, alone>>

(* The newest template is stored, under an id that nobody has, or its file    *)
(* turns out broken.                                                       *)
Store(f) ==
    /\ saves > 0 /\ stored[f] = 0 /\ (\A g \in Faces : stored[g] # saves)
    /\ \/ stored' = [stored EXCEPT ![f] = saves] /\ UNCHANGED broken
       \/ broken' = broken \cup {f} /\ UNCHANGED stored
    /\ UNCHANGED <<cache, up, alone, saves>>

(* It is acknowledged, which a broken one is too. *)
Install(f) ==
    /\ stored[f] # 0 \/ f \in broken
    /\ cache' = [cache EXCEPT ![f] = IF f \in broken THEN saves ELSE stored[f]]
    /\ UNCHANGED <<stored, broken, up, alone, saves>>

Delete(f) ==
    /\ up /\ stored[f] # 0 /\ stored' = [stored EXCEPT ![f] = 0]
    /\ UNCHANGED <<broken, cache, up, alone, saves>>

(* A broken file is removed by a deletion or when a session is created. *)
Discard(f) ==
    /\ f \in broken /\ broken' = broken \ {f}
    /\ UNCHANGED <<stored, cache, up, alone, saves>>

Forget(f) ==
    /\ stored[f] = 0 /\ f \notin broken /\ cache' = [cache EXCEPT ![f] = 0]
    /\ UNCHANGED <<stored, broken, up, alone, saves>>

Restore ==
    /\ broken = {} /\ cache' = stored /\ up' = TRUE
    /\ UNCHANGED <<stored, broken, alone, saves>>

Crash ==
    /\ cache' = [f \in Faces |-> 0] /\ up' = FALSE
    /\ UNCHANGED <<stored, broken, alone, saves>>

Overlap ==
    /\ ~alone'
    /\ stored' \in [Faces -> 0..MaxSaves] /\ cache' \in [Faces -> 0..MaxSaves]
    /\ broken' \subseteq Faces /\ up' \in BOOLEAN /\ saves' \in saves..MaxSaves

Next ==
    \/ Overlap
    \/ alone /\ (Make \/ Restore \/ Crash)
    \/ alone /\ \E f \in Faces :
          Store(f) \/ Install(f) \/ Delete(f) \/ Discard(f) \/ Forget(f)

Spec == Init /\ [][Next]_vars
=============================================================================
