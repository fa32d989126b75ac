------------------------- MODULE TemplateStoreProofs -------------------------
(***************************************************************************)
(* Proofs about TemplateStore: its type invariant, and that a template's    *)
(* own files are never torn unless a write was cut short - for any number   *)
(* of faces, saves and crashes, with all three operations overlapping.      *)
(***************************************************************************)
EXTENDS TemplateStore, TLAPS

(* The contents a file is given are contents. *)
LEMMA ContentsFacts ==
    ASSUME NEW t \in 0..MaxSaves
    PROVE  /\ {NoFile, Torn, Outdated, Whole(t)} \subseteq Contents
           /\ Whole(t) # Torn /\ NoFile # Torn /\ Outdated # Torn
BY BoundsAssumption DEF BoundsAssumption, NoFile, Torn, Outdated, Whole, Contents

(* Replacing a file keeps the directory's type. *)
LEMMA PutType ==
    ASSUME TypeOK, NEW f \in Faces, NEW s \in Slots, NEW c \in Contents, Put(f, s, c)
    PROVE  disk' \in [Faces \X Slots -> Contents]
BY DEF TypeOK, Put

LEMMA RemoveType ==
    ASSUME TypeOK, NEW f \in Faces, NEW s \in Slots, Remove(f, s)
    PROVE  disk' \in [Faces \X Slots -> Contents]
<1>1. NoFile \in Contents
    BY BoundsAssumption DEF BoundsAssumption, NoFile, Contents
<1> QED
    BY <1>1, PutType DEF Remove

LEMMA IdleTypes ==
    /\ NoSave \in [pc : {"idle", "sign", "encrypt", "open", "write", "rename",
                         "removeStale", "install"},
                   face : Faces, slot : {"dat", "plain"}, tmpl : 0..MaxSaves]
    /\ NoLoad \in [pc : {"idle", "scan", "readDat", "readPlain", "clean", "install"},
                   due : SUBSET (Faces \X Slots), face : Faces, slot : Slots,
                   loaded : [Faces -> {c \in Contents : c.kind \in {"none", "whole"}}]]
    /\ NoDelete \in [pc : {"idle", "dat", "plain", "count", "wipe", "erase"}, face : Faces]
<1>1. 1 \in Faces /\ 0 \in 0..MaxSaves
    BY BoundsAssumption DEF BoundsAssumption, Faces
<1>2. NoFile \in {c \in Contents : c.kind \in {"none", "whole"}}
    BY <1>1 DEF NoFile, Contents
<1> QED
    BY <1>1, <1>2 DEF NoSave, NoLoad, NoDelete, Slots

LEMMA InitType == Init => TypeOK
<1> SUFFICES ASSUME Init PROVE TypeOK
    OBVIOUS
<1>1. 0 \in 0..MaxSaves /\ 0 \in 0..MaxCrashes
    BY BoundsAssumption DEF BoundsAssumption
<1>2. NoFile \in Contents /\ Outdated \in Contents
    BY <1>1 DEF NoFile, Outdated, Contents
<1>3. disk \in [Faces \X Slots -> Contents]
    BY <1>2 DEF Init
<1> QED
    BY <1>1, <1>3, IdleTypes DEF Init, TypeOK

(* The steps of a save. *)
LEMMA SaveType ==
    ASSUME TypeOK,
           \/ \E f \in Faces : SaveBegin(f)
           \/ SaveSign \/ SaveEncrypt \/ SaveOpen \/ SaveWrite \/ SaveRename
           \/ SaveRemoveStale \/ SaveInstall
    PROVE  TypeOK'
<1> DEFINE Saves == [pc : {"idle", "sign", "encrypt", "open", "write", "rename",
                           "removeStale", "install"},
                     face : Faces, slot : {"dat", "plain"}, tmpl : 0..MaxSaves]
<1>1. save \in Saves /\ NoSave \in Saves /\ saves \in 0..MaxSaves
    BY IdleTypes DEF TypeOK
<1>2. /\ save.face \in Faces /\ save.slot \in Slots /\ save.tmpl \in 0..MaxSaves
      /\ Temp(save.slot) \in Slots /\ Other(save.slot) \in Slots
    BY <1>1 DEF Slots, Temp, Other
<1>3. ASSUME NEW f \in Faces, SaveBegin(f)
      PROVE  TypeOK'
    <2>1. saves + 1 \in 0..MaxSaves
        BY <1>1, <1>3, BoundsAssumption DEF BoundsAssumption, SaveBegin
    <2>2. save' \in Saves
        BY <1>3, <2>1 DEF SaveBegin
    <2> QED
        BY <1>3, <2>1, <2>2 DEF SaveBegin, Overlaps, TypeOK
<1>4. CASE SaveSign
    <2>1. save' \in Saves
        BY <1>1, <1>4 DEF SaveSign
    <2> QED
        BY <1>4, <2>1 DEF SaveSign, TypeOK
<1>5. CASE SaveEncrypt
    <2>1. save' \in Saves
        BY <1>1, <1>5 DEF SaveEncrypt
    <2> QED
        BY <1>5, <2>1 DEF SaveEncrypt, TypeOK
<1>6. CASE SaveOpen
    <2>1. save' \in Saves
        BY <1>1, <1>6 DEF SaveOpen
    <2>2. disk' \in [Faces \X Slots -> Contents]
        BY <1>2, <1>6, ContentsFacts, PutType DEF SaveOpen, TypeOK
    <2> QED
        BY <1>6, <2>1, <2>2 DEF SaveOpen, TypeOK
<1>7. CASE SaveWrite
    <2>1. save' \in Saves
        BY <1>1, <1>7 DEF SaveWrite
    <2>2. disk' \in [Faces \X Slots -> Contents]
        BY <1>2, <1>7, ContentsFacts, PutType DEF SaveWrite, TypeOK
    <2> QED
        BY <1>7, <2>1, <2>2 DEF SaveWrite, TypeOK
<1>8. CASE SaveRename
    <2>1. save' \in Saves
        BY <1>1, <1>8 DEF SaveRename
    <2>2. disk' \in [Faces \X Slots -> Contents]
        <3>1. disk \in [Faces \X Slots -> Contents] /\ NoFile \in Contents
            BY <1>2, ContentsFacts DEF TypeOK
        <3> QED
            BY <1>2, <1>8, <3>1 DEF SaveRename
    <2> QED
        BY <1>8, <2>1, <2>2 DEF SaveRename, TypeOK
<1>9. CASE SaveRemoveStale
    <2>1. save' \in Saves
        BY <1>1, <1>9 DEF SaveRemoveStale
    <2>2. disk' \in [Faces \X Slots -> Contents]
        BY <1>2, <1>9, RemoveType DEF SaveRemoveStale
    <2> QED
        BY <1>9, <2>1, <2>2 DEF SaveRemoveStale, TypeOK
<1>10. CASE SaveInstall
    <2>1. save' \in Saves
        BY <1>1, <1>10 DEF SaveInstall
    <2>2. cache' \in [Faces -> 0..MaxSaves]
        BY <1>2, <1>10 DEF SaveInstall, TypeOK
    <2> QED
        BY <1>10, <2>1, <2>2 DEF SaveInstall, TypeOK
<1> QED
    BY <1>3, <1>4, <1>5, <1>6, <1>7, <1>8, <1>9, <1>10

(* The steps of a restore: only whole templates are accepted. *)
LEMMA RestoreType ==
    ASSUME TypeOK,
           \/ RestoreBegin \/ \E f \in Faces, s \in Slots : RestoreEntry(f, s)
           \/ RestoreReadDat \/ RestoreReadPlain \/ RestoreClean
           \/ RestoreEnds \/ RestoreInstall
    PROVE  TypeOK'
<1> DEFINE Accepted == {c \in Contents : c.kind \in {"none", "whole"}}
           Loads == [pc : {"idle", "scan", "readDat", "readPlain", "clean", "install"},
                     due : SUBSET (Faces \X Slots), face : Faces, slot : Slots,
                     loaded : [Faces -> Accepted]]
<1>1. load \in Loads /\ NoLoad \in Loads
    BY IdleTypes DEF TypeOK
<1>2. /\ load.face \in Faces /\ load.slot \in Slots /\ load.loaded \in [Faces -> Accepted]
      /\ disk \in [Faces \X Slots -> Contents]
    BY <1>1 DEF TypeOK
<1>3. CASE RestoreBegin
    <2>1. load' \in Loads
        BY <1>1, <1>3 DEF RestoreBegin
    <2> QED
        BY <1>3, <2>1 DEF RestoreBegin, TypeOK
<1>4. ASSUME NEW f \in Faces, NEW s \in Slots, RestoreEntry(f, s)
      PROVE  TypeOK'
    <2>1. load.due \ {<<f, s>>} \in SUBSET (Faces \X Slots)
        BY <1>1
    <2>2. load' \in Loads
        BY <1>1, <1>4, <2>1 DEF RestoreEntry
    <2> QED
        <3>1. UNCHANGED <<disk, cache, up, vendorCode, save, delete,
                          cut, overlap, missed, saves, crashes>>
            BY <1>4 DEF RestoreEntry
        <3> QED
            BY <2>2, <3>1 DEF TypeOK
<1>5. ASSUME NEW s \in Slots, Valid(load.face, s), Loaded(load.face, s)
      PROVE  load' \in Loads
    <2>1. disk[<<load.face, s>>] \in Accepted
        BY <1>2, <1>5 DEF Valid
    <2> QED
        BY <1>1, <1>2, <1>5, <2>1 DEF Loaded
<1>6. CASE RestoreReadDat
    <2>1. load' \in Loads
        <3>1. CASE Valid(load.face, "dat") /\ Loaded(load.face, "dat")
            BY <1>5, <3>1 DEF Slots
        <3>2. CASE load' = [load EXCEPT !.pc = "readPlain"]
            BY <1>1, <3>2
        <3> QED
            BY <1>6, <3>1, <3>2 DEF RestoreReadDat
    <2> QED
        BY <1>6, <2>1 DEF RestoreReadDat, TypeOK
<1>7. CASE RestoreReadPlain
    <2>1. load' \in Loads
        <3>1. CASE Valid(load.face, "plain") /\ Loaded(load.face, "plain")
            BY <1>5, <3>1 DEF Slots
        <3>2. CASE load' = [load EXCEPT !.pc = "clean"]
            BY <1>1, <3>2
        <3> QED
            BY <1>7, <3>1, <3>2 DEF RestoreReadPlain, PlainAccepted
    <2> QED
        BY <1>7, <2>1 DEF RestoreReadPlain, TypeOK
<1>8. CASE RestoreClean
    <2>1. load' \in Loads
        BY <1>1, <1>8 DEF RestoreClean
    <2>2. disk' \in [Faces \X Slots -> Contents]
        BY <1>2, <1>8, RemoveType DEF RestoreClean, CleanEntry
    <2> QED
        BY <1>8, <2>1, <2>2 DEF RestoreClean, TypeOK
<1>9. CASE RestoreEnds
    <2>1. NoFile \in Contents /\ NoFile \in Accepted
        BY BoundsAssumption DEF BoundsAssumption, NoFile, Contents
    <2>2. [f \in Faces |-> IF f \in WrongVersion THEN NoFile ELSE load.loaded[f]]
            \in [Faces -> Accepted]
        BY <1>2, <2>1
    <2>3. load' \in Loads
        BY <1>1, <1>9, <2>2 DEF RestoreEnds
    <2>4. disk' \in [Faces \X Slots -> Contents]
        BY <1>2, <1>9, <2>1 DEF RestoreEnds
    <2> QED
        BY <1>9, <2>3, <2>4 DEF RestoreEnds, TypeOK
<1>10. CASE RestoreInstall
    <2>1. load' \in Loads
        BY <1>1, <1>10 DEF RestoreInstall
    <2>2. cache' \in [Faces -> 0..MaxSaves]
        BY <1>2, <1>10 DEF RestoreInstall, Contents
    <2> QED
        BY <1>10, <2>1, <2>2 DEF RestoreInstall, TypeOK
<1> QED
    BY <1>3, <1>4, <1>6, <1>7, <1>8, <1>9, <1>10

(* The steps of a deletion. *)
LEMMA DeleteType ==
    ASSUME TypeOK,
           \/ \E f \in Faces : DeleteBegin(f)
           \/ DeleteDat \/ DeletePlain \/ DeleteCount \/ DeleteWipe \/ DeleteErase
    PROVE  TypeOK'
<1> DEFINE Deletes == [pc : {"idle", "dat", "plain", "count", "wipe", "erase"}, face : Faces]
<1>1. delete \in Deletes /\ NoDelete \in Deletes /\ delete.face \in Faces
    BY IdleTypes DEF TypeOK
<1>2. NoFile \in Contents /\ 0 \in 0..MaxSaves
    BY BoundsAssumption DEF BoundsAssumption, NoFile, Contents
<1>3. ASSUME NEW f \in Faces, DeleteBegin(f)
      PROVE  TypeOK'
    BY <1>3 DEF DeleteBegin, Overlaps, TypeOK
<1>4. CASE DeleteDat
    <2>1. disk' \in [Faces \X Slots -> Contents]
        BY <1>1, <1>4, RemoveType DEF DeleteDat, Slots
    <2>2. delete' \in Deletes
        BY <1>1, <1>4 DEF DeleteDat
    <2> QED
        BY <1>4, <2>1, <2>2 DEF DeleteDat, TypeOK
<1>5. CASE DeletePlain
    <2>1. disk' \in [Faces \X Slots -> Contents]
        BY <1>1, <1>5, RemoveType DEF DeletePlain, RemovePlain, Slots
    <2>2. delete' \in Deletes
        BY <1>1, <1>5 DEF DeletePlain
    <2> QED
        BY <1>5, <2>1, <2>2 DEF DeletePlain, TypeOK
<1>6. CASE DeleteCount
    <2>1. delete' \in Deletes
        BY <1>1, <1>6 DEF DeleteCount
    <2> QED
        BY <1>6, <2>1 DEF DeleteCount, TypeOK
<1>7. CASE DeleteWipe
    <2>1. delete' \in Deletes
        BY <1>1, <1>7 DEF DeleteWipe
    <2> QED
        BY <1>2, <1>7, <2>1 DEF DeleteWipe, TypeOK
<1>8. CASE DeleteErase
    <2>1. delete' \in Deletes
        BY <1>1, <1>8 DEF DeleteErase
    <2>2. cache' \in [Faces -> 0..MaxSaves]
        BY <1>1, <1>2, <1>8 DEF DeleteErase, TypeOK
    <2> QED
        BY <1>8, <2>1, <2>2 DEF DeleteErase, TypeOK
<1> QED
    BY <1>3, <1>4, <1>5, <1>6, <1>7, <1>8

LEMMA NextType == TypeOK /\ [Next]_vars => TypeOK'
<1> SUFFICES ASSUME TypeOK, [Next]_vars PROVE TypeOK'
    OBVIOUS
<1>1. CASE UNCHANGED vars
    BY <1>1 DEF vars, TypeOK
<1>2. CASE Crash
    <2>1. cache' \in [Faces -> 0..MaxSaves] /\ crashes' \in 0..MaxCrashes
        BY <1>2, BoundsAssumption DEF BoundsAssumption, Crash, TypeOK
    <2> QED
        <3>1. /\ up' = FALSE /\ vendorCode' = "none"
              /\ save' = NoSave /\ load' = NoLoad /\ delete' = NoDelete
              /\ missed' = {} /\ UNCHANGED <<disk, cut, overlap, saves>>
            BY <1>2 DEF Crash
        <3>2. /\ save' \in [pc : {"idle", "sign", "encrypt", "open", "write", "rename",
                                  "removeStale", "install"},
                             face : Faces, slot : {"dat", "plain"}, tmpl : 0..MaxSaves]
              /\ delete' \in [pc : {"idle", "dat", "plain", "count", "wipe", "erase"},
                               face : Faces]
            BY <3>1, IdleTypes
        <3>3. load' \in [pc : {"idle", "scan", "readDat", "readPlain", "clean", "install"},
                         due : SUBSET (Faces \X Slots), face : Faces, slot : Slots,
                         loaded : [Faces -> {c \in Contents : c.kind \in {"none", "whole"}}]]
            BY <3>1, IdleTypes
        <3> QED
            BY <2>1, <3>1, <3>2, <3>3 DEF TypeOK
<1>3. CASE Next /\ ~Crash
    BY <1>3, SaveType, RestoreType, DeleteType DEF Next
<1> QED
    BY <1>1, <1>2, <1>3

(* Every variable stays in its range, and a restore accepts whole templates   *)
(* of the current version only.                                            *)
THEOREM TypeCorrect == Spec => []TypeOK
BY InitType, NextType, PTL DEF Spec

-----------------------------------------------------------------------------
(* WholeFiles is not inductive: it needs that the .tmp about to be renamed    *)
(* has been written, if it is still there.                                  *)
Written == ~cut /\ save.pc = "rename" => disk[<<save.face, Temp(save.slot)>>] # Torn

WholeIInv == TypeOK /\ WholeFiles /\ Written

(* A step that only removes files, and does not reach "rename", keeps it.     *)
LEMMA RemovalsKeepWhole ==
    ASSUME WholeIInv, TypeOK', UNCHANGED <<save, cut>>,
           \A fs \in Faces \X Slots : disk'[fs] = disk[fs] \/ disk'[fs] = NoFile
    PROVE  WholeIInv'
<1>1. NoFile # Torn
    BY DEF NoFile, Torn
<1>2. save.face \in Faces /\ save.slot \in {"dat", "plain"}
    BY DEF WholeIInv, TypeOK
<1>3. <<save.face, Temp(save.slot)>> \in Faces \X Slots
    BY <1>2 DEF Temp, Slots
<1>4. WholeFiles'
    <2> SUFFICES ASSUME NEW f \in Faces, NEW s \in {"dat", "plain"}
                 PROVE  ~cut => disk'[<<f, s>>] # Torn
        BY DEF WholeFiles
    <2>1. <<f, s>> \in Faces \X Slots /\ (~cut => disk[<<f, s>>] # Torn)
        BY DEF WholeIInv, WholeFiles, Slots
    <2> QED
        BY <1>1, <2>1
<1>5. Written'
    BY <1>1, <1>3 DEF WholeIInv, Written
<1> QED
    BY <1>4, <1>5 DEF WholeIInv

(* The save writes a .tmp and no other file, then renames it. *)
LEMMA SaveKeepsWhole ==
    ASSUME WholeIInv, TypeOK',
           \/ \E f \in Faces : SaveBegin(f)
           \/ SaveSign \/ SaveEncrypt \/ SaveOpen \/ SaveWrite \/ SaveRename
           \/ SaveRemoveStale \/ SaveInstall
    PROVE  WholeIInv'
<1>1. /\ save.face \in Faces /\ save.slot \in {"dat", "plain"} /\ save.tmpl \in 0..MaxSaves
      /\ disk \in [Faces \X Slots -> Contents]
      /\ save = [pc |-> save.pc, face |-> save.face, slot |-> save.slot, tmpl |-> save.tmpl]
    BY DEF WholeIInv, TypeOK
<1>2. /\ Temp(save.slot) \in Slots \ {"dat", "plain"} /\ save.slot \in Slots
      /\ Other(save.slot) \in Slots
    BY <1>1 DEF Temp, Other, Slots
<1>3. NoFile # Torn /\ Whole(save.tmpl) # Torn
    BY DEF NoFile, Torn, Whole
<1>4. ASSUME UNCHANGED <<disk, cut>>, save'.pc # "rename"
      PROVE  WholeIInv'
    BY <1>4 DEF WholeIInv, WholeFiles, Written
<1>5. CASE (\E f \in Faces : SaveBegin(f)) \/ SaveSign \/ SaveEncrypt \/ SaveInstall
    <2>1. UNCHANGED <<disk, cut>> /\ save'.pc # "rename"
        <3>1. CASE (\E f \in Faces : SaveBegin(f)) \/ SaveInstall
            BY <3>1 DEF SaveBegin, SaveInstall, NoSave
        <3>2. CASE SaveSign
            BY <1>1, <3>2 DEF SaveSign, NoSave
        <3>3. CASE SaveEncrypt
            <4>1. save \in [pc : {save.pc}, face : {save.face}, slot : {save.slot},
                            tmpl : {save.tmpl}]
                BY <1>1
            <4> QED
                BY <3>3, <4>1 DEF SaveEncrypt
        <3> QED
            BY <1>5, <3>1, <3>2, <3>3
    <2> QED
        BY <1>4, <2>1
<1>6. CASE SaveOpen
    <2>1. save'.pc # "rename"
        BY <1>1, <1>6 DEF SaveOpen, NoSave
    <2>2. WholeFiles'
        <3>1. CASE Put(save.face, Temp(save.slot), Torn)
            <4> SUFFICES ASSUME ~cut, NEW f \in Faces, NEW s \in {"dat", "plain"}
                         PROVE  disk'[<<f, s>>] # Torn
                BY <1>6 DEF SaveOpen, WholeFiles
            <4>1. <<f, s>> \in Faces \X Slots /\ <<f, s>> # <<save.face, Temp(save.slot)>>
                BY <1>2 DEF Slots
            <4>2. disk'[<<f, s>>] = disk[<<f, s>>]
                BY <1>1, <3>1, <4>1 DEF Put
            <4> QED
                BY <4>2 DEF WholeIInv, WholeFiles
        <3>2. CASE UNCHANGED disk
            BY <1>6, <3>2 DEF SaveOpen, WholeIInv, WholeFiles
        <3> QED
            BY <1>6, <3>1, <3>2 DEF SaveOpen
    <2> QED
        BY <2>1, <2>2 DEF WholeIInv, Written
<1>7. CASE SaveWrite
    <2>1. save' = [save EXCEPT !.pc = "rename"]
        BY <1>7 DEF SaveWrite
    <2>2. save'.face = save.face /\ save'.slot = save.slot
        BY <1>1, <2>1
    <2>3. CASE Put(save.face, Temp(save.slot), Whole(save.tmpl)) /\ UNCHANGED cut
        <3>1. disk'[<<save.face, Temp(save.slot)>>] = Whole(save.tmpl)
            BY <1>1, <1>2, <2>3 DEF Put
        <3>2. WholeFiles'
            BY <1>1, <1>2, <2>3 DEF Put, WholeIInv, WholeFiles, Slots
        <3> QED
            BY <1>3, <2>2, <3>1, <3>2 DEF WholeIInv, Written
    <2>4. CASE ~Exists(save.face, Temp(save.slot)) /\ UNCHANGED <<disk, cut>>
        BY <1>3, <2>2, <2>4 DEF Exists, WholeIInv, WholeFiles, Written
    <2>5. CASE cut'
        BY <2>5 DEF WholeIInv, WholeFiles, Written
    <2> QED
        BY <1>7, <2>3, <2>4, <2>5 DEF SaveWrite
<1>8. CASE SaveRename
    <2>1. save'.pc # "rename"
        BY <1>1, <1>8 DEF SaveRename, NoSave
    <2>2. CASE MayRename
        <3>1. ~cut => disk[<<save.face, Temp(save.slot)>>] # Torn
            BY <1>8 DEF SaveRename, WholeIInv, Written
        <3>2. WholeFiles'
            BY <1>1, <1>2, <1>3, <1>8, <2>2, <3>1
               DEF SaveRename, WholeIInv, WholeFiles, Slots
        <3> QED
            BY <2>1, <3>2 DEF WholeIInv, Written
    <2>3. CASE ~MayRename
        BY <1>4, <1>8, <2>1, <2>3 DEF SaveRename
    <2> QED
        BY <2>2, <2>3
<1>9. CASE SaveRemoveStale
    <2>1. save'.pc # "rename"
        BY <1>1, <1>9 DEF SaveRemoveStale
    <2>2. WholeFiles'
        BY <1>1, <1>2, <1>3, <1>9
           DEF SaveRemoveStale, Remove, Put, WholeIInv, WholeFiles, Slots
    <2> QED
        BY <2>1, <2>2 DEF WholeIInv, Written
<1> QED
    BY <1>5, <1>6, <1>7, <1>8, <1>9

(* Restores and deletions only remove files. *)
LEMMA OthersKeepWhole ==
    ASSUME WholeIInv, TypeOK',
           \/ RestoreBegin \/ \E f \in Faces, s \in Slots : RestoreEntry(f, s)
           \/ RestoreReadDat \/ RestoreReadPlain \/ RestoreClean
           \/ RestoreEnds \/ RestoreInstall
           \/ \E f \in Faces : DeleteBegin(f)
           \/ DeleteDat \/ DeletePlain \/ DeleteCount \/ DeleteWipe \/ DeleteErase
    PROVE  WholeIInv'
<1>1. UNCHANGED <<save, cut>>
    BY DEF RestoreBegin, RestoreEntry, RestoreReadDat, RestoreReadPlain, RestoreClean,
           RestoreEnds, RestoreInstall, DeleteBegin, DeleteDat, DeletePlain, DeleteCount,
           DeleteWipe, DeleteErase
<1>2. disk \in [Faces \X Slots -> Contents]
    BY DEF WholeIInv, TypeOK
<1>3. ASSUME NEW f, NEW s, Remove(f, s)
      PROVE  \A fs \in Faces \X Slots : disk'[fs] = disk[fs] \/ disk'[fs] = NoFile
    BY <1>2, <1>3 DEF Remove, Put
<1>4. \A fs \in Faces \X Slots : disk'[fs] = disk[fs] \/ disk'[fs] = NoFile
    <2>1. CASE RestoreClean \/ DeleteDat \/ DeletePlain
        BY <1>3, <2>1 DEF RestoreClean, CleanEntry, DeleteDat, DeletePlain, RemovePlain
    <2>2. CASE RestoreEnds
        BY <2>2 DEF RestoreEnds
    <2>3. CASE DeleteWipe
        BY <2>3 DEF DeleteWipe
    <2>4. CASE UNCHANGED disk
        BY <2>4
    <2> QED
        BY <2>1, <2>2, <2>3, <2>4
           DEF RestoreBegin, RestoreEntry, RestoreReadDat, RestoreReadPlain,
               RestoreInstall, DeleteBegin, DeleteCount, DeleteErase
<1> QED
    BY <1>1, <1>4, RemovalsKeepWhole

(* WholeIInv holds of every behaviour, whatever else uses the directory.      *)
THEOREM WholeInvariance == Spec => []WholeIInv
<1>1. Init => WholeIInv
    <2> SUFFICES ASSUME Init PROVE WholeIInv
        OBVIOUS
    <2>1. WholeFiles
        BY DEF Init, WholeFiles, NoFile, Torn, Outdated, Slots
    <2>2. Written
        BY DEF Init, Written, NoSave
    <2> QED
        BY <2>1, <2>2, InitType DEF WholeIInv
<1>2. WholeIInv /\ [Next]_vars => WholeIInv'
    <2> SUFFICES ASSUME WholeIInv, [Next]_vars PROVE WholeIInv'
        OBVIOUS
    <2>1. TypeOK'
        BY NextType DEF WholeIInv
    <2>2. CASE UNCHANGED vars
        BY <2>1, <2>2 DEF vars, WholeIInv, WholeFiles, Written
    <2>3. CASE Crash
        BY <2>1, <2>3 DEF Crash, NoSave, WholeIInv, WholeFiles, Written
    <2>4. CASE Next /\ ~Crash
        BY <2>1, <2>4, SaveKeepsWhole, OthersKeepWhole DEF Next
    <2> QED
        BY <2>2, <2>3, <2>4
<1> QED
    BY <1>1, <1>2, PTL DEF Spec

(* Until a write is cut short, a template's own files are whole at every      *)
(* moment and after every crash, whatever else uses the directory.          *)
THEOREM AtomicWrite == Spec => []WholeFiles
<1>1. WholeIInv => WholeFiles
    BY DEF WholeIInv
<1> QED
    BY <1>1, WholeInvariance, PTL
=============================================================================
