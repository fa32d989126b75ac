-------------------------- MODULE TemplateMapProofs --------------------------
(***************************************************************************)
(* Proofs about TemplateStore: that the engine's map is what the directory  *)
(* holds, what a new session starts from, and that the storage keeps the   *)
(* promise of TemplateMap, for any number of faces, saves and crashes, where *)
(* Keystore2 does not fail a restore.                                      *)
(***************************************************************************)
EXTENDS TemplateStoreProofs, FiniteSetTheorems

(* The contents of a file differ from each other, and only a template is valid. *)
LEMMA StoredFacts ==
    ASSUME NEW c \in Stored
    PROVE  /\ c.kind = "whole" <=> c # NoFile /\ c # Torn /\ c # Outdated
           /\ c.kind = "whole" => c.tmpl \in 1..MaxSaves /\ c = Whole(c.tmpl) /\ c.tmpl # 0
           /\ NoFile # Torn /\ NoFile # Outdated /\ Torn # Outdated
           /\ c # NoFile /\ c.kind # "whole" => c = Torn \/ c = Outdated
BY BoundsAssumption DEF BoundsAssumption, Stored, NoFile, Torn, Outdated, Whole

LEMMA WholeFacts ==
    ASSUME NEW t
    PROVE  /\ Whole(t).kind = "whole" /\ Whole(t).tmpl = t
           /\ Whole(t) # NoFile /\ Whole(t) # Torn /\ Whole(t) # Outdated
           /\ NoFile # Torn /\ NoFile # Outdated /\ Torn # Outdated
           /\ NoFile.kind # "whole" /\ Torn.kind # "whole" /\ Outdated.kind # "whole"
BY DEF NoFile, Torn, Outdated, Whole

(* A face whose files stay as they are is as loadable or broken as before. *)
LEMMA SameFiles ==
    ASSUME NEW f \in Faces, \A s \in Slots : disk'[<<f, s>>] = disk[<<f, s>>]
    PROVE  /\ Loadable(f)' = Loadable(f) /\ (Broken(f)' <=> Broken(f))
           /\ \A s \in Slots : (Exists(f, s)' <=> Exists(f, s)) /\ (OnlyFile(f, s)' <=> OnlyFile(f, s))
           /\ NoFiles(f)' <=> NoFiles(f)
           /\ Valid(f, "dat")' <=> Valid(f, "dat")
           /\ Valid(f, "plain")' <=> Valid(f, "plain")
<1>1. "dat" \in Slots /\ "plain" \in Slots
    BY DEF Slots
<1>2. /\ disk'[<<f, "dat">>] = disk[<<f, "dat">>]
      /\ disk'[<<f, "plain">>] = disk[<<f, "plain">>]
    BY <1>1
<1>3. Loadable(f)' = Loadable(f) /\ (Broken(f)' <=> Broken(f))
    BY <1>2 DEF Loadable, Broken, Valid
<1>4. /\ \A s \in Slots : (Exists(f, s)' <=> Exists(f, s))
      /\ NoFiles(f)' <=> NoFiles(f)
    BY DEF Exists, NoFiles
<1>5. \A s \in Slots : (OnlyFile(f, s)' <=> OnlyFile(f, s))
    BY <1>4 DEF OnlyFile
<1> QED
    <2>1. /\ Valid(f, "dat")' <=> Valid(f, "dat")
          /\ Valid(f, "plain")' <=> Valid(f, "plain")
        BY <1>2 DEF Valid
    <2> QED
        BY <1>3, <1>4, <1>5, <2>1

(* A face whose files and entry stay keeps what was known of it. *)
LEMMA SameFace ==
    ASSUME NEW f \in Faces, \A s \in Slots : disk'[<<f, s>>] = disk[<<f, s>>],
           cache'[f] = cache[f], cut => cut'
    PROVE  /\ Matches(f) => Matches(f)'
           /\ CachedFile(f) => CachedFile(f)'
<1>1. Matches(f) => Matches(f)'
    BY SameFiles DEF Matches
<1>2. CachedFile(f) => CachedFile(f)'
    <2>1. "dat" \in Slots /\ "plain" \in Slots
        BY DEF Slots
    <2> QED
        BY <2>1, SameFiles DEF CachedFile
<1> QED
    BY <1>1, <1>2

-----------------------------------------------------------------------------
(* ContentsMade holds whatever overlaps. *)
LEMMA ContentsSave ==
    ASSUME MapIInv, TypeOK',
           \/ \E f \in Faces : SaveBegin(f)
           \/ SaveSign \/ SaveEncrypt \/ SaveOpen \/ SaveWrite \/ SaveRename
           \/ SaveRemoveStale \/ SaveInstall
    PROVE  ContentsMade'
<1>1. /\ save \in [pc : {"idle", "sign", "encrypt", "open", "write", "rename",
                         "removeStale", "install"},
                   face : Faces, slot : {"dat", "plain"}, tmpl : 0..MaxSaves]
      /\ saves \in 0..MaxSaves /\ saves' \in 0..MaxSaves
    BY DEF MapIInv, TypeOK
<1>2. NoSave.pc = "idle"
    BY DEF NoSave
<1>3. /\ save'.pc # "idle" => up' /\ save'.tmpl = saves' /\ saves' > 0
      /\ delete'.pc # "idle" => up'
    <2>1. /\ save.pc # "idle" => up /\ save.tmpl = saves /\ saves > 0
          /\ delete.pc # "idle" => up
        BY DEF MapIInv, ContentsMade
    <2>2. CASE \E f \in Faces : SaveBegin(f)
        BY <1>1, <2>1, <2>2 DEF SaveBegin
    <2>3. CASE ~\E f \in Faces : SaveBegin(f)
        <3>1. save.pc # "idle" /\ UNCHANGED <<up, saves, delete>>
            BY <2>3 DEF SaveSign, SaveEncrypt, SaveOpen, SaveWrite, SaveRename,
                SaveRemoveStale, SaveInstall
        <3>2. save' = NoSave \/ save'.tmpl = save.tmpl
            BY <1>1, <2>3 DEF SaveSign, SaveEncrypt, SaveOpen, SaveWrite, SaveRename,
                SaveRemoveStale, SaveInstall
        <3> QED
            BY <1>2, <2>1, <3>1, <3>2
    <2> QED
        BY <2>2, <2>3
<1>4. /\ save.face \in Faces /\ save.slot \in Slots
      /\ Temp(save.slot) \in Slots /\ Other(save.slot) \in Slots
    BY <1>1 DEF Temp, Other, Slots
<1>5. NoFile \in Stored /\ Torn \in Stored
    BY DEF Stored
<1>6. \A f \in Faces, s \in Slots : disk[<<f, s>>] \in Stored
    BY DEF MapIInv, ContentsMade
<1>7. ASSUME NEW f \in Faces, NEW s \in Slots, NEW c \in Stored, Put(f, s, c)
      PROVE  \A g \in Faces, t \in Slots : disk'[<<g, t>>] \in Stored
    <2>1. TypeOK
        BY DEF MapIInv
    <2>2. \A g \in Faces, t \in Slots :
              disk'[<<g, t>>] = IF g = f /\ t = s THEN c ELSE disk[<<g, t>>]
        BY <1>7, <2>1 DEF TypeOK, Put
    <2> QED
        BY <1>6, <2>2
<1>8. \A f \in Faces, s \in Slots : disk'[<<f, s>>] \in Stored
    <2>1. CASE UNCHANGED disk
        BY <1>6, <2>1
    <2>2. CASE SaveOpen
        BY <1>4, <1>5, <1>7, <2>1, <2>2 DEF SaveOpen
    <2>3. CASE SaveWrite
        <3>1. save.pc # "idle" /\ Whole(save.tmpl) \in Stored
            BY <1>1, <2>3 DEF SaveWrite, MapIInv, ContentsMade, Stored
        <3> QED
            BY <1>4, <1>7, <2>1, <2>3, <3>1 DEF SaveWrite
    <2>4. CASE SaveRename
        <3>1. disk \in [Faces \X Slots -> Contents]
            BY DEF MapIInv, TypeOK
        <3> QED
            BY <1>4, <1>5, <1>6, <2>1, <2>4, <3>1 DEF SaveRename
    <2>5. CASE SaveRemoveStale
        BY <1>4, <1>5, <1>7, <2>5 DEF SaveRemoveStale, Remove
    <2> QED
        BY <2>1, <2>2, <2>3, <2>4, <2>5 DEF SaveBegin, SaveSign, SaveEncrypt, SaveInstall
<1> QED
    BY <1>3, <1>8 DEF ContentsMade

LEMMA ContentsOthers ==
    ASSUME MapIInv, TypeOK',
           \/ RestoreBegin \/ \E f \in Faces, s \in Slots : RestoreEntry(f, s)
           \/ RestoreReadDat \/ RestoreReadPlain \/ RestoreClean
           \/ RestoreEnds \/ RestoreInstall
           \/ \E f \in Faces : DeleteBegin(f)
           \/ DeleteDat \/ DeletePlain \/ DeleteCount \/ DeleteWipe \/ DeleteErase
           \/ Crash
    PROVE  ContentsMade'
<1>1. /\ delete \in [pc : {"idle", "dat", "plain", "count", "wipe", "erase"}, face : Faces]
      /\ load.face \in Faces /\ load.slot \in Slots
      /\ disk \in [Faces \X Slots -> Contents]
    BY DEF MapIInv, TypeOK
<1>2. NoFile \in Stored /\ \A f \in Faces, s \in Slots : disk[<<f, s>>] \in Stored
    BY DEF Stored, MapIInv, ContentsMade
<1>3. ASSUME NEW f \in Faces, NEW s \in Slots, Remove(f, s)
      PROVE  \A g \in Faces, t \in Slots : disk'[<<g, t>>] \in Stored
    <2>1. TypeOK /\ Put(f, s, NoFile)
        BY <1>3 DEF MapIInv, Remove
    <2>2. \A g \in Faces, t \in Slots :
              disk'[<<g, t>>] = IF g = f /\ t = s THEN NoFile ELSE disk[<<g, t>>]
        BY <2>1 DEF TypeOK, Put
    <2> QED
        BY <1>2, <2>2
<1>4. \A f \in Faces, s \in Slots : disk'[<<f, s>>] \in Stored
    <2>1. CASE RestoreClean \/ DeleteDat \/ DeletePlain
        BY <1>1, <1>3, <2>1
           DEF RestoreClean, CleanEntry, DeleteDat, DeletePlain, RemovePlain, Slots
    <2>2. CASE RestoreEnds
        BY <1>2, <2>2 DEF RestoreEnds
    <2>3. CASE DeleteWipe
        BY <1>2, <2>3 DEF DeleteWipe
    <2>4. CASE UNCHANGED disk
        BY <1>2, <2>4
    <2> QED
        BY <2>1, <2>2, <2>3, <2>4 DEF RestoreBegin, RestoreEntry, RestoreReadDat,
            RestoreReadPlain, RestoreInstall, DeleteBegin, DeleteCount, DeleteErase, Crash
<1>5. /\ save'.pc # "idle" => up' /\ save'.tmpl = saves' /\ saves' > 0
      /\ delete'.pc # "idle" => up'
    <2>1. CASE Crash
        BY <2>1 DEF Crash, NoSave, NoDelete
    <2>2. CASE ~Crash
        <3>1. UNCHANGED <<save, saves>> /\ (up' = up \/ up' = TRUE)
            BY <2>2 DEF RestoreBegin, RestoreEntry, RestoreReadDat, RestoreReadPlain,
                RestoreClean, RestoreEnds, RestoreInstall, DeleteBegin, DeleteDat, DeletePlain,
                DeleteCount, DeleteWipe, DeleteErase
        <3>2. up \/ delete' = delete \/ delete.pc # "idle"
            BY <2>2 DEF RestoreBegin, RestoreEntry, RestoreReadDat, RestoreReadPlain,
                RestoreClean, RestoreEnds, RestoreInstall, DeleteBegin, DeleteDat, DeletePlain,
                DeleteCount, DeleteWipe, DeleteErase
        <3>3. /\ save.pc # "idle" => up /\ save.tmpl = saves /\ saves > 0
              /\ delete.pc # "idle" => up
            BY DEF MapIInv, ContentsMade
        <3> QED
            BY <3>1, <3>2, <3>3
    <2> QED
        BY <2>1, <2>2
<1> QED
    BY <1>4, <1>5 DEF ContentsMade

(* After operations have overlapped, nothing more is claimed. *)
LEMMA NothingClaimed ==
    ASSUME TypeOK', ContentsMade', overlap' = "since"
    PROVE  MapIInv'
BY DEF MapIInv, OneOperation, SaveProgress, LoadProgress, DeleteProgress, IdleMatches, FilesProgress

(* Which file of a face is loaded, before and after a step. *)
LEMMA LoadableFacts ==
    ASSUME ContentsMade, NEW f \in Faces
    PROVE  /\ Valid(f, "dat") => Loadable(f) # 0 /\ disk[<<f, "dat">>] = Whole(Loadable(f))
           /\ ~Valid(f, "dat") /\ Valid(f, "plain") =>
                  Loadable(f) # 0 /\ disk[<<f, "plain">>] = Whole(Loadable(f))
           /\ ~Valid(f, "dat") /\ ~Valid(f, "plain") => Loadable(f) = 0
<1>1. disk[<<f, "dat">>] \in Stored /\ disk[<<f, "plain">>] \in Stored
    BY DEF ContentsMade, Slots
<1> QED
    BY <1>1, StoredFacts DEF Loadable, Valid

LEMMA LoadableNext ==
    ASSUME ContentsMade', NEW f \in Faces
    PROVE  /\ Valid(f, "dat")' => Loadable(f)' # 0 /\ disk'[<<f, "dat">>] = Whole(Loadable(f)')
           /\ ~Valid(f, "dat")' /\ Valid(f, "plain")' =>
                  Loadable(f)' # 0 /\ disk'[<<f, "plain">>] = Whole(Loadable(f)')
           /\ ~Valid(f, "dat")' /\ ~Valid(f, "plain")' => Loadable(f)' = 0
<1>1. disk'[<<f, "dat">>] \in Stored /\ disk'[<<f, "plain">>] \in Stored
    BY DEF ContentsMade, Slots
<1> QED
    BY <1>1, StoredFacts DEF Loadable, Valid

-----------------------------------------------------------------------------
(* A save that runs alone. *)
LEMMA SaveAlone ==
    ASSUME MapIInv, TypeOK', ContentsMade', overlap # "since", overlap' = overlap,
           load.pc = "idle", delete.pc = "idle",
           \/ \E f \in Faces : SaveBegin(f)
           \/ SaveSign \/ SaveEncrypt \/ SaveOpen \/ SaveWrite \/ SaveRename
           \/ SaveRemoveStale \/ SaveInstall
    PROVE  MapIInv'
<1>a. save.face \in Faces /\ save.slot \in {"dat", "plain"}
    BY DEF MapIInv, TypeOK
<1>b. PICK face \in Faces, slot \in {"dat", "plain"} : face = save.face /\ slot = save.slot
    BY <1>a
<1> DEFINE temp == Temp(slot)
<1>1. /\ TypeOK /\ ContentsMade /\ SaveProgress /\ IdleMatches /\ FilesProgress
    BY DEF MapIInv
<1>2. /\ save \in [pc : {"idle", "sign", "encrypt", "open", "write", "rename",
                         "removeStale", "install"},
                   face : Faces, slot : {"dat", "plain"}, tmpl : 0..MaxSaves]
      /\ save.face = face /\ save.slot = slot /\ slot \in Slots
      /\ temp \in Slots /\ temp \in {"dat.tmp", "plain.tmp"}
      /\ disk \in [Faces \X Slots -> Contents] /\ cache \in [Faces -> 0..MaxSaves]
    BY <1>1, <1>b DEF TypeOK, Temp, Slots
<1>3. UNCHANGED <<load, delete, up>>
    BY DEF SaveBegin, SaveSign, SaveEncrypt, SaveOpen, SaveWrite, SaveRename,
           SaveRemoveStale, SaveInstall
<1>4. OneOperation' /\ LoadProgress' /\ DeleteProgress'
    BY <1>3 DEF OneOperation, LoadProgress, DeleteProgress
<1> SUFFICES SaveProgress' /\ IdleMatches' /\ FilesProgress'
    BY <1>4 DEF MapIInv
<1>5. NoSave.pc = "idle"
    BY DEF NoSave
<1>6. NoFiles(face) => ~Exists(face, "dat") /\ disk[<<face, "dat">>] # Outdated
    BY StoredFacts DEF NoFiles, Exists, Slots, NoFile, Outdated
<1>7. CASE \E f \in Faces : SaveBegin(f)
    <2> PICK f \in Faces : SaveBegin(f)
        BY <1>7
    <2>1. /\ Idle /\ up /\ save'.pc = "sign" /\ save'.face = f /\ UNCHANGED <<disk, cache, cut>>
        BY DEF SaveBegin, Idle
    <2>2. cache[f] = 0
        BY DEF SaveBegin, Enrolled, Faces
    <2>3. \A g \in Faces : Matches(g)
        BY <1>1, <2>1 DEF IdleMatches
    <2>4. \A g \in Faces : Matches(g)'
        BY <2>1, <2>3, SameFace
    <2>5. Loadable(f) = 0 /\ Loadable(f)' = 0 /\ cache'[f] = 0
        BY <2>1, <2>2, <2>3, SameFiles DEF Matches, Broken
    <2>6. SaveProgress'
        BY <2>1, <2>4, <2>5 DEF SaveProgress
    <2>7. overlap = "never" =>
            /\ \A g \in Faces : CachedFile(g) /\ CachedFile(g)'
            /\ NoFiles(f)'
            /\ \A g \in Faces : (NoFiles(g) \/ \E s \in Slots : OnlyFile(g, s))'
        <3>1. overlap = "never" => \A g \in Faces : CachedFile(g)
            BY <1>1, <2>1 DEF FilesProgress, Idle
        <3>2. overlap = "never" => \A g \in Faces : NoFiles(g) \/ \E s \in Slots : OnlyFile(g, s)
            BY <1>1 DEF FilesProgress
        <3> QED
            BY <2>1, <2>2, <3>1, <3>2, SameFace, SameFiles DEF CachedFile
    <2>8. FilesProgress'
        BY <1>3, <2>1, <2>7 DEF FilesProgress
    <2> QED
        BY <2>1, <2>6, <2>8 DEF IdleMatches, Idle
<1> SUFFICES ASSUME ~\E f \in Faces : SaveBegin(f) PROVE SaveProgress' /\ IdleMatches' /\ FilesProgress'
    BY <1>7
<1>8. save.pc # "idle" /\ up /\ save.tmpl # 0 /\ cache[face] = 0
    <2>1. save.pc # "idle"
        BY DEF SaveSign, SaveEncrypt, SaveOpen, SaveWrite, SaveRename, SaveRemoveStale, SaveInstall
    <2> QED
        BY <1>1, <1>b, <2>1 DEF ContentsMade, SaveProgress, TypeOK
<1>9. /\ \A g \in Faces, t \in Slots : g # face => disk'[<<g, t>>] = disk[<<g, t>>]
      /\ \A g \in Faces : g # face => cache'[g] = cache[g]
      /\ cut => cut'
    BY <1>2 DEF SaveSign, SaveEncrypt, SaveOpen, SaveWrite, SaveRename, SaveRemoveStale,
        SaveInstall, Remove, Put
<1>10. \A g \in Faces : g # face =>
          /\ Matches(g)'
          /\ overlap = "never" => CachedFile(g)'
          /\ overlap = "never" => (NoFiles(g) \/ \E s \in Slots : OnlyFile(g, s))'
    <2> SUFFICES ASSUME NEW g \in Faces, g # face
                 PROVE  /\ Matches(g)'
                        /\ overlap = "never" => CachedFile(g)'
                        /\ overlap = "never" => (NoFiles(g) \/ \E s \in Slots : OnlyFile(g, s))'
        OBVIOUS
    <2>1. Matches(g)
        BY <1>1, <1>b, <1>8 DEF SaveProgress
    <2>2. overlap = "never" => CachedFile(g) /\ (NoFiles(g) \/ \E s \in Slots : OnlyFile(g, s))
        BY <1>1, <1>b, <1>8 DEF FilesProgress
    <2>3. (\A s \in Slots : disk'[<<g, s>>] = disk[<<g, s>>]) /\ cache'[g] = cache[g]
        BY <1>9
    <2>4. Matches(g)' /\ (CachedFile(g) => CachedFile(g)')
        BY <1>9, <2>1, <2>3, SameFace
    <2>5. /\ NoFiles(g)' <=> NoFiles(g)
          /\ \A s \in Slots : OnlyFile(g, s)' <=> OnlyFile(g, s)
        BY <2>3, SameFiles
    <2> QED
        BY <2>2, <2>4, <2>5
<1>11. ASSUME save'.pc = "idle", Matches(face)', overlap = "never" => CachedFile(face)'
       PROVE  SaveProgress' /\ IdleMatches' /\ FilesProgress'
    <2>1. SaveProgress' /\ IdleMatches'
        BY <1>10, <1>11 DEF SaveProgress, IdleMatches
    <2>2. overlap = "never" => \A g \in Faces : CachedFile(g)'
        BY <1>10, <1>11
    <2>3. \A g \in Faces : CachedFile(g)' => (NoFiles(g) \/ \E s \in Slots : OnlyFile(g, s))'
        BY DEF CachedFile, Slots
    <2> QED
        BY <1>3, <1>11, <2>1, <2>2, <2>3 DEF FilesProgress
<1>12. ASSUME save' = NoSave, save.pc \in {"sign", "open", "rename"}, NoFiles(face) \/ overlap # "never",
              UNCHANGED <<disk, cache, cut>>
       PROVE  SaveProgress' /\ IdleMatches' /\ FilesProgress'
    <2>1. Loadable(face) = 0
        BY <1>1, <1>b, <1>12 DEF SaveProgress
    <2>2. Matches(face)'
        BY <1>2, <1>8, <1>12, <2>1, SameFiles DEF Matches
    <2>3. overlap = "never" => CachedFile(face)
        BY <1>6, <1>8, <1>12 DEF CachedFile
    <2>4. overlap = "never" => CachedFile(face)'
        BY <1>2, <1>12, <2>3, SameFace
    <2> QED
        BY <1>5, <1>11, <1>12, <2>2, <2>4
<1>13. ASSUME save'.pc # "idle", save'.face = face, cache'[face] = 0,
              save'.pc \in {"sign", "encrypt", "open", "write", "rename"} => Loadable(face)' = 0,
              save'.pc = "write" => disk'[<<face, Temp(save'.slot)>>] = Torn,
              save'.pc = "rename" =>
                  \/ disk'[<<face, Temp(save'.slot)>>] = Whole(save'.tmpl)
                  \/ cut' /\ disk'[<<face, Temp(save'.slot)>>] = Torn,
              save'.pc \in {"removeStale", "install"} =>
                  \/ disk'[<<face, save'.slot>>] = Whole(save'.tmpl) /\ Loadable(face)' = save'.tmpl
                  \/ cut' /\ disk'[<<face, save'.slot>>] = Torn /\ Loadable(face)' = 0,
              overlap = "never" =>
                  (/\ save.pc \in {"sign", "encrypt", "open"} => NoFiles(save.face)
                   /\ save.pc \in {"write", "rename"} => OnlyFile(save.face, Temp(save.slot))
                   /\ save.pc \in {"removeStale", "install"} => OnlyFile(save.face, save.slot))'
       PROVE  SaveProgress' /\ IdleMatches' /\ FilesProgress'
    <2>1. SaveProgress' /\ IdleMatches'
        BY <1>10, <1>13 DEF SaveProgress, IdleMatches, Idle
    <2>2. /\ save' \in [pc : {"idle", "sign", "encrypt", "open", "write", "rename",
                             "removeStale", "install"},
                       face : Faces, slot : {"dat", "plain"}, tmpl : 0..MaxSaves]
          /\ save'.slot \in Slots /\ Temp(save'.slot) \in Slots
        BY DEF TypeOK, Temp, Slots
    <2>3. overlap = "never" => (NoFiles(face) \/ \E s \in Slots : OnlyFile(face, s))'
        <3>1. save'.pc \in {"sign", "encrypt", "open", "write", "rename", "removeStale", "install"}
            BY <1>13, <2>2
        <3> QED
            BY <1>13, <2>2, <3>1
    <2>4. FilesProgress'
        BY <1>3, <1>10, <1>13, <2>3 DEF FilesProgress
    <2> QED
        BY <2>1, <2>4
<1>14. ASSUME NEW x, save' = [save EXCEPT !.pc = x]
       PROVE  save'.pc = x /\ save'.face = face /\ save'.slot = slot /\ save'.tmpl = save.tmpl
    BY <1>2, <1>14
<1>15. \A s \in Slots : overlap = "never" /\ OnlyFile(face, s) =>
          \A t \in Slots : t # s => disk[<<face, t>>] = NoFile
    BY DEF OnlyFile, Exists
<1>16. CASE SaveSign
    <2>1. save.pc = "sign" /\ UNCHANGED <<disk, cache, cut>>
        BY <1>16 DEF SaveSign
    <2>2. (overlap = "never" => NoFiles(face)) /\ Loadable(face) = 0
        BY <1>1, <1>b, <2>1 DEF FilesProgress, SaveProgress
    <2>3. CASE save' = NoSave
        BY <1>12, <2>1, <2>2, <2>3
    <2>4. CASE save' = [save EXCEPT !.pc = "encrypt"]
        BY <1>8, <1>13, <1>14, <2>1, <2>2, <2>4, SameFiles
    <2> QED
        BY <1>16, <2>3, <2>4 DEF SaveSign
<1>17. CASE SaveEncrypt
    <2>1. save.pc = "encrypt" /\ UNCHANGED <<disk, cache, cut>>
        BY <1>17 DEF SaveEncrypt
    <2>2. (overlap = "never" => NoFiles(face)) /\ Loadable(face) = 0
        BY <1>1, <1>b, <2>1 DEF FilesProgress, SaveProgress
    <2>3. save'.pc = "open" /\ save'.face = face
        BY <1>2, <1>17 DEF SaveEncrypt
    <2> QED
        BY <1>8, <1>13, <2>1, <2>2, <2>3, SameFiles
<1>18. CASE SaveOpen
    <2>1. save.pc = "open" /\ UNCHANGED <<cache, cut>>
        BY <1>18 DEF SaveOpen
    <2>2. (overlap = "never" => NoFiles(face)) /\ Loadable(face) = 0
        BY <1>1, <1>b, <2>1 DEF FilesProgress, SaveProgress
    <2>3. CASE save' = NoSave /\ UNCHANGED disk
        BY <1>12, <2>1, <2>2, <2>3
    <2>4. CASE Put(face, temp, Torn) /\ save' = [save EXCEPT !.pc = "write"]
        <3>1. \A t \in Slots : disk'[<<face, t>>] = IF t = temp THEN Torn ELSE disk[<<face, t>>]
            BY <1>2, <2>4 DEF Put
        <3>2. Loadable(face)' = Loadable(face)
            BY <1>2, <3>1 DEF Loadable, Valid, Slots
        <3>3. overlap = "never" => OnlyFile(face, temp)'
            BY <2>2, <3>1, WholeFacts DEF NoFiles, OnlyFile, Exists
        <3> QED
            BY <1>2, <1>8, <1>13, <1>14, <2>1, <2>2, <2>4, <3>1, <3>2, <3>3
    <2> QED
        BY <1>b, <1>18, <2>3, <2>4 DEF SaveOpen
<1>19. CASE SaveWrite
    <2>1. /\ save.pc = "write" /\ UNCHANGED cache
          /\ save' = [save EXCEPT !.pc = "rename"]
        BY <1>19 DEF SaveWrite
    <2>2. /\ disk[<<face, temp>>] = Torn /\ Loadable(face) = 0
          /\ overlap = "never" => OnlyFile(face, temp)
        BY <1>1, <1>b, <2>1 DEF FilesProgress, SaveProgress
    <2>3. CASE UNCHANGED disk /\ cut'
        BY <1>2, <1>8, <1>13, <1>14, <2>1, <2>2, <2>3, SameFiles
    <2>4. CASE Put(face, temp, Whole(save.tmpl)) /\ UNCHANGED cut
        <3>1. \A t \in Slots :
                disk'[<<face, t>>] = IF t = temp THEN Whole(save.tmpl) ELSE disk[<<face, t>>]
            BY <1>2, <2>4 DEF Put
        <3>2. Loadable(face)' = Loadable(face)
            BY <1>2, <3>1 DEF Loadable, Valid, Slots
        <3>3. overlap = "never" => OnlyFile(face, temp)'
            BY <2>2, <3>1, WholeFacts DEF OnlyFile, Exists
        <3> QED
            BY <1>2, <1>8, <1>13, <1>14, <2>1, <2>2, <2>4, <3>1, <3>2, <3>3
    <2>5. Exists(face, temp)
        BY <2>2, WholeFacts DEF Exists
    <2> QED
        BY <1>b, <1>19, <2>3, <2>4, <2>5 DEF SaveWrite
<1>20. CASE SaveRename
    <2>1. save.pc = "rename" /\ UNCHANGED <<cache, cut>>
        BY <1>20 DEF SaveRename
    <2>2. /\ disk[<<face, temp>>] = Whole(save.tmpl) \/ (cut /\ disk[<<face, temp>>] = Torn)
          /\ Loadable(face) = 0
          /\ overlap = "never" => OnlyFile(face, temp)
        BY <1>1, <1>b, <2>1 DEF FilesProgress, SaveProgress
    <2>3. MayRename
        BY <1>b, <2>2, WholeFacts DEF MayRename, Exists
    <2>4. /\ save' = [save EXCEPT !.pc = "removeStale"]
          /\ \A t \in Slots :
                disk'[<<face, t>>] = IF t = slot THEN disk[<<face, temp>>]
                                     ELSE IF t = temp THEN NoFile ELSE disk[<<face, t>>]
        BY <1>2, <1>20, <2>3 DEF SaveRename
    <2>5. ~Valid(face, "dat") /\ ~Valid(face, "plain")
        BY <1>1, <2>2, LoadableFacts
    <2>6. disk'[<<face, slot>>] = disk[<<face, temp>>]
        BY <1>2, <2>4
    <2>7. disk'[<<face, Other(slot)>>] = disk[<<face, Other(slot)>>]
        BY <1>2, <2>4 DEF Other, Slots
    <2>8. \/ disk'[<<face, slot>>] = Whole(save.tmpl) /\ Loadable(face)' = save.tmpl
          \/ cut' /\ disk'[<<face, slot>>] = Torn /\ Loadable(face)' = 0
        BY <1>2, <2>1, <2>2, <2>5, <2>6, <2>7, WholeFacts DEF Loadable, Valid, Other
    <2>9. overlap = "never" => OnlyFile(face, slot)'
        BY <1>2, <2>2, <2>4, WholeFacts DEF OnlyFile, Exists
    <2> QED
        BY <1>8, <1>13, <1>14, <2>1, <2>4, <2>8, <2>9
<1>21. CASE SaveRemoveStale
    <2>1. /\ save.pc = "removeStale" /\ UNCHANGED <<cache, cut>>
          /\ save' = [save EXCEPT !.pc = "install"]
        BY <1>21 DEF SaveRemoveStale
    <2>2. /\ \/ disk[<<face, slot>>] = Whole(save.tmpl) /\ Loadable(face) = save.tmpl
             \/ cut /\ disk[<<face, slot>>] = Torn /\ Loadable(face) = 0
          /\ overlap = "never" => OnlyFile(face, slot)
        BY <1>1, <1>b, <2>1 DEF FilesProgress, SaveProgress
    <2>3. \A t \in Slots :
            disk'[<<face, t>>] = IF t = Other(slot) THEN NoFile ELSE disk[<<face, t>>]
        BY <1>2, <1>21 DEF SaveRemoveStale, Remove, Put
    <2>4. /\ disk'[<<face, slot>>] = disk[<<face, slot>>]
          /\ disk'[<<face, Other(slot)>>] = NoFile
        BY <1>2, <2>3 DEF Other, Slots
    <2>5. \/ disk'[<<face, slot>>] = Whole(save.tmpl) /\ Loadable(face)' = save.tmpl
          \/ cut' /\ disk'[<<face, slot>>] = Torn /\ Loadable(face)' = 0
        BY <1>2, <2>1, <2>2, <2>4, WholeFacts DEF Loadable, Valid, Other
    <2>6. overlap = "never" => OnlyFile(face, slot)'
        BY <1>2, <2>2, <2>3, WholeFacts DEF OnlyFile, Exists, Other
    <2> QED
        BY <1>8, <1>13, <1>14, <2>1, <2>5, <2>6
<1>22. CASE SaveInstall
    <2>1. /\ save.pc = "install" /\ UNCHANGED <<disk, cut>> /\ save' = NoSave
          /\ cache' = [cache EXCEPT ![face] = save.tmpl]
        BY <1>b, <1>22 DEF SaveInstall
    <2>2. /\ \/ disk[<<face, slot>>] = Whole(save.tmpl) /\ Loadable(face) = save.tmpl
             \/ cut /\ disk[<<face, slot>>] = Torn /\ Loadable(face) = 0
          /\ overlap = "never" => OnlyFile(face, slot)
        BY <1>1, <1>b, <2>1 DEF FilesProgress, SaveProgress
    <2>3. cache'[face] = save.tmpl
        BY <1>2, <2>1
    <2>4. Matches(face)'
        BY <2>1, <2>2, <2>3, SameFiles DEF Matches, Broken
    <2>5. overlap = "never" => OnlyFile(face, slot)'
        BY <1>2, <2>1, <2>2, SameFiles
    <2>6. overlap = "never" => disk'[<<face, "dat">>] # Outdated
        BY <1>2, <2>1, <2>2, WholeFacts DEF OnlyFile, Exists, Slots
    <2>7. overlap = "never" => CachedFile(face)'
        BY <1>8, <2>3, <2>5, <2>6 DEF CachedFile
    <2> QED
        BY <1>5, <1>11, <2>1, <2>4, <2>7
<1> QED
    BY <1>16, <1>17, <1>18, <1>19, <1>20, <1>21, <1>22

-----------------------------------------------------------------------------
(* A restore that begins alone. *)
LEMMA RestoreBegins ==
    ASSUME MapIInv, TypeOK', ContentsMade', Idle, RestoreBegin
    PROVE  MapIInv'
<1>1. /\ load'.pc = "scan" /\ load'.face = 1
      /\ \A f \in Faces, s \in Slots : Exists(f, s) => <<f, s>> \in load'.due
      /\ \A f \in Faces : load'.loaded[f] = NoFile
      /\ UNCHANGED <<disk, cache, up, save, delete>>
      /\ save'.pc = "idle" /\ delete'.pc = "idle"
      /\ overlap' = "never" => overlap = "never"
    BY DEF RestoreBegin, NoLoad, Idle, Exists
<1>2. OneOperation' /\ SaveProgress' /\ DeleteProgress' /\ IdleMatches'
    BY <1>1 DEF OneOperation, SaveProgress, DeleteProgress, IdleMatches, Idle
<1>3. LoadProgress'
    BY <1>1 DEF LoadProgress, Exists
<1>4. overlap' = "never" => \A f \in Faces : (NoFiles(f) \/ \E s \in Slots : OnlyFile(f, s))'
    BY <1>1, SameFiles DEF MapIInv, FilesProgress
<1>5. FilesProgress'
    BY <1>1, <1>4 DEF FilesProgress
<1> QED
    BY <1>2, <1>3, <1>5 DEF MapIInv

(* Removing files of a face leaves at most the one it had. *)
LEMMA RemovalKeepsOne ==
    ASSUME NEW f \in Faces,
           \A s \in Slots : disk'[<<f, s>>] = disk[<<f, s>>] \/ disk'[<<f, s>>] = NoFile,
           NoFiles(f) \/ \E s \in Slots : OnlyFile(f, s)
    PROVE  (NoFiles(f) \/ \E s \in Slots : OnlyFile(f, s))'
BY DEF NoFiles, OnlyFile, Exists

(* A restore that runs alone. *)
LEMMA RestoreAlone ==
    ASSUME MapIInv, TypeOK', ContentsMade', overlap # "since", overlap' = overlap,
           save.pc = "idle", delete.pc = "idle", ~DecryptFails, ~VerifyFails,
           \/ \E f \in Faces, s \in Slots : RestoreEntry(f, s)
           \/ RestoreReadDat \/ RestoreReadPlain \/ RestoreClean
           \/ RestoreEnds \/ RestoreInstall
    PROVE  MapIInv'
<1>1. TypeOK /\ ContentsMade /\ LoadProgress /\ FilesProgress
    BY DEF MapIInv
<1>2. load.face \in Faces /\ load.slot \in Slots
    BY <1>1 DEF TypeOK
<1>3. PICK face \in Faces, slot \in Slots : face = load.face /\ slot = load.slot
    BY <1>2
<1>4. /\ load \in [pc : {"idle", "scan", "readDat", "readPlain", "clean", "install"},
                   due : SUBSET (Faces \X Slots), face : Faces, slot : Slots,
                   loaded : [Faces -> {c \in Contents : c.kind \in {"none", "whole"}}]]
      /\ disk \in [Faces \X Slots -> Contents] /\ cache \in [Faces -> 0..MaxSaves]
    BY <1>1 DEF TypeOK
<1>5. UNCHANGED <<save, delete, cut>> /\ load.pc # "idle"
    BY DEF RestoreEntry, RestoreReadDat, RestoreReadPlain, RestoreClean, RestoreEnds, RestoreInstall
<1>6. OneOperation' /\ SaveProgress' /\ DeleteProgress'
    BY <1>5 DEF OneOperation, SaveProgress, DeleteProgress
<1>7. /\ \A f \in Faces :
            load.loaded[f] # NoFile => Loadable(f) # 0 /\ load.loaded[f] = Whole(Loadable(f))
      /\ \A f \in Faces, s \in Slots :
            load.loaded[f] = NoFile /\ <<f, s>> \notin load.due /\ Exists(f, s) =>
                load.pc \in {"readDat", "readPlain", "clean"} /\ face = f /\ slot = s
      /\ load.pc \in {"readDat", "readPlain", "clean"} => load.loaded[face] = NoFile
      /\ load.pc \in {"readPlain", "clean"} => ~Valid(face, "dat")
      /\ load.pc = "clean" => ~Valid(face, "plain")
      /\ load.pc = "install" =>
            \A f \in Faces, s \in Slots : Exists(f, s) => load.loaded[f] # NoFile
    BY <1>1, <1>3, <1>5 DEF LoadProgress
<1>8. overlap = "never" => \A f \in Faces : NoFiles(f) \/ \E s \in Slots : OnlyFile(f, s)
    BY <1>1 DEF FilesProgress
<1>9. ASSUME \A f \in Faces, s \in Slots : disk'[<<f, s>>] = disk[<<f, s>>] \/ disk'[<<f, s>>] = NoFile,
             load'.pc # "idle", LoadProgress'
      PROVE  MapIInv'
    <2>1. IdleMatches'
        BY <1>9 DEF IdleMatches, Idle
    <2>2. overlap = "never" => \A f \in Faces : (NoFiles(f) \/ \E s \in Slots : OnlyFile(f, s))'
        BY <1>8, <1>9, RemovalKeepsOne
    <2>3. FilesProgress'
        BY <1>5, <1>9, <2>2 DEF FilesProgress
    <2> QED
        BY <1>6, <1>9, <2>1, <2>3 DEF MapIInv
<1>10. ASSUME NEW f \in Faces, NEW s \in Slots, RestoreEntry(f, s)
       PROVE  MapIInv'
    <2>1. /\ load.pc = "scan" /\ UNCHANGED disk
          /\ load'.due = load.due \ {<<f, s>>}
          /\ load'.face = f /\ load'.slot = s /\ load'.loaded = load.loaded
          /\ load'.pc = IF load.loaded[f] = NoFile THEN "readDat" ELSE "scan"
        BY <1>4, <1>10 DEF RestoreEntry
    <2>2. \A g \in Faces :
            /\ Loadable(g)' = Loadable(g)
            /\ \A t \in Slots : Exists(g, t)' <=> Exists(g, t)
        BY <2>1, SameFiles
    <2>3. LoadProgress'
        BY <1>7, <2>1, <2>2 DEF LoadProgress
    <2> QED
        BY <1>9, <2>1, <2>3
<1>11. CASE RestoreReadDat
    <2>1. load.pc = "readDat" /\ UNCHANGED disk
        BY <1>11 DEF RestoreReadDat
    <2>2. \A g \in Faces :
            /\ Loadable(g)' = Loadable(g)
            /\ \A t \in Slots : Exists(g, t)' <=> Exists(g, t)
            /\ Valid(g, "dat")' <=> Valid(g, "dat")
        BY <2>1, SameFiles
    <2>3. CASE Valid(face, "dat") /\ load' = [load EXCEPT !.loaded[face] = disk[<<face, "dat">>], !.pc = "scan"]
        <3>1. /\ load'.pc = "scan" /\ load'.due = load.due
              /\ load'.loaded = [load.loaded EXCEPT ![face] = disk[<<face, "dat">>]]
            BY <1>4, <2>3
        <3>2. Loadable(face) # 0 /\ disk[<<face, "dat">>] = Whole(Loadable(face))
            BY <1>1, <2>3, LoadableFacts
        <3>3. LoadProgress'
            BY <1>4, <1>7, <2>1, <2>2, <3>1, <3>2, WholeFacts DEF LoadProgress
        <3> QED
            BY <1>9, <2>1, <3>1, <3>3
    <2>4. CASE ~Valid(face, "dat") /\ load' = [load EXCEPT !.pc = "readPlain"]
        <3>1. /\ load'.pc = "readPlain" /\ load'.due = load.due /\ load'.loaded = load.loaded
              /\ load'.face = face /\ load'.slot = slot
            BY <1>3, <1>4, <2>4
        <3>2. LoadProgress'
            BY <1>7, <2>1, <2>2, <2>4, <3>1 DEF LoadProgress
        <3> QED
            BY <1>9, <2>1, <3>1, <3>2
    <2> QED
        BY <1>3, <1>11, <2>3, <2>4 DEF RestoreReadDat, Loaded
<1>12. CASE RestoreReadPlain
    <2>1. load.pc = "readPlain" /\ UNCHANGED disk
        BY <1>12 DEF RestoreReadPlain
    <2>2. \A g \in Faces :
            /\ Loadable(g)' = Loadable(g)
            /\ \A t \in Slots : Exists(g, t)' <=> Exists(g, t)
            /\ Valid(g, "dat")' <=> Valid(g, "dat")
            /\ Valid(g, "plain")' <=> Valid(g, "plain")
        BY <2>1, SameFiles
    <2>3. CASE Valid(face, "plain") /\ load' = [load EXCEPT !.loaded[face] = disk[<<face, "plain">>], !.pc = "scan"]
        <3>1. /\ load'.pc = "scan" /\ load'.due = load.due
              /\ load'.loaded = [load.loaded EXCEPT ![face] = disk[<<face, "plain">>]]
            BY <1>4, <2>3
        <3>2. Loadable(face) # 0 /\ disk[<<face, "plain">>] = Whole(Loadable(face))
            BY <1>1, <1>7, <2>1, <2>3, LoadableFacts
        <3>3. LoadProgress'
            BY <1>4, <1>7, <2>1, <2>2, <3>1, <3>2, WholeFacts DEF LoadProgress
        <3> QED
            BY <1>9, <2>1, <3>1, <3>3
    <2>4. CASE ~Valid(face, "plain") /\ load' = [load EXCEPT !.pc = "clean"]
        <3>1. /\ load'.pc = "clean" /\ load'.due = load.due /\ load'.loaded = load.loaded
              /\ load'.face = face /\ load'.slot = slot
            BY <1>3, <1>4, <2>4
        <3>2. LoadProgress'
            BY <1>7, <2>1, <2>2, <2>4, <3>1 DEF LoadProgress
        <3> QED
            BY <1>9, <2>1, <3>1, <3>2
    <2> QED
        BY <1>3, <1>12, <2>3, <2>4 DEF RestoreReadPlain, PlainAccepted, Loaded
<1>13. CASE RestoreClean
    <2>1. /\ load.pc = "clean"
          /\ load'.pc = "scan" /\ load'.due = load.due /\ load'.loaded = load.loaded
          /\ \A f \in Faces, s \in Slots :
                disk'[<<f, s>>] = IF f = face /\ s = slot THEN NoFile ELSE disk[<<f, s>>]
        BY <1>3, <1>4, <1>13 DEF RestoreClean, CleanEntry, Remove, Put
    <2>2. \A f \in Faces : load.loaded[f] # NoFile => Loadable(f)' = Loadable(f)
        <3> SUFFICES ASSUME NEW f \in Faces, f # face PROVE Loadable(f)' = Loadable(f)
            BY <1>7, <2>1
        <3> QED
            BY <2>1, SameFiles
    <2>3. \A f \in Faces, s \in Slots : Exists(f, s)' => Exists(f, s) /\ ~(f = face /\ s = slot)
        BY <2>1 DEF Exists
    <2>4. LoadProgress'
        BY <1>7, <2>1, <2>2, <2>3 DEF LoadProgress
    <2> QED
        BY <1>9, <2>1, <2>4
<1>14. CASE RestoreEnds
    <2>1. WrongVersion = {}
        BY <1>4 DEF WrongVersion
    <2>2. /\ load.pc = "scan" /\ load'.pc = "install"
          /\ \A f \in Faces : load'.loaded[f] = load.loaded[f]
          /\ \A f \in Faces, s \in Slots : disk'[<<f, s>>] = disk[<<f, s>>]
        BY <1>4, <1>14, <2>1 DEF RestoreEnds
    <2>3. \A g \in Faces :
            /\ Loadable(g)' = Loadable(g)
            /\ \A t \in Slots : Exists(g, t)' <=> Exists(g, t)
        BY <2>2, SameFiles
    <2>4. \A f \in Faces, s \in Slots : Exists(f, s) => load.loaded[f] # NoFile
        BY <1>7, <1>14, <2>2 DEF RestoreEnds
    <2>5. LoadProgress'
        BY <1>7, <2>2, <2>3, <2>4 DEF LoadProgress
    <2> QED
        BY <1>9, <2>2, <2>5
<1>15. CASE RestoreInstall
    <2>1. /\ load.pc = "install" /\ UNCHANGED disk /\ load'.pc = "idle"
          /\ \A f \in Faces : cache'[f] = load.loaded[f].tmpl
        BY <1>15 DEF RestoreInstall, NoLoad
    <2>2. ASSUME NEW f \in Faces
          PROVE  /\ Matches(f)'
                 /\ NoFiles(f) \/ (\E s \in Slots : OnlyFile(f, s)) => CachedFile(f)'
        <3>1. /\ Loadable(f)' = Loadable(f) /\ (NoFiles(f)' <=> NoFiles(f))
              /\ \A s \in Slots : OnlyFile(f, s)' <=> OnlyFile(f, s)
            BY <2>1, SameFiles
        <3>2. CASE load.loaded[f] = NoFile
            <4>1. NoFiles(f)
                BY <1>7, <2>1, <3>2 DEF NoFiles
            <4>2. ~Valid(f, "dat") /\ ~Valid(f, "plain") /\ disk[<<f, "dat">>] = NoFile
                BY <4>1, WholeFacts DEF NoFiles, Exists, Valid, Slots
            <4>3. Loadable(f) = 0 /\ cache'[f] = 0
                <5>1. NoFile.tmpl = 0
                    BY DEF NoFile
                <5> QED
                    BY <1>1, <2>1, <3>2, <4>2, <5>1, LoadableFacts
            <4> QED
                BY <2>1, <3>1, <4>1, <4>2, <4>3, WholeFacts DEF Matches, CachedFile
        <3>3. CASE load.loaded[f] # NoFile
            <4>1. Loadable(f) # 0 /\ cache'[f] = Loadable(f)
                BY <1>7, <2>1, <3>3, WholeFacts
            <4>2. Valid(f, "dat") \/ Valid(f, "plain")
                BY <1>1, <4>1, LoadableFacts
            <4>3. (Exists(f, "dat") /\ disk[<<f, "dat">>] # Outdated) \/ Exists(f, "plain")
                BY <4>2, WholeFacts DEF Exists, Valid
            <4>4. NoFiles(f) \/ (\E s \in Slots : OnlyFile(f, s)) =>
                    /\ OnlyFile(f, "dat") \/ OnlyFile(f, "plain")
                    /\ disk[<<f, "dat">>] # Outdated
                BY <4>3, WholeFacts DEF OnlyFile, NoFiles, Exists, Slots
            <4>5. "dat" \in Slots /\ "plain" \in Slots
                BY DEF Slots
            <4> QED
                BY <2>1, <3>1, <4>1, <4>4, <4>5 DEF Matches, CachedFile
        <3> QED
            BY <3>2, <3>3
    <2>3. overlap = "never" => \A f \in Faces : (NoFiles(f) \/ \E s \in Slots : OnlyFile(f, s))'
        BY <1>8, <2>1, SameFiles
    <2>4. FilesProgress'
        BY <1>5, <1>8, <2>1, <2>2, <2>3 DEF FilesProgress
    <2>5. LoadProgress' /\ IdleMatches'
        BY <2>1, <2>2 DEF LoadProgress, IdleMatches
    <2> QED
        BY <1>6, <2>4, <2>5 DEF MapIInv
<1> QED
    BY <1>10, <1>11, <1>12, <1>13, <1>14, <1>15

-----------------------------------------------------------------------------
(* A deletion that runs alone. *)
LEMMA DeleteAlone ==
    ASSUME MapIInv, TypeOK', ContentsMade', overlap # "since", overlap' = overlap,
           save.pc = "idle", load.pc = "idle",
           \/ \E f \in Faces : DeleteBegin(f)
           \/ DeleteDat \/ DeletePlain \/ DeleteCount \/ DeleteWipe \/ DeleteErase
    PROVE  MapIInv'
<1>1. TypeOK /\ ContentsMade /\ DeleteProgress /\ IdleMatches /\ FilesProgress
    BY DEF MapIInv
<1>2. delete \in [pc : {"idle", "dat", "plain", "count", "wipe", "erase"}, face : Faces]
    BY <1>1 DEF TypeOK
<1>3. PICK face \in Faces : face = delete.face
    BY <1>2
<1>4. disk \in [Faces \X Slots -> Contents] /\ cache \in [Faces -> 0..MaxSaves]
    BY <1>1 DEF TypeOK
<1>5. UNCHANGED <<save, load, cut, up>> /\ up
    BY <1>1 DEF ContentsMade, DeleteBegin, DeleteDat, DeletePlain, DeleteCount, DeleteWipe, DeleteErase
<1>6. OneOperation' /\ SaveProgress' /\ LoadProgress'
    BY <1>5 DEF OneOperation, SaveProgress, LoadProgress
<1> SUFFICES DeleteProgress' /\ IdleMatches' /\ FilesProgress'
    BY <1>6 DEF MapIInv
<1>7. CASE \E f \in Faces : DeleteBegin(f)
    <2> PICK f \in Faces : DeleteBegin(f)
        BY <1>7
    <2>1. /\ Idle /\ delete'.pc = "dat" /\ delete'.face = f /\ UNCHANGED <<disk, cache>>
        BY DEF DeleteBegin, Idle
    <2>2. /\ \A g \in Faces : Matches(g)
          /\ overlap = "never" => \A g \in Faces : CachedFile(g)
          /\ overlap = "never" => \A g \in Faces : NoFiles(g) \/ \E s \in Slots : OnlyFile(g, s)
        BY <1>1, <1>5, <2>1 DEF IdleMatches, FilesProgress, Idle
    <2>3. /\ \A g \in Faces : Matches(g)'
          /\ overlap = "never" => \A g \in Faces : CachedFile(g)'
          /\ overlap = "never" => \A g \in Faces : (NoFiles(g) \/ \E s \in Slots : OnlyFile(g, s))'
        BY <1>5, <2>1, <2>2, SameFace, SameFiles
    <2>4. overlap = "never" => ~Exists(f, "dat.tmp")' /\ ~Exists(f, "plain.tmp")'
        BY <2>1, <2>2 DEF CachedFile, NoFiles, OnlyFile, Exists, Slots
    <2>5. DeleteProgress' /\ IdleMatches'
        BY <2>1, <2>3 DEF DeleteProgress, IdleMatches, Idle
    <2>6. FilesProgress'
        BY <1>5, <2>1, <2>3, <2>4 DEF FilesProgress
    <2> QED
        BY <2>5, <2>6
<1> SUFFICES ASSUME ~\E f \in Faces : DeleteBegin(f)
             PROVE  DeleteProgress' /\ IdleMatches' /\ FilesProgress'
    BY <1>7
<1>8. delete.pc # "idle"
    BY DEF DeleteDat, DeletePlain, DeleteCount, DeleteWipe, DeleteErase
<1>9. /\ \A g \in Faces : g # face => Matches(g)
      /\ delete.pc # "dat" => ~Exists(face, "dat")
      /\ delete.pc \in {"count", "wipe", "erase"} => ~Exists(face, "plain")
      /\ delete.pc = "wipe" => ~HasFaces
      /\ overlap = "never" => \A g \in Faces : g # face => CachedFile(g)
      /\ overlap = "never" => \A g \in Faces : NoFiles(g) \/ \E s \in Slots : OnlyFile(g, s)
      /\ overlap = "never" => ~Exists(face, "dat.tmp") /\ ~Exists(face, "plain.tmp")
    BY <1>1, <1>3, <1>5, <1>8 DEF DeleteProgress, FilesProgress
<1>10. /\ \A g \in Faces, s \in Slots :
             /\ disk'[<<g, s>>] = disk[<<g, s>>] \/ disk'[<<g, s>>] = NoFile
             /\ g # face => disk'[<<g, s>>] = disk[<<g, s>>]
       /\ \A g \in Faces : g # face => cache'[g] = cache[g]
    <2>1. CASE DeleteDat \/ DeletePlain
        BY <1>3, <1>4, <2>1 DEF DeleteDat, DeletePlain, RemovePlain, Remove, Put
    <2>2. CASE DeleteCount
        BY <2>2 DEF DeleteCount
    <2>3. CASE DeleteWipe
        BY <1>9, <2>3 DEF DeleteWipe, HasFaces, Exists
    <2>4. CASE DeleteErase
        BY <1>3, <1>4, <2>4 DEF DeleteErase
    <2> QED
        BY <2>1, <2>2, <2>3, <2>4
<1>11. \A g \in Faces : g # face => Matches(g)' /\ (overlap = "never" => CachedFile(g)')
    <2> SUFFICES ASSUME NEW g \in Faces, g # face
                 PROVE  Matches(g)' /\ (overlap = "never" => CachedFile(g)')
        OBVIOUS
    <2>1. (\A s \in Slots : disk'[<<g, s>>] = disk[<<g, s>>]) /\ cache'[g] = cache[g] /\ (cut => cut')
        BY <1>5, <1>10
    <2> QED
        BY <1>9, <2>1, SameFace
<1>12. overlap = "never" => \A g \in Faces : (NoFiles(g) \/ \E s \in Slots : OnlyFile(g, s))'
    BY <1>9, <1>10, RemovalKeepsOne
<1>13. \A s \in Slots : ~Exists(face, s) => ~Exists(face, s)'
    BY <1>10 DEF Exists
<1>14. CASE ~DeleteErase
    <2>1. delete'.pc # "idle" /\ delete'.face = face
        BY <1>2, <1>3, <1>14 DEF DeleteDat, DeletePlain, DeleteCount, DeleteWipe
    <2>2. FilesProgress' /\ IdleMatches'
        BY <1>5, <1>9, <1>11, <1>12, <1>13, <2>1 DEF FilesProgress, IdleMatches, Idle, Slots
    <2>3. CASE DeleteDat
        <3>1. delete'.pc = "plain" /\ ~Exists(face, "dat")'
            BY <1>2, <1>3, <1>4, <2>3 DEF DeleteDat, Remove, Put, Exists, Slots
        <3> QED
            BY <1>11, <2>1, <2>2, <3>1 DEF DeleteProgress
    <2>4. CASE DeletePlain
        <3>1. delete'.pc = "count" /\ delete.pc = "plain" /\ ~Exists(face, "plain")'
            BY <1>2, <1>3, <1>4, <2>4 DEF DeletePlain, RemovePlain, Remove, Put, Exists, Slots
        <3> QED
            BY <1>9, <1>11, <1>13, <2>1, <2>2, <3>1 DEF DeleteProgress, Slots
    <2>5. CASE DeleteCount
        <3>1. /\ delete.pc = "count" /\ delete'.pc \in {"wipe", "erase"}
              /\ delete'.pc = "wipe" => ~HasFaces
              /\ UNCHANGED disk
            BY <1>2, <2>5 DEF DeleteCount
        <3>2. delete'.pc = "wipe" => ~HasFaces'
            BY <3>1 DEF HasFaces, Exists
        <3> QED
            BY <1>9, <1>11, <1>13, <2>1, <2>2, <3>1, <3>2 DEF DeleteProgress, Slots
    <2>6. CASE DeleteWipe
        <3>1. delete.pc = "wipe" /\ delete'.pc = "erase"
            BY <1>2, <2>6 DEF DeleteWipe
        <3> QED
            BY <1>9, <1>11, <1>13, <2>1, <2>2, <3>1 DEF DeleteProgress, Slots
    <2> QED
        BY <1>14, <2>3, <2>4, <2>5, <2>6
<1>15. CASE DeleteErase
    <2>1. delete.pc = "erase" /\ delete'.pc = "idle" /\ UNCHANGED disk /\ cache'[face] = 0
        BY <1>3, <1>4, <1>15 DEF DeleteErase, NoDelete
    <2>2. /\ ~Exists(face, "dat") /\ ~Exists(face, "plain")
          /\ disk[<<face, "dat">>] = NoFile /\ disk[<<face, "plain">>] = NoFile
        BY <1>9, <2>1 DEF Exists
    <2>3. Loadable(face)' = 0
        BY <2>1, <2>2, WholeFacts DEF Loadable, Valid
    <2>4. overlap = "never" => NoFiles(face)'
        BY <1>9, <2>1, <2>2 DEF NoFiles, Exists, Slots
    <2>5. Matches(face)' /\ (overlap = "never" => CachedFile(face)')
        BY <2>1, <2>2, <2>3, <2>4, WholeFacts DEF Matches, CachedFile
    <2>6. FilesProgress'
        BY <1>5, <1>11, <1>12, <2>1, <2>5 DEF FilesProgress
    <2>7. DeleteProgress' /\ IdleMatches'
        BY <1>11, <2>1, <2>5 DEF DeleteProgress, IdleMatches
    <2> QED
        BY <2>6, <2>7
<1> QED
    BY <1>14, <1>15

-----------------------------------------------------------------------------
(* The service dies; the next restore starts from what it left. *)
LEMMA CrashKeeps ==
    ASSUME MapIInv, TypeOK', ContentsMade', Crash
    PROVE  MapIInv'
<1>1. /\ save'.pc = "idle" /\ load'.pc = "idle" /\ delete'.pc = "idle" /\ ~up'
      /\ UNCHANGED <<disk, overlap>>
    BY DEF Crash, NoSave, NoLoad, NoDelete
<1>2. overlap = "never" => \A f \in Faces : (NoFiles(f) \/ \E s \in Slots : OnlyFile(f, s))'
    BY <1>1, SameFiles DEF MapIInv, FilesProgress
<1> QED
    BY <1>1, <1>2 DEF MapIInv, OneOperation, SaveProgress, LoadProgress, DeleteProgress,
        IdleMatches, FilesProgress

(* The map's invariant, where no call to Keystore2 fails a restore.           *)
THEOREM MapIInvHolds ==
    ASSUME ~DecryptFails, ~VerifyFails PROVE Spec => []MapIInv
<1>1. Init => MapIInv
    <2> SUFFICES ASSUME Init PROVE MapIInv
        OBVIOUS
    <2>1. ContentsMade
        BY DEF Init, ContentsMade, Stored, NoSave, NoDelete
    <2>2. \A f \in Faces : NoFiles(f) \/ OnlyFile(f, "dat")
        BY WholeFacts DEF Init, NoFiles, OnlyFile, Exists, Slots
    <2>3. FilesProgress
        BY <2>2 DEF Init, FilesProgress, NoSave, NoDelete, Slots
    <2> QED
        BY <2>1, <2>3, InitType DEF Init, MapIInv, OneOperation, SaveProgress, LoadProgress,
            DeleteProgress, IdleMatches, NoSave, NoLoad, NoDelete
<1>2. MapIInv /\ [Next]_vars => MapIInv'
    <2> SUFFICES ASSUME MapIInv, [Next]_vars PROVE MapIInv'
        OBVIOUS
    <2>1. TypeOK'
        BY NextType DEF MapIInv
    <2>2. CASE UNCHANGED vars
        <3>1. UNCHANGED <<disk, cache, up, save, load, delete, cut, overlap, saves>>
            BY <2>2 DEF vars
        <3>2. ContentsMade' /\ OneOperation'
            BY <3>1 DEF MapIInv, ContentsMade, OneOperation
        <3>3. SaveProgress' /\ IdleMatches'
            BY <3>1 DEF MapIInv, SaveProgress, IdleMatches, Matches, Broken, Loadable, Valid, Idle
        <3>4. LoadProgress' /\ DeleteProgress'
            BY <3>1 DEF MapIInv, LoadProgress, DeleteProgress, Matches, Broken, Loadable, Valid,
                Exists, HasFaces
        <3>5. FilesProgress'
            BY <3>1 DEF MapIInv, FilesProgress, NoFiles, OnlyFile, CachedFile, Exists
        <3> QED
            BY <2>1, <3>2, <3>3, <3>4, <3>5 DEF MapIInv
    <2>3. CASE Next
        <3>1. ContentsMade'
            BY <2>1, <2>3, ContentsSave, ContentsOthers DEF Next
        <3>2. CASE Crash
            BY <2>1, <3>1, <3>2, CrashKeeps
        <3>3. CASE RestoreBegin /\ Idle
            BY <2>1, <3>1, <3>3, RestoreBegins
        <3>4. CASE overlap' = "since"
            BY <2>1, <3>1, <3>4, NothingClaimed
        <3>5. CASE ~Crash /\ ~(RestoreBegin /\ Idle) /\ overlap' # "since"
            <4>1. overlap' = overlap /\ ~RestoreBegin
                BY <2>3, <3>5 DEF Next, SaveBegin, DeleteBegin, Overlaps, SaveSign, SaveEncrypt,
                    SaveOpen, SaveWrite, SaveRename, SaveRemoveStale, SaveInstall, RestoreBegin,
                    RestoreEntry, RestoreReadDat, RestoreReadPlain, RestoreClean, RestoreEnds,
                    RestoreInstall, DeleteDat, DeletePlain, DeleteCount, DeleteWipe, DeleteErase
            <4>2. /\ save.pc # "idle" => load.pc = "idle" /\ delete.pc = "idle"
                  /\ load.pc # "idle" => delete.pc = "idle"
                BY <3>5, <4>1 DEF MapIInv, OneOperation
            <4>3. CASE \/ \E f \in Faces : SaveBegin(f)
                       \/ SaveSign \/ SaveEncrypt \/ SaveOpen \/ SaveWrite \/ SaveRename
                       \/ SaveRemoveStale \/ SaveInstall
                <5>1. load.pc = "idle" /\ delete.pc = "idle"
                    BY <3>5, <4>2, <4>3 DEF SaveBegin, Overlaps, Idle, SaveSign, SaveEncrypt, SaveOpen,
                        SaveWrite, SaveRename, SaveRemoveStale, SaveInstall
                <5> QED
                    BY <2>1, <3>1, <3>5, <4>1, <4>3, <5>1, SaveAlone
            <4>4. CASE \/ \E f \in Faces, s \in Slots : RestoreEntry(f, s)
                       \/ RestoreReadDat \/ RestoreReadPlain \/ RestoreClean
                       \/ RestoreEnds \/ RestoreInstall
                <5>1. load.pc # "idle"
                    BY <4>4 DEF RestoreEntry, RestoreReadDat, RestoreReadPlain, RestoreClean,
                        RestoreEnds, RestoreInstall
                <5> QED
                    BY <2>1, <3>1, <3>5, <4>1, <4>2, <4>4, <5>1, RestoreAlone
            <4>5. CASE \/ \E f \in Faces : DeleteBegin(f)
                       \/ DeleteDat \/ DeletePlain \/ DeleteCount \/ DeleteWipe \/ DeleteErase
                <5>1. save.pc = "idle" /\ load.pc = "idle"
                    BY <3>5, <4>2, <4>5 DEF DeleteBegin, Overlaps, Idle, DeleteDat, DeletePlain,
                        DeleteCount, DeleteWipe, DeleteErase
                <5> QED
                    BY <2>1, <3>1, <3>5, <4>1, <4>5, <5>1, DeleteAlone
            <4> QED
                BY <2>3, <3>5, <4>1, <4>3, <4>4, <4>5 DEF Next
        <3> QED
            BY <3>2, <3>3, <3>4, <3>5
    <2> QED
        BY <2>2, <2>3
<1> QED
    BY <1>1, <1>2, PTL DEF Spec

(* A face with one file has exactly one. *)
LEMMA CachedFileIsOne ==
    ASSUME NEW f \in Faces, CachedFile(f) PROVE OneFile(f)
<1>1. CASE cache[f] = 0
    <2>1. {s \in Slots : Exists(f, s)} = {}
        BY <1>1 DEF CachedFile, NoFiles
    <2> QED
        BY <1>1, <2>1, FS_EmptySet DEF CachedFile, NoFiles, OneFile, Slots
<1>2. CASE cache[f] # 0
    <2>1. PICK s \in {"dat", "plain"} : OnlyFile(f, s)
        BY <1>2 DEF CachedFile
    <2>2. {t \in Slots : Exists(f, t)} = {s}
        BY <2>1 DEF OnlyFile, Slots
    <2>3. Cardinality({s}) = 1
        BY FS_Singleton
    <2> QED
        BY <1>2, <2>1, <2>2, <2>3 DEF CachedFile, OnlyFile, OneFile, Slots
<1> QED
    BY <1>1, <1>2

(* Between operations the engine's map is what the directory holds, and as     *)
(* long as none have overlapped each face has one file and nothing is left   *)
(* over, whatever crashed, failed or was cut short.                        *)
THEOREM DirectoryHoldsMap ==
    ASSUME ~DecryptFails, ~VerifyFails PROVE Spec => []CacheMatchesDisk
<1>1. MapIInv => CacheMatchesDisk
    <2> SUFFICES ASSUME MapIInv, Idle, up, overlap # "since", NEW f \in Faces
                 PROVE  /\ cache[f] = Loadable(f) \/ (cut /\ Broken(f))
                        /\ overlap = "never" => OneFile(f)
        BY DEF CacheMatchesDisk
    <2>1. Matches(f)
        BY DEF MapIInv, IdleMatches
    <2>2. overlap = "never" => CachedFile(f)
        BY DEF MapIInv, FilesProgress, Idle
    <2> QED
        BY <2>1, <2>2, CachedFileIsOne DEF Matches
<1> QED
    BY <1>1, MapIInvHolds, PTL

(* What a restore is about to install is what can be loaded. *)
LEMMA InstallFacts ==
    ASSUME MapIInv, load.pc = "install", overlap # "since", NEW f \in Faces
    PROVE  /\ load.loaded[f].tmpl = Loadable(f)
           /\ \A s \in Slots : Exists(f, s) => Loadable(f) # 0
<1>1. /\ \A s \in Slots : Exists(f, s) => load.loaded[f] # NoFile
      /\ load.loaded[f] # NoFile => Loadable(f) # 0 /\ load.loaded[f] = Whole(Loadable(f))
    BY DEF MapIInv, LoadProgress
<1>2. CASE load.loaded[f] # NoFile
    BY <1>1, <1>2, WholeFacts
<1>3. CASE load.loaded[f] = NoFile
    <2>1. NoFile.tmpl = 0
        BY DEF NoFile
    <2>2. ~Valid(f, "dat") /\ ~Valid(f, "plain")
        BY <1>1, <1>3, WholeFacts DEF Exists, Valid, Slots
    <2> QED
        BY <1>1, <1>3, <2>1, <2>2 DEF Loadable
<1> QED
    BY <1>2, <1>3

(* A session created alone starts from every template that can be loaded and   *)
(* leaves no file of any other face, even after writes that were cut short   *)
(* and operations side by side.                                            *)
THEOREM SessionsStartClean ==
    ASSUME ~DecryptFails, ~VerifyFails PROVE Spec => SessionStartsClean
<1>1. MapIInv /\ [Next]_vars =>
        [SessionCreated /\ overlap # "since" =>
            \A f \in Faces :
                /\ cache'[f] = Loadable(f)
                /\ \A s \in Slots : Exists(f, s) => Loadable(f) # 0]_vars
    <2> SUFFICES ASSUME MapIInv, [Next]_vars, SessionCreated, overlap # "since", NEW f \in Faces
                 PROVE  /\ cache'[f] = Loadable(f)
                        /\ \A s \in Slots : Exists(f, s) => Loadable(f) # 0
        OBVIOUS
    <2>1. RestoreInstall
        <3>1. load.pc = "install" /\ load'.pc = "idle" /\ load' # load /\ crashes' = crashes
            BY DEF SessionCreated
        <3>2. ~Crash
            BY <3>1 DEF Crash, MapIInv, TypeOK
        <3> QED
            BY <3>1, <3>2 DEF vars, Next, RestoreBegin, RestoreEntry, RestoreReadDat,
                RestoreReadPlain, RestoreClean, RestoreEnds, SaveBegin, SaveSign, SaveEncrypt,
                SaveOpen, SaveWrite, SaveRename, SaveRemoveStale, SaveInstall, DeleteBegin,
                DeleteDat, DeletePlain, DeleteCount, DeleteWipe, DeleteErase
    <2>2. load.pc = "install" /\ cache'[f] = load.loaded[f].tmpl
        BY <2>1 DEF RestoreInstall
    <2> QED
        BY <2>2, InstallFacts
<1> QED
    BY <1>1, MapIInvHolds, PTL DEF Spec, SessionStartsClean

-----------------------------------------------------------------------------
(***************************************************************************)
(* The storage implements TemplateMap: a step of the storage is a step of   *)
(* the map, or changes nothing of it.                                      *)
(***************************************************************************)
Step == [Promise!Next]_(Promise!vars)

Same(f) == Loadable(f)' = Loadable(f) /\ (Broken(f)' <=> Broken(f))

LEMMA Stutter ==
    ASSUME UNCHANGED <<cache, up, saves, overlap>>, \A f \in Faces : Same(f)
    PROVE  Step
<1>1. [f \in Faces |-> Loadable(f)]' = [f \in Faces |-> Loadable(f)]
    BY DEF Same
<1>2. {f \in Faces : Broken(f)}' = {f \in Faces : Broken(f)}
    BY DEF Same
<1> QED
    BY <1>1, <1>2 DEF Step, Promise!vars

(* The abstract steps that touch one face. *)
LEMMA StoresOrBreaks ==
    ASSUME UNCHANGED <<cache, up, saves, overlap>>, overlap = "never", NEW f \in Faces,
           \A g \in Faces : g # f => Same(g), saves > 0, Loadable(f) = 0,
           \A g \in Faces : Loadable(g) # saves,
           \/ Loadable(f)' = saves /\ (Broken(f)' <=> Broken(f))
           \/ Loadable(f)' = 0 /\ Broken(f)'
    PROVE  Step
<1> DEFINE stored == [g \in Faces |-> Loadable(g)]
           broken == {g \in Faces : Broken(g)}
<1>1. \/ stored' = [stored EXCEPT ![f] = saves] /\ broken' = broken
      \/ stored' = stored /\ broken' = broken \cup {f}
    <2>1. CASE Loadable(f)' = saves /\ (Broken(f)' <=> Broken(f))
        <3>1. stored' = [stored EXCEPT ![f] = saves]
            BY <2>1 DEF Same
        <3>2. broken' = broken
            BY <2>1 DEF Same
        <3> QED
            BY <3>1, <3>2
    <2>2. CASE Loadable(f)' = 0 /\ Broken(f)'
        <3>1. stored' = stored
            BY <2>2 DEF Same
        <3>2. broken' = broken \cup {f}
            BY <2>2 DEF Same
        <3> QED
            BY <3>1, <3>2
    <2> QED
        BY <2>1, <2>2
<1>2. stored[f] = 0 /\ (\A g \in Faces : stored[g] # saves)
    OBVIOUS
<1>3. Promise!Store(f)
    BY <1>1, <1>2 DEF Promise!Store
<1> QED
    BY <1>3 DEF Step, Promise!Next

LEMMA DeletesOrDiscards ==
    ASSUME UNCHANGED <<cache, up, saves, overlap>>, overlap = "never", NEW f \in Faces,
           \A g \in Faces : g # f => Same(g),
           \/ Same(f)
           \/ up /\ Loadable(f) # 0 /\ Loadable(f)' = 0 /\ (Broken(f)' <=> Broken(f))
           \/ Loadable(f)' = Loadable(f) /\ Broken(f) /\ ~Broken(f)'
    PROVE  Step
<1> DEFINE stored == [g \in Faces |-> Loadable(g)]
           broken == {g \in Faces : Broken(g)}
<1>1. CASE Same(f)
    BY <1>1, Stutter
<1>2. CASE up /\ Loadable(f) # 0 /\ Loadable(f)' = 0 /\ (Broken(f)' <=> Broken(f))
    <2>1. stored' = [stored EXCEPT ![f] = 0] /\ stored[f] # 0
        BY <1>2 DEF Same
    <2>2. broken' = broken
        BY <1>2 DEF Same
    <2>3. Promise!Delete(f)
        BY <1>2, <2>1, <2>2 DEF Promise!Delete
    <2> QED
        BY <2>3 DEF Step, Promise!Next
<1>3. CASE Loadable(f)' = Loadable(f) /\ Broken(f) /\ ~Broken(f)'
    <2>1. stored' = stored
        BY <1>3 DEF Same
    <2>2. broken' = broken \ {f} /\ f \in broken
        BY <1>3 DEF Same
    <2>3. Promise!Discard(f)
        BY <2>1, <2>2 DEF Promise!Discard
    <2> QED
        BY <2>3 DEF Step, Promise!Next
<1> QED
    BY <1>1, <1>2, <1>3

(* Templates are numbered as they are made, and the one being saved is not     *)
(* stored before the rename.                                               *)
Newest ==
    /\ \A f \in Faces, s \in Slots : disk[<<f, s>>].kind = "whole" => disk[<<f, s>>].tmpl <= saves
    /\ save.pc \in {"sign", "encrypt", "open", "write", "rename"} =>
          \A f \in Faces, s \in {"dat", "plain"} :
              disk[<<f, s>>].kind = "whole" => disk[<<f, s>>].tmpl < saves

LEMMA NewestKept ==
    ASSUME MapIInv, Newest, [Next]_vars PROVE Newest'
<1>1. /\ TypeOK /\ ContentsMade /\ disk \in [Faces \X Slots -> Contents]
      /\ save \in [pc : {"idle", "sign", "encrypt", "open", "write", "rename",
                         "removeStale", "install"},
                   face : Faces, slot : {"dat", "plain"}, tmpl : 0..MaxSaves]
      /\ saves \in 0..MaxSaves
    BY DEF MapIInv, TypeOK
<1>2. PICK face \in Faces, slot \in {"dat", "plain"} : face = save.face /\ slot = save.slot
    BY <1>1
<1>3. slot \in Slots /\ Temp(slot) \in Slots /\ Temp(slot) \notin {"dat", "plain"} /\ Other(slot) \in Slots
    BY DEF Temp, Other, Slots
<1>4. NoSave.pc = "idle"
    BY DEF NoSave
<1>5. ASSUME \A f \in Faces, s \in Slots : disk'[<<f, s>>] = disk[<<f, s>>] \/ disk'[<<f, s>>].kind # "whole",
             saves' = saves,
             save'.pc \in {"sign", "encrypt", "open", "write", "rename"} =>
                save.pc \in {"sign", "encrypt", "open", "write", "rename"}
      PROVE  Newest'
    BY <1>5 DEF Newest, Slots
<1>6. CASE \E f \in Faces : SaveBegin(f)
    <2>1. saves' = saves + 1 /\ UNCHANGED disk
        BY <1>6 DEF SaveBegin
    <2>2. \A f \in Faces, s \in Slots :
            disk[<<f, s>>].kind = "whole" => disk[<<f, s>>].tmpl \in 1..MaxSaves
        BY <1>1, StoredFacts DEF ContentsMade
    <2>3. \A f \in Faces, s \in Slots :
            disk'[<<f, s>>].kind = "whole" => disk'[<<f, s>>].tmpl < saves'
        <3> SUFFICES ASSUME NEW f \in Faces, NEW s \in Slots, disk[<<f, s>>].kind = "whole"
                     PROVE  disk[<<f, s>>].tmpl < saves + 1
            BY <2>1
        <3>1. disk[<<f, s>>].tmpl \in 1..MaxSaves
            BY <2>2
        <3>2. disk[<<f, s>>].tmpl <= saves
            BY DEF Newest
        <3> DEFINE t == disk[<<f, s>>].tmpl
        <3>3. t \in 1..MaxSaves /\ t <= saves
            BY <3>1, <3>2
        <3> HIDE DEF t
        <3>4. t < saves + 1
            BY <1>1, <3>3, BoundsAssumption DEF BoundsAssumption
        <3> QED
            BY <3>4 DEF t
    <2>4. \A f \in Faces, s \in Slots :
            disk'[<<f, s>>].kind = "whole" => disk'[<<f, s>>].tmpl <= saves'
        <3> SUFFICES ASSUME NEW f \in Faces, NEW s \in Slots, disk'[<<f, s>>].kind = "whole"
                     PROVE  disk'[<<f, s>>].tmpl <= saves'
            OBVIOUS
        <3> DEFINE t == disk'[<<f, s>>].tmpl
        <3>1. t < saves' /\ t \in 1..MaxSaves
            BY <2>1, <2>2, <2>3
        <3> HIDE DEF t
        <3>2. t <= saves'
            BY <1>1, <2>1, <3>1, BoundsAssumption DEF BoundsAssumption
        <3> QED
            BY <3>2 DEF t
    <2> QED
        BY <2>3, <2>4 DEF Newest, Slots
<1>7. CASE SaveWrite
    <2>1. saves' = saves /\ save.pc = "write"
        BY <1>7 DEF SaveWrite
    <2>2. save.tmpl = saves
        BY <1>1, <2>1 DEF ContentsMade
    <2>3. CASE UNCHANGED disk
        BY <1>5, <2>1, <2>3
    <2>4. CASE Put(face, Temp(slot), Whole(save.tmpl))
        <3>1. \A f \in Faces, s \in Slots :
                disk'[<<f, s>>] = IF f = face /\ s = Temp(slot) THEN Whole(saves) ELSE disk[<<f, s>>]
            BY <1>1, <1>3, <2>2, <2>4 DEF Put
        <3>2. \A f \in Faces, s \in {"dat", "plain"} : disk'[<<f, s>>] = disk[<<f, s>>]
            BY <1>3, <3>1 DEF Slots
        <3> QED
            BY <1>1, <2>1, <3>1, <3>2, WholeFacts DEF Newest
    <2> QED
        BY <1>2, <1>7, <2>3, <2>4 DEF SaveWrite
<1>8. CASE SaveRename
    <2>1. saves' = saves /\ save.pc = "rename" /\ save'.pc \in {"removeStale", "idle"}
        BY <1>1, <1>4, <1>8 DEF SaveRename
    <2>2. CASE UNCHANGED disk
        BY <1>5, <2>1, <2>2
    <2>3. CASE ~UNCHANGED disk
        <3>1. \A f \in Faces, s \in Slots :
                disk'[<<f, s>>] = IF f = face /\ s = slot THEN disk[<<face, Temp(slot)>>]
                                  ELSE IF f = face /\ s = Temp(slot) THEN NoFile ELSE disk[<<f, s>>]
            BY <1>1, <1>2, <1>3, <1>8, <2>3 DEF SaveRename
        <3>2. \A f \in Faces, s \in Slots :
                disk'[<<f, s>>].kind = "whole" => disk'[<<f, s>>].tmpl <= saves
            <4> SUFFICES ASSUME NEW f \in Faces, NEW s \in Slots, disk'[<<f, s>>].kind = "whole"
                         PROVE  disk'[<<f, s>>].tmpl <= saves
                OBVIOUS
            <4>1. CASE f = face /\ s = slot
                <5>1. disk'[<<f, s>>] = disk[<<face, Temp(slot)>>]
                    BY <3>1, <4>1
                <5> QED
                    BY <1>3, <5>1 DEF Newest
            <4>2. CASE ~(f = face /\ s = slot)
                <5>1. disk'[<<f, s>>] = disk[<<f, s>>]
                    BY <3>1, <4>2, WholeFacts
                <5> QED
                    BY <5>1 DEF Newest
            <4> QED
                BY <4>1, <4>2
        <3> QED
            BY <2>1, <3>2 DEF Newest
    <2> QED
        BY <2>2, <2>3
<1>9. CASE SaveOpen
    <2>1. saves' = saves /\ save.pc = "open"
        BY <1>9 DEF SaveOpen
    <2>2. CASE UNCHANGED disk
        BY <1>5, <2>1, <2>2
    <2>3. CASE Put(face, Temp(slot), Torn)
        BY <1>1, <1>3, <1>5, <2>1, <2>3, WholeFacts DEF Put
    <2> QED
        BY <1>2, <1>9, <2>2, <2>3 DEF SaveOpen
<1>10. CASE SaveSign \/ SaveEncrypt \/ SaveRemoveStale \/ SaveInstall
    <2>1. /\ saves' = saves
          /\ save'.pc \in {"sign", "encrypt", "open", "write", "rename"} =>
                save.pc \in {"sign", "encrypt", "open", "write", "rename"}
        BY <1>1, <1>4, <1>10 DEF SaveSign, SaveEncrypt, SaveRemoveStale, SaveInstall
    <2>2. CASE UNCHANGED disk
        BY <1>5, <2>1, <2>2
    <2>3. CASE SaveRemoveStale
        BY <1>1, <1>2, <1>3, <1>5, <2>1, <2>3, WholeFacts DEF SaveRemoveStale, Remove, Put
    <2> QED
        BY <1>10, <2>2, <2>3 DEF SaveSign, SaveEncrypt, SaveInstall
<1>11. CASE Crash \/ UNCHANGED vars
    BY <1>4, <1>5, <1>11 DEF Crash, vars
<1>12. CASE \/ RestoreBegin \/ \E f \in Faces, s \in Slots : RestoreEntry(f, s)
            \/ RestoreReadDat \/ RestoreReadPlain \/ RestoreClean \/ RestoreEnds \/ RestoreInstall
            \/ \E f \in Faces : DeleteBegin(f)
            \/ DeleteDat \/ DeletePlain \/ DeleteCount \/ DeleteWipe \/ DeleteErase
    <2>1. UNCHANGED <<save, saves>>
        BY <1>12 DEF RestoreBegin, RestoreEntry, RestoreReadDat, RestoreReadPlain, RestoreClean,
            RestoreEnds, RestoreInstall, DeleteBegin, DeleteDat, DeletePlain, DeleteCount,
            DeleteWipe, DeleteErase
    <2>2. \A f \in Faces, s \in Slots : disk'[<<f, s>>] = disk[<<f, s>>] \/ disk'[<<f, s>>] = NoFile
        <3>1. CASE RestoreClean \/ DeleteDat \/ DeletePlain
            BY <1>1, <3>1 DEF RestoreClean, CleanEntry, DeleteDat, DeletePlain, RemovePlain, Remove, Put
        <3>2. CASE RestoreEnds \/ DeleteWipe
            BY <3>2 DEF RestoreEnds, DeleteWipe
        <3> QED
            BY <1>12, <3>1, <3>2 DEF RestoreBegin, RestoreEntry, RestoreReadDat, RestoreReadPlain,
                RestoreInstall, DeleteBegin, DeleteCount, DeleteErase
    <2> QED
        BY <1>5, <2>1, <2>2, WholeFacts
<1> QED
    BY <1>6, <1>7, <1>8, <1>9, <1>10, <1>11, <1>12 DEF Next

(* While nothing overlaps, a save makes a template, and its rename stores it. *)
LEMMA SaveRefines ==
    ASSUME MapIInv, MapIInv', Newest, overlap = "never", overlap' = overlap,
           \/ \E f \in Faces : SaveBegin(f)
           \/ SaveSign \/ SaveEncrypt \/ SaveOpen \/ SaveWrite \/ SaveRename
           \/ SaveRemoveStale \/ SaveInstall
    PROVE  Step
<1>1. /\ ContentsMade /\ ContentsMade' /\ SaveProgress /\ SaveProgress' /\ FilesProgress
      /\ disk \in [Faces \X Slots -> Contents] /\ cache \in [Faces -> 0..MaxSaves]
      /\ save \in [pc : {"idle", "sign", "encrypt", "open", "write", "rename",
                         "removeStale", "install"},
                   face : Faces, slot : {"dat", "plain"}, tmpl : 0..MaxSaves]
    BY DEF MapIInv, TypeOK
<1>2. PICK face \in Faces, slot \in {"dat", "plain"} : face = save.face /\ slot = save.slot
    BY <1>1
<1>3. slot \in Slots /\ Temp(slot) \in Slots /\ Temp(slot) \notin {"dat", "plain"} /\ Other(slot) \in Slots
    BY DEF Temp, Other, Slots
<1>4. ASSUME UNCHANGED <<cache, up, saves>>,
             \A f \in Faces, s \in {"dat", "plain"} : disk'[<<f, s>>] = disk[<<f, s>>]
      PROVE  Step
    <2>1. \A f \in Faces : Same(f)
        BY <1>4 DEF Same, Loadable, Broken, Valid
    <2> QED
        BY <1>4, <2>1, Stutter
<1>5. CASE \E f \in Faces : SaveBegin(f)
    <2>1. UNCHANGED <<disk, cache, up>> /\ up /\ saves < MaxSaves /\ saves' = saves + 1
        BY <1>5 DEF SaveBegin
    <2>2. /\ [f \in Faces |-> Loadable(f)]' = [f \in Faces |-> Loadable(f)]
          /\ {f \in Faces : Broken(f)}' = {f \in Faces : Broken(f)}
        BY <2>1 DEF Loadable, Broken, Valid
    <2>3. Promise!Make
        BY <2>1, <2>2 DEF Promise!Make
    <2> QED
        BY <2>3 DEF Step, Promise!Next
<1>6. CASE SaveSign \/ SaveEncrypt
    BY <1>4, <1>6 DEF SaveSign, SaveEncrypt
<1>7. CASE SaveOpen \/ SaveWrite
    <2>1. UNCHANGED <<cache, up, saves>>
        BY <1>7 DEF SaveOpen, SaveWrite
    <2>2. \A f \in Faces, s \in {"dat", "plain"} : disk'[<<f, s>>] = disk[<<f, s>>]
        <3>1. UNCHANGED disk \/ \E c : Put(face, Temp(slot), c)
            BY <1>2, <1>7 DEF SaveOpen, SaveWrite
        <3> QED
            BY <1>1, <1>3, <3>1 DEF Put, Slots
    <2> QED
        BY <1>4, <2>1, <2>2
<1>8. CASE SaveRename
    <2>1. UNCHANGED <<cache, up, saves>> /\ save.pc = "rename" /\ save.tmpl = saves /\ saves > 0
        BY <1>1, <1>8 DEF SaveRename, ContentsMade
    <2>2. Loadable(face) = 0 /\ OnlyFile(face, Temp(slot))
        BY <1>1, <1>2, <2>1 DEF SaveProgress, FilesProgress
    <2>3. save' = [save EXCEPT !.pc = "removeStale"]
        BY <1>2, <1>3, <1>8, <2>2 DEF SaveRename, MayRename, OnlyFile
    <2>4. save'.pc = "removeStale" /\ save'.face = face /\ save'.slot = slot /\ save'.tmpl = saves
        BY <1>1, <1>2, <2>1, <2>3
    <2>5. \/ Loadable(face)' = saves
          \/ disk'[<<face, slot>>] = Torn /\ Loadable(face)' = 0
        BY <1>1, <2>4 DEF SaveProgress
    <2>6. \A g \in Faces, s \in Slots : g # face => disk'[<<g, s>>] = disk[<<g, s>>]
        BY <1>1, <1>2, <1>8 DEF SaveRename
    <2>7. \A g \in Faces : g # face => Same(g)
        BY <2>6, SameFiles DEF Same
    <2>8. \A g \in Faces : Loadable(g) # saves
        <3> SUFFICES ASSUME NEW g \in Faces, Loadable(g) = saves PROVE FALSE
            OBVIOUS
        <3>1. PICK s \in {"dat", "plain"} : disk[<<g, s>>] = Whole(saves)
            BY <1>1, <2>1, LoadableFacts
        <3>2. disk[<<g, s>>].kind = "whole" /\ disk[<<g, s>>].tmpl = saves
            BY <3>1, WholeFacts
        <3>3. saves < saves
            BY <2>1, <3>2 DEF Newest
        <3> QED
            BY <3>3 DEF MapIInv, TypeOK
    <2>9. ~Broken(face)
        BY <1>3, <2>2, WholeFacts DEF OnlyFile, Exists, Broken, Slots
    <2>10. \/ Loadable(face)' = saves /\ (Broken(face)' <=> Broken(face))
           \/ Loadable(face)' = 0 /\ Broken(face)'
        BY <2>1, <2>5, <2>9 DEF Broken
    <2> QED
        BY <2>1, <2>2, <2>7, <2>8, <2>10, StoresOrBreaks
<1>9. CASE SaveRemoveStale
    <2>1. UNCHANGED <<cache, up, saves>> /\ OnlyFile(face, slot)
        BY <1>1, <1>2, <1>9 DEF SaveRemoveStale, FilesProgress
    <2>2. disk[<<face, Other(slot)>>] = NoFile
        BY <1>3, <2>1 DEF OnlyFile, Exists, Other
    <2>3. \A f \in Faces, s \in Slots : disk'[<<f, s>>] = disk[<<f, s>>]
        BY <1>1, <1>2, <1>3, <1>9, <2>2 DEF SaveRemoveStale, Remove, Put
    <2> QED
        BY <1>4, <2>1, <2>3 DEF Slots
<1>10. CASE SaveInstall
    <2>1. /\ UNCHANGED <<disk, up, saves>> /\ save.pc = "install"
          /\ cache' = [cache EXCEPT ![face] = saves]
        BY <1>1, <1>2, <1>10 DEF SaveInstall, ContentsMade
    <2>2. \/ Loadable(face) = saves /\ saves > 0
          \/ Broken(face)
        BY <1>1, <1>2, <2>1 DEF SaveProgress, ContentsMade, Broken
    <2>3. /\ [f \in Faces |-> Loadable(f)]' = [f \in Faces |-> Loadable(f)]
          /\ {f \in Faces : Broken(f)}' = {f \in Faces : Broken(f)}
        BY <2>1 DEF Loadable, Broken, Valid
    <2> DEFINE stored == [f \in Faces |-> Loadable(f)]
               broken == {f \in Faces : Broken(f)}
    <2>4. cache' = [cache EXCEPT ![face] = IF face \in broken THEN saves ELSE stored[face]]
        BY <2>1, <2>2
    <2>5. stored[face] # 0 \/ face \in broken
        BY <2>2
    <2>6. Promise!Install(face)
        BY <2>1, <2>3, <2>4, <2>5 DEF Promise!Install
    <2> QED
        BY <2>6 DEF Step, Promise!Next
<1> QED
    BY <1>5, <1>6, <1>7, <1>8, <1>9, <1>10

(* While nothing overlaps, a restore discards broken faces and then starts    *)
(* from what is stored.                                                    *)
LEMMA RestoreRefines ==
    ASSUME MapIInv, MapIInv', overlap = "never", overlap' = overlap,
           \/ RestoreBegin \/ \E f \in Faces, s \in Slots : RestoreEntry(f, s)
           \/ RestoreReadDat \/ RestoreReadPlain \/ RestoreClean
           \/ RestoreEnds \/ RestoreInstall
    PROVE  Step
<1>1. /\ ContentsMade /\ ContentsMade' /\ LoadProgress
      /\ disk \in [Faces \X Slots -> Contents]
      /\ load.face \in Faces /\ load.slot \in Slots
      /\ load.loaded \in [Faces -> {c \in Contents : c.kind \in {"none", "whole"}}]
    BY DEF MapIInv, TypeOK
<1>2. ASSUME UNCHANGED <<cache, up, saves>>,
             \A f \in Faces, s \in Slots : disk'[<<f, s>>] = disk[<<f, s>>]
      PROVE  Step
    <2>1. \A f \in Faces : Same(f)
        BY <1>2, SameFiles DEF Same
    <2> QED
        BY <1>2, <2>1, Stutter
<1>3. CASE RestoreBegin \/ (\E f \in Faces, s \in Slots : RestoreEntry(f, s))
           \/ RestoreReadDat \/ RestoreReadPlain
    BY <1>2, <1>3 DEF RestoreBegin, RestoreEntry, RestoreReadDat, RestoreReadPlain
<1>4. CASE RestoreEnds
    <2>1. WrongVersion = {}
        BY <1>1 DEF WrongVersion
    <2> QED
        BY <1>2, <1>4, <2>1 DEF RestoreEnds
<1>5. CASE RestoreClean
    <2>1. PICK face \in Faces, slot \in Slots : face = load.face /\ slot = load.slot
        BY <1>1
    <2>2. /\ UNCHANGED <<cache, up, saves>> /\ load.pc = "clean"
          /\ \A f \in Faces, s \in Slots :
                disk'[<<f, s>>] = IF f = face /\ s = slot THEN NoFile ELSE disk[<<f, s>>]
        BY <1>1, <1>5, <2>1 DEF RestoreClean, CleanEntry, Remove, Put
    <2>3. ~Valid(face, "dat") /\ ~Valid(face, "plain")
        BY <1>1, <2>1, <2>2 DEF LoadProgress
    <2>4. Loadable(face) = 0 /\ Loadable(face)' = 0 /\ (Broken(face)' => Broken(face))
        BY <2>2, <2>3, WholeFacts DEF Loadable, Valid, Broken, Slots
    <2>5. \A g \in Faces : g # face => Same(g)
        BY <2>2, SameFiles DEF Same
    <2>6. Same(face) \/ (Loadable(face)' = Loadable(face) /\ Broken(face) /\ ~Broken(face)')
        BY <2>4 DEF Same
    <2> QED
        BY <2>2, <2>5, <2>6, DeletesOrDiscards
<1>6. CASE RestoreInstall
    <2>1. /\ UNCHANGED <<disk, saves>> /\ load.pc = "install" /\ up' = TRUE
          /\ cache' = [f \in Faces |-> load.loaded[f].tmpl]
        BY <1>6 DEF RestoreInstall
    <2>2. cache' = [f \in Faces |-> Loadable(f)]
        BY <2>1, InstallFacts
    <2>3. {f \in Faces : Broken(f)} = {}
        <3> SUFFICES ASSUME NEW f \in Faces, Broken(f) PROVE FALSE
            OBVIOUS
        <3>1. PICK s \in {"dat", "plain"} : disk[<<f, s>>] = Torn /\ Loadable(f) = 0
            BY DEF Broken
        <3>2. Exists(f, s) /\ s \in Slots
            BY <3>1, WholeFacts DEF Exists, Slots
        <3> QED
            BY <2>1, <3>1, <3>2, InstallFacts
    <2>4. /\ [f \in Faces |-> Loadable(f)]' = [f \in Faces |-> Loadable(f)]
          /\ {f \in Faces : Broken(f)}' = {f \in Faces : Broken(f)}
        BY <2>1 DEF Loadable, Broken, Valid
    <2>5. Promise!Restore
        BY <2>1, <2>2, <2>3, <2>4 DEF Promise!Restore
    <2> QED
        BY <2>5 DEF Step, Promise!Next
<1> QED
    BY <1>3, <1>4, <1>5, <1>6

(* While nothing overlaps, a deletion takes the face's one file, then the      *)
(* engine forgets the face.                                                *)
LEMMA DeleteRefines ==
    ASSUME MapIInv, MapIInv', overlap = "never", overlap' = overlap,
           \/ \E f \in Faces : DeleteBegin(f)
           \/ DeleteDat \/ DeletePlain \/ DeleteCount \/ DeleteWipe \/ DeleteErase
    PROVE  Step
<1>1. /\ ContentsMade /\ ContentsMade' /\ DeleteProgress /\ FilesProgress
      /\ disk \in [Faces \X Slots -> Contents] /\ cache \in [Faces -> 0..MaxSaves]
      /\ delete.face \in Faces
    BY DEF MapIInv, TypeOK
<1>2. PICK face \in Faces : face = delete.face
    BY <1>1
<1>3. ASSUME UNCHANGED <<cache, up, saves>>,
             \A f \in Faces, s \in Slots : disk'[<<f, s>>] = disk[<<f, s>>]
      PROVE  Step
    <2>1. \A f \in Faces : Same(f)
        BY <1>3, SameFiles DEF Same
    <2> QED
        BY <1>3, <2>1, Stutter
<1>4. CASE (\E f \in Faces : DeleteBegin(f)) \/ DeleteCount
    BY <1>3, <1>4 DEF DeleteBegin, DeleteCount
<1>5. CASE DeleteWipe
    <2>1. \A f \in Faces, s \in Slots : disk[<<f, s>>] = NoFile
        BY <1>1, <1>5 DEF DeleteWipe, DeleteProgress, HasFaces, Exists
    <2> QED
        BY <1>3, <1>5, <2>1 DEF DeleteWipe
<1>6. ASSUME NEW s \in {"dat", "plain"}, Remove(face, s), UNCHANGED <<cache, up, saves>>, up
      PROVE  Step
    <2>1. \A g \in Faces, t \in Slots :
            disk'[<<g, t>>] = IF g = face /\ t = s THEN NoFile ELSE disk[<<g, t>>]
        BY <1>1, <1>6 DEF Remove, Put, Slots
    <2>2. \A g \in Faces : g # face => Same(g)
        BY <2>1, SameFiles DEF Same
    <2>3. NoFiles(face) \/ \E t \in Slots : OnlyFile(face, t)
        BY <1>1 DEF FilesProgress
    <2>4. CASE ~Exists(face, s)
        BY <1>3, <1>6, <2>1, <2>4 DEF Exists
    <2>5. CASE Exists(face, s)
        <3>1. \A t \in Slots : t # s => disk[<<face, t>>] = NoFile
            BY <2>3, <2>5 DEF NoFiles, OnlyFile, Exists, Slots
        <3>2. Loadable(face)' = 0 /\ ~Broken(face)'
            BY <2>1, <3>1, WholeFacts DEF Loadable, Valid, Broken, Slots
        <3>3. Loadable(face) # 0 => ~Broken(face)
            BY DEF Broken
        <3>4. \/ Same(face)
              \/ up /\ Loadable(face) # 0 /\ Loadable(face)' = 0 /\ (Broken(face)' <=> Broken(face))
              \/ Loadable(face)' = Loadable(face) /\ Broken(face) /\ ~Broken(face)'
            BY <1>6, <3>2, <3>3 DEF Same
        <3> QED
            BY <1>6, <2>2, <3>4, DeletesOrDiscards
    <2> QED
        BY <2>4, <2>5
<1>7. CASE DeleteDat \/ DeletePlain
    <2>1. UNCHANGED <<cache, up, saves>> /\ up
        BY <1>1, <1>7 DEF DeleteDat, DeletePlain, ContentsMade
    <2>2. \E s \in {"dat", "plain"} : Remove(face, s)
        BY <1>2, <1>7 DEF DeleteDat, DeletePlain, RemovePlain
    <2> QED
        BY <1>6, <2>1, <2>2
<1>8. CASE DeleteErase
    <2>1. /\ UNCHANGED <<disk, up, saves>> /\ delete.pc = "erase"
          /\ cache' = [cache EXCEPT ![face] = 0]
        BY <1>2, <1>8 DEF DeleteErase
    <2>2. ~Exists(face, "dat") /\ ~Exists(face, "plain")
        BY <1>1, <1>2, <2>1 DEF DeleteProgress
    <2>3. Loadable(face) = 0 /\ ~Broken(face)
        BY <2>2, WholeFacts DEF Exists, Loadable, Valid, Broken
    <2>4. /\ [f \in Faces |-> Loadable(f)]' = [f \in Faces |-> Loadable(f)]
          /\ {f \in Faces : Broken(f)}' = {f \in Faces : Broken(f)}
        BY <2>1 DEF Loadable, Broken, Valid
    <2> DEFINE stored == [f \in Faces |-> Loadable(f)]
    <2>5. stored[face] = 0
        BY <2>3
    <2>6. Promise!Forget(face)
        BY <2>1, <2>3, <2>4, <2>5 DEF Promise!Forget
    <2> QED
        BY <2>6 DEF Step, Promise!Next
<1> QED
    BY <1>4, <1>5, <1>7, <1>8

(* Once operations have overlapped, the map may become anything of its type.  *)
LEMMA OverlapRefines ==
    ASSUME MapIInv, MapIInv', overlap' # "never", saves' >= saves
    PROVE  Step
<1> DEFINE stored == [f \in Faces |-> Loadable(f)]
           broken == {f \in Faces : Broken(f)}
<1>1. \A f \in Faces : Loadable(f)' \in 0..MaxSaves
    <2> SUFFICES ASSUME NEW f \in Faces PROVE Loadable(f)' \in 0..MaxSaves
        OBVIOUS
    <2>1. disk' \in [Faces \X Slots -> Contents]
        BY DEF MapIInv, TypeOK
    <2>2. disk'[<<f, "dat">>].tmpl \in 0..MaxSaves /\ disk'[<<f, "plain">>].tmpl \in 0..MaxSaves
        BY <2>1 DEF Contents, Slots
    <2> QED
        BY <2>2, BoundsAssumption DEF Loadable, BoundsAssumption
<1>2. stored' \in [Faces -> 0..MaxSaves] /\ broken' \subseteq Faces
    BY <1>1
<1>3. /\ cache' \in [Faces -> 0..MaxSaves] /\ up' \in BOOLEAN
      /\ saves \in 0..MaxSaves /\ saves' \in 0..MaxSaves
    BY DEF MapIInv, TypeOK
<1>4. saves' \in saves..MaxSaves
    BY <1>3, BoundsAssumption DEF BoundsAssumption
<1>5. Promise!Overlap
    BY <1>2, <1>3, <1>4 DEF Promise!Overlap
<1> QED
    BY <1>5 DEF Step, Promise!Next

(* The storage implements the map it promises: while no operations overlap,    *)
(* templates survive crashes and failures of signing and encrypting, only a   *)
(* deletion loses one, a write that was cut short breaks no face but its own, *)
(* and a new session starts from all that is stored.                       *)
THEOREM StorageImplementsMap ==
    ASSUME ~DecryptFails, ~VerifyFails PROVE Spec => ImplementsMap
<1>1. Init => Promise!Init /\ Newest
    <2> SUFFICES ASSUME Init PROVE Promise!Init /\ Newest
        OBVIOUS
    <2>1. \A f \in Faces, s \in Slots : disk[<<f, s>>] = NoFile \/ disk[<<f, s>>] = Outdated
        BY DEF Init
    <2>2. \A f \in Faces : Loadable(f) = 0 /\ ~Broken(f)
        BY <2>1, WholeFacts DEF Loadable, Valid, Broken, Slots
    <2>3. Newest
        BY <2>1, WholeFacts DEF Newest, Slots
    <2>4. [f \in Faces |-> Loadable(f)] = [f \in Faces |-> 0] /\ {f \in Faces : Broken(f)} = {}
        BY <2>2
    <2> QED
        BY <2>3, <2>4 DEF Init, Promise!Init
<1>2. MapIInv /\ MapIInv' /\ Newest /\ [Next]_vars => [Promise!Next]_(Promise!vars)
    <2> SUFFICES ASSUME MapIInv, MapIInv', Newest, [Next]_vars PROVE Step
        BY DEF Step
    <2>1. CASE UNCHANGED vars
        <3>1. UNCHANGED <<disk, cache, up, saves, overlap>>
            BY <2>1 DEF vars
        <3>2. \A f \in Faces : Same(f)
            BY <3>1, SameFiles DEF Same
        <3> QED
            BY <3>1, <3>2, Stutter
    <2>2. CASE Next /\ overlap' # "never"
        <3>1. saves' = saves \/ saves' = saves + 1
            BY <2>2 DEF Next, SaveBegin, SaveSign, SaveEncrypt, SaveOpen, SaveWrite, SaveRename,
                SaveRemoveStale, SaveInstall, RestoreBegin, RestoreEntry, RestoreReadDat,
                RestoreReadPlain, RestoreClean, RestoreEnds, RestoreInstall, DeleteBegin,
                DeleteDat, DeletePlain, DeleteCount, DeleteWipe, DeleteErase, Crash
        <3>2. saves \in Nat
            BY DEF MapIInv, TypeOK
        <3>3. saves' >= saves
            BY <3>1, <3>2
        <3> QED
            BY <2>2, <3>3, OverlapRefines
    <2>3. CASE Next /\ overlap' = "never"
        <3>1. overlap = "never"
            BY <2>3 DEF Next, SaveBegin, Overlaps, SaveSign, SaveEncrypt, SaveOpen, SaveWrite,
                SaveRename, SaveRemoveStale, SaveInstall, RestoreBegin, RestoreEntry,
                RestoreReadDat, RestoreReadPlain, RestoreClean, RestoreEnds, RestoreInstall,
                DeleteBegin, DeleteDat, DeletePlain, DeleteCount, DeleteWipe, DeleteErase, Crash
        <3>2. CASE Crash
            <4>1. UNCHANGED <<disk, saves>> /\ cache' = [f \in Faces |-> 0] /\ up' = FALSE
                BY <3>2 DEF Crash
            <4>2. /\ [f \in Faces |-> Loadable(f)]' = [f \in Faces |-> Loadable(f)]
                  /\ {f \in Faces : Broken(f)}' = {f \in Faces : Broken(f)}
                BY <4>1 DEF Loadable, Broken, Valid
            <4>3. Promise!Crash
                BY <2>3, <3>1, <4>1, <4>2 DEF Promise!Crash
            <4> QED
                BY <3>1, <4>3 DEF Step, Promise!Next
        <3>3. CASE Next /\ ~Crash
            BY <2>3, <3>1, <3>3, SaveRefines, RestoreRefines, DeleteRefines DEF Next
        <3> QED
            BY <2>3, <3>2, <3>3
    <2> QED
        BY <2>1, <2>2, <2>3
<1>3. MapIInv /\ Newest /\ [Next]_vars => Newest'
    BY NewestKept
<1> QED
    BY <1>1, <1>2, <1>3, MapIInvHolds, PTL DEF Spec, ImplementsMap, Promise!Spec

-----------------------------------------------------------------------------
(* What overlapping saves and restores cannot lose.                        *)

LEMMA SlotFacts ==
    /\ \A s \in {"dat", "plain"} :
          /\ s \in Slots /\ Other(s) \in {"dat", "plain"} /\ Other(s) # s /\ Other(Other(s)) = s
          /\ Temp(s) \in Slots /\ Temp(s) \notin {"dat", "plain"}
          /\ \A t \in {"dat", "plain"} : t = s \/ t = Other(s)
    /\ \A s \in {"dat", "plain"}, t \in Slots : t \notin {"dat", "plain"} => t # s
BY DEF Slots, Other, Temp

(* Without a valid file of the current version there is none outdated either.  *)
LEMMA NoneOutdated ==
    ASSUME TypeOK, OldIsFirst,
           up \/ save.pc # "idle" \/ delete.pc # "idle" \/ load.pc = "install"
    PROVE  \A f \in Faces, s \in Slots : disk[<<f, s>>] # Outdated
<1>1. disk \in [Faces \X Slots -> Contents]
    BY DEF TypeOK
<1> QED
    BY <1>1 DEF OldIsFirst

(* A face that a save has not come to has its files.                       *)
LEMMA OverlapSave ==
    ASSUME MapIInv, WholeIInv, OverlapInv, MapIInv', "delete" \notin Overlapping,
           \/ \E f \in Faces : SaveBegin(f)
           \/ SaveSign \/ SaveEncrypt \/ SaveOpen \/ SaveWrite \/ SaveRename
           \/ SaveRemoveStale \/ SaveInstall
    PROVE  OverlapInv'
<1>a. save.face \in Faces /\ save.slot \in {"dat", "plain"} /\ load.face \in Faces
    BY DEF MapIInv, TypeOK
<1>b. PICK face \in Faces, slot \in {"dat", "plain"} : face = save.face /\ slot = save.slot
    BY <1>a
<1>1. /\ TypeOK /\ ContentsMade /\ WholeFiles /\ Written
      /\ DeletesAlone /\ SavesNewFace /\ OldIsFirst /\ SavedIsThere /\ EntryReplaced
    BY DEF MapIInv, WholeIInv, OverlapInv
<1>2. /\ save \in [pc : {"idle", "sign", "encrypt", "open", "write", "rename",
                         "removeStale", "install"},
                   face : Faces, slot : {"dat", "plain"}, tmpl : 0..MaxSaves]
      /\ save.face = face /\ save.slot = slot
      /\ disk \in [Faces \X Slots -> Contents] /\ cache \in [Faces -> 0..MaxSaves]
      /\ disk' \in [Faces \X Slots -> Contents]
    BY <1>1, <1>b DEF TypeOK, MapIInv
<1>3. UNCHANGED <<load, delete, up>> /\ (cut => cut')
    BY DEF SaveBegin, SaveSign, SaveEncrypt, SaveOpen, SaveWrite, SaveRename,
           SaveRemoveStale, SaveInstall
<1>4. delete.pc = "idle" /\ up
    <2>1. CASE save.pc = "idle"
        BY <2>1 DEF SaveBegin, SaveSign, SaveEncrypt, SaveOpen, SaveWrite, SaveRename,
           SaveRemoveStale, SaveInstall, MayBegin, Idle, Running
    <2>2. CASE save.pc # "idle"
        BY <1>1, <2>2 DEF DeletesAlone, SavesNewFace
    <2> QED
        BY <2>1, <2>2
<1>5. \A f \in Faces, s \in Slots : disk[<<f, s>>] # Outdated
    BY <1>1, <1>4, NoneOutdated
<1>n. NoFile # Outdated
    BY WholeFacts
<1>6. DeletesAlone'
    BY <1>3, <1>4 DEF DeletesAlone
<1>7. save.pc # "idle" => cache[face] = 0 /\ save.tmpl # 0 /\ save.tmpl \in 1..MaxSaves
    BY <1>1, <1>2, BoundsAssumption DEF SavesNewFace, BoundsAssumption
<1> SUFFICES /\ SavesNewFace' /\ SavedIsThere' /\ EntryReplaced'
             /\ \A f \in Faces, s \in Slots : disk'[<<f, s>>] # Outdated
    BY <1>6 DEF OverlapInv, OldIsFirst
<1>8. ASSUME UNCHANGED <<disk, cache>>, save'.pc \notin {"removeStale", "install"},
             save.pc # "install"
      PROVE  SavedIsThere' /\ EntryReplaced' /\ \A f \in Faces, s \in Slots : disk'[<<f, s>>] # Outdated
    BY <1>1, <1>3, <1>5, <1>8 DEF SavedIsThere, EntryReplaced, Replaced, Exists, Valid
<1>9. CASE \E f \in Faces : SaveBegin(f)
    <2>1. PICK f \in Faces : SaveBegin(f)
        BY <1>9
    <2>2. /\ save'.pc = "sign" /\ save'.face = f /\ save.pc = "idle"
          /\ UNCHANGED <<disk, cache>> /\ save'.tmpl = saves + 1 /\ saves \in Nat
        BY <1>1, <2>1, BoundsAssumption DEF SaveBegin, TypeOK, BoundsAssumption
    <2>3. f \in Nat
        BY DEF Faces
    <2>4. cache[f] = 0
        BY <1>2, <2>1, <2>3 DEF SaveBegin, Enrolled
    <2>5. SavesNewFace'
        BY <1>3, <1>4, <2>2, <2>4 DEF SavesNewFace
    <2> QED
        BY <1>8, <2>2, <2>5
<1>10. CASE SaveSign \/ SaveEncrypt
    <2>1. /\ save'.pc \in {"idle", "encrypt", "open"} /\ save.pc \in {"sign", "encrypt"}
          /\ UNCHANGED <<disk, cache>>
          /\ save'.pc # "idle" => save'.face = face /\ save'.tmpl = save.tmpl
        <3>1. CASE SaveSign
            BY <1>2, <3>1 DEF SaveSign, NoSave
        <3>2. CASE SaveEncrypt
            <4>1. /\ save.pc = "encrypt" /\ UNCHANGED <<disk, cache>>
                  /\ \/ save' = [save EXCEPT !.pc = "open"]
                     \/ save' = [save EXCEPT !.pc = "open", !.slot = "plain"]
                BY <3>2 DEF SaveEncrypt
            <4> QED
                BY <1>2, <4>1
        <3> QED
            BY <1>10, <3>1, <3>2
    <2>2. SavesNewFace'
        BY <1>3, <1>4, <1>7, <2>1 DEF SavesNewFace
    <2> QED
        BY <1>8, <2>1, <2>2
<1>11. CASE SaveOpen \/ SaveWrite
    <2>1. /\ save'.pc \in {"idle", "write", "rename"} /\ save.pc \in {"open", "write"}
          /\ UNCHANGED cache
          /\ save'.pc # "idle" => save'.face = face /\ save'.tmpl = save.tmpl
        BY <1>2, <1>11 DEF SaveOpen, SaveWrite, NoSave
    <2>2. SavesNewFace'
        BY <1>3, <1>4, <1>7, <2>1 DEF SavesNewFace
    <2>3. CASE UNCHANGED disk
        BY <1>8, <2>1, <2>2, <2>3
    <2>4. CASE disk' # disk
        <3>1. PICK c \in {Torn, Whole(save.tmpl)} : Put(face, Temp(slot), c)
            BY <1>2, <1>11, <2>4 DEF SaveOpen, SaveWrite
        <3>2. \A g \in Faces, t \in Slots :
                  disk'[<<g, t>>] = IF g = face /\ t = Temp(slot) THEN c ELSE disk[<<g, t>>]
            <4>1. Temp(slot) \in Slots
                BY SlotFacts
            <4> QED
                BY <1>2, <3>1, <4>1 DEF Put
        <3>3. \A g \in Faces, t \in {"dat", "plain"} : disk'[<<g, t>>] = disk[<<g, t>>]
            <4>1. Temp(slot) \notin {"dat", "plain"} /\ "dat" \in Slots /\ "plain" \in Slots
                BY SlotFacts
            <4> QED
                BY <1>2, <3>2, <4>1 DEF Slots
        <3>4. \A f \in Faces, s \in Slots : disk'[<<f, s>>] # Outdated
            <4> SUFFICES ASSUME NEW f \in Faces, NEW s \in Slots PROVE disk'[<<f, s>>] # Outdated
                OBVIOUS
            <4>1. disk[<<f, s>>] # Outdated
                BY <1>5
            <4>2. disk'[<<f, s>>] = disk[<<f, s>>] \/ disk'[<<f, s>>] = c
                BY <3>2
            <4>3. Torn # Outdated /\ Whole(save.tmpl) # Outdated
                BY WholeFacts
            <4> QED
                BY <3>1, <4>1, <4>2, <4>3
        <3>5. \A f \in Faces, s \in {"dat", "plain"} : Replaced(f, s) => Replaced(f, s)'
            BY <2>1, <3>3, SlotFacts DEF Replaced, Exists, Valid
        <3>6. EntryReplaced'
            BY <1>1, <1>3, <1>a, <3>3, <3>5 DEF EntryReplaced, Exists
        <3> QED
            BY <2>1, <2>2, <3>4, <3>6 DEF SavedIsThere
    <2> QED
        BY <2>3, <2>4
<1>12. CASE SaveRename /\ ~MayRename
    <2>1. save'.pc = "idle" /\ save.pc = "rename" /\ UNCHANGED <<disk, cache>>
        BY <1>12 DEF SaveRename, NoSave
    <2>2. SavesNewFace'
        BY <2>1 DEF SavesNewFace
    <2> QED
        BY <1>8, <2>1, <2>2
<1>13. CASE SaveRename /\ MayRename
    <2> DEFINE new == disk[<<face, Temp(slot)>>]
    <2>1. /\ save'.pc = "removeStale" /\ save.pc = "rename" /\ UNCHANGED <<cache, cut>>
          /\ save'.face = face /\ save'.slot = slot /\ save'.tmpl = save.tmpl
        BY <1>2, <1>13 DEF SaveRename
    <2>2. \A g \in Faces, t \in Slots :
              disk'[<<g, t>>] = IF g = face /\ t = slot THEN new
                                ELSE IF g = face /\ t = Temp(slot) THEN NoFile ELSE disk[<<g, t>>]
        BY <1>2, <1>13, SlotFacts DEF SaveRename
    <2>3. new \in Stored /\ new # NoFile /\ new # Outdated /\ (~cut => new # Torn)
        BY <1>1, <1>2, <1>5, <1>13, <2>1, SlotFacts DEF ContentsMade, MayRename, Exists, Written
    <2>4. SavesNewFace'
        BY <1>3, <1>4, <1>7, <2>1 DEF SavesNewFace
    <2>5. SavedIsThere'
        BY <2>1, <2>2, <2>3, StoredFacts, SlotFacts DEF SavedIsThere, Valid
    <2>6. \A f \in Faces, s \in Slots : disk'[<<f, s>>] # Outdated
        <3> SUFFICES ASSUME NEW f \in Faces, NEW s \in Slots PROVE disk'[<<f, s>>] # Outdated
            OBVIOUS
        <3>1. disk[<<f, s>>] # Outdated
            BY <1>5
        <3>2. disk'[<<f, s>>] = disk[<<f, s>>] \/ disk'[<<f, s>>] = NoFile \/ disk'[<<f, s>>] = new
            BY <2>2
        <3> QED
            BY <3>1, <3>2, <1>n, <2>3
    <2>7. \A f \in Faces, s \in {"dat", "plain"} : Replaced(f, s) => Replaced(f, s)'
        <3> SUFFICES ASSUME NEW f \in Faces, NEW s \in {"dat", "plain"}, Replaced(f, s)
                     PROVE  Replaced(f, s)'
            OBVIOUS
        <3>1. f # face
            BY <1>7, <2>1 DEF Replaced
        <3> QED
            BY <2>1, <2>2, <3>1, SlotFacts DEF Replaced, Exists, Valid
    <2>8. \A f \in Faces, s \in {"dat", "plain"} : Exists(f, s) => Exists(f, s)'
        BY <2>2, <2>3, SlotFacts DEF Exists
    <2>9. EntryReplaced'
        BY <1>1, <1>3, <1>5, <1>a, <2>1, <2>7, <2>8, SlotFacts DEF EntryReplaced
    <2> QED
        BY <2>4, <2>5, <2>6, <2>9
<1>14. CASE SaveRemoveStale
    <2>1. /\ save'.pc = "install" /\ save.pc = "removeStale" /\ UNCHANGED <<cache, cut>>
          /\ save'.face = face /\ save'.slot = slot /\ save'.tmpl = save.tmpl
          /\ Put(face, Other(slot), NoFile)
        BY <1>2, <1>14 DEF SaveRemoveStale, Remove
    <2>2. \A g \in Faces, t \in Slots :
              disk'[<<g, t>>] = IF g = face /\ t = Other(slot) THEN NoFile ELSE disk[<<g, t>>]
        <3>1. Other(slot) \in Slots
            BY SlotFacts
        <3> QED
            BY <1>2, <2>1, <3>1 DEF Put
    <2>3. SavesNewFace'
        BY <1>3, <1>4, <1>7, <2>1 DEF SavesNewFace
    <2>4. SavedIsThere'
        BY <1>1, <1>2, <2>1, <2>2, SlotFacts DEF SavedIsThere, Valid
    <2>5. \A f \in Faces, s \in Slots : disk'[<<f, s>>] # Outdated
        <3> SUFFICES ASSUME NEW f \in Faces, NEW s \in Slots PROVE disk'[<<f, s>>] # Outdated
            OBVIOUS
        <3>1. disk[<<f, s>>] # Outdated
            BY <1>5
        <3>2. disk'[<<f, s>>] = disk[<<f, s>>] \/ disk'[<<f, s>>] = NoFile
            BY <2>2
        <3> QED
            BY <3>1, <3>2, <1>n
    <2>6. \A f \in Faces, s \in {"dat", "plain"} : Replaced(f, s) => Replaced(f, s)'
        <3> SUFFICES ASSUME NEW f \in Faces, NEW s \in {"dat", "plain"}, Replaced(f, s)
                     PROVE  Replaced(f, s)'
            OBVIOUS
        <3>1. f # face
            BY <1>7, <2>1 DEF Replaced
        <3> QED
            BY <2>1, <2>2, <3>1, SlotFacts DEF Replaced, Exists, Valid
    <2>7. ASSUME ~cut, NEW f \in Faces, NEW s \in {"dat", "plain"}, Exists(f, s)
          PROVE  Exists(f, s)' \/ Replaced(f, s)'
        <3>1. CASE f = face /\ s = Other(slot)
            <4>1. ~Exists(f, s)' /\ Other(s) = slot
                BY <2>2, <3>1, SlotFacts DEF Exists
            <4>2. Valid(face, slot)'
                BY <2>1, <2>4, <2>7 DEF SavedIsThere, Valid
            <4> QED
                BY <2>1, <3>1, <4>1, <4>2 DEF Replaced, Valid
        <3>2. CASE ~(f = face /\ s = Other(slot))
            BY <2>2, <2>7, <3>2, SlotFacts DEF Exists
        <3> QED
            BY <3>1, <3>2
    <2>8. EntryReplaced'
        BY <1>1, <1>3, <1>5, <1>a, <2>1, <2>6, <2>7, SlotFacts DEF EntryReplaced
    <2> QED
        BY <2>3, <2>4, <2>5, <2>8
<1>15. CASE SaveInstall
    <2>1. /\ save'.pc = "idle" /\ save.pc = "install" /\ UNCHANGED <<disk, cut>>
          /\ cache' = [cache EXCEPT ![face] = save.tmpl]
        BY <1>2, <1>15 DEF SaveInstall, NoSave
    <2>2. \A f \in Faces : cache'[f] = IF f = face THEN save.tmpl ELSE cache[f]
        BY <1>2, <2>1
    <2>3. \A f \in Faces, s \in {"dat", "plain"} : Replaced(f, s) => Replaced(f, s)'
        BY <1>2, <1>7, <2>1, <2>2 DEF Replaced, Exists, Valid
    <2>4. EntryReplaced'
        BY <1>1, <1>3, <1>a, <2>1, <2>3 DEF EntryReplaced, Exists
    <2> QED
        BY <1>5, <2>1, <2>4 DEF SavesNewFace, SavedIsThere
<1> QED
    BY <1>9, <1>10, <1>11, <1>12, <1>13, <1>14, <1>15

(* What a restore cleans up was replaced or outdated, and it takes the map only  *)
(* when no save is under way.                                              *)
LEMMA OverlapRestore ==
    ASSUME MapIInv, WholeIInv, OverlapInv, MapIInv', "delete" \notin Overlapping,
           ~DecryptFails, ~VerifyFails,
           \/ RestoreBegin \/ \E f \in Faces, s \in Slots : RestoreEntry(f, s)
           \/ RestoreReadDat \/ RestoreReadPlain \/ RestoreClean
           \/ RestoreEnds \/ RestoreInstall
    PROVE  OverlapInv'
<1>1. /\ TypeOK /\ ContentsMade /\ WholeFiles
      /\ DeletesAlone /\ SavesNewFace /\ OldIsFirst /\ SavedIsThere /\ EntryReplaced
    BY DEF MapIInv, WholeIInv, OverlapInv
<1>2. load.face \in Faces /\ load.slot \in Slots
    BY <1>1 DEF TypeOK
<1>3. PICK face \in Faces, slot \in Slots : face = load.face /\ slot = load.slot
    BY <1>2
<1>4. /\ load \in [pc : {"idle", "scan", "readDat", "readPlain", "clean", "install"},
                   due : SUBSET (Faces \X Slots), face : Faces, slot : Slots,
                   loaded : [Faces -> {c \in Contents : c.kind \in {"none", "whole"}}]]
      /\ disk \in [Faces \X Slots -> Contents] /\ disk' \in [Faces \X Slots -> Contents]
    BY <1>1 DEF TypeOK, MapIInv
<1>5. UNCHANGED <<save, delete, cut>> /\ (up => up')
    <2>1. CASE RestoreInstall
        BY <2>1 DEF RestoreInstall
    <2>2. CASE ~RestoreInstall
        <3>1. UNCHANGED <<save, delete, cut, up>>
            BY <2>2 DEF RestoreBegin, RestoreEntry, RestoreReadDat, RestoreReadPlain, RestoreClean,
               RestoreEnds
        <3> QED
            BY <3>1
    <2> QED
        BY <2>1, <2>2
<1>6. delete.pc = "idle"
    <2>1. CASE load.pc = "idle"
        BY <2>1 DEF RestoreBegin, RestoreEntry, RestoreReadDat, RestoreReadPlain, RestoreClean,
           RestoreEnds, RestoreInstall, MayBegin, Idle, Running
    <2>2. CASE load.pc # "idle"
        BY <1>1, <2>2 DEF DeletesAlone
    <2> QED
        BY <2>1, <2>2
<1>7. DeletesAlone'
    BY <1>5, <1>6 DEF DeletesAlone
<1>8. ASSUME UNCHANGED <<disk, cache>>
      PROVE  SavesNewFace' /\ SavedIsThere'
    BY <1>1, <1>5, <1>8 DEF SavesNewFace, SavedIsThere, Valid
<1>9. ASSUME UNCHANGED <<disk, cache, up>>, OldIsFirst', EntryReplaced'
      PROVE  OverlapInv'
    BY <1>7, <1>8, <1>9 DEF OverlapInv
(* A file that was not torn and did not pass is outdated. *)
<1>10. ASSUME ~cut, load.slot \in {"dat", "plain"}, load.pc \in InScan, ~Valid(face, slot)
       PROVE  disk[<<face, slot>>] = Outdated \/ Replaced(face, slot)
    <2>1. CASE Replaced(face, slot)
        BY <2>1
    <2>2. CASE Exists(face, slot)
        <3>1. disk[<<face, slot>>] \in Stored /\ disk[<<face, slot>>] # Torn
            BY <1>1, <1>3, <1>10 DEF ContentsMade, WholeFiles
        <3> QED
            BY <1>10, <2>2, <3>1, StoredFacts DEF Valid, Exists
    <2> QED
        BY <1>1, <1>3, <1>10, <2>1, <2>2 DEF EntryReplaced
<1>11. CASE RestoreBegin
    <2>1. /\ UNCHANGED <<disk, cache, up>> /\ load.pc = "idle"
          /\ load'.pc = "scan"
          /\ \A f \in Faces, s \in Slots : Exists(f, s) => <<f, s>> \in load'.due
          /\ \A f \in Faces : load'.loaded[f] = NoFile
        BY <1>11 DEF RestoreBegin, NoLoad, Exists
    <2>2. OldIsFirst'
        BY <1>1, <1>5, <2>1 DEF OldIsFirst, Exists
    <2> QED
        BY <1>9, <2>1, <2>2 DEF EntryReplaced, InScan
<1>12. CASE \E f \in Faces, s \in Slots : RestoreEntry(f, s)
    <2>1. PICK f \in Faces, s \in Slots : RestoreEntry(f, s)
        BY <1>12
    <2>2. /\ load.pc = "scan" /\ UNCHANGED <<disk, cache, up>> /\ Exists(f, s)
          /\ load'.due = load.due \ {<<f, s>>}
          /\ load'.face = f /\ load'.slot = s /\ load'.loaded = load.loaded
          /\ load'.pc = IF load.loaded[f] = NoFile THEN "readDat" ELSE "scan"
        BY <1>4, <2>1 DEF RestoreEntry
    <2>3. OldIsFirst'
        <3> SUFFICES ASSUME \E g \in Faces, t \in Slots : disk[<<g, t>>] = Outdated
                     PROVE  OldIsFirst'
            BY <2>2 DEF OldIsFirst
        <3>1. /\ ~up /\ save.pc = "idle" /\ delete.pc = "idle"
              /\ \A g \in Faces, t \in Slots : disk[<<g, t>>].kind # "whole"
              /\ \A g \in Faces : load.loaded[g] = NoFile
              /\ \A g \in Faces, t \in Slots : ~(<<g, t>> \notin load.due /\ Exists(g, t))
            BY <1>1, <2>2 DEF OldIsFirst, InScan
        <3>2. load'.pc = "readDat"
            BY <2>2, <3>1
        <3>3. \A g \in Faces, t \in Slots :
                  <<g, t>> \notin load'.due /\ Exists(g, t)' => load'.face = g /\ load'.slot = t
            BY <2>2, <3>1 DEF Exists
        <3> QED
            BY <1>5, <2>2, <3>1, <3>2, <3>3 DEF OldIsFirst, InScan
    <2>4. EntryReplaced'
        BY <2>2 DEF EntryReplaced, Exists, InScan
    <2> QED
        BY <1>9, <2>2, <2>3, <2>4
<1>13. CASE RestoreReadDat \/ RestoreReadPlain
    <2>1. /\ UNCHANGED <<disk, cache, up>> /\ load.pc \in {"readDat", "readPlain"}
          /\ load'.due = load.due /\ load'.face = face /\ load'.slot = slot
          /\ \/ load'.pc = "scan" /\ \E s \in Slots : Valid(face, s)
             \/ /\ load'.loaded = load.loaded
                /\ \/ load.pc = "readDat" /\ load'.pc = "readPlain" /\ ~Valid(face, "dat")
                   \/ load.pc = "readPlain" /\ load'.pc = "clean" /\ ~Valid(face, "plain")
        <3>1. "dat" \in Slots /\ "plain" \in Slots
            BY DEF Slots
        <3>2. CASE RestoreReadDat
            BY <1>3, <1>4, <3>1, <3>2 DEF RestoreReadDat, Loaded
        <3>3. CASE RestoreReadPlain
            BY <1>3, <1>4, <3>1, <3>3 DEF RestoreReadPlain, PlainAccepted, Loaded
        <3> QED
            BY <1>13, <3>2, <3>3
    <2>2. OldIsFirst'
        <3> SUFFICES ASSUME \E g \in Faces, t \in Slots : disk[<<g, t>>] = Outdated
                     PROVE  OldIsFirst'
            BY <2>1 DEF OldIsFirst
        <3>1. /\ ~up /\ save.pc = "idle" /\ delete.pc = "idle"
              /\ \A g \in Faces, t \in Slots : disk[<<g, t>>].kind # "whole"
              /\ \A g \in Faces : load.loaded[g] = NoFile
              /\ \A g \in Faces, t \in Slots :
                    <<g, t>> \notin load.due /\ Exists(g, t) => face = g /\ slot = t
            BY <1>1, <1>3, <2>1 DEF OldIsFirst
        <3>2. load'.pc \in InScan /\ load'.loaded = load.loaded
            BY <2>1, <3>1 DEF Valid, InScan
        <3> QED
            BY <1>5, <2>1, <3>1, <3>2 DEF OldIsFirst, Exists, InScan
    <2>3. EntryReplaced'
        <3> SUFFICES ASSUME ~cut, load'.pc \in InScan, slot \in {"dat", "plain"}
                     PROVE  /\ Exists(face, slot) \/ Replaced(face, slot)
                            /\ load'.pc = "clean" \/ (load'.pc = "readPlain" /\ slot = "dat") =>
                                  disk[<<face, slot>>] = Outdated \/ Replaced(face, slot)
            BY <1>5, <2>1 DEF EntryReplaced, Exists, Replaced, Valid
        <3>1. load.pc \in InScan
            BY <2>1 DEF InScan
        <3>2. Exists(face, slot) \/ Replaced(face, slot)
            BY <1>1, <1>3, <3>1 DEF EntryReplaced
        <3>3. ASSUME load'.pc = "clean" \/ (load'.pc = "readPlain" /\ slot = "dat")
              PROVE  disk[<<face, slot>>] = Outdated \/ Replaced(face, slot)
            <4>1. CASE ~Valid(face, slot)
                BY <1>3, <1>10, <3>1, <4>1
            <4>2. CASE Valid(face, slot)
                <5>1. load.pc = "readPlain" /\ slot = "dat"
                    BY <2>1, <3>3, <4>2 DEF InScan
                <5> QED
                    BY <1>1, <1>3, <3>1, <5>1 DEF EntryReplaced
            <4> QED
                BY <4>1, <4>2
        <3> QED
            BY <3>2, <3>3
    <2> QED
        BY <1>9, <2>1, <2>2, <2>3
<1>14. CASE RestoreClean
    <2>1. /\ UNCHANGED <<cache, up>> /\ load.pc = "clean" /\ load'.pc = "scan"
          /\ load'.due = load.due /\ load'.loaded = load.loaded
        BY <1>4, <1>14 DEF RestoreClean
    <2>2. \A g \in Faces, t \in Slots :
              disk'[<<g, t>>] = IF g = face /\ t = slot THEN NoFile ELSE disk[<<g, t>>]
        BY <1>3, <1>4, <1>14 DEF RestoreClean, CleanEntry, Remove, Put
    <2>3. OldIsFirst'
        <3> SUFFICES ASSUME NEW f \in Faces, NEW s \in Slots, disk'[<<f, s>>] = Outdated
                     PROVE  OldIsFirst'
            BY DEF OldIsFirst
        <3>1. NoFile # Outdated /\ NoFile.kind # "whole"
            BY WholeFacts
        <3>2. \E g \in Faces, t \in Slots : disk[<<g, t>>] = Outdated
            BY <2>2, <3>1
        <3>3. /\ ~up /\ save.pc = "idle" /\ delete.pc = "idle"
              /\ \A g \in Faces, t \in Slots : disk[<<g, t>>].kind # "whole"
              /\ \A g \in Faces : load.loaded[g] = NoFile
              /\ \A g \in Faces, t \in Slots :
                    <<g, t>> \notin load.due /\ Exists(g, t) => face = g /\ slot = t
            BY <1>1, <1>3, <2>1, <3>2 DEF OldIsFirst
        <3>4. \A g \in Faces, t \in Slots : disk'[<<g, t>>].kind # "whole"
            BY <2>2, <3>1, <3>3
        <3>5. \A g \in Faces, t \in Slots : ~(<<g, t>> \notin load'.due /\ Exists(g, t)')
            BY <2>1, <2>2, <3>3 DEF Exists
        <3> QED
            BY <1>5, <2>1, <3>3, <3>4, <3>5 DEF OldIsFirst
    <2>4. SavesNewFace'
        BY <1>1, <1>5, <2>1 DEF SavesNewFace
    <2>5. SavedIsThere'
        <3> SUFFICES ASSUME ~cut, save.pc \in {"removeStale", "install"}
                     PROVE  disk'[<<save.face, save.slot>>] = disk[<<save.face, save.slot>>]
            BY <1>1, <1>5 DEF SavedIsThere, Valid
        <3>1. save.face \in Faces /\ save.slot \in {"dat", "plain"} /\ save.slot \in Slots
            BY <1>1 DEF TypeOK, Slots
        <3>2. CASE slot \in {"dat", "plain"}
            <4>1. disk[<<face, slot>>] # Outdated
                BY <1>1, NoneOutdated
            <4>2. disk[<<face, slot>>] = NoFile
                BY <1>1, <1>3, <2>1, <3>2, <4>1 DEF EntryReplaced, Replaced, Exists, InScan
            <4> QED
                BY <2>2, <3>1, <4>2
        <3>3. CASE slot \notin {"dat", "plain"}
            BY <2>2, <3>1, <3>3
        <3> QED
            BY <3>2, <3>3
    <2>6. EntryReplaced'
        BY <2>1 DEF EntryReplaced, InScan
    <2> QED
        BY <1>7, <2>3, <2>4, <2>5, <2>6 DEF OverlapInv
<1>15. CASE RestoreEnds
    <2>1. /\ UNCHANGED <<cache, up>> /\ load.pc = "scan" /\ load'.pc = "install"
          /\ \A f \in Faces, s \in Slots : Exists(f, s) => <<f, s>> \notin load.due
        BY <1>4, <1>15 DEF RestoreEnds
    <2>2. disk' = disk
        <3>1. WrongVersion = {}
            BY <1>4 DEF WrongVersion
        <3> QED
            BY <1>4, <1>15, <3>1 DEF RestoreEnds
    <2>3. \A f \in Faces, s \in Slots : disk[<<f, s>>] # Outdated
        <3> SUFFICES ASSUME NEW f \in Faces, NEW s \in Slots, disk[<<f, s>>] = Outdated
                     PROVE  FALSE
            OBVIOUS
        <3>1. Exists(f, s)
            BY WholeFacts DEF Exists
        <3> QED
            BY <1>1, <2>1, <3>1 DEF OldIsFirst, InScan
    <2>4. OldIsFirst'
        BY <2>2, <2>3 DEF OldIsFirst
    <2> QED
        BY <1>9, <2>1, <2>2, <2>4 DEF EntryReplaced, InScan
<1>16. CASE RestoreInstall
    <2>1. /\ UNCHANGED disk /\ load.pc = "install" /\ load'.pc = "idle" /\ save.pc = "idle"
        BY <1>16 DEF RestoreInstall, Unlocked, NoLoad
    <2>2. \A f \in Faces, s \in Slots : disk[<<f, s>>] # Outdated
        BY <1>1, <2>1, NoneOutdated
    <2>3. OldIsFirst'
        BY <2>1, <2>2 DEF OldIsFirst
    <2> QED
        BY <1>5, <1>7, <2>1, <2>3 DEF OverlapInv, SavesNewFace, SavedIsThere, EntryReplaced, InScan
<1> QED
    BY <1>11, <1>12, <1>13, <1>14, <1>15, <1>16

(* A deletion finds nothing else under way. *)
LEMMA OverlapDelete ==
    ASSUME MapIInv, OverlapInv, MapIInv', "delete" \notin Overlapping,
           \/ \E f \in Faces : DeleteBegin(f)
           \/ DeleteDat \/ DeletePlain \/ DeleteCount \/ DeleteWipe \/ DeleteErase
    PROVE  OverlapInv'
<1>1. /\ TypeOK /\ ContentsMade /\ DeletesAlone /\ OldIsFirst
    BY DEF MapIInv, OverlapInv
<1>2. /\ disk \in [Faces \X Slots -> Contents]
      /\ delete \in [pc : {"idle", "dat", "plain", "count", "wipe", "erase"}, face : Faces]
    BY <1>1 DEF TypeOK
<1>3. UNCHANGED <<save, load, up>> /\ save.pc = "idle" /\ load.pc = "idle" /\ up
    <2>1. CASE \E f \in Faces : DeleteBegin(f)
        BY <2>1 DEF DeleteBegin, MayBegin, Idle, Running
    <2>2. CASE ~\E f \in Faces : DeleteBegin(f)
        BY <1>1, <2>2 DEF DeleteDat, DeletePlain, DeleteCount, DeleteWipe, DeleteErase,
            DeletesAlone, ContentsMade
    <2> QED
        BY <2>1, <2>2
<1>4. \A f \in Faces, s \in Slots : disk[<<f, s>>] # Outdated
    BY <1>1, <1>3, NoneOutdated
<1>5. \A f \in Faces, s \in Slots : disk'[<<f, s>>] = disk[<<f, s>>] \/ disk'[<<f, s>>] = NoFile
    <2>1. CASE UNCHANGED disk
        BY <2>1
    <2>2. CASE disk' # disk
        <3>1. CASE DeleteDat
            BY <1>2, <3>1 DEF DeleteDat, Remove, Put, Slots
        <3>2. CASE DeletePlain
            BY <1>2, <3>2 DEF DeletePlain, RemovePlain, Remove, Put, Slots
        <3>3. CASE DeleteWipe
            BY <3>3 DEF DeleteWipe
        <3> QED
            BY <2>2, <3>1, <3>2, <3>3 DEF DeleteBegin, DeleteCount, DeleteErase
    <2> QED
        BY <2>1, <2>2
<1>6. \A f \in Faces, s \in Slots : disk'[<<f, s>>] # Outdated
    <2> SUFFICES ASSUME NEW f \in Faces, NEW s \in Slots PROVE disk'[<<f, s>>] # Outdated
        OBVIOUS
    <2>1. disk[<<f, s>>] # Outdated
        BY <1>4
    <2>2. disk'[<<f, s>>] = disk[<<f, s>>] \/ disk'[<<f, s>>] = NoFile
        BY <1>5
    <2> QED
        BY <2>1, <2>2, WholeFacts
<1> QED
    BY <1>3, <1>6 DEF OverlapInv, DeletesAlone, SavesNewFace, OldIsFirst, SavedIsThere,
        EntryReplaced, InScan

LEMMA OverlapCrash ==
    ASSUME OverlapInv, Crash
    PROVE  OverlapInv'
<1>1. /\ save'.pc = "idle" /\ load'.pc = "idle" /\ delete'.pc = "idle" /\ ~up'
      /\ UNCHANGED disk /\ \A f \in Faces : load'.loaded[f] = NoFile
    BY DEF Crash, NoSave, NoLoad, NoDelete
<1>2. OldIsFirst'
    BY <1>1 DEF OverlapInv, OldIsFirst
<1> QED
    BY <1>1, <1>2 DEF OverlapInv, DeletesAlone, SavesNewFace, SavedIsThere, EntryReplaced, InScan

(* Saves and restores that overlap in any way leave every template its file.    *)
THEOREM OverlapInvHolds ==
    ASSUME ~DecryptFails, ~VerifyFails, "delete" \notin Overlapping
    PROVE  Spec => []OverlapInv
<1>1. Init => OverlapInv
    <2> SUFFICES ASSUME Init PROVE OverlapInv
        OBVIOUS
    <2>1. /\ save.pc = "idle" /\ load.pc = "idle" /\ delete.pc = "idle" /\ up = FALSE
          /\ \A f \in Faces : load.loaded[f] = NoFile
        BY DEF Init, NoSave, NoLoad, NoDelete
    <2>2. \A f \in Faces, s \in Slots : disk[<<f, s>>].kind # "whole"
        BY DEF Init, NoFile, Outdated
    <2>3. OldIsFirst
        BY <2>1, <2>2 DEF OldIsFirst
    <2> QED
        BY <2>1, <2>3 DEF OverlapInv, DeletesAlone, SavesNewFace, SavedIsThere, EntryReplaced, InScan
<1>2. OverlapInv /\ MapIInv /\ WholeIInv /\ MapIInv' /\ [Next]_vars => OverlapInv'
    <2> SUFFICES ASSUME OverlapInv, MapIInv, WholeIInv, MapIInv', [Next]_vars PROVE OverlapInv'
        OBVIOUS
    <2>1. CASE UNCHANGED vars
        <3>1. UNCHANGED <<disk, cache, up, save, load, delete, cut>>
            BY <2>1 DEF vars
        <3> QED
            BY <3>1 DEF OverlapInv, DeletesAlone, SavesNewFace, OldIsFirst, SavedIsThere,
                EntryReplaced, Replaced, Exists, Valid
    <2>2. CASE Next
        <3>1. CASE \/ \E f \in Faces : SaveBegin(f)
                   \/ SaveSign \/ SaveEncrypt \/ SaveOpen \/ SaveWrite \/ SaveRename
                   \/ SaveRemoveStale \/ SaveInstall
            BY <3>1, OverlapSave
        <3>2. CASE \/ RestoreBegin \/ \E f \in Faces, s \in Slots : RestoreEntry(f, s)
                   \/ RestoreReadDat \/ RestoreReadPlain \/ RestoreClean
                   \/ RestoreEnds \/ RestoreInstall
            BY <3>2, OverlapRestore
        <3>3. CASE \/ \E f \in Faces : DeleteBegin(f)
                   \/ DeleteDat \/ DeletePlain \/ DeleteCount \/ DeleteWipe \/ DeleteErase
            BY <3>3, OverlapDelete
        <3>4. CASE Crash
            BY <3>4, OverlapCrash
        <3> QED
            BY <2>2, <3>1, <3>2, <3>3, <3>4 DEF Next
    <2> QED
        BY <2>1, <2>2
<1> QED
    BY <1>1, <1>2, MapIInvHolds, WholeInvariance, PTL DEF Spec

-----------------------------------------------------------------------------
(* What a save can replace: the template of a face that the last restore missed. *)

LEMMA SameTemplate ==
    ASSUME NEW f \in Faces, disk'[<<f, "dat">>] = disk[<<f, "dat">>],
           disk'[<<f, "plain">>] = disk[<<f, "plain">>]
    PROVE  Loadable(f)' = Loadable(f) /\ (Valid(f, "dat")' <=> Valid(f, "dat"))
BY DEF Loadable, Valid

(* Removals make no template. *)
LEMMA RemovalsMakeNone ==
    ASSUME ContentsMade, ContentsMade', NEW f \in Faces,
           \A s \in {"dat", "plain"} : disk'[<<f, s>>] = disk[<<f, s>>] \/ disk'[<<f, s>>] = NoFile
    PROVE  /\ Loadable(f)' # 0 => Loadable(f) # 0
           /\ Valid(f, "dat")' => Valid(f, "dat")
<1>1. /\ Valid(f, "dat")' => Valid(f, "dat")
      /\ Valid(f, "plain")' => Valid(f, "plain")
    BY WholeFacts DEF Valid
<1> QED
    BY <1>1, LoadableFacts, LoadableNext

(* A save changes the template of its own face only, when it renames and when it  *)
(* removes the stale file.                                                 *)
LEMMA SaveChangesOwn ==
    ASSUME TypeOK, NEW f \in Faces,
           \/ \E g \in Faces : SaveBegin(g)
           \/ SaveSign \/ SaveEncrypt \/ SaveOpen \/ SaveWrite \/ SaveRename
           \/ SaveRemoveStale \/ SaveInstall,
           f # save.face \/ save.pc \notin {"rename", "removeStale"}
    PROVE  Loadable(f)' = Loadable(f)
<1>1. /\ save.face \in Faces /\ save.slot \in {"dat", "plain"}
      /\ disk \in [Faces \X Slots -> Contents]
    BY DEF TypeOK
<1>2. /\ Temp(save.slot) \in Slots /\ Temp(save.slot) \notin {"dat", "plain"}
      /\ save.slot \in Slots /\ Other(save.slot) \in Slots
      /\ "dat" \in Slots /\ "plain" \in Slots
    BY <1>1, SlotFacts DEF Slots
<1>3. CASE UNCHANGED disk
    BY <1>3, SameTemplate
<1>4. CASE disk' # disk /\ (SaveOpen \/ SaveWrite)
    <2>1. PICK c \in {Torn, Whole(save.tmpl)} : Put(save.face, Temp(save.slot), c)
        BY <1>4 DEF SaveOpen, SaveWrite
    <2>2. \A s \in {"dat", "plain"} : disk'[<<f, s>>] = disk[<<f, s>>]
        BY <1>1, <1>2, <2>1 DEF Put
    <2> QED
        BY <2>2, SameTemplate
<1>5. CASE disk' # disk /\ (SaveRename \/ SaveRemoveStale)
    <2>1. f # save.face
        BY <1>5 DEF SaveRename, SaveRemoveStale
    <2>2. \A s \in {"dat", "plain"} : disk'[<<f, s>>] = disk[<<f, s>>]
        BY <1>1, <1>2, <1>5, <2>1 DEF SaveRename, SaveRemoveStale, Remove, Put
    <2> QED
        BY <2>2, SameTemplate
<1> QED
    BY <1>3, <1>4, <1>5 DEF SaveBegin, SaveSign, SaveEncrypt, SaveInstall

(* A save that finds a template of its face in its way finds one that was missed. *)
LEMMA FindsMissed ==
    ASSUME TypeOK, OverlapInv, MissedInv, save.pc = "rename", Loadable(save.face) # 0
    PROVE  save.face \in missed
<1>1. save.face \in Faces
    BY DEF TypeOK
<1>2. up /\ cache[save.face] = 0 /\ delete.pc = "idle"
    BY DEF OverlapInv, SavesNewFace, DeletesAlone
<1> QED
    BY <1>1, <1>2 DEF MissedInv, LeftOutWasMissed

LEMMA MissedSave ==
    ASSUME MapIInv, WholeIInv, OverlapInv, MissedInv, MapIInv', OverlapInv',
           "delete" \notin Overlapping,
           \/ \E f \in Faces : SaveBegin(f)
           \/ SaveSign \/ SaveEncrypt \/ SaveOpen \/ SaveWrite \/ SaveRename
           \/ SaveRemoveStale \/ SaveInstall
    PROVE  MissedInv'
<1>1. /\ TypeOK /\ ContentsMade /\ ContentsMade' /\ DeletesAlone /\ SavesNewFace
      /\ PassedAreGone /\ LeftOutWasMissed /\ ReplacesMissed
    BY DEF MapIInv, OverlapInv, MissedInv
<1>2. /\ save \in [pc : {"idle", "sign", "encrypt", "open", "write", "rename",
                         "removeStale", "install"},
                   face : Faces, slot : {"dat", "plain"}, tmpl : 0..MaxSaves]
      /\ disk \in [Faces \X Slots -> Contents] /\ cache \in [Faces -> 0..MaxSaves]
    BY <1>1 DEF TypeOK
<1>3. UNCHANGED <<load, delete, up, missed>> /\ (cut => cut')
    BY DEF SaveBegin, SaveSign, SaveEncrypt, SaveOpen, SaveWrite, SaveRename,
           SaveRemoveStale, SaveInstall
<1>4. delete.pc = "idle"
    <2>1. CASE save.pc = "idle"
        BY <2>1 DEF SaveBegin, SaveSign, SaveEncrypt, SaveOpen, SaveWrite, SaveRename,
           SaveRemoveStale, SaveInstall, MayBegin, Idle, Running
    <2>2. CASE save.pc # "idle"
        BY <1>1, <2>2 DEF DeletesAlone
    <2> QED
        BY <2>1, <2>2
<1>5. PassedAreGone'
    BY <1>3, <1>4 DEF PassedAreGone
<1>6. ASSUME NEW f \in Faces, up, cache'[f] = 0, Loadable(f)' # 0,
             ~(save'.pc \in {"removeStale", "install"} /\ save'.face = f)
      PROVE  f \in missed
    <2>1. cache[f] = 0 /\ ~(save.pc \in {"removeStale", "install"} /\ save.face = f)
        <3>1. CASE SaveInstall
            <4>1. cache' = [cache EXCEPT ![save.face] = save.tmpl] /\ save.pc = "install"
                BY <3>1 DEF SaveInstall
            <4>2. f # save.face
                BY <1>1, <1>2, <1>6, <4>1 DEF SavesNewFace
            <4> QED
                BY <1>2, <1>6, <4>1, <4>2
        <3>2. CASE ~SaveInstall
            <4>1. UNCHANGED cache
                BY <3>2 DEF SaveBegin, SaveSign, SaveEncrypt, SaveOpen, SaveWrite, SaveRename,
                    SaveRemoveStale
            <4>2. ASSUME save.pc \in {"removeStale", "install"}
                  PROVE  save'.pc = "install" /\ save'.face = save.face
                BY <1>2, <3>2, <4>2 DEF SaveBegin, SaveSign, SaveEncrypt, SaveOpen, SaveWrite,
                    SaveRename, SaveRemoveStale
            <4> QED
                BY <1>6, <4>1, <4>2
        <3> QED
            BY <3>1, <3>2
    <2>2. Loadable(f) # 0
        <3>1. CASE f = save.face /\ save.pc = "rename"
            <4>1. SaveRename
                BY <3>1 DEF SaveBegin, SaveSign, SaveEncrypt, SaveOpen, SaveWrite, SaveRename,
                    SaveRemoveStale, SaveInstall
            <4>2. UNCHANGED disk
                BY <1>2, <1>6, <3>1, <4>1 DEF SaveRename
            <4> QED
                BY <1>6, <4>2, SameTemplate
        <3>2. CASE f # save.face \/ save.pc # "rename"
            BY <1>1, <1>6, <2>1, <3>2, SaveChangesOwn
        <3> QED
            BY <3>1, <3>2
    <2> QED
        BY <1>1, <1>4, <1>6, <2>1, <2>2 DEF LeftOutWasMissed
<1>7. LeftOutWasMissed'
    BY <1>1, <1>3, <1>6 DEF LeftOutWasMissed
<1>8. ReplacesMissed'
    <2> SUFFICES ASSUME ~cut', save'.pc = "removeStale", save'.slot = "plain",
                        disk'[<<save'.face, "dat">>].kind = "whole"
                 PROVE  save'.face \in missed
        BY <1>3 DEF ReplacesMissed, Valid
    <2>1. SaveRename /\ save.pc = "rename"
        <3>1. ~\E f \in Faces : SaveBegin(f)
            BY DEF SaveBegin
        <3>2. ~(SaveSign \/ SaveEncrypt \/ SaveOpen \/ SaveWrite)
            <4>1. SaveOpen => save' = [save EXCEPT !.pc = "write"] \/ save' = NoSave
                BY Zenon DEF SaveOpen
            <4>2. SaveWrite => save' = [save EXCEPT !.pc = "rename"]
                BY Zenon DEF SaveWrite
            <4>3. SaveSign => save' = [save EXCEPT !.pc = "encrypt"] \/ save' = NoSave
                BY Zenon DEF SaveSign
            <4>4. SaveEncrypt => \/ save' = [save EXCEPT !.pc = "open"]
                                 \/ save' = [save EXCEPT !.pc = "open", !.slot = "plain"]
                BY Zenon DEF SaveEncrypt
            <4>5. CASE SaveSign
                BY <1>2, <4>3, <4>5 DEF NoSave
            <4>6. CASE SaveEncrypt
                BY <1>2, <4>4, <4>6
            <4>7. CASE SaveOpen
                BY <1>2, <4>1, <4>7 DEF NoSave
            <4>8. CASE SaveWrite
                BY <1>2, <4>2, <4>8
            <4> QED
                BY <4>5, <4>6, <4>7, <4>8
        <3>3. ~(SaveRemoveStale \/ SaveInstall)
            BY <1>2 DEF SaveRemoveStale, SaveInstall, NoSave
        <3> QED
            BY <3>1, <3>2, <3>3 DEF SaveRename
    <2>2. /\ save'.face = save.face /\ save.slot = "plain"
          /\ disk' = [disk EXCEPT ![<<save.face, "plain">>] = disk[<<save.face, "plain.tmp">>],
                                  ![<<save.face, "plain.tmp">>] = NoFile]
        BY <1>2, <2>1 DEF SaveRename, NoSave, Temp
    <2>3. disk'[<<save.face, "dat">>] = disk[<<save.face, "dat">>]
        BY <1>2, <2>2 DEF Slots
    <2>4. Loadable(save.face) # 0
        BY <1>1, <1>2, <2>2, <2>3, LoadableFacts DEF Valid
    <2> QED
        BY <1>1, <2>1, <2>2, <2>4, FindsMissed
<1> QED
    BY <1>5, <1>7, <1>8 DEF MissedInv

LEMMA MissedRestore ==
    ASSUME MapIInv, WholeIInv, OverlapInv, MissedInv, MapIInv',
           "delete" \notin Overlapping,
           \/ RestoreBegin \/ \E f \in Faces, s \in Slots : RestoreEntry(f, s)
           \/ RestoreReadDat \/ RestoreReadPlain \/ RestoreClean
           \/ RestoreEnds \/ RestoreInstall
    PROVE  MissedInv'
<1>1. /\ TypeOK /\ ContentsMade /\ ContentsMade' /\ DeletesAlone
      /\ PassedAreGone /\ LeftOutWasMissed /\ ReplacesMissed
    BY DEF MapIInv, OverlapInv, MissedInv
<1>2. /\ disk \in [Faces \X Slots -> Contents]
      /\ save.face \in Faces
      /\ load \in [pc : {"idle", "scan", "readDat", "readPlain", "clean", "install"},
                   due : SUBSET (Faces \X Slots), face : Faces, slot : Slots,
                   loaded : [Faces -> {c \in Contents : c.kind \in {"none", "whole"}}]]
    BY <1>1 DEF TypeOK
<1>3. UNCHANGED <<save, delete, cut>>
    BY DEF RestoreBegin, RestoreEntry, RestoreReadDat, RestoreReadPlain, RestoreClean,
        RestoreEnds, RestoreInstall
<1>4. delete.pc = "idle"
    <2>1. CASE load.pc = "idle"
        BY <2>1 DEF RestoreBegin, RestoreEntry, RestoreReadDat, RestoreReadPlain, RestoreClean,
            RestoreEnds, RestoreInstall, MayBegin, Idle, Running
    <2>2. CASE load.pc # "idle"
        BY <1>1, <2>2 DEF DeletesAlone
    <2> QED
        BY <2>1, <2>2
<1>5. PassedAreGone'
    BY <1>3, <1>4 DEF PassedAreGone
<1>6. \A f \in Faces, s \in {"dat", "plain"} :
          disk'[<<f, s>>] = disk[<<f, s>>] \/ disk'[<<f, s>>] = NoFile
    <2>1. CASE RestoreClean
        BY <1>2, <2>1, SlotFacts DEF RestoreClean, CleanEntry, Remove, Put
    <2>2. CASE RestoreEnds
        BY <1>2, <2>2, SlotFacts DEF RestoreEnds, WrongVersion
    <2>3. CASE ~RestoreClean /\ ~RestoreEnds
        BY <2>3 DEF RestoreBegin, RestoreEntry, RestoreReadDat, RestoreReadPlain, RestoreInstall
    <2> QED
        BY <2>1, <2>2, <2>3
<1>7. \A f \in Faces : /\ Loadable(f)' # 0 => Loadable(f) # 0
                       /\ Valid(f, "dat")' => Valid(f, "dat")
    BY <1>1, <1>6, RemovalsMakeNone
<1>8. ASSUME NEW f \in Faces, load'.loaded[f] # NoFile PROVE load'.loaded[f].tmpl # 0
    <2>1. CASE RestoreReadDat \/ RestoreReadPlain
        <3>1. PICK s \in {"dat", "plain"} :
                  \/ load'.loaded = load.loaded
                  \/ Valid(load.face, s) /\ load'.loaded = [load.loaded EXCEPT ![load.face] = disk[<<load.face, s>>]]
            BY <1>2, <2>1 DEF RestoreReadDat, RestoreReadPlain, PlainAccepted, Loaded
        <3>2. Valid(load.face, s) => disk[<<load.face, s>>].tmpl # 0
            BY <1>1, <1>2, StoredFacts, SlotFacts DEF ContentsMade, Valid
        <3> QED
            BY <1>1, <1>2, <1>8, <3>1, <3>2 DEF LeftOutWasMissed
    <2>2. CASE ~(RestoreReadDat \/ RestoreReadPlain)
        <3>1. load'.loaded[f] = load.loaded[f] \/ load'.loaded[f] = NoFile
            <4>1. CASE RestoreBegin \/ RestoreInstall
                <5>1. load'.loaded = [g \in Faces |-> NoFile]
                    <6>1. CASE RestoreBegin
                        <7>1. PICK due : load' = [NoLoad EXCEPT !.pc = "scan", !.due = due]
                            BY Zenon, <6>1 DEF RestoreBegin
                        <7> QED
                            BY <7>1 DEF NoLoad
                    <6>2. CASE RestoreInstall
                        BY <6>2 DEF RestoreInstall, NoLoad
                    <6> QED
                        BY <4>1, <6>1, <6>2
                <5> QED
                    BY <5>1
            <4>2. CASE RestoreClean \/ \E g \in Faces, s \in Slots : RestoreEntry(g, s)
                <5>1. load'.loaded = load.loaded
                    BY <1>2, <4>2 DEF RestoreClean, RestoreEntry
                <5> QED
                    BY <5>1
            <4>3. CASE RestoreEnds
                <5>1. load'.loaded = [g \in Faces |-> IF g \in WrongVersion THEN NoFile
                                                      ELSE load.loaded[g]]
                    BY <1>2, <4>3 DEF RestoreEnds
                <5> QED
                    BY <5>1
            <4> QED
                BY <2>2, <4>1, <4>2, <4>3
        <3> QED
            BY <1>1, <1>8, <3>1 DEF LeftOutWasMissed
    <2> QED
        BY <2>1, <2>2
<1>9. CASE RestoreInstall
    <2>1. /\ save.pc = "idle" /\ \A f \in Faces : cache'[f] = load.loaded[f].tmpl
          /\ UNCHANGED disk
          /\ missed' = {f \in Faces : Loadable(f) # 0 /\ load.loaded[f] = NoFile}
        BY <1>9 DEF RestoreInstall, Unlocked
    <2>2. LeftOutWasMissed'
        BY <1>1, <1>7, <1>8, <2>1 DEF LeftOutWasMissed
    <2>3. ReplacesMissed'
        BY <1>3, <2>1 DEF ReplacesMissed
    <2> QED
        BY <1>5, <2>2, <2>3 DEF MissedInv
<1>10. CASE ~RestoreInstall
    <2>1. UNCHANGED <<cache, up, missed>>
        BY <1>10 DEF RestoreBegin, RestoreEntry, RestoreReadDat, RestoreReadPlain, RestoreClean,
            RestoreEnds
    <2>2. LeftOutWasMissed'
        BY <1>1, <1>3, <1>4, <1>7, <1>8, <2>1 DEF LeftOutWasMissed
    <2>3. ReplacesMissed'
        BY <1>1, <1>2, <1>3, <1>7, <2>1 DEF ReplacesMissed
    <2> QED
        BY <1>5, <2>2, <2>3 DEF MissedInv
<1> QED
    BY <1>9, <1>10

LEMMA MissedDelete ==
    ASSUME MapIInv, OverlapInv, MissedInv, MapIInv', "delete" \notin Overlapping,
           \/ \E f \in Faces : DeleteBegin(f)
           \/ DeleteDat \/ DeletePlain \/ DeleteCount \/ DeleteWipe \/ DeleteErase
    PROVE  MissedInv'
<1>1. /\ TypeOK /\ ContentsMade /\ ContentsMade' /\ DeletesAlone
      /\ PassedAreGone /\ LeftOutWasMissed
    BY DEF MapIInv, OverlapInv, MissedInv
<1>2. /\ disk \in [Faces \X Slots -> Contents] /\ cache \in [Faces -> 0..MaxSaves]
      /\ delete \in [pc : {"idle", "dat", "plain", "count", "wipe", "erase"}, face : Faces]
      /\ "dat" \in Slots /\ "plain" \in Slots
    BY <1>1 DEF TypeOK, Slots
<1>3. UNCHANGED <<save, load, up, missed>> /\ save.pc = "idle"
    <2>1. CASE \E f \in Faces : DeleteBegin(f)
        BY <2>1 DEF DeleteBegin, MayBegin, Idle, Running
    <2>2. CASE ~\E f \in Faces : DeleteBegin(f)
        BY <1>1, <2>2 DEF DeleteDat, DeletePlain, DeleteCount, DeleteWipe, DeleteErase,
            DeletesAlone
    <2> QED
        BY <2>1, <2>2
<1>4. \A f \in Faces, s \in {"dat", "plain"} :
          disk'[<<f, s>>] = disk[<<f, s>>] \/ disk'[<<f, s>>] = NoFile
    BY <1>2 DEF DeleteBegin, DeleteDat, DeletePlain, RemovePlain, Remove, Put, DeleteCount,
        DeleteWipe, DeleteErase
<1>5. \A f \in Faces : Loadable(f)' # 0 => Loadable(f) # 0
    BY <1>1, <1>4, RemovalsMakeNone
<1>6. PassedAreGone'
    <2>1. CASE DeleteDat
        BY <1>2, <2>1 DEF DeleteDat, Remove, Put, PassedAreGone, Exists
    <2>2. CASE DeletePlain
        BY <1>1, <1>2, <2>2 DEF DeletePlain, RemovePlain, Remove, Put, PassedAreGone, Exists
    <2>3. CASE DeleteWipe
        BY <1>2, <2>3 DEF DeleteWipe, PassedAreGone, Exists
    <2>4. CASE DeleteCount
        BY <1>1, <1>2, <2>4 DEF DeleteCount, PassedAreGone, Exists
    <2>5. CASE DeleteErase \/ \E f \in Faces : DeleteBegin(f)
        BY <2>5 DEF DeleteErase, DeleteBegin, NoDelete, PassedAreGone
    <2> QED
        BY <2>1, <2>2, <2>3, <2>4, <2>5
<1>7. ASSUME NEW f \in Faces, up, cache'[f] = 0, Loadable(f)' # 0
      PROVE  f \in missed \/ (delete'.pc # "idle" /\ delete'.face = f)
    <2>1. CASE DeleteErase
        <3>1. /\ delete.pc = "erase" /\ UNCHANGED disk
              /\ cache' = [cache EXCEPT ![delete.face] = 0]
            BY <2>1 DEF DeleteErase
        <3>2. ~Valid(delete.face, "dat") /\ ~Valid(delete.face, "plain")
            BY <1>1, <3>1, WholeFacts DEF PassedAreGone, Exists, Valid
        <3>3. Loadable(delete.face) = 0
            BY <1>1, <1>2, <3>2, LoadableFacts
        <3>4. f # delete.face /\ Loadable(f) # 0
            BY <1>5, <1>7, <3>3
        <3>5. cache[f] = 0
            BY <1>2, <1>7, <3>1, <3>4
        <3> QED
            BY <1>1, <1>3, <1>7, <3>4, <3>5 DEF LeftOutWasMissed
    <2>2. CASE ~DeleteErase
        <3>1. /\ UNCHANGED cache
              /\ delete.pc # "idle" => delete'.pc # "idle" /\ delete'.face = delete.face
            BY <1>2, <2>2 DEF DeleteBegin, DeleteDat, DeletePlain, DeleteCount, DeleteWipe
        <3> QED
            BY <1>1, <1>3, <1>5, <1>7, <3>1 DEF LeftOutWasMissed
    <2> QED
        BY <2>1, <2>2
<1> QED
    BY <1>1, <1>3, <1>6, <1>7 DEF MissedInv, LeftOutWasMissed, ReplacesMissed

(* A face that is stored and not in the engine's map was left out by a restore   *)
(* beside its save, whatever saves and restores overlap.                   *)
THEOREM MissedInvHolds ==
    ASSUME ~DecryptFails, ~VerifyFails, "delete" \notin Overlapping
    PROVE  Spec => []MissedInv
<1>1. Init => MissedInv
    <2> SUFFICES ASSUME Init PROVE MissedInv
        OBVIOUS
    <2>1. /\ save.pc = "idle" /\ delete.pc = "idle" /\ up = FALSE
          /\ \A f \in Faces : load.loaded[f] = NoFile
        BY DEF Init, NoSave, NoLoad, NoDelete
    <2> QED
        BY <2>1 DEF MissedInv, PassedAreGone, LeftOutWasMissed, ReplacesMissed
<1>2. MapIInv /\ WholeIInv /\ OverlapInv /\ MissedInv /\ MapIInv' /\ OverlapInv' /\ [Next]_vars
          => MissedInv'
    <2> SUFFICES ASSUME MapIInv, WholeIInv, OverlapInv, MissedInv, MapIInv', OverlapInv',
                        [Next]_vars
                 PROVE  MissedInv'
        OBVIOUS
    <2>1. CASE UNCHANGED vars
        <3>1. UNCHANGED <<disk, cache, up, save, load, delete, cut, missed>>
            BY <2>1 DEF vars
        <3>2. \A f \in Faces : Loadable(f)' = Loadable(f)
            BY <3>1 DEF Loadable, Valid
        <3> QED
            BY <3>1, <3>2 DEF MissedInv, PassedAreGone, LeftOutWasMissed, ReplacesMissed,
                Exists, Valid
    <2>2. CASE Next
        <3>1. CASE \/ \E f \in Faces : SaveBegin(f)
                   \/ SaveSign \/ SaveEncrypt \/ SaveOpen \/ SaveWrite \/ SaveRename
                   \/ SaveRemoveStale \/ SaveInstall
            BY <3>1, MissedSave
        <3>2. CASE \/ RestoreBegin \/ \E f \in Faces, s \in Slots : RestoreEntry(f, s)
                   \/ RestoreReadDat \/ RestoreReadPlain \/ RestoreClean
                   \/ RestoreEnds \/ RestoreInstall
            BY <3>2, MissedRestore
        <3>3. CASE \/ \E f \in Faces : DeleteBegin(f)
                   \/ DeleteDat \/ DeletePlain \/ DeleteCount \/ DeleteWipe \/ DeleteErase
            BY <3>3, MissedDelete
        <3>4. CASE Crash
            <4>1. /\ save'.pc = "idle" /\ delete'.pc = "idle" /\ ~up'
                  /\ \A f \in Faces : load'.loaded[f] = NoFile
                BY <3>4 DEF Crash, NoSave, NoLoad, NoDelete
            <4> QED
                BY <4>1 DEF MissedInv, PassedAreGone, LeftOutWasMissed, ReplacesMissed
        <3> QED
            BY <2>2, <3>1, <3>2, <3>3, <3>4 DEF Next
    <2> QED
        BY <2>1, <2>2
<1> QED
    BY <1>1, <1>2, MapIInvHolds, WholeInvariance, OverlapInvHolds, PTL DEF Spec

(* Saves and restores may overlap, writes may be cut short, the service may      *)
(* crash: a step after which a face's good template is gone or another is in   *)
(* its place is a deletion's, or a save's over a face that was missed.     *)
LEMMA LosesByDeletion ==
    ASSUME MapIInv, WholeIInv, OverlapInv, MissedInv, MapIInv', [Next]_vars,
           NEW f \in Faces, ~cut, Loadable(f) # 0, Loadable(f)' # Loadable(f)
    PROVE  \/ delete.pc # "idle"
           \/ save.pc \in {"rename", "removeStale"} /\ save.face = f /\ f \in missed
<1>1. /\ TypeOK /\ ContentsMade /\ OldIsFirst /\ EntryReplaced /\ SavedIsThere
      /\ ContentsMade' /\ ReplacesMissed
    BY DEF MapIInv, OverlapInv, MissedInv
<1>2. /\ disk \in [Faces \X Slots -> Contents]
      /\ save \in [pc : {"idle", "sign", "encrypt", "open", "write", "rename",
                         "removeStale", "install"},
                   face : Faces, slot : {"dat", "plain"}, tmpl : 0..MaxSaves]
      /\ load \in [pc : {"idle", "scan", "readDat", "readPlain", "clean", "install"},
                   due : SUBSET (Faces \X Slots), face : Faces, slot : Slots,
                   loaded : [Faces -> {c \in Contents : c.kind \in {"none", "whole"}}]]
      /\ "dat" \in Slots /\ "plain" \in Slots
    BY <1>1 DEF TypeOK, Slots
<1>3. disk' # disk
    BY SameTemplate
<1>4. CASE \/ \E g \in Faces : SaveBegin(g)
           \/ SaveSign \/ SaveEncrypt \/ SaveOpen \/ SaveWrite \/ SaveRename
           \/ SaveRemoveStale \/ SaveInstall
    <2>1. f = save.face /\ save.pc \in {"rename", "removeStale"}
        BY <1>1, <1>4, SaveChangesOwn
    <2>2. CASE save.pc = "rename"
        BY <1>1, <2>1, <2>2, FindsMissed
    <2>3. CASE save.pc = "removeStale"
        <3>1. Remove(f, Other(save.slot))
            BY <1>4, <2>1, <2>3 DEF SaveBegin, SaveSign, SaveEncrypt, SaveOpen, SaveWrite,
                SaveRename, SaveRemoveStale, SaveInstall
        <3>2. CASE save.slot = "dat"
            <4>1. Valid(f, "dat") /\ disk'[<<f, "dat">>] = disk[<<f, "dat">>]
                BY <1>1, <1>2, <2>1, <2>3, <3>1, <3>2 DEF SavedIsThere, Remove, Put, Other
            <4>2. Loadable(f)' = Loadable(f)
                BY <4>1 DEF Loadable, Valid
            <4> QED
                BY <4>2
        <3>3. CASE save.slot = "plain" /\ Valid(f, "dat")
            BY <1>1, <2>1, <2>3, <3>3 DEF ReplacesMissed
        <3>4. CASE save.slot = "plain" /\ ~Valid(f, "dat")
            <4>1. disk'[<<f, "dat">>] = NoFile /\ disk'[<<f, "plain">>] = disk[<<f, "plain">>]
                BY <1>2, <3>1, <3>4 DEF Remove, Put, Other
            <4>2. Loadable(f)' = Loadable(f)
                BY <3>4, <4>1, WholeFacts DEF Loadable, Valid
            <4> QED
                BY <4>2
        <3> QED
            BY <1>2, <3>2, <3>3, <3>4
    <2> QED
        BY <2>1, <2>2, <2>3
<1>5. CASE RestoreClean
    <2>1. /\ load.pc = "clean"
          /\ \A s \in {"dat", "plain"} :
                disk'[<<f, s>>] = IF f = load.face /\ s = load.slot THEN NoFile ELSE disk[<<f, s>>]
        BY <1>2, <1>5 DEF RestoreClean, CleanEntry, Remove, Put
    <2>2. load.face = f /\ load.slot \in {"dat", "plain"}
        BY <2>1, SameTemplate
    <2>3. CASE disk[<<load.face, load.slot>>] = Outdated
        <3>1. \E g \in Faces, s \in Slots : disk[<<g, s>>] = Outdated
            BY <1>2, <2>3
        <3>2. ~Valid(f, "dat") /\ ~Valid(f, "plain")
            <4>1. \A g \in Faces, s \in Slots : disk[<<g, s>>].kind # "whole"
                BY <1>1, <3>1 DEF OldIsFirst
            <4> QED
                BY <1>2, <4>1 DEF Valid
        <3> QED
            BY <1>1, <3>2, LoadableFacts
    <2>4. CASE ~Exists(load.face, load.slot)
        <3>1. \A s \in {"dat", "plain"} : disk'[<<f, s>>] = disk[<<f, s>>]
            BY <2>1, <2>4 DEF Exists
        <3> QED
            BY <3>1, SameTemplate
    <2> QED
        BY <1>1, <2>1, <2>2, <2>3, <2>4 DEF EntryReplaced, Replaced, InScan
<1>6. CASE RestoreEnds
    <2>1. WrongVersion = {}
        BY <1>2 DEF WrongVersion
    <2> QED
        BY <1>2, <1>3, <1>6, <2>1 DEF RestoreEnds
<1>7. CASE DeleteDat \/ DeletePlain \/ DeleteWipe
    BY <1>7 DEF DeleteDat, DeletePlain, DeleteWipe
<1>8. \/ \E g \in Faces : SaveBegin(g)
      \/ SaveSign \/ SaveEncrypt \/ SaveOpen \/ SaveWrite \/ SaveRename
      \/ SaveRemoveStale \/ SaveInstall \/ RestoreClean \/ RestoreEnds
      \/ DeleteDat \/ DeletePlain \/ DeleteWipe
    BY <1>3 DEF Next, vars, RestoreBegin, RestoreEntry, RestoreReadDat, RestoreReadPlain,
        RestoreInstall, DeleteBegin, DeleteCount, DeleteErase, Crash
<1> QED
    BY <1>4, <1>5, <1>6, <1>7, <1>8

(* Where no deletion overlaps another operation and Keystore2 does not fail a   *)
(* restore, the template that could be loaded of a face is lost, or replaced by  *)
(* another, only while a deletion runs; the one exception is a save over a face   *)
(* that the last restore left out of the map.                              *)
THEOREM OnlyDeletionsLose ==
    ASSUME ~DecryptFails, ~VerifyFails, "delete" \notin Overlapping
    PROVE  Spec => OnlyDeletionLoses
<1>1. ASSUME MapIInv, WholeIInv, OverlapInv, MissedInv, MapIInv', [Next]_vars
      PROVE  [\A f \in Faces :
                 ~cut /\ Loadable(f) # 0 /\ Loadable(f)' # Loadable(f) =>
                    \/ delete.pc # "idle"
                    \/ save.pc \in {"rename", "removeStale"} /\ save.face = f /\ f \in missed]_vars
    BY <1>1, LosesByDeletion
<1> QED
    BY <1>1, MapIInvHolds, WholeInvariance, OverlapInvHolds, MissedInvHolds, PTL
    DEF Spec, OnlyDeletionLoses
=============================================================================
