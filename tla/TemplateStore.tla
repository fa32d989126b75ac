---------------------------- MODULE TemplateStore ----------------------------
(***************************************************************************)
(* TemplateStore: how a user's face templates are kept.                    *)
(*                                                                         *)
(* FaceStorageManager keeps one file per face, encrypted or, when the      *)
(* encryption fails, in a file marked as plaintext; FaceTemplateSerializer *)
(* signs every template, CryptoClient calls Keystore2 for both.  Three     *)
(* operations of the engine use the storage, none of them under a lock of  *)
(* the storage:                                                            *)
(*   - save:    the frame thread at the end of an enrolment;               *)
(*   - restore: the constructor of a Session;                              *)
(*   - delete:  removeEnrollments() on a binder thread.                    *)
(* Only the engine's own map of templates has a mutex.  Each step here is  *)
(* one file operation or one call to Keystore2.                            *)
(***************************************************************************)
EXTENDS Integers, FiniteSets

CONSTANTS
    MaxFaces,      \* bound: face ids
    MaxSaves,      \* bound: enrolments that get as far as the storage
    MaxCrashes,    \* bound: crashes of the service
    FailingCalls,  \* Keystore2 calls that may fail: "sign", "encrypt",
                   \* "verify", "decrypt"
    DiskMayFill,   \* may a write be cut short
    Overlapping,   \* the operations that may overlap, of "save", "restore",
                   \* "delete"; each of the others runs alone
    OldTemplate    \* may the disk hold a template of another version at first

ASSUME BoundsAssumption ==
    MaxFaces \in Nat \ {0} /\ MaxSaves \in Nat /\ MaxCrashes \in Nat
ASSUME CallsAssumption == FailingCalls \subseteq {"sign", "encrypt", "verify", "decrypt"}
ASSUME ScenarioAssumption ==
    /\ DiskMayFill \in BOOLEAN /\ OldTemplate \in BOOLEAN
    /\ Overlapping \subseteq {"save", "restore", "delete"}

VARIABLES
    disk,        \* the user's directory
    cache,       \* enrolledEmbeddings, 0 for a face that is not in it
    up,          \* has a session been created since the service started
    vendorCode,  \* VendorStateManager's code
    save,        \* the save in progress
    load,        \* the restore in progress
    delete,      \* the delete in progress
    cut,         \* has a write been cut short
    overlap,     \* has an operation begun beside another: "never", "since" the
                 \* last restore that began alone, or "earlier"
    missed,      \* history: stored faces that the last restore left out of the map
    saves, crashes

vars == <<disk, cache, up, vendorCode, save, load, delete, cut, overlap, missed,
          saves, crashes>>

Faces == 1..MaxFaces

(* The files of a face: <id>.dat, <id>_without_encryption.dat, and for each   *)
(* the .tmp it is written to.                                              *)
Slots == {"dat", "plain", "dat.tmp", "plain.tmp"}
MutantTemp(s) == s
Temp(s) == IF s = "dat" THEN "dat.tmp" ELSE "plain.tmp"
Other(s) == IF s = "dat" THEN "plain" ELSE "dat"

(* What a file may hold. *)
NoFile == [kind |-> "none", tmpl |-> 0]
Torn == [kind |-> "torn", tmpl |-> 0]
Outdated == [kind |-> "old", tmpl |-> 0]
Whole(t) == [kind |-> "whole", tmpl |-> t]
Contents == [kind : {"none", "torn", "old", "whole"}, tmpl : 0..MaxSaves]

Exists(f, s) == disk[<<f, s>>] # NoFile
Put(f, s, c) == disk' = [disk EXCEPT ![<<f, s>>] = c]
Remove(f, s) == Put(f, s, NoFile)

(* A call to Keystore2 succeeds, after making a missing key, or fails if it    *)
(* may.                                                                    *)
SignFails == "sign" \in FailingCalls
EncryptFails == "encrypt" \in FailingCalls
VerifyFails == "verify" \in FailingCalls
DecryptFails == "decrypt" \in FailingCalls

NoSave == [pc |-> "idle", face |-> 1, slot |-> "dat", tmpl |-> 0]
NoLoad == [pc |-> "idle", due |-> {}, face |-> 1, slot |-> "dat",
           loaded |-> [f \in Faces |-> NoFile]]
NoDelete == [pc |-> "idle", face |-> 1]

Idle == save.pc = "idle" /\ load.pc = "idle" /\ delete.pc = "idle"
Running ==
    {op \in {"save", "restore", "delete"} :
        CASE op = "save" -> save.pc # "idle"
          [] op = "restore" -> load.pc # "idle"
          [] op = "delete" -> delete.pc # "idle"}
MayBegin(op) == Idle \/ Running \cup {op} \subseteq Overlapping

Overlaps == overlap' = IF Idle THEN overlap ELSE "since"

(* enrollmentMutex is held while an enrolment is saved. *)
Unlocked == save.pc = "idle"

Init ==
    /\ \/ disk = [fs \in Faces \X Slots |-> NoFile]
       \/ OldTemplate /\ \E f \in Faces :
             disk = [fs \in Faces \X Slots |->
                        IF fs = <<f, "dat">> THEN Outdated ELSE NoFile]
    /\ cache = [f \in Faces |-> 0] /\ up = FALSE /\ vendorCode = "none"
    /\ save = NoSave /\ load = NoLoad /\ delete = NoDelete
    /\ cut = FALSE /\ overlap = "never" /\ missed = {} /\ saves = 0 /\ crashes = 0

-----------------------------------------------------------------------------
(* FaceEngine::enroll() at the last good frame, and saveTemplate(). *)

Enrolled == {f \in Faces : cache[f] # 0}

(* The new id is one more than the largest in the engine's map. *)
SaveBegin(f) ==
    /\ up /\ save.pc = "idle" /\ MayBegin("save") /\ saves < MaxSaves
    /\ \A g \in Enrolled : g < f
    /\ f = 1 \/ f - 1 \in Enrolled
    /\ saves' = saves + 1 /\ Overlaps
    /\ save' = [pc |-> "sign", face |-> f, slot |-> "dat", tmpl |-> saves + 1]
    /\ UNCHANGED <<disk, cache, up, vendorCode, load, delete, cut, missed, crashes>>

(* serialize() signs the template; without a signature nothing is saved.      *)
SaveSign ==
    /\ save.pc = "sign"
    /\ \/ save' = [save EXCEPT !.pc = "encrypt"]
       \/ SignFails /\ save' = NoSave
    /\ UNCHANGED <<disk, cache, up, vendorCode, load, delete,
                   cut, overlap, missed, saves, crashes>>

(* encrypt() decides which of the two files is written. *)
SaveEncrypt ==
    /\ save.pc = "encrypt"
    /\ \/ save' = [save EXCEPT !.pc = "open"]
       \/ EncryptFails /\ save' = [save EXCEPT !.pc = "open", !.slot = "plain"]
    /\ UNCHANGED <<disk, cache, up, vendorCode, load, delete,
                   cut, overlap, missed, saves, crashes>>

(* It fails if an overlapping delete has removed the directory. *)
SaveOpen ==
    /\ save.pc = "open"
    /\ \/ /\ Put(save.face, Temp(save.slot), Torn)
          /\ save' = [save EXCEPT !.pc = "write"]
       \/ (DiskMayFill \/ "delete" \in Overlapping) /\ save' = NoSave /\ UNCHANGED disk
    /\ UNCHANGED <<cache, up, vendorCode, load, delete,
                   cut, overlap, missed, saves, crashes>>

(* Nobody looks at the stream after the write.  A file that was removed in    *)
(* the meantime is written without a name.                                 *)
SaveWrite ==
    /\ save.pc = "write"
    /\ save' = [save EXCEPT !.pc = "rename"]
    /\ \/ /\ IF Exists(save.face, Temp(save.slot))
             THEN Put(save.face, Temp(save.slot), Whole(save.tmpl)) ELSE UNCHANGED disk
          /\ UNCHANGED cut
       \/ DiskMayFill /\ cut' = TRUE /\ UNCHANGED disk
    /\ UNCHANGED <<cache, up, vendorCode, load, delete,
                   overlap, missed, saves, crashes>>

MayRename == Exists(save.face, Temp(save.slot))

SaveRename ==
    /\ save.pc = "rename"
    /\ IF MayRename
       THEN /\ disk' = [disk EXCEPT
                  ![<<save.face, save.slot>>] = disk[<<save.face, Temp(save.slot)>>],
                  ![<<save.face, Temp(save.slot)>>] = NoFile]
            /\ save' = [save EXCEPT !.pc = "removeStale"]
       ELSE save' = NoSave /\ UNCHANGED disk
    /\ UNCHANGED <<cache, up, vendorCode, load, delete,
                   cut, overlap, missed, saves, crashes>>

SaveRemoveStale ==
    /\ save.pc = "removeStale"
    /\ Remove(save.face, Other(save.slot))
    /\ save' = [save EXCEPT !.pc = "install"]
    /\ UNCHANGED <<cache, up, vendorCode, load, delete,
                   cut, overlap, missed, saves, crashes>>

(* The engine takes the template, releases its mutex and reports FACE_OK.    *)
SaveInstall ==
    /\ save.pc = "install"
    /\ cache' = [cache EXCEPT ![save.face] = save.tmpl]
    /\ save' = NoSave
    /\ UNCHANGED <<disk, up, vendorCode, load, delete,
                   cut, overlap, missed, saves, crashes>>

-----------------------------------------------------------------------------
(* restoreEnrollments() and loadAllTemplatesForUser(). *)

RestoreBegin ==
    /\ load.pc = "idle" /\ MayBegin("restore")
    /\ load' = [NoLoad EXCEPT !.pc = "scan", !.due = {fs \in Faces \X Slots : disk[fs] # NoFile}]
    /\ overlap' = CASE ~Idle -> "since"
                    [] Idle /\ overlap = "never" -> "never"
                    [] OTHER -> "earlier"
    /\ UNCHANGED <<disk, cache, up, vendorCode, save,
                   delete, cut, missed, saves, crashes>>

(* The directory's entries come in any order; of those made or removed during *)
(* the scan some are seen and some are not.  A .tmp is taken for a template of *)
(* its face.                                                               *)
RestoreEntry(f, s) ==
    /\ load.pc = "scan" /\ Exists(f, s)
    /\ load' = [load EXCEPT !.due = @ \ {<<f, s>>},
                            !.face = f, !.slot = s,
                            !.pc = IF load.loaded[f] = NoFile THEN "readDat" ELSE "scan"]
    /\ UNCHANGED <<disk, cache, up, vendorCode, save, delete,
                   cut, overlap, missed, saves, crashes>>

(* deserialize() accepts a template that is whole and of the current version. *)
MutantAcceptsOutdated(f, s) == disk[<<f, s>>].kind \in {"whole", "old"}
Valid(f, s) == disk[<<f, s>>].kind = "whole"
Loaded(f, s) ==
    load' = [load EXCEPT !.loaded[f] = disk[<<f, s>>], !.pc = "scan"]

(* loadTemplate() tries the encrypted file, then the plaintext one. *)
RestoreReadDat ==
    /\ load.pc = "readDat"
    /\ \/ Valid(load.face, "dat") /\ Loaded(load.face, "dat")
       \/ /\ ~Valid(load.face, "dat") \/ DecryptFails \/ VerifyFails
          /\ load' = [load EXCEPT !.pc = "readPlain"]
    /\ UNCHANGED <<disk, cache, up, vendorCode, save, delete,
                   cut, overlap, missed, saves, crashes>>

MutantNoFallback == FALSE
PlainAccepted == Valid(load.face, "plain")

RestoreReadPlain ==
    /\ load.pc = "readPlain"
    /\ \/ PlainAccepted /\ Loaded(load.face, "plain")
       \/ /\ ~PlainAccepted \/ VerifyFails
          /\ load' = [load EXCEPT !.pc = "clean"]
    /\ UNCHANGED <<disk, cache, up, vendorCode, save, delete,
                   cut, overlap, missed, saves, crashes>>

(* "Auto-cleaning": the entry whose face could not be loaded is removed.      *)
MutantKeepEntry == UNCHANGED disk
MutantCleanFace ==
    disk' = [fs \in Faces \X Slots |-> IF fs[1] = load.face THEN NoFile ELSE disk[fs]]
CleanEntry == Remove(load.face, load.slot)

RestoreClean ==
    /\ load.pc = "clean"
    /\ CleanEntry
    /\ load' = [load EXCEPT !.pc = "scan"]
    /\ UNCHANGED <<cache, up, vendorCode, save, delete,
                   cut, overlap, missed, saves, crashes>>

(* The scan is over when no entry that was there when it began is due any more; *)
(* the loadTemplates callback deletes what is not of the current version and  *)
(* asks for a new enrolment.  (Every template has the size it checks.)      *)
WrongVersion == {f \in Faces : load.loaded[f].kind = "old"}

RestoreEnds ==
    /\ load.pc = "scan"
    /\ \A f \in Faces, s \in Slots : Exists(f, s) => <<f, s>> \notin load.due
    /\ vendorCode' = IF WrongVersion = {} THEN vendorCode ELSE "REQUIRE_REENROLLMENT"
    /\ disk' = [fs \in Faces \X Slots |->
                   IF fs[1] \in WrongVersion THEN NoFile ELSE disk[fs]]
    /\ load' = [load EXCEPT !.pc = "install",
                            !.loaded = [f \in Faces |->
                                IF f \in WrongVersion THEN NoFile ELSE @[f]]]
    /\ UNCHANGED <<cache, up, save, delete, cut, overlap, missed, saves, crashes>>

(* What loadTemplate() would find for a face with Keystore2 at hand. *)
Loadable(f) ==
    IF Valid(f, "dat") THEN disk[<<f, "dat">>].tmpl
    ELSE IF Valid(f, "plain") THEN disk[<<f, "plain">>].tmpl ELSE 0

(* The engine's map is replaced under its mutex. *)
RestoreInstall ==
    /\ load.pc = "install" /\ Unlocked
    /\ cache' = [f \in Faces |-> load.loaded[f].tmpl] /\ up' = TRUE
    /\ load' = NoLoad
    /\ missed' = {f \in Faces : Loadable(f) # 0 /\ load.loaded[f] = NoFile}
    /\ UNCHANGED <<disk, vendorCode, save, delete, cut, overlap, saves, crashes>>

-----------------------------------------------------------------------------
(* deleteEnrollment(), deleteTemplate() and removeUser(). *)

DeleteBegin(f) ==
    /\ up /\ delete.pc = "idle" /\ MayBegin("delete")
    /\ delete' = [pc |-> "dat", face |-> f] /\ Overlaps
    /\ UNCHANGED <<disk, cache, up, vendorCode, save,
                   load, cut, missed, saves, crashes>>

DeleteDat ==
    /\ delete.pc = "dat"
    /\ Remove(delete.face, "dat")
    /\ delete' = [delete EXCEPT !.pc = "plain"]
    /\ UNCHANGED <<cache, up, vendorCode, save, load,
                   cut, overlap, missed, saves, crashes>>

MutantDeleteLeavesPlain == UNCHANGED disk
RemovePlain == Remove(delete.face, "plain")

DeletePlain ==
    /\ delete.pc = "plain"
    /\ RemovePlain
    /\ delete' = [delete EXCEPT !.pc = "count"]
    /\ UNCHANGED <<cache, up, vendorCode, save, load,
                   cut, overlap, missed, saves, crashes>>

(* Any file of a face left, a .tmp included, keeps the directory. *)
HasFaces == \E f \in Faces, s \in Slots : Exists(f, s)

DeleteCount ==
    /\ delete.pc = "count"
    /\ delete' = [delete EXCEPT !.pc = IF HasFaces THEN "erase" ELSE "wipe"]
    /\ UNCHANGED <<disk, cache, up, vendorCode, save, load,
                   cut, overlap, missed, saves, crashes>>

DeleteWipe ==
    /\ delete.pc = "wipe"
    /\ disk' = [fs \in Faces \X Slots |-> NoFile]
    /\ delete' = [delete EXCEPT !.pc = "erase"]
    /\ UNCHANGED <<cache, up, vendorCode, save, load,
                   cut, overlap, missed, saves, crashes>>

DeleteErase ==
    /\ delete.pc = "erase" /\ Unlocked
    /\ cache' = [cache EXCEPT ![delete.face] = 0]
    /\ delete' = NoDelete
    /\ UNCHANGED <<disk, up, vendorCode, save, load,
                   cut, overlap, missed, saves, crashes>>

-----------------------------------------------------------------------------
(* The service dies; the directory is what it was. *)
Crash ==
    /\ crashes < MaxCrashes /\ crashes' = crashes + 1
    /\ cache' = [f \in Faces |-> 0] /\ up' = FALSE /\ vendorCode' = "none"
    /\ save' = NoSave /\ load' = NoLoad /\ delete' = NoDelete /\ missed' = {}
    /\ UNCHANGED <<disk, cut, overlap, saves>>

Next ==
    \/ \E f \in Faces : SaveBegin(f) \/ DeleteBegin(f)
    \/ SaveSign \/ SaveEncrypt \/ SaveOpen \/ SaveWrite \/ SaveRename
    \/ SaveRemoveStale \/ SaveInstall
    \/ RestoreBegin \/ \E f \in Faces, s \in Slots : RestoreEntry(f, s)
    \/ RestoreReadDat \/ RestoreReadPlain \/ RestoreClean
    \/ RestoreEnds \/ RestoreInstall
    \/ DeleteDat \/ DeletePlain \/ DeleteCount \/ DeleteWipe \/ DeleteErase
    \/ Crash

Spec == Init /\ [][Next]_vars

(***************************************************************************)
(* Properties.                                                             *)
(***************************************************************************)

(* Every variable is in its range; in particular what a restore has accepted  *)
(* is a whole template of the current version.                             *)
TypeOK ==
    /\ disk \in [Faces \X Slots -> Contents]
    /\ cache \in [Faces -> 0..MaxSaves] /\ up \in BOOLEAN
    /\ vendorCode \in {"none", "REQUIRE_REENROLLMENT"}
    /\ save \in [pc : {"idle", "sign", "encrypt", "open", "write", "rename",
                       "removeStale", "install"},
                 face : Faces, slot : {"dat", "plain"}, tmpl : 0..MaxSaves]
    /\ load \in [pc : {"idle", "scan", "readDat", "readPlain", "clean", "install"},
                 due : SUBSET (Faces \X Slots), face : Faces, slot : Slots,
                 loaded : [Faces -> {c \in Contents : c.kind \in {"none", "whole"}}]]
    /\ delete \in [pc : {"idle", "dat", "plain", "count", "wipe", "erase"}, face : Faces]
    /\ cut \in BOOLEAN /\ overlap \in {"never", "since", "earlier"} /\ missed \subseteq Faces
    /\ saves \in 0..MaxSaves /\ crashes \in 0..MaxCrashes

(* "Atomic write" is what the code calls it: as long as no write was cut      *)
(* short, a template's own two files are whole after any crash and beside any *)
(* other operation; only a .tmp may be torn.                               *)
WholeFiles == ~cut => \A f \in Faces, s \in {"dat", "plain"} : disk[<<f, s>>] # Torn

Broken(f) == Loadable(f) = 0 /\ \E s \in {"dat", "plain"} : disk[<<f, s>>] = Torn

(* The storage implements TemplateMap: while no operations overlap, templates *)
(* survive crashes and failures of signing and encrypting, only a deletion    *)
(* loses one, a write that was cut short breaks no face but its own, and a    *)
(* new session starts from all that is stored.                             *)
Promise == INSTANCE TemplateMap WITH
              stored <- [f \in Faces |-> Loadable(f)],
              broken <- {f \in Faces : Broken(f)},
              alone <- overlap = "never"
ImplementsMap == Promise!Spec

(* One file for a face of the map and none for another, and no leftover. *)
OneFile(f) ==
    /\ Cardinality({s \in Slots : Exists(f, s)}) = IF cache[f] = 0 THEN 0 ELSE 1
    /\ ~Exists(f, "dat.tmp") /\ ~Exists(f, "plain.tmp") /\ disk[<<f, "dat">>] # Outdated

(* Between operations the engine's map is exactly what the directory holds,   *)
(* but for a face whose write was cut short, and each template is in one      *)
(* file, with no .tmp and no unusable file left over (the stale file's        *)
(* removal, the clean-up, both removals of a deletion).  An overlap makes map *)
(* and directory differ only until the next session, but what it left beside  *)
(* a good template stays.                                                  *)
CacheMatchesDisk ==
    Idle /\ up /\ overlap # "since" =>
        \A f \in Faces :
            /\ cache[f] = Loadable(f) \/ (cut /\ Broken(f))
            /\ overlap = "never" => OneFile(f)

(* Whichever operations overlap, a restore never takes a half-made file for a *)
(* broken face and destroys its template, and a save never leaves its face    *)
(* without one: unless a write was cut short, the template that could be loaded *)
(* of a face is lost, or another takes its place, only while a deletion runs   *)
(* (the rename, the order of the removals, the one entry that is cleaned up).  *)
(* The one exception: a restore whose scan ended before a save's rename takes  *)
(* the saved face out of the engine's map again; enroll() then gives its id to *)
(* the next face, whose file replaces the acknowledged template.            *)
OnlyDeletionLoses ==
    [][\A f \in Faces :
          ~cut /\ Loadable(f) # 0 /\ Loadable(f)' # Loadable(f) =>
              \/ delete.pc # "idle"
              \/ save.pc \in {"rename", "removeStale"} /\ save.face = f /\ f \in missed]_vars

(* A restore that has run to its end, rather than into a crash. *)
SessionCreated == load.pc = "install" /\ load'.pc = "idle" /\ crashes' = crashes

(* Even after writes that were cut short and operations side by side, a   *)
(* session created alone starts from every template that can be loaded, and   *)
(* leaves no file of any other face.                                       *)
SessionStartsClean ==
    [][SessionCreated /\ overlap # "since" =>
          \A f \in Faces :
              /\ cache'[f] = Loadable(f)
              /\ \A s \in Slots : Exists(f, s) => Loadable(f) # 0]_vars

(* loadTemplate() "Returns true if valid, false if corrupted/missing", and    *)
(* what it refuses is cleaned up: no valid template is.                      *)
OnlyInvalidCleaned ==
    [][load.pc = "clean" /\ load'.pc = "scan" => Loadable(load.face) = 0]_vars

-----------------------------------------------------------------------------
(***************************************************************************)
(* The inductive invariant behind CacheMatchesDisk, SessionStartsClean and *)
(* ImplementsMap, where Keystore2 does not fail a restore.                 *)
(***************************************************************************)
Stored == {NoFile, Torn, Outdated} \cup {Whole(t) : t \in 1..MaxSaves}

(* Every file holds something that was written, every template was made.      *)
ContentsMade ==
    /\ \A f \in Faces, s \in Slots : disk[<<f, s>>] \in Stored
    /\ save.pc # "idle" => up /\ save.tmpl = saves /\ saves > 0
    /\ delete.pc # "idle" => up

(* Operations that run beside another have been noticed. *)
OneOperation ==
    overlap # "since" =>
        /\ save.pc # "idle" => load.pc = "idle" /\ delete.pc = "idle"
        /\ load.pc # "idle" => delete.pc = "idle"

Matches(f) == cache[f] = Loadable(f) \/ (cut /\ Broken(f))

(* A save makes a face of which nothing could be loaded. *)
SaveProgress ==
    overlap # "since" /\ save.pc # "idle" =>
        /\ \A g \in Faces : g # save.face => Matches(g)
        /\ cache[save.face] = 0
        /\ save.pc \in {"sign", "encrypt", "open", "write", "rename"} => Loadable(save.face) = 0
        /\ save.pc = "write" => disk[<<save.face, Temp(save.slot)>>] = Torn
        /\ save.pc = "rename" =>
              \/ disk[<<save.face, Temp(save.slot)>>] = Whole(save.tmpl)
              \/ cut /\ disk[<<save.face, Temp(save.slot)>>] = Torn
        /\ save.pc \in {"removeStale", "install"} =>
              \/ disk[<<save.face, save.slot>>] = Whole(save.tmpl) /\ Loadable(save.face) = save.tmpl
              \/ cut /\ disk[<<save.face, save.slot>>] = Torn /\ Loadable(save.face) = 0

(* A restore has loaded what can be loaded of the entries it has passed, and    *)
(* removed the others.                                                     *)
LoadProgress ==
    overlap # "since" /\ load.pc # "idle" =>
        /\ \A f \in Faces :
              load.loaded[f] # NoFile => Loadable(f) # 0 /\ load.loaded[f] = Whole(Loadable(f))
        /\ \A f \in Faces, s \in Slots :
              load.loaded[f] = NoFile /\ <<f, s>> \notin load.due /\ Exists(f, s) =>
                  load.pc \in {"readDat", "readPlain", "clean"} /\ load.face = f /\ load.slot = s
        /\ load.pc \in {"readDat", "readPlain", "clean"} => load.loaded[load.face] = NoFile
        /\ load.pc \in {"readPlain", "clean"} => ~Valid(load.face, "dat")
        /\ load.pc = "clean" => ~Valid(load.face, "plain")
        /\ load.pc = "install" =>
              \A f \in Faces, s \in Slots : Exists(f, s) => load.loaded[f] # NoFile

(* A deletion takes its face's files one after the other. *)
DeleteProgress ==
    overlap # "since" /\ delete.pc # "idle" =>
        /\ \A g \in Faces : g # delete.face => Matches(g)
        /\ delete.pc # "dat" => ~Exists(delete.face, "dat")
        /\ delete.pc \in {"count", "wipe", "erase"} => ~Exists(delete.face, "plain")
        /\ delete.pc = "wipe" => ~HasFaces

IdleMatches == overlap # "since" /\ up /\ Idle => \A f \in Faces : Matches(f)

NoFiles(f) == \A s \in Slots : ~Exists(f, s)
OnlyFile(f, s) == \A t \in Slots : Exists(f, t) <=> t = s
CachedFile(f) ==
    /\ cache[f] = 0 => NoFiles(f)
    /\ cache[f] # 0 => OnlyFile(f, "dat") \/ OnlyFile(f, "plain")
    /\ disk[<<f, "dat">>] # Outdated

(* As long as no operations have overlapped, no face has two files. *)
FilesProgress ==
    overlap = "never" =>
        /\ \A f \in Faces : NoFiles(f) \/ \E s \in Slots : OnlyFile(f, s)
        /\ up /\ load.pc = "idle" =>
              \A f \in Faces :
                  (save.pc = "idle" \/ f # save.face) /\ (delete.pc = "idle" \/ f # delete.face)
                      => CachedFile(f)
        /\ save.pc \in {"sign", "encrypt", "open"} => NoFiles(save.face)
        /\ save.pc \in {"write", "rename"} => OnlyFile(save.face, Temp(save.slot))
        /\ save.pc \in {"removeStale", "install"} => OnlyFile(save.face, save.slot)
        /\ delete.pc # "idle" =>
              ~Exists(delete.face, "dat.tmp") /\ ~Exists(delete.face, "plain.tmp")

MapIInv ==
    /\ TypeOK /\ ContentsMade /\ OneOperation /\ SaveProgress /\ LoadProgress
    /\ DeleteProgress /\ IdleMatches /\ FilesProgress

(***************************************************************************)
(* What OnlyDeletionLoses needs where saves and restores overlap, but no   *)
(* deletion does.                                                          *)
(***************************************************************************)
DeletesAlone == delete.pc # "idle" => save.pc = "idle" /\ load.pc = "idle"

(* A save makes a face that the engine's map does not have until it ends. *)
SavesNewFace == save.pc # "idle" => up /\ cache[save.face] = 0 /\ save.tmpl # 0

InScan == {"readDat", "readPlain", "clean"}

(* A template of another version is there at most until the first session, and *)
(* alone.                                                                  *)
OldIsFirst ==
    (\E f \in Faces, s \in Slots : disk[<<f, s>>] = Outdated) =>
        /\ ~up /\ save.pc = "idle" /\ delete.pc = "idle" /\ load.pc # "install"
        /\ \A f \in Faces, s \in Slots : disk[<<f, s>>].kind # "whole"
        /\ \A f \in Faces : load.loaded[f] = NoFile
        /\ \A f \in Faces, s \in Slots :
              load.pc # "idle" /\ <<f, s>> \notin load.due /\ Exists(f, s) =>
                  load.pc \in InScan /\ load.face = f /\ load.slot = s

(* After the rename the template is in its file. *)
SavedIsThere ==
    ~cut /\ save.pc \in {"removeStale", "install"} => Valid(save.face, save.slot)

(* A save has put a face's other file in the place of this one, and no other   *)
(* save of that face begins before the map is replaced.                    *)
Replaced(f, s) ==
    /\ ~Exists(f, s) /\ Valid(f, Other(s))
    /\ cache[f] # 0 \/ (save.pc = "install" /\ save.face = f)

(* The entry a restore is at has been replaced if it is not there any more; if *)
(* it has been tried and refused, it was replaced before or is outdated.     *)
EntryReplaced ==
    ~cut /\ load.pc \in InScan /\ load.slot \in {"dat", "plain"} =>
        /\ Exists(load.face, load.slot) \/ Replaced(load.face, load.slot)
        /\ load.pc = "clean" \/ (load.pc = "readPlain" /\ load.slot = "dat") =>
              disk[<<load.face, load.slot>>] = Outdated \/ Replaced(load.face, load.slot)

OverlapInv == DeletesAlone /\ SavesNewFace /\ OldIsFirst /\ SavedIsThere /\ EntryReplaced

(* A deletion that runs alone has removed the files it has passed. *)
PassedAreGone ==
    /\ delete.pc \in {"plain", "count", "wipe", "erase"} => ~Exists(delete.face, "dat")
    /\ delete.pc \in {"count", "wipe", "erase"} => ~Exists(delete.face, "plain")

(* A stored face that is not in the engine's map was missed by the last restore, *)
(* unless it is being saved or deleted.                                    *)
LeftOutWasMissed ==
    /\ \A f \in Faces : load.loaded[f] # NoFile => load.loaded[f].tmpl # 0
    /\ up => \A f \in Faces :
          cache[f] = 0 /\ Loadable(f) # 0 =>
              \/ f \in missed
              \/ save.pc \in {"removeStale", "install"} /\ save.face = f
              \/ delete.pc # "idle" /\ delete.face = f

(* A save whose file did not replace the one that is loaded first makes a face   *)
(* that was stored, so missed.                                             *)
ReplacesMissed ==
    ~cut /\ save.pc = "removeStale" /\ save.slot = "plain" /\ Valid(save.face, "dat") =>
        save.face \in missed

MissedInv == PassedAreGone /\ LeftOutWasMissed /\ ReplacesMissed
=============================================================================
