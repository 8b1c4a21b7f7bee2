------------------------------- MODULE Stages -------------------------------
(***************************************************************************)
(* The two stages of the boot chain.  bootx64 looks through the file       *)
(* systems for NYXBOOT.EFI, loads it and starts it; nyxboot is the module  *)
(* BootConfig, whose steps are taken only once its image runs.  The search *)
(* of bootx64 and find_filesystem_with_file (fs.c) go through the same     *)
(* firmware calls and differ in what they release: "who" is the one that   *)
(* is called.                                                              *)
(***************************************************************************)
EXTENDS BootConfig

CONSTANTS
    HasFile    \* the handles whose volume holds the file searched for

ASSUME StagesAssumption == HasFile \subseteq DOMAIN Volumes

VARIABLES
    who,       \* the search that is called: "bootx64" or "with_file"
    at,        \* where it is
    h,         \* the loop's i
    roots,     \* handles whose volume is open
    file,      \* the handle the file is open on, 0 for none
    buf        \* is the handle buffer allocated

search == <<who, at, h, roots, file, buf>>
chain == <<vars, search>>

Over == {"success", "error"}

StagesInit ==
    /\ Init
    /\ who \in {"bootx64", "with_file"} /\ at = "locate" /\ h = 1
    /\ roots = {} /\ file = 0 /\ buf = FALSE

(* Mutant: a handle that fails is tried again.                             *)
MutTryAgain ==
    /\ h' = h /\ at' = "protocol"

(* LocateHandleBuffer; an empty buffer of with_file is freed at once, which *)
(* the end of its loop does as well.                                       *)
Locate ==
    /\ at = "locate"
    /\ \/ at' = "protocol" /\ buf' = TRUE
       \/ at' = "error" /\ UNCHANGED buf
    /\ UNCHANGED <<who, h, roots, file>>

(* continue, after a call that failed.                                     *)
Refused ==
    /\ h' = h + 1 /\ at' = "protocol"

HandleProtocol ==
    /\ at = "protocol" /\ h <= Len(Volumes)
    /\ \/ at' = "root" /\ UNCHANGED h
       \/ Refused
    /\ UNCHANGED <<who, roots, file, buf>>

OpenRoot ==
    /\ at = "root"
    /\ \/ /\ at' = "file" /\ roots' = roots \cup {h}
          /\ UNCHANGED h
       \/ Refused /\ UNCHANGED roots
    /\ UNCHANGED <<who, file, buf>>

(* Mutant: a file that cannot be opened leaves its volume open.            *)
MutLeaveRoot ==
    /\ Refused
    /\ UNCHANGED roots

(* The file is not there or cannot be opened: with_file closes the volume, *)
(* bootx64 leaves it open.                                                 *)
NoFile ==
    /\ Refused
    /\ roots' = IF who = "with_file" THEN roots \ {h} ELSE roots

(* with_file returns the handle with everything closed.                    *)
FoundWith ==
    /\ who = "with_file" /\ h \in HasFile
    /\ at' = "success" /\ buf' = FALSE /\ roots' = roots \ {h}
    /\ UNCHANGED <<h, file>>

(* bootx64 keeps the volume and the file open and loads the image.         *)
FoundBoot ==
    /\ who = "bootx64" /\ h \in HasFile
    /\ at' = "image" /\ file' = h
    /\ UNCHANGED <<h, roots, buf>>

OpenFile ==
    /\ at = "file"
    /\ \/ FoundWith \/ FoundBoot
       \/ NoFile /\ UNCHANGED <<file, buf>>
    /\ UNCHANGED who

(* No handle is left: EFI_NOT_FOUND, or EFI_LOAD_ERROR with the buffer kept.*)
Exhausted ==
    /\ at = "protocol" /\ h > Len(Volumes)
    /\ at' = "error"
    /\ buf' = (buf /\ who = "bootx64")
    /\ UNCHANGED <<who, h, roots, file>>

(* LoadImage and StartImage.  A refusal ends bootx64: the handles behind   *)
(* this one are not tried.                                                 *)
StartImage ==
    /\ at = "image"
    /\ at' \in {"running", "error"}
    /\ UNCHANGED <<who, h, roots, file, buf>>

Search == Locate \/ HandleProtocol \/ OpenRoot \/ OpenFile \/ Exhausted \/ StartImage

(* nyxboot, and its failure, which StartImage hands on.  Once the binary is *)
(* loaded the boot is NyxBoot's.                                           *)
Nyxboot ==
    \/ at = "running" /\ load_boot_bin /\ UNCHANGED search
    \/ /\ at = "running" /\ pc = "failed"
       /\ at' = "error"
       /\ UNCHANGED <<vars, who, h, roots, file, buf>>

Ended == at \in Over \/ pc \in {"loaded", "fault"}

StagesNext ==
    \/ Search /\ UNCHANGED vars
    \/ Nyxboot
    \/ Ended /\ UNCHANGED chain

StagesSpec ==
    /\ StagesInit /\ [][StagesNext]_chain
    /\ WF_chain((Search /\ UNCHANGED vars) \/ Nyxboot)

-----------------------------------------------------------------------------
(* find_filesystem_with_file returns with no volume open and its handle    *)
(* buffer freed, however the search went, and load_boot_bin, started by    *)
(* the first stage, as ReturnsClean says.                                  *)
SearchesClean ==
    /\ who = "with_file" /\ at \in Over => roots = {} /\ ~buf
    /\ ReturnsClean

(* The boot chain ends: the binary is loaded, or an error is back at the   *)
(* firmware, unless the firmware returned no configuration file with its   *)
(* EFI_SUCCESS.                                                            *)
ChainEnds == <>Ended

=============================================================================
