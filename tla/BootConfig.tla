----------------------------- MODULE BootConfig -----------------------------
(***************************************************************************)
(* Finding the binary to boot: load_boot_bin (main.c) with parse_config    *)
(* (cfgparse.c), get_file_size and find_filesystem_for_guid (fs.c), step   *)
(* by step over firmware calls each of which may fail.  The configuration  *)
(* file is the sequence of its options; what an option's value says is     *)
(* abstracted, that it replaces an earlier one is not.                     *)
(***************************************************************************)
EXTENDS Integers, Sequences

CONSTANTS
    Guids,     \* partition GUIDs
    Paths,     \* paths of boot binaries
    NullGuid,  \* the GUID of all zeroes the configuration starts with
    NoPath,    \* NULL
    Configs,   \* the configuration files that may be found
    Volumes    \* the GUID of each file system handle's partition

Option == [name : {"BOOT_DISK"}, value : Guids] \cup [name : {"BOOT_PATH"}, value : Paths]
          \cup [name : {"other"}]   \* unknown, or cut short

ASSUME ConfigAssumption ==
    /\ NullGuid \notin Guids /\ NoPath \notin Paths
    /\ Configs \subseteq [empty : BOOLEAN, header : BOOLEAN, options : Seq(Option)]
    /\ Volumes \in Seq(Guids)

VARIABLES
    pc,         \* where load_boot_bin is
    config,     \* the configuration file
    i,          \* the option, then the handle, the loop is at
    disk,       \* cfg->bootPartUUID
    path,       \* cfg->bootBinPath
    paths,      \* options whose path buffer is allocated
    pool,       \* other pool buffers allocated
    open,       \* files open
    refused,    \* history: handles the firmware refused a protocol of
    shut        \* history: where a file was closed that was not open

result == <<disk, path, paths>>
vars == <<pc, config, i, result, pool, open, refused, shut>>

(* load_boot_bin has returned; "fault" is a call through the NULL pointer. *)
Terminal == {"loaded", "failed"}

(* efi_main clears the configuration before the call.                      *)
Init ==
    /\ pc = "config" /\ config \in Configs /\ i = 1
    /\ disk = NullGuid /\ path = NoPath /\ paths = {}
    /\ pool = {} /\ open = {} /\ refused = {} /\ shut = {}

(* Closing a file that is not open is what the firmware does not check.    *)
Close(fs) ==
    /\ open' = open \ fs
    /\ shut' = shut \cup ({pc} \X (fs \ open))

-----------------------------------------------------------------------------
(* open_config_file: the ESP's root is opened and closed on the way.  A    *)
(* call that succeeds and returns no pointer ends it with EFI_SUCCESS and  *)
(* cfgFile NULL.                                                           *)
OpenConfig ==
    /\ pc = "config"
    /\ \/ pc' = "size" /\ open' = {"cfg"}
       \/ pc' \in {"failed", "null"} /\ UNCHANGED open
    /\ UNCHANGED <<config, i, result, pool, refused, shut>>

(* get_file_size refuses NULL, and parse_config calls cfgFile->Close.      *)
NullConfig ==
    /\ pc = "null"
    /\ pc' = "fault"
    /\ UNCHANGED <<config, i, result, pool, open, refused, shut>>

(* get_file_size closes the file when it fails.                            *)
GetSize ==
    /\ pc = "size"
    /\ \/ pc' = "no size" /\ Close({"cfg"})
       \/ /\ pc' = IF config.empty THEN "empty" ELSE "buffer"
          /\ UNCHANGED <<open, shut>>
    /\ UNCHANGED <<config, i, result, pool, refused>>

(* Without a size, or with an empty file, parse_config closes the file and *)
(* returns the status of get_file_size.                                    *)
NoContents ==
    /\ pc \in {"no size", "empty"}
    /\ pc' = IF pc = "empty" THEN "find" ELSE "failed"
    /\ Close({"cfg"})
    /\ UNCHANGED <<config, i, result, pool, refused>>

AllocBuffer ==
    /\ pc = "buffer"
    /\ \/ /\ pc' = "read" /\ pool' = pool \cup {"cfgBuffer"}
          /\ UNCHANGED <<open, shut>>
       \/ /\ pc' = "failed" /\ Close({"cfg"})
          /\ UNCHANGED pool
    /\ UNCHANGED <<config, i, result, refused>>

(* parse_config is done with the file.                                     *)
Done(label) ==
    /\ pc' = label
    /\ pool' = pool \ {"cfgBuffer"}
    /\ Close({"cfg"})

(* Read, then verify_header: magic, version and CRC.                       *)
ReadConfig ==
    /\ pc = "read"
    /\ \/ /\ config.header /\ pc' = "options"
          /\ UNCHANGED <<pool, open, shut>>
       \/ Done("failed")
    /\ UNCHANGED <<config, i, result, refused>>

option == config.options[i]

(* Mutant: the first path is kept.                                         *)
MutFirstPath ==
    /\ option.name = "BOOT_PATH"
    /\ paths' = paths \cup {i}
    /\ path' = IF path = NoPath THEN option.value ELSE path
    /\ i' = i + 1
    /\ UNCHANGED <<pc, disk, pool, open, shut>>

(* An option of read_config: memory for the path, which replaces the one   *)
(* before it without freeing that.                                         *)
TakePath ==
    /\ option.name = "BOOT_PATH"
    /\ paths' = paths \cup {i}
    /\ path' = option.value
    /\ i' = i + 1
    /\ UNCHANGED <<pc, disk, pool, open, shut>>

TakeDisk ==
    /\ option.name = "BOOT_DISK"
    /\ disk' = option.value
    /\ i' = i + 1
    /\ UNCHANGED <<pc, path, paths, pool, open, shut>>

(* An unknown or broken option, or no memory for a path.                   *)
RejectOption ==
    /\ option.name # "BOOT_DISK"
    /\ Done("failed")
    /\ UNCHANGED <<i, result>>

read_config ==
    /\ pc = "options" /\ i <= Len(config.options)
    /\ TakePath \/ TakeDisk \/ RejectOption
    /\ UNCHANGED <<config, refused>>

ParseDone ==
    /\ pc = "options" /\ i > Len(config.options)
    /\ Done("find")
    /\ UNCHANGED <<config, i, result, refused>>

-----------------------------------------------------------------------------
(* find_filesystem_for_guid: the null GUID is rejected, and                *)
(* LocateHandleBuffer may fail.                                            *)
FindFilesystem ==
    /\ pc = "find"
    /\ \/ /\ disk # NullGuid
          /\ pc' = "handles" /\ i' = 1 /\ pool' = pool \cup {"handles"}
       \/ pc' = "failed" /\ UNCHANGED <<i, pool>>
    /\ UNCHANGED <<config, result, open, refused, shut>>

(* Mutant: the device path is not compared.                                *)
MutAnyHandle ==
    /\ pc' = "volume"
    /\ pool' = pool \ {"handles"}
    /\ UNCHANGED <<i, refused>>

(* The handle at i is the partition's: its file system is returned.        *)
TakeHandle ==
    /\ Volumes[i] = disk
    /\ pc' = "volume"
    /\ pool' = pool \ {"handles"}
    /\ UNCHANGED <<i, refused>>

(* A protocol of the handle is refused.                                    *)
RefuseHandle ==
    /\ refused' = refused \cup {i}
    /\ i' = i + 1
    /\ UNCHANGED <<pc, pool>>

SkipHandle ==
    /\ Volumes[i] # disk
    /\ i' = i + 1
    /\ UNCHANGED <<pc, pool, refused>>

SearchHandles ==
    /\ pc = "handles" /\ i <= Len(Volumes)
    /\ TakeHandle \/ RefuseHandle \/ SkipHandle
    /\ UNCHANGED <<config, result, open, shut>>

NotFound ==
    /\ pc = "handles" /\ i > Len(Volumes)
    /\ pc' = "failed" /\ pool' = pool \ {"handles"}
    /\ UNCHANGED <<config, i, result, open, refused, shut>>

-----------------------------------------------------------------------------
OpenVolume ==
    /\ pc = "volume"
    /\ \/ pc' = "binary" /\ open' = open \cup {"root"}
       \/ pc' = "failed" /\ UNCHANGED open
    /\ UNCHANGED <<config, i, result, pool, refused, shut>>

(* Mutant: the failure goes to exit_free_bootFile.                         *)
MutCloseBoth ==
    /\ pc = "binary"
    /\ \/ /\ path # NoPath
          /\ pc' = "elf" /\ open' = open \cup {"bin"}
          /\ UNCHANGED shut
       \/ pc' = "failed" /\ Close({"bin", "root"})
    /\ UNCHANGED <<config, i, result, pool, refused>>

OpenBinary ==
    /\ pc = "binary"
    /\ \/ /\ path # NoPath
          /\ pc' = "elf" /\ open' = open \cup {"bin"}
          /\ UNCHANGED shut
       \/ pc' = "failed" /\ Close({"root"})
    /\ UNCHANGED <<config, i, result, pool, refused>>

(* elf_load_file succeeds or fails; both files are closed.                 *)
LoadElf ==
    /\ pc = "elf"
    /\ pc' \in {"loaded", "failed"}
    /\ Close({"bin", "root"})
    /\ UNCHANGED <<config, i, result, pool, refused>>

load_boot_bin ==
    \/ OpenConfig \/ NullConfig \/ GetSize \/ NoContents
    \/ AllocBuffer \/ ReadConfig \/ read_config \/ ParseDone
    \/ FindFilesystem \/ SearchHandles \/ NotFound
    \/ OpenVolume \/ OpenBinary \/ LoadElf

-----------------------------------------------------------------------------
Chosen == pc \in {"volume", "binary", "elf", "loaded"}

(* The options of the file with a name.                                    *)
Named(nm) == {k \in DOMAIN config.options : config.options[k].name = nm}

(* Whatever call failed, load_boot_bin returns with every file closed and  *)
(* its buffers freed.  One buffer for each BOOT_PATH it took is left, of   *)
(* which free_config can reach the last: the others are lost, and all of   *)
(* them when the load fails.                                               *)
ReturnsClean ==
    /\ pc \in Terminal => open = {} /\ pool = {}
    /\ pc = "failed" => paths \subseteq Named("BOOT_PATH")
    /\ pc = "loaded" => paths = Named("BOOT_PATH")

(* A file is closed only while it is open, through every chain of error    *)
(* paths, except that parse_config closes the configuration file again     *)
(* when get_file_size has failed and closed it.  That is the end of the    *)
(* boot: nothing has been allocated or read.                               *)
ClosedOnce ==
    /\ shut \subseteq {<<"no size", "cfg">>}
    /\ shut # {} => pc = "failed" /\ result = <<NullGuid, NoPath, {}>> /\ pool = {}

(* The binary that is loaded is the one the last BOOT_PATH names, from the *)
(* partition the last BOOT_DISK names: an option that comes later replaces *)
(* the ones before it.                                                     *)
BootsWhatIsNamed ==
    pc = "loaded" =>
        /\ \E k \in Named("BOOT_PATH") :
             /\ path = config.options[k].value
             /\ \A j \in Named("BOOT_PATH") : j <= k
        /\ \E k \in Named("BOOT_DISK") :
             /\ disk = config.options[k].value
             /\ \A j \in Named("BOOT_DISK") : j <= k

(* The search for the boot partition ends at the first handle of the       *)
(* partition BOOT_DISK names: it passes over none but those whose protocols *)
(* the firmware refused, opens no other, and opens none for a              *)
(* configuration without BOOT_DISK, whose null GUID does not pass for a    *)
(* partition's.                                                            *)
BootPartition ==
    /\ Chosen => i \in DOMAIN Volumes /\ Volumes[i] = disk /\ Named("BOOT_DISK") # {}
    /\ pc \in {"handles", "volume"} =>
           \A k \in 1 .. i - 1 : Volumes[k] = disk => k \in refused

=============================================================================
