---------------------------- MODULE StagesProofs ----------------------------
(***************************************************************************)
(* Proofs about the boot chain, for every set of configuration files, any  *)
(* number of options in them, any sequence of file systems and any set of  *)
(* those that hold the file searched for.                                  *)
(***************************************************************************)
EXTENDS Stages, TLAPS

Parsing == {"config", "null", "size", "no size", "empty", "buffer", "read"}
Labels == Parsing \cup Terminal
          \cup {"fault", "options", "find", "handles", "volume", "binary", "elf"}

ConfigType ==
    /\ pc \in Labels
    /\ config \in Configs
    /\ i \in Nat \ {0}

(* The files open and the buffers allocated at each label of load_boot_bin, *)
(* and the paths of read_config.                                           *)
HeldOK ==
    /\ pc \in {"config", "null", "fault", "no size", "find", "handles", "volume"} \cup Terminal
          => open = {}
    /\ pc \in {"size", "empty", "buffer", "read", "options"} => open = {"cfg"}
    /\ pc = "binary" => open = {"root"}
    /\ pc = "elf" => open = {"root", "bin"}
    /\ pc \in {"read", "options"} => pool \subseteq {"cfgBuffer"}
    /\ pc = "handles" => pool \subseteq {"handles"}
    /\ pc \notin {"read", "options", "handles"} => pool = {}

(* A second close of the configuration file is the end of load_boot_bin.   *)
ShutOK ==
    /\ shut = {} \/ (shut = {<<"no size", "cfg">>} /\ pc = "failed")
    /\ shut # {} => disk = NullGuid /\ path = NoPath /\ paths = {}

(* v is what the last of the first n options named nm says, none when there *)
(* is none.                                                                *)
LastOf(nm, n, v, none) ==
    \/ v = none /\ \A j \in Named(nm) : j > n
    \/ \E k \in Named(nm) :
          /\ k <= n /\ v = config.options[k].value
          /\ \A j \in Named(nm) : j <= n => j <= k

Taken(n) == LastOf("BOOT_DISK", n, disk, NullGuid) /\ LastOf("BOOT_PATH", n, path, NoPath)

AllTaken == Taken(Len(config.options)) /\ paths = Named("BOOT_PATH")

(* read_config has taken the options before i; an empty file leaves the    *)
(* configuration as efi_main cleared it, which is as far as it gets.       *)
TakenOK ==
    /\ pc \in Parsing => i = 1 /\ disk = NullGuid /\ path = NoPath /\ paths = {}
    /\ paths \subseteq Named("BOOT_PATH")
    /\ pc = "options" => /\ i <= Len(config.options) + 1 /\ Taken(i - 1)
                         /\ \A k \in Named("BOOT_PATH") : k < i => k \in paths
    /\ pc = "find" => disk = NullGuid \/ AllTaken
    /\ pc = "handles" \/ Chosen => disk # NullGuid /\ AllTaken
    /\ pc \in {"elf", "loaded"} => path # NoPath

(* The handles find_filesystem_for_guid has gone past.                     *)
HandlesOK ==
    /\ pc = "handles" \/ Chosen => \A k \in 1 .. i - 1 : Volumes[k] = disk => k \in refused
    /\ Chosen => i \in DOMAIN Volumes /\ Volumes[i] = disk

ConfigInv == ConfigType /\ HeldOK /\ ShutOK /\ TakenOK /\ HandlesOK

(* The search of bootx64 and of find_filesystem_with_file.  The volume of  *)
(* the handle at hand is the only one with_file has open, and it has it    *)
(* open only while it opens the file.                                      *)
SearchInv ==
    /\ who \in {"bootx64", "with_file"}
    /\ at \in {"locate", "protocol", "root", "file", "image", "running"} \cup Over
    /\ h \in Nat \ {0}
    /\ who = "with_file" =>
          /\ at \notin {"image", "running"}
          /\ at = "locate" => ~buf
          /\ at \in {"locate", "protocol", "root"} => roots = {}
          /\ at = "file" => roots = {h}
          /\ at \in Over => roots = {} /\ ~buf

ChainInv == ConfigInv /\ SearchInv

-----------------------------------------------------------------------------
(* What an option can be, from the assumption on the configurations.       *)
LEMMA OptionKinds ==
    ASSUME config \in Configs
    PROVE  /\ Len(config.options) \in Nat
           /\ DOMAIN config.options = 1 .. Len(config.options)
           /\ \A k \in DOMAIN config.options :
                 /\ config.options[k].name = "BOOT_DISK" => config.options[k].value \in Guids
                 /\ config.options[k].name = "BOOT_PATH" => config.options[k].value \in Paths
<1>1. config.options \in Seq(Option)
  BY ConfigAssumption
<1>2. \A o \in Option : /\ o.name = "BOOT_DISK" => o.value \in Guids
                        /\ o.name = "BOOT_PATH" => o.value \in Paths
  BY DEF Option
<1> QED
  BY <1>1, <1>2

(* Going past an option that is not named nm leaves what the last one said. *)
LEMMA LastOfSkips ==
    ASSUME NEW nm, NEW n \in Nat, NEW v, NEW none, config \in Configs,
           n + 1 \in DOMAIN config.options, config.options[n + 1].name # nm,
           LastOf(nm, n, v, none)
    PROVE  LastOf(nm, n + 1, v, none)
<1>1. Named(nm) \subseteq Nat /\ n + 1 \notin Named(nm)
  BY OptionKinds DEF Named
<1> QED
  BY <1>1 DEF LastOf

(* An option named nm is the last of them once it is taken.                *)
LEMMA LastOfTakes ==
    ASSUME NEW nm, NEW n \in Nat, NEW v, NEW none, config \in Configs,
           n + 1 \in DOMAIN config.options, config.options[n + 1].name = nm,
           v = config.options[n + 1].value
    PROVE  LastOf(nm, n + 1, v, none)
<1>1. Named(nm) \subseteq Nat /\ n + 1 \in Named(nm)
  BY OptionKinds DEF Named
<1> QED
  BY <1>1 DEF LastOf

-----------------------------------------------------------------------------
(* What closing files does to the history: nothing when all are open.      *)
LEMMA Closing ==
    ASSUME NEW fs, Close(fs)
    PROVE  /\ open' = open \ fs
           /\ fs \subseteq open => shut' = shut
           /\ open = {} => shut' = shut \cup {<<pc, f>> : f \in fs}
<1>1. fs \subseteq open => {pc} \X (fs \ open) = {}
  OBVIOUS
<1>2. open = {} => {pc} \X (fs \ open) = {<<pc, f>> : f \in fs}
  OBVIOUS
<1>3. shut \cup {} = shut
  OBVIOUS
<1> QED
  BY <1>1, <1>2, <1>3 DEF Close

(* The first conjunct of ConfigInv and HeldOK need no knowledge of the     *)
(* options: one step of load_boot_bin at a time.                           *)
LEMMA HeldStep ==
    ASSUME ConfigInv, load_boot_bin
    PROVE  ConfigType' /\ HeldOK'
<1>0. ConfigType /\ HeldOK
  BY DEF ConfigInv
<1>15. i' = i + 1 => i' \in Nat \ {0}
  BY <1>0 DEF ConfigType
<1> USE <1>0 DEF ConfigType, HeldOK, Labels, Parsing, Terminal, Done, result
<1>1. CASE OpenConfig
  BY <1>1 DEF OpenConfig
<1>2. CASE NullConfig
  BY <1>2 DEF NullConfig
<1>3. CASE GetSize
  BY <1>3, Closing DEF GetSize
<1>4. CASE NoContents
  BY <1>4, Closing DEF NoContents
<1>5. CASE AllocBuffer
  BY <1>5, Closing DEF AllocBuffer
<1>6. CASE ReadConfig
  BY <1>6, Closing DEF ReadConfig
<1>7. CASE read_config
  <2>1. CASE TakePath \/ TakeDisk
    <3>1. UNCHANGED <<pc, config, pool, open>> /\ i' = i + 1
      BY <1>7, <2>1 DEF read_config, TakePath, TakeDisk
    <3>2. ConfigType'
      BY <1>15, <3>1 DEF ConfigType
    <3> QED
      BY <3>1, <3>2 DEF HeldOK
  <2>2. CASE RejectOption
    BY <1>7, <2>2, Closing DEF read_config, RejectOption
  <2> QED
    BY <1>7, <2>1, <2>2 DEF read_config
<1>8. CASE ParseDone
  BY <1>8, Closing DEF ParseDone
<1>9. CASE FindFilesystem
  <2>1. CASE pc' = "handles" /\ i' = 1 /\ pool' = pool \cup {"handles"}
    BY <1>9, <2>1 DEF FindFilesystem
  <2>2. CASE pc' = "failed" /\ UNCHANGED <<i, pool>>
    BY <1>9, <2>2 DEF FindFilesystem
  <2> QED
    BY <1>9, <2>1, <2>2 DEF FindFilesystem
<1>10. CASE SearchHandles
  <2>1. CASE TakeHandle
    BY <1>10, <2>1 DEF SearchHandles, TakeHandle
  <2>2. CASE RefuseHandle \/ SkipHandle
    <3>1. UNCHANGED <<pc, config, pool, open>> /\ i' = i + 1
      BY <1>10, <2>2 DEF SearchHandles, RefuseHandle, SkipHandle
    <3>2. ConfigType'
      BY <1>15, <3>1 DEF ConfigType
    <3> QED
      BY <3>1, <3>2 DEF HeldOK
  <2> QED
    BY <1>10, <2>1, <2>2 DEF SearchHandles
<1>11. CASE NotFound
  BY <1>11 DEF NotFound
<1>12. CASE OpenVolume
  BY <1>12 DEF OpenVolume
<1>13. CASE OpenBinary
  BY <1>13, Closing DEF OpenBinary
<1>14. CASE LoadElf
  <2>1. open' = {} /\ pool' = {} /\ pc' \in {"loaded", "failed"}
    BY <1>14, Closing DEF LoadElf
  <2> QED
    BY <1>14, <2>1 DEF LoadElf
<1> QED
  BY <1>1, <1>2, <1>3, <1>4, <1>5, <1>6, <1>7, <1>8, <1>9,
     <1>10, <1>11, <1>12, <1>13, <1>14 DEF load_boot_bin

(* Every close but parse_config's second one is of a file that is open.    *)
LEMMA ShutStep ==
    ASSUME ConfigInv, load_boot_bin
    PROVE  ShutOK'
<1>0. pc # "failed" /\ HeldOK /\ ShutOK
  BY DEF ConfigInv, load_boot_bin, OpenConfig, NullConfig, GetSize, NoContents, AllocBuffer,
         ReadConfig, read_config, ParseDone, FindFilesystem, SearchHandles, NotFound, OpenVolume,
         OpenBinary, LoadElf
<1>1. shut = {}
  BY <1>0 DEF ShutOK
<1>2. ASSUME NEW fs, fs \subseteq open, Close(fs)
      PROVE  shut' = {}
  BY <1>1, <1>2, Closing
<1>3. shut' = {} => ShutOK'
  BY DEF ShutOK
<1>4. CASE NoContents /\ pc = "no size"
  <2>1. shut' = {<<"no size", "cfg">>} /\ pc' = "failed"
    <3>1. open = {} /\ Close({"cfg"}) /\ pc' = "failed"
      BY <1>0, <1>4 DEF NoContents, HeldOK
    <3>2. shut' = {} \cup {<<pc, f>> : f \in {"cfg"}}
      BY <1>1, <3>1, Closing
    <3> QED
      BY <1>4, <3>1, <3>2
  <2>2. disk' = NullGuid /\ path' = NoPath /\ paths' = {}
    BY <1>4 DEF NoContents, ConfigInv, TakenOK, Parsing, result
  <2> QED
    BY <2>1, <2>2 DEF ShutOK
<1>5. CASE \/ OpenConfig \/ NullConfig \/ FindFilesystem \/ SearchHandles \/ NotFound \/ OpenVolume
  BY <1>1, <1>3, <1>5 DEF OpenConfig, NullConfig, FindFilesystem, SearchHandles, NotFound,
                          OpenVolume
<1>6. CASE NoContents /\ pc = "empty"
  BY <1>0, <1>2, <1>3, <1>6 DEF NoContents, HeldOK
<1>7. CASE GetSize
  BY <1>0, <1>1, <1>2, <1>3, <1>7 DEF GetSize, HeldOK
<1>8. CASE AllocBuffer
  BY <1>0, <1>1, <1>2, <1>3, <1>8 DEF AllocBuffer, HeldOK
<1>9. CASE ReadConfig
  BY <1>0, <1>1, <1>2, <1>3, <1>9 DEF ReadConfig, Done, HeldOK
<1>10. CASE read_config
  BY <1>0, <1>1, <1>2, <1>3, <1>10 DEF read_config, TakePath, TakeDisk, RejectOption, Done, HeldOK
<1>11. CASE ParseDone
  BY <1>0, <1>2, <1>3, <1>11 DEF ParseDone, Done, HeldOK
<1>12. CASE OpenBinary
  BY <1>0, <1>1, <1>2, <1>3, <1>12 DEF OpenBinary, HeldOK
<1>13. CASE LoadElf
  BY <1>0, <1>2, <1>3, <1>13 DEF LoadElf, HeldOK
<1> QED
  BY <1>4, <1>5, <1>6, <1>7, <1>8, <1>9, <1>10, <1>11, <1>12, <1>13 DEF load_boot_bin, NoContents

(* The options taken so far: read_config changes them one at a time, every *)
(* other step leaves what they say.                                        *)
LEMMA TakenStep ==
    ASSUME ConfigInv, load_boot_bin
    PROVE  TakenOK'
<1> USE DEF ConfigInv, ConfigType, TakenOK, Parsing, Terminal, Chosen, Done, result
<1>1. config' = config
  BY DEF load_boot_bin, OpenConfig, NullConfig, GetSize, NoContents, AllocBuffer, ReadConfig,
         read_config, ParseDone, FindFilesystem, SearchHandles, NotFound, OpenVolume, OpenBinary, LoadElf
<1>2. /\ \A n : UNCHANGED result /\ Taken(n) => Taken(n)'
      /\ UNCHANGED result /\ AllTaken => AllTaken'
      /\ Named("BOOT_PATH")' = Named("BOOT_PATH")
  <2>1. \A nm : Named(nm)' = Named(nm)
    BY <1>1 DEF Named
  <2>2. \A n : UNCHANGED result /\ Taken(n) => Taken(n)'
    BY <1>1, <2>1 DEF Taken, LastOf
  <2> QED
    BY <1>1, <2>1, <2>2 DEF AllTaken
<1>3. Len(config.options) \in Nat /\ DOMAIN config.options = 1 .. Len(config.options)
  BY OptionKinds
<1>4. CASE OpenConfig \/ NullConfig
  BY <1>2, <1>4 DEF OpenConfig, NullConfig
<1>5. CASE GetSize \/ NoContents
  BY <1>2, <1>5 DEF GetSize, NoContents
<1>6. CASE AllocBuffer
  BY <1>2, <1>6 DEF AllocBuffer
<1>7. CASE ReadConfig
  <2>1. /\ Taken(0) /\ 0 = i - 1 /\ 1 <= Len(config.options) + 1
        /\ \A k \in Named("BOOT_PATH") : ~(k < 1)
    BY <1>3, <1>7 DEF ReadConfig, Taken, LastOf, Named
  <2> QED
    BY <1>1, <1>2, <1>7, <2>1 DEF ReadConfig
<1>8. CASE read_config
  <2>1. PICK n \in Nat : n + 1 = i /\ n + 1 \in DOMAIN config.options /\ Taken(n)
    <3>1. i - 1 \in Nat /\ (i - 1) + 1 = i /\ i \in DOMAIN config.options /\ Taken(i - 1)
      BY <1>3, <1>8 DEF read_config
    <3> QED
      BY <3>1
  <2>5. /\ paths \subseteq Named("BOOT_PATH") /\ i \in Nat
        /\ \A k \in Named("BOOT_PATH") : k < i => k \in paths
    BY <1>8 DEF read_config
  <2>6. config \in Configs
    OBVIOUS
  <2> HIDE DEF ConfigInv, TakenOK
  <2>2. CASE TakePath
    <3>1. LastOf("BOOT_DISK", n + 1, disk, NullGuid)
      BY <2>1, <2>2, <2>6, LastOfSkips DEF TakePath, option, Taken
    <3>2. LastOf("BOOT_PATH", n + 1, path', NoPath)
      BY <2>1, <2>2, <2>6, LastOfTakes DEF TakePath, option
    <3>3. Taken(i - 1)'
      <4>1. i' - 1 = n + 1
        BY <2>1, <2>2, <2>5 DEF TakePath
      <4> QED
        BY <1>1, <2>2, <3>1, <3>2, <4>1 DEF TakePath, Taken, LastOf, Named
    <3>4. /\ paths' \subseteq Named("BOOT_PATH")
          /\ \A k \in Named("BOOT_PATH") : k < i' => k \in paths'
      <4>1. i \in Named("BOOT_PATH") /\ Named("BOOT_PATH") \subseteq Nat
        BY <1>3, <2>1, <2>2 DEF TakePath, option, Named
      <4>2. i' = i + 1 /\ paths' = paths \cup {i}
        BY <2>2 DEF TakePath
      <4> QED
        BY <2>5, <4>1, <4>2
    <3> QED
      BY <1>1, <1>2, <1>3, <1>8, <2>1, <2>2, <3>3, <3>4 DEF read_config, TakePath, TakenOK
  <2>3. CASE TakeDisk
    <3>1. LastOf("BOOT_DISK", n + 1, disk', NullGuid)
      BY <2>1, <2>3, <2>6, LastOfTakes DEF TakeDisk, option
    <3>2. LastOf("BOOT_PATH", n + 1, path, NoPath)
      BY <2>1, <2>3, <2>6, LastOfSkips DEF TakeDisk, option, Taken
    <3>3. Taken(i - 1)'
      <4>1. i' - 1 = n + 1
        BY <2>1, <2>3, <2>5 DEF TakeDisk
      <4> QED
        BY <1>1, <2>3, <3>1, <3>2, <4>1 DEF TakeDisk, Taken, LastOf, Named
    <3>4. /\ paths' \subseteq Named("BOOT_PATH")
          /\ \A k \in Named("BOOT_PATH") : k < i' => k \in paths'
      <4>1. i \notin Named("BOOT_PATH") /\ Named("BOOT_PATH") \subseteq Nat
        BY <1>3, <2>1, <2>3 DEF TakeDisk, option, Named
      <4>2. i' = i + 1 /\ paths' = paths
        BY <2>3 DEF TakeDisk
      <4> QED
        BY <2>5, <4>1, <4>2
    <3> QED
      BY <1>1, <1>2, <1>3, <1>8, <2>1, <2>3, <3>3, <3>4 DEF read_config, TakeDisk, TakenOK
  <2>4. CASE RejectOption
    BY <1>2, <2>4, <2>5 DEF RejectOption, TakenOK
  <2> QED
    BY <1>8, <2>2, <2>3, <2>4 DEF read_config
<1>9. CASE ParseDone
  <2>1. i - 1 = Len(config.options)
    BY <1>3, <1>9 DEF ParseDone
  <2>2. paths = Named("BOOT_PATH")
    BY <1>3, <1>9, <2>1 DEF ParseDone, Named
  <2> QED
    BY <1>1, <1>2, <1>9, <2>1, <2>2 DEF ParseDone, AllTaken
<1>10. CASE FindFilesystem
  BY <1>1, <1>2, <1>10 DEF FindFilesystem
<1>11. CASE SearchHandles
  BY <1>1, <1>2, <1>11 DEF SearchHandles, TakeHandle, RefuseHandle, SkipHandle
<1>12. CASE NotFound
  BY <1>2, <1>12 DEF NotFound
<1>13. CASE OpenVolume
  BY <1>1, <1>2, <1>13 DEF OpenVolume
<1>14. CASE OpenBinary
  BY <1>1, <1>2, <1>14 DEF OpenBinary
<1>15. CASE LoadElf
  BY <1>1, <1>2, <1>15 DEF LoadElf
<1> QED
  BY <1>4, <1>5, <1>6, <1>7, <1>8, <1>9, <1>10, <1>11, <1>12, <1>13, <1>14, <1>15
     DEF load_boot_bin

(* The handles gone past are of other partitions or were refused.          *)
LEMMA HandlesStep ==
    ASSUME ConfigInv, load_boot_bin
    PROVE  HandlesOK'
<1> USE DEF ConfigInv, ConfigType, HandlesOK, Chosen, Parsing, Terminal
<1>1. CASE \/ OpenConfig \/ NullConfig \/ GetSize \/ NoContents
           \/ AllocBuffer \/ ReadConfig \/ read_config \/ ParseDone
  BY <1>1 DEF OpenConfig, NullConfig, GetSize, NoContents, AllocBuffer, ReadConfig, read_config,
              ParseDone, TakePath, TakeDisk, RejectOption, Done
<1>2. CASE FindFilesystem
  BY <1>2 DEF FindFilesystem, result
<1>3. CASE SearchHandles
  <2>1. i \in DOMAIN Volumes /\ disk' = disk /\ pc = "handles"
    BY <1>3, ConfigAssumption DEF SearchHandles, result
  <2>2. CASE TakeHandle
    BY <2>1, <2>2 DEF TakeHandle
  <2>3. CASE RefuseHandle
    BY <2>1, <2>3 DEF RefuseHandle
  <2>4. CASE SkipHandle
    BY <2>1, <2>4 DEF SkipHandle
  <2> QED
    BY <1>3, <2>2, <2>3, <2>4 DEF SearchHandles
<1>4. CASE NotFound
  BY <1>4 DEF NotFound
<1>5. CASE OpenVolume \/ OpenBinary \/ LoadElf
  BY <1>5 DEF OpenVolume, OpenBinary, LoadElf, result
<1> QED
  BY <1>1, <1>2, <1>3, <1>4, <1>5 DEF load_boot_bin

-----------------------------------------------------------------------------
(* A step of either search keeps SearchInv.                                *)
LEMMA SearchStep ==
    ASSUME SearchInv, Search
    PROVE  SearchInv'
<1> USE DEF SearchInv, Over
<1>1. CASE Locate
  BY <1>1 DEF Locate
<1>2. Refused => h' \in Nat \ {0}
  BY DEF Refused
<1>3. CASE HandleProtocol
  BY <1>2, <1>3 DEF HandleProtocol, Refused
<1>4. CASE OpenRoot
  BY <1>2, <1>4 DEF OpenRoot, Refused
<1>5. CASE OpenFile
  <2>1. CASE FoundWith
    BY <1>5, <2>1 DEF OpenFile, FoundWith
  <2>2. CASE FoundBoot
    BY <1>5, <2>2 DEF OpenFile, FoundBoot
  <2>3. CASE NoFile
    BY <1>2, <1>5, <2>3 DEF OpenFile, NoFile, Refused
  <2> QED
    BY <1>5, <2>1, <2>2, <2>3 DEF OpenFile
<1>6. CASE Exhausted
  BY <1>6 DEF Exhausted
<1>7. CASE StartImage
  BY <1>7 DEF StartImage
<1> QED
  BY <1>1, <1>3, <1>4, <1>5, <1>6, <1>7 DEF Search

(* ChainInv is an invariant of the boot chain.                             *)
LEMMA ChainInvariant == StagesSpec => []ChainInv
<1>1. StagesInit => ChainInv
  <2> SUFFICES ASSUME StagesInit
               PROVE  ChainInv
    OBVIOUS
  <2>1. ConfigInv
    BY DEF StagesInit, Init, ConfigInv, ConfigType, HeldOK, ShutOK, TakenOK, HandlesOK, Chosen,
           Labels, Parsing, Terminal
  <2>2. SearchInv
    BY DEF StagesInit, SearchInv, Over
  <2> QED
    BY <2>1, <2>2 DEF ChainInv
<1>2. ChainInv /\ [StagesNext]_chain => ChainInv'
  <2> SUFFICES ASSUME ChainInv, [StagesNext]_chain
               PROVE  ChainInv'
    OBVIOUS
  <2>1. UNCHANGED vars => ConfigInv'
    <3> SUFFICES ASSUME UNCHANGED vars
                 PROVE  ConfigInv'
      OBVIOUS
    <3>1. ConfigType' /\ HeldOK' /\ ShutOK'
      BY DEF ChainInv, ConfigInv, ConfigType, HeldOK, ShutOK, vars, result
    <3>2. HandlesOK'
      BY DEF ChainInv, ConfigInv, HandlesOK, Chosen, vars, result
    <3>3. TakenOK'
      BY DEF ChainInv, ConfigInv, TakenOK, Chosen, Taken, AllTaken, LastOf, Named, vars, result
    <3> QED
      BY <3>1, <3>2, <3>3 DEF ConfigInv
  <2>2. UNCHANGED search => SearchInv'
    BY DEF ChainInv, SearchInv, search
  <2>3. CASE Search /\ UNCHANGED vars
    BY <2>1, <2>3, SearchStep DEF ChainInv
  <2>4. CASE at = "running" /\ load_boot_bin /\ UNCHANGED search
    BY <2>2, <2>4, HeldStep, ShutStep, TakenStep, HandlesStep DEF ChainInv, ConfigInv
  <2>5. CASE at = "running" /\ at' = "error" /\ UNCHANGED <<vars, who, h, roots, file, buf>>
    BY <2>1, <2>5 DEF ChainInv, SearchInv, Over
  <2>6. CASE UNCHANGED chain
    BY <2>1, <2>2, <2>6 DEF ChainInv, chain
  <2> QED
    BY <2>3, <2>4, <2>5, <2>6 DEF StagesNext, Nyxboot
<1> QED
  BY <1>1, <1>2, PTL DEF StagesSpec

(* load_boot_bin (main.c) loads the binary the last BOOT_PATH names, from  *)
(* the partition the last BOOT_DISK names, whatever the configuration.     *)
THEOREM BootsWhatIsNamedThm == StagesSpec => []BootsWhatIsNamed
<1>1. ChainInv => BootsWhatIsNamed
  <2> SUFFICES ASSUME ChainInv, pc = "loaded"
               PROVE  BootsWhatIsNamed
    BY DEF BootsWhatIsNamed
  <2>1. Taken(Len(config.options)) /\ disk # NullGuid /\ path # NoPath
    BY DEF ChainInv, ConfigInv, TakenOK, AllTaken, Chosen
  <2>2. \A nm : \A j \in Named(nm) : j <= Len(config.options)
    BY OptionKinds DEF ChainInv, ConfigInv, ConfigType, Named
  <2> QED
    BY <2>1, <2>2 DEF Taken, LastOf, BootsWhatIsNamed
<1> QED
  BY <1>1, ChainInvariant, PTL

(* find_filesystem_for_guid (fs.c) ends at the first handle of the         *)
(* partition BOOT_DISK names, and opens none when there is no BOOT_DISK.   *)
THEOREM BootPartitionThm == StagesSpec => []BootPartition
<1>1. ChainInv => BootPartition
  BY DEF ChainInv, ConfigInv, TakenOK, AllTaken, HandlesOK, Taken, LastOf, BootPartition, Chosen
<1> QED
  BY <1>1, ChainInvariant, PTL

(* A file is closed only while it is open, whichever calls of parse_config *)
(* (cfgparse.c), get_file_size (fs.c) and load_boot_bin (main.c) fail, but *)
(* for the second close of line 113 of cfgparse.c.                         *)
THEOREM ClosedOnceThm == StagesSpec => []ClosedOnce
<1>1. ChainInv => ClosedOnce
  BY DEF ChainInv, ConfigInv, ShutOK, HeldOK, ClosedOnce, result
<1> QED
  BY <1>1, ChainInvariant, PTL

(* find_filesystem_with_file and load_boot_bin return with every file      *)
(* closed and every buffer freed but those of the BOOT_PATHs, whichever    *)
(* call failed.                                                            *)
THEOREM SearchesCleanThm == StagesSpec => []SearchesClean
<1>1. ChainInv => SearchesClean
  BY DEF ChainInv, ConfigInv, HeldOK, TakenOK, AllTaken, Chosen, SearchInv, SearchesClean,
         ReturnsClean, Terminal
<1> QED
  BY <1>1, ChainInvariant, PTL

=============================================================================
