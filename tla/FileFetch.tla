----------------------------- MODULE FileFetch -------------------------------
(* The in-process resolver of the flagd provider with an offline source      *)
(* (service/in-process/file/file-fetch.ts): the file is read once and then   *)
(* again whenever watchFile, which compares the stats it polls, sees it      *)
(* changed.  There is no reconnect: what connect() throws the SDK reports.   *)
(* External: the file, and other providers with the same source.             *)
EXTENDS MemoryStorage, Naturals

CONSTANTS FileContents, \* what a file can hold: records with flags and parses
          Reads,        \* reads of the file on their way at the same time
          MaxWrites     \* bound: times the file is written

ASSUME MaxWritesNat == MaxWrites \in Nat
ASSUME FlagsAreRecords ==
  \A c \in FileContents : c.parses \in BOOLEAN /\ c.flags = [k \in DOMAIN c.flags |-> c.flags[k]]

VARIABLES
  file,         \* external: its contents, and how often it was written
  connecting,   \* connect(): "no", "reading", "read", "watching", "failed"
  watched,      \* is there a listener, and the version its last stat is of
  read,         \* reads of the listener: their phase and what they have got
  fileStorage,  \* the flags of MemoryStorage
  fileAnnounced,\* history: the flags as an application knows them
  disconnected,
  overtaken     \* history: a write escaped the listener, or two reads overlapped

fileVars == <<file, connecting, watched, read, fileStorage, fileAnnounced, disconnected, overtaken>>

NoRead == [phase |-> "idle"]

FileInit ==
  /\ file \in [contents: FileContents, version: {0}, readable: BOOLEAN]
  /\ connecting = "no"
  /\ watched = [by |-> FALSE, version |-> 0]
  /\ read = [r \in Reads |-> NoRead]
  /\ fileStorage = [k \in {} |-> k] /\ fileAnnounced = [k \in {} |-> k]
  /\ disconnected = FALSE /\ overtaken = FALSE

Busy == {r \in Reads : read[r].phase # "idle"}

(* A mutant: flags of an earlier configuration stay.                         *)
dataFillMerged(contents) ==
  fileStorage' = IF contents.parses
    THEN [k \in DOMAIN fileStorage \union DOMAIN contents.flags |->
            IF k \in DOMAIN contents.flags THEN contents.flags[k] ELSE fileStorage[k]]
    ELSE fileStorage

(* dataFillCallback, setFlagConfiguration of the service: contents that do   *)
(* not parse throw.                                                          *)
dataFill(contents) ==
  fileStorage' = IF contents.parses THEN contents.flags ELSE fileStorage

(* connect() up to its await, and the read itself.                           *)
connectFile ==
  /\ connecting = "no" /\ ~disconnected
  /\ connecting' = "reading"
  /\ UNCHANGED <<file, watched, read, fileStorage, fileAnnounced, disconnected, overtaken>>

(* ... after its await: the flags are there and the file is watched, from    *)
(* its first stat on.  The SDK announces READY, even of a closed provider.   *)
FirstRead ==
  /\ connecting = "reading"
  /\ IF file.readable /\ file.contents.parses
       THEN connecting' = "read" /\ dataFill(file.contents) /\ fileAnnounced' = fileStorage'
       ELSE connecting' = "failed" /\ UNCHANGED <<fileStorage, fileAnnounced>>
  /\ watched' = [watched EXCEPT !.version = file.version]
  /\ UNCHANGED <<file, read, disconnected, overtaken>>

FirstStat ==
  /\ connecting = "read"
  /\ connecting' = "watching"
  /\ watched' = [by |-> TRUE, version |-> file.version]
  /\ overtaken' = (overtaken \/ watched.version # file.version)
  /\ UNCHANGED <<file, read, fileStorage, fileAnnounced, disconnected>>

(* The listener of watchFile up to its await.                                *)
StatChanged(r) ==
  /\ watched.by /\ watched.version # file.version
  /\ read[r] = NoRead
  /\ watched' = [watched EXCEPT !.version = file.version]
  /\ read' = [read EXCEPT ![r] = [phase |-> "reading"]]
  /\ overtaken' = (overtaken \/ Busy # {})
  /\ UNCHANGED <<file, connecting, fileStorage, fileAnnounced, disconnected>>

ReadFile(r) ==
  /\ read[r].phase = "reading"
  /\ read' = [read EXCEPT ![r] = IF file.readable THEN [phase |-> "read", contents |-> file.contents]
                                  ELSE NoRead]
  /\ UNCHANGED <<file, connecting, watched, fileStorage, fileAnnounced, disconnected, overtaken>>

(* ... and after it: the changes are announced.                              *)
Refill(r) ==
  /\ read[r].phase = "read"
  /\ dataFill(read[r].contents)
  /\ fileAnnounced' = Refreshed(fileAnnounced, flagsChanged(fileStorage, fileStorage'), fileStorage')
  /\ read' = [read EXCEPT ![r] = NoRead]
  /\ UNCHANGED <<file, connecting, watched, disconnected, overtaken>>

(* disconnect(): unwatchFile removes every listener of the file, those of    *)
(* other providers as well; theirs removes this one's.                       *)
disconnectFile ==
  /\ connecting # "no" /\ ~disconnected
  /\ disconnected' = TRUE
  /\ watched' = [watched EXCEPT !.by = FALSE]
  /\ UNCHANGED <<file, connecting, read, fileStorage, fileAnnounced, overtaken>>

OtherDisconnects ==
  /\ watched.by /\ watched' = [watched EXCEPT !.by = FALSE]
  /\ UNCHANGED <<file, connecting, read, fileStorage, fileAnnounced, disconnected, overtaken>>

FileWritten ==
  /\ file.version < MaxWrites
  /\ \E contents \in FileContents \ {file.contents}, readable \in BOOLEAN :
       file' = [contents |-> contents, version |-> file.version + 1, readable |-> readable]
  /\ UNCHANGED <<connecting, watched, read, fileStorage, fileAnnounced, disconnected, overtaken>>

FileNext ==
  \/ connectFile \/ FirstRead \/ FirstStat
  \/ \E r \in Reads : StatChanged(r) \/ ReadFile(r) \/ Refill(r)
  \/ disconnectFile \/ OtherDisconnects \/ FileWritten
-----------------------------------------------------------------------------
FileTypeOK ==
  /\ file.contents \in FileContents /\ file.version \in 0..MaxWrites
  /\ connecting \in {"no", "reading", "read", "watching", "failed"}
  /\ watched \in [by : BOOLEAN, version : 0..MaxWrites]
  /\ {disconnected, overtaken} \subseteq BOOLEAN

(* A file that is watched is followed: when no stat is due and no read on    *)
(* its way the flags are the file's, unless a write fell between the first   *)
(* read and the first stat or two reads overlapped (file-fetch.ts:22-38).    *)
StorageFollowsFile ==
  /\ watched.by /\ watched.version = file.version /\ Busy = {} /\ ~overtaken
  /\ file.readable /\ file.contents.parses
  => fileStorage = file.contents.flags

(* An application that reads all flags at READY and the named ones at each   *)
(* change knows the flags as they are, in whatever order the reads end.      *)
FileChangesAnnounced == fileAnnounced = fileStorage

FileFollowed == FileTypeOK /\ StorageFollowsFile /\ FileChangesAnnounced
=============================================================================
