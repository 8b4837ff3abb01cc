------------------------- MODULE ParquetCheckpoint -------------------------
(***************************************************************************)
(* The archival checkpoint store (distributed/parquet_checkpoint.rs) for   *)
(* one (claim, stage): a Parquet file and its JSON sidecar, each written   *)
(* to a temporary, synced and renamed, by one writer that may crash        *)
(* anywhere.  Versions number the saves; 0 is no file.                     *)
(***************************************************************************)
EXTENDS Naturals

CONSTANT MaxSaves    \* bound on the saves of a run

ASSUME SaveAssumption == MaxSaves \in Nat

VARIABLES
  data, sidecar,        \* the files the directory shows
  syncedData,           \* ... and would show after a power loss: the names
  syncedSidecar,        \* the last directory sync made durable
  tmp,                  \* the temporary files, whole once synced
  step,                 \* of write_checkpoint_internal or delete_checkpoint
  saves,                \* version of the latest save
  unsynced              \* a failed directory sync was ignored

files == <<data, sidecar, syncedData, syncedSidecar>>
archiveVars == <<files, tmp, step, saves, unsynced>>

Torn == MaxSaves + 1    \* a temporary that was not written to its end

ArchiveInit ==
  /\ data = 0 /\ sidecar = 0 /\ syncedData = 0 /\ syncedSidecar = 0
  /\ tmp = [data |-> 0, sidecar |-> 0]
  /\ step = "idle"
  /\ saves = 0
  /\ unsynced = FALSE

Goto(from, to) == step = from /\ step' = to

BeginSave ==
  /\ Goto("idle", "writeData")
  /\ saves < MaxSaves
  /\ saves' = saves + 1
  /\ tmp' = [tmp EXCEPT !.data = Torn]
  /\ UNCHANGED <<files, unsynced>>

(* Faulty variant: the file is renamed without waiting for its bytes. *)
SyncDataFileSkipped ==
  /\ Goto("writeData", "renameData")
  /\ UNCHANGED <<files, tmp, saves, unsynced>>

SyncDataFile ==
  /\ Goto("writeData", "renameData")
  /\ tmp' = [tmp EXCEPT !.data = saves]
  /\ UNCHANGED <<files, saves, unsynced>>

RenameData ==
  /\ Goto("renameData", "syncData")
  /\ data' = tmp.data
  /\ tmp' = [tmp EXCEPT !.data = 0]
  /\ UNCHANGED <<sidecar, syncedData, syncedSidecar, saves, unsynced>>

(* A directory sync covers both names; its failure is logged and ignored. *)
SyncDirectory(from, to) ==
  /\ Goto(from, to)
  /\ \/ /\ syncedData' = data
        /\ syncedSidecar' = sidecar
        /\ UNCHANGED unsynced
     \/ /\ unsynced' = TRUE
        /\ UNCHANGED <<syncedData, syncedSidecar>>
  /\ UNCHANGED <<data, sidecar, saves>>

SyncAfterData ==
  /\ SyncDirectory("syncData", "writeSidecar")
  /\ tmp' = [tmp EXCEPT !.sidecar = Torn]

SyncSidecarFile ==
  /\ Goto("writeSidecar", "renameSidecar")
  /\ tmp' = [tmp EXCEPT !.sidecar = saves]
  /\ UNCHANGED <<files, saves, unsynced>>

RenameSidecar ==
  /\ Goto("renameSidecar", "syncSidecar")
  /\ sidecar' = tmp.sidecar
  /\ tmp' = [tmp EXCEPT !.sidecar = 0]
  /\ UNCHANGED <<data, syncedData, syncedSidecar, saves, unsynced>>

SyncAfterSidecar ==
  /\ SyncDirectory("syncSidecar", "idle")
  /\ UNCHANGED tmp

(* delete_checkpoint removes the data, then the sidecar. *)
DeleteData ==
  /\ Goto("idle", "deleteSidecar")
  /\ data # 0 \/ sidecar # 0
  /\ data' = 0
  /\ UNCHANGED <<sidecar, syncedData, syncedSidecar, tmp, saves, unsynced>>

DeleteSidecar ==
  /\ Goto("deleteSidecar", "idle")
  /\ sidecar' = 0
  /\ UNCHANGED <<data, syncedData, syncedSidecar, tmp, saves, unsynced>>

(* An I/O error returns from the middle of a save or of a delete. *)
Abandon ==
  /\ step \notin {"idle", "syncData", "syncSidecar"}
  /\ step' = "idle"
  /\ UNCHANGED <<files, tmp, saves, unsynced>>

(* The process is killed, or the machine loses power and with it any       *)
(* rename or removal no directory sync covered.                            *)
Kill ==
  /\ step # "idle"
  /\ step' = "idle"
  /\ UNCHANGED <<files, tmp, saves, unsynced>>

PowerLoss ==
  /\ step' = "idle"
  /\ data' \in {data, syncedData}
  /\ sidecar' \in {sidecar, syncedSidecar}
  /\ syncedData' = data'
  /\ syncedSidecar' = sidecar'
  /\ UNCHANGED <<tmp, saves, unsynced>>

ArchiveNext ==
  \/ BeginSave \/ SyncDataFile \/ RenameData \/ SyncAfterData
  \/ SyncSidecarFile \/ RenameSidecar \/ SyncAfterSidecar
  \/ DeleteData \/ DeleteSidecar
  \/ Abandon \/ Kill \/ PowerLoss

ArchiveSpec == ArchiveInit /\ [][ArchiveNext]_archiveVars

----------------------------------------------------------------------------
(* load_blocking: nothing unless both files are there. *)
Loaded == IF data = 0 \/ sidecar = 0 THEN {} ELSE {[payload |-> data, meta |-> sidecar]}

(* Whatever crash interrupted a save, what load_checkpoint returns was     *)
(* written to its end, and its metadata is of the same save or an earlier  *)
(* one, never of a save whose data is missing.                             *)
LoadedIsWhole ==
  \A c \in Loaded : c.payload # Torn /\ c.meta # Torn /\ (~unsynced => c.meta <= c.payload)
=============================================================================
