---------------------------- MODULE ConsoleFolders ----------------------------
(***************************************************************************)
(* Folders of the web console.  A folder has no existence of its own: it   *)
(* is shown because some key begins with it, the empty object whose key is *)
(* the folder's name (the marker) among them.  Deleting a file through the *)
(* console looks at what is left and writes the marker if nothing is.      *)
(***************************************************************************)
EXTENDS Naturals, FiniteSets

CONSTANTS
  File,          \* the files of one folder
  Deleter,       \* console requests that delete one, each made once
  MaxUploads     \* bound on uploads and new folders

Marker == "folder/"
ASSUME FolderAssumption == Marker \notin File /\ MaxUploads \in Nat

VARIABLES
  objects,       \* keys that begin with the folder's name
  deleter,       \* request -> [pc, key, unseen, seen]
  uploads,
  kept           \* history: the folder was there and no one took it away

folderVars == <<objects, deleter, uploads, kept>>

InFolder == File \union {Marker}
NoDelete == [pc |-> "new", key |-> Marker, unseen |-> {}, seen |-> {}]

FolderInit ==
  /\ objects \in SUBSET InFolder
  /\ deleter = [d \in Deleter |-> NoDelete]
  /\ uploads = 0
  /\ kept = (objects # {})

\* list_objects: the folder is among the prefixes when a key begins with it.
FolderShown == objects # {}

Puts(k) ==
  /\ uploads < MaxUploads /\ uploads' = uploads + 1
  /\ objects' = objects \union {k}
  /\ kept' = TRUE
  /\ UNCHANGED deleter

UploadObject(k) == Puts(k)
CreateFolder == Puts(Marker)

\* delete_object_api: the object goes; the marker itself has no parent to keep.
ConsoleDelete(d, k) ==
  /\ deleter[d].pc = "new"
  /\ objects' = objects \ {k}
  /\ deleter' = [deleter EXCEPT ![d] = [pc |-> IF k = Marker THEN "done" ELSE "look",
                                        key |-> k, unseen |-> InFolder, seen |-> {}]]
  /\ kept' = IF k = Marker /\ objects \subseteq {Marker} THEN FALSE ELSE kept
  /\ UNCHANGED uploads

\* preserve_empty_parent_folder_after_object_delete lists the folder entry by entry.
\* Mutant: the file itself is still counted.
LookOwn(d, k) == k \in objects \union {deleter[d].key}
LookAt(d, k) == k \in objects

Look(d, k) ==
  /\ deleter[d].pc = "look" /\ k \in deleter[d].unseen
  /\ deleter' = [deleter EXCEPT ![d].unseen = @ \ {k},
                                ![d].seen = IF LookAt(d, k) THEN @ \union {k} ELSE @]
  /\ UNCHANGED <<objects, uploads, kept>>

\* ... and writes the marker if it found nothing.
Preserve(d) ==
  /\ deleter[d].pc = "look" /\ deleter[d].unseen = {}
  /\ objects' = IF deleter[d].seen = {} THEN objects \union {Marker} ELSE objects
  /\ deleter' = [deleter EXCEPT ![d] = [NoDelete EXCEPT !.pc = "done"]]
  /\ UNCHANGED <<uploads, kept>>

\* DeleteObject of the S3 API, or a crash before the marker is written: the folder
\* may go with its last file.
S3Delete(k) ==
  /\ k \in objects /\ objects' = objects \ {k}
  /\ kept' = FALSE
  /\ UNCHANGED <<deleter, uploads>>

Abandoned(d) ==
  /\ deleter[d].pc = "look"
  /\ deleter' = [deleter EXCEPT ![d] = [NoDelete EXCEPT !.pc = "done"]]
  /\ kept' = FALSE
  /\ UNCHANGED <<objects, uploads>>

FolderNext ==
  \/ \E k \in File : UploadObject(k)
  \/ CreateFolder
  \/ \E k \in InFolder : S3Delete(k)
  \/ \E d \in Deleter :
       \/ \E k \in InFolder : ConsoleDelete(d, k) \/ Look(d, k)
       \/ Preserve(d) \/ Abandoned(d)

FolderSpec == FolderInit /\ [][FolderNext]_folderVars

-----------------------------------------------------------------------------
(* Properties.                                                              *)

\* However deletions through the console interleave with each other, with uploads
\* and with listings made entry by entry, a folder that was shown is shown again
\* when they are done, unless someone deleted its marker when it was all there was,
\* used the S3 API, or the server died in between.
FolderKept ==
  kept /\ (\A d \in Deleter : deleter[d].pc # "look") => FolderShown
=============================================================================
