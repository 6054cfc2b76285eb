----------------------------- MODULE Attachments -----------------------------
(***************************************************************************)
(* AttachmentService over a MemoryAttachmentStore and a Storage            *)
(* (op-attachments): the records of attachments and the files they name.   *)
(*                                                                         *)
(* Each operation of store and storage is one action; the service awaits   *)
(* several of them in a call and works on its own copy of the record in    *)
(* between, beside other calls.  A call may be dropped at any await.       *)
(*                                                                         *)
(* Of a record the model keeps its file and its container.  The draw of an *)
(* id and the push of the record are one action: nobody knows the new id   *)
(* in between.  LocalStorage makes the file of a put or copy in one step   *)
(* and has it written to the end in a later one, and may fail in between.  *)
(*                                                                         *)
(* tokio::fs does its work on another thread, where it may go on after its *)
(* call was dropped; such a call is taken to be dropped when that is done. *)
(***************************************************************************)
CONSTANTS
  Calls,        \* tasks that call the service, one call at a time
  Unreliable,   \* tasks that may be dropped within a call
  Ids,          \* ids next_id hands out
  Keys,         \* disk filenames; each is drawn with a new uuid
  Containers,
  None

ASSUME AttachmentsAssumption ==
  /\ Unreliable \subseteq Calls
  /\ None \notin Ids /\ None \notin Keys

VARIABLES
  records,    \* the store
  used,       \* ids handed out so far
  aged,       \* ids whose created_at is before a cleanup's cutoff
  files,      \* the storage: the keys it has a file for
  partial,    \* files that were created and not written to their end
  drawn,      \* disk filenames drawn so far
  pc,         \* where each task stands in its call
  my,         \* the call's own copy of a record, and the id it has
  todo,       \* what is left of a cleanup's snapshot
  lost        \* history: files of puts and copies that failed, and of calls
              \* dropped between file and record

vars == <<records, used, aged, files, partial, drawn, pc, my, todo, lost>>

Record == [key : Keys, container : Containers \cup {None}]
NoRecord == [key |-> None, container |-> None]
Copy == [id : Ids \cup {None}, key : Keys, container : Containers \cup {None}]
NoCopy == [id |-> None, key |-> None, container |-> None]

Stored(id) == records[id] # NoRecord

\* What a call works on after store.get.
CopyOf(id) == [id |-> id, key |-> records[id].key, container |-> records[id].container]

Init ==
  /\ records = [id \in Ids |-> NoRecord]
  /\ used = {} /\ aged = {} /\ files = {} /\ partial = {} /\ drawn = {} /\ lost = {}
  /\ pc = [c \in Calls |-> "idle"]
  /\ my = [c \in Calls |-> NoCopy]
  /\ todo = [c \in Calls |-> {}]

\* A call begins or goes on with a copy of its own.
Goes(c, place, copy) ==
  /\ pc' = [pc EXCEPT ![c] = place]
  /\ my' = [my EXCEPT ![c] = copy]

\* The end of a call that is not part of a cleanup.
Ends(c) == Goes(c, "idle", NoCopy) /\ UNCHANGED todo

\* The end of delete, which a cleanup calls once for each of its snapshot.
Deleted(c) ==
  LET rest == todo[c] \ {my[c].id}
  IN  /\ Goes(c, IF rest = {} THEN "idle" ELSE "sweeping", NoCopy)
      /\ todo' = [todo EXCEPT ![c] = rest]

-----------------------------------------------------------------------------
(* create: the file, then the record.                                      *)

\* File::create of Storage::put.  If that fails nothing has happened.
Upload(c, key, container) ==
  /\ pc[c] = "idle" /\ key \notin drawn
  /\ drawn' = drawn \cup {key}
  /\ files' = files \cup {key} /\ partial' = partial \cup {key}
  /\ Goes(c, "filling", [id |-> None, key |-> key, container |-> container])
  /\ UNCHANGED <<records, used, aged, todo, lost>>

\* Mutant: an error of the write is passed over.
FillIgnoresError(c) ==
  /\ pc[c] = "filling"
  /\ \/ partial' = partial \ {my[c].key}
     \/ UNCHANGED partial
  /\ Goes(c, "uploaded", my[c])
  /\ UNCHANGED <<records, used, aged, files, drawn, todo, lost>>

\* write_all and sync_all of a put, or the rest of a copy.  An error ends the
\* call and leaves the file as far as it has come.
Fill(c) ==
  /\ pc[c] = "filling"
  /\ \/ /\ partial' = partial \ {my[c].key}
        /\ Goes(c, "uploaded", my[c]) /\ UNCHANGED <<todo, lost>>
     \/ /\ lost' = lost \cup {my[c].key}
        /\ Ends(c) /\ UNCHANGED partial
  /\ UNCHANGED <<records, used, aged, files, drawn>>

CreateRecord(c, id) ==
  /\ pc[c] = "uploaded" /\ id \notin used
  /\ used' = used \cup {id}
  /\ records' = [records EXCEPT ![id] = [key |-> my[c].key, container |-> my[c].container]]
  /\ Ends(c)
  /\ UNCHANGED <<aged, files, partial, drawn, lost>>

(* copy_to: the same with the file of another attachment.                  *)
StartCopy(c, id, container) ==
  /\ pc[c] = "idle" /\ Stored(id)
  /\ Goes(c, "copying", [id |-> id, key |-> records[id].key, container |-> container])
  /\ UNCHANGED <<records, used, aged, files, partial, drawn, todo, lost>>

\* Mutant: the copy is recorded under the file of its source.
CopyFileKeepsKey(c, key) ==
  /\ pc[c] = "copying" /\ key \notin drawn
  /\ \/ /\ my[c].key \in files
        /\ drawn' = drawn \cup {key}
        /\ UNCHANGED <<files, partial>>
        /\ Goes(c, "filling", [id |-> None, key |-> my[c].key,
                               container |-> my[c].container])
        /\ UNCHANGED todo
     \/ Ends(c) /\ UNCHANGED <<files, partial, drawn>>
  /\ UNCHANGED <<records, used, aged, lost>>

\* Storage::copy: a source that is missing, and any error before the new file
\* is created, end the call.
CopyFile(c, key) ==
  /\ pc[c] = "copying" /\ key \notin drawn
  /\ \/ /\ my[c].key \in files
        /\ drawn' = drawn \cup {key}
        /\ files' = files \cup {key} /\ partial' = partial \cup {key}
        /\ Goes(c, "filling", [id |-> None, key |-> key, container |-> my[c].container])
        /\ UNCHANGED todo
     \/ Ends(c) /\ UNCHANGED <<files, partial, drawn>>
  /\ UNCHANGED <<records, used, aged, lost>>

-----------------------------------------------------------------------------
(* download and attach_to: both read the record, and later write their     *)
(* copy of it over the stored one.                                         *)
StartDownload(c, id) ==
  /\ pc[c] = "idle" /\ Stored(id)
  /\ Goes(c, "downloading", CopyOf(id))
  /\ UNCHANGED <<records, used, aged, files, partial, drawn, todo, lost>>

\* storage.get; a missing file and a failed read end the call.
ReadFile(c) ==
  /\ pc[c] = "downloading"
  /\ \/ my[c].key \in files /\ Goes(c, "saving", my[c]) /\ UNCHANGED todo
     \/ Ends(c)
  /\ UNCHANGED <<records, used, aged, files, partial, drawn, lost>>

StartAttach(c, id, container) ==
  /\ pc[c] = "idle" /\ Stored(id)
  /\ Goes(c, "attaching", [id |-> id, key |-> records[id].key, container |-> container])
  /\ UNCHANGED <<records, used, aged, files, partial, drawn, todo, lost>>

\* Mutant: update inserts where it finds no record.
UpdateInserts(c) ==
  /\ pc[c] \in {"saving", "attaching"}
  /\ records' = [records EXCEPT ![my[c].id] =
                   [key |-> my[c].key, container |-> my[c].container]]
  /\ Ends(c)
  /\ UNCHANGED <<used, aged, files, partial, drawn, lost>>

\* store.update replaces the record if there still is one.
Update(c) ==
  /\ pc[c] \in {"saving", "attaching"}
  /\ records' = IF Stored(my[c].id)
                THEN [records EXCEPT ![my[c].id] =
                        [key |-> my[c].key, container |-> my[c].container]]
                ELSE records
  /\ Ends(c)
  /\ UNCHANGED <<used, aged, files, partial, drawn, lost>>

-----------------------------------------------------------------------------
(* delete: the file, then the record.                                      *)
StartDelete(c, id) ==
  /\ pc[c] = "idle" /\ Stored(id)
  /\ Goes(c, "deleting", CopyOf(id))
  /\ UNCHANGED <<records, used, aged, files, partial, drawn, todo, lost>>

\* Mutant: an error of the storage is passed over.
UnlinkIgnoresError(c) ==
  /\ pc[c] = "deleting"
  /\ \/ files' = files \ {my[c].key} /\ partial' = partial \ {my[c].key}
     \/ UNCHANGED <<files, partial>>
  /\ Goes(c, "unlinked", my[c]) /\ UNCHANGED todo
  /\ UNCHANGED <<records, used, aged, drawn, lost>>

\* storage.delete, which succeeds if there is no file.  An error ends delete;
\* a cleanup logs it and goes on.
Unlink(c) ==
  /\ pc[c] = "deleting"
  /\ \/ /\ files' = files \ {my[c].key} /\ partial' = partial \ {my[c].key}
        /\ Goes(c, "unlinked", my[c]) /\ UNCHANGED todo
     \/ UNCHANGED <<files, partial>> /\ Deleted(c)
  /\ UNCHANGED <<records, used, aged, drawn, lost>>

DeleteRecord(c) ==
  /\ pc[c] = "unlinked"
  /\ records' = [records EXCEPT ![my[c].id] = NoRecord]
  /\ Deleted(c)
  /\ UNCHANGED <<used, aged, files, partial, drawn, lost>>

(* cleanup_orphans: a snapshot of the orphans, then delete for each.       *)
Orphaned == {id \in aged : Stored(id) /\ records[id].container = None}

StartCleanup(c) ==
  /\ pc[c] = "idle" /\ Orphaned # {}
  /\ todo' = [todo EXCEPT ![c] = Orphaned]
  /\ Goes(c, "sweeping", NoCopy)
  /\ UNCHANGED <<records, used, aged, files, partial, drawn, lost>>

\* A record that is gone by now makes delete fail, which is only logged.
Sweep(c, id) ==
  /\ pc[c] = "sweeping" /\ id \in todo[c]
  /\ \/ Stored(id) /\ Goes(c, "deleting", CopyOf(id)) /\ UNCHANGED todo
     \/ LET rest == todo[c] \ {id}
        IN  /\ ~Stored(id)
            /\ Goes(c, IF rest = {} THEN "idle" ELSE "sweeping", NoCopy)
            /\ todo' = [todo EXCEPT ![c] = rest]
  /\ UNCHANGED <<records, used, aged, files, partial, drawn, lost>>

-----------------------------------------------------------------------------
\* The attachment becomes older than cleanup_orphans_after.
GrowOld(id) ==
  /\ id \in used \ aged
  /\ aged' = aged \cup {id}
  /\ UNCHANGED <<records, used, files, partial, drawn, pc, my, todo, lost>>

\* The future of the call is dropped at an await.
Drop(c) ==
  /\ c \in Unreliable /\ pc[c] # "idle"
  /\ lost' = IF pc[c] \in {"filling", "uploaded", "unlinked"}
             THEN lost \cup {my[c].key}
             ELSE lost
  /\ Goes(c, "idle", NoCopy)
  /\ todo' = [todo EXCEPT ![c] = {}]
  /\ UNCHANGED <<records, used, aged, files, partial, drawn>>

Next ==
  \/ \E c \in Calls :
       \/ \E key \in Keys :
            \/ \E container \in Containers \cup {None} : Upload(c, key, container)
            \/ CopyFile(c, key)
       \/ \E id \in Ids :
            \/ CreateRecord(c, id) \/ StartDownload(c, id)
            \/ StartDelete(c, id) \/ Sweep(c, id)
            \/ \E container \in Containers :
                 StartCopy(c, id, container) \/ StartAttach(c, id, container)
       \/ Fill(c) \/ ReadFile(c) \/ Update(c) \/ Unlink(c) \/ DeleteRecord(c)
       \/ StartCleanup(c) \/ Drop(c)
  \/ \E id \in Ids : GrowOld(id)

Spec == Init /\ [][Next]_vars

-----------------------------------------------------------------------------
Putting == {"filling", "uploaded"}
Fetched == {"copying", "downloading", "saving", "attaching", "deleting", "unlinked"}

(* Type correctness.  A call that has fetched a record has a proper copy   *)
(* of it, also in a cleanup whose snapshot is out of date.                 *)
TypeOK ==
  /\ records \in [Ids -> Record \cup {NoRecord}]
  /\ used \in SUBSET Ids /\ aged \in SUBSET Ids
  /\ files \in SUBSET Keys /\ partial \in SUBSET Keys
  /\ drawn \in SUBSET Keys /\ lost \in SUBSET Keys
  /\ pc \in [Calls -> {"idle", "sweeping"} \cup Putting \cup Fetched]
  /\ my \in [Calls -> Copy \cup {NoCopy}]
  /\ todo \in [Calls -> SUBSET Ids]
  /\ \A c \in Calls : /\ pc[c] \in Putting => my[c] \in Copy
                      /\ pc[c] \in Fetched => my[c] \in Copy /\ my[c].id \in Ids

(* A record's file is there and written to its end, though a put or copy   *)
(* may fail midway: it is missing only while a delete stands between file  *)
(* and record, or after one was dropped there.                             *)
RecordHasFile ==
  \A id \in Ids :
    Stored(id) => /\ records[id].key \notin partial
                  /\ \/ records[id].key \in files \cup lost
                     \/ \E c \in Calls :
                          pc[c] = "unlinked" /\ my[c].key = records[id].key

(* No call that succeeds leaves a file behind: a file in the storage has a *)
(* record, or a create or copy_to that is writing it or about to record it *)
(* -- or it is left of a put or copy that failed after it had created the  *)
(* file, or of a call dropped there.  delete leaves none however it ends.  *)
FileHasRecord ==
  \A key \in files :
    \/ key \in lost
    \/ \E id \in Ids : Stored(id) /\ records[id].key = key
    \/ \E c \in Calls : pc[c] \in Putting /\ my[c].key = key

(* Two attachments never share a file, so deleting a copy leaves its       *)
(* source alone and the other way round.                                   *)
NoSharedFile ==
  \A id, other \in Ids :
    Stored(id) /\ Stored(other) /\ id # other => records[id].key # records[other].key

(* A deleted attachment stays deleted, whatever copies of its record the   *)
(* calls under way still write back.                                       *)
DeletedStaysDeleted ==
  [][\A id \in used : ~Stored(id) => records'[id] = NoRecord]_vars

=============================================================================
