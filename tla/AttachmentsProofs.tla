-------------------------- MODULE AttachmentsProofs --------------------------
(***************************************************************************)
(* Proofs about Attachments: type correctness, the correspondence of       *)
(* records and files in both directions, and that a deleted attachment     *)
(* stays deleted, for any number of calls, attachments and containers.     *)
(*                                                                         *)
(* RecordHasFile, FileHasRecord and NoSharedFile are not inductive alone:  *)
(* a write-back or an unlink by a stale copy must be known to concern the  *)
(* copy's own record, and a new file must be known to be nobody else's.    *)
(***************************************************************************)
EXTENDS Attachments, TLAPS

(* Ids and filenames in use have been handed out before.                   *)
Known ==
  /\ files \cup lost \subseteq drawn
  /\ \A id \in Ids : Stored(id) => id \in used /\ records[id].key \in drawn
  /\ \A c \in Calls :
       /\ pc[c] \in Fetched \cup Putting => my[c].key \in drawn
       /\ pc[c] \in Fetched => my[c].id \in used

(* A file that is being put is there and is nobody else's.                 *)
UploadsOwn ==
  \A c \in Calls : pc[c] \in Putting =>
    /\ my[c].key \in files
    /\ \A id \in Ids : Stored(id) => records[id].key # my[c].key
    /\ \A d \in Calls \ {c} :
         pc[d] \in Fetched \cup Putting => my[d].key # my[c].key

(* A copy of a record names the file of that record and of no other.       *)
CopiesMatch ==
  \A c \in Calls : pc[c] \in Fetched =>
    \A id \in Ids :
      Stored(id) => (records[id].key = my[c].key <=> id = my[c].id)

(* An unlinked file does not come back.                                    *)
UnlinkedGone == \A c \in Calls : pc[c] = "unlinked" => my[c].key \notin files

(* A file written only in part is not recorded, nor about to be.           *)
Whole ==
  /\ \A c \in Calls : pc[c] = "uploaded" => my[c].key \notin partial
  /\ \A id \in Ids : Stored(id) => records[id].key \notin partial

Inv == Known /\ UploadsOwn /\ CopiesMatch /\ UnlinkedGone /\ Whole
         /\ RecordHasFile /\ FileHasRecord /\ NoSharedFile
IInv == TypeOK /\ Inv

-----------------------------------------------------------------------------
LEMMA InitIInv == Init => IInv
<1> SUFFICES ASSUME Init PROVE IInv
  OBVIOUS
<1>1. ASSUME NEW c \in Calls PROVE pc[c] = "idle" /\ my[c] = NoCopy /\ todo[c] = {}
  BY DEF Init
<1>2. ASSUME NEW id \in Ids PROVE ~Stored(id)
  BY DEF Init, Stored
<1>3. TypeOK
  BY <1>1 DEF Init, TypeOK, Fetched, Putting
<1>4. Known /\ UploadsOwn /\ CopiesMatch /\ UnlinkedGone /\ Whole
  BY <1>1, <1>2 DEF Init, Known, UploadsOwn, CopiesMatch, UnlinkedGone, Whole, Fetched, Putting
<1>5. RecordHasFile /\ FileHasRecord /\ NoSharedFile
  BY <1>2 DEF Init, RecordHasFile, FileHasRecord, NoSharedFile
<1>6. QED
  BY <1>3, <1>4, <1>5 DEF IInv, Inv

(***************************************************************************)
(* Steps of a call that change neither store nor storage, and that neither *)
(* start nor end at a place where record and file are out of step.         *)
(***************************************************************************)
LEMMA QuietStep ==
  ASSUME TypeOK, Inv, NEW c \in Calls, NEW place, NEW copy,
         Goes(c, place, copy),
         UNCHANGED <<records, used, files, partial, drawn, lost>>,
         pc[c] \notin Putting \cup {"unlinked"},
         place \notin Putting \cup {"unlinked"},
         place \in Fetched =>
           /\ copy.id \in used /\ copy.key \in drawn
           /\ \A id \in Ids : Stored(id) => (records[id].key = copy.key <=> id = copy.id)
           /\ \A d \in Calls : pc[d] \in Putting => my[d].key # copy.key
  PROVE  Inv'
<1>1. /\ pc'[c] = place /\ my'[c] = copy
      /\ \A d \in Calls \ {c} : pc'[d] = pc[d] /\ my'[d] = my[d]
  BY DEF Goes, TypeOK
<1>2. \A id : Stored(id)' <=> Stored(id)
  BY DEF Stored
<1>3. \A d \in Calls : pc'[d] \in Putting \cup {"unlinked"}
                       => d # c /\ pc'[d] = pc[d] /\ my'[d] = my[d]
  BY <1>1
<1>4. \A d \in Calls : pc[d] \in Putting \cup {"unlinked"}
                       => d # c /\ pc'[d] = pc[d] /\ my'[d] = my[d]
  BY <1>1
<1>5. Known'
  BY <1>1, <1>2 DEF Inv, Known
<1>6. UploadsOwn'
  BY <1>1, <1>2, <1>3 DEF Inv, UploadsOwn
<1>7. CopiesMatch'
  BY <1>1, <1>2 DEF Inv, CopiesMatch
<1>8. UnlinkedGone'
  BY <1>3 DEF Inv, UnlinkedGone
<1>9. Whole'
  BY <1>2, <1>3 DEF Inv, Whole, Putting
<1>10. RecordHasFile'
  BY <1>2, <1>4 DEF Inv, RecordHasFile
<1>11. FileHasRecord'
  BY <1>2, <1>4 DEF Inv, FileHasRecord
<1>12. NoSharedFile'
  BY <1>2 DEF Inv, NoSharedFile
<1>13. QED
  BY <1>5, <1>6, <1>7, <1>8, <1>9, <1>10, <1>11, <1>12 DEF Inv

(* A call that fetches a stored record.                                    *)
LEMMA FetchStep ==
  ASSUME TypeOK, Inv, NEW c \in Calls, NEW id \in Ids, NEW place, NEW copy,
         Stored(id), copy.id = id, copy.key = records[id].key,
         Goes(c, place, copy),
         UNCHANGED <<records, used, files, partial, drawn, lost>>,
         pc[c] \in {"idle", "sweeping"},
         place \in Fetched \ {"unlinked"}
  PROVE  Inv'
<1>1. copy.id \in used /\ copy.key \in drawn
  BY DEF Inv, Known
<1>2. \A other \in Ids : Stored(other) => (records[other].key = copy.key <=> other = copy.id)
  BY DEF Inv, NoSharedFile
<1>3. \A d \in Calls : pc[d] \in Putting => my[d].key # copy.key
  BY DEF Inv, UploadsOwn
<1>4. QED
  BY <1>1, <1>2, <1>3, QuietStep DEF Fetched, Putting

LEMMA NoRecordIsNone ==
  ASSUME TypeOK, NEW id \in Ids, Stored(id)
  PROVE  records[id] \in Record
BY DEF TypeOK, Stored

(* Type correctness of a step of one call.                                 *)
LEMMA GoesTyped ==
  ASSUME TypeOK, NEW c \in Calls, NEW place, NEW copy, Goes(c, place, copy),
         place \in {"idle", "sweeping"} \cup Putting \cup Fetched,
         copy \in Copy \cup {NoCopy},
         place \in Putting => copy \in Copy,
         place \in Fetched => copy \in Copy /\ copy.id \in Ids
  PROVE  /\ pc' \in [Calls -> {"idle", "sweeping"} \cup Putting \cup Fetched]
         /\ my' \in [Calls -> Copy \cup {NoCopy}]
         /\ \A d \in Calls : /\ pc'[d] \in Putting => my'[d] \in Copy
                             /\ pc'[d] \in Fetched => my'[d] \in Copy /\ my'[d].id \in Ids
BY DEF Goes, TypeOK

LEMMA DeletedTyped ==
  ASSUME TypeOK, NEW c \in Calls, Deleted(c)
  PROVE  /\ todo' \in [Calls -> SUBSET Ids]
         /\ \E place \in {"idle", "sweeping"} : Goes(c, place, NoCopy)
BY DEF Deleted, TypeOK

-----------------------------------------------------------------------------
(* One lemma for each step that changes store or storage.                  *)
LEMMA NewFileInv ==
  ASSUME TypeOK, Inv, NEW c \in Calls, NEW key \in Keys, NEW copy \in Copy,
         pc[c] \in {"idle", "copying"}, key \notin drawn, copy.key = key,
         Goes(c, "filling", copy),
         drawn' = drawn \cup {key}, files' = files \cup {key},
         partial' = partial \cup {key},
         UNCHANGED <<records, used, aged, todo, lost>>
  PROVE  TypeOK' /\ Inv'
<1>1. Goes(c, "filling", copy) /\ pc[c] \in {"idle", "copying"} /\ key \notin drawn
  OBVIOUS
<1>2. UNCHANGED <<records, used, aged, todo, lost>> /\ drawn' = drawn \cup {key}
        /\ files' = files \cup {key} /\ partial' = partial \cup {key}
  OBVIOUS
<1>3. copy \in Copy /\ copy.key = key
  OBVIOUS
<1>4. /\ pc'[c] = "filling" /\ pc'[c] \in Putting /\ my'[c].key = key
      /\ \A d \in Calls \ {c} : pc'[d] = pc[d] /\ my'[d] = my[d]
  BY <1>1, <1>3 DEF Goes, TypeOK, Putting
<1>5. TypeOK'
  <2>1. pc' \in [Calls -> {"idle", "sweeping"} \cup Putting \cup Fetched]
        /\ my' \in [Calls -> Copy \cup {NoCopy}]
        /\ \A d \in Calls : /\ pc'[d] \in Putting => my'[d] \in Copy
                            /\ pc'[d] \in Fetched => my'[d] \in Copy /\ my'[d].id \in Ids
    BY <1>1, <1>3, GoesTyped DEF Fetched, Putting
  <2>2. QED
    BY <2>1, <1>2 DEF TypeOK
<1>6. \A id : Stored(id)' <=> Stored(id)
  BY <1>2 DEF Stored
<1>7. /\ \A id \in Ids : Stored(id) => records[id].key # key
      /\ \A d \in Calls : pc[d] \in Fetched \cup Putting => my[d].key # key
  BY <1>1 DEF Inv, Known
<1>8. Known'
  BY <1>2, <1>4, <1>6 DEF Inv, Known, Fetched, Putting
<1>9. UploadsOwn'
  <2> SUFFICES ASSUME NEW d \in Calls, pc'[d] \in Putting
               PROVE  /\ my'[d].key \in files'
                      /\ \A id \in Ids : Stored(id) => records[id].key # my'[d].key
                      /\ \A e \in Calls \ {d} :
                           pc'[e] \in Fetched \cup Putting => my'[e].key # my'[d].key
    BY <1>2, <1>6 DEF UploadsOwn
  <2>1. CASE d = c
    BY <2>1, <1>2, <1>4, <1>7
  <2>2. CASE d # c
    BY <2>2, <1>2, <1>4, <1>7 DEF Inv, UploadsOwn
  <2>3. QED
    BY <2>1, <2>2
<1>10. CopiesMatch'
  BY <1>2, <1>4, <1>6 DEF Inv, CopiesMatch, Fetched, Putting
<1>11. UnlinkedGone'
  BY <1>2, <1>4, <1>7 DEF Inv, UnlinkedGone, Fetched, Putting
<1>12. Whole'
  BY <1>2, <1>4, <1>6, <1>7 DEF Inv, Whole, Putting
<1>13. RecordHasFile'
  <2> SUFFICES ASSUME NEW id \in Ids, Stored(id),
                      records[id].key \notin files \cup lost
               PROVE  \E d \in Calls : pc'[d] = "unlinked" /\ my'[d].key = records[id].key
    BY <1>2, <1>6, <1>12 DEF RecordHasFile, Whole
  <2>1. PICK d \in Calls : pc[d] = "unlinked" /\ my[d].key = records[id].key
    BY DEF Inv, RecordHasFile
  <2>2. d # c
    BY <2>1, <1>1
  <2>3. QED
    BY <2>1, <2>2, <1>4
<1>14. FileHasRecord'
  <2> SUFFICES ASSUME NEW k \in files', k \notin lost,
                      ~\E id \in Ids : Stored(id) /\ records[id].key = k
               PROVE  \E d \in Calls : pc'[d] \in Putting /\ my'[d].key = k
    BY <1>2, <1>6 DEF FileHasRecord
  <2>1. CASE k = key
    BY <2>1, <1>4
  <2>2. CASE k \in files
    <3>1. PICK d \in Calls : pc[d] \in Putting /\ my[d].key = k
      BY <2>2 DEF Inv, FileHasRecord
    <3>2. d # c
      BY <3>1, <1>1 DEF Putting
    <3>3. QED
      BY <3>1, <3>2, <1>4
  <2>3. QED
    BY <2>1, <2>2, <1>2
<1>15. NoSharedFile'
  BY <1>2, <1>6 DEF Inv, NoSharedFile
<1>16. QED
  BY <1>5, <1>8, <1>9, <1>10, <1>11, <1>12, <1>13, <1>14, <1>15 DEF Inv

LEMMA CreateRecordInv ==
  ASSUME TypeOK, Inv, NEW c \in Calls, NEW id \in Ids, CreateRecord(c, id)
  PROVE  TypeOK' /\ Inv'
<1> DEFINE record == [key |-> my[c].key, container |-> my[c].container]
<1>1. /\ pc[c] = "uploaded" /\ id \notin used /\ my[c] \in Copy
      /\ used' = used \cup {id} /\ records' = [records EXCEPT ![id] = record]
      /\ Goes(c, "idle", NoCopy)
      /\ UNCHANGED <<todo, aged, files, partial, drawn, lost>>
  BY DEF CreateRecord, Ends, TypeOK
<1>2. record \in Record /\ record.key = my[c].key /\ record # NoRecord
  BY <1>1, AttachmentsAssumption DEF Copy, Record, NoRecord
<1> HIDE DEF record
<1>3. /\ pc'[c] = "idle" /\ my'[c] = NoCopy
      /\ \A d \in Calls \ {c} : pc'[d] = pc[d] /\ my'[d] = my[d]
  BY <1>1 DEF Goes, TypeOK
<1>4. /\ records'[id] = record /\ Stored(id)'
      /\ \A other \in Ids \ {id} :
           records'[other] = records[other] /\ (Stored(other)' <=> Stored(other))
  BY <1>1, <1>2 DEF TypeOK, Stored
<1>5. ~Stored(id)
  BY <1>1 DEF Inv, Known
<1>6. TypeOK'
  <2>1. pc' \in [Calls -> {"idle", "sweeping"} \cup Putting \cup Fetched]
        /\ my' \in [Calls -> Copy \cup {NoCopy}]
        /\ \A d \in Calls : /\ pc'[d] \in Putting => my'[d] \in Copy
                            /\ pc'[d] \in Fetched => my'[d] \in Copy /\ my'[d].id \in Ids
    BY <1>1, GoesTyped DEF Fetched, Putting
  <2>2. QED
    BY <2>1, <1>1, <1>2 DEF TypeOK
<1>7. /\ my[c].key \in files \ partial /\ my[c].key \in drawn
      /\ \A other \in Ids : Stored(other) => records[other].key # my[c].key
      /\ \A d \in Calls \ {c} :
           pc[d] \in Fetched \cup Putting => my[d].key # my[c].key
  BY <1>1 DEF Inv, UploadsOwn, Known, Whole, Putting
<1>8. \A d \in Calls : pc'[d] \in Fetched \cup Putting
                       => d # c /\ pc'[d] = pc[d] /\ my'[d] = my[d]
  BY <1>3 DEF Fetched, Putting
<1>9. Known'
  BY <1>1, <1>2, <1>4, <1>7, <1>8 DEF Inv, Known
<1>10. UploadsOwn'
  BY <1>1, <1>2, <1>4, <1>7, <1>8 DEF Inv, UploadsOwn
<1>11. CopiesMatch'
  <2> SUFFICES ASSUME NEW d \in Calls, pc'[d] \in Fetched, NEW other \in Ids, Stored(other)'
               PROVE  records'[other].key = my'[d].key <=> other = my'[d].id
    BY DEF CopiesMatch
  <2>1. d # c /\ pc[d] \in Fetched /\ my'[d] = my[d]
    BY <1>8
  <2>2. CASE other = id
    <3>1. records'[other].key # my[d].key
      BY <2>1, <2>2, <1>2, <1>4, <1>7
    <3>2. my[d].id # id
      BY <2>1, <1>1 DEF Inv, Known
    <3>3. QED
      BY <2>1, <2>2, <3>1, <3>2
  <2>3. CASE other # id
    BY <2>1, <2>3, <1>4 DEF Inv, CopiesMatch
  <2>4. QED
    BY <2>2, <2>3
<1>12. UnlinkedGone'
  BY <1>1, <1>8 DEF Inv, UnlinkedGone, Fetched, Putting
<1>13. Whole'
  BY <1>1, <1>2, <1>4, <1>7, <1>8 DEF Inv, Whole, Putting
<1>14. RecordHasFile'
  <2> SUFFICES ASSUME NEW other \in Ids, Stored(other)',
                      records'[other].key \notin files \cup lost
               PROVE  \E d \in Calls : pc'[d] = "unlinked" /\ my'[d].key = records'[other].key
    BY <1>1, <1>13 DEF RecordHasFile, Whole
  <2>1. other # id
    BY <1>2, <1>4, <1>7
  <2>2. PICK d \in Calls : pc[d] = "unlinked" /\ my[d].key = records[other].key
    BY <2>1, <1>4 DEF Inv, RecordHasFile
  <2>3. d # c
    BY <2>2, <1>1
  <2>4. QED
    BY <2>1, <2>2, <2>3, <1>3, <1>4
<1>15. FileHasRecord'
  <2> SUFFICES ASSUME NEW k \in files, k \notin lost,
                      ~\E d \in Calls : pc'[d] \in Putting /\ my'[d].key = k
               PROVE  \E other \in Ids : Stored(other)' /\ records'[other].key = k
    BY <1>1 DEF FileHasRecord
  <2>1. CASE k = my[c].key
    BY <2>1, <1>2, <1>4
  <2>2. CASE k # my[c].key
    <3>1. ~\E d \in Calls : pc[d] \in Putting /\ my[d].key = k
      BY <2>2, <1>3
    <3>2. PICK other \in Ids : Stored(other) /\ records[other].key = k
      BY <3>1 DEF Inv, FileHasRecord
    <3>3. other # id
      BY <3>2, <1>5
    <3>4. QED
      BY <3>2, <3>3, <1>4
  <2>3. QED
    BY <2>1, <2>2
<1>16. NoSharedFile'
  BY <1>2, <1>4, <1>7 DEF Inv, NoSharedFile
<1>17. QED
  BY <1>6, <1>9, <1>10, <1>11, <1>12, <1>13, <1>14, <1>15, <1>16 DEF Inv

(* A call that ends and leaves what it was putting or deleting behind.      *)
LEMMA LoseInv ==
  ASSUME TypeOK, Inv, NEW c \in Calls, Goes(c, "idle", NoCopy),
         lost' = IF pc[c] \in Putting \cup {"unlinked"} THEN lost \cup {my[c].key} ELSE lost,
         todo' \in [Calls -> SUBSET Ids],
         UNCHANGED <<records, used, aged, files, partial, drawn>>
  PROVE  TypeOK' /\ Inv'
<1>1. /\ Goes(c, "idle", NoCopy)
      /\ lost' = IF pc[c] \in Putting \cup {"unlinked"} THEN lost \cup {my[c].key} ELSE lost
      /\ UNCHANGED <<records, used, aged, files, partial, drawn>>
  OBVIOUS
<1>2. /\ pc'[c] = "idle"
      /\ \A d \in Calls \ {c} : pc'[d] = pc[d] /\ my'[d] = my[d]
  BY <1>1 DEF Goes, TypeOK
<1>3. \A id : Stored(id)' <=> Stored(id)
  BY <1>1 DEF Stored
<1>4. pc[c] \in Putting \cup {"unlinked"} => my[c] \in Copy /\ my[c].key \in drawn
  BY DEF TypeOK, Fetched, Putting, Inv, Known
<1>5. TypeOK'
  <2>1. pc' \in [Calls -> {"idle", "sweeping"} \cup Putting \cup Fetched]
        /\ my' \in [Calls -> Copy \cup {NoCopy}]
        /\ \A d \in Calls : /\ pc'[d] \in Putting => my'[d] \in Copy
                            /\ pc'[d] \in Fetched => my'[d] \in Copy /\ my'[d].id \in Ids
    BY <1>1, GoesTyped DEF Fetched, Putting
  <2>2. lost' \in SUBSET Keys
    BY <1>1, <1>4 DEF TypeOK, Copy
  <2>3. QED
    BY <2>1, <2>2, <1>1 DEF TypeOK
<1>6. \A d \in Calls : pc'[d] \in Fetched \cup Putting
                       => d # c /\ pc'[d] = pc[d] /\ my'[d] = my[d]
  BY <1>2 DEF Fetched, Putting
<1>7. /\ lost \subseteq lost'
      /\ pc[c] \in Putting \cup {"unlinked"} => my[c].key \in lost'
  BY <1>1
<1>8. Known'
  BY <1>1, <1>3, <1>4, <1>6 DEF Inv, Known
<1>9. UploadsOwn' /\ CopiesMatch' /\ UnlinkedGone' /\ Whole'
  BY <1>1, <1>3, <1>6 DEF Inv, UploadsOwn, CopiesMatch, UnlinkedGone, Whole, Fetched, Putting
<1>10. RecordHasFile'
  <2> SUFFICES ASSUME NEW id \in Ids, Stored(id), records[id].key \notin files \cup lost'
               PROVE  \E d \in Calls : pc'[d] = "unlinked" /\ my'[d].key = records[id].key
    BY <1>1, <1>3, <1>9 DEF RecordHasFile, Whole
  <2>1. PICK d \in Calls : pc[d] = "unlinked" /\ my[d].key = records[id].key
    BY <1>7 DEF Inv, RecordHasFile
  <2>2. d # c
    BY <2>1, <1>7
  <2>3. QED
    BY <2>1, <2>2, <1>2
<1>11. FileHasRecord'
  <2> SUFFICES ASSUME NEW k \in files, k \notin lost',
                      ~\E id \in Ids : Stored(id) /\ records[id].key = k
               PROVE  \E d \in Calls : pc'[d] \in Putting /\ my'[d].key = k
    BY <1>1, <1>3 DEF FileHasRecord
  <2>1. PICK d \in Calls : pc[d] \in Putting /\ my[d].key = k
    BY <1>7 DEF Inv, FileHasRecord
  <2>2. d # c
    BY <2>1, <1>7
  <2>3. QED
    BY <2>1, <2>2, <1>2
<1>12. NoSharedFile'
  BY <1>1, <1>3 DEF Inv, NoSharedFile
<1>13. QED
  BY <1>5, <1>8, <1>9, <1>10, <1>11, <1>12 DEF Inv

LEMMA FillInv ==
  ASSUME TypeOK, Inv, NEW c \in Calls, Fill(c)
  PROVE  TypeOK' /\ Inv'
<1>1. /\ pc[c] = "filling" /\ my[c] \in Copy
      /\ UNCHANGED <<records, used, aged, files, drawn, todo>>
  BY DEF Fill, Ends, TypeOK, Putting
<1>2. /\ my[c].key \in files /\ my[c].key \in drawn
      /\ \A id \in Ids : Stored(id) => records[id].key # my[c].key
      /\ \A d \in Calls \ {c} :
           pc[d] \in Fetched \cup Putting => my[d].key # my[c].key
  BY <1>1 DEF Inv, UploadsOwn, Known, Putting
<1>3. \A id : Stored(id)' <=> Stored(id)
  BY <1>1 DEF Stored
<1>4. CASE /\ partial' = partial \ {my[c].key} /\ UNCHANGED lost
           /\ Goes(c, "uploaded", my[c])
  <2>1. pc'[c] = "uploaded" /\ my' = my /\ \A d \in Calls \ {c} : pc'[d] = pc[d]
    BY <1>4 DEF Goes, TypeOK
  <2>2. TypeOK'
    <3>1. pc' \in [Calls -> {"idle", "sweeping"} \cup Putting \cup Fetched]
          /\ my' \in [Calls -> Copy \cup {NoCopy}]
          /\ \A d \in Calls : /\ pc'[d] \in Putting => my'[d] \in Copy
                              /\ pc'[d] \in Fetched => my'[d] \in Copy /\ my'[d].id \in Ids
      BY <1>1, <1>4, GoesTyped DEF Fetched, Putting
    <3>2. QED
      BY <3>1, <1>1, <1>4 DEF TypeOK
  <2>3. \A d \in Calls : (pc'[d] \in Putting <=> pc[d] \in Putting)
                        /\ (pc'[d] \in Fetched <=> pc[d] \in Fetched)
                        /\ (pc'[d] = "unlinked" <=> pc[d] = "unlinked")
    BY <2>1, <1>1 DEF Fetched, Putting
  <2>4. Known' /\ UploadsOwn' /\ CopiesMatch' /\ UnlinkedGone'
    BY <1>1, <1>3, <1>4, <2>1, <2>3 DEF Inv, Known, UploadsOwn, CopiesMatch, UnlinkedGone
  <2>5. Whole'
    BY <1>1, <1>3, <1>4, <2>1 DEF Inv, Whole
  <2>6. RecordHasFile'
    BY <1>1, <1>3, <1>4, <2>1, <2>3, <2>5 DEF Inv, RecordHasFile, Whole
  <2>7. FileHasRecord' /\ NoSharedFile'
    BY <1>1, <1>3, <1>4, <2>1, <2>3 DEF Inv, FileHasRecord, NoSharedFile
  <2>8. QED
    BY <2>2, <2>4, <2>5, <2>6, <2>7 DEF Inv
<1>5. CASE /\ lost' = lost \cup {my[c].key} /\ UNCHANGED partial
           /\ Goes(c, "idle", NoCopy)
  BY <1>1, <1>5, LoseInv DEF Putting, TypeOK
<1>6. QED
  BY <1>4, <1>5 DEF Fill, Ends

LEMMA UploadInv ==
  ASSUME TypeOK, Inv, NEW c \in Calls, NEW key \in Keys,
         NEW container \in Containers \cup {None}, Upload(c, key, container)
  PROVE  TypeOK' /\ Inv'
<1> DEFINE copy == [id |-> None, key |-> key, container |-> container]
<1>1. copy \in Copy /\ copy.key = key
  BY DEF Copy
<1>2. Goes(c, "filling", copy) /\ pc[c] = "idle" /\ key \notin drawn
        /\ drawn' = drawn \cup {key} /\ files' = files \cup {key}
        /\ partial' = partial \cup {key}
        /\ UNCHANGED <<records, used, aged, todo, lost>>
  BY DEF Upload
<1> HIDE DEF copy
<1>3. QED
  BY <1>1, <1>2, NewFileInv

(* A call that only moves on, or ends, at a place of no consequence.       *)
LEMMA QuietTyped ==
  ASSUME TypeOK, NEW c \in Calls, NEW place, NEW copy, Goes(c, place, copy),
         place \in {"idle", "sweeping"} \cup Fetched,
         copy \in Copy \cup {NoCopy},
         place \in Fetched => copy \in Copy /\ copy.id \in Ids,
         todo' \in [Calls -> SUBSET Ids],
         UNCHANGED <<records, used, aged, files, partial, drawn, lost>>
  PROVE  TypeOK'
<1>1. pc' \in [Calls -> {"idle", "sweeping"} \cup Putting \cup Fetched]
      /\ my' \in [Calls -> Copy \cup {NoCopy}]
      /\ \A d \in Calls : /\ pc'[d] \in Putting => my'[d] \in Copy
                          /\ pc'[d] \in Fetched => my'[d] \in Copy /\ my'[d].id \in Ids
  BY GoesTyped DEF Fetched, Putting
<1>2. QED
  BY <1>1 DEF TypeOK

LEMMA LeaveInv ==
  ASSUME TypeOK, Inv, NEW c \in Calls, NEW place \in {"idle", "sweeping"},
         Goes(c, place, NoCopy), pc[c] \notin Putting \cup {"unlinked"},
         todo' \in [Calls -> SUBSET Ids],
         UNCHANGED <<records, used, aged, files, partial, drawn, lost>>
  PROVE  TypeOK' /\ Inv'
BY QuietTyped, QuietStep DEF Fetched, Putting

LEMMA FetchInv ==
  ASSUME TypeOK, Inv, NEW c \in Calls, NEW id \in Ids, Stored(id),
         NEW container \in Containers \cup {None}, NEW copy,
         copy = [id |-> id, key |-> records[id].key, container |-> container],
         NEW place \in Fetched \ {"unlinked"}, Goes(c, place, copy),
         pc[c] \in {"idle", "sweeping"},
         UNCHANGED <<records, used, aged, files, partial, drawn, todo, lost>>
  PROVE  TypeOK' /\ Inv'
<1>1. records[id] \in Record
  BY NoRecordIsNone
<1>2. copy \in Copy /\ copy.id = id /\ copy.key = records[id].key
  BY <1>1 DEF Copy, Record
<1>3. TypeOK'
  <2>1. todo' \in [Calls -> SUBSET Ids]
    BY DEF TypeOK
  <2>2. QED
    BY <1>2, <2>1, QuietTyped
<1>4. Inv'
  BY <1>2, FetchStep
<1>5. QED
  BY <1>3, <1>4

LEMMA CopyOfStored ==
  ASSUME TypeOK, NEW id \in Ids, Stored(id)
  PROVE  \E container \in Containers \cup {None} :
           CopyOf(id) = [id |-> id, key |-> records[id].key, container |-> container]
<1>1. records[id] \in Record
  BY NoRecordIsNone
<1>2. records[id].container \in Containers \cup {None}
  BY <1>1 DEF Record
<1>3. QED
  BY <1>2 DEF CopyOf

LEMMA CopyFileInv ==
  ASSUME TypeOK, Inv, NEW c \in Calls, NEW key \in Keys, CopyFile(c, key)
  PROVE  TypeOK' /\ Inv'
<1> DEFINE copy == [id |-> None, key |-> key, container |-> my[c].container]
<1>1. pc[c] = "copying" /\ key \notin drawn /\ my[c] \in Copy
  BY DEF CopyFile, TypeOK, Fetched, Putting
<1>2. CASE /\ Goes(c, "filling", copy)
           /\ drawn' = drawn \cup {key} /\ files' = files \cup {key}
           /\ partial' = partial \cup {key}
           /\ UNCHANGED <<records, used, aged, todo, lost>>
  <2>1. copy \in Copy /\ copy.key = key
    BY <1>1 DEF Copy
  <2> HIDE DEF copy
  <2>2. QED
    BY <1>1, <1>2, <2>1, NewFileInv
<1>3. CASE Goes(c, "idle", NoCopy)
           /\ UNCHANGED <<records, used, aged, files, partial, drawn, todo, lost>>
  <2>1. todo' \in [Calls -> SUBSET Ids]
    BY <1>3 DEF TypeOK
  <2>2. QED
    BY <1>1, <1>3, <2>1, LeaveInv DEF Putting
<1>4. QED
  BY <1>2, <1>3 DEF CopyFile, Ends

LEMMA ReadFileInv ==
  ASSUME TypeOK, Inv, NEW c \in Calls, ReadFile(c)
  PROVE  TypeOK' /\ Inv'
<1>1. /\ pc[c] = "downloading" /\ my[c] \in Copy /\ my[c].id \in Ids
      /\ UNCHANGED <<records, used, aged, files, partial, drawn, todo, lost>>
      /\ todo' \in [Calls -> SUBSET Ids]
  BY DEF ReadFile, Ends, TypeOK, Fetched, Putting
<1>2. CASE Goes(c, "saving", my[c])
  <2>1. TypeOK'
    BY <1>1, <1>2, QuietTyped DEF Fetched, Putting
  <2>2. /\ my[c].id \in used /\ my[c].key \in drawn
        /\ \A id \in Ids : Stored(id) => (records[id].key = my[c].key <=> id = my[c].id)
    BY <1>1 DEF Inv, Known, CopiesMatch, Fetched, Putting
  <2>3. \A d \in Calls : pc[d] \in Putting => my[d].key # my[c].key
    BY <1>1 DEF Inv, UploadsOwn, Fetched, Putting
  <2>4. Inv'
    BY <1>1, <1>2, <2>2, <2>3, QuietStep DEF Fetched, Putting
  <2>5. QED
    BY <2>1, <2>4
<1>3. CASE Goes(c, "idle", NoCopy)
  BY <1>1, <1>3, LeaveInv DEF Putting
<1>4. QED
  BY <1>2, <1>3 DEF ReadFile, Ends

LEMMA UpdateInv ==
  ASSUME TypeOK, Inv, NEW c \in Calls, Update(c)
  PROVE  TypeOK' /\ Inv'
<1> DEFINE record == [key |-> my[c].key, container |-> my[c].container]
<1>1. /\ pc[c] \in {"saving", "attaching"} /\ my[c] \in Copy /\ my[c].id \in Ids
      /\ records' = IF Stored(my[c].id) THEN [records EXCEPT ![my[c].id] = record]
                                        ELSE records
      /\ Goes(c, "idle", NoCopy)
      /\ UNCHANGED <<used, aged, files, partial, drawn, todo, lost>>
  BY DEF Update, Ends, TypeOK, Fetched, Putting
<1>2. record \in Record /\ record.key = my[c].key /\ record # NoRecord
  BY <1>1, AttachmentsAssumption DEF Copy, Record, NoRecord
<1> HIDE DEF record
<1>3. /\ pc'[c] = "idle"
      /\ \A d \in Calls \ {c} : pc'[d] = pc[d] /\ my'[d] = my[d]
  BY <1>1 DEF Goes, TypeOK
<1>4. \A id \in Ids : /\ Stored(id)' <=> Stored(id)
                      /\ Stored(id) => records'[id].key = records[id].key
  <2> TAKE id \in Ids
  <2>1. CASE Stored(my[c].id) /\ id = my[c].id
    <3>1. records'[id] = record
      BY <2>1, <1>1 DEF TypeOK
    <3>2. records[id].key = my[c].key
      BY <2>1, <1>1 DEF Inv, CopiesMatch, Fetched, Putting
    <3>3. QED
      BY <2>1, <3>1, <3>2, <1>2 DEF Stored
  <2>2. CASE ~(Stored(my[c].id) /\ id = my[c].id)
    <3>1. records'[id] = records[id]
      BY <2>2, <1>1 DEF TypeOK
    <3>2. QED
      BY <3>1 DEF Stored
  <2>3. QED
    BY <2>1, <2>2
<1>5. TypeOK'
  <2>1. pc' \in [Calls -> {"idle", "sweeping"} \cup Putting \cup Fetched]
        /\ my' \in [Calls -> Copy \cup {NoCopy}]
        /\ \A d \in Calls : /\ pc'[d] \in Putting => my'[d] \in Copy
                            /\ pc'[d] \in Fetched => my'[d] \in Copy /\ my'[d].id \in Ids
    BY <1>1, GoesTyped DEF Fetched, Putting
  <2>2. records' \in [Ids -> Record \cup {NoRecord}]
    BY <1>1, <1>2 DEF TypeOK
  <2>3. QED
    BY <2>1, <2>2, <1>1 DEF TypeOK
<1>6. \A d \in Calls : pc'[d] \in Fetched \cup Putting
                       => d # c /\ pc'[d] = pc[d] /\ my'[d] = my[d]
  BY <1>3 DEF Fetched, Putting
<1>7. \A d \in Calls : pc[d] \in Putting \cup {"unlinked"}
                       => d # c /\ pc'[d] = pc[d] /\ my'[d] = my[d]
  BY <1>1, <1>3 DEF Putting
<1>8. Known' /\ UploadsOwn'
  BY <1>1, <1>4, <1>6 DEF Inv, Known, UploadsOwn
<1>9. CopiesMatch' /\ UnlinkedGone' /\ Whole'
  BY <1>1, <1>4, <1>6 DEF Inv, CopiesMatch, UnlinkedGone, Whole, Fetched, Putting
<1>10. RecordHasFile' /\ FileHasRecord' /\ NoSharedFile'
  BY <1>1, <1>4, <1>7 DEF Inv, RecordHasFile, FileHasRecord, NoSharedFile
<1>11. QED
  BY <1>5, <1>8, <1>9, <1>10 DEF Inv

LEMMA UnlinkInv ==
  ASSUME TypeOK, Inv, NEW c \in Calls, Unlink(c)
  PROVE  TypeOK' /\ Inv'
<1>1. /\ pc[c] = "deleting" /\ my[c] \in Copy /\ my[c].id \in Ids
      /\ UNCHANGED <<records, used, aged, drawn, lost>>
  BY DEF Unlink, TypeOK, Fetched, Putting
<1>2. CASE /\ files' = files \ {my[c].key} /\ partial' = partial \ {my[c].key}
           /\ Goes(c, "unlinked", my[c]) /\ UNCHANGED todo
  <2>1. pc'[c] = "unlinked" /\ my' = my
    BY <1>2 DEF Goes, TypeOK
  <2>2. \A d \in Calls \ {c} : pc'[d] = pc[d]
    BY <1>2 DEF Goes, TypeOK
  <2>3. \A id : Stored(id)' <=> Stored(id)
    BY <1>1 DEF Stored
  <2>4. TypeOK'
    <3>1. pc' \in [Calls -> {"idle", "sweeping"} \cup Putting \cup Fetched]
          /\ my' \in [Calls -> Copy \cup {NoCopy}]
          /\ \A d \in Calls : /\ pc'[d] \in Putting => my'[d] \in Copy
                              /\ pc'[d] \in Fetched => my'[d] \in Copy /\ my'[d].id \in Ids
      BY <1>1, <1>2, GoesTyped DEF Fetched, Putting
    <3>2. QED
      BY <3>1, <1>1, <1>2 DEF TypeOK
  <2>5. \A d \in Calls : pc'[d] \in Fetched \cup Putting
                         => pc[d] \in Fetched \cup Putting
                            /\ (pc'[d] \in Fetched => pc[d] \in Fetched)
    BY <2>1, <2>2, <1>1 DEF Fetched, Putting
  <2>6. \A d \in Calls : pc'[d] \in Putting <=> pc[d] \in Putting
    BY <2>1, <2>2, <1>1 DEF Putting
  <2>7. Known' /\ CopiesMatch'
    BY <1>1, <1>2, <2>1, <2>3, <2>5 DEF Inv, Known, CopiesMatch
  <2>8. UploadsOwn'
    <3>1. \A d \in Calls : pc[d] \in Putting => my[d].key # my[c].key
      BY <1>1 DEF Inv, UploadsOwn, Fetched, Putting
    <3>2. QED
      BY <1>1, <1>2, <2>1, <2>3, <2>5, <2>6, <3>1 DEF Inv, UploadsOwn
  <2>9. UnlinkedGone' /\ Whole'
    BY <1>1, <1>2, <2>1, <2>2, <2>3 DEF Inv, UnlinkedGone, Whole
  <2>10. RecordHasFile'
    <3> SUFFICES ASSUME NEW id \in Ids, Stored(id), records[id].key \notin files' \cup lost
                 PROVE  \E d \in Calls : pc'[d] = "unlinked" /\ my[d].key = records[id].key
      BY <1>1, <2>1, <2>3, <2>9 DEF RecordHasFile, Whole
    <3>1. CASE records[id].key = my[c].key
      BY <3>1, <2>1
    <3>2. CASE records[id].key # my[c].key
      <4>1. PICK d \in Calls : pc[d] = "unlinked" /\ my[d].key = records[id].key
        BY <3>2, <1>2 DEF Inv, RecordHasFile
      <4>2. QED
        BY <4>1, <2>1, <2>2
    <3>3. QED
      BY <3>1, <3>2
  <2>11. FileHasRecord' /\ NoSharedFile'
    BY <1>1, <1>2, <2>1, <2>3, <2>6 DEF Inv, FileHasRecord, NoSharedFile
  <2>12. QED
    BY <2>4, <2>7, <2>8, <2>9, <2>10, <2>11 DEF Inv
<1>3. CASE UNCHANGED <<files, partial>> /\ Deleted(c)
  BY <1>1, <1>3, DeletedTyped, LeaveInv DEF Putting
<1>4. QED
  BY <1>2, <1>3 DEF Unlink

LEMMA DeleteRecordInv ==
  ASSUME TypeOK, Inv, NEW c \in Calls, DeleteRecord(c)
  PROVE  TypeOK' /\ Inv'
<1> DEFINE id == my[c].id
<1>1. /\ pc[c] = "unlinked" /\ my[c] \in Copy /\ id \in Ids
      /\ records' = [records EXCEPT ![id] = NoRecord]
      /\ UNCHANGED <<used, aged, files, partial, drawn, lost>>
  BY DEF DeleteRecord, TypeOK, Fetched, Putting
<1>2. PICK place \in {"idle", "sweeping"} : Goes(c, place, NoCopy)
  BY DeletedTyped DEF DeleteRecord
<1>3. /\ pc'[c] = place
      /\ \A d \in Calls \ {c} : pc'[d] = pc[d] /\ my'[d] = my[d]
  BY <1>2 DEF Goes, TypeOK
<1>4. \A other \in Ids : /\ Stored(other)' <=> Stored(other) /\ other # id
                         /\ other # id => records'[other] = records[other]
  BY <1>1 DEF Stored, TypeOK
<1>5. /\ my[c].key \notin files
      /\ \A other \in Ids : Stored(other) => (records[other].key = my[c].key <=> other = id)
  BY <1>1 DEF Inv, UnlinkedGone, CopiesMatch, Fetched, Putting
<1> HIDE DEF id
<1>6. TypeOK'
  <2>1. pc' \in [Calls -> {"idle", "sweeping"} \cup Putting \cup Fetched]
        /\ my' \in [Calls -> Copy \cup {NoCopy}]
        /\ \A d \in Calls : /\ pc'[d] \in Putting => my'[d] \in Copy
                            /\ pc'[d] \in Fetched => my'[d] \in Copy /\ my'[d].id \in Ids
    BY <1>2, GoesTyped DEF Fetched, Putting
  <2>2. todo' \in [Calls -> SUBSET Ids]
    BY DeletedTyped DEF DeleteRecord
  <2>3. records' \in [Ids -> Record \cup {NoRecord}]
    BY <1>1 DEF TypeOK
  <2>4. QED
    BY <2>1, <2>2, <2>3, <1>1 DEF TypeOK
<1>7. \A d \in Calls : pc'[d] \in Fetched \cup Putting
                       => d # c /\ pc'[d] = pc[d] /\ my'[d] = my[d]
  BY <1>3 DEF Fetched, Putting
<1>8. Known' /\ UploadsOwn'
  BY <1>1, <1>4, <1>7 DEF Inv, Known, UploadsOwn
<1>9. CopiesMatch' /\ UnlinkedGone' /\ Whole'
  BY <1>1, <1>4, <1>7 DEF Inv, CopiesMatch, UnlinkedGone, Whole, Fetched, Putting
<1>10. RecordHasFile'
  <2> SUFFICES ASSUME NEW other \in Ids, Stored(other), other # id,
                      records[other].key \notin files \cup lost
               PROVE  \E d \in Calls : pc'[d] = "unlinked" /\ my'[d].key = records[other].key
    BY <1>1, <1>4, <1>9 DEF RecordHasFile, Whole
  <2>1. PICK d \in Calls : pc[d] = "unlinked" /\ my[d].key = records[other].key
    BY DEF Inv, RecordHasFile
  <2>2. d # c
    BY <2>1, <1>5
  <2>3. QED
    BY <2>1, <2>2, <1>3
<1>11. FileHasRecord'
  <2> SUFFICES ASSUME NEW k \in files, k \notin lost,
                      ~\E d \in Calls : pc'[d] \in Putting /\ my'[d].key = k
               PROVE  \E other \in Ids : Stored(other)' /\ records'[other].key = k
    BY <1>1 DEF FileHasRecord
  <2>1. ~\E d \in Calls : pc[d] \in Putting /\ my[d].key = k
    BY <1>1, <1>3 DEF Putting
  <2>2. PICK other \in Ids : Stored(other) /\ records[other].key = k
    BY <2>1 DEF Inv, FileHasRecord
  <2>3. other # id
    BY <2>2, <1>5
  <2>4. QED
    BY <2>2, <2>3, <1>4
<1>12. NoSharedFile'
  BY <1>4 DEF Inv, NoSharedFile
<1>13. QED
  BY <1>6, <1>8, <1>9, <1>10, <1>11, <1>12 DEF Inv

LEMMA DropInv ==
  ASSUME TypeOK, Inv, NEW c \in Calls, Drop(c)
  PROVE  TypeOK' /\ Inv'
<1>1. /\ Goes(c, "idle", NoCopy)
      /\ lost' = IF pc[c] \in Putting \cup {"unlinked"} THEN lost \cup {my[c].key} ELSE lost
      /\ todo' = [todo EXCEPT ![c] = {}]
      /\ UNCHANGED <<records, used, aged, files, partial, drawn>>
  BY DEF Drop, Putting
<1>2. todo' \in [Calls -> SUBSET Ids]
  BY <1>1 DEF TypeOK
<1>3. QED
  BY <1>1, <1>2, LoseInv

-----------------------------------------------------------------------------
(* The steps that begin a call, and those of a cleanup.                    *)
LEMMA StartInv ==
  ASSUME TypeOK, Inv, NEW c \in Calls, NEW id \in Ids,
         \/ StartDownload(c, id) \/ StartDelete(c, id)
         \/ \E container \in Containers :
              StartCopy(c, id, container) \/ StartAttach(c, id, container)
  PROVE  TypeOK' /\ Inv'
<1>1. CASE StartDownload(c, id) \/ StartDelete(c, id)
  <2>1. pc[c] = "idle" /\ Stored(id)
        /\ UNCHANGED <<records, used, aged, files, partial, drawn, todo, lost>>
        /\ \E place \in {"downloading", "deleting"} : Goes(c, place, CopyOf(id))
    BY <1>1 DEF StartDownload, StartDelete
  <2>2. PICK place \in {"downloading", "deleting"} : Goes(c, place, CopyOf(id))
    BY <2>1
  <2>3. PICK container \in Containers \cup {None} :
          CopyOf(id) = [id |-> id, key |-> records[id].key, container |-> container]
    BY <2>1, CopyOfStored
  <2>4. QED
    BY <2>1, <2>2, <2>3, FetchInv DEF Fetched, Putting
<1>2. ASSUME NEW container \in Containers,
             StartCopy(c, id, container) \/ StartAttach(c, id, container)
      PROVE  TypeOK' /\ Inv'
  <2> DEFINE copy == [id |-> id, key |-> records[id].key, container |-> container]
  <2>1. pc[c] = "idle" /\ Stored(id)
        /\ UNCHANGED <<records, used, aged, files, partial, drawn, todo, lost>>
        /\ \E place \in {"copying", "attaching"} : Goes(c, place, copy)
    BY <1>2 DEF StartCopy, StartAttach
  <2>2. PICK place \in {"copying", "attaching"} : Goes(c, place, copy)
    BY <2>1
  <2>3. QED
    BY <2>1, <2>2, FetchInv DEF Fetched, Putting
<1>3. QED
  BY <1>1, <1>2

LEMMA StartCleanupInv ==
  ASSUME TypeOK, Inv, NEW c \in Calls, StartCleanup(c)
  PROVE  TypeOK' /\ Inv'
<1>1. /\ pc[c] = "idle" /\ Goes(c, "sweeping", NoCopy)
      /\ UNCHANGED <<records, used, aged, files, partial, drawn, lost>>
  BY DEF StartCleanup
<1>2. todo' \in [Calls -> SUBSET Ids]
  BY DEF StartCleanup, Orphaned, TypeOK
<1>3. QED
  BY <1>1, <1>2, LeaveInv DEF Putting

LEMMA SweepInv ==
  ASSUME TypeOK, Inv, NEW c \in Calls, NEW id \in Ids, Sweep(c, id)
  PROVE  TypeOK' /\ Inv'
<1>1. pc[c] = "sweeping" /\ UNCHANGED <<records, used, aged, files, partial, drawn, lost>>
  BY DEF Sweep
<1>2. CASE Stored(id) /\ Goes(c, "deleting", CopyOf(id)) /\ UNCHANGED todo
  <2>1. PICK container \in Containers \cup {None} :
          CopyOf(id) = [id |-> id, key |-> records[id].key, container |-> container]
    BY <1>2, CopyOfStored
  <2>2. QED
    BY <1>1, <1>2, <2>1, FetchInv DEF Fetched, Putting
<1>3. CASE /\ \E place \in {"idle", "sweeping"} : Goes(c, place, NoCopy)
           /\ todo' = [todo EXCEPT ![c] = todo[c] \ {id}]
  <2>1. todo' \in [Calls -> SUBSET Ids]
    BY <1>3 DEF TypeOK
  <2>2. PICK place \in {"idle", "sweeping"} : Goes(c, place, NoCopy)
    BY <1>3
  <2>3. QED
    BY <1>1, <2>1, <2>2, LeaveInv DEF Putting
<1>4. QED
  BY <1>2, <1>3 DEF Sweep

LEMMA StepIInv == IInv /\ [Next]_vars => IInv'
<1> SUFFICES ASSUME IInv, [Next]_vars PROVE IInv'
  OBVIOUS
<1>1. TypeOK /\ Inv
  BY DEF IInv
<1>2. CASE UNCHANGED vars
  <2>1. TypeOK'
    BY <1>1, <1>2 DEF vars, TypeOK
  <2>2. \A id : Stored(id)' <=> Stored(id)
    BY <1>2 DEF vars, Stored
  <2>3. Inv'
    BY <1>1, <1>2, <2>2 DEF vars, Inv, Known, UploadsOwn, CopiesMatch, UnlinkedGone, Whole,
       RecordHasFile, FileHasRecord, NoSharedFile
  <2>4. QED
    BY <2>1, <2>3 DEF IInv
<1>3. ASSUME NEW id \in Ids, GrowOld(id) PROVE IInv'
  <2>1. TypeOK'
    BY <1>1, <1>3 DEF GrowOld, TypeOK
  <2>2. \A other : Stored(other)' <=> Stored(other)
    BY <1>3 DEF GrowOld, Stored
  <2>3. Inv'
    BY <1>1, <1>3, <2>2 DEF GrowOld, Inv, Known, UploadsOwn, CopiesMatch, UnlinkedGone, Whole,
       RecordHasFile, FileHasRecord, NoSharedFile
  <2>4. QED
    BY <2>1, <2>3 DEF IInv
<1>4. ASSUME NEW c \in Calls, NEW key \in Keys,
             \/ \E container \in Containers \cup {None} : Upload(c, key, container)
             \/ CopyFile(c, key)
      PROVE  IInv'
  BY <1>1, <1>4, UploadInv, CopyFileInv DEF IInv
<1>5. ASSUME NEW c \in Calls, NEW id \in Ids,
             \/ CreateRecord(c, id) \/ StartDownload(c, id)
             \/ StartDelete(c, id) \/ Sweep(c, id)
             \/ \E container \in Containers :
                  StartCopy(c, id, container) \/ StartAttach(c, id, container)
      PROVE  IInv'
  BY <1>1, <1>5, CreateRecordInv, StartInv, SweepInv DEF IInv
<1>6. ASSUME NEW c \in Calls,
             \/ Fill(c) \/ ReadFile(c) \/ Update(c) \/ Unlink(c) \/ DeleteRecord(c)
             \/ StartCleanup(c) \/ Drop(c)
      PROVE  IInv'
  BY <1>1, <1>6, FillInv, ReadFileInv, UpdateInv, UnlinkInv, DeleteRecordInv, StartCleanupInv,
     DropInv DEF IInv
<1>7. QED
  BY <1>2, <1>3, <1>4, <1>5, <1>6 DEF Next

-----------------------------------------------------------------------------
(* The invariant the results below rest on.                                *)
THEOREM Invariance == Spec => []IInv
<1>1. QED
  BY InitIInv, StepIInv, PTL DEF Spec

(* The service's records, files and the copies its calls work on stay well *)
(* typed: Attachment, store and storage in service.rs.                     *)
THEOREM TypeCorrect == Spec => []TypeOK
<1>1. IInv => TypeOK
  BY DEF IInv
<1>2. QED
  BY <1>1, Invariance, PTL

(* No record without its whole file, whatever creates, copies, downloads,  *)
(* deletes and cleanups overlap, fail midway or are dropped.               *)
THEOREM RecordsKeepFiles == Spec => []RecordHasFile
<1>1. IInv => RecordHasFile
  BY DEF IInv, Inv
<1>2. QED
  BY <1>1, Invariance, PTL

(* No file without a record but those of puts and copies that failed after *)
(* File::create and of calls dropped in between: nothing else, no overlap  *)
(* of creates, copies, deletes and cleanups, leaves one behind.            *)
THEOREM NoFileLeftBehind == Spec => []FileHasRecord
<1>1. IInv => FileHasRecord
  BY DEF IInv, Inv
<1>2. QED
  BY <1>1, Invariance, PTL

(* copy_to gives every copy a file of its own.                             *)
THEOREM FilesAreOwned == Spec => []NoSharedFile
<1>1. IInv => NoSharedFile
  BY DEF IInv, Inv
<1>2. QED
  BY <1>1, Invariance, PTL

(* store.update replaces and never inserts, and ids are not drawn twice:   *)
(* no stale copy brings a deleted attachment back.                         *)
THEOREM NoResurrection == Spec => DeletedStaysDeleted
<1> DEFINE Stays == \A id \in used : ~Stored(id) => records'[id] = NoRecord
<1>1. IInv /\ [Next]_vars => [Stays]_vars
  <2> SUFFICES ASSUME IInv, Next, NEW id \in used, ~Stored(id)
               PROVE  records'[id] = NoRecord
    OBVIOUS
  <2>1. TypeOK /\ id \in Ids /\ records[id] = NoRecord
    BY DEF IInv, TypeOK, Stored
  <2>2. ASSUME NEW c \in Calls, NEW other \in Ids, CreateRecord(c, other)
        PROVE  records'[id] = NoRecord
    BY <2>1, <2>2 DEF CreateRecord, TypeOK
  <2>3. ASSUME NEW c \in Calls, Update(c) PROVE records'[id] = NoRecord
    BY <2>1, <2>3 DEF Update, TypeOK
  <2>4. ASSUME NEW c \in Calls, DeleteRecord(c) PROVE records'[id] = NoRecord
    BY <2>1, <2>4 DEF DeleteRecord, TypeOK
  <2>5. CASE UNCHANGED records
    BY <2>1, <2>5
  <2>6. ASSUME NEW c \in Calls, NEW other \in Ids,
               StartDownload(c, other) \/ StartDelete(c, other) \/ Sweep(c, other)
        PROVE  UNCHANGED records
    BY <2>6 DEF StartDownload, StartDelete, Sweep
  <2>7. ASSUME NEW c \in Calls, NEW other \in Ids, NEW container \in Containers,
               StartCopy(c, other, container) \/ StartAttach(c, other, container)
        PROVE  UNCHANGED records
    BY <2>7 DEF StartCopy, StartAttach
  <2>8. ASSUME NEW c \in Calls, NEW key \in Keys, NEW container \in Containers \cup {None},
               Upload(c, key, container) \/ CopyFile(c, key)
        PROVE  UNCHANGED records
    BY <2>8 DEF Upload, CopyFile
  <2>9. ASSUME NEW c \in Calls,
               Fill(c) \/ ReadFile(c) \/ Unlink(c) \/ StartCleanup(c) \/ Drop(c)
        PROVE  UNCHANGED records
    BY <2>9 DEF Fill, ReadFile, Unlink, StartCleanup, Drop
  <2>10. ASSUME NEW other \in Ids, GrowOld(other)
         PROVE  UNCHANGED records
    BY <2>10 DEF GrowOld
  <2>11. QED
    BY <2>2, <2>3, <2>4, <2>5, <2>6, <2>7, <2>8, <2>9, <2>10 DEF Next
<1>2. QED
  BY <1>1, Invariance, PTL DEF Spec, DeletedStaysDeleted
=============================================================================
