----------------------- MODULE WorkPackageServiceProofs ----------------------
(***************************************************************************)
(* Proofs about WorkPackageService: for any clients and any number of work *)
(* packages, the service implements the same LinkedStore as the table,     *)
(* where its callers keep their updates apart.                             *)
(***************************************************************************)
EXTENDS WorkPackageService, TLAPS

TypeOK ==
  /\ rows \in [Ids -> Row \cup {NoRow}]
  /\ next_id \in 1 .. (MaxRows + 1)
  /\ pc \in [Clients -> {"idle", "inserting", "updating"}]
  /\ copy \in [Clients -> Entity \cup {NoEntity}]
  /\ seen \in [Clients -> Entity \cup {NoEntity}]

(* What is stored has an id that was drawn.                                *)
StoredDrawn == \A id \in Ids : Stored(id) => id < next_id

(* A create between its two steps has an id of its own, drawn and unused.  *)
Inserting(c) == pc[c] = "inserting"
InsertsDrawn ==
  \A c \in Clients : Inserting(c) =>
    /\ copy[c] \in Entity /\ copy[c].id < next_id /\ ~Stored(copy[c].id)
    /\ copy[c].row.lock_version = 0
InsertsOwn ==
  \A c, d \in Clients : Inserting(c) /\ Inserting(d) /\ copy[c].id = copy[d].id => c = d

(* Nobody looked at a work package that is not there, or at a version that *)
(* is yet to be written.                                                   *)
SeenWas ==
  \A c \in Clients : seen[c] # NoEntity =>
    /\ Stored(seen[c].id)
    /\ seen[c].row.lock_version <= rows[seen[c].id].lock_version

(* An update between its two steps is the only one, so the version it      *)
(* compared is still stored.                                               *)
Updating(c) == pc[c] = "updating"
OneUpdates == \A c, d \in Clients : Updating(c) /\ Updating(d) => c = d
UpdatesCurrent ==
  \A c \in Clients : Updating(c) =>
    /\ copy[c] \in Entity /\ seen[c] # NoEntity /\ copy[c].id = seen[c].id
    /\ rows[seen[c].id].lock_version = seen[c].row.lock_version
    /\ copy[c].row.lock_version = seen[c].row.lock_version + 1

Opened == TypeOK /\ StoredDrawn /\ InsertsDrawn /\ InsertsOwn
IInv == Opened /\ SeenWas /\ OneUpdates /\ UpdatesCurrent

LEMMA NoneStored ==
  /\ NoRow \notin Row /\ NoEntity \notin Entity
  /\ Ids \subseteq Nat \ {0}
BY WorkPackageServiceAssumption DEF NoRow, Row, NoEntity, Entity, Ids

LEMMA InitHolds == Init => IInv
BY NoneStored, WorkPackageServiceAssumption
   DEF Init, IInv, Opened, TypeOK, StoredDrawn, InsertsDrawn, InsertsOwn, SeenWas, OneUpdates,
       UpdatesCurrent, Stored, Inserting, Updating

-----------------------------------------------------------------------------
LEMMA DrawIdKeeps ==
  ASSUME IInv, NEW c \in Clients, NEW input \in Input, DrawId(c, input)
  PROVE  IInv'
<1> DEFINE new == [id |-> next_id, row |-> [subject |-> input.subject,
                                            assignee |-> input.assignee, lock_version |-> 0]]
<1>1. /\ pc[c] = "idle" /\ next_id \in Ids /\ next_id \in Nat /\ input.subject # Blank
      /\ next_id' = next_id + 1
      /\ pc' = [pc EXCEPT ![c] = "inserting"] /\ copy' = [copy EXCEPT ![c] = new]
      /\ UNCHANGED <<rows, seen>>
  BY WorkPackageServiceAssumption DEF DrawId, IInv, Opened, TypeOK, Ids
<1>2. new \in Entity /\ new.id = next_id /\ new.row.lock_version = 0
  BY <1>1 DEF Entity, Row, Input
<1> HIDE DEF new
<1>3. TypeOK'
  BY <1>1, <1>2, WorkPackageServiceAssumption DEF IInv, Opened, TypeOK, Ids
<1>4. \A d \in Clients \ {c} : pc'[d] = pc[d] /\ copy'[d] = copy[d]
  BY <1>1 DEF IInv, Opened, TypeOK
<1>5. pc'[c] = "inserting" /\ copy'[c] = new
  BY <1>1 DEF IInv, Opened, TypeOK
<1>6. \A id \in Ids : (Stored(id)' <=> Stored(id)) /\ id \in Nat
  BY <1>1, NoneStored DEF Stored
<1>7. ~Stored(next_id) /\ StoredDrawn'
  BY <1>1, <1>6, NoneStored DEF IInv, Opened, StoredDrawn
<1>8. \A d \in Clients \ {c} : Inserting(d) => copy[d] \in Entity /\ copy[d].id \in Nat
                                               /\ copy[d].id < next_id
  BY NoneStored DEF IInv, Opened, InsertsDrawn, Entity
<1>9. InsertsDrawn' /\ InsertsOwn'
  BY <1>1, <1>2, <1>4, <1>5, <1>6, <1>7, <1>8
     DEF IInv, Opened, InsertsDrawn, InsertsOwn, Inserting, Stored
<1>10. SeenWas' /\ OneUpdates' /\ UpdatesCurrent'
  BY <1>1, <1>4, <1>5 DEF IInv, SeenWas, OneUpdates, UpdatesCurrent, Updating, Stored
<1>11. QED
  BY <1>3, <1>7, <1>9, <1>10 DEF IInv, Opened

LEMMA PushKeeps ==
  ASSUME IInv, NEW c \in Clients, Push(c)
  PROVE  IInv'
<1> DEFINE i == copy[c].id
<1>1. /\ Inserting(c) /\ copy[c] \in Entity /\ i \in Ids /\ i < next_id /\ ~Stored(i)
      /\ copy[c].row \in Row /\ copy[c].row # NoRow
      /\ rows' = [rows EXCEPT ![i] = copy[c].row]
      /\ pc' = [pc EXCEPT ![c] = "idle"] /\ copy' = [copy EXCEPT ![c] = NoEntity]
      /\ UNCHANGED <<next_id, seen>>
  BY NoneStored DEF Push, Inserting, IInv, Opened, InsertsDrawn, Entity
<1>2. TypeOK'
  BY <1>1 DEF IInv, Opened, TypeOK
<1>3. /\ \A d \in Clients \ {c} : pc'[d] = pc[d] /\ copy'[d] = copy[d]
      /\ pc'[c] = "idle" /\ rows'[i] = copy[c].row
      /\ \A k \in Ids \ {i} : rows'[k] = rows[k]
  BY <1>1 DEF IInv, Opened, TypeOK
<1>4. StoredDrawn'
  BY <1>1, <1>3 DEF IInv, Opened, StoredDrawn, Stored
<1>5. \A d \in Clients \ {c} : Inserting(d) => copy[d].id # i /\ copy[d].id \in Ids
  BY <1>1 DEF IInv, Opened, InsertsOwn, InsertsDrawn, Entity
<1>6. InsertsDrawn' /\ InsertsOwn'
  BY <1>1, <1>3, <1>5 DEF IInv, Opened, InsertsDrawn, InsertsOwn, Inserting, Stored
<1>7. \A d \in Clients : seen[d] # NoEntity => seen[d].id # i /\ seen[d].id \in Ids
  BY <1>1 DEF IInv, Opened, TypeOK, SeenWas, Entity
<1>8. SeenWas' /\ OneUpdates' /\ UpdatesCurrent'
  BY <1>1, <1>3, <1>7 DEF IInv, SeenWas, OneUpdates, UpdatesCurrent, Updating, Stored
<1>9. QED
  BY <1>2, <1>4, <1>6, <1>8 DEF IInv, Opened

LEMMA FindKeeps ==
  ASSUME IInv, NEW c \in Clients, NEW id \in Ids, Find(c, id)
  PROVE  IInv'
<1> DEFINE new == [id |-> id, row |-> rows[id]]
<1>1. /\ pc[c] = "idle" /\ Stored(id) /\ rows[id] \in Row /\ new \in Entity
      /\ seen' = [seen EXCEPT ![c] = new] /\ UNCHANGED <<rows, next_id, pc, copy>>
  BY DEF Find, IInv, Opened, TypeOK, Stored, Entity
<1>2. /\ new.id = id /\ new.row = rows[id] /\ new.row.lock_version \in Nat
  BY <1>1 DEF Row
<1> HIDE DEF new
<1>3. seen'[c] = new /\ \A d \in Clients \ {c} : seen'[d] = seen[d]
  BY <1>1 DEF IInv, Opened, TypeOK
<1>4. Opened'
  BY <1>1 DEF IInv, Opened, TypeOK, StoredDrawn, InsertsDrawn, InsertsOwn, Inserting, Stored
<1>5. SeenWas' /\ OneUpdates' /\ UpdatesCurrent'
  BY <1>1, <1>2, <1>3 DEF IInv, SeenWas, OneUpdates, UpdatesCurrent, Updating, Stored
<1>6. QED
  BY <1>4, <1>5 DEF IInv

LEMMA ReadForUpdateKeeps ==
  ASSUME IInv, Serial, NEW c \in Clients, NEW changes \in Changes, ReadForUpdate(c, changes)
  PROVE  IInv'
<1> DEFINE i == seen[c].id
           patched == ApplyTo(rows[i], changes)
           new == [id |-> i, row |-> Bumped(patched)]
<1>1. /\ pc[c] = "idle" /\ seen[c] # NoEntity /\ \A d \in Clients : ~Updating(d)
      /\ rows[i].lock_version = seen[c].row.lock_version /\ patched.subject # Blank
      /\ pc' = [pc EXCEPT ![c] = "updating"] /\ copy' = [copy EXCEPT ![c] = new]
      /\ UNCHANGED <<rows, next_id, seen>>
  BY DEF ReadForUpdate, Updating
<1>2. i \in Ids /\ rows[i] \in Row
  BY <1>1 DEF IInv, Opened, TypeOK, SeenWas, Entity, Stored
<1>3. patched \in Row /\ patched.lock_version = rows[i].lock_version
  BY <1>1, <1>2, WorkPackageServiceAssumption DEF ApplyTo, Or, Row, Changes
<1> HIDE DEF patched
<1>4. Bumped(patched) \in Row /\ Bumped(patched).lock_version = rows[i].lock_version + 1
  BY <1>3 DEF Bumped, Row
<1>5. new \in Entity /\ new.id = i /\ new.row.lock_version = rows[i].lock_version + 1
  BY <1>2, <1>4 DEF Entity
<1> HIDE DEF new
<1>6. TypeOK'
  BY <1>1, <1>5 DEF IInv, Opened, TypeOK
<1>7. /\ \A d \in Clients \ {c} : pc'[d] = pc[d] /\ copy'[d] = copy[d]
      /\ pc'[c] = "updating" /\ copy'[c] = new
  BY <1>1 DEF IInv, Opened, TypeOK
<1>8. StoredDrawn' /\ InsertsDrawn' /\ InsertsOwn'
  BY <1>1, <1>7 DEF IInv, Opened, StoredDrawn, InsertsDrawn, InsertsOwn, Inserting, Stored
<1>9. SeenWas' /\ OneUpdates' /\ UpdatesCurrent'
  BY <1>1, <1>5, <1>7 DEF IInv, SeenWas, OneUpdates, UpdatesCurrent, Updating, Stored
<1>10. QED
  BY <1>6, <1>8, <1>9 DEF IInv, Opened

LEMMA ReplaceKnown ==
  ASSUME IInv, NEW c \in Clients, Replace(c)
  PROVE  /\ copy[c].id \in Ids /\ copy[c].id = seen[c].id /\ seen[c] # NoEntity
         /\ Stored(copy[c].id) /\ copy[c].row \in Row
         /\ rows[copy[c].id] \in Row /\ rows[copy[c].id].lock_version \in Nat
         /\ rows[copy[c].id].lock_version = seen[c].row.lock_version
         /\ rows'[copy[c].id] = copy[c].row
         /\ copy[c].row.lock_version = rows[copy[c].id].lock_version + 1
         /\ \A k \in Ids : k # copy[c].id => rows'[k] = rows[k]
         /\ UNCHANGED <<next_id, seen>>
<1>1. Updating(c)
  BY DEF Replace, Updating
<1>2. copy[c].id \in Ids /\ copy[c].row \in Row
  BY <1>1 DEF IInv, UpdatesCurrent, Entity
<1>3. Stored(copy[c].id) /\ rows[copy[c].id] \in Row
  BY <1>1, <1>2 DEF IInv, Opened, TypeOK, UpdatesCurrent, SeenWas, Stored
<1>4. QED
  BY <1>1, <1>2, <1>3 DEF Replace, IInv, Opened, TypeOK, UpdatesCurrent, Row

LEMMA ReplaceKeeps ==
  ASSUME IInv, NEW c \in Clients, Replace(c)
  PROVE  IInv'
<1> DEFINE i == copy[c].id
<1>1. /\ Updating(c)
      /\ pc' = [pc EXCEPT ![c] = "idle"] /\ copy' = [copy EXCEPT ![c] = NoEntity]
      /\ rows' = [rows EXCEPT ![i] = copy[c].row]
  BY DEF Replace, Updating
<1>2. TypeOK'
  BY <1>1, ReplaceKnown DEF IInv, Opened, TypeOK
<1>3. /\ \A d \in Clients \ {c} : pc'[d] = pc[d] /\ copy'[d] = copy[d]
      /\ pc'[c] = "idle"
  BY <1>1 DEF IInv, Opened, TypeOK
<1>4. \A k \in Ids : Stored(k)' <=> Stored(k)
  BY ReplaceKnown, NoneStored DEF Stored
<1>5. StoredDrawn' /\ InsertsDrawn' /\ InsertsOwn'
  <2>1. \A d \in Clients : Inserting(d) => copy[d].id \in Ids
    BY DEF IInv, Opened, InsertsDrawn, Entity
  <2>2. \A d \in Clients : Inserting(d)' => d # c /\ Inserting(d)
    BY <1>3 DEF Inserting
  <2>3. QED
    BY <1>3, <1>4, <2>1, <2>2, ReplaceKnown
       DEF IInv, Opened, StoredDrawn, InsertsDrawn, InsertsOwn
<1>6. SeenWas'
  <2>1. \A d \in Clients : seen[d] # NoEntity => /\ seen[d].id \in Ids
                                                 /\ seen[d].row.lock_version \in Nat
    BY DEF IInv, Opened, TypeOK, Entity, Row
  <2>2. QED
    BY <1>4, <2>1, ReplaceKnown DEF IInv, SeenWas
<1>7. OneUpdates' /\ UpdatesCurrent'
  BY <1>1, <1>3 DEF IInv, OneUpdates, UpdatesCurrent, Updating
<1>8. QED
  BY <1>2, <1>5, <1>6, <1>7 DEF IInv, Opened

LEMMA NextKeeps ==
  ASSUME IInv, Serial, [Next]_vars
  PROVE  IInv'
<1>1. CASE UNCHANGED vars
  BY <1>1 DEF vars, IInv, Opened, TypeOK, StoredDrawn, InsertsDrawn, InsertsOwn, SeenWas,
              OneUpdates, UpdatesCurrent, Stored, Inserting, Updating
<1>2. CASE Next
  BY <1>2, DrawIdKeeps, PushKeeps, FindKeeps, ReadForUpdateKeeps, ReplaceKeeps DEF Next
<1>3. QED
  BY <1>1, <1>2

(* Where updates do not overlap, whatever a call has read between its two  *)
(* steps is still so at the second.                                        *)
THEOREM SerialInvariance == Serial => (Spec => []IInv)
<1> SUFFICES ASSUME Serial PROVE Spec => []IInv
  OBVIOUS
<1>1. IInv /\ [Next]_vars => IInv'
  BY NextKeeps
<1>2. QED
  BY <1>1, InitHolds, PTL DEF Spec

-----------------------------------------------------------------------------
(***************************************************************************)
(* The refinement.                                                         *)
(***************************************************************************)
Contents == [subject : Subjects, assignee : Users \cup {None}]
Value == [id \in Ids |-> Content(id)]
Links == {l \in Clients \X Ids : Current(l[1], l[2])}
Fresh == {id \in Ids : Stored(id) /\ rows[id].lock_version = 0}

LEMMA ContentKnown ==
  ASSUME TypeOK, NEW id \in Ids, Stored(id)
  PROVE  Content(id) \in Contents
BY DEF Content, Contents, TypeOK, Stored, Row

LEMMA NothingChanged ==
  ASSUME UNCHANGED <<rows, seen>>
  PROVE  UNCHANGED <<Value, Links, Fresh>>
<1>1. \A id \in Ids : Content(id)' = Content(id) /\ (Stored(id)' <=> Stored(id))
  BY DEF Content, Stored
<1>2. \A c \in Clients, id \in Ids : Current(c, id)' <=> Current(c, id)
  BY DEF Current
<1>3. QED
  BY <1>1, <1>2 DEF Value, Links, Fresh

LEMMA InitRefines == Init => Linked!Init
<1> SUFFICES ASSUME Init PROVE Linked!Init
  OBVIOUS
<1>1. \A id \in Ids : ~Stored(id) /\ Content(id) = Missing("unused")
  BY DEF Init, Content, Stored
<1>2. \A l \in Clients \X Ids : ~Current(l[1], l[2])
  BY NoneStored DEF Init, Current, NoEntity
<1>3. Fresh = {}
  BY <1>1 DEF Fresh
<1>4. QED
  BY <1>1, <1>2, <1>3 DEF Linked!Init, Fresh

\* The row appears in one step: a Create.
LEMMA PushRefines ==
  ASSUME IInv, IInv', NEW c \in Clients, Push(c)
  PROVE  Linked!Next
<1>1. PICK i \in Ids : /\ i = copy[c].id /\ ~Stored(i) /\ copy[c].row \in Row
                       /\ copy[c].row.lock_version = 0
                       /\ rows' = [rows EXCEPT ![i] = copy[c].row]
                       /\ UNCHANGED seen
  <2>1. /\ copy[c] \in Entity /\ ~Stored(copy[c].id) /\ copy[c].row.lock_version = 0
        /\ rows' = [rows EXCEPT ![copy[c].id] = copy[c].row] /\ UNCHANGED seen
    BY DEF Push, Inserting, IInv, Opened, InsertsDrawn
  <2>2. copy[c].id \in Ids /\ copy[c].row \in Row
    BY <2>1 DEF Entity
  <2>3. QED
    BY <2>1, <2>2
<1>2. /\ Stored(i)' /\ rows'[i] \in Row /\ rows'[i].lock_version = 0
      /\ \A k \in Ids \ {i} : rows'[k] = rows[k]
  <2>1. rows'[i] = copy[c].row /\ \A k \in Ids \ {i} : rows'[k] = rows[k]
    BY <1>1 DEF IInv, Opened, TypeOK
  <2>2. QED
    BY <1>1, <2>1, NoneStored DEF Stored
<1>3. PICK x \in Contents : x = Content(i)'
  <2>1. Content(i)' = [subject |-> rows'[i].subject, assignee |-> rows'[i].assignee]
    BY <1>2 DEF Content
  <2>2. Content(i)' \in Contents
    BY <1>2, <2>1 DEF Contents, Row
  <2>3. QED
    BY <2>2
<1>4. Content(i) = Missing("unused")
  BY <1>1 DEF Content
<1>5. Value' = [Value EXCEPT ![i] = x]
  BY <1>1, <1>2, <1>3 DEF Value, Content, Stored
<1>6. Fresh' = Fresh \cup {i}
  BY <1>1, <1>2 DEF Fresh, Stored
<1>7. Links' = Links
  <2>1. \A d \in Clients : seen[d].id # i
    BY <1>1, NoneStored DEF IInv, SeenWas, NoEntity
  <2>2. \A d \in Clients, k \in Ids : Current(d, k)' <=> Current(d, k)
    BY <1>1, <1>2, <2>1 DEF Current
  <2>3. QED
    BY <2>2 DEF Links
<1>8. Linked!Create(i, x)
  BY <1>4, <1>5, <1>6, <1>7 DEF Linked!Create, Value, Links, Fresh
<1>9. QED
  BY <1>8 DEF Linked!Next, Contents

\* A look links the client to what it looked at, and to nothing else.
LEMMA FindRefines ==
  ASSUME IInv, NEW c \in Clients, NEW id \in Ids, Find(c, id)
  PROVE  Linked!Next
<1>1. /\ Stored(id) /\ UNCHANGED rows
      /\ seen'[c].id = id /\ seen'[c].row = rows[id]
      /\ \A d \in Clients \ {c} : seen'[d] = seen[d]
  BY DEF Find, IInv, Opened, TypeOK
<1>2. Value' = Value /\ Fresh' = Fresh
  BY <1>1 DEF Value, Fresh, Content, Stored
<1>3. /\ \A d \in Clients \ {c}, k \in Ids : Current(d, k)' <=> Current(d, k)
      /\ \A k \in Ids : Current(c, k)' <=> k = id
  BY <1>1 DEF Current
<1>4. Links' = {l \in Links : l[1] # c} \cup {<<c, id>>}
  BY <1>3 DEF Links
<1>5. Value[id] \in Contents
  BY <1>1, ContentKnown DEF Value, IInv, Opened
<1>6. Linked!Link(c, id)
  BY <1>2, <1>4, <1>5 DEF Linked!Link, Value, Links, Fresh, Contents
<1>7. QED
  BY <1>6 DEF Linked!Next

\* A replacement is a Store: its client is linked, and every link breaks.
LEMMA ReplaceRefines ==
  ASSUME IInv, IInv', NEW c \in Clients, Replace(c)
  PROVE  Linked!Next
<1>1. PICK i \in Ids :
        /\ i = seen[c].id /\ Stored(i) /\ rows[i].lock_version = seen[c].row.lock_version
        /\ rows[i].lock_version \in Nat /\ rows'[i] \in Row
        /\ rows'[i].lock_version = rows[i].lock_version + 1
        /\ \A k \in Ids \ {i} : rows'[k] = rows[k]
        /\ UNCHANGED seen
  BY ReplaceKnown
<1>2. PICK x \in Contents : x = Content(i)'
  BY <1>1, NoneStored DEF Content, Contents, Stored, Row
<1>3. Value' = [Value EXCEPT ![i] = x]
  BY <1>1, <1>2 DEF Value, Content, Stored
<1>4. Fresh' = Fresh \ {i}
  BY <1>1 DEF Fresh, Stored
<1>5. Links' = {l \in Links : l[2] # i}
  <2>1. ASSUME NEW d \in Clients PROVE ~Current(d, i)'
    <3>1. CASE seen[d].id # i
      BY <1>1, <3>1 DEF Current
    <3>2. CASE seen[d].id = i
      <4>1. seen[d] # NoEntity
        BY <3>2, NoneStored DEF NoEntity
      <4>2. seen[d].row.lock_version \in Nat
            /\ seen[d].row.lock_version <= rows[i].lock_version
        BY <3>2, <4>1 DEF IInv, Opened, TypeOK, SeenWas, Entity, Row
      <4>3. QED
        BY <1>1, <4>2 DEF Current
    <3>3. QED
      BY <3>1, <3>2
  <2>2. \A d \in Clients, k \in Ids \ {i} : Current(d, k)' <=> Current(d, k)
    BY <1>1 DEF Current
  <2>3. QED
    BY <2>1, <2>2 DEF Links
<1>6. <<c, i>> \in Links
  BY <1>1 DEF Links, Current
<1>7. Linked!Store(c, i, x)
  BY <1>3, <1>4, <1>5, <1>6 DEF Linked!Store, Linked!Becomes, Value, Links, Fresh
<1>8. QED
  BY <1>7 DEF Linked!Next, Contents

LEMMA StepRefines ==
  ASSUME IInv, IInv', [Next]_vars
  PROVE  [Linked!Next]_<<Value, Links, Fresh>>
<1>1. CASE UNCHANGED vars
  BY <1>1, NothingChanged DEF vars
<1>2. CASE \E c \in Clients : \/ \E input \in Input : DrawId(c, input)
                              \/ \E changes \in Changes : ReadForUpdate(c, changes)
  BY <1>2, NothingChanged DEF DrawId, ReadForUpdate
<1>3. CASE \E c \in Clients : Push(c) \/ (\E id \in Ids : Find(c, id)) \/ Replace(c)
  BY <1>3, PushRefines, FindRefines, ReplaceRefines
<1>4. QED
  BY <1>1, <1>2, <1>3 DEF Next

(* Where no two updates overlap, the service loses no update: it is a      *)
(* LinkedStore without blind writes, although it replaces a row without    *)
(* looking at it again.                                                    *)
THEOREM SerialLosesNoUpdate == Serial => (Spec => ImplementsLinkedStore)
<1> SUFFICES ASSUME Serial PROVE Spec => ImplementsLinkedStore
  OBVIOUS
<1>1. Init => Linked!Init
  BY InitRefines
<1>2. IInv /\ IInv' /\ [Next]_vars
        => [Linked!Next]_<<[id \in Ids |-> Content(id)],
                           {l \in Clients \X Ids : Current(l[1], l[2])},
                           {id \in Ids : Stored(id) /\ rows[id].lock_version = 0}>>
  BY StepRefines DEF Value, Links, Fresh
<1>3. Spec => []IInv
  BY SerialInvariance
<1>4. QED
  BY <1>1, <1>2, <1>3, PTL DEF Spec, ImplementsLinkedStore, Linked!Spec

=============================================================================
