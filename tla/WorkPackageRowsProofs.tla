----------------------- MODULE WorkPackageRowsProofs -----------------------
(***************************************************************************)
(* Proofs about WorkPackageRows, for any number of rows and clients, any   *)
(* of them careless about lock_version.                                    *)
(***************************************************************************)
EXTENDS WorkPackageRows, TLAPS

(* A row somebody has in front of him has been created.                    *)
PagesAreUsed ==
  /\ \A id \in Ids \ used : ~Stored(id)
  /\ \A c \in Clients : page[c].id \in Ids => page[c].id \in used

(* What a POST between its two statements has gathered.                    *)
SavingKnows ==
  \A c \in Clients : pc[c] = "saving" =>
    /\ page[c].id \in Ids
    /\ form[c] \in Form
    /\ existing[c] \in Row
    /\ page[c].row.lock_version <= existing[c].lock_version

(* The inductive invariant.                                                *)
IInv == TypeOK /\ PagesAreUsed /\ SavingKnows /\ VersionNamesContent

-----------------------------------------------------------------------------
LEMMA RowIsNotNoRow == \A row \in Row : row # NoRow
  BY WorkPackageRowsAssumption DEF Row, NoRow

LEMMA NoPageIsNoRowsPage == NoPage.id \notin Ids
  BY WorkPackageRowsAssumption DEF NoPage

LEMMA StoredRow ==
  ASSUME TypeOK, NEW id \in Ids, Stored(id)
  PROVE  rows[id] \in Row /\ rows[id].lock_version \in Nat
  BY DEF TypeOK, Stored, Row

LEMMA PageRow ==
  ASSUME TypeOK, NEW c \in Clients, page[c].id \in Ids
  PROVE  page[c].row \in Row /\ page[c].row.lock_version \in Nat
<1>1. page[c] # NoPage
  BY NoPageIsNoRowsPage
<1>2. page[c] \in [id : Ids, row : Row]
  BY <1>1 DEF TypeOK
<1>3. QED
  BY <1>2 DEF Row

LEMMA CopiesAreRows ==
  ASSUME TypeOK, SavingKnows, NEW id \in Ids, NEW copy \in Copies(id)
  PROVE  copy \in Row /\ copy.lock_version \in Nat
<1>1. PICK c \in Clients : /\ page[c].id = id
                           /\ copy = page[c].row \/ (pc[c] = "saving" /\ copy = existing[c])
  BY DEF Copies
<1>2. QED
  BY <1>1, PageRow DEF SavingKnows, Row

\* A step that copies only stored rows, and changes a row only to a newer
\* version, keeps VersionNamesContent.
LEMMA NamesStep ==
  ASSUME TypeOK, TypeOK', SavingKnows, VersionNamesContent,
         \A id \in Ids : \A copy \in Copies(id)' :
           copy \in Copies(id) \/ (Stored(id) /\ copy = rows[id]),
         \A id \in Ids :
           \/ rows'[id] = rows[id]
           \/ ~Stored(id)'
           \/ Stored(id) /\ rows'[id].lock_version = rows[id].lock_version + 1
           \/ Copies(id)' = {}
  PROVE  VersionNamesContent'
<1> SUFFICES ASSUME NEW id \in Ids, NEW copy \in Copies(id)'
             PROVE  /\ Stored(id)' => /\ copy.lock_version <= rows'[id].lock_version
                                      /\ copy.lock_version = rows'[id].lock_version
                                           => copy = rows'[id]
                    /\ \A other \in Copies(id)' :
                         copy.lock_version = other.lock_version => copy = other
  BY DEF VersionNamesContent
<1>1. \A r \in Copies(id)' : r \in Row /\ r.lock_version \in Nat
  BY CopiesAreRows, StoredRow
<1>2. \A r \in Copies(id)' :
        Stored(id) => /\ r.lock_version <= rows[id].lock_version
                      /\ r.lock_version = rows[id].lock_version => r = rows[id]
  BY StoredRow DEF VersionNamesContent
<1>3. \A r, s \in Copies(id)' : r.lock_version = s.lock_version => r = s
  BY <1>2 DEF VersionNamesContent
<1>4. ASSUME Stored(id)'
      PROVE  /\ copy.lock_version <= rows'[id].lock_version
             /\ copy.lock_version = rows'[id].lock_version => copy = rows'[id]
  <2>1. CASE rows'[id] = rows[id]
    BY <1>2, <1>4, <2>1 DEF Stored
  <2>2. CASE Stored(id) /\ rows'[id].lock_version = rows[id].lock_version + 1
    BY <1>1, <1>2, <2>2, StoredRow
  <2>3. QED
    BY <1>4, <2>1, <2>2
<1>5. QED
  BY <1>3, <1>4

\* Both outcomes of the repository's UPDATE.
Dto == [status : Statuses \cup {None}, assignee : Users \cup {None},
        parent : Parents \cup {None}, lock_version : Nat]

LEMMA UpdateOutcome ==
  ASSUME TypeOK, NEW id \in Ids, NEW dto \in Dto, Update(id, dto)
  PROVE  /\ rows' \in [Ids -> Row \cup {NoRow}]
         /\ \A k \in Ids : Stored(k)' <=> Stored(k)
         /\ \A k \in Ids : k # id => rows'[k] = rows[k]
         /\ rows'[id] # rows[id] =>
              /\ Stored(id) /\ rows[id].lock_version = dto.lock_version
              /\ rows'[id].lock_version = rows[id].lock_version + 1
              /\ rows'[id].parent = dto.parent
<1>1. CASE ~Matches(id, dto.lock_version) /\ UNCHANGED rows
  BY <1>1 DEF TypeOK, Stored
<1>2. CASE /\ Matches(id, dto.lock_version) /\ rows[id].lock_version < MaxVersion
           /\ rows' = [rows EXCEPT ![id] = Written(@, dto)]
  <2>1. Stored(id) /\ rows[id] \in Row /\ rows[id].lock_version = dto.lock_version
    BY <1>2, StoredRow DEF Matches
  <2>2. /\ Written(rows[id], dto) \in Row
        /\ Written(rows[id], dto).lock_version = rows[id].lock_version + 1
        /\ Written(rows[id], dto).parent = dto.parent
    BY <2>1 DEF Written, Coalesce, Row, Dto
  <2>3. /\ rows'[id] = Written(rows[id], dto)
        /\ \A k \in Ids : k # id => rows'[k] = rows[k]
    BY <1>2 DEF TypeOK
  <2>4. rows' \in [Ids -> Row \cup {NoRow}]
    BY <1>2, <2>2 DEF TypeOK
  <2>5. QED
    BY <2>1, <2>2, <2>3, <2>4, RowIsNotNoRow DEF Stored
<1>3. QED
  BY <1>1, <1>2 DEF Update

\* A step that only runs the UPDATE.
LEMMA UpdateIInv ==
  ASSUME IInv, NEW id \in Ids, NEW dto \in Dto, Update(id, dto),
         UNCHANGED <<used, page, request>>
  PROVE  IInv'
<1>1. TypeOK'
  BY UpdateOutcome DEF IInv, TypeOK, request
<1>2. PagesAreUsed' /\ SavingKnows'
  BY UpdateOutcome DEF IInv, PagesAreUsed, SavingKnows, request
<1>3. \A k \in Ids : Copies(k)' = Copies(k)
  BY DEF Copies, request
<1>4. \A k \in Ids :
        \/ rows'[k] = rows[k]
        \/ Stored(k) /\ rows'[k].lock_version = rows[k].lock_version + 1
  BY UpdateOutcome DEF IInv
<1>5. VersionNamesContent'
  BY <1>1, <1>3, <1>4, NamesStep DEF IInv
<1>6. QED
  BY <1>1, <1>2, <1>5 DEF IInv

LEMMA CreateIInv ==
  ASSUME IInv, NEW id \in Ids, NEW row \in NewRow, Create(id, row)
  PROVE  IInv'
<1>1. row \in Row
  BY DEF NewRow, Row
<1>2. /\ id \notin used /\ id \in used' /\ used' \in SUBSET Ids /\ used \subseteq used'
      /\ rows' \in [Ids -> Row \cup {NoRow}]
      /\ \A k \in Ids : k # id => rows'[k] = rows[k]
      /\ UNCHANGED <<page, pc, form, existing>>
  BY <1>1 DEF Create, IInv, TypeOK, request
<1>3. TypeOK'
  BY <1>2 DEF IInv, TypeOK
<1>4. PagesAreUsed' /\ SavingKnows'
  BY <1>2 DEF IInv, PagesAreUsed, SavingKnows, Stored
<1>5. \A k \in Ids : Copies(k)' = Copies(k)
  BY <1>2 DEF Copies
<1>6. Copies(id)' = {}
  BY <1>2, <1>5 DEF IInv, PagesAreUsed, Copies
<1>7. VersionNamesContent'
  BY <1>2, <1>3, <1>5, <1>6, NamesStep DEF IInv
<1>8. QED
  BY <1>3, <1>4, <1>7 DEF IInv

LEMMA DeleteIInv ==
  ASSUME IInv, NEW id \in Ids, Delete(id)
  PROVE  IInv'
<1>1. /\ rows' \in [Ids -> Row \cup {NoRow}] /\ rows'[id] = NoRow
      /\ \A k \in Ids : k # id => rows'[k] = rows[k]
      /\ UNCHANGED <<used, page, pc, form, existing>>
  BY DEF Delete, IInv, TypeOK, request
<1>2. TypeOK'
  BY <1>1 DEF IInv, TypeOK
<1>3. PagesAreUsed' /\ SavingKnows'
  BY <1>1 DEF IInv, PagesAreUsed, SavingKnows, Stored
<1>4. \A k \in Ids : Copies(k)' = Copies(k)
  BY <1>1 DEF Copies
<1>5. VersionNamesContent'
  BY <1>1, <1>2, <1>4, NamesStep DEF IInv, Stored
<1>6. QED
  BY <1>2, <1>3, <1>5 DEF IInv

LEMMA OpenIInv ==
  ASSUME IInv, NEW c \in Clients, NEW id \in Ids, Open(c, id)
  PROVE  IInv'
<1>1. rows[id] \in Row /\ id \in used
  BY StoredRow DEF Open, IInv, PagesAreUsed
<1>2. /\ pc[c] = "idle" /\ UNCHANGED <<rows, used, pc, form, existing>>
      /\ page' \in [Clients -> [id : Ids, row : Row] \cup {NoPage}]
      /\ page'[c] = [id |-> id, row |-> rows[id]]
      /\ \A d \in Clients : d # c => page'[d] = page[d]
  BY <1>1 DEF Open, IInv, TypeOK, request
<1>3. TypeOK'
  BY <1>2 DEF IInv, TypeOK
<1>4. PagesAreUsed' /\ SavingKnows'
  BY <1>1, <1>2 DEF IInv, PagesAreUsed, SavingKnows, Stored
<1>5. \A k \in Ids : \A copy \in Copies(k)' :
        copy \in Copies(k) \/ (Stored(k) /\ copy = rows[k])
  <2> SUFFICES ASSUME NEW k \in Ids, NEW copy \in Copies(k)'
               PROVE  copy \in Copies(k) \/ (Stored(k) /\ copy = rows[k])
    OBVIOUS
  <2>1. PICK d \in Clients :
          /\ page'[d].id = k
          /\ copy = page'[d].row \/ (pc'[d] = "saving" /\ copy = existing'[d])
    BY DEF Copies
  <2>2. CASE d = c
    BY <1>2, <2>1, <2>2 DEF Open
  <2>3. CASE d # c
    BY <1>2, <2>1, <2>3 DEF Copies
  <2>4. QED
    BY <2>2, <2>3
<1>6. VersionNamesContent'
  BY <1>2, <1>3, <1>5, NamesStep DEF IInv
<1>7. QED
  BY <1>3, <1>4, <1>6 DEF IInv

LEMMA FindExistingIInv ==
  ASSUME IInv, NEW c \in Clients, NEW posted \in Form, FindExisting(c, posted)
  PROVE  IInv'
<1>1. page[c].id \in Ids /\ Stored(page[c].id) /\ rows[page[c].id] \in Row
  BY StoredRow DEF FindExisting, IInv, TypeOK
<1>2. /\ UNCHANGED <<rows, used, page>>
      /\ pc' \in [Clients -> {"idle", "saving"}] /\ pc'[c] = "saving"
      /\ form' \in [Clients -> Form \cup {NoForm}] /\ form'[c] = posted
      /\ existing' \in [Clients -> Row \cup {NoRow}] /\ existing'[c] = rows[page[c].id]
      /\ \A d \in Clients : d # c =>
           pc'[d] = pc[d] /\ form'[d] = form[d] /\ existing'[d] = existing[d]
  BY <1>1 DEF FindExisting, IInv, TypeOK
<1>3. TypeOK'
  BY <1>2 DEF IInv, TypeOK
<1>4. page[c].row.lock_version <= rows[page[c].id].lock_version
  <2>1. page[c].row \in Copies(page[c].id)
    BY DEF Copies
  <2>2. QED
    BY <1>1, <2>1 DEF IInv, VersionNamesContent
<1>5. PagesAreUsed' /\ SavingKnows'
  BY <1>1, <1>2, <1>4 DEF IInv, PagesAreUsed, SavingKnows, Stored
<1>6. \A k \in Ids : \A copy \in Copies(k)' :
        copy \in Copies(k) \/ (Stored(k) /\ copy = rows[k])
  <2> SUFFICES ASSUME NEW k \in Ids, NEW copy \in Copies(k)'
               PROVE  copy \in Copies(k) \/ (Stored(k) /\ copy = rows[k])
    OBVIOUS
  <2>1. PICK d \in Clients :
          /\ page'[d].id = k
          /\ copy = page'[d].row \/ (pc'[d] = "saving" /\ copy = existing'[d])
    BY DEF Copies
  <2>2. CASE d = c
    BY <1>1, <1>2, <2>1, <2>2 DEF Copies
  <2>3. CASE d # c
    BY <1>2, <2>1, <2>3 DEF Copies
  <2>4. QED
    BY <2>2, <2>3
<1>7. VersionNamesContent'
  BY <1>2, <1>3, <1>6, NamesStep DEF IInv
<1>8. QED
  BY <1>3, <1>5, <1>7 DEF IInv

LEMMA InitIInv == Init => IInv
<1> SUFFICES ASSUME Init PROVE IInv
  OBVIOUS
<1> USE DEF Init
<1>1. TypeOK
  BY DEF TypeOK, Form
<1>2. \A c \in Clients : page[c].id \notin Ids
  BY NoPageIsNoRowsPage
<1>3. PagesAreUsed /\ SavingKnows /\ VersionNamesContent
  BY <1>2 DEF PagesAreUsed, SavingKnows, VersionNamesContent, Copies, Stored
<1>4. QED
  BY <1>1, <1>3 DEF IInv

\* The DTO the board writes is that of the posted form.
LEMMA FormDto ==
  ASSUME IInv, NEW c \in Clients, SaveForm(c)
  PROVE  /\ page[c].id \in Ids /\ page[c].row.lock_version \in Nat
         /\ existing[c] \in Row /\ existing[c] \in Copies(page[c].id)
         /\ ParseWpUpdate(c) \in Dto
         /\ ParseWpUpdate(c).parent = existing[c].parent
         /\ page[c].row.lock_version <= existing[c].lock_version
         /\ ParseWpUpdate(c).lock_version \in {page[c].row.lock_version, existing[c].lock_version}
<1>1. /\ page[c].id \in Ids /\ form[c] \in Form /\ existing[c] \in Row /\ pc[c] = "saving"
      /\ page[c].row.lock_version <= existing[c].lock_version
  BY DEF SaveForm, IInv, SavingKnows
<1>2. page[c].row.lock_version \in Nat
  BY <1>1, PageRow DEF IInv
<1>3. QED
  BY <1>1, <1>2 DEF ParseWpUpdate, Dto, Form, Row, Copies

LEMMA SaveFormIInv ==
  ASSUME IInv, NEW c \in Clients, SaveForm(c)
  PROVE  IInv'
<1> DEFINE dto == ParseWpUpdate(c)
<1>1. page[c].id \in Ids /\ dto \in Dto /\ Update(page[c].id, dto)
  BY FormDto DEF SaveForm
<1> HIDE DEF dto
<1>2. /\ rows' \in [Ids -> Row \cup {NoRow}]
      /\ \A k \in Ids : Stored(k)' <=> Stored(k)
      /\ \A k \in Ids :
           \/ rows'[k] = rows[k]
           \/ Stored(k) /\ rows'[k].lock_version = rows[k].lock_version + 1
  BY <1>1, UpdateOutcome DEF IInv
<1>3. /\ UNCHANGED <<used, page>>
      /\ pc' \in [Clients -> {"idle", "saving"}] /\ pc'[c] = "idle"
      /\ form' \in [Clients -> Form \cup {NoForm}]
      /\ existing' \in [Clients -> Row \cup {NoRow}]
      /\ \A d \in Clients : d # c =>
           pc'[d] = pc[d] /\ form'[d] = form[d] /\ existing'[d] = existing[d]
  BY DEF SaveForm, IInv, TypeOK
<1>4. TypeOK'
  BY <1>2, <1>3 DEF IInv, TypeOK
<1>5. PagesAreUsed' /\ SavingKnows'
  BY <1>2, <1>3 DEF IInv, PagesAreUsed, SavingKnows
<1>6. \A k \in Ids : Copies(k)' \subseteq Copies(k)
  BY <1>3 DEF Copies
<1>7. VersionNamesContent'
  BY <1>2, <1>4, <1>6, NamesStep DEF IInv
<1>8. QED
  BY <1>4, <1>5, <1>7 DEF IInv

LEMMA PatchDto ==
  ASSUME IInv, NEW c \in Clients, NEW id \in Ids, c \in Quoting => page[c].id = id,
         NEW status \in Statuses \cup {None}, NEW assignee \in Users \cup {None}
  PROVE  [status |-> status, assignee |-> assignee, parent |-> None,
          lock_version |-> QuotedByPatch(c)] \in Dto
<1>1. QuotedByPatch(c) \in Nat
  BY PageRow DEF QuotedByPatch, IInv
<1>2. QED
  BY <1>1 DEF Dto

LEMMA UpdateStatusDto ==
  ASSUME IInv, NEW c \in Clients, NEW id \in Ids, page[c].id = id, NEW status \in Statuses
  PROVE  [status |-> status, assignee |-> rows[id].assignee, parent |-> rows[id].parent,
          lock_version |-> page[c].row.lock_version] \in Dto
<1>1. page[c].row.lock_version \in Nat
  BY PageRow DEF IInv
<1>2. rows[id].assignee \in Users \cup {None} /\ rows[id].parent \in Parents \cup {None}
  BY DEF IInv, TypeOK, Row, NoRow
<1>3. QED
  BY <1>1, <1>2 DEF Dto

LEMMA NextIInv == IInv /\ [Next]_vars => IInv'
<1> SUFFICES ASSUME IInv, [Next]_vars PROVE IInv'
  OBVIOUS
<1>1. ASSUME NEW id \in Ids, (\E row \in NewRow : Create(id, row)) \/ Delete(id)
      PROVE  IInv'
  BY <1>1, CreateIInv, DeleteIInv
<1>2. ASSUME NEW c \in Clients, NEW id \in Ids, Open(c, id)
      PROVE  IInv'
  BY <1>2, OpenIInv
<1>3. ASSUME NEW c \in Clients, NEW id \in Ids, NEW status \in Statuses \cup {None},
             NEW assignee \in Users \cup {None}, Patch(c, id, status, assignee)
      PROVE  IInv'
  BY <1>3, PatchDto, UpdateIInv DEF Patch
<1>4. ASSUME NEW c \in Clients, NEW id \in Ids, NEW status \in Statuses,
             UpdateStatus(c, id, status)
      PROVE  IInv'
  BY <1>4, UpdateStatusDto, UpdateIInv DEF UpdateStatus
<1>5. ASSUME NEW c \in Clients, SaveForm(c) \/ \E posted \in Form : FindExisting(c, posted)
      PROVE  IInv'
  BY <1>5, SaveFormIInv, FindExistingIInv
<1>6. CASE UNCHANGED vars
  BY <1>6 DEF vars, request, IInv, TypeOK, PagesAreUsed, SavingKnows, VersionNamesContent,
              Copies, Stored
<1>7. QED
  BY <1>1, <1>2, <1>3, <1>4, <1>5, <1>6 DEF Next

\* The inductive invariant holds in every reachable state.
THEOREM Invariance == Spec => []IInv
  BY InitIInv, NextIInv, PTL DEF Spec

(* Type correctness of the table, the pages and the requests in flight.    *)
THEOREM TypeCorrect == Spec => []TypeOK
<1>1. IInv => TypeOK
  BY DEF IInv
<1>2. QED
  BY <1>1, Invariance, PTL

(* Two readers who saw the same lock_version of a row saw the same row,    *)
(* and it is the stored row as long as that has this version.              *)
THEOREM VersionsName == Spec => []VersionNamesContent
<1>1. IInv => VersionNamesContent
  BY DEF IInv
<1>2. QED
  BY <1>1, Invariance, PTL

(* The board's two-statement save never reverts or clears a field the form *)
(* does not show, with or without the hidden lock_version field.           *)
THEOREM HiddenFieldsKept == Spec => FormKeepsHidden
<1> DEFINE Keeps == \A c \in Clients, id \in Ids :
              pc[c] = "saving" /\ pc'[c] = "idle" => rows'[id].parent = rows[id].parent
<1>1. ASSUME IInv, [Next]_vars, NEW c \in Clients, NEW id \in Ids,
             pc[c] = "saving", pc'[c] = "idle"
      PROVE  rows'[id].parent = rows[id].parent
  <2> USE <1>1
  <2>1. SaveForm(c)
    <3>1. ASSUME NEW d \in Clients, SaveForm(d) \/ \E posted \in Form : FindExisting(d, posted)
          PROVE  d = c /\ SaveForm(c)
      BY <3>1 DEF SaveForm, FindExisting, IInv, TypeOK
    <3>2. QED
      BY <3>1 DEF Next, vars, request, Create, Delete, Open, Patch, UpdateStatus
  <2>2. CASE rows'[id] = rows[id]
    BY <2>2
  <2>3. CASE rows'[id] # rows[id]
    <3> DEFINE dto == ParseWpUpdate(c)
    <3>1. /\ page[c].id \in Ids /\ dto \in Dto /\ Update(page[c].id, dto)
          /\ existing[c] \in Row /\ existing[c] \in Copies(page[c].id)
          /\ page[c].row.lock_version <= existing[c].lock_version
          /\ page[c].row.lock_version \in Nat
          /\ dto.parent = existing[c].parent
          /\ dto.lock_version \in {page[c].row.lock_version, existing[c].lock_version}
      BY <2>1, FormDto DEF SaveForm
    <3> HIDE DEF dto
    <3>2. /\ id = page[c].id /\ Stored(id) /\ rows[id].lock_version = dto.lock_version
          /\ rows'[id].parent = dto.parent
      BY <2>3, <3>1, UpdateOutcome DEF IInv
    <3>3. existing[c].lock_version <= rows[id].lock_version
      BY <3>1, <3>2 DEF IInv, VersionNamesContent
    <3>4. existing[c].lock_version = rows[id].lock_version
      BY <3>1, <3>2, <3>3 DEF Row
    <3>5. existing[c] = rows[id]
      BY <3>1, <3>2, <3>4 DEF IInv, VersionNamesContent
    <3>6. QED
      BY <3>1, <3>2, <3>5
  <2>4. QED
    BY <2>2, <2>3
<1>2. IInv /\ [Next]_vars => [Keeps]_vars
  BY <1>1
<1>3. QED
  BY <1>2, Invariance, PTL DEF Spec, FormKeepsHidden

-----------------------------------------------------------------------------
(***************************************************************************)
(* WorkPackageRows implements LinkedStore: for every set of rows and       *)
(* clients, optimistic locking by lock_version loses no update, but for    *)
(* those of PATCHes that quote no version, to rows just created.           *)
(***************************************************************************)
Contents == [status : Statuses, assignee : Users \cup {None}, parent : Parents \cup {None}]
Value == [id \in Ids |-> Content(id)]
Links == {l \in Clients \X Ids : Current(l[1], l[2])}

LEMMA ContentNow ==
  ASSUME TypeOK, NEW id \in Ids
  PROVE  /\ Stored(id) => Content(id) \in Contents
         /\ ~Stored(id) /\ id \notin used => Content(id) = Missing("unused")
         /\ ~Stored(id) /\ id \in used => Content(id) = Missing("gone")
  BY StoredRow DEF Content, Contents, Row

LEMMA ContentNext ==
  ASSUME NEW id \in Ids, rows'[id] \in Row
  PROVE  Content(id)' \in Contents
  BY RowIsNotNoRow DEF Content, Contents, Row, Stored

LEMMA ContentStands ==
  ASSUME NEW id \in Ids, rows'[id] = rows[id], id \in used' <=> id \in used
  PROVE  Content(id)' = Content(id)
  BY DEF Content, Stored

LEMMA NothingSeen ==
  ASSUME UNCHANGED <<rows, used>>,
         \A c \in Clients, id \in Ids : Current(c, id)' <=> Current(c, id)
  PROVE  UNCHANGED <<Value, Links, Fresh>>
<1>1. Value' = Value
  BY ContentStands DEF Value
<1>2. Fresh' = Fresh
  BY DEF Fresh, Stored
<1>3. QED
  BY <1>1, <1>2 DEF Links

LEMMA InitRefines == Init => Linked!Init
<1> SUFFICES ASSUME Init PROVE Linked!Init
  OBVIOUS
<1>1. \A id \in Ids : Content(id) = Missing("unused")
  BY DEF Init, Content, Stored
<1>2. \A l \in Clients \X Ids : ~Current(l[1], l[2])
  BY DEF Init, Current, Stored
<1>3. Fresh = {}
  BY DEF Init, Fresh, Stored
<1>4. QED
  BY <1>1, <1>2, <1>3 DEF Linked!Init

\* What a row's new version does to the links: every one to it is broken.
LEMMA Breaks ==
  ASSUME IInv, NEW id \in Ids, Stored(id), UNCHANGED <<used, page>>,
         \A k \in Ids : k # id => rows'[k] = rows[k],
         \A c \in Clients : c \notin Quoting =>
           \/ UNCHANGED <<pc[c], existing[c]>>
           \/ page[c].id = id /\ pc'[c] = "idle",
         ~Stored(id)' \/ rows'[id].lock_version = rows[id].lock_version + 1
  PROVE  /\ Value' = [Value EXCEPT ![id] = Content(id)']
         /\ Links' = {l \in Links : l[2] # id}
         /\ Fresh' = Fresh \ {id}
<1>1. \A k \in Ids \ {id} : Content(k)' = Content(k)
  BY ContentStands
<1>2. Value' = [Value EXCEPT ![id] = Content(id)']
  BY <1>1 DEF Value
<1>3. \A c \in Clients, k \in Ids \ {id} : Current(c, k)' <=> Current(c, k)
  BY DEF Current, Basis, Stored
<1>4. \A c \in Clients : ~Current(c, id)'
  <2> SUFFICES ASSUME NEW c \in Clients, Current(c, id)'
               PROVE  FALSE
    OBVIOUS
  <2>1. page[c].id = id /\ Stored(id)'
    BY DEF Current
  <2>2. rows'[id].lock_version = rows[id].lock_version + 1
    BY <2>1
  <2>3. Basis(c) \in Copies(id) /\ Basis(c).lock_version = rows'[id].lock_version
    BY <2>1 DEF Copies, Current, Basis
  <2>4. Basis(c).lock_version <= rows[id].lock_version
    BY <2>3 DEF IInv, VersionNamesContent
  <2>5. rows[id].lock_version \in Nat /\ Basis(c).lock_version \in Nat
    BY <2>3, StoredRow, CopiesAreRows DEF IInv
  <2>6. QED
    BY <2>2, <2>3, <2>4, <2>5
<1>5. Links' = {l \in Links : l[2] # id}
  BY <1>3, <1>4 DEF Links
<1>6. ~Stored(id)' \/ rows'[id].lock_version # 0
  BY StoredRow DEF IInv
<1>7. Fresh' = Fresh \ {id}
  BY <1>6 DEF Fresh, Stored
<1>8. QED
  BY <1>2, <1>5, <1>7

\* A request that wrote is a Store of a client that quotes its basis, or a
\* StoreBlindly of one that quotes 0; one that did not write is a stutter.
LEMMA UpdateRefines ==
  ASSUME IInv, NEW c \in Clients, NEW id \in Ids, NEW dto \in Dto, Update(id, dto),
         UNCHANGED <<used, page>>,
         \A d \in Clients \ {c} : UNCHANGED <<pc[d], existing[d]>>,
         UNCHANGED <<pc[c], existing[c]>> \/ (pc[c] = "saving" /\ pc'[c] = "idle"),
         \/ /\ page[c].id = id /\ dto.lock_version = Basis(c).lock_version
            /\ c \in Quoting \/ pc[c] = "saving"
         \/ c \notin Quoting /\ pc[c] = "idle" /\ dto.lock_version = 0
  PROVE  Linked!Next \/ UNCHANGED <<Value, Links, Fresh>>
<1>1. CASE rows'[id] = rows[id]
  <2>1. UNCHANGED rows
    BY <1>1, UpdateOutcome DEF IInv, TypeOK
  <2>2. ~Stored(id) \/ rows[id].lock_version # dto.lock_version
    BY <1>1, StoredRow DEF Update, Matches, Written, IInv, TypeOK
  <2>3. \A d \in Clients \ {c}, k \in Ids : Current(d, k)' <=> Current(d, k)
    BY <2>1 DEF Current, Basis, Stored
  <2>4. \A k \in Ids : Current(c, k)' <=> Current(c, k)
    BY <2>1, <2>2 DEF Current, Basis, Stored
  <2>5. QED
    BY <2>1, <2>3, <2>4, NothingSeen
<1>2. CASE rows'[id] # rows[id]
  <2>1. /\ Stored(id) /\ Stored(id)' /\ rows[id].lock_version = dto.lock_version
        /\ rows'[id].lock_version = rows[id].lock_version + 1
        /\ \A k \in Ids : k # id => rows'[k] = rows[k]
        /\ rows'[id] \in Row
    BY <1>2, UpdateOutcome DEF IInv, Stored
  <2>2. PICK x \in Contents : x = Content(id)'
    BY <2>1, ContentNext
  <2>3. /\ Value' = [Value EXCEPT ![id] = x] /\ Links' = {l \in Links : l[2] # id}
        /\ Fresh' = Fresh \ {id}
    BY <2>1, <2>2, Breaks
  <2>4. Linked!Becomes(id, x)
    BY <2>3 DEF Linked!Becomes, Value, Links
  <2>5. CASE /\ page[c].id = id /\ dto.lock_version = Basis(c).lock_version
             /\ c \in Quoting \/ pc[c] = "saving"
    <3>1. <<c, id>> \in Links
      BY <2>1, <2>5 DEF Links, Current
    <3>2. Linked!Store(c, id, x)
      BY <2>4, <3>1 DEF Linked!Store, Links
    <3>3. QED
      BY <3>2 DEF Linked!Next, Contents
  <2>6. CASE c \notin Quoting /\ pc[c] = "idle" /\ dto.lock_version = 0
    <3>1. id \in Fresh
      BY <2>1, <2>6 DEF Fresh
    <3>2. Linked!StoreBlindly(id, x)
      BY <2>4, <2>6, <3>1 DEF Linked!StoreBlindly
    <3>3. QED
      BY <3>2 DEF Linked!Next, Contents
  <2>7. QED
    BY <2>5, <2>6
<1>3. QED
  BY <1>1, <1>2

LEMMA CreateRefines ==
  ASSUME IInv, NEW id \in Ids, NEW row \in NewRow, Create(id, row)
  PROVE  Linked!Next
<1>1. /\ id \notin used /\ ~Stored(id) /\ row \in Row /\ rows'[id] = row
      /\ \A k \in Ids : k # id => rows'[k] = rows[k]
      /\ \A k \in Ids : k # id => (k \in used' <=> k \in used)
      /\ UNCHANGED <<page, pc, existing>>
      /\ \A c \in Clients : page[c].id # id
      /\ row.lock_version = 0 /\ row # NoRow
  BY RowIsNotNoRow DEF request, Create, IInv, TypeOK, PagesAreUsed, NewRow, Row
<1>2. PICK x \in Contents : x = Content(id)'
  BY <1>1, ContentNext
<1>3. \A k \in Ids \ {id} : Content(k)' = Content(k)
  BY <1>1, ContentStands
<1>4. Value[id] = Missing("unused") /\ Value' = [Value EXCEPT ![id] = x]
  BY <1>1, <1>2, <1>3, ContentNow DEF Value, IInv
<1>5. \A c \in Clients, k \in Ids : Current(c, k)' <=> Current(c, k)
  BY <1>1 DEF Current, Basis, Stored
<1>6. Links' = Links /\ Fresh' = Fresh \cup {id}
  BY <1>1, <1>5 DEF Links, Fresh, Stored
<1>7. Linked!Create(id, x)
  BY <1>4, <1>6 DEF Linked!Create, Value, Links
<1>8. QED
  BY <1>7 DEF Linked!Next, Contents

LEMMA DeleteRefines ==
  ASSUME IInv, NEW id \in Ids, Delete(id)
  PROVE  Linked!Next
<1>1. /\ Stored(id) /\ ~Stored(id)' /\ UNCHANGED <<used, page, pc, existing>> /\ id \in used
      /\ \A k \in Ids : k # id => rows'[k] = rows[k]
  BY DEF Delete, request, IInv, TypeOK, PagesAreUsed, Stored
<1>2. Content(id)' = Missing("gone") /\ Value[id] \in Contents
  BY <1>1, ContentNow DEF Content, Value, IInv
<1>3. /\ Value' = [Value EXCEPT ![id] = Missing("gone")]
      /\ Links' = {l \in Links : l[2] # id} /\ Fresh' = Fresh \ {id}
  BY <1>1, <1>2, Breaks
<1>4. Linked!Remove(id)
  BY <1>2, <1>3 DEF Linked!Remove, Linked!Becomes, Value, Links, Contents
<1>5. QED
  BY <1>4 DEF Linked!Next

LEMMA OpenRefines ==
  ASSUME IInv, NEW c \in Clients, NEW id \in Ids, Open(c, id)
  PROVE  Linked!Next \/ UNCHANGED <<Value, Links, Fresh>>
<1>1. /\ UNCHANGED <<rows, used, pc, existing>> /\ Stored(id) /\ pc[c] = "idle"
      /\ page'[c] = [id |-> id, row |-> rows[id]]
      /\ \A d \in Clients : d # c => page'[d] = page[d]
  BY DEF Open, request, IInv, TypeOK
<1>2. \A d \in Clients, k \in Ids : d # c => (Current(d, k)' <=> Current(d, k))
  BY <1>1 DEF Current, Basis, Stored
<1>3. c \in Quoting => \A k \in Ids : Current(c, k)' <=> k = id
  BY <1>1 DEF Current, Basis, Stored
<1>4. CASE c \notin Quoting
  <2>1. \A k \in Ids : ~Current(c, k) /\ ~Current(c, k)'
    BY <1>1, <1>4 DEF Current
  <2>2. QED
    BY <1>1, <1>2, <2>1, NothingSeen
<1>5. CASE c \in Quoting
  <2>1. Links' = {l \in Links : l[1] # c} \cup {<<c, id>>}
    BY <1>2, <1>3, <1>5 DEF Links
  <2>2. Value' = Value /\ Value[id] \in Contents /\ Fresh' = Fresh
    BY <1>1, ContentStands, ContentNow DEF Value, IInv, Fresh, Stored
  <2>3. Linked!Link(c, id)
    BY <2>1, <2>2 DEF Linked!Link, Value, Links, Contents
  <2>4. QED
    BY <1>5, <2>3 DEF Linked!Next
<1>6. QED
  BY <1>4, <1>5

\* The handler's own read links a client that quotes no version.
LEMMA FindExistingRefines ==
  ASSUME IInv, NEW c \in Clients, NEW posted \in Form, FindExisting(c, posted)
  PROVE  Linked!Next \/ UNCHANGED <<Value, Links, Fresh>>
<1> DEFINE id == page[c].id
<1>1. /\ UNCHANGED <<rows, used, page>> /\ Stored(id) /\ pc[c] = "idle"
      /\ pc'[c] = "saving" /\ existing'[c] = rows[id]
      /\ \A d \in Clients : d # c => UNCHANGED <<pc[d], existing[d]>>
  BY DEF FindExisting, IInv, TypeOK
<1>2. id \in Ids
  BY DEF FindExisting, IInv, TypeOK
<1>3. \A d \in Clients, k \in Ids : d # c => (Current(d, k)' <=> Current(d, k))
  BY <1>1 DEF Current, Basis, Stored
<1>4. CASE c \in Quoting
  <2>1. \A k \in Ids : Current(c, k)' <=> Current(c, k)
    BY <1>1, <1>4 DEF Current, Basis, Stored
  <2>2. QED
    BY <1>1, <1>3, <2>1, NothingSeen
<1>5. CASE c \notin Quoting
  <2>1. \A k \in Ids : ~Current(c, k) /\ (Current(c, k)' <=> k = id)
    BY <1>1, <1>2, <1>5 DEF Current, Basis, Stored
  <2>2. Links' = {l \in Links : l[1] # c} \cup {<<c, id>>}
    BY <1>2, <1>3, <2>1 DEF Links
  <2>3. Value' = Value /\ Value[id] \in Contents /\ Fresh' = Fresh
    BY <1>1, <1>2, ContentStands, ContentNow DEF Value, IInv, Fresh, Stored
  <2>4. Linked!Link(c, id)
    BY <2>2, <2>3 DEF Linked!Link, Value, Links, Contents
  <2>5. QED
    BY <1>2, <2>4 DEF Linked!Next
<1>6. QED
  BY <1>4, <1>5

LEMMA StepRefines ==
  ASSUME IInv, [Next]_vars
  PROVE  Linked!Next \/ UNCHANGED <<Value, Links, Fresh>>
<1>1. ASSUME NEW id \in Ids, (\E row \in NewRow : Create(id, row)) \/ Delete(id)
      PROVE  Linked!Next
  BY <1>1, CreateRefines, DeleteRefines
<1>2. ASSUME NEW c \in Clients, NEW id \in Ids, Open(c, id)
      PROVE  Linked!Next \/ UNCHANGED <<Value, Links, Fresh>>
  BY <1>2, OpenRefines
<1>3. ASSUME NEW c \in Clients, NEW id \in Ids, NEW status \in Statuses \cup {None},
             NEW assignee \in Users \cup {None}, Patch(c, id, status, assignee)
      PROVE  Linked!Next \/ UNCHANGED <<Value, Links, Fresh>>
  BY <1>3, PatchDto, UpdateRefines DEF Patch, QuotedByPatch, Basis, request
<1>4. ASSUME NEW c \in Clients, NEW id \in Ids, NEW status \in Statuses,
             UpdateStatus(c, id, status)
      PROVE  Linked!Next \/ UNCHANGED <<Value, Links, Fresh>>
  BY <1>4, UpdateStatusDto, UpdateRefines DEF UpdateStatus, Basis, request
<1>5. ASSUME NEW c \in Clients, SaveForm(c)
      PROVE  Linked!Next \/ UNCHANGED <<Value, Links, Fresh>>
  <2>1. ParseWpUpdate(c).lock_version = Basis(c).lock_version
    BY DEF ParseWpUpdate, Basis
  <2>2. /\ \A d \in Clients \ {c} : UNCHANGED <<pc[d], existing[d]>>
        /\ pc[c] = "saving" /\ pc'[c] = "idle"
    BY <1>5 DEF SaveForm, IInv, TypeOK
  <2>3. QED
    BY <1>5, <2>1, <2>2, FormDto, UpdateRefines DEF SaveForm
<1>6. ASSUME NEW c \in Clients, NEW posted \in Form, FindExisting(c, posted)
      PROVE  Linked!Next \/ UNCHANGED <<Value, Links, Fresh>>
  BY <1>6, FindExistingRefines
<1>7. CASE UNCHANGED vars
  BY <1>7, NothingSeen DEF vars, Current, Basis, Stored
<1>8. QED
  BY <1>1, <1>2, <1>3, <1>4, <1>5, <1>6, <1>7 DEF Next

(* Whoever quotes the version it read, and whoever posts the form, writes  *)
(* the row only if nobody has written it since; a PATCH without a version  *)
(* overwrites only a row as it was created.                                *)
THEOREM NoLostUpdate == Spec => ImplementsLinkedStore
<1>1. Init => Linked!Init
  BY InitRefines
<1>2. IInv /\ [Next]_vars => [Linked!Next]_<<Value, Links, Fresh>>
  BY StepRefines
<1>3. IInv /\ [Next]_vars
        => [Linked!Next]_<<[id \in Ids |-> Content(id)],
                           {l \in Clients \X Ids : Current(l[1], l[2])}, Fresh>>
  BY <1>2 DEF Value, Links
<1>4. QED
  BY <1>1, <1>3, Invariance, PTL DEF Spec, ImplementsLinkedStore, Linked!Spec

=============================================================================
