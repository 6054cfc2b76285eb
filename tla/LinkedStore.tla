----------------------------- MODULE LinkedStore -----------------------------
(***************************************************************************)
(* What optimistic locking promises, told without versions, copies or the  *)
(* steps of a request: load-linked and store-conditional.  A client that   *)
(* reads an item is linked to it; whoever changes the item breaks every    *)
(* link to it; a client changes an item only while linked to it, so it     *)
(* never overwrites what it has not seen.  The one exception is an item    *)
(* nobody has changed since it was created, which a client may overwrite   *)
(* without having looked, where Blindly allows it.                         *)
(***************************************************************************)
CONSTANTS
  Items, Clients,
  Blindly,        \* whether some client writes without having looked
  Values, Unused, Gone

VARIABLES
  value,          \* what each item is
  linked,         \* the client and item pairs whose link is unbroken
  fresh           \* the items as they were created

Init ==
  /\ value = [i \in Items |-> Unused]
  /\ linked = {}
  /\ fresh = {}

\* Whoever changes an item breaks every link to it, its own included.
Becomes(i, x) ==
  /\ value' = [value EXCEPT ![i] = x]
  /\ linked' = {l \in linked : l[2] # i}
  /\ fresh' = fresh \ {i}

Create(i, x) ==
  /\ value[i] = Unused
  /\ value' = [value EXCEPT ![i] = x]
  /\ fresh' = fresh \cup {i}
  /\ UNCHANGED linked

\* A client looks at one item at a time.
Link(c, i) ==
  /\ value[i] \in Values
  /\ linked' = {l \in linked : l[1] # c} \cup {<<c, i>>}
  /\ UNCHANGED <<value, fresh>>

Store(c, i, x) ==
  /\ <<c, i>> \in linked
  /\ Becomes(i, x)

StoreBlindly(i, x) ==
  /\ Blindly
  /\ i \in fresh
  /\ Becomes(i, x)

Remove(i) ==
  /\ value[i] \in Values
  /\ Becomes(i, Gone)

Next ==
  \E i \in Items :
    \/ \E x \in Values : Create(i, x) \/ StoreBlindly(i, x)
    \/ \E c \in Clients : Link(c, i) \/ \E x \in Values : Store(c, i, x)
    \/ Remove(i)

Spec == Init /\ [][Next]_<<value, linked, fresh>>

=============================================================================
