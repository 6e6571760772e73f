------------------------------ MODULE Addresses ------------------------------
(***************************************************************************)
(* A customer's saved addresses and the one he is offered by default.  An  *)
(* edit is two steps: the view reads the row, then the service runs in a   *)
(* transaction and believes the is_default it was handed.                  *)
(***************************************************************************)
CONSTANTS
  Addresses,    \* primary keys, each used once
  Users,
  OwnerOf       \* Address.user

ASSUME OwnerOfAssumption == OwnerOf \in [Addresses -> Users]

VARIABLES
  row,              \* "none" before the INSERT, "saved", "deleted"
  isDefault,        \* the addresses whose is_default is true
  settingDefault    \* edits between the view's get_object and the service

addressVars == <<row, isDefault, settingDefault>>

Saved == {a \in Addresses : row[a] = "saved"}

Book(u) == {a \in Saved : OwnerOf[a] = u}

\* The instance get_object returned: which row, and is_default as it was then.
Instance == [address : Addresses, wasDefault : BOOLEAN]

AddressesTypeOK ==
  /\ row \in [Addresses -> {"none", "saved", "deleted"}]
  /\ isDefault \subseteq Saved
  /\ settingDefault \subseteq Instance

AddressesInit ==
  /\ row = [a \in Addresses |-> "none"]
  /\ isDefault = {}
  /\ settingDefault = {}

-----------------------------------------------------------------------------
(***************************************************************************)
(* Seeded faults, which no specification uses.  The first two are          *)
(* ClearedExcept forgetting whose addresses to clear, and clearing none;   *)
(* they break DefaultLostOnlyAsNamed and AtMostOneDefault.  The third is   *)
(* DefaultsAfter with the clearing's exclude_pk left out: setting the      *)
(* default again loses it.  It breaks DefaultLostOnlyAsNamed.              *)
(***************************************************************************)
ClearedWhosever(a) == isDefault \cap {a}
ClearedNone(a) == isDefault
DefaultsAfterClearingAll(i) ==
  (isDefault \ Book(OwnerOf[i.address]))
    \cup (IF i.wasDefault THEN {} ELSE {i.address})

\* AddressRepository.has_default
HasDefault(u) == \E a \in isDefault : OwnerOf[a] = u

\* clear_default_except: what is left of the user's defaults when all but a
\* are cleared.
ClearedExcept(a) == {b \in isDefault : OwnerOf[b] = OwnerOf[a] => b = a}

\* set_default_address: the address itself is written only if the instance
\* says that it is not the default already.
DefaultsAfter(i) ==
  ClearedExcept(i.address) \cup (IF i.wasDefault THEN {} ELSE {i.address})

\* POST /api/addresses/: the first address becomes the default unasked.
CreateAddress(a, makeDefault) ==
  /\ row[a] = "none"
  /\ row' = [row EXCEPT ![a] = "saved"]
  /\ isDefault' = IF makeDefault \/ ~HasDefault(OwnerOf[a])
                    THEN DefaultsAfter([address |-> a, wasDefault |-> FALSE])
                    ELSE isDefault
  /\ UNCHANGED settingDefault

\* set-default, or a PUT or PATCH that says is_default: the view's get_object.
EditRead(a) ==
  /\ row[a] = "saved"
  /\ settingDefault' =
       settingDefault \cup {[address |-> a, wasDefault |-> a \in isDefault]}
  /\ UNCHANGED <<row, isDefault>>

\* Seeded fault: EditCommit with a save() that inserts a row which is gone.  It
\* breaks the type invariant: the default of a deleted row.
EditCommitInserting(i) ==
  /\ i \in settingDefault
  /\ isDefault' = DefaultsAfter(i)
  /\ settingDefault' \in {settingDefault \ {i}, settingDefault}
  /\ UNCHANGED row

\* The service.  save(update_fields=...) raises if the row is gone, and that
\* takes the clearing back with it; but an instance that is the default by its
\* own account is not saved at all.
EditCommit(i) ==
  /\ i \in settingDefault
  /\ i.wasDefault \/ i.address \in Saved
  /\ isDefault' = DefaultsAfter(i)
  /\ settingDefault' \in {settingDefault \ {i}, settingDefault}
  /\ UNCHANGED row

\* DELETE /api/addresses/<id>/: nobody takes the default's place.
DeleteAddress(a) ==
  /\ row[a] = "saved"
  /\ row' = [row EXCEPT ![a] = "deleted"]
  /\ isDefault' = isDefault \ {a}
  /\ UNCHANGED settingDefault

AddressesNext ==
  \/ \E a \in Addresses :
       \/ \E makeDefault \in BOOLEAN : CreateAddress(a, makeDefault)
       \/ EditRead(a)
       \/ DeleteAddress(a)
  \/ \E i \in settingDefault : EditCommit(i)

-----------------------------------------------------------------------------
(***************************************************************************)
(* set_default_address is "the single place that guarantees a user has at  *)
(* most one default address", whichever edits cross.                       *)
(***************************************************************************)
AtMostOneDefault ==
  \A a, b \in isDefault : OwnerOf[a] = OwnerOf[b] => a = b

(***************************************************************************)
(* A user who has a default address is left without one in two ways only:  *)
(* he deletes it, or an edit that read its address as the default runs     *)
(* when that address is the default no longer - another edit has made a    *)
(* different one the default meanwhile - and clears that one instead.      *)
(***************************************************************************)
DefaultLostOnlyAsNamed ==
  [][\A u \in Users : HasDefault(u) /\ ~HasDefault(u)' =>
       \/ \E a \in isDefault : OwnerOf[a] = u /\ row'[a] = "deleted"
       \/ \E i \in settingDefault :
            /\ OwnerOf[i.address] = u
            /\ i.wasDefault /\ i.address \notin isDefault]_addressVars

==============================================================================
