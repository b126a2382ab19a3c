--------------------------- MODULE CertCacheProofs ---------------------------
(* The certificate cache keeps what it saved and keeps its store in order, *)
(* for all certificates, trusted lists and ADD_CERT requests, and however  *)
(* many items, sessions, failing file operations and crashes there are.    *)
EXTENDS CertCache, CertKeysProofs

-----------------------------------------------------------------------------
(* The inductive invariant *)

(* What an operation in progress has set and what it has not. *)
Phases ==
  /\ op.at \in {"load", "rename"} => op.init
  /\ op.init => op.at \in {"add", "load", "rename"} /\ ~op.permanent /\ op.fresh = {}
  /\ op.at \in {"add", "save"} => initialized = ~op.init
  /\ op.at # "load" => op.files = {}

(* In INIT an item without a file is a trusted certificate from the list. *)
FromList ==
  op.init =>
    /\ \A k \in DOMAIN op.todo : \E list \in TrustedLists : \E j \in DOMAIN list : list[j] = op.todo[k]
    /\ \A k \in DOMAIN items : items[k].file = "none" =>
         \A c \in Certs : Duplicate(items[k].cert, c) => Configured(c)
    /\ op.at = "add" => \A k \in DOMAIN items : items[k].file = "none"

(* The file an item names. *)
Own(it) == [cert |-> it.cert, name |-> it.file]

(* The file is open: its item is named, its certificate not yet written. *)
Opened(it) == op.at = "save" /\ it.cert \in op.fresh /\ it.file = "generated"

(* The file an item names is in the directory or open.  INIT can rely on   *)
(* it whatever failed before.                                              *)
NamesExact ==
  op.at \in {"load", "rename"} \/ ~failed =>
    \A k \in DOMAIN items : items[k].file # "none" => Own(items[k]) \in disk \/ Opened(items[k])

(* No two items name the same file. *)
FilesApart ==
  \A j, k \in DOMAIN items : Own(items[j]) = Own(items[k]) /\ items[j].file # "none" => j = k

(* A name is generated only for a certificate that has what it is made of. *)
Named ==
  /\ \A f \in disk : f.name = "generated" => f.cert.authorityKeyId # NoKeyId
  /\ \A k \in DOMAIN items : items[k].file = "generated" => items[k].cert.authorityKeyId # NoKeyId
  /\ \A c \in saved : c.authorityKeyId # NoKeyId

(* The files INIT has yet to read are there, and no item names one; each   *)
(* of the others has an item that is its own or a duplicate.               *)
Loading ==
  /\ op.files \subseteq disk
  /\ op.at = "load" => \A k \in DOMAIN items : Own(items[k]) \notin op.files
  /\ op.at \in {"load", "rename"} =>
       \A f \in disk \ op.files :
         /\ \E k \in DOMAIN items : items[k].cert = f.cert \/ Duplicate(items[k].cert, f.cert)
         /\ ~failed => \E k \in DOMAIN items : Own(items[k]) = f

(* What ADD_CERT has yet to save is in memory and not a temporary one. *)
FreshAdded ==
  \A c \in op.fresh : \E k \in DOMAIN items : items[k].cert = c /\ ~items[k].marked

(* Only temporary certificates are marked. *)
Marked == \A k \in DOMAIN items : items[k].marked => ~items[k].trusted /\ items[k].file = "none"

InOrder == Distinct(items) /\ FlagsRight(items) /\ FilesApart /\ Marked

IInv ==
  /\ TypeOK /\ InOrder /\ Phases
  /\ FromList /\ NamesExact /\ Named /\ Loading /\ FreshAdded
  /\ SavedIsKept

-----------------------------------------------------------------------------
(* What the steps do to the store *)

LEMMA ItemsFlagged == Flagged(Items)
BY CertsAssumption DEF Flagged, WithFlag, Items

(* But for the flag the items are the same. *)
Alike(it, other) ==
  /\ it.cert = other.cert /\ it.trusted = other.trusted
  /\ it.marked = other.marked /\ it.file = other.file

(* The store holds what it held, and the new item unless it is a duplicate. *)
Grown(its, it, new) ==
  /\ \A k \in DOMAIN its : k \in DOMAIN new /\ Alike(new[k], its[k])
  /\ \A k \in DOMAIN new : k \in DOMAIN its \/ (k = Len(its) + 1 /\ Alike(new[k], it))
  /\ FirstDuplicate(its, it.cert) = 0 => Len(its) + 1 \in DOMAIN new /\ Alike(new[Len(its) + 1], it)
  /\ FirstDuplicate(its, it.cert) # 0 => DOMAIN new = DOMAIN its

LEMMA StoreGrown ==
  ASSUME NEW its \in Seq(Items), NEW it \in Items
  PROVE  addItem(its, it) \in Seq(Items) /\ Grown(its, it, addItem(its, it))
<1> DEFINE new == addItem(its, it)
           dup == FirstDuplicate(its, it.cert)
<1>1. /\ new \in Seq(Items)
      /\ FlagsOnly(its, it.cert, new)
      /\ dup # 0 => Len(new) = Len(its)
      /\ dup = 0 => /\ Len(new) = Len(its) + 1
                    /\ \E flag \in BOOLEAN : new[Len(its) + 1] = WithFlag(it, flag)
  BY ItemsFlagged, ItemAdded
<1>2. \A other \in Items, flag \in BOOLEAN : Alike(WithFlag(other, flag), other)
  BY DEF Alike, WithFlag, Items
<1>3. \A k \in DOMAIN its : its[k] \in Items /\ Alike(its[k], its[k])
  BY DEF Alike
<1>4. Len(its) \in Nat /\ DOMAIN its = 1 .. Len(its) /\ DOMAIN new = 1 .. Len(new)
  BY <1>1
<1> HIDE DEF new, dup
<1>5. \A k \in DOMAIN its : k \in DOMAIN new /\ Alike(new[k], its[k])
  BY <1>1, <1>2, <1>3 DEF FlagsOnly
<1>6. \A k \in DOMAIN new : k \in DOMAIN its \/ (k = Len(its) + 1 /\ Alike(new[k], it))
  <2>1. CASE dup = 0
    <3>1. Alike(new[Len(its) + 1], it)
      BY <1>1, <1>2, <2>1
    <3>2. \A k \in DOMAIN new : k \in DOMAIN its \/ k = Len(its) + 1
      BY <1>1, <1>4, <2>1
    <3> QED
      BY <3>1, <3>2
  <2>2. CASE dup # 0
    BY <1>1, <1>4, <2>2
  <2> QED
    BY <2>1, <2>2
<1>7. dup = 0 => Len(its) + 1 \in DOMAIN new /\ Alike(new[Len(its) + 1], it)
  BY <1>1, <1>2, <1>4
<1>8. dup # 0 => DOMAIN new = DOMAIN its
  BY <1>1, <1>4
<1> QED
  BY <1>1, <1>5, <1>6, <1>7, <1>8 DEF Grown, new, dup

LEMMA FileSet ==
  ASSUME NEW its \in Seq(Items), NEW i \in DOMAIN its, NEW name \in Names
  PROVE  LET new == SetFile(its, i, name) IN
         /\ new \in Seq(Items)
         /\ DOMAIN new = DOMAIN its
         /\ \A k \in DOMAIN its \ {i} : new[k] = its[k]
         /\ new[i].file = name
         /\ \A k \in DOMAIN its : /\ new[k].cert = its[k].cert /\ new[k].trusted = its[k].trusted
                                  /\ new[k].marked = its[k].marked /\ new[k].unique = its[k].unique
<1> DEFINE new == SetFile(its, i, name)
           it == [its[i] EXCEPT !.file = name]
<1>1. its[i] \in Items
  OBVIOUS
<1>2. /\ it \in Items /\ it.file = name
      /\ it.cert = its[i].cert /\ it.trusted = its[i].trusted
      /\ it.marked = its[i].marked /\ it.unique = its[i].unique
  BY <1>1 DEF Items, Names
<1>3. new = [its EXCEPT ![i] = it]
  BY DEF SetFile
<1> HIDE DEF new, it
<1>4. new \in Seq(Items) /\ DOMAIN new = DOMAIN its
  BY <1>2, <1>3
<1>5. new[i] = it /\ \A k \in DOMAIN its \ {i} : new[k] = its[k]
  BY <1>3
<1> QED
  BY <1>2, <1>4, <1>5 DEF new, it

LEMMA IndexFound ==
  ASSUME items \in Seq(Items), NEW k \in DOMAIN items
  PROVE  LET i == IndexOf(items[k].cert) IN i \in DOMAIN items /\ items[i].cert = items[k].cert
<1> DEFINE c == items[k].cert
           found == {i \in 1 .. Len(items) : items[i].cert = c}
<1>1. IndexOf(c) = IF found # {} THEN Min(found) ELSE 0
  BY DEF IndexOf, SelectInSeq
<1>2. k \in found /\ found \in SUBSET Nat
  OBVIOUS
<1> HIDE DEF found
<1>3. IndexOf(c) \in found
  BY <1>1, <1>2, LeastIsMin
<1> QED
  BY <1>3 DEF found

-----------------------------------------------------------------------------
(* The store stays in order *)

LEMMA GrownInOrder ==
  ASSUME items \in Seq(Items), InOrder, NEW it \in Items, items' = addItem(items, it),
         it.file # "none" => \A k \in DOMAIN items : Own(items[k]) # Own(it),
         it.marked => ~it.trusted /\ it.file = "none"
  PROVE  InOrder'
<1>1. items' \in Seq(Items) /\ Grown(items, it, items')
  BY StoreGrown
<1>2. Distinct(items')
  BY ItemsFlagged, AddedDistinct DEF InOrder
<1>3. FlagsRight(items')
  BY ItemsFlagged, AddedFlagsRight DEF InOrder
<1>4. FilesApart'
  <2> SUFFICES ASSUME NEW j \in DOMAIN items', NEW k \in DOMAIN items',
                      Own(items'[j]) = Own(items'[k]), items'[j].file # "none"
               PROVE  j = k
    BY DEF FilesApart, Own
  <2>1. \A n \in DOMAIN items : Own(items'[n]) = Own(items[n]) /\ items'[n].file = items[n].file
    BY <1>1 DEF Grown, Alike, Own
  <2>2. \A n \in DOMAIN items' \ DOMAIN items :
          n = Len(items) + 1 /\ Own(items'[n]) = Own(it) /\ items'[n].file = it.file
    BY <1>1 DEF Grown, Alike, Own
  <2>3. items'[j].file = items'[k].file
    BY DEF Own
  <2>4. CASE j \in DOMAIN items /\ k \in DOMAIN items
    BY <2>1, <2>4 DEF InOrder, FilesApart
  <2>5. CASE j \notin DOMAIN items /\ k \notin DOMAIN items
    BY <2>2, <2>5
  <2>6. CASE j \in DOMAIN items /\ k \notin DOMAIN items
    BY <2>1, <2>2, <2>3, <2>6
  <2>7. CASE j \notin DOMAIN items /\ k \in DOMAIN items
    BY <2>1, <2>2, <2>3, <2>7
  <2> QED
    BY <2>4, <2>5, <2>6, <2>7
<1>5. Marked'
  BY <1>1 DEF InOrder, Marked, Grown, Alike
<1> QED
  BY <1>2, <1>3, <1>4, <1>5 DEF InOrder

LEMMA NamedInOrder ==
  ASSUME items \in Seq(Items), InOrder, NEW i \in DOMAIN items, ~items[i].marked,
         items[i].cert.authorityKeyId # NoKeyId, items' = SetFile(items, i, "generated")
  PROVE  InOrder'
<1>1. /\ items' \in Seq(Items) /\ DOMAIN items' = DOMAIN items
      /\ \A k \in DOMAIN items \ {i} : items'[k] = items[k]
      /\ items'[i].file = "generated"
      /\ \A k \in DOMAIN items : /\ items'[k].cert = items[k].cert /\ items'[k].trusted = items[k].trusted
                                 /\ items'[k].marked = items[k].marked /\ items'[k].unique = items[k].unique
  <2>1. "generated" \in Names
    BY DEF Names
  <2> QED
    BY <2>1, FileSet
<1>2. Distinct(items')
  BY <1>1 DEF InOrder, Distinct
<1>3. FlagsRight(items')
  BY <1>1 DEF InOrder, FlagsRight
<1>4. FilesApart'
  <2> SUFFICES ASSUME NEW j \in DOMAIN items', NEW k \in DOMAIN items',
                      Own(items'[j]) = Own(items'[k]), items'[j].file # "none"
               PROVE  j = k
    BY DEF FilesApart, Own
  <2>1. items[j].cert = items[k].cert
    BY <1>1 DEF Own
  <2>2. CASE j = i \/ k = i
    <3>1. Duplicate(items[j].cert, items[k].cert)
      BY <2>1, <2>2 DEF Duplicate, SameKeys
    <3> QED
      BY <1>1, <3>1 DEF InOrder, Distinct
  <2>3. CASE j # i /\ k # i
    BY <1>1, <2>3 DEF InOrder, FilesApart
  <2> QED
    BY <2>2, <2>3
<1>5. Marked'
  BY <1>1 DEF InOrder, Marked
<1> QED
  BY <1>2, <1>3, <1>4, <1>5 DEF InOrder

LEMMA PartInOrder ==
  ASSUME items \in Seq(Items), InOrder, NEW places \in SUBSET DOMAIN items, Part(items', items, places)
  PROVE  InOrder'
<1>1. PICK e \in [DOMAIN items' -> places] :
        /\ \A j, k \in DOMAIN items' : e[j] = e[k] => j = k
        /\ \A j \in DOMAIN items' : items'[j] = items[e[j]]
  BY DEF Part
<1>2. \A j \in DOMAIN items' : e[j] \in DOMAIN items
  BY <1>1
<1>3. Distinct(items')
  BY <1>1, <1>2 DEF InOrder, Distinct
<1>4. FlagsRight(items')
  BY <1>1, <1>2 DEF InOrder, FlagsRight
<1>5. FilesApart'
  BY <1>1, <1>2 DEF InOrder, FilesApart, Own
<1>6. Marked'
  BY <1>1, <1>2 DEF InOrder, Marked
<1> QED
  BY <1>3, <1>4, <1>5, <1>6 DEF InOrder

(* An empty store is in order. *)
LEMMA EmptyInOrder ==
  ASSUME items' = <<>>
  PROVE  InOrder'
BY DEF InOrder, Distinct, FlagsRight, FilesApart, Marked

-----------------------------------------------------------------------------
(* The steps that add *)

LEMMA StepInit ==
  ASSUME IInv, NEW list \in TrustedLists, uapki_init(list)
  PROVE  IInv'
<1>1. /\ op'.at = "add" /\ op'.init /\ op'.todo = list /\ ~op'.permanent /\ op'.fresh = {} /\ op'.files = {}
      /\ op' \in Ops
  <2>1. list \in Seq(Certs)
    BY CertsAssumption
  <2> QED
    BY <2>1 DEF uapki_init, Idle, Ops, OpKinds
<1>2. TypeOK'
  BY <1>1 DEF IInv, TypeOK, uapki_init
<1>3. InOrder'
  BY EmptyInOrder DEF uapki_init
<1>4. Phases' /\ FromList' /\ NamesExact' /\ Named' /\ Loading' /\ FreshAdded'
  BY <1>1 DEF IInv, TypeOK, Phases, FromList, NamesExact, Named, Loading, FreshAdded, uapki_init
<1>5. SavedIsKept'
  BY DEF IInv, SavedIsKept, uapki_init
<1> QED
  BY <1>2, <1>3, <1>4, <1>5 DEF IInv

LEMMA StepAdd ==
  ASSUME IInv, NEW batch \in Batches, NEW permanent \in BOOLEAN, uapki_add_cert(batch, permanent)
  PROVE  IInv'
<1>1. /\ op'.at = "add" /\ ~op'.init /\ op'.fresh = {} /\ op'.files = {} /\ op' \in Ops
      /\ op.at = "idle" /\ ~op.init /\ op.fresh = {}
  <2>1. batch \in Seq(Certs)
    BY CertsAssumption
  <2> QED
    BY <2>1 DEF uapki_add_cert, Idle, Ops, OpKinds
<1>2. TypeOK'
  BY <1>1 DEF IInv, TypeOK, uapki_add_cert
<1>3. InOrder'
  BY DEF IInv, InOrder, FilesApart, Marked, uapki_add_cert
<1>4. Phases' /\ FromList' /\ Loading' /\ FreshAdded'
  BY <1>1 DEF IInv, TypeOK, Phases, FromList, Loading, FreshAdded, uapki_add_cert
<1>5. NamesExact' /\ Named'
  BY <1>1 DEF IInv, NamesExact, Opened, Named, uapki_add_cert
<1>6. SavedIsKept'
  BY DEF IInv, SavedIsKept, uapki_add_cert
<1> QED
  BY <1>2, <1>3, <1>4, <1>5, <1>6 DEF IInv

LEMMA StepAddStep ==
  ASSUME IInv, AddStep
  PROVE  IInv'
<1> DEFINE c == Head(op.todo)
           it == NewItem(c, op.init, ~op.init /\ ~op.permanent, "none")
           new == FirstDuplicate(items, c) = 0 /\ op.permanent
<1>1. /\ c \in Certs /\ op.todo \in Seq(Certs) /\ op.todo # <<>>
      /\ op.at = "add" /\ op.init \in BOOLEAN /\ op.permanent \in BOOLEAN
      /\ items \in Seq(Items) /\ op.files = {} /\ initialized = ~op.init
      /\ op.init => ~op.permanent
  BY DEF IInv, TypeOK, Ops, Phases, AddStep
<1>2. /\ it \in Items /\ it.cert = c /\ it.file = "none" /\ it.trusted = op.init
      /\ it.marked = (~op.init /\ ~op.permanent)
  BY <1>1 DEF NewItem, Items
<1>3. /\ items' = addItem(items, it)
      /\ op' \in Ops /\ op'.at = "add" /\ op'.init = op.init /\ op'.permanent = op.permanent
      /\ op'.files = {} /\ op'.todo = Tail(op.todo)
      /\ op'.fresh = IF new THEN op.fresh \cup {c} ELSE op.fresh
      /\ initialized' = initialized /\ disk' = disk /\ failed' = failed /\ saved' = saved
  <2>1. Tail(op.todo) \in Seq(Certs)
    BY <1>1
  <2> QED
    BY <1>1, <2>1 DEF AddStep, IInv, TypeOK, Ops
<1> HIDE DEF it
<1>4. items' \in Seq(Items) /\ Grown(items, it, items')
  BY <1>1, <1>2, <1>3, StoreGrown
<1> HIDE DEF new, c
<1>5. TypeOK'
  BY <1>3, <1>4 DEF IInv, TypeOK
<1>6. InOrder'
  BY <1>1, <1>2, <1>3, GrownInOrder DEF IInv
<1>7. Phases'
  BY <1>1, <1>3 DEF IInv, Phases, new
<1>8. /\ \A k \in DOMAIN items : /\ k \in DOMAIN items' /\ items'[k].cert = items[k].cert
                                 /\ items'[k].file = items[k].file /\ items'[k].marked = items[k].marked
      /\ \A k \in DOMAIN items' : k \in DOMAIN items \/
           (items'[k].cert = c /\ items'[k].file = "none")
      /\ new => \E k \in DOMAIN items' : items'[k].cert = c /\ ~items'[k].marked
  BY <1>2, <1>4 DEF Grown, Alike, new
<1>9. FromList'
  <2> SUFFICES ASSUME op.init PROVE FromList'
    BY <1>3 DEF FromList
  <2>1. \A k \in DOMAIN op'.todo : \E list \in TrustedLists : \E j \in DOMAIN list : list[j] = op'.todo[k]
    <3>1. \A k \in DOMAIN Tail(op.todo) : k + 1 \in DOMAIN op.todo /\ Tail(op.todo)[k] = op.todo[k + 1]
      BY <1>1
    <3> QED
      BY <1>3, <3>1 DEF IInv, FromList
  <2>2. \A d \in Certs : Duplicate(c, d) => Configured(d)
    <3>1. 1 \in DOMAIN op.todo /\ c = op.todo[1]
      BY <1>1 DEF c
    <3>2. PICK list \in TrustedLists : \E j \in DOMAIN list : list[j] = c
      BY <3>1 DEF IInv, FromList
    <3> QED
      BY <3>2 DEF Configured
  <2>3. \A k \in DOMAIN items' : items'[k].file = "none"
    BY <1>1, <1>8 DEF IInv, FromList
  <2>4. \A k \in DOMAIN items' : \A d \in Certs : Duplicate(items'[k].cert, d) => Configured(d)
    BY <1>1, <1>8, <2>2 DEF IInv, FromList
  <2> QED
    BY <2>1, <2>3, <2>4 DEF FromList, Configured
<1>10. NamesExact'
  BY <1>1, <1>3, <1>8 DEF IInv, NamesExact, Opened, Own
<1>11. Named' /\ Loading' /\ SavedIsKept'
  BY <1>3, <1>8 DEF IInv, Named, Loading, SavedIsKept, Configured
<1>12. FreshAdded'
  BY <1>3, <1>8 DEF IInv, FreshAdded
<1> QED
  BY <1>5, <1>6, <1>7, <1>9, <1>10, <1>11, <1>12 DEF IInv

LEMMA StepAddDone ==
  ASSUME IInv, AddDone
  PROVE  IInv'
<1>1. /\ op.at = "add" /\ op.init \in BOOLEAN /\ op.permanent \in BOOLEAN
      /\ items \in Seq(Items) /\ disk \subseteq Files
      /\ op' \in Ops /\ op'.init = op.init /\ op'.permanent = op.permanent /\ op'.fresh = op.fresh
      /\ op'.todo = op.todo
      /\ op.init => op'.at = "load" /\ op'.files = disk
      /\ ~op.init => op'.at = "save" /\ op'.files = {}
      /\ items' = items /\ initialized' = initialized /\ disk' = disk /\ failed' = failed /\ saved' = saved
  BY DEF IInv, TypeOK, Ops, OpKinds, Phases, AddDone
<1>2. TypeOK' /\ InOrder' /\ Phases' /\ Named' /\ FreshAdded' /\ SavedIsKept'
  BY <1>1 DEF IInv, TypeOK, InOrder, FilesApart, Marked, Phases, Named, FreshAdded, SavedIsKept
<1>3. FromList'
  BY <1>1 DEF IInv, FromList, Configured
<1>4. op.init => \A k \in DOMAIN items : items[k].file = "none"
  BY <1>1 DEF IInv, FromList
<1>5. NamesExact'
  BY <1>1, <1>4 DEF IInv, NamesExact, Opened
<1>6. Loading'
  <2>1. op.init => \A k \in DOMAIN items : Own(items[k]) \notin disk
    BY <1>1, <1>4 DEF Own, Files, Names
  <2> QED
    BY <1>1, <2>1 DEF IInv, Loading
<1> QED
  BY <1>2, <1>3, <1>5, <1>6 DEF IInv

-----------------------------------------------------------------------------
(* The steps that save *)

(* The item of a certificate that is yet to be saved. *)
LEMMA FreshFound ==
  ASSUME IInv, NEW c \in op.fresh, c.authorityKeyId # NoKeyId
  PROVE  LET i == IndexOf(c) IN
         /\ i \in DOMAIN items /\ items[i].cert = c /\ ~items[i].marked
         /\ \A k \in DOMAIN items : items[k].cert = c => k = i
<1> DEFINE i == IndexOf(c)
<1>1. PICK k \in DOMAIN items : items[k].cert = c /\ ~items[k].marked
  BY DEF IInv, FreshAdded
<1>2. i \in DOMAIN items /\ items[i].cert = c
  BY <1>1, IndexFound DEF IInv, TypeOK
<1> HIDE DEF i
<1>3. \A n \in DOMAIN items : items[n].cert = c => n = i
  BY <1>2 DEF IInv, InOrder, Distinct, Duplicate, SameKeys
<1> QED
  BY <1>1, <1>2, <1>3 DEF i

LEMMA StepSaveUnnamed ==
  ASSUME IInv, NEW c \in Certs, SaveUnnamed(c)
  PROVE  IInv'
<1>1. /\ op.at = "save" /\ c \in op.fresh /\ c.authorityKeyId = NoKeyId
      /\ op' \in Ops /\ op'.at = "save" /\ op'.init = op.init /\ op'.permanent = op.permanent
      /\ op'.fresh = op.fresh \ {c} /\ op'.files = op.files /\ op'.todo = op.todo
      /\ items' = items /\ initialized' = initialized /\ disk' = disk /\ failed' = failed /\ saved' = saved
  BY DEF IInv, TypeOK, Ops, SaveUnnamed
<1>2. TypeOK' /\ InOrder' /\ Phases' /\ Named' /\ FreshAdded' /\ SavedIsKept'
  BY <1>1 DEF IInv, TypeOK, InOrder, FilesApart, Marked, Phases, Named, FreshAdded, SavedIsKept
<1>3. FromList' /\ Loading'
  BY <1>1 DEF IInv, Phases, FromList, Loading
<1>4. NamesExact'
  BY <1>1 DEF IInv, NamesExact, Opened, Named
<1> QED
  BY <1>2, <1>3, <1>4 DEF IInv

(* What SaveFails and SaveOpen do alike: the item gets its file name. *)
LEMMA FreshNamed ==
  ASSUME IInv, NEW c \in op.fresh, c.authorityKeyId # NoKeyId, op.at = "save",
         items' = SetFile(items, IndexOf(c), "generated")
  PROVE  /\ items' \in Seq(Items) /\ InOrder'
         /\ DOMAIN items' = DOMAIN items
         /\ \A k \in DOMAIN items : items'[k].cert = items[k].cert /\ items'[k].marked = items[k].marked
         /\ \A k \in DOMAIN items : items[k].cert # c => items'[k] = items[k]
         /\ \A k \in DOMAIN items : items[k].cert = c => items'[k].file = "generated"
<1> DEFINE i == IndexOf(c)
<1>1. /\ i \in DOMAIN items /\ items[i].cert = c /\ ~items[i].marked
      /\ \A k \in DOMAIN items : items[k].cert = c => k = i
  BY FreshFound
<1>2. items \in Seq(Items) /\ "generated" \in Names
  BY DEF IInv, TypeOK, Names
<1> HIDE DEF i
<1>3. items' = SetFile(items, i, "generated")
  BY DEF i
<1>4. InOrder'
  BY <1>1, <1>2, <1>3, NamedInOrder DEF IInv
<1>5. /\ items' \in Seq(Items) /\ DOMAIN items' = DOMAIN items
      /\ \A k \in DOMAIN items \ {i} : items'[k] = items[k]
      /\ items'[i].file = "generated"
      /\ \A k \in DOMAIN items : items'[k].cert = items[k].cert /\ items'[k].marked = items[k].marked
  BY <1>1, <1>2, <1>3, FileSet
<1> QED
  BY <1>1, <1>4, <1>5

LEMMA StepSaveFails ==
  ASSUME IInv, NEW c \in Certs, SaveFails(c)
  PROVE  IInv'
<1>1. /\ op.at = "save" /\ c \in op.fresh /\ c.authorityKeyId # NoKeyId
      /\ op' \in Ops /\ op'.at = "save" /\ op'.init = op.init /\ op'.permanent = op.permanent
      /\ op'.fresh = op.fresh \ {c} /\ op'.files = op.files /\ op'.todo = op.todo
      /\ initialized' = initialized /\ disk' = disk /\ failed' /\ saved' = saved
  BY DEF IInv, TypeOK, Ops, SaveFails
<1>2. failed' = TRUE
  BY DEF SaveFails
<1>3. /\ items' \in Seq(Items) /\ InOrder'
      /\ DOMAIN items' = DOMAIN items
      /\ \A k \in DOMAIN items : items'[k].cert = items[k].cert /\ items'[k].marked = items[k].marked
      /\ \A k \in DOMAIN items : items[k].cert # c => items'[k] = items[k]
      /\ \A k \in DOMAIN items : items[k].cert = c => items'[k].file = "generated"
  BY <1>1, FreshNamed DEF SaveFails
<1>4. TypeOK' /\ Phases' /\ FreshAdded' /\ SavedIsKept'
  BY <1>1, <1>2, <1>3 DEF IInv, TypeOK, Phases, FreshAdded, SavedIsKept
<1>5. FromList' /\ Loading' /\ NamesExact'
  BY <1>1 DEF IInv, Phases, FromList, Loading, NamesExact
<1>6. Named'
  BY <1>1, <1>3 DEF IInv, Named
<1> QED
  BY <1>3, <1>4, <1>5, <1>6 DEF IInv

LEMMA StepSaveOpen ==
  ASSUME IInv, NEW c \in Certs, SaveOpen(c)
  PROVE  IInv'
<1>1. /\ op.at = "save" /\ c \in op.fresh /\ c.authorityKeyId # NoKeyId /\ op.files = {} /\ ~op.init
      /\ op' = op /\ initialized' = initialized /\ failed' = failed
      /\ disk' = disk \ {[cert |-> c, name |-> "generated"]}
      /\ saved' = {d \in saved : ~Duplicate(d, c)}
  BY DEF IInv, Phases, SaveOpen
<1>2. /\ items' \in Seq(Items) /\ InOrder'
      /\ DOMAIN items' = DOMAIN items
      /\ \A k \in DOMAIN items : items'[k].cert = items[k].cert /\ items'[k].marked = items[k].marked
      /\ \A k \in DOMAIN items : items[k].cert # c => items'[k] = items[k]
      /\ \A k \in DOMAIN items : items[k].cert = c => items'[k].file = "generated"
  BY <1>1, FreshNamed DEF SaveOpen
<1>3. TypeOK' /\ Phases' /\ FromList' /\ FreshAdded' /\ Loading'
  BY <1>1, <1>2 DEF IInv, TypeOK, Phases, FromList, FreshAdded, Loading
<1>4. Named'
  BY <1>1, <1>2 DEF IInv, Named
<1>5. NamesExact'
  <2> SUFFICES ASSUME ~failed, NEW k \in DOMAIN items', items'[k].file # "none"
               PROVE  Own(items'[k]) \in disk' \/ Opened(items'[k])
    BY <1>1 DEF NamesExact, Opened
  <2>1. CASE items[k].cert = c
    BY <1>1, <1>2, <2>1 DEF Opened
  <2>2. CASE items[k].cert # c
    BY <1>1, <1>2, <2>2 DEF IInv, NamesExact, Opened, Own
  <2> QED
    BY <2>1, <2>2
<1>6. SavedIsKept'
  <2> SUFFICES ASSUME NEW d \in saved, ~Duplicate(d, c), ~Configured(d)
               PROVE  \E f \in disk' : Duplicate(f.cert, d)
    BY <1>1 DEF SavedIsKept, Configured
  <2>1. PICK f \in disk : Duplicate(f.cert, d)
    BY DEF IInv, SavedIsKept
  <2>2. f.cert # c
    BY <2>1 DEF Duplicate, SameKeys
  <2> QED
    BY <1>1, <2>1, <2>2
<1> QED
  BY <1>2, <1>3, <1>4, <1>5, <1>6 DEF IInv

LEMMA StepSaveWrite ==
  ASSUME IInv, NEW c \in Certs, SaveWrite(c)
  PROVE  IInv'
<1> DEFINE file == [cert |-> c, name |-> "generated"]
<1>1. /\ op.at = "save" /\ c \in op.fresh /\ op.files = {} /\ ~op.init
      /\ op' \in Ops /\ op'.at = "save" /\ op'.init = op.init /\ op'.permanent = op.permanent
      /\ op'.fresh = op.fresh \ {c} /\ op'.files = op.files /\ op'.todo = op.todo
      /\ initialized' = initialized /\ items' = items
  BY DEF IInv, TypeOK, Ops, Phases, SaveWrite
<1>2. PICK ok \in BOOLEAN : /\ failed' = (failed \/ ~ok)
                            /\ disk' = IF ok THEN disk \cup {file} ELSE disk
                            /\ saved' = IF ok THEN saved \cup {c} ELSE saved
  BY DEF SaveWrite
<1>3. c.authorityKeyId # NoKeyId
  <2>1. PICK k \in DOMAIN items : items[k].cert = c
    BY <1>1 DEF IInv, FreshAdded
  <2>2. IndexOf(c) \in DOMAIN items /\ items[IndexOf(c)].cert = c
    BY <2>1, IndexFound DEF IInv, TypeOK
  <2>3. items[IndexOf(c)].file = "generated"
    BY DEF SaveWrite
  <2> QED
    BY <2>2, <2>3 DEF IInv, Named
<1>4. file \in Files /\ file.cert = c
  BY DEF Files, Names
<1>5. \A k \in DOMAIN items : items[k].cert = c /\ items[k].file = "generated" => Own(items[k]) = file
  BY DEF Own
<1>6. Duplicate(c, c)
  BY <1>3 DEF Duplicate, SameKeys
<1>7. \A f \in disk' \ disk : f.cert = c
  BY <1>2, <1>4
<1> HIDE DEF file
<1>8. TypeOK' /\ InOrder' /\ Phases' /\ FreshAdded'
  BY <1>1, <1>2, <1>4 DEF IInv, TypeOK, InOrder, FilesApart, Marked, Phases, FreshAdded
<1>9. FromList' /\ Loading'
  BY <1>1 DEF FromList, Loading
<1>10. Named'
  BY <1>1, <1>2, <1>3, <1>7 DEF IInv, Named
<1>11. NamesExact'
  BY <1>1, <1>2, <1>5 DEF IInv, NamesExact, Opened
<1>12. SavedIsKept'
  <2> SUFFICES ASSUME NEW d \in saved', ~Configured(d) PROVE \E f \in disk' : Duplicate(f.cert, d)
    BY DEF SavedIsKept, Configured
  <2>1. CASE d \in saved
    BY <1>2, <2>1 DEF IInv, SavedIsKept
  <2>2. CASE d \notin saved
    BY <1>2, <1>4, <1>6, <2>2
  <2> QED
    BY <2>1, <2>2
<1> QED
  BY <1>8, <1>9, <1>10, <1>11, <1>12 DEF IInv

LEMMA StepSaveDone ==
  ASSUME IInv, SaveDone
  PROVE  IInv'
<1>1. /\ op.at = "save" /\ op.fresh = {} /\ op' = Idle /\ Idle \in Ops
      /\ items' = items /\ initialized' = initialized /\ disk' = disk /\ failed' = failed /\ saved' = saved
  BY DEF SaveDone, Idle, Ops, OpKinds
<1>2. Idle.at = "idle" /\ ~Idle.init /\ Idle.files = {} /\ Idle.fresh = {}
  BY DEF Idle
<1>3. TypeOK' /\ InOrder' /\ Named' /\ SavedIsKept'
  BY <1>1 DEF IInv, TypeOK, InOrder, FilesApart, Marked, Named, SavedIsKept
<1>4. Phases' /\ FromList' /\ Loading' /\ FreshAdded'
  BY <1>1, <1>2 DEF Phases, FromList, Loading, FreshAdded
<1>5. NamesExact'
  BY <1>1, <1>2 DEF IInv, NamesExact, Opened
<1> QED
  BY <1>3, <1>4, <1>5 DEF IInv

-----------------------------------------------------------------------------
(* The steps that load *)

LEMMA StepLoadFile ==
  ASSUME IInv, NEW f \in Files, LoadFile(f)
  PROVE  IInv'
<1> DEFINE it == NewItem(f.cert, FALSE, FALSE, f.name)
           dup == FirstDuplicate(items, f.cert)
<1>1. /\ op.at = "load" /\ op.init /\ f \in op.files /\ f \in disk
      /\ op' \in Ops /\ op'.at = "load" /\ op'.init = op.init /\ op'.permanent = op.permanent
      /\ op'.fresh = op.fresh /\ op'.files = op.files \ {f} /\ op'.todo = op.todo
      /\ items' = addItem(items, it) /\ initialized' = initialized /\ saved' = saved
      /\ op.fresh = {} /\ items \in Seq(Items) /\ disk \subseteq Files
  BY DEF IInv, TypeOK, Ops, Phases, Loading, LoadFile
<1>2. /\ it \in Items /\ it.cert = f.cert /\ it.file = f.name /\ ~it.marked
      /\ Own(it) = f /\ it.file # "none"
  BY DEF Own, NewItem, Items, Files, Names
<1>3. \/ dup = 0 /\ disk' = disk /\ failed' = failed
      \/ dup # 0 /\ disk' = disk /\ failed' = TRUE
      \/ dup # 0 /\ disk' = disk \ {f} /\ failed' = failed
  <2>1. \/ dup = 0 /\ disk' = disk /\ failed' = failed
        \/ dup # 0 /\ \E ok \in BOOLEAN : /\ failed' = (failed \/ ~ok)
                                          /\ disk' = IF ok THEN disk \ {f} ELSE disk
    BY DEF LoadFile
  <2> HIDE DEF dup
  <2> QED
    BY <2>1 DEF IInv, TypeOK
<1>4. \A k \in DOMAIN items : Own(items[k]) # f
  BY <1>1 DEF IInv, Loading
<1> HIDE DEF it
<1>5. items' \in Seq(Items) /\ Grown(items, it, items')
  BY <1>1, <1>2, StoreGrown
<1>6. dup # 0 => dup \in DOMAIN items /\ Duplicate(items[dup].cert, f.cert)
  BY <1>1, DuplicateFound
<1> HIDE DEF dup
<1>7. /\ \A k \in DOMAIN items : /\ k \in DOMAIN items' /\ items'[k].cert = items[k].cert
                                 /\ items'[k].file = items[k].file /\ Own(items'[k]) = Own(items[k])
      /\ \A k \in DOMAIN items' : k \in DOMAIN items \/
           (items'[k].cert = f.cert /\ items'[k].file = f.name /\ Own(items'[k]) = f /\ dup = 0)
      /\ dup = 0 => \E k \in DOMAIN items' : items'[k].cert = f.cert /\ Own(items'[k]) = f
  BY <1>2, <1>5 DEF Grown, Alike, dup, Own
<1>8. TypeOK' /\ Phases' /\ FreshAdded'
  BY <1>1, <1>3, <1>5 DEF IInv, TypeOK, Phases, FreshAdded
<1>9. InOrder'
  BY <1>1, <1>2, <1>4, GrownInOrder DEF IInv
<1>10. FromList'
  BY <1>1, <1>2, <1>7 DEF IInv, FromList, Configured
<1>11. NamesExact'
  <2>1. \A k \in DOMAIN items : items[k].file # "none" => Own(items[k]) \in disk
    BY <1>1 DEF IInv, NamesExact, Opened
  <2>2. \A k \in DOMAIN items' : items'[k].file # "none" => Own(items'[k]) \in disk'
    BY <1>1, <1>3, <1>4, <1>7, <2>1
  <2> QED
    BY <2>2 DEF NamesExact
<1>12. Named'
  <2>1. f.name = "generated" => f.cert.authorityKeyId # NoKeyId
    BY <1>1 DEF IInv, Named
  <2> QED
    BY <1>1, <1>3, <1>7, <2>1 DEF IInv, Named
<1>13. Loading'
  <2>1. op'.files \subseteq disk'
    BY <1>1, <1>3 DEF IInv, Loading
  <2>2. \A k \in DOMAIN items' : Own(items'[k]) \notin op'.files
    BY <1>1, <1>7 DEF IInv, Loading
  <2>3. ASSUME NEW g \in disk' \ op'.files
        PROVE  /\ \E k \in DOMAIN items' : items'[k].cert = g.cert \/ Duplicate(items'[k].cert, g.cert)
               /\ ~failed' => \E k \in DOMAIN items' : Own(items'[k]) = g
    <3>1. CASE g = f
      BY <1>1, <1>3, <1>6, <1>7, <3>1
    <3>2. CASE g # f
      <4>1. g \in disk \ op.files /\ (~failed' => ~failed)
        BY <1>1, <1>3, <3>2
      <4>2. PICK k \in DOMAIN items : items[k].cert = g.cert \/ Duplicate(items[k].cert, g.cert)
        BY <1>1, <4>1 DEF IInv, Loading
      <4>3. ~failed => \E n \in DOMAIN items : Own(items[n]) = g
        BY <1>1, <4>1 DEF IInv, Loading
      <4> QED
        BY <1>7, <4>1, <4>2, <4>3
    <3> QED
      BY <3>1, <3>2
  <2> QED
    BY <2>1, <2>2, <2>3 DEF Loading
<1>14. SavedIsKept'
  <2> SUFFICES ASSUME NEW c \in saved, ~Configured(c) PROVE \E g \in disk' : Duplicate(g.cert, c)
    BY <1>1 DEF SavedIsKept, Configured
  <2>1. PICK g \in disk : Duplicate(g.cert, c)
    BY DEF IInv, SavedIsKept
  <2>2. CASE g \in disk'
    BY <2>1, <2>2
  <2>3. CASE g \notin disk'
    <3>1. g = f /\ dup # 0 /\ disk' = disk \ {f}
      BY <1>3, <2>1, <2>3
    <3>2. Duplicate(items[dup].cert, c) /\ c \in Certs
      BY <1>6, <2>1, <3>1 DEF Duplicate, SameKeys, IInv, TypeOK
    <3>3. items[dup].file # "none"
      BY <1>1, <1>6, <3>1, <3>2 DEF IInv, FromList
    <3>4. Own(items[dup]) \in disk /\ Own(items[dup]) # f /\ Own(items[dup]).cert = items[dup].cert
      BY <1>1, <1>4, <1>6, <3>1, <3>3 DEF IInv, NamesExact, Opened, Own
    <3> QED
      BY <3>1, <3>2, <3>4
  <2> QED
    BY <2>2, <2>3
<1> QED
  BY <1>8, <1>9, <1>10, <1>11, <1>12, <1>13, <1>14 DEF IInv

LEMMA StepLoadDone ==
  ASSUME IInv, LoadDone
  PROVE  IInv'
<1>1. /\ op.at = "load" /\ op.files = {} /\ op' \in Ops /\ op'.at = "rename" /\ op'.init = op.init
      /\ op'.permanent = op.permanent /\ op'.fresh = op.fresh /\ op'.files = {} /\ op'.todo = op.todo
      /\ items' = items /\ initialized' = initialized /\ disk' = disk /\ failed' = failed /\ saved' = saved
  BY DEF IInv, TypeOK, Ops, OpKinds, LoadDone
<1>2. TypeOK' /\ InOrder' /\ Named' /\ SavedIsKept' /\ FreshAdded'
  BY <1>1 DEF IInv, TypeOK, InOrder, FilesApart, Marked, Named, SavedIsKept, FreshAdded
<1>3. Phases' /\ FromList' /\ Loading'
  BY <1>1 DEF IInv, Phases, FromList, Loading, Configured
<1>4. NamesExact'
  BY <1>1 DEF IInv, NamesExact, Opened
<1> QED
  BY <1>2, <1>3, <1>4 DEF IInv

LEMMA StepRenameFile ==
  ASSUME IInv, NEW i \in DOMAIN items, RenameFile(i)
  PROVE  IInv'
<1> DEFINE c == items[i].cert
           old == [cert |-> c, name |-> "other"]
           file == [cert |-> c, name |-> "generated"]
<1>1. /\ op.at = "rename" /\ op.init /\ op.files = {} /\ op.fresh = {}
      /\ items[i].file = "other" /\ c.authorityKeyId # NoKeyId
      /\ items' = SetFile(items, i, "generated") /\ disk' = (disk \ {old}) \cup {file}
      /\ op' = op /\ initialized' = initialized /\ failed' = failed /\ saved' = saved
      /\ items \in Seq(Items) /\ items[i] \in Items /\ ~items[i].marked
  BY DEF IInv, TypeOK, InOrder, Marked, Phases, Renamable, RenameFile
<1>2. Own(items[i]) = old /\ old.cert = c /\ file.cert = c /\ file # old /\ file \in Files
  BY <1>1 DEF Own, Files, Names, Items
<1>3. /\ items' \in Seq(Items) /\ DOMAIN items' = DOMAIN items
      /\ \A k \in DOMAIN items \ {i} : items'[k] = items[k]
      /\ items'[i].file = "generated"
      /\ \A k \in DOMAIN items : items'[k].cert = items[k].cert /\ items'[k].marked = items[k].marked
  <2>1. "generated" \in Names
    BY DEF Names
  <2> QED
    BY <1>1, <2>1, FileSet
<1>4. Own(items'[i]) = file /\ items'[i].cert = c
  BY <1>3 DEF Own
<1> HIDE DEF c, old, file
<1>5. \A k \in DOMAIN items \ {i} : Own(items[k]) # old
  BY <1>1, <1>2 DEF IInv, InOrder, FilesApart
<1>6. TypeOK'
  BY <1>1, <1>2, <1>3 DEF IInv, TypeOK
<1>7. InOrder'
  BY <1>1, NamedInOrder DEF IInv, c
<1>8. Phases' /\ FreshAdded'
  BY <1>1 DEF IInv, Phases, FreshAdded
<1>9. FromList'
  BY <1>1, <1>3 DEF IInv, FromList, Configured
<1>10. NamesExact'
  <2>1. \A k \in DOMAIN items : items[k].file # "none" => Own(items[k]) \in disk
    BY <1>1 DEF IInv, NamesExact, Opened
  <2>2. \A k \in DOMAIN items' : items'[k].file # "none" => Own(items'[k]) \in disk'
    BY <1>1, <1>3, <1>4, <1>5, <2>1
  <2> QED
    BY <2>2 DEF NamesExact
<1>11. Named'
  BY <1>1, <1>2, <1>3, <1>4 DEF IInv, Named
<1>12. Loading'
  <2>1. ASSUME NEW f \in disk' \ op'.files
        PROVE  /\ \E k \in DOMAIN items' : items'[k].cert = f.cert \/ Duplicate(items'[k].cert, f.cert)
               /\ ~failed' => \E k \in DOMAIN items' : Own(items'[k]) = f
    <3>1. CASE f = file
      BY <1>2, <1>3, <1>4, <3>1
    <3>2. CASE f # file
      <4>1. f \in disk \ op.files /\ f # old
        BY <1>1, <3>2
      <4>2. PICK k \in DOMAIN items : items[k].cert = f.cert \/ Duplicate(items[k].cert, f.cert)
        BY <1>1, <4>1 DEF IInv, Loading
      <4>3. ~failed => \E n \in DOMAIN items : Own(items[n]) = f
        BY <1>1, <4>1 DEF IInv, Loading
      <4>4. ~failed => \E n \in DOMAIN items' : Own(items'[n]) = f
        BY <1>2, <1>3, <4>1, <4>3
      <4> QED
        BY <1>1, <1>3, <4>2, <4>4
    <3> QED
      BY <3>1, <3>2
  <2> QED
    BY <1>1, <2>1 DEF Loading
<1>13. SavedIsKept'
  BY <1>1, <1>2 DEF IInv, SavedIsKept, Configured
<1> QED
  BY <1>6, <1>7, <1>8, <1>9, <1>10, <1>11, <1>12, <1>13 DEF IInv

LEMMA StepInitDone ==
  ASSUME IInv, InitDone
  PROVE  IInv'
<1>1. /\ op.at = "rename" /\ op' = Idle /\ Idle \in Ops /\ initialized' = TRUE
      /\ failed' \in BOOLEAN /\ (~failed' => ~failed)
      /\ items' = items /\ disk' = disk /\ saved' = saved
  <2>1. failed \in BOOLEAN /\ failed' = (failed \/ Renamable # {})
    BY DEF IInv, TypeOK, InitDone
  <2>2. failed' \in BOOLEAN /\ (~failed' => ~failed)
    <3> HIDE DEF Renamable
    <3> QED
      BY <2>1
  <2> QED
    BY <2>2 DEF InitDone, Idle, Ops, OpKinds
<1>2. Idle.at = "idle" /\ ~Idle.init /\ Idle.files = {} /\ Idle.fresh = {}
  BY DEF Idle
<1>3. TypeOK' /\ InOrder' /\ Named' /\ SavedIsKept'
  BY <1>1 DEF IInv, TypeOK, InOrder, FilesApart, Marked, Named, SavedIsKept
<1>4. Phases' /\ FromList' /\ Loading' /\ FreshAdded'
  BY <1>1, <1>2 DEF Phases, FromList, Loading, FreshAdded
<1>5. NamesExact'
  BY <1>1, <1>2 DEF IInv, NamesExact, Opened
<1> QED
  BY <1>3, <1>4, <1>5 DEF IInv

-----------------------------------------------------------------------------
(* The steps that remove *)

(* A part of the store, and no operation in progress. *)
LEMMA PartKept ==
  ASSUME IInv, op = Idle, op' = Idle, initialized' = initialized, failed' \in BOOLEAN, disk' \subseteq disk,
         saved' \subseteq saved, items' \in Seq(Items),
         NEW places \in SUBSET DOMAIN items, Part(items', items, places),
         ~failed' => ~failed /\ \A k \in places : Own(items[k]) \in disk => Own(items[k]) \in disk',
         \A c \in saved' : \A f \in disk \ disk' : ~Duplicate(f.cert, c)
  PROVE  IInv'
<1>1. Idle \in Ops /\ Idle.at = "idle" /\ ~Idle.init /\ Idle.files = {} /\ Idle.fresh = {}
  BY DEF Idle, Ops, OpKinds
<1>2. TypeOK'
  BY <1>1 DEF IInv, TypeOK
<1>3. InOrder'
  BY PartInOrder DEF IInv, TypeOK
<1>4. Phases' /\ FromList' /\ Loading' /\ FreshAdded'
  BY <1>1 DEF IInv, Phases, FromList, Loading, FreshAdded
<1>5. PICK e \in [DOMAIN items' -> places] : \A j \in DOMAIN items' : items'[j] = items[e[j]]
  BY DEF Part
<1>6. NamesExact'
  BY <1>1, <1>5 DEF IInv, NamesExact, Opened
<1>7. Named'
  BY <1>5 DEF IInv, Named
<1>8. SavedIsKept'
  BY DEF IInv, SavedIsKept, Configured
<1> QED
  BY <1>2, <1>3, <1>4, <1>6, <1>7, <1>8 DEF IInv

LEMMA StepRemove ==
  ASSUME IInv, NEW i \in DOMAIN items, NEW permanent \in BOOLEAN, uapki_remove_cert(i, permanent)
  PROVE  IInv'
<1> DEFINE it == items[i]
           f == [cert |-> it.cert, name |-> it.file]
           places == DOMAIN items \ {i}
<1>1. PICK ok \in {TRUE, ~permanent \/ it.file = "none"} :
        /\ failed' = (failed \/ ~ok)
        /\ disk' = IF permanent /\ ok THEN disk \ {f} ELSE disk
        /\ saved' = IF permanent THEN {c \in saved : ~Duplicate(c, it.cert)} ELSE saved
  BY DEF uapki_remove_cert
<1>2. op = Idle /\ op' = Idle /\ initialized' = initialized /\ items' = RemoveAt(items, i)
  BY DEF uapki_remove_cert
<1>3. f = Own(items[i]) /\ f.cert = it.cert
  BY DEF Own
<1>4. items' \in Seq(Items) /\ Part(items', items, places)
  BY <1>2, RemovedPart DEF IInv, TypeOK
<1>5. ASSUME NEW k \in places, Own(items[k]) \in disk PROVE Own(items[k]) \in disk'
  <2>1. items[k].file # "none"
    BY <1>5 DEF IInv, TypeOK, Files, Names, Own
  <2>2. Own(items[k]) # f
    BY <1>3, <2>1 DEF IInv, InOrder, FilesApart
  <2> QED
    BY <1>1, <1>5, <2>2
<1>6. ASSUME NEW c \in saved', NEW g \in disk \ disk' PROVE ~Duplicate(g.cert, c)
  <2>1. permanent /\ g = f
    BY <1>1, <1>6
  <2> QED
    BY <1>1, <1>3, <2>1 DEF Duplicate, SameKeys
<1> HIDE DEF it, f
<1>7. failed' \in BOOLEAN /\ disk' \subseteq disk /\ saved' \subseteq saved /\ (~failed' => ~failed)
  BY <1>1
<1> HIDE DEF places
<1>8. places \in SUBSET DOMAIN items
  BY DEF places
<1> QED
  BY <1>2, <1>4, <1>5, <1>6, <1>7, <1>8, PartKept

LEMMA StepRemoveMarked ==
  ASSUME IInv, removeMarkedCerts
  PROVE  IInv'
<1> DEFINE places == {k \in DOMAIN items : ~items[k].marked}
<1>1. /\ op = Idle /\ op' = Idle /\ initialized' = initialized /\ items' = Remaining(items, places)
      /\ disk' = disk /\ failed' = failed /\ saved' = saved
  BY DEF removeMarkedCerts
<1>2. places \in SUBSET DOMAIN items /\ items \in Seq(Items) /\ failed \in BOOLEAN
  BY DEF IInv, TypeOK
<1> HIDE DEF places
<1>3. items' \in Seq(Items) /\ Part(items', items, places)
  BY <1>1, <1>2, RemainingPart
<1> QED
  BY <1>1, <1>2, <1>3, PartKept

(* DEINIT and a crash leave nothing in memory. *)
LEMMA StepEnds ==
  ASSUME IInv, uapki_deinit \/ Crash
  PROVE  IInv'
<1>1. Idle \in Ops /\ Idle.at = "idle" /\ ~Idle.init /\ Idle.files = {} /\ Idle.fresh = {}
  BY DEF Idle, Ops, OpKinds
<1>2. op' = Idle /\ items' = <<>> /\ initialized' = FALSE /\ disk' = disk /\ failed' = failed /\ saved' = saved
  BY DEF uapki_deinit, Crash
<1>3. InOrder'
  BY <1>2, EmptyInOrder
<1>4. TypeOK' /\ Named' /\ SavedIsKept'
  <2>1. items' \in Seq(Items)
    BY <1>2
  <2>2. TypeOK'
    BY <1>1, <1>2, <2>1 DEF IInv, TypeOK
  <2>3. Named' /\ SavedIsKept'
    BY <1>2 DEF IInv, Named, SavedIsKept, Configured
  <2> QED
    BY <2>2, <2>3
<1>5. Phases' /\ FromList' /\ Loading' /\ FreshAdded' /\ NamesExact'
  BY <1>1, <1>2 DEF Phases, FromList, Loading, FreshAdded, NamesExact
<1> QED
  BY <1>3, <1>4, <1>5 DEF IInv

-----------------------------------------------------------------------------
(* The invariant holds *)

LEMMA InvInit == Init => IInv
<1> SUFFICES ASSUME Init PROVE IInv
  OBVIOUS
<1>1. /\ initialized = FALSE /\ items = <<>> /\ op = Idle /\ failed = FALSE /\ saved = {}
      /\ disk \subseteq Files /\ \A f \in disk : f.name = "other"
  BY DEF Init, Files, Names
<1>2. Idle \in Ops /\ Idle.at = "idle" /\ ~Idle.init /\ Idle.files = {} /\ Idle.fresh = {}
  BY DEF Idle, Ops, OpKinds
<1>3. TypeOK
  <2>1. items \in Seq(Items)
    BY <1>1
  <2> QED
    BY <1>1, <1>2, <2>1 DEF TypeOK
<1>4. InOrder
  BY <1>1 DEF InOrder, Distinct, FlagsRight, FilesApart, Marked
<1>5. Phases /\ FromList /\ NamesExact /\ Named /\ Loading /\ FreshAdded /\ SavedIsKept
  BY <1>1, <1>2 DEF Phases, FromList, NamesExact, Named, Loading, FreshAdded, SavedIsKept
<1> QED
  BY <1>3, <1>4, <1>5 DEF IInv

LEMMA InvStep == IInv /\ [Next]_vars => IInv'
<1> SUFFICES ASSUME IInv, [Next]_vars PROVE IInv'
  OBVIOUS
<1>1. CASE \E list \in TrustedLists : uapki_init(list)
  BY <1>1, StepInit
<1>2. CASE \E batch \in Batches, permanent \in BOOLEAN : uapki_add_cert(batch, permanent)
  BY <1>2, StepAdd
<1>3. CASE AddStep
  BY <1>3, StepAddStep
<1>4. CASE AddDone
  BY <1>4, StepAddDone
<1>5. CASE SaveDone
  BY <1>5, StepSaveDone
<1>6. CASE LoadDone
  BY <1>6, StepLoadDone
<1>7. CASE InitDone
  BY <1>7, StepInitDone
<1>8. CASE \E c \in Certs : SaveUnnamed(c)
  BY <1>8, StepSaveUnnamed
<1>9. CASE \E c \in Certs : SaveFails(c)
  BY <1>9, StepSaveFails
<1>10. CASE \E c \in Certs : SaveOpen(c)
  BY <1>10, StepSaveOpen
<1>11. CASE \E c \in Certs : SaveWrite(c)
  BY <1>11, StepSaveWrite
<1>12. CASE \E f \in Files : LoadFile(f)
  BY <1>12, StepLoadFile
<1>13. CASE \E i \in DOMAIN items : RenameFile(i)
  BY <1>13, StepRenameFile
<1>14. CASE \E i \in DOMAIN items, permanent \in BOOLEAN : uapki_remove_cert(i, permanent)
  BY <1>14, StepRemove
<1>15. CASE removeMarkedCerts
  BY <1>15, StepRemoveMarked
<1>16. CASE uapki_deinit \/ Crash
  BY <1>16, StepEnds
<1>17. CASE UNCHANGED vars
  BY <1>17 DEF vars, IInv, TypeOK, InOrder, FilesApart, Marked, Phases, FromList, NamesExact, Opened, Named,
               Loading, FreshAdded, SavedIsKept, Configured
<1> QED
  BY <1>1, <1>2, <1>3, <1>4, <1>5, <1>6, <1>7, <1>8, <1>9, <1>10, <1>11, <1>12, <1>13, <1>14, <1>15,
     <1>16, <1>17 DEF Next, AddAndLoad

(* The inductive invariant. *)
THEOREM Invariant == Spec => []IInv
BY InvInit, InvStep, PTL DEF Spec

(* CerStore never has two items for the same keys and notBefore, never a   *)
(* flag that ends getCertByKeyId's search too early, never the name of a   *)
(* file with another certificate - whatever lists, files and ADD_CERT      *)
(* requests filled it, over any sessions, failures and crashes.            *)
THEOREM StoreStaysConsistent == Spec => []StoreConsistent
<1>1. IInv => StoreConsistent
  <2> SUFFICES ASSUME IInv PROVE StoreConsistent
    OBVIOUS
  <2>1. TypeOK
    BY DEF IInv
  <2>2. NoDuplicates
    BY DEF IInv, InOrder, Distinct, NoDuplicates
  <2>3. UniqueFlagSound
    BY DEF IInv, InOrder, FlagsRight, UniqueFlagSound
  <2>4. FileNamesExact
    BY DEF IInv, NamesExact, Opened, Own, FileNamesExact
  <2> QED
    BY <2>1, <2>2, <2>3, <2>4 DEF StoreConsistent
<1> QED
  BY <1>1, Invariant, PTL

(* In every store the program can have getCertByKeyId finds a certificate  *)
(* of the key whenever there is one, the newest of its authority.          *)
THEOREM KeyIdSearchFindsNewest == Spec => []KeyIdFindsNewest
<1>1. IInv => KeyIdFindsNewest
  <2> SUFFICES ASSUME IInv, NEW m \in DOMAIN items
               PROVE  LET n == getCertByKeyId(items, items[m].cert.keyId, 0) IN
                      /\ n # 0
                      /\ items[n].cert.keyId = items[m].cert.keyId
                      /\ \A i \in DOMAIN items :
                           SameKeys(items[i].cert, items[n].cert) =>
                             items[i].cert.notBefore <= items[n].cert.notBefore
    BY DEF KeyIdFindsNewest
  <2>1. items \in Seq(Items) /\ FlagsRight(items)
    BY DEF IInv, TypeOK, InOrder
  <2>2. items[m].cert.keyId # NoKeyId
    <3>1. items[m] \in Items
      BY <2>1
    <3>2. items[m].cert \in Certs
      BY <3>1 DEF Items
    <3> QED
      BY <3>2, CertsAssumption
  <2>3. 0 \notin DOMAIN items
    BY <2>1
  <2> QED
    BY <2>1, <2>2, <2>3, ItemsFlagged, LookupFindsNewest
<1> QED
  BY <1>1, Invariant, PTL

(* No session, failing file operation or crash loses a certificate that    *)
(* ADD_CERT with permanent=true saved: until it is removed, a file of it   *)
(* is in the directory (or INIT gets the certificate as a trusted one).    *)
THEOREM SavedStaysSaved == Spec => []SavedIsKept
<1>1. IInv => SavedIsKept
  BY DEF IInv
<1> QED
  BY <1>1, Invariant, PTL

(* An INIT that succeeds has found every saved certificate. *)
THEOREM SavedGetsLoaded == Spec => SavedIsLoaded
<1>1. IInv /\ [Next]_vars =>
        [~initialized /\ initialized' =>
           \A c \in saved : Configured(c) \/ \E i \in DOMAIN items : Duplicate(items[i].cert, c)]_vars
  <2> SUFFICES ASSUME IInv, [Next]_vars, ~initialized, initialized', NEW c \in saved, ~Configured(c)
               PROVE  \E i \in DOMAIN items : Duplicate(items[i].cert, c)
    OBVIOUS
  <2>1. op.at = "rename"
    BY DEF Next, AddAndLoad, uapki_init, uapki_add_cert, AddStep, AddDone, SaveUnnamed, SaveFails, SaveOpen,
           SaveWrite, SaveDone, LoadFile, LoadDone, RenameFile, InitDone, uapki_remove_cert,
           removeMarkedCerts, uapki_deinit, Crash, vars
  <2>2. PICK f \in disk : Duplicate(f.cert, c)
    BY DEF IInv, SavedIsKept
  <2>3. PICK i \in DOMAIN items : items[i].cert = f.cert \/ Duplicate(items[i].cert, f.cert)
    BY <2>1, <2>2 DEF IInv, Phases, Loading
  <2> QED
    BY <2>2, <2>3 DEF Duplicate, SameKeys
<1> QED
  BY <1>1, Invariant, PTL DEF Spec, SavedIsLoaded

(* REMOVE_CERT without a certificate takes away only temporary ones: what  *)
(* is trusted, saved in this session or loaded from a file stays.          *)
THEOREM OnlyTemporaryRemoved == Spec => TemporaryOnly
<1>1. IInv /\ [Next]_vars =>
        [removeMarkedCerts =>
           \A i \in DOMAIN items :
             items[i].trusted \/ items[i].file # "none" => \E j \in DOMAIN items' : items'[j] = items[i]]_vars
  <2> SUFFICES ASSUME IInv, removeMarkedCerts, NEW i \in DOMAIN items, items[i].trusted \/ items[i].file # "none"
               PROVE  \E j \in DOMAIN items' : items'[j] = items[i]
    OBVIOUS
  <2> DEFINE places == {k \in DOMAIN items : ~items[k].marked}
  <2>1. i \in places
    BY DEF IInv, InOrder, Marked
  <2>2. Part(items', items, places)
    BY RemainingPart DEF removeMarkedCerts, IInv, TypeOK
  <2> HIDE DEF places
  <2> QED
    BY <2>1, <2>2 DEF Part
<1> QED
  BY <1>1, Invariant, PTL DEF Spec, TemporaryOnly

(* INIT leaves one file for each certificate if no file operation has      *)
(* failed so far.                                                          *)
THEOREM LoadingNormalises == Spec => LoadNormalises
<1>1. IInv /\ [Next]_vars =>
        [op.at = "rename" /\ op'.at = "idle" /\ initialized' /\ ~failed' =>
           \A f, g \in disk : Duplicate(f.cert, g.cert) => f = g]_vars
  <2> SUFFICES ASSUME IInv, [Next]_vars, op.at = "rename", op'.at = "idle", initialized', ~failed',
                      NEW f \in disk, NEW g \in disk, Duplicate(f.cert, g.cert)
               PROVE  f = g
    OBVIOUS
  <2>1. ~failed
    <3>1. InitDone
      BY DEF Next, AddAndLoad, uapki_init, uapki_add_cert, AddStep, AddDone, SaveUnnamed, SaveFails, SaveOpen,
             SaveWrite, SaveDone, LoadFile, LoadDone, RenameFile, uapki_remove_cert,
             removeMarkedCerts, uapki_deinit, Crash, vars, Idle
    <3> QED
      BY <3>1 DEF InitDone
  <2>2. op.files = {}
    BY DEF IInv, Phases
  <2>3. PICK j \in DOMAIN items : Own(items[j]) = f
    BY <2>1, <2>2 DEF IInv, Loading
  <2>4. PICK k \in DOMAIN items : Own(items[k]) = g
    BY <2>1, <2>2 DEF IInv, Loading
  <2>5. j = k
    BY <2>3, <2>4 DEF IInv, InOrder, Distinct, Own
  <2> QED
    BY <2>3, <2>4, <2>5
<1> QED
  BY <1>1, Invariant, PTL DEF Spec, LoadNormalises
=============================================================================
