------------------------- MODULE ResultSheetsProofs -------------------------
(***************************************************************************)
(* The shards of a search write to sheets that are theirs alone, copy to   *)
(* places apart from each other and lose nothing, for any number of        *)
(* shards, sheets and matches, until the queue of sheets is left; and it   *)
(* is left only when more shards find something than there are sheets.     *)
(***************************************************************************)
EXTENDS ResultSheets, FiniteSetTheorems, TLAPS

\* A sheet is held by at most one shard or waits once in the queue; the sheets
\* from global_index_counter on are untouched.
OwnersInv ==
    /\ \A t \in Shard : sheet[t] # None => sheet[t] < global_index_counter
    /\ \A t, u \in Shard : sheet[t] = sheet[u] /\ sheet[t] # None => t = u
    /\ \A q \in Sheet : queue[q] # None => queue[q] < global_index_counter
    /\ \A q \in Waiting : \A t \in Shard : sheet[t] # queue[q]
    /\ \A q, r \in Waiting : queue[q] = queue[r] => q = r

Ended == {t \in Finders : stage[t] \in {"store", "done"}}

\* A place of the queue is given to one shard, is empty until that shard stores
\* its sheet, and no reader gets past it before.
QueueInv ==
    /\ read <= write
    /\ write <= Cardinality(Ended)
    /\ \A q \in Sheet : queue[q] # None => q < write
    /\ \A t \in Shard : stage[t] = "store" =>
          /\ sheet[t] # None /\ read <= pos[t] /\ pos[t] < write
          /\ pos[t] < MaxSheets => queue[pos[t]] = None
    /\ \A t, u \in Shard : stage[t] = "store" /\ stage[u] = "store" /\ pos[t] = pos[u] => t = u
    /\ \A t \in Shard : stage[t] \in {"peek", "swap"} => pos[t] <= read
    /\ \A t \in Shard : stage[t] = "swap" => pos[t] < MaxSheets /\ queue[pos[t]] # None

\* Whoever is about to write has room, and so has whoever takes a sheet from
\* the queue.
RoomInv ==
    /\ \A s \in Sheet : s >= global_index_counter => pages[s] = <<>>
    /\ \A q \in Waiting : Len(pages[queue[q]]) < SheetSize
    /\ \A t \in Shard : stage[t] \in {"insert", "copy", "store"} => HasRoom(sheet[t])

\* The shard has found a match that is not yet accepted or refused.
Offering(t) == stage[t] \in {"fresh", "load", "peek", "swap", "insert", "copy"}

\* A match that is being offered has a name that was never accepted, and who
\* has a sheet has found something.
NamesInv ==
    /\ \A m \in accepted : m[2] <= offered[m[1]] /\ (Offering(m[1]) => m[2] < offered[m[1]])
    /\ \A t \in Shard : Offering(t) \/ sheet[t] # None => offered[t] >= 1

\* The entry leads to an accepted match.
Valid(e) ==
    /\ e.item < Len(pages[e.sheet]) /\ pages[e.sheet][e.item + 1] = e.match
    /\ e.match \in accepted

InItems(m) == \E x \in 0..Capacity - 1 : hash_items[x] # None /\ hash_items[x].match = m
InLocal(m) == \E t \in Shard : \E i \in 1..Len(local[t]) : local[t][i].match = m

\* Every accepted match is listed once, in the local list of its shard or in
\* hash_items.
EntriesInv ==
    /\ \A t \in Shard : \A i \in 1..Len(local[t]) :
          Valid(local[t][i]) /\ local[t][i].match[1] = t /\ ~ InItems(local[t][i].match)
    /\ \A t \in Shard : \A i, j \in 1..Len(local[t]) :
          local[t][i].match = local[t][j].match => i = j
    /\ \A x \in 0..Capacity - 1 : hash_items[x] # None => Valid(hash_items[x])
    /\ \A x, y \in 0..Capacity - 1 :
          hash_items[x] # None /\ hash_items[y] # None /\ hash_items[x].match = hash_items[y].match
          => x = y
    /\ \A m \in accepted : InItems(m) \/ InLocal(m)

\* Below hash_size every place is filled or reserved by one copy under way;
\* above it nothing is written.
CopiesInv ==
    /\ \A t \in Shard : Copying(t) =>
          /\ pos[t] + Len(local[t]) <= hash_size
          /\ \A x \in CopyRange(t) : hash_items[x] = None
    /\ \A t, u \in Shard : Copying(t) /\ Copying(u) /\ t # u =>
          \A x \in CopyRange(t) : x \notin CopyRange(u)
    /\ \A x \in 0..hash_size - 1 : hash_items[x] # None \/ \E t \in Shard : Copying(t) /\ x \in CopyRange(t)
    /\ \A x \in 0..Capacity - 1 : hash_items[x] # None => x < hash_size
    /\ \A t \in Shard : stage[t] \in {"return", "store", "done"} => local[t] = <<>>

Inv == SheetsTypeOK /\ OwnersInv /\ QueueInv /\ RoomInv /\ NamesInv /\ EntriesInv /\ CopiesInv

-----------------------------------------------------------------------------
(* What does not depend on the step.                                       *)

LEMMA Sizes ==
    /\ MaxSheets \in Nat /\ MaxSheets > 0 /\ SheetSize \in Nat /\ SheetSize > 0
    /\ MaxInserts \in Nat /\ Capacity \in Nat /\ MaxSheets <= Capacity
    /\ Sheet = 0..MaxSheets - 1
    /\ IsFiniteSet(Shard) /\ Cardinality(Shard) \in Nat
    /\ None \notin Sheet /\ None \notin Entry
<1>1. /\ MaxSheets \in Nat /\ MaxSheets > 0 /\ SheetSize \in Nat /\ SheetSize > 0 /\ MaxInserts \in Nat
  BY SheetsAssumption
<1>2. MaxSheets * SheetSize \in Nat
  BY <1>1
<1>3. MaxSheets <= MaxSheets * SheetSize
  <2>1. MaxSheets * SheetSize = MaxSheets + MaxSheets * (SheetSize - 1)
    BY <1>1
  <2>2. MaxSheets * (SheetSize - 1) \in Nat
    BY <1>1
  <2> QED BY <1>1, <2>1, <2>2
<1>4. IsFiniteSet(Shard) /\ Cardinality(Shard) \in Nat
  BY SheetsAssumption, FS_CardinalityType
<1> QED BY <1>1, <1>2, <1>3, <1>4, NoneAssumption DEF Capacity, Sheet

LEMMA Counted ==
    ASSUME NEW n \in Nat
    PROVE  IsFiniteSet(0..n - 1) /\ Cardinality(0..n - 1) = n
<1>1. 0 \in Int /\ n - 1 \in Int
  OBVIOUS
<1>2. /\ IsFiniteSet(0..n - 1)
      /\ Cardinality(0..n - 1) = IF 0 > n - 1 THEN 0 ELSE (n - 1) - 0 + 1
  BY <1>1, FS_Interval
<1> QED BY <1>2

LEMMA InjectionBound ==
    ASSUME NEW S, NEW T, IsFiniteSet(T), NEW f \in [S -> T],
           \A x, y \in S : f[x] = f[y] => x = y
    PROVE  IsFiniteSet(S) /\ Cardinality(S) \in Nat /\ Cardinality(S) <= Cardinality(T)
<1>1. f \in Injection(S, T)
  BY DEF Injection, IsInjective
<1> QED BY <1>1, FS_Injection, FS_CardinalityType

\* What is listed is an entry, and leads to an accepted match.
LEMMA Listed ==
    ASSUME SheetsTypeOK, EntriesInv
    PROVE  /\ \A x \in 0..Capacity - 1 : hash_items[x] # None =>
                 hash_items[x] \in Entry /\ Valid(hash_items[x])
           /\ \A u \in Shard : \A i \in 1..Len(local[u]) :
                 /\ local[u][i] \in Entry /\ Valid(local[u][i])
                 /\ local[u][i].match[1] = u /\ ~ InItems(local[u][i].match)
<1>1. hash_items \in [0..Capacity - 1 -> Entry \cup {None}] /\ local \in [Shard -> Seq(Entry)]
  BY DEF SheetsTypeOK
<1>2. \A x \in 0..Capacity - 1 : hash_items[x] # None => hash_items[x] \in Entry
  BY <1>1
<1>3. \A u \in Shard : \A i \in 1..Len(local[u]) : local[u][i] \in Entry
  BY <1>1
<1> QED BY <1>2, <1>3 DEF EntriesInv

\* An accepted match sits on a sheet, and no other match where it does.
LEMMA AcceptedFit ==
    ASSUME SheetsTypeOK, EntriesInv
    PROVE  IsFiniteSet(accepted) /\ Cardinality(accepted) \in Nat /\ Cardinality(accepted) <= Capacity
<1> DEFINE At(m) == CHOOSE e \in Entry : Valid(e) /\ e.match = m
           Cell == Sheet \X (0..SheetSize - 1)
           f == [m \in accepted |-> <<At(m).sheet, At(m).item>>]
<1>1. ASSUME NEW m \in accepted
      PROVE  At(m) \in Entry /\ Valid(At(m)) /\ At(m).match = m
  <2>1. \E e \in Entry : Valid(e) /\ e.match = m
    <3>1. CASE InItems(m)
      BY <3>1, Listed DEF InItems
    <3>2. CASE InLocal(m)
      BY <3>2, Listed DEF InLocal
    <3> QED BY <3>1, <3>2 DEF EntriesInv
  <2> QED BY <2>1
<1> HIDE DEF At
<1>2. \A m \in accepted : At(m).sheet \in Sheet /\ At(m).item \in 0..SheetSize - 1
  BY <1>1 DEF Entry
<1>3. f \in [accepted -> Cell]
  BY <1>2
<1>4. \A m, k \in accepted : f[m] = f[k] => m = k
  <2>1. SUFFICES ASSUME NEW m \in accepted, NEW k \in accepted, f[m] = f[k] PROVE m = k
    OBVIOUS
  <2>2. At(m).sheet = At(k).sheet /\ At(m).item = At(k).item
    BY <2>1
  <2> QED BY <1>1, <2>2 DEF Valid
<1>5. IsFiniteSet(Cell) /\ Cardinality(Cell) = Capacity
  <2>1. IsFiniteSet(0..SheetSize - 1) /\ Cardinality(0..SheetSize - 1) = SheetSize
    BY Counted, Sizes
  <2>2. IsFiniteSet(Sheet) /\ Cardinality(Sheet) = MaxSheets
    BY Counted, Sizes
  <2> QED BY <2>1, <2>2, FS_Product DEF Capacity
<1> HIDE DEF f, Cell
<1> QED BY <1>3, <1>4, <1>5, InjectionBound

\* The match that place x of hash_items holds or is reserved for.
Copier(x) == CHOOSE u \in Shard : Copying(u) /\ x \in CopyRange(u)
NameAt(x) == IF hash_items[x] # None THEN hash_items[x].match
             ELSE local[Copier(x)][x - pos[Copier(x)] + 1].match

LEMMA NamesApart ==
    ASSUME SheetsTypeOK, EntriesInv, CopiesInv
    PROVE  /\ \A x \in 0..hash_size - 1 :
                 /\ NameAt(x) \in accepted
                 /\ \/ InItems(NameAt(x))
                    \/ /\ hash_items[x] = None
                       /\ Copier(x) \in Shard /\ Copying(Copier(x))
                       /\ x - pos[Copier(x)] + 1 \in 1..Len(local[Copier(x)])
                       /\ NameAt(x) = local[Copier(x)][x - pos[Copier(x)] + 1].match
           /\ \A x, y \in 0..hash_size - 1 : NameAt(x) = NameAt(y) => x = y
<1>0. hash_size \in 0..Capacity /\ Capacity \in Nat /\ pos \in [Shard -> Nat]
      /\ local \in [Shard -> Seq(Entry)]
  BY Sizes DEF SheetsTypeOK
<1> DEFINE InCopy(x) == /\ hash_items[x] = None
                        /\ Copier(x) \in Shard /\ Copying(Copier(x))
                        /\ x - pos[Copier(x)] + 1 \in 1..Len(local[Copier(x)])
                        /\ NameAt(x) = local[Copier(x)][x - pos[Copier(x)] + 1].match
<1>1. ASSUME NEW x \in 0..hash_size - 1, hash_items[x] = None
      PROVE  InCopy(x) /\ NameAt(x) \in accepted
  <2>1. \E u \in Shard : Copying(u) /\ x \in CopyRange(u)
    BY <1>1 DEF CopiesInv
  <2>2. Copier(x) \in Shard /\ Copying(Copier(x)) /\ x \in CopyRange(Copier(x))
    BY <2>1 DEF Copier
  <2>3. x - pos[Copier(x)] + 1 \in 1..Len(local[Copier(x)])
    BY <1>0, <2>2 DEF CopyRange
  <2>4. NameAt(x) = local[Copier(x)][x - pos[Copier(x)] + 1].match
    BY <1>1 DEF NameAt
  <2>5. Valid(local[Copier(x)][x - pos[Copier(x)] + 1])
    BY <2>2, <2>3 DEF EntriesInv
  <2>6. NameAt(x) \in accepted
    BY <2>4, <2>5 DEF Valid
  <2> QED BY <1>1, <2>2, <2>3, <2>4, <2>6
<1>2. ASSUME NEW x \in 0..hash_size - 1, hash_items[x] # None
      PROVE  InItems(NameAt(x)) /\ NameAt(x) \in accepted /\ NameAt(x) = hash_items[x].match
             /\ x \in 0..Capacity - 1
  <2>1. NameAt(x) = hash_items[x].match /\ x \in 0..Capacity - 1
    BY <1>0, <1>2 DEF NameAt
  <2> QED BY <1>2, <2>1 DEF InItems, EntriesInv, Valid
<1>3. ASSUME NEW x \in 0..hash_size - 1, InCopy(x)
      PROVE  ~ InItems(NameAt(x)) /\ NameAt(x)[1] = Copier(x)
  BY <1>3 DEF EntriesInv
<1>4. ASSUME NEW x \in 0..hash_size - 1, NEW y \in 0..hash_size - 1, NameAt(x) = NameAt(y)
      PROVE  x = y
  <2>1. CASE hash_items[x] # None /\ hash_items[y] # None
    BY <1>2, <1>4, <2>1 DEF EntriesInv
  <2>2. CASE hash_items[x] = None /\ hash_items[y] = None
    <3>1. Copier(x) = Copier(y)
      BY <1>1, <1>3, <1>4, <2>2
    <3> DEFINE u == Copier(x)
               i == x - pos[u] + 1
               j == y - pos[u] + 1
    <3>2. u \in Shard /\ i \in 1..Len(local[u]) /\ j \in 1..Len(local[u])
          /\ local[u][i].match = local[u][j].match
      BY <1>1, <1>4, <2>2, <3>1
    <3>3. i = j
      BY <3>2 DEF EntriesInv
    <3> QED BY <1>0, <3>2, <3>3
  <2>3. CASE hash_items[x] = None /\ hash_items[y] # None
    BY <1>1, <1>2, <1>3, <1>4, <2>3
  <2>4. CASE hash_items[x] # None /\ hash_items[y] = None
    BY <1>1, <1>2, <1>3, <1>4, <2>4
  <2> QED BY <2>1, <2>2, <2>3, <2>4
<1>5. \A x \in 0..hash_size - 1 : NameAt(x) \in accepted /\ (InItems(NameAt(x)) \/ InCopy(x))
  BY <1>1, <1>2
<1> QED BY <1>4, <1>5

\* There is room in hash_items for what a shard is about to reserve.
LEMMA ReservationFits ==
    ASSUME SheetsTypeOK, EntriesInv, CopiesInv, NEW t \in Shard, ~ Copying(t)
    PROVE  hash_size + Len(local[t]) <= Capacity
<1>0. hash_size \in Nat /\ Capacity \in Nat /\ Len(local[t]) \in Nat
  BY Sizes DEF SheetsTypeOK
<1> DEFINE k == hash_size + Len(local[t])
           f == [x \in 0..k - 1 |-> IF x < hash_size THEN NameAt(x)
                                    ELSE local[t][x - hash_size + 1].match]
<1>1. ASSUME NEW x \in 0..k - 1, x >= hash_size
      PROVE  /\ x - hash_size + 1 \in 1..Len(local[t])
             /\ f[x] = local[t][x - hash_size + 1].match
             /\ f[x] \in accepted /\ f[x][1] = t /\ ~ InItems(f[x])
  <2>1. x - hash_size + 1 \in 1..Len(local[t]) /\ ~ (x < hash_size)
    BY <1>0, <1>1
  <2>2. f[x] = local[t][x - hash_size + 1].match
    BY <2>1
  <2> HIDE DEF f
  <2>3. /\ Valid(local[t][x - hash_size + 1]) /\ local[t][x - hash_size + 1].match[1] = t
        /\ ~ InItems(local[t][x - hash_size + 1].match)
    BY <2>1 DEF EntriesInv
  <2> QED BY <2>1, <2>2, <2>3 DEF Valid
<1>2. \A x \in 0..k - 1 : x < hash_size => x \in 0..hash_size - 1 /\ f[x] = NameAt(x)
  BY <1>0
<1> HIDE DEF f
<1>3. \A x \in 0..k - 1 : f[x] \in accepted
  <2>1. \A x \in 0..hash_size - 1 : NameAt(x) \in accepted
    BY NamesApart
  <2> QED BY <1>0, <1>1, <1>2, <2>1
<1>4. f \in [0..k - 1 -> accepted]
  BY <1>3 DEF f
<1>5. ASSUME NEW x \in 0..k - 1, NEW y \in 0..k - 1, x < hash_size, y >= hash_size
      PROVE  f[x] # f[y]
  <2>1. x \in 0..hash_size - 1 /\ f[x] = NameAt(x)
    BY <1>2, <1>5
  <2>2. InItems(f[x]) \/ (Copier(x) \in Shard /\ Copying(Copier(x)) /\ f[x][1] = Copier(x))
    BY <2>1, NamesApart DEF EntriesInv
  <2>3. f[y][1] = t /\ ~ InItems(f[y])
    BY <1>1, <1>5
  <2> QED BY <2>2, <2>3
<1>6. ASSUME NEW x \in 0..k - 1, NEW y \in 0..k - 1, f[x] = f[y] PROVE x = y
  <2>1. CASE x < hash_size /\ y < hash_size
    BY <1>2, <1>6, <2>1, NamesApart
  <2>2. CASE x >= hash_size /\ y >= hash_size
    <3>1. x - hash_size + 1 = y - hash_size + 1
      BY <1>1, <1>6, <2>2 DEF EntriesInv
    <3> QED BY <1>0, <3>1
  <2> QED BY <1>0, <1>5, <1>6, <2>1, <2>2
<1>7. Cardinality(0..k - 1) = k
  BY <1>0, Counted
<1>8. Cardinality(0..k - 1) <= Cardinality(accepted)
  BY <1>4, <1>6, AcceptedFit, InjectionBound
<1> QED BY <1>0, <1>7, <1>8, AcceptedFit

-----------------------------------------------------------------------------
(* What a step that leaves a part of the state alone keeps.                *)

Others(t) == \A u \in Shard \ {t} :
    stage'[u] = stage[u] /\ sheet'[u] = sheet[u] /\ pos'[u] = pos[u] /\ local'[u] = local[u]

LEMMA Moved ==
    ASSUME SheetsTypeOK, NEW t \in Shard, NEW label \in Stage, Move(t, label)
    PROVE  /\ stage' \in [Shard -> Stage] /\ stage'[t] = label
           /\ \A u \in Shard \ {t} : stage'[u] = stage[u]
BY DEF SheetsTypeOK, Move

LEMMA SameOwners ==
    ASSUME OwnersInv, UNCHANGED <<sheet, global_index_counter, queue, read>>
    PROVE  OwnersInv'
BY DEF OwnersInv, Waiting

LEMMA SameEnded ==
    ASSUME NEW t \in Shard, Others(t), \A u \in Shard \ {t} : offered'[u] = offered[u],
           stage[t] \notin {"store", "done"}, stage'[t] \notin {"store", "done"}
    PROVE  Ended' = Ended
<1>1. \A u \in Shard : u \in Ended' <=> u \in Ended
  BY DEF Others, Ended, Finders
<1>2. Ended \subseteq Shard /\ Ended' \subseteq Shard
  BY DEF Ended, Finders
<1> QED BY <1>1, <1>2

LEMMA SameQueue ==
    ASSUME QueueInv, NEW t \in Shard, Others(t), UNCHANGED <<queue, read, write>>,
           \A u \in Shard \ {t} : offered'[u] = offered[u],
           stage[t] \notin {"store", "done"},
           stage'[t] \notin {"store", "done", "peek", "swap"}
    PROVE  QueueInv'
<1>1. Ended' = Ended
  BY SameEnded
<1>2. \A u \in Shard : stage'[u] \in {"store", "peek", "swap"} =>
         stage'[u] = stage[u] /\ sheet'[u] = sheet[u] /\ pos'[u] = pos[u]
  BY DEF Others
<1> QED BY <1>1, <1>2 DEF QueueInv

LEMMA SameRoom ==
    ASSUME RoomInv, NEW t \in Shard, Others(t),
           UNCHANGED <<pages, queue, read, global_index_counter>>,
           stage'[t] \in {"insert", "copy", "store"} => HasRoom(sheet[t])'
    PROVE  RoomInv'
<1>1. Waiting' = Waiting
  BY DEF Waiting
<1>2. \A u \in Shard \ {t} : HasRoom(sheet[u]) => HasRoom(sheet[u])'
  BY DEF Others, HasRoom
<1>3. \A u \in Shard : stage'[u] \in {"insert", "copy", "store"} => HasRoom(sheet[u])'
  BY <1>2 DEF RoomInv, Others
<1> QED BY <1>1, <1>3 DEF RoomInv

LEMMA SameNames ==
    ASSUME SheetsTypeOK, NamesInv, NEW t \in Shard, Others(t), UNCHANGED <<offered, accepted>>,
           Offering(t)' => Offering(t),
           sheet'[t] # None => sheet'[t] = sheet[t] \/ Offering(t)
    PROVE  NamesInv'
<1>1. \A u \in Shard : /\ Offering(u)' => Offering(u)
                       /\ sheet'[u] # None => sheet'[u] = sheet[u] \/ Offering(u)
  BY DEF Others, Offering
<1>2. \A m \in accepted : m[1] \in Shard
  BY DEF SheetsTypeOK, Match
<1> QED BY <1>1, <1>2 DEF NamesInv

LEMMA SameEntries ==
    ASSUME EntriesInv, UNCHANGED <<pages, accepted, local, hash_items>>
    PROVE  EntriesInv'
BY DEF EntriesInv, Valid, InItems, InLocal

LEMMA SameCopies ==
    ASSUME CopiesInv, NEW t \in Shard, Others(t), UNCHANGED <<local, hash_size, hash_items>>,
           ~ Copying(t), ~ Copying(t)',
           stage'[t] \in {"return", "store", "done"} => local[t] = <<>>
    PROVE  CopiesInv'
<1>1. \A u \in Shard : /\ Copying(u)' <=> Copying(u)
                       /\ Copying(u) => pos'[u] = pos[u] /\ CopyRange(u)' = CopyRange(u)
  BY DEF Others, Copying, CopyRange
<1>2. \A u \in Shard : stage'[u] \in {"return", "store", "done"} => local'[u] = <<>>
  BY DEF Others, CopiesInv
<1>3. ASSUME NEW x \in 0..hash_size - 1, hash_items[x] = None
      PROVE  \E u \in Shard : Copying(u)' /\ x \in CopyRange(u)'
  BY <1>1, <1>3 DEF CopiesInv
<1> QED BY <1>1, <1>2, <1>3 DEF CopiesInv

-----------------------------------------------------------------------------
(* The actions.                                                            *)

\* There is a match left to offer only while the bound is not reached.
LEMMA OneMore ==
    ASSUME SheetsTypeOK, NEW t \in Shard, Cardinality(Offered) < MaxInserts
    PROVE  offered[t] < MaxInserts
<1> SUFFICES ASSUME ~ (offered[t] < MaxInserts) PROVE FALSE
  OBVIOUS
<1>1. offered[t] = MaxInserts /\ MaxInserts \in Nat
  BY Sizes DEF SheetsTypeOK
<1>2. IsFiniteSet(Offered)
  <2>1. IsFiniteSet(1..MaxInserts)
    BY <1>1, FS_Interval
  <2>2. IsFiniteSet(Match)
    BY <2>1, Sizes, FS_Product DEF Match
  <2> QED BY <2>2, FS_Subset DEF Offered
<1> DEFINE f == [k \in 0..MaxInserts - 1 |-> <<t, k + 1>>]
<1>3. \A k \in 0..MaxInserts - 1 : f[k] = <<t, k + 1>> /\ f[k] \in Offered
  BY <1>1 DEF Offered, Match
<1>4. f \in [0..MaxInserts - 1 -> Offered]
  BY <1>3
<1>5. \A j, k \in 0..MaxInserts - 1 : f[j] = f[k] => j = k
  BY <1>1, <1>3
<1> HIDE DEF f
<1>6. Cardinality(0..MaxInserts - 1) <= Cardinality(Offered)
  BY <1>2, <1>4, <1>5, InjectionBound
<1> QED BY <1>1, <1>2, <1>6, Counted, FS_CardinalityType

LEMMA InsertKeeps ==
    ASSUME Inv, NEW t \in Shard, Insert(t), UNCHANGED beyond
    PROVE  Inv'
<1>0. SheetsTypeOK /\ OwnersInv /\ QueueInv /\ RoomInv /\ NamesInv /\ EntriesInv /\ CopiesInv
  BY DEF Inv
<1>1. /\ stage[t] = "search" /\ offered' = [offered EXCEPT ![t] = @ + 1]
      /\ UNCHANGED <<pages, global_index_counter, queue, read, write, hash_size, hash_items,
                     sheet, local, pos, accepted>>
  BY DEF Insert, sheetVars, itemVars
<1>2. /\ stage' \in [Shard -> Stage] /\ stage'[t] \in {"insert", "fresh"}
      /\ stage'[t] = "insert" => HasRoom(sheet[t])
      /\ Others(t)
  <2>1. /\ stage' \in [Shard -> Stage] /\ stage'[t] = (IF HasRoom(sheet[t]) THEN "insert" ELSE "fresh")
        /\ \A u \in Shard \ {t} : stage'[u] = stage[u]
    BY <1>0, Moved DEF Insert, Stage
  <2> QED BY <1>1, <2>1 DEF Others
<1>3. SheetsTypeOK'
  <2>1. offered[t] < MaxInserts
    BY <1>0, OneMore DEF Insert
  <2>2. offered' \in [Shard -> 0..MaxInserts]
    BY <1>0, <1>1, <2>1, Sizes DEF SheetsTypeOK
  <2> QED BY <1>0, <1>1, <1>2, <2>2 DEF SheetsTypeOK
<1>4. OwnersInv'
  BY <1>0, <1>1, SameOwners
<1>5. QueueInv'
  BY <1>0, <1>1, <1>2, SameQueue
<1>6. RoomInv'
  <2>1. HasRoom(sheet[t]) => HasRoom(sheet[t])'
    BY <1>1 DEF HasRoom
  <2> QED BY <1>0, <1>1, <1>2, <2>1, SameRoom
<1>7. NamesInv'
  <2>1. \A m \in accepted : m[1] \in Shard /\ m[2] \in Nat
    BY <1>0 DEF SheetsTypeOK, Match
  <2>2. \A u \in Shard : offered[u] \in Nat
                         /\ offered'[u] = IF u = t THEN offered[u] + 1 ELSE offered[u]
    BY <1>0, <1>1 DEF SheetsTypeOK
  <2>3. \A u \in Shard \ {t} : Offering(u)' <=> Offering(u)
    BY <1>2 DEF Others, Offering
  <2> QED BY <1>0, <1>1, <2>1, <2>2, <2>3 DEF NamesInv
<1>8. EntriesInv'
  BY <1>0, <1>1, SameEntries
<1>9. CopiesInv'
  <2>1. ~ Copying(t) /\ ~ Copying(t)'
    BY <1>1, <1>2 DEF Copying
  <2> QED BY <1>0, <1>1, <1>2, <2>1, SameCopies
<1> QED BY <1>3, <1>4, <1>5, <1>6, <1>7, <1>8, <1>9 DEF Inv

LEMMA GrabFreshKeeps ==
    ASSUME Inv, NEW t \in Shard, GrabFresh(t), UNCHANGED beyond
    PROVE  Inv'
<1>0. SheetsTypeOK /\ OwnersInv /\ QueueInv /\ RoomInv /\ NamesInv /\ EntriesInv /\ CopiesInv
  BY DEF Inv
<1> DEFINE g == global_index_counter
<1>1. /\ stage[t] = "fresh" /\ g \in Nat /\ global_index_counter' = g + 1
      /\ UNCHANGED <<pages, queue, read, write, hash_size, hash_items, local, pos, offered, accepted>>
  BY <1>0 DEF GrabFresh, itemVars, SheetsTypeOK
<1>2. /\ stage' \in [Shard -> Stage] /\ stage'[t] \in {"insert", "load"}
      /\ Others(t) /\ sheet' \in [Shard -> Sheet \cup {None}]
      /\ \/ stage'[t] = "insert" /\ g \in Sheet /\ sheet'[t] = g
         \/ stage'[t] = "load" /\ sheet'[t] = sheet[t]
  <2>1. CASE g < MaxSheets
    <3>1. Move(t, "insert") /\ sheet' = [sheet EXCEPT ![t] = g] /\ g \in Sheet
      BY <1>1, <2>1, Sizes DEF GrabFresh
    <3> HIDE DEF g
    <3>2. stage' \in [Shard -> Stage] /\ stage'[t] = "insert" /\ \A u \in Shard \ {t} : stage'[u] = stage[u]
      BY <1>0, <3>1, Moved DEF Stage
    <3>3. /\ sheet' \in [Shard -> Sheet \cup {None}] /\ sheet'[t] = g
          /\ \A u \in Shard \ {t} : sheet'[u] = sheet[u]
      BY <1>0, <3>1 DEF SheetsTypeOK
    <3> QED BY <1>1, <3>1, <3>2, <3>3 DEF Others
  <2>2. CASE ~ (g < MaxSheets)
    <3>1. Move(t, "load") /\ sheet' = sheet
      BY <2>2 DEF GrabFresh
    <3>2. stage' \in [Shard -> Stage] /\ stage'[t] = "load" /\ \A u \in Shard \ {t} : stage'[u] = stage[u]
      BY <1>0, <3>1, Moved DEF Stage
    <3> QED BY <1>0, <1>1, <3>1, <3>2 DEF Others, SheetsTypeOK
  <2> QED BY <2>1, <2>2
<1>3. SheetsTypeOK'
  BY <1>0, <1>1, <1>2 DEF SheetsTypeOK
<1>4. OwnersInv'
  <2>1. \A u \in Shard : /\ sheet[u] # None => sheet[u] \in Nat /\ sheet[u] < g
                         /\ sheet'[u] = sheet[u] \/ (u = t /\ sheet'[u] = g)
    BY <1>0, <1>2, Sizes DEF OwnersInv, SheetsTypeOK, Others
  <2>2. \A q \in Sheet : queue[q] # None => queue[q] \in Nat /\ queue[q] < g
    BY <1>0, Sizes DEF OwnersInv, SheetsTypeOK
  <2>3. Waiting' = Waiting /\ Waiting \subseteq {q \in Sheet : queue[q] # None}
    BY <1>1 DEF Waiting
  <2> HIDE DEF g
  <2>4. \A u \in Shard : sheet'[u] # None => sheet'[u] < g + 1
    BY <1>1, <2>1
  <2>5. \A u, v \in Shard : sheet'[u] = sheet'[v] /\ sheet'[u] # None => u = v
    <3>1. \A u, v \in Shard : sheet[u] = sheet[v] /\ sheet[u] # None => u = v
      BY <1>0 DEF OwnersInv
    <3>2. \A u \in Shard : sheet[u] # g \/ None = g
      BY <1>1, <2>1
    <3> QED BY <2>1, <3>1, <3>2
  <2>6. \A q \in Waiting : \A u \in Shard : sheet'[u] # queue[q]
    <3>1. \A q \in Waiting : \A u \in Shard : sheet[u] # queue[q]
      BY <1>0 DEF OwnersInv
    <3>2. \A q \in Waiting : queue[q] # g
      BY <1>1, <2>2, <2>3
    <3> QED BY <2>1, <3>1, <3>2
  <2>7. \A q \in Sheet : queue[q] # None => queue[q] < g + 1
    BY <1>1, <2>2
  <2> USE DEF g
  <2> QED BY <1>0, <1>1, <2>3, <2>4, <2>5, <2>6, <2>7 DEF OwnersInv
<1>5. QueueInv'
  BY <1>0, <1>1, <1>2, SameQueue
<1>6. RoomInv'
  <2>1. Waiting' = Waiting
    BY <1>1 DEF Waiting
  <2>2. \A s \in Sheet : s >= g + 1 => pages[s] = <<>>
    BY <1>0, <1>1, Sizes DEF RoomInv
  <2>3. stage'[t] = "insert" => HasRoom(sheet[t])'
    <3> SUFFICES ASSUME stage'[t] = "insert" PROVE HasRoom(sheet[t])'
      OBVIOUS
    <3>1. sheet'[t] = g /\ g \in Sheet /\ g >= g
      BY <1>1, <1>2
    <3>2. pages[g] = <<>> /\ Len(pages[g]) = 0
      BY <1>0, <3>1 DEF RoomInv
    <3> QED BY <1>1, <3>1, <3>2, Sizes DEF HasRoom
  <2>4. \A u \in Shard \ {t} : stage'[u] = stage[u] /\ (HasRoom(sheet[u]) => HasRoom(sheet[u])')
    BY <1>1, <1>2 DEF Others, HasRoom
  <2>5. \A u \in Shard : stage'[u] \in {"insert", "copy", "store"} => HasRoom(sheet[u])'
    BY <1>0, <1>2, <2>3, <2>4 DEF RoomInv
  <2> QED BY <1>0, <1>1, <2>1, <2>2, <2>5 DEF RoomInv
<1>7. NamesInv'
  <2>1. Offering(t)
    BY <1>1 DEF Offering
  <2> QED BY <1>0, <1>1, <1>2, <2>1, SameNames
<1>8. EntriesInv'
  BY <1>0, <1>1, SameEntries
<1>9. CopiesInv'
  <2>1. ~ Copying(t) /\ ~ Copying(t)'
    BY <1>1, <1>2 DEF Copying
  <2> QED BY <1>0, <1>1, <1>2, <2>1, SameCopies
<1> QED BY <1>3, <1>4, <1>5, <1>6, <1>7, <1>8, <1>9 DEF Inv

\* The three steps that look at the queue and change nothing else.
LEMMA LookKeeps ==
    ASSUME Inv, NEW t \in Shard, stage[t] \in {"load", "peek", "swap"},
           stage' \in [Shard -> Stage], pos' \in [Shard -> Nat], Others(t),
           stage'[t] \in {"peek", "swap", "search"},
           stage'[t] \in {"peek", "swap"} => pos'[t] <= read,
           stage'[t] = "swap" => pos'[t] < MaxSheets /\ queue[pos'[t]] # None,
           UNCHANGED <<pages, global_index_counter, queue, read, write, hash_size, hash_items,
                       sheet, local, offered, accepted, beyond>>
    PROVE  Inv'
<1>0. SheetsTypeOK /\ OwnersInv /\ QueueInv /\ RoomInv /\ NamesInv /\ EntriesInv /\ CopiesInv
  BY DEF Inv
<1>1. SheetsTypeOK'
  BY <1>0 DEF SheetsTypeOK
<1>2. OwnersInv'
  BY <1>0, SameOwners
<1>3. QueueInv'
  <2>1. Ended' = Ended
    BY SameEnded
  <2>2. \A u \in Shard \ {t} : stage'[u] = stage[u] /\ pos'[u] = pos[u]
    BY DEF Others
  <2>3. \A u \in Shard : stage'[u] = "store" => u # t
    OBVIOUS
  <2>4. \A u \in Shard : stage'[u] \in {"peek", "swap"} => pos'[u] <= read
    BY <1>0, <2>2 DEF QueueInv
  <2>5. \A u \in Shard : stage'[u] = "swap" => pos'[u] < MaxSheets /\ queue[pos'[u]] # None
    BY <1>0, <2>2 DEF QueueInv
  <2> QED BY <1>0, <2>1, <2>2, <2>3, <2>4, <2>5 DEF QueueInv
<1>4. RoomInv'
  BY <1>0, SameRoom
<1>5. NamesInv'
  <2>1. Offering(t)
    BY DEF Offering
  <2> QED BY <1>0, <2>1, SameNames
<1>6. EntriesInv'
  BY <1>0, SameEntries
<1>7. CopiesInv'
  <2>1. ~ Copying(t) /\ ~ Copying(t)'
    BY DEF Copying
  <2> QED BY <1>0, <2>1, SameCopies
<1> QED BY <1>1, <1>2, <1>3, <1>4, <1>5, <1>6, <1>7 DEF Inv

LEMMA LoadReadKeeps ==
    ASSUME Inv, NEW t \in Shard, LoadRead(t), UNCHANGED beyond
    PROVE  Inv'
<1>1. SheetsTypeOK
  BY DEF Inv
<1>2. /\ stage' \in [Shard -> Stage] /\ stage'[t] = "peek" /\ \A u \in Shard \ {t} : stage'[u] = stage[u]
  BY <1>1, Moved DEF LoadRead, Stage
<1>3. read \in Nat /\ read <= read
  BY <1>1, Sizes DEF SheetsTypeOK
<1>4. pos' \in [Shard -> Nat] /\ pos'[t] = read /\ \A u \in Shard \ {t} : pos'[u] = pos[u]
  BY <1>1, <1>3 DEF LoadRead, SheetsTypeOK
<1>5. UNCHANGED <<pages, global_index_counter, queue, read, write, hash_size, hash_items,
                  sheet, local, offered, accepted>>
  BY DEF LoadRead, sheetVars, itemVars
<1>6. Others(t)
  BY <1>2, <1>4, <1>5 DEF Others
<1> QED BY <1>2, <1>3, <1>4, <1>5, <1>6, LookKeeps DEF LoadRead

LEMMA PeekKeeps ==
    ASSUME Inv, NEW t \in Shard, Peek(t), UNCHANGED beyond
    PROVE  Inv'
<1>1. SheetsTypeOK /\ QueueInv
  BY DEF Inv
<1>2. /\ stage' \in [Shard -> Stage]
      /\ stage'[t] = (IF queue[pos[t]] = None THEN "search" ELSE "swap")
      /\ \A u \in Shard \ {t} : stage'[u] = stage[u]
  BY <1>1, Moved DEF Peek, Stage
<1>3. UNCHANGED <<pages, global_index_counter, queue, read, write, hash_size, hash_items,
                  sheet, local, pos, offered, accepted>>
  BY DEF Peek, sheetVars, itemVars
<1>4. stage[t] = "peek" /\ pos[t] <= read /\ pos[t] < MaxSheets /\ pos' \in [Shard -> Nat]
  BY <1>1, <1>3 DEF Peek, QueueInv, SheetsTypeOK
<1>5. Others(t)
  BY <1>2, <1>3 DEF Others
<1> QED BY <1>2, <1>3, <1>4, <1>5, LookKeeps

\* Whoever takes a sheet finds it at the head of the queue.
LEMMA HeadIsStored ==
    ASSUME SheetsTypeOK, QueueInv, NEW t \in Shard, stage[t] = "swap", pos[t] = read
    PROVE  /\ read \in Sheet /\ queue[read] \in Sheet /\ read < write /\ read + 1 \in 0..MaxSheets
           /\ read \in Waiting
<1>1. read < MaxSheets /\ queue[read] # None
  BY DEF QueueInv
<1>2. read \in Sheet /\ read + 1 \in 0..MaxSheets
  BY <1>1, Sizes DEF SheetsTypeOK
<1>3. read < write /\ queue[read] \in Sheet
  BY <1>1, <1>2 DEF QueueInv, SheetsTypeOK
<1>4. read \in Waiting
  BY <1>1, <1>2, Sizes DEF Waiting
<1> QED BY <1>2, <1>3, <1>4

LEMMA TakeSheetKeeps ==
    ASSUME Inv, NEW t \in Shard, TakeSheet(t), UNCHANGED beyond
    PROVE  Inv'
<1>0. SheetsTypeOK /\ OwnersInv /\ QueueInv /\ RoomInv /\ NamesInv /\ EntriesInv /\ CopiesInv
  BY DEF Inv
<1>1. CASE read # pos[t]
  <2>1. stage[t] = "swap" /\ Move(t, "peek")
    BY <1>1 DEF TakeSheet
  <2>2. stage' \in [Shard -> Stage] /\ stage'[t] = "peek" /\ \A u \in Shard \ {t} : stage'[u] = stage[u]
    BY <1>0, <2>1, Moved DEF Stage
  <2>3. read \in Nat /\ read <= read
    BY <1>0, Sizes DEF SheetsTypeOK
  <2>4. pos' \in [Shard -> Nat] /\ pos'[t] = read /\ \A u \in Shard \ {t} : pos'[u] = pos[u]
    BY <1>0, <1>1, <2>3 DEF TakeSheet, SheetsTypeOK
  <2>5. UNCHANGED <<pages, global_index_counter, queue, read, write, hash_size, hash_items,
                    sheet, local, offered, accepted>>
    BY <1>1 DEF TakeSheet, itemVars
  <2>6. Others(t)
    BY <2>2, <2>4, <2>5 DEF Others
  <2> QED BY <2>1, <2>2, <2>3, <2>4, <2>5, <2>6, LookKeeps
<1>2. CASE read = pos[t]
  <2>1. /\ stage[t] = "swap" /\ Move(t, "insert") /\ read' = read + 1
        /\ sheet' = [sheet EXCEPT ![t] = queue[read]]
        /\ UNCHANGED <<pages, global_index_counter, queue, write, hash_size, hash_items,
                       local, pos, offered, accepted>>
    BY <1>2 DEF TakeSheet, itemVars
  <2>2. stage' \in [Shard -> Stage] /\ stage'[t] = "insert" /\ \A u \in Shard \ {t} : stage'[u] = stage[u]
    BY <1>0, <2>1, Moved DEF Stage
  <2>3. /\ read \in Sheet /\ queue[read] \in Sheet /\ read < write /\ read + 1 \in 0..MaxSheets
        /\ read \in Waiting /\ read \in Nat /\ read < MaxSheets /\ MaxSheets \in Nat /\ None \notin Sheet
    BY <1>0, <1>2, <2>1, HeadIsStored, Sizes
  <2>4. /\ sheet' \in [Shard -> Sheet \cup {None}] /\ sheet'[t] = queue[read]
        /\ \A u \in Shard \ {t} : sheet'[u] = sheet[u]
    BY <1>0, <2>1, <2>3 DEF SheetsTypeOK
  <2>5. Others(t)
    BY <2>1, <2>2, <2>4 DEF Others
  <2>6. SheetsTypeOK'
    BY <1>0, <2>1, <2>2, <2>3, <2>4 DEF SheetsTypeOK
  <2>7. Waiting' = Waiting \ {read}
    BY <2>1, <2>3, Sizes DEF Waiting
  <2>8. OwnersInv'
    <3>1. \A u \in Shard : sheet[u] # queue[read]
      BY <1>0, <2>3 DEF OwnersInv
    <3>2. \A q \in Waiting : queue[q] = queue[read] => q = read
      BY <1>0, <2>3 DEF OwnersInv
    <3>3. queue[read] < global_index_counter
      BY <1>0, <2>3 DEF OwnersInv
    <3>4. \A u, v \in Shard : sheet'[u] = sheet'[v] /\ sheet'[u] # None => u = v
      BY <1>0, <2>4, <3>1 DEF OwnersInv
    <3>5. \A q \in Waiting' : \A u \in Shard : sheet'[u] # queue[q]
      BY <1>0, <2>4, <2>7, <3>2 DEF OwnersInv
    <3>6. \A u \in Shard : sheet'[u] # None => sheet'[u] < global_index_counter
      BY <1>0, <2>4, <3>3 DEF OwnersInv
    <3>7. \A q, r \in Waiting' : queue[q] = queue[r] => q = r
      BY <1>0, <2>7 DEF OwnersInv
    <3> QED BY <1>0, <2>1, <3>4, <3>5, <3>6, <3>7 DEF OwnersInv
  <2>9. QueueInv'
    <3>1. Ended' = Ended
      BY <2>1, <2>2, <2>5, SameEnded
    <3>2. \A u \in Shard : stage'[u] \in {"store", "peek", "swap"} =>
             stage'[u] = stage[u] /\ sheet'[u] = sheet[u] /\ pos'[u] = pos[u]
      BY <2>1, <2>2, <2>5 DEF Others
    <3>3. \A u \in Shard : stage[u] = "store" => read + 1 <= pos[u]
      <4>1. \A u \in Shard : stage[u] = "store" => read <= pos[u] /\ pos[u] # read /\ pos[u] \in Nat
        BY <1>0, <2>3 DEF QueueInv, SheetsTypeOK
      <4> QED BY <2>3, <4>1
    <3>4. \A u \in Shard : stage[u] \in {"peek", "swap"} => pos[u] <= read + 1
      <4>1. \A u \in Shard : stage[u] \in {"peek", "swap"} => pos[u] <= read /\ pos[u] \in Nat
        BY <1>0 DEF QueueInv, SheetsTypeOK
      <4> QED BY <2>3, <4>1
    <3>5. read + 1 <= write
      BY <1>0, <2>3 DEF SheetsTypeOK
    <3>6. \A u \in Shard : stage'[u] = "store" =>
             /\ sheet'[u] # None /\ read' <= pos'[u] /\ pos'[u] < write'
             /\ pos'[u] < MaxSheets => queue'[pos'[u]] = None
      BY <1>0, <2>1, <3>2, <3>3 DEF QueueInv
    <3>7. \A u, v \in Shard : stage'[u] = "store" /\ stage'[v] = "store" /\ pos'[u] = pos'[v] => u = v
      BY <1>0, <3>2 DEF QueueInv
    <3>8. \A u \in Shard : stage'[u] \in {"peek", "swap"} => pos'[u] <= read'
      BY <2>1, <3>2, <3>4
    <3>9. \A u \in Shard : stage'[u] = "swap" => pos'[u] < MaxSheets /\ queue'[pos'[u]] # None
      BY <1>0, <2>1, <3>2 DEF QueueInv
    <3> QED BY <1>0, <2>1, <3>1, <3>5, <3>6, <3>7, <3>8, <3>9 DEF QueueInv
  <2>10. RoomInv'
    <3>1. HasRoom(sheet[t])'
      BY <1>0, <2>1, <2>3, <2>4 DEF HasRoom, RoomInv
    <3>2. \A u \in Shard \ {t} : stage'[u] = stage[u] /\ (HasRoom(sheet[u]) => HasRoom(sheet[u])')
      BY <2>1, <2>2, <2>4 DEF HasRoom
    <3>3. \A u \in Shard : stage'[u] \in {"insert", "copy", "store"} => HasRoom(sheet[u])'
      BY <1>0, <3>1, <3>2 DEF RoomInv
    <3> QED BY <1>0, <2>1, <2>7, <3>3 DEF RoomInv
  <2>11. NamesInv'
    <3>1. Offering(t)
      BY <2>1 DEF Offering
    <3> QED BY <1>0, <2>1, <2>5, <3>1, SameNames
  <2>12. EntriesInv'
    BY <1>0, <2>1, SameEntries
  <2>13. CopiesInv'
    <3>1. ~ Copying(t) /\ ~ Copying(t)'
      BY <2>1, <2>2 DEF Copying
    <3> QED BY <1>0, <2>1, <2>2, <2>5, <3>1, SameCopies
  <2> QED BY <2>6, <2>8, <2>9, <2>10, <2>11, <2>12, <2>13 DEF Inv
<1> QED BY <1>1, <1>2

LEMMA PutKeeps ==
    ASSUME Inv, NEW t \in Shard, Put(t), UNCHANGED beyond
    PROVE  Inv'
<1>0. SheetsTypeOK /\ OwnersInv /\ QueueInv /\ RoomInv /\ NamesInv /\ EntriesInv /\ CopiesInv
  BY DEF Inv
<1> DEFINE s == sheet[t]
           page == pages[s]
           match == <<t, offered[t]>>
           e == [match |-> match, sheet |-> s, item |-> Len(page)]
           ValidNow(d) == /\ d.item < Len(pages'[d.sheet])
                          /\ pages'[d.sheet][d.item + 1] = d.match
                          /\ d.match \in accepted'
<1>1. /\ stage[t] = "insert" /\ Len(local[t]) < SheetSize /\ Move(t, "search")
      /\ pages' = [pages EXCEPT ![s] = Append(page, match)]
      /\ local' = [local EXCEPT ![t] = Append(local[t], e)]
      /\ accepted' = accepted \cup {match}
      /\ UNCHANGED <<global_index_counter, queue, read, write, hash_size, hash_items,
                     sheet, pos, offered>>
  BY DEF Put, itemVars
<1>2. stage' \in [Shard -> Stage] /\ stage'[t] = "search" /\ \A u \in Shard \ {t} : stage'[u] = stage[u]
  BY <1>0, <1>1, Moved DEF Stage
<1>3. s \in Sheet /\ page \in Seq(Match) /\ Len(page) \in Nat /\ Len(page) < SheetSize
  <2>1. HasRoom(s) /\ pages \in [Sheet -> Seq(Match)] /\ s \in Sheet \cup {None}
    BY <1>0, <1>1 DEF RoomInv, SheetsTypeOK
  <2> QED BY <2>1 DEF HasRoom
<1>4. match \in Match /\ offered[t] >= 1 /\ match \notin accepted /\ Offering(t)
  <2>1. Offering(t)
    BY <1>1 DEF Offering
  <2>2. offered[t] \in 1..MaxInserts
    BY <1>0, <2>1, Sizes DEF SheetsTypeOK, NamesInv
  <2>3. ASSUME match \in accepted PROVE FALSE
    <3>1. match[2] < offered[match[1]]
      BY <1>0, <2>1, <2>3 DEF NamesInv
    <3> QED BY <2>2, <3>1
  <2> QED BY <2>1, <2>2, <2>3 DEF Match
<1>5. e \in Entry /\ e.match = match /\ e.sheet = s /\ e.item = Len(page)
  BY <1>3, <1>4, Sizes DEF Entry
<1> HIDE DEF match, e
<1>6. /\ pages' \in [Sheet -> Seq(Match)] /\ pages'[s] = Append(page, match)
      /\ \A r \in Sheet \ {s} : pages'[r] = pages[r]
      /\ Len(pages'[s]) = Len(page) + 1
  BY <1>0, <1>1, <1>3, <1>4 DEF SheetsTypeOK
<1>7. /\ local' \in [Shard -> Seq(Entry)] /\ local'[t] = Append(local[t], e)
      /\ \A u \in Shard \ {t} : local'[u] = local[u]
      /\ local[t] \in Seq(Entry)
  BY <1>0, <1>1, <1>5 DEF SheetsTypeOK
<1>8. /\ Len(local'[t]) = Len(local[t]) + 1 /\ Len(local[t]) \in Nat
      /\ local'[t][Len(local[t]) + 1] = e
      /\ \A i \in 1..Len(local[t]) : local'[t][i] = local[t][i]
  BY <1>5, <1>7
<1>9. Others(t)
  BY <1>1, <1>2, <1>7 DEF Others
<1>10. SheetsTypeOK'
  <2>1. \A r \in Sheet : Len(pages'[r]) <= SheetSize
    <3>1. Len(pages'[s]) <= SheetSize
      BY <1>3, <1>6, Sizes
    <3>2. \A r \in Sheet : Len(pages[r]) <= SheetSize
      BY <1>0 DEF SheetsTypeOK
    <3> QED BY <1>6, <3>1, <3>2
  <2>2. \A u \in Shard : Len(local'[u]) <= SheetSize
    BY <1>0, <1>1, <1>7, <1>8, Sizes DEF SheetsTypeOK
  <2>3. accepted' \subseteq Match
    BY <1>0, <1>1, <1>4 DEF SheetsTypeOK
  <2> QED BY <1>0, <1>1, <1>2, <1>6, <1>7, <2>1, <2>2, <2>3 DEF SheetsTypeOK
<1>11. OwnersInv'
  BY <1>0, <1>1, SameOwners
<1>12. QueueInv'
  BY <1>0, <1>1, <1>2, <1>9, SameQueue
<1>13. RoomInv'
  <2>1. \A r \in Sheet : r >= global_index_counter => r # s
    <3>1. s < global_index_counter /\ s \in Nat /\ global_index_counter \in Nat
      BY <1>0, <1>3, Sizes DEF OwnersInv, SheetsTypeOK
    <3> QED BY <3>1, Sizes
  <2>2. \A q \in Waiting : queue[q] # s /\ queue[q] \in Sheet
    BY <1>0 DEF OwnersInv, Waiting, SheetsTypeOK
  <2>3. Waiting' = Waiting
    BY <1>1 DEF Waiting
  <2>4. ASSUME NEW u \in Shard, stage'[u] \in {"insert", "copy", "store"}
        PROVE  HasRoom(sheet[u])'
    <3>1. u # t /\ stage[u] = stage'[u]
      BY <1>2, <2>4
    <3>2. HasRoom(sheet[u]) /\ sheet[u] \in Sheet
      BY <1>0, <2>4, <3>1 DEF RoomInv, HasRoom, SheetsTypeOK
    <3>3. sheet[u] # s
      BY <1>0, <1>3, <3>1, <3>2, Sizes DEF OwnersInv
    <3> QED BY <1>1, <1>6, <3>2, <3>3 DEF HasRoom
  <2>5. \A r \in Sheet : r >= global_index_counter => pages'[r] = <<>>
    BY <1>0, <1>6, <2>1 DEF RoomInv
  <2>6. \A q \in Waiting : Len(pages'[queue[q]]) < SheetSize
    BY <1>0, <1>6, <2>2 DEF RoomInv
  <2> QED BY <1>1, <2>3, <2>4, <2>5, <2>6 DEF RoomInv
<1>14. NamesInv'
  <2>1. \A u \in Shard : Offering(u)' => u # t /\ Offering(u)
    BY <1>2 DEF Offering
  <2>2. match[1] = t /\ match[2] = offered[t]
    BY DEF match
  <2>3. \A m \in accepted : m[2] <= offered[m[1]] /\ m[1] \in Shard
    BY <1>0 DEF NamesInv, SheetsTypeOK, Match
  <2>4. ASSUME NEW m \in accepted'
        PROVE  m[2] <= offered'[m[1]] /\ (Offering(m[1])' => m[2] < offered'[m[1]])
    <3>1. CASE m = match
      <4>1. offered[t] <= offered[t]
        BY <1>0, Sizes DEF SheetsTypeOK
      <4> QED BY <1>1, <2>1, <2>2, <3>1, <4>1
    <3>2. CASE m \in accepted
      BY <1>0, <1>1, <2>1, <2>3, <3>2 DEF NamesInv
    <3> QED BY <1>1, <2>4, <3>1, <3>2
  <2>5. \A u \in Shard : Offering(u)' \/ sheet'[u] # None => offered'[u] >= 1
    BY <1>0, <1>1, <2>1 DEF NamesInv
  <2> QED BY <2>4, <2>5 DEF NamesInv
<1>15. EntriesInv'
  <2>1. ASSUME NEW d \in Entry, Valid(d) PROVE ValidNow(d) /\ d.match # match
    <3>1. d.sheet \in Sheet /\ d.item \in Nat /\ d.match \in accepted
      BY <2>1, Sizes DEF Entry, Valid
    <3>2. CASE d.sheet = s
      <4>1. d.item + 1 \in 1..Len(page)
        BY <1>3, <2>1, <3>1, <3>2 DEF Valid
      <4>2. Append(page, match)[d.item + 1] = page[d.item + 1]
        BY <1>3, <1>4, <4>1
      <4> QED BY <1>1, <1>3, <1>4, <1>6, <2>1, <3>1, <3>2, <4>1, <4>2 DEF Valid
    <3>3. CASE d.sheet # s
      BY <1>1, <1>4, <1>6, <2>1, <3>1, <3>3 DEF Valid
    <3> QED BY <3>2, <3>3
  <2>2. ValidNow(e)
    <3>1. Append(page, match)[Len(page) + 1] = match
      BY <1>3, <1>4
    <3>2. Len(page) < Len(pages'[s])
      BY <1>3, <1>6
    <3> QED BY <1>1, <1>5, <1>6, <3>1, <3>2
  <2>3. \A m : InItems(m)' <=> InItems(m)
    BY <1>1 DEF InItems
  <2>4. \A x \in 0..Capacity - 1 : hash_items[x] # None => hash_items[x] \in Entry /\ Valid(hash_items[x])
    BY <1>0, Listed
  <2>5. ~ InItems(match)
    BY <1>4, <2>4 DEF InItems, Valid
  <2>6. \A u \in Shard : \A i \in 1..Len(local[u]) :
           /\ local[u][i] \in Entry /\ Valid(local[u][i])
           /\ local[u][i].match[1] = u /\ ~ InItems(local[u][i].match)
    BY <1>0, Listed
  <2>7. \A u \in Shard : \A i \in 1..Len(local'[u]) :
           \/ /\ i \in 1..Len(local[u]) /\ local'[u][i] = local[u][i]
           \/ u = t /\ i = Len(local[t]) + 1 /\ local'[u][i] = e
    <3> TAKE u \in Shard
    <3>1. CASE u # t
      BY <1>7, <3>1
    <3>2. CASE u = t
      BY <1>8, <3>2
    <3> QED BY <3>1, <3>2
  <2>8. match[1] = t
    BY DEF match
  <2>9. ASSUME NEW u \in Shard, NEW i \in 1..Len(local'[u])
        PROVE  ValidNow(local'[u][i]) /\ local'[u][i].match[1] = u /\ ~ InItems(local'[u][i].match)
    <3>1. CASE i \in 1..Len(local[u]) /\ local'[u][i] = local[u][i]
      BY <2>1, <2>3, <2>6, <3>1
    <3>2. CASE u = t /\ i = Len(local[t]) + 1 /\ local'[u][i] = e
      BY <1>5, <2>2, <2>3, <2>5, <2>8, <3>2
    <3> QED BY <2>7, <3>1, <3>2
  <2>10. ASSUME NEW u \in Shard, NEW i \in 1..Len(local'[u]), NEW j \in 1..Len(local'[u]),
                local'[u][i].match = local'[u][j].match
         PROVE  i = j
    <3>1. \A k \in 1..Len(local[u]) : local[u][k].match # match
      BY <2>1, <2>6
    <3>2. \A k, l \in 1..Len(local[u]) : local[u][k].match = local[u][l].match => k = l
      BY <1>0 DEF EntriesInv
    <3> QED BY <1>5, <2>7, <2>10, <3>1, <3>2
  <2>11. ASSUME NEW m \in accepted' PROVE InItems(m)' \/ InLocal(m)'
    <3>1. CASE m = match
      <4>1. Len(local[t]) + 1 \in 1..Len(local'[t])
        BY <1>8
      <4> QED BY <1>5, <1>8, <3>1, <4>1 DEF InLocal
    <3>2. CASE m \in accepted /\ InItems(m)
      BY <2>3, <3>2
    <3>3. CASE m \in accepted /\ InLocal(m)
      <4>1. PICK u \in Shard : \E i \in 1..Len(local[u]) : local[u][i].match = m
        BY <3>3 DEF InLocal
      <4>2. PICK i \in 1..Len(local[u]) : local[u][i].match = m
        BY <4>1
      <4>3. i \in 1..Len(local'[u]) /\ local'[u][i] = local[u][i]
        BY <1>7, <1>8, <4>2
      <4> QED BY <4>2, <4>3 DEF InLocal
    <3> QED BY <1>0, <1>1, <2>11, <3>1, <3>2, <3>3 DEF EntriesInv
  <2>12. \A x \in 0..Capacity - 1 : hash_items[x] # None => ValidNow(hash_items[x])
    BY <2>1, <2>4
  <2> HIDE DEF ValidNow
  <2>13. \A x, y \in 0..Capacity - 1 :
            hash_items[x] # None /\ hash_items[y] # None /\ hash_items[x].match = hash_items[y].match
            => x = y
    BY <1>0 DEF EntriesInv
  <2>14. \A u \in Shard : \A i \in 1..Len(local'[u]) :
            ValidNow(local'[u][i]) /\ local'[u][i].match[1] = u /\ ~ InItems(local'[u][i].match)
    BY <2>9
  <2>15. \A u \in Shard : \A i, j \in 1..Len(local'[u]) :
            local'[u][i].match = local'[u][j].match => i = j
    BY <2>10
  <2>16. \A m \in accepted' : InItems(m)' \/ InLocal(m)'
    BY <2>11
  <2>17. \A u \in Shard : \A i \in 1..Len(local'[u]) :
            Valid(local[u][i])' /\ local'[u][i].match[1] = u /\ ~ InItems(local[u][i].match)'
    <3> TAKE u \in Shard
    <3> TAKE i \in 1..Len(local'[u])
    <3>1. ValidNow(local'[u][i]) /\ local'[u][i].match[1] = u /\ ~ InItems(local'[u][i].match)
      BY <2>14
    <3>2. Valid(local[u][i])'
      BY <3>1 DEF ValidNow, Valid
    <3>3. ~ InItems(local[u][i].match)'
      BY <1>1, <3>1 DEF InItems
    <3> QED BY <3>1, <3>2, <3>3
  <2>18. \A x \in 0..Capacity - 1 : hash_items'[x] # None => Valid(hash_items[x])'
    BY <1>1, <2>12 DEF ValidNow, Valid
  <2> QED BY <1>1, <2>13, <2>15, <2>16, <2>17, <2>18 DEF EntriesInv
<1>16. CopiesInv'
  <2>1. ~ Copying(t) /\ ~ Copying(t)' /\ stage'[t] \notin {"return", "store", "done"}
    BY <1>1, <1>2 DEF Copying
  <2>2. \A u \in Shard : /\ Copying(u)' <=> Copying(u)
                         /\ Copying(u) => pos'[u] = pos[u] /\ local'[u] = local[u]
                                          /\ CopyRange(u)' = CopyRange(u)
    BY <1>9, <2>1 DEF Others, Copying, CopyRange
  <2>3. \A u \in Shard : stage'[u] \in {"return", "store", "done"} => local'[u] = <<>>
    BY <1>0, <1>9, <2>1 DEF Others, CopiesInv
  <2>4. ASSUME NEW x \in 0..hash_size - 1, hash_items[x] = None
        PROVE  \E u \in Shard : Copying(u)' /\ x \in CopyRange(u)'
    BY <1>0, <2>2, <2>4 DEF CopiesInv
  <2>5. \A u \in Shard : Copying(u)' =>
           pos'[u] + Len(local'[u]) <= hash_size' /\ \A x \in CopyRange(u)' : hash_items'[x] = None
    <3>1. \A u \in Shard : Copying(u) =>
             pos[u] + Len(local[u]) <= hash_size /\ \A x \in CopyRange(u) : hash_items[x] = None
      BY <1>0 DEF CopiesInv
    <3> QED BY <1>1, <2>2, <3>1
  <2>6. \A u, v \in Shard : Copying(u)' /\ Copying(v)' /\ u # v =>
           \A x \in CopyRange(u)' : x \notin CopyRange(v)'
    BY <1>0, <2>2 DEF CopiesInv
  <2>7. \A x \in 0..Capacity - 1 : hash_items'[x] # None => x < hash_size'
    BY <1>0, <1>1 DEF CopiesInv
  <2> QED BY <1>1, <2>3, <2>4, <2>5, <2>6, <2>7 DEF CopiesInv
<1> QED BY <1>10, <1>11, <1>12, <1>13, <1>14, <1>15, <1>16 DEF Inv

\* A shard reserves the places of hash_items it copies its list to.
LEMMA ReserveKeeps ==
    ASSUME Inv, NEW t \in Shard, NEW next \in {"copy", "lastcopy"}, Reserve(t, next),
           stage[t] \in {"search", "insert"}, next = "copy" => stage[t] = "insert",
           UNCHANGED <<pages, global_index_counter, queue, read, write, hash_items, sheet, local,
                       offered, accepted, beyond>>
    PROVE  Inv'
<1>0. SheetsTypeOK /\ OwnersInv /\ QueueInv /\ RoomInv /\ NamesInv /\ EntriesInv /\ CopiesInv
  BY DEF Inv
<1>1. /\ stage' \in [Shard -> Stage] /\ stage'[t] = next /\ \A u \in Shard \ {t} : stage'[u] = stage[u]
  <2>1. next \in Stage /\ Move(t, next)
    BY DEF Reserve, Stage
  <2> QED BY <1>0, <2>1, Moved
<1> DEFINE n == Len(local[t])
<1>2. /\ n \in Nat /\ hash_size \in Nat /\ Capacity \in Nat
      /\ hash_size' = hash_size + n /\ hash_size + n <= Capacity
  <2>1. ~ Copying(t)
    BY DEF Copying
  <2>2. hash_size + n <= Capacity
    BY <1>0, <2>1, ReservationFits
  <2>3. hash_size' = hash_size + n
    BY DEF Reserve
  <2>4. n \in Nat /\ hash_size \in Nat /\ Capacity \in Nat
    BY <1>0, Sizes DEF SheetsTypeOK
  <2> QED BY <2>2, <2>3, <2>4
<1>3. pos' \in [Shard -> Nat] /\ pos'[t] = hash_size /\ \A u \in Shard \ {t} : pos'[u] = pos[u]
  BY <1>0 DEF Reserve, SheetsTypeOK
<1>4. Others(t)
  BY <1>1, <1>3 DEF Others
<1>5. SheetsTypeOK'
  <2>1. hash_size' \in 0..Capacity
    BY <1>2
  <2> QED BY <1>0, <1>1, <1>3, <2>1 DEF SheetsTypeOK
<1>6. OwnersInv'
  BY <1>0, SameOwners
<1>7. QueueInv'
  BY <1>0, <1>1, <1>4, SameQueue
<1>8. RoomInv'
  <2>1. stage'[t] = "copy" => HasRoom(sheet[t])'
    BY <1>0, <1>1 DEF RoomInv, HasRoom
  <2> QED BY <1>0, <1>1, <1>4, <2>1, SameRoom
<1>9. NamesInv'
  <2>1. Offering(t)' => Offering(t)
    BY <1>1 DEF Offering
  <2> QED BY <1>0, <1>4, <2>1, SameNames
<1>10. EntriesInv'
  BY <1>0, SameEntries
<1>11. CopiesInv'
  <2>1. ~ Copying(t) /\ Copying(t)' /\ stage'[t] \notin {"return", "store", "done"}
    BY <1>1 DEF Copying
  <2>2. \A u \in Shard \ {t} : /\ Copying(u)' <=> Copying(u)
                               /\ pos'[u] = pos[u] /\ CopyRange(u)' = CopyRange(u)
    BY <1>4 DEF Others, Copying, CopyRange
  <2>3. CopyRange(t)' = hash_size..hash_size + n - 1
    BY <1>3 DEF CopyRange
  <2>4. \A x \in CopyRange(t)' : x \in Nat /\ x >= hash_size /\ x \in 0..Capacity - 1
    BY <1>2, <2>3
  <2>5. \A x \in 0..Capacity - 1 : hash_items[x] # None => x < hash_size
    BY <1>0 DEF CopiesInv
  <2>6. \A u \in Shard : Copying(u) =>
          pos[u] + Len(local[u]) <= hash_size /\ \A x \in CopyRange(u) : hash_items[x] = None
    BY <1>0 DEF CopiesInv
  <2>7. \A u \in Shard : Copying(u) => \A x \in CopyRange(u) : x < hash_size
    <3>1. \A u \in Shard : pos[u] \in Nat /\ Len(local[u]) \in Nat
      BY <1>0, Sizes DEF SheetsTypeOK
    <3> QED BY <1>2, <2>6, <3>1 DEF CopyRange
  <2> HIDE DEF n
  <2>8. ASSUME NEW u \in Shard, Copying(u)'
        PROVE  pos'[u] + Len(local[u]) <= hash_size' /\ \A x \in CopyRange(u)' : hash_items[x] = None
    <3>1. CASE u = t
      <4>1. pos'[t] + Len(local[t]) <= hash_size'
        BY <1>2, <1>3 DEF n
      <4>2. \A x \in CopyRange(t)' : hash_items[x] = None
        BY <1>2, <2>4, <2>5
      <4> QED BY <3>1, <4>1, <4>2
    <3>2. CASE u # t
      <4>1. pos[u] + Len(local[u]) <= hash_size /\ \A x \in CopyRange(u) : hash_items[x] = None
        BY <2>2, <2>6, <2>8, <3>2
      <4>2. pos[u] \in Nat /\ Len(local[u]) \in Nat
        BY <1>0, Sizes DEF SheetsTypeOK
      <4> QED BY <1>2, <2>2, <3>2, <4>1, <4>2
    <3> QED BY <3>1, <3>2
  <2>9. ASSUME NEW u \in Shard, NEW v \in Shard, Copying(u)', Copying(v)', u # v,
               NEW x \in CopyRange(u)'
        PROVE  x \notin CopyRange(v)'
    <3>1. CASE u = t
      BY <1>2, <2>2, <2>4, <2>7, <2>9, <3>1
    <3>2. CASE v = t
      BY <1>2, <2>2, <2>4, <2>7, <2>9, <3>2
    <3>3. CASE u # t /\ v # t
      BY <1>0, <2>2, <2>9, <3>3 DEF CopiesInv
    <3> QED BY <3>1, <3>2, <3>3
  <2>10. ASSUME NEW x \in 0..hash_size' - 1, hash_items[x] = None
         PROVE  \E u \in Shard : Copying(u)' /\ x \in CopyRange(u)'
    <3>1. CASE x < hash_size
      <4>1. x \in 0..hash_size - 1
        BY <1>2, <3>1
      <4>2. PICK u \in Shard : Copying(u) /\ x \in CopyRange(u)
        BY <1>0, <2>10, <4>1 DEF CopiesInv
      <4> QED BY <2>1, <2>2, <4>2
    <3>2. CASE x >= hash_size
      <4>1. x \in CopyRange(t)'
        BY <1>2, <2>3, <3>2 DEF n
      <4> QED BY <2>1, <4>1
    <3> QED BY <1>2, <3>1, <3>2
  <2>11. \A x \in 0..Capacity - 1 : hash_items[x] # None => x < hash_size'
    BY <1>2, <2>5
  <2>12. \A u \in Shard : stage'[u] \in {"return", "store", "done"} => local[u] = <<>>
    BY <1>0, <1>4, <2>1 DEF CopiesInv, Others
  <2> QED BY <2>8, <2>9, <2>10, <2>11, <2>12 DEF CopiesInv
<1> QED BY <1>5, <1>6, <1>7, <1>8, <1>9, <1>10, <1>11 DEF Inv

LEMMA EndKeeps ==
    ASSUME Inv, NEW t \in Shard, End(t), UNCHANGED beyond
    PROVE  Inv'
<1>0. SheetsTypeOK /\ OwnersInv /\ QueueInv /\ RoomInv /\ NamesInv /\ EntriesInv /\ CopiesInv
  BY DEF Inv
<1>1. /\ stage[t] = "search"
      /\ UNCHANGED <<pages, global_index_counter, queue, read, write, hash_items, sheet, local,
                     offered, accepted>>
  BY DEF End, sheetVars
<1>2. CASE local[t] # <<>>
  BY <1>1, <1>2, ReserveKeeps DEF End
<1>3. CASE local[t] = <<>>
  <2>1. Move(t, "return") /\ UNCHANGED <<pos, hash_size>>
    BY <1>3 DEF End
  <2>2. stage' \in [Shard -> Stage] /\ stage'[t] = "return" /\ \A u \in Shard \ {t} : stage'[u] = stage[u]
    BY <1>0, <2>1, Moved DEF Stage
  <2>3. Others(t)
    BY <1>1, <2>1, <2>2 DEF Others
  <2>4. SheetsTypeOK'
    BY <1>0, <1>1, <2>1, <2>2 DEF SheetsTypeOK
  <2>5. OwnersInv' /\ EntriesInv'
    BY <1>0, <1>1, SameOwners, SameEntries
  <2>6. QueueInv'
    BY <1>0, <1>1, <2>2, <2>3, SameQueue
  <2>7. RoomInv'
    BY <1>0, <1>1, <2>2, <2>3, SameRoom
  <2>8. NamesInv'
    <3>1. ~ Offering(t)'
      BY <2>2 DEF Offering
    <3> QED BY <1>0, <1>1, <2>3, <3>1, SameNames
  <2>9. CopiesInv'
    <3>1. ~ Copying(t) /\ ~ Copying(t)'
      BY <1>1, <2>2 DEF Copying
    <3> QED BY <1>0, <1>1, <1>3, <2>1, <2>3, <3>1, SameCopies
  <2> QED BY <2>4, <2>5, <2>6, <2>7, <2>8, <2>9 DEF Inv
<1> QED BY <1>2, <1>3

LEMMA FlushFullKeeps ==
    ASSUME Inv, NEW t \in Shard, FlushFull(t), UNCHANGED beyond
    PROVE  Inv'
BY ReserveKeeps DEF FlushFull, sheetVars

LEMMA CopyKeeps ==
    ASSUME Inv, NEW t \in Shard, Copy(t), UNCHANGED beyond
    PROVE  Inv'
<1>0. SheetsTypeOK /\ OwnersInv /\ QueueInv /\ RoomInv /\ NamesInv /\ EntriesInv /\ CopiesInv
  BY DEF Inv
<1>1. /\ Copying(t) /\ stage[t] \in {"copy", "lastcopy"}
      /\ local' = [local EXCEPT ![t] = <<>>]
      /\ UNCHANGED <<pages, global_index_counter, queue, read, write, hash_size, sheet, pos,
                     offered, accepted>>
  BY DEF Copy, sheetVars, Copying
<1>2. /\ stage' \in [Shard -> Stage] /\ \A u \in Shard \ {t} : stage'[u] = stage[u]
      /\ stage'[t] = (IF stage[t] = "copy" THEN "insert" ELSE "return")
  BY <1>0, Moved DEF Copy, Stage
<1>3. /\ local' \in [Shard -> Seq(Entry)] /\ local'[t] = <<>> /\ Len(local'[t]) = 0
      /\ \A u \in Shard \ {t} : local'[u] = local[u]
  BY <1>0, <1>1 DEF SheetsTypeOK
<1>4. Others(t)
  BY <1>1, <1>2, <1>3 DEF Others
<1> DEFINE n == Len(local[t])
           At(x) == x - pos[t] + 1
           Place == 0..Capacity - 1
<1>5. /\ local[t] \in Seq(Entry) /\ n \in Nat /\ pos[t] \in Nat /\ hash_size \in Nat
      /\ Capacity \in Nat /\ hash_size <= Capacity /\ pos[t] + n <= hash_size
  BY <1>0, <1>1, Sizes DEF SheetsTypeOK, CopiesInv
<1>6. \A x \in CopyRange(t) : x \in Place /\ At(x) \in 1..n /\ hash_items[x] = None
  <2>1. \A x \in CopyRange(t) : x \in Place /\ At(x) \in 1..n
    BY <1>5 DEF CopyRange
  <2> QED BY <1>0, <1>1, <2>1 DEF CopiesInv
<1>7. /\ hash_items' = [x \in Place |-> IF x \in CopyRange(t) THEN local[t][At(x)] ELSE hash_items[x]]
      /\ hash_items \in [Place -> Entry \cup {None}]
  <2>1. hash_items \in [Place -> Entry \cup {None}] /\ DOMAIN hash_items = Place
    BY <1>0 DEF SheetsTypeOK
  <2> QED BY <2>1 DEF Copy, CopyRange
<1>8. /\ \A x \in CopyRange(t) : hash_items'[x] = local[t][At(x)]
      /\ \A x \in Place : x \notin CopyRange(t) => hash_items'[x] = hash_items[x]
  BY <1>6, <1>7
<1>9. \A i \in 1..n : /\ pos[t] + i - 1 \in CopyRange(t) /\ At(pos[t] + i - 1) = i
  BY <1>5 DEF CopyRange
<1>10. \A i \in 1..n : /\ local[t][i] \in Entry /\ local[t][i] # None /\ Valid(local[t][i])
                       /\ local[t][i].match[1] = t /\ ~ InItems(local[t][i].match)
  BY <1>0, Listed, Sizes
<1>11. \A x \in CopyRange(t) : At(x) \in 1..n /\ hash_items'[x] = local[t][At(x)]
                               /\ hash_items'[x] \in Entry /\ hash_items'[x] # None
  BY <1>6, <1>8, <1>10
<1>12. hash_items' \in [Place -> Entry \cup {None}]
  BY <1>6, <1>7, <1>10
<1> HIDE DEF At, Place, n
<1>13. SheetsTypeOK'
  <2>1. \A u \in Shard : Len(local'[u]) <= SheetSize
    <3>1. \A u \in Shard : Len(local[u]) <= SheetSize
      BY <1>0 DEF SheetsTypeOK
    <3>2. Len(local'[t]) <= SheetSize
      BY <1>3, Sizes
    <3> QED BY <1>3, <3>1, <3>2
  <2> QED BY <1>0, <1>1, <1>2, <1>3, <1>12, <2>1 DEF SheetsTypeOK, Place
<1>14. OwnersInv'
  BY <1>0, <1>1, SameOwners
<1>15. QueueInv'
  BY <1>0, <1>1, <1>2, <1>4, SameQueue
<1>16. RoomInv'
  <2>1. stage'[t] \in {"insert", "copy", "store"} => HasRoom(sheet[t])'
    BY <1>0, <1>1, <1>2 DEF RoomInv, HasRoom
  <2> QED BY <1>0, <1>1, <1>4, <2>1, SameRoom
<1>17. NamesInv'
  <2>1. Offering(t)' => Offering(t)
    BY <1>1, <1>2 DEF Offering
  <2> QED BY <1>0, <1>1, <1>4, <2>1, SameNames
<1>18. EntriesInv'
  <2>1. \A x \in Place : hash_items[x] # None =>
           hash_items[x] \in Entry /\ Valid(hash_items[x]) /\ InItems(hash_items[x].match)
    BY <1>0, Listed DEF InItems, Place
  <2>2. \A x \in Place : hash_items'[x] # None => Valid(hash_items'[x])
    BY <1>8, <1>10, <1>11, <2>1
  <2>3. \A x, y \in CopyRange(t) : hash_items'[x].match = hash_items'[y].match => x = y
    <3> TAKE x, y \in CopyRange(t)
    <3> HAVE hash_items'[x].match = hash_items'[y].match
    <3>1. At(x) = At(y)
      <4>1. At(x) \in 1..n /\ At(y) \in 1..n /\ local[t][At(x)].match = local[t][At(y)].match
        BY <1>11
      <4> QED BY <1>0, <4>1 DEF EntriesInv, n
    <3> QED BY <1>5, <3>1 DEF At, CopyRange
  <2>4. \A x \in CopyRange(t) : ~ InItems(hash_items'[x].match)
    BY <1>10, <1>11
  <2>5. ASSUME NEW x \in Place, NEW y \in Place, hash_items'[x] # None, hash_items'[y] # None,
               hash_items'[x].match = hash_items'[y].match
        PROVE  x = y
    <3>1. CASE x \in CopyRange(t) /\ y \in CopyRange(t)
      BY <2>3, <2>5, <3>1
    <3>2. CASE x \notin CopyRange(t) /\ y \notin CopyRange(t)
      BY <1>0, <1>8, <2>5, <3>2 DEF EntriesInv, Place
    <3>3. CASE x \in CopyRange(t) /\ y \notin CopyRange(t)
      BY <1>8, <2>1, <2>4, <2>5, <3>3
    <3>4. CASE x \notin CopyRange(t) /\ y \in CopyRange(t)
      BY <1>8, <2>1, <2>4, <2>5, <3>4
    <3> QED BY <3>1, <3>2, <3>3, <3>4
  <2>6. ASSUME NEW u \in Shard, NEW i \in 1..Len(local'[u])
        PROVE  /\ u # t /\ i \in 1..Len(local[u]) /\ local'[u][i] = local[u][i]
    <3>1. u # t
      BY <1>3, <2>6
    <3> QED BY <1>3, <2>6, <3>1
  <2>8. \A u \in Shard : \A i \in 1..Len(local'[u]) :
           Valid(local'[u][i]) /\ local'[u][i].match[1] = u /\ ~ InItems(local[u][i].match)'
    <3> TAKE u \in Shard
    <3> TAKE i \in 1..Len(local'[u])
    <3>1. Valid(local[u][i]) /\ local[u][i].match[1] = u /\ ~ InItems(local[u][i].match)
      BY <1>0, <2>6, Listed
    <3>2. ASSUME InItems(local[u][i].match)' PROVE FALSE
      <4>1. InItems(local'[u][i].match) \/ local'[u][i].match[1] = t
        <5>1. PICK x \in Place : hash_items'[x] # None /\ hash_items'[x].match = local'[u][i].match
          BY <3>2 DEF InItems, Place
        <5>2. CASE x \in CopyRange(t)
          BY <1>10, <1>11, <5>1, <5>2
        <5>3. CASE x \notin CopyRange(t)
          BY <1>8, <2>1, <5>1, <5>3
        <5> QED BY <5>2, <5>3
      <4> QED BY <2>6, <3>1, <4>1
    <3> QED BY <2>6, <3>1, <3>2
  <2>9. \A u \in Shard : \A i, j \in 1..Len(local'[u]) :
            local'[u][i].match = local'[u][j].match => i = j
    BY <1>0, <2>6 DEF EntriesInv
  <2>10. ASSUME NEW m \in accepted PROVE InItems(m)' \/ InLocal(m)'
    <3>1. CASE InItems(m)
      <4>1. PICK x \in Place : hash_items[x] # None /\ hash_items[x].match = m
        BY <3>1 DEF InItems, Place
      <4>2. hash_items'[x] = hash_items[x]
        BY <1>6, <1>8, <4>1
      <4> QED BY <4>1, <4>2 DEF InItems, Place
    <3>2. CASE InLocal(m)
      <4>1. PICK u \in Shard : \E i \in 1..Len(local[u]) : local[u][i].match = m
        BY <3>2 DEF InLocal
      <4>2. PICK i \in 1..Len(local[u]) : local[u][i].match = m
        BY <4>1
      <4>3. CASE u = t
        <5>1. i \in 1..n
          BY <4>3 DEF n
        <5> DEFINE x == pos[t] + i - 1
        <5>2. x \in CopyRange(t) /\ At(x) = i
          BY <1>9, <5>1
        <5> HIDE DEF x
        <5>3. x \in Place /\ hash_items'[x] # None /\ hash_items'[x].match = m
          BY <1>6, <1>11, <4>2, <4>3, <5>2
        <5> QED BY <5>3 DEF InItems, Place
      <4>4. CASE u # t
        BY <1>3, <4>2, <4>4 DEF InLocal
      <4> QED BY <4>3, <4>4
    <3> QED BY <1>0, <2>10, <3>1, <3>2 DEF EntriesInv
  <2>11. \A x \in Place : hash_items'[x] # None => Valid(hash_items[x])'
    BY <1>1, <2>2 DEF Valid
  <2>12. \A u \in Shard : \A i \in 1..Len(local'[u]) :
           Valid(local[u][i])' /\ local'[u][i].match[1] = u /\ ~ InItems(local[u][i].match)'
    BY <1>1, <2>8 DEF Valid
  <2> QED BY <1>1, <2>5, <2>9, <2>10, <2>11, <2>12 DEF EntriesInv, Place
<1>19. CopiesInv'
  <2>1. \A u \in Shard : Copying(u)' => /\ u # t /\ Copying(u)
                                        /\ pos'[u] = pos[u] /\ local'[u] = local[u]
                                        /\ CopyRange(u)' = CopyRange(u)
    BY <1>1, <1>2, <1>3 DEF Copying, CopyRange
  <2>2. \A u \in Shard : Copying(u) /\ u # t => Copying(u)' /\ CopyRange(u)' = CopyRange(u)
    BY <1>1, <1>2, <1>3 DEF Copying, CopyRange
  <2>3. \A u, v \in Shard : Copying(u) /\ Copying(v) /\ u # v =>
           \A x \in CopyRange(u) : x \notin CopyRange(v)
    BY <1>0 DEF CopiesInv
  <2>4. \A u \in Shard : Copying(u) =>
          pos[u] + Len(local[u]) <= hash_size /\ \A x \in CopyRange(u) : hash_items[x] = None
    BY <1>0 DEF CopiesInv
  <2>5. \A u \in Shard : Copying(u) => \A x \in CopyRange(u) : x \in Place
    <3>1. \A u \in Shard : pos[u] \in Nat /\ Len(local[u]) \in Nat
      BY <1>0, Sizes DEF SheetsTypeOK
    <3> QED BY <1>5, <2>4, <3>1 DEF CopyRange, Place
  <2>6. ASSUME NEW u \in Shard, Copying(u)'
        PROVE  pos'[u] + Len(local'[u]) <= hash_size' /\ \A x \in CopyRange(u)' : hash_items'[x] = None
    <3>1. u # t /\ Copying(u) /\ CopyRange(u)' = CopyRange(u)
      BY <2>1, <2>6
    <3>2. \A x \in CopyRange(u) : hash_items'[x] = None
      BY <1>1, <1>8, <2>3, <2>4, <2>5, <3>1
    <3>3. pos'[u] + Len(local'[u]) <= hash_size'
      BY <1>1, <2>1, <2>4, <2>6
    <3> QED BY <3>1, <3>2, <3>3
  <2>7. \A u, v \in Shard : Copying(u)' /\ Copying(v)' /\ u # v =>
           \A x \in CopyRange(u)' : x \notin CopyRange(v)'
    BY <2>1, <2>3
  <2>8. ASSUME NEW x \in 0..hash_size - 1, hash_items'[x] = None
        PROVE  \E u \in Shard : Copying(u)' /\ x \in CopyRange(u)'
    <3>1. x \notin CopyRange(t) /\ x \in Place
      BY <1>5, <1>11, <2>8 DEF Place
    <3>2. hash_items[x] = None
      BY <1>8, <2>8, <3>1
    <3>3. PICK u \in Shard : Copying(u) /\ x \in CopyRange(u)
      BY <1>0, <3>2 DEF CopiesInv
    <3> QED BY <2>2, <3>1, <3>3
  <2>9. ASSUME NEW x \in Place, hash_items'[x] # None PROVE x < hash_size
    <3>1. CASE x \in CopyRange(t)
      BY <1>5, <3>1 DEF CopyRange, n
    <3>2. CASE x \notin CopyRange(t)
      BY <1>0, <1>8, <2>9, <3>2 DEF CopiesInv, Place
    <3> QED BY <3>1, <3>2
  <2>10. \A u \in Shard : stage'[u] \in {"return", "store", "done"} => local'[u] = <<>>
    BY <1>0, <1>2, <1>3 DEF CopiesInv
  <2> QED BY <1>1, <2>6, <2>7, <2>8, <2>9, <2>10 DEF CopiesInv, Place
<1> QED BY <1>13, <1>14, <1>15, <1>16, <1>17, <1>18, <1>19 DEF Inv

\* A shard that ends after finding something is one more that may have been
\* given a place in the queue.
LEMMA OneMoreEnded ==
    ASSUME NEW t \in Shard, stage[t] \notin {"store", "done"}, stage'[t] \in {"store", "done"},
           \A u \in Shard \ {t} : stage'[u] = stage[u], offered' = offered
    PROVE  /\ Cardinality(Ended) \in Nat /\ Cardinality(Ended)' \in Nat
           /\ Cardinality(Ended) <= Cardinality(Ended)'
           /\ t \in Finders => Cardinality(Ended)' = Cardinality(Ended) + 1
<1>1. /\ Ended \subseteq Shard /\ t \notin Ended
      /\ Ended' = IF t \in Finders THEN Ended \cup {t} ELSE Ended
  <2>1. \A u \in Shard : u \in Ended' <=> u \in Ended \/ (u = t /\ t \in Finders)
    BY DEF Ended, Finders
  <2>2. Ended \subseteq Shard /\ Ended' \subseteq Shard /\ t \notin Ended
    BY DEF Ended, Finders
  <2> QED BY <2>1, <2>2
<1>2. IsFiniteSet(Ended) /\ Cardinality(Ended) \in Nat
  BY <1>1, Sizes, FS_Subset, FS_CardinalityType
<1>3. CASE t \in Finders
  <2>1. Cardinality(Ended)' = Cardinality(Ended) + 1
    BY <1>1, <1>2, <1>3, FS_AddElement
  <2> QED BY <1>2, <2>1
<1>4. CASE t \notin Finders
  <2>1. Cardinality(Ended)' = Cardinality(Ended)
    BY <1>1, <1>4
  <2> QED BY <1>2, <1>4, <2>1
<1> QED BY <1>2, <1>3, <1>4

LEMMA ReturnSheetKeeps ==
    ASSUME Inv, NEW t \in Shard, ReturnSheet(t), UNCHANGED beyond
    PROVE  Inv'
<1>0. SheetsTypeOK /\ OwnersInv /\ QueueInv /\ RoomInv /\ NamesInv /\ EntriesInv /\ CopiesInv
  BY DEF Inv
<1>1. /\ stage[t] = "return"
      /\ UNCHANGED <<pages, global_index_counter, queue, read, hash_size, hash_items, sheet, local,
                     offered, accepted>>
  BY DEF ReturnSheet, itemVars
<1>2. /\ stage' \in [Shard -> Stage] /\ \A u \in Shard \ {t} : stage'[u] = stage[u]
      /\ stage'[t] \in {"store", "done"} /\ (stage'[t] = "store" <=> HasRoom(sheet[t]))
  <2>1. CASE HasRoom(sheet[t])
    <3>1. Move(t, "store")
      BY <2>1 DEF ReturnSheet
    <3> QED BY <1>0, <2>1, <3>1, Moved DEF Stage
  <2>2. CASE ~ HasRoom(sheet[t])
    <3>1. Move(t, "done")
      BY <2>2 DEF ReturnSheet
    <3> QED BY <1>0, <2>2, <3>1, Moved DEF Stage
  <2> QED BY <2>1, <2>2
<1>3. /\ Cardinality(Ended) \in Nat /\ Cardinality(Ended)' \in Nat
      /\ Cardinality(Ended) <= Cardinality(Ended)'
      /\ stage'[t] = "store" => Cardinality(Ended)' = Cardinality(Ended) + 1
  <2>1. sheet[t] # None => t \in Finders
    BY <1>0 DEF NamesInv, Finders, SheetsTypeOK
  <2>2. stage'[t] = "store" => t \in Finders
    BY <1>2, <2>1 DEF HasRoom
  <2> QED BY <1>1, <1>2, <2>2, OneMoreEnded
<1>4. write \in Nat /\ write <= Cardinality(Ended) /\ read \in Nat /\ read <= write
  BY <1>0, Sizes DEF SheetsTypeOK, QueueInv
<1>5. \A u \in Shard \ {t} : pos'[u] = pos[u]
  BY <1>0 DEF ReturnSheet, SheetsTypeOK
<1>6. /\ pos' \in [Shard -> Nat]
      /\ \/ stage'[t] = "store" /\ write' = write + 1 /\ pos'[t] = write /\ sheet[t] # None
         \/ stage'[t] = "done" /\ write' = write
  <2>1. CASE HasRoom(sheet[t])
    <3>1. write' = write + 1 /\ pos' = [pos EXCEPT ![t] = write]
      BY <2>1 DEF ReturnSheet
    <3>2. pos' \in [Shard -> Nat] /\ pos'[t] = write
      BY <1>0, <1>4, <3>1 DEF SheetsTypeOK
    <3> QED BY <1>2, <2>1, <3>1, <3>2 DEF HasRoom
  <2>2. CASE ~ HasRoom(sheet[t])
    BY <1>0, <1>2, <2>2 DEF ReturnSheet, SheetsTypeOK
  <2> QED BY <2>1, <2>2
<1>7. Others(t)
  BY <1>1, <1>2, <1>5 DEF Others
<1>8. SheetsTypeOK'
  <2>1. write' \in Nat
    BY <1>4, <1>6
  <2> QED BY <1>0, <1>1, <1>2, <1>6, <2>1 DEF SheetsTypeOK
<1>9. OwnersInv' /\ EntriesInv'
  BY <1>0, <1>1, SameOwners, SameEntries
<1>10. QueueInv'
  <2>1. write' \in Nat /\ write <= write' /\ read <= write' /\ write' <= Cardinality(Ended)'
    BY <1>3, <1>4, <1>6
  <2>2. \A q \in Sheet : queue[q] # None => q < write
    BY <1>0 DEF QueueInv
  <2>3. \A q \in Sheet : queue[q] # None => q < write'
    BY <1>4, <2>1, <2>2, Sizes
  <2>4. \A u \in Shard : stage[u] = "store" =>
           /\ sheet[u] # None /\ read <= pos[u] /\ pos[u] < write /\ pos[u] \in Nat
           /\ pos[u] < MaxSheets => queue[pos[u]] = None
    <3>1. \A u \in Shard : pos[u] \in Nat
      BY <1>0, Sizes DEF SheetsTypeOK
    <3> QED BY <1>0, <3>1 DEF QueueInv
  <2>5. write < MaxSheets => queue[write] = None
    BY <1>4, <2>2, Sizes
  <2>6. ASSUME NEW u \in Shard, stage'[u] = "store"
        PROVE  /\ sheet[u] # None /\ read <= pos'[u] /\ pos'[u] < write'
               /\ pos'[u] < MaxSheets => queue[pos'[u]] = None
    <3>1. CASE u = t
      <4>1. write' = write + 1 /\ pos'[t] = write /\ sheet[t] # None
        BY <1>6, <2>6, <3>1
      <4> QED BY <1>4, <2>5, <3>1, <4>1
    <3>2. CASE u # t
      BY <1>2, <1>4, <1>5, <2>1, <2>4, <2>6, <3>2
    <3> QED BY <3>1, <3>2
  <2>7. ASSUME NEW u \in Shard, NEW v \in Shard, stage'[u] = "store", stage'[v] = "store", pos'[u] = pos'[v]
        PROVE  u = v
    <3>1. \A w \in Shard \ {t} : stage'[w] = "store" => pos'[w] < write /\ pos'[w] \in Nat
      BY <1>2, <1>5, <2>4
    <3>2. CASE u = t \/ v = t
      BY <1>4, <1>6, <2>7, <3>1, <3>2
    <3>3. CASE u # t /\ v # t
      BY <1>0, <1>2, <1>5, <2>7, <3>3 DEF QueueInv
    <3> QED BY <3>2, <3>3
  <2>8. \A u \in Shard : stage'[u] \in {"peek", "swap"} => u # t /\ stage[u] = stage'[u] /\ pos'[u] = pos[u]
    BY <1>2, <1>5
  <2>9. /\ \A u \in Shard : stage'[u] \in {"peek", "swap"} => pos'[u] <= read
        /\ \A u \in Shard : stage'[u] = "swap" => pos'[u] < MaxSheets /\ queue[pos'[u]] # None
    BY <1>0, <2>8 DEF QueueInv
  <2> QED BY <1>1, <2>1, <2>3, <2>6, <2>7, <2>9 DEF QueueInv
<1>11. RoomInv'
  <2>1. stage'[t] \in {"insert", "copy", "store"} => HasRoom(sheet[t])'
    BY <1>1, <1>2 DEF HasRoom
  <2> QED BY <1>0, <1>1, <1>7, <2>1, SameRoom
<1>12. NamesInv'
  <2>1. ~ Offering(t)'
    BY <1>2 DEF Offering
  <2> QED BY <1>0, <1>1, <1>7, <2>1, SameNames
<1>13. CopiesInv'
  <2>1. ~ Copying(t) /\ ~ Copying(t)' /\ local[t] = <<>>
    BY <1>0, <1>1, <1>2 DEF Copying, CopiesInv
  <2> QED BY <1>0, <1>1, <1>7, <2>1, SameCopies
<1> QED BY <1>8, <1>9, <1>10, <1>11, <1>12, <1>13 DEF Inv

LEMMA StoreSheetKeeps ==
    ASSUME Inv, NEW t \in Shard, StoreSheet(t), UNCHANGED beyond
    PROVE  Inv'
<1>0. SheetsTypeOK /\ OwnersInv /\ QueueInv /\ RoomInv /\ NamesInv /\ EntriesInv /\ CopiesInv
  BY DEF Inv
<1> DEFINE p == pos[t]
           s == sheet[t]
<1>1. /\ stage[t] = "store" /\ Move(t, "done")
      /\ queue' = [queue EXCEPT ![p] = s] /\ sheet' = [sheet EXCEPT ![t] = None]
      /\ UNCHANGED <<pages, global_index_counter, read, write, hash_size, hash_items, local, pos,
                     offered, accepted>>
  BY DEF StoreSheet, itemVars
<1>2. stage' \in [Shard -> Stage] /\ stage'[t] = "done" /\ \A u \in Shard \ {t} : stage'[u] = stage[u]
  BY <1>0, <1>1, Moved DEF Stage
<1>3. /\ s \in Sheet /\ s # None /\ p \in Sheet /\ read <= p /\ p < write /\ queue[p] = None
      /\ HasRoom(s) /\ s < global_index_counter
  <2>1. s # None /\ read <= p /\ p < write /\ p < MaxSheets /\ queue[p] = None
    BY <1>0, <1>1 DEF QueueInv, StoreSheet
  <2>2. s \in Sheet /\ p \in Nat
    BY <1>0, <2>1, Sizes DEF SheetsTypeOK
  <2>3. p \in Sheet
    BY <2>1, <2>2, Sizes
  <2>4. HasRoom(s) /\ s < global_index_counter
    BY <1>0, <1>1, <2>1 DEF RoomInv, OwnersInv
  <2> QED BY <2>1, <2>2, <2>3, <2>4
<1> HIDE DEF p, s
<1>4. /\ queue' \in [Sheet -> Sheet \cup {None}] /\ queue'[p] = s
      /\ \A q \in Sheet \ {p} : queue'[q] = queue[q]
  BY <1>0, <1>1, <1>3 DEF SheetsTypeOK
<1>5. /\ sheet' \in [Shard -> Sheet \cup {None}] /\ sheet'[t] = None
      /\ \A u \in Shard \ {t} : sheet'[u] = sheet[u]
  BY <1>0, <1>1 DEF SheetsTypeOK
<1>6. SheetsTypeOK'
  BY <1>0, <1>1, <1>2, <1>4, <1>5 DEF SheetsTypeOK
<1>7. Waiting' = Waiting \cup {p} /\ p \notin Waiting /\ Waiting \subseteq Sheet
  <2>1. p \notin Waiting /\ Waiting \subseteq Sheet
    BY <1>3 DEF Waiting
  <2>2. Waiting' = {q \in Sheet : q >= read /\ queue'[q] # None}
    BY <1>1 DEF Waiting
  <2>3. p >= read
    BY <1>0, <1>3, Sizes DEF SheetsTypeOK
  <2>4. Waiting' = Waiting \cup {p}
    BY <1>3, <1>4, <2>1, <2>2, <2>3 DEF Waiting
  <2> QED BY <2>1, <2>4
<1>8. \A q \in Waiting : queue'[q] = queue[q] /\ queue[q] # s
  BY <1>0, <1>4, <1>7 DEF OwnersInv, s
<1>9. OwnersInv'
  <2>1. \A u \in Shard : sheet'[u] # None => u # t /\ sheet'[u] = sheet[u] /\ sheet[u] # s
    BY <1>0, <1>3, <1>5 DEF OwnersInv, s
  <2>2. \A q \in Waiting' : \A u \in Shard : sheet'[u] # queue'[q]
    <3>1. \A u \in Shard : sheet'[u] # s
      BY <1>3, <2>1
    <3>2. \A q \in Waiting : \A u \in Shard : sheet'[u] # queue[q]
      <4>1. \A q \in Waiting : queue[q] # None
        BY DEF Waiting
      <4> QED BY <1>0, <2>1, <4>1 DEF OwnersInv
    <3> QED BY <1>4, <1>7, <1>8, <3>1, <3>2
  <2>3. \A q, r \in Waiting' : queue'[q] = queue'[r] => q = r
    <3>1. \A q, r \in Waiting : queue[q] = queue[r] => q = r
      BY <1>0 DEF OwnersInv
    <3> QED BY <1>4, <1>7, <1>8, <3>1
  <2>4. \A u \in Shard : sheet'[u] # None => sheet'[u] < global_index_counter'
    BY <1>0, <1>1, <2>1 DEF OwnersInv
  <2>5. \A u, v \in Shard : sheet'[u] = sheet'[v] /\ sheet'[u] # None => u = v
    BY <1>0, <2>1 DEF OwnersInv
  <2>6. \A q \in Sheet : queue'[q] # None => queue'[q] < global_index_counter'
    BY <1>0, <1>1, <1>3, <1>4 DEF OwnersInv
  <2> QED BY <2>2, <2>3, <2>4, <2>5, <2>6 DEF OwnersInv
<1>10. QueueInv'
  <2>1. Ended' = Ended
    <3>1. \A u \in Shard : stage[u] \in {"store", "done"} <=> stage'[u] \in {"store", "done"}
      BY <1>1, <1>2
    <3> QED BY <1>1, <3>1 DEF Ended, Finders
  <2>2. \A u \in Shard : stage'[u] \in {"store", "peek", "swap"} =>
           u # t /\ stage'[u] = stage[u] /\ sheet'[u] = sheet[u]
    BY <1>2, <1>5
  <2>3. ASSUME NEW u \in Shard, stage'[u] = "store"
        PROVE  /\ sheet'[u] # None /\ read <= pos[u] /\ pos[u] < write
               /\ pos[u] < MaxSheets => queue'[pos[u]] = None
    <3>1. u # t /\ stage[u] = "store" /\ sheet'[u] = sheet[u]
      BY <2>2, <2>3
    <3>2. /\ sheet[u] # None /\ read <= pos[u] /\ pos[u] < write
          /\ pos[u] < MaxSheets => queue[pos[u]] = None
      BY <1>0, <3>1 DEF QueueInv
    <3>3. pos[u] # p
      BY <1>0, <1>1, <3>1 DEF QueueInv, p
    <3>4. pos[u] < MaxSheets => pos[u] \in Sheet
      <4>1. pos[u] \in Nat
        BY <1>0 DEF SheetsTypeOK
      <4> QED BY <4>1, Sizes
    <3> QED BY <1>4, <3>1, <3>2, <3>3, <3>4
  <2>4. ASSUME NEW u \in Shard, stage'[u] = "swap"
        PROVE  pos[u] < MaxSheets /\ queue'[pos[u]] # None
    <3>1. stage[u] = "swap" /\ pos[u] < MaxSheets /\ queue[pos[u]] # None
      BY <1>0, <2>2, <2>4 DEF QueueInv
    <3>2. pos[u] \in Sheet
      <4>1. pos[u] \in Nat
        BY <1>0 DEF SheetsTypeOK
      <4> QED BY <3>1, <4>1, Sizes
    <3> QED BY <1>3, <1>4, <3>1, <3>2
  <2>5. \A u \in Shard : stage'[u] \in {"peek", "swap"} => pos[u] <= read
    BY <1>0, <2>2 DEF QueueInv
  <2>6. \A u, v \in Shard : stage'[u] = "store" /\ stage'[v] = "store" /\ pos[u] = pos[v] => u = v
    BY <1>0, <2>2 DEF QueueInv
  <2>7. \A q \in Sheet : queue'[q] # None => q < write
    BY <1>0, <1>3, <1>4 DEF QueueInv
  <2> QED BY <1>0, <1>1, <2>1, <2>3, <2>4, <2>5, <2>6, <2>7 DEF QueueInv
<1>11. RoomInv'
  <2>1. \A q \in Waiting' : Len(pages[queue'[q]]) < SheetSize
    BY <1>0, <1>3, <1>4, <1>7, <1>8 DEF RoomInv, HasRoom
  <2>2. \A u \in Shard : stage'[u] \in {"insert", "copy", "store"} => HasRoom(sheet[u])'
    BY <1>0, <1>1, <1>2, <1>5 DEF RoomInv, HasRoom
  <2> QED BY <1>0, <1>1, <2>1, <2>2 DEF RoomInv
<1>12. NamesInv'
  <2>1. \A u \in Shard : Offering(u)' => Offering(u)
    BY <1>2 DEF Offering
  <2>2. \A m \in accepted : m[1] \in Shard
    BY <1>0 DEF SheetsTypeOK, Match
  <2> QED BY <1>0, <1>1, <2>1, <2>2 DEF NamesInv
<1>13. EntriesInv'
  BY <1>0, <1>1, SameEntries
<1>14. CopiesInv'
  <2>1. \A u \in Shard : /\ Copying(u)' <=> Copying(u)
                         /\ CopyRange(u)' = CopyRange(u)
    BY <1>1, <1>2 DEF Copying, CopyRange
  <2>2. \A u \in Shard : stage'[u] \in {"return", "store", "done"} => local[u] = <<>>
    BY <1>0, <1>1, <1>2 DEF CopiesInv
  <2> QED BY <1>0, <1>1, <2>1, <2>2 DEF CopiesInv
<1> QED BY <1>6, <1>9, <1>10, <1>11, <1>12, <1>13, <1>14 DEF Inv

-----------------------------------------------------------------------------
(* The invariant holds.                                                    *)

LEMMA InitHolds == SheetsInit => Inv
<1> SUFFICES ASSUME SheetsInit PROVE Inv
  OBVIOUS
<1>1. /\ \A t \in Shard : stage[t] = "search" /\ sheet[t] = None /\ local[t] = <<>> /\ Len(local[t]) = 0
      /\ \A q \in Sheet : queue[q] = None /\ pages[q] = <<>>
      /\ \A x \in 0..Capacity - 1 : hash_items[x] = None
      /\ read = 0 /\ write = 0 /\ hash_size = 0 /\ accepted = {}
  BY DEF SheetsInit
<1>2. Waiting = {} /\ Ended = {} /\ Cardinality(Ended) = 0
  <2>1. Waiting = {} /\ Ended = {}
    BY <1>1 DEF Waiting, Ended, Finders
  <2> QED BY <2>1, FS_EmptySet
<1>3. SheetsTypeOK
  <2>1. /\ 0 \in Sheet /\ 0 \in 0..MaxSheets /\ 0 \in 0..Capacity /\ 0 \in 0..MaxInserts /\ 0 \in Nat
        /\ \A s \in Sheet : Len(pages[s]) <= SheetSize
        /\ \A t \in Shard : Len(local[t]) <= SheetSize
    BY <1>1, Sizes
  <2>2. /\ pages \in [Sheet -> Seq(Match)] /\ local \in [Shard -> Seq(Entry)]
        /\ queue \in [Sheet -> Sheet \cup {None}] /\ sheet \in [Shard -> Sheet \cup {None}]
        /\ hash_items \in [0..Capacity - 1 -> Entry \cup {None}]
    BY DEF SheetsInit
  <2>3. /\ stage \in [Shard -> Stage] /\ pos \in [Shard -> Nat]
        /\ offered \in [Shard -> 0..MaxInserts]
    BY <2>1 DEF SheetsInit, Stage
  <2> QED BY <2>1, <2>2, <2>3 DEF SheetsInit, SheetsTypeOK
<1>4. OwnersInv
  BY <1>1, <1>2 DEF OwnersInv
<1>5. QueueInv
  BY <1>1, <1>2 DEF QueueInv
<1>6. RoomInv
  BY <1>1, <1>2 DEF RoomInv
<1>7. NamesInv
  BY <1>1 DEF NamesInv, Offering
<1>8. EntriesInv
  BY <1>1 DEF EntriesInv
<1>9. CopiesInv
  BY <1>1 DEF CopiesInv, Copying
<1> QED BY <1>3, <1>4, <1>5, <1>6, <1>7, <1>8, <1>9 DEF Inv

LEMMA StandingKeeps ==
    ASSUME Inv, beyond' \in BOOLEAN,
           UNCHANGED <<sheetVars, itemVars, stage, sheet, local, pos, offered, accepted>>
    PROVE  Inv'
BY DEF sheetVars, itemVars, Inv, SheetsTypeOK, OwnersInv, QueueInv, RoomInv, NamesInv, EntriesInv,
       CopiesInv, Waiting, Ended, Finders, HasRoom, Offering, Valid, InItems, InLocal, Copying,
       CopyRange

\* A place beyond the queue is looked at or stored to only after every place
\* was given to a shard of its own that found something.
LEMMA LeavingIsLate ==
    ASSUME Inv, NEW t \in Shard, LeaveQueue(t)
    PROVE  Cardinality(Finders) > MaxSheets
<1>0. SheetsTypeOK /\ QueueInv /\ NamesInv
  BY DEF Inv
<1>1. stage[t] \in {"peek", "store"} /\ pos[t] >= MaxSheets /\ pos[t] \in Nat /\ MaxSheets \in Nat
  BY <1>0, Sizes DEF LeaveQueue, SheetsTypeOK
<1>2. read \in Nat /\ write \in Nat /\ read <= write /\ write <= Cardinality(Ended)
  BY <1>0 DEF SheetsTypeOK, QueueInv
<1>3. Finders \subseteq Shard /\ Ended \subseteq Finders
  BY DEF Finders, Ended
<1>4. IsFiniteSet(Finders) /\ Cardinality(Finders) \in Nat
  BY <1>3, Sizes, FS_Subset, FS_CardinalityType
<1>5. Cardinality(Ended) \in Nat /\ Cardinality(Ended) <= Cardinality(Finders)
  BY <1>3, <1>4, FS_Subset, FS_CardinalityType
<1>6. CASE stage[t] = "store"
  <2>1. pos[t] < write
    BY <1>0, <1>6 DEF QueueInv
  <2> QED BY <1>1, <1>2, <1>4, <1>5, <2>1
<1>7. CASE stage[t] = "peek"
  <2>1. pos[t] <= read
    BY <1>0, <1>7 DEF QueueInv
  <2>2. t \in Finders /\ Ended \subseteq Finders \ {t}
    <3>1. offered[t] >= 1 /\ offered[t] \in Nat
      BY <1>0, <1>7 DEF NamesInv, Offering, SheetsTypeOK
    <3> QED BY <1>3, <1>7, <3>1 DEF Finders, Ended
  <2>3. IsFiniteSet(Finders \ {t}) /\ Cardinality(Finders \ {t}) = Cardinality(Finders) - 1
    BY <1>4, <2>2, FS_RemoveElement
  <2>4. Cardinality(Ended) <= Cardinality(Finders \ {t})
    BY <2>2, <2>3, FS_Subset
  <2> QED BY <1>1, <1>2, <1>4, <1>5, <2>1, <2>3, <2>4
<1> QED BY <1>1, <1>6, <1>7

LEMMA StepKeeps ==
    Inv /\ QueueSuffices /\ [SheetsNext]_resultVars => (Inv /\ QueueSuffices)'
<1> SUFFICES ASSUME Inv, QueueSuffices, [SheetsNext]_resultVars PROVE (Inv /\ QueueSuffices)'
  OBVIOUS
<1>1. CASE UNCHANGED resultVars
  <2>1. beyond' = beyond /\ offered' = offered /\ beyond \in BOOLEAN
    BY <1>1 DEF resultVars, Inv, SheetsTypeOK
  <2>2. UNCHANGED <<sheetVars, itemVars, stage, sheet, local, pos, offered, accepted>>
    BY <1>1 DEF resultVars, sheetVars, itemVars
  <2>3. Finders' = Finders
    BY <2>1 DEF Finders
  <2> QED BY <2>1, <2>2, <2>3, StandingKeeps DEF QueueSuffices
<1>2. ASSUME NEW t \in Shard, Step(t), UNCHANGED beyond PROVE Inv'
  <2>1. CASE Insert(t)
    BY <1>2, <2>1, InsertKeeps
  <2>2. CASE GrabFresh(t)
    BY <1>2, <2>2, GrabFreshKeeps
  <2>3. CASE LoadRead(t)
    BY <1>2, <2>3, LoadReadKeeps
  <2>4. CASE Peek(t)
    BY <1>2, <2>4, PeekKeeps
  <2>5. CASE TakeSheet(t)
    BY <1>2, <2>5, TakeSheetKeeps
  <2>6. CASE Put(t)
    BY <1>2, <2>6, PutKeeps
  <2>7. CASE FlushFull(t)
    BY <1>2, <2>7, FlushFullKeeps
  <2>8. CASE Copy(t)
    BY <1>2, <2>8, CopyKeeps
  <2>9. CASE End(t)
    BY <1>2, <2>9, EndKeeps
  <2>10. CASE ReturnSheet(t)
    BY <1>2, <2>10, ReturnSheetKeeps
  <2>11. CASE StoreSheet(t)
    BY <1>2, <2>11, StoreSheetKeeps
  <2> QED BY <1>2, <2>1, <2>2, <2>3, <2>4, <2>5, <2>6, <2>7, <2>8, <2>9, <2>10, <2>11 DEF Step
<1>3. ASSUME NEW t \in Shard, LeaveQueue(t) PROVE (Inv /\ QueueSuffices)'
  <2>1. /\ UNCHANGED <<sheetVars, itemVars, stage, sheet, local, pos, offered, accepted>>
        /\ beyond' \in BOOLEAN
    BY <1>3 DEF LeaveQueue
  <2>2. Finders' = Finders
    BY <2>1 DEF Finders
  <2>3. Cardinality(Finders) > MaxSheets
    BY <1>3, LeavingIsLate
  <2> QED BY <2>1, <2>2, <2>3, StandingKeeps DEF QueueSuffices
<1>4. ASSUME ~ beyond, NEW t \in Shard, Step(t), UNCHANGED beyond PROVE QueueSuffices'
  BY <1>4 DEF QueueSuffices
<1> QED BY <1>1, <1>2, <1>3, <1>4 DEF SheetsNext

-----------------------------------------------------------------------------
(* What the invariant says.                                                *)

LEMMA HeldOnce == SheetsTypeOK /\ OwnersInv => OneHolder
<1> SUFFICES ASSUME SheetsTypeOK, OwnersInv PROVE OneHolder
  OBVIOUS
<1>1. ASSUME NEW s \in Sheet PROVE Cardinality(Holder(s)) <= 1
  <2>1. \A t, u \in Holder(s) : t = u
    BY Sizes DEF Holder, OwnersInv
  <2>2. CASE Holder(s) = {}
    BY <2>2, FS_EmptySet
  <2>3. CASE Holder(s) # {}
    <3>1. PICK t : t \in Holder(s)
      BY <2>3
    <3>2. Holder(s) = {t}
      BY <2>1, <3>1
    <3>3. Cardinality({t}) = 1
      BY FS_Singleton
    <3> QED BY <3>2, <3>3
  <2> QED BY <2>2, <2>3
<1>2. \A q \in Waiting : Holder(queue[q]) = {}
  BY DEF OwnersInv, Holder
<1> QED BY <1>1, <1>2 DEF OneHolder, OwnersInv

LEMMA CopiesAreApart == CopiesInv /\ SheetsTypeOK => CopiesApart
<1> SUFFICES ASSUME CopiesInv, SheetsTypeOK, NEW t \in Shard, Copying(t)
             PROVE  /\ \A x \in CopyRange(t) : x < hash_size /\ hash_items[x] = None
                    /\ \A u \in Shard \ {t} : Copying(u) => CopyRange(t) \cap CopyRange(u) = {}
  BY DEF CopiesApart
<1>1. pos[t] + Len(local[t]) <= hash_size /\ \A x \in CopyRange(t) : hash_items[x] = None
  BY DEF CopiesInv
<1>2. pos[t] \in Nat /\ Len(local[t]) \in Nat /\ hash_size \in Nat
  BY Sizes DEF SheetsTypeOK
<1>3. \A x \in CopyRange(t) : x < hash_size
  BY <1>1, <1>2 DEF CopyRange
<1>4. \A u \in Shard \ {t} : Copying(u) => CopyRange(t) \cap CopyRange(u) = {}
  BY DEF CopiesInv
<1> QED BY <1>1, <1>3, <1>4

LEMMA NothingIsLost == SheetsTypeOK /\ EntriesInv /\ CopiesInv => NothingLost
<1> SUFFICES ASSUME SheetsTypeOK, EntriesInv, CopiesInv, \A t \in Shard : stage[t] = "done"
             PROVE  /\ \A x \in 0..hash_size - 1 :
                          hash_items[x] # None /\ pages[hash_items[x].sheet][hash_items[x].item + 1]
                                                    = hash_items[x].match
                    /\ {hash_items[x].match : x \in 0..hash_size - 1} = accepted
                    /\ hash_size = Cardinality(accepted)
  BY DEF NothingLost
<1> DEFINE Filled == 0..hash_size - 1
           f == [x \in Filled |-> hash_items[x].match]
<1>1. hash_size \in Nat /\ Capacity \in Nat /\ hash_size <= Capacity
  BY Sizes DEF SheetsTypeOK
<1>2. Filled \subseteq 0..Capacity - 1
  BY <1>1
<1>3. \A x \in Filled : hash_items[x] # None
  BY DEF CopiesInv, Copying
<1>4. \A x \in Filled : Valid(hash_items[x])
  BY <1>2, <1>3 DEF EntriesInv
<1>5. \A m \in accepted : \E x \in Filled : hash_items[x].match = m
  <2>1. ~ \E m : InLocal(m)
    <3>1. \A t \in Shard : local[t] = <<>>
      BY DEF CopiesInv
    <3> QED BY <3>1 DEF InLocal
  <2>2. \A x \in 0..Capacity - 1 : hash_items[x] # None => x \in Filled
    BY <1>1 DEF CopiesInv
  <2> QED BY <2>1, <2>2 DEF EntriesInv, InItems
<1>6. \A x \in Filled : hash_items[x].match \in accepted
  BY <1>4 DEF Valid
<1>7. \A x, y \in Filled : hash_items[x].match = hash_items[y].match => x = y
  BY <1>2, <1>3 DEF EntriesInv
<1>8. {hash_items[x].match : x \in Filled} = accepted
  BY <1>5, <1>6
<1>9. f \in Bijection(Filled, accepted)
  <2>1. f \in [Filled -> accepted] /\ \A x \in Filled : f[x] = hash_items[x].match
    BY <1>6
  <2> HIDE DEF f, Filled
  <2>2. \A x, y \in Filled : f[x] = f[y] => x = y
    BY <1>7, <2>1
  <2>3. \A m \in accepted : \E x \in Filled : f[x] = m
    BY <1>5, <2>1
  <2> QED BY <2>1, <2>2, <2>3 DEF Bijection, Injection, Surjection, IsInjective
<1>10. IsFiniteSet(Filled) /\ Cardinality(Filled) = hash_size
  BY <1>1, Counted
<1>11. hash_size = Cardinality(accepted)
  <2> HIDE DEF f, Filled
  <2> QED BY <1>9, <1>10, FS_Bijection DEF ExistsBijection
<1> QED BY <1>3, <1>4, <1>8, <1>11 DEF Valid

\* At every moment of a search a sheet has at most one shard that writes to it
\* and a sheet in the queue has none, copies to hash_items go to empty places
\* apart from each other, what was accepted fits the buffers, and when all
\* shards are done hash_items lists it once and without a hole.  That is so for
\* any number of shards until a place beyond the queue is used, and one is used
\* only when more shards have found something than there are sheets.
THEOREM SheetsCorrect == SheetsSpec => []SheetsInv
<1>1. Inv /\ QueueSuffices => SheetsInv
  <2> SUFFICES ASSUME Inv, QueueSuffices PROVE SheetsInv
    OBVIOUS
  <2>1. SheetsTypeOK /\ OwnersInv /\ EntriesInv /\ CopiesInv
    BY DEF Inv
  <2>2. FitsCapacity
    <3>1. hash_size <= Capacity
      BY <2>1, Sizes DEF SheetsTypeOK
    <3> QED BY <2>1, <3>1, AcceptedFit DEF FitsCapacity
  <2> QED BY <2>1, <2>2, HeldOnce, CopiesAreApart, NothingIsLost DEF SheetsInv
<1>2. SheetsInit => QueueSuffices
  BY DEF SheetsInit, QueueSuffices
<1> QED BY InitHolds, StepKeeps, <1>1, <1>2, PTL DEF SheetsSpec

=============================================================================
