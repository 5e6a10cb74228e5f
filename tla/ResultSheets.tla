---------------------------- MODULE ResultSheets ----------------------------
(***************************************************************************)
(* How the shards of one search write into one hash set without a lock:    *)
(* result_container_insert and container_flush_items of result-container.c *)
(* and container_return_sheet of hashset.c.                                *)
(*                                                                         *)
(* A match is written to a sheet that the shard has to itself, and listed  *)
(* with its address in a local list, which is copied to hash_items in a    *)
(* place reserved by one fetch-and-add.  Sheets come fresh while there are *)
(* any, then from a queue of the sheets that finished shards left half     *)
(* full.  What the shards leave in hash_items is the input of the merge    *)
(* (ParallelMerge).                                                        *)
(*                                                                         *)
(* A match is named by its shard and a number; the name stands for the     *)
(* hash, score and functions packed with it.                               *)
(*                                                                         *)
(* The queue has a place for every sheet, but a sheet that was taken from  *)
(* it and is returned again uses another place, and nothing in the code    *)
(* bounds the shards of a search.  A place beyond the queue is outside the *)
(* hash set: when one is read or written, the model stops.                 *)
(***************************************************************************)
EXTENDS Integers, Sequences, FiniteSets

CONSTANTS
    Shard,      \* the tasks of the search
    MaxSheets,  \* MAX_SHEETS
    SheetSize,  \* SHEET_SIZE
    MaxInserts, \* bound on the matches all shards offer
    None        \* NULL

ASSUME SheetsAssumption ==
    /\ MaxSheets \in Nat \ {0}
    /\ SheetSize \in Nat \ {0}
    /\ MaxInserts \in Nat
    /\ IsFiniteSet(Shard)

Sheet == 0..MaxSheets - 1
Match == Shard \X (1..MaxInserts)
Entry == [match : Match, sheet : Sheet, item : 0..SheetSize - 1]
Capacity == MaxSheets * SheetSize

ASSUME NoneAssumption == None \notin Sheet /\ None \notin Entry

VARIABLES
    pages,     \* the match_pool of each sheet
    global_index_counter,
    queue,     \* unfinished_queue
    read,      \* how far the queue has been read
    write,     \* how many places of it were given out
    hash_size,
    hash_items,
    stage,     \* where each shard is
    sheet,     \* container->current_sheet
    local,     \* container->local_items
    pos,       \* an index the shard has loaded or reserved
    offered,   \* how many matches each shard has offered
    accepted,  \* the matches that insert has answered true for
    beyond     \* a place beyond the queue has been read or written

resultVars == <<pages, global_index_counter, queue, read, write, hash_size, hash_items,
                stage, sheet, local, pos, offered, accepted, beyond>>

sheetVars == <<pages, global_index_counter, queue, read, write>>
itemVars == <<hash_size, hash_items>>

Stage == {"search", "insert", "fresh", "load", "peek", "swap", "copy", "lastcopy",
          "return", "store", "done"}

SheetsTypeOK ==
    /\ pages \in [Sheet -> Seq(Match)]
    /\ \A s \in Sheet : Len(pages[s]) <= SheetSize
    /\ global_index_counter \in Nat
    /\ queue \in [Sheet -> Sheet \cup {None}]
    /\ read \in 0..MaxSheets
    /\ write \in Nat
    /\ hash_size \in 0..Capacity
    /\ hash_items \in [0..Capacity - 1 -> Entry \cup {None}]
    /\ stage \in [Shard -> Stage]
    /\ sheet \in [Shard -> Sheet \cup {None}]
    /\ local \in [Shard -> Seq(Entry)]
    /\ \A t \in Shard : Len(local[t]) <= SheetSize
    /\ pos \in [Shard -> Nat]
    /\ offered \in [Shard -> 0..MaxInserts]
    /\ accepted \subseteq Match
    /\ beyond \in BOOLEAN

SheetsInit ==
    /\ pages = [s \in Sheet |-> <<>>]
    /\ global_index_counter = 0
    /\ queue = [q \in Sheet |-> None]
    /\ read = 0
    /\ write = 0
    /\ hash_size = 0
    /\ hash_items = [x \in 0..Capacity - 1 |-> None]
    /\ stage = [t \in Shard |-> "search"]
    /\ sheet = [t \in Shard |-> None]
    /\ local = [t \in Shard |-> <<>>]
    /\ pos = [t \in Shard |-> 0]
    /\ offered = [t \in Shard |-> 0]
    /\ accepted = {}
    /\ beyond = FALSE

Move(t, label) == stage' = [stage EXCEPT ![t] = label]

-----------------------------------------------------------------------------
(* result_container_insert                                                 *)

\* Faulty variant: off by one.
HasRoom_OneMore(s) == s # None /\ Len(pages[s]) <= SheetSize

HasRoom(s) == s # None /\ Len(pages[s]) < SheetSize

Offered == {m \in Match : m[2] <= offered[m[1]]}

\* The search of the shard finds something.
Insert(t) ==
    /\ stage[t] = "search"
    /\ Cardinality(Offered) < MaxInserts
    /\ offered' = [offered EXCEPT ![t] = @ + 1]
    /\ Move(t, IF HasRoom(sheet[t]) THEN "insert" ELSE "fresh")
    /\ UNCHANGED <<sheetVars, itemVars, sheet, local, pos, accepted>>

\* grab_fresh_sheet; the counter runs on past the last sheet.
GrabFresh(t) ==
    /\ stage[t] = "fresh"
    /\ global_index_counter' = global_index_counter + 1
    /\ IF global_index_counter < MaxSheets
       THEN Move(t, "insert") /\ sheet' = [sheet EXCEPT ![t] = global_index_counter]
       ELSE Move(t, "load") /\ UNCHANGED sheet
    /\ UNCHANGED <<pages, queue, read, write, itemVars, local, pos, offered, accepted>>

\* grab_sheet_from_queue: load the position ...
LoadRead(t) ==
    /\ stage[t] = "load"
    /\ pos' = [pos EXCEPT ![t] = read]
    /\ Move(t, "peek")
    /\ UNCHANGED <<sheetVars, itemVars, sheet, local, offered, accepted>>

\* ... give up if nothing is stored there (yet): the match is refused ...
Peek(t) ==
    /\ stage[t] = "peek"
    /\ pos[t] < MaxSheets
    /\ Move(t, IF queue[pos[t]] = None THEN "search" ELSE "swap")
    /\ UNCHANGED <<sheetVars, itemVars, sheet, local, pos, offered, accepted>>

\* ... and take the sheet, if nobody else has.
TakeSheet(t) ==
    /\ stage[t] = "swap"
    /\ IF read = pos[t]
       THEN /\ read' = read + 1
            /\ sheet' = [sheet EXCEPT ![t] = queue[pos[t]]]
            /\ Move(t, "insert")
            /\ UNCHANGED pos
       ELSE /\ pos' = [pos EXCEPT ![t] = read]
            /\ Move(t, "peek")
            /\ UNCHANGED <<read, sheet>>
    /\ UNCHANGED <<pages, global_index_counter, queue, write, itemVars, local,
                   offered, accepted>>

\* The match is written to the sheet and listed.
Put(t) ==
    /\ stage[t] = "insert"
    /\ Len(local[t]) < SheetSize
    /\ LET match == <<t, offered[t]>>
           page  == pages[sheet[t]]
       IN  /\ pages' = [pages EXCEPT ![sheet[t]] = Append(page, match)]
           /\ local' = [local EXCEPT ![t] =
                          Append(@, [match |-> match, sheet |-> sheet[t], item |-> Len(page)])]
           /\ accepted' = accepted \cup {match}
    /\ Move(t, "search")
    /\ UNCHANGED <<global_index_counter, queue, read, write, itemVars, sheet, pos, offered>>

-----------------------------------------------------------------------------
(* container_flush_items: from insert, when the local list is full, and at *)
(* the end of the shard.                                                   *)

Reserve(t, next) ==
    /\ pos' = [pos EXCEPT ![t] = hash_size]
    /\ hash_size' = hash_size + Len(local[t])
    /\ Move(t, next)

FlushFull(t) ==
    /\ stage[t] = "insert"
    /\ Len(local[t]) >= SheetSize
    /\ Reserve(t, "copy")
    /\ UNCHANGED <<sheetVars, hash_items, sheet, local, offered, accepted>>

Copy(t) ==
    /\ stage[t] \in {"copy", "lastcopy"}
    /\ hash_items' = [x \in DOMAIN hash_items |->
                        IF x \in pos[t]..pos[t] + Len(local[t]) - 1
                        THEN local[t][x - pos[t] + 1] ELSE hash_items[x]]
    /\ local' = [local EXCEPT ![t] = <<>>]
    /\ Move(t, IF stage[t] = "copy" THEN "insert" ELSE "return")
    /\ UNCHANGED <<sheetVars, hash_size, sheet, pos, offered, accepted>>

-----------------------------------------------------------------------------
(* The end of search_func.                                                 *)

End(t) ==
    /\ stage[t] = "search"
    /\ IF local[t] = <<>> THEN Move(t, "return") /\ UNCHANGED <<pos, hash_size>>
       ELSE Reserve(t, "lastcopy")
    /\ UNCHANGED <<sheetVars, hash_items, sheet, local, offered, accepted>>

\* container_return_sheet reserves a place in the queue for a sheet with room ...
ReturnSheet(t) ==
    /\ stage[t] = "return"
    /\ IF HasRoom(sheet[t])
       THEN /\ pos' = [pos EXCEPT ![t] = write]
            /\ write' = write + 1
            /\ Move(t, "store")
       ELSE Move(t, "done") /\ UNCHANGED <<pos, write>>
    /\ UNCHANGED <<pages, global_index_counter, queue, read, itemVars, sheet, local,
                   offered, accepted>>

\* ... and puts it there.
StoreSheet(t) ==
    /\ stage[t] = "store"
    /\ pos[t] < MaxSheets
    /\ queue' = [queue EXCEPT ![pos[t]] = sheet[t]]
    /\ sheet' = [sheet EXCEPT ![t] = None]
    /\ Move(t, "done")
    /\ UNCHANGED <<pages, global_index_counter, read, write, itemVars, local, pos,
                   offered, accepted>>

\* The place to look at or to store to is not one of the queue.
LeaveQueue(t) ==
    /\ stage[t] \in {"peek", "store"}
    /\ pos[t] >= MaxSheets
    /\ beyond' = TRUE
    /\ UNCHANGED <<sheetVars, itemVars, stage, sheet, local, pos, offered, accepted>>

Step(t) ==
    \/ Insert(t) \/ GrabFresh(t) \/ LoadRead(t) \/ Peek(t) \/ TakeSheet(t) \/ Put(t)
    \/ FlushFull(t) \/ Copy(t) \/ End(t) \/ ReturnSheet(t) \/ StoreSheet(t)

SheetsNext ==
    /\ ~ beyond
    /\ \E t \in Shard : (Step(t) /\ UNCHANGED beyond) \/ LeaveQueue(t)

SheetsSpec == SheetsInit /\ [][SheetsNext]_resultVars

-----------------------------------------------------------------------------
(* Properties.                                                             *)

Holder(s) == {t \in Shard : sheet[t] = s /\ stage[t] # "done"}

Waiting == {q \in Sheet : q >= read /\ queue[q] # None}

\* insert writes to a sheet with no atomics at all: it must be nobody else's,
\* and a sheet that waits in the queue waits there once and is nobody's.
OneHolder ==
    /\ \A s \in Sheet : Cardinality(Holder(s)) <= 1
    /\ \A q \in Waiting : Holder(queue[q]) = {}
    /\ \A q, r \in Waiting : queue[q] = queue[r] => q = r

CopyRange(t) == pos[t]..pos[t] + Len(local[t]) - 1

Copying(t) == stage[t] \in {"copy", "lastcopy"}

\* memcpy into hash_items goes on beside those of other shards: the places of
\* a copy under way are empty, below hash_size, and no other copy's.
CopiesApart ==
    \A t \in Shard : Copying(t) =>
        /\ \A x \in CopyRange(t) : x < hash_size /\ hash_items[x] = None
        /\ \A u \in Shard \ {t} : Copying(u) => CopyRange(t) \cap CopyRange(u) = {}

\* When all shards are done, hash_items lists every match that was accepted,
\* once, under an address at which the merge finds it; there is no hole.
NothingLost ==
    (\A t \in Shard : stage[t] = "done") =>
        /\ \A x \in 0..hash_size - 1 :
              hash_items[x] # None /\ pages[hash_items[x].sheet][hash_items[x].item + 1]
                                        = hash_items[x].match
        /\ {hash_items[x].match : x \in 0..hash_size - 1} = accepted
        /\ hash_size = Cardinality(accepted)

\* result-container.h: "max number of items = 256 * 512".  What hash_items and
\* the buffers of the merge are allocated for is never exceeded, although every
\* shard only looks at its own sheet.
FitsCapacity ==
    /\ hash_size <= Capacity
    /\ Cardinality(accepted) <= Capacity

Finders == {t \in Shard : offered[t] > 0}

\* unfinished_queue[MAX_SHEETS] is left only by a search of which more shards have
\* found something than there are sheets; nothing in the code excludes that.
QueueSuffices == beyond => Cardinality(Finders) > MaxSheets

\* The sheets at every moment of a search, until the queue is left.
SheetsInv ==
    /\ SheetsTypeOK /\ OneHolder /\ CopiesApart /\ NothingLost /\ FitsCapacity
    /\ QueueSuffices

=============================================================================
