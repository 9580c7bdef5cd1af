---------------------------- MODULE SharedMemory -----------------------------
(***************************************************************************)
(* SharedMemory and its InMemoryStorage (core/memory.py): a dictionary     *)
(* that every change writes to memory_dump.json, and that a new process    *)
(* reads from there.  The dump is opened for writing, so it is empty until *)
(* json.dump has written all of it; a value that is not serialisable ends  *)
(* json.dump in the middle.  _lock keeps other threads out meanwhile.      *)
(* Nothing in src gives an entry a time to live.                           *)
(***************************************************************************)
EXTENDS FiniteSets

CONSTANTS
    Keys,
    Plain,   \* values json can write
    Odd,     \* values it cannot: none of Plain
    None     \* no entry: none of either

VARIABLES
    storage,  \* _storage: the value of a key
    dump,     \* what memory_dump.json would load
    saving    \* _save_to_disk is at work

vars == <<storage, dump, saving>>

Empty == [k \in Keys |-> None]
Serialisable(s) == \A k \in Keys : s[k] \notin Odd

Init == storage = Empty /\ dump = Empty /\ saving = FALSE

\* store, delete, clear, up to the open() of the dump.
Change(s) ==
    /\ ~saving
    /\ storage' = s
    /\ dump' = Empty
    /\ saving' = TRUE

Store(k, v) == Change([storage EXCEPT ![k] = v])
Update(k, v) == storage[k] # None /\ Store(k, v)
Delete(k) == storage[k] # None /\ Change([storage EXCEPT ![k] = None])
Clear == Change(Empty)

\* _save_to_disk: a TypeError is printed and leaves a file that does not load.
Saved ==
    /\ saving
    /\ dump' = IF Serialisable(storage) THEN storage ELSE Empty
    /\ saving' = FALSE
    /\ UNCHANGED storage

\* The process ends, and _load_from_disk of the next one finds what there is.
Restart ==
    /\ storage' = dump
    /\ saving' = FALSE
    /\ UNCHANGED dump

Next ==
    \/ \E k \in Keys, v \in Plain \cup Odd : Store(k, v) \/ Update(k, v)
    \/ \E k \in Keys : Delete(k)
    \/ Clear
    \/ Saved
    \/ Restart

Spec == Init /\ [][Next]_vars

-----------------------------------------------------------------------------
\* A restart finds everything as it was, or nothing at all: no value that was
\* replaced or deleted comes back beside or instead of newer ones.  Everything
\* is there when the last save ended and no entry is odd.
AllOrNothing ==
    /\ dump \in {storage, Empty}
    /\ ~saving /\ Serialisable(storage) => dump = storage
=============================================================================
