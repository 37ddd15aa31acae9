----------------------------- MODULE Libraries ------------------------------
(***************************************************************************)
(* The functions, system exits and command handlers that are registered    *)
(* with the interpreter (library.c), and the libraries they come from.     *)
(* Names that hash alike are kept apart, so that a slot is one list.  A    *)
(* library nobody refers to any more is orphaned, and unmapped only when   *)
(* none of its code can be running.                                        *)
(***************************************************************************)
EXTENDS Integers, Sequences, FiniteSets, SequencesExt
CONSTANTS
    Lib,    \* libraries that can be loaded
    Exe     \* registered by the application itself: entry_point.lib is NULL

Slots == {"FUNCS", "EXITS", "SUBCOMS"}

\* What lib_tsd_t holds: the entries of each slot, newest first, the libraries in
\* use with the number of entries of each, and how often a library is orphaned.
Nothing == [entries |-> [s \in Slots |-> <<>>], linked |-> {},
            used |-> [b \in Lib |-> 0], orphans |-> [b \in Lib |-> 0]]

\* wrapper_load was called once more than wrapper_unload.
Mapped(l, b) == b = Exe \/ b \in l.linked \/ l.orphans[b] > 0

----------------------------------------------------------------------------
\* (Mutant: what is orphaned goes at once.)
UnlinkAlways(l, safe) == [l EXCEPT !.orphans = [b \in Lib |-> 0]]
\* safe: the system that runs is the first one and has no program.
unlink_orphaned_libs(l, safe) ==
    IF safe THEN [l EXCEPT !.orphans = [b \in Lib |-> 0]] ELSE l

remove_library(l, b, safe) ==
    unlink_orphaned_libs([l EXCEPT !.linked = @ \ {b}, !.orphans[b] = @ + 1], safe)

remove_entry(l, slot, k, safe) ==
    LET b == l.entries[slot][k].lib
        rest == [l EXCEPT !.entries[slot] = RemoveAt(@, k)]
    IN  IF b = Exe THEN rest
        ELSE IF l.used[b] > 1 THEN [rest EXCEPT !.used[b] = @ - 1]
        ELSE remove_library([rest EXCEPT !.used[b] = 0], b, safe)

add_entry(l, slot, name, b) ==
    [l EXCEPT !.entries[slot] = <<[name |-> name, lib |-> b]>> \o @]

----------------------------------------------------------------------------
Named(l, slot, name) == {k \in DOMAIN l.entries[slot] : l.entries[slot][k].name = name}
Bound(l, slot, name, b) == {k \in Named(l, slot, name) : l.entries[slot][k].lib = b}
None == 0
Newest(S) == IF S = {} THEN None ELSE CHOOSE k \in S : \A j \in S : k <= j
Oldest(S) == IF S = {} THEN None ELSE CHOOSE k \in S : \A j \in S : j <= k

find_first_entry_point(l, slot, name) == Newest(Named(l, slot, name))
\* The entry of that very library, or else the oldest of the name.
find_entry_point(l, slot, name, b) ==
    IF Bound(l, slot, name, b) # {} THEN Newest(Bound(l, slot, name, b))
    ELSE Oldest(Named(l, slot, name))
find_all_entries(l, slot, name) == Cardinality(Named(l, slot, name))

----------------------------------------------------------------------------
\* What load_entry answers with: 1 for a name that is taken, 2 for a hook another
\* library has too, 3 for what the library does not export.
load_entry(l, slot, name, b, exported) ==
    LET k == find_entry_point(l, slot, name, b)
        taken == k # None /\ (slot = "FUNCS" \/ l.entries[slot][k].lib = b)
        counted == IF b = Exe THEN l ELSE [l EXCEPT !.used[b] = @ + 1]
    IN  IF taken THEN [libs |-> l, rc |-> 1]
        ELSE IF b # Exe /\ ~exported THEN [libs |-> l, rc |-> 3]
        ELSE [libs |-> add_entry(counted, slot, name, b), rc |-> IF k = None THEN 0 ELSE 2]

find_library(l, b) == b \in l.linked
insert_library(l, b) == [l EXCEPT !.linked = @ \cup {b}]

\* A function's library is loaded unless it is, and given up again when the entry
\* cannot be made; so is that of an exit or a handler, but not when another library
\* has one of the name too.
Loaded(l, b) == IF b = Exe \/ find_library(l, b) THEN l ELSE insert_library(l, b)
rex_funcadd(l, name, b, loads, exported, safe) ==
    LET fresh == b # Exe /\ ~find_library(l, b)
        made == load_entry(Loaded(l, b), "FUNCS", name, b, exported)
    IN  IF fresh /\ ~loads THEN l
        ELSE IF fresh /\ made.rc # 0 THEN remove_library(made.libs, b, safe) ELSE made.libs
rex_hookadd(l, slot, name, b, loads, exported, safe) ==
    LET fresh == b # Exe /\ ~find_library(l, b)
        made == load_entry(Loaded(l, b), slot, name, b, exported)
    IN  IF fresh /\ ~loads THEN l
        ELSE IF fresh /\ made.rc \notin {0, 2} THEN remove_library(made.libs, b, safe)
        ELSE made.libs

\* With no library named any will do if it is the only one of the name.
unload_entry(l, slot, name, b, safe) ==
    LET k == find_entry_point(l, slot, name, b)
    IN  IF (b # Exe /\ ~find_library(l, b)) \/ k = None THEN l
        ELSE IF l.entries[slot][k].lib = b THEN remove_entry(l, slot, k, safe)
        ELSE IF b # Exe \/ find_all_entries(l, slot, name) > 1 THEN l
        ELSE remove_entry(l, slot, k, safe)
=============================================================================
