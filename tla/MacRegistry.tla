----------------------------- MODULE MacRegistry -----------------------------
(***************************************************************************)
(* The numeric ids of the boards (server/core/mac_id_registry.py): each MAC *)
(* address gets the next index the first time it is seen, and the whole    *)
(* registry is written again to one JSON file.  The receiver and the       *)
(* producers know a board by this id only.  The server may be restarted; a *)
(* save may fail before it touches the file, and a save that fails or is   *)
(* cut after the file was truncated leaves one that cannot be read.        *)
(***************************************************************************)
EXTENDS Integers

CONSTANT
    Macs                \* the MAC addresses of the boards

VARIABLES
    memory,             \* present_client_mac_id, or what a failed load leaves
    loaded,             \* present_client_mac_id is not None
    file,               \* the contents of the file
    readable,           \* the file exists and can be parsed
    given,              \* history: <<mac, id>> handed to a board
    trouble             \* history: a save has failed

registryVars == <<memory, loaded, file, readable, given, trouble>>

Absent == -1

\* A registry: the id of each MAC, and its "index" entry, the last id given.
Empty == [ids |-> [m \in Macs |-> Absent], index |-> -1]

RegistryInit ==
    /\ memory = Empty /\ loaded = FALSE
    /\ file = Empty /\ readable = FALSE
    /\ given = {} /\ trouble = FALSE

------------------------------------------------------------------------------

\* _load_from_file is tried as long as nothing is loaded; a file that is not
\* there or cannot be parsed counts as an empty registry.
Current == IF loaded THEN memory ELSE IF readable THEN file ELSE Empty

\* Mutant: the ids are counted, and the index is not updated.
AddedWithoutIndex(m) ==
    [Current EXCEPT !.ids[m] = Current.index + 1]

\* add_client_mac: one more than the last id.
Added(m) ==
    [ids |-> [Current.ids EXCEPT ![m] = Current.index + 1],
     index |-> Current.index + 1]

\* get_id_from_mac of a known MAC.
Lookup(m) ==
    /\ Current.ids[m] # Absent
    /\ memory' = Current /\ loaded' = TRUE
    /\ given' = given \cup {<<m, Current.ids[m]>>}
    /\ UNCHANGED <<file, readable, trouble>>

\* Mutant: the file is written before the new MAC is in the registry.
RegisterSavesOld(m) ==
    /\ Current.ids[m] = Absent
    /\ memory' = Added(m) /\ loaded' = TRUE
    /\ file' = Current /\ readable' = TRUE
    /\ given' = given \cup {<<m, Added(m).index>>}
    /\ UNCHANGED trouble

\* get_id_from_mac of a new MAC, saved.
Register(m) ==
    /\ Current.ids[m] = Absent
    /\ memory' = Added(m) /\ loaded' = TRUE
    /\ file' = Added(m) /\ readable' = TRUE
    /\ given' = given \cup {<<m, Added(m).index>>}
    /\ UNCHANGED trouble

\* The save fails, before or after the file is truncated.  The board is turned
\* away this time, but the id stays in memory and the next lookup hands it out.
RegisterUnsaved(m, truncated) ==
    /\ Current.ids[m] = Absent
    /\ memory' = Added(m) /\ loaded' = TRUE
    /\ readable' = (readable /\ ~truncated)
    /\ trouble' = TRUE
    /\ UNCHANGED <<file, given>>

\* The server ends and starts again, at rest or in the middle of a save.
Restart ==
    /\ memory' = Empty /\ loaded' = FALSE
    /\ UNCHANGED <<file, readable, given, trouble>>

CrashWhileSaving(m) ==
    /\ Current.ids[m] = Absent
    /\ memory' = Empty /\ loaded' = FALSE
    /\ readable' = FALSE
    /\ trouble' = TRUE
    /\ UNCHANGED <<file, given>>

RegistryNext ==
    \/ Restart
    \/ \E m \in Macs :
          \/ Lookup(m) \/ Register(m) \/ CrashWhileSaving(m)
          \/ \E truncated \in BOOLEAN : RegisterUnsaved(m, truncated)

RegistrySpec == RegistryInit /\ [][RegistryNext]_registryVars

------------------------------------------------------------------------------
(* Properties *)

Ids == Nat \cup {Absent}

Registries == [ids : [Macs -> Ids], index : Ids]

\* What is handed to a board is an id.
RegistryTypeOK ==
    /\ memory \in Registries /\ file \in Registries
    /\ loaded \in BOOLEAN /\ readable \in BOOLEAN /\ trouble \in BOOLEAN
    /\ given \subseteq Macs \X Nat

\* No two MACs of a registry share an id.
Distinct(registry) ==
    \A m, n \in Macs :
        m # n /\ registry.ids[m] # Absent => registry.ids[m] # registry.ids[n]

\* Whatever saves fail and whenever the server restarts, two boards of one run
\* of the server never share a numeric id, so the receiver never mixes their
\* data.
DistinctIds == Distinct(Current)

\* As long as no save has failed or been cut, an id is for life: across any
\* restarts no other board gets it, and its board gets no other.
IdsForLife ==
    ~trouble => \A g, h \in given : g[1] = h[1] <=> g[2] = h[2]

------------------------------------------------------------------------------
(* The inductive invariant *)

\* No id is above the index, so the next one is new.
Bounded(registry) == \A m \in Macs : registry.ids[m] <= registry.index

\* What has been handed out is what the registry in force says, and without
\* trouble the file holds everything that is in memory.
InStep ==
    ~trouble => /\ \A g \in given : Current.ids[g[1]] = g[2]
                /\ loaded => readable /\ file = memory

RegistryInv ==
    /\ RegistryTypeOK
    /\ Distinct(memory) /\ Bounded(memory)
    /\ Distinct(file) /\ Bounded(file)
    /\ InStep
==============================================================================
