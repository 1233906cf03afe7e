--------------------------- MODULE ResourceTable ---------------------------
(***************************************************************************)
(* What the commons promise of one kind's table, whoever writes it and in  *)
(* whatever order: the ResourceStore port (insert and save with a natural- *)
(* key uniqueness constraint) as the write pipelines may use it.  A row    *)
(* appears once, at version 1 and without status; every later write keeps  *)
(* its id and its creator; no two rows ever hold one natural key.          *)
(***************************************************************************)
EXTENDS Naturals

CONSTANTS
    Ids,        \* the identifiers generateResourceId may mint
    Callers,    \* principals a write is stamped with
    Keys,       \* natural-key values
    Bodies,     \* the rest of a spec
    Statuses,   \* what custom operations write into status
    NoKey,      \* a spec with an empty natural key
    NoStatus,   \* status as a create leaves it: cleared
    None        \* no row

VARIABLE rows   \* the table: id -> row, or None

Content == [key : Keys \cup {NoKey}, body : Bodies]

Row == [id : Ids, spec : Content, status : Statuses \cup {NoStatus},
        version : Nat, createdBy : Callers]

Stored == {i \in Ids : rows[i] # None}

\* The UNIQUE constraint `<table>_natural_key`: a row never collides with
\* itself, and an empty key (NULL in the generated column) never collides.
KeyTaken(key, id) ==
    /\ key # NoKey
    /\ \E other \in Stored \ {id} : rows[other].spec.key = key

TableInit == rows = [i \in Ids |-> None]

\* One statement writes one row; a row stands under its own id.
WritesRow(i) ==
    /\ rows'[i] \in Row
    /\ rows'[i].id = i
    /\ rows' = [rows EXCEPT ![i] = rows'[i]]
    /\ ~ KeyTaken(rows'[i].spec.key, i)

\* INSERT: never over a row that exists, and always a first version.
InsertRow(i) ==
    /\ i \notin Stored
    /\ WritesRow(i)
    /\ rows'[i].version = 1
    /\ rows'[i].status = NoStatus

\* INSERT ... ON CONFLICT (id) DO UPDATE of a row that was loaded before:
\* identity and creator stay; there is no version check.
SaveRow(i) ==
    /\ i \in Stored
    /\ WritesRow(i)
    /\ rows'[i].version > 1
    /\ rows'[i].createdBy = rows[i].createdBy

TableNext == \E i \in Ids : InsertRow(i) \/ SaveRow(i)

TableSpec == TableInit /\ [][TableNext]_rows

\* The table's safety invariant: one row per natural key.
NaturalKeyUnique ==
    \A i, j \in Stored :
        rows[i].spec.key = rows[j].spec.key /\ rows[i].spec.key # NoKey => i = j
=============================================================================
