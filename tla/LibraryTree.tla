---------------------------- MODULE LibraryTree ----------------------------
(***************************************************************************)
(* The catalog of the library: folders and resources in a tree, created,   *)
(* moved, renamed and removed in transactions that hold the writer lock of *)
(* SQLite from their first read, so each is one step here.  Removal is the *)
(* cascade of the foreign key.                                             *)
(***************************************************************************)
EXTENDS Integers, FiniteSetsExt

CONSTANTS
    Entries,    \* ids of entries; an id that left may come back as a new one
    Root,       \* the empty parent id
    MaxDepth    \* 100 in the code

ASSUME TreeAssumption == Root \notin Entries /\ MaxDepth \in Nat \ {0}

VARIABLES
    \* library_entries: kind and parent_id of each row
    kind, parent

treeVars == <<kind, parent>>

Stored == {e \in Entries : kind[e] # "none"}

TreeTypeOK ==
    /\ kind \in [Entries -> {"none", "folder", "resource"}]
    /\ parent \in [Entries -> Entries \union {Root}]

TreeInit ==
    /\ kind = [e \in Entries |-> "none"]
    /\ parent = [e \in Entries |-> Root]

\* The walk from p to the top: the n-th id the loop reads, Root for ever after.
Walk(p) ==
    LET up[n \in 0 .. MaxDepth] ==
            IF n = 0 THEN p ELSE IF up[n - 1] = Root THEN Root ELSE parent[up[n - 1]]
    IN up

\* How many rows the walk from p passes, when it ends.
Above(p) == Cardinality({n \in 0 .. MaxDepth : Walk(p)[n] # Root})

\* WITH RECURSIVE subtree: the rows under e with their distance, and the largest.
Under(e) == {d \in Stored : \E n \in 0 .. MaxDepth : Walk(d)[n] = e}
Level(e, d) == CHOOSE n \in 0 .. MaxDepth : Walk(d)[n] = e
Height(e) == 1 + Max({0} \union {Level(e, d) : d \in Under(e)})

\* Mutant: the height below the moved entry is not counted.
ParentIsValidForOne(p, e) ==
    /\ \A n \in 0 .. MaxDepth - 1 :
          Walk(p)[n] # Root => Walk(p)[n] # e /\ kind[Walk(p)[n]] = "folder"
    /\ Walk(p)[MaxDepth] = Root
    /\ Above(p) + 1 <= MaxDepth

\* validateLibraryParent.  A walk of MaxDepth steps that has not reached the
\* top is refused, so a repeated id need not be looked for.
ParentIsValid(p, e) ==
    /\ \A n \in 0 .. MaxDepth - 1 :
          Walk(p)[n] # Root => Walk(p)[n] # e /\ kind[Walk(p)[n]] = "folder"
    /\ Walk(p)[MaxDepth] = Root
    /\ Above(p) + Height(e) <= MaxDepth

CreateEntry ==
    \E e \in Entries \ Stored, p \in Entries \union {Root}, k \in {"folder", "resource"} :
       /\ ParentIsValid(p, e)
       /\ kind' = [kind EXCEPT ![e] = k]
       /\ parent' = [parent EXCEPT ![e] = p]

\* A rename without a new parent changes nothing here.
MoveEntry ==
    \E e \in Stored, p \in Entries \union {Root} :
       /\ ParentIsValid(p, e)
       /\ parent' = [parent EXCEPT ![e] = p]
       /\ UNCHANGED kind

RemoveEntry ==
    \E e \in Stored :
       /\ kind' = [d \in Entries |-> IF d \in Under(e) THEN "none" ELSE kind[d]]
       /\ parent' = [d \in Entries |-> IF d \in Under(e) THEN Root ELSE parent[d]]

TreeNext == CreateEntry \/ MoveEntry \/ RemoveEntry

TreeSpec == TreeInit /\ [][TreeNext]_treeVars

-----------------------------------------------------------------------------
\* Whatever moves of whole folders follow one another, every entry is reached
\* from the top through folders that exist, in at most MaxDepth rows: no cycle
\* hides a subtree from the list, and the cascade that removes a folder never
\* goes deeper than SQLite allows (validateLibraryParent looks at the walk up
\* and at the height below, in the transaction that moves).
CatalogIsATree ==
    \A e \in Stored :
       /\ Walk(e)[MaxDepth] = Root
       /\ \A n \in 1 .. MaxDepth : Walk(e)[n] # Root => kind[Walk(e)[n]] = "folder"

=============================================================================
