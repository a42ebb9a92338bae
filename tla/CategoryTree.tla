----------------------------- MODULE CategoryTree -----------------------------
(***************************************************************************)
(* The tree of categories: CategoryService and CategoryRepository           *)
(* (modules/category), and the assignment of products to categories         *)
(* (ProductService.update).                                                 *)
(*                                                                          *)
(* A category keeps its parent and its path, the ids from the root to it.   *)
(* An update reads the category and the new parent, then the descendants,   *)
(* each read on its own, and writes what it computed from them.             *)
(***************************************************************************)
EXTENDS Integers, Sequences, SequencesExt, FiniteSets

CONSTANTS
  Category,
  Root,       \* parent_id NULL
  Editor      \* updates in flight

ASSUME CategoryAssumption == Root \notin Category /\ IsFiniteSet(Category)

VARIABLES
  existing,     \* rows of categories
  parent,       \* parent[c]
  path,         \* path[c]
  filed,        \* categories with an active product
  edit,         \* edit[e]: what the update of e has read
  overlapped    \* history: an update wrote after rows it had read were written

treeVars == <<existing, parent, path, filed, edit, overlapped>>

NoEdit == [op |-> "none"]

TreeTypeOK ==
  /\ existing \subseteq Category /\ filed \subseteq existing
  /\ parent \in [Category -> Category \cup {Root}]
  /\ path \in [Category -> Seq(Category)]
  /\ \A e \in Editor : edit[e].op \in {"none", "create", "update"}
  /\ overlapped \in BOOLEAN

TreeInit ==
  /\ existing = {} /\ filed = {}
  /\ parent = [c \in Category |-> Root]
  /\ path = [c \in Category |-> <<>>]
  /\ edit = [e \in Editor |-> NoEdit]
  /\ overlapped = FALSE

-----------------------------------------------------------------------------
PathOf(p) == IF p = Root THEN <<>> ELSE path[p]
BuildPath(c, p) == Append(PathOf(p), c)

\* `${path}/` is a prefix
Below(c, from) == Len(path[c]) > Len(from) /\ IsPrefix(from, path[c])

Reading(e, change) ==
  /\ edit[e] = NoEdit
  /\ edit' = [edit EXCEPT ![e] = change]
  /\ UNCHANGED <<existing, parent, path, filed, overlapped>>

CreateCategory(e, c, p) ==
  /\ path[c] = <<>>      \* ids are never used again
  /\ p \in existing \cup {Root}
  /\ \A d \in Editor : edit[d].op = "create" => edit[d].of # c
  /\ Reading(e, [op |-> "create", of |-> c, moves |-> TRUE, to |-> p, from |-> <<>>,
                 next |-> BuildPath(c, p), below |-> {}, listed |-> TRUE,
                 stale |-> FALSE])

\* Mutant: resolveParentForUpdate compares ids and not paths.
MayMoveUnder(c, p) == p # c

MayMove(c, p) == p # Root => p # c /\ ~IsPrefix(path[c], path[p])

\* An update without a parent writes the path it has read.
Rename(e, c) ==
  /\ c \in existing
  /\ Reading(e, [op |-> "update", of |-> c, moves |-> FALSE, to |-> parent[c], from |-> path[c],
                 next |-> path[c], below |-> {}, listed |-> TRUE,
                 stale |-> FALSE])

Move(e, c, p) ==
  /\ c \in existing /\ p \in existing \cup {Root}
  /\ MayMove(c, p)
  /\ Reading(e, [op |-> "update", of |-> c, moves |-> TRUE, to |-> p, from |-> path[c],
                 next |-> BuildPath(c, p), below |-> {},
                 listed |-> BuildPath(c, p) = path[c], stale |-> FALSE])

\* findDescendants, and the new path of each
ListDescendants(e) ==
  LET from == edit[e].from IN
  /\ edit[e] # NoEdit /\ ~edit[e].listed
  /\ edit' = [edit EXCEPT ![e].listed = TRUE, ![e].below =
       {<<c, edit[e].next \o SubSeq(path[c], Len(from) + 1, Len(path[c]))>> :
          c \in {d \in existing : Below(d, from)}}]
  /\ UNCHANGED <<existing, parent, path, filed, overlapped>>

\* Other updates have read one of the rows, or do not know of one they should write.
Written(e, rows) ==
  /\ edit' = [d \in Editor |->
       IF d = e THEN NoEdit
       ELSE IF edit[d] = NoEdit THEN NoEdit
       ELSE LET subtree == {edit[d].of} \cup {r[1] : r \in edit[d].below} IN
            [edit[d] EXCEPT !.stale = @ \/ rows \cap (subtree \cup {edit[d].to}) # {}
                                        \/ \E c \in rows : parent'[c] \in subtree]]
  /\ overlapped' = (overlapped \/ edit[e].stale)

\* updateWithDescendantPaths.  A row or a parent that is gone makes the write fail.
Write(e) ==
  LET change == edit[e]
      rows == {r[1] : r \in change.below} IN
  /\ change # NoEdit /\ change.listed
  /\ change.op = "update" => change.of \in existing
  /\ change.moves => change.to \in existing \cup {Root}
  /\ rows \subseteq existing
  /\ existing' = existing \cup {change.of}
  /\ parent' = IF change.moves THEN [parent EXCEPT ![change.of] = change.to] ELSE parent
  /\ path' = [c \in Category |->
       IF c \in rows THEN (CHOOSE r \in change.below : r[1] = c)[2]
       ELSE IF c = change.of THEN change.next ELSE path[c]]
  /\ Written(e, rows \cup {change.of})
  /\ UNCHANGED filed

Refuse(e) ==
  /\ edit[e] # NoEdit
  /\ edit' = [edit EXCEPT ![e] = NoEdit]
  /\ UNCHANGED <<existing, parent, path, filed, overlapped>>

\* The counts and the foreign key of the children agree; product_categories rows go along.
Delete(c) ==
  /\ c \in existing \ filed
  /\ \A d \in existing : parent[d] # c
  /\ existing' = existing \ {c}
  /\ UNCHANGED <<parent, path, filed, edit, overlapped>>

\* ProductService.update with category ids
AssignCategories(cs) ==
  /\ cs \subseteq existing
  /\ filed' = cs
  /\ UNCHANGED <<existing, parent, path, edit, overlapped>>

TreeNext ==
  \/ \E e \in Editor, c \in Category :
       Rename(e, c) \/ \E p \in Category \cup {Root} : CreateCategory(e, c, p) \/ Move(e, c, p)
  \/ \E e \in Editor : ListDescendants(e) \/ Write(e) \/ Refuse(e)
  \/ \E c \in Category : Delete(c)
  \/ \E cs \in SUBSET Category : AssignCategories(cs)

TreeSpec == TreeInit /\ [][TreeNext]_treeVars

-----------------------------------------------------------------------------
\* getTree: what no walk from a root reaches
Hidden == UNION {S \in SUBSET existing : \A c \in S : parent[c] \in S}

(* As long as no update writes after another one has written a row it read,  *)
(* or has put a row below one it moves, the path of a category is its        *)
(* parent's path and its own id, no category is below itself, and getTree    *)
(* shows all of them.  Otherwise two moves may put each of two categories    *)
(* under the other, which getTree then never shows, and a rename during a    *)
(* move writes back the old path.                                            *)
TreeIsWhole ==
  /\ TreeTypeOK
  /\ ~overlapped =>
       /\ \A c \in existing : path[c] = BuildPath(c, parent[c])
       /\ Hidden = {}

=============================================================================
