---------------------------- MODULE CatalogueProofs ----------------------------
(***************************************************************************)
(* Proofs about the catalogue, for any number of categories, variants, rows  *)
(* and calls: CategoryTree (the paths are the tree), ProductData (one row    *)
(* for each slot) and Catalogue (a line's stock item is its variant's).      *)
(***************************************************************************)
EXTENDS CategoryTree, ProductData, Catalogue, Totals, SequenceTheorems

-----------------------------------------------------------------------------
(* Paths.                                                                    *)

\* A prefix has the same elements.
LEMMA PrefixElements ==
  ASSUME NEW S, NEW s \in Seq(S), NEW t \in Seq(S)
  PROVE  IsPrefix(s, t) <=> Len(s) <= Len(t) /\ \A i \in 1..Len(s) : s[i] = t[i]
<1>1. Len(s) \in Nat /\ Len(t) \in Nat
  OBVIOUS
<1>2. ASSUME Len(s) <= Len(t)
      PROVE  SubSeq(s, 1, Len(s)) = SubSeq(t, 1, Len(s)) <=> \A i \in 1..Len(s) : s[i] = t[i]
  <2>1. \A i \in 1..Len(s) : s[i] \in S /\ t[i] \in S
    BY <1>1, <1>2
  <2>2. /\ SubSeq(s, 1, Len(s)) \in Seq(S) /\ SubSeq(t, 1, Len(s)) \in Seq(S)
        /\ Len(SubSeq(s, 1, Len(s))) = Len(s) /\ Len(SubSeq(t, 1, Len(s))) = Len(s)
        /\ \A i \in 1..Len(s) : SubSeq(s, 1, Len(s))[i] = s[i] /\ SubSeq(t, 1, Len(s))[i] = t[i]
    BY <1>1, <2>1
  <2>3. (\A i \in 1..Len(s) : s[i] = t[i]) => SubSeq(s, 1, Len(s)) = SubSeq(t, 1, Len(s))
    BY <2>2, SeqEqual
  <2> QED
    BY <2>2, <2>3
<1> QED
  BY <1>2 DEF IsPrefix

\* What a path continues, the path of a child continues.
LEMMA PrefixOfChild ==
  ASSUME NEW S, NEW from \in Seq(S), NEW q \in Seq(S), NEW c \in S
  PROVE  /\ Len(Append(q, c)) = Len(q) + 1
         /\ IsPrefix(from, q) => IsPrefix(from, Append(q, c))
         /\ IsPrefix(from, Append(q, c)) /\ Len(from) <= Len(q) => IsPrefix(from, q)
<1>1. /\ Append(q, c) \in Seq(S) /\ Len(Append(q, c)) = Len(q) + 1
      /\ \A i \in 1..Len(q) : Append(q, c)[i] = q[i]
  BY AppendProperties
<1>2. Len(from) \in Nat /\ Len(q) \in Nat
  OBVIOUS
<1>3. IsPrefix(from, q) <=> Len(from) <= Len(q) /\ \A i \in 1..Len(from) : from[i] = q[i]
  BY PrefixElements
<1>4. IsPrefix(from, Append(q, c)) <=>
        Len(from) <= Len(q) + 1 /\ \A i \in 1..Len(from) : from[i] = Append(q, c)[i]
  <2>1. PICK child \in Seq(S) : child = Append(q, c)
    BY <1>1
  <2>2. IsPrefix(from, child) <=>
          Len(from) <= Len(child) /\ \A i \in 1..Len(from) : from[i] = child[i]
    BY PrefixElements
  <2>3. Len(child) = Len(q) + 1
    BY <1>1, <2>1
  <2> QED
    BY <2>1, <2>2, <2>3, Zenon
<1>5. ASSUME Len(from) <= Len(q), NEW i \in 1..Len(from) PROVE Append(q, c)[i] = q[i]
  BY <1>1, <1>2, <1>5
<1>6. ASSUME IsPrefix(from, q) PROVE IsPrefix(from, Append(q, c))
  <2>1. Len(from) <= Len(q) /\ \A i \in 1..Len(from) : from[i] = Append(q, c)[i]
    BY <1>3, <1>5, <1>6
  <2> QED
    BY <1>2, <1>4, <2>1
<1>7. ASSUME IsPrefix(from, Append(q, c)), Len(from) <= Len(q) PROVE IsPrefix(from, q)
  <2>1. \A i \in 1..Len(from) : from[i] = q[i]
    BY <1>4, <1>5, <1>7
  <2> QED
    BY <1>3, <1>7, <2>1
<1> QED
  BY <1>1, <1>6, <1>7

\* A prefix that is as long is the same.
LEMMA PrefixAsLong ==
  ASSUME NEW S, NEW s \in Seq(S), NEW t \in Seq(S), IsPrefix(s, t), Len(s) = Len(t)
  PROVE  s = t
  BY PrefixElements, SeqEqual

\* A path starts with itself.
LEMMA PrefixOfItself ==
  ASSUME NEW S, NEW s \in Seq(S)
  PROVE  IsPrefix(s, s)
  BY DEF IsPrefix

\* What follows a prefix: of the path itself nothing, of a child one more than of its parent.
After(from, q) == SubSeq(q, Len(from) + 1, Len(q))

\* Nothing follows the path itself.
LEMMA AfterItself ==
  ASSUME NEW S, NEW from \in Seq(S)
  PROVE  After(from, from) = <<>>
  BY SubSeqEmpty DEF After

\* What follows a prefix is as long as the path is longer.
LEMMA AfterIsASeq ==
  ASSUME NEW S, NEW from \in Seq(S), NEW q \in Seq(S)
  PROVE  /\ After(from, q) \in Seq(S)
         /\ Len(from) <= Len(q) => Len(After(from, q)) = Len(q) - Len(from)
         /\ \A i \in 1..(Len(q) - Len(from)) : After(from, q)[i] = q[Len(from) + i]
<1>1. Len(from) \in Nat /\ Len(q) \in Nat
  OBVIOUS
<1>2. \A i \in (Len(from) + 1)..Len(q) : q[i] \in S
  BY <1>1
<1>3. /\ After(from, q) \in Seq(S)
      /\ Len(After(from, q)) = IF Len(from) + 1 <= Len(q) THEN Len(q) - (Len(from) + 1) + 1 ELSE 0
      /\ \A i \in 1..(Len(q) - (Len(from) + 1) + 1) :
           After(from, q)[i] = q[Len(from) + 1 + i - 1]
  BY <1>1, <1>2, SubSeqProperties DEF After
<1> QED
  BY <1>1, <1>3

LEMMA AfterOfChild ==
  ASSUME NEW S, NEW from \in Seq(S), NEW q \in Seq(S), NEW c \in S, Len(from) <= Len(q)
  PROVE  After(from, Append(q, c)) = Append(After(from, q), c)
<1> DEFINE child == Append(q, c)
           long == After(from, child)
           short == Append(After(from, q), c)
           n == Len(q) - Len(from)
<1>1. Len(from) \in Nat /\ Len(q) \in Nat
  OBVIOUS
<1>2. child \in Seq(S) /\ Len(child) = Len(q) + 1 /\ child[Len(q) + 1] = c
      /\ \A i \in 1..Len(q) : child[i] = q[i]
  BY AppendProperties
<1>3. n \in Nat /\ Len(child) - Len(from) = n + 1
  BY <1>1, <1>2
<1>4. /\ long \in Seq(S) /\ Len(long) = n + 1
      /\ \A i \in 1..(n + 1) : long[i] = child[Len(from) + i]
  <2>1. Len(from) <= Len(child)
    BY <1>1, <1>2
  <2> HIDE DEF child
  <2>2. /\ After(from, child) \in Seq(S)
        /\ Len(from) <= Len(child) => Len(After(from, child)) = Len(child) - Len(from)
        /\ \A i \in 1..(Len(child) - Len(from)) : After(from, child)[i] = child[Len(from) + i]
    BY <1>2, AfterIsASeq
  <2> HIDE DEF n
  <2> QED
    BY <1>3, <2>1, <2>2
<1>5. /\ After(from, q) \in Seq(S) /\ Len(After(from, q)) = n
      /\ \A i \in 1..n : After(from, q)[i] = q[Len(from) + i]
  BY AfterIsASeq
<1>6. /\ short \in Seq(S) /\ Len(short) = n + 1 /\ short[n + 1] = c
      /\ \A i \in 1..n : short[i] = After(from, q)[i]
  BY <1>5, AppendProperties
<1>7. ASSUME NEW i \in 1..(n + 1) PROVE long[i] = short[i]
  <2>1. CASE i = n + 1
    <3>1. long[i] = child[Len(from) + (n + 1)]
      BY <1>3, <1>4, <2>1
    <3>2. Len(from) + (n + 1) = Len(q) + 1
      BY <1>1
    <3> QED
      BY <1>2, <1>6, <2>1, <3>1, <3>2
  <2>2. CASE i # n + 1
    <3>1. i \in 1..n /\ Len(from) + i \in 1..Len(q)
      BY <1>1, <1>3, <2>2
    <3>2. long[i] = child[Len(from) + i] /\ short[i] = After(from, q)[i]
      BY <1>4, <1>6, <3>1
    <3> QED
      BY <1>2, <1>5, <3>1, <3>2
  <2> QED
    BY <2>1, <2>2
<1> HIDE DEF long, short, n
<1> QED
  BY <1>4, <1>6, <1>7, SeqEqual DEF long, short, child

\* A path that is put before a child's is put before its parent's.
LEMMA PutBeforeChild ==
  ASSUME NEW S, NEW s \in Seq(S), NEW t \in Seq(S), NEW c \in S
  PROVE  s \o Append(t, c) = Append(s \o t, c)
<1>1. Append(t, c) = t \o <<c>> /\ <<c>> \in Seq(S)
  BY AppendIsConcat
<1>2. s \o t \in Seq(S)
  BY ConcatProperties
<1>3. Append(s \o t, c) = (s \o t) \o <<c>>
  BY <1>2, AppendIsConcat
<1> QED
  BY <1>1, <1>3, ConcatAssociative

-----------------------------------------------------------------------------
(* What is kept.                                                             *)
AnyUpdate ==
  [op : {"create", "update"}, of : Category, moves : BOOLEAN, to : Category \cup {Root},
   from : Seq(Category), next : Seq(Category), below : SUBSET (Category \X Seq(Category)),
   listed : BOOLEAN, stale : BOOLEAN]
\* A call in flight, and whether its category moves.
Update == {u \in AnyUpdate : u.op = "create" => u.moves}

\* The types.
TreeTyped ==
  /\ existing \subseteq Category /\ filed \subseteq existing
  /\ parent \in [Category -> Category \cup {Root}]
  /\ path \in [Category -> Seq(Category)]
  /\ edit \in [Editor -> {NoEdit} \cup Update]
  /\ overlapped \in BOOLEAN

\* The parent of a category is there: Delete looks for children.
ParentsExist == \A c \in existing : parent[c] \in existing \cup {Root}

\* Every path is the path of its parent and the category itself.
PathsAgree == \A c \in existing : path[c] = BuildPath(c, parent[c])

\* The rows that a call has listed, and with them its category.
Rows(change) == {r[1] : r \in change.below}
Subtree(change) == {change.of} \cup Rows(change)

\* The descendants an update has listed are still all of them, and the path it computed for
\* each continues the new path as the old one continues the old.
SubtreeIsKnown(change) ==
  /\ \A c \in existing : parent[c] \in Subtree(change) => c \in Rows(change)
  /\ \A r \in change.below :
       /\ parent[r[1]] \in Subtree(change)
       /\ Below(r[1], change.from)
       /\ r[2] = change.next \o After(change.from, path[r[1]])

\* What a create has read is still so: its category has no path yet.
CreateFits(change) ==
  /\ path[change.of] = <<>>
  /\ change.moves /\ change.to # change.of /\ change.below = {} /\ change.listed

\* What an update has read is still so: a move goes nowhere below itself, and the rows it has
\* listed are those below it.
UpdateFits(change) ==
  /\ path[change.of] = change.from
  /\ change.from # <<>> /\ change.from[Len(change.from)] = change.of
  /\ ~change.moves => change.next = change.from
  /\ change.moves => change.to # change.of
                     /\ (change.to # Root => ~IsPrefix(change.from, path[change.to]))
  /\ change.next = change.from => change.below = {} /\ change.listed
  /\ change.listed => change.next = change.from \/ SubtreeIsKnown(change)

\* What a call has read is still so, and the path it computed is right.
ChangeFits(change) ==
  /\ change.moves => change.next = BuildPath(change.of, change.to)
  /\ change.op = "create" => CreateFits(change)
  /\ change.op = "update" => UpdateFits(change)

\* A call whose reading nobody has made stale.
Current(change) == change # NoEdit /\ ~change.stale

\* The inductive invariant.
TreeInv ==
  /\ TreeTyped /\ ParentsExist
  /\ ~overlapped => PathsAgree /\ \A e \in Editor : Current(edit[e]) => ChangeFits(edit[e])

\* The path of a category that agrees with its parent's.
LEMMA PathOfChild ==
  ASSUME CategoryAssumption, TreeTyped, ParentsExist, PathsAgree, NEW c \in existing
  PROVE  /\ c \in Category /\ path[c] \in Seq(Category) /\ PathOf(parent[c]) \in Seq(Category)
         /\ path[c] = Append(PathOf(parent[c]), c)
         /\ path[c] # <<>> /\ Len(path[c]) = Len(PathOf(parent[c])) + 1 /\ path[c][Len(path[c])] = c
         /\ parent[c] # Root => parent[c] \in existing /\ PathOf(parent[c]) = path[parent[c]]
<1>1. c \in Category /\ path[c] \in Seq(Category) /\ parent[c] \in existing \cup {Root}
  BY DEF TreeTyped, ParentsExist
<1>2. PathOf(parent[c]) \in Seq(Category)
  BY <1>1 DEF PathOf, TreeTyped
<1>3. path[c] = Append(PathOf(parent[c]), c)
  BY DEF PathsAgree, BuildPath
<1>4. /\ path[c] # <<>> /\ Len(path[c]) = Len(PathOf(parent[c])) + 1
      /\ path[c][Len(PathOf(parent[c])) + 1] = c
  BY <1>1, <1>2, <1>3, AppendProperties
<1> QED
  BY <1>1, <1>2, <1>3, <1>4 DEF PathOf

(* Paths that agree get longer from parent to child, so no set of categories *)
(* has all of its parents in itself.                                         *)
LEMMA NothingHidden ==
  ASSUME CategoryAssumption, TreeTyped, ParentsExist, PathsAgree
  PROVE  Hidden = {}
<1> SUFFICES ASSUME NEW S \in SUBSET existing, \A c \in S : parent[c] \in S, S # {}
             PROVE  FALSE
  BY DEF Hidden
<1> DEFINE Lengths == {Len(path[c]) : c \in S}
<1>1. \A c \in S : Len(path[c]) \in Nat
  BY DEF TreeTyped
<1>2. Lengths \in SUBSET Nat /\ Lengths # {}
  BY <1>1
<1>3. PICK n \in Lengths : \A m \in Lengths : ~(m < n)
  <2> HIDE DEF Lengths
  <2> QED
    BY <1>2, LeastNat
<1>4. PICK c \in S : Len(path[c]) = n
  BY <1>3
<1>5. parent[c] \in S /\ parent[c] # Root
  BY DEF CategoryAssumption, TreeTyped
<1>6. Len(path[c]) = Len(path[parent[c]]) + 1
  BY <1>5, PathOfChild
<1> QED
  BY <1>1, <1>3, <1>4, <1>5, <1>6

\* The invariant is what is claimed, and more.
LEMMA TreeInvIsWhole ==
  ASSUME CategoryAssumption, TreeInv PROVE TreeIsWhole
<1>1. TreeTypeOK
  <2>1. \A e \in Editor : edit[e].op \in {"none", "create", "update"}
    BY DEF TreeInv, TreeTyped, NoEdit, Update, AnyUpdate
  <2> QED
    BY <2>1 DEF TreeInv, TreeTyped, TreeTypeOK
<1>2. ASSUME ~overlapped PROVE (\A c \in existing : path[c] = BuildPath(c, parent[c])) /\ Hidden = {}
  BY <1>2, NothingHidden DEF TreeInv, PathsAgree
<1> QED
  BY <1>1, <1>2 DEF TreeIsWhole

\* It holds before anything happens.
LEMMA TreeInvAtFirst ==
  ASSUME TreeInit PROVE TreeInv
<1>1. path \in [Category -> Seq(Category)]
  BY DEF TreeInit
<1>2. TreeTyped
  BY <1>1 DEF TreeInit, TreeTyped
<1> QED
  BY <1>2 DEF TreeInit, TreeInv, ParentsExist, PathsAgree, Current

-----------------------------------------------------------------------------
(* Steps that write no row.                                                  *)

\* What a change that is not known otherwise depends on.
LEMMA FitsAsBefore ==
  ASSUME UNCHANGED <<parent, path>>, existing' \subseteq existing, NEW change, ChangeFits(change)
  PROVE  ChangeFits(change)'
<1>1. BuildPath(change.of, change.to)' = BuildPath(change.of, change.to)
  BY DEF BuildPath, PathOf
<1>2. CreateFits(change) => CreateFits(change)'
  BY DEF CreateFits
<1>3. SubtreeIsKnown(change) => SubtreeIsKnown(change)'
  BY DEF SubtreeIsKnown, Below
<1>4. UpdateFits(change) => UpdateFits(change)'
  BY <1>3 DEF UpdateFits
<1> QED
  BY <1>1, <1>2, <1>4 DEF ChangeFits

(* An update that has read, listed or given up: its own is looked at.        *)
LEMMA OneEditChanges ==
  ASSUME CategoryAssumption, TreeInv, NEW e \in Editor, NEW change \in {NoEdit} \cup Update,
         edit' = [edit EXCEPT ![e] = change], UNCHANGED <<existing, parent, path, filed, overlapped>>,
         ~overlapped /\ Current(change) => ChangeFits(change)
  PROVE  TreeInv'
<1>1. TreeTyped'
  BY DEF TreeInv, TreeTyped
<1>2. ParentsExist'
  BY DEF TreeInv, ParentsExist
<1>3. PathsAgree => PathsAgree'
  BY DEF PathsAgree, BuildPath, PathOf
<1>4. ASSUME ~overlapped, NEW d \in Editor, Current(edit'[d]) PROVE ChangeFits(edit[d])'
  <2>1. PICK new : new = edit'[d]
    OBVIOUS
  <2>2. ChangeFits(new)
    <3>1. CASE d = e
      BY <1>4, <2>1, <3>1 DEF TreeInv, TreeTyped
    <3>2. CASE d # e
      BY <1>4, <2>1, <3>2 DEF TreeInv, TreeTyped
    <3> QED
      BY <3>1, <3>2
  <2>3. ChangeFits(new)'
    BY <2>2, FitsAsBefore
  <2> QED
    BY <2>1, <2>3
<1>5. \A d \in Editor : Current(edit[d])' <=> Current(edit'[d])
  BY DEF Current
<1> QED
  BY <1>1, <1>2, <1>3, <1>4, <1>5 DEF TreeInv

\* A call that reads its category, and then has all to do.
LEMMA NewUpdates ==
  ASSUME CategoryAssumption, TreeInv, NEW e \in Editor, NEW c \in Category,
         \/ Rename(e, c)
         \/ \E p \in Category \cup {Root} : CreateCategory(e, c, p) \/ Move(e, c, p)
  PROVE  TreeInv'
<1> USE DEF Reading
<1>1. TreeTyped /\ ParentsExist
  BY DEF TreeInv
<1>2. \A p \in Category \cup {Root} : PathOf(p) \in Seq(Category)
  BY <1>1 DEF PathOf, TreeTyped
<1>3. \A p \in Category \cup {Root} : BuildPath(c, p) \in Seq(Category)
  BY <1>2 DEF BuildPath
<1>4. path[c] \in Seq(Category) /\ parent[c] \in Category \cup {Root} /\ existing \subseteq Category
  BY <1>1 DEF TreeTyped
<1>5. CASE Rename(e, c)
  <2>1. PICK change : change =
          [op |-> "update", of |-> c, moves |-> FALSE, to |-> parent[c], from |-> path[c],
           next |-> path[c], below |-> {}, listed |-> TRUE, stale |-> FALSE]
    OBVIOUS
  <2>2. change \in Update
    BY <1>4, <2>1 DEF Update, AnyUpdate
  <2>3. ~overlapped => ChangeFits(change)
    BY <1>1, <1>5, <2>1, PathOfChild DEF Rename, ChangeFits, UpdateFits, TreeInv
  <2> QED
    BY <1>5, <2>1, <2>2, <2>3, OneEditChanges DEF Rename
<1>6. ASSUME NEW p \in Category \cup {Root}, CreateCategory(e, c, p) PROVE TreeInv'
  <2>1. PICK change : change =
          [op |-> "create", of |-> c, moves |-> TRUE, to |-> p, from |-> <<>>,
           next |-> BuildPath(c, p), below |-> {}, listed |-> TRUE, stale |-> FALSE]
    OBVIOUS
  <2>2. change \in Update
    BY <1>3, <2>1 DEF Update, AnyUpdate
  <2>3. ASSUME ~overlapped PROVE p # c
    <3>1. p \in existing => path[p] # <<>>
      BY <1>1, <2>3, PathOfChild DEF TreeInv
    <3> QED
      BY <1>6, <3>1 DEF CreateCategory, CategoryAssumption
  <2>4. ~overlapped => ChangeFits(change)
    BY <1>6, <2>1, <2>3 DEF CreateCategory, ChangeFits, CreateFits
  <2> QED
    BY <1>6, <2>1, <2>2, <2>4, OneEditChanges DEF CreateCategory
<1>7. ASSUME NEW p \in Category \cup {Root}, Move(e, c, p) PROVE TreeInv'
  <2>1. PICK change : change =
          [op |-> "update", of |-> c, moves |-> TRUE, to |-> p, from |-> path[c],
           next |-> BuildPath(c, p), below |-> {}, listed |-> BuildPath(c, p) = path[c],
           stale |-> FALSE]
    OBVIOUS
  <2>2. change \in Update
    BY <1>3, <1>4, <2>1 DEF Update, AnyUpdate
  <2>3. p # c /\ (p # Root => ~IsPrefix(path[c], path[p]))
    BY <1>7 DEF Move, MayMove, CategoryAssumption
  <2>4. ~overlapped => ChangeFits(change)
    BY <1>1, <1>7, <2>1, <2>3, PathOfChild DEF Move, ChangeFits, UpdateFits, TreeInv
  <2> QED
    BY <1>7, <2>1, <2>2, <2>4, OneEditChanges DEF Move
<1> QED
  BY <1>5, <1>6, <1>7

(* What is listed: the rows whose path starts with the old path are the      *)
(* categories below the one that moves.                                      *)
LEMMA ListedSubtree ==
  ASSUME CategoryAssumption, TreeTyped, ParentsExist, PathsAgree,
         NEW of \in Category, NEW from \in Seq(Category), from # <<>>, path[of] = from,
         from[Len(from)] = of, NEW c \in existing
  PROVE  /\ (parent[c] = of \/ (parent[c] \in existing /\ Below(parent[c], from))) => Below(c, from)
         /\ Below(c, from) => parent[c] = of \/ (parent[c] \in existing /\ Below(parent[c], from))
<1>1. PICK p : p = parent[c]
  OBVIOUS
<1>2. PICK q : q = PathOf(p)
  OBVIOUS
<1>3. /\ c \in Category /\ q \in Seq(Category) /\ path[c] = Append(q, c)
      /\ p \in existing \cup {Root} /\ (p # Root => q = path[p] /\ p \in existing)
      /\ p = Root => q = <<>>
  BY <1>1, <1>2, PathOfChild DEF PathOf, ParentsExist
<1>4. /\ Len(path[c]) = Len(q) + 1
      /\ IsPrefix(from, q) => IsPrefix(from, path[c])
      /\ IsPrefix(from, path[c]) /\ Len(from) <= Len(q) => IsPrefix(from, q)
  BY <1>3, PrefixOfChild
<1>5. Len(from) \in Nat /\ Len(q) \in Nat /\ Len(from) > 0
  BY <1>3, LenProperties, EmptySeq
<1>6. ASSUME p = of \/ (p \in existing /\ Below(p, from)) PROVE Below(c, from)
  <2>1. p # Root /\ q = path[p]
    BY <1>3, <1>6 DEF CategoryAssumption, TreeTyped
  <2>2. IsPrefix(from, q) /\ Len(from) <= Len(q)
    BY <1>5, <1>6, <2>1, PrefixOfItself DEF Below
  <2> QED
    BY <1>4, <1>5, <2>2 DEF Below
<1>7. ASSUME Below(c, from) PROVE p = of \/ (p \in existing /\ Below(p, from))
  <2>1. Len(from) <= Len(q) /\ IsPrefix(from, q)
    BY <1>4, <1>5, <1>7 DEF Below
  <2>2. p # Root
    BY <1>3, <1>5, <2>1
  <2>3. CASE Len(from) < Len(q)
    BY <1>3, <1>5, <2>1, <2>2, <2>3 DEF Below
  <2>4. CASE Len(from) = Len(q)
    <3>1. from = path[p]
      BY <1>3, <2>1, <2>2, <2>4, PrefixAsLong
    <3>2. path[p][Len(path[p])] = p
      BY <1>3, <2>2, PathOfChild
    <3> QED
      BY <3>1, <3>2
  <2> QED
    BY <1>5, <2>1, <2>3, <2>4
<1> QED
  BY <1>1, <1>6, <1>7

\* The rows below are listed.
LEMMA ListStep ==
  ASSUME CategoryAssumption, TreeInv, NEW e \in Editor, ListDescendants(e)
  PROVE  TreeInv'
<1>1. PICK old : old = edit[e]
  OBVIOUS
<1>2. old \in Update /\ ~old.listed
  BY <1>1 DEF ListDescendants, TreeInv, TreeTyped
<1>3. TreeTyped /\ ParentsExist
  BY DEF TreeInv
<1> DEFINE S == {c \in existing : Below(c, old.from)}
           New(c) == old.next \o After(old.from, path[c])
           below == {<<c, New(c)>> : c \in S}
<1>4. below \in SUBSET (Category \X Seq(Category))
  <2>1. ASSUME NEW c \in S PROVE c \in Category /\ New(c) \in Seq(Category)
    <3>1. c \in Category /\ path[c] \in Seq(Category)
      BY <1>3 DEF TreeTyped
    <3>2. After(old.from, path[c]) \in Seq(Category)
      BY <1>2, <3>1, AfterIsASeq DEF Update, AnyUpdate
    <3> QED
      BY <1>2, <3>1, <3>2, ConcatProperties DEF Update, AnyUpdate
  <2> HIDE DEF S, New
  <2> QED
    BY <2>1
<1>5. PICK new \in Update : new = [old EXCEPT !.listed = TRUE, !.below = below]
  <2> HIDE DEF below
  <2> QED
    BY <1>2, <1>4 DEF Update, AnyUpdate
<1>6. edit' = [edit EXCEPT ![e] = new]
  <2>1. edit' = [edit EXCEPT ![e].listed = TRUE, ![e].below =
          {<<c, old.next \o SubSeq(path[c], Len(old.from) + 1, Len(path[c]))>> :
             c \in {d \in existing : Below(d, old.from)}}]
    BY <1>1 DEF ListDescendants
  <2>2. below = {<<c, old.next \o SubSeq(path[c], Len(old.from) + 1, Len(path[c]))>> :
             c \in {d \in existing : Below(d, old.from)}}
    BY DEF After
  <2> HIDE DEF below
  <2> QED
    BY <1>1, <1>5, <2>1, <2>2, <1>3 DEF TreeTyped
<1>7. /\ new.op = old.op /\ new.of = old.of /\ new.moves = old.moves /\ new.to = old.to
      /\ new.from = old.from /\ new.next = old.next /\ new.stale = old.stale
      /\ new.listed = TRUE /\ new.below = below
  <2> HIDE DEF below
  <2> QED
    BY <1>2, <1>5 DEF Update, AnyUpdate
<1>8. ASSUME ~overlapped, Current(new) PROVE ChangeFits(new)
  <2>1. PathsAgree /\ ChangeFits(old)
    BY <1>1, <1>2, <1>7, <1>8 DEF TreeInv, Current, Update, AnyUpdate, NoEdit
  <2>2. old.op = "update" /\ UpdateFits(old) /\ old.moves
    BY <1>2, <2>1 DEF ChangeFits, CreateFits, UpdateFits, Update, AnyUpdate
  <2>3. old.of \in Category /\ old.from \in Seq(Category) /\ old.from # <<>>
        /\ path[old.of] = old.from /\ old.from[Len(old.from)] = old.of
    BY <1>2, <2>2 DEF UpdateFits, Update, AnyUpdate
  <2>4. Rows(new) = S
    <3>1. \A r \in below : r[1] \in S
      <4>1. \A c \in S : <<c, New(c)>>[1] = c
        OBVIOUS
      <4> HIDE DEF S, New
      <4> QED
        BY <4>1
    <3>2. ASSUME NEW c \in S PROVE \E r \in below : r[1] = c
      <4>1. <<c, New(c)>> \in below /\ <<c, New(c)>>[1] = c
        OBVIOUS
      <4> HIDE DEF below
      <4> QED
        BY <4>1
    <3> HIDE DEF S, below
    <3> QED
      BY <1>7, <3>1, <3>2 DEF Rows
  <2>5. \A c \in existing : parent[c] \in {old.of} \cup S <=> c \in S
    BY <1>3, <2>1, <2>3, ListedSubtree
  <2>6. SubtreeIsKnown(new)
    <3>1. \A c \in existing : parent[c] \in Subtree(new) => c \in Rows(new)
      BY <1>7, <2>4, <2>5 DEF Subtree
    <3>2. ASSUME NEW r \in new.below
          PROVE  /\ parent[r[1]] \in Subtree(new)
                 /\ Below(r[1], new.from)
                 /\ r[2] = new.next \o After(new.from, path[r[1]])
      <4>1. PICK c \in S : r = <<c, New(c)>>
        BY <1>7
      <4>2. r[1] = c /\ r[2] = New(c)
        BY <4>1
      <4> QED
        BY <1>7, <2>4, <2>5, <4>2 DEF Subtree
    <3> QED
      BY <3>1, <3>2 DEF SubtreeIsKnown
  <2>7. UpdateFits(new)
    <3>1. new.next # new.from
      BY <1>2, <1>7, <2>2 DEF UpdateFits
    <3> QED
      BY <1>7, <2>2, <2>6, <3>1 DEF UpdateFits
  <2> QED
    BY <1>7, <2>1, <2>2, <2>7 DEF ChangeFits
<1> QED
  BY <1>5, <1>6, <1>8, OneEditChanges DEF ListDescendants

-----------------------------------------------------------------------------
(* Writing.                                                                  *)

\* What another update has read, and a write of W does not touch.
Apart(change, W) ==
  /\ W \cap (Subtree(change) \cup {change.to}) = {}
  /\ \A c \in W : parent'[c] \notin Subtree(change)

\* Outside of W nothing is written.
WritesOnly(W) ==
  /\ existing' \subseteq existing \cup W
  /\ \A c \in Category \ W : path'[c] = path[c] /\ parent'[c] = parent[c]

\* A write of the category of one call leaves what another has read as it was.
LEMMA FitsApart ==
  ASSUME CategoryAssumption, TreeTyped, NEW change \in Update, NEW W \in SUBSET Category,
         WritesOnly(W), Apart(change, W), ChangeFits(change)
  PROVE  ChangeFits(change)'
<1>1. /\ change.of \in Category \ W /\ Rows(change) \subseteq Category \ W
      /\ change.to \in (Category \cup {Root}) \ W
  BY DEF Apart, Subtree, Rows, Update, AnyUpdate
<1>2. BuildPath(change.of, change.to)' = BuildPath(change.of, change.to)
  BY <1>1 DEF BuildPath, PathOf, WritesOnly
<1>3. CreateFits(change) => CreateFits(change)'
  BY <1>1 DEF CreateFits, WritesOnly
<1>4. ASSUME SubtreeIsKnown(change) PROVE SubtreeIsKnown(change)'
  <2>1. ASSUME NEW c \in existing', parent'[c] \in Subtree(change) PROVE c \in Rows(change)
    <3>1. c \notin W /\ c \in existing /\ c \in Category
      BY <2>1 DEF Apart, WritesOnly, TreeTyped
    <3>2. parent[c] \in Subtree(change)
      BY <2>1, <3>1 DEF WritesOnly
    <3> QED
      BY <1>4, <3>1, <3>2 DEF SubtreeIsKnown
  <2>2. ASSUME NEW r \in change.below
        PROVE  /\ parent'[r[1]] \in Subtree(change)
               /\ Below(r[1], change.from)'
               /\ r[2] = change.next \o After(change.from, path'[r[1]])
    <3>1. r[1] \in Category \ W
      BY <1>1 DEF Rows
    <3>2. path'[r[1]] = path[r[1]] /\ parent'[r[1]] = parent[r[1]]
      BY <3>1 DEF WritesOnly
    <3> QED
      BY <1>4, <3>2 DEF SubtreeIsKnown, Below
  <2> QED
    BY <2>1, <2>2 DEF SubtreeIsKnown
<1>5. ASSUME UpdateFits(change) PROVE UpdateFits(change)'
  <2>1. path'[change.of] = path[change.of]
    BY <1>1 DEF WritesOnly
  <2>2. change.to # Root => path'[change.to] = path[change.to]
    BY <1>1 DEF WritesOnly
  <2> QED
    BY <1>4, <1>5, <2>1, <2>2 DEF UpdateFits
<1> QED
  BY <1>2, <1>3, <1>5 DEF ChangeFits

\* What a write does to rows and updates, whether it is stale or not.
LEMMA WhatIsWritten ==
  ASSUME CategoryAssumption, TreeInv, NEW e \in Editor, Write(e),
         NEW change, change = edit[e], NEW W, W = Rows(change) \cup {change.of}
  PROVE  /\ change \in Update /\ change.listed /\ W \in SUBSET Category /\ Rows(change) \subseteq existing
         /\ change.op = "update" => change.of \in existing
         /\ change.moves => change.to \in existing \cup {Root}
         /\ existing' = existing \cup {change.of} /\ filed' = filed
         /\ parent' = IF change.moves THEN [parent EXCEPT ![change.of] = change.to] ELSE parent
         /\ path' = [c \in Category |->
              IF c \in Rows(change) THEN (CHOOSE r \in change.below : r[1] = c)[2]
              ELSE IF c = change.of THEN change.next ELSE path[c]]
         /\ Written(e, W)
<1>1. change \in Update
  BY DEF Write, TreeInv, TreeTyped
<1> QED
  BY <1>1 DEF Write, Rows, Update, AnyUpdate

\* Types, and parents that exist, whatever overlaps.
LEMMA WriteKeepsTypes ==
  ASSUME CategoryAssumption, TreeInv, NEW e \in Editor, Write(e)
  PROVE  TreeTyped' /\ ParentsExist'
<1>1. PICK change, W : change = edit[e] /\ W = Rows(change) \cup {change.of}
  OBVIOUS
<1>2. /\ change \in Update /\ Rows(change) \subseteq existing
      /\ change.op = "update" => change.of \in existing
      /\ change.moves => change.to \in existing \cup {Root}
      /\ existing' = existing \cup {change.of} /\ filed' = filed
      /\ parent' = IF change.moves THEN [parent EXCEPT ![change.of] = change.to] ELSE parent
      /\ path' = [c \in Category |->
              IF c \in Rows(change) THEN (CHOOSE r \in change.below : r[1] = c)[2]
              ELSE IF c = change.of THEN change.next ELSE path[c]]
      /\ Written(e, W)
  BY <1>1, WhatIsWritten
<1>3. /\ change.of \in Category /\ change.next \in Seq(Category)
      /\ change.to \in Category \cup {Root} /\ change.op \in {"create", "update"}
      /\ change.op = "create" => change.moves
      /\ change.below \in SUBSET (Category \X Seq(Category))
  BY <1>2 DEF Update, AnyUpdate
<1>4. TreeTyped /\ ParentsExist
  BY DEF TreeInv
<1>5. parent' \in [Category -> Category \cup {Root}]
  BY <1>2, <1>3, <1>4 DEF TreeTyped
<1>6. path' \in [Category -> Seq(Category)]
  <2>1. ASSUME NEW c \in Rows(change) PROVE (CHOOSE r \in change.below : r[1] = c)[2] \in Seq(Category)
    <3>1. \E r \in change.below : r[1] = c
      BY DEF Rows
    <3>2. (CHOOSE r \in change.below : r[1] = c) \in change.below
      BY <3>1
    <3> QED
      BY <1>3, <3>2
  <2> QED
    BY <1>2, <1>3, <1>4, <2>1 DEF TreeTyped
<1>7. edit' \in [Editor -> {NoEdit} \cup Update] /\ overlapped' \in BOOLEAN
  <2>1. ASSUME NEW d \in Editor PROVE edit'[d] \in {NoEdit} \cup Update
    <3>1. PICK b \in BOOLEAN :
            b = (\/ edit[d].stale \/ W \cap (({edit[d].of} \cup {r[1] : r \in edit[d].below}) \cup {edit[d].to}) # {}
                 \/ \E c \in W : parent'[c] \in {edit[d].of} \cup {r[1] : r \in edit[d].below})
      OBVIOUS
    <3>2. edit'[d] = IF d = e THEN NoEdit ELSE IF edit[d] = NoEdit THEN NoEdit
                     ELSE [edit[d] EXCEPT !.stale = b]
      BY <1>2, <3>1 DEF Written
    <3>3. edit[d] \in Update => [edit[d] EXCEPT !.stale = b] \in Update
      BY DEF Update, AnyUpdate
    <3> QED
      BY <1>4, <3>2, <3>3 DEF TreeTyped
  <2>2. edit' = [d \in Editor |-> edit'[d]]
    BY <1>2 DEF Written
  <2>3. overlapped' \in BOOLEAN
    BY <1>2 DEF Written
  <2> QED
    BY <2>1, <2>2, <2>3
<1>8. ParentsExist'
  <2>1. ASSUME NEW c \in existing' PROVE parent'[c] \in existing \cup {Root}
    <3>1. c \in existing \/ c = change.of
      BY <1>2
    <3>2. CASE change.moves /\ c = change.of
      BY <1>2, <1>3, <1>4, <3>2 DEF TreeTyped
    <3>3. CASE ~(change.moves /\ c = change.of)
      <4>1. c \in existing /\ parent'[c] = parent[c]
        BY <1>2, <1>3, <1>4, <3>1, <3>3 DEF TreeTyped
      <4> QED
        BY <1>4, <4>1 DEF ParentsExist
    <3> QED
      BY <3>2, <3>3
  <2> QED
    BY <1>2, <2>1 DEF ParentsExist
<1>9. existing' \subseteq Category /\ filed' \subseteq existing'
  BY <1>2, <1>3, <1>4 DEF TreeTyped
<1> QED
  BY <1>5, <1>6, <1>7, <1>8, <1>9 DEF TreeTyped

(* The paths after a write of an update whose reads are still true.          *)
LEMMA PathsWritten ==
  ASSUME CategoryAssumption, TreeInv, PathsAgree, NEW e \in Editor, Write(e),
         NEW change, change = edit[e], ChangeFits(change)
  PROVE  PathsAgree'
<1>1. PICK W : W = Rows(change) \cup {change.of}
  OBVIOUS
<1>2. /\ change \in Update /\ change.listed /\ Rows(change) \subseteq existing
      /\ change.op = "update" => change.of \in existing
      /\ change.moves => change.to \in existing \cup {Root}
      /\ existing' = existing \cup {change.of}
      /\ parent' = IF change.moves THEN [parent EXCEPT ![change.of] = change.to] ELSE parent
      /\ path' = [c \in Category |->
              IF c \in Rows(change) THEN (CHOOSE r \in change.below : r[1] = c)[2]
              ELSE IF c = change.of THEN change.next ELSE path[c]]
  BY <1>1, WhatIsWritten
<1>3. /\ change.of \in Category /\ change.next \in Seq(Category) /\ change.from \in Seq(Category)
      /\ change.to \in Category \cup {Root} /\ change.op \in {"create", "update"}
      /\ change.below \in SUBSET (Category \X Seq(Category))
  BY <1>2 DEF Update, AnyUpdate
<1>4. TreeTyped /\ ParentsExist /\ existing \subseteq Category
      /\ parent \in [Category -> Category \cup {Root}]
  BY DEF TreeInv, TreeTyped
<1>5. PICK of, to, next, from :
        of = change.of /\ to = change.to /\ next = change.next /\ from = change.from
  OBVIOUS
<1>6. /\ change.moves => next = BuildPath(of, to)
      /\ change.op = "create" => CreateFits(change)
      /\ change.op = "update" => UpdateFits(change)
  BY <1>5 DEF ChangeFits
<1>7. CASE change.op = "create"
  <2>1. path[of] = <<>> /\ change.moves /\ to # of /\ Rows(change) = {}
    BY <1>5, <1>6, <1>7 DEF CreateFits, Rows
  <2>2. of \notin existing /\ \A c \in existing : parent[c] # of
    BY <1>4, <2>1, PathOfChild, <1>3, <1>5 DEF CategoryAssumption
  <2>3. /\ path'[of] = next /\ parent'[of] = to
        /\ \A c \in Category \ {of} : path'[c] = path[c] /\ parent'[c] = parent[c]
    BY <1>2, <1>3, <1>4, <1>5, <2>1
  <2>4. \A c \in existing : PathOf(parent[c])' = PathOf(parent[c])
    <3>1. ASSUME NEW c \in existing PROVE PathOf(parent[c])' = PathOf(parent[c])
      <4>1. parent[c] \in (Category \cup {Root}) \ {of} /\ parent'[c] = parent[c]
        BY <1>4, <2>2, <2>3
      <4> QED
        BY <2>3, <4>1 DEF PathOf
    <3> QED
      BY <3>1
  <2>5. ASSUME NEW c \in existing PROVE path'[c] = BuildPath(c, parent[c])'
    <3>1. path'[c] = path[c] /\ path[c] = Append(PathOf(parent[c]), c)
      BY <1>4, <2>2, <2>3 DEF PathsAgree, BuildPath
    <3> QED
      BY <2>4, <3>1 DEF BuildPath
  <2>6. path'[of] = BuildPath(of, parent[of])'
    <3>1. PathOf(to)' = PathOf(to)
      BY <1>3, <1>5, <2>1, <2>3 DEF PathOf
    <3> QED
      BY <1>6, <2>1, <2>3, <3>1 DEF BuildPath, PathOf
  <2> QED
    BY <1>2, <1>5, <2>5, <2>6 DEF PathsAgree
<1>8. CASE change.op = "update" /\ next = from
  <2>1. path[of] = from /\ Rows(change) = {} /\ of \in existing /\ existing' = existing
    BY <1>2, <1>5, <1>6, <1>8 DEF UpdateFits, Rows
  <2>2. path' = path
    BY <1>2, <1>3, <1>4, <1>5, <1>8, <2>1 DEF TreeTyped
  <2>3. \A p : PathOf(p)' = PathOf(p)
    BY <2>2 DEF PathOf
  <2>4. ASSUME NEW c \in existing PROVE path[c] = Append(PathOf(parent'[c]), c)
    <3>1. CASE c = of /\ change.moves
      BY <1>2, <1>3, <1>4, <1>5, <1>6, <1>8, <2>1, <3>1 DEF BuildPath
    <3>2. CASE ~(c = of /\ change.moves)
      <4>1. parent'[c] = parent[c]
        BY <1>2, <1>4, <1>5, <3>2
      <4> QED
        BY <4>1 DEF PathsAgree, BuildPath
    <3> QED
      BY <3>1, <3>2
  <2>5. ASSUME NEW c \in existing PROVE path'[c] = BuildPath(c, parent[c])'
    BY <2>2, <2>3, <2>4 DEF BuildPath, PathOf
  <2> QED
    BY <2>1, <2>5 DEF PathsAgree
<1>9. CASE change.op = "update" /\ next # from
  <2>1. /\ path[of] = from /\ of \in existing /\ existing' = existing
        /\ change.moves /\ to # of /\ (to # Root => ~IsPrefix(from, path[to]))
        /\ SubtreeIsKnown(change)
    BY <1>2, <1>5, <1>6, <1>9 DEF UpdateFits
  <2>2. PICK S : S = Rows(change)
    OBVIOUS
  <2>3. S \subseteq existing
    BY <1>2, <2>2
  <2>4. \A c \in S : Below(c, from) /\ parent[c] \in {of} \cup S
    BY <1>5, <2>1, <2>2 DEF SubtreeIsKnown, Rows, Subtree
  <2>5. \A c \in existing : parent[c] \in {of} \cup S => c \in S
    BY <1>5, <2>1, <2>2 DEF SubtreeIsKnown, Subtree
  <2>6. of \notin S /\ to \notin S
    <3>1. ~Below(of, from)
      BY <1>3, <1>5, <2>1 DEF Below
    <3>2. to # Root => ~Below(to, from)
      BY <2>1 DEF Below
    <3>3. Root \notin S
      BY <1>4, <2>3 DEF CategoryAssumption
    <3> QED
      BY <2>4, <3>1, <3>2, <3>3
  <2>7. \A c \in S : path'[c] = next \o After(from, path[c])
    <3>1. ASSUME NEW c \in S PROVE path'[c] = next \o After(from, path[c])
      <4>1. \E r \in change.below : r[1] = c
        BY <2>2 DEF Rows
      <4>2. PICK r \in change.below : r = (CHOOSE q \in change.below : q[1] = c) /\ r[1] = c
        BY <4>1
      <4>3. path'[c] = r[2]
        BY <1>2, <1>4, <2>2, <2>3, <4>2
      <4> QED
        BY <1>5, <2>1, <4>2, <4>3 DEF SubtreeIsKnown
    <3> QED
      BY <3>1
  <2>8. path'[of] = next /\ \A c \in Category \ (S \cup {of}) : path'[c] = path[c]
    BY <1>2, <1>3, <1>5, <2>2, <2>6
  <2>9. parent'[of] = to /\ \A c \in Category \ {of} : parent'[c] = parent[c]
    BY <1>2, <1>3, <1>4, <1>5, <2>1
  <2>10. path'[of] = BuildPath(of, parent[of])'
    <3>1. PathOf(to)' = PathOf(to)
      BY <1>3, <1>5, <2>1, <2>6, <2>8 DEF PathOf
    <3> QED
      BY <1>6, <2>1, <2>8, <2>9, <3>1 DEF BuildPath, PathOf
  <2>11. ASSUME NEW c \in existing \ (S \cup {of}) PROVE path'[c] = BuildPath(c, parent[c])'
    <3>1. path'[c] = path[c] /\ parent'[c] = parent[c]
      BY <1>4, <2>8, <2>9
    <3>2. parent[c] \in (Category \cup {Root}) \ (S \cup {of})
      BY <1>4, <2>5
    <3>3. PathOf(parent[c])' = PathOf(parent[c])
      BY <2>8, <3>1, <3>2 DEF PathOf
    <3>4. path[c] = Append(PathOf(parent[c]), c)
      BY DEF PathsAgree, BuildPath
    <3> QED
      BY <3>1, <3>3, <3>4 DEF BuildPath
  <2>12. ASSUME NEW c \in S PROVE path'[c] = BuildPath(c, parent[c])'
    <3>1. PICK p : p = parent[c]
      OBVIOUS
    <3>2. p \in {of} \cup S /\ parent'[c] = p /\ p \in Category /\ p # Root
      BY <1>3, <1>4, <1>5, <2>3, <2>4, <2>6, <2>9, <3>1 DEF CategoryAssumption
    <3>3. c \in Category /\ path[c] = Append(path[p], c)
      BY <1>4, <2>3, <3>1, <3>2 DEF PathsAgree, BuildPath, PathOf
    <3>4. path[p] \in Seq(Category) /\ Len(from) <= Len(path[p])
      <4>1. path[p] \in Seq(Category)
        BY <1>4, <3>2 DEF TreeTyped
      <4>2. p \in S => Len(from) <= Len(path[p])
        BY <1>3, <1>5, <2>4, <4>1 DEF Below
      <4>3. p = of => Len(from) <= Len(path[p])
        BY <1>3, <1>5, <2>1
      <4> QED
        BY <3>2, <4>1, <4>2, <4>3
    <3>5. After(from, path[c]) = Append(After(from, path[p]), c)
      BY <1>3, <1>5, <3>3, <3>4, AfterOfChild
    <3>6. After(from, path[p]) \in Seq(Category)
      BY <1>3, <1>5, <3>4, AfterIsASeq
    <3>7. path'[c] = Append(next \o After(from, path[p]), c)
      <4>1. next \in Seq(Category)
        BY <1>3, <1>5
      <4>2. next \o Append(After(from, path[p]), c) = Append(next \o After(from, path[p]), c)
        BY <3>3, <3>6, <4>1, PutBeforeChild
      <4>3. path'[c] = next \o After(from, path[c])
        BY <2>7
      <4> QED
        BY <3>5, <4>2, <4>3
    <3>8. path'[p] = next \o After(from, path[p])
      <4>1. CASE p \in S
        BY <2>7, <4>1
      <4>2. CASE p = of
        <5>1. After(from, path[p]) = <<>>
          BY <1>3, <1>5, <2>1, <4>2, AfterItself
        <5>2. next \o <<>> = next
          BY <1>3, <1>5, ConcatEmptySeq
        <5> QED
          BY <2>8, <4>2, <5>1, <5>2
      <4> QED
        BY <3>2, <4>1, <4>2
    <3> QED
      BY <3>2, <3>7, <3>8 DEF BuildPath, PathOf
  <2> QED
    BY <2>1, <2>10, <2>11, <2>12 DEF PathsAgree
<1> QED
  BY <1>3, <1>7, <1>8, <1>9

\* The rows are written.
LEMMA WriteStep ==
  ASSUME CategoryAssumption, TreeInv, NEW e \in Editor, Write(e)
  PROVE  TreeInv'
<1>1. PICK change, W : change = edit[e] /\ W = Rows(change) \cup {change.of}
  OBVIOUS
<1>2. /\ change \in Update /\ W \in SUBSET Category /\ Rows(change) \subseteq existing
      /\ existing' = existing \cup {change.of}
      /\ parent' = IF change.moves THEN [parent EXCEPT ![change.of] = change.to] ELSE parent
      /\ path' = [c \in Category |->
              IF c \in Rows(change) THEN (CHOOSE r \in change.below : r[1] = c)[2]
              ELSE IF c = change.of THEN change.next ELSE path[c]]
      /\ Written(e, W)
  BY <1>1, WhatIsWritten
<1>3. TreeTyped' /\ ParentsExist' /\ TreeTyped
  BY WriteKeepsTypes DEF TreeInv
<1>4. ASSUME ~overlapped' PROVE ~overlapped /\ PathsAgree /\ ChangeFits(change)
  <2>1. ~overlapped /\ ~change.stale
    BY <1>1, <1>2, <1>4 DEF Written
  <2>2. change # NoEdit
    BY <1>1 DEF Write
  <2> QED
    BY <1>1, <2>1, <2>2 DEF TreeInv, Current
<1>5. ~overlapped' => PathsAgree'
  BY <1>1, <1>4, PathsWritten
<1>6. WritesOnly(W)
  BY <1>1, <1>2, <1>3 DEF WritesOnly, TreeTyped
<1>7. ASSUME ~overlapped', NEW d \in Editor, Current(edit'[d]) PROVE ChangeFits(edit[d])'
  <2>1. d # e /\ edit[d] # NoEdit
    BY <1>2, <1>7 DEF Written, Current
  <2>2. PICK old : old = edit[d]
    OBVIOUS
  <2>3. old \in Update
    BY <1>3, <2>1, <2>2 DEF TreeTyped
  <2>4. PICK b \in BOOLEAN :
          b = (\/ old.stale \/ W \cap (Subtree(old) \cup {old.to}) # {}
               \/ \E c \in W : parent'[c] \in Subtree(old))
    OBVIOUS
  <2>5. edit'[d] = [old EXCEPT !.stale = b]
    BY <1>2, <2>1, <2>2, <2>4 DEF Written, Subtree, Rows
  <2>6. b = FALSE
    BY <1>7, <2>3, <2>4, <2>5 DEF Current, Update, AnyUpdate
  <2>7. ~old.stale /\ Apart(old, W)
    BY <2>4, <2>6 DEF Apart
  <2>8. edit'[d] = old
    BY <2>3, <2>5, <2>6, <2>7 DEF Update, AnyUpdate
  <2>9. ChangeFits(old)
    BY <1>4, <1>7, <2>1, <2>2, <2>7 DEF TreeInv, Current
  <2>10. ChangeFits(old)'
    BY <1>2, <1>3, <1>6, <2>3, <2>7, <2>9, FitsApart
  <2> QED
    BY <2>8, <2>10
<1>8. \A d \in Editor : Current(edit[d])' <=> Current(edit'[d])
  BY DEF Current
<1> QED
  BY <1>3, <1>5, <1>7, <1>8 DEF TreeInv

(* A category is deleted without children, so that no path leads to it.      *)
LEMMA DeleteStep ==
  ASSUME CategoryAssumption, TreeInv, NEW c \in Category, Delete(c)
  PROVE  TreeInv'
<1>1. TreeTyped'
  BY DEF Delete, TreeInv, TreeTyped
<1>2. ParentsExist'
  BY DEF Delete, TreeInv, ParentsExist
<1>3. PathsAgree => PathsAgree'
  BY DEF Delete, PathsAgree, BuildPath, PathOf
<1>4. ASSUME NEW d \in Editor, ChangeFits(edit[d]) PROVE ChangeFits(edit[d])'
  <2>1. PICK old : old = edit[d]
    OBVIOUS
  <2>2. ChangeFits(old)'
    BY <1>4, <2>1, FitsAsBefore DEF Delete
  <2>3. edit' = edit
    BY DEF Delete
  <2> QED
    BY <2>1, <2>2, <2>3
<1>5. \A d \in Editor : Current(edit[d])' <=> Current(edit[d])
  BY DEF Delete, Current
<1>6. overlapped' = overlapped
  BY DEF Delete
<1> QED
  BY <1>1, <1>2, <1>3, <1>4, <1>5, <1>6 DEF TreeInv

\* Nothing that the invariant is about changes but the products' categories.
LEMMA TreeUntouched ==
  ASSUME CategoryAssumption, TreeInv, filed' \subseteq existing,
         UNCHANGED <<existing, parent, path, edit, overlapped>>
  PROVE  TreeInv'
<1>1. TreeTyped'
  BY DEF TreeInv, TreeTyped
<1>2. ParentsExist' /\ (PathsAgree => PathsAgree')
  BY DEF TreeInv, ParentsExist, PathsAgree, BuildPath, PathOf
<1>3. ASSUME NEW d \in Editor, ChangeFits(edit[d]) PROVE ChangeFits(edit[d])'
  <2>1. PICK old : old = edit[d]
    OBVIOUS
  <2>2. ChangeFits(old)'
    BY <1>3, <2>1, FitsAsBefore
  <2> QED
    BY <2>1, <2>2
<1>4. \A d \in Editor : Current(edit[d])' <=> Current(edit[d])
  BY DEF Current
<1> QED
  BY <1>1, <1>2, <1>3, <1>4 DEF TreeInv

(* However updates, moves and deletes of categories interleave, as long as   *)
(* no update writes after another has written what it had read: every path   *)
(* is its parent's and the own id, and getTree shows every category          *)
(* (CategoryService, CategoryRepository.updateWithDescendantPaths).          *)
THEOREM TreeStaysWhole == TreeSpec => []TreeIsWhole
<1> USE CategoryAssumption
<1>1. TreeInit => TreeInv
  BY TreeInvAtFirst
<1>2. TreeInv /\ [TreeNext]_treeVars => TreeInv'
  <2> SUFFICES ASSUME TreeInv, [TreeNext]_treeVars PROVE TreeInv'
    OBVIOUS
  <2>1. ASSUME NEW e \in Editor, Refuse(e) PROVE TreeInv'
    BY <2>1, OneEditChanges DEF Refuse, Current
  <2>2. ASSUME NEW cs \in SUBSET Category, AssignCategories(cs) PROVE TreeInv'
    BY <2>2, TreeUntouched DEF AssignCategories
  <2>3. CASE UNCHANGED treeVars
    BY <2>3, TreeUntouched DEF treeVars, TreeInv, TreeTyped
  <2> QED
    BY <2>1, <2>2, <2>3, NewUpdates, ListStep, WriteStep, DeleteStep DEF TreeNext
<1>3. TreeInv => TreeIsWhole
  BY TreeInvIsWhole
<1> QED
  BY <1>1, <1>2, <1>3, PTL DEF TreeSpec

-----------------------------------------------------------------------------
\* Rows and calls that are there.
DataRows == [slot : Slot, column : Column]
Upserts == [slot : Slot, column : Column, found : SUBSET DataRow, looked : BOOLEAN]

\* What a slot whose upserts never overlapped holds: its one row has what was set last.
OneRow(s) ==
  /\ \A r, q \in RowsOf(s) : r = q
  /\ \A r \in RowsOf(s) : dataRow[r].column = lastSet[s]
  /\ RowsOf(s) = {} => lastSet[s] = "none"

\* What an upsert found was of its slot, and is still all of it if it is alone.
FoundIsTrue(call) ==
  /\ \A r \in call.found : dataRow[r].slot = call.slot \/ dataRow[r] = Gone
  /\ ~call.looked => call.found = {}
  /\ call.looked /\ call.slot \notin doubled => call.found = RowsOf(call.slot)

\* A value of a definition fits its column unless the type was changed.
InItsColumn(s, column) ==
  s \in Definition => /\ definition[s] # "none"
                      /\ s \notin retyped => column = ColumnOf(definition[s])

\* What a step needs and leaves.
DataInv ==
  /\ DataTypeOK
  /\ \A s \in Slot \ doubled : OneRow(s)
  /\ \A r \in DataRow : dataRow[r] \in DataRows => InItsColumn(dataRow[r].slot, dataRow[r].column)
  /\ \A w \in DataClerk : dataCall[w] # NoData =>
       FoundIsTrue(dataCall[w]) /\ InItsColumn(dataCall[w].slot, dataCall[w].column)
  /\ \A v, w \in DataClerk :
       dataCall[v] # NoData /\ dataCall[w] # NoData /\ dataCall[v].slot = dataCall[w].slot
         => v = w \/ dataCall[v].slot \in doubled

\* What the types say of rows and calls.
LEMMA DataTypes ==
  ASSUME ProductDataAssumption, DataTypeOK
  PROVE  /\ dataRow \in [DataRow -> {Empty, Gone} \cup DataRows]
         /\ dataCall \in [DataClerk -> {NoData} \cup Upserts]
         /\ "none" \notin Slot /\ "gone" \notin Slot /\ "none" \notin Column
         /\ NoData.slot = "none" /\ NoData \notin Upserts
         /\ Empty \notin DataRows /\ Gone \notin DataRows /\ Empty # Gone
         /\ \A r \in DataRow : /\ dataRow[r].slot \in Slot => dataRow[r] \in DataRows
                               /\ dataRow[r] \in DataRows => dataRow[r].slot \in Slot
         /\ \A w \in DataClerk : /\ dataCall[w] # NoData => dataCall[w] \in Upserts /\ dataCall[w].slot \in Slot
                                 /\ dataCall[w].slot \in Slot => dataCall[w] # NoData
  <1>1. "none" \notin Slot /\ "gone" \notin Slot /\ "none" \notin ValueType
    BY DEF ProductDataAssumption, Slot
  <1>2. "none" \notin Column
    BY <1>1 DEF Column
  <1>3. /\ dataRow \in [DataRow -> {Empty, Gone} \cup DataRows] /\ dataCall \in [DataClerk -> {NoData} \cup Upserts]
    BY DEF DataTypeOK, DataRows, Upserts
  <1>4. NoData.slot = "none" /\ Empty.slot = "none" /\ Gone.slot = "gone"
    BY DEF NoData, Empty, Gone
  <1>5. (\A x \in DataRows : x.slot \in Slot) /\ (\A x \in Upserts : x.slot \in Slot)
    BY DEF DataRows, Upserts
  <1>6. NoData \notin Upserts /\ Empty \notin DataRows /\ Gone \notin DataRows /\ Empty # Gone
    BY <1>1, <1>4, <1>5
  <1>7. \A r \in DataRow : /\ dataRow[r].slot \in Slot => dataRow[r] \in DataRows
                           /\ dataRow[r] \in DataRows => dataRow[r].slot \in Slot
    BY <1>1, <1>3, <1>4, <1>5
  <1>8. \A w \in DataClerk : /\ dataCall[w] # NoData => dataCall[w] \in Upserts /\ dataCall[w].slot \in Slot
                             /\ dataCall[w].slot \in Slot => dataCall[w] # NoData
    BY <1>1, <1>3, <1>4, <1>5
  <1> QED
    BY <1>1, <1>2, <1>3, <1>4, <1>6, <1>7, <1>8

\* Types follow from the type of each variable.
LEMMA DataTypesFollow ==
  ASSUME definition' \in [Definition -> ValueType \cup {"none"}], options' \subseteq Definition,
         dataRow' \in [DataRow -> {Empty, Gone} \cup DataRows], lastSet' \in [Slot -> Column \cup {"none"}],
         dataCall' \in [DataClerk -> {NoData} \cup Upserts], doubled' \subseteq Slot, retyped' \subseteq Definition
  PROVE  DataTypeOK'
  BY DEF DataTypeOK, DataRows, Upserts

\* The definitions and their options.
LEMMA DefinitionSteps ==
  ASSUME ProductDataAssumption, DataInv,
         \E d \in Definition :
           \/ CreateOption(d) \/ RemoveOption(d)
           \/ \E type \in ValueType : CreateDefinition(d, type) \/ UpdateDefinition(d, type)
  PROVE  DataInv'
  <1>1. PICK d \in Definition :
           \/ CreateOption(d) \/ RemoveOption(d)
           \/ \E type \in ValueType : CreateDefinition(d, type) \/ UpdateDefinition(d, type)
    OBVIOUS
  <1>2. UNCHANGED <<dataRow, lastSet, dataCall, doubled>>
    BY <1>1 DEF CreateOption, RemoveOption, CreateDefinition, UpdateDefinition
  <1>3. DataTypeOK
    BY DEF DataInv
  <1>4. /\ definition' \in [Definition -> ValueType \cup {"none"}] /\ options' \subseteq Definition
        /\ retyped' \subseteq Definition
    BY <1>1, <1>3 DEF CreateOption, RemoveOption, CreateDefinition, UpdateDefinition, DataTypeOK
  <1>5. DataTypeOK'
    BY <1>2, <1>3, <1>4, DataTypes, DataTypesFollow DEF DataTypeOK
  <1>6. ASSUME NEW s, NEW column, InItsColumn(s, column) PROVE InItsColumn(s, column)'
    <2>1. s \in Definition => definition[s] # "none" /\ (s \notin retyped => column = ColumnOf(definition[s]))
      BY <1>6 DEF InItsColumn
    <2>2. ASSUME s \in Definition PROVE definition'[s] # "none" /\ (s \notin retyped' => column = ColumnOf(definition'[s]))
      <3>1. CASE UNCHANGED <<definition, retyped>>
        BY <2>1, <2>2, <3>1
      <3>2. ASSUME NEW type \in ValueType, CreateDefinition(d, type)
            PROVE  definition'[s] # "none" /\ (s \notin retyped' => column = ColumnOf(definition'[s]))
        BY <1>3, <2>1, <2>2, <3>2 DEF CreateDefinition, DataTypeOK
      <3>3. ASSUME NEW type \in ValueType, UpdateDefinition(d, type)
            PROVE  definition'[s] # "none" /\ (s \notin retyped' => column = ColumnOf(definition'[s]))
        <4>1. definition' = [definition EXCEPT ![d] = type] /\ retyped' = retyped \cup {d} /\ type # "none"
          BY <3>3 DEF UpdateDefinition, ProductDataAssumption
        <4> QED
          BY <1>3, <2>1, <2>2, <4>1 DEF DataTypeOK
      <3> QED
        BY <1>1, <3>1, <3>2, <3>3 DEF CreateOption, RemoveOption
    <2> QED
      BY <2>2 DEF InItsColumn
  <1>7. \A s \in Slot \ doubled : OneRow(s)'
    BY <1>2 DEF DataInv, OneRow, RowsOf
  <1>8. \A call : FoundIsTrue(call) => FoundIsTrue(call)'
    BY <1>2 DEF FoundIsTrue, RowsOf
  <1>9. \A w \in DataClerk : dataCall'[w] # NoData =>
          FoundIsTrue(dataCall[w])' /\ InItsColumn(dataCall[w].slot, dataCall[w].column)'
    BY <1>2, <1>6, <1>8 DEF DataInv
  <1>10. \A r \in DataRow : dataRow'[r] \in DataRows => InItsColumn(dataRow[r].slot, dataRow[r].column)'
    BY <1>2, <1>6 DEF DataInv
  <1> QED
    BY <1>2, <1>5, <1>7, <1>9, <1>10 DEF DataInv

\* One call goes on: of the other slots nothing changes.
LEMMA OneUpsertChanges ==
  ASSUME DataTypeOK, NEW w \in DataClerk, NEW call, dataCall' = [dataCall EXCEPT ![w] = call]
  PROVE  \A v \in DataClerk : dataCall'[v] = IF v = w THEN call ELSE dataCall[v]
  BY DEF DataTypeOK

\* An upsert that starts, looks or ends without a row.
LEMMA UpsertSteps ==
  ASSUME ProductDataAssumption, DataInv, NEW w \in DataClerk,
         \/ LookForRow(w) \/ AbandonUpsert(w)
         \/ \E s \in Slot, column \in Column : StartUpsert(w, s, column)
  PROVE  DataInv'
  <1>1. DataTypeOK /\ definition \in [Definition -> ValueType \cup {"none"}] /\ doubled \subseteq Slot
    BY DEF DataInv, DataTypeOK
  <1>2. UNCHANGED <<definition, options, dataRow, lastSet, retyped>> /\ doubled \subseteq doubled'
    BY DEF LookForRow, AbandonUpsert, StartUpsert
  <1>3. ASSUME NEW call \in {NoData} \cup Upserts, dataCall' = [dataCall EXCEPT ![w] = call], doubled' \subseteq Slot,
               call # NoData => FoundIsTrue(call)' /\ InItsColumn(call.slot, call.column),
               call # NoData => \A v \in DataClerk \ {w} : dataCall[v].slot = call.slot => call.slot \in doubled'
        PROVE  DataInv'
    <2>1. \A v \in DataClerk : dataCall'[v] = IF v = w THEN call ELSE dataCall[v]
      BY <1>1, <1>3, OneUpsertChanges
    <2>2. dataCall' \in [DataClerk -> {NoData} \cup Upserts]
      BY <1>1, <1>3, DataTypes
    <2>3. DataTypeOK'
      BY <1>1, <1>2, <1>3, <2>2, DataTypes, DataTypesFollow DEF DataTypeOK
    <2>4. \A s \in Slot \ doubled' : OneRow(s)'
      BY <1>2 DEF DataInv, OneRow, RowsOf
    <2>5. \A s, column : InItsColumn(s, column)' <=> InItsColumn(s, column)
      BY <1>2 DEF InItsColumn
    <2>6. \A c : FoundIsTrue(c) => FoundIsTrue(c)'
      BY <1>2 DEF FoundIsTrue, RowsOf
    <2>7. \A v \in DataClerk : dataCall'[v] # NoData =>
            FoundIsTrue(dataCall[v])' /\ InItsColumn(dataCall[v].slot, dataCall[v].column)'
      <3>1. \A v \in DataClerk : dataCall[v] # NoData =>
              FoundIsTrue(dataCall[v]) /\ InItsColumn(dataCall[v].slot, dataCall[v].column)
        BY DEF DataInv
      <3> QED
        BY <1>3, <2>1, <2>5, <2>6, <3>1
    <2>8. \A u, v \in DataClerk :
            dataCall'[u] # NoData /\ dataCall'[v] # NoData /\ dataCall'[u].slot = dataCall'[v].slot
              => u = v \/ dataCall'[u].slot \in doubled'
      <3>1. \A u, v \in DataClerk :
              dataCall[u] # NoData /\ dataCall[v] # NoData /\ dataCall[u].slot = dataCall[v].slot
                => u = v \/ dataCall[u].slot \in doubled
        BY DEF DataInv
      <3> QED
        BY <1>2, <1>3, <2>1, <3>1
    <2>9. \A r \in DataRow : dataRow'[r] \in DataRows => InItsColumn(dataRow[r].slot, dataRow[r].column)'
      BY <1>2, <2>5 DEF DataInv
    <2> QED
      BY <2>3, <2>4, <2>7, <2>8, <2>9 DEF DataInv
  <1>4. ASSUME NEW s \in Slot, NEW column \in Column, StartUpsert(w, s, column) PROVE DataInv'
    <2> DEFINE call == [slot |-> s, column |-> column, found |-> {}, looked |-> FALSE]
    <2>1. call \in Upserts /\ call.slot = s /\ call.column = column /\ call.found = {} /\ call.looked = FALSE
      BY DEF Upserts
    <2>2. dataCall' = [dataCall EXCEPT ![w] = call]
      BY <1>4 DEF StartUpsert
    <2>3. InItsColumn(s, column)
      BY <1>4 DEF StartUpsert, Fits, InItsColumn, ProductDataAssumption
    <2>4. /\ doubled' = IF \E v \in DataClerk : dataCall[v].slot = s THEN doubled \cup {s} ELSE doubled
      BY <1>4 DEF StartUpsert
    <2> HIDE DEF call
    <2>5. FoundIsTrue(call)'
      BY <2>1 DEF FoundIsTrue
    <2> QED
      BY <1>1, <1>3, <2>1, <2>2, <2>3, <2>4, <2>5
  <1>5. CASE AbandonUpsert(w)
    <2>1. dataCall' = [dataCall EXCEPT ![w] = NoData] /\ doubled' = doubled
      BY <1>5 DEF AbandonUpsert
    <2> QED
      BY <1>1, <1>3, <2>1
  <1>6. CASE LookForRow(w)
    <2> DEFINE old == dataCall[w]
    <2>1. /\ old # NoData /\ ~old.looked /\ doubled' = doubled /\ old \in Upserts /\ old.slot \in Slot
          /\ FoundIsTrue(old) /\ InItsColumn(old.slot, old.column)
          /\ \A v \in DataClerk \ {w} : dataCall[v].slot = old.slot => old.slot \in doubled
      <3>1. old # NoData /\ ~old.looked /\ doubled' = doubled /\ old \in Upserts /\ old.slot \in Slot
        BY <1>1, <1>6, DataTypes DEF LookForRow
      <3>2. FoundIsTrue(old) /\ InItsColumn(old.slot, old.column)
        BY <3>1 DEF DataInv
      <3>3. \A v \in DataClerk \ {w} : dataCall[v].slot = old.slot => old.slot \in doubled
        BY <1>1, <3>1, DataTypes DEF DataInv
      <3> QED
        BY <3>1, <3>2, <3>3
    <2>2. old.found = {}
      BY <2>1 DEF FoundIsTrue
    <2>3. \E found \in SUBSET DataRow :
            /\ \/ found = {} /\ RowsOf(old.slot) = {}
               \/ \E r \in RowsOf(old.slot) : found = {r}
            /\ dataCall' = [dataCall EXCEPT ![w] = [old EXCEPT !.looked = TRUE, !.found = found]]
      <3>1. [old EXCEPT !.looked = TRUE] = [old EXCEPT !.looked = TRUE, !.found = {}]
        BY <2>1, <2>2 DEF Upserts
      <3>2. RowsOf(old.slot) \subseteq DataRow
        BY DEF RowsOf
      <3>4. ASSUME NEW r \in RowsOf(old.slot),
                   dataCall' = [dataCall EXCEPT ![w].looked = TRUE, ![w].found = {r}]
            PROVE  dataCall' = [dataCall EXCEPT ![w] = [old EXCEPT !.looked = TRUE, !.found = {r}]]
        BY <1>1, <2>1, <3>4 DEF DataTypeOK
      <3>5. CASE \E r \in RowsOf(old.slot) :
                   dataCall' = [dataCall EXCEPT ![w].looked = TRUE, ![w].found = {r}]
        <4>1. PICK r \in RowsOf(old.slot) :
                dataCall' = [dataCall EXCEPT ![w].looked = TRUE, ![w].found = {r}]
          BY <3>5
        <4>2. {r} \in SUBSET DataRow
          BY <3>2, <4>1
        <4>3. dataCall' = [dataCall EXCEPT ![w] = [old EXCEPT !.looked = TRUE, !.found = {r}]]
          BY <3>4, <4>1
        <4> QED
          BY <4>1, <4>2, <4>3
      <3>6. CASE RowsOf(old.slot) = {} /\ dataCall' = [dataCall EXCEPT ![w].looked = TRUE]
        BY <3>1, <3>6
      <3> QED
        BY <1>6, <3>5, <3>6 DEF LookForRow
    <2>4. PICK found \in SUBSET DataRow :
            /\ \/ found = {} /\ RowsOf(old.slot) = {}
               \/ \E r \in RowsOf(old.slot) : found = {r}
            /\ dataCall' = [dataCall EXCEPT ![w] = [old EXCEPT !.looked = TRUE, !.found = found]]
      BY <2>3
    <2>5. /\ [old EXCEPT !.looked = TRUE, !.found = found] \in Upserts
          /\ [old EXCEPT !.looked = TRUE, !.found = found].slot = old.slot
          /\ [old EXCEPT !.looked = TRUE, !.found = found].column = old.column
          /\ [old EXCEPT !.looked = TRUE, !.found = found].looked = TRUE
          /\ [old EXCEPT !.looked = TRUE, !.found = found].found = found
      BY <2>1 DEF Upserts
    <2>6. PICK call \in Upserts :
            /\ call = [old EXCEPT !.looked = TRUE, !.found = found]
            /\ call.slot = old.slot /\ call.column = old.column /\ call.looked = TRUE /\ call.found = found
      BY <2>5
    <2>7. \A r \in RowsOf(call.slot) : dataRow[r].slot = call.slot
      BY DEF RowsOf
    <2>8. call.slot \notin doubled => call.found = RowsOf(call.slot)
      <3>1. call.slot \notin doubled => \A r, q \in RowsOf(call.slot) : r = q
        BY <2>1, <2>6 DEF DataInv, OneRow
      <3> QED
        BY <2>4, <2>6, <3>1
    <2>9. FoundIsTrue(call)'
      BY <1>2, <2>1, <2>4, <2>6, <2>7, <2>8 DEF FoundIsTrue, RowsOf
    <2>10. dataCall' = [dataCall EXCEPT ![w] = call]
      BY <2>4, <2>6
    <2>11. InItsColumn(call.slot, call.column)
      BY <2>1, <2>6
    <2>12. doubled' \subseteq Slot /\ \A v \in DataClerk \ {w} : dataCall[v].slot = call.slot => call.slot \in doubled'
      BY <1>1, <2>1, <2>6
    <2> HIDE DEF old
    <2> QED
      BY <1>3, <2>9, <2>10, <2>11, <2>12
  <1> QED
    BY <1>4, <1>5, <1>6

\* The row that is written is all of its slot, unless upserts of the slot overlapped.
LEMMA WriteRowStep ==
  ASSUME ProductDataAssumption, DataInv, NEW w \in DataClerk, WriteRow(w)
  PROVE  DataInv'
  <1>0. PICK call : call = dataCall[w]
    OBVIOUS
  <1>1. /\ DataTypeOK /\ dataRow \in [DataRow -> {Empty, Gone} \cup DataRows] /\ lastSet \in [Slot -> Column \cup {"none"}]
        /\ "none" \notin Slot /\ "gone" \notin Slot
    BY DataTypes DEF DataInv, DataTypeOK
  <1>2. /\ call # NoData /\ call.looked /\ call \in Upserts /\ call.slot \in Slot /\ call.column \in Column
        /\ FoundIsTrue(call) /\ InItsColumn(call.slot, call.column)
    <2>1. call # NoData /\ call.looked /\ call \in Upserts /\ call.slot \in Slot
      BY <1>0, <1>1, DataTypes DEF WriteRow
    <2> QED
      BY <1>0, <2>1 DEF DataInv, Upserts
  <1>3. PICK r \in DataRow :
          /\ Target(w, r)
          /\ dataRow' = [dataRow EXCEPT ![r] = [slot |-> call.slot, column |-> call.column]]
    BY <1>0 DEF WriteRow
  <1>4. /\ lastSet' = [lastSet EXCEPT ![call.slot] = call.column] /\ dataCall' = [dataCall EXCEPT ![w] = NoData]
        /\ UNCHANGED <<definition, options, doubled, retyped>>
    BY <1>0 DEF WriteRow
  <1>5. \/ call.found = {} /\ dataRow[r] = Empty
        \/ call.found = {r} /\ dataRow[r].slot = call.slot
    BY <1>0, <1>2, <1>3 DEF Target, FoundIsTrue
  <1>6. PICK row \in DataRows : row = [slot |-> call.slot, column |-> call.column]
    BY <1>2 DEF DataRows
  <1>7. row.slot = call.slot /\ row.column = call.column /\ dataRow[r] # Gone
    BY <1>1, <1>2, <1>5, <1>6 DEF Empty, Gone
  <1>8. \A q \in DataRow : dataRow'[q] = IF q = r THEN row ELSE dataRow[q]
    BY <1>1, <1>3, <1>6
  <1>9. \A v \in DataClerk : dataCall'[v] = IF v = w THEN NoData ELSE dataCall[v]
    BY <1>1, <1>4, OneUpsertChanges
  <1>10. \A s \in Slot : lastSet'[s] = IF s = call.slot THEN call.column ELSE lastSet[s]
    BY <1>1, <1>2, <1>4
  <1>11. DataTypeOK'
    <2>1. dataRow' \in [DataRow -> {Empty, Gone} \cup DataRows]
      BY <1>1, <1>3, <1>6
    <2>2. dataCall' \in [DataClerk -> {NoData} \cup Upserts]
      BY <1>1, <1>4, DataTypes
    <2>3. lastSet' \in [Slot -> Column \cup {"none"}]
      BY <1>1, <1>2, <1>4
    <2> QED
      BY <1>1, <1>4, <2>1, <2>2, <2>3, DataTypesFollow DEF DataTypeOK
  <1>12. \A s, column : InItsColumn(s, column)' <=> InItsColumn(s, column)
    BY <1>4 DEF InItsColumn
  <1>13. \A q \in DataRow : dataRow'[q] \in DataRows => InItsColumn(dataRow'[q].slot, dataRow'[q].column)
    <2>1. \A q \in DataRow : dataRow[q] \in DataRows => InItsColumn(dataRow[q].slot, dataRow[q].column)
      BY DEF DataInv
    <2> QED
      BY <1>2, <1>7, <1>8, <2>1
  <1>14. \A s \in Slot : RowsOf(s)' = IF s = call.slot THEN RowsOf(s) \cup {r} ELSE RowsOf(s)
    <2>1. Empty.slot = "none"
      BY DEF Empty
    <2> QED
      BY <1>1, <1>5, <1>7, <1>8, <2>1 DEF RowsOf
  <1>15. \A s \in Slot : s \notin doubled => OneRow(s)
    BY DEF DataInv
  <1>16. call.slot \notin doubled => RowsOf(call.slot)' = {r}
    <2>1. call.slot \notin doubled => call.found = RowsOf(call.slot)
      BY <1>2 DEF FoundIsTrue
    <2> QED
      BY <1>2, <1>5, <1>14, <2>1
  <1>17. ASSUME NEW s \in Slot \ doubled PROVE OneRow(s)'
    <2>1. CASE s = call.slot
      BY <1>7, <1>8, <1>10, <1>16, <2>1 DEF OneRow
    <2>2. CASE s # call.slot
      <3>1. RowsOf(s)' = RowsOf(s) /\ lastSet'[s] = lastSet[s] /\ OneRow(s)
        BY <1>10, <1>14, <1>15, <2>2
      <3>2. \A q \in RowsOf(s) : q \in DataRow /\ q # r
        BY <1>1, <1>5, <2>2 DEF RowsOf, Empty
      <3> QED
        BY <1>8, <3>1, <3>2 DEF OneRow
    <2> QED
      BY <2>1, <2>2
  <1>18. ASSUME NEW v \in DataClerk, v # w, dataCall[v] # NoData
         PROVE  FoundIsTrue(dataCall[v])' /\ InItsColumn(dataCall[v].slot, dataCall[v].column)
    <2>1. /\ FoundIsTrue(dataCall[v]) /\ InItsColumn(dataCall[v].slot, dataCall[v].column)
          /\ dataCall[v].slot = call.slot => call.slot \in doubled
          /\ dataCall[v] \in Upserts /\ dataCall[v].slot \in Slot
      BY <1>0, <1>1, <1>2, <1>18, DataTypes DEF DataInv
    <2>2. PICK c \in Upserts : c = dataCall[v]
      BY <2>1
    <2>3. FoundIsTrue(c)'
      <3>1. c.found \subseteq DataRow
        BY DEF Upserts
      <3>2. \A q \in c.found : dataRow'[q].slot = c.slot \/ dataRow'[q] = Gone
        <4>1. ASSUME r \in c.found PROVE dataRow[r].slot = c.slot
          BY <1>7, <2>1, <2>2, <4>1 DEF FoundIsTrue
        <4>2. ASSUME r \in c.found PROVE row.slot = c.slot
          BY <1>1, <1>5, <1>7, <2>1, <2>2, <4>1, <4>2 DEF Empty
        <4> QED
          BY <1>8, <2>1, <2>2, <3>1, <4>2 DEF FoundIsTrue
      <3>3. c.looked /\ c.slot \notin doubled => c.found = RowsOf(c.slot)'
        BY <1>14, <2>1, <2>2 DEF FoundIsTrue
      <3> QED
        BY <1>4, <2>1, <2>2, <3>2, <3>3 DEF FoundIsTrue
    <2> QED
      BY <1>9, <1>18, <2>1, <2>2, <2>3
  <1>19. \A v \in DataClerk : dataCall'[v] # NoData =>
           FoundIsTrue(dataCall[v])' /\ InItsColumn(dataCall[v].slot, dataCall[v].column)'
    <2> QED
      BY <1>9, <1>12, <1>18
  <1>20. \A u, v \in DataClerk :
            dataCall'[u] # NoData /\ dataCall'[v] # NoData /\ dataCall'[u].slot = dataCall'[v].slot
              => u = v \/ dataCall'[u].slot \in doubled'
    <2>1. \A u, v \in DataClerk :
            dataCall[u] # NoData /\ dataCall[v] # NoData /\ dataCall[u].slot = dataCall[v].slot
              => u = v \/ dataCall[u].slot \in doubled
      BY DEF DataInv
    <2> QED
      BY <1>4, <1>9, <2>1
  <1> QED
    BY <1>4, <1>11, <1>12, <1>13, <1>17, <1>19, <1>20 DEF DataInv

\* An assignment that goes takes its value along; an upsert under way then overlaps it.
LEMMA RemoveAssignmentStep ==
  ASSUME ProductDataAssumption, DataInv, NEW r \in DataRow, RemoveAssignment(r)
  PROVE  DataInv'
  <1>1. PICK t : t = dataRow[r].slot
    OBVIOUS
  <1>2. /\ t \in Definition /\ dataRow' = [dataRow EXCEPT ![r] = Gone] /\ lastSet' = [lastSet EXCEPT ![t] = "none"]
        /\ doubled' = IF \E w \in DataClerk : dataCall[w].slot = t THEN doubled \cup {t} ELSE doubled
        /\ UNCHANGED <<definition, options, dataCall, retyped>>
    BY <1>1 DEF RemoveAssignment
  <1>3. /\ DataTypeOK /\ dataRow \in [DataRow -> {Empty, Gone} \cup DataRows] /\ lastSet \in [Slot -> Column \cup {"none"}]
        /\ "none" \notin Slot /\ "gone" \notin Slot /\ doubled \subseteq Slot /\ t \in Slot
    BY <1>2, DataTypes DEF DataInv, DataTypeOK, Slot
  <1>4. \A q \in DataRow : dataRow'[q] = IF q = r THEN Gone ELSE dataRow[q]
    BY <1>2, <1>3
  <1>5. \A s \in Slot : lastSet'[s] = IF s = t THEN "none" ELSE lastSet[s]
    BY <1>2, <1>3
  <1>6. DataTypeOK'
    <2>1. dataRow' \in [DataRow -> {Empty, Gone} \cup DataRows]
      BY <1>2, <1>3
    <2>2. dataCall' \in [DataClerk -> {NoData} \cup Upserts]
      BY <1>2, <1>3, DataTypes
    <2>3. lastSet' \in [Slot -> Column \cup {"none"}] /\ doubled' \subseteq Slot
      BY <1>2, <1>3
    <2> QED
      BY <1>2, <1>3, <2>1, <2>2, <2>3, DataTypesFollow DEF DataTypeOK
  <1>7. \A s, column : InItsColumn(s, column)' <=> InItsColumn(s, column)
    BY <1>2 DEF InItsColumn
  <1>8. \A q \in DataRow : dataRow'[q] \in DataRows => InItsColumn(dataRow'[q].slot, dataRow'[q].column)
    <2>1. \A q \in DataRow : dataRow[q] \in DataRows => InItsColumn(dataRow[q].slot, dataRow[q].column)
      BY DEF DataInv
    <2> QED
      BY <1>3, <1>4, <2>1, DataTypes
  <1>9. \A s \in Slot : RowsOf(s)' = RowsOf(s) \ {r}
    <2>1. Gone.slot = "gone"
      BY DEF Gone
    <2> QED
      BY <1>3, <1>4, <2>1 DEF RowsOf
  <1>10. r \in RowsOf(t) /\ \A s \in Slot : s # t => r \notin RowsOf(s)
    BY <1>1 DEF RowsOf
  <1>11. ASSUME NEW s \in Slot \ doubled' PROVE OneRow(s)'
    <2>1. OneRow(s)
      BY <1>2, <1>11 DEF DataInv
    <2>2. CASE s = t
      <3>1. RowsOf(s)' = {}
        BY <1>9, <1>10, <2>1, <2>2 DEF OneRow
      <3> QED
        BY <1>5, <2>2, <3>1 DEF OneRow
    <2>3. CASE s # t
      <3>1. RowsOf(s)' = RowsOf(s) /\ lastSet'[s] = lastSet[s] /\ \A q \in RowsOf(s) : q # r /\ q \in DataRow
        BY <1>5, <1>9, <1>10, <2>3 DEF RowsOf
      <3> QED
        BY <1>4, <2>1, <3>1 DEF OneRow
    <2> QED
      BY <2>2, <2>3
  <1>12. ASSUME NEW v \in DataClerk, dataCall[v] # NoData
         PROVE  FoundIsTrue(dataCall[v])' /\ InItsColumn(dataCall[v].slot, dataCall[v].column)'
    <2>1. PICK c \in Upserts : c = dataCall[v] /\ c.slot \in Slot
      BY <1>3, <1>12, DataTypes
    <2>2. FoundIsTrue(c) /\ InItsColumn(c.slot, c.column)
      BY <1>12, <2>1 DEF DataInv
    <2>3. c.found \subseteq DataRow
      BY DEF Upserts
    <2>4. c.slot = t => c.slot \in doubled'
      BY <1>2, <2>1
    <2>5. c.looked /\ c.slot \notin doubled' => c.found = RowsOf(c.slot)'
      <3>1. c.slot \notin doubled' => c.slot # t /\ c.slot \notin doubled
        BY <1>2, <2>4
      <3>2. c.slot # t => RowsOf(c.slot)' = RowsOf(c.slot)
        BY <1>9, <1>10, <2>1
      <3> QED
        BY <2>2, <3>1, <3>2 DEF FoundIsTrue
    <2>6. \A q \in c.found : dataRow'[q].slot = c.slot \/ dataRow'[q] = Gone
      BY <1>4, <2>2, <2>3 DEF FoundIsTrue
    <2>7. FoundIsTrue(c)'
      BY <2>2, <2>5, <2>6 DEF FoundIsTrue
    <2> QED
      BY <1>2, <1>7, <2>1, <2>2, <2>7
  <1>13. \A u, v \in DataClerk :
            dataCall'[u] # NoData /\ dataCall'[v] # NoData /\ dataCall'[u].slot = dataCall'[v].slot
              => u = v \/ dataCall'[u].slot \in doubled'
    <2>1. \A u, v \in DataClerk :
            dataCall[u] # NoData /\ dataCall[v] # NoData /\ dataCall[u].slot = dataCall[v].slot
              => u = v \/ dataCall[u].slot \in doubled
      BY DEF DataInv
    <2> QED
      BY <1>2, <2>1
  <1> QED
    BY <1>2, <1>6, <1>7, <1>8, <1>11, <1>12, <1>13 DEF DataInv

\* What the invariant says of one slot and of one row.
LEMMA OneRowFollows ==
  ASSUME ProductDataAssumption, DataInv
  PROVE  OneRowPerSlot
  <1>1. DataTypeOK
    BY DEF DataInv
  <1>2. ASSUME NEW s \in Slot \ doubled
        PROVE  /\ Cardinality(RowsOf(s)) <= 1
               /\ Answer(s) = IF lastSet[s] = "none" THEN {} ELSE {lastSet[s]}
    <2>1. OneRow(s)
      BY DEF DataInv
    <2>2. CASE RowsOf(s) = {}
      BY <2>1, <2>2, FS_EmptySet DEF OneRow, Answer
    <2>3. ASSUME NEW r \in RowsOf(s)
          PROVE  /\ Cardinality(RowsOf(s)) <= 1
                 /\ Answer(s) = IF lastSet[s] = "none" THEN {} ELSE {lastSet[s]}
      <3>1. RowsOf(s) = {r} /\ dataRow[r].column = lastSet[s]
        BY <2>1 DEF OneRow
      <3>2. lastSet[s] # "none"
        <4>1. r \in DataRow /\ dataRow[r] \in DataRows
          BY <1>1, DataTypes DEF RowsOf
        <4> QED
          BY <1>1, <3>1, <4>1, DataTypes DEF DataRows
      <3>3. Cardinality(RowsOf(s)) = 1
        BY <3>1, FS_Singleton
      <3>4. Answer(s) = {lastSet[s]}
        BY <3>1 DEF Answer
      <3> QED
        BY <3>2, <3>3, <3>4
    <2> QED
      BY <2>2, <2>3
  <1>3. ASSUME NEW r \in DataRow, dataRow[r].slot \in Definition \ retyped
        PROVE  dataRow[r].column = ColumnOf(definition[dataRow[r].slot])
    <2>1. dataRow[r] \in DataRows
      BY <1>1, <1>3, DataTypes DEF Slot
    <2>2. InItsColumn(dataRow[r].slot, dataRow[r].column)
      BY <2>1 DEF DataInv
    <2> QED
      BY <1>3, <2>2 DEF InItsColumn
  <1> QED
    BY <1>1, <1>2, <1>3 DEF OneRowPerSlot

\* The invariant at the beginning.
LEMMA DataInitSound ==
  ASSUME ProductDataAssumption, DataInit
  PROVE  DataInv
  <1>1. DataTypeOK
    BY DEF DataInit, DataTypeOK
  <1>2. /\ \A s \in Slot : RowsOf(s) = {} /\ lastSet[s] = "none"
        /\ \A r \in DataRow : dataRow[r] \notin DataRows
        /\ \A w \in DataClerk : dataCall[w] = NoData
    <2>1. \A r \in DataRow : dataRow[r] = Empty
      BY DEF DataInit
    <2>2. Empty.slot = "none"
      BY DEF Empty
    <2> QED
      BY <1>1, <2>1, <2>2, DataTypes DEF DataInit, RowsOf
  <1> QED
    BY <1>1, <1>2 DEF DataInv, OneRow

(* Whatever attribute and price upserts, removals and changes of type         *)
(* interleave: a slot whose upserts never overlapped has one row at most, its *)
(* answer is what was set last, and a value is in its definition's column     *)
(* (ProductAttributesService, PricingService).                                *)
THEOREM SlotsHaveOneRow == DataSpec => []OneRowPerSlot
  <1> USE ProductDataAssumption
  <1>1. DataInit => DataInv
    BY DataInitSound
  <1>2. DataInv /\ [DataNext]_dataVars => DataInv'
    <2> SUFFICES ASSUME DataInv, [DataNext]_dataVars PROVE DataInv'
      OBVIOUS
    <2>1. CASE UNCHANGED dataVars
      <3>1. UNCHANGED <<definition, options, dataRow, lastSet, dataCall, doubled, retyped>>
        BY <2>1 DEF dataVars
      <3> QED
        BY <3>1 DEF DataInv, DataTypeOK, OneRow, RowsOf, FoundIsTrue, InItsColumn
    <2>2. CASE DataNext
      BY <2>2, DefinitionSteps, UpsertSteps, WriteRowStep, RemoveAssignmentStep DEF DataNext
    <2> QED
      BY <2>1, <2>2
  <1>3. DataInv => OneRowPerSlot
    BY OneRowFollows
  <1> QED
    BY <1>1, <1>2, <1>3, PTL DEF DataSpec

-----------------------------------------------------------------------------
(* What is kept whatever overlaps: types, and rows that exist.               *)
StepTyped(step) ==
  /\ step.of \in known \cup {Base}
  /\ step.do \in {"activate", "deactivate", "delete", "wake"} => step.of \in known

RowsTyped ==
  /\ product \in [exists : BOOLEAN, active : BOOLEAN, tracked : BOOLEAN]
  /\ live \subseteq known /\ gone \subseteq known /\ known \subseteq Variant
  /\ disturbed \in BOOLEAN
ItemsTyped ==
  /\ items \in Seq(StockItem) /\ Len(items) <= MaxItems
  /\ \A i \in DOMAIN items : items[i].owner \in known \cup {Base}
CallsTyped ==
  /\ adminCall \in [Admin -> Seq(Step)]
  /\ \A w \in Admin : \A i \in DOMAIN adminCall[w] : StepTyped(adminCall[w][i])
LinesTyped ==
  /\ catLine \in [CatalogueLine -> [variant : Owner, item : -1..MaxItems]]
  /\ \A l \in CatalogueLine : catLine[l] # NoLine => catLine[l].item \in {0} \cup DOMAIN items

CatTyped == RowsTyped /\ ItemsTyped /\ CallsTyped /\ LinesTyped

\* Before the product there is nothing.
NothingYet ==
  ~product.exists =>
    /\ ~product.active /\ ~product.tracked
    /\ known = {} /\ items = <<>>
    /\ \A w \in Admin : adminCall[w] = <<>>
    /\ \A l \in CatalogueLine : catLine[l] = NoLine

-----------------------------------------------------------------------------
(* What is kept while calls and orders do not overlap.                       *)
\* Whether an owner has no stock items, one to sell, or none that is active.
NoItems(o) == ItemsOf(o) = {}
ItemsReady(o) == \E i \in ItemsOf(o) : Usable(i)
ItemsAsleep(o) == \A i \in ItemsOf(o) : ~items[i].active

\* An owner that may be ordered.
MayOrder(o) == o \in (live \ gone) \cup {Base}

\* The owners that a call has still to do with.
OwnersOf(call) == {call[i].of : i \in DOMAIN call}

\* An owner that no call is busy with.
Settled(o) ==
  /\ o \notin live \cap gone
  /\ ItemsAsleep(o) \/ MayOrder(o)
  /\ product.tracked /\ product.exists /\ o \in live \cup {Base} => ItemsReady(o)

\* A step that makes sure of a stock item that is tracked.
IsSearch(step) == step.do \in {"find", "create"} /\ step.tracks = TRUE

\* What calls have still to do, and what their past steps have seen to.
Searching(call) ==
  \A i \in DOMAIN call :
    /\ IsSearch(call[i]) /\ (i # 1 => call[i].do = "find")
    /\ MayOrder(call[i].of) /\ (NoItems(call[i].of) \/ ItemsReady(call[i].of))
\* A variant that stops: its stock items are asleep.
Stopping(call) ==
  /\ Len(call) = 1 /\ call[1].do \in {"deactivate", "delete"}
  /\ ItemsAsleep(call[1].of)
\* A variant that starts again: its row first, then its stock items.
Restarting(call) ==
  /\ Len(call) \in {1, 3} /\ call[1].do = "activate" /\ call[1].of \notin gone
  /\ product.tracked => Len(call) = 3
  /\ Len(call) = 3 =>
       /\ call[2].of = call[1].of /\ call[2].do = "find" /\ IsSearch(call[2])
       /\ call[3].of = call[1].of /\ call[3].do = "wake"
\* The row is active again, the stock items are to be found ...
Reviving(call) ==
  /\ Len(call) = 2 /\ IsSearch(call[1]) /\ MayOrder(call[1].of)
  /\ call[2].of = call[1].of /\ call[2].do = "wake"
\* ... and to be woken.
Waking(call) ==
  /\ Len(call) = 1 /\ call[1].do = "wake"
  /\ MayOrder(call[1].of) /\ ~NoItems(call[1].of)

\* One of these is what a call has still to do.
CallFits(call) ==
  Searching(call) \/ Stopping(call) \/ Restarting(call) \/ Reviving(call) \/ Waking(call)

\* Order lines of a tracked product have a stock item of their own variant.
LinesAreTheirs ==
  product.tracked => \A l \in CatalogueLine :
    catLine[l] # NoLine => catLine[l].item > 0 /\ items[catLine[l].item].owner = catLine[l].variant

\* A step of one owner's call meets nobody else's.
CallsApart ==
  \A w, v \in Admin : w # v => OwnersOf(adminCall[w]) \cap OwnersOf(adminCall[v]) = {}

\* All that holds while nothing has been disturbed.
Undisturbed ==
  /\ \A i \in DOMAIN items : items[i].tracks
  /\ CallsApart
  /\ \A w \in Admin : CallFits(adminCall[w])
  /\ \A o \in Owner : (\A w \in Admin : o \notin OwnersOf(adminCall[w])) => Settled(o)
  /\ LinesAreTheirs

\* The inductive invariant.
CatInv == CatTyped /\ NothingYet /\ (~disturbed => Undisturbed)

\* Nobody is busy with an owner.
LEMMA BusyMeans ==
  ASSUME NEW S
  PROVE  Busy(S) <=> \E w \in Admin : OwnersOf(adminCall[w]) \cap S # {}
BY DEF Busy, OwnersOf

\* The invariant is what is claimed, and more.
LEMMA CatInvFollows ==
  ASSUME CatalogueAssumption, CatInv PROVE LineKeepsIdentity
<1>1. CatalogueTypeOK
  BY DEF CatInv, CatTyped, RowsTyped, ItemsTyped, CallsTyped, LinesTyped, CatalogueTypeOK
<1>2. ASSUME ~disturbed, NEW i \in DOMAIN items, items[i].active, ~Busy({items[i].owner})
      PROVE  items[i].owner \in (live \ gone) \cup {Base}
  <2>1. PICK o : o = items[i].owner
    OBVIOUS
  <2>2. o \in Owner
    <3>1. items[i] \in StockItem
      BY <1>1, <1>2 DEF CatalogueTypeOK
    <3> QED
      BY <2>1, <3>1 DEF StockItem
  <2>3. \A w \in Admin : o \notin OwnersOf(adminCall[w])
    BY <1>2, <2>1, BusyMeans
  <2>4. Settled(o)
    BY <1>2, <2>2, <2>3 DEF CatInv, Undisturbed
  <2> QED
    BY <1>2, <2>1, <2>4 DEF Settled, ItemsAsleep, ItemsOf, MayOrder
<1> QED
  BY <1>1, <1>2 DEF LineKeepsIdentity, CatInv, Undisturbed, LinesAreTheirs

\* It holds before anything happens.
LEMMA CatInvAtFirst ==
  ASSUME CatalogueAssumption, CatalogueInit PROVE CatInv
<1>1. /\ known = {} /\ live = {} /\ gone = {} /\ items = <<>>
      /\ product = [exists |-> FALSE, active |-> FALSE, tracked |-> FALSE]
      /\ \A w \in Admin : adminCall[w] = <<>>
      /\ \A l \in CatalogueLine : catLine[l] = NoLine
  BY DEF CatalogueInit
<1>2. RowsTyped
  <2>1. product \in [exists : BOOLEAN, active : BOOLEAN, tracked : BOOLEAN]
    BY <1>1
  <2>2. disturbed \in BOOLEAN
    BY DEF CatalogueInit
  <2> QED
    BY <1>1, <2>1, <2>2 DEF RowsTyped
<1>3. DOMAIN items = {} /\ \A w \in Admin : DOMAIN adminCall[w] = {}
  BY <1>1
<1>4. CatTyped
  <2>1. NoLine \in [variant : Owner, item : -1..MaxItems]
    BY DEF NoLine, Owner, CatalogueAssumption
  <2>2. LinesTyped
    BY <1>1, <2>1 DEF CatalogueInit, LinesTyped
  <2>3. CallsTyped
    BY <1>3 DEF CatalogueInit, CallsTyped
  <2>4. ItemsTyped
    BY <1>1, <1>3 DEF ItemsTyped, CatalogueAssumption
  <2> QED
    BY <1>2, <2>2, <2>3, <2>4 DEF CatTyped
<1>5. NothingYet
  BY <1>1 DEF NothingYet
<1>6. Undisturbed
  <2>1. \A w \in Admin : OwnersOf(adminCall[w]) = {}
    BY <1>3 DEF OwnersOf
  <2>2. \A w \in Admin : CallFits(adminCall[w])
    BY <1>3 DEF CallFits, Searching
  <2>3. \A o \in Owner : Settled(o)
    BY <1>1, <1>3 DEF Settled, ItemsAsleep, ItemsOf
  <2> QED
    BY <1>1, <1>3, <2>1, <2>2, <2>3 DEF Undisturbed, CallsApart, LinesAreTheirs
<1> QED
  BY <1>4, <1>5, <1>6 DEF CatInv

-----------------------------------------------------------------------------
(* One call changes, and rows of some owners.                                *)

\* The rows of an owner stay what they were.
Untouched(o) ==
  /\ (o \in live' <=> o \in live) /\ (o \in gone' <=> o \in gone)
  /\ NoItems(o)' <=> NoItems(o)
  /\ ItemsReady(o)' <=> ItemsReady(o)
  /\ ItemsAsleep(o)' <=> ItemsAsleep(o)

\* What calls have still to do stays right while the rows of their owners stay.
LEMMA CallStaysFit ==
  ASSUME NEW call \in Seq(Step), \A o \in OwnersOf(call) : Untouched(o), CallFits(call),
         product'.tracked = product.tracked \/ call = <<>>
  PROVE  CallFits(call)'
<1>1. \A i \in DOMAIN call : Untouched(call[i].of)
  BY DEF OwnersOf
<1>2. \A i \in DOMAIN call : MayOrder(call[i].of)' <=> MayOrder(call[i].of)
  BY <1>1 DEF MayOrder, Untouched
<1>3. Searching(call) => Searching(call)'
  BY <1>1, <1>2 DEF Searching, Untouched
<1>4. Stopping(call) => Stopping(call)'
  BY <1>1 DEF Stopping, Untouched
<1>5. Restarting(call) => Restarting(call)'
  BY <1>1 DEF Restarting, Untouched
<1>6. Reviving(call) => Reviving(call)'
  BY <1>1, <1>2 DEF Reviving, Untouched
<1>7. Waking(call) => Waking(call)'
  BY <1>1, <1>2 DEF Waking, Untouched
<1> QED
  BY <1>3, <1>4, <1>5, <1>6, <1>7 DEF CallFits

\* X: the owners whose rows change, or that the call is done with.
LEMMA OneCallChanges ==
  ASSUME CatTyped, Undisturbed,
         NEW w \in Admin, NEW new, adminCall' = [adminCall EXCEPT ![w] = new],
         NEW X \in SUBSET Owner,
         \A o \in Owner \ X : Untouched(o),
         OwnersOf(adminCall[w]) \subseteq OwnersOf(new) \cup X,
         \A v \in Admin \ {w} : OwnersOf(adminCall[v]) \cap (X \cup OwnersOf(new)) = {},
         \A v \in Admin \ {w} : product'.tracked = product.tracked \/ adminCall[v] = <<>>,
         X = Owner \/ (product'.tracked = product.tracked /\ product'.exists = product.exists),
         CallFits(new)',
         \A o \in X : o \notin OwnersOf(new) => Settled(o)',
         \A i \in DOMAIN items' : items'[i].tracks,
         LinesAreTheirs'
  PROVE  Undisturbed'
<1>1. /\ adminCall'[w] = new
      /\ \A v \in Admin \ {w} : adminCall'[v] = adminCall[v]
  BY DEF CatTyped, CallsTyped
<1>2. \A v \in Admin : adminCall[v] \in Seq(Step)
  BY DEF CatTyped, CallsTyped
<1>3. CallsApart'
  <2>1. ASSUME NEW v \in Admin, NEW u \in Admin, v # u
        PROVE  OwnersOf(adminCall'[v]) \cap OwnersOf(adminCall'[u]) = {}
    BY <1>1, <2>1 DEF Undisturbed, CallsApart
  <2>2. \A v \in Admin : OwnersOf(adminCall[v])' = OwnersOf(adminCall'[v])
    BY DEF OwnersOf
  <2> QED
    BY <2>1, <2>2 DEF CallsApart
<1>4. ASSUME NEW v \in Admin PROVE CallFits(adminCall[v])'
  <2>1. CASE v = w
    BY <1>1, <2>1
  <2>2. CASE v # w
    <3>1. PICK call : call = adminCall[v]
      OBVIOUS
    <3>2. call \in Seq(Step) /\ CallFits(call) /\ OwnersOf(call) \subseteq Owner \ X
      <4>1. OwnersOf(call) \subseteq Owner
        <5>1. \A i \in DOMAIN call : call[i] \in Step
          BY <1>2, <3>1
        <5>2. \A i \in DOMAIN call : call[i].of \in Owner
          BY <5>1 DEF Step
        <5> QED
          BY <5>2 DEF OwnersOf
      <4> QED
        BY <1>2, <2>2, <3>1, <4>1 DEF Undisturbed
    <3>3. CallFits(call)'
      BY <2>2, <3>1, <3>2, CallStaysFit
    <3> QED
      BY <1>1, <2>2, <3>1, <3>3
  <2> QED
    BY <2>1, <2>2
<1>5. ASSUME NEW o \in Owner, \A v \in Admin : o \notin OwnersOf(adminCall'[v]) PROVE Settled(o)'
  <2>1. o \notin OwnersOf(new)
    BY <1>1, <1>5
  <2>2. CASE o \notin X
    <3>1. \A v \in Admin : o \notin OwnersOf(adminCall[v])
      BY <1>1, <1>5, <2>1, <2>2
    <3>2. Settled(o) /\ Untouched(o)
      BY <2>2, <3>1 DEF Undisturbed
    <3>3. product'.tracked = product.tracked /\ product'.exists = product.exists
      BY <2>2
    <3> QED
      BY <3>2, <3>3 DEF Settled, Untouched, MayOrder
  <2> QED
    BY <2>1, <2>2
<1>6. \A o \in Owner : (\A v \in Admin : o \notin OwnersOf(adminCall'[v])) => Settled(o)'
  BY <1>5
<1>7. \A v \in Admin : OwnersOf(adminCall[v])' = OwnersOf(adminCall'[v])
  BY DEF OwnersOf
<1> QED
  BY <1>3, <1>4, <1>6, <1>7 DEF Undisturbed

\* The order lines keep their stock items.
LEMMA LinesStay ==
  ASSUME CatTyped, catLine' = catLine, DOMAIN items \subseteq DOMAIN items',
         \A i \in DOMAIN items : items'[i].owner = items[i].owner
  PROVE  /\ LinesTyped'
         /\ product'.tracked = product.tracked /\ LinesAreTheirs => LinesAreTheirs'
<1>1. LinesTyped'
  BY DEF CatTyped, LinesTyped, NoLine
<1>2. ASSUME product'.tracked = product.tracked, LinesAreTheirs PROVE LinesAreTheirs'
  <2>1. ASSUME NEW l \in CatalogueLine, catLine[l] # NoLine, product.tracked
        PROVE  catLine[l].item > 0 /\ items'[catLine[l].item].owner = catLine[l].variant
    <3>1. /\ catLine[l].item > 0 /\ items[catLine[l].item].owner = catLine[l].variant
          /\ catLine[l].item \in {0} \cup DOMAIN items
      BY <1>2, <2>1 DEF LinesAreTheirs, CatTyped, LinesTyped
    <3>2. catLine[l].item \in DOMAIN items
      BY <3>1
    <3> QED
      BY <3>1, <3>2
  <2> QED
    BY <1>2, <2>1 DEF LinesAreTheirs, NoLine
<1> QED
  BY <1>1, <1>2

\* A step of the call of w on the rows of X.
LEMMA CallStep ==
  ASSUME CatInv, product.exists, UNCHANGED <<product, catLine>>, RowsTyped', ItemsTyped',
         known \subseteq known',
         NEW w \in Admin, NEW new \in Seq(Step), adminCall' = [adminCall EXCEPT ![w] = new],
         \A i \in DOMAIN new : StepTyped(new[i])',
         DOMAIN items \subseteq DOMAIN items',
         \A i \in DOMAIN items : items'[i].owner = items[i].owner,
         NEW X \in SUBSET Owner,
         ~disturbed' =>
           /\ ~disturbed
           /\ \A o \in Owner \ X : Untouched(o)
           /\ OwnersOf(adminCall[w]) \subseteq OwnersOf(new) \cup X
           /\ \A v \in Admin \ {w} : OwnersOf(adminCall[v]) \cap (X \cup OwnersOf(new)) = {}
           /\ CallFits(new)'
           /\ \A o \in X : o \notin OwnersOf(new) => Settled(o)'
           /\ \A i \in DOMAIN items' : items'[i].tracks
  PROVE  CatInv'
<1>1. CatTyped
  BY DEF CatInv
<1>2. LinesTyped'
  BY <1>1, LinesStay
<1>3. CallsTyped'
  <2>1. adminCall' \in [Admin -> Seq(Step)]
    BY <1>1 DEF CatTyped, CallsTyped
  <2>2. ASSUME NEW v \in Admin, NEW i \in DOMAIN adminCall'[v] PROVE StepTyped(adminCall[v][i])'
    <3>1. CASE v = w
      BY <1>1, <2>2, <3>1 DEF CatTyped, CallsTyped, StepTyped
    <3>2. CASE v # w
      <4>1. adminCall'[v] = adminCall[v]
        BY <1>1, <3>2 DEF CatTyped, CallsTyped
      <4>2. StepTyped(adminCall[v][i])
        BY <1>1, <2>2, <4>1 DEF CatTyped, CallsTyped
      <4> QED
        BY <4>1, <4>2 DEF StepTyped
    <3> QED
      BY <3>1, <3>2
  <2> QED
    BY <2>1, <2>2 DEF CallsTyped
<1>4. NothingYet'
  BY DEF NothingYet
<1>5. ASSUME ~disturbed' PROVE Undisturbed'
  <2>1. Undisturbed
    BY <1>5 DEF CatInv
  <2>2. LinesAreTheirs'
    BY <1>1, <2>1, LinesStay DEF Undisturbed
  <2> QED
    BY <1>1, <1>5, <2>1, <2>2, OneCallChanges
<1> QED
  BY <1>2, <1>3, <1>4, <1>5 DEF CatInv, CatTyped

-----------------------------------------------------------------------------
(* Stock items.                                                              *)

\* One owner's stock items are switched on or off.
LEMMA SwitchedItems ==
  ASSUME ItemsTyped, NEW v, NEW on \in BOOLEAN, items' = Switched(v, on), known' = known
  PROVE  /\ ItemsTyped' /\ DOMAIN items' = DOMAIN items
         /\ \A i \in DOMAIN items :
              items'[i].owner = items[i].owner /\ items'[i].tracks = items[i].tracks
         /\ \A o : ItemsOf(o)' = ItemsOf(o)
         /\ \A o : o # v => \A i \in ItemsOf(o) : items'[i] = items[i]
         /\ \A i \in ItemsOf(v) : items'[i].active = on
<1>1. items \in Seq(StockItem) /\ \A i \in DOMAIN items : items[i] \in StockItem
  BY DEF ItemsTyped
<1>2. \A i \in DOMAIN items :
        items'[i] = IF items[i].owner = v THEN [items[i] EXCEPT !.active = on] ELSE items[i]
  BY DEF Switched
<1>3. \A i \in DOMAIN items : [items[i] EXCEPT !.active = on] \in StockItem
  BY <1>1 DEF StockItem
<1>4. items' \in Seq(StockItem) /\ Len(items') = Len(items) /\ DOMAIN items' = DOMAIN items
  <2>1. DOMAIN items = 1..Len(items) /\ Len(items) \in Nat
    BY <1>1
  <2>2. items' \in [1..Len(items) -> StockItem]
    BY <1>1, <1>2, <1>3, <2>1 DEF Switched
  <2> QED
    BY <2>1, <2>2
<1>5. \A i \in DOMAIN items :
        items'[i].owner = items[i].owner /\ items'[i].tracks = items[i].tracks
  BY <1>1, <1>2 DEF StockItem
<1>6. ItemsTyped'
  BY <1>4, <1>5 DEF ItemsTyped
<1>7. \A o : ItemsOf(o)' = ItemsOf(o)
  BY <1>4, <1>5 DEF ItemsOf
<1>8. \A o : o # v => \A i \in ItemsOf(o) : items'[i] = items[i]
  BY <1>2 DEF ItemsOf
<1>9. \A i \in ItemsOf(v) : items'[i].active = on
  BY <1>1, <1>2 DEF ItemsOf, StockItem
<1> QED
  BY <1>4, <1>5, <1>6, <1>7, <1>8, <1>9

\* A stock item is created.
LEMMA AppendedItem ==
  ASSUME ItemsTyped, NEW x \in known \cup {Base}, NEW tracks \in BOOLEAN, Len(items) < MaxItems,
         RowsTyped, CatalogueAssumption,
         items' = Append(items, [owner |-> x, active |-> TRUE, tracks |-> tracks]), known' = known
  PROVE  /\ ItemsTyped' /\ DOMAIN items' = DOMAIN items \cup {Len(items) + 1}
         /\ \A i \in DOMAIN items : items'[i] = items[i]
         /\ items'[Len(items) + 1] = [owner |-> x, active |-> TRUE, tracks |-> tracks]
         /\ \A o : o # x => ItemsOf(o)' = ItemsOf(o)
         /\ Len(items) + 1 \in ItemsOf(x)'
<1>1. PICK item : item = [owner |-> x, active |-> TRUE, tracks |-> tracks]
  OBVIOUS
<1>2. item \in StockItem
  BY <1>1 DEF StockItem, Owner, RowsTyped
<1>3. items \in Seq(StockItem) /\ Len(items) \in Nat /\ DOMAIN items = 1..Len(items)
  BY DEF ItemsTyped
<1>4. /\ items' \in Seq(StockItem) /\ Len(items') = Len(items) + 1
      /\ \A i \in 1..Len(items) : items'[i] = items[i]
      /\ items'[Len(items) + 1] = item
  BY <1>1, <1>2, <1>3, AppendProperties
<1>5. DOMAIN items' = 1..(Len(items) + 1)
  BY <1>4
<1>6. DOMAIN items' = DOMAIN items \cup {Len(items) + 1}
  BY <1>3, <1>5
<1>7. item.owner = x
  BY <1>1
<1>8. ItemsTyped'
  <2>1. Len(items') <= MaxItems
    BY <1>3, <1>4 DEF CatalogueAssumption
  <2>2. \A i \in DOMAIN items' : items'[i].owner \in known' \cup {Base}
    BY <1>3, <1>4, <1>6, <1>7 DEF ItemsTyped
  <2> QED
    BY <1>4, <2>1, <2>2 DEF ItemsTyped
<1>9. \A o : o # x => ItemsOf(o)' = ItemsOf(o)
  BY <1>3, <1>4, <1>6, <1>7 DEF ItemsOf
<1>10. Len(items) + 1 \in ItemsOf(x)'
  BY <1>4, <1>6, <1>7 DEF ItemsOf
<1> QED
  BY <1>1, <1>3, <1>4, <1>6, <1>8, <1>9, <1>10

\* Owners whose variant row and stock items stay are untouched.
LEMMA ItemsUntouched ==
  ASSUME NEW o, o \in live' <=> o \in live, o \in gone' <=> o \in gone,
         ItemsOf(o)' = ItemsOf(o), \A i \in ItemsOf(o) : items'[i] = items[i]
  PROVE  Untouched(o)
<1>1. NoItems(o)' <=> NoItems(o)
  BY DEF NoItems
<1>2. ItemsReady(o)' <=> ItemsReady(o)
  <2>1. ItemsReady(o)' <=> \E i \in ItemsOf(o)' : items'[i].active /\ items'[i].tracks
    BY DEF ItemsReady, Usable
  <2>2. ItemsReady(o) <=> \E i \in ItemsOf(o) : items[i].active /\ items[i].tracks
    BY DEF ItemsReady, Usable
  <2> QED
    BY <2>1, <2>2
<1>3. ItemsAsleep(o)' <=> ItemsAsleep(o)
  <2>1. ItemsAsleep(o)' <=> \A i \in ItemsOf(o)' : ~items'[i].active
    BY DEF ItemsAsleep
  <2>2. ItemsAsleep(o) <=> \A i \in ItemsOf(o) : ~items[i].active
    BY DEF ItemsAsleep
  <2> QED
    BY <2>1, <2>2
<1> QED
  BY <1>1, <1>2, <1>3 DEF Untouched

-----------------------------------------------------------------------------
(* What a step of a call leaves to do.                                       *)

\* The step a call is at, and those it has left.
LEMMA HeadAndTail ==
  ASSUME NEW call \in Seq(Step), call # <<>>
  PROVE  /\ Head(call) = call[1] /\ call[1] \in Step /\ 1 \in DOMAIN call
         /\ Tail(call) \in Seq(Step) /\ Len(Tail(call)) = Len(call) - 1
         /\ Len(call) \in Nat /\ DOMAIN call = 1..Len(call)
         /\ \A i \in DOMAIN Tail(call) :
              i \in Nat \ {0} /\ i + 1 \in DOMAIN call /\ Tail(call)[i] = call[i + 1]
         /\ OwnersOf(Tail(call)) \subseteq OwnersOf(call)
         /\ OwnersOf(call) \subseteq OwnersOf(Tail(call)) \cup {call[1].of}
         /\ call[1].of \in OwnersOf(call)
<1>1. /\ Tail(call) \in Seq(Step) /\ Len(Tail(call)) = Len(call) - 1
      /\ \A i \in 1..Len(Tail(call)) : Tail(call)[i] = call[i + 1]
  BY HeadTailProperties
<1>2. Len(call) \in Nat /\ Len(call) # 0 /\ DOMAIN call = 1..Len(call)
  BY EmptySeq
<1>3. 1 \in DOMAIN call /\ call[1] \in Step /\ Head(call) = call[1]
  BY <1>2
<1>4. DOMAIN Tail(call) = 1..(Len(call) - 1)
  BY <1>1, <1>2
<1>5. \A i \in DOMAIN Tail(call) :
        i \in Nat \ {0} /\ i + 1 \in DOMAIN call /\ Tail(call)[i] = call[i + 1]
  BY <1>1, <1>2, <1>4
<1>6. OwnersOf(Tail(call)) \subseteq OwnersOf(call)
  BY <1>5 DEF OwnersOf
<1>7. OwnersOf(call) \subseteq OwnersOf(Tail(call)) \cup {call[1].of}
  <2>1. ASSUME NEW i \in DOMAIN call, i # 1
        PROVE  i - 1 \in DOMAIN Tail(call) /\ Tail(call)[i - 1] = call[i]
    <3>1. i - 1 \in DOMAIN Tail(call) /\ (i - 1) + 1 = i
      BY <1>2, <1>4, <2>1
    <3> QED
      BY <1>5, <3>1
  <2> QED
    BY <2>1 DEF OwnersOf
<1> QED
  BY <1>1, <1>2, <1>3, <1>5, <1>6, <1>7 DEF OwnersOf

\* A call of w is at its step, and steps on.
LEMMA AtItsStep ==
  ASSUME CatInv, NEW w \in Admin, adminCall[w] # <<>>
  PROVE  /\ product.exists /\ adminCall[w] \in Seq(Step)
         /\ StepTyped(adminCall[w][1])
         /\ \A v \in Admin \ {w} :
              ~disturbed => OwnersOf(adminCall[v]) \cap OwnersOf(adminCall[w]) = {}
         /\ ~disturbed => CallFits(adminCall[w])
<1>1. product.exists
  BY DEF CatInv, NothingYet
<1>2. adminCall[w] \in Seq(Step)
  BY DEF CatInv, CatTyped, CallsTyped
<1>3. StepTyped(adminCall[w][1])
  BY <1>2, HeadAndTail DEF CatInv, CatTyped, CallsTyped
<1> QED
  BY <1>1, <1>2, <1>3 DEF CatInv, Undisturbed, CallsApart

\* The call of w steps on; its step changed rows of x only.
LEMMA StepDone ==
  ASSUME CatInv, UNCHANGED <<product, catLine, known, disturbed>>, RowsTyped', ItemsTyped',
         NEW w \in Admin, adminCall[w] # <<>>, Proceed(w),
         NEW x, x = adminCall[w][1].of, NEW new, new = Tail(adminCall[w]),
         DOMAIN items \subseteq DOMAIN items',
         \A i \in DOMAIN items : items'[i].owner = items[i].owner,
         ~disturbed =>
           /\ \A o \in Owner \ {x} : Untouched(o)
           /\ CallFits(new)'
           /\ x \notin OwnersOf(new) => Settled(x)'
           /\ \A i \in DOMAIN items' : items'[i].tracks
  PROVE  CatInv'
<1>1. /\ product.exists /\ adminCall[w] \in Seq(Step) /\ StepTyped(adminCall[w][1])
      /\ \A v \in Admin \ {w} :
           ~disturbed => OwnersOf(adminCall[v]) \cap OwnersOf(adminCall[w]) = {}
  BY AtItsStep
<1>3. /\ new \in Seq(Step)
      /\ \A i \in DOMAIN new : i + 1 \in DOMAIN adminCall[w] /\ new[i] = adminCall[w][i + 1]
      /\ OwnersOf(new) \subseteq OwnersOf(adminCall[w])
      /\ OwnersOf(adminCall[w]) \subseteq OwnersOf(new) \cup {x}
      /\ x \in OwnersOf(adminCall[w])
  BY <1>1, HeadAndTail
<1>4. \A i \in DOMAIN new : StepTyped(new[i])'
  <2>1. \A i \in DOMAIN new : StepTyped(new[i])
    BY <1>3 DEF CatInv, CatTyped, CallsTyped
  <2> QED
    BY <2>1 DEF StepTyped
<1>5. adminCall' = [adminCall EXCEPT ![w] = new]
  BY DEF Proceed
<1>6. {x} \in SUBSET Owner
  <2>1. adminCall[w][1] \in Step
    BY <1>1, HeadAndTail
  <2> QED
    BY <2>1 DEF Step
<1>7. PICK X \in SUBSET Owner : X = {x}
  BY <1>6
<1>8. ASSUME ~disturbed
      PROVE  /\ \A o \in Owner \ X : Untouched(o)
             /\ OwnersOf(adminCall[w]) \subseteq OwnersOf(new) \cup X
             /\ \A v \in Admin \ {w} : OwnersOf(adminCall[v]) \cap (X \cup OwnersOf(new)) = {}
             /\ CallFits(new)'
             /\ \A o \in X : o \notin OwnersOf(new) => Settled(o)'
             /\ \A i \in DOMAIN items' : items'[i].tracks
  <2>1. \A v \in Admin \ {w} : OwnersOf(adminCall[v]) \cap (X \cup OwnersOf(new)) = {}
    BY <1>1, <1>3, <1>7, <1>8
  <2> QED
    BY <1>3, <1>7, <1>8, <2>1
<1> QED
  BY <1>1, <1>3, <1>4, <1>5, <1>8, CallStep

\* Nothing is left to do.
LEMMA DoneFits ==
  ASSUME NEW call \in Seq(Step), Len(call) = 0
  PROVE  CallFits(call)' /\ OwnersOf(call) = {}
<1>1. DOMAIN call = {}
  OBVIOUS
<1> QED
  BY <1>1 DEF CallFits, Searching, OwnersOf

\* What is left to do is one step, or none.
LEMMA LeftToDo ==
  ASSUME NEW call \in Seq(Step), call # <<>>, NEW new, new = Tail(call)
  PROVE  /\ new \in Seq(Step) /\ OwnersOf(new) \subseteq OwnersOf(call)
         /\ Len(call) = 1 => Len(new) = 0
         /\ Len(call) = 2 => Len(new) = 1 /\ new[1] = call[2] /\ OwnersOf(new) = {call[2].of}
         /\ Len(call) = 3 => /\ Len(new) = 2 /\ new[1] = call[2] /\ new[2] = call[3]
                             /\ OwnersOf(new) = {call[2].of, call[3].of}
<1>1. /\ new \in Seq(Step) /\ Len(new) = Len(call) - 1 /\ Len(call) \in Nat
      /\ \A i \in DOMAIN new : new[i] = call[i + 1]
      /\ OwnersOf(new) \subseteq OwnersOf(call)
  BY HeadAndTail
<1>2. DOMAIN new = 1..(Len(call) - 1)
  BY <1>1
<1>3. ASSUME Len(call) = 2
      PROVE  Len(new) = 1 /\ new[1] = call[2] /\ OwnersOf(new) = {call[2].of}
  <2>1. DOMAIN new = {1}
    BY <1>2, <1>3
  <2>2. new[1] = call[2]
    BY <1>1, <2>1
  <2> QED
    BY <1>1, <1>3, <2>1, <2>2 DEF OwnersOf
<1>4. ASSUME Len(call) = 3
      PROVE  /\ Len(new) = 2 /\ new[1] = call[2] /\ new[2] = call[3]
             /\ OwnersOf(new) = {call[2].of, call[3].of}
  <2>1. DOMAIN new = {1, 2}
    BY <1>2, <1>4
  <2>2. new[1] = call[2] /\ new[2] = call[3]
    BY <1>1, <2>1
  <2> QED
    BY <1>1, <1>4, <2>1, <2>2 DEF OwnersOf
<1> QED
  BY <1>1, <1>3, <1>4

\* The row of the variant is written.
LEMMA UpdateVariantRowKeeps ==
  ASSUME CatalogueAssumption, CatInv, NEW w \in Admin, UpdateVariantRow(w)
  PROVE  CatInv'
<1>1. PICK call : call = adminCall[w]
  OBVIOUS
<1>2. call # <<>> /\ call[1].do \in {"activate", "deactivate", "delete"}
  BY <1>1, AtItsStep, HeadAndTail DEF UpdateVariantRow, At
<1>3. /\ call \in Seq(Step) /\ product.exists /\ StepTyped(call[1])
      /\ ~disturbed => CallFits(call)
  BY <1>1, <1>2, AtItsStep
<1>4. PICK x : x = call[1].of
  OBVIOUS
<1>5. x \in known /\ x \in Variant /\ x # Base /\ x \in OwnersOf(call) /\ call[1] \in Step
  BY <1>2, <1>3, <1>4, HeadAndTail DEF StepTyped, CatInv, CatTyped, RowsTyped, CatalogueAssumption
<1>6. PICK new : new = Tail(call)
  OBVIOUS
<1>7. /\ live' = IF call[1].do = "activate" THEN live \cup {x} ELSE live \ {x}
      /\ gone' = IF call[1].do = "delete" THEN gone \cup {x} ELSE gone
      /\ Proceed(w) /\ UNCHANGED <<product, known, items, catLine, disturbed>>
  <2>1. Head(call) = call[1]
    BY <1>2, <1>3, HeadAndTail
  <2> QED
    BY <1>1, <1>2, <1>4, <2>1 DEF UpdateVariantRow, At
<1>8. RowsTyped'
  <2>1. live' \subseteq known /\ gone' \subseteq known
    BY <1>5, <1>7 DEF CatInv, CatTyped, RowsTyped
  <2> QED
    BY <1>7, <2>1 DEF CatInv, CatTyped, RowsTyped
<1>9. ItemsTyped'
  BY <1>7 DEF CatInv, CatTyped, ItemsTyped
<1>10. \A o : ItemsOf(o)' = ItemsOf(o)
  BY <1>7 DEF ItemsOf
<1>11. \A o \in Owner \ {x} : Untouched(o)
  <2>1. ASSUME NEW o \in Owner, o # x PROVE Untouched(o)
    <3>1. (o \in live' <=> o \in live) /\ (o \in gone' <=> o \in gone)
      BY <1>7, <2>1
    <3>2. \A i \in ItemsOf(o) : items'[i] = items[i]
      BY <1>7
    <3> QED
      BY <1>10, <3>1, <3>2, ItemsUntouched
  <2> QED
    BY <2>1
<1>12. ASSUME ~disturbed
       PROVE  /\ CallFits(new)'
              /\ x \notin OwnersOf(new) => Settled(x)'
              /\ \A i \in DOMAIN items' : items'[i].tracks
  <2>1. \A i \in DOMAIN items' : items'[i].tracks
    BY <1>7, <1>12 DEF CatInv, Undisturbed
  <2>2. Stopping(call) \/ Restarting(call)
    <3>1. CallFits(call) /\ 1 \in DOMAIN call
      BY <1>2, <1>3, <1>12, HeadAndTail
    <3> QED
      BY <1>2, <3>1 DEF CallFits, Searching, Reviving, Waking, IsSearch
  <2>3. CASE Stopping(call)
    <3>1. Len(call) = 1 /\ call[1].do # "activate" /\ ItemsAsleep(x)
      BY <1>4, <2>3 DEF Stopping
    <3>2. Len(new) = 0 /\ new \in Seq(Step)
      BY <1>2, <1>3, <1>6, <3>1, LeftToDo
    <3>3. ItemsAsleep(x)'
      BY <1>7, <1>10, <3>1 DEF ItemsAsleep
    <3>4. x \notin live'
      BY <1>7, <3>1
    <3>5. Settled(x)'
      BY <1>5, <3>3, <3>4 DEF Settled
    <3> QED
      BY <2>1, <3>2, <3>5, DoneFits
  <2>4. CASE Restarting(call)
    <3>1. call[1].do = "activate" /\ x \notin gone
      BY <1>4, <2>4 DEF Restarting
    <3>2. x \in live' /\ x \notin gone'
      BY <1>7, <3>1
    <3>3. CASE Len(call) = 3
      <4>1. /\ call[2].of = x /\ IsSearch(call[2]) /\ call[3].of = x /\ call[3].do = "wake"
        BY <1>4, <2>4, <3>3 DEF Restarting
      <4>2. /\ Len(new) = 2 /\ new[1] = call[2] /\ new[2] = call[3] /\ x \in OwnersOf(new)
        BY <1>2, <1>3, <1>6, <3>3, <4>1, LeftToDo
      <4>3. Reviving(new)'
        BY <3>2, <4>1, <4>2 DEF Reviving, MayOrder
      <4> QED
        BY <2>1, <4>2, <4>3 DEF CallFits
    <3>4. CASE Len(call) = 1
      <4>1. ~product.tracked
        BY <2>4, <3>4 DEF Restarting
      <4>2. Len(new) = 0 /\ new \in Seq(Step)
        BY <1>2, <1>3, <1>6, <3>4, LeftToDo
      <4>3. Settled(x)'
        BY <1>7, <3>2, <4>1 DEF Settled, MayOrder
      <4> QED
        BY <2>1, <4>2, <4>3, DoneFits
    <3> QED
      BY <2>4, <3>3, <3>4 DEF Restarting
  <2> QED
    BY <2>2, <2>3, <2>4
<1> QED
  BY <1>1, <1>2, <1>4, <1>6, <1>7, <1>8, <1>9, <1>11, <1>12, StepDone

\* Stock items are switched on again.
LEMMA WakeItemsKeeps ==
  ASSUME CatalogueAssumption, CatInv, NEW w \in Admin, WakeItems(w)
  PROVE  CatInv'
<1>1. PICK call : call = adminCall[w]
  OBVIOUS
<1>2. call # <<>> /\ call[1].do = "wake"
  BY <1>1, AtItsStep, HeadAndTail DEF WakeItems, At
<1>3. /\ call \in Seq(Step) /\ product.exists
      /\ ~disturbed => CallFits(call)
  BY <1>1, <1>2, AtItsStep
<1>4. PICK x : x = call[1].of
  OBVIOUS
<1>5. PICK new : new = Tail(call)
  OBVIOUS
<1>6. /\ items' = Switched(x, TRUE)
      /\ Proceed(w) /\ UNCHANGED <<product, known, live, gone, catLine, disturbed>>
  <2>1. Head(call) = call[1]
    BY <1>2, <1>3, HeadAndTail
  <2> QED
    BY <1>1, <1>4, <2>1 DEF WakeItems, variants
<1>7. /\ RowsTyped' /\ RowsTyped /\ ItemsTyped
  BY <1>6 DEF CatInv, CatTyped, RowsTyped
<1>8. /\ ItemsTyped' /\ DOMAIN items' = DOMAIN items
      /\ \A i \in DOMAIN items :
           items'[i].owner = items[i].owner /\ items'[i].tracks = items[i].tracks
      /\ \A o : ItemsOf(o)' = ItemsOf(o)
      /\ \A o : o # x => \A i \in ItemsOf(o) : items'[i] = items[i]
      /\ \A i \in ItemsOf(x) : items'[i].active
  BY <1>6, <1>7, SwitchedItems
<1>9. \A o \in Owner \ {x} : Untouched(o)
  BY <1>6, <1>8, ItemsUntouched
<1>10. ASSUME ~disturbed
       PROVE  /\ CallFits(new)'
              /\ x \notin OwnersOf(new) => Settled(x)'
              /\ \A i \in DOMAIN items' : items'[i].tracks
  <2>1. \A i \in DOMAIN items' : items'[i].tracks
    BY <1>8, <1>10 DEF CatInv, Undisturbed
  <2>2. CASE Waking(call)
    <3>1. Len(call) = 1 /\ MayOrder(x) /\ ~NoItems(x)
      BY <1>4, <2>2 DEF Waking
    <3>2. Len(new) = 0 /\ new \in Seq(Step)
      BY <1>2, <1>3, <1>5, <3>1, LeftToDo
    <3>3. ItemsReady(x)'
      <4>1. PICK i \in ItemsOf(x) : TRUE
        BY <3>1 DEF NoItems
      <4>2. i \in DOMAIN items' /\ i \in ItemsOf(x)'
        BY <1>8, <4>1 DEF ItemsOf
      <4>3. items'[i].active /\ items'[i].tracks
        BY <1>8, <2>1, <4>1, <4>2
      <4> QED
        BY <4>2, <4>3 DEF ItemsReady, Usable
    <3>4. MayOrder(x)'
      BY <1>6, <3>1 DEF MayOrder
    <3>5. x \notin live' \cap gone'
      BY <1>6, <1>7, <3>1 DEF MayOrder, RowsTyped, CatalogueAssumption
    <3>6. Settled(x)'
      BY <3>3, <3>4, <3>5 DEF Settled
    <3> QED
      BY <2>1, <3>2, <3>6, DoneFits
  <2>3. Waking(call)
    <3>1. CallFits(call) /\ 1 \in DOMAIN call
      BY <1>2, <1>3, <1>10, HeadAndTail
    <3> QED
      BY <1>2, <3>1 DEF CallFits, Searching, Stopping, Restarting, Reviving, IsSearch
  <2> QED
    BY <2>2, <2>3
<1> QED
  BY <1>1, <1>2, <1>4, <1>5, <1>6, <1>7, <1>8, <1>9, <1>10, StepDone

\* Searching for owners' stock items: the others' steps are still to do.
LEMMA SearchGoesOn ==
  ASSUME NEW call \in Seq(Step), call # <<>>, NEW new, new = Tail(call), Searching(call),
         product' = product, live' = live, gone' = gone, NEW x, x = call[1].of,
         \A i \in DOMAIN call : call[i].of # x => Untouched(call[i].of),
         ItemsReady(x)'
  PROVE  CallFits(new)'
<1>1. \A i \in DOMAIN new : i \in Nat \ {0} /\ i + 1 \in DOMAIN call /\ new[i] = call[i + 1]
  BY HeadAndTail
<1>2. ASSUME NEW i \in DOMAIN new
      PROVE  /\ IsSearch(new[i]) /\ new[i].do = "find"
             /\ MayOrder(new[i].of)' /\ (NoItems(new[i].of)' \/ ItemsReady(new[i].of)')
  <2>1. /\ i + 1 # 1 /\ i + 1 \in DOMAIN call /\ new[i] = call[i + 1]
    BY <1>1, <1>2
  <2>2. PICK j \in DOMAIN call : j = i + 1
    BY <2>1
  <2>3. /\ IsSearch(call[j]) /\ call[j].do = "find" /\ MayOrder(call[j].of)
        /\ NoItems(call[j].of) \/ ItemsReady(call[j].of)
    BY <2>1, <2>2 DEF Searching
  <2>4. PICK o : o = call[j].of
    OBVIOUS
  <2>5. MayOrder(o)'
    BY <2>3, <2>4 DEF MayOrder
  <2>6. NoItems(o)' \/ ItemsReady(o)'
    <3>1. CASE o = x
      BY <3>1
    <3>2. CASE o # x
      BY <2>3, <2>4, <3>2 DEF Untouched
    <3> QED
      BY <3>1, <3>2
  <2>7. new[i] = call[j] /\ new[i].of = o
    BY <2>1, <2>2, <2>4
  <2> QED
    BY <2>3, <2>5, <2>6, <2>7
<1> QED
  BY <1>2 DEF CallFits, Searching

\* A stock item is looked for.
LEMMA FindStockItemKeeps ==
  ASSUME CatalogueAssumption, CatInv, NEW w \in Admin, FindStockItem(w)
  PROVE  CatInv'
<1>1. PICK call : call = adminCall[w]
  OBVIOUS
<1>2. call # <<>> /\ call[1].do = "find"
  BY <1>1, AtItsStep, HeadAndTail DEF FindStockItem, At
<1>3. /\ call \in Seq(Step) /\ product.exists /\ StepTyped(call[1])
      /\ ~disturbed => CallFits(call)
      /\ \A v \in Admin \ {w} :
           ~disturbed => OwnersOf(adminCall[v]) \cap OwnersOf(call) = {}
  BY <1>1, <1>2, AtItsStep
<1>4. PICK x : x = call[1].of
  OBVIOUS
<1>5. PICK new : new = Tail(call)
  OBVIOUS
<1>6. /\ IF ItemsOf(x) # {} THEN Proceed(w)
         ELSE adminCall' = [adminCall EXCEPT ![w][1].do = "create"]
      /\ UNCHANGED <<product, known, live, gone, items, catLine, disturbed>>
  <2>1. Head(call) = call[1]
    BY <1>2, <1>3, HeadAndTail
  <2> QED
    BY <1>1, <1>4, <2>1 DEF FindStockItem, variants
<1>7. /\ RowsTyped' /\ ItemsTyped'
  BY <1>6 DEF CatInv, CatTyped, RowsTyped, ItemsTyped
<1>8. \A o : ItemsOf(o)' = ItemsOf(o)
  BY <1>6 DEF ItemsOf
<1>9. \A o : Untouched(o)
  BY <1>6, <1>8, ItemsUntouched
<1>10. \A o : MayOrder(o)' <=> MayOrder(o)
  BY <1>6 DEF MayOrder
<1>11. ASSUME ~disturbed PROVE \A i \in DOMAIN items' : items'[i].tracks
  BY <1>6, <1>11 DEF CatInv, Undisturbed
<1>12. ~disturbed => Searching(call) \/ Reviving(call)
  <2>1. 1 \in DOMAIN call
    BY <1>2, <1>3, HeadAndTail
  <2> QED
    BY <1>2, <1>3, <2>1 DEF CallFits, Stopping, Restarting, Waking
<1>13. CASE ItemsOf(x) # {}
  <2>1. ~NoItems(x)
    BY <1>13 DEF NoItems
  <2>2. ASSUME ~disturbed
        PROVE  CallFits(new)' /\ (x \notin OwnersOf(new) => Settled(x)')
    <3>1. CASE Searching(call)
      <4>1. MayOrder(x) /\ ItemsReady(x)
        BY <1>2, <1>3, <1>4, <2>1, <3>1, HeadAndTail DEF Searching
      <4>2. MayOrder(x)' /\ ItemsReady(x)'
        BY <1>9, <1>10, <4>1 DEF Untouched
      <4>3. CallFits(new)'
        BY <1>2, <1>3, <1>4, <1>5, <1>6, <1>9, <3>1, <4>2, SearchGoesOn
      <4>4. x \notin live' \cap gone'
        BY <1>6, <4>1 DEF MayOrder, CatInv, CatTyped, RowsTyped, CatalogueAssumption
      <4> QED
        BY <4>2, <4>3, <4>4 DEF Settled
    <3>2. CASE Reviving(call)
      <4>1. Len(call) = 2 /\ MayOrder(x) /\ call[2].of = x /\ call[2].do = "wake"
        BY <1>4, <3>2 DEF Reviving
      <4>2. Len(new) = 1 /\ new[1] = call[2] /\ OwnersOf(new) = {x}
        BY <1>2, <1>3, <1>5, <4>1, LeftToDo
      <4>3. MayOrder(x)' /\ ~NoItems(x)'
        BY <1>9, <1>10, <2>1, <4>1 DEF Untouched
      <4>4. Waking(new)'
        BY <4>1, <4>2, <4>3 DEF Waking
      <4> QED
        BY <4>2, <4>4 DEF CallFits
    <3> QED
      BY <1>12, <2>2, <3>1, <3>2
  <2>3. Proceed(w)
    BY <1>6, <1>13
  <2> QED
    BY <1>1, <1>2, <1>4, <1>5, <1>6, <1>7, <1>9, <1>11, <2>2, <2>3, StepDone
<1>14. CASE ItemsOf(x) = {}
  <2>1. PICK next : next = [call EXCEPT ![1].do = "create"]
    OBVIOUS
  <2>2. /\ call[1] \in Step /\ 1 \in DOMAIN call /\ DOMAIN call = 1..Len(call)
        /\ Len(call) \in Nat /\ \A i \in DOMAIN call : call[i] \in Step
    BY <1>2, <1>3, HeadAndTail
  <2>3. /\ DOMAIN next = DOMAIN call /\ next[1] = [call[1] EXCEPT !.do = "create"]
        /\ \A i \in DOMAIN call : i # 1 => next[i] = call[i]
    BY <2>1, <2>2
  <2>4. /\ next[1] \in Step /\ next[1].of = x /\ next[1].do = "create"
        /\ next[1].tracks = call[1].tracks
    BY <1>4, <2>2, <2>3 DEF Step
  <2>5. /\ next \in Seq(Step) /\ Len(next) = Len(call)
    <3>1. \A i \in DOMAIN call : next[i] \in Step
      BY <2>2, <2>3, <2>4
    <3>2. next \in [1..Len(call) -> Step]
      BY <2>1, <2>2, <3>1
    <3> QED
      BY <2>2, <3>2
  <2>6. \A i \in DOMAIN call : next[i].of = call[i].of /\ (next[i].do = call[i].do \/ i = 1)
    BY <1>4, <2>3, <2>4
  <2>7. OwnersOf(next) = OwnersOf(call)
    BY <2>3, <2>6 DEF OwnersOf
  <2>8. adminCall' = [adminCall EXCEPT ![w] = next]
    BY <1>1, <1>6, <1>14, <2>1
  <2>9. \A i \in DOMAIN next : StepTyped(next[i])'
    <3>1. \A i \in DOMAIN call : StepTyped(call[i])
      BY <1>1 DEF CatInv, CatTyped, CallsTyped
    <3>2. ASSUME NEW i \in DOMAIN call PROVE StepTyped(next[i])'
      <4>1. next[i].of = call[i].of /\ (next[i].do = call[i].do \/ next[i].do = "create")
        BY <2>4, <2>6
      <4> QED
        BY <1>6, <3>1, <4>1 DEF StepTyped
    <3> QED
      BY <2>3, <3>2
  <2>10. ASSUME ~disturbed PROVE CallFits(next)'
    <3>1. IsSearch(call[1]) /\ IsSearch(next[1])
      <4>1. IsSearch(call[1])
        BY <1>12, <2>2, <2>10 DEF Searching, Reviving
      <4> QED
        BY <2>4, <4>1 DEF IsSearch
    <3>2. CASE Searching(call)
      <4>1. ASSUME NEW i \in DOMAIN next
            PROVE  /\ IsSearch(next[i]) /\ (i # 1 => next[i].do = "find")
                   /\ MayOrder(next[i].of)' /\ (NoItems(next[i].of)' \/ ItemsReady(next[i].of)')
        <5>1. PICK o : o = call[i].of
          OBVIOUS
        <5>2. next[i].of = o /\ (i = 1 \/ next[i] = call[i]) /\ i \in DOMAIN call
          BY <2>3, <2>6, <4>1, <5>1
        <5>3. MayOrder(o) /\ (NoItems(o) \/ ItemsReady(o))
          BY <3>2, <5>1, <5>2 DEF Searching
        <5>4. MayOrder(o)' /\ (NoItems(o)' \/ ItemsReady(o)')
          BY <1>9, <1>10, <5>3 DEF Untouched
        <5>5. IsSearch(next[i]) /\ (i # 1 => next[i].do = "find")
          BY <3>1, <3>2, <5>2 DEF Searching
        <5> QED
          BY <5>2, <5>4, <5>5
      <4> QED
        BY <4>1 DEF CallFits, Searching
    <3>3. CASE Reviving(call)
      <4>1. Len(call) = 2 /\ MayOrder(x) /\ call[2].of = x /\ call[2].do = "wake"
        BY <1>4, <3>3 DEF Reviving
      <4>2. next[2] = call[2]
        BY <2>2, <2>3, <4>1
      <4>3. MayOrder(x)'
        BY <1>10, <4>1
      <4>4. Reviving(next)'
        BY <2>4, <2>5, <3>1, <4>1, <4>2, <4>3 DEF Reviving
      <4> QED
        BY <4>4 DEF CallFits
    <3> QED
      BY <1>12, <2>10, <3>2, <3>3
  <2>11. PICK X \in SUBSET Owner : X = {}
    OBVIOUS
  <2>12. ASSUME ~disturbed
         PROVE  /\ \A o \in Owner \ X : Untouched(o)
                /\ OwnersOf(adminCall[w]) \subseteq OwnersOf(next) \cup X
                /\ \A v \in Admin \ {w} : OwnersOf(adminCall[v]) \cap (X \cup OwnersOf(next)) = {}
                /\ CallFits(next)'
                /\ \A o \in X : o \notin OwnersOf(next) => Settled(o)'
                /\ \A i \in DOMAIN items' : items'[i].tracks
    BY <1>1, <1>3, <1>9, <1>11, <2>7, <2>10, <2>11, <2>12
  <2> QED
    BY <1>3, <1>6, <1>7, <2>5, <2>8, <2>9, <2>12, CallStep
<1> QED
  BY <1>13, <1>14

\* A stock item is created.
LEMMA CreateStockItemKeeps ==
  ASSUME CatalogueAssumption, CatInv, NEW w \in Admin, CreateStockItem(w)
  PROVE  CatInv'
<1>1. PICK call : call = adminCall[w]
  OBVIOUS
<1>2. call # <<>> /\ call[1].do = "create"
  BY <1>1, AtItsStep, HeadAndTail DEF CreateStockItem, At
<1>3. /\ call \in Seq(Step) /\ product.exists /\ StepTyped(call[1])
      /\ ~disturbed => CallFits(call)
  BY <1>1, <1>2, AtItsStep
<1>4. PICK x : x = call[1].of
  OBVIOUS
<1>5. PICK new : new = Tail(call)
  OBVIOUS
<1>6. /\ Len(items) < MaxItems
      /\ items' = Append(items, [owner |-> x, active |-> TRUE, tracks |-> call[1].tracks])
      /\ Proceed(w)
      /\ UNCHANGED <<product, known, live, gone, catLine, disturbed>>
  <2>1. Head(call) = call[1]
    BY <1>2, <1>3, HeadAndTail
  <2> QED
    BY <1>1, <1>4, <2>1 DEF CreateStockItem, variants
<1>7. /\ RowsTyped' /\ RowsTyped /\ ItemsTyped
  BY <1>6 DEF CatInv, CatTyped, RowsTyped
<1>8. x \in known \cup {Base} /\ call[1].tracks \in BOOLEAN /\ 1 \in DOMAIN call
  BY <1>2, <1>3, <1>4, HeadAndTail DEF StepTyped, Step
<1>9. /\ ItemsTyped' /\ DOMAIN items' = DOMAIN items \cup {Len(items) + 1}
      /\ \A i \in DOMAIN items : items'[i] = items[i]
      /\ items'[Len(items) + 1] = [owner |-> x, active |-> TRUE, tracks |-> call[1].tracks]
      /\ \A o : o # x => ItemsOf(o)' = ItemsOf(o)
      /\ Len(items) + 1 \in ItemsOf(x)'
  BY <1>6, <1>7, <1>8, AppendedItem
<1>10. \A o : o # x => Untouched(o)
  <2>1. ASSUME NEW o, o # x PROVE Untouched(o)
    <3>1. \A i \in ItemsOf(o) : items'[i] = items[i]
      BY <1>9 DEF ItemsOf
    <3> QED
      BY <1>6, <1>9, <2>1, <3>1, ItemsUntouched
  <2> QED
    BY <2>1
<1>11. ASSUME ~disturbed
       PROVE  /\ CallFits(new)'
              /\ x \notin OwnersOf(new) => Settled(x)'
              /\ \A i \in DOMAIN items' : items'[i].tracks
  <2>1. Searching(call) \/ Reviving(call)
    BY <1>2, <1>3, <1>8, <1>11 DEF CallFits, Stopping, Restarting, Waking
  <2>2. call[1].tracks = TRUE /\ MayOrder(x)
    BY <1>4, <1>8, <2>1 DEF Searching, Reviving, IsSearch
  <2>3. \A i \in DOMAIN items' : items'[i].tracks
    <3>1. \A i \in DOMAIN items : items[i].tracks
      BY <1>11 DEF CatInv, Undisturbed
    <3>2. items'[Len(items) + 1].tracks
      BY <1>9, <2>2
    <3> QED
      BY <1>9, <3>1, <3>2
  <2>4. ItemsReady(x)' /\ ~NoItems(x)'
    <3>1. items'[Len(items) + 1].active /\ items'[Len(items) + 1].tracks
      BY <1>9, <2>2
    <3> QED
      BY <1>9, <3>1 DEF ItemsReady, NoItems, Usable
  <2>5. MayOrder(x)'
    BY <1>6, <2>2 DEF MayOrder
  <2>6. CASE Searching(call)
    <3>1. CallFits(new)'
      BY <1>2, <1>3, <1>4, <1>5, <1>6, <1>10, <2>4, <2>6, SearchGoesOn
    <3>2. x \notin live' \cap gone'
      BY <1>6, <1>7, <2>2 DEF MayOrder, RowsTyped, CatalogueAssumption
    <3> QED
      BY <2>3, <2>4, <2>5, <3>1, <3>2 DEF Settled
  <2>7. CASE Reviving(call)
    <3>1. Len(call) = 2 /\ call[2].of = x /\ call[2].do = "wake"
      BY <1>4, <2>7 DEF Reviving
    <3>2. Len(new) = 1 /\ new[1] = call[2] /\ OwnersOf(new) = {x}
      BY <1>2, <1>3, <1>5, <3>1, LeftToDo
    <3>3. Waking(new)'
      BY <2>4, <2>5, <3>1, <3>2 DEF Waking
    <3> QED
      BY <2>3, <3>2, <3>3 DEF CallFits
  <2> QED
    BY <2>1, <2>6, <2>7
<1> QED
  BY <1>1, <1>2, <1>4, <1>5, <1>6, <1>7, <1>9, <1>10, <1>11, StepDone

-----------------------------------------------------------------------------
(* A call starts.                                                            *)

\* A call that looks for one stock item.
LEMMA FindOne ==
  ASSUME NEW o \in Owner, NEW tracks \in BOOLEAN, NEW new, new = FindEach(<<o>>, tracks)
  PROVE  /\ new \in Seq(Step) /\ DOMAIN new = {1} /\ OwnersOf(new) = {o}
         /\ new[1].do = "find" /\ new[1].of = o /\ new[1].tracks = tracks
<1>1. PICK s : s = Do("find", o, tracks)
  OBVIOUS
<1>2. s \in Step /\ s.do = "find" /\ s.of = o /\ s.tracks = tracks
  BY <1>1 DEF Do, Step
<1>3. new = [i \in {1} |-> s]
  BY <1>1 DEF FindEach
<1>4. new \in Seq(Step)
  <2>1. 1..1 = {1}
    OBVIOUS
  <2>2. [i \in 1..1 |-> s] \in Seq(Step)
    BY <1>2
  <2> QED
    BY <1>3, <2>1, <2>2
<1>5. DOMAIN new = {1} /\ new[1] = s
  BY <1>3
<1> QED
  BY <1>2, <1>4, <1>5 DEF OwnersOf

\* A call that starts undisturbed meets nobody.
LEMMA StartAlone ==
  ASSUME NEW S, disturbed \in BOOLEAN, disturbed' = (disturbed \/ Busy(S)), ~disturbed'
  PROVE  ~disturbed /\ \A v \in Admin : OwnersOf(adminCall[v]) \cap S = {}
<1>1. ~disturbed /\ ~Busy(S)
  OBVIOUS
<1> QED
  BY <1>1, BusyMeans

\* The history stays a flag.
LEMMA StartTyped ==
  ASSUME NEW b \in BOOLEAN, disturbed \in BOOLEAN, disturbed' = (disturbed \/ b)
  PROVE  disturbed' \in BOOLEAN
  OBVIOUS

\* Whoever has nothing to do has no owner to do with.
LEMMA IdleOwnsNothing ==
  ASSUME NEW call, call = <<>>
  PROVE  OwnersOf(call) = {}
  BY DEF OwnersOf

\* As above, of the calls in flight.
LEMMA BusyIsBoolean ==
  ASSUME NEW S
  PROVE  Busy(S) \in BOOLEAN
  BY DEF Busy

\* A stock item is provisioned.
LEMMA ProvisionKeeps ==
  ASSUME CatalogueAssumption, CatInv, NEW w \in Admin, NEW owner \in Owner, Provision(w, owner)
  PROVE  CatInv'
<1>1. /\ product.exists /\ owner \in known \cup {Base} /\ adminCall[w] = <<>>
      /\ UNCHANGED <<product, known, live, gone, items, catLine>>
  BY DEF Provision, variants
<1>2. PICK new : new = FindEach(<<owner>>, product.tracked)
  OBVIOUS
<1>3. product.tracked \in BOOLEAN
  BY DEF CatInv, CatTyped, RowsTyped
<1>4. /\ new \in Seq(Step) /\ DOMAIN new = {1} /\ OwnersOf(new) = {owner}
      /\ new[1].do = "find" /\ new[1].of = owner /\ new[1].tracks = product.tracked
  BY <1>2, <1>3, FindOne
<1>5. /\ adminCall' = [adminCall EXCEPT ![w] = new]
      /\ disturbed' = (disturbed \/ Busy({owner}) \/ ~product.tracked \/ owner \notin live \cup {Base})
  BY <1>2 DEF Provision
<1>6. RowsTyped' /\ ItemsTyped'
  <2>1. disturbed' \in BOOLEAN
    <3>1. PICK b \in BOOLEAN : b = (Busy({owner}) \/ ~product.tracked \/ owner \notin live \cup {Base})
      OBVIOUS
    <3>2. disturbed' = (disturbed \/ b)
      BY <1>5, <3>1
    <3> QED
      BY <3>2, StartTyped DEF CatInv, CatTyped, RowsTyped
  <2> QED
    BY <1>1, <2>1 DEF CatInv, CatTyped, RowsTyped, ItemsTyped
<1>7. \A i \in DOMAIN new : StepTyped(new[i])'
  BY <1>1, <1>4 DEF StepTyped
<1>8. PICK X \in SUBSET Owner : X = {}
  OBVIOUS
<1>9. ASSUME ~disturbed'
      PROVE  /\ ~disturbed
             /\ \A o \in Owner \ X : Untouched(o)
             /\ OwnersOf(adminCall[w]) \subseteq OwnersOf(new) \cup X
             /\ \A v \in Admin \ {w} : OwnersOf(adminCall[v]) \cap (X \cup OwnersOf(new)) = {}
             /\ CallFits(new)'
             /\ \A o \in X : o \notin OwnersOf(new) => Settled(o)'
             /\ \A i \in DOMAIN items' : items'[i].tracks
  <2>1. ~disturbed /\ ~Busy({owner}) /\ product.tracked /\ owner \in live \cup {Base}
    BY <1>5, <1>9
  <2>2. \A v \in Admin : OwnersOf(adminCall[v]) \cap {owner} = {}
    BY <2>1, BusyMeans
  <2>3. Settled(owner)
    <3>1. \A v \in Admin : owner \notin OwnersOf(adminCall[v])
      BY <2>2
    <3> QED
      BY <2>1, <3>1 DEF CatInv, Undisturbed
  <2>4. MayOrder(owner) /\ ItemsReady(owner)
    BY <1>1, <2>1, <2>3 DEF Settled, MayOrder
  <2>5. \A o : ItemsOf(o)' = ItemsOf(o)
    BY <1>1 DEF ItemsOf
  <2>6. \A o : Untouched(o)
    BY <1>1, <2>5, ItemsUntouched
  <2>7. MayOrder(owner)' /\ ItemsReady(owner)'
    BY <1>1, <2>4, <2>6 DEF MayOrder, Untouched
  <2>8. CallFits(new)'
    <3>1. IsSearch(new[1])
      BY <1>4, <2>1 DEF IsSearch
    <3> QED
      BY <1>4, <2>7, <3>1 DEF CallFits, Searching
  <2>9. \A i \in DOMAIN items' : items'[i].tracks
    BY <1>1, <2>1 DEF CatInv, Undisturbed
  <2>10. OwnersOf(adminCall[w]) = {}
    BY <1>1, IdleOwnsNothing
  <2> QED
    BY <1>4, <1>8, <2>1, <2>2, <2>6, <2>8, <2>9, <2>10
<1> QED
  BY <1>1, <1>4, <1>5, <1>6, <1>7, <1>9, CallStep

\* A variant is created.
LEMMA CreateVariantKeeps ==
  ASSUME CatalogueAssumption, CatInv, NEW w \in Admin, NEW v \in Variant, CreateVariant(w, v)
  PROVE  CatInv'
<1>1. /\ product.exists /\ v \notin known /\ adminCall[w] = <<>>
      /\ known' = known \cup {v} /\ live' = live \cup {v}
      /\ UNCHANGED <<product, gone, items, catLine>>
  BY DEF CreateVariant, Start
<1>2. PICK new : new = IF product.tracked THEN FindEach(<<v>>, TRUE) ELSE <<>>
  OBVIOUS
<1>3. v # Base /\ v \in Owner
  BY DEF Owner, CatalogueAssumption
<1>4. new \in Seq(Step) /\ OwnersOf(new) \subseteq {v}
  <2>1. product.tracked => new \in Seq(Step) /\ OwnersOf(new) \subseteq {v}
    BY <1>2, <1>3, FindOne
  <2>2. ~product.tracked => new = <<>>
    BY <1>2
  <2>3. <<>> \in Seq(Step)
    OBVIOUS
  <2>4. ~product.tracked => new \in Seq(Step) /\ OwnersOf(new) = {}
    BY <2>2, <2>3, IdleOwnsNothing
  <2> QED
    BY <2>1, <2>4
<1>5. adminCall' = [adminCall EXCEPT ![w] = new]
  BY <1>2 DEF CreateVariant, Start
<1>6. disturbed' = (disturbed \/ Busy(OwnersOf(new)))
  BY <1>2 DEF CreateVariant, Start, OwnersOf
<1>7. RowsTyped' /\ ItemsTyped'
  <2>1. disturbed' \in BOOLEAN
    BY <1>6, BusyIsBoolean, StartTyped DEF CatInv, CatTyped, RowsTyped
  <2>2. ItemsTyped'
    BY <1>1 DEF CatInv, CatTyped, ItemsTyped
  <2>3. live' \subseteq known' /\ gone' \subseteq known' /\ known' \subseteq Variant
    BY <1>1 DEF CatInv, CatTyped, RowsTyped
  <2> QED
    BY <1>1, <2>1, <2>2, <2>3 DEF CatInv, CatTyped, RowsTyped
<1>8. \A i \in DOMAIN new : StepTyped(new[i])'
  <2>1. ASSUME product.tracked PROVE \A i \in DOMAIN new : new[i].do = "find" /\ new[i].of = v
    <3>1. DOMAIN new = {1} /\ new[1].do = "find" /\ new[1].of = v
      BY <1>2, <1>3, <2>1, FindOne
    <3> QED
      BY <3>1
  <2>2. ~product.tracked => DOMAIN new = {}
    BY <1>2
  <2> QED
    BY <1>1, <2>1, <2>2 DEF StepTyped
<1>9. PICK X \in SUBSET Owner : X = {v}
  BY <1>3
<1>10. ASSUME ~disturbed'
       PROVE  /\ ~disturbed
              /\ \A o \in Owner \ X : Untouched(o)
              /\ OwnersOf(adminCall[w]) \subseteq OwnersOf(new) \cup X
              /\ \A u \in Admin \ {w} : OwnersOf(adminCall[u]) \cap (X \cup OwnersOf(new)) = {}
              /\ CallFits(new)'
              /\ \A o \in X : o \notin OwnersOf(new) => Settled(o)'
              /\ \A i \in DOMAIN items' : items'[i].tracks
  <2>1. ~disturbed
    BY <1>6, <1>10
  <2>2. \A u \in Admin : v \notin OwnersOf(adminCall[u])
    BY <1>1, <1>3 DEF CatInv, CatTyped, CallsTyped, StepTyped, OwnersOf
  <2>3. \A u \in Admin \ {w} : OwnersOf(adminCall[u]) \cap (X \cup OwnersOf(new)) = {}
    BY <1>4, <1>9, <2>2
  <2>4. \A o : ItemsOf(o)' = ItemsOf(o)
    BY <1>1 DEF ItemsOf
  <2>5. \A o \in Owner \ X : Untouched(o)
    <3>1. ASSUME NEW o, o # v PROVE Untouched(o)
      <4>1. (o \in live' <=> o \in live) /\ (o \in gone' <=> o \in gone)
        BY <1>1, <3>1
      <4>2. \A i \in ItemsOf(o) : items'[i] = items[i]
        BY <1>1
      <4> QED
        BY <2>4, <4>1, <4>2, ItemsUntouched
    <3> QED
      BY <1>9, <3>1
  <2>6. MayOrder(v)' /\ v \notin gone'
    BY <1>1 DEF MayOrder, CatInv, CatTyped, RowsTyped
  <2>7. NoItems(v)'
    <3>1. ItemsOf(v) = {}
      BY <1>1, <1>3 DEF ItemsOf, CatInv, CatTyped, ItemsTyped
    <3> QED
      BY <2>4, <3>1 DEF NoItems
  <2>8. \A i \in DOMAIN items' : items'[i].tracks
    BY <1>1, <2>1 DEF CatInv, Undisturbed
  <2>9. OwnersOf(adminCall[w]) = {}
    BY <1>1, IdleOwnsNothing
  <2>10. CallFits(new)' /\ (v \notin OwnersOf(new) => Settled(v)')
    <3>1. CASE product.tracked
      <4>1. /\ DOMAIN new = {1} /\ OwnersOf(new) = {v} /\ new[1].of = v /\ IsSearch(new[1])
        BY <1>2, <1>3, <3>1, FindOne DEF IsSearch
      <4> QED
        BY <2>6, <2>7, <4>1 DEF CallFits, Searching
    <3>2. CASE ~product.tracked
      <4>1. DOMAIN new = {}
        BY <1>2, <3>2
      <4>2. Settled(v)'
        BY <1>1, <2>6, <3>2 DEF Settled
      <4> QED
        BY <4>1, <4>2 DEF CallFits, Searching
    <3> QED
      BY <3>1, <3>2
  <2> QED
    BY <1>9, <2>1, <2>3, <2>5, <2>8, <2>9, <2>10
<1>11. known \subseteq known' /\ product' = product
  BY <1>1
<1> QED
  BY <1>1, <1>4, <1>5, <1>7, <1>8, <1>10, <1>11, CallStep

\* A call of one step.
LEMMA OneStep ==
  ASSUME NEW s \in Step, NEW new, new = <<s>>
  PROVE  /\ new \in Seq(Step) /\ DOMAIN new = {1} /\ Len(new) = 1 /\ OwnersOf(new) = {s.of}
         /\ new[1] = s
<1>1. new \in Seq(Step) /\ DOMAIN new = {1} /\ Len(new) = 1 /\ new[1] = s
  OBVIOUS
<1> QED
  BY <1>1 DEF OwnersOf

\* A variant is deactivated, or deleted: its stock items first.
LEMMA StopKeeps ==
  ASSUME CatalogueAssumption, CatInv, NEW w \in Admin, NEW v \in known,
         NEW do \in {"deactivate", "delete"},
         items' = Switched(v, FALSE), Start(w, <<Do(do, v, FALSE)>>),
         UNCHANGED <<product, known, live, gone, catLine>>
  PROVE  CatInv'
<1>1. v \in Variant /\ v \in Owner /\ RowsTyped /\ ItemsTyped
  BY DEF CatInv, CatTyped, RowsTyped, Owner
<1>2. product.exists /\ adminCall[w] = <<>>
  BY DEF CatInv, NothingYet, Start
<1>3. PICK new : new = <<Do(do, v, FALSE)>>
  OBVIOUS
<1>4. /\ new \in Seq(Step) /\ DOMAIN new = {1} /\ Len(new) = 1 /\ OwnersOf(new) = {v}
      /\ new[1].do = do /\ new[1].of = v
  <2>1. PICK s : s = Do(do, v, FALSE)
    OBVIOUS
  <2>2. s \in Step /\ s.do = do /\ s.of = v
    BY <1>1, <2>1 DEF Do, Step
  <2> QED
    BY <1>3, <2>1, <2>2, OneStep
<1>5. adminCall' = [adminCall EXCEPT ![w] = new]
  BY <1>3 DEF Start
<1>6. disturbed' = (disturbed \/ Busy(OwnersOf(new)))
  BY <1>3 DEF Start, OwnersOf
<1>7. /\ ItemsTyped' /\ DOMAIN items' = DOMAIN items
      /\ \A i \in DOMAIN items :
           items'[i].owner = items[i].owner /\ items'[i].tracks = items[i].tracks
      /\ \A o : ItemsOf(o)' = ItemsOf(o)
      /\ \A o : o # v => \A i \in ItemsOf(o) : items'[i] = items[i]
      /\ \A i \in ItemsOf(v) : items'[i].active = FALSE
  BY <1>1, SwitchedItems
<1>8. RowsTyped'
  <2>1. disturbed' \in BOOLEAN
    BY <1>6, <1>1, BusyIsBoolean, StartTyped DEF RowsTyped
  <2> QED
    BY <1>1, <2>1 DEF RowsTyped
<1>9. \A i \in DOMAIN new : StepTyped(new[i])'
  BY <1>4 DEF StepTyped
<1>10. PICK X \in SUBSET Owner : X = {v}
  BY <1>1
<1>11. ASSUME ~disturbed'
       PROVE  /\ ~disturbed
              /\ \A o \in Owner \ X : Untouched(o)
              /\ OwnersOf(adminCall[w]) \subseteq OwnersOf(new) \cup X
              /\ \A u \in Admin \ {w} : OwnersOf(adminCall[u]) \cap (X \cup OwnersOf(new)) = {}
              /\ CallFits(new)'
              /\ \A o \in X : o \notin OwnersOf(new) => Settled(o)'
              /\ \A i \in DOMAIN items' : items'[i].tracks
  <2>1. ~disturbed /\ \A u \in Admin : OwnersOf(adminCall[u]) \cap OwnersOf(new) = {}
    BY <1>1, <1>6, <1>11, StartAlone DEF RowsTyped
  <2>2. \A o \in Owner \ X : Untouched(o)
    BY <1>7, <1>10, ItemsUntouched
  <2>3. OwnersOf(adminCall[w]) = {}
    BY <1>2, IdleOwnsNothing
  <2>4. ItemsAsleep(v)'
    BY <1>7 DEF ItemsAsleep
  <2>5. CallFits(new)'
    BY <1>4, <2>4 DEF CallFits, Stopping
  <2>6. \A i \in DOMAIN items' : items'[i].tracks
    BY <1>7, <2>1 DEF CatInv, Undisturbed
  <2> QED
    BY <1>4, <1>10, <2>1, <2>2, <2>3, <2>5, <2>6
<1> QED
  BY <1>2, <1>4, <1>5, <1>7, <1>8, <1>9, <1>11, CallStep

\* A variant is reactivated: the variant first.
LEMMA ReactivateVariantKeeps ==
  ASSUME CatalogueAssumption, CatInv, NEW w \in Admin, NEW v \in Variant, ReactivateVariant(w, v)
  PROVE  CatInv'
<1>1. v \in known /\ v \notin gone /\ v \in Owner /\ RowsTyped /\ ItemsTyped
  BY DEF ReactivateVariant, CatInv, CatTyped, Owner
<1>2. /\ product.exists /\ adminCall[w] = <<>>
      /\ UNCHANGED <<product, known, live, gone, items, catLine>>
  BY DEF ReactivateVariant, CatInv, NothingYet, CatTyped, Start, variants
<1>3. PICK first : first = <<Do("activate", v, FALSE)>>
  OBVIOUS
<1>4. PICK rest : rest = IF product.tracked THEN <<Do("find", v, TRUE), Do("wake", v, TRUE)>> ELSE <<>>
  OBVIOUS
<1>5. PICK new : new = first \o rest
  OBVIOUS
<1>6. /\ first \in Seq(Step) /\ Len(first) = 1
      /\ first[1].do = "activate" /\ first[1].of = v
  <2>1. PICK s : s = Do("activate", v, FALSE)
    OBVIOUS
  <2>2. s \in Step /\ s.do = "activate" /\ s.of = v
    BY <1>1, <2>1 DEF Do, Step
  <2> QED
    BY <1>3, <2>1, <2>2, OneStep
<1>7. Do("find", v, TRUE) \in Step /\ Do("wake", v, TRUE) \in Step
  BY <1>1 DEF Do, Step
<1>8. /\ rest \in Seq(Step)
      /\ product.tracked => /\ Len(rest) = 2
                            /\ rest[1] = Do("find", v, TRUE) /\ rest[2] = Do("wake", v, TRUE)
      /\ ~product.tracked => Len(rest) = 0
  <2>1. PICK s : s = Do("find", v, TRUE)
    OBVIOUS
  <2>2. PICK t : t = Do("wake", v, TRUE)
    OBVIOUS
  <2>3. s \in Step /\ t \in Step
    BY <1>7, <2>1, <2>2
  <2>4. <<s, t>> \in Seq(Step) /\ Len(<<s, t>>) = 2 /\ <<s, t>>[1] = s /\ <<s, t>>[2] = t
    BY <2>3
  <2>5. <<>> \in Seq(Step) /\ Len(<<>>) = 0
    OBVIOUS
  <2>6. product.tracked => rest = <<s, t>>
    BY <1>4, <2>1, <2>2
  <2>7. ~product.tracked => rest = <<>>
    BY <1>4
  <2>8. CASE product.tracked
    BY <2>1, <2>2, <2>4, <2>6, <2>8
  <2>9. CASE ~product.tracked
    BY <2>5, <2>7, <2>9
  <2> QED
    BY <2>8, <2>9
<1>9. /\ new \in Seq(Step) /\ Len(new) = 1 + Len(rest)
      /\ \A i \in 1 .. 1 + Len(rest) : new[i] = IF i <= 1 THEN first[i] ELSE rest[i - 1]
  <2>1. rest \in Seq(Step)
    BY <1>8
  <2> QED
    BY <1>5, <1>6, <2>1, ConcatProperties
<1>10. /\ new[1].do = "activate" /\ new[1].of = v
       /\ ~product.tracked => Len(new) = 1
       /\ product.tracked => /\ Len(new) = 3
                             /\ new[2] = Do("find", v, TRUE) /\ new[3] = Do("wake", v, TRUE)
  <2>1. Len(rest) \in Nat
    BY <1>8
  <2>2. new[1] = first[1]
    BY <1>9, <2>1
  <2>3. ASSUME Len(rest) = 2 PROVE Len(new) = 3 /\ new[2] = rest[1] /\ new[3] = rest[2]
    BY <1>9, <2>3
  <2>4. Len(rest) = 0 => Len(new) = 1
    BY <1>9
  <2> QED
    BY <1>6, <1>8, <2>2, <2>3, <2>4
<1>11. \A i \in DOMAIN new : new[i].of = v
  <2>1. CASE product.tracked
    <3>1. DOMAIN new = {1, 2, 3}
      BY <1>9, <1>10, <2>1
    <3> QED
      BY <1>10, <2>1, <3>1 DEF Do
  <2>2. CASE ~product.tracked
    <3>1. DOMAIN new = {1}
      BY <1>9, <1>10, <2>2
    <3> QED
      BY <1>10, <3>1
  <2> QED
    BY <2>1, <2>2
<1>12. OwnersOf(new) = {v}
  <2>1. 1 \in DOMAIN new
    BY <1>8, <1>9
  <2> QED
    BY <1>11, <2>1 DEF OwnersOf
<1>13. adminCall' = [adminCall EXCEPT ![w] = new]
  BY <1>3, <1>4, <1>5 DEF ReactivateVariant, Start
<1>14. disturbed' = (disturbed \/ Busy(OwnersOf(new)))
  BY <1>3, <1>4, <1>5 DEF ReactivateVariant, Start, OwnersOf
<1>15. RowsTyped' /\ ItemsTyped'
  <2>1. disturbed' \in BOOLEAN
    BY <1>14, <1>1, BusyIsBoolean, StartTyped DEF RowsTyped
  <2> QED
    BY <1>1, <1>2, <2>1 DEF RowsTyped, ItemsTyped
<1>16. \A i \in DOMAIN new : StepTyped(new[i])'
  BY <1>1, <1>2, <1>11 DEF StepTyped
<1>17. PICK X \in SUBSET Owner : X = {}
  OBVIOUS
<1>18. ASSUME ~disturbed'
       PROVE  /\ ~disturbed
              /\ \A o \in Owner \ X : Untouched(o)
              /\ OwnersOf(adminCall[w]) \subseteq OwnersOf(new) \cup X
              /\ \A u \in Admin \ {w} : OwnersOf(adminCall[u]) \cap (X \cup OwnersOf(new)) = {}
              /\ CallFits(new)'
              /\ \A o \in X : o \notin OwnersOf(new) => Settled(o)'
              /\ \A i \in DOMAIN items' : items'[i].tracks
  <2>1. ~disturbed /\ \A u \in Admin : OwnersOf(adminCall[u]) \cap OwnersOf(new) = {}
    BY <1>1, <1>14, <1>18, StartAlone DEF RowsTyped
  <2>2. \A o : ItemsOf(o)' = ItemsOf(o)
    BY <1>2 DEF ItemsOf
  <2>3. \A o : Untouched(o)
    BY <1>2, <2>2, ItemsUntouched
  <2>4. OwnersOf(adminCall[w]) = {}
    BY <1>2, IdleOwnsNothing
  <2>5. Restarting(new)'
    <3>1. CASE product.tracked
      <4>1. /\ new[2].of = v /\ new[2].do = "find" /\ IsSearch(new[2])
            /\ new[3].of = v /\ new[3].do = "wake"
        BY <1>10, <3>1 DEF Do, IsSearch
      <4> QED
        BY <1>1, <1>2, <1>10, <3>1, <4>1 DEF Restarting
    <3>2. CASE ~product.tracked
      BY <1>1, <1>2, <1>10, <3>2 DEF Restarting
    <3> QED
      BY <3>1, <3>2
  <2>6. \A i \in DOMAIN items' : items'[i].tracks
    BY <1>2, <2>1 DEF CatInv, Undisturbed
  <2> QED
    BY <1>17, <2>1, <2>3, <2>4, <2>5, <2>6 DEF CallFits
<1> QED
  BY <1>2, <1>9, <1>13, <1>15, <1>16, <1>18, CallStep

-----------------------------------------------------------------------------
(* The product.                                                              *)

\* A function on 1..n is a sequence.
LEMMA FunctionIsSeq ==
  ASSUME NEW S, NEW n \in Nat, NEW f \in [1..n -> S]
  PROVE  f \in Seq(S) /\ Len(f) = n
  OBVIOUS

\* A finite set as a sequence.
LEMMA SetInSequence ==
  ASSUME NEW S, IsFiniteSet(S)
  PROVE  /\ SetToSeq(S) \in Seq(S)
         /\ \A x \in S : \E i \in DOMAIN SetToSeq(S) : SetToSeq(S)[i] = x
<1>1. PICK n : n = Cardinality(S)
  OBVIOUS
<1>2. n \in Nat /\ ExistsBijection(1..n, S)
  BY <1>1, FS_CardinalityType
<1>3. \E f \in [1..n -> S] : IsInjective(f)
  BY <1>2 DEF ExistsBijection, Bijection, Injection
<1>4. PICK f : f = SetToSeq(S)
  OBVIOUS
<1>5. f \in [1..n -> S] /\ IsInjective(f)
  BY <1>1, <1>3, <1>4 DEF SetToSeq
<1>6. f \in Injection(1..n, S)
  BY <1>5 DEF Injection
<1>7. Cardinality(1..n) = n
  BY <1>2, FS_Interval
<1>8. f \in Surjection(1..n, S)
  BY <1>1, <1>6, <1>7, FS_Injection
<1>9. f \in Seq(S)
  BY <1>2, <1>5
<1>10. \A x \in S : \E i \in DOMAIN f : f[i] = x
  BY <1>5, <1>8 DEF Surjection
<1> QED
  BY <1>4, <1>9, <1>10

\* Stock items are looked for, for each owner.
LEMMA FindMany ==
  ASSUME NEW S, IsFiniteSet(S), S \subseteq Owner, Base \in Owner,
         NEW new, new = FindEach(<<Base>> \o SetToSeq(S), TRUE)
  PROVE  /\ new \in Seq(Step) /\ OwnersOf(new) = {Base} \cup S
         /\ \A i \in DOMAIN new : new[i].do = "find" /\ new[i].tracks = TRUE
<1>1. PICK rest : rest = SetToSeq(S)
  OBVIOUS
<1>2. rest \in Seq(S) /\ \A x \in S : \E i \in DOMAIN rest : rest[i] = x
  BY <1>1, SetInSequence
<1>3. rest \in Seq(Owner) /\ <<Base>> \in Seq(Owner) /\ Len(<<Base>>) = 1
  BY <1>2
<1>4. PICK all : all = <<Base>> \o rest
  OBVIOUS
<1>5. /\ all \in Seq(Owner) /\ Len(all) = 1 + Len(rest) /\ Len(rest) \in Nat
      /\ \A i \in 1 .. 1 + Len(rest) : all[i] = IF i <= 1 THEN <<Base>>[i] ELSE rest[i - 1]
  BY <1>3, <1>4, ConcatProperties
<1>6. DOMAIN all = 1 .. 1 + Len(rest) /\ DOMAIN rest = 1..Len(rest)
  BY <1>3, <1>5
<1>7. all[1] = Base /\ 1 \in DOMAIN all
  BY <1>5, <1>6
<1>8. \A x \in S : \E i \in DOMAIN all : all[i] = x
  <2>1. ASSUME NEW x \in S PROVE \E i \in DOMAIN all : all[i] = x
    <3>1. PICK j \in DOMAIN rest : rest[j] = x
      BY <1>2
    <3>2. j + 1 \in DOMAIN all /\ all[j + 1] = rest[j]
      BY <1>5, <1>6
    <3> QED
      BY <3>1, <3>2
  <2> QED
    BY <2>1
<1>9. \A i \in DOMAIN all : all[i] = Base \/ all[i] \in S
  <2>1. ASSUME NEW i \in DOMAIN all, i # 1 PROVE all[i] \in S
    <3>1. i - 1 \in DOMAIN rest /\ all[i] = rest[i - 1]
      BY <1>5, <1>6, <2>1
    <3> QED
      BY <1>2, <3>1
  <2> QED
    BY <1>7, <2>1
<1>10. new = [i \in DOMAIN all |-> Do("find", all[i], TRUE)]
  BY <1>1, <1>4 DEF FindEach
<1>11. \A i \in DOMAIN all : Do("find", all[i], TRUE) \in Step
  BY <1>5 DEF Do, Step
<1>12. new \in Seq(Step) /\ DOMAIN new = DOMAIN all
  <2>1. PICK n \in Nat : n = 1 + Len(rest)
    BY <1>5
  <2>2. new \in [1..n -> Step]
    BY <1>6, <1>10, <1>11, <2>1
  <2>3. new \in Seq(Step)
    BY <2>1, <2>2, FunctionIsSeq
  <2> QED
    BY <1>10, <2>3
<1>13. \A i \in DOMAIN new : /\ new[i].do = "find" /\ new[i].tracks = TRUE
                             /\ new[i].of = all[i]
  <2>1. ASSUME NEW i \in DOMAIN new
        PROVE  new[i].do = "find" /\ new[i].tracks = TRUE /\ new[i].of = all[i]
    <3>1. PICK o : o = all[i]
      OBVIOUS
    <3>2. new[i] = Do("find", o, TRUE)
      BY <1>10, <2>1, <3>1
    <3>3. PICK s : s = new[i]
      OBVIOUS
    <3>4. s = [do |-> "find", of |-> o, tracks |-> TRUE]
      BY <3>2, <3>3 DEF Do
    <3>5. s.do = "find" /\ s.tracks = TRUE /\ s.of = o
      BY <3>4
    <3> QED
      BY <3>1, <3>3, <3>5
  <2> QED
    BY <2>1
<1>14. OwnersOf(new) = {Base} \cup S
  <2>1. DOMAIN new = DOMAIN all /\ \A i \in DOMAIN new : new[i].of = all[i]
    BY <1>12, <1>13
  <2>2. OwnersOf(new) \subseteq {Base} \cup S
    BY <1>9, <2>1 DEF OwnersOf
  <2>3. ASSUME NEW x \in {Base} \cup S PROVE x \in OwnersOf(new)
    <3>1. \E i \in DOMAIN all : all[i] = x
      BY <1>7, <1>8
    <3> QED
      BY <2>1, <3>1 DEF OwnersOf
  <2> QED
    BY <2>2, <2>3
<1> QED
  BY <1>12, <1>13, <1>14

\* The product is created: there was nothing.
LEMMA CreateProductKeeps ==
  ASSUME CatalogueAssumption, CatInv, NEW w \in Admin, NEW tracked \in BOOLEAN,
         NEW vs \in SUBSET Variant, CreateProduct(w, tracked, vs)
  PROVE  CatInv'
<1>1. /\ known = {} /\ items = <<>> /\ live = {} /\ gone = {}
      /\ \A v \in Admin : adminCall[v] = <<>>
      /\ \A l \in CatalogueLine : catLine[l] = NoLine
  BY DEF CreateProduct, CatInv, NothingYet, CatTyped, RowsTyped
<1>2. /\ product' = [exists |-> TRUE, active |-> TRUE, tracked |-> tracked]
      /\ known' = vs /\ live' = vs /\ gone' = {} /\ items' = <<>> /\ catLine' = catLine
  BY <1>1 DEF CreateProduct
<1>3. PICK new : new = IF tracked THEN FindEach(<<Base>> \o SetToSeq(vs), TRUE) ELSE <<>>
  OBVIOUS
<1>4. /\ adminCall' = [adminCall EXCEPT ![w] = new]
      /\ disturbed' = (disturbed \/ Busy(OwnersOf(new)))
  BY <1>3 DEF CreateProduct, Start, OwnersOf
<1>5. IsFiniteSet(vs) /\ vs \subseteq Owner /\ Base \in Owner /\ Base \notin vs
  BY FS_Subset DEF CatalogueAssumption, Owner
<1>6. tracked => /\ new \in Seq(Step) /\ OwnersOf(new) = {Base} \cup vs
                 /\ \A i \in DOMAIN new : new[i].do = "find" /\ new[i].tracks = TRUE
  BY <1>3, <1>5, FindMany
<1>7. ~tracked => new = <<>>
  BY <1>3
<1>8. /\ new \in Seq(Step) /\ OwnersOf(new) \subseteq {Base} \cup vs
      /\ \A i \in DOMAIN new : new[i].do = "find" /\ new[i].tracks = TRUE
  <2>1. <<>> \in Seq(Step) /\ DOMAIN <<>> = {}
    OBVIOUS
  <2>2. CASE tracked
    BY <1>6, <2>2
  <2>3. CASE ~tracked
    <3>1. OwnersOf(new) = {}
      BY <1>7, <2>3, IdleOwnsNothing
    <3> QED
      BY <1>7, <2>1, <2>3, <3>1
  <2> QED
    BY <2>2, <2>3
<1>9. RowsTyped' /\ ItemsTyped'
  <2>1. disturbed' \in BOOLEAN
    BY <1>4, BusyIsBoolean, StartTyped DEF CatInv, CatTyped, RowsTyped
  <2>2. <<>> \in Seq(StockItem) /\ Len(<<>>) = 0 /\ DOMAIN <<>> = {}
    OBVIOUS
  <2>3. ItemsTyped'
    BY <1>2, <2>2 DEF ItemsTyped, CatalogueAssumption
  <2>4. product' \in [exists : BOOLEAN, active : BOOLEAN, tracked : BOOLEAN]
    BY <1>2
  <2> QED
    BY <1>2, <2>1, <2>3, <2>4 DEF RowsTyped
<1>10. \A i \in DOMAIN new : StepTyped(new[i])'
  <2>1. \A i \in DOMAIN new : new[i].of \in {Base} \cup vs
    BY <1>8 DEF OwnersOf
  <2> QED
    BY <1>2, <1>8, <2>1 DEF StepTyped
<1>11. CallsTyped'
  <2>1. adminCall \in [Admin -> Seq(Step)]
    BY DEF CatInv, CatTyped, CallsTyped
  <2>2. adminCall' \in [Admin -> Seq(Step)]
    BY <1>4, <1>8, <2>1
  <2>3. ASSUME NEW v \in Admin, NEW i \in DOMAIN adminCall'[v] PROVE StepTyped(adminCall[v][i])'
    <3>1. adminCall'[w] = new /\ \A u \in Admin \ {w} : adminCall'[u] = <<>>
      BY <1>1, <1>4, <2>1
    <3>2. v = w
      BY <2>3, <3>1
    <3> QED
      BY <1>10, <2>3, <3>1, <3>2 DEF StepTyped
  <2> QED
    BY <2>2, <2>3 DEF CallsTyped
<1>12. LinesTyped'
  BY <1>1, <1>2 DEF CatInv, CatTyped, LinesTyped, NoLine
<1>13. NothingYet'
  BY <1>2 DEF NothingYet
<1>14. ASSUME ~disturbed' PROVE Undisturbed'
  <2>1. CatTyped /\ Undisturbed
    BY <1>4, <1>14 DEF CatInv
  <2>2. PICK X \in SUBSET Owner : X = Owner
    OBVIOUS
  <2>3. \A v \in Admin : OwnersOf(adminCall[v]) = {}
    BY <1>1, IdleOwnsNothing
  <2>4. \A o : ItemsOf(o)' = {}
    <3>1. DOMAIN <<>> = {}
      OBVIOUS
    <3>2. DOMAIN items' = {}
      BY <1>2, <3>1
    <3> QED
      BY <3>2 DEF ItemsOf
  <2>5. \A o \in {Base} \cup vs : MayOrder(o)' /\ NoItems(o)'
    BY <1>2, <2>4 DEF MayOrder, NoItems
  <2>6. CallFits(new)'
    <3>1. \A i \in DOMAIN new : /\ IsSearch(new[i]) /\ new[i].do = "find"
                                /\ MayOrder(new[i].of)' /\ NoItems(new[i].of)'
      <4>1. ASSUME NEW i \in DOMAIN new
            PROVE  /\ IsSearch(new[i]) /\ new[i].do = "find"
                   /\ MayOrder(new[i].of)' /\ NoItems(new[i].of)'
        <5>1. PICK o \in {Base} \cup vs : o = new[i].of
          BY <1>8, <4>1 DEF OwnersOf
        <5> QED
          BY <1>8, <2>5, <4>1, <5>1 DEF IsSearch
      <4> QED
        BY <4>1
    <3> QED
      BY <3>1 DEF CallFits, Searching
  <2>7. ASSUME NEW o \in X, o \notin OwnersOf(new) PROVE Settled(o)'
    <3>1. o \notin live' \cap gone' /\ ItemsAsleep(o)'
      BY <1>2, <2>4 DEF ItemsAsleep
    <3>2. ~(product'.tracked /\ o \in live' \cup {Base})
      BY <1>2, <1>6, <2>7
    <3> QED
      BY <3>1, <3>2 DEF Settled
  <2>8. \A i \in DOMAIN items' : items'[i].tracks
    <3>1. DOMAIN <<>> = {}
      OBVIOUS
    <3> QED
      BY <1>2, <3>1
  <2>9. LinesAreTheirs'
    BY <1>1, <1>2 DEF LinesAreTheirs, NoLine
  <2>10. adminCall' = [adminCall EXCEPT ![w] = new]
    BY <1>4
  <2>11. \A o \in Owner \ X : Untouched(o)
    BY <2>2
  <2>12. OwnersOf(adminCall[w]) \subseteq OwnersOf(new) \cup X
    BY <2>3
  <2>13. \A v \in Admin \ {w} : OwnersOf(adminCall[v]) \cap (X \cup OwnersOf(new)) = {}
    BY <2>3
  <2>14. \A v \in Admin \ {w} : product'.tracked = product.tracked \/ adminCall[v] = <<>>
    BY <1>1
  <2> QED
    BY <2>1, <2>2, <2>6, <2>7, <2>8, <2>9, <2>10, <2>11, <2>12, <2>13, <2>14, OneCallChanges
<1> QED
  BY <1>9, <1>11, <1>12, <1>13, <1>14 DEF CatInv, CatTyped

\* Rows and calls that stay, and a product tracked as before.
LEMMA NothingMoves ==
  ASSUME CatInv, UNCHANGED <<known, live, gone, items, adminCall>>,
         product' \in [exists : BOOLEAN, active : BOOLEAN, tracked : BOOLEAN],
         disturbed' \in BOOLEAN, product'.exists = product.exists, product.exists,
         LinesTyped',
         ~disturbed' => ~disturbed /\ product'.tracked = product.tracked /\ LinesAreTheirs'
  PROVE  CatInv'
<1>1. RowsTyped' /\ ItemsTyped'
  BY DEF CatInv, CatTyped, RowsTyped, ItemsTyped
<1>2. CallsTyped'
  BY DEF CatInv, CatTyped, CallsTyped, StepTyped
<1>3. NothingYet'
  BY DEF NothingYet
<1>4. ASSUME ~disturbed' PROVE Undisturbed'
  <2>1. Undisturbed /\ product'.tracked = product.tracked /\ LinesAreTheirs'
    BY <1>4 DEF CatInv
  <2>2. \A o : ItemsOf(o)' = ItemsOf(o)
    BY DEF ItemsOf
  <2>3. \A o : Untouched(o)
    BY <2>2, ItemsUntouched
  <2>4. \A v \in Admin : OwnersOf(adminCall[v])' = OwnersOf(adminCall[v])
    BY DEF OwnersOf
  <2>5. CallsApart'
    BY <2>1, <2>4 DEF Undisturbed, CallsApart
  <2>6. ASSUME NEW v \in Admin PROVE CallFits(adminCall[v])'
    <3>1. PICK call : call = adminCall[v]
      OBVIOUS
    <3>2. call \in Seq(Step) /\ CallFits(call)
      BY <2>1, <3>1 DEF Undisturbed, CatInv, CatTyped, CallsTyped
    <3>3. CallFits(call)'
      BY <2>1, <2>3, <3>2, CallStaysFit
    <3> QED
      BY <3>1, <3>3
  <2>7. ASSUME NEW o \in Owner, \A v \in Admin : o \notin OwnersOf(adminCall[v]) PROVE Settled(o)'
    <3>1. Settled(o) /\ Untouched(o)
      BY <2>1, <2>3, <2>7 DEF Undisturbed
    <3> QED
      BY <2>1, <3>1 DEF Settled, Untouched, MayOrder
  <2>8. \A i \in DOMAIN items' : items'[i].tracks
    BY <2>1 DEF Undisturbed
  <2>9. \A o \in Owner : (\A v \in Admin : o \notin OwnersOf(adminCall[v])') => Settled(o)'
    BY <2>4, <2>7
  <2> QED
    BY <2>1, <2>5, <2>6, <2>8, <2>9 DEF Undisturbed
<1> QED
  BY <1>1, <1>2, <1>3, <1>4 DEF CatInv, CatTyped

\* The product is updated.
LEMMA UpdateProductKeeps ==
  ASSUME CatInv, NEW active \in BOOLEAN, NEW tracked \in BOOLEAN, UpdateProduct(active, tracked)
  PROVE  CatInv'
<1>1. /\ product.exists /\ UNCHANGED <<known, live, gone, items, catLine, adminCall>>
      /\ product' = [product EXCEPT !.active = active, !.tracked = tracked]
      /\ disturbed' = (disturbed \/ tracked # product.tracked)
  BY DEF UpdateProduct, variants
<1>2. product \in [exists : BOOLEAN, active : BOOLEAN, tracked : BOOLEAN] /\ CatTyped
  BY DEF CatInv, CatTyped, RowsTyped
<1>3. /\ product' \in [exists : BOOLEAN, active : BOOLEAN, tracked : BOOLEAN]
      /\ product'.exists = product.exists /\ product'.tracked = tracked
  BY <1>1, <1>2
<1>4. disturbed' \in BOOLEAN
  <2>1. PICK b \in BOOLEAN : b = (tracked # product.tracked)
    OBVIOUS
  <2>2. disturbed' = (disturbed \/ b)
    BY <1>1, <2>1
  <2> QED
    BY <2>2, StartTyped DEF CatInv, CatTyped, RowsTyped
<1>5. /\ LinesTyped'
      /\ product'.tracked = product.tracked /\ LinesAreTheirs => LinesAreTheirs'
  BY <1>1, <1>2, LinesStay
<1>6. ASSUME ~disturbed' PROVE ~disturbed /\ product'.tracked = product.tracked /\ LinesAreTheirs'
  <2>1. ~disturbed /\ tracked = product.tracked
    BY <1>1, <1>6
  <2>2. LinesAreTheirs
    BY <2>1 DEF CatInv, Undisturbed
  <2> QED
    BY <1>3, <1>5, <2>1, <2>2
<1> QED
  BY <1>1, <1>3, <1>4, <1>5, <1>6, NothingMoves

\* An order line is placed: it gets a stock item of its own variant.
LEMMA PlaceLineKeeps ==
  ASSUME CatalogueAssumption, CatInv, NEW l \in CatalogueLine, NEW v \in Owner, PlaceLine(l, v)
  PROVE  CatInv'
<1>1. /\ product.active /\ v \in live \cup {Base}
      /\ UNCHANGED <<product, known, live, gone, items, adminCall>>
      /\ disturbed' = (disturbed \/ Busy({v, Base}))
  BY DEF PlaceLine, variants
<1>2. PICK i \in Found(v) : catLine' = [catLine EXCEPT ![l] = [variant |-> v, item |-> i]]
  BY DEF PlaceLine
<1>3. product.exists
  BY <1>1 DEF CatInv, NothingYet
<1>4. CatTyped /\ RowsTyped
  BY DEF CatInv, CatTyped
<1>5. disturbed' \in BOOLEAN
  BY <1>1, <1>4, BusyIsBoolean, StartTyped DEF RowsTyped
<1>6. i \in {0} \cup DOMAIN items
  BY <1>2 DEF Found, ItemsOf
<1>7. PICK line : line = [variant |-> v, item |-> i]
  OBVIOUS
<1>8. i \in -1..MaxItems
  <2>1. /\ Len(items) <= MaxItems /\ Len(items) \in Nat /\ DOMAIN items = 1..Len(items)
        /\ MaxItems \in Nat
    BY <1>4 DEF CatTyped, ItemsTyped, CatalogueAssumption
  <2> QED
    BY <1>6, <2>1
<1>9. line \in [variant : Owner, item : -1..MaxItems] /\ line.item = i /\ line.variant = v
  BY <1>7, <1>8
<1>10. catLine' = [catLine EXCEPT ![l] = line] /\ catLine \in [CatalogueLine -> [variant : Owner, item : -1..MaxItems]]
  BY <1>2, <1>4, <1>7 DEF CatTyped, LinesTyped
<1>11. /\ catLine'[l] = line
       /\ \A m \in CatalogueLine \ {l} : catLine'[m] = catLine[m]
  BY <1>10
<1>12. LinesTyped'
  <2>1. catLine' \in [CatalogueLine -> [variant : Owner, item : -1..MaxItems]]
    BY <1>9, <1>10
  <2>2. ASSUME NEW m \in CatalogueLine, catLine'[m] # NoLine
        PROVE  catLine'[m].item \in {0} \cup DOMAIN items
    <3>1. CASE m = l
      BY <1>6, <1>9, <1>11, <3>1
    <3>2. CASE m # l
      BY <1>4, <1>11, <2>2, <3>2 DEF CatTyped, LinesTyped
    <3> QED
      BY <3>1, <3>2
  <2> QED
    BY <1>1, <2>1, <2>2 DEF LinesTyped, NoLine
<1>13. ASSUME ~disturbed' PROVE ~disturbed /\ LinesAreTheirs'
  <2>1. ~disturbed /\ ~Busy({v, Base})
    BY <1>1, <1>13
  <2>2. Undisturbed
    BY <2>1 DEF CatInv
  <2>3. ASSUME product.tracked PROVE i > 0 /\ items[i].owner = v
    <3>1. \A w \in Admin : v \notin OwnersOf(adminCall[w])
      BY <2>1, BusyMeans
    <3>2. ItemsReady(v)
      BY <1>1, <1>3, <2>2, <2>3, <3>1 DEF Undisturbed, Settled
    <3>3. i \in ItemsOf(v)
      BY <1>2, <3>2 DEF Found, ItemsReady
    <3>4. i \in DOMAIN items /\ items[i].owner = v
      BY <3>3 DEF ItemsOf
    <3>5. DOMAIN items = 1..Len(items)
      BY <1>4 DEF CatTyped, ItemsTyped
    <3> QED
      BY <3>4, <3>5
  <2>4. ASSUME product.tracked, NEW m \in CatalogueLine, catLine'[m] # NoLine
        PROVE  catLine'[m].item > 0 /\ items[catLine'[m].item].owner = catLine'[m].variant
    <3>1. CASE m = l
      BY <1>9, <1>11, <2>3, <2>4, <3>1
    <3>2. CASE m # l
      BY <1>11, <2>2, <2>4, <3>2 DEF Undisturbed, LinesAreTheirs
    <3> QED
      BY <3>1, <3>2
  <2> QED
    BY <1>1, <2>1, <2>4 DEF LinesAreTheirs, NoLine
<1>14. product' \in [exists : BOOLEAN, active : BOOLEAN, tracked : BOOLEAN] /\ product' = product
  BY <1>1, <1>4 DEF RowsTyped
<1> QED
  BY <1>1, <1>3, <1>5, <1>12, <1>13, <1>14, NothingMoves

\* A call breaks off.
LEMMA BreakOffKeeps ==
  ASSUME CatalogueAssumption, CatInv, NEW w \in Admin, BreakOff(w)
  PROVE  CatInv'
<1>1. /\ adminCall[w] # <<>> /\ disturbed' = TRUE
      /\ UNCHANGED <<product, known, live, gone, items, catLine>>
  BY DEF BreakOff, variants
<1>2. PICK new : new = <<>>
  OBVIOUS
<1>3. adminCall' = [adminCall EXCEPT ![w] = new]
  BY <1>2 DEF BreakOff
<1>4. product.exists
  BY <1>1 DEF CatInv, NothingYet
<1>5. RowsTyped' /\ ItemsTyped'
  BY <1>1 DEF CatInv, CatTyped, RowsTyped, ItemsTyped
<1>6. new \in Seq(Step) /\ DOMAIN new = {}
  BY <1>2
<1>7. PICK X \in SUBSET Owner : X = {}
  OBVIOUS
<1>8. \A i \in DOMAIN new : StepTyped(new[i])'
  BY <1>6
<1> QED
  BY <1>1, <1>3, <1>4, <1>5, <1>6, <1>7, <1>8, CallStep

-----------------------------------------------------------------------------
\* Nothing happens.
LEMMA CatInvStutters ==
  ASSUME CatInv, UNCHANGED catVars
  PROVE  CatInv'
<1>1. UNCHANGED <<product, known, live, gone, items, catLine, adminCall, disturbed>>
  BY DEF catVars, variants
<1> USE <1>1
<1>2. CatTyped'
  BY DEF CatInv, CatTyped, RowsTyped, ItemsTyped, CallsTyped, LinesTyped, StepTyped, NoLine
<1>3. NothingYet'
  BY DEF CatInv, NothingYet, NoLine
<1>4. product' \in [exists : BOOLEAN, active : BOOLEAN, tracked : BOOLEAN] /\ disturbed' \in BOOLEAN
  BY <1>2 DEF CatTyped, RowsTyped
<1>5. CASE product.exists
  <2>1. LinesTyped'
    BY <1>2 DEF CatTyped
  <2>2. ~disturbed' => LinesAreTheirs'
    BY DEF CatInv, Undisturbed, LinesAreTheirs, NoLine
  <2> QED
    BY <1>4, <1>5, <2>1, <2>2, NothingMoves
<1>6. CASE ~product.exists
  <2>1. ASSUME ~disturbed' PROVE Undisturbed'
    <3>1. Undisturbed
      BY <2>1 DEF CatInv
    <3>2. \A i \in DOMAIN items' : items'[i].tracks
      BY <3>1 DEF Undisturbed
    <3>3. \A v \in Admin : adminCall'[v] = <<>>
      BY <1>6 DEF CatInv, NothingYet
    <3>4. \A v \in Admin : OwnersOf(adminCall'[v]) = {}
      BY <3>3, IdleOwnsNothing
    <3>5. CallsApart'
      BY <3>4 DEF CallsApart, OwnersOf
    <3>6. \A v \in Admin : CallFits(adminCall[v])'
      <4>1. DOMAIN <<>> = {}
        OBVIOUS
      <4>2. \A v \in Admin : DOMAIN adminCall'[v] = {}
        BY <3>3, <4>1
      <4> QED
        BY <4>2 DEF CallFits, Searching
    <3>7. \A o : ItemsOf(o)' = {} /\ o \notin live'
      <4>1. DOMAIN <<>> = {}
        OBVIOUS
      <4>2. items' = <<>> /\ live' = {}
        BY <1>6 DEF CatInv, NothingYet, CatTyped, RowsTyped
      <4>3. DOMAIN items' = {}
        BY <4>1, <4>2
      <4> QED
        BY <4>2, <4>3 DEF ItemsOf
    <3>8. \A o : Settled(o)'
      BY <1>6, <3>7 DEF Settled, ItemsAsleep
    <3>9. LinesAreTheirs'
      BY <3>1 DEF Undisturbed, LinesAreTheirs, NoLine
    <3> QED
      BY <3>2, <3>5, <3>6, <3>8, <3>9 DEF Undisturbed
  <2> QED
    BY <1>2, <1>3, <2>1 DEF CatInv
<1> QED
  BY <1>5, <1>6

\* Every step keeps the invariant.
LEMMA CatInvKept ==
  ASSUME CatalogueAssumption, CatInv, [CatalogueNext]_catVars
  PROVE  CatInv'
<1>1. CASE \E w \in Admin, tracked \in BOOLEAN, vs \in SUBSET Variant : CreateProduct(w, tracked, vs)
  BY <1>1, CreateProductKeeps
<1>2. CASE \E active, tracked \in BOOLEAN : UpdateProduct(active, tracked)
  BY <1>2, UpdateProductKeeps
<1>3. CASE \E w \in Admin, owner \in Owner : Provision(w, owner)
  BY <1>3, ProvisionKeeps
<1>4. ASSUME NEW w \in Admin, NEW v \in Variant,
             CreateVariant(w, v) \/ DeactivateVariant(w, v) \/ DeleteVariant(w, v) \/ ReactivateVariant(w, v)
      PROVE  CatInv'
  <2>1. CASE CreateVariant(w, v)
    BY <2>1, CreateVariantKeeps
  <2>2. CASE DeactivateVariant(w, v)
    <3>1. v \in known
      BY <2>2 DEF DeactivateVariant, CatInv, CatTyped, RowsTyped
    <3> QED
      BY <2>2, <3>1, StopKeeps DEF DeactivateVariant, variants
  <2>3. CASE DeleteVariant(w, v)
    BY <2>3, StopKeeps DEF DeleteVariant, variants
  <2>4. CASE ReactivateVariant(w, v)
    BY <2>4, ReactivateVariantKeeps
  <2> QED
    BY <1>4, <2>1, <2>2, <2>3, <2>4
<1>5. ASSUME NEW w \in Admin,
             UpdateVariantRow(w) \/ FindStockItem(w) \/ CreateStockItem(w) \/ WakeItems(w) \/ BreakOff(w)
      PROVE  CatInv'
  BY <1>5, UpdateVariantRowKeeps, FindStockItemKeeps, CreateStockItemKeeps, WakeItemsKeeps, BreakOffKeeps
<1>6. CASE \E l \in CatalogueLine, v \in Owner : PlaceLine(l, v)
  BY <1>6, PlaceLineKeeps
<1>7. CASE UNCHANGED catVars
  BY <1>7, CatInvStutters
<1> QED
  BY <1>1, <1>2, <1>3, <1>4, <1>5, <1>6, <1>7 DEF CatalogueNext

\* As long as calls and orders do not overlap on a variant (LineKeepsIdentity says what else), the
\* stock item that buildLineItem resolved for a line of a tracked product belongs to the line's
\* variant, so that resolveForWrite accepts the line again, and the active stock items belong to
\* variants that may be ordered.
THEOREM LinesKeepTheirItems == CatalogueSpec => []LineKeepsIdentity
<1>1. CatalogueInit => CatInv
  BY CatalogueAssumption, CatInvAtFirst
<1>2. CatInv /\ [CatalogueNext]_catVars => CatInv'
  BY CatalogueAssumption, CatInvKept
<1>3. CatInv => LineKeepsIdentity
  BY CatalogueAssumption, CatInvFollows
<1> QED
  BY <1>1, <1>2, <1>3, PTL DEF CatalogueSpec
================================================================================
